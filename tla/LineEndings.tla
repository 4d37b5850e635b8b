----------------------------- MODULE LineEndings -----------------------------
(***************************************************************************)
(* The line-ending boundary of a document: a file is read into LF-only     *)
(* text plus the ending it mostly used, edited as LF text, and written     *)
(* back by streaming rope chunks (normalize_editor_text, write_to and      *)
(* write_crlf_chunk in crates/kmark-core/src/editor_document.rs).          *)
(***************************************************************************)
EXTENDS Integers, Sequences, FiniteSets, SequencesExt, FiniteSetsExt

CONSTANTS
  Letters,   \* every character that ends no line
  CR, LF,
  MaxFile    \* bound on the characters of a file

ASSUME EndingsAreNoLetters == {CR, LF} \cap Letters = {} /\ CR # LF

VARIABLES
  file,        \* the characters on disk
  lfText,        \* the text of the open document
  lineEnding,  \* "lf" or "crlf"
  phase        \* "closed", "open" or "written"

vars == <<file, lfText, lineEnding, phase>>

-----------------------------------------------------------------------------
(* Reading. *)

\* The positions of the \r of each \r\n, and of each line end that is one
\* character.
CrlfEnds(s) == {i \in 1 .. Len(s) - 1 : s[i] = CR /\ s[i + 1] = LF}

SingleEnds(s) ==
  {i \in 1 .. Len(s) : s[i] \in {CR, LF} /\ i \notin CrlfEnds(s) /\ i - 1 \notin CrlfEnds(s)}

\* The majority ending; on a tie the first one, and LF for a file of one line.
DetectedEnding(s) ==
  LET crlf == CrlfEnds(s)
      single == SingleEnds(s)
  IN  CASE Cardinality(crlf) > Cardinality(single) -> "crlf"
        [] Cardinality(crlf) < Cardinality(single) -> "lf"
        [] OTHER -> IF crlf # {} /\ Min(crlf) < Min(single) THEN "crlf" ELSE "lf"

CanonicalText(s) ==
  FlattenSeq([i \in 1 .. Len(s) |->
                IF i \in CrlfEnds(s) THEN << >> ELSE IF s[i] = CR THEN <<LF>> ELSE <<s[i]>>])

-----------------------------------------------------------------------------
(* Writing. *)

\* Mutant: a line feed that starts a chunk is taken to have its \r already.
WriteCrlfChunkAfterCr(chunk) ==
  FlattenSeq([i \in 1 .. Len(chunk) |->
                IF chunk[i] = LF /\ i > 1 THEN <<CR, LF>> ELSE <<chunk[i]>>])

WriteCrlfChunk(chunk) ==
  FlattenSeq([i \in 1 .. Len(chunk) |-> IF chunk[i] = LF THEN <<CR, LF>> ELSE <<chunk[i]>>])

WrittenChunks(chunks, ending) ==
  IF ending = "lf"
    THEN FlattenSeq(chunks)
    ELSE FlattenSeq([i \in 1 .. Len(chunks) |-> WriteCrlfChunk(chunks[i])])

-----------------------------------------------------------------------------
Init ==
  /\ file \in UNION {[1 .. n -> Letters \cup {CR, LF}] : n \in 0 .. MaxFile}
  /\ lfText = << >>
  /\ lineEnding = "lf"
  /\ phase = "closed"

\* EditorDocument::from_external_text.
Open ==
  /\ phase = "closed"
  /\ lfText' = CanonicalText(file)
  /\ lineEnding' = DetectedEnding(file)
  /\ phase' = "open"
  /\ UNCHANGED file

\* The editor changes the end of the text, only ever by LF text.
Edit ==
  /\ phase = "open"
  /\ \/ /\ Len(lfText) < MaxFile
        /\ \E c \in Letters \cup {LF} : lfText' = Append(lfText, c)
     \/ /\ lfText # << >>
        /\ lfText' = Front(lfText)
  /\ UNCHANGED <<file, lineEnding, phase>>

\* EditorDocumentPersistenceSnapshot::write_to. The rope may hold its text in
\* any chunks: cut says where, a chunk may end right before a line feed.
Save ==
  /\ phase = "open"
  /\ \E cut \in 0 .. Len(lfText) :
       LET chunks == <<SubSeq(lfText, 1, cut), SubSeq(lfText, cut + 1, Len(lfText))>>
       IN  file' = WrittenChunks(chunks, lineEnding)
  /\ phase' = "written"
  /\ UNCHANGED <<lfText, lineEnding>>

Close ==
  /\ phase = "written"
  /\ phase' = "closed"
  /\ UNCHANGED <<file, lfText, lineEnding>>

Next == Open \/ Edit \/ Save \/ Close

Spec == Init /\ [][Next]_vars

-----------------------------------------------------------------------------
\* The text in memory never holds a \r, whatever mixture of endings the file had:
\* the canonical form every UTF-16 offset is counted in.
TypeOK ==
  /\ file \in Seq(Letters \cup {CR, LF})
  /\ lfText \in Seq(Letters \cup {LF})
  /\ lineEnding \in {"lf", "crlf"}
  /\ phase \in {"closed", "open", "written"}

\* What was written reads back as the same document: same text, and the same
\* ending as soon as there is a line to end, however the rope was cut.
WrittenReadsBack ==
  phase = "written" =>
    /\ CanonicalText(file) = lfText
    /\ Contains(lfText, LF) => DetectedEnding(file) = lineEnding

=============================================================================
