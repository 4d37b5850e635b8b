------------------------------ MODULE TextEdits ------------------------------
(***************************************************************************)
(* The text algorithm under every edit of a kMark document: a transaction  *)
(* of UTF-16 ranges applied to a rope of Unicode scalar values             *)
(* (apply_transaction in crates/kmark-core/src/editor_document.rs), the    *)
(* frontend's own check of a transaction before it queues it (enqueue in   *)
(* src/adapters/editor/editorMutationQueue.ts) and the hint of what a      *)
(* single change touched that the preview patch relies on.                 *)
(*                                                                         *)
(* A text is a sequence of characters. A character of WideChars takes two  *)
(* UTF-16 code units (a surrogate pair), every other one takes one. What   *)
(* CodeMirror counts is code units, what the rope counts is characters.    *)
(***************************************************************************)
EXTENDS Integers, Sequences, SequencesExt

CONSTANTS
  WideChars,       \* characters outside the basic plane
  CarriageReturn,  \* the character \r, which no canonical text contains
  Rejected,        \* the result of an edit the document refuses
  NoIndex          \* the result of a conversion that has no answer

-----------------------------------------------------------------------------
Width(c) == IF c \in WideChars THEN 2 ELSE 1

\* The UTF-16 offset of every character index.
Utf16Offsets(text) ==
  LET offset[k \in 0 .. Len(text)] == IF k = 0 THEN 0 ELSE offset[k - 1] + Width(text[k])
  IN  offset

Utf16Len(text) == Utf16Offsets(text)[Len(text)]

HasCarriageReturn(text) == Contains(text, CarriageReturn)

\* The character index of a UTF-16 offset, and NoIndex in the middle of a
\* surrogate pair or past the end of the text.
StrictUtf16ToChar(text, offset) ==
  LET found == {k \in 0 .. Len(text) : Utf16Offsets(text)[k] = offset}
  IN  IF found = {} THEN NoIndex ELSE CHOOSE k \in found : TRUE

-----------------------------------------------------------------------------
(***************************************************************************)
(* A change is [from, to, insert] in UTF-16 units of the text before the   *)
(* transaction; a transaction is [beforeLength, changes].                  *)
(***************************************************************************)
InOrder(changes) ==
  \A i \in 2 .. Len(changes) : changes[i].from >= changes[i - 1].to

ValidChange(text, change) ==
  /\ change.from <= change.to
  /\ change.to <= Utf16Len(text)
  /\ ~HasCarriageReturn(change.insert)
  /\ StrictUtf16ToChar(text, change.from) # NoIndex
  /\ StrictUtf16ToChar(text, change.to) # NoIndex

ValidTransaction(text, tx) ==
  /\ tx.beforeLength = Utf16Len(text)
  /\ tx.changes # << >>
  /\ InOrder(tx.changes)
  /\ \A i \in 1 .. Len(tx.changes) : ValidChange(text, tx.changes[i])

\* rope.remove(from..to) and rope.insert(from, insert).
Splice(text, from, to, insert) ==
  SubSeq(text, 1, from) \o insert \o SubSeq(text, to + 1, Len(text))

\* A change to a rope that the text before the transaction has become.
ApplyChange(text, rope, change) ==
  Splice(rope,
         StrictUtf16ToChar(text, change.from),
         StrictUtf16ToChar(text, change.to),
         change.insert)

\* Mutant: the changes are applied first to last.
EditedForward(text, changes) ==
  LET rope[j \in 0 .. Len(changes)] ==
        IF j = 0 THEN text ELSE ApplyChange(text, rope[j - 1], changes[j])
  IN  rope[Len(changes)]

\* The ranges are converted against the text before the transaction and the
\* changes applied last to first, so that no conversion goes stale.
Edited(text, changes) ==
  LET n == Len(changes)
      rope[j \in 0 .. n] ==
        IF j = 0 THEN text ELSE ApplyChange(text, rope[j - 1], changes[n + 1 - j])
  IN  rope[n]

ApplyTransaction(text, tx) ==
  IF ValidTransaction(text, tx) THEN Edited(text, tx.changes) ELSE Rejected

\* The candidate text of apply_mutation_batch: the transactions one after the
\* other, and nothing at all as soon as one of them is refused.
ApplyTransactions(text, txs) ==
  LET candidate[j \in 0 .. Len(txs)] ==
        IF j = 0 THEN text
        ELSE IF candidate[j - 1] = Rejected THEN Rejected
        ELSE ApplyTransaction(candidate[j - 1], txs[j])
  IN  IF txs = << >> THEN Rejected ELSE candidate[Len(txs)]

-----------------------------------------------------------------------------
(***************************************************************************)
(* What the frontend knows of a transaction without the rope.              *)
(***************************************************************************)
\* Mutant: the order of the changes is not checked.
EnqueueAcceptsAnyOrder(optimisticLength, tx) ==
  /\ tx.beforeLength = optimisticLength
  /\ \A i \in 1 .. Len(tx.changes) :
       /\ tx.changes[i].from <= tx.changes[i].to
       /\ tx.changes[i].to <= tx.beforeLength
       /\ ~HasCarriageReturn(tx.changes[i].insert)

\* The check EditorMutationQueue.enqueue makes against the length it expects.
EnqueueAccepts(optimisticLength, tx) ==
  /\ tx.beforeLength = optimisticLength
  /\ InOrder(tx.changes)
  /\ \A i \in 1 .. Len(tx.changes) :
       /\ tx.changes[i].from <= tx.changes[i].to
       /\ tx.changes[i].to <= tx.beforeLength
       /\ ~HasCarriageReturn(tx.changes[i].insert)

-----------------------------------------------------------------------------
\* Mutant: the inserted range is measured in code units.
SingleChangeImpactInUnits(text, txs) ==
  IF Len(txs) # 1 \/ Len(txs[1].changes) # 1
    THEN NoIndex
    ELSE LET change == txs[1].changes[1]
             from == StrictUtf16ToChar(text, change.from)
             to == StrictUtf16ToChar(text, change.to)
         IN  IF from = NoIndex \/ to = NoIndex
               THEN NoIndex
               ELSE [before |-> <<from, to>>,
                     after |-> <<from, from + Utf16Len(change.insert)>>]

\* The character ranges a batch of one change replaces and fills, for the
\* preview patch, and NoIndex for a batch it says nothing about.
SingleChangeImpact(text, txs) ==
  IF \/ Len(txs) # 1
     \/ Len(txs[1].changes) # 1
     \/ txs[1].beforeLength # Utf16Len(text)
    THEN NoIndex
    ELSE LET change == txs[1].changes[1]
             from == StrictUtf16ToChar(text, change.from)
             to == StrictUtf16ToChar(text, change.to)
         IN  IF \/ change.from > change.to
                \/ HasCarriageReturn(change.insert)
                \/ from = NoIndex
                \/ to = NoIndex
               THEN NoIndex
               ELSE [before |-> <<from, to>>,
                     after |-> <<from, from + Len(change.insert)>>]
=============================================================================
