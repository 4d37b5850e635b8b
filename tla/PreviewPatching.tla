--------------------------- MODULE PreviewPatching ---------------------------
(***************************************************************************)
(* A document being edited, and the PreviewRenderCache that follows it:    *)
(* patch_with_cached_assets renders the page of the edited section alone   *)
(* where it takes the rest of the preview to be unchanged, and everything  *)
(* is rendered again where it does not.                                    *)
(***************************************************************************)
EXTENDS PreviewPages

CONSTANTS
  Documents,    \* documents to start from
  Replacements, \* lines an edit may write
  MaxRevision   \* bound on the edits

VARIABLES
  document,  \* the lines
  revision,
  impact,    \* the characters the last batch replaced, or None
  cache      \* the PreviewRenderCache

vars == <<document, revision, impact, cache>>

\* PreviewRenderCache::new
NewCache(lines, rev) ==
  [revision |-> rev, lines |-> lines, sections |-> Sections(lines), parts |-> Parts(lines)]

Init ==
  /\ document \in Documents
  /\ revision = 1
  /\ impact = None
  /\ cache = NewCache(document, 1)

-----------------------------------------------------------------------------
(* Patching *)

\* Lines that hold <, [, ``` or begin with #: an edit of one is not local.
Marked == Comments \cup {"comment", "fence", "mermaid", "heading"}

SameProjections(old, new) ==
  /\ Context(old).headings = Context(new).headings
  /\ Context(old).numbers = Context(new).numbers

\* Mutant: the comments and headings of the section are not looked at.
StableByMarksAlone(old, new) ==
  /\ Len(old) = Len(new)
  /\ LET changed == {i \in 1 .. Len(old) : old[i] # new[i]}
     IN  /\ Cardinality(changed) = 1
         /\ \A i \in changed : {old[i].kind, new[i].kind} \cap (Marked \ {"heading"}) = {}

\* section_has_stable_document_context
Stable(old, new) ==
  /\ Len(old) = Len(new)
  /\ LET changed == {i \in 1 .. Len(old) : old[i] # new[i]}
     IN  /\ Cardinality(changed) = 1
         /\ \A i \in changed : {old[i].kind, new[i].kind} \cap Marked = {}
  /\ SameProjections(old, new)

\* The section that holds all of the replaced text; an insertion at its very end
\* belongs to what follows.
EditedSections ==
  {k \in 1 .. Len(cache.sections) :
     LET section == cache.sections[k]
     IN  /\ impact.from >= section.start
         /\ impact.to <= section.end
         /\ ~(impact.from = impact.to /\ impact.from = section.end)}

\* By how much the document has grown.
Growth == Offset(document, Len(document)) - Offset(cache.lines, Len(cache.lines))

\* reindex_unchanged_section_boundaries: the break behind the section is in its
\* place, which is all that is looked at.
BoundaryKept(k) ==
  LET end == cache.sections[k].end + Growth
  IN  IF k < Len(cache.sections)
        THEN \E i \in 1 .. Len(document) :
               /\ Offset(document, i - 1) = end /\ document[i].kind = "break"
               /\ Offset(document, i) = cache.sections[k + 1].start + Growth
        ELSE end = Offset(document, Len(document))

\* Mutant: the section that was edited ends where it ended.
ReindexedBehind(k) ==
  [i \in 1 .. Len(cache.sections) |->
     LET section == cache.sections[i]
     IN  IF i <= k THEN section
         ELSE [section EXCEPT !.start = @ + Growth, !.end = @ + Growth]]

\* The boundaries behind the edit move with it.
Reindexed(k) ==
  [i \in 1 .. Len(cache.sections) |->
     LET section == cache.sections[i]
     IN  [section EXCEPT !.start = IF i <= k THEN @ ELSE @ + Growth,
                         !.end   = IF i < k THEN @ ELSE @ + Growth]]

\* The section, split by itself, is one page.
IsOnePage(split, lines) ==
  /\ Len(split.segments) = 1 /\ split.segments[1].content = lines
  /\ split.ranges = <<[first |-> 0, end |-> 1]>>

\* patch_with_cached_assets, up to the page: the section k has one page p to itself,
\* before the edit and, read alone, after it.
Patchable(k, p) ==
  LET section == cache.sections[k]
      old == Within(cache.lines, section.start, section.end)
      new == Within(document, section.start, section.end + Growth)
      range == cache.parts.ranges[k]
      segment == cache.parts.segments[p]
  IN  /\ range.end = range.first + 1 /\ p = range.end
      /\ Stable(old, new)
      /\ BoundaryKept(k)
      /\ new # << >>
      /\ segment.content = old /\ segment.offset = section.line
      /\ IsOnePage(Split(new), new)
      /\ Met(new, {"mermaid"}) = {}

\* What the cache would patch: the section and its page.
Patches ==
  IF impact = None \/ revision # cache.revision + 1 \/ Len(cache.sections) < 2
    THEN {}
  ELSE IF impact.after - impact.to # Growth
    THEN {}
    ELSE {<<k, p>> \in EditedSections \X (1 .. Len(cache.parts.segments)) : Patchable(k, p)}

\* The segment keeps the settings and the line it had.
Patched(k, p) ==
  LET section == cache.sections[k]
      segment == [cache.parts.segments[p] EXCEPT
                    !.content = Within(document, section.start, section.end + Growth)]
  IN  [cache EXCEPT
         !.revision = revision, !.lines = document, !.sections = Reindexed(k),
         !.parts.segments[p] = segment,
         !.parts.pages[p] = RenderPage(segment, cache.parts.context, cache.parts.starts[p])]

-----------------------------------------------------------------------------
(* Actions *)

\* A batch is applied to the document. One of several changes has no impact (those of
\* two neighbouring lines stand for them).
Apply(lines, newImpact) ==
  /\ revision < MaxRevision
  /\ document' = lines
  /\ revision' = revision + 1
  /\ impact' = newImpact
  /\ UNCHANGED cache

\* single_change_impact, of the lines from first on that become others.
Replaces(first, count, lines) ==
  LET from == Offset(document, first - 1)
      to == Offset(document, first - 1 + count)
  IN  [from |-> from, to |-> to, after |-> from + Offset(lines, Len(lines))]

ChangeLine ==
  \E i \in 1 .. Len(document), line \in Replacements :
    Apply([document EXCEPT ![i] = line], Replaces(i, 1, <<line>>))

InsertLine ==
  \E i \in 1 .. Len(document) + 1, line \in Replacements :
    Apply(InsertAt(document, i, line), Replaces(i, 0, <<line>>))

DeleteLine ==
  \E i \in 1 .. Len(document) : Apply(RemoveAt(document, i), Replaces(i, 1, << >>))

ChangeTwo ==
  \E i \in 1 .. Len(document) - 1, line \in Replacements :
    Apply([document EXCEPT ![i] = line, ![i + 1] = line], None)

Patch == \E patch \in Patches :
  /\ cache' = Patched(patch[1], patch[2])
  /\ UNCHANGED <<document, revision, impact>>

RenderAll ==
  /\ cache.revision # revision
  /\ Patches = {}
  /\ cache' = NewCache(document, revision)
  /\ UNCHANGED <<document, revision, impact>>

Next == ChangeLine \/ InsertLine \/ DeleteLine \/ ChangeTwo \/ Patch \/ RenderAll

Spec == Init /\ [][Next]_vars

-----------------------------------------------------------------------------
(* Properties *)

\* The comment above PreviewRenderCache: "A patch is emitted only when cross-section
\* output is proven unchanged". What is shown after an update, patched or not, is what
\* a rendering of the whole document shows.
ShowsAll(parts, full) == parts.pages = full.pages /\ parts.ranges = full.ranges

PatchIsFullRendering == cache.revision = revision => ShowsAll(cache.parts, Parts(document))

\* What can come between a patch and a full rendering (the finding): a numbering reset,
\* a scope that ends in a section that did not open it, and a line that decides whether
\* a later page break is inside a comment.
Depth(lines) ==
  LET met == Met(lines, {"open", "close"})
      step(d, i) == IF i \notin met THEN d ELSE IF lines[i].kind = "open" THEN d + 1 ELSE d - 1
  IN  [n \in 0 .. Len(lines) |-> FoldLeftDomain(step, 0, SubSeq(lines, 1, n))]

Plain(lines) ==
  /\ \A i \in 1 .. Len(lines) : "reset" \notin DOMAIN lines[i].dir /\ lines[i].kind # "comment"
  /\ \A k \in 1 .. Len(Sections(lines)) :
       LET section == Sections(lines)[k]
       IN  Range(Depth(Within(lines, section.start, section.end))) \subseteq Nat

\* The promise holds of documents without those.
PlainPatchIsFullRendering ==
  cache.revision = revision /\ Plain(document) => ShowsAll(cache.parts, Parts(document))

\* A fenced block does not use up page settings that were just read, so that the next
\* page may begin at the settings, before the block: an empty page comes first, and the
\* block is lost if its page has nothing else.
SettingsBeforeFence(lines) ==
  \E i, j \in 1 .. Len(lines) :
    /\ i < j /\ j \in Met(lines, {"fence", "mermaid"})
    /\ lines[i].kind = "params" /\ DOMAIN PagePart(lines[i].dir) # {}
    /\ \A n \in i + 1 .. j - 1 : lines[n].kind \in {"blank", "note", "params"}

\* The pages of a section show the visible lines between its boundaries, in order, and
\* name the place of each in the source, whatever the scopes and settings that split and
\* repeat them and the patches that moved the boundaries. (The next edit is looked for
\* between the boundaries; scrolling, hit testing and proposals find a source line by its
\* element.)
EveryLineIsOnItsPage ==
  cache.revision = revision /\ ~SettingsBeforeFence(document) =>
    /\ Len(cache.parts.ranges) = Len(cache.sections)
    /\ \A k \in 1 .. Len(cache.sections) :
         LET section == cache.sections[k]
             range == cache.parts.ranges[k]
             pages == SubSeq(cache.parts.pages, range.first + 1, range.end)
             entries == FlattenSeq([p \in 1 .. Len(pages) |-> pages[p].html])
             texts == SelectSeq(entries, LAMBDA entry : entry.line.kind \notin Comments)
             visible == Ascending({i \in VisibleLines(document) :
                          /\ i \in LinesWithin(document, section.start, section.end)
                          /\ document[i].kind \notin Comments}, document)
         IN  [e \in 1 .. Len(texts) |-> <<texts[e].source, texts[e].line>>]
               = [v \in 1 .. Len(visible) |-> <<visible[v] - 1, document[visible[v]]>>]
=============================================================================
