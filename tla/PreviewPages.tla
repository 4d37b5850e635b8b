----------------------------- MODULE PreviewPages -----------------------------
(***************************************************************************)
(* How crates/kmark-core/src/render_markdown_preview.rs turns a document   *)
(* into preview pages, and how PreviewRenderCache patches the pages after  *)
(* an edit instead of rendering the document again.                        *)
(*                                                                         *)
(* A document is a sequence of lines; a line is what the line scanners     *)
(* tell apart. What the Markdown parser makes of the text of a page is not *)
(* modelled: the output of a page is its visible lines, each with its      *)
(* place in the source and with what depends on the rest of the document   *)
(* (heading numbers and ids, tables of contents, Mermaid numbers).         *)
(* Positions inside a page are lines before a place, where the code has    *)
(* byte offsets and line numbers side by side; those of the sections are   *)
(* characters, as in the code, every line having the length of its kind.   *)
(***************************************************************************)
EXTENDS Integers, Sequences, FiniteSets, TLC, SequencesExt

CONSTANT None

\* A line. level is that of a heading, dir what a directive sets: page settings,
\* and heading numbering under "numbers", "from" and "depth".
Line(kind) == [kind |-> kind, level |-> 0, dir |-> << >>]
Heading(level) == [kind |-> "heading", level |-> level, dir |-> << >>]
Directive(kind, dir) == [kind |-> kind, level |-> 0, dir |-> dir]

\* "open" and "close" delimit a scope, "params" is any other Kmark comment and
\* "toc" one that asks for a table of contents, "break" is <!-- --- -->, "note" a
\* comment of the author, "comment" opens one of several lines, "uncomment" holds
\* the --> that ends it, "fence" and "mermaid" open a fenced block, which only a
\* "fence" ends; "blank", "text" and "prose" are text.
Comments == {"open", "close", "params", "toc", "break", "note"}
ClosesComment == Comments \cup {"uncomment"}

Numbering == {"numbers", "from", "depth"}
Slice(lines, from, to) == SubSeq(lines, from + 1, to)
Without(f, keys) == [k \in DOMAIN f \ keys |-> f[k]]
PagePart(dir) == Without(dir, Numbering)

\* The characters of a line with its end, and those before a place.
Width(line) ==
  CASE line.kind = "blank" -> 1
    [] line.kind = "prose" -> 3
    [] OTHER -> 2

Offset(lines, place) ==
  LET upTo[n \in 0 .. Len(lines)] == IF n = 0 THEN 0 ELSE upTo[n - 1] + Width(lines[n])
  IN  upTo[place]

\* Fences and comments of several lines, followed in the same way by the section
\* index, the page splitter and the preprocessor: the mode a line leaves behind.
NextMode(mode, line) ==
  CASE mode = "comment" -> IF line.kind \in ClosesComment THEN "normal" ELSE "comment"
    [] mode = "fence" -> IF line.kind = "fence" THEN "normal" ELSE "fence"
    [] line.kind \in {"fence", "mermaid"} -> "fence"
    [] line.kind = "comment" -> "comment"
    [] OTHER -> "normal"

\* A set of line numbers, in order.
Ascending(set, lines) == SelectSeq([i \in 1 .. Len(lines) |-> i], LAMBDA i : i \in set)

\* The mode each line is met in.
Modes(lines) ==
  FoldLeft(LAMBDA modes, line : Append(modes, NextMode(Last(modes), line)), <<"normal">>, lines)

Met(lines, kinds) ==
  LET modes == Modes(lines)
  IN  {i \in 1 .. Len(lines) : modes[i] = "normal" /\ lines[i].kind \in kinds}

-----------------------------------------------------------------------------
(* Explicit sections *)

\* The lines between two offsets.
LinesWithin(lines, from, to) ==
  {i \in 1 .. Len(lines) : from <= Offset(lines, i - 1) /\ Offset(lines, i - 1) < to}
Within(lines, from, to) ==
  LET within == Ascending(LinesWithin(lines, from, to), lines)
  IN  [i \in 1 .. Len(within) |-> lines[within[i]]]

\* index_explicit_source_sections: what lies between the page breaks.
Sections(lines) ==
  LET breaks == Ascending(Met(lines, {"break"}), lines)
      starts == <<0>> \o breaks
      ends == [i \in 1 .. Len(breaks) |-> breaks[i] - 1] \o <<Len(lines)>>
  IN  [i \in 1 .. Len(starts) |->
         [start |-> Offset(lines, starts[i]), end |-> Offset(lines, ends[i]), line |-> starts[i]]]

-----------------------------------------------------------------------------
(* Page directives *)

\* PartialPageDirective::merge: later settings win; to ask for page numbers puts
\* them at the bottom unless a place is known.
Merge(dir, other) ==
  LET merged == other @@ dir
      placed == "position" \in DOMAIN merged /\ merged["position"] # "none"
  IN  IF "display" \in DOMAIN other /\ other["display"] /\ "position" \notin DOMAIN other /\ ~placed
        THEN ("position" :> "bottom-center") @@ merged
        ELSE merged

MergeAll(dirs) == FoldLeft(Merge, << >>, dirs)

\* The settings in force inside scopes and after directives: those of depth 0, then
\* those of each scope and of its depth. For a page that starts at start, a numbering
\* reset that lies before it is spent; start is None where no page is meant.
ActiveDirective(scopes, directives, start) ==
  LET at(depth) == SelectSeq(directives, LAMBDA d : d.depth = depth)
      inOrder == FlattenSeq([i \in 1 .. Len(scopes) + 1 |->
                   (IF i = 1 THEN << >> ELSE <<scopes[i - 1]>>) \o at(i - 1)])
      inForce(d) == IF start # None /\ d.end <= start THEN Without(d.dir, {"reset"}) ELSE d.dir
  IN  MergeAll([i \in 1 .. Len(inOrder) |-> inForce(inOrder[i])])

\* push_markdown_page_segment: the lines of the page behind those that opened the
\* scopes it continues.
WithSegment(s, lines, end) ==
  LET prefix == FlattenSeq([i \in 1 .. Len(s.scopes) |->
                   IF s.scopes[i].end <= s.from THEN s.scopes[i].lines ELSE << >>])
      segment == [content |-> prefix \o Slice(lines, s.from, end),
                  offset  |-> IF s.from < Len(prefix) THEN 0 ELSE s.from - Len(prefix),
                  dir     |-> ActiveDirective(s.scopes, s.directives, s.from)]
  IN  [s EXCEPT !.segments = Append(@, segment)]

-----------------------------------------------------------------------------
(* split_markdown_pages. s holds the pages so far (segments, and ranges: those of  *)
(* each section), where the page begins (from), whether it has content (rendered), *)
(* the scopes open, the page directives in force and the comments just read, which *)
(* may still become one of either (pending).                                       *)

NoPending == [lines |-> << >>, dir |-> << >>, start |-> 0, end |-> 0]

SplitInit ==
  [segments |-> << >>, ranges |-> << >>, first |-> 0, from |-> 0, rendered |-> FALSE,
   scopes |-> << >>, directives |-> << >>, pending |-> NoPending]

Drop(s) == [s EXCEPT !.pending = NoPending]

\* update_pending_kmark_scope_prelude
OnParams(s, line, at) ==
  IF s.pending = NoPending
    THEN [s EXCEPT !.pending = [lines |-> <<line>>, dir |-> PagePart(line.dir),
                                start |-> at, end |-> at + 1]]
    ELSE [s EXCEPT !.pending.lines = Append(@, line),
                   !.pending.dir = Merge(@, PagePart(line.dir)),
                   !.pending.end = at + 1]

\* The page so far ends before place if the settings change.
CutIf(s, lines, differs, place) ==
  IF s.rendered /\ differs
    THEN [WithSegment(s, lines, place) EXCEPT !.from = place, !.rendered = FALSE]
    ELSE s

OnOpen(s, lines, line, at) ==
  LET scope == [lines |-> Append(s.pending.lines, line),
                end   |-> at + 1,
                dir   |-> Merge(s.pending.dir, PagePart(line.dir))]
      scopes == Append(s.scopes, scope)
      differs == ActiveDirective(s.scopes, s.directives, None)
                   # ActiveDirective(scopes, s.directives, None)
      place == IF s.pending = NoPending THEN at ELSE s.pending.start
  IN  [Drop(CutIf(s, lines, differs, place)) EXCEPT !.scopes = scopes]

OnClose(s, lines, at) ==
  LET depth == Len(s.scopes)
      scopes == IF depth = 0 THEN << >> ELSE Front(s.scopes)
      directives == SelectSeq(s.directives, LAMBDA d : d.depth < depth)
      differs == ActiveDirective(s.scopes, s.directives, None)
                   # ActiveDirective(scopes, directives, None)
      prefixed == depth > 0 /\ Last(s.scopes).end <= s.from
      cut == CutIf(s, lines, differs \/ prefixed, at)
      moved == IF s.rendered /\ (differs \/ prefixed) THEN [cut EXCEPT !.from = at + 1] ELSE s
  IN  [Drop(moved) EXCEPT !.scopes = scopes, !.directives = directives]

OnBreak(s, lines, at) ==
  LET ended == IF s.rendered THEN WithSegment(s, lines, at) ELSE s
      pages == Len(ended.segments)
  IN  [Drop(ended) EXCEPT !.ranges = Append(@, [first |-> s.first, end |-> pages]),
                          !.first = pages, !.from = at + 1, !.rendered = FALSE]

\* apply_pending_page_directive_before_content; the page keeps its content.
ApplyPending(s, lines, rendered) ==
  LET directives == Append(s.directives, [end |-> s.pending.end, depth |-> Len(s.scopes),
                                          dir |-> s.pending.dir])
      differs == ActiveDirective(s.scopes, s.directives, None)
                   # ActiveDirective(s.scopes, directives, None)
      cut == IF rendered /\ differs
               THEN [WithSegment(s, lines, s.pending.start) EXCEPT !.from = s.pending.start]
               ELSE s
  IN  [Drop(cut) EXCEPT !.directives = directives]

HasPageDirective(pending) == DOMAIN pending.dir # {}

OnBlank(s, lines) ==
  IF ~HasPageDirective(s.pending) THEN Drop(s)
  ELSE IF s.rendered THEN s
  ELSE ApplyPending(s, lines, FALSE)

OnContent(s, lines) ==
  [IF HasPageDirective(s.pending) THEN ApplyPending(s, lines, s.rendered) ELSE Drop(s)
     EXCEPT !.rendered = TRUE]

SplitLine(s, lines, i) ==
  LET line == lines[i]
  IN  CASE line.kind \in {"fence", "mermaid"} -> [s EXCEPT !.rendered = TRUE]
        [] line.kind = "open" -> OnOpen(s, lines, line, i - 1)
        [] line.kind = "close" -> OnClose(s, lines, i - 1)
        [] line.kind = "break" -> OnBreak(s, lines, i - 1)
        [] line.kind = "toc" -> [Drop(s) EXCEPT !.rendered = TRUE]
        [] line.kind = "params" -> OnParams(s, line, i - 1)
        [] line.kind = "blank" -> OnBlank(s, lines)
        [] line.kind \in {"note", "comment"} -> s
        [] OTHER -> OnContent(s, lines)

\* The end: the last section has the pages from first on, and a document at least one.
SplitEnds(first, ranges, segments) ==
  [segments |-> segments, ranges |-> Append(ranges, [first |-> first, end |-> Len(segments)])]

LastPage(s, lines) ==
  IF s.rendered THEN WithSegment(s, lines, Len(lines)).segments
  ELSE IF s.segments = << >> THEN <<[content |-> << >>, offset |-> 0, dir |-> << >>]>>
  ELSE s.segments

SplitEnd(s, lines) == SplitEnds(s.first, s.ranges, LastPage(s, lines))

Split(lines) ==
  LET modes == Modes(lines)
      step(s, i) == IF modes[i] = "normal" THEN SplitLine(s, lines, i) ELSE s
  IN  SplitEnd(FoldLeftDomain(step, SplitInit, lines), lines)

-----------------------------------------------------------------------------
(* What a page takes from the rest of the document *)

\* apply_kmark_heading_number_comment and next_kmark_heading_number_text. n holds the
\* numbering of the scopes open, that of the comments just read (pending), the
\* counter of each level and the number of each heading so far, by its line.
NumberingPart(dir) == Without(dir, DOMAIN dir \ Numbering)

NumberHeading(n, level, at) ==
  LET config == FoldLeft(LAMBDA c, dir : dir @@ c,
                         ("numbers" :> FALSE) @@ ("from" :> 1) @@ ("depth" :> 3), n.scopes)
      from == config["from"]
      counted == [l \in 1 .. 6 |->
                    CASE l < level -> IF l >= from /\ n.counters[l] = 0 THEN 1 ELSE n.counters[l]
                      [] l = level -> n.counters[l] + 1
                      [] OTHER -> 0]
  IN  IF config["numbers"] /\ level >= from /\ level <= Min({from + config["depth"] - 1, 6})
        THEN [n EXCEPT !.counters = counted,
                       !.numbers = (at :> SubSeq(counted, from, level)) @@ @]
        ELSE n

NumberLine(n, line, at) ==
  LET pending == NumberingPart(line.dir) @@ n.pending
  IN  CASE line.kind \in {"params", "toc"} -> [n EXCEPT !.pending = pending]
        [] line.kind = "open" -> [n EXCEPT !.scopes = Append(@, pending), !.pending = << >>]
        [] line.kind = "close" ->
             [n EXCEPT !.scopes = IF @ = << >> THEN @ ELSE Front(@), !.pending = << >>]
        [] line.kind = "heading" -> NumberHeading([n EXCEPT !.pending = << >>], line.level, at)
        [] line.kind \in {"break", "note", "comment"} -> n
        [] OTHER -> [n EXCEPT !.pending = << >>]

\* PreviewDocumentContext: the headings, linked where a table of contents lists
\* them, and their numbers.
Context(lines) ==
  LET modes == Modes(lines)
      headings == Ascending(Met(lines, {"heading"}), lines)
      numbering == [scopes |-> << >>, pending |-> << >>, counters |-> [l \in 1 .. 6 |-> 0],
                    numbers |-> << >>]
      step(n, i) == CASE modes[i] = "normal" -> NumberLine(n, lines[i], i - 1)
                      [] modes[i] = "fence" -> [n EXCEPT !.pending = << >>]
                      [] OTHER -> n
  IN  [headings |-> [i \in 1 .. Len(headings) |->
                       [line   |-> headings[i] - 1,
                        level  |-> lines[headings[i]].level,
                        linked |-> \E t \in Met(lines, {"toc"}) : t < headings[i]]],
       numbers  |-> FoldLeftDomain(step, numbering, lines).numbers]

NumberAt(context, at) == IF at \in DOMAIN context.numbers THEN context.numbers[at] ELSE << >>

\* resolve_page: what the settings of a page make of the defaults.
PageConfig(dir) ==
  LET set(key, default) == IF key \in DOMAIN dir THEN dir[key] ELSE default
      position == set("position", "none")
  IN  [size     |-> set("size", "a4"),
       reset    |-> set("reset", FALSE),
       visible  |-> set("display", TRUE),
       position |-> IF set("display", FALSE) /\ position = "none" THEN "bottom-center" ELSE position]

\* The lines of a page that leave something in its output.
VisibleLines(lines) ==
  LET modes == Modes(lines)
  IN  {i \in 1 .. Len(lines) :
         \/ modes[i] = "fence"
         \/ modes[i] = "normal" /\ lines[i].kind \notin {"blank", "break", "note", "comment"}}

\* render_page_segment: the page, and the number of its Mermaid blocks.
RenderPage(segment, context, mermaids) ==
  LET lines == segment.content
      modes == Modes(lines)
      visible == Ascending(VisibleLines(lines), lines)
      diagrams == Met(lines, {"mermaid"})
      entries(at) == SelectSeq(context.headings, LAMBDA h : h.line > at)
      shown(i) ==
        LET at == segment.offset + i - 1
            linked == {h \in Range(context.headings) : h.line = at /\ h.linked}
        IN  IF modes[i] # "normal" THEN << >>
            ELSE CASE lines[i].kind = "heading" ->
                        <<NumberAt(context, at), <<Cardinality(linked)>> >>
                   [] lines[i].kind = "toc" ->
                        [e \in 1 .. Len(entries(at)) |->
                           <<entries(at)[e].line, entries(at)[e].level>>
                             \o NumberAt(context, entries(at)[e].line)]
                   [] lines[i].kind = "mermaid" ->
                        << <<mermaids + Cardinality({d \in diagrams : d <= i})>> >>
                   [] OTHER -> << >>
  IN  [html   |-> [v \in 1 .. Len(visible) |->
                     [line   |-> lines[visible[v]],
                      source |-> segment.offset + visible[v] - 1,
                      shown  |-> shown(visible[v])]],
       config |-> PageConfig(segment.dir)]

MermaidsIn(segment) == Cardinality(Met(segment.content, {"mermaid"}))

\* render_preview_parts: everything about a document.
RenderParts(split, context) ==
  LET starts == [p \in 1 .. Len(split.segments) |->
                   FoldLeft(LAMBDA n, segment : n + MermaidsIn(segment), 0,
                            SubSeq(split.segments, 1, p - 1))]
  IN  [context |-> context, segments |-> split.segments, ranges |-> split.ranges, starts |-> starts,
       pages |-> [p \in 1 .. Len(split.segments) |->
                    RenderPage(split.segments[p], context, starts[p])]]

Parts(lines) == RenderParts(Split(lines), Context(lines))
=============================================================================
