---------------------------- MODULE PreviewMarkup ----------------------------
(***************************************************************************)
(* HtmlEmitter of crates/kmark-core/src/render_markdown_preview.rs: the    *)
(* events of the Markdown parser, with the Kmark comments put back between *)
(* them, become the HTML of a page.                                        *)
(*                                                                         *)
(* The parser's events nest; a comment may come between any two of them.   *)
(* Tags stand for what they delimit; attributes are what a comment asks    *)
(* for or nothing. The ghosts say where in the parser's tree a thing was   *)
(* begun, which the emitter does not know.                                 *)
(***************************************************************************)
EXTENDS Integers, Sequences, SequencesExt

CONSTANTS
  None,
  Kinds,     \* elements the document may have
  MaxDepth,  \* bound on the elements open
  MaxScopes  \* bound on the scopes open

VARIABLES
  elements,  \* what the parser is in, from the outside
  tags,      \* tags written and not closed
  crossed,   \* a closing tag was written that does not match the last open one
  scopes,    \* kmark_scope_stack
  inlines,   \* kmark_inline_scope_stack
  pending,   \* pending_kmark_params
  single,    \* active_kmark_single_block
  style,     \* pending_kmark_block_style, _page_valign, _table_fit are set
  quotes,    \* blockquote_stack
  callouts,  \* callout_stack: the state of each marker paragraph
  footnotes, \* footnote_definition_stack: paragraphs of each, counted to two
  images,    \* image_stack, its length
  badLinks,  \* suppressed_link_depth
  tidy       \* ghost: scopes, elements and lines of titles have not crossed in the source

emitter == <<tags, crossed, scopes, inlines, pending, single, style, quotes, callouts,
             footnotes, images, badLinks>>
markupVars == <<emitter, elements, tidy>>

\* KmarkBlockEnd::from_start_tag: what a single setting can decorate. Lists stand with
\* their items, "paragraph" stands for headings, "list" for tables and definitions too,
\* "title" is the term of a definition.
BlockEnd == [paragraph |-> "paragraph", quote |-> "quote", callout |-> "quote", list |-> "list",
             code |-> "code", diagram |-> "code", footnote |-> "footnote"]
Inline == {"emphasis", "link", "badlink", "image"}

\* None is neither an element nor a tag.
ASSUME NoneIsNoElement ==
  None \notin Kinds \cup Inline
    \cup {"paragraph", "title", "callout", "code", "diagram", "scope", "span"}

Top(seq, default) == IF seq = << >> THEN default ELSE Last(seq)
Depth == Len(elements)

MarkupInit ==
  /\ elements = << >> /\ tags = << >> /\ crossed = FALSE
  /\ scopes = << >> /\ inlines = << >> /\ pending = None /\ single = None /\ style = FALSE
  /\ quotes = << >> /\ callouts = << >> /\ footnotes = << >>
  /\ images = 0 /\ badLinks = 0 /\ tidy = TRUE

-----------------------------------------------------------------------------
(* Output *)

\* push_raw writes nothing while the text of an image is collected.
Opened(written, tag) == IF images > 0 THEN written ELSE Append(written, tag)
Closed(written, tag) ==
  IF images > 0 \/ written = << >> THEN written
  ELSE IF Last(written) = tag THEN Front(written)
  ELSE LET at == {i \in 1 .. Len(written) : written[i] = tag}
       IN  IF at = {} THEN written ELSE RemoveAt(written, CHOOSE i \in at : \A j \in at : j <= i)
Crosses(written, tag) == images = 0 /\ Top(written, None) # tag

Push(tag) == tags' = Opened(tags, tag) /\ UNCHANGED crossed
Pop(tag) == tags' = Closed(tags, tag) /\ crossed' = (crossed \/ Crosses(tags, tag))
Silent == UNCHANGED <<tags, crossed>>

-----------------------------------------------------------------------------
(* Settings waiting for their block *)

\* flush_pending_kmark_toc and invalidate_pending_kmark_params_before_event: near means
\* that nothing but blanks of one line lies between the settings and the event.
Waiting(target, near) ==
  IF pending # None /\ ~pending.toc /\ near /\ target THEN pending ELSE None

\* track_active_kmark_single_block_nested_start and start_pending_kmark_single_block
SingleAt(kind, waiting) ==
  CASE single # None /\ kind \in DOMAIN BlockEnd /\ BlockEnd[kind] = single.end ->
         [single EXCEPT !.nested = @ + 1]
    [] single = None /\ kind \in DOMAIN BlockEnd /\ waiting # None ->
         [end |-> BlockEnd[kind], nested |-> 0, depth |-> Depth + 1]
    [] OTHER -> single

\* should_close_active_kmark_single_block and close_active_kmark_single_block
SingleAfter(kind) ==
  IF single = None \/ kind \notin DOMAIN BlockEnd \/ BlockEnd[kind] # single.end THEN single
  ELSE IF single.nested > 0 THEN [single EXCEPT !.nested = @ - 1]
  ELSE None

-----------------------------------------------------------------------------
(* Elements *)

\* The parser's grammar: a callout begins with the paragraph of its marker, and
\* paragraphs and titles hold what is inline.
MayHold(kind) ==
  LET top == Top(elements, None)
  IN  /\ kind = "title" => top = "list"
      /\ CASE top \in {"code", "diagram"} -> FALSE
           [] top \in Inline \cup {"paragraph", "title"} ->
                kind \in Inline /\ (kind \in {"link", "badlink"} =>
                                      {"link", "badlink"} \cap Range(elements) = {})
           [] top = "callout" /\ Last(callouts) = "pending" /\ footnotes = << >> ->
                kind = "paragraph"
           [] OTHER -> kind \notin Inline

\* start_tag, a paragraph: not written at the beginning of a footnote, nor on the
\* marker's line of a callout until it turns out to hold something
\* (delay_callout_marker_paragraph_if_needed).
StartParagraph ==
  IF footnotes # << >>
    THEN /\ footnotes' = [footnotes EXCEPT ![Len(footnotes)] = Min({@ + 1, 2})]
         /\ IF Last(footnotes) = 0 THEN Silent ELSE Push("paragraph")
         /\ UNCHANGED callouts
  ELSE IF Top(callouts, "done") = "pending"
    THEN /\ callouts' = [callouts EXCEPT ![Len(callouts)] = "delayed"]
         /\ Silent /\ UNCHANGED footnotes
  ELSE Push("paragraph") /\ UNCHANGED <<callouts, footnotes>>

\* ensure_callout_marker_paragraph_open
OpenDelayed ==
  IF Top(callouts, "done") = "delayed"
    THEN Push("paragraph") /\ callouts' = [callouts EXCEPT ![Len(callouts)] = "open"]
    ELSE Silent /\ UNCHANGED callouts

\* start_callout, with take_callout_root_decoration: settings of its own are used up.
StartQuote(kind, active) ==
  /\ Push(kind)
  /\ quotes' = Append(quotes, kind)
  /\ IF kind = "callout"
       THEN /\ callouts' = Append(callouts, "pending")
            /\ single' = IF active # None /\ active.end = "quote" /\ active.nested = 0
                           THEN None ELSE active
       ELSE single' = active /\ UNCHANGED callouts

\* start_tag. A style that waits is taken by the block that is written; a paragraph of
\* a footnote and a title leave it, a diagram and a callout drop it.
StartBlock(kind, near) ==
  LET waiting == Waiting(kind \in DOMAIN BlockEnd, near)
      active == SingleAt(kind, waiting)
      starts == single = None /\ active # None
  IN  /\ pending' = IF starts THEN None ELSE waiting
      /\ style' = \/ kind = "title" /\ style
                  \/ kind = "paragraph" /\ footnotes # << >> /\ (style \/ starts)
      /\ IF kind \in {"quote", "callout"} THEN StartQuote(kind, active)
         ELSE single' = active /\ UNCHANGED quotes
      /\ CASE kind = "paragraph" -> StartParagraph
           [] kind = "footnote" -> Push(kind) /\ footnotes' = Append(footnotes, 0)
                                     /\ UNCHANGED callouts
           [] kind = "diagram" -> Silent /\ UNCHANGED <<callouts, footnotes>>
           [] kind \in {"quote", "callout"} -> UNCHANGED footnotes
           [] OTHER -> Push(kind) /\ UNCHANGED <<callouts, footnotes>>
      /\ UNCHANGED <<images, badLinks>>

StartInline(kind, near) ==
  LET waiting == Waiting(kind = "image", near)
  IN  CASE kind = "image" ->
             \* take_pending_kmark_layer_for_image
             /\ OpenDelayed /\ images' = images + 1 /\ pending' = None
             /\ UNCHANGED badLinks
        [] kind = "badlink" ->
             /\ badLinks' = badLinks + 1 /\ pending' = waiting
             /\ Silent /\ UNCHANGED <<images, callouts>>
        [] OTHER ->
             /\ Push(kind) /\ pending' = waiting
             /\ UNCHANGED <<images, badLinks, callouts>>

\* start_tag while the text of an image is collected
StartInImage(kind, near) ==
  /\ images' = IF kind = "image" THEN images + 1 ELSE images
  /\ pending' = Waiting(kind = "image", near)
  /\ Silent
  /\ UNCHANGED <<single, style, quotes, callouts, footnotes, badLinks>>

\* Inline elements that begin on the marker line of a callout and hold more than its
\* marker have the paragraph opened inside them; what follows is not tidy.
OpensInside == Top(callouts, "done") = "delayed" /\ Top(elements, None) \in Inline

Start ==
  \E kind \in Kinds, near \in BOOLEAN :
    /\ Depth < MaxDepth /\ MayHold(kind)
    /\ elements' = Append(elements, kind)
    /\ IF images > 0 THEN StartInImage(kind, near)
       ELSE IF kind \in Inline
         THEN StartInline(kind, near) /\ UNCHANGED <<single, style, quotes, footnotes>>
         ELSE StartBlock(kind, near)
    /\ tidy' = (tidy /\ ~(kind = "image" /\ images = 0 /\ OpensInside))
    /\ UNCHANGED <<scopes, inlines>>

\* Mutant: the paragraph of a marker line is closed whether it was opened or not.
EndParagraphAlways ==
  LET closed == SingleAfter("paragraph")
  IN  /\ callouts' = IF callouts = << >> THEN callouts ELSE [callouts EXCEPT ![Len(callouts)] = "done"]
      /\ IF footnotes # << >> /\ Last(footnotes) <= 1 THEN Silent ELSE Pop("paragraph")
      /\ single' = closed
      /\ style' = (style /\ ~(single # None /\ closed = None))

\* end_tag, a paragraph: skip_unopened_callout_marker_paragraph returns before the
\* settings of the paragraph are closed.
EndParagraph ==
  LET closed == SingleAfter("paragraph")
  IN  IF Top(callouts, "done") = "delayed"
        THEN /\ callouts' = [callouts EXCEPT ![Len(callouts)] = "done"]
             /\ single' = IF closed = None THEN single ELSE closed
             /\ Silent /\ UNCHANGED style
        ELSE /\ callouts' = IF Top(callouts, "done") = "open"
                              THEN [callouts EXCEPT ![Len(callouts)] = "done"] ELSE callouts
             /\ IF footnotes # << >> /\ Last(footnotes) <= 1 THEN Silent ELSE Pop("paragraph")
             /\ single' = closed
             /\ style' = (style /\ ~(single # None /\ closed = None))

EndBlock(kind) ==
  LET closed == SingleAfter(kind)
      quote == Top(quotes, "quote")
  IN  /\ single' = closed
      /\ style' = (style /\ ~(single # None /\ closed = None))
      /\ CASE kind = "footnote" -> Pop(kind) /\ footnotes' = Front(footnotes)
                                     /\ UNCHANGED <<quotes, callouts>>
           [] kind \in {"quote", "callout"} ->
                /\ Pop(quote)
                /\ quotes' = IF quotes = << >> THEN quotes ELSE Front(quotes)
                /\ callouts' = IF quote = "callout" THEN Front(callouts) ELSE callouts
                /\ UNCHANGED footnotes
           [] kind = "diagram" -> Silent /\ UNCHANGED <<quotes, callouts, footnotes>>
           [] OTHER -> Pop(kind) /\ UNCHANGED <<quotes, callouts, footnotes>>

\* finish_image, and the links
EndInline(kind) ==
  /\ images' = IF kind = "image" THEN images - 1 ELSE images
  /\ IF kind \in {"link", "badlink"} /\ badLinks > 0
       THEN badLinks' = badLinks - 1 /\ Silent
       ELSE (IF kind = "image" THEN Silent ELSE Pop(kind)) /\ UNCHANGED badLinks

\* Scopes that are open where they were not opened make what follows untidy.
LeavesScope == \E s \in Range(scopes) \cup Range(inlines) : s.depth = Depth

End ==
  LET kind == Last(elements)
  IN  /\ elements # << >>
      /\ elements' = Front(elements)
      /\ pending' = None
      /\ tidy' = (tidy /\ ~LeavesScope)
      /\ IF images > 0
           THEN /\ images' = IF kind = "image" THEN images - 1 ELSE images
                /\ Silent /\ UNCHANGED <<single, style, quotes, callouts, footnotes, badLinks>>
         ELSE IF kind \in Inline
           THEN EndInline(kind) /\ UNCHANGED <<single, style, quotes, callouts, footnotes>>
         ELSE /\ IF kind = "paragraph" THEN EndParagraph /\ UNCHANGED <<quotes, footnotes>>
                   ELSE EndBlock(kind)
              /\ UNCHANGED <<images, badLinks>>
      /\ UNCHANGED <<scopes, inlines>>

\* push_text_event, on the marker's line of a callout or not; so do most line breaks.
Text ==
  \E onMarker \in BOOLEAN :
    LET marker == onMarker /\ Top(callouts, "done") \in {"delayed", "open"}
        collected == images > 0 \/ Top(elements, None) = "diagram"
    IN  /\ elements # << >> /\ (onMarker => marker)
        /\ pending' = None
        /\ IF collected \/ marker THEN Silent /\ UNCHANGED callouts ELSE OpenDelayed
        /\ tidy' = (tidy /\ ~(~collected /\ ~marker /\ OpensInside))
        /\ UNCHANGED <<elements, scopes, inlines, single, style, quotes, footnotes, images,
                       badLinks>>

\* split_definition_list_title: each line of a title gets a tag of its own, whatever
\* is open on it; what follows is not tidy unless nothing is.
BreakTitle ==
  /\ "title" \in Range(elements)
  /\ pending' = None
  /\ tags' = Opened(Closed(tags, "title"), "title")
  /\ crossed' = (crossed \/ Crosses(tags, "title"))
  /\ tidy' = (tidy /\ (images > 0 \/ (Last(elements) = "title" /\ ~LeavesScope)))
  /\ UNCHANGED <<elements, scopes, inlines, single, style, quotes, callouts, footnotes,
                 images, badLinks>>

-----------------------------------------------------------------------------
(* Comments and HTML *)

\* discard_pending_kmark_params_if_gap_is_incompatible
Kept(near) == IF pending # None /\ (near \/ pending.toc) THEN pending ELSE None

Params ==
  \E toc, near \in BOOLEAN :
    /\ pending' = [toc |-> toc \/ (Kept(near) # None /\ Kept(near).toc)]
    /\ Silent
    /\ UNCHANGED <<elements, scopes, inlines, single, style, quotes, callouts, footnotes,
                   images, badLinks, tidy>>

\* apply_kmark_comment, ScopeStart: the settings that wait become the scope's, which
\* has a tag if they show.
OpenScope ==
  \E inline, shows \in BOOLEAN :
    LET scope == [depth |-> Depth, tag |-> IF shows THEN "scope" ELSE None]
        ruby == [scope EXCEPT !.tag = IF shows THEN "span" ELSE None]
    IN  /\ Len(scopes) + Len(inlines) < MaxScopes
        /\ Top(elements, None) \notin {"code", "diagram"}
        /\ pending' = None
        /\ IF shows THEN Push(IF inline THEN "span" ELSE "scope") ELSE Silent
        /\ IF inline THEN inlines' = Append(inlines, ruby) /\ UNCHANGED scopes
                     ELSE scopes' = Append(scopes, scope) /\ UNCHANGED inlines
        /\ tidy' = (tidy /\ ~(Top(callouts, "done") = "delayed" /\ Depth > 0))
        /\ UNCHANGED <<elements, single, style, quotes, callouts, footnotes, images, badLinks>>

\* The scope that ends in the source is the last one opened, of either sort.
CloseScope ==
  \E inline \in BOOLEAN :
    LET stack == IF inline THEN inlines ELSE scopes
        other == IF inline THEN scopes ELSE inlines
        scope == Last(stack)
    IN  /\ Top(elements, None) \notin {"code", "diagram"}
        /\ pending' = None
        /\ IF stack # << >> /\ scope.tag # None THEN Pop(scope.tag) ELSE Silent
        /\ inlines' = IF inline /\ stack # << >> THEN Front(inlines) ELSE inlines
        /\ scopes' = IF ~inline /\ stack # << >> THEN Front(scopes) ELSE scopes
        /\ tidy' = (tidy /\ stack # << >> /\ scope.depth = Depth
                         /\ \A s \in Range(other) : s.depth < Depth)
        /\ UNCHANGED <<elements, single, style, quotes, callouts, footnotes, images, badLinks>>

\* push_html_event: other HTML is left out, except for a line break.
Html ==
  \E lineBreak \in BOOLEAN :
    /\ Top(elements, None) \notin {"code", "diagram"}
    /\ pending' = None
    /\ IF lineBreak /\ elements # << >> THEN OpenDelayed ELSE Silent /\ UNCHANGED callouts
    /\ tidy' = (tidy /\ ~(lineBreak /\ OpensInside))
    /\ UNCHANGED <<elements, scopes, inlines, single, style, quotes, footnotes, images,
                   badLinks>>

MarkupNext ==
  Start \/ End \/ Text \/ BreakTitle \/ Params \/ OpenScope \/ CloseScope \/ Html

MarkupSpec == MarkupInit /\ [][MarkupNext]_markupVars

-----------------------------------------------------------------------------
(* Properties *)

\* The tags nest: a closing tag closes the last one open, whatever was left unwritten
\* (text of images, links that are not safe, first paragraphs of footnotes, marker
\* lines), as long as scopes do not cross elements in the source and no line of a
\* definition's title ends inside an element or a scope.
TidyTagsNest == tidy => ~crossed
=============================================================================
