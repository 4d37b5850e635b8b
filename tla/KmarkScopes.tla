----------------------------- MODULE KmarkScopes -----------------------------
(***************************************************************************)
(* HtmlEmitter of crates/kmark-core/src/render_markdown_preview.rs as the  *)
(* reader of Kmark comments: settings that wait for the block after them,  *)
(* presets, and scopes, up to what each block is decorated with.           *)
(*                                                                         *)
(* PreviewMarkup has the tags this is written between; here the blocks     *)
(* nest and only their decoration is of interest. "near" says that nothing *)
(* but the end of a line lies before what is read. The ghost is the text   *)
(* the comments were written with: what a reader takes to be in force.     *)
(***************************************************************************)
EXTENDS KmarkParams

CONSTANTS
  None,
  Comments,   \* what is written in a comment: sequences of << key, value >>
  Leaves,     \* blocks that hold no blocks: "text", "image", "model", "video", "table",
              \* "mermaid" or "shape"
  MaxBlocks,  \* bound on the blocks that are open
  MaxScopes,  \* bound on the scopes that are open
  MaxComments \* bound on the comments of a document

ASSUME CommentsAreSequences == \A pairs \in Comments : pairs \in Seq(Range(pairs))

VARIABLES
  pending,   \* pending_kmark_params, its bundle
  presets,   \* kmark_presets
  scopes,    \* kmark_scope_stack: layers, or None where a comment set nothing
  active,    \* active_kmark_single_block
  open,      \* blocks the parser is in
  rendered,  \* the block written last
  count,     \* comments read
  written    \* ghost: the text in force, [ahead, scopes, blocks, presets]

settingsVars == <<pending, presets, scopes, active, open, rendered, count, written>>

\* KmarkParamLayer: what a comment takes from a preset and what it says itself.
NoLayer == [preset |-> Nothing, direct |-> Nothing]

SettingsInit ==
  /\ pending = None /\ presets = Nothing /\ scopes = << >> /\ active = None
  /\ open = << >> /\ rendered = None /\ count = 0
  /\ written = [ahead |-> None, scopes |-> << >>, blocks |-> << >>, presets |-> Nothing]

-----------------------------------------------------------------------------
(* Layers *)

\* resolve_kmark_bundle_layer: a preset that is not known yet is none.
LayerOf(bundle) ==
  [preset |-> IF "use" \in DOMAIN bundle /\ bundle["use"].text \in DOMAIN presets
                THEN presets[bundle["use"].text] ELSE Nothing,
   direct |-> Params(bundle)]

\* KmarkParamLayer::resolved_params
Resolved(layer) == Merge(layer.preset, layer.direct)

\* resolve_params_with_layers: the presets of all layers, then what they say themselves.
Resolve(layers) ==
  LET Known(layer) == IF layer = None THEN NoLayer ELSE layer
  IN  Merge(Overlay([i \in 1 .. Len(layers) |-> Known(layers[i]).preset]),
            Overlay([i \in 1 .. Len(layers) |-> Known(layers[i]).direct]))

\* The text of a comment, its preset replaced by the text that defined it.
TextOf(pairs) ==
  [preset |-> IF "use" \in DOMAIN Bundle(pairs) /\ Bundle(pairs)["use"].text \in DOMAIN written.presets
                THEN written.presets[Bundle(pairs)["use"].text] ELSE << >>,
   direct |-> pairs]

NoText == [preset |-> << >>, direct |-> << >>]

\* What the texts, of which None says nothing, together ask for, read at once.
Asked(texts) ==
  LET Said(text) == IF text = None THEN NoText ELSE text
  IN  Params(Bundle(FlattenSeq([i \in 1 .. Len(texts) |-> Said(texts[i]).preset])
                      \o FlattenSeq([i \in 1 .. Len(texts) |-> Said(texts[i]).direct])))

-----------------------------------------------------------------------------
(* Comments *)

\* KmarkTocParams.enabled
AsksForToc(bundle) == Has(bundle, {"toc"}) /\ bundle["toc"] = Word("true")

\* discard_pending_kmark_params_if_gap_is_incompatible: a table of contents is kept.
Kept(near) ==
  IF pending # None /\ (near \/ AsksForToc(pending))
    THEN pending ELSE None

\* What was written right before: a gap ends it, unless it asks for a table of contents.
AheadText(near) ==
  IF written.ahead # None /\ (near \/ AsksForToc(Bundle(written.ahead))) THEN written.ahead
  ELSE None

\* flush_pending_kmark_toc: written in the place of the comment that asks for it.
Flushed(bundle) == IF bundle # None /\ AsksForToc(bundle) THEN None ELSE bundle
FlushedText(pairs) == IF pairs # None /\ AsksForToc(Bundle(pairs)) THEN None ELSE pairs

\* take_pending_kmark_bundle, merged with the comment that takes it: what waited and
\* the text that it was.
MergedWith(waiting, pairs) == Merge(IF waiting = None THEN Nothing ELSE waiting, Bundle(pairs))
JoinedWith(ahead, pairs) == IF ahead = None THEN pairs ELSE ahead \o pairs

\* A definition replaces one of the same name.
WithPreset(known, name, params) == Merge(known, [defined \in {name} |-> params])

Comment(pairs) ==
  /\ count < MaxComments /\ pairs \in Comments
  /\ count' = count + 1 /\ UNCHANGED <<active, open>>

\* apply_kmark_comment, settings: they wait with those that wait already.
ReadParams(pairs, near) ==
  /\ Comment(pairs)
  /\ pending' = MergedWith(Kept(near), pairs)
  /\ written' = [written EXCEPT !.ahead = JoinedWith(AheadText(near), pairs)]
  /\ rendered' = None
  /\ UNCHANGED <<presets, scopes>>

\* apply_kmark_comment, a definition
ReadDefine(name, pairs, near) ==
  /\ Comment(pairs)
  /\ \E bundle \in {MergedWith(Flushed(Kept(near)), pairs)},
        text \in {TextOf(JoinedWith(FlushedText(AheadText(near)), pairs))} :
       /\ presets' = WithPreset(presets, name, Resolved(LayerOf(bundle)))
       /\ written' = [written EXCEPT !.ahead = None,
                                     !.presets = WithPreset(@, name, text.preset \o text.direct)]
  /\ pending' = None /\ rendered' = None
  /\ UNCHANGED scopes

\* apply_kmark_comment, a scope begins: without settings it is counted only.
ReadScopeStart(pairs, near) ==
  /\ Comment(pairs) /\ Len(scopes) < MaxScopes
  /\ \E bundle \in {MergedWith(Flushed(Kept(near)), pairs)} :
       \E layer \in {LayerOf(bundle)} :
         scopes' = Append(scopes, IF HasDirectives(Resolved(layer)) THEN layer ELSE None)
  /\ \E text \in {JoinedWith(FlushedText(AheadText(near)), pairs)} :
       written' = [written EXCEPT !.ahead = None, !.scopes = Append(@, TextOf(text))]
  /\ pending' = None /\ rendered' = None
  /\ UNCHANGED presets

\* apply_kmark_comment, a scope ends; close_kmark_scope
ReadScopeEnd ==
  /\ pending' = None
  /\ scopes' = IF scopes = << >> THEN scopes ELSE Front(scopes)
  /\ written' = [written EXCEPT !.ahead = None,
                                !.scopes = IF @ = << >> THEN @ ELSE Front(@)]
  /\ rendered' = None
  /\ UNCHANGED <<presets, active, open, count>>

-----------------------------------------------------------------------------
(* Blocks *)

\* start_pending_kmark_single_block and track_active_kmark_single_block_nested_start:
\* within a block that is decorated nothing else is.
ActiveAt(kind, waiting) ==
  IF active = None
    THEN IF waiting = None THEN None ELSE [layer |-> LayerOf(waiting), end |-> kind, nested |-> 0]
  ELSE IF active.end = kind THEN [active EXCEPT !.nested = @ + 1] ELSE active

\* Mutant: a block ends the first of its kind that is open.
ActiveAfterFirst(single, kind) == IF single = None \/ single.end # kind THEN single ELSE None

\* should_close_active_kmark_single_block, close_active_kmark_single_block
ActiveAfter(single, kind) ==
  IF single = None \/ single.end # kind THEN single
  ELSE IF single.nested > 0 THEN [single EXCEPT !.nested = @ - 1]
  ELSE None

\* An image, a model and a video are in a paragraph of their own.
BlockEnd(kind) ==
  CASE kind \in {"text", "image", "model", "video"} -> "paragraph"
    [] kind \in {"mermaid", "shape"} -> "code"
    [] OTHER -> kind

\* The settings a block is written with, and the text they should come from.
Written(kind, params, texts) == [kind |-> kind, params |-> params, asked |-> Asked(texts)]

\* The text of a block: in a block with a text of its own no other counts.
BlockText(ahead) ==
  IF ahead = None \/ \E i \in 1 .. Len(written.blocks) : written.blocks[i] # None THEN None
  ELSE TextOf(ahead)

\* push_event and start_tag
Start(kind, near) ==
  /\ \E waiting \in {Flushed(Kept(near))} :
       \E single \in {ActiveAt(BlockEnd(kind), waiting)} :
         \E text \in {BlockText(FlushedText(AheadText(near)))},
            params \in {Resolve(IF single = None THEN scopes ELSE Append(scopes, single.layer))} :
           /\ rendered' = Written(kind, params, written.scopes \o Append(written.blocks, text))
           /\ IF kind \in Leaves
                THEN /\ active' = ActiveAfter(single, BlockEnd(kind))
                     /\ written' = [written EXCEPT !.ahead = None]
                     /\ UNCHANGED open
                ELSE /\ active' = single
                     /\ open' = Append(open, kind)
                     /\ written' = [written EXCEPT !.ahead = None, !.blocks = Append(@, text)]
  /\ pending' = None
  /\ UNCHANGED <<presets, scopes, count>>

StartLeaf(kind, near) == kind \in Leaves /\ Start(kind, near)

StartContainer(kind, near) == Len(open) < MaxBlocks /\ Start(kind, near)

\* end_tag, of a block that holds blocks
End ==
  /\ open # << >>
  /\ pending' = None
  /\ active' = ActiveAfter(active, Last(open))
  /\ open' = Front(open)
  /\ written' = [written EXCEPT !.ahead = None, !.blocks = Front(@)]
  /\ rendered' = None
  /\ UNCHANGED <<presets, scopes, count>>

SettingsNext ==
  \/ \E pairs \in Comments, near \in BOOLEAN :
       \/ ReadParams(pairs, near)
       \/ ReadDefine("preset", pairs, near)
       \/ ReadScopeStart(pairs, near)
  \/ ReadScopeEnd
  \/ \E near \in BOOLEAN :
       \/ \E kind \in Leaves : StartLeaf(kind, near)
       \/ \E kind \in {"quote", "list"} : StartContainer(kind, near)
  \/ End

SettingsSpec == SettingsInit /\ [][SettingsNext]_settingsVars

-----------------------------------------------------------------------------

\* What of settings is written with a block: a ruby text only is with a scope in a line.
OfBlock(params) == [field \in DOMAIN params \ {"ruby"} |-> params[field]]

\* A block has the settings of the comments that enclose it and of those right before
\* it, read as if they were one comment: what was closed, was cut off by a gap or
\* followed later leaves no trace, and settings may be split over comments at will.
SettingsAreLexical == rendered # None => OfBlock(rendered.params) = OfBlock(rendered.asked)
=============================================================================
