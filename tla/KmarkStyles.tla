----------------------------- MODULE KmarkStyles -----------------------------
(***************************************************************************)
(* What the settings of a block become in the HTML: the styles and         *)
(* attributes of KmarkParams and of the structures it holds, in            *)
(* crates/kmark-core/src/render_markdown_preview.rs.                       *)
(*                                                                         *)
(* A style is the set of its rules, << property, value >>. A rule that     *)
(* only hands on a field has the name of the field; no rules is no style.  *)
(***************************************************************************)
EXTENDS KmarkParams

When(condition, rules) == IF condition THEN rules ELSE {}

Rules(params, fields) == {<<field, params[field]>> : field \in DOMAIN params \cap fields}

-----------------------------------------------------------------------------
(* KmarkImageParams *)

Sized(params, texts) == \E side \in {"w", "h"} \cap DOMAIN params : params[side].text \in texts

\* has_page_fit_dimension
IsPageFit(params) == Sized(params, {"page_fit", "page_fit_contain"})

\* push_width_style_rules, push_height_style_rules: what fits its content stays within
\* the block around it, what is contained in a page keeps its shape.
SizeRules(params) ==
  Rules(params, {"w", "h"})
    \cup {<<"max-width", "100%">> : side \in {s \in {"w"} \cap DOMAIN params : params[s].text = "fit"}}
    \cup {<<side, "no more than the page">> :
            side \in {s \in {"w", "h"} \cap DOMAIN params : params[s].text = "page_fit_contain"}}

\* push_decoration_style_rules: a border with a size and no style is solid, and what
\* fits the page has no margin.
DecorationRules(params) ==
  Rules(params, {"border_size", "border_style", "border_color", "radius", "bg", "opacity",
                 "rotate", "shadow", "padding"})
    \cup When(~IsPageFit(params), Rules(params, {"margin"}))
    \cup When(Has(params, {"border_size"}) /\ ~Has(params, {"border_style"}),
              {<<"border_style", Word("solid")>>})

\* push_fit_box_style_rules
FitRules(params) ==
  When(Sized(params, {"fit", "page_fit", "page_fit_contain"}), {<<"box-sizing", "border-box">>})
    \cup When(IsPageFit(params), {<<"margin", "0">>})

\* to_box_style
BoxStyle(params) == SizeRules(params) \cup DecorationRules(params) \cup FitRules(params)

\* Blocks of a width of their own are put left or right by what they leave free.
AutoMargins(params) ==
  CASE params["align"].text = "center" -> {<<"margin-left", "auto">>, <<"margin-right", "auto">>}
    [] params["align"].text = "right" -> {<<"margin-left", "auto">>}
    [] OTHER -> {}

\* has_plain_text_align
IsPlainAlign(params) == Has(params, {"align"}) /\ ~Has(params, {"layout", "valign", "gap", "wrap"})

\* KmarkImageParams::to_style, for the image itself
ImageStyle(params) ==
  BoxStyle(params) \cup Rules(params, {"pos"})
    \cup When(IsPageFit(params), {<<"display", "block">>})
    \cup When(Sized(params, {"page_fit_contain"}), {<<"object-fit", "contain">>})
    \cup When(Has(params, {"rotate"}), {<<"transform-origin", "center">>})
    \cup When(Has(params, {"radius"}), {<<"overflow", "hidden">>})
    \cup When(IsPageFit(params) /\ IsPlainAlign(params), AutoMargins(params))

\* to_model_style: a viewer is 360 pixels high unless it is told.
ModelHeight == "h" :> Length(36000, "px")

\* to_generated_svg_style: one side given, the other follows; a diagram of an engine
\* that paints its background has no other.
GeneratedSvgStyle(params, engineBackground) ==
  ImageStyle([f \in DOMAIN params \ ({"pos"} \cup When(engineBackground, {"bg"})) |-> params[f]])
    \cup When(Has(params, {"h"}) /\ ~Has(params, {"w"}), {<<"w", Word("auto")>>})
    \cup When(Has(params, {"w"}) /\ ~Has(params, {"h"}), {<<"h", Word("auto")>>})

-----------------------------------------------------------------------------
(* KmarkTextParams, KmarkLayoutParams, KmarkTableParams *)

\* push_style_rules: what is not underlined says nothing of it.
TextRules(params) ==
  Rules(params, {"color", "background_color", "font_size", "font_weight", "font_family",
                 "font_style", "letter_spacing", "line_height"})
    \cup {<<"text-decoration", line>> :
            line \in {f \in {"underline", "strike"} \cap DOMAIN params : params[f] = Word("true")}}

\* to_flex_style: a column unless it says row.
FlexStyle(params) ==
  {<<"display", "flex">>, <<"layout", IF Has(params, {"layout"}) THEN params["layout"]
                                      ELSE Word("column")>>}
    \cup Rules(params, {"align", "valign", "wrap", "gap"})

\* KmarkLayoutParams::to_single_block_style: alignment alone is that of the text.
SingleLayoutStyle(params) ==
  IF Has(params, LayoutFields \ {"align"}) THEN FlexStyle(params)
  ELSE When(Has(params, {"align"}), {<<"text-align", params["align"]>>})

\* KmarkTableParams::to_style; table_fit is an attribute.
TableRules(params) == Rules(params, {"table_cell_padding_x", "table_cell_padding_y", "table_layout"})

\* Mutant: the gap of the bars is forgotten.
MermaidAttributesButGap(params) == Rules(params, MermaidFields \ {"mermaid_gantt_bar_gap"})

\* push_optional_data_attribute of each field of KmarkMermaidParams
MermaidAttributes(params) == Rules(params, MermaidFields)

\* push_model_data_attrs; a conversion that never may happen is an error of most formats.
ModelAttributes(params) == Rules(params, ModelFields)

\* push_video: what is not switched on is not written, and a poster is instead of the
\* time to take it at.
VideoAttributes(params) ==
  {<<f, "on">> : f \in {g \in {"video_autoplay", "video_muted", "video_loop"} \cap DOMAIN params :
                          params[g] = Word("true")}}
    \cup Rules(params, {"video_poster"})
    \cup When(~Has(params, {"video_poster"}), Rules(params, {"video_poster_time"}))

-----------------------------------------------------------------------------
(* The blocks *)

\* to_text_block_width_style: a decorated text without a width is as wide as it needs.
WidthStyle(params, fitPlainAlign) ==
  LET decorated == Has(params, BoxFields \ {"w", "pos"})
      fits == /\ ~Has(params, {"w"})
              /\ \/ decorated
                 \/ Has(params, TextFields \ {"ruby", "line_height"})
                 \/ fitPlainAlign /\ IsPlainAlign(params)
  IN  When(fits, {<<"width", "fit-content">>})
        \cup When(/\ IsPlainAlign(params) /\ ~IsPageFit(params)
                  /\ fits \/ Has(params, {"w"}), AutoMargins(params))

\* to_single_block_root_style, and to_callout_root_style
SingleStyle(params) ==
  BoxStyle(params) \cup WidthStyle(params, TRUE) \cup TextRules(params)
    \cup SingleLayoutStyle(params)

\* to_scoped_block_root_style: the layout is the scope's.
ScopedStyle(params) == BoxStyle(params) \cup WidthStyle(params, FALSE) \cup TextRules(params)

\* to_scope_root_style
ScopeStyle(params) ==
  When(Has(params, {"page_valign"}), BoxStyle(params))
    \cup When(Has(params, LayoutFields \cup BoxFields), FlexStyle(params))

\* to_table_root_style
TableStyle(params) ==
  BoxStyle(params) \cup TextRules(params) \cup TableRules(params)
    \cup When(IsPlainAlign(params) /\ Has(params, {"w"}) /\ ~IsPageFit(params),
              AutoMargins(params))

\* to_image_paragraph_root_style, of a paragraph that holds images only
ImageParagraphStyle(params) ==
  When(IsPageFit(params), {<<"margin", "0">>})
    \cup When(Has(params, {"page_valign"}), BoxStyle(params))
    \cup SingleLayoutStyle(params)

\* to_inline_style, of a scope within a line
InlineStyle(params) ==
  TextRules(params)
    \cup When(~Has(params, {"background_color"}) /\ Has(params, {"bg"}),
              {<<"background_color", params["bg"]>>})
-----------------------------------------------------------------------------
(* A block, with what decorates it *)

\* Each block has the settings in force for it (visible), those of the scopes around it
\* (scoped), and may have been decorated itself (isOwn) or stand within a block that was.

\* finalize_paragraph_context, of a paragraph that holds images only: the scope leaves it
\* alone.
ParagraphLook(visible, isOwn) ==
  When(isOwn, ImageParagraphStyle(visible) \cup Rules(visible, {"page_valign"}))

\* finish_image
ImageLook(visible, isOwn) == ParagraphLook(visible, isOwn) \cup ImageStyle(visible)

\* push_video
VideoLook(visible, isOwn) == ImageLook(visible, isOwn) \cup VideoAttributes(visible)

\* push_model, of a GLB file: other formats can be an error instead.
ModelLook(visible, isOwn) ==
  ParagraphLook(visible, isOwn) \cup ImageStyle(visible @@ ModelHeight)
    \cup ModelAttributes(visible)

\* start_generated_svg_block: alignment and position are attributes besides.
ShapeLook(visible, isWithin) ==
  SingleLayoutStyle(visible) \cup When(isWithin, Rules(visible, {"page_valign"}))
    \cup Rules(visible, {"pos"}) \cup GeneratedSvgStyle(visible, FALSE)

\* start_mermaid_block
MermaidLook(visible, isWithin) ==
  SingleLayoutStyle(visible) \cup When(isWithin, Rules(visible, {"page_valign"}))
    \cup Rules(visible, {"pos"})
    \cup GeneratedSvgStyle(visible, Has(visible, {"mermaid_background"}))
    \cup MermaidAttributes(visible)

\* start_pending_kmark_single_block, the style that waits for the block; it decorates
\* the block if it says anything (has_pending_kmark_block_decoration).
WaitingStyle(kind, visible, isOwn) ==
  When(isOwn, (IF kind = "table" THEN TableStyle(visible) ELSE SingleStyle(visible))
                 \cup Rules(visible, {"page_valign"}))

\* take_pending_kmark_table_attributes
TableLook(waiting, visible, scoped) ==
  IF waiting # {} THEN waiting \cup Rules(visible, {"table_fit"})
  ELSE TableStyle(scoped) \cup Rules(scoped, {"table_fit"})

\* take_pending_kmark_block_decoration and active_scope_block_decoration
TextLook(waiting, scoped) == IF waiting # {} THEN waiting ELSE ScopedStyle(scoped)

\* apply_kmark_comment, the element of a scope
ScopeLook(params) == ScopeStyle(params) \cup Rules(params, {"page_valign"})

\* start_kmark_inline_scope, the element of a scope within a line
InlineLook(params) == InlineStyle(params) \cup Rules(params, {"ruby"})

\* start_tag and finish_image
Look(kind, visible, scoped, isOwn, isWithin) ==
  CASE kind = "image" -> ImageLook(visible, isOwn)
    [] kind = "video" -> VideoLook(visible, isOwn)
    [] kind = "model" -> ModelLook(visible, isOwn)
    [] kind = "mermaid" -> MermaidLook(visible, isWithin)
    [] kind = "shape" -> ShapeLook(visible, isWithin)
    [] kind = "table" -> TableLook(WaitingStyle(kind, visible, isOwn), visible, scoped)
    [] OTHER -> TextLook(WaitingStyle(kind, visible, isOwn), scoped)
=============================================================================
