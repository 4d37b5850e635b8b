----------------------------- MODULE KmarkParams -----------------------------
(***************************************************************************)
(* The settings of a Kmark comment: parse_kmark_param_bundle_parts of      *)
(* crates/kmark-core/src/render_markdown_preview.rs and the merges of the  *)
(* structures it fills.                                                    *)
(*                                                                         *)
(* The optional fields of KmarkParamBundle are a function of the fields    *)
(* that are set. A field has the name of its setting; of two settings that *)
(* write one field, the shorter.                                           *)
(***************************************************************************)
EXTENDS KmarkValues, Sequences, SequencesExt

Nothing == << >>

\* The fields of KmarkImageParams, which every box has, with the kinds of their values.
BoxKinds ==
  "size" :> {"w", "width", "h", "height"} @@ "position" :> {"pos"}
    @@ "length" :> {"border_size", "radius"} @@ "color" :> {"border_color", "bg", "background"}
    @@ "border_style" :> {"border_style"} @@ "opacity" :> {"opacity"} @@ "rotate" :> {"rotate"}
    @@ "shadow" :> {"shadow"} @@ "margin" :> {"margin"} @@ "padding" :> {"padding"}

VideoKinds ==
  "bool" :> {"video_autoplay", "video_muted", "video_loop"} @@ "url" :> {"video_poster"}
    @@ "time" :> {"video_poster_time"}

ModelKinds ==
  "view" :> {"3d_view"} @@ "projection" :> {"3d_projection"} @@ "fov" :> {"3d_fov"}
    @@ "finite" :> {"3d_camera_yaw", "3d_camera_pitch"}
    @@ "positive" :> {"3d_camera_distance", "3d_camera_zoom", "3d_auto_rotate_speed",
                      "3d_turn_table_speed", "3d_convert_scale"}
    @@ "vector" :> {"3d_camera_position", "3d_camera_target"} @@ "light" :> {"3d_light_preset"}
    @@ "bool" :> {"3d_controls", "3d_rotate", "3d_zoom", "3d_pan", "3d_auto_rotate",
                  "3d_turn_table", "3d_convert_force", "3d_convert_center", "3d_shadow", "3d_grid",
                  "3d_axes"}
    @@ "axis" :> {"3d_turn_table_axis"} @@ "model_background" :> {"3d_bg"}
    @@ "loading" :> {"3d_loading"} @@ "url" :> {"3d_poster"} @@ "convert" :> {"3d_convert"}
    @@ "convert_up" :> {"3d_convert_up"}

MermaidKinds ==
  "length" :> {"mermaid_font_size", "mermaid_gantt_font_size", "mermaid_gantt_section_font_size"}
    @@ "bool" :> {"mermaid_gantt_auto_bar_size"} @@ "auto_positive" :> {"mermaid_gantt_bar_height"}
    @@ "auto_nonnegative" :> {"mermaid_gantt_bar_gap"}
    @@ "positive" :> {"mermaid_gantt_text_line_height", "mermaid_gantt_min_bar_height",
                      "mermaid_gantt_max_bar_height"}
    @@ "nonnegative" :> {"mermaid_gantt_bar_padding_y"} @@ "theme" :> {"mermaid_theme"}
    @@ "mermaid_background" :> {"mermaid_background"} @@ "init_merge" :> {"mermaid_init_merge"}

TextKinds ==
  "color" :> {"color", "background_color"} @@ "length" :> {"font_size", "letter_spacing"}
    @@ "font_weight" :> {"font_weight"} @@ "family" :> {"font_family"}
    @@ "font_style" :> {"font_style"} @@ "bool" :> {"underline", "strike"} @@ "ruby" :> {"ruby"}
    @@ "line_height" :> {"line_height"}

TableKinds ==
  "cell_padding" :> {"table_cell_padding"}
    @@ "length" :> {"table_cell_padding_x", "table_cell_padding_y"} @@ "fit" :> {"table_fit"}
    @@ "table_layout" :> {"table_layout"}

LayoutKinds ==
  "layout" :> {"layout"} @@ "align" :> {"align"} @@ "valign" :> {"valign"}
    @@ "length" :> {"gap"} @@ "wrap" :> {"wrap"}

\* KmarkPageParams: where on the page a block stands.
PlaceKinds == "page_valign" :> {"page_valign"}

TocKinds ==
  "bool" :> {"toc", "toc_ordered", "toc_links"} @@ "level" :> {"toc_depth", "toc_min_depth"}
    @@ "text" :> {"toc_title"}

HeadingKinds ==
  "bool" :> {"heading_number"} @@ "level" :> {"heading_number_from", "heading_number_depth"}
    @@ "pattern" :> {"heading_number_pattern"}

NameKinds == "name" :> {"use", "define"}

\* The fields of groups of settings.
FieldsOf(kinds) == UNION {kinds[kind] : kind \in DOMAIN kinds}

\* What a field is called when two settings write it.
Canonical(key) == CASE key = "width" -> "w" [] key = "height" -> "h" [] key = "background" -> "bg"
                    [] OTHER -> key

BoxFields == FieldsOf(BoxKinds)
VideoFields == FieldsOf(VideoKinds)
ModelFields == FieldsOf(ModelKinds)
MermaidFields == FieldsOf(MermaidKinds)
TextFields == FieldsOf(TextKinds)
TableFields == FieldsOf(TableKinds)
LayoutFields == FieldsOf(LayoutKinds)

\* The parts of KmarkParams: what decorates a block. The rest of a bundle does not.
ParamFields ==
  BoxFields \cup VideoFields \cup ModelFields \cup MermaidFields \cup TextFields
    \cup TableFields \cup LayoutFields \cup FieldsOf(PlaceKinds)

\* The kind of value a setting wants.
KindsOf(kinds) ==
  [key \in FieldsOf(kinds) |-> CHOOSE kind \in DOMAIN kinds : key \in kinds[kind]]

KindOf ==
  KindsOf(BoxKinds) @@ KindsOf(VideoKinds) @@ KindsOf(ModelKinds) @@ KindsOf(MermaidKinds)
    @@ KindsOf(TextKinds) @@ KindsOf(TableKinds) @@ KindsOf(LayoutKinds) @@ KindsOf(PlaceKinds)
    @@ KindsOf(TocKinds) @@ KindsOf(HeadingKinds) @@ KindsOf(NameKinds)

\* A setting without a kind is not known.
KindIn(kinds, key) == IF key \in DOMAIN kinds THEN kinds[key] ELSE "unknown"

-----------------------------------------------------------------------------
(* The settings of pages, with the kinds of their values. *)

PlainKinds ==
  "page_size" :> {"page_size"} @@ "page_direction" :> {"page_direction"}
    @@ "physical" :> {"page_width", "page_height", "page_margin", "page_margin_top",
                      "page_margin_right", "page_margin_bottom", "page_margin_left",
                      "page_font_size", "page_number_font_size", "page_number_margin_top",
                      "page_number_margin_bottom", "page_number_margin_left",
                      "page_number_margin_right"}
    @@ "family" :> {"page_font_family", "page_heading_font_family"}
    @@ "page_number" :> {"page_number"} @@ "format" :> {"page_number_format"}
    @@ "count" :> {"page_number_start"}
    @@ "bool" :> {"page_number_reset", "page_number_count", "page_number_visible"}
    @@ "number_style" :> {"page_number_style"} @@ "color" :> {"page_number_color"}

\* The parts of the header and of the footer; that it is there is said without a part.
Sides == {"left", "center", "right"}
RegionKinds ==
  [part \in Sides |-> "text"]
    @@ [part \in {"offset"} |-> "physical"] @@ [part \in {"border_size", "font_size"} |-> "length"]
    @@ [part \in {"border_color", "font_color"} |-> "color"]
    @@ ("enabled" :> "bool" @@ "opacity" :> "opacity" @@ "border_style" :> "border_style"
          @@ "font_family" :> "family" @@ "padding" :> "padding")

RegionKey(region, part) == IF part = "enabled" THEN region ELSE region \o "_" \o part

RegionKindsOf(region, kinds) ==
  [key \in {RegionKey(region, part) : part \in DOMAIN kinds} |->
     kinds[CHOOSE part \in DOMAIN kinds : key = RegionKey(region, part)]]

PageKindOf ==
  KindsOf(PlainKinds) @@ RegionKindsOf("page_header", RegionKinds)
    @@ RegionKindsOf("page_footer", RegionKinds)

-----------------------------------------------------------------------------
(* Reading a comment *)

\* One setting, << key, value >>: nothing if the key is not known or its value not taken.
ReadAs(kind, key, value) ==
  IF ~Accepts(kind, value) THEN Nothing
  ELSE IF key = "table_cell_padding"
    THEN "table_cell_padding_y" :> Trimmed(value) @@ "table_cell_padding_x" :> Trimmed(value)
    ELSE Canonical(key) :> Trimmed(value)

Setting(pair) == ReadAs(KindIn(KindOf, pair[1]), pair[1], pair[2])

\* Settings one after the other: what is said last counts.
Overlay(parts) ==
  [field \in UNION {DOMAIN parts[i] : i \in DOMAIN parts} |->
     parts[Max({i \in DOMAIN parts : field \in DOMAIN parts[i]})][field]]

\* parse_kmark_param_bundle_parts
Bundle(pairs) == Overlay([i \in 1 .. Len(pairs) |-> Setting(pairs[i])])

\* merge of KmarkParamBundle and of what it holds
Merge(settings, others) ==
  [field \in DOMAIN settings \cup DOMAIN others |->
     IF field \in DOMAIN others THEN others[field] ELSE settings[field]]

\* KmarkParamBundle.params
Params(bundle) == [field \in DOMAIN bundle \cap ParamFields |-> bundle[field]]

Has(params, fields) == DOMAIN params \cap fields # {}

\* has_directives: a ruby text alone is none.
HasDirectives(params) == Has(params, ParamFields \ {"ruby"})
=============================================================================
