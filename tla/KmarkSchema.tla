----------------------------- MODULE KmarkSchema -----------------------------
(***************************************************************************)
(* KMARK_PARAM_SPECS of crates/kmark-core/src/kmark_param_schema.rs: the   *)
(* settings the editor offers to complete, with their aliases, where they  *)
(* are offered and the values it offers or writes with them.               *)
(*                                                                         *)
(* The schema and the parser are written down apart from each other.       *)
(* Sizes of pages are given in lower case, as they are compared.           *)
(***************************************************************************)
EXTENDS KmarkValues

Names(words) == {Word(word) : word \in words}
Numbers(hundredths) == {Number(n) : n \in hundredths}
Levels == {Number(100 * n) : n \in 1 .. 6}

\* The places of more than one setting; in "single" one stands in a comment before its block.
OnPages == {"page", "scope"}
OnDiagrams == {"single", "scope", "mermaid"}
OnModels == {"single", "model"}
OnBoxes == {"single", "image", "scope", "shape"}
OnText == {"single", "text", "scope"}
OnContents == {"single", "toc"}
OnTables == {"single", "scope", "table"}
OnVideos == {"single", "video"}
Anywhere == {"single", "scope", "text", "image"}

\* KmarkParamSpec: the same of each of the keys.
Offer(keys, aliases, contexts, values) ==
  [key \in keys |-> [aliases |-> aliases, contexts |-> contexts, values |-> values]]

PlacementOffers ==
  Offer({"align"}, {}, {"single", "scope", "text", "image", "model"}, Names({"left", "center",
        "right"}))
    @@ Offer({"valign"}, {}, Anywhere, Names({"top", "center", "bottom", "stretch"}))
    @@ Offer({"page_valign"}, {}, Anywhere, Names({"top", "center", "bottom"}))

TocOffers ==
  Offer({"toc"}, {}, OnContents, Names({"true"}))
    @@ Offer({"toc_depth", "toc_min_depth"}, {}, OnContents, Levels)
    @@ Offer({"toc_title"}, {}, OnContents, {Quoted(Word("title"))})
    @@ Offer({"toc_ordered", "toc_links"}, {}, OnContents, {})

HeadingOffers ==
  Offer({"heading_number"}, {}, {"single", "scope"}, Names({"true"}))
    @@ Offer({"heading_number_from", "heading_number_depth"}, {}, {"single", "scope"}, Levels)
    @@ Offer({"heading_number_pattern"}, {}, {"single", "scope"}, Names({"dot", "dot_trailing",
             "hyphen", "chapter"}))

BoxOffers ==
  Offer({"w"}, {"width"}, {"single", "scope", "text", "image", "model", "shape", "table"}, {})
    @@ Offer({"h"}, {"height"}, {"single", "scope", "text", "image", "model", "shape"}, {})
    @@ Offer({"pos"}, {}, {"single", "image"}, Names({"center", "top", "bottom", "left",
             "right", "top_left", "top_right", "bottom_left", "bottom_right"}))
    @@ Offer({"border_size", "border_color"}, {}, OnBoxes, {})
    @@ Offer({"border_style"}, {}, OnBoxes, Names({"solid", "dashed", "dotted", "double",
             "none"}))

DecorationOffers ==
  Offer({"radius", "opacity", "rotate", "shadow", "padding"}, {}, OnBoxes, {})
    @@ Offer({"bg"}, {"background"}, OnBoxes, {})
    @@ Offer({"background"}, {"bg"}, OnBoxes, {})
    @@ Offer({"margin"}, {}, {"single", "image", "scope", "shape", "table"}, {})

VideoOffers ==
  Offer({"video_autoplay", "video_muted", "video_loop"}, {}, OnVideos, Names({"true"}))
    @@ Offer({"video_poster", "video_poster_time"}, {}, OnVideos, {})

CameraOffers ==
  Offer({"3d_view"}, {}, OnModels, Names({"front", "back", "left", "right", "top", "bottom",
        "iso"}))
    @@ Offer({"3d_projection"}, {}, OnModels, Names({"perspective", "orthographic"}))
    @@ Offer({"3d_fov"}, {}, OnModels, Numbers({2500, 3500, 4500, 5500, 6000}))
    @@ Offer({"3d_camera_yaw", "3d_camera_pitch", "3d_camera_distance", "3d_camera_position",
             "3d_camera_target", "3d_camera_zoom"}, {}, OnModels, {})
    @@ Offer({"3d_light_preset"}, {}, OnModels, Names({"default", "studio", "flat", "product",
             "none"}))

ModelOffers ==
  Offer({"3d_controls", "3d_convert_force", "3d_convert_center"}, {}, OnModels, {})
    @@ Offer({"3d_auto_rotate", "3d_turn_table"}, {}, OnModels, Names({"true"}))
    @@ Offer({"3d_turn_table_speed"}, {}, OnModels, Numbers({25, 50, 100, 200}))
    @@ Offer({"3d_turn_table_axis"}, {}, OnModels, Names({"z", "x", "y", "-x", "-y", "-z"}))
    @@ Offer({"3d_bg"}, {}, OnModels, Names({"transparent"}))
    @@ Offer({"3d_loading"}, {}, OnModels, Names({"lazy", "eager"}))
    @@ Offer({"3d_convert"}, {}, OnModels, Names({"auto", "never", "force"}))
    @@ Offer({"3d_convert_scale"}, {}, OnModels, Numbers({1, 10, 100, 1000}))
    @@ Offer({"3d_convert_up"}, {}, OnModels, Names({"z", "auto", "x", "y", "-x", "-y", "-z"}))

TextOffers ==
  Offer({"color", "background_color", "font_family", "letter_spacing"}, {}, OnText, {})
    @@ Offer({"font_weight"}, {}, OnText, Names({"normal", "bold", "bolder", "lighter"}) \cup
             Numbers({10000, 20000, 30000, 40000, 50000, 60000, 70000, 80000, 90000}))
    @@ Offer({"font_style"}, {}, OnText, Names({"normal", "italic", "oblique"}))
    @@ Offer({"underline", "strike"}, {}, OnText, Names({"true"}))
    @@ Offer({"ruby"}, {}, {"text"}, {})
    @@ Offer({"line_height"}, {}, {"single", "text", "scope", "table"}, {})

TableOffers ==
  Offer({"table_cell_padding", "table_cell_padding_x", "table_cell_padding_y"}, {}, OnTables, {})
    @@ Offer({"table_fit"}, {}, OnTables, Names({"auto", "off", "shrink"}))
    @@ Offer({"table_layout"}, {}, OnTables, Names({"auto", "fixed"}))

ScopeOffers ==
  Offer({"layout"}, {}, {"scope"}, Names({"row", "column"}))
    @@ Offer({"gap", "wrap"}, {}, {"scope"}, {})

PaperOffers ==
  Offer({"page_size"}, {}, OnPages, Names({"a3", "a4", "a5", "b4", "b5", "letter", "legal",
        "16:9", "4:3", "1:1", "custom"}))
    @@ Offer({"page_direction"}, {}, OnPages, Names({"vertical", "horizontal"}))
    @@ Offer({"page_width", "page_height"}, {}, OnPages, {})

MermaidOffers ==
  Offer({"mermaid_font_size", "mermaid_gantt_font_size", "mermaid_gantt_section_font_size"}, {},
        OnDiagrams, {})
    @@ Offer({"mermaid_gantt_auto_bar_size"}, {}, OnDiagrams, Names({"true", "false"}))
    @@ Offer({"mermaid_gantt_bar_height", "mermaid_gantt_bar_gap"}, {}, OnDiagrams,
             Names({"auto"}))
    @@ Offer({"mermaid_gantt_text_line_height"}, {}, OnDiagrams, Numbers({125}))
    @@ Offer({"mermaid_gantt_bar_padding_y"}, {}, OnDiagrams, Numbers({400}))
    @@ Offer({"mermaid_gantt_min_bar_height"}, {}, OnDiagrams, Numbers({2000}))
    @@ Offer({"mermaid_gantt_max_bar_height"}, {}, OnDiagrams, Numbers({5600}))
    @@ Offer({"mermaid_theme"}, {}, OnDiagrams, Names({"kmark_clean", "gantt_clean"}))
    @@ Offer({"mermaid_background"}, {}, OnDiagrams, Names({"paper", "transparent", "none"}))
    @@ Offer({"mermaid_init_merge"}, {}, OnDiagrams, Names({"merge", "replace", "user-first",
             "kmark-first"}))

FontOffers ==
  Offer({"font_size"}, {}, {"single", "text", "scope", "table"}, {})
    @@ Offer({"page_font_size", "page_font_family", "page_heading_font_family"}, {}, OnPages,
             {})

MarginOffers ==
  Offer({"page_margin", "page_margin_top", "page_margin_right", "page_margin_bottom",
        "page_margin_left"}, {}, OnPages, {})

HeaderOffers ==
  Offer({"page_header"}, {}, OnPages, Names({"false"}))
    @@ Offer({"page_header_left", "page_header_center", "page_header_right"}, {}, OnPages,
             {Quoted(Word(""))})
    @@ Offer({"page_header_opacity", "page_header_offset", "page_header_border_size",
             "page_header_border_color", "page_header_font_size", "page_header_font_family",
             "page_header_font_color", "page_header_padding"}, {}, OnPages, {})
    @@ Offer({"page_header_border_style"}, {}, OnPages, Names({"solid", "dashed", "dotted",
             "double", "none"}))

FooterOffers ==
  Offer({"page_footer"}, {}, OnPages, Names({"false"}))
    @@ Offer({"page_footer_left", "page_footer_center", "page_footer_right"}, {}, OnPages,
             {Quoted(Word(""))})
    @@ Offer({"page_footer_opacity", "page_footer_offset", "page_footer_border_size",
             "page_footer_border_color", "page_footer_font_size", "page_footer_font_family",
             "page_footer_font_color", "page_footer_padding"}, {}, OnPages, {})
    @@ Offer({"page_footer_border_style"}, {}, OnPages, Names({"solid", "dashed", "dotted",
             "double", "none"}))

PageNumberOffers ==
  Offer({"page_number"}, {}, OnPages, Names({"show", "hide", "none", "top-left", "top-center",
        "top-right", "bottom-left", "bottom-center", "bottom-right"}))
    @@ Offer({"page_number_format"}, {}, OnPages, {Quoted(Word("{page}"))})
    @@ Offer({"page_number_start", "page_number_reset", "page_number_count",
             "page_number_visible", "page_number_font_size", "page_number_color",
             "page_number_margin_top", "page_number_margin_bottom", "page_number_margin_left",
             "page_number_margin_right"}, {}, OnPages, {})
    @@ Offer({"page_number_style"}, {}, OnPages, Names({"decimal", "lower-roman", "upper-roman",
             "lower-alpha", "upper-alpha"}))

NameOffers ==
  Offer({"define", "use"}, {}, {"single", "scope", "page"}, {})

Schema ==
  PlacementOffers @@ TocOffers @@ HeadingOffers @@ BoxOffers @@ DecorationOffers @@ VideoOffers @@
    CameraOffers @@ ModelOffers @@ TextOffers @@ TableOffers @@ ScopeOffers @@ PaperOffers @@
    MermaidOffers @@ FontOffers @@ MarginOffers @@ HeaderOffers @@ FooterOffers @@
    PageNumberOffers @@ NameOffers
=============================================================================
