----------------------------- MODULE KmarkValues -----------------------------
(***************************************************************************)
(* The values of Kmark settings, as parse_kmark_*_value of                 *)
(* crates/kmark-core/src/render_markdown_preview.rs read them.             *)
(*                                                                         *)
(* What is written after the colon of a setting is one of a few forms: a   *)
(* word, a number, a number with a unit, a colour that is no word, or      *)
(* several parts. Numbers are counted in hundredths. Which characters make *)
(* up a form is left out; whether it was written in quotes is not, for not *)
(* every parser takes them off.                                            *)
(***************************************************************************)
EXTENDS Integers, FiniteSets, TLC

Form(form, text, number) == [form |-> form, text |-> text, number |-> number, quoted |-> FALSE]
Word(text) == Form("word", text, 0)
Number(hundredths) == Form("number", "", hundredths)
Length(hundredths, unit) == Form("length", unit, hundredths)
Colour(text) == Form("colour", text, 0)          \* #rgb, rgb(), var(--name)
Lengths(count) == Form("lengths", "", count)     \* lengths with blanks between them
Vector(count) == Form("vector", "", count)       \* numbers with commas between them
Time(parts) == Form("time", "", parts)           \* numbers with colons between them
Quoted(value) == [value EXCEPT !.quoted = TRUE]

\* trim_kmark_quotes
Trimmed(value) == [value EXCEPT !.quoted = FALSE]

Empty == Word("")

-----------------------------------------------------------------------------
(* Words a kind of value is chosen from. *)

\* The parsers that do not take quotes off.
BareKinds == {"layout", "align", "valign", "page_valign", "wrap", "page_size", "page_direction",
              "border_style", "position"}

LayoutWords ==
  "layout" :> {"row", "column"} @@ "align" :> {"left", "center", "right"}
    @@ "valign" :> {"top", "center", "bottom", "stretch"}
    @@ "page_valign" :> {"top", "center", "bottom"} @@ "wrap" :> {"true", "false"}

HeadingWords == "pattern" :> {"dot", "dot_trailing", "hyphen", "chapter"}

BoxWords ==
  "size" :> {"fit", "page_fit", "page_fit_contain"}
    @@ "shadow" :> {"true", "md", "sm", "lg", "false", "none"}

ModelWords ==
  "view" :> {"front", "back", "left", "right", "top", "bottom", "iso"}
    @@ "projection" :> {"perspective", "orthographic"}
    @@ "light" :> {"default", "studio", "flat", "product", "none"}
    @@ "loading" :> {"lazy", "eager"} @@ "convert" :> {"auto", "never", "force"}
    @@ "convert_up" :> {"auto", "x", "y", "z", "-x", "-y", "-z"}
    @@ "axis" :> {"x", "y", "z", "-x", "-y", "-z"} @@ "model_background" :> {"transparent"}

MermaidWords ==
  "auto_positive" :> {"auto"} @@ "auto_nonnegative" :> {"auto"}
    @@ "mermaid_background" :> {"paper", "transparent", "none"}
    @@ "init_merge" :> {"merge", "replace", "user-first", "kmark-first"}

TextWords ==
  "font_weight" :> {"normal", "bold", "bolder", "lighter"}
    @@ "font_style" :> {"normal", "italic", "oblique"} @@ "line_height" :> {"normal"}

TableWords == "fit" :> {"auto", "off", "shrink"} @@ "table_layout" :> {"auto", "fixed"}

BorderWords == "border_style" :> {"solid", "dashed", "dotted", "double", "none"}

\* Sizes are compared in lower case.
PageWords ==
  "page_size" :> {"16:9", "4:3", "1:1", "a3", "a4", "a5", "b4", "b5", "letter", "legal", "custom"}
    @@ "page_direction" :> {"vertical", "horizontal"}

PageNumberWords ==
  "page_number" :> {"show", "hide", "none", "top-left", "top-center", "top-right",
                    "bottom-left", "bottom-center", "bottom-right"}
    @@ "number_style" :> {"decimal", "lower-roman", "upper-roman", "lower-alpha", "upper-alpha"}
    @@ "bool" :> {"true", "false"}

Words == LayoutWords @@ HeadingWords @@ BoxWords @@ ModelWords @@ MermaidWords @@ TextWords
           @@ TableWords @@ BorderWords @@ PageWords @@ PageNumberWords

-----------------------------------------------------------------------------
(* Numbers, lengths and colours. *)

Whole(value) == value.form = "number" /\ value.number >= 0 /\ value.number % 100 = 0

\* parse_css_length_value: digits alone are pixels, and so is no digit at all.
IsCssLength(value, auto) ==
  \/ auto /\ value = Word("auto")
  \/ value = Empty
  \/ Whole(value)
  \/ /\ value.form = "length" /\ value.number >= 0
     /\ value.text \in {"px", "%", "em", "rem", "vw", "vh", "vmin", "vmax", "mm", "cm", "in",
                        "pt", "pc"}

\* parse_css_physical_length_value
IsPhysicalLength(value) ==
  value.form = "length" /\ value.number >= 0 /\ value.text \in {"px", "mm", "cm", "in", "pt", "pc"}

\* parse_css_box_spacing_value: one to four lengths, of which the empty value is none.
IsSpacing(value, auto) ==
  \/ value # Empty /\ IsCssLength(value, auto)
  \/ value.form = "lengths" /\ value.number \in 2 .. 4

\* parse_css_box_shadow_value: two to six parts, lengths but for a colour and "inset".
IsShadow(value) == value.form = "lengths" /\ value.number \in 2 .. 4

\* Words that are not of letters only.
Marked == {"16:9", "4:3", "1:1", "a3", "a4", "a5", "b4", "b5", "page_fit", "page_fit_contain",
           "-x", "-y", "-z", "dot_trailing", "user-first", "kmark-first", "top_left", "top_right",
           "bottom_left", "bottom_right", "{page}"}

\* parse_kmark_color_value: any word of letters is a colour, the empty one too.
IsColour(value) == value.form = "colour" \/ (value.form = "word" /\ value.text \notin Marked)

\* parse_kmark_rotate_value
IsRotation(value) ==
  \/ value.form = "number"
  \/ value.form = "length" /\ value.text \in {"deg", "rad", "turn"}

\* parse_kmark_position_value: one or two words, underscores stand for blanks.
IsPosition(value) ==
  value.form = "word" /\ value.text \in {"center", "top", "bottom", "left", "right", "top_left",
                                         "top_right", "bottom_left", "bottom_right"}

Level(value) == Whole(value) /\ value.number \in 100 .. 600
Finite(value) == value.form = "number"
Positive(value) == value.form = "number" /\ value.number > 0
Nonnegative(value) == value.form = "number" /\ value.number >= 0
Between(value, least, most) == value.form = "number" /\ value.number \in least .. most

\* parse_kmark_video_poster_time_value and parse_colon_video_time_seconds
IsTime(value) ==
  \/ Nonnegative(value)
  \/ value.form = "length" /\ value.text = "s" /\ value.number >= 0
  \/ value.form = "time" /\ value.number \in 2 .. 3

\* parse_kmark_table_cell_padding_value: of one length or of two.
IsCellPadding(value) ==
  \/ value # Empty /\ IsCssLength(value, FALSE)
  \/ value.form = "lengths" /\ value.number = 2

IsText(value) == value.form = "word" \* of characters that are not controls
IsName(value) == value.form = "word" /\ value # Empty

-----------------------------------------------------------------------------
(* Kinds of values *)

\* The kinds that are not chosen from words only.
IsMeasure(kind, value) ==
  CASE kind = "size" -> IsCssLength(value, TRUE)
    [] kind \in {"length", "line_height"} ->
         IsCssLength(value, FALSE) \/ (kind = "line_height" /\ Finite(value))
    [] kind = "physical" -> IsPhysicalLength(value)
    [] kind = "margin" -> IsSpacing(value, TRUE)
    [] kind = "padding" -> IsSpacing(value, FALSE)
    [] kind = "cell_padding" -> IsCellPadding(value)
    [] kind = "shadow" -> IsShadow(value)
    [] kind = "rotate" -> IsRotation(value)
    [] kind = "position" -> IsPosition(value)
    [] kind \in {"color", "model_background", "mermaid_background"} -> IsColour(value)
    [] OTHER -> FALSE

IsQuantity(kind, value) ==
  CASE kind = "opacity" -> Between(value, 0, 100)
    [] kind = "fov" -> Between(value, 2500, 6000)
    [] kind = "level" -> Level(value)
    [] kind = "count" -> Whole(value) /\ Positive(value)
    [] kind = "finite" -> Finite(value)
    [] kind \in {"positive", "auto_positive"} -> Positive(value)
    [] kind \in {"nonnegative", "auto_nonnegative"} -> Nonnegative(value)
    [] kind = "font_weight" -> Whole(value) /\ value.number \in {n * 10000 : n \in 1 .. 9}
    [] kind = "vector" -> value.form = "vector" /\ value.number = 3
    [] kind = "time" -> IsTime(value)
    [] OTHER -> FALSE

\* Texts: titles and the texts of headers may be empty, names may not.
IsOfText(kind, value) ==
  \/ kind = "text" /\ IsText(value)
  \/ kind \in {"name", "family", "ruby", "theme", "format", "url"} /\ IsName(value)

IsWordOf(words, kind, value) ==
  kind \in DOMAIN words /\ value.form = "word" /\ value.text \in words[kind]

IsValue(kind, value) ==
  \/ IsWordOf(Words, kind, value)
  \/ IsMeasure(kind, value)
  \/ IsQuantity(kind, value)
  \/ IsOfText(kind, value)

\* parse_kmark_*_value: the value is taken, or the setting stays what it was.
Accepts(kind, value) == (value.quoted => kind \notin BareKinds) /\ IsValue(kind, Trimmed(value))
=============================================================================
