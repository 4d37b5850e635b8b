----------------------------- MODULE PageSettings -----------------------------
(***************************************************************************)
(* The settings of a page, in                                              *)
(* crates/kmark-core/src/render_markdown_preview.rs: what Kmark comments   *)
(* say of a page (parse_kmark_page_directive_tokens), how what several     *)
(* comments say is merged (PartialPageDirective), and the page that comes  *)
(* of it (DocumentPageConfig::resolve_page). PreviewPages has which        *)
(* comments are in force for which page.                                   *)
(*                                                                         *)
(* As in KmarkParams optional fields are a function of the fields set.     *)
(***************************************************************************)
EXTENDS KmarkParams

CONSTANTS
  PageComments, \* what is written in a comment: sequences of << key, value >>
  MaxRead       \* bound on the comments in force for the page

VARIABLES
  directive,    \* what the comments say of the page
  text          \* ghost: the comments

vars == <<directive, text>>

Yes == Word("true")
No == Word("false")

-----------------------------------------------------------------------------
(* Reading a comment *)

NoDirective == [plain |-> Nothing, header |-> Nothing, footer |-> Nothing]

Drop(settings, fields) == [f \in DOMAIN settings \ fields |-> settings[f]]

\* Mutant: what is switched off keeps its texts.
SetPartAlone(region, part, value) ==
  IF part \in Sides THEN part :> value @@ "enabled" :> Yes @@ region ELSE part :> value @@ region

\* PartialPageChromeRegionDirective::set_*: to switch off drops the texts, a text
\* switches on.
SetPart(region, part, value) ==
  CASE part = "enabled" /\ value = No -> "enabled" :> No @@ Drop(region, Sides)
    [] part \in Sides -> part :> value @@ "enabled" :> Yes @@ region
    [] OTHER -> part :> value @@ region

\* parse_kmark_page_number_value: a place, or only whether the number is there.
SetNumber(plain, value) ==
  LET display == IF value.text \in {"hide", "none"} THEN No ELSE Yes
  IN  IF value.text \in {"show", "hide"}
        THEN "display" :> display @@ Drop(plain, {"position"})
        ELSE "display" :> display @@ "position" :> value @@ plain

\* One setting of a region, if the key is one.
IsPartOf(region, key, parts) == \E part \in parts : key = RegionKey(region, part)
PartOf(region, key, parts) == CHOOSE part \in parts : key = RegionKey(region, part)

\* One setting of parse_kmark_page_directive_tokens
SetPageSetting(d, key, value) ==
  CASE key = "page_number" -> [d EXCEPT !.plain = SetNumber(@, value)]
    [] IsPartOf("page_header", key, DOMAIN RegionKinds) ->
         [d EXCEPT !.header = SetPart(@, PartOf("page_header", key, DOMAIN RegionKinds), value)]
    [] IsPartOf("page_footer", key, DOMAIN RegionKinds) ->
         [d EXCEPT !.footer = SetPart(@, PartOf("page_footer", key, DOMAIN RegionKinds), value)]
    [] OTHER -> [d EXCEPT !.plain = key :> value @@ @]

ReadPageSetting(d, pair) ==
  IF Accepts(KindIn(PageKindOf, pair[1]), pair[2])
    THEN SetPageSetting(d, pair[1], Trimmed(pair[2]))
    ELSE d

\* parse_kmark_page_directive_tokens: page_scope, of an older syntax, spoils the comment.
PageDirective(pairs) ==
  IF \E i \in 1 .. Len(pairs) : pairs[i][1] = "page_scope" THEN NoDirective
  ELSE FoldLeft(ReadPageSetting, NoDirective, pairs)

-----------------------------------------------------------------------------
(* Merging *)

\* PartialPageChromeRegionDirective::merge: a region switched off says nothing else.
MergeRegion(region, other) ==
  IF "enabled" \in DOMAIN other /\ other["enabled"] = No THEN SetPart(region, "enabled", No)
  ELSE other @@ region

\* PartialPageDirective::merge: a number that is asked for has a place.
MergeNumber(plain, other) ==
  LET merged == other @@ plain
      placed == "position" \in DOMAIN merged /\ merged["position"] # Word("none")
  IN  IF "display" \in DOMAIN other /\ other["display"] = Yes /\ "position" \notin DOMAIN other
           /\ ~placed
        THEN "position" :> Word("bottom-center") @@ merged
        ELSE merged

MergePage(d, other) ==
  [plain |-> MergeNumber(d.plain, other.plain), header |-> MergeRegion(d.header, other.header),
   footer |-> MergeRegion(d.footer, other.footer)]

-----------------------------------------------------------------------------
(* The page *)

SettingOr(settings, field, default) ==
  IF field \in DOMAIN settings THEN settings[field] ELSE default

\* PageSizePreset::portrait_size
PortraitSize(size) ==
  LET mm(width, height) == <<Length(width * 100, "mm"), Length(height * 100, "mm")>>
      inches(width, height) == <<Length(width, "in"), Length(height, "in")>>
  IN  CASE size = "16:9" -> mm(187, 333) [] size = "4:3" -> mm(216, 288)
        [] size = "1:1" -> mm(250, 250) [] size = "a3" -> mm(297, 420)
        [] size \in {"a4", "custom"} -> mm(210, 297) [] size = "a5" -> mm(148, 210)
        [] size = "b4" -> mm(250, 353) [] size = "b5" -> mm(176, 250)
        [] size = "letter" -> inches(850, 1100) [] OTHER -> inches(850, 1400)

\* PageGeometryBasis::apply and to_page_size, of A4 upright: sizes of screens lie on
\* their side, and a page has the width and height it is given only if it has both.
PageSize(plain) ==
  LET size == SettingOr(plain, "page_size", Word("a4")).text
      lies == SettingOr(plain, "page_direction",
                        Word(IF size \in {"16:9", "4:3"} THEN "horizontal" ELSE "vertical"))
                = Word("horizontal")
  IN  IF {"page_width", "page_height"} \subseteq DOMAIN plain
        THEN <<plain["page_width"], plain["page_height"]>>
        ELSE IF lies THEN Reverse(PortraitSize(size)) ELSE PortraitSize(size)

\* DocumentPageConfig::resolve_page, the margins
Margins(plain) ==
  [side \in {"top", "right", "bottom", "left"} |->
     SettingOr(plain, "page_margin_" \o side,
               SettingOr(plain, "page_margin", Word("default")))]

\* PageNumberConfig::apply
PageNumber(plain) ==
  LET display == SettingOr(plain, "display", No) = Yes
      position == SettingOr(plain, "position", Word("none"))
  IN  [position |-> IF display /\ position = Word("none") THEN Word("bottom-center") ELSE position,
       visible  |-> SettingOr(plain, "page_number_visible", SettingOr(plain, "display", Yes)) = Yes,
       settings |-> Drop(plain, {"display", "position", "page_number_visible"})]

\* PageChromeRegionConfig::apply, of a region that is off
Region(region) ==
  LET isOff == SettingOr(region, "enabled", Yes) = No
  IN  [enabled |-> ~isOff /\ DOMAIN region \cap Sides # {},
       parts   |-> IF isOff THEN Nothing ELSE Drop(region, {"enabled"})]

\* resolve_page
Page(d) ==
  [size |-> PageSize(d.plain), margins |-> Margins(d.plain), number |-> PageNumber(d.plain),
   header |-> Region(d.header), footer |-> Region(d.footer)]

-----------------------------------------------------------------------------
(* The comments in force for a page are merged one after the other. *)

Init == directive = NoDirective /\ text = << >>

Read(pairs) ==
  /\ pairs \in PageComments
  /\ directive' = MergePage(directive, PageDirective(pairs))
  /\ text' = Append(text, pairs)

\* Behind the scopes and the comments that a page stands under, no setting is in force.
Leave == text # << >> /\ directive' = NoDirective /\ text' = << >>

Next == Leave \/ (Len(text) < MaxRead /\ \E pairs \in PageComments : Read(pairs))

Spec == Init /\ [][Next]_vars

-----------------------------------------------------------------------------

\* What a comment says, as far as it is accepted.
Accepted(pairs) ==
  IF \E i \in 1 .. Len(pairs) : pairs[i][1] = "page_scope" THEN << >>
  ELSE SelectSeq(pairs, LAMBDA pair : Accepts(KindIn(PageKindOf, pair[1]), pair[2]))

SaidOf(pairs, keys) == SelectSeq(pairs, LAMBDA pair : pair[1] \in keys)

\* A region is on the page if a comment gives it a text and none after it leaves the
\* region off: of a comment that switches it off and on again the last word counts.
RegionAsAsked(name, region, comments) ==
  LET said == [i \in 1 .. Len(comments) |->
                 SaidOf(comments[i], {RegionKey(name, part) : part \in Sides \cup {"enabled"}})]
      isOff(pair) == pair[1] = name /\ Trimmed(pair[2]) = No
      givesText(pairs) ==
        \E i \in 1 .. Len(pairs) : pairs[i][1] # name /\ \A j \in i .. Len(pairs) : ~isOff(pairs[j])
      leavesOff(pairs) == pairs # << >> /\ isOff(Last(pairs))
  IN  region.enabled <=>
        \E i \in 1 .. Len(said) : givesText(said[i]) /\ \A j \in i .. Len(said) : ~leavesOff(said[j])

\* A page number that was asked for last has a place on the page, one that was taken
\* away last is not seen unless it is said to be visible.
NumberAsAsked(number, comments) ==
  LET of(key) == FlattenSeq([i \in 1 .. Len(comments) |-> SaidOf(comments[i], {key})])
      said == of("page_number")
      visible == of("page_number_visible")
  IN  said # << >> =>
        LET asked == Trimmed(Last(said)[2]).text \notin {"hide", "none"}
        IN  /\ asked => number.position # Word("none")
            /\ number.visible = IF visible = << >> THEN asked ELSE Trimmed(Last(visible)[2]) = Yes

AsAsked(page, comments) ==
  /\ RegionAsAsked("page_header", page.header, comments)
  /\ RegionAsAsked("page_footer", page.footer, comments)
  /\ NumberAsAsked(page.number, comments)

\* What a page shows around its text follows the comments in force in the order they
\* are written: the header, the footer and the number that were asked for last are seen.
PageIsAsAsked == AsAsked(Page(directive), [i \in 1 .. Len(text) |-> Accepted(text[i])])
=============================================================================
