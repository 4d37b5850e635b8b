----------------------------- MODULE KmarkOffers -----------------------------
(***************************************************************************)
(* A setting from the list the editor offers to the page: a comment that   *)
(* is completed with a setting of KMARK_PARAM_SPECS                        *)
(* (kmark_param_schema.rs), and what render_markdown_preview.rs makes of   *)
(* it. The two are written down apart from each other.                     *)
(***************************************************************************)
EXTENDS KmarkStyles, KmarkSchema

CONSTANT None

VARIABLES
  block,     \* the block after the comment, "text", "image" etc.
  completed  \* the setting of the comment, [key, name, value, contexts], or None

vars == <<block, completed>>

\* The places a setting is offered for that are blocks.
Blocks == {"text", "image", "model", "video", "table", "mermaid", "shape"}

\* Values the author writes where none is offered: what the descriptions and the
\* examples of the schema ask for.
Samples(kind) ==
  CASE kind = "size" -> {Number(1000), Length(5000, "%"), Word("fit"), Word("page_fit")}
    [] kind \in {"length", "physical", "cell_padding"} -> {Length(1200, "px"), Length(150, "mm")}
    [] kind \in {"margin", "padding"} -> {Length(800, "px"), Lengths(2)}
    [] kind = "color" -> {Word("red"), Colour("#123")}
    [] kind = "bool" -> {Word("true"), Word("false")}
    [] kind = "opacity" -> {Number(80)}
    [] kind \in {"finite", "line_height"} -> {Number(150)}
    [] kind \in {"positive", "auto_positive", "auto_nonnegative"} -> {Number(150)}
    [] kind = "count" -> {Number(300)}
    [] kind = "level" -> {Number(200)}
    [] kind = "rotate" -> {Number(500), Length(500, "deg")}
    [] kind = "shadow" -> {Word("true"), Word("md")}
    [] kind = "vector" -> {Vector(3)}
    [] kind = "time" -> {Number(1000), Time(2), Length(250, "s")}
    [] kind = "wrap" -> {Word("true"), Word("false")}
    [] kind = "text" -> {Quoted(Word("title")), Quoted(Empty)}
    [] kind = "family" -> {Quoted(Word("serif"))}
    [] kind \in {"name", "ruby", "format", "url"} -> {Word("word")}
    [] OTHER -> {}

AnyKindOf == KindOf @@ PageKindOf

\* The values a setting is completed with.
ValuesOf(offer, kind) == IF offer.values = {} THEN Samples(kind) ELSE offer.values

Init == block \in Blocks /\ completed = None

\* A setting is picked from the list for this block, under one of its names.
Complete(key, offer, kind) ==
  /\ completed = None
  /\ block \in offer.contexts \/ offer.contexts \cap Blocks = {}
  /\ \E name \in {key} \cup offer.aliases, value \in ValuesOf(offer, kind) :
       completed' = [key |-> key, name |-> name, value |-> value,
                     contexts |-> offer.contexts]
  /\ UNCHANGED block

\* The author takes the setting out again.
Withdraw == completed # None /\ completed' = None /\ UNCHANGED block

Next ==
  \/ Withdraw
  \/ \E schema \in {Schema}, kinds \in {AnyKindOf} :
       \E key \in DOMAIN schema : Complete(key, schema[key], KindIn(kinds, key))

Spec == Init /\ [][Next]_vars

-----------------------------------------------------------------------------

\* The parser takes what is offered, and takes another name of a setting for the same.
IsRead(offer, kind) == Accepts(kind, offer.value) /\ Canonical(offer.name) = Canonical(offer.key)

\* A setting in a comment before the block changes the block.
ShowsAlone(params) ==
  Look(block, params, Nothing, TRUE, TRUE) # Look(block, Nothing, Nothing, TRUE, TRUE)

\* A setting of a scope changes the scope or this block within it.
ShowsInScope(params) ==
  \/ ScopeLook(params) # ScopeLook(Nothing)
  \/ Look(block, params, params, FALSE, FALSE) # Look(block, Nothing, Nothing, FALSE, FALSE)

\* A table_fit alone has no style to be written with.
Honoured(offer, params) ==
  DOMAIN params \subseteq ParamFields =>
    /\ "single" \in offer.contexts /\ offer.key # "table_fit" => ShowsAlone(params)
    /\ "scope" \in offer.contexts /\ block \in offer.contexts => ShowsInScope(params)
    /\ "text" \in offer.contexts /\ DOMAIN params \subseteq TextFields => InlineLook(params) # {}

\* Every setting is read and, wherever it is offered, does something there.
OffersAreHonoured ==
  completed # None =>
    /\ IsRead(completed, KindIn(AnyKindOf, completed.name))
    /\ KindIn(KindOf, completed.name) # "unknown" =>
         Honoured(completed, Bundle(<< <<completed.name, completed.value>> >>))
=============================================================================
