-------------------------------- MODULE MCText --------------------------------
(***************************************************************************)
(* The text algorithms of a document side by side: one batch of edits      *)
(* after the other on a rope (TextEditing), one file that is opened,       *)
(* edited and written (LineEndings), a document with a table (Tables),     *)
(* which are extended, one with Kmark settings (KmarkScopes),              *)
(* the comments in force for a page (PageSettings) and a comment that is   *)
(* completed (KmarkOffers). They are sequential, so that each behaviour is *)
(* of one of them.                                                         *)
(***************************************************************************)
EXTENDS LineEndings, TextEditing, Tables, KmarkScopes

CONSTANTS
  a, w, cr     \* the characters of ropes and inserts; w is astral, cr is \r

VARIABLES
  directive, comments,          \* of PageSettings
  block, completed,             \* of KmarkOffers
  algorithm                     \* "edits", "endings", "tables", "scopes", "pages" or "offers"

pages == <<directive, comments>>
offers == <<block, completed>>

MCInserts == {<< >>, <<a, w>>, <<cr>>}

\* A table of three lines with any short row, and documents of four lines.
Rows == UNION {[1 .. n -> {"x", "|", "tick", "esc", " "}] : n \in 0 .. 4}
TableLines ==
  {<<"tick", "tick", "tick">>, <<"x", "|", "x">>, <<"-", "|", "-", ":">>,
   <<" ", " ", " ", " ", "x", "|">>, <<" ", " ", " ", " ", "tick", "tick", "tick">>, << >>, <<"1", "|", "wide">>}

MCDocuments ==
  {Append(head, row) :
     head \in {<< <<"|", "x", "|">>, <<"-", "|", ":", "-">> >>,
              << <<"x", "|", "1">>, <<"|", "-", "|">> >>}, row \in Rows}
  \cup [1 .. 4 -> TableLines]

MCGrids == [1 .. 2 -> [1 .. 3 -> {"text", "left", "up"}]] \cup [1 .. 3 -> [1 .. 2 -> {"text", "left", "up"}]]

\* Settings that override each other, and of every kind of comment one.
MCComments ==
  {<< <<"w", Length(5000, "%")>>, <<"align", Word("left")>> >>,
   << <<"use", Word("preset")>>, <<"width", Quoted(Number(1000))>>,
      <<"w", Vector(3)>> >>,
   << <<"toc", Word("true")>>, <<"table_cell_padding", Length(100, "mm")>> >>,
   << <<"ruby", Word("ruby")>> >>}

\* Settings of pages: some alone in their comment, some with others.
Region == {<<"page_header", Word("false")>>, <<"page_header", Word("true")>>,
           <<"page_header_left", Quoted(Empty)>>}
Numbers == {<<"page_number", Word("show")>>, <<"page_number", Word("none")>>,
            <<"page_number", Quoted(Word("top-left"))>>}
Others ==
  {<<"page_header_center", Word("title")>>, <<"page_header_opacity", Number(50)>>,
   <<"page_number", Word("hide")>>, <<"page_number_visible", Word("false")>>,
   <<"page_size", Word("16:9")>>, <<"page_scope", Word("all")>>}

Pages == INSTANCE PageSettings
  WITH text <- comments, MaxRead <- 3,
       PageComments <- [1 .. 1 -> Region \cup Numbers \cup Others]
                         \cup [1 .. 2 -> Region] \cup [1 .. 2 -> Numbers]

Offers == INSTANCE KmarkOffers

MCInit ==
  /\ algorithm \in {"edits", "endings", "tables", "scopes", "pages", "offers"}
  /\ IF algorithm = "edits" THEN EditInit
     ELSE rope = << >> /\ before = << >> /\ batch = << >>
  /\ IF algorithm = "endings" THEN Init
     ELSE file = << >> /\ lfText = << >> /\ lineEnding = "lf" /\ phase = "closed"
  /\ IF algorithm = "tables" THEN TableInit
     ELSE original = << >> /\ lines = << >> /\ grid = << >> /\ prefix = << >> /\ shown = {}
  /\ SettingsInit /\ Pages!Init
  /\ IF algorithm = "offers" THEN Offers!Init ELSE block = "text" /\ completed = None

MCNext ==
  /\ \/ algorithm = "edits" /\ EditNext /\ UNCHANGED <<vars, tableVars, settingsVars, pages, offers>>
     \/ algorithm = "endings" /\ Next /\ UNCHANGED <<editVars, tableVars, settingsVars, pages, offers>>
     \/ algorithm = "tables" /\ TableNext /\ UNCHANGED <<vars, editVars, settingsVars, pages, offers>>
     \/ algorithm = "scopes" /\ SettingsNext /\ UNCHANGED <<vars, editVars, tableVars, pages, offers>>
     \/ algorithm = "pages" /\ Pages!Next /\ UNCHANGED <<vars, editVars, tableVars, settingsVars, offers>>
     \/ algorithm = "offers" /\ Offers!Next /\ UNCHANGED <<vars, editVars, tableVars, settingsVars, pages>>
  /\ UNCHANGED algorithm

MCSpec == MCInit /\ [][MCNext]_<<vars, editVars, tableVars, settingsVars, pages, offers, algorithm>>

\* A page shows around its text what was asked for last.
PageIsAsAsked == Pages!PageIsAsAsked

\* What the editor offers is read, and does something.
OffersAreHonoured == Offers!OffersAreHonoured
=============================================================================
