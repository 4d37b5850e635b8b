----------------------------- MODULE GeneratedSvg -----------------------------
(***************************************************************************)
(* finalize_generated_svg of crates/kmark-core/src/generated_svg.rs: what  *)
(* a diagram renderer drew is made fit to stand in a page beside other     *)
(* diagrams. A first pass over the XML plans new ids, a second one writes  *)
(* the diagram with them; each pass finds out for itself which elements    *)
(* are left out and which occurrence of an id it has come to.              *)
(*                                                                         *)
(* The source is made up as the first pass reads it and read again by the  *)
(* second. An element has at most one id and one reference; of a style     *)
(* sheet there is what names elements. Attributes that are dropped, the    *)
(* addresses of images and the style of the root are left out.             *)
(***************************************************************************)
EXTENDS Integers, Sequences, FiniteSets, SequencesExt

CONSTANTS
  Absent,    \* no id, no reference, no rule
  Ids,       \* ids the renderer uses
  Tags,      \* tags the source may have
  Rules,     \* rules its style sheets may have
  MaxEvents  \* bound on the events of a source

\* Tags have no other ids than those in Ids; the code drops a selector that is empty.
ASSUME AbsentIsNoId == Absent \notin Ids
ASSUME TagsHaveKnownIds == \A tag \in Tags : tag.id \in Ids \cup {Absent}
ASSUME SelectorsAreSequences ==
  \A rule \in Rules : \A selector \in rule.selectors :
    selector \in Seq(Range(selector)) \ {<< >>}

VARIABLES
  svg,     \* the events of raw_svg, as far as they were read
  pass,    \* inspect_svg, rewrite_svg, done or failed
  place,   \* the event rewrite_svg comes to
  reader,  \* where a pass is: elements open, suppressed_depth, foreign_depth, root_count
  plan,    \* mapped_ids, retained_occurrences and retained_expanded
  nextId,
  seen,    \* id_occurrences of the pass
  sheet,   \* style_depth, zero for none, and style_text
  out      \* elements and rules written

svgVars == <<svg, pass, place, reader, plan, nextId, seen, sheet, out>>

Tag(name, id, by, to) == [name |-> name, id |-> id, by |-> by, to |-> to]

\* New ids: that of the root, and the numbers of the others.
RootId == 0
NoId == -1

Event(kind, tag, rule) == [kind |-> kind, tag |-> tag, rule |-> rule]
StartEvent(tag) == Event("start", tag, Absent)
EmptyEvent(tag) == Event("empty", tag, Absent)
TextEvent(rule) == Event("text", Absent, rule)
EndEvent == Event("end", Absent, Absent)
DoctypeEvent == Event("doctype", Absent, Absent)

Fresh == [open |-> << >>, suppressed |-> 0, foreign |-> 0, roots |-> 0]
Unseen == [id \in Ids |-> 0]
NoSheet == [depth |-> 0, rules |-> {}]
Unplanned == [new |-> NoId, retained |-> 0, expanded |-> FALSE]

SvgInit ==
  /\ svg = << >> /\ pass = "inspect" /\ place = 1
  /\ reader = Fresh /\ seen = Unseen /\ nextId = 0
  /\ plan = [id \in Ids |-> Unplanned]
  /\ sheet = NoSheet /\ out = << >>

-----------------------------------------------------------------------------
(* What both passes do with the tree *)

IsUnsafe(name) == name = "script"
IsSafeForeign(name) == name = "div"

\* Elements that are left out with all they contain.
Skips(name) ==
  reader.suppressed > 0 \/ IsUnsafe(name) \/ (reader.foreign > 0 /\ ~IsSafeForeign(name))

AtTop == reader.open = << >>

\* An empty element opens nothing.
ReadTag(event) ==
  LET name == event.tag.name
      roots == reader.roots + (IF AtTop THEN 1 ELSE 0)
  IN IF event.kind = "empty" THEN [reader EXCEPT !.roots = roots]
     ELSE [open |-> Append(reader.open, name),
           suppressed |-> IF Skips(name) THEN reader.suppressed + 1 ELSE 0,
           foreign |-> reader.foreign
             + (IF ~Skips(name) /\ name = "foreignObject" THEN 1 ELSE 0),
           roots |-> roots]

ReadEnd ==
  [reader EXCEPT
     !.open = Front(@),
     !.suppressed = IF @ > 0 THEN @ - 1 ELSE 0,
     !.foreign = IF reader.suppressed = 0 /\ Last(reader.open) = "foreignObject"
                 THEN @ - 1 ELSE @]

-----------------------------------------------------------------------------
(* inspect_svg *)

\* Mutant: an id stays with its first occurrence, which may have no contents.
CollectIdFirst(id, root, expanded) ==
  /\ seen' = [seen EXCEPT ![id] = @ + 1]
  /\ IF plan[id].new = NoId
     THEN /\ nextId' = IF root THEN nextId ELSE nextId + 1
          /\ plan' = [plan EXCEPT ![id] =
               [new |-> IF root THEN RootId ELSE nextId + 1,
                retained |-> seen[id], expanded |-> expanded]]
     ELSE UNCHANGED <<plan, nextId>>

\* collect_element_id: the id is mapped where it occurs first and stays with the first
\* occurrence that is expanded, if any.
CollectId(id, root, expanded) ==
  /\ seen' = [seen EXCEPT ![id] = @ + 1]
  /\ IF plan[id].new = NoId
     THEN /\ nextId' = IF root THEN nextId ELSE nextId + 1
          /\ plan' = [plan EXCEPT ![id] =
               [new |-> IF root THEN RootId ELSE nextId + 1,
                retained |-> seen[id], expanded |-> expanded]]
     ELSE /\ plan' = IF expanded /\ ~plan[id].expanded
                     THEN [plan EXCEPT ![id].retained = seen[id], ![id].expanded = TRUE]
                     ELSE plan
          /\ UNCHANGED nextId

\* The bound leaves room for the elements open to be closed.
Reads(event, opens) ==
  /\ pass = "inspect"
  /\ Len(svg) + Len(reader.open) + opens < MaxEvents
  /\ svg' = Append(svg, event)
  /\ UNCHANGED <<place, sheet, out>>

InspectTag(event) ==
  /\ Reads(event, IF event.kind = "start" THEN 1 ELSE 0)
  /\ IF AtTop /\ event.tag.name # "svg"
     THEN pass' = "failed" /\ UNCHANGED <<reader, plan, nextId, seen>>
     ELSE /\ reader' = ReadTag(event)
          /\ IF event.tag.id # Absent /\ ~Skips(event.tag.name)
             THEN CollectId(event.tag.id, AtTop, event.kind = "start")
             ELSE UNCHANGED <<plan, nextId, seen>>
          /\ UNCHANGED pass

InspectEnd ==
  /\ Reads(EndEvent, -1)
  /\ IF AtTop
     THEN pass' = "failed" /\ UNCHANGED <<reader, plan, nextId, seen>>
     ELSE reader' = ReadEnd /\ UNCHANGED <<plan, nextId, seen, pass>>

\* Only white space may stand outside the root.
InspectText(rule) ==
  /\ Reads(TextEvent(rule), 0)
  /\ UNCHANGED <<reader, plan, nextId, seen>>
  /\ pass' = IF AtTop THEN "failed" ELSE pass

InspectDoctype ==
  /\ Reads(DoctypeEvent, 0)
  /\ pass' = "failed" /\ UNCHANGED <<reader, plan, nextId, seen>>

InspectEof ==
  /\ pass = "inspect"
  /\ IF AtTop /\ reader.roots = 1
     THEN pass' = "rewrite" /\ reader' = Fresh /\ seen' = Unseen
     ELSE pass' = "failed" /\ UNCHANGED <<reader, seen>>
  /\ UNCHANGED <<svg, place, plan, nextId, sheet, out>>

-----------------------------------------------------------------------------
(* rewrite_svg *)

\* mapped_ids.get
Mapped(id) == IF id \in Ids THEN plan[id].new ELSE NoId

\* sanitize_href and rewrite_fragment_urls: only a link may lead out of the diagram.
Refused(tag) ==
  /\ Mapped(tag.to) = NoId
  /\ tag.by = "url" \/ (tag.by = "href" /\ tag.name # "a")

\* rewrite_start, the id.
Named(tag, root) ==
  IF root THEN RootId
  ELSE IF tag.id # Absent /\ plan[tag.id].retained = seen[tag.id] THEN plan[tag.id].new
  ELSE NoId

\* The second pass counts as the first did.
Counted(tag) == IF tag.id = Absent THEN seen ELSE [seen EXCEPT ![tag.id] = @ + 1]

RewriteTag ==
  LET event == svg[place]
      tag == event.tag
  IN /\ pass = "rewrite" /\ place <= Len(svg) /\ event.kind \in {"start", "empty"}
     /\ place' = place + 1
     /\ reader' = ReadTag(event)
     /\ IF Skips(tag.name) THEN UNCHANGED <<pass, seen, sheet, out>>
        ELSE IF Refused(tag) THEN pass' = "failed" /\ UNCHANGED <<seen, sheet, out>>
        ELSE /\ seen' = Counted(tag)
             /\ out' = Append(out, [from |-> place, id |-> Named(tag, AtTop),
                                    to |-> Mapped(tag.to), rules |-> {}])
             /\ sheet' = IF event.kind = "start" /\ tag.name = "style"
                         THEN [depth |-> Len(reader.open) + 1, rules |-> {}]
                         ELSE sheet
             /\ UNCHANGED pass
     /\ UNCHANGED <<svg, plan, nextId>>

\* Tokens of a selector are ids, classes and combinators: a space, > or a sibling. These
\* two are put before it.
Token(kind, id, new) == [kind |-> kind, id |-> id, new |-> new]
Root == Token("id", Absent, RootId)
Descendant == Token("descendant", Absent, NoId)

\* rewrite_selector_ids: an unknown id is kept.
Rewritten(selector) ==
  [k \in DOMAIN selector |-> Token(selector[k].kind, selector[k].id, Mapped(selector[k].id))]

\* selector_escapes_root_with_sibling: the first combinator decides.
Escapes(selector) ==
  \E k \in DOMAIN selector :
    /\ selector[k].kind = "sibling"
    /\ \A j \in 1 .. k - 1 : selector[j].kind \notin {"descendant", "child", "sibling"}

\* scope_stylesheet_selector, of one that is kept
BelowRoot(selector) ==
  IF selector[1].new = RootId THEN selector ELSE <<Root, Descendant>> \o selector

\* sanitize_stylesheet. A rule has selectors, a property that is kept or not, and maybe
\* a fragment in its value; rules with an at-keyword are left out.
Scoped(rule) ==
  LET rewritten == {Rewritten(selector) : selector \in rule.selectors}
  IN  [selectors |-> {BelowRoot(s) : s \in {w \in rewritten : ~(w[1].new = RootId /\ Escapes(w))}},
       url |-> rule.url, new |-> Mapped(rule.url)]

Sheet(rules) ==
  {scoped \in {Scoped(rule) : rule \in {written \in rules : ~written.at /\ written.safe}} :
     scoped.selectors # {}}

SheetRefused(rules) ==
  \E rule \in rules :
    ~rule.at /\ rule.safe /\ rule.url # Absent /\ Mapped(rule.url) = NoId

RewriteEnd ==
  LET styled == reader.suppressed = 0 /\ sheet.depth = Len(reader.open)
  IN /\ pass = "rewrite" /\ place <= Len(svg) /\ svg[place].kind = "end"
     /\ place' = place + 1
     /\ reader' = ReadEnd
     /\ IF ~styled THEN UNCHANGED <<pass, sheet, out>>
        ELSE IF SheetRefused(sheet.rules) THEN pass' = "failed" /\ UNCHANGED <<sheet, out>>
        ELSE /\ sheet' = NoSheet
             /\ out' = Append(out, [from |-> place, id |-> NoId, to |-> NoId,
                                    rules |-> Sheet(sheet.rules)])
             /\ UNCHANGED pass
     /\ UNCHANGED <<svg, plan, nextId, seen>>

RewriteText ==
  /\ pass = "rewrite" /\ place <= Len(svg) /\ svg[place].kind = "text"
  /\ place' = place + 1
  /\ sheet' = IF reader.suppressed = 0 /\ sheet.depth > 0
              THEN [sheet EXCEPT !.rules = @ \cup {svg[place].rule}] ELSE sheet
  /\ UNCHANGED <<svg, pass, reader, plan, nextId, seen, out>>

RewriteEof ==
  /\ pass = "rewrite" /\ place > Len(svg)
  /\ pass' = "done"
  /\ UNCHANGED <<svg, place, reader, plan, nextId, seen, sheet, out>>

SvgNext ==
  \/ \E tag \in Tags : InspectTag(StartEvent(tag)) \/ InspectTag(EmptyEvent(tag))
  \/ \E rule \in Rules : InspectText(rule)
  \/ InspectEnd
  \/ InspectDoctype
  \/ InspectEof
  \/ RewriteTag
  \/ RewriteEnd
  \/ RewriteText
  \/ RewriteEof

SvgSpec == SvgInit /\ [][SvgNext]_svgVars

-----------------------------------------------------------------------------
(* Properties *)

\* The properties are about a source and what was made of it.
IsTag(source, k) == source[k].kind \in {"start", "empty"}

Between(source, kind, from, to) == Cardinality({n \in from .. to : source[n].kind = kind})

\* The elements around an event: those begun and not ended before it.
Around(source, k) ==
  {j \in 1 .. k - 1 :
     /\ source[j].kind = "start"
     /\ \A m \in j .. k - 1 : Between(source, "start", j, m) > Between(source, "end", j, m)}

\* An element of the diagram: nothing around it is unsafe, and in a foreign object all is safe.
Safe(source, k) ==
  /\ ~IsUnsafe(source[k].tag.name)
  /\ (\E f \in Around(source, k) : source[f].tag.name = "foreignObject")
       => IsSafeForeign(source[k].tag.name)
IsKept(source, k) == IsTag(source, k) /\ \A j \in Around(source, k) \cup {k} : Safe(source, j)

\* The element that an id of the source stands for: the first one that has contents, or
\* else the first. There is one unless only elements that are left out have the id.
Bearers(source, id) == {k \in DOMAIN source : IsKept(source, k) /\ source[k].tag.id = id}
Target(source, id) ==
  LET expanded == {k \in Bearers(source, id) : source[k].kind = "start"}
      First(S) == CHOOSE k \in S : \A j \in S : k <= j
  IN  First(IF expanded # {} THEN expanded ELSE Bearers(source, id))

\* A new id names one element, the one its old id stands for.
Leads(new, id) ==
  LET named == {k \in DOMAIN out : out[k].id # NoId /\ out[k].id = new}
  IN  IF id \in Ids /\ Bearers(svg, id) # {}
        THEN \E k \in named : named = {k} /\ out[k].from = Target(svg, id)
        ELSE new = NoId

SelectorLeads(selector) ==
  /\ selector[1].new = RootId /\ ~Escapes(selector)
  /\ \A k \in DOMAIN selector : selector[k] = Root \/ Leads(selector[k].new, selector[k].id)

RuleLeads(rule) == Leads(rule.new, rule.url) /\ \A s \in rule.selectors : SelectorLeads(s)

\* In a diagram that was accepted, every reference of an element, every selector and
\* every fragment in a rule leads to the element that it led to in the source, also where
\* the renderer gave one id to several elements or to elements that are left out
\* (generated_svg.rs:79, 284: two passes that must count alike); and rules apply to the
\* diagram alone.
ReferencesKeepTheirTarget ==
  pass = "done" =>
    \A k \in DOMAIN out :
      /\ IsTag(svg, out[k].from) => Leads(out[k].to, svg[out[k].from].tag.to)
      /\ \A rule \in out[k].rules : RuleLeads(rule)
=============================================================================
