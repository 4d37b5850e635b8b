--------------------------- MODULE MCPreviewMarkup ---------------------------
(***************************************************************************)
(* The markup of a page: the tags of a document or a diagram in it. The    *)
(* two share nothing; one is checked at a time.                            *)
(***************************************************************************)
EXTENDS PreviewMarkup, GeneratedSvg

VARIABLE part  \* "document" or "diagram"

MCKinds == {"paragraph", "quote", "callout", "diagram", "footnote", "list", "title", "link", "badlink",
            "image"}

\* Documents are followed as far as scopes and elements have not crossed; those in a list
\* no deeper than a definition's title needs, with an element and a scope in it.
MCPlain ==
  tidy /\ Depth + Len(scopes) + Len(inlines) <= IF "list" \in Range(elements) THEN 4 ELSE 5

\* A root with an id or without, elements that share an id, one of them unsafe, and
\* references that must lead to an element and that need not.
MCIds == {"a", "b"}
MCTags ==
  {Tag("svg", id, Absent, Absent) : id \in {Absent, "a"}}
    \cup {Tag(name, "a", Absent, Absent) : name \in {"g", "div", "script"}}
    \cup {Tag(name, Absent, Absent, Absent) : name \in {"foreignObject", "style"}}
    \cup {Tag("g", "b", "url", "a"), Tag("a", Absent, "href", "a")}

MCBeside(first, second) ==
  <<Token("id", first, NoId), Token("sibling", Absent, NoId), Token("id", second, NoId)>>
MCRules ==
  {[at |-> keyword, selectors |-> {MCBeside("a", "b"), MCBeside("b", "a")},
    safe |-> TRUE, url |-> "a"] : keyword \in BOOLEAN}

MCInit ==
  /\ part \in {"document", "diagram"}
  /\ MarkupInit
  /\ SvgInit

MCNext ==
  /\ \/ part = "document" /\ MarkupNext /\ UNCHANGED svgVars
     \/ part = "diagram" /\ SvgNext /\ UNCHANGED markupVars
  /\ UNCHANGED part

MCSpec == MCInit /\ [][MCNext]_<<markupVars, svgVars, part>>
=============================================================================
