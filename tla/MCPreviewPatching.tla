-------------------------- MODULE MCPreviewPatching --------------------------
EXTENDS PreviewPatching

Text == Line("text")
Blank == Line("blank")
Break == Line("break")
Numbered == Directive("params", ("numbers" :> TRUE))
PageNumbers == Directive("params", ("display" :> TRUE))
Landscape == Directive("params", ("size" :> "landscape"))
Reset == Directive("params", ("reset" :> TRUE))

MCReplacements == {Line("prose"), Blank, Heading(2)}

\* A section that opens a scope, counts a heading or sets up its pages, and one to edit.
MCFirst == {<<Numbered, Line("open"), Heading(1)>>, <<PageNumbers, Text>>}
MCKinds ==
  {Text, Blank, Heading(1), Line("open"), Line("close"), Numbered, Landscape,
   Line("toc"), Line("mermaid"), Line("fence")}
MCLast == {Text, Line("fence")}
MCDocuments ==
  {first \o <<Break, a, b, c>> : first \in MCFirst, a \in MCKinds, b \in MCKinds \cup {Break}, c \in MCLast}

\* A document is edited twice where nothing else is left in it.
MCTwice == MCReplacements \cup {Text, Break, PageNumbers}
MCEdited == revision > 2 => Range(document) \subseteq MCTwice

\* The same, with what a patch overlooks.
MCKindsAll == {Text, Blank, Line("close"), Reset, Line("comment"), Line("uncomment"), Break}
MCDocumentsAll ==
  {first \o <<Break, a, b, c>> : first \in {<<Line("open")>>, <<Reset, Text>>}, a, b, c \in MCKindsAll}
=============================================================================
