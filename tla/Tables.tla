-------------------------------- MODULE Tables --------------------------------
(***************************************************************************)
(* Tables. crates/kmark-core/src/table_format.rs aligns the columns of     *)
(* every pipe table of a document; render_markdown_preview.rs splits the   *)
(* lines of a table in the same way to find the cells that are merged with *)
(* their neighbours, and merges them.                                      *)
(*                                                                         *)
(* A line is a sequence of characters: "|", "tick", "esc" (a backslash),   *)
(* " ", "-" and ":" have their meaning, "\t" and "wide" their width, "1"   *)
(* is a digit and any other one a letter.                                  *)
(***************************************************************************)
EXTENDS Integers, Sequences, FiniteSets, SequencesExt, FiniteSetsExt

CONSTANTS
  Documents,  \* documents to be formatted, as sequences of lines
  Grids       \* bodies of tables: markers[row][column]

ASSUME GridsAreTables ==
  \A markers \in Grids :
    /\ markers \in Seq(Seq({"text", "left", "up"}))
    /\ \A row \in 1 .. Len(markers) : Len(markers[row]) = Len(markers[1])

VARIABLES
  original,     \* the document as it was before
  lines,      \* the document
  grid,       \* the body of a table: the marker of each cell
  prefix,     \* what the line of each row of that body begins with
  shown       \* the cells of that table that are shown, with their spans

tableVars == <<original, lines, grid, prefix, shown>>

-----------------------------------------------------------------------------
(* Cells *)

Blanks == {" ", "\t"}

Trim(s) ==
  LET kept == {i \in 1 .. Len(s) : s[i] \notin Blanks}
  IN  IF kept = {} THEN << >> ELSE SubSeq(s, Min(kept), Max(kept))

\* An odd number of backslashes lies before the place.
Escaped(line, at) ==
  LET others == {i \in 1 .. at - 1 : line[i] # "esc"} \cup {0}
  IN  (at - 1 - Max(others)) % 2 = 1

RunOfTicks(line, at) ==
  LET others == {i \in at .. Len(line) : line[i] # "tick"} \cup {Len(line) + 1}
  IN  Min(others) - at

\* Where the cells end: pipes that are neither escaped nor inside a code span. open is
\* the length of the ticks that a code span was opened with.
ScanPipes(line) ==
  LET step(s, i) ==
        CASE line[i] = "|" /\ s.open = 0 /\ ~Escaped(line, i) -> [s EXCEPT !.pipes = Append(@, i)]
          [] line[i] # "tick" \/ (i > 1 /\ line[i - 1] = "tick") -> s
          [] s.open = RunOfTicks(line, i) -> [s EXCEPT !.open = 0]
          [] s.open = 0 /\ ~Escaped(line, i) -> [s EXCEPT !.open = RunOfTicks(line, i)]
          [] OTHER -> s
  IN  FoldLeftDomain(step, [pipes |-> << >>, open |-> 0], line)

HasPipe(line) == ScanPipes(line).pipes # << >>

\* No cell lies before a pipe that the line begins with or behind one that it ends with.
Inside(cells, trimmed) ==
  LET leads == trimmed # << >> /\ Head(trimmed) = "|" /\ Head(cells) = << >>
      trails == /\ trimmed # << >> /\ Last(trimmed) = "|" /\ ~Escaped(trimmed, Len(trimmed))
                /\ Last(cells) = << >> /\ (leads => Len(cells) > 1)
  IN  SubSeq(cells, IF leads THEN 2 ELSE 1, Len(cells) - IF trails THEN 1 ELSE 0)

CellsBetween(line, starts, ends) ==
  [k \in 1 .. Len(starts) |-> Trim(SubSeq(line, starts[k] + 1, ends[k] - 1))]

CellsAt(line, pipes) ==
  Inside(CellsBetween(line, <<0>> \o pipes, Append(pipes, Len(line) + 1)), Trim(line))

SplitCells(line) == CellsAt(line, ScanPipes(line).pipes)

CellAt(cells, column) == IF column <= Len(cells) THEN cells[column] ELSE << >>

-----------------------------------------------------------------------------
(* Alignment *)

IsSeparatorCell(cell) ==
  /\ "-" \in Range(cell)
  /\ \A i \in 1 .. Len(cell) : cell[i] = "-" \/ (cell[i] = ":" /\ i \in {1, Len(cell)})

IsSeparator(line) ==
  LET cells == SplitCells(line)
  IN  cells # << >> /\ \A c \in 1 .. Len(cells) : IsSeparatorCell(cells[c])

Alignment(cell) ==
  CASE cell = << >> -> "default"
    [] Head(cell) = ":" /\ Last(cell) = ":" -> "center"
    [] Head(cell) = ":" -> "left"
    [] Last(cell) = ":" -> "right"
    [] OTHER -> "default"

\* A number is one or more digits.
IsNumber(cell) == cell # << >> /\ Range(cell) = {"1"}

VisualWidth(s) ==
  FoldLeft(LAMBDA n, c : n + CASE c = "\t" -> 4 - (n % 4) [] c = "wide" -> 2 [] OTHER -> 1, 0, s)

Repeat(c, n) == [i \in 1 .. n |-> c]

Pad(cell, width, alignment) ==
  LET padding == IF width > VisualWidth(cell) THEN width - VisualWidth(cell) ELSE 0
      left == CASE alignment = "right" -> padding [] alignment = "center" -> padding \div 2
                [] OTHER -> 0
  IN  Repeat(" ", left) \o cell \o Repeat(" ", padding - left)

SeparatorCell(width, alignment) ==
  CASE alignment = "left" -> <<":">> \o Repeat("-", width - 1)
    [] alignment = "right" -> Append(Repeat("-", width - 1), ":")
    [] alignment = "center" -> <<":">> \o Append(Repeat("-", width - 2), ":")
    [] OTHER -> Repeat("-", width)

\* Mutant: no space between a cell and its pipe.
JoinedTight(cells) ==
  <<"|">> \o FlattenSeq([c \in 1 .. Len(cells) |-> Append(cells[c], "|")])

Joined(cells) ==
  <<"|">> \o FlattenSeq([c \in 1 .. Len(cells) |-> <<" ">> \o cells[c] \o <<" ", "|">>])

\* A table has as many columns as its longest row.
Columns(separator, data) == Max({Len(separator)} \cup {Len(data[d]) : d \in 1 .. Len(data)})

\* A column of numbers is aligned to the right unless its separator says otherwise.
Alignments(separator, rows, columns) ==
  LET numeric(c) == rows # << >> /\ \A r \in 1 .. Len(rows) : IsNumber(CellAt(rows[r], c))
  IN  [c \in 1 .. columns |->
         LET asked == Alignment(CellAt(separator, c))
         IN  IF asked = "default" /\ numeric(c) THEN "right" ELSE asked]

Widths(data, alignments) ==
  LET floor == [default |-> 3, left |-> 4, right |-> 4, center |-> 5]
  IN  [c \in 1 .. Len(alignments) |->
         Max({floor[alignments[c]]}
               \cup {VisualWidth(CellAt(data[d], c)) : d \in 1 .. Len(data)})]

\* format_table_lines. data: the cells of the header and of the rows.
FormatRows(data, alignments, widths) ==
  LET columns == 1 .. Len(alignments)
      row(cells) == Joined([c \in columns |-> Pad(CellAt(cells, c), widths[c], alignments[c])])
      separator == Joined([c \in columns |-> SeparatorCell(widths[c], alignments[c])])
  IN  InsertAt([d \in 1 .. Len(data) |-> row(data[d])], 2, separator)

AlignRows(data, alignments) == FormatRows(data, alignments, Widths(data, alignments))

FormatCells(separator, data) ==
  AlignRows(data, Alignments(separator, Tail(data), Columns(separator, data)))

FormatTable(table) ==
  FormatCells(SplitCells(table[2]),
              [d \in 1 .. Len(table) - 1 |-> SplitCells(table[IF d = 1 THEN 1 ELSE d + 1])])

-----------------------------------------------------------------------------
(* Tables of a document *)

IsIndented(line) ==
  line # << >> /\ (Head(line) = "\t" \/ IsPrefix(Repeat(" ", 4), line))

\* The ticks of a code fence, behind up to four spaces (trim_up_to_three_leading_spaces
\* lets the fourth through, and fences come before indented code); 0 where there is none.
FenceAt(line) ==
  LET text == SelectInSeq(line, LAMBDA c : c # " ")
  IN  IF text \in 1 .. 5 /\ RunOfTicks(line, text) >= 3 THEN RunOfTicks(line, text) ELSE 0

ClosesFence(line, fence) ==
  FenceAt(line) >= fence /\ Range(Trim(line)) = {"tick"}

StartsTable(text, i) ==
  /\ i < Len(text)
  /\ ~IsIndented(text[i + 1]) /\ FenceAt(text[i + 1]) = 0
  /\ HasPipe(text[i]) /\ HasPipe(text[i + 1])
  /\ IsSeparator(text[i + 1])

TableEnd(text, i) ==
  LET others == {k \in i + 2 .. Len(text) :
                   \/ Trim(text[k]) = << >> \/ IsIndented(text[k])
                   \/ FenceAt(text[k]) # 0 \/ ~HasPipe(text[k])}
  IN  Min(others \cup {Len(text) + 1}) - 1

\* format_markdown_tables_with_filter: the tables with a line among those chosen.
FormatTables(text, chosen) ==
  LET step(s, i) ==
        CASE i < s.next -> s
          [] s.fence # 0 ->
               [s EXCEPT !.out = Append(@, text[i]),
                         !.fence = IF ClosesFence(text[i], @) THEN 0 ELSE @]
          [] FenceAt(text[i]) # 0 -> [s EXCEPT !.out = Append(@, text[i]), !.fence = FenceAt(text[i])]
          [] ~IsIndented(text[i]) /\ StartsTable(text, i) ->
               LET end == TableEnd(text, i)
                   change(table) ==
                     IF chosen \cap (i .. end) # {} THEN FormatTable(table) ELSE table
               IN  [s EXCEPT !.out = @ \o change(SubSeq(text, i, end)), !.next = end + 1]
          [] OTHER -> [s EXCEPT !.out = Append(@, text[i])]
  IN  FoldLeftDomain(step, [out |-> << >>, fence |-> 0, next |-> 1], text).out

-----------------------------------------------------------------------------
(* Merged cells *)

\* In a block quote the line of a row begins with the > of the quote. With the pipe
\* behind it it is "apart" from the first cell, without one it is "joined" to it.
LinePrefixes(rows) == {[r \in rows |-> "none"]} \cup [rows -> {"joined", "apart"}]

\* collect_table_body_merge_markers splits the line with its prefix: one that is apart
\* counts as a cell, one that is joined hides the marker behind it.
MarkersRead(cells, begins) ==
  [r \in 1 .. Len(cells) |->
     [c \in 1 .. Len(cells[1]) |->
        CASE begins[r] = "none" -> cells[r][c]
          [] begins[r] # "none" /\ c = 1 -> "text"
          [] begins[r] = "joined" /\ c > 1 -> cells[r][c]
          [] begins[r] = "apart" /\ c > 1 -> cells[r][c - 1]]]

\* The marker of a cell of the body: "left" for <, "up" for ^.
Owners(markers) ==
  LET owner[p \in (1 .. Len(markers)) \X (1 .. Len(markers[1]))] ==
        CASE markers[p[1]][p[2]] = "left" /\ p[2] > 1 -> owner[<<p[1], p[2] - 1>>]
          [] markers[p[1]][p[2]] = "up" /\ p[1] > 1 -> owner[<<p[1] - 1, p[2]>>]
          [] OTHER -> p
  IN  owner

\* The smallest rectangle that holds all the cells of an owner.
Rectangle(owner, o) ==
  LET cells == {p \in DOMAIN owner : owner[p] = o}
      rows == {p[1] : p \in cells}
      columns == {p[2] : p \in cells}
  IN  (Min(rows) .. Max(rows)) \X (Min(columns) .. Max(columns))

Spans(owner) ==
  {[cell    |-> o,
    rowspan |-> Max({p[1] : p \in Rectangle(owner, o)}) - o[1] + 1,
    colspan |-> Max({p[2] : p \in Rectangle(owner, o)}) - o[2] + 1] : o \in Range(owner)}

\* Mutant: cells are merged into any shape.
ShownCellsOfAnyShape(markers) == Spans(Owners(markers))

\* apply_table_body_merges: nothing is merged unless all the shapes are rectangles.
ShownCells(markers) ==
  LET owner == Owners(markers)
      rectangular == \A o \in Range(owner) : \A p \in Rectangle(owner, o) : owner[p] = o
  IN  IF rectangular THEN Spans(owner) ELSE Spans([p \in DOMAIN owner |-> p])

-----------------------------------------------------------------------------
(* A document is formatted; a table is shown. *)

TableInit ==
  \/ /\ lines \in Documents
     /\ grid = << >> /\ prefix = << >>
     /\ original = lines /\ shown = {}
  \/ /\ grid \in Grids
     /\ prefix \in LinePrefixes(1 .. Len(grid))
     /\ lines = << >>
     /\ original = lines /\ shown = {}

Format ==
  /\ original = lines
  /\ \E chosen \in {1 .. Len(lines)} \cup {{line} : line \in 1 .. Len(lines)} :
       lines' = FormatTables(lines, chosen)
  /\ original' = lines
  /\ UNCHANGED <<grid, prefix, shown>>

\* The editor takes a formatting back as it takes back any other change.
Undo ==
  /\ lines' = original
  /\ UNCHANGED <<original, grid, prefix, shown>>

Show ==
  /\ grid # << >>
  /\ shown' = ShownCells(MarkersRead(grid, prefix))
  /\ UNCHANGED <<original, lines, grid, prefix>>

TableNext == Format \/ Undo \/ Show

TableSpec == TableInit /\ [][TableNext]_tableVars

-----------------------------------------------------------------------------
(* Properties *)

SameCells(old, new) ==
  \A c \in 1 .. Max({Len(old), Len(new)}) : CellAt(old, c) = CellAt(new, c)

ClosesItsCode(line) == ScanPipes(line).open = 0

IsSettled(text) == FormatTables(text, 1 .. Len(text)) = text

\* Formatting changes no cell: every line splits into the cells it had, but for empty
\* ones at its end and the dashes of separators, and what was formatted is left as it
\* is by the next run. (A code span that is not closed in its line swallows the pipe the
\* formatter puts behind it; with every run the cell grows by one.)
FormattedReadsBack ==
  lines # original /\ (\A i \in 1 .. Len(original) : ClosesItsCode(original[i])) =>
    /\ Len(lines) = Len(original)
    /\ \A i \in 1 .. Len(lines) :
         \/ SameCells(SplitCells(original[i]), SplitCells(lines[i]))
         \/ IsSeparator(original[i]) /\ IsSeparator(lines[i])
    /\ IsSettled(FormatTables(original, 1 .. Len(original)))

\* The cells shown, each as wide and as high as its spans, cover the body without a gap
\* or an overlap, and no cell with a text of its own is hidden, but in a block quote,
\* where its neighbour's marker may be taken for its own.
MergedCellsTile ==
  shown # {} =>
    /\ \A row \in 1 .. Len(grid), column \in 1 .. Len(grid[1]) :
         Cardinality({s \in shown : /\ row \in s.cell[1] .. s.cell[1] + s.rowspan - 1
                                    /\ column \in s.cell[2] .. s.cell[2] + s.colspan - 1}) = 1
    /\ (\A row \in 1 .. Len(grid) : prefix[row] = "none") =>
         \A row \in 1 .. Len(grid), column \in 1 .. Len(grid[1]) :
           grid[row][column] = "text" => \E s \in shown : s.cell = <<row, column>>
=============================================================================
