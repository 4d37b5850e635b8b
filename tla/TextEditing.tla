----------------------------- MODULE TextEditing -----------------------------
(***************************************************************************)
(* One text that receives every small batch of transactions, well formed   *)
(* or not, and the properties of the edit algorithm stated against a       *)
(* reference that works on UTF-16 code units and left to right.            *)
(***************************************************************************)
EXTENDS TextEdits

CONSTANTS
  Chars,      \* the characters of texts and of inserted strings
  Inserts,    \* the strings a change may insert
  MaxLength   \* bound on the characters of a text

ASSUME TextsAssumption ==
  /\ Inserts \subseteq Seq(Chars)
  /\ Rejected \notin Seq(Chars)
  /\ NoIndex \notin Nat
  /\ MaxLength \in Nat

VARIABLES
  rope,       \* the rope
  before,     \* the rope before the last batch
  batch       \* the transactions of the last batch

editVars == <<rope, before, batch>>

\* A lone change is anything, ranges out of order or past the end included.
\* A pair of changes ranges over the text, in any order, overlapping or not.
Offsets == 0 .. 2 * MaxLength + 1

AnyChange == [from : Offsets, to : Offsets, insert : Inserts]

ChangesWithin(t) ==
  {[from |-> f, to |-> e, insert |-> s] :
     f \in 0 .. Utf16Len(t), e \in 0 .. Utf16Len(t), s \in Inserts}

\* What is inserted is looked at for every change by itself: of a pair it is valid.
ForwardChangesWithin(t) ==
  {change \in ChangesWithin(t) : change.from <= change.to /\ ~HasCarriageReturn(change.insert)}

Transactions(t) ==
  [beforeLength : {Utf16Len(t), Utf16Len(t) + 1},
   changes : {<< >>} \cup {<<change>> : change \in AnyChange}]
  \cup
  [beforeLength : {Utf16Len(t)}, changes : [1 .. 2 -> ForwardChangesWithin(t)]]

\* A second transaction is one a keystroke makes: a caret insert or a
\* deletion of the first character.
Followers(t) ==
  {[beforeLength |-> Utf16Len(t), changes |-> <<[from |-> 0, to |-> d, insert |-> << >>]>>]
     : d \in {1, 2}}

Result(t, txs) ==
  LET candidate == ApplyTransactions(t, txs)
  IN  IF candidate = Rejected THEN t ELSE candidate

EditInit ==
  /\ rope = << >>
  /\ before = << >>
  /\ batch = << >>

Submit(txs) ==
  /\ batch = << >>
  /\ \E result \in {Result(rope, txs)} :
       Len(result) <= MaxLength /\ rope' = result
  /\ before' = rope
  /\ batch' = txs

\* The caller has read the result; the next batch finds the text it left.
Settle ==
  /\ batch # << >>
  /\ batch' = << >>
  /\ before' = rope
  /\ UNCHANGED rope

EditNext ==
  \/ Settle
  \/ \E tx \in Transactions(rope) : Submit(<<tx>>)
  \/ \E tx \in {[beforeLength |-> Utf16Len(rope),
                 changes |-> <<[from |-> 0, to |-> 0, insert |-> s]>>] : s \in Inserts} :
       \E next \in Followers(Result(rope, <<tx>>)) : Submit(<<tx, next>>)

EditSpec == EditInit /\ [][EditNext]_editVars

EditTypeOK ==
  /\ {rope, before} \subseteq Seq(Chars \ {CarriageReturn})
  /\ Len(rope) <= MaxLength

-----------------------------------------------------------------------------
(***************************************************************************)
(* Reference: a text as the sequence of its code units, and a transaction  *)
(* as the units it keeps and inserts, read from left to right.             *)
(***************************************************************************)
UnitsOf(c) == [u \in 1 .. Width(c) |-> <<c, u>>]

\* The code units of the first characters, for every number of them.
UnitsUpto(t) ==
  LET units[k \in 0 .. Len(t)] == IF k = 0 THEN << >> ELSE units[k - 1] \o UnitsOf(t[k])
  IN  units

Units(t) == UnitsUpto(t)[Len(t)]

LeftToRight(units, changes) ==
  LET KeptBefore(i) ==
        SubSeq(units, (IF i = 1 THEN 0 ELSE changes[i - 1].to) + 1, changes[i].from)
      n == Len(changes)
      written[i \in 0 .. n] ==
        IF i = 0 THEN << >>
        ELSE written[i - 1] \o KeptBefore(i) \o Units(changes[i].insert)
  IN  written[n] \o SubSeq(units, changes[n].to + 1, Len(units))

Accepted == batch # << >> /\ ApplyTransactions(before, batch) # Rejected

\* Applying the changes of a transaction last to first on the rope is the same
\* as replacing all the ranges at once in the code units the editor sees
\* (apply_transaction): no offset is shifted by an earlier change, no
\* surrogate pair is cut, two inserts at one place keep their order.
ReverseOrderIsSimultaneous ==
  (Accepted /\ Len(batch) = 1) =>
    Units(rope) = LeftToRight(Units(before), batch[1].changes)

\* The frontend and the document agree on what a valid transaction is: the
\* document accepts nothing the queue would refuse, and refuses of what the
\* queue accepts only empty transactions and offsets inside a surrogate pair.
ValidationsAgree ==
  batch # << >> =>
    LET tx == batch[1]
        onBoundary == \A k \in 1 .. Len(tx.changes) :
                        /\ StrictUtf16ToChar(before, tx.changes[k].from) # NoIndex
                        /\ StrictUtf16ToChar(before, tx.changes[k].to) # NoIndex
    IN  (ApplyTransaction(before, tx) # Rejected) =
          (EnqueueAccepts(Utf16Len(before), tx) /\ tx.changes # << >> /\ onBoundary)

\* What the preview patch is told a batch touched covers everything the batch
\* changed: outside the two ranges the old and the new text are the same
\* (single_change_impact).
ImpactCoversChange ==
  LET impact == SingleChangeImpact(before, batch)
  IN  (Accepted /\ impact # NoIndex) =>
        /\ SubSeq(rope, 1, impact.after[1]) = SubSeq(before, 1, impact.before[1])
        /\ SubSeq(rope, impact.after[2] + 1, Len(rope)) =
             SubSeq(before, impact.before[2] + 1, Len(before))

=============================================================================
