-------------------------- MODULE KeystrokeDelivery --------------------------
(***************************************************************************)
(* What the pair of an editor and its authoritative document promises,     *)
(* whatever queues, retries, resynchronisations and other writers do in    *)
(* between: the document grows only by keystrokes that were typed and not  *)
(* delivered before, in the order they were typed, and otherwise only by   *)
(* what somebody else writes: a text in place of it, or something after    *)
(* it. A keystroke may be lost, to another writer's text, but never        *)
(* arrives twice, late or out of order.                                    *)
(***************************************************************************)
EXTENDS Integers, Sequences

CONSTANT Foreign   \* what another writer writes; no keystroke

VARIABLES
  typed,      \* how many keystrokes the editor took
  text,       \* the text of the document
  delivered   \* the last keystroke the document got, 0 if none

vars == <<typed, text, delivered>>

\* The keystrokes n + 1 .. m, without the lost ones, in order.
Increasing(keys) == \A i \in 2 .. Len(keys) : keys[i - 1] < keys[i]

Init ==
  /\ typed = 0
  /\ text = << >>
  /\ delivered = 0

Type ==
  /\ typed' = typed + 1
  /\ UNCHANGED <<text, delivered>>

Deliver ==
  /\ Len(text') > Len(text)
  /\ SubSeq(text', 1, Len(text)) = text
  /\ LET keys == SubSeq(text', Len(text) + 1, Len(text'))
     IN  /\ Increasing(keys)
         /\ keys[1] > delivered
         /\ keys[Len(keys)] <= typed
         /\ delivered' = keys[Len(keys)]
  /\ UNCHANGED typed

\* Nothing of the editor comes into the text by another writer's hand.
Overwrite ==
  /\ \E kept \in {<< >>, text} : text' = Append(kept, Foreign)
  /\ UNCHANGED <<typed, delivered>>

Next == Type \/ Deliver \/ Overwrite

Spec == Init /\ [][Next]_vars
=============================================================================
