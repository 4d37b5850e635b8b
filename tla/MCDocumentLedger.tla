-------------------------- MODULE MCDocumentLedger --------------------------
(***************************************************************************)
(* Two clients; three texts that "next" and "back" walk through, so that   *)
(* an edit can be undone to the saved text, and a payload that one of the  *)
(* texts refuses. MaxRevision stands for u64::MAX and is reached.          *)
(***************************************************************************)
EXTENDS DocumentLedger, TLC

CONSTANTS c1, c2

MCTexts == 0 .. 2
MCPayloads == {"next", "back"}

MCApplied(text, payload) ==
  CASE payload = "next" -> (text + 1) % 3
    [] payload = "back" -> IF text = 0 THEN Rejected ELSE text - 1

MCLengthOf(text) == text

MCSymmetry == Permutations({c1, c2})
=============================================================================
