------------------------------ MODULE MCAppExit ------------------------------
(***************************************************************************)
(* Leaving the application: either the windows of one process, or the      *)
(* processes of the application, three of them.                            *)
(*                                                                         *)
(* AppExit has up to three windows, two of them open at first. In the      *)
(* passing run their labels leave room for the third between them, in the  *)
(* sorted list that is being worked off when it opens.                     *)
(***************************************************************************)
EXTENDS AppExit, TrayCommands

VARIABLE system  \* "windows" or "processes"

TwoWindows == {1, 2}
ThreeWindows == {1, 2, 3}

BothOpen == {{1, 2}}
OuterOpen == {{1, 3}}

MCInit ==
  /\ system \in {"windows", "processes"}
  /\ Init
  /\ system = "processes" => ~closing
  /\ TrayInit

MCNext ==
  /\ \/ system = "windows" /\ Next /\ UNCHANGED trayVars
     \/ system = "processes" /\ TrayNext /\ UNCHANGED vars
  /\ UNCHANGED system

MCSpec ==
  /\ MCInit /\ [][MCNext]_<<vars, trayVars, system>>
  /\ Fairness /\ TrayFairness
=============================================================================
