------------------------------ MODULE MCWindows ------------------------------
(***************************************************************************)
(* What windows know of each other: the registry of the sources of sub     *)
(* windows with two processes of one window each, or the preview of a      *)
(* session between a window and the service, of two sections and a file at *)
(* one of two places. The two share nothing; one is checked at a time.     *)
(***************************************************************************)
EXTENDS SubWindows, PreviewSessions

VARIABLE system  \* "registry" or "preview"

MCOwner == "w1" :> "p1" @@ "w2" :> "p2"

MCInit ==
  /\ system \in {"registry", "preview"}
  /\ Init
  /\ PreviewInit
  /\ document.path = "here"  \* the places are alike
  /\ system = "registry" => web

MCNext ==
  /\ \/ system = "registry" /\ Next /\ UNCHANGED previewVars
     \/ system = "preview" /\ PreviewNext /\ UNCHANGED vars
  /\ UNCHANGED system

MCSpec == MCInit /\ [][MCNext]_<<vars, previewVars, system>>

MCTypeOK == TypeOK /\ PreviewTypeOK
=============================================================================
