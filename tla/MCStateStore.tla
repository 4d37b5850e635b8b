----------------------------- MODULE MCStateStore -----------------------------
(***************************************************************************)
(* What is kept outside the process, in one run. The state store, with     *)
(* three payloads that are interchangeable and six revisions: each slot is *)
(* written three times, and the last revision is reached. The settings of  *)
(* the external API, with two windows, two lists of roots, two servers and *)
(* two calls, which overlap or follow each other. Its discovery, with one  *)
(* window that makes these calls and two MCP processes.                    *)
(***************************************************************************)
EXTENDS StateStore, ExternalApi, TLC

CONSTANTS v1, v2, v3

VARIABLE part

MCInit ==
  /\ part \in {"store", "settings", "discovery"} /\ Init /\ ApiInit
  /\ part = "store" => alive /\ saved = CHOOSE p \in Preferences : ~p.enabled
  /\ part # "store" => desktop /\ legacy = Missing

MCNext ==
  /\ UNCHANGED part
  /\ \/ part = "store" /\ Next /\ UNCHANGED apiVars
     \/ /\ part # "store" /\ ApiNext /\ UNCHANGED vars
        /\ part = "settings" => UNCHANGED clients
        /\ part = "discovery" => calls'["w2"] = calls["w2"]
     \/ part = "settings" /\ ~alive /\ UNCHANGED <<vars, apiVars>>

MCSpec == MCInit /\ [][MCNext]_<<part, vars, apiVars>>

Symmetry == Permutations(Values)
=============================================================================
