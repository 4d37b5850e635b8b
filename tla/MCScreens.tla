------------------------------ MODULE MCScreens ------------------------------
(***************************************************************************)
(* Windows that follow: a sub window over two sources, one of them of its  *)
(* own process, or the browser it opens for an external link, or the       *)
(* invisible windows of four preview jobs, on Windows, where a PNG can be  *)
(* captured. The three share nothing; one is checked at a time.            *)
(***************************************************************************)
EXTENDS SubWindowBrowsers, PreviewJobs

VARIABLES
  stamp, published, active, screen, inbox,  \* of SubWindowScreen
  system  \* "screen", "browser" or "jobs"

screens == <<stamp, published, active, screen, inbox>>

Screens ==
  INSTANCE SubWindowScreen WITH
    Sources <- {"w1", "w2"}, Local <- {"w1"}, MaxState <- 3, MaxInbox <- 2

MCInit ==
  /\ system \in {"screen", "browser", "jobs"}
  /\ Init
  /\ Screens!Init
  /\ JobsInit

MCNext ==
  /\ \/ system = "screen" /\ Screens!Next /\ UNCHANGED <<jobsVars, vars>>
     \/ system = "browser" /\ Next /\ UNCHANGED <<jobsVars, screens>>
     \/ system = "jobs" /\ JobsNext /\ UNCHANGED <<screens, vars>>
  /\ UNCHANGED system

MCSpec ==
  /\ MCInit /\ [][MCNext]_<<vars, screens, jobsVars, system>>
  /\ Screens!Fairness /\ JobsFairness

MCTypeOK == Screens!TypeOK /\ JobsTypeOK

SubWindowCatchesUp == Screens!SubWindowCatchesUp
=============================================================================
