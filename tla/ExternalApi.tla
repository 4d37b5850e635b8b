------------------------------ MODULE ExternalApi ------------------------------
(***************************************************************************)
(* The external API of one instance of the program: its REST server with   *)
(* the record by which other programs find it and the lease that says the  *)
(* record is alive (src-tauri/src/infra/external_api_runtime.rs), the      *)
(* command that sets its preferences                                       *)
(* (src-tauri/src/commands/external_api.rs), the start and the exit of the *)
(* program (src-tauri/src/lib.rs), and the MCP processes that look for it  *)
(* (crates/kmark-mcp/src/discovery.rs).                                    *)
(*                                                                         *)
(* Commands run on threads of their own; the runtime has an asynchronous   *)
(* lock, the preferences and the roots have short ones. The lease is the   *)
(* lock of a file. Whoever asks whether it is held takes it if it is not.  *)
(* Removing the record does not fail here. Instance ids are never used     *)
(* again, so that files of other instances are left out. A server is known *)
(* by its token. One module checks this beside the state store, from which *)
(* ApiInit, ApiNext, ApiSpec and apiVars are told apart by their names.    *)
(***************************************************************************)
EXTENDS Integers

CONSTANTS
  Windows,    \* windows whose users set the preferences
  Clients,    \* MCP processes
  Roots,      \* lists of roots
  MaxServer,  \* bound on the servers started
  MaxSet,     \* bound on the preferences set
  None

VARIABLES
  alive,      \* the process
  current,    \* external_api_preferences, in memory
  saved,      \* and in the state store
  roots,      \* the roots of the service
  servers,    \* servers that run
  runtime,    \* the server of the runtime, with its record and lease, if any
  holder,     \* who has the lock of the runtime
  calls,      \* where each command, the launch and the exit are
  record,     \* the discovery record, a token
  lease,      \* the lease file and who has locked it
  clients,    \* where each MCP process is
  started,    \* servers started so far
  sets,       \* preferences set so far
  overlapped, \* history: preferences were set by two windows at a time
  misreported,\* history: what is saved is of a call that was told it is not
  unserved    \* history: the server failed to start with the program

preferences == <<current, saved, roots, misreported>>
files == <<record, lease>>
apiVars == <<alive, preferences, servers, runtime, holder, calls, files, clients,
          started, sets, overlapped, unserved>>

Preferences == [enabled : BOOLEAN, roots : Roots]
Callers == Windows \cup {"launch", "exit"}

\* The values the model tells apart are different ones.
Apart ==
  /\ Windows \cap {"launch", "exit"} = {}
  /\ None \notin Callers \cup Clients \cup Nat \cup {"app", "missing"}
  /\ Clients \cap {"app", "missing"} = {}

ASSUME ApartAssumption == Apart

Resting == [pc |-> "idle"]
At(caller, pc) == calls[caller].pc = pc
Goes(caller, pc) == calls' = [calls EXCEPT ![caller].pc = pc]

\* The setup of the program: preferences are loaded and the server is started if it is
\* wanted. No command comes before.
ApiInit ==
  /\ alive = TRUE
  /\ saved \in Preferences /\ current = saved /\ roots = saved.roots /\ misreported = FALSE
  /\ servers = {} /\ runtime = None /\ holder = None
  /\ calls = [caller \in Callers |->
       IF caller = "launch" /\ saved.enabled THEN [pc |-> "lock", wanted |-> saved] ELSE Resting]
  /\ record = None /\ lease = "missing"
  /\ clients = [c \in Clients |-> Resting]
  /\ started = 0 /\ sets = 0 /\ overlapped = FALSE /\ unserved = FALSE

-----------------------------------------------------------------------------
(* ExternalApiRuntime::start *)

\* What a caller does with a server that runs, and without.
Served(caller) == IF caller = "launch" THEN "idle" ELSE "persist"
Unserved(caller) == IF caller = "launch" THEN "idle" ELSE "restore"

FindsServer(caller) ==
  /\ At(caller, "lock") /\ holder = None /\ runtime # None
  /\ Goes(caller, Served(caller))
  /\ UNCHANGED <<alive, preferences, servers, runtime, holder, files, clients, started, sets,
                 overlapped, unserved>>

\* start_rest_server: who asks now asks while it runs.
StartsServer(caller) ==
  /\ At(caller, "lock") /\ holder = None /\ runtime = None
  /\ started < MaxServer
  /\ started' = started + 1
  /\ servers' = servers \cup {started'}
  /\ clients' = [c \in Clients |->
       IF clients[c].pc = "idle" THEN clients[c] ELSE [clients[c] EXCEPT !.ran = @ \cup {started'}]]
  /\ holder' = caller
  /\ Goes(caller, "lease")
  /\ UNCHANGED <<alive, preferences, runtime, files, sets, overlapped, unserved>>

\* A server that was started is given up with the rest of the start: its handle is
\* dropped, or it is shut down, and so is the lease.
StartFails(caller) ==
  /\ \/ At(caller, "lock") /\ holder = None /\ runtime = None
     \/ At(caller, "lease") \/ At(caller, "publish")
  /\ servers' = IF holder = caller THEN servers \ {started} ELSE servers
  /\ lease' = IF lease = "app" THEN None ELSE lease
  /\ holder' = None
  /\ unserved' = (unserved \/ caller = "launch")
  /\ Goes(caller, Unserved(caller))
  /\ UNCHANGED <<alive, preferences, runtime, record, clients, started, sets, overlapped>>

\* try_lock_exclusive
TakesLease(caller) ==
  /\ At(caller, "lease")
  /\ lease \in {"missing", None}
  /\ lease' = "app"
  /\ Goes(caller, "publish")
  /\ UNCHANGED <<alive, preferences, servers, runtime, holder, record, clients, started, sets,
                 overlapped, unserved>>

\* publish_record: written beside and renamed.
Publishes(caller) ==
  /\ At(caller, "publish")
  /\ record' = started
  /\ runtime' = started
  /\ holder' = None
  /\ unserved' = FALSE
  /\ Goes(caller, Served(caller))
  /\ UNCHANGED <<alive, preferences, servers, lease, clients, started, sets, overlapped>>

-----------------------------------------------------------------------------
(* ExternalApiRuntime::stop, of a disabled API, a failed save or the exit *)

Stopping(caller) == calls[caller].pc \in {"stop", "undo"}

Unpublishes(caller) ==
  /\ Stopping(caller) /\ holder = None
  /\ holder' = caller
  /\ record' = IF runtime # None THEN None ELSE record
  /\ UNCHANGED <<alive, preferences, servers, runtime, calls, lease, clients, started, sets,
                 overlapped, unserved>>

ReleasesLease(caller) ==
  /\ Stopping(caller) /\ holder = caller /\ runtime # None /\ lease = "app"
  /\ lease' = None
  /\ UNCHANGED <<alive, preferences, servers, runtime, holder, calls, record, clients, started,
                 sets, overlapped, unserved>>

\* The process ends with the exit.
ShutsDown(caller) ==
  /\ Stopping(caller) /\ holder = caller
  /\ runtime # None => lease # "app"
  /\ servers' = servers \ {runtime}
  /\ runtime' = None
  /\ holder' = None
  /\ alive' = (caller # "exit")
  /\ calls' = IF caller = "exit" THEN [other \in Callers |-> Resting]
              ELSE [calls EXCEPT ![caller].pc = IF @ = "undo" THEN "restore" ELSE "idle"]
  /\ UNCHANGED <<preferences, files, clients, started, sets, overlapped, unserved>>

Exit ==
  /\ alive /\ At("launch", "idle") /\ At("exit", "idle")
  /\ Goes("exit", "stop")
  /\ UNCHANGED <<alive, preferences, servers, runtime, holder, files, clients, started, sets,
                 overlapped, unserved>>

\* The system closes what the process had open; its record stays.
Crash ==
  /\ alive
  /\ alive' = FALSE
  /\ servers' = {} /\ runtime' = None /\ holder' = None
  /\ lease' = IF lease = "app" THEN None ELSE lease
  /\ calls' = [caller \in Callers |-> Resting]
  /\ UNCHANGED <<preferences, record, clients, started, sets, overlapped, unserved>>

-----------------------------------------------------------------------------
(* set_external_api_preferences *)

Sets(w, wanted) ==
  /\ alive /\ At(w, "idle") /\ At("launch", "idle") /\ At("exit", "idle")
  /\ sets < MaxSet
  /\ sets' = sets + 1
  /\ calls' = [calls EXCEPT ![w] =
       [pc |-> IF wanted.enabled THEN "roots" ELSE "persist", wanted |-> wanted,
        previous |-> current, previousRoots |-> roots]]
  /\ overlapped' = (overlapped \/ \E other \in Windows : ~At(other, "idle"))
  /\ UNCHANGED <<alive, preferences, servers, runtime, holder, files, clients, started, unserved>>

\* The roots are those wanted before the server answers.
ReplacesRoots(w) ==
  /\ At(w, "roots")
  /\ roots' = calls[w].wanted.roots
  /\ Goes(w, "lock")
  /\ UNCHANGED <<alive, current, saved, misreported, servers, runtime, holder, files, clients,
                 started, sets, overlapped, unserved>>

Saves(w) ==
  /\ At(w, "persist")
  /\ saved' = calls[w].wanted
  /\ misreported' = FALSE
  /\ Goes(w, "install")
  /\ UNCHANGED <<alive, current, roots, servers, runtime, holder, files, clients, started, sets,
                 overlapped, unserved>>

\* Mutant: a server that was started for nothing is left running.
KeepsServer(w) == "restore"

\* A server that the call started, and did not find, is stopped again.
AfterFailedSave(w) ==
  IF calls[w].wanted.enabled /\ ~calls[w].previous.enabled THEN "undo" ELSE "restore"

\* persist_json_state may fail before its slot can be read again, or after that, when the
\* slot is synchronised and read back (write_envelope of json_state_store.rs).
SaveFails(w) ==
  /\ At(w, "persist")
  /\ \/ UNCHANGED <<saved, misreported>>
     \/ saved' = calls[w].wanted /\ misreported' = TRUE
  /\ Goes(w, AfterFailedSave(w))
  /\ UNCHANGED <<alive, current, roots, servers, runtime, holder, files, clients, started, sets,
                 overlapped, unserved>>

Restores(w) ==
  /\ At(w, "restore")
  /\ roots' = calls[w].previousRoots
  /\ calls' = [calls EXCEPT ![w] = Resting]
  /\ UNCHANGED <<alive, current, saved, misreported, servers, runtime, holder, files, clients,
                 started, sets, overlapped, unserved>>

Installs(w) ==
  /\ At(w, "install")
  /\ LET wanted == calls[w].wanted
     IN /\ roots' = IF wanted.enabled THEN roots ELSE wanted.roots
        /\ current' = wanted
        /\ Goes(w, IF wanted.enabled THEN "idle" ELSE "stop")
  /\ UNCHANGED <<alive, saved, misreported, servers, runtime, holder, files, clients, started,
                 sets, overlapped, unserved>>

-----------------------------------------------------------------------------
(* DiscoveryStore of an MCP process: resolve asks for the lease and reads    *)
(* the record, instances reads the records and asks for their leases.        *)

Client(c, next) ==
  /\ clients' = [clients EXCEPT ![c] = next]
  /\ UNCHANGED <<alive, preferences, servers, runtime, holder, calls, record, started, sets,
                 overlapped, unserved>>

Asks(c, lists) ==
  /\ clients[c].pc = "idle"
  /\ Client(c, [pc |-> IF lists THEN "read" ELSE "probe", lists |-> lists, token |-> None,
                ran |-> servers, disturbed |-> FALSE])
  /\ UNCHANGED lease

Reads(c) ==
  /\ clients[c].pc = "read"
  /\ Client(c, IF record = None THEN Resting
               ELSE [clients[c] EXCEPT !.token = record,
                                       !.pc = IF clients[c].lists THEN "probe" ELSE "answered"])
  /\ UNCHANGED lease

\* Mutant: the file of the lease is there.
LeaseExists == lease # "missing"

\* lease_is_active: its file cannot be locked, for someone else has locked it.
LeaseIsActive == lease \notin {"missing", None}

\* Whoever could lock the lease gives it back, in a step of its own.
Probes(c) ==
  /\ clients[c].pc = "probe"
  /\ IF LeaseIsActive
     THEN /\ Client(c, [clients[c] EXCEPT !.disturbed = lease \in Clients,
                                          !.pc = IF clients[c].lists THEN "answered" ELSE "read"])
          /\ UNCHANGED lease
     ELSE /\ Client(c, IF lease = None THEN [clients[c] EXCEPT !.pc = "unlock"] ELSE Resting)
          /\ lease' = IF lease = None THEN c ELSE lease

Unlocks(c) ==
  /\ clients[c].pc = "unlock"
  /\ Client(c, Resting)
  /\ lease' = None

UsesAnswer(c) ==
  /\ clients[c].pc = "answered"
  /\ Client(c, Resting)
  /\ UNCHANGED lease

-----------------------------------------------------------------------------

ApiNext ==
  \/ \E caller \in Callers :
       \/ FindsServer(caller) \/ StartsServer(caller) \/ StartFails(caller)
       \/ TakesLease(caller) \/ Publishes(caller)
       \/ Unpublishes(caller) \/ ReleasesLease(caller) \/ ShutsDown(caller)
  \/ \E w \in Windows :
       \/ \E wanted \in Preferences : Sets(w, wanted)
       \/ ReplacesRoots(w) \/ Saves(w) \/ SaveFails(w) \/ Restores(w) \/ Installs(w)
  \/ Exit \/ Crash
  \/ \E c \in Clients :
       \/ \E lists \in BOOLEAN : Asks(c, lists)
       \/ Reads(c) \/ Probes(c) \/ Unlocks(c) \/ UsesAnswer(c)

ApiSpec == ApiInit /\ [][ApiNext]_apiVars

-----------------------------------------------------------------------------

\* An MCP process that lists the instances or resolves one is answered with a server that
\* ran at some time since it asked, through starts, stops and a crash that leaves the
\* record behind; unless it asked while another one held the lease to ask (lease_is_active
\* of discovery.rs, the order of steps in start and stop of external_api_runtime.rs).
AnswersNameServers ==
  \A c \in Clients :
    clients[c].pc = "answered" /\ ~clients[c].disturbed => clients[c].token \in clients[c].ran

\* When no command is under way, the preferences, the roots and the server with its record
\* and its lease agree, whichever step of a command failed, and so do the preferences of
\* the next start unless the last save that wrote them reported failure all the same; as
\* long as no two windows set them at a time (set_external_api_preferences). A server that
\* is wanted may be missing only if it failed to start with the program (lib.rs).
SettingTakesEffect ==
  alive /\ ~overlapped /\ (\A caller \in Callers : At(caller, "idle")) =>
    /\ roots = current.roots
    /\ saved = current \/ misreported
    /\ servers = IF runtime = None THEN {} ELSE {runtime}
    /\ record = runtime
    /\ runtime # None => current.enabled /\ lease = "app"
    /\ current.enabled => runtime # None \/ unserved
=============================================================================
