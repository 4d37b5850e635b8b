----------------------------- MODULE TrayCommands -----------------------------
(***************************************************************************)
(* How the exit of one process reaches the others: the command file of     *)
(* src-tauri/src/infra/tray_coordinator.rs, the worker of lib.rs that      *)
(* polls it and holds the tray icon, and finalize_app_exit of              *)
(* commands/app_exit.rs, which writes it. The questions a process asks its *)
(* windows before it exits are in AppExit; here they are answered at once  *)
(* by leaving or staying.                                                  *)
(*                                                                         *)
(* Nothing guards the file: a writer reads the last sequence, writes a     *)
(* temporary file that all writers share, removes the command and renames  *)
(* the temporary file, and is overtaken between any two of these.          *)
(***************************************************************************)
EXTENDS Integers, FiniteSets

CONSTANTS
  Processes,  \* each runs once
  NoProcess

NoFile == 0

VARIABLES
  phase,       \* of every process
  last,        \* last_command_sequence
  next,        \* the sequence a writer is to write
  command,     \* the sequence in command.json, or NoFile
  temporary,   \* the sequence in command.json.tmp, or NoFile
  owner,       \* who holds owner.lock, and with it the tray icon
  owed,        \* history: processes that have yet to learn of an exit that was
               \* published while they ran
  overlapped   \* history: two writers at once, or a writer that crashed

trayVars == <<phase, last, next, command, temporary, owner, owed, overlapped>>

files == <<command, temporary>>
history == <<owed, overlapped>>

\* "off": not started; "asking": its windows are asked whether it may exit;
\* "leaving" to "replacing": in broadcast_command; "gone": it exited or crashed.
Phases == {"off", "running", "asking", "leaving", "writing", "removing", "replacing", "gone"}

Running == {p \in Processes : phase[p] \in {"running", "asking"}}

Writers == {p \in Processes : phase[p] \in {"writing", "removing", "replacing"}}

TrayInit ==
  /\ phase = [p \in Processes |-> "off"]
  /\ last = [p \in Processes |-> 0]
  /\ next = [p \in Processes |-> 0]
  /\ command = NoFile
  /\ temporary = NoFile
  /\ owner = NoProcess
  /\ owed = {}
  /\ overlapped = FALSE

Becomes(p, to) == phase' = [phase EXCEPT ![p] = to]

StartFromZero(p) ==
  /\ phase[p] = "off"
  /\ Becomes(p, "running")
  /\ last' = [last EXCEPT ![p] = 0]
  /\ UNCHANGED <<next, files, owner, history>>

\* TrayCoordinator::initialize: a command that is already there is not for us.
Start(p) ==
  /\ phase[p] = "off"
  /\ Becomes(p, "running")
  /\ last' = [last EXCEPT ![p] = command]
  /\ UNCHANGED <<next, files, owner, history>>

\* maybe_register_tray, at the start and in every round of the worker.
Claim(p) ==
  /\ p \in Running
  /\ owner = NoProcess
  /\ owner' = p
  /\ UNCHANGED <<phase, last, next, files, history>>

\* "Quit" in the menu or in the tray: request_app_exit.
AskToQuit(p) ==
  /\ phase[p] = "running"
  /\ Becomes(p, "asking")
  /\ UNCHANGED <<last, next, files, owner, history>>

\* A window cancels the exit.
Stay(p) ==
  /\ phase[p] = "asking"
  /\ Becomes(p, "running")
  /\ UNCHANGED <<last, next, files, owner, history>>

\* Every window completed it: should_exit is set, and the worker stops.
Leave(p) ==
  /\ phase[p] = "asking"
  /\ Becomes(p, "leaving")
  /\ UNCHANGED <<last, next, files, owner, history>>

\* take_pending_command and handle_tray_command; an exit that is already
\* being asked for goes on.
Poll(p) ==
  /\ p \in Running
  /\ command > last[p]
  /\ last' = [last EXCEPT ![p] = command]
  /\ owed' = owed \ {p}
  /\ Becomes(p, "asking")
  /\ UNCHANGED <<next, files, owner, overlapped>>

ReadSequenceSeen(p) ==
  /\ phase[p] = "leaving"
  /\ Becomes(p, "writing")
  /\ next' = [next EXCEPT ![p] = last[p] + 1]
  /\ overlapped' = (overlapped \/ Writers # {})
  /\ UNCHANGED <<last, files, owner, owed>>

\* broadcast_command, one access to the directory after the other.
ReadSequence(p) ==
  /\ phase[p] = "leaving"
  /\ Becomes(p, "writing")
  /\ next' = [next EXCEPT ![p] = command + 1]
  /\ overlapped' = (overlapped \/ Writers # {})
  /\ UNCHANGED <<last, files, owner, owed>>

WriteTemporary(p) ==
  /\ phase[p] = "writing"
  /\ Becomes(p, "removing")
  /\ temporary' = next[p]
  /\ UNCHANGED <<last, next, command, owner, history>>

RemoveCommand(p) ==
  /\ phase[p] = "removing"
  /\ Becomes(p, "replacing")
  /\ command' = NoFile
  /\ UNCHANGED <<last, next, temporary, owner, history>>

\* The renaming fails when another writer was faster; then, and after it, the
\* process exits, and the system gives its lock away.
Rename(p) ==
  /\ phase[p] = "replacing"
  /\ Becomes(p, "gone")
  /\ IF temporary = NoFile THEN UNCHANGED <<files, owed>>
     ELSE /\ command' = temporary
          /\ temporary' = NoFile
          /\ owed' = owed \cup Running
  /\ owner' = IF owner = p THEN NoProcess ELSE owner
  /\ UNCHANGED <<last, next, overlapped>>

Crash(p) ==
  /\ phase[p] \notin {"off", "gone"}
  /\ Becomes(p, "gone")
  /\ owner' = IF owner = p THEN NoProcess ELSE owner
  /\ overlapped' = (overlapped \/ p \in Writers)
  /\ UNCHANGED <<last, next, files, owed>>

Broadcast(p) == ReadSequence(p) \/ WriteTemporary(p) \/ RemoveCommand(p) \/ Rename(p)

Work(p) == Claim(p) \/ Poll(p)

TrayNext ==
  \E p \in Processes :
    \/ Start(p) \/ AskToQuit(p) \/ Stay(p) \/ Leave(p) \/ Crash(p)
    \/ Broadcast(p) \/ Work(p)

\* The worker polls every half second, and a broadcast that began goes on.
TrayFairness == \A p \in Processes : WF_trayVars(Broadcast(p) \/ Work(p))

TraySpec == TrayInit /\ [][TrayNext]_trayVars /\ TrayFairness

-----------------------------------------------------------------------------
(* Properties. *)

TrayTypeOK ==
  /\ phase \in [Processes -> Phases]
  /\ command \in Nat
  /\ owner \in Processes \cup {NoProcess}

\* No process is asked to leave twice because of the same exit, nor because
\* of one that was over when it started; and whoever holds the tray icon runs.
NoQuitIsReplayed ==
  /\ \A p \in Running : command > last[p] => p \in owed
  /\ owner # NoProcess => phase[owner] \notin {"off", "gone"}

\* An exit reaches every process that runs when it is published, unless a
\* second process publishes its own at the same time or crashes while it
\* does: then the file can be lost, and with it the exit. (Every process runs
\* once, so that there is a last exit.)
QuitReachesEveryone == <>[](owed \cap Running = {} \/ overlapped)

=============================================================================
