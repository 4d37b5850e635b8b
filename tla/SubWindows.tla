------------------------------ MODULE SubWindows ------------------------------
(***************************************************************************)
(* The editor windows of all processes as sources of sub windows: the      *)
(* registry files of sub_window_registry.rs, which every process reads and *)
(* writes under one file lock, the commands of                             *)
(* src-tauri/src/commands/sub_window.rs around it, the heartbeat worker of *)
(* lib.rs, and the lines a sub window of one process selects in a window   *)
(* of any. What the sub window shows is in SubWindowScreen.                *)
(*                                                                         *)
(* The commands run on the main thread of their process and are whole;     *)
(* the heartbeat runs on a thread of its own and takes the ids before it   *)
(* takes the lock.                                                         *)
(***************************************************************************)
EXTENDS Integers, Sequences, SequencesExt, FiniteSets, FiniteSetsExt

CONSTANTS
  Windows,      \* editor windows; each is a source
  Processes,
  Owner,        \* the process of a window
  Viewer,       \* the process of the sub window
  StaleAfter,   \* SOURCE_STALE_AFTER_MS, in heartbeats
  Limit,        \* MAX_PENDING_LINE_SELECTION_REQUESTS
  MaxRequest,   \* bound on the lines the sub window selects
  None

ASSUME SubWindowsAssumption ==
  /\ Owner \in [Windows -> Processes]
  /\ Viewer \in Processes
  /\ {StaleAfter, Limit, MaxRequest} \subseteq Nat \ {0}
  /\ None \notin Windows

VARIABLES
  alive,     \* processes that run
  slept,     \* windows that were suspended since they were last written
  open,      \* windows that are registered, as they see it
  known,     \* sub_window_sources of every process
  disk,      \* the registry directory
  beating,   \* ids a heartbeat has taken and has still to touch, or None
  due,       \* processes whose heartbeat is due
  sent,      \* line selections so far
  accepted,  \* history: those the registry took while the window is listed
  taken      \* history: those the window received

vars == <<alive, slept, open, known, disk, beating, due, sent, accepted, taken>>

lines == <<sent, accepted, taken>>

-----------------------------------------------------------------------------
(* The registry directory: the age of the heartbeat in a source file, the   *)
(* request file beside it, and the active source.                          *)

NoSource == -1

EmptyDirectory ==
  [source |-> [w \in Windows |-> NoSource], requests |-> [w \in Windows |-> << >>],
   active |-> None]

IsListed(d, w) == d.source[w] # NoSource

WithoutSource(d, w) == [d EXCEPT !.source[w] = NoSource, !.requests[w] = << >>]

WithSource(d, w) == [d EXCEPT !.source[w] = 0]

\* Reading the sources removes those that are stale.
ReadSources(d) ==
  [d EXCEPT
     !.source = [w \in Windows |-> IF @[w] > StaleAfter THEN NoSource ELSE @[w]],
     !.requests = [w \in Windows |-> IF d.source[w] > StaleAfter THEN << >> ELSE @[w]]]

\* Reading the active source removes one that is not listed.
ReadActive(d) ==
  [d EXCEPT !.active = IF @ # None /\ d.source[@] = NoSource THEN None ELSE @]

WithActive(d, w) == [d EXCEPT !.active = w]

Registered(d, w) == IF d.active = None THEN WithActive(d, w) ELSE d

Removed(d, w) == IF d.active = w THEN WithActive(d, None) ELSE d

Activated(d, w) == IF IsListed(d, w) THEN WithActive(d, w) ELSE d

PushedWhileRoom(requests, r) ==
  IF Len(requests) = Limit THEN requests ELSE Append(requests, r)

Pushed(requests, r) ==
  LET all == Append(requests, r)
  IN  IF Len(all) > Limit THEN Tail(all) ELSE all

TouchedAnew(d, ids) ==
  [d EXCEPT !.source = [w \in Windows |-> IF w \in ids THEN 0 ELSE @[w]]]

Touched(d, ids) ==
  [d EXCEPT !.source = [w \in Windows |->
     IF w \in ids /\ d.source[w] # NoSource THEN 0 ELSE @[w]]]

-----------------------------------------------------------------------------

Init ==
  /\ alive = Processes
  /\ slept = {}
  /\ open = {}
  /\ known = [p \in Processes |-> {}]
  /\ disk = EmptyDirectory
  /\ beating = [p \in Processes |-> None]
  /\ due = {}
  /\ sent = 0
  /\ accepted = [w \in Windows |-> << >>]
  /\ taken = [w \in Windows |-> << >>]

\* A command of window w that leaves the directory d; the snapshot it then
\* sends to the sub windows reads the registry once more.
Command(w, d) ==
  /\ Owner[w] \in alive
  /\ disk' = ReadActive(ReadSources(d))
  /\ UNCHANGED <<alive, beating, due, sent, taken>>

\* The source file of w is written, and w is listed from now on.
Listed(w) ==
  /\ open' = open \cup {w}
  /\ known' = [known EXCEPT ![Owner[w]] = @ \cup {w}]
  /\ slept' = slept \ {w}
  /\ accepted' = [accepted EXCEPT ![w] = IF w \notin open \/ w \in slept THEN << >> ELSE @]

\* register_sub_window_source: the map first, then the registry.
Register(w) ==
  /\ w \notin open
  /\ Listed(w)
  /\ Command(w, Registered(ReadActive(ReadSources(WithSource(disk, w))), w))

\* publish_sub_window_source_state, after a change of the document and on
\* focus; it is what lists a source again that was removed as stale.
Publish(w) ==
  /\ w \in open
  /\ Listed(w)
  /\ Command(w, WithSource(disk, w))

\* activate_sub_window_source, and the focus of the window.
Activate(w) ==
  /\ w \in known[Owner[w]]
  /\ Command(w, Activated(ReadSources(disk), w))
  /\ UNCHANGED <<slept, open, known, accepted>>

\* unregister_sub_window_source, complete_window_close and Destroyed.
Unregister(w) ==
  /\ w \in known[Owner[w]]
  /\ open' = open \ {w}
  /\ known' = [known EXCEPT ![Owner[w]] = @ \ {w}]
  /\ Command(w, Removed(ReadActive(ReadSources(WithoutSource(disk, w))), w))
  /\ UNCHANGED <<slept, accepted>>

\* heartbeat_sub_window_sources takes the ids, then touches the files.
Collect(p) ==
  /\ p \in alive \cap due
  /\ beating[p] = None
  /\ beating' = [beating EXCEPT ![p] = known[p]]
  /\ UNCHANGED <<alive, slept, open, known, disk, due, lines>>

Touch(p) ==
  /\ p \in alive
  /\ beating[p] # None
  /\ disk' = IF beating[p] = {} THEN disk ELSE Touched(ReadSources(disk), beating[p])
  /\ beating' = [beating EXCEPT ![p] = None]
  /\ due' = due \ {p}
  /\ UNCHANGED <<alive, slept, open, known, lines>>

Older(d, ws, by) ==
  [d EXCEPT !.source = [w \in Windows |->
     IF w \in ws /\ d.source[w] # NoSource
     THEN Min({StaleAfter + 1, @[w] + by}) ELSE @[w]]]

\* A second passes; every process that runs has had its heartbeat.
Tick ==
  /\ due \cap alive = {}
  /\ due' = alive
  /\ disk' = Older(disk, Windows, 1)
  /\ UNCHANGED <<alive, slept, open, known, beating, lines>>

\* The machine, and with it every process, is suspended for longer.
Suspend ==
  /\ slept' = open
  /\ disk' = Older(disk, Windows, StaleAfter + 1)
  /\ UNCHANGED <<alive, open, known, beating, due, lines>>

\* A process ends without a word. A file it is writing is gone when it
\* happens between the removal of the old file and the renaming of the new.
Crash(p) ==
  /\ p \in alive
  /\ alive' = alive \ {p}
  /\ \/ disk' = disk
     \/ disk' = [disk EXCEPT !.active = None]
     \/ \E w \in known[p] : disk' = [disk EXCEPT !.source[w] = NoSource]
     \/ \E w \in Windows : p = Viewer /\ disk' = [disk EXCEPT !.requests[w] = << >>]
  /\ open' = {w \in open : Owner[w] # p}
  /\ known' = [known EXCEPT ![p] = {}]
  /\ beating' = [beating EXCEPT ![p] = None]
  /\ UNCHANGED <<slept, due, lines>>

-----------------------------------------------------------------------------
(* Line selections. *)

\* request_sub_window_source_line_selection.
Select(w) ==
  /\ Viewer \in alive
  /\ sent < MaxRequest
  /\ sent' = sent + 1
  /\ LET d == ReadSources(disk)
     IN  IF IsListed(d, w)
         THEN /\ disk' = [d EXCEPT !.requests[w] = Pushed(@, sent + 1)]
              /\ accepted' = [accepted EXCEPT ![w] = Append(@, sent + 1)]
         ELSE disk' = d /\ UNCHANGED accepted
  /\ UNCHANGED <<alive, slept, open, known, beating, due, taken>>

\* take_sub_window_source_line_selection_requests, every poll of a window.
Take(w) ==
  /\ Owner[w] \in alive
  /\ w \in open
  /\ disk.requests[w] # << >>
  /\ taken' = [taken EXCEPT ![w] = @ \o disk.requests[w]]
  /\ disk' = [disk EXCEPT !.requests[w] = << >>]
  /\ UNCHANGED <<alive, slept, open, known, beating, due, sent, accepted>>

-----------------------------------------------------------------------------
Next ==
  \/ \E w \in Windows : \/ Register(w) \/ Publish(w) \/ Activate(w) \/ Unregister(w)
                        \/ Select(w) \/ Take(w)
  \/ \E p \in Processes : Collect(p) \/ Touch(p) \/ Crash(p)
  \/ Tick \/ Suspend

Spec == Init /\ [][Next]_vars

-----------------------------------------------------------------------------
(* Properties. *)

TypeOK ==
  /\ alive \subseteq Processes
  /\ known \in [Processes -> SUBSET Windows]
  /\ disk.active \in Windows \cup {None}
  /\ disk.source \in [Windows -> NoSource .. StaleAfter + 1]

\* A window that is open in a process that runs is listed, and one that was
\* closed is not, as long as it was not suspended: neither the heartbeats of
\* others nor a heartbeat that took its id before it was closed nor the
\* commands of other windows change that.
LivingWindowsAreListed ==
  \A w \in Windows :
    Owner[w] \in alive /\ w \notin slept => (IsListed(disk, w) <=> w \in open)

\* The lines selected for a window arrive there in order and once. While the
\* window is listed a line the registry accepted is missing only after Limit
\* later ones were accepted.
RequestsAreDelivered ==
  \A w \in Windows :
    LET arriving == taken[w] \o disk.requests[w]
    IN  /\ \A i \in 1 .. Len(arriving) - 1 : arriving[i] < arriving[i + 1]
        /\ w \in open /\ w \notin slept /\ Viewer \in alive
             => \A i \in DOMAIN accepted[w] :
                  \/ accepted[w][i] \in Range(arriving)
                  \/ Len(accepted[w]) - i >= Limit

=============================================================================
