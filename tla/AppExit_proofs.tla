----------------------------- MODULE AppExit_proofs -----------------------------
(***************************************************************************)
(* An exit is unanimous, for any number of windows that come and go and of *)
(* flushes that fail. That is not inductive: it needs that whoever was     *)
(* there and has not agreed is asked or still to be asked, and that no     *)
(* label comes twice. And an exit is heard once by the other processes,    *)
(* for any number of them.                                                 *)
(***************************************************************************)
EXTENDS AppExit, TrayCommands, WellFoundedInduction, TLAPS

InboxType == inbox \in [Windows -> Seq(Requests)]

\* A label is used once.
Labels == roster \cap unopened = {}

\* Who is asked and who is to be asked was there when the exit began.
Waiting ==
  /\ current # None => {current} \cup queue \subseteq roster
  /\ current = None => queue = {}
  /\ exited => current = None

\* Nobody is forgotten.
Pending ==
  exited \/ current # None => roster \cap open \subseteq agreed \cup {current} \cup queue

Core == TypeOK /\ InboxType /\ Labels /\ Waiting /\ Pending

-----------------------------------------------------------------------------
(* The coordinator *)

LEMMA FirstIsThere ==
  ASSUME NEW labels \in SUBSET Windows, labels # {}
  PROVE  First(labels) \in labels
<1> DEFINE Less == {p \in Nat \X Nat : p[1] < p[2]}
<1>1. labels \subseteq Nat
  BY WindowsAssumption
<1>2. IsWellFoundedOn(Less, Nat)
  BY NatLessThanWellFounded, Zenon DEF OpToRel
<1>3. PICK w \in labels : \A v \in labels : <<v, w>> \notin Less
  <2> HIDE DEF Less
  <2> QED
    BY <1>1, <1>2, WFMin
<1>4. ASSUME NEW v \in labels
      PROVE  w <= v
  <2>1. v \in Nat /\ w \in Nat
    BY <1>1
  <2>2. ~ (v < w)
    BY <1>3, <2>1
  <2> QED
    BY <2>1, <2>2
<1> QED
  BY <1>4 DEF First

\* What Drive does: the process ends, or a window that is still there is asked.
LEMMA DriveEffect ==
  ASSUME NEW labels \in SUBSET Windows, Drive(labels)
  PROVE  \/ /\ labels \cap open = {}
            /\ exited' = TRUE /\ current' = None /\ queue' = {}
            /\ UNCHANGED inbox
         \/ /\ current' \in labels \cap open
            /\ queue' = (labels \cap open) \ {current'}
            /\ inbox' = [inbox EXCEPT ![current'] = Append(@, "app-exit")]
            /\ UNCHANGED exited
<1>1. CASE labels \cap open = {}
  BY <1>1 DEF Drive
<1>2. CASE labels \cap open # {}
  <2>1. First(labels \cap open) \in labels \cap open
    BY <1>2, FirstIsThere
  <2> QED
    BY <1>2, <2>1 DEF Drive, Send
<1> QED
  BY <1>1, <1>2

LEMMA SendType ==
  ASSUME InboxType, NEW w \in Windows, NEW request \in Requests, Send(w, request)
  PROVE  InboxType' /\ \A v \in Windows : inbox'[v] \in Seq(Requests)
<1>1. inbox[w] \in Seq(Requests)
  BY DEF InboxType
<1>2. Append(inbox[w], request) \in Seq(Requests)
  BY <1>1
<1>3. inbox' \in [Windows -> Seq(Requests)]
  BY <1>2 DEF Send, InboxType
<1> QED
  BY <1>3 DEF InboxType

LEMMA DriveType ==
  ASSUME InboxType, NEW labels \in SUBSET Windows, Drive(labels), exited \in BOOLEAN
  PROVE  /\ InboxType' /\ \A v \in Windows : inbox'[v] \in Seq(Requests)
         /\ current' \in Windows \cup {None} /\ queue' \subseteq Windows
         /\ exited' \in BOOLEAN
         /\ current' = None => queue' = {}
         /\ {current'} \cup queue' \subseteq labels \cup {None}
         /\ labels \cap open \subseteq {current'} \cup queue'
<1>1. CASE /\ labels \cap open = {}
           /\ exited' = TRUE /\ current' = None /\ queue' = {}
           /\ UNCHANGED inbox
  BY <1>1, WindowsAssumption DEF InboxType
<1>2. CASE /\ current' \in labels \cap open
           /\ queue' = (labels \cap open) \ {current'}
           /\ inbox' = [inbox EXCEPT ![current'] = Append(@, "app-exit")]
           /\ UNCHANGED exited
  <2>1. Send(current', "app-exit") /\ current' \in Windows /\ "app-exit" \in Requests
    BY <1>2 DEF Send, Requests
  <2>2. InboxType' /\ \A v \in Windows : inbox'[v] \in Seq(Requests)
    BY <2>1, SendType
  <2> QED
    BY <1>2, <2>2, WindowsAssumption
<1> QED
  BY <1>1, <1>2, DriveEffect

LEMMA CoreInit == Init => Core
<1> SUFFICES ASSUME Init PROVE Core
  OBVIOUS
<1>1. open \subseteq Windows /\ << >> \in Seq(Requests)
  BY WindowsAssumption DEF Init
<1>2. inbox \in [Windows -> Seq(Requests)]
  BY <1>1 DEF Init
<1>3. \A w \in Windows : inbox[w] \in Seq(Requests)
  BY <1>2
<1>4. TypeOK
  BY <1>1, <1>3 DEF Init, TypeOK, IsInProgress
<1> QED
  BY <1>2, <1>4 DEF Init, Core, InboxType, Labels, Waiting, Pending

LEMMA CoreQuit ==
  ASSUME Core, ~exited, Quit
  PROVE  Core'
<1>1. open \in SUBSET Windows /\ current = None
  BY DEF Core, TypeOK, Quit, Begin
<1>2. /\ Drive(open) /\ roster' = open /\ agreed' = {}
      /\ UNCHANGED <<windowVars, dialog, completing, cancelling>>
  BY DEF Quit, Begin
<1>3. /\ InboxType' /\ \A v \in Windows : inbox'[v] \in Seq(Requests)
      /\ current' \in Windows \cup {None} /\ queue' \subseteq Windows
      /\ exited' \in BOOLEAN
      /\ current' = None => queue' = {}
      /\ {current'} \cup queue' \subseteq open \cup {None}
      /\ open \subseteq {current'} \cup queue'
  BY <1>1, <1>2, DriveType DEF Core, TypeOK
<1>4. exited' => current' = None
  BY <1>1, <1>2, DriveEffect
<1>5. TypeOK'
  BY <1>2, <1>3 DEF Core, TypeOK, IsInProgress, windowVars, windows
<1>6. Labels' /\ Waiting' /\ Pending'
  BY <1>2, <1>3, <1>4, WindowsAssumption
  DEF Core, TypeOK, Labels, Waiting, Pending, windowVars, windows
<1> QED
  BY <1>3, <1>5, <1>6 DEF Core

LEMMA CoreCompleteAppExit ==
  ASSUME Core, ~exited, NEW w \in Windows, CompleteAppExit(w)
  PROVE  Core'
<1>1. /\ completing' = [completing EXCEPT ![w] = @ \ {"app-exit"}]
      /\ CompleteWindow(w)
      /\ UNCHANGED <<windowVars, dialog, cancelling>>
  BY DEF CompleteAppExit
<1>2. completing' \in [Windows -> SUBSET Requests]
  BY <1>1 DEF Core, TypeOK
<1>3. CASE current = w
  <2>1. Drive(queue) /\ agreed' = agreed \cup {w} /\ UNCHANGED roster
    BY <1>1, <1>3 DEF CompleteWindow
  <2>2. /\ InboxType' /\ \A v \in Windows : inbox'[v] \in Seq(Requests)
        /\ current' \in Windows \cup {None} /\ queue' \subseteq Windows
        /\ exited' \in BOOLEAN
        /\ current' = None => queue' = {}
        /\ {current'} \cup queue' \subseteq queue \cup {None}
        /\ queue \cap open \subseteq {current'} \cup queue'
    BY <2>1, DriveType DEF Core, TypeOK
  <2>3. exited' => current' = None
    BY <2>1, DriveEffect DEF Core, TypeOK
  <2>4. w \in roster /\ queue \subseteq roster /\ w # None
    BY <1>3, WindowsAssumption DEF Core, Waiting
  <2>5. TypeOK'
    BY <1>1, <1>2, <2>1, <2>2, <2>4 DEF Core, TypeOK, IsInProgress, windowVars, windows
  <2>6. roster \cap open \subseteq agreed \cup {w} \cup queue
    BY <1>3, <2>4 DEF Core, Pending
  <2>7. UNCHANGED <<open, unopened>>
    BY <1>1 DEF windowVars, windows
  <2>8. Labels'
    BY <2>1, <2>7 DEF Core, Labels
  <2>9. current' # None => {current'} \cup queue' \subseteq roster'
    BY <2>1, <2>2, <2>4, WindowsAssumption
  <2>10. Waiting'
    BY <2>2, <2>3, <2>9 DEF Waiting
  <2>11. roster' \cap open' \subseteq agreed' \cup {current'} \cup queue'
    BY <2>1, <2>2, <2>6, <2>7
  <2> QED
    BY <2>2, <2>5, <2>8, <2>11, <2>10 DEF Core, Pending
<1>4. CASE current # w
  BY <1>1, <1>2, <1>4
  DEF Core, TypeOK, InboxType, Labels, Waiting, Pending, IsInProgress, CompleteWindow,
      windowVars, windows, coordinator
<1> QED
  BY <1>3, <1>4

-----------------------------------------------------------------------------
(* Windows. The coordinator is left alone. *)

\* A step that types what it changes and opens no window of the roster.
LEMMA CoreWindow ==
  ASSUME Core, TypeOK', InboxType', UNCHANGED coordinator,
         \/ UNCHANGED windows
         \/ open' \subseteq open /\ UNCHANGED unopened
         \/ \E w \in unopened : open' = open \cup {w} /\ unopened' = unopened \ {w}
  PROVE  Core'
<1>1. Labels'
  BY DEF Core, Labels, coordinator, windows
<1>2. Waiting'
  BY DEF Core, Waiting, coordinator
<1>3. roster \cap open' \subseteq roster \cap open
  BY DEF Core, Labels, windows
<1>4. Pending'
  BY <1>3 DEF Core, Pending, coordinator
<1> QED
  BY <1>1, <1>2, <1>4 DEF Core

\* Steps that leave the requests alone.
LEMMA CoreUser ==
  ASSUME Core, NEW w \in Windows,
         \/ OpenWindow(w) \/ Loaded(w) \/ Type(w) \/ Save(w)
         \/ Answers(w) \/ CompleteExitRequestFails(w)
  PROVE  Core'
<1> USE DEF Core, TypeOK, InboxType, coordinator, windows, windowVars, IsInProgress
<1>1. CASE OpenWindow(w)
  <2>1. TypeOK' /\ InboxType'
    BY <1>1 DEF OpenWindow
  <2> QED
    BY <1>1, <2>1, CoreWindow DEF OpenWindow
<1>2. CASE Loaded(w)
  <2>1. TypeOK' /\ InboxType'
    BY <1>2 DEF Loaded
  <2> QED
    BY <1>2, <2>1, CoreWindow DEF Loaded
<1>3. CASE Type(w) \/ Save(w)
  <2>1. TypeOK' /\ InboxType'
    BY <1>3 DEF Type, Save, IsDirtyBecomes
  <2> QED
    BY <1>3, <2>1, CoreWindow DEF Type, Save
<1>4. CASE HandleCancel(w)
  <2>1. TypeOK' /\ InboxType'
    BY <1>4 DEF HandleCancel
  <2> QED
    BY <1>4, <2>1, CoreWindow DEF HandleCancel
<1>5. CASE HandleDiscard(w) \/ HandleSave(w)
  <2>1. dialog[w] \in Requests
    BY <1>5 DEF HandleDiscard, HandleSave
  <2>2. /\ dialog' \in [Windows -> Requests \cup {None}]
        /\ completing' \in [Windows -> SUBSET Requests]
    <3>1. Confirmed(w)
      BY <1>5 DEF HandleDiscard, HandleSave
    <3>2. completing[w] \cup {dialog[w]} \in SUBSET Requests
      BY <2>1
    <3> QED
      BY <3>1, <3>2 DEF Confirmed
  <2>3. unsaved' \in [Windows -> BOOLEAN] /\ isDirtyRef' \in [Windows -> BOOLEAN]
    BY <1>5 DEF HandleDiscard, HandleSave, IsDirtyBecomes
  <2>4. TypeOK' /\ InboxType'
    BY <1>5, <2>2, <2>3 DEF HandleDiscard, HandleSave
  <2> QED
    BY <1>5, <2>4, CoreWindow DEF HandleDiscard, HandleSave
<1>6. CASE CompleteExitRequestFails(w)
  <2>1. TypeOK' /\ InboxType'
    BY <1>6 DEF CompleteExitRequestFails
  <2> QED
    BY <1>6, <2>1, CoreWindow DEF CompleteExitRequestFails
<1> QED
  BY <1>1, <1>2, <1>3, <1>4, <1>5, <1>6 DEF Answers

LEMMA CoreCloseButton ==
  ASSUME Core, NEW w \in Windows, CloseButton(w)
  PROVE  Core'
<1>1. InboxType' /\ \A v \in Windows : inbox'[v] \in Seq(Requests)
  BY SendType DEF Core, CloseButton, Requests
<1>2. TypeOK'
  BY <1>1 DEF Core, TypeOK, CloseButton, IsInProgress, windowVars, windows, coordinator
<1> QED
  BY <1>1, <1>2, CoreWindow DEF CloseButton, windowVars

LEMMA CoreHandleExitRequest ==
  ASSUME Core, NEW w \in Windows, HandleExitRequest(w)
  PROVE  Core'
<1>1. /\ inbox[w] # << >>
      /\ inbox' = [inbox EXCEPT ![w] = Tail(inbox[w])]
      /\ UNCHANGED <<windowVars, cancelling, coordinator>>
  BY DEF HandleExitRequest
<1>2. Head(inbox[w]) \in Requests /\ Tail(inbox[w]) \in Seq(Requests)
  BY <1>1 DEF Core, InboxType
<1>3. InboxType' /\ \A v \in Windows : inbox'[v] \in Seq(Requests)
  BY <1>1, <1>2 DEF Core, InboxType
<1>4. /\ dialog' \in [Windows -> Requests \cup {None}]
      /\ completing' \in [Windows -> SUBSET Requests]
  BY <1>2, SMTT(30) DEF Core, TypeOK, HandleExitRequest
<1>5. TypeOK'
  BY <1>1, <1>3, <1>4 DEF Core, TypeOK, IsInProgress, windowVars, windows, coordinator
<1> QED
  BY <1>1, <1>3, <1>5, CoreWindow DEF windowVars

LEMMA CoreCompleteWindowClose ==
  ASSUME Core, NEW w \in Windows, CompleteWindowClose(w)
  PROVE  Core'
<1>1. InboxType' /\ \A v \in Windows : inbox'[v] \in Seq(Requests)
  BY DEF Core, InboxType, CompleteWindowClose
<1>2. TypeOK'
  BY <1>1 DEF Core, TypeOK, CompleteWindowClose, IsInProgress, coordinator
<1> QED
  BY <1>1, <1>2, CoreWindow DEF CompleteWindowClose

\* A cancelled exit is over; nothing is said of it.
LEMMA CoreCancelArrives ==
  ASSUME Core, ~exited, NEW w \in Windows, CancelArrives(w)
  PROVE  Core'
<1>1. CASE current = w
  BY <1>1, WindowsAssumption
  DEF Core, TypeOK, InboxType, Labels, Waiting, Pending, CancelArrives, CancelExit,
      IsInProgress, windowVars, windows
<1>2. CASE current # w
  BY <1>2
  DEF Core, TypeOK, InboxType, Labels, Waiting, Pending, CancelArrives, CancelExit,
      IsInProgress, windowVars, windows, coordinator
<1> QED
  BY <1>1, <1>2

LEMMA CoreNext == Core /\ [Next]_vars => Core'
<1> SUFFICES ASSUME Core, [Next]_vars PROVE Core'
  OBVIOUS
<1>1. CASE Next
  BY <1>1, CoreQuit, CoreCompleteAppExit, CoreUser, CoreCloseButton, CoreHandleExitRequest,
     CoreCompleteWindowClose, CoreCancelArrives DEF Next, Window
<1>2. CASE UNCHANGED vars
  BY <1>2 DEF Core, TypeOK, InboxType, Labels, Waiting, Pending, IsInProgress, vars
<1> QED
  BY <1>1, <1>2

-----------------------------------------------------------------------------

\* Every state of the coordinator and of the windows is one the code knows, and an exit
\* under way has a window it waits for (AppExitCoordinator).
THEOREM TypeCorrect == Spec => []TypeOK
<1>1. Core => TypeOK
  BY DEF Core
<1> QED
  BY <1>1, CoreInit, CoreNext, PTL DEF Spec

\* The process ends only when every window that was there when the exit began, and still
\* is, has agreed to it (complete_window and drive_app_exit).
THEOREM UnanimousExit == Spec => []ExitIsUnanimous
<1>1. Core => ExitIsUnanimous
  BY WindowsAssumption DEF Core, Waiting, Pending, TypeOK, ExitIsUnanimous
<1> QED
  BY <1>1, CoreInit, CoreNext, PTL DEF Spec

-----------------------------------------------------------------------------
(* The command to the other processes *)

TrayTypes ==
  /\ phase \in [Processes -> Phases]
  /\ last \in [Processes -> Nat] /\ next \in [Processes -> Nat]
  /\ command \in Nat /\ temporary \in Nat
  /\ owner \in Processes \cup {NoProcess}

TrayInv == TrayTypes /\ NoQuitIsReplayed

\* A process goes to another phase.
LEMMA PhaseOf ==
  ASSUME TrayTypes, NEW p \in Processes, NEW to \in Phases, Becomes(p, to)
  PROVE  /\ phase' \in [Processes -> Phases] /\ phase'[p] = to
         /\ \A q \in Processes \ {p} : phase'[q] = phase[q]
         /\ Running' \ {p} = Running \ {p}
         /\ p \in Running' <=> to \in {"running", "asking"}
BY DEF TrayTypes, Becomes, Running

LEMMA InitTray == TrayInit => TrayInv
BY DEF TrayInit, TrayInv, TrayTypes, NoQuitIsReplayed, Phases, Running, NoFile

\* A process goes on; what it changes of files, sequences and the icon keeps the others and
\* itself out of debt.
LEMMA GoesOn ==
  ASSUME TrayInv, NEW p \in Processes, NEW to \in Phases, Becomes(p, to),
         last' \in [Processes -> Nat], next' \in [Processes -> Nat],
         command' \in Nat, temporary' \in Nat,
         \A q \in Processes \ {p} : last'[q] = last[q],
         \A q \in Running \ {p} : command' > last[q] => q \in owed',
         to \in {"running", "asking"} /\ command' > last'[p] => p \in owed',
         owner' \in {owner, NoProcess},
         to = "gone" => owner' # p \/ p = NoProcess,
         phase[p] # "off" \/ to # "off", to # "off"
  PROVE  TrayInv'
<1>1. /\ phase' \in [Processes -> Phases] /\ phase'[p] = to
      /\ \A q \in Processes \ {p} : phase'[q] = phase[q]
      /\ Running' \ {p} = Running \ {p}
      /\ p \in Running' <=> to \in {"running", "asking"}
  BY PhaseOf DEF TrayInv
<1>2. TrayTypes'
  BY <1>1 DEF TrayInv, TrayTypes
<1>3. (\A q \in Running : command > last[q] => q \in owed)'
  <2> SUFFICES ASSUME NEW q \in Running', command' > last'[q] PROVE q \in owed'
    OBVIOUS
  <2>1. q \in Processes
    BY DEF Running
  <2>2. CASE q = p
    BY <1>1, <2>2
  <2>3. CASE q # p
    BY <1>1, <2>1, <2>3
  <2> QED
    BY <2>2, <2>3
<1>4. (owner # NoProcess => phase[owner] \notin {"off", "gone"})'
  BY <1>1 DEF TrayInv, TrayTypes, NoQuitIsReplayed
<1> QED
  BY <1>2, <1>3, <1>4 DEF TrayInv, NoQuitIsReplayed

\* Nothing is published.
LEMMA Quietly ==
  ASSUME TrayInv, NEW p \in Processes, NEW to \in Phases \ {"off", "gone"}, Becomes(p, to),
         last' = last, next' \in [Processes -> Nat], temporary' \in Nat,
         command' \in {command, NoFile},
         owed' = owed, owner' = owner,
         to \in {"running", "asking"} => p \in Running
  PROVE  TrayInv'
<1>1. last' \in [Processes -> Nat] /\ command' \in Nat
  BY DEF TrayInv, TrayTypes, NoFile
<1>2. \A q \in Running : command' > last[q] => q \in owed'
  <2>1. \A q \in Running : last[q] \in Nat
    BY DEF TrayInv, TrayTypes, Running
  <2> QED
    BY <2>1 DEF TrayInv, NoQuitIsReplayed, NoFile
<1> QED
  BY <1>1, <1>2, GoesOn

LEMMA NextTray ==
  ASSUME TrayInv, NEW p \in Processes,
         \/ Start(p) \/ AskToQuit(p) \/ Stay(p) \/ Leave(p) \/ Crash(p)
         \/ Broadcast(p) \/ Work(p)
  PROVE  TrayInv'
<1>0. TrayTypes /\ \A q \in Running : command > last[q] => q \in owed
  BY DEF TrayInv, NoQuitIsReplayed
<1>1. CASE Start(p)
  <2>1. /\ Becomes(p, "running") /\ last' = [last EXCEPT ![p] = command]
        /\ UNCHANGED <<next, command, temporary, owner, owed>>
    BY <1>1 DEF Start, files, history
  <2>2. last'[p] = command /\ last' \in [Processes -> Nat]
        /\ \A q \in Processes \ {p} : last'[q] = last[q]
    BY <1>0, <2>1 DEF TrayTypes
  <2> QED
    BY <1>0, <2>1, <2>2, GoesOn DEF TrayTypes, Phases
<1>2. CASE AskToQuit(p) \/ Stay(p) \/ Leave(p)
  <2>1. PICK to \in {"asking", "running", "leaving"} : Becomes(p, to)
    BY <1>2 DEF AskToQuit, Stay, Leave
  <2>2. p \in Running /\ UNCHANGED <<last, next, command, temporary, owner, owed>>
    BY <1>2 DEF AskToQuit, Stay, Leave, files, history, Running
  <2> QED
    BY <1>0, <2>1, <2>2, Quietly DEF TrayTypes, Phases
<1>3. CASE Crash(p)
  <2>1. /\ Becomes(p, "gone") /\ owner' = IF owner = p THEN NoProcess ELSE owner
        /\ UNCHANGED <<last, next, command, temporary, owed>>
    BY <1>3 DEF Crash, files
  <2> QED
    BY <1>0, <2>1, GoesOn DEF TrayTypes, Phases
<1>4. CASE Claim(p)
  <2>1. p \in Running /\ owner' = p /\ UNCHANGED <<phase, last, next, command, temporary, owed>>
    BY <1>4 DEF Claim, files, history
  <2>2. phase[p] \notin {"off", "gone"}
    BY <2>1 DEF Running
  <2> QED
    BY <2>1, <2>2 DEF TrayInv, TrayTypes, NoQuitIsReplayed, Running
<1>5. CASE Poll(p)
  <2>1. /\ Becomes(p, "asking") /\ last' = [last EXCEPT ![p] = command] /\ owed' = owed \ {p}
        /\ UNCHANGED <<next, command, temporary, owner>>
    BY <1>5 DEF Poll, files
  <2>2. last'[p] = command /\ last' \in [Processes -> Nat]
        /\ \A q \in Processes \ {p} : last'[q] = last[q]
    BY <1>0, <2>1 DEF TrayTypes
  <2> QED
    BY <1>0, <2>1, <2>2, GoesOn DEF TrayTypes, Phases
<1>6. CASE ReadSequence(p)
  <2>1. /\ Becomes(p, "writing") /\ next' = [next EXCEPT ![p] = command + 1]
        /\ UNCHANGED <<last, command, temporary, owner, owed>>
    BY <1>6 DEF ReadSequence, files
  <2> QED
    BY <1>0, <2>1, Quietly DEF TrayTypes, Phases
<1>7. CASE WriteTemporary(p)
  <2>1. Becomes(p, "removing") /\ temporary' = next[p]
        /\ UNCHANGED <<last, next, command, owner, owed>>
    BY <1>7 DEF WriteTemporary, history
  <2> QED
    BY <1>0, <2>1, Quietly DEF TrayTypes, Phases
<1>8. CASE RemoveCommand(p)
  <2>1. Becomes(p, "replacing") /\ command' = NoFile
        /\ UNCHANGED <<last, next, temporary, owner, owed>>
    BY <1>8 DEF RemoveCommand, history
  <2> QED
    BY <1>0, <2>1, Quietly DEF TrayTypes, Phases
<1>9. CASE Rename(p)
  <2>1. /\ Becomes(p, "gone") /\ owner' = IF owner = p THEN NoProcess ELSE owner
        /\ UNCHANGED <<last, next>>
    BY <1>9 DEF Rename
  <2>2. command' \in Nat /\ temporary' \in Nat
        /\ \A q \in Running : command' > last[q] => q \in owed'
    BY <1>0, <1>9 DEF Rename, files, TrayTypes, NoFile
  <2> QED
    BY <1>0, <2>1, <2>2, GoesOn DEF TrayTypes, Phases
<1> QED
  BY <1>1, <1>2, <1>3, <1>4, <1>5, <1>6, <1>7, <1>8, <1>9 DEF Broadcast, Work

LEMMA StutterTray ==
  ASSUME TrayInv, UNCHANGED trayVars
  PROVE  TrayInv'
BY DEF trayVars, files, history, TrayInv, TrayTypes, NoQuitIsReplayed, Running

\* No process is asked to leave by an exit that it has heard of, or that was over when it
\* started, and the tray icon is that of a process that runs.
THEOREM QuitsAreHeardOnce == TraySpec => []NoQuitIsReplayed
<1>1. TrayInv /\ [TrayNext]_trayVars => TrayInv'
  BY NextTray, StutterTray DEF TrayNext
<1>2. TrayInv => NoQuitIsReplayed
  BY DEF TrayInv
<1> QED
  BY <1>1, <1>2, InitTray, PTL DEF TraySpec
=============================================================================
