---------------------------- MODULE SubWindowScreen ----------------------------
(***************************************************************************)
(* What a sub window shows (src/ui/screens/SubWindowScreen.tsx behind      *)
(* src/infra/subWindow.ts and commands/sub_window.rs): a source of its own *)
(* process announces what it publishes with events, one of another process *)
(* is noticed by the poll of the sources alone, and the state itself is    *)
(* asked for. The registry is reduced to its readings here; SubWindows     *)
(* says how they come about. Commands run on the main thread, so that      *)
(* answers and events reach the sub window in the order they were sent.    *)
(***************************************************************************)
EXTENDS Integers, Sequences

CONSTANTS
  Sources,    \* editor windows
  Local,      \* those of the process of the sub window, a subset
  MaxState,   \* bound on the states that are published
  MaxInbox,   \* bound on the messages to the sub window
  None

NotListed == 0

VARIABLES
  stamp,      \* the time: no two states are of the same
  published,  \* the state of every source in the registry, by its updatedAtEpochMs
  active,     \* the active source of the registry
  screen,     \* the sub window
  inbox       \* events and answers on their way to it

vars == <<stamp, published, active, screen, inbox>>

ReadingOfWhoIsThere(states, source) ==
  [active |-> source,
   states |-> [w \in Sources |-> IF states[w] = NotListed THEN NotListed ELSE 1]]

\* get_sub_window_sources; its signature is the whole of it.
Reading(states, source) == [active |-> source, states |-> states]

Snapshot == Reading(published, active)

NoSnapshot == [active |-> None, states |-> [w \in Sources |-> NotListed]]

Message(kind, source, state, snapshot) ==
  [kind |-> kind, source |-> source, state |-> state, snapshot |-> snapshot]

SourcesUpdated(snapshot) == Message("sources", None, NotListed, snapshot)

StateUpdated(w, state) == Message("state", w, state, NoSnapshot)

\* get_sub_window_source_state.
Answered(selection) ==
  LET source == IF selection = None THEN active ELSE selection
  IN  Message("answer", source, IF source = None THEN NotListed ELSE published[source],
              NoSnapshot)

NoScreen ==
  [open |-> FALSE, selection |-> None, snapshot |-> NoSnapshot, listening |-> FALSE,
   source |-> None, state |-> NotListed, asked |-> << >>]

\* refreshSourceState. A question that follows another two is not counted.
Refreshed(s) ==
  IF Len(s.asked) = 2 THEN s ELSE [s EXCEPT !.asked = Append(@, s.selection)]

Selected(s) == IF s.selection = None THEN s.snapshot.active ELSE s.selection

\* A fixed source that is missing closes the sub window.
IsFixedSourceMissing(s, snapshot) ==
  s.selection # None /\ snapshot.states[s.selection] = NotListed

-----------------------------------------------------------------------------

Init ==
  /\ stamp = 0
  /\ published = [w \in Sources |-> NotListed]
  /\ active = None
  /\ screen = NoScreen
  /\ inbox = << >>

\* A command of w leaves these states and this active source, and sends what
\* it announces to the sub windows of its process.
Command(w, states, source, announced) ==
  /\ published' = states
  /\ active' = source
  /\ IF w \in Local /\ screen.open
     THEN LET all == inbox \o Append(announced, SourcesUpdated(Reading(states, source)))
          IN  Len(all) <= MaxInbox /\ inbox' = all
     ELSE UNCHANGED inbox
  /\ UNCHANGED screen

\* register_ and publish_sub_window_source_state, also when a window is
\* focused.
Publish(w) ==
  /\ stamp < MaxState
  /\ stamp' = stamp + 1
  /\ Command(w, [published EXCEPT ![w] = stamp + 1],
             IF published[w] = NotListed /\ active = None THEN w ELSE active,
             <<StateUpdated(w, stamp + 1)>>)

\* activate_sub_window_source follows the publication.
Activate(w) ==
  /\ published[w] # NotListed
  /\ published[w] = stamp
  /\ Command(w, published, w, << >>)
  /\ UNCHANGED stamp

\* unregister_sub_window_source, or the window is closed.
Unregister(w) ==
  /\ published[w] # NotListed
  /\ Command(w, [published EXCEPT ![w] = NotListed],
             IF active = w THEN None ELSE active, << >>)
  /\ UNCHANGED stamp

\* The file is stale and any process removes it, or is gone after a crash.
Vanish(w) ==
  /\ published[w] # NotListed
  /\ published' = [published EXCEPT ![w] = NotListed]
  /\ active' = IF active = w THEN None ELSE active
  /\ UNCHANGED <<stamp, screen, inbox>>

\* The sub window opens, or another source is selected, None for the active
\* one. An answer for the old selection may still be on its way.
Select(selection) ==
  /\ screen.open => screen.selection # selection /\ screen.asked = << >>
  /\ Len(inbox) < MaxInbox
  /\ screen' = Refreshed([screen EXCEPT !.open = TRUE, !.selection = selection,
                            !.listening = FALSE, !.source = None, !.state = NotListed])
  /\ UNCHANGED <<stamp, published, active, inbox>>

\* The poll of listenForSubWindowSourcesChanged, every 500 ms; one that finds
\* what the listener already knows changes nothing.
PollSources ==
  /\ screen.open
  /\ screen.listening => Snapshot # screen.snapshot
  /\ \A i \in DOMAIN inbox : inbox[i].kind # "sources"
  /\ inbox' = Append(inbox, SourcesUpdated(Snapshot))
  /\ UNCHANGED <<stamp, published, active, screen>>

AnswerState ==
  /\ screen.asked # << >>
  /\ inbox' = Append(inbox, Answered(Head(screen.asked)))
  /\ screen' = [screen EXCEPT !.asked = Tail(@)]
  /\ UNCHANGED <<stamp, published, active>>

\* publishSnapshot behind the signature, and the listener of the screen: the
\* listener is installed anew, and knows nothing, when the active source
\* of the snapshot changes.
HearSources(snapshot) ==
  IF screen.listening /\ snapshot = screen.snapshot THEN screen
  ELSE IF IsFixedSourceMissing(screen, snapshot) THEN NoScreen
  ELSE Refreshed([screen EXCEPT !.snapshot = snapshot,
                                !.listening = snapshot.active = screen.snapshot.active])

\* listenSourceStateChanged.
HearState(source, state) ==
  IF source = Selected(screen)
  THEN [screen EXCEPT !.source = source, !.state = state]
  ELSE IF screen.selection = None THEN Refreshed(screen)
  ELSE screen

Receive ==
  /\ inbox # << >>
  /\ LET message == Head(inbox)
     IN  screen' = CASE message.kind = "sources" -> HearSources(message.snapshot)
                     [] message.kind = "state"   -> HearState(message.source, message.state)
                     [] message.kind = "answer"  ->
                          [screen EXCEPT !.source = message.source, !.state = message.state]
  /\ inbox' = IF screen'.open THEN Tail(inbox) ELSE << >>
  /\ UNCHANGED <<stamp, published, active>>

Follow == PollSources \/ AnswerState \/ Receive

Next ==
  \/ \E w \in Sources : Publish(w) \/ Activate(w) \/ Unregister(w) \/ Vanish(w)
  \/ \E selection \in Sources \cup {None} : Select(selection)
  \/ Follow

\* The timer of the poll runs, and what was sent arrives.
Fairness == WF_vars(Follow)

Spec == Init /\ [][Next]_vars /\ Fairness

-----------------------------------------------------------------------------
(* Properties. *)

TypeOK ==
  /\ published \in [Sources -> NotListed .. MaxState]
  /\ active \in Sources \cup {None}
  /\ Len(inbox) <= MaxInbox + 4
  /\ screen.source \in Sources \cup {None}

IsCurrent ==
  LET source == IF screen.selection = None THEN active ELSE screen.selection
  IN  source # None /\ published[source] # NotListed
        => screen.source = source /\ screen.state = published[source]

\* Once the sources rest, an open sub window comes to show the state of the
\* source it is bound to and keeps it, whichever process published it and
\* whatever was asked for before.
SubWindowCatchesUp == <>[][Follow]_vars => <>[](screen.open => IsCurrent)

=============================================================================
