-------------------------------- MODULE AppExit --------------------------------
(***************************************************************************)
(* Leaving the application: AppExitCoordinator in src-tauri, the commands  *)
(* of src-tauri/src/commands/app_exit.rs around it, and the confirmation   *)
(* every editor window runs in src/ui/hooks/useConfirmSaveOnExit.ts. The   *)
(* coordinator asks one window after the other; a window with unsaved      *)
(* changes asks its user, and then completes or cancels the exit. The same *)
(* confirmation serves the close button of the window.                     *)
(*                                                                         *)
(* Labels are numbers, in the order the coordinator sorts them; a label is *)
(* never used again. A window knows whether it is dirty from a reference   *)
(* that follows the state of the document only when that state changes.    *)
(***************************************************************************)
EXTENDS Integers, Sequences, FiniteSets, SequencesExt

CONSTANTS
  Windows,    \* labels of editor windows
  Initially,  \* sets of them that may be open at first
  None

ASSUME WindowsAssumption ==
  /\ Windows \subseteq Nat
  /\ Initially \subseteq SUBSET Windows
  /\ None \notin Windows

Requests == {"app-exit", "window-close"}

VARIABLES
  closing,     \* FALSE: no window is opened or closed by its user, and no flush
               \* fails; never changes
  open,        \* windows that exist
  unopened,    \* labels still to be used
  ready,       \* windows that listen and have a document
  unsaved,     \* the document of the window has unsaved changes
  isDirtyRef,  \* what the confirmation believes of that
  inbox,       \* requests on their way to the window
  dialog,      \* pendingRequest: what the user is being asked
  completing,  \* requests that are being completed, in onBeforeExit
  cancelling,  \* windows whose cancel_app_exit is on its way
  current,     \* the coordinator: the window asked
  queue,       \* and those to be asked after it, in the order of their labels
  exited,      \* the process has ended
  roster,      \* history: windows there were when this exit began
  agreed       \* history: those that completed it

vars == <<closing, open, unopened, ready, unsaved, isDirtyRef, inbox, dialog, completing,
          cancelling, current, queue, exited, roster, agreed>>

windows == <<closing, open, unopened, ready>>
windowVars == <<windows, unsaved, isDirtyRef>>
coordinator == <<current, queue, exited, roster, agreed>>

\* pop_front of the list that begin sorts and dedups: the list is the set of its labels.
First(labels) == CHOOSE w \in labels : \A v \in labels : w <= v

Init ==
  /\ closing \in BOOLEAN
  /\ open \in Initially
  /\ unopened = Windows \ open
  /\ ready = open
  /\ unsaved = [w \in Windows |-> FALSE]
  /\ isDirtyRef = [w \in Windows |-> FALSE]
  /\ inbox = [w \in Windows |-> << >>]
  /\ dialog = [w \in Windows |-> None]
  /\ completing = [w \in Windows |-> {}]
  /\ cancelling = {}
  /\ current = None
  /\ queue = {}
  /\ exited = FALSE
  /\ roster = {}
  /\ agreed = {}

-----------------------------------------------------------------------------
(* The coordinator *)

IsInProgress == current # None \/ queue # {}

Send(w, request) == inbox' = [inbox EXCEPT ![w] = Append(@, request)]

\* advance and drive_app_exit: the first window of the list that is still there
\* is asked; if there is none left the process ends.
Drive(labels) ==
  IF labels \cap open = {}
    THEN /\ exited' = TRUE
         /\ current' = None
         /\ queue' = {}
         /\ UNCHANGED inbox
    ELSE /\ current' = First(labels \cap open)
         /\ queue' = (labels \cap open) \ {current'}
         /\ Send(current', "app-exit")
         /\ UNCHANGED exited

\* request_app_exit, from the tray or another process; ignored while an exit is
\* in progress.
Begin ==
  /\ ~IsInProgress
  /\ Drive(open)
  /\ roster' = open
  /\ agreed' = {}

Quit ==
  /\ Begin
  /\ UNCHANGED <<windowVars, dialog, completing, cancelling>>

\* Mutant: the windows after the next one are forgotten.
CompleteWindowSkipping(w) ==
  IF current = w
    THEN Drive(queue \ {v \in queue : \A u \in queue : v <= u}) /\ agreed' = agreed \cup {w} /\ UNCHANGED roster
    ELSE UNCHANGED <<coordinator, inbox>>

CompleteWindow(w) ==
  IF current = w
    THEN Drive(queue) /\ agreed' = agreed \cup {w} /\ UNCHANGED roster
    ELSE UNCHANGED <<coordinator, inbox>>

\* Mutant: the windows still to be asked stay in the list.
CancelExitOfCurrent(w) ==
  IF current = w
    THEN current' = None /\ UNCHANGED <<queue, exited, roster, agreed>>
    ELSE UNCHANGED coordinator

CancelExit(w) ==
  IF current = w
    THEN current' = None /\ queue' = {} /\ UNCHANGED <<exited, roster, agreed>>
    ELSE UNCHANGED coordinator

-----------------------------------------------------------------------------
(* Windows *)

\* A proposal accepted, a file opened by another program, or the tray's new
\* window, whose thread may run after the exit has begun.
OpenWindow(w) ==
  /\ closing
  /\ w \in unopened
  /\ open' = open \cup {w}
  /\ unopened' = unopened \ {w}
  /\ UNCHANGED <<closing, ready, unsaved, isDirtyRef, inbox, dialog, completing, cancelling,
                 coordinator>>

Loaded(w) ==
  /\ w \in open \ ready
  /\ ready' = ready \cup {w}
  /\ UNCHANGED <<closing, open, unopened, unsaved, isDirtyRef, inbox, dialog, completing,
                 cancelling, coordinator>>

IsDirtyBecomes(w, dirty) ==
  /\ unsaved' = [unsaved EXCEPT ![w] = dirty]
  /\ isDirtyRef' = IF unsaved[w] = dirty THEN isDirtyRef ELSE [isDirtyRef EXCEPT ![w] = dirty]

\* The dialog is modal.
Type(w) ==
  /\ w \in ready
  /\ dialog[w] = None
  /\ IsDirtyBecomes(w, TRUE)
  /\ UNCHANGED <<windows, inbox, dialog, completing, cancelling, coordinator>>

Save(w) ==
  /\ w \in ready
  /\ dialog[w] = None
  /\ IsDirtyBecomes(w, FALSE)
  /\ UNCHANGED <<windows, inbox, dialog, completing, cancelling, coordinator>>

\* The close button: CloseRequested is answered with a request to the window.
CloseButton(w) ==
  /\ closing
  /\ w \in open
  /\ "window-close" \notin ToSet(inbox[w])
  /\ Send(w, "window-close")
  /\ UNCHANGED <<windowVars, dialog, completing, cancelling, coordinator>>

-----------------------------------------------------------------------------
(* useConfirmSaveOnExit *)

\* Nobody hears a request before the window is ready, and one that comes while
\* the dialog is open is dropped.
HandleExitRequest(w) ==
  /\ inbox[w] # << >>
  /\ inbox' = [inbox EXCEPT ![w] = Tail(@)]
  /\ LET request == Head(inbox[w])
     IN  \/ /\ w \notin ready \/ dialog[w] # None
            /\ UNCHANGED <<dialog, completing>>
         \/ /\ w \in ready /\ dialog[w] = None /\ ~isDirtyRef[w]
            /\ completing' = [completing EXCEPT ![w] = @ \cup {request}]
            /\ UNCHANGED dialog
         \/ /\ w \in ready /\ dialog[w] = None /\ isDirtyRef[w]
            /\ dialog' = [dialog EXCEPT ![w] = request]
            /\ UNCHANGED completing
  /\ UNCHANGED <<windowVars, cancelling, coordinator>>

HandleCancel(w) ==
  /\ dialog[w] # None
  /\ dialog' = [dialog EXCEPT ![w] = None]
  /\ cancelling' = IF dialog[w] = "app-exit" THEN cancelling \cup {w} ELSE cancelling
  /\ UNCHANGED <<windowVars, inbox, completing, coordinator>>

Confirmed(w) ==
  /\ dialog' = [dialog EXCEPT ![w] = None]
  /\ completing' = [completing EXCEPT ![w] = @ \cup {dialog[w]}]

\* The reference is reset; the document is reset only if its window closes.
HandleDiscard(w) ==
  /\ dialog[w] # None
  /\ Confirmed(w)
  /\ isDirtyRef' = [isDirtyRef EXCEPT ![w] = FALSE]
  /\ unsaved' = IF dialog[w] = "window-close" THEN [unsaved EXCEPT ![w] = FALSE] ELSE unsaved
  /\ UNCHANGED <<windows, inbox, cancelling, coordinator>>

\* The save went through; one that fails leaves the dialog open.
HandleSave(w) ==
  /\ dialog[w] # None
  /\ Confirmed(w)
  /\ IsDirtyBecomes(w, FALSE)
  /\ UNCHANGED <<windows, inbox, cancelling, coordinator>>

\* completeExitRequest: onBeforeExit flushes the editor, and may fail.
CompleteExitRequestFails(w) ==
  /\ closing
  /\ \E request \in completing[w] : completing' = [completing EXCEPT ![w] = @ \ {request}]
  /\ UNCHANGED <<windowVars, inbox, dialog, cancelling, coordinator>>

CompleteAppExit(w) ==
  /\ "app-exit" \in completing[w]
  /\ completing' = [completing EXCEPT ![w] = @ \ {"app-exit"}]
  /\ CompleteWindow(w)
  /\ UNCHANGED <<windowVars, dialog, cancelling>>

\* The window is destroyed; the coordinator does not hear of it.
CompleteWindowClose(w) ==
  /\ "window-close" \in completing[w]
  /\ open' = open \ {w}
  /\ ready' = ready \ {w}
  /\ inbox' = [inbox EXCEPT ![w] = << >>]
  /\ dialog' = [dialog EXCEPT ![w] = None]
  /\ completing' = [completing EXCEPT ![w] = {}]
  /\ cancelling' = cancelling \ {w}
  /\ unsaved' = [unsaved EXCEPT ![w] = FALSE]
  /\ isDirtyRef' = [isDirtyRef EXCEPT ![w] = FALSE]
  /\ UNCHANGED <<closing, unopened, coordinator>>

CancelArrives(w) ==
  /\ w \in cancelling
  /\ cancelling' = cancelling \ {w}
  /\ CancelExit(w)
  /\ UNCHANGED <<windowVars, inbox, dialog, completing>>

-----------------------------------------------------------------------------
Answers(w) == HandleCancel(w) \/ HandleDiscard(w) \/ HandleSave(w)

Window(w) ==
  \/ OpenWindow(w)
  \/ Loaded(w)
  \/ Type(w)
  \/ Save(w)
  \/ CloseButton(w)
  \/ HandleExitRequest(w)
  \/ Answers(w)
  \/ CompleteExitRequestFails(w)
  \/ CompleteAppExit(w)
  \/ CompleteWindowClose(w)
  \/ CancelArrives(w)

Next == ~exited /\ (Quit \/ \E w \in Windows : Window(w))

Spec == Init /\ [][Next]_vars

\* Requests and calls arrive, windows load, and users answer what they are asked.
Fairness ==
  \A w \in Windows :
    /\ WF_vars(~exited /\ Loaded(w))
    /\ WF_vars(~exited /\ HandleExitRequest(w))
    /\ WF_vars(~exited /\ Answers(w))
    /\ WF_vars(~exited /\ (CompleteExitRequestFails(w) \/ CompleteAppExit(w)))
    /\ WF_vars(~exited /\ CompleteWindowClose(w))
    /\ WF_vars(~exited /\ CancelArrives(w))

FairSpec == Spec /\ Fairness

-----------------------------------------------------------------------------
(* Correctness *)

\* Types; and an exit under way has a window that it waits for.
TypeOK ==
  /\ open \subseteq Windows
  /\ unopened \subseteq Windows \ open
  /\ ready \subseteq open
  /\ unsaved \in [Windows -> BOOLEAN]
  /\ isDirtyRef \in [Windows -> BOOLEAN]
  /\ \A w \in Windows : inbox[w] \in Seq(Requests)
  /\ dialog \in [Windows -> Requests \cup {None}]
  /\ completing \in [Windows -> SUBSET Requests]
  /\ cancelling \subseteq Windows
  /\ current \in Windows \cup {None}
  /\ queue \subseteq Windows
  /\ exited \in BOOLEAN
  /\ roster \subseteq Windows
  /\ agreed \subseteq roster
  /\ IsInProgress <=> current # None

\* One window after the other: only the window whose turn it is has its user
\* asked, has an answer under way, or a request to come.
InvolvedInExit(w) ==
  \/ "app-exit" \in ToSet(inbox[w])
  \/ dialog[w] = "app-exit"
  \/ "app-exit" \in completing[w]
  \/ w \in cancelling

OnlyCurrentIsAsked == \A w \in Windows : InvolvedInExit(w) => current = w

\* An exit happens only when every window there was at its beginning has agreed
\* to it, or was closed on the way; an exit that was cancelled never happens.
ExitIsUnanimous == exited => roster \cap open \subseteq agreed

\* "begin -> complete | cancel -> exit" (docs/architecture-dsa.md:25): an exit
\* that has begun is completed or cancelled once the users have answered, as
\* long as no window comes or goes and no flush fails. Otherwise it may hang: a
\* window that drops the request, is closed, or fails to flush never answers.
ExitEndsUnlessClosing == (IsInProgress /\ ~closing) ~> ~IsInProgress

\* A window that is left open after all knows that it has unsaved changes, and
\* will ask before it closes.
OpenWindowKnowsItIsDirty ==
  ~IsInProgress /\ ~exited =>
    \A w \in open : unsaved[w] /\ completing[w] = {} => isDirtyRef[w]
=============================================================================
