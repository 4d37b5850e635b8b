------------------------------ MODULE EditorSync ------------------------------
(***************************************************************************)
(* One editor window and the authoritative document behind it. Keystrokes  *)
(* go into a mutation queue that has at most one batch on its way; the     *)
(* document answers with acknowledgements and announces every revision     *)
(* with a SessionChanged event; the window reacts to revisions it does not *)
(* know by fetching the session and replacing text and queue, and to a     *)
(* refused batch by fetching the document anew                             *)
(* (src/adapters/editor/editorMutationQueue.ts, useMarkdownEditor.ts and   *)
(* DesktopMarkdownInput.tsx in src/ui; the document is EditorDocument).    *)
(*                                                                         *)
(* A keystroke appends the next number to the text of the editor: what     *)
(* edits do to texts is the matter of TextEdits, here a text only has to   *)
(* tell which keystrokes are in it. Another writer's keystroke is Foreign. *)
(*                                                                         *)
(* The window's calls are synchronous commands of the backend, taken in    *)
(* the order they were made; answers and events come back in any order.    *)
(***************************************************************************)
EXTENDS Integers, Sequences, FiniteSets, SequencesExt, FiniteSetsExt

CONSTANTS
  MaxKeys,      \* bound on keystrokes
  MaxForeign,   \* bound on texts replaced by another writer
  MaxQueues,    \* bound on the queues of the window, first one included
  MaxRevision,
  NoBatch, NoText, Rejected

Foreign == 0
Keys == 1 .. MaxKeys
Queues == 1 .. MaxQueues
MaxLength == MaxKeys + MaxForeign
Texts == UNION {[1 .. n -> Keys \cup {Foreign}] : n \in 0 .. MaxLength}
Transactions == [before : 0 .. MaxLength, key : Keys]
Payloads == UNION {[1 .. n -> Transactions] : n \in 1 .. MaxKeys}

ASSUME MarkersAssumption ==
  /\ NoText \notin Seq(Nat)
  /\ NoBatch \notin [client : Nat, batchId : Nat, expectedRevision : Nat,
                     payload : Seq([before : Nat, key : Nat])]

KeysOf(payload) == [i \in 1 .. Len(payload) |-> payload[i].key]

\* A list of one-key transactions fits a text if each finds the length the one
\* before it left.
ApplyKeys(text, payload) ==
  IF \A i \in 1 .. Len(payload) : payload[i].before = Len(text) + i - 1
    THEN text \o KeysOf(payload)
    ELSE Rejected

D == INSTANCE EditorDocument
       WITH Clients <- Queues, Applied <- ApplyKeys, LengthOf <- Len

VARIABLES
  desktop,   \* TRUE: events and other writers; FALSE: the browser, where a
             \* call may fail after it was carried out; never changes
  doc,       \* the authoritative document
  texts,     \* texts[r]: the text of revision r
  typed,     \* keystrokes so far
  editor,    \* the text on the screen
  binding,   \* the text the editor is to be mounted with, NoText when it was
  overtyped, \* history: a keystroke came before the editor was mounted
  queues,    \* the window's mutation queues; the last one is current
  recovery,  \* "idle", "draft" or "snapshot": the fatal recovery under way
  requests,  \* calls the backend has not taken yet
  answers,   \* answers the window has not seen yet
  events     \* SessionChanged events the window has not seen yet

screen == <<desktop, typed, overtyped, editor, binding>>

vars == <<desktop, doc, texts, typed, editor, binding, overtyped, queues, recovery,
          requests, answers, events>>

Current == Len(queues)
Known == queues[Current].revision

-----------------------------------------------------------------------------
(* EditorMutationQueue *)

Queue ==
  [revision : D!Revisions,
   optimistic : 0 .. MaxLength,     \* length after all it was given
   nextBatchId : 1 .. MaxKeys + 1,
   pending : Seq(Transactions),     \* not in a batch yet
   batch : D!Batch \cup {NoBatch},  \* in flight, or failed
   failed : BOOLEAN,
   waiting : 0 .. MaxRevision]      \* listeners waiting in flush()

NewQueue(revision, length) ==
  [revision |-> revision, optimistic |-> length, nextBatchId |-> 1,
   pending |-> << >>, batch |-> NoBatch, failed |-> FALSE, waiting |-> 0]

Pumping(queue) == queue.batch # NoBatch /\ ~queue.failed

TakePendingBatch(client, queue) ==
  [client |-> client, batchId |-> queue.nextBatchId,
   expectedRevision |-> queue.revision, payload |-> queue.pending]

ApplyCall(batch) == [call |-> "apply", batch |-> batch]
GetCall == [call |-> "get"]
SnapshotCall == [call |-> "snapshot"]

\* Send whatever is pending unless a batch is out or failed. A pump that has
\* nothing left lets the listeners that wait for it go on to their call.
Pump(client, queue) ==
  IF queue.pending # << >> /\ queue.batch = NoBatch
    THEN LET batch == TakePendingBatch(client, queue)
         IN  /\ queues' = [queues EXCEPT ![client] =
                             [queue EXCEPT !.pending = << >>, !.batch = batch]]
             /\ requests' = Append(requests, ApplyCall(batch))
    ELSE IF Pumping(queue) \/ queue.failed
           THEN /\ queues' = [queues EXCEPT ![client] = queue]
                /\ UNCHANGED requests
           ELSE /\ queues' = [queues EXCEPT ![client] = [queue EXCEPT !.waiting = 0]]
                /\ requests' = requests \o [i \in 1 .. queue.waiting |-> GetCall]

\* #validateAck
Matches(queue, ack) ==
  LET last == Last(queue.batch.payload)
  IN  /\ ack.client = queue.batch.client
      /\ ack.batchId = queue.batch.batchId
      /\ ack.revision = queue.batch.expectedRevision + 1
      /\ ack.length = last.before + 1

-----------------------------------------------------------------------------
(* The window *)

Init ==
  /\ desktop \in BOOLEAN
  /\ doc = D!NewDocument(<< >>, FALSE)
  /\ texts = << << >> >>
  /\ typed = 0
  /\ editor = << >>
  /\ binding = NoText
  /\ overtyped = FALSE
  /\ queues = << NewQueue(1, 0) >>
  /\ recovery = "idle"
  /\ requests = << >>
  /\ answers = {}
  /\ events = {}

\* The editor takes a keystroke and hands the transaction to the current
\* queue, which throws it back if the lengths differ: an error is shown and
\* the keystroke stays in the editor.
Type ==
  /\ typed < MaxKeys
  /\ typed' = typed + 1
  /\ editor' = Append(editor, typed')
  /\ overtyped' = (overtyped \/ binding # NoText)
  /\ LET queue == queues[Current]
         tx == [before |-> Len(editor), key |-> typed']
     IN  IF tx.before = queue.optimistic
           THEN Pump(Current, [queue EXCEPT !.pending = Append(@, tx),
                                            !.optimistic = @ + 1])
           ELSE UNCHANGED <<queues, requests>>
  /\ UNCHANGED <<desktop, doc, texts, binding, recovery, answers, events>>

\* Mutant: the new queue takes over what the old one had not sent yet.
AdoptPending(revision, text) ==
  queues' = Append(queues, [NewQueue(revision, Len(text)) EXCEPT
                              !.pending = queues[Current].pending])

\* Mutant: the new queue sends what was not acknowledged again.
AdoptResending(revision, text) ==
  LET old == queues[Current]
      unsent == IF old.batch = NoBatch THEN << >> ELSE KeysOf(old.batch.payload)
      again == [i \in 1 .. Len(unsent) |->
                  [before |-> Len(text) + i - 1, key |-> unsent[i]]]
  IN  /\ Current < MaxQueues
      /\ queues' = Append(queues, [NewQueue(revision, Len(text) + Len(again)) EXCEPT
                                     !.pending = again])

\* Both ways to take over a session make it known with a queue of its own.
Adopt(revision, text) ==
  /\ Current < MaxQueues
  /\ queues' = Append(queues, NewQueue(revision, Len(text)))

AckArrives ==
  \E a \in answers :
    /\ a.answer = "ack"
    /\ answers' = answers \ {a}
    /\ LET client == a.ack.client
           queue == queues[client]
       IN  /\ Matches(queue, a.ack)
           /\ Pump(client, [queue EXCEPT !.revision = a.ack.revision,
                                         !.nextBatchId = @ + 1,
                                         !.batch = NoBatch])
    /\ UNCHANGED <<screen, doc, texts, recovery, events>>

\* Mutant: a failed batch leaves the listeners waiting.
BatchFailsSilently ==
  \E a \in answers :
    /\ a.answer = "error"
    /\ answers' = answers \ {a}
    /\ queues' = [queues EXCEPT ![a.client].failed = TRUE]
    /\ recovery' = IF a.client = Current /\ recovery = "idle" THEN "draft" ELSE recovery
    /\ UNCHANGED <<screen, doc, texts, requests, events>>

\* A refused or failed call, or an acknowledgement that does not match: the
\* batch stays with the queue, flush() throws, and the failure of the current
\* queue starts the recovery unless one is under way.
BatchFails ==
  \E a \in answers :
    /\ \/ a.answer = "error"
       \/ a.answer = "ack" /\ ~Matches(queues[a.ack.client], a.ack)
    /\ answers' = answers \ {a}
    /\ LET client == IF a.answer = "ack" THEN a.ack.client ELSE a.client
       IN  /\ queues' = [queues EXCEPT ![client].failed = TRUE, ![client].waiting = 0]
           /\ recovery' = IF client = Current /\ recovery = "idle" THEN "draft" ELSE recovery
    /\ UNCHANGED <<screen, doc, texts, requests, events>>

\* fatalRecovery, step by step: the draft is stored or not, the document is
\* asked for, and installed.
DraftStored ==
  /\ recovery = "draft"
  /\ recovery' = "snapshot"
  /\ requests' = Append(requests, SnapshotCall)
  /\ UNCHANGED <<screen, doc, texts, queues, answers, events>>

DraftFails ==
  /\ recovery = "draft"
  /\ recovery' = "idle"
  /\ UNCHANGED <<screen, doc, texts, queues, requests, answers, events>>

\* installAuthoritativeSession: the editor is mounted anew in a later task.
SnapshotArrives ==
  \E a \in answers :
    /\ a.answer = "snapshot"
    /\ answers' = answers \ {a}
    /\ Adopt(a.revision, a.text)
    /\ binding' = a.text
    /\ recovery' = "idle"
    /\ UNCHANGED <<desktop, doc, texts, typed, overtyped, editor, requests, events>>

Remount ==
  /\ binding # NoText
  /\ editor' = binding
  /\ binding' = NoText
  /\ UNCHANGED <<desktop, doc, texts, typed, overtyped, queues, recovery, requests,
                 answers, events>>

\* The listener: an unknown revision makes it flush the queue it finds and
\* then get the session.
SessionChanged ==
  \E revision \in events :
    /\ events' = events \ {revision}
    /\ IF revision <= Known \/ queues[Current].failed
         THEN UNCHANGED <<queues, requests>>
         ELSE Pump(Current, [queues[Current] EXCEPT !.waiting = @ + 1])
    /\ UNCHANGED <<screen, doc, texts, recovery, answers>>

\* Mutant: a session is taken over whatever its revision.
SessionArrivesAnyRevision ==
  \E a \in answers :
    /\ a.answer = "session"
    /\ answers' = answers \ {a}
    /\ Adopt(a.revision, a.text)
    /\ editor' = a.text
    /\ UNCHANGED <<desktop, doc, texts, typed, overtyped, binding, recovery, requests, events>>

\* applyRemoteSession, if the session is newer than what the window knows.
SessionArrives ==
  \E a \in answers :
    /\ a.answer = "session"
    /\ answers' = answers \ {a}
    /\ IF a.revision > Known
         THEN /\ Adopt(a.revision, a.text)
              /\ editor' = a.text
              /\ binding' = IF binding = NoText THEN NoText ELSE a.text
         ELSE UNCHANGED <<queues, editor, binding>>
    /\ UNCHANGED <<desktop, doc, texts, typed, overtyped, recovery, requests, events>>

-----------------------------------------------------------------------------
(* The backend *)

Revised ==
  /\ texts' = Append(texts, doc'.text)
  /\ events' = IF desktop THEN events \cup {doc'.revision} ELSE events

TakeCall(call) ==
  /\ requests # << >>
  /\ Head(requests).call = call
  /\ requests' = Tail(requests)
  /\ UNCHANGED <<screen, queues, recovery>>

\* apply_editor_mutation_batch. In the browser the call may throw after the
\* document took the batch, when the preview worker cannot be started again.
ExecuteBatch ==
  /\ TakeCall("apply")
  /\ LET batch == Head(requests).batch
         failure == [answer |-> "error", client |-> batch.client]
         success == [answer |-> "ack", ack |-> D!NewAck(doc, batch)]
     IN  IF D!Accepts(doc, batch)
           THEN /\ doc' = D!AfterBatch(doc, batch)
                /\ Revised
                /\ \/ answers' = answers \cup {success}
                   \/ ~desktop /\ answers' = answers \cup {failure}
           ELSE /\ answers' = answers \cup {failure}
                /\ UNCHANGED <<doc, texts, events>>

Snapshot(name) == [answer |-> name, revision |-> doc.revision, text |-> doc.text]

ExecuteGet ==
  /\ TakeCall("get")
  /\ answers' = answers \cup {Snapshot("session")}
  /\ UNCHANGED <<doc, texts, events>>

ExecuteSnapshot ==
  /\ TakeCall("snapshot")
  /\ answers' = answers \cup {Snapshot("snapshot")}
  /\ UNCHANGED <<doc, texts, events>>

\* An accepted proposal rewrites the document or adds to it.
ForeignWrites == Cardinality({r \in 2 .. Len(texts) :
  texts[r] = <<Foreign>> \/ texts[r] = Append(texts[r - 1], Foreign)})

ForeignWrite ==
  /\ desktop
  /\ ForeignWrites < MaxForeign
  /\ \E text \in {<<Foreign>>, Append(doc.text, Foreign)} :
       doc' = D!ReplaceCanonicalText(doc, text, TRUE)
  /\ Revised
  /\ UNCHANGED <<screen, queues, recovery, requests, answers>>

Window ==
  \/ Type
  \/ AckArrives
  \/ BatchFails
  \/ DraftStored
  \/ DraftFails
  \/ SnapshotArrives
  \/ Remount
  \/ SessionChanged
  \/ SessionArrives

Backend ==
  \/ ExecuteBatch
  \/ ExecuteGet
  \/ ExecuteSnapshot
  \/ ForeignWrite

Next == Window \/ Backend

Spec == Init /\ [][Next]_vars

\* The backend takes every call, the window sees every answer and event, and
\* React mounts what was installed; nobody has to type.
Fairness ==
  /\ WF_vars(ExecuteBatch \/ ExecuteGet \/ ExecuteSnapshot)
  /\ WF_vars(AckArrives)
  /\ WF_vars(BatchFails)
  /\ WF_vars(DraftStored \/ DraftFails)
  /\ WF_vars(SnapshotArrives)
  /\ WF_vars(SessionChanged)
  /\ WF_vars(SessionArrives)
  /\ WF_vars(Remount)

FairSpec == Spec /\ Fairness

-----------------------------------------------------------------------------
Answer ==
  [answer : {"ack"}, ack : D!Ack] \cup [answer : {"error"}, client : Queues]
  \cup [answer : {"session", "snapshot"}, revision : D!Revisions, text : Texts]

TypeOK ==
  /\ doc \in D!Document
  /\ texts \in Seq(Texts) /\ Len(texts) = doc.revision
  /\ editor \in Texts
  /\ binding \in Texts \cup {NoText}
  /\ queues \in Seq(Queue)
  /\ \A i \in 1 .. Current : queues[i].failed => queues[i].batch # NoBatch
  /\ recovery \in {"idle", "draft", "snapshot"}
  /\ answers \subseteq Answer
  /\ events \subseteq D!Revisions

Unsent(queue) ==
  (IF queue.batch = NoBatch THEN << >> ELSE KeysOf(queue.batch.payload))
    \o KeysOf(queue.pending)

\* What the user sees is the text of the revision the window knows, plus the
\* keystrokes its current queue still has to deliver, in order; the length the
\* queue expects is the length of the editor, so enqueue never throws. A
\* keystroke between the installation of a document and the editor's new state
\* ends this: it is thrown back, or delivered and then wiped off the screen.
ScreenIsKnownTextPlusUnsent ==
  binding = NoText /\ ~overtyped =>
    /\ editor = texts[Known] \o Unsent(queues[Current])
    /\ queues[Current].optimistic = Len(editor)

\* The document never acknowledges what the queue cannot recognise: the ACK
\* check of the queue fires on no interleaving (#validateAck).
AcksMatch ==
  \A a \in answers : a.answer = "ack" => Matches(queues[a.ack.client], a.ack)

\* The document gets every keystroke at most once and in order (see there).
Delivery ==
  INSTANCE KeystrokeDelivery
    WITH text <- doc.text,
         delivered <- Max({0} \cup UNION {Range(texts[r]) : r \in 1 .. Len(texts)})

DeliversOnceInOrder == Delivery!Spec

AtRest ==
  /\ requests = << >>
  /\ answers = {}
  /\ events = {}
  /\ recovery = "idle"
  /\ binding = NoText

\* As long as no batch was refused, editor and document come to show the same
\* text once everything under way has arrived.
ConvergesUnlessRefused ==
  AtRest /\ (\A i \in 1 .. Current : ~queues[i].failed) => editor = doc.text

\* A flush() that someone waits for returns or throws: open, save, print and
\* close hang on it.
Flushing == \E i \in 1 .. Current : queues[i].waiting > 0

FlushReturns == Flushing ~> ~Flushing

=============================================================================
