---------------------------- MODULE EditorSync_proofs ----------------------------
(***************************************************************************)
(* The window and its document, for any number of keystrokes, queues,      *)
(* revisions and other writers. The invariant has five layers:             *)
(*                                                                         *)
(*   Types   what every variable holds; a session on its way is the text   *)
(*           of the revision it names, because texts are never changed.    *)
(*   Flight  a batch in flight is either a call or a verdict, once, and    *)
(*           the verdict fits the batch its queue remembers.               *)
(*   Order   the unsent keystrokes of every queue, old ones included, are  *)
(*           increasing and later than all in the texts the queue is based *)
(*           on. A batch is only accepted at the latest revision, so what  *)
(*           it brings is later than everything in the document.           *)
(*   Screen  the text shown is the known text with the unsent keystrokes.  *)
(*   Calm    until a batch fails, a revision the window does not know has  *)
(*           an event, a flush or a session on its way, or (in the         *)
(*           browser) is the window's own.                                 *)
(*                                                                         *)
(* Flight and Order need Types; Screen and Calm need Flight.               *)
(***************************************************************************)
EXTENDS EditorSync, SequenceTheorems, TLAPS

Tx == [before : Nat, key : Nat]

SentBatch ==
  [client : Nat, batchId : Nat, expectedRevision : Nat, payload : Seq(Tx)]

AnyQueue ==
  [revision : Nat, optimistic : Nat, nextBatchId : Nat, pending : Seq(Tx),
   batch : SentBatch \cup {NoBatch}, failed : BOOLEAN, waiting : Nat]

Call == [call : {"apply"}, batch : SentBatch] \cup [call : {"get", "snapshot"}]

Fields == {"text", "saved", "revision", "dirty", "ledger"}

IsDocument(d) ==
  /\ DOMAIN d = Fields
  /\ d.text \in Seq(Nat)
  /\ d.revision \in Nat \ {0}

\* A session or a snapshot is the text of a revision.
IsAnswer(a) ==
  \/ a.answer = "ack" /\ a.ack.client \in 1 .. Current /\ a.ack.revision \in Nat
  \/ a.answer = "error" /\ a.client \in 1 .. Current
  \/ /\ a.answer \in {"session", "snapshot"}
     /\ a.revision \in 1 .. Len(texts)
     /\ a.text = texts[a.revision]

DocumentTypes ==
  /\ IsDocument(doc)
  /\ texts \in Seq(Seq(Nat))
  /\ Len(texts) = doc.revision
  /\ texts[Len(texts)] = doc.text

ScreenTypes ==
  /\ typed \in Nat
  /\ editor \in Seq(Nat)
  /\ binding \in Seq(Nat) \cup {NoText}

QueueTypes ==
  /\ queues \in Seq(AnyQueue)
  /\ Current \in Nat \ {0}
  /\ requests \in Seq(Call)

Types ==
  /\ DocumentTypes
  /\ ScreenTypes
  /\ QueueTypes
  /\ \A i \in 1 .. Len(requests) :
       requests[i].call = "apply" => requests[i].batch.client \in 1 .. Current
  /\ \A a \in answers : IsAnswer(a)

-----------------------------------------------------------------------------
(* The operators *)

LEMMA KeysAreNaturals ==
  ASSUME NEW payload \in Seq(Tx)
  PROVE  /\ KeysOf(payload) \in Seq(Nat)
         /\ Len(KeysOf(payload)) = Len(payload)
         /\ \A i \in 1 .. Len(payload) : KeysOf(payload)[i] = payload[i].key
<1>1. \A i \in 1 .. Len(payload) : payload[i].key \in Nat
  <2>1. \A i \in 1 .. Len(payload) : payload[i] \in Tx
    OBVIOUS
  <2> QED
    BY <2>1 DEF Tx
<1>2. Len(payload) \in Nat
  OBVIOUS
<1> QED
  BY <1>1, <1>2 DEF KeysOf

LEMMA Concatenated ==
  ASSUME NEW s \in Seq(Nat), NEW t \in Seq(Nat)
  PROVE  /\ s \o t \in Seq(Nat)
         /\ Len(s \o t) = Len(s) + Len(t)
         /\ \A i \in 1 .. Len(s) : (s \o t)[i] = s[i]
         /\ \A i \in 1 .. Len(t) : (s \o t)[Len(s) + i] = t[i]
         /\ \A i \in 1 .. Len(s) + Len(t) :
              \/ i \in 1 .. Len(s)
              \/ i - Len(s) \in 1 .. Len(t) /\ (s \o t)[i] = t[i - Len(s)]
OBVIOUS

LEMMA Joined ==
  ASSUME NEW s \in Seq(Nat), NEW t \in Seq(Nat), NEW u \in Seq(Nat),
         Len(u) = Len(s) + Len(t),
         \A i \in 1 .. Len(s) : u[i] = s[i],
         \A i \in 1 .. Len(t) : u[Len(s) + i] = t[i]
  PROVE  u = s \o t
<1>1. \A i \in 1 .. Len(u) : u[i] = IF i <= Len(s) THEN s[i] ELSE t[i - Len(s)]
  <2> SUFFICES ASSUME NEW i \in 1 .. Len(u)
               PROVE  u[i] = IF i <= Len(s) THEN s[i] ELSE t[i - Len(s)]
    OBVIOUS
  <2>1. CASE i <= Len(s)
    BY <2>1
  <2>2. CASE ~(i <= Len(s))
    <3>1. i - Len(s) \in 1 .. Len(t) /\ Len(s) + (i - Len(s)) = i
      BY <2>2
    <3> QED
      BY <2>2, <3>1
  <2> QED
    BY <2>1, <2>2
<1> DEFINE v == s \o t
<1>2. /\ v \in Seq(Nat) /\ Len(v) = Len(s) + Len(t)
      /\ \A i \in 1 .. Len(s) + Len(t) : v[i] = IF i <= Len(s) THEN s[i] ELSE t[i - Len(s)]
  BY ConcatProperties, Zenon
<1> HIDE DEF v
<1>3. Len(u) = Len(v) /\ \A i \in 1 .. Len(u) : u[i] = v[i]
  BY <1>1, <1>2
<1>4. u = v
  BY <1>2, <1>3, SeqEqual, Zenon
<1> QED
  BY <1>4 DEF v

LEMMA KeysOfJoined ==
  ASSUME NEW s \in Seq(Tx), NEW t \in Seq(Tx)
  PROVE  KeysOf(s \o t) = KeysOf(s) \o KeysOf(t)
<1> DEFINE joined == s \o t
<1>1. /\ joined \in Seq(Tx)
      /\ Len(joined) = Len(s) + Len(t)
      /\ \A i \in 1 .. Len(s) : joined[i] = s[i]
      /\ \A i \in 1 .. Len(t) : joined[Len(s) + i] = t[i]
  OBVIOUS
<1> HIDE DEF joined
<1>2. /\ KeysOf(joined) \in Seq(Nat) /\ Len(KeysOf(joined)) = Len(joined)
      /\ \A i \in 1 .. Len(joined) : KeysOf(joined)[i] = joined[i].key
  BY <1>1, KeysAreNaturals
<1>3. /\ KeysOf(s) \in Seq(Nat) /\ Len(KeysOf(s)) = Len(s) /\ Len(s) \in Nat
      /\ \A i \in 1 .. Len(s) : KeysOf(s)[i] = s[i].key
  BY KeysAreNaturals
<1>4. /\ KeysOf(t) \in Seq(Nat) /\ Len(KeysOf(t)) = Len(t) /\ Len(t) \in Nat
      /\ \A i \in 1 .. Len(t) : KeysOf(t)[i] = t[i].key
  BY KeysAreNaturals
<1>5. \A i \in 1 .. Len(s) : KeysOf(joined)[i] = KeysOf(s)[i]
  <2>1. \A i \in 1 .. Len(s) : i \in 1 .. Len(joined)
    BY <1>1, <1>3, <1>4
  <2> QED
    BY <1>1, <1>2, <1>3, <2>1
<1>6. \A i \in 1 .. Len(t) : KeysOf(joined)[Len(s) + i] = KeysOf(t)[i]
  <2>1. \A i \in 1 .. Len(t) : Len(s) + i \in 1 .. Len(joined)
    BY <1>1, <1>3, <1>4
  <2> QED
    BY <1>1, <1>2, <1>4, <2>1
<1> DEFINE sKeys == KeysOf(s)
           tKeys == KeysOf(t)
           keys == KeysOf(joined)
<1>7. /\ sKeys \in Seq(Nat) /\ tKeys \in Seq(Nat) /\ keys \in Seq(Nat)
      /\ Len(keys) = Len(sKeys) + Len(tKeys)
      /\ \A i \in 1 .. Len(sKeys) : keys[i] = sKeys[i]
      /\ \A i \in 1 .. Len(tKeys) : keys[Len(sKeys) + i] = tKeys[i]
  BY <1>1, <1>2, <1>3, <1>4, <1>5, <1>6
<1> HIDE DEF sKeys, tKeys, keys
<1>8. keys = sKeys \o tKeys
  BY <1>7, Joined
<1> QED
  BY <1>8 DEF joined, sKeys, tKeys, keys

LEMMA NewQueueIsQueue ==
  ASSUME NEW revision \in Nat, NEW length \in Nat
  PROVE  NewQueue(revision, length) \in AnyQueue
BY DEF NewQueue, AnyQueue

\* What Pump does to the queue, to the calls and to nothing else.
Sends(c, queue) ==
  /\ queue.pending # << >>
  /\ queue.batch = NoBatch
  /\ queues'[c] = [queue EXCEPT !.pending = << >>, !.batch = TakePendingBatch(c, queue)]
  /\ requests' = Append(requests, ApplyCall(TakePendingBatch(c, queue)))

Holds(c, queue) ==
  /\ queue.batch # NoBatch \/ queue.failed
  /\ queues'[c] = queue
  /\ requests' = requests

Releases(c, queue) ==
  /\ queue.pending = << >>
  /\ queue.batch = NoBatch
  /\ ~queue.failed
  /\ queues'[c] = [queue EXCEPT !.waiting = 0]
  /\ Len(requests') = Len(requests) + queue.waiting
  /\ \A i \in 1 .. Len(requests) : requests'[i] = requests[i]
  /\ \A i \in Len(requests) + 1 .. Len(requests') : requests'[i] = GetCall

\* The calls there were stay where they are; what comes after them is known.
CallsAdded(c, queue) ==
  /\ \A i \in 1 .. Len(requests) : i \in 1 .. Len(requests') /\ requests'[i] = requests[i]
  /\ \A i \in 1 .. Len(requests') :
       \/ i \in 1 .. Len(requests)
       \/ requests'[i].call = "get"
       \/ /\ Sends(c, queue)
          /\ requests'[i] = ApplyCall(TakePendingBatch(c, queue))

LEMMA PumpEffect ==
  ASSUME QueueTypes, NEW c \in 1 .. Current, NEW queue \in AnyQueue, Pump(c, queue)
  PROVE  /\ QueueTypes' /\ Len(queues') = Len(queues)
         /\ \A i \in 1 .. Len(queues) : i # c => queues'[i] = queues[i]
         /\ Sends(c, queue) \/ Holds(c, queue) \/ Releases(c, queue)
         /\ CallsAdded(c, queue)
<1> DEFINE batch == TakePendingBatch(c, queue)
           gets == [i \in 1 .. queue.waiting |-> GetCall]
<1> USE DEF QueueTypes
<1>1. batch \in SentBatch
  BY DEF TakePendingBatch, SentBatch, AnyQueue, Current
<1>2. ApplyCall(batch) \in Call /\ GetCall \in Call
  BY <1>1 DEF ApplyCall, GetCall, Call
<1>3. CASE queue.pending # << >> /\ queue.batch = NoBatch
  <2> DEFINE next == [queue EXCEPT !.pending = << >>, !.batch = batch]
  <2>1. next \in AnyQueue
    <3>1. << >> \in Seq(Tx) /\ batch \in SentBatch \cup {NoBatch}
      BY <1>1
    <3> HIDE DEF batch
    <3> QED
      BY <3>1 DEF AnyQueue
  <2>2. queues' = [queues EXCEPT ![c] = next] /\ requests' = Append(requests, ApplyCall(batch))
    BY <1>3 DEF Pump
  <2> QED
    <3>1. QueueTypes' /\ Len(queues') = Len(queues)
          /\ \A i \in 1 .. Len(queues) : i # c => queues'[i] = queues[i]
      BY <1>2, <2>1, <2>2 DEF Current
    <3>2. Sends(c, queue)
      BY <1>3, <2>2 DEF Current, Sends
    <3>3. /\ \A i \in 1 .. Len(requests) :
               i \in 1 .. Len(requests') /\ requests'[i] = requests[i]
          /\ \A i \in 1 .. Len(requests') :
               i \in 1 .. Len(requests) \/ requests'[i] = ApplyCall(batch)
      BY <1>2, <2>2
    <3> QED
      BY <3>1, <3>2, <3>3 DEF CallsAdded
<1>4. CASE ~(queue.pending # << >> /\ queue.batch = NoBatch) /\ (Pumping(queue) \/ queue.failed)
  <2>1. queues' = [queues EXCEPT ![c] = queue] /\ requests' = requests
    BY <1>4 DEF Pump
  <2> QED
    BY <1>4, <2>1 DEF Current, Holds, Pumping, CallsAdded
<1>5. CASE ~(queue.pending # << >> /\ queue.batch = NoBatch) /\ ~(Pumping(queue) \/ queue.failed)
  <2> DEFINE next == [queue EXCEPT !.waiting = 0]
  <2>1. next \in AnyQueue
    BY DEF AnyQueue
  <2>2. queues' = [queues EXCEPT ![c] = next] /\ requests' = requests \o gets
    BY <1>5 DEF Pump
  <2>3. queue.waiting \in Nat
    BY DEF AnyQueue
  <2>4. gets \in Seq(Call) /\ Len(gets) = queue.waiting
    BY <1>2, <2>3, SMTT(30)
  <2>5. \A i \in 1 .. Len(gets) : gets[i] = GetCall
    BY <2>4
  <2> HIDE DEF gets
  <2>6. /\ requests' \in Seq(Call)
        /\ Len(requests') = Len(requests) + queue.waiting
        /\ \A i \in 1 .. Len(requests) : requests'[i] = requests[i]
        /\ \A i \in Len(requests) + 1 .. Len(requests') : requests'[i] = GetCall
    <3>1. requests \in Seq(Call)
      OBVIOUS
    <3>2. requests' \in Seq(Call) /\ Len(requests') = Len(requests) + queue.waiting
      BY <2>2, <2>3, <2>4, <3>1
    <3>3. \A i \in 1 .. Len(requests) : requests'[i] = requests[i]
      BY <2>2, <2>3, <2>4, <3>1
    <3>4. \A i \in Len(requests) + 1 .. Len(requests') :
            /\ i - Len(requests) \in 1 .. Len(gets)
            /\ requests'[i] = gets[i - Len(requests)]
      BY <2>2, <2>3, <2>4, <3>1, <3>2
    <3> QED
      BY <2>5, <3>2, <3>3, <3>4
  <2>7. QueueTypes' /\ Len(queues') = Len(queues)
        /\ \A i \in 1 .. Len(queues) : i # c => queues'[i] = queues[i]
    BY <2>1, <2>2, <2>6 DEF Current
  <2>8. Releases(c, queue)
    BY <1>5, <2>2, <2>6 DEF Current, Releases, Pumping
  <2>9. CallsAdded(c, queue)
    <3>1. Len(requests) \in Nat
      OBVIOUS
    <3> QED
      BY <2>3, <2>6, <3>1, SMTT(30) DEF CallsAdded, GetCall
  <2> QED
    BY <2>7, <2>8, <2>9
<1> QED
  BY <1>3, <1>4, <1>5

-----------------------------------------------------------------------------
(* Type correctness *)

\* Revisions are only ever added.
TextsKept ==
  /\ Len(texts) <= Len(texts')
  /\ \A r \in 1 .. Len(texts) : texts'[r] = texts[r]

\* What an accepted batch does to the text.
LEMMA BatchAppends ==
  ASSUME DocumentTypes, NEW batch \in SentBatch, D!Accepts(doc, batch)
  PROVE  /\ batch.expectedRevision = Len(texts)
         /\ IsDocument(D!AfterBatch(doc, batch))
         /\ D!AfterBatch(doc, batch).revision = doc.revision + 1
         /\ D!AfterBatch(doc, batch).text = doc.text \o KeysOf(batch.payload)
         /\ \A i \in 1 .. Len(batch.payload) :
              batch.payload[i].before = Len(doc.text) + i - 1
         /\ D!NewAck(doc, batch).client = batch.client
         /\ D!NewAck(doc, batch).batchId = batch.batchId
         /\ D!NewAck(doc, batch).revision = doc.revision + 1
         /\ D!NewAck(doc, batch).length = Len(doc.text) + Len(batch.payload)
<1> DEFINE text == doc.text \o KeysOf(batch.payload)
<1>1. batch.payload \in Seq(Tx)
  BY DEF SentBatch
<1>2. KeysOf(batch.payload) \in Seq(Nat) /\ Len(KeysOf(batch.payload)) = Len(batch.payload)
  BY <1>1, KeysAreNaturals
<1>3. ApplyKeys(doc.text, batch.payload) # Rejected /\ batch.expectedRevision = doc.revision
  BY DEF D!Accepts
<1>4. /\ ApplyKeys(doc.text, batch.payload) = text
      /\ \A i \in 1 .. Len(batch.payload) : batch.payload[i].before = Len(doc.text) + i - 1
  BY <1>3 DEF ApplyKeys
<1>5. doc.text \in Seq(Nat) /\ doc.revision \in Nat \ {0} /\ DOMAIN doc = Fields
  BY DEF DocumentTypes, IsDocument
<1>6. text \in Seq(Nat) /\ Len(text) = Len(doc.text) + Len(batch.payload)
  <2> DEFINE keys == KeysOf(batch.payload)
             before == doc.text
  <2>1. keys \in Seq(Nat) /\ Len(keys) = Len(batch.payload) /\ before \in Seq(Nat)
    BY <1>2, <1>5
  <2> HIDE DEF keys, before
  <2>2. before \o keys \in Seq(Nat) /\ Len(before \o keys) = Len(before) + Len(keys)
    BY <2>1, Concatenated, Zenon
  <2> QED
    BY <2>1, <2>2 DEF before, keys
<1>7. /\ D!NewAck(doc, batch).client = batch.client
      /\ D!NewAck(doc, batch).batchId = batch.batchId
      /\ D!NewAck(doc, batch).revision = doc.revision + 1
      /\ D!NewAck(doc, batch).length = Len(ApplyKeys(doc.text, batch.payload))
  BY DEF D!NewAck
<1>8. /\ DOMAIN D!AfterBatch(doc, batch) = Fields
      /\ D!AfterBatch(doc, batch).text = ApplyKeys(doc.text, batch.payload)
      /\ D!AfterBatch(doc, batch).revision = doc.revision + 1
  BY <1>5, <1>7 DEF D!AfterBatch, Fields
<1> HIDE DEF text
<1>9. IsDocument(D!AfterBatch(doc, batch))
  BY <1>4, <1>5, <1>6, <1>8 DEF IsDocument
<1> QED
  BY <1>3, <1>4, <1>6, <1>7, <1>8, <1>9 DEF DocumentTypes, text

LEMMA ReplaceAdvances ==
  ASSUME DocumentTypes, NEW text \in Seq(Nat)
  PROVE  /\ IsDocument(D!ReplaceCanonicalText(doc, text, TRUE))
         /\ D!ReplaceCanonicalText(doc, text, TRUE).revision = doc.revision + 1
         /\ D!ReplaceCanonicalText(doc, text, TRUE).text = text
BY DEF DocumentTypes, IsDocument, D!ReplaceCanonicalText, Fields

LEMMA RevisedAppends ==
  ASSUME DocumentTypes, Revised, IsDocument(doc'), doc'.revision = doc.revision + 1
  PROVE  /\ DocumentTypes' /\ TextsKept
         /\ Len(texts') = Len(texts) + 1
         /\ texts'[Len(texts) + 1] = doc'.text
<1>1. texts' = Append(texts, doc'.text) /\ doc'.text \in Seq(Nat)
  BY DEF Revised, IsDocument
<1>2. texts \in Seq(Seq(Nat)) /\ Len(texts) = doc.revision
  BY DEF DocumentTypes
<1> QED
  BY <1>1, <1>2 DEF DocumentTypes, TextsKept

LEMMA DocumentStep ==
  ASSUME Types, Next
  PROVE  DocumentTypes' /\ TextsKept
<1>1. ASSUME UNCHANGED <<doc, texts>> PROVE DocumentTypes' /\ TextsKept
  <2>1. Len(texts) \in Nat
    BY DEF Types, DocumentTypes
  <2> QED
    BY <1>1, <2>1 DEF Types, DocumentTypes, TextsKept, IsDocument
<1>2. CASE Window
  BY <1>1, <1>2 DEF Window, Type, AckArrives, BatchFails, DraftStored, DraftFails,
       SnapshotArrives, Remount, SessionChanged, SessionArrives
<1>3. CASE ExecuteBatch
  <2> DEFINE batch == Head(requests).batch
  <2>1. requests # << >> /\ Head(requests).call = "apply" /\ requests \in Seq(Call)
    BY <1>3 DEF ExecuteBatch, TakeCall, Types, QueueTypes
  <2>2. Head(requests) \in Call
    BY <2>1
  <2>3. batch \in SentBatch
    BY <2>1, <2>2 DEF Call
  <2>4. CASE D!Accepts(doc, batch)
    <3>1. doc' = D!AfterBatch(doc, batch) /\ Revised
      BY <1>3, <2>4 DEF ExecuteBatch
    <3> QED
      BY <2>3, <2>4, <3>1, BatchAppends, RevisedAppends DEF Types
  <2>5. CASE ~D!Accepts(doc, batch)
    BY <1>1, <1>3, <2>5 DEF ExecuteBatch
  <2> QED
    BY <2>4, <2>5
<1>4. CASE ExecuteGet \/ ExecuteSnapshot
  BY <1>1, <1>4 DEF ExecuteGet, ExecuteSnapshot
<1>5. CASE ForeignWrite
  <2>1. PICK text \in {<<Foreign>>, Append(doc.text, Foreign)} :
          doc' = D!ReplaceCanonicalText(doc, text, TRUE)
    BY <1>5 DEF ForeignWrite
  <2>2. doc.text \in Seq(Nat) /\ Revised
    BY <1>5 DEF ForeignWrite, Types, DocumentTypes, IsDocument
  <2>3. text \in Seq(Nat)
    <3>1. <<Foreign>> \in Seq(Nat)
      BY DEF Foreign
    <3>2. Append(doc.text, Foreign) \in Seq(Nat)
      BY <2>2 DEF Foreign
    <3> QED
      BY <2>1, <3>1, <3>2
  <2> QED
    BY <2>1, <2>2, <2>3, ReplaceAdvances, RevisedAppends DEF Types
<1> QED
  BY <1>2, <1>3, <1>4, <1>5 DEF Next, Backend

\* The queues that the window hands to Pump.
Enqueued ==
  [queues[Current] EXCEPT !.pending = Append(@, [before |-> Len(editor), key |-> typed']),
                          !.optimistic = @ + 1]

Acknowledged(a) ==
  [queues[a.ack.client] EXCEPT !.revision = a.ack.revision,
                               !.nextBatchId = @ + 1,
                               !.batch = NoBatch]

Awaited == [queues[Current] EXCEPT !.waiting = @ + 1]

LEMMA TypeEffect ==
  ASSUME Types, Type
  PROVE  /\ typed' = typed + 1
         /\ typed' \in Nat /\ editor' \in Seq(Nat)
         /\ Enqueued \in AnyQueue
         /\ \/ Len(editor) = queues[Current].optimistic /\ Pump(Current, Enqueued)
            \/ Len(editor) # queues[Current].optimistic /\ UNCHANGED <<queues, requests>>
<1>1. typed' = typed + 1 /\ editor' = Append(editor, typed')
  BY DEF Type
<1>2. typed \in Nat /\ editor \in Seq(Nat)
  BY DEF Types, ScreenTypes
<1>3. queues[Current] \in AnyQueue
  BY DEF Types, QueueTypes, Current
<1> DEFINE tx == [before |-> Len(editor), key |-> typed']
<1>4. tx \in Tx
  BY <1>1, <1>2 DEF Tx
<1>5. Enqueued \in AnyQueue
  <2> HIDE DEF tx
  <2>1. Append(queues[Current].pending, tx) \in Seq(Tx) /\ queues[Current].optimistic + 1 \in Nat
    BY <1>3, <1>4 DEF AnyQueue
  <2> DEFINE more == Append(queues[Current].pending, tx)
             length == queues[Current].optimistic + 1
  <2> HIDE DEF more, length
  <2>2. [queues[Current] EXCEPT !.pending = more, !.optimistic = length] \in AnyQueue
    BY <1>3, <2>1 DEF AnyQueue, more, length
  <2> QED
    BY <2>2 DEF Enqueued, more, length, tx
<1>6. \/ Len(editor) = queues[Current].optimistic /\ Pump(Current, Enqueued)
      \/ Len(editor) # queues[Current].optimistic /\ UNCHANGED <<queues, requests>>
  BY DEF Type, Enqueued
<1> QED
  BY <1>1, <1>2, <1>5, <1>6

LEMMA AckEffect ==
  ASSUME Types, NEW a \in answers, a.answer = "ack"
  PROVE  /\ a.ack.client \in 1 .. Current
         /\ Acknowledged(a) \in AnyQueue
<1>1. a.ack.client \in 1 .. Current /\ a.ack.revision \in Nat
  BY DEF Types, IsAnswer
<1>2. queues[a.ack.client] \in AnyQueue
  BY <1>1 DEF Types, QueueTypes, Current
<1> DEFINE queue == queues[a.ack.client]
           id == queue.nextBatchId + 1
           revision == a.ack.revision
<1>3. queue \in AnyQueue /\ id \in Nat /\ revision \in Nat
  BY <1>1, <1>2 DEF AnyQueue
<1>4. Acknowledged(a) = [queue EXCEPT !.revision = revision, !.nextBatchId = id,
                                     !.batch = NoBatch]
  BY DEF Acknowledged
<1> HIDE DEF queue, id, revision
<1>5. [queue EXCEPT !.revision = revision, !.nextBatchId = id, !.batch = NoBatch] \in AnyQueue
  BY <1>3 DEF AnyQueue
<1> QED
  BY <1>1, <1>4, <1>5

LEMMA AwaitedIsQueue ==
  ASSUME Types
  PROVE  Awaited \in AnyQueue /\ Current \in 1 .. Current
<1>1. queues[Current] \in AnyQueue /\ Current \in 1 .. Current
  BY DEF Types, QueueTypes, Current
<1> QED
  BY <1>1 DEF Awaited, AnyQueue

LEMMA AnswersStay ==
  ASSUME TextsKept, Len(texts) \in Nat, Len(texts') \in Nat,
         Current \in Nat, Current' \in Nat, Current <= Current',
         NEW a, IsAnswer(a)
  PROVE  IsAnswer(a)'
<1>1. CASE a.answer = "ack" /\ a.ack.client \in 1 .. Current /\ a.ack.revision \in Nat
  BY <1>1 DEF IsAnswer
<1>2. CASE a.answer = "error" /\ a.client \in 1 .. Current
  BY <1>2 DEF IsAnswer
<1>3. CASE /\ a.answer \in {"session", "snapshot"}
           /\ a.revision \in 1 .. Len(texts)
           /\ a.text = texts[a.revision]
  BY <1>3 DEF IsAnswer, TextsKept
<1> QED
  BY <1>1, <1>2, <1>3 DEF IsAnswer

LEMMA AdoptEffect ==
  ASSUME Types, NEW a, IsAnswer(a), a.answer \in {"session", "snapshot"},
         Adopt(a.revision, a.text)
  PROVE  /\ a.revision \in 1 .. Len(texts) /\ a.text = texts[a.revision]
         /\ a.text \in Seq(Nat)
         /\ queues' \in Seq(AnyQueue)
         /\ Current \in Nat \ {0}
         /\ Current' = Current + 1
         /\ \A i \in 1 .. Current : queues'[i] = queues[i]
         /\ queues'[Current + 1] = NewQueue(a.revision, Len(a.text))
<1>1. a.revision \in 1 .. Len(texts) /\ a.text = texts[a.revision]
  BY DEF IsAnswer
<1>2. texts \in Seq(Seq(Nat)) /\ Len(texts) \in Nat
  BY DEF Types, DocumentTypes
<1>3. a.text \in Seq(Nat)
  BY <1>1, <1>2
<1>4. NewQueue(a.revision, Len(a.text)) \in AnyQueue
  <2>1. Len(a.text) \in Nat /\ a.revision \in Nat
    BY <1>1, <1>2, <1>3
  <2> QED
    BY <2>1, NewQueueIsQueue
<1>5. queues' = Append(queues, NewQueue(a.revision, Len(a.text)))
  BY DEF Adopt
<1>6. queues \in Seq(AnyQueue) /\ Len(queues) \in Nat \ {0}
  BY DEF Types, QueueTypes, Current
<1> DEFINE queue == NewQueue(a.revision, Len(a.text))
<1> HIDE DEF queue
<1>7. /\ queues' \in Seq(AnyQueue)
      /\ Len(queues') = Len(queues) + 1
      /\ \A i \in 1 .. Len(queues) : queues'[i] = queues[i]
      /\ queues'[Len(queues) + 1] = NewQueue(a.revision, Len(a.text))
  BY <1>4, <1>5, <1>6
<1> QED
  BY <1>1, <1>3, <1>6, <1>7 DEF Current

\* What is left of the screen and of the queues' types after a step.
LEMMA ScreenStep ==
  ASSUME Types, Next
  PROVE  ScreenTypes'
<1> USE DEF Types, ScreenTypes
<1>1. CASE Type
  <2>1. typed' \in Nat /\ editor' \in Seq(Nat)
    BY <1>1, TypeEffect
  <2>2. UNCHANGED binding
    BY <1>1 DEF Type
  <2> QED
    BY <2>1, <2>2
<1>2. CASE SnapshotArrives
  <2>1. PICK a \in answers : /\ a.answer = "snapshot"
                             /\ Adopt(a.revision, a.text)
                             /\ binding' = a.text
                             /\ UNCHANGED <<typed, editor>>
    BY <1>2 DEF SnapshotArrives
  <2>2. a.text \in Seq(Nat)
    BY <2>1, AdoptEffect
  <2> QED
    BY <2>1, <2>2
<1>3. CASE SessionArrives
  <2>1. PICK a \in answers :
          /\ a.answer = "session"
          /\ IF a.revision > Known
               THEN /\ Adopt(a.revision, a.text)
                    /\ editor' = a.text
                    /\ binding' = IF binding = NoText THEN NoText ELSE a.text
               ELSE UNCHANGED <<queues, editor, binding>>
    BY <1>3 DEF SessionArrives
  <2>2. UNCHANGED typed
    BY <1>3 DEF SessionArrives
  <2>3. CASE a.revision > Known
    <3>1. a.text \in Seq(Nat)
      BY <2>1, <2>3, AdoptEffect
    <3> QED
      BY <2>1, <2>2, <2>3, <3>1
  <2>4. CASE ~(a.revision > Known)
    BY <2>1, <2>2, <2>4
  <2> QED
    BY <2>3, <2>4
<1>4. CASE Remount
  BY <1>4 DEF Remount
<1>5. CASE Backend \/ AckArrives \/ BatchFails \/ DraftStored \/ DraftFails \/ SessionChanged
  BY <1>5 DEF Backend, ExecuteBatch, ExecuteGet, ExecuteSnapshot, TakeCall, ForeignWrite,
       AckArrives, BatchFails, DraftStored, DraftFails, SessionChanged, screen
<1> QED
  BY <1>1, <1>2, <1>3, <1>4, <1>5 DEF Next, Window

\* The queue a trace of a batch belongs to.
ClientOf(a) == IF a.answer = "ack" THEN a.ack.client ELSE a.client

Fails(a) ==
  /\ a \in answers
  /\ \/ a.answer = "error"
     \/ a.answer = "ack" /\ ~Matches(queues[a.ack.client], a.ack)
  /\ answers' = answers \ {a}
  /\ queues' = [queues EXCEPT ![ClientOf(a)].failed = TRUE, ![ClientOf(a)].waiting = 0]
  /\ recovery' = IF ClientOf(a) = Current /\ recovery = "idle" THEN "draft" ELSE recovery

LEMMA FailEffect ==
  ASSUME Types, NEW a, Fails(a)
  PROVE  /\ ClientOf(a) \in 1 .. Current
         /\ queues' \in Seq(AnyQueue) /\ Len(queues') = Len(queues)
         /\ \A i \in 1 .. Len(queues) : i # ClientOf(a) => queues'[i] = queues[i]
         /\ queues'[ClientOf(a)] =
              [queues[ClientOf(a)] EXCEPT !.failed = TRUE, !.waiting = 0]
<1> DEFINE c == ClientOf(a)
           queue == [queues[c] EXCEPT !.failed = TRUE, !.waiting = 0]
<1>1. c \in 1 .. Current
  BY DEF Types, IsAnswer, ClientOf, Fails
<1>2. queues \in Seq(AnyQueue) /\ queues[c] \in AnyQueue
  BY <1>1 DEF Types, QueueTypes, Current
<1>3. queue \in AnyQueue
  BY <1>2 DEF AnyQueue
<1> HIDE DEF c
<1>4. [queues EXCEPT ![c].failed = TRUE, ![c].waiting = 0] = [queues EXCEPT ![c] = queue]
  BY <1>1, <1>2 DEF Current
<1>5. queues' = [queues EXCEPT ![c] = queue]
  BY <1>4 DEF Fails, c
<1> HIDE DEF queue
<1>6. /\ queues' \in Seq(AnyQueue) /\ Len(queues') = Len(queues)
      /\ \A i \in 1 .. Len(queues) : i # c => queues'[i] = queues[i]
      /\ queues'[c] = queue
  BY <1>1, <1>2, <1>3, <1>5 DEF Current
<1> QED
  BY <1>1, <1>6 DEF c, queue

LEMMA TakeEffect ==
  ASSUME Types, requests # << >>, requests' = Tail(requests)
  PROVE  /\ Head(requests) = requests[1] /\ Head(requests) \in Call
         /\ Len(requests) \in Nat \ {0}
         /\ requests' \in Seq(Call) /\ Len(requests') = Len(requests) - 1
         /\ \A i \in 1 .. Len(requests') :
              i + 1 \in 1 .. Len(requests) /\ requests'[i] = requests[i + 1]
BY DEF Types, QueueTypes

LEMMA AppendedCall ==
  ASSUME Types, NEW call \in Call, requests' = Append(requests, call)
  PROVE  /\ requests' \in Seq(Call) /\ Len(requests') = Len(requests) + 1
         /\ Len(requests) \in Nat
         /\ requests'[Len(requests) + 1] = call
         /\ \A i \in 1 .. Len(requests) : requests'[i] = requests[i]
BY DEF Types, QueueTypes

\* The calls of batches are from queues that there are.
ApplyCallsTyped ==
  \A i \in 1 .. Len(requests) :
    requests[i].call = "apply" => requests[i].batch.client \in 1 .. Current

LEMMA QueueStep ==
  ASSUME Types, Next
  PROVE  QueueTypes' /\ ApplyCallsTyped' /\ Current <= Current'
<1>0. /\ queues \in Seq(AnyQueue) /\ Current \in Nat \ {0} /\ requests \in Seq(Call)
      /\ ApplyCallsTyped
  BY DEF Types, QueueTypes, ApplyCallsTyped
<1>1. ASSUME NEW c \in 1 .. Current, NEW queue \in AnyQueue, Pump(c, queue)
      PROVE  QueueTypes' /\ ApplyCallsTyped' /\ Current <= Current'
  <2>1. QueueTypes' /\ Len(queues') = Len(queues) /\ CallsAdded(c, queue)
    BY <1>1, PumpEffect DEF Types
  <2>2. Current' = Current
    BY <2>1 DEF Current
  <2>3. ASSUME NEW i \in 1 .. Len(requests'), requests'[i].call = "apply"
        PROVE  requests'[i].batch.client \in 1 .. Current
    <3>1. CASE i \in 1 .. Len(requests)
      BY <1>0, <2>1, <2>3, <3>1 DEF CallsAdded, ApplyCallsTyped
    <3>2. CASE requests'[i].call = "get"
      BY <2>3, <3>2
    <3>3. CASE requests'[i] = ApplyCall(TakePendingBatch(c, queue))
      BY <1>1, <3>3 DEF ApplyCall, TakePendingBatch
    <3> QED
      BY <2>1, <3>1, <3>2, <3>3 DEF CallsAdded
  <2> QED
    BY <1>0, <2>1, <2>2, <2>3 DEF ApplyCallsTyped
<1>2. ASSUME UNCHANGED <<queues, requests>>
      PROVE  QueueTypes' /\ ApplyCallsTyped' /\ Current <= Current'
  BY <1>0, <1>2 DEF QueueTypes, ApplyCallsTyped, Current
<1>3. CASE Type
  <2>1. CASE UNCHANGED <<queues, requests>>
    BY <1>2, <2>1
  <2>2. CASE Pump(Current, Enqueued)
    BY <1>0, <1>1, <1>3, <2>2, TypeEffect
  <2> QED
    BY <1>3, <2>1, <2>2, TypeEffect
<1>4. CASE AckArrives
  <2>1. PICK a \in answers : a.answer = "ack" /\ Pump(a.ack.client, Acknowledged(a))
    BY <1>4 DEF AckArrives, Acknowledged
  <2> QED
    BY <1>1, <2>1, AckEffect
<1>5. CASE BatchFails
  <2>1. PICK a : Fails(a) /\ UNCHANGED requests
    BY <1>5 DEF BatchFails, Fails, ClientOf
  <2>2. queues' \in Seq(AnyQueue) /\ Len(queues') = Len(queues)
    BY <2>1, FailEffect
  <2> QED
    BY <1>0, <2>1, <2>2 DEF QueueTypes, ApplyCallsTyped, Current
<1>6. CASE DraftStored
  <2>1. requests' = Append(requests, SnapshotCall) /\ UNCHANGED queues
    BY <1>6 DEF DraftStored
  <2>2. SnapshotCall \in Call /\ SnapshotCall.call = "snapshot"
    BY DEF SnapshotCall, Call
  <2>3. /\ requests' \in Seq(Call) /\ Len(requests') = Len(requests) + 1
        /\ Len(requests) \in Nat
        /\ requests'[Len(requests) + 1] = SnapshotCall
        /\ \A i \in 1 .. Len(requests) : requests'[i] = requests[i]
    BY <2>1, <2>2, AppendedCall
  <2> QED
    BY <1>0, <2>1, <2>2, <2>3 DEF QueueTypes, ApplyCallsTyped, Current
<1>7. ASSUME NEW a \in answers, a.answer \in {"session", "snapshot"},
             Adopt(a.revision, a.text), UNCHANGED requests
      PROVE  QueueTypes' /\ ApplyCallsTyped' /\ Current <= Current'
  <2>1. queues' \in Seq(AnyQueue) /\ Current' = Current + 1
    BY <1>7, AdoptEffect DEF Types
  <2> QED
    BY <1>0, <1>7, <2>1 DEF QueueTypes, ApplyCallsTyped
<1>8. CASE SnapshotArrives
  BY <1>7, <1>8 DEF SnapshotArrives
<1>9. CASE SessionArrives
  BY <1>2, <1>7, <1>9 DEF SessionArrives
<1>10. CASE SessionChanged
  <2>1. UNCHANGED <<queues, requests>> \/ Pump(Current, Awaited)
    BY <1>10 DEF SessionChanged, Awaited
  <2> QED
    BY <1>1, <1>2, <2>1, AwaitedIsQueue
<1>11. CASE ExecuteBatch \/ ExecuteGet \/ ExecuteSnapshot
  <2>1. requests # << >> /\ requests' = Tail(requests) /\ UNCHANGED queues
    BY <1>11 DEF ExecuteBatch, ExecuteGet, ExecuteSnapshot, TakeCall
  <2> QED
    BY <1>0, <2>1, TakeEffect DEF QueueTypes, ApplyCallsTyped, Current
<1>12. CASE Remount \/ DraftFails \/ ForeignWrite
  BY <1>2, <1>12 DEF Remount, DraftFails, ForeignWrite
<1> QED
  BY <1>3, <1>4, <1>5, <1>6, <1>8, <1>9, <1>10, <1>11, <1>12 DEF Next, Window, Backend

LEMMA AnswerStep ==
  ASSUME Types, Next, TextsKept, DocumentTypes', QueueTypes', Current <= Current'
  PROVE  \A a \in answers' : IsAnswer(a)'
<1>1. \A a \in answers : IsAnswer(a)'
  BY AnswersStay DEF Types, DocumentTypes, QueueTypes, IsDocument
<1>2. CASE Window
  BY <1>1, <1>2 DEF Window, Type, AckArrives, BatchFails, DraftStored, DraftFails,
       SnapshotArrives, Remount, SessionChanged, SessionArrives
<1>3. CASE ExecuteBatch
  <2> DEFINE batch == Head(requests).batch
             failure == [answer |-> "error", client |-> batch.client]
             success == [answer |-> "ack", ack |-> D!NewAck(doc, batch)]
  <2>1. requests # << >> /\ Head(requests).call = "apply" /\ UNCHANGED queues
    BY <1>3 DEF ExecuteBatch, TakeCall
  <2>2. Head(requests) = requests[1] /\ Len(requests) \in Nat \ {0}
    BY <1>3, <2>1, TakeEffect DEF ExecuteBatch, TakeCall
  <2>3. batch.client \in 1 .. Current /\ batch.client \in 1 .. Current'
    BY <2>1, <2>2 DEF Types, Current
  <2>4. failure.answer = "error" /\ failure.client = batch.client
    OBVIOUS
  <2>5. /\ success.answer = "ack" /\ success.ack.client = batch.client
        /\ success.ack.revision = doc.revision + 1
    BY DEF D!NewAck
  <2>6. doc.revision + 1 \in Nat
    BY DEF Types, DocumentTypes, IsDocument
  <2>7. answers' \subseteq answers \cup {failure, success}
    BY <1>3 DEF ExecuteBatch
  <2> HIDE DEF failure, success
  <2> QED
    BY <1>1, <2>3, <2>4, <2>5, <2>6, <2>7 DEF IsAnswer
<1>4. CASE ExecuteGet \/ ExecuteSnapshot
  <2>1. PICK name \in {"session", "snapshot"} : answers' = answers \cup {Snapshot(name)}
    BY <1>4 DEF ExecuteGet, ExecuteSnapshot
  <2>2. UNCHANGED <<doc, texts>>
    BY <1>4 DEF ExecuteGet, ExecuteSnapshot
  <2>3. IsAnswer(Snapshot(name))'
    BY <2>1, <2>2 DEF Snapshot, IsAnswer, Types, DocumentTypes, IsDocument
  <2>4. Snapshot(name)' = Snapshot(name)
    BY <2>2 DEF Snapshot
  <2> QED
    BY <1>1, <2>1, <2>3, <2>4
<1>5. CASE ForeignWrite
  BY <1>1, <1>5 DEF ForeignWrite
<1> QED
  BY <1>2, <1>3, <1>4, <1>5 DEF Next, Backend

LEMMA TypesStep ==
  ASSUME Types, Next
  PROVE  Types' /\ TextsKept /\ Current <= Current'
<1>1. DocumentTypes' /\ TextsKept
  BY DocumentStep
<1>2. ScreenTypes'
  BY ScreenStep
<1>3. QueueTypes' /\ ApplyCallsTyped' /\ Current <= Current'
  BY QueueStep
<1>4. \A a \in answers' : IsAnswer(a)'
  BY <1>1, <1>3, AnswerStep
<1> QED
  BY <1>1, <1>2, <1>3, <1>4 DEF Types, ApplyCallsTyped

-----------------------------------------------------------------------------
(* Batches on their way *)

Verdict(a) == a.answer \in {"ack", "error"}

\* What there is of a batch under way: the call that takes it to the document,
\* then the verdict.
Called(c) ==
  \E i \in 1 .. Len(requests) :
    requests[i].call = "apply" /\ requests[i].batch.client = c

Judged(c) == \E a \in answers : Verdict(a) /\ ClientOf(a) = c

CallsFly ==
  \A i \in 1 .. Len(requests) : requests[i].call = "apply" =>
    /\ queues[requests[i].batch.client].batch = requests[i].batch
    /\ ~queues[requests[i].batch.client].failed

\* An acknowledgement matches its batch, and the revision it names is the text
\* the batch was made for with the keys of the batch behind it.
Fits(a) ==
  LET batch == queues[a.ack.client].batch
  IN  /\ Matches(queues[a.ack.client], a.ack)
      /\ a.ack.revision \in 1 .. Len(texts)
      /\ texts[a.ack.revision] = texts[batch.expectedRevision] \o KeysOf(batch.payload)

VerdictsFly ==
  \A a \in answers : Verdict(a) =>
    /\ queues[ClientOf(a)].batch # NoBatch
    /\ ~queues[ClientOf(a)].failed
    /\ a.answer = "ack" => Fits(a)

OneCall ==
  \A i, j \in 1 .. Len(requests) :
    /\ requests[i].call = "apply"
    /\ requests[j].call = "apply"
    /\ requests[i].batch.client = requests[j].batch.client
    => i = j

OneVerdict ==
  \A a, b \in answers :
    Verdict(a) /\ Verdict(b) /\ ClientOf(a) = ClientOf(b) => a = b

CallOrVerdict == \A c \in 1 .. Current : ~(Called(c) /\ Judged(c))

QueueFlies(c) ==
  LET queue == queues[c]
  IN  /\ queue.revision \in 1 .. Len(texts)
      /\ queue.batch # NoBatch =>
           /\ queue.batch.client = c
           /\ queue.batch.expectedRevision = queue.revision
           /\ queue.batch.payload # << >>
      /\ queue.batch = NoBatch => queue.pending = << >> /\ ~queue.failed /\ queue.waiting = 0
      /\ queue.failed => queue.waiting = 0
      /\ queue.batch # NoBatch /\ ~queue.failed => Called(c) \/ Judged(c)

Flight ==
  /\ CallsFly
  /\ VerdictsFly
  /\ OneCall
  /\ OneVerdict
  /\ CallOrVerdict
  /\ \A c \in 1 .. Current : QueueFlies(c)

LEMMA NewBatchIsBatch ==
  ASSUME NEW batch \in SentBatch
  PROVE  batch # NoBatch
BY MarkersAssumption DEF SentBatch, Tx

\* Pump keeps this if a queue without a batch has nothing of one under way.
PumpsInFlight(c, queue) ==
  /\ queue.revision \in 1 .. Len(texts)
  /\ queue.batch # NoBatch =>
       /\ queue.batch = queues[c].batch
       /\ queue.failed = queues[c].failed
       /\ queue.revision = queues[c].revision
  /\ queue.batch = NoBatch => ~queue.failed /\ ~Called(c) /\ ~Judged(c)'
  /\ queue.failed => queue.waiting = 0

LEMMA PumpFlight ==
  ASSUME Types, Types', Flight, UNCHANGED texts,
         NEW c \in 1 .. Current, NEW queue \in AnyQueue, Pump(c, queue),
         answers' \subseteq answers,
         \A a \in answers : Verdict(a) =>
           (ClientOf(a) # c \/ queue.batch # NoBatch => a \in answers'),
         PumpsInFlight(c, queue)
  PROVE  Flight'
<1>1. /\ Len(queues') = Len(queues) /\ CallsAdded(c, queue)
      /\ \A i \in 1 .. Len(queues) : i # c => queues'[i] = queues[i]
      /\ Sends(c, queue) \/ Holds(c, queue) \/ Releases(c, queue)
  BY PumpEffect DEF Types
<1>2. Current' = Current
  BY <1>1 DEF Current
<1>3. requests \in Seq(Call) /\ Len(requests) \in Nat /\ c \in Nat
  BY DEF Types, QueueTypes
<1> DEFINE batch == TakePendingBatch(c, queue)
<1>4. /\ ApplyCall(batch).batch = batch /\ batch.client = c
      /\ batch.expectedRevision = queue.revision /\ batch.payload = queue.pending
  BY DEF ApplyCall, TakePendingBatch
<1>5. Sends(c, queue) =>
        /\ Len(requests') = Len(requests) + 1
        /\ requests'[Len(requests) + 1] = ApplyCall(batch)
  BY <1>3 DEF Sends
<1>6. Sends(c, queue) =>
        /\ queues'[c].batch = batch /\ queues'[c].failed = queue.failed
        /\ queues'[c].revision = queue.revision /\ queues'[c].waiting = queue.waiting
        /\ queue.batch = NoBatch /\ queue.pending # << >> /\ ~queue.failed
        /\ ~Called(c) /\ ~Judged(c)'
  BY DEF Sends, AnyQueue, PumpsInFlight
<1>7. Holds(c, queue) => queues'[c] = queue /\ queue.batch # NoBatch
  BY DEF Holds, PumpsInFlight
<1>8. Releases(c, queue) =>
        /\ queues'[c].batch = NoBatch /\ queues'[c].failed = queue.failed
        /\ queues'[c].revision = queue.revision /\ queues'[c].waiting = 0
        /\ queues'[c].pending = << >> /\ ~queue.failed /\ ~Called(c) /\ ~Judged(c)'
  BY DEF Releases, AnyQueue, PumpsInFlight
<1>8a. batch # NoBatch
  <2>1. batch \in SentBatch
    BY <1>3 DEF TakePendingBatch, SentBatch, AnyQueue
  <2> QED
    BY <2>1, NewBatchIsBatch
<1> HIDE DEF batch
\* The calls of batches there are afterwards.
<1>9. \A i \in 1 .. Len(requests') : requests'[i].call = "apply" =>
        \/ i \in 1 .. Len(requests) /\ requests'[i] = requests[i]
        \/ Sends(c, queue) /\ i = Len(requests) + 1 /\ requests'[i] = ApplyCall(batch)
  BY <1>1, <1>3, <1>5 DEF CallsAdded, batch
<1>10. \A d \in 1 .. Current : Called(d)' => Called(d) \/ (Sends(c, queue) /\ d = c)
  BY <1>4, <1>9 DEF Called
<1>11. \A d : Judged(d)' => Judged(d)
  BY DEF Judged
<1>12. CallsFly'
  <2> SUFFICES ASSUME NEW i \in 1 .. Len(requests'), requests'[i].call = "apply"
               PROVE  /\ queues'[requests'[i].batch.client].batch = requests'[i].batch
                      /\ ~queues'[requests'[i].batch.client].failed
    BY DEF CallsFly
  <2>1. CASE i \in 1 .. Len(requests) /\ requests'[i] = requests[i]
    <3> DEFINE d == requests[i].batch.client
    <3>1. /\ d \in 1 .. Current /\ Called(d)
          /\ queues[d].batch = requests[i].batch /\ ~queues[d].failed
      BY <2>1 DEF Flight, CallsFly, Types, Called
    <3> HIDE DEF d
    <3>2. CASE d # c
      BY <1>1, <2>1, <3>1, <3>2 DEF Current, d
    <3>3. CASE d = c
      BY <1>1, <1>6, <1>7, <1>8, <2>1, <3>1, <3>3 DEF PumpsInFlight, d
    <3> QED
      BY <3>2, <3>3
  <2>2. CASE Sends(c, queue) /\ requests'[i] = ApplyCall(batch)
    BY <1>4, <1>6, <2>2
  <2> QED
    BY <1>9, <2>1, <2>2
<1>13. VerdictsFly'
  <2> SUFFICES ASSUME NEW a \in answers', Verdict(a)
               PROVE  /\ queues'[ClientOf(a)].batch # NoBatch
                      /\ ~queues'[ClientOf(a)].failed
                      /\ a.answer = "ack" => Fits(a)'
    BY DEF VerdictsFly, Verdict, ClientOf
  <2> DEFINE d == ClientOf(a)
  <2>1. /\ queues[d].batch # NoBatch /\ ~queues[d].failed
        /\ a.answer = "ack" => Fits(a)
    BY DEF Flight, VerdictsFly
  <2>2. d \in 1 .. Current /\ a \in answers
    BY DEF Types, IsAnswer, Verdict, ClientOf
  <2>3. queues'[d].batch = queues[d].batch /\ queues'[d].failed = queues[d].failed
    <3>1. CASE d # c
      BY <1>1, <2>2, <3>1 DEF Current
    <3>2. CASE d = c
      <4>1. Judged(c)'
        BY <3>2 DEF Judged, Verdict, ClientOf
      <4> QED
        BY <1>1, <1>6, <1>7, <1>8, <3>2, <4>1 DEF PumpsInFlight
    <3> QED
      BY <3>1, <3>2
  <2>4. a.answer = "ack" => d = a.ack.client
    BY DEF ClientOf
  <2> HIDE DEF d
  <2>5. ASSUME a.answer = "ack" PROVE Fits(a)'
    BY <2>1, <2>3, <2>4, <2>5 DEF Fits, Matches
  <2> QED
    BY <2>1, <2>3, <2>5 DEF d
<1>14. OneCall'
  <2> SUFFICES ASSUME NEW i \in 1 .. Len(requests'), NEW j \in 1 .. Len(requests'),
                      requests'[i].call = "apply", requests'[j].call = "apply",
                      requests'[i].batch.client = requests'[j].batch.client
               PROVE  i = j
    BY DEF OneCall
  <2>1. CASE /\ i \in 1 .. Len(requests) /\ requests'[i] = requests[i]
             /\ j \in 1 .. Len(requests) /\ requests'[j] = requests[j]
    BY <2>1 DEF Flight, OneCall
  <2>2. CASE Sends(c, queue) /\ (requests'[i] = ApplyCall(batch) \/ requests'[j] = ApplyCall(batch))
    <3>1. /\ ~Called(c)
          /\ requests'[i].batch.client = c /\ requests'[j].batch.client = c
      BY <1>4, <1>6, <2>2
    <3> QED
      BY <1>9, <3>1 DEF Called
  <2> QED
    BY <1>9, <2>1, <2>2
<1>15. OneVerdict'
  BY DEF Flight, OneVerdict, Verdict, ClientOf
<1>16. CallOrVerdict'
  <2> SUFFICES ASSUME NEW d \in 1 .. Current, Called(d)', Judged(d)'
               PROVE  FALSE
    BY <1>2 DEF CallOrVerdict
  <2> QED
    BY <1>6, <1>10, <1>11 DEF Flight, CallOrVerdict
<1>17. ASSUME NEW d \in 1 .. Current PROVE QueueFlies(d)'
  <2>1. QueueFlies(d) /\ QueueFlies(c)
    BY DEF Flight
  <2>2. Called(d) => Called(d)'
    BY <1>1 DEF Called, CallsAdded
  <2>3. CASE d # c
    <3>1. queues'[d] = queues[d]
      BY <1>1, <2>3 DEF Current
    <3>2. Judged(d) => Judged(d)'
      BY <2>3 DEF Judged, Verdict, ClientOf
    <3> QED
      BY <2>1, <2>2, <3>1, <3>2 DEF QueueFlies
  <2>4. CASE d = c /\ Sends(c, queue)
    <3>1. Called(c)'
      BY <1>3, <1>4, <1>5, <2>4 DEF Called, ApplyCall
    <3> QED
      BY <1>4, <1>6, <1>8a, <2>4, <3>1 DEF QueueFlies, PumpsInFlight
  <2>5. CASE d = c /\ Holds(c, queue)
    <3>1. Judged(c) => Judged(c)'
      BY <1>7, <2>5 DEF Judged, Verdict, ClientOf
    <3> QED
      BY <1>7, <2>1, <2>2, <2>5, <3>1 DEF QueueFlies, PumpsInFlight
  <2>6. CASE d = c /\ Releases(c, queue)
    BY <1>8, <2>6 DEF QueueFlies, PumpsInFlight
  <2> QED
    BY <1>1, <2>3, <2>4, <2>5, <2>6
<1> QED
  BY <1>2, <1>12, <1>13, <1>14, <1>15, <1>16, <1>17 DEF Flight

\* The calls of batches stay in line, all of them or without the first call,
\* which is another one.
CallsStay(taken) ==
  /\ \A i \in 1 .. Len(requests') : requests'[i].call = "apply" =>
       i + taken \in 1 .. Len(requests) /\ requests'[i] = requests[i + taken]
  /\ \A i \in 1 .. Len(requests) : requests[i].call = "apply" =>
       i - taken \in 1 .. Len(requests') /\ requests'[i - taken] = requests[i]

FreshQueue(queue) ==
  /\ queue.revision \in 1 .. Len(texts)
  /\ queue.batch = NoBatch
  /\ queue.pending = << >>
  /\ ~queue.failed
  /\ queue.waiting = 0

LEMMA QuietFlight ==
  ASSUME Types, Types', Flight, TextsKept, Current <= Current',
         \A c \in 1 .. Current : queues'[c] = queues[c],
         \A c \in Current + 1 .. Current' : FreshQueue(queues'[c]),
         NEW taken \in {0, 1}, CallsStay(taken),
         \A a : Verdict(a) => (a \in answers' <=> a \in answers)
  PROVE  Flight'
<1>1. /\ Len(requests) \in Nat /\ Len(requests') \in Nat
      /\ Current \in Nat /\ Current' \in Nat
      /\ Len(texts) \in Nat /\ Len(texts') \in Nat /\ Len(texts) <= Len(texts')
      /\ \A r \in 1 .. Len(texts) : texts'[r] = texts[r]
  <2>1. Len(requests) \in Nat /\ Current \in Nat
    BY DEF Types, QueueTypes
  <2>2. Len(requests') \in Nat /\ Current' \in Nat
    BY DEF Types, QueueTypes
  <2>3. Len(texts) \in Nat /\ Len(texts') \in Nat
    BY DEF Types, DocumentTypes
  <2> QED
    BY <2>1, <2>2, <2>3 DEF TextsKept
<1>2. \A c : (Called(c)' <=> Called(c)) /\ (Judged(c)' <=> Judged(c))
  <2>1. \A c : Called(c)' <=> Called(c)
    BY SMTT(30) DEF Called, CallsStay
  <2>2. \A c : Judged(c)' <=> Judged(c)
    BY DEF Judged
  <2> QED
    BY <2>1, <2>2
<1>3. \A c : Called(c) \/ Judged(c) => c \in 1 .. Current
  BY DEF Types, Called, Judged, IsAnswer, Verdict, ClientOf
<1>4. CallsFly'
  <2> SUFFICES ASSUME NEW i \in 1 .. Len(requests'), requests'[i].call = "apply"
               PROVE  /\ queues'[requests'[i].batch.client].batch = requests'[i].batch
                      /\ ~queues'[requests'[i].batch.client].failed
    BY DEF CallsFly
  <2>1. i + taken \in 1 .. Len(requests) /\ requests'[i] = requests[i + taken]
    BY DEF CallsStay
  <2>2. requests'[i].batch.client \in 1 .. Current
    BY <2>1 DEF Types
  <2> QED
    BY <2>1, <2>2 DEF Flight, CallsFly
<1>5. VerdictsFly'
  <2> SUFFICES ASSUME NEW a \in answers', Verdict(a)
               PROVE  /\ queues'[ClientOf(a)].batch # NoBatch
                      /\ ~queues'[ClientOf(a)].failed
                      /\ a.answer = "ack" => Fits(a)'
    BY DEF VerdictsFly, Verdict, ClientOf
  <2> DEFINE d == ClientOf(a)
  <2>1. /\ a \in answers
        /\ queues[d].batch # NoBatch /\ ~queues[d].failed
        /\ a.answer = "ack" => Fits(a)
    BY DEF Flight, VerdictsFly
  <2>2. d \in 1 .. Current
    BY <2>1 DEF Types, IsAnswer, Verdict, ClientOf
  <2>3. queues'[d] = queues[d] /\ QueueFlies(d)
    BY <2>2 DEF Flight
  <2>4. a.answer = "ack" => d = a.ack.client
    BY DEF ClientOf
  <2> HIDE DEF d
  <2>5. ASSUME a.answer = "ack" PROVE Fits(a)'
    <3>1. Fits(a) /\ d = a.ack.client
      BY <2>1, <2>4, <2>5
    <3> DEFINE batch == queues[d].batch
    <3>2. /\ batch.expectedRevision \in 1 .. Len(texts)
          /\ a.ack.revision \in 1 .. Len(texts)
      BY <2>1, <2>3, <3>1 DEF QueueFlies, Fits
    <3>3. /\ texts'[batch.expectedRevision] = texts[batch.expectedRevision]
          /\ texts'[a.ack.revision] = texts[a.ack.revision]
          /\ a.ack.revision \in 1 .. Len(texts')
      BY <1>1, <3>2, SMTT(30)
    <3> QED
      BY <2>3, <3>1, <3>3 DEF Fits, Matches
  <2> QED
    BY <2>1, <2>3, <2>5 DEF d
<1>6. OneCall'
  <2> SUFFICES ASSUME NEW i \in 1 .. Len(requests'), NEW j \in 1 .. Len(requests'),
                      requests'[i].call = "apply", requests'[j].call = "apply",
                      requests'[i].batch.client = requests'[j].batch.client
               PROVE  i = j
    BY DEF OneCall
  <2>1. /\ i + taken \in 1 .. Len(requests) /\ requests'[i] = requests[i + taken]
        /\ j + taken \in 1 .. Len(requests) /\ requests'[j] = requests[j + taken]
    BY DEF CallsStay
  <2>2. i + taken = j + taken
    BY <2>1 DEF Flight, OneCall
  <2> QED
    BY <1>1, <2>2
<1>7. OneVerdict'
  BY DEF Flight, OneVerdict, Verdict, ClientOf
<1>8. CallOrVerdict'
  BY <1>2, <1>3 DEF Flight, CallOrVerdict
<1>9. ASSUME NEW c \in 1 .. Current' PROVE QueueFlies(c)'
  <2>1. CASE c \in 1 .. Current
    <3>1. QueueFlies(c) /\ queues'[c] = queues[c]
      BY <2>1 DEF Flight
    <3>2. queues[c].revision \in 1 .. Len(texts')
      BY <1>1, <3>1 DEF QueueFlies
    <3> QED
      BY <1>2, <3>1, <3>2 DEF QueueFlies
  <2>2. CASE c \in Current + 1 .. Current'
    BY <1>1, <2>2 DEF FreshQueue, QueueFlies
  <2> QED
    BY <1>1, <2>1, <2>2
<1> QED
  BY <1>4, <1>5, <1>6, <1>7, <1>8, <1>9 DEF Flight

\* A verdict that fails its queue.
LEMMA FailFlight ==
  ASSUME Types, Types', Flight, NEW a, Fails(a), UNCHANGED <<texts, requests>>
  PROVE  Flight'
<1> DEFINE c == ClientOf(a)
<1>1. /\ c \in 1 .. Current
      /\ queues' \in Seq(AnyQueue) /\ Len(queues') = Len(queues)
      /\ \A i \in 1 .. Len(queues) : i # c => queues'[i] = queues[i]
      /\ queues'[c] = [queues[c] EXCEPT !.failed = TRUE, !.waiting = 0]
  BY FailEffect
<1>2. queues[c] \in AnyQueue /\ Current' = Current
  BY <1>1 DEF Types, QueueTypes, Current
<1>3. /\ a \in answers /\ Verdict(a) /\ answers' = answers \ {a}
      /\ queues[c].batch # NoBatch
  BY DEF Fails, Verdict, Flight, VerdictsFly
<1>4. /\ queues'[c].failed /\ queues'[c].waiting = 0
      /\ queues'[c].batch = queues[c].batch
      /\ queues'[c].revision = queues[c].revision
  BY <1>1, <1>2 DEF AnyQueue
<1>5. ~Called(c) /\ Judged(c)
  BY <1>1, <1>3 DEF Judged, Flight, CallOrVerdict
<1>6. ~Judged(c)'
  BY <1>3 DEF Judged, Flight, OneVerdict, Verdict, ClientOf
<1>7. \A d \in 1 .. Current : d # c => queues'[d] = queues[d]
  BY <1>1 DEF Current
<1>8. CallsFly'
  <2> SUFFICES ASSUME NEW i \in 1 .. Len(requests), requests[i].call = "apply"
               PROVE  /\ queues'[requests[i].batch.client].batch = requests[i].batch
                      /\ ~queues'[requests[i].batch.client].failed
    BY DEF CallsFly
  <2>1. Called(requests[i].batch.client) /\ requests[i].batch.client \in 1 .. Current
    BY DEF Called, Types
  <2>2. queues'[requests[i].batch.client] = queues[requests[i].batch.client]
    BY <1>5, <1>7, <2>1
  <2> QED
    BY <2>2 DEF Flight, CallsFly
<1> HIDE DEF c
<1>9. VerdictsFly'
  <2> SUFFICES ASSUME NEW b \in answers', Verdict(b)
               PROVE  /\ queues'[ClientOf(b)].batch # NoBatch
                      /\ ~queues'[ClientOf(b)].failed
                      /\ b.answer = "ack" => Fits(b)'
    BY DEF VerdictsFly, Verdict, ClientOf
  <2>1. ClientOf(b) # c
    BY <1>6 DEF Judged, Verdict, ClientOf
  <2>2. b \in answers /\ ClientOf(b) \in 1 .. Current
    BY <1>3 DEF Types, IsAnswer, Verdict, ClientOf
  <2>3. queues'[ClientOf(b)] = queues[ClientOf(b)]
    BY <1>7, <2>1, <2>2
  <2>4. ASSUME b.answer = "ack" PROVE Fits(b)'
    <3>1. Fits(b) /\ ClientOf(b) = b.ack.client
      BY <2>2, <2>4 DEF Flight, VerdictsFly, ClientOf
    <3> QED
      BY <2>3, <3>1 DEF Fits, Matches
  <2> QED
    BY <2>2, <2>3, <2>4 DEF Flight, VerdictsFly
<1>10. OneCall'
  BY DEF Flight, OneCall
<1>11. OneVerdict'
  BY <1>3 DEF Flight, OneVerdict, Verdict, ClientOf
<1>12. CallOrVerdict'
  BY <1>2, <1>3 DEF Flight, CallOrVerdict, Called, Judged, Verdict, ClientOf
<1>13. ASSUME NEW d \in 1 .. Current' PROVE QueueFlies(d)'
  <2>1. QueueFlies(d)
    BY <1>2 DEF Flight
  <2>2. CASE d = c
    BY <1>3, <1>4, <2>1, <2>2 DEF QueueFlies
  <2>3. CASE d # c
    <3>1. queues'[d] = queues[d]
      BY <1>2, <1>7, <2>3
    <3>2. Judged(d) => Judged(d)'
      BY <1>3, <2>3 DEF Judged, c, Verdict, ClientOf
    <3>3. Called(d) => Called(d)'
      BY DEF Called
    <3> QED
      BY <2>1, <3>1, <3>2, <3>3 DEF QueueFlies
  <2> QED
    BY <2>2, <2>3
<1> QED
  BY <1>8, <1>9, <1>10, <1>11, <1>12, <1>13 DEF Flight

\* What the document makes of the call of a batch.
Taken == requests[1].batch
Failure == [answer |-> "error", client |-> Taken.client]
Success == [answer |-> "ack", ack |-> D!NewAck(doc, Taken)]

AcceptsTaken ==
  /\ D!Accepts(doc, Taken)
  /\ doc' = D!AfterBatch(doc, Taken)
  /\ Revised
  /\ \/ answers' = answers \cup {Success}
     \/ ~desktop /\ answers' = answers \cup {Failure}

RefusesTaken ==
  /\ answers' = answers \cup {Failure}
  /\ UNCHANGED <<doc, texts, events>>

LEMMA BatchEffect ==
  ASSUME Types, Flight, ExecuteBatch
  PROVE  /\ Len(requests) \in Nat \ {0} /\ requests[1].call = "apply"
         /\ Taken \in SentBatch
         /\ Taken.client \in 1 .. Current
         /\ queues[Taken.client].batch = Taken /\ ~queues[Taken.client].failed
         /\ Taken.expectedRevision = queues[Taken.client].revision
         /\ Taken.payload # << >>
         /\ requests' = Tail(requests)
         /\ UNCHANGED <<screen, queues, recovery>>
         /\ AcceptsTaken \/ RefusesTaken
<1>1. /\ requests # << >> /\ Head(requests).call = "apply" /\ requests' = Tail(requests)
      /\ UNCHANGED <<screen, queues, recovery>>
  BY DEF ExecuteBatch, TakeCall
<1>2. /\ Head(requests) = requests[1] /\ Head(requests) \in Call
      /\ Len(requests) \in Nat \ {0}
  BY <1>1, TakeEffect
<1>3. Taken \in SentBatch
  BY <1>1, <1>2 DEF Call, Taken
<1>4. /\ Taken.client \in 1 .. Current
      /\ queues[Taken.client].batch = Taken /\ ~queues[Taken.client].failed
  BY <1>1, <1>2 DEF Taken, Types, Flight, CallsFly
<1>5. Taken # NoBatch
  BY <1>3, NewBatchIsBatch
<1>6. Taken.expectedRevision = queues[Taken.client].revision /\ Taken.payload # << >>
  BY <1>4, <1>5 DEF Flight, QueueFlies
<1>7. AcceptsTaken \/ RefusesTaken
  BY <1>2 DEF ExecuteBatch, AcceptsTaken, RefusesTaken, Taken, Failure, Success
<1> QED
  BY <1>1, <1>2, <1>3, <1>4, <1>6, <1>7

LEMMA AcceptEffect ==
  ASSUME Types, Flight, ExecuteBatch, AcceptsTaken
  PROVE  /\ Taken.expectedRevision = Len(texts)
         /\ Len(texts) \in Nat \ {0}
         /\ doc'.revision = Len(texts) + 1 /\ Len(texts') = Len(texts) + 1
         /\ \A r \in 1 .. Len(texts) : texts'[r] = texts[r]
         /\ texts[Len(texts)] = doc.text
         /\ doc'.text = doc.text \o KeysOf(Taken.payload)
         /\ texts'[Len(texts) + 1] = doc.text \o KeysOf(Taken.payload)
         /\ \A i \in 1 .. Len(Taken.payload) :
              Taken.payload[i].before = Len(doc.text) + i - 1
         /\ Success.ack.client = Taken.client
         /\ Success.ack.batchId = Taken.batchId
         /\ Success.ack.revision = Len(texts) + 1
         /\ Success.ack.length = Len(doc.text) + Len(Taken.payload)
<1>1. Taken \in SentBatch /\ D!Accepts(doc, Taken)
      /\ doc' = D!AfterBatch(doc, Taken) /\ Revised
  BY BatchEffect DEF AcceptsTaken
<1>2. /\ Taken.expectedRevision = Len(texts)
      /\ IsDocument(doc')
      /\ doc'.revision = doc.revision + 1
      /\ doc'.text = doc.text \o KeysOf(Taken.payload)
      /\ \A i \in 1 .. Len(Taken.payload) :
           Taken.payload[i].before = Len(doc.text) + i - 1
      /\ D!NewAck(doc, Taken).client = Taken.client
      /\ D!NewAck(doc, Taken).batchId = Taken.batchId
      /\ D!NewAck(doc, Taken).revision = doc.revision + 1
      /\ D!NewAck(doc, Taken).length = Len(doc.text) + Len(Taken.payload)
  BY <1>1, BatchAppends DEF Types
<1>3. /\ TextsKept
      /\ Len(texts') = Len(texts) + 1
      /\ texts'[Len(texts) + 1] = doc'.text
  BY <1>1, <1>2, RevisedAppends DEF Types
<1>4. Len(texts) \in Nat \ {0} /\ Len(texts) = doc.revision /\ texts[Len(texts)] = doc.text
  BY DEF Types, DocumentTypes, IsDocument
<1>5. Success.ack = D!NewAck(doc, Taken)
  BY DEF Success
<1> QED
  BY <1>2, <1>3, <1>4, <1>5 DEF TextsKept

LEMMA VerdictFits ==
  ASSUME Types, Flight, ExecuteBatch, NEW verdict,
         answers' = answers \cup {verdict},
         verdict = Failure \/ (verdict = Success /\ AcceptsTaken)
  PROVE  /\ Verdict(verdict) /\ ClientOf(verdict) = Taken.client
         /\ verdict.answer = "ack" => Fits(verdict)'
<1>1. CASE verdict = Failure
  BY <1>1 DEF Failure, Verdict, ClientOf
<1>2. CASE verdict = Success /\ AcceptsTaken
  <2>1. /\ Taken.expectedRevision = Len(texts)
        /\ Len(texts) \in Nat \ {0}
        /\ Len(texts') = Len(texts) + 1
        /\ \A r \in 1 .. Len(texts) : texts'[r] = texts[r]
        /\ texts[Len(texts)] = doc.text
        /\ texts'[Len(texts) + 1] = doc.text \o KeysOf(Taken.payload)
        /\ \A i \in 1 .. Len(Taken.payload) :
             Taken.payload[i].before = Len(doc.text) + i - 1
        /\ Success.ack.client = Taken.client
        /\ Success.ack.batchId = Taken.batchId
        /\ Success.ack.revision = Len(texts) + 1
        /\ Success.ack.length = Len(doc.text) + Len(Taken.payload)
    BY <1>2, AcceptEffect
  <2>2. /\ queues[Taken.client].batch = Taken /\ UNCHANGED queues
        /\ Taken \in SentBatch /\ Taken.payload # << >>
    BY BatchEffect
  <2>3. Success.answer = "ack"
    BY DEF Success
  <2>4. Last(Taken.payload).before + 1 = Len(doc.text) + Len(Taken.payload)
    <3>1. Taken.payload \in Seq(Tx) /\ Len(doc.text) \in Nat
      BY <2>2 DEF SentBatch, Types, DocumentTypes, IsDocument
    <3>2. Len(Taken.payload) \in 1 .. Len(Taken.payload) /\ Len(Taken.payload) \in Nat
      BY <2>2, <3>1
    <3>3. Last(Taken.payload).before = Len(doc.text) + Len(Taken.payload) - 1
      BY <2>1, <3>2 DEF Last
    <3> QED
      BY <3>1, <3>2, <3>3
  <2>5. /\ verdict.answer = "ack" /\ verdict.ack = Success.ack
        /\ queues'[verdict.ack.client].batch = Taken
    BY <1>2, <2>1, <2>2, <2>3
  <2>6. Fits(verdict)'
    <3>1. Matches(queues'[verdict.ack.client], verdict.ack)
      BY <2>1, <2>4, <2>5 DEF Matches
    <3>2. /\ verdict.ack.revision \in 1 .. Len(texts')
          /\ texts'[verdict.ack.revision] =
               texts'[Taken.expectedRevision] \o KeysOf(Taken.payload)
      <4>1. texts'[Taken.expectedRevision] = doc.text
        <5>1. Len(texts) \in 1 .. Len(texts)
          BY <2>1
        <5> QED
          BY <2>1, <5>1
      <4>2. verdict.ack.revision = Len(texts) + 1 /\ Len(texts) + 1 \in 1 .. Len(texts')
        BY <2>1, <2>5
      <4> QED
        BY <2>1, <4>1, <4>2
    <3> QED
      BY <2>5, <3>1, <3>2 DEF Fits, Matches
  <2> QED
    BY <1>2, <2>1, <2>3, <2>5, <2>6 DEF Verdict, ClientOf
<1> QED
  BY <1>1, <1>2

LEMMA BatchFlight ==
  ASSUME Types, Types', Flight, TextsKept, ExecuteBatch
  PROVE  Flight'
<1>0. PICK c : c = Taken.client
  OBVIOUS
<1>1. /\ Len(requests) \in Nat \ {0} /\ requests[1].call = "apply"
      /\ c \in 1 .. Current
      /\ queues[c].batch = Taken /\ ~queues[c].failed /\ Taken # NoBatch
      /\ requests' = Tail(requests) /\ UNCHANGED queues
  BY <1>0, BatchEffect, NewBatchIsBatch
<1>2. PICK v : /\ answers' = answers \cup {v}
               /\ v = Failure \/ (v = Success /\ AcceptsTaken)
  BY BatchEffect DEF AcceptsTaken, RefusesTaken
<1>3. Verdict(v) /\ ClientOf(v) = c /\ (v.answer = "ack" => Fits(v)')
  BY <1>0, <1>2, VerdictFits
<1>4. /\ Len(requests') \in Nat
      /\ \A i \in 1 .. Len(requests') :
           i + 1 \in 1 .. Len(requests) /\ requests'[i] = requests[i + 1]
      /\ \A i \in 1 .. Len(requests) : i # 1 =>
           i - 1 \in 1 .. Len(requests') /\ requests'[i - 1] = requests[i]
  <2>1. requests \in Seq(Call)
    BY DEF Types, QueueTypes
  <2> QED
    BY <1>1, <2>1
<1>5. Called(c) /\ ~Judged(c)
  BY <1>0, <1>1 DEF Called, Taken, Flight, CallOrVerdict
<1>6. ~Called(c)'
  <2> SUFFICES ASSUME NEW i \in 1 .. Len(requests'), requests'[i].call = "apply",
                      requests'[i].batch.client = c
               PROVE  FALSE
    BY DEF Called
  <2>1. i + 1 = 1
    BY <1>0, <1>1, <1>4 DEF Flight, OneCall, Taken
  <2> QED
    BY <2>1
<1>7. Current' = Current
  BY <1>1 DEF Current
<1>8. \A d : d # c => (Called(d) => Called(d)')
  BY <1>0, <1>1, <1>4 DEF Called, Taken
<1>9. \A d : Called(d)' => Called(d)
  BY <1>4 DEF Called
<1>10. \A d : Judged(d)' => Judged(d) \/ d = c
  BY <1>2, <1>3 DEF Judged, Verdict, ClientOf
<1>11. \A d : Judged(d) => Judged(d)'
  BY <1>2 DEF Judged, Verdict, ClientOf
<1>12. Judged(c)'
  BY <1>2, <1>3 DEF Judged, Verdict, ClientOf
<1>13. CallsFly'
  <2> SUFFICES ASSUME NEW i \in 1 .. Len(requests'), requests'[i].call = "apply"
               PROVE  /\ queues'[requests'[i].batch.client].batch = requests'[i].batch
                      /\ ~queues'[requests'[i].batch.client].failed
    BY DEF CallsFly
  <2> QED
    BY <1>1, <1>4 DEF Flight, CallsFly
<1>14. ASSUME NEW b \in answers, b.answer = "ack", Verdict(b) PROVE Fits(b)'
  <2>1. Fits(b) /\ b.ack.client \in 1 .. Current /\ queues[b.ack.client].batch # NoBatch
    BY <1>14 DEF Flight, VerdictsFly, ClientOf, Types, IsAnswer
  <2>2. queues[b.ack.client].batch.expectedRevision \in 1 .. Len(texts)
    BY <2>1 DEF Flight, QueueFlies
  <2>3. /\ Len(texts) \in Nat /\ Len(texts') \in Nat /\ Len(texts) <= Len(texts')
        /\ \A r \in 1 .. Len(texts) : texts'[r] = texts[r]
    BY DEF Types, DocumentTypes, TextsKept, IsDocument
  <2>4. b.ack.revision \in 1 .. Len(texts) /\ b.ack.revision \in 1 .. Len(texts')
    <3>1. b.ack.revision \in 1 .. Len(texts)
      BY <2>1 DEF Fits
    <3> QED
      BY <2>3, <3>1
  <2> QED
    BY <1>1, <2>1, <2>2, <2>3, <2>4 DEF Fits, Matches
<1>15. VerdictsFly'
  <2> SUFFICES ASSUME NEW b \in answers', Verdict(b)
               PROVE  /\ queues'[ClientOf(b)].batch # NoBatch
                      /\ ~queues'[ClientOf(b)].failed
                      /\ b.answer = "ack" => Fits(b)'
    BY DEF VerdictsFly, Verdict, ClientOf
  <2>1. CASE b = v
    BY <1>1, <1>3, <2>1
  <2>2. CASE b \in answers
    BY <1>1, <1>14, <2>2 DEF Flight, VerdictsFly
  <2> QED
    BY <1>2, <2>1, <2>2
<1>16. OneCall'
  <2> SUFFICES ASSUME NEW i \in 1 .. Len(requests'), NEW j \in 1 .. Len(requests'),
                      requests'[i].call = "apply", requests'[j].call = "apply",
                      requests'[i].batch.client = requests'[j].batch.client
               PROVE  i = j
    BY DEF OneCall
  <2>1. i + 1 = j + 1
    BY <1>4, SMTT(30) DEF Flight, OneCall
  <2> QED
    BY <1>4, <2>1
<1>17. OneVerdict'
  <2> SUFFICES ASSUME NEW b1 \in answers', NEW b2 \in answers', Verdict(b1), Verdict(b2),
                      ClientOf(b1) = ClientOf(b2)
               PROVE  b1 = b2
    BY DEF OneVerdict, Verdict, ClientOf
  <2>1. \A b \in answers : Verdict(b) => ClientOf(b) # c
    BY <1>5 DEF Judged
  <2>2. CASE b1 \in answers /\ b2 \in answers
    BY <2>2 DEF Flight, OneVerdict
  <2> QED
    BY <1>2, <1>3, <2>1, <2>2
<1>18. CallOrVerdict'
  BY <1>6, <1>7, <1>9, <1>10 DEF Flight, CallOrVerdict
<1>19. ASSUME NEW d \in 1 .. Current' PROVE QueueFlies(d)'
  <2>1. QueueFlies(d)
    BY <1>7 DEF Flight
  <2>2. queues'[d] = queues[d] /\ queues[d].revision \in 1 .. Len(texts')
    <3>1. Len(texts) \in Nat /\ Len(texts') \in Nat /\ Len(texts) <= Len(texts')
      BY DEF Types, DocumentTypes, TextsKept, IsDocument
    <3> QED
      BY <1>1, <2>1, <3>1 DEF QueueFlies
  <2>3. Called(d) \/ Judged(d) => Called(d)' \/ Judged(d)'
    BY <1>8, <1>11, <1>12
  <2> QED
    BY <2>1, <2>2, <2>3 DEF QueueFlies
<1> QED
  BY <1>13, <1>15, <1>16, <1>17, <1>18, <1>19 DEF Flight

LEMMA FlightStep ==
  ASSUME Types, Types', Flight, TextsKept, Current <= Current', Next
  PROVE  Flight'
<1>0. /\ Current \in 1 .. Current /\ Current \in Nat /\ Len(requests) \in Nat
      /\ queues[Current] \in AnyQueue /\ requests \in Seq(Call)
      /\ \A c \in 1 .. Current : QueueFlies(c)
  BY DEF Types, QueueTypes, Current, Flight
<1>1. \A c \in 1 .. Current : queues[c].batch = NoBatch => ~Called(c) /\ ~Judged(c)
  <2> SUFFICES ASSUME NEW c \in 1 .. Current, queues[c].batch = NoBatch
               PROVE  ~Called(c) /\ ~Judged(c)
    OBVIOUS
  <2>1. ~Judged(c)
    BY DEF Flight, VerdictsFly, Judged
  <2>2. ~Called(c)
    <3> SUFFICES ASSUME NEW i \in 1 .. Len(requests), requests[i].call = "apply",
                        requests[i].batch.client = c
                 PROVE  FALSE
      BY DEF Called
    <3>1. requests[i].batch = NoBatch
      BY DEF Flight, CallsFly
    <3>2. requests[i] \in Call
      BY <1>0
    <3>3. requests[i].batch \in SentBatch
      BY <3>2 DEF Call
    <3> QED
      BY <3>1, <3>3, NewBatchIsBatch
  <2> QED
    BY <2>1, <2>2
\* Nothing happens to queues, calls and verdicts.
<1>2. ASSUME UNCHANGED <<queues, requests>>,
             \A a : Verdict(a) => (a \in answers' <=> a \in answers)
      PROVE  Flight'
  <2>1. CallsStay(0) /\ Current' = Current
    BY <1>0, <1>2 DEF CallsStay, Current
  <2> QED
    BY <1>0, <1>2, <2>1, QuietFlight
\* A session or a snapshot is seen and taken over.
<1>3. ASSUME NEW a \in answers, a.answer \in {"session", "snapshot"},
             answers' = answers \ {a}, Adopt(a.revision, a.text), UNCHANGED requests
      PROVE  Flight'
  <2>1. /\ a.revision \in 1 .. Len(texts)
        /\ Current' = Current + 1
        /\ \A i \in 1 .. Current : queues'[i] = queues[i]
        /\ queues'[Current + 1] = NewQueue(a.revision, Len(a.text))
    BY <1>3, AdoptEffect DEF Types
  <2>2. FreshQueue(queues'[Current + 1])
    BY <2>1 DEF FreshQueue, NewQueue
  <2>3. CallsStay(0)
    BY <1>0, <1>3 DEF CallsStay
  <2>4. \A b : Verdict(b) => (b \in answers' <=> b \in answers)
    BY <1>3 DEF Verdict
  <2>5. \A c \in Current + 1 .. Current' : FreshQueue(queues'[c])
    BY <1>0, <2>1, <2>2
  <2> QED
    BY <2>1, <2>3, <2>4, <2>5, QuietFlight
\* The current queue pumps with more pending or more waiting.
<1>4. ASSUME NEW queue \in AnyQueue, Pump(Current, queue), UNCHANGED <<texts, answers>>,
             queue.batch = queues[Current].batch,
             queue.failed = queues[Current].failed,
             queue.revision = queues[Current].revision,
             queue.failed => queue.waiting = 0
      PROVE  Flight'
  <2>2. PICK c : c = Current
    OBVIOUS
  <2>3. Judged(c)' <=> Judged(c)
    BY <1>4 DEF Judged, Verdict, ClientOf
  <2>4. queue.batch = NoBatch => ~queue.failed /\ ~Called(c) /\ ~Judged(c)'
    BY <1>0, <1>1, <1>4, <2>2, <2>3 DEF QueueFlies
  <2>5. PumpsInFlight(c, queue)
    BY <1>0, <1>4, <2>2, <2>4 DEF PumpsInFlight, QueueFlies
  <2>6. c \in 1 .. Current /\ Pump(c, queue) /\ UNCHANGED texts
    BY <1>0, <1>4, <2>2
  <2> QED
    BY <1>4, <2>5, <2>6, PumpFlight
<1>5. CASE Type
  <2>1. UNCHANGED <<texts, answers>>
    BY <1>5 DEF Type
  <2>2. CASE UNCHANGED <<queues, requests>>
    BY <1>2, <2>1, <2>2
  <2>3. CASE Pump(Current, Enqueued)
    <3>1. Enqueued \in AnyQueue
      BY <1>5, TypeEffect
    <3>2. /\ Enqueued.batch = queues[Current].batch
          /\ Enqueued.failed = queues[Current].failed
          /\ Enqueued.revision = queues[Current].revision
          /\ Enqueued.waiting = queues[Current].waiting
      BY <1>0 DEF Enqueued, AnyQueue
    <3> QED
      BY <1>0, <1>4, <2>1, <2>3, <3>1, <3>2 DEF QueueFlies
  <2> QED
    BY <1>5, <2>2, <2>3, TypeEffect
<1>6. CASE AckArrives
  <2>1. PICK a \in answers : /\ a.answer = "ack"
                             /\ answers' = answers \ {a}
                             /\ Matches(queues[a.ack.client], a.ack)
                             /\ Pump(a.ack.client, Acknowledged(a))
                             /\ UNCHANGED texts
    BY <1>6 DEF AckArrives, Acknowledged
  <2>2. a.ack.client \in 1 .. Current /\ Acknowledged(a) \in AnyQueue
    BY <2>1, AckEffect
  <2> DEFINE c == a.ack.client
  <2>3. Verdict(a) /\ ClientOf(a) = c
    BY <2>1 DEF Verdict, ClientOf
  <2>4. Judged(c) /\ ~queues[c].failed /\ Fits(a)
    BY <2>1, <2>3 DEF Judged, Flight, VerdictsFly
  <2>5. ~Called(c) /\ ~Judged(c)'
    <3>1. ~Called(c)
      BY <2>2, <2>4 DEF Flight, CallOrVerdict
    <3>2. ~Judged(c)'
      BY <2>1, <2>3 DEF Judged, Flight, OneVerdict, Verdict, ClientOf
    <3> QED
      BY <3>1, <3>2
  <2>6. /\ Acknowledged(a).batch = NoBatch
        /\ Acknowledged(a).failed = queues[c].failed
        /\ Acknowledged(a).revision = a.ack.revision
    <3>1. queues[c] \in AnyQueue
      BY <2>2 DEF Types, QueueTypes, Current
    <3> QED
      BY <3>1 DEF Acknowledged, AnyQueue
  <2>7. PICK queue : queue = Acknowledged(a)
    OBVIOUS
  <2>8. PumpsInFlight(c, queue)
    BY <2>4, <2>5, <2>6, <2>7 DEF PumpsInFlight, Fits
  <2>9. \A b \in answers : Verdict(b) =>
          (ClientOf(b) # c \/ queue.batch # NoBatch => b \in answers')
    BY <2>1, <2>3, <2>6, <2>7
  <2> HIDE DEF c
  <2> QED
    BY <2>1, <2>2, <2>7, <2>8, <2>9, PumpFlight DEF c
<1>7. CASE BatchFails
  <2>1. PICK a : Fails(a) /\ UNCHANGED <<texts, requests>>
    BY <1>7 DEF BatchFails, Fails, ClientOf
  <2> QED
    BY <2>1, FailFlight
<1>8. CASE DraftStored
  <2>1. /\ requests' = Append(requests, SnapshotCall)
        /\ UNCHANGED <<queues, texts, answers>>
    BY <1>8 DEF DraftStored
  <2>2. SnapshotCall \in Call /\ SnapshotCall.call = "snapshot"
    BY DEF SnapshotCall, Call
  <2>3. /\ Len(requests') = Len(requests) + 1
        /\ requests'[Len(requests) + 1] = SnapshotCall
        /\ \A i \in 1 .. Len(requests) : requests'[i] = requests[i]
    BY <2>1, <2>2, AppendedCall
  <2>4. CallsStay(0) /\ Current' = Current
    BY <1>0, <2>1, <2>2, <2>3 DEF CallsStay, Current
  <2> QED
    BY <1>0, <2>1, <2>4, QuietFlight
<1>9. CASE SnapshotArrives
  BY <1>3, <1>9 DEF SnapshotArrives
<1>10. CASE SessionArrives
  <2>1. PICK a \in answers : /\ a.answer = "session"
                             /\ answers' = answers \ {a}
                             /\ Adopt(a.revision, a.text) \/ UNCHANGED queues
                             /\ UNCHANGED requests
    BY <1>10 DEF SessionArrives
  <2>2. \A b : Verdict(b) => (b \in answers' <=> b \in answers)
    BY <2>1 DEF Verdict
  <2> QED
    BY <1>2, <1>3, <2>1, <2>2
<1>11. CASE SessionChanged
  <2>1. UNCHANGED <<texts, answers>>
    BY <1>11 DEF SessionChanged
  <2>2. \/ UNCHANGED <<queues, requests>>
        \/ ~queues[Current].failed /\ Pump(Current, Awaited)
    BY <1>11 DEF SessionChanged, Awaited
  <2>3. CASE UNCHANGED <<queues, requests>>
    BY <1>2, <2>1, <2>3
  <2>4. CASE ~queues[Current].failed /\ Pump(Current, Awaited)
    <3>1. /\ Awaited.batch = queues[Current].batch
          /\ Awaited.failed = queues[Current].failed
          /\ Awaited.revision = queues[Current].revision
      BY <1>0 DEF Awaited, AnyQueue
    <3> QED
      BY <1>4, <2>1, <2>4, <3>1, AwaitedIsQueue
  <2> QED
    BY <2>2, <2>3, <2>4
<1>12. CASE ExecuteBatch
  BY <1>12, BatchFlight
<1>13. CASE ExecuteGet \/ ExecuteSnapshot
  <2>1. PICK name \in {"session", "snapshot"} : answers' = answers \cup {Snapshot(name)}
    BY <1>13 DEF ExecuteGet, ExecuteSnapshot
  <2>2. /\ requests # << >> /\ Head(requests).call # "apply"
        /\ requests' = Tail(requests) /\ UNCHANGED <<queues, texts>>
    BY <1>13 DEF ExecuteGet, ExecuteSnapshot, TakeCall
  <2>3. /\ requests[1].call # "apply" /\ Len(requests') = Len(requests) - 1
        /\ \A i \in 1 .. Len(requests') : requests'[i] = requests[i + 1]
    BY <1>0, <2>2
  <2>4. CallsStay(1) /\ Current' = Current
    BY <1>0, <2>2, <2>3 DEF CallsStay, Current
  <2>5. \A b : Verdict(b) => (b \in answers' <=> b \in answers)
    BY <2>1 DEF Verdict, Snapshot
  <2> QED
    BY <1>0, <2>2, <2>4, <2>5, QuietFlight
<1>14. CASE Remount \/ DraftFails \/ ForeignWrite
  <2>1. UNCHANGED <<queues, requests, answers>>
    BY <1>14 DEF Remount, DraftFails, ForeignWrite
  <2> QED
    BY <1>2, <2>1
<1> QED
  BY <1>5, <1>6, <1>7, <1>8, <1>9, <1>10, <1>11, <1>12, <1>13, <1>14
     DEF Next, Window, Backend

-----------------------------------------------------------------------------
(* What a queue still has to deliver, over a step *)

\* The keystrokes a queue still has to deliver.
UnsentOf(queue) ==
  (IF queue.batch = NoBatch THEN << >> ELSE queue.batch.payload) \o queue.pending

Stays(c) ==
  /\ c \in 1 .. Current
  /\ UnsentOf(queues'[c]) = UnsentOf(queues[c])
  /\ queues'[c].revision = queues[c].revision
  /\ queues'[c].optimistic = queues[c].optimistic

Grows(c) ==
  /\ Type
  /\ c = Current
  /\ Len(editor) = queues[c].optimistic
  /\ UnsentOf(queues'[c]) =
       Append(UnsentOf(queues[c]), [before |-> Len(editor), key |-> typed + 1])
  /\ queues'[c].revision = queues[c].revision
  /\ queues'[c].optimistic = queues[c].optimistic + 1

Shrinks(c) ==
  /\ c \in 1 .. Current
  /\ UNCHANGED <<screen, texts>>
  /\ queues[c].batch # NoBatch
  /\ UnsentOf(queues'[c]) = queues[c].pending
  /\ queues'[c].revision = queues[c].revision + 1
  /\ queues'[c].revision \in 1 .. Len(texts)
  /\ texts[queues'[c].revision] =
       texts[queues[c].revision] \o KeysOf(queues[c].batch.payload)
  /\ queues'[c].optimistic = queues[c].optimistic

Starts(c) ==
  /\ c = Current + 1
  /\ UNCHANGED texts
  /\ queues'[c].revision \in 1 .. Len(texts)
  /\ UnsentOf(queues'[c]) = << >>
  /\ queues'[c].optimistic = Len(texts[queues'[c].revision])

LEMMA UnsentTyped ==
  ASSUME NEW queue \in AnyQueue
  PROVE  /\ UnsentOf(queue) \in Seq(Tx)
         /\ queue.batch = NoBatch => UnsentOf(queue) = queue.pending
         /\ queue.batch # NoBatch =>
              /\ queue.batch.payload \in Seq(Tx)
              /\ UnsentOf(queue) = queue.batch.payload \o queue.pending
<1>1. queue.pending \in Seq(Tx)
  BY DEF AnyQueue
<1>2. CASE queue.batch = NoBatch
  <2>1. UnsentOf(queue) = << >> \o queue.pending
    BY <1>2 DEF UnsentOf
  <2> QED
    BY <1>1, <1>2, <2>1, ConcatEmptySeq
<1>3. CASE queue.batch # NoBatch
  <2>1. queue.batch \in SentBatch
    BY <1>3 DEF AnyQueue
  <2>2. queue.batch.payload \in Seq(Tx)
    BY <2>1 DEF SentBatch
  <2>3. UnsentOf(queue) = queue.batch.payload \o queue.pending
    BY <1>3 DEF UnsentOf
  <2> QED
    BY <1>1, <1>3, <2>2, <2>3, ConcatProperties
<1> QED
  BY <1>2, <1>3

\* Pump moves keystrokes from one place to the other.
LEMMA PumpKeepsUnsent ==
  ASSUME Types, NEW c \in 1 .. Current, NEW queue \in AnyQueue, Pump(c, queue)
  PROVE  /\ Current' = Current
         /\ \A i \in 1 .. Current : i # c => queues'[i] = queues[i]
         /\ UnsentOf(queues'[c]) = UnsentOf(queue)
         /\ queues'[c].revision = queue.revision
         /\ queues'[c].optimistic = queue.optimistic
<1>1. /\ QueueTypes' /\ Len(queues') = Len(queues)
      /\ \A i \in 1 .. Len(queues) : i # c => queues'[i] = queues[i]
      /\ Sends(c, queue) \/ Holds(c, queue) \/ Releases(c, queue)
  BY PumpEffect DEF Types
<1>2. queues'[c] \in AnyQueue
  BY <1>1 DEF QueueTypes, Current
<1> DEFINE next == queues'[c]
<1>3. UnsentOf(next) = UnsentOf(queue)
  <2>1. CASE Sends(c, queue)
    <3>1. /\ next.batch = TakePendingBatch(c, queue) /\ next.pending = << >>
          /\ queue.batch = NoBatch
      BY <2>1 DEF Sends, AnyQueue
    <3>2. TakePendingBatch(c, queue).payload = queue.pending /\ queue.pending \in Seq(Tx)
      BY DEF TakePendingBatch, AnyQueue
    <3>3. TakePendingBatch(c, queue) # NoBatch
      <4>1. TakePendingBatch(c, queue) \in SentBatch
        BY DEF TakePendingBatch, SentBatch, AnyQueue, Types, QueueTypes, Current
      <4> QED
        BY <4>1, NewBatchIsBatch
    <3>4. UnsentOf(next) = queue.pending \o << >>
      BY <3>1, <3>2, <3>3 DEF UnsentOf
    <3>5. UnsentOf(queue) = queue.pending
      BY <3>1, UnsentTyped
    <3> QED
      BY <3>2, <3>4, <3>5, ConcatEmptySeq
  <2>2. CASE Holds(c, queue)
    BY <2>2 DEF Holds
  <2>3. CASE Releases(c, queue)
    <3>1. next.batch = queue.batch /\ next.pending = queue.pending
      BY <2>3 DEF Releases, AnyQueue
    <3> QED
      BY <3>1 DEF UnsentOf
  <2> QED
    BY <1>1, <2>1, <2>2, <2>3
<1>4. next.revision = queue.revision /\ next.optimistic = queue.optimistic
  BY <1>1 DEF Sends, Holds, Releases, AnyQueue
<1> QED
  BY <1>1, <1>3, <1>4 DEF Current

\* What is on the screen, or is about to be.
Shown == IF binding = NoText THEN editor ELSE binding

\* The four kinds of steps.
Quiet ==
  /\ Current' = Current
  /\ \A c \in 1 .. Current : Stays(c)
  /\ \/ Shown' = Shown /\ UNCHANGED <<typed, overtyped>>
     \/ Type /\ Len(editor) # queues[Current].optimistic

Typing ==
  /\ Current' = Current
  /\ Grows(Current)
  /\ \A c \in 1 .. Current : c # Current => Stays(c)

Acknowledging ==
  /\ Current' = Current
  /\ \E d \in 1 .. Current : /\ Shrinks(d)
                             /\ \A c \in 1 .. Current : c # d => Stays(c)

Adopting ==
  /\ Current' = Current + 1
  /\ Starts(Current + 1)
  /\ \A c \in 1 .. Current : Stays(c)
  /\ Shown' = texts[queues'[Current + 1].revision]
  /\ UNCHANGED <<typed, overtyped>>

LEMMA AppendedBehind ==
  ASSUME NEW s \in Seq(Tx), NEW t \in Seq(Tx), NEW tx \in Tx
  PROVE  s \o Append(t, tx) = Append(s \o t, tx)
BY SMTT(10)

LEMMA StepKinds ==
  ASSUME Types, Types', Flight, Next
  PROVE  Quiet \/ Typing \/ Acknowledging \/ Adopting
<1>0. /\ Current \in 1 .. Current /\ Current \in Nat
      /\ queues \in Seq(AnyQueue) /\ queues[Current] \in AnyQueue
  BY DEF Types, QueueTypes, Current
<1>1. ASSUME UNCHANGED queues, Shown' = Shown /\ UNCHANGED <<typed, overtyped>>
      PROVE  Quiet
  BY <1>1 DEF Quiet, Stays, Current
<1>2. UNCHANGED screen => Shown' = Shown /\ UNCHANGED <<typed, overtyped>>
  BY DEF screen, Shown
<1>3. ASSUME NEW a \in answers, a.answer \in {"session", "snapshot"},
             Adopt(a.revision, a.text), Shown' = a.text, UNCHANGED <<texts, typed, overtyped>>
      PROVE  Adopting
  <2>1. /\ a.revision \in 1 .. Len(texts) /\ a.text = texts[a.revision]
        /\ Current' = Current + 1
        /\ \A i \in 1 .. Current : queues'[i] = queues[i]
        /\ queues'[Current + 1] = NewQueue(a.revision, Len(a.text))
    BY <1>3, AdoptEffect DEF Types
  <2>2. /\ queues'[Current + 1].revision = a.revision
        /\ queues'[Current + 1].optimistic = Len(a.text)
        /\ queues'[Current + 1].batch = NoBatch /\ queues'[Current + 1].pending = << >>
    BY <2>1 DEF NewQueue
  <2>3. UnsentOf(queues'[Current + 1]) = << >>
    <3>1. << >> \o << >> = << >>
      OBVIOUS
    <3> QED
      BY <2>2, <3>1 DEF UnsentOf
  <2> QED
    BY <1>3, <2>1, <2>2, <2>3 DEF Adopting, Starts, Stays
<1>4. ASSUME NEW queue \in AnyQueue, Pump(Current, queue), UNCHANGED screen,
             queue.batch = queues[Current].batch,
             queue.pending = queues[Current].pending,
             queue.revision = queues[Current].revision,
             queue.optimistic = queues[Current].optimistic
      PROVE  Quiet
  <2>1. UnsentOf(queue) = UnsentOf(queues[Current])
    BY <1>4 DEF UnsentOf
  <2>2. /\ Current' = Current
        /\ \A i \in 1 .. Current : i # Current => queues'[i] = queues[i]
        /\ UnsentOf(queues'[Current]) = UnsentOf(queue)
        /\ queues'[Current].revision = queue.revision
        /\ queues'[Current].optimistic = queue.optimistic
    BY <1>0, <1>4, PumpKeepsUnsent
  <2> QED
    BY <1>2, <1>4, <2>1, <2>2 DEF Quiet, Stays
<1>5. CASE Type
  <2> DEFINE tx == [before |-> Len(editor), key |-> typed']
             queue == queues[Current]
  <2>1. /\ typed' = typed + 1 /\ typed' \in Nat
        /\ Enqueued \in AnyQueue
        /\ \/ Len(editor) = queue.optimistic /\ Pump(Current, Enqueued)
           \/ Len(editor) # queue.optimistic /\ UNCHANGED <<queues, requests>>
    BY <1>5, TypeEffect
  <2>2. CASE Len(editor) # queue.optimistic /\ UNCHANGED <<queues, requests>>
    BY <1>5, <2>2 DEF Quiet, Stays, Current
  <2>3. CASE Len(editor) = queue.optimistic /\ Pump(Current, Enqueued)
    <3>1. /\ Enqueued.batch = queue.batch
          /\ Enqueued.pending = Append(queue.pending, tx)
          /\ Enqueued.revision = queue.revision
          /\ Enqueued.optimistic = queue.optimistic + 1
      BY <1>0 DEF Enqueued, AnyQueue
    <3>2. tx \in Tx /\ queue.pending \in Seq(Tx)
      BY <1>0, <2>1, SMTT(30) DEF Tx, AnyQueue, Types, ScreenTypes
    <3>3. UnsentOf(Enqueued) = Append(UnsentOf(queue), tx)
      <4> HIDE DEF tx, queue
      <4>1. CASE queue.batch = NoBatch
        <5>1. UnsentOf(Enqueued) = Enqueued.pending /\ UnsentOf(queue) = queue.pending
          BY <1>0, <2>1, <3>1, <4>1, UnsentTyped DEF queue
        <5> QED
          BY <3>1, <5>1
      <4>2. CASE queue.batch # NoBatch
        <5> DEFINE payload == queue.batch.payload
                   pending == queue.pending
        <5>1. /\ payload \in Seq(Tx)
              /\ UnsentOf(Enqueued) = payload \o Append(pending, tx)
              /\ UnsentOf(queue) = payload \o pending
          BY <1>0, <2>1, <3>1, <4>2, UnsentTyped DEF queue
        <5>2. payload \o Append(pending, tx) = Append(payload \o pending, tx)
          <6> HIDE DEF payload, pending
          <6>1. pending \in Seq(Tx)
            BY <3>2 DEF pending
          <6> QED
            BY <3>2, <5>1, <6>1, AppendedBehind
        <5> QED
          BY <5>1, <5>2
      <4> QED
        BY <4>1, <4>2
    <3>4. /\ Current' = Current
          /\ \A i \in 1 .. Current : i # Current => queues'[i] = queues[i]
          /\ UnsentOf(queues'[Current]) = UnsentOf(Enqueued)
          /\ queues'[Current].revision = Enqueued.revision
          /\ queues'[Current].optimistic = Enqueued.optimistic
      BY <1>0, <2>1, <2>3, PumpKeepsUnsent
    <3> QED
      BY <1>5, <2>1, <2>3, <3>1, <3>3, <3>4 DEF Typing, Grows, Stays
  <2> QED
    BY <2>1, <2>2, <2>3
<1>6. CASE AckArrives
  <2>1. PICK a \in answers : /\ a.answer = "ack"
                             /\ Matches(queues[a.ack.client], a.ack)
                             /\ Pump(a.ack.client, Acknowledged(a))
                             /\ UNCHANGED <<texts, screen>>
    BY <1>6 DEF AckArrives, Acknowledged
  <2> DEFINE c == a.ack.client
             queue == queues[c]
  <2>2. c \in 1 .. Current /\ Acknowledged(a) \in AnyQueue /\ queue \in AnyQueue
    BY <1>0, <2>1, AckEffect DEF Current
  <2>3. /\ Verdict(a) /\ ClientOf(a) = c
        /\ queue.batch # NoBatch /\ Fits(a)
    BY <2>1 DEF Verdict, ClientOf, Flight, VerdictsFly
  <2>4. queue.batch.expectedRevision = queue.revision
    BY <2>2, <2>3 DEF Flight, QueueFlies
  <2>5. /\ a.ack.revision = queue.revision + 1
        /\ a.ack.revision \in 1 .. Len(texts)
        /\ texts[a.ack.revision] = texts[queue.revision] \o KeysOf(queue.batch.payload)
    BY <2>3, <2>4 DEF Fits, Matches
  <2>6. /\ Acknowledged(a).batch = NoBatch
        /\ Acknowledged(a).pending = queue.pending
        /\ Acknowledged(a).revision = a.ack.revision
        /\ Acknowledged(a).optimistic = queue.optimistic
    BY <2>2 DEF Acknowledged, AnyQueue
  <2>7. UnsentOf(Acknowledged(a)) = queue.pending
    BY <2>2, <2>6, UnsentTyped
  <2>8. /\ Current' = Current
        /\ \A i \in 1 .. Current : i # c => queues'[i] = queues[i]
        /\ UnsentOf(queues'[c]) = UnsentOf(Acknowledged(a))
        /\ queues'[c].revision = Acknowledged(a).revision
        /\ queues'[c].optimistic = Acknowledged(a).optimistic
    BY <2>1, <2>2, PumpKeepsUnsent
  <2>9. Shrinks(c)
    BY <2>1, <2>2, <2>3, <2>5, <2>6, <2>7, <2>8 DEF Shrinks
  <2>10. \A i \in 1 .. Current : i # c => Stays(i)
    BY <2>8 DEF Stays
  <2> HIDE DEF c
  <2> QED
    BY <2>2, <2>8, <2>9, <2>10 DEF Acknowledging
<1>7. CASE BatchFails
  <2>1. PICK a : Fails(a) /\ UNCHANGED screen
    BY <1>7 DEF BatchFails, Fails, ClientOf
  <2>2. /\ ClientOf(a) \in 1 .. Current
        /\ Len(queues') = Len(queues)
        /\ \A i \in 1 .. Len(queues) : i # ClientOf(a) => queues'[i] = queues[i]
        /\ queues'[ClientOf(a)] =
             [queues[ClientOf(a)] EXCEPT !.failed = TRUE, !.waiting = 0]
    BY <2>1, FailEffect, ZenonT(30)
  <2> DEFINE c == ClientOf(a)
  <2>3. queues[c] \in AnyQueue
    BY <1>0, <2>2 DEF Current
  <2> HIDE DEF c
  <2>4. /\ queues'[c].batch = queues[c].batch /\ queues'[c].pending = queues[c].pending
        /\ queues'[c].revision = queues[c].revision
        /\ queues'[c].optimistic = queues[c].optimistic
    BY <2>2, <2>3 DEF AnyQueue, c
  <2>5. \A i \in 1 .. Current : Stays(i)
    BY <2>2, <2>4 DEF Stays, UnsentOf, Current, c
  <2> QED
    BY <1>2, <2>1, <2>2, <2>5 DEF Quiet, Current
<1>8. CASE SnapshotArrives
  <2>1. PICK a \in answers : /\ a.answer = "snapshot"
                             /\ Adopt(a.revision, a.text)
                             /\ binding' = a.text
                             /\ UNCHANGED <<texts, typed, overtyped>>
    BY <1>8 DEF SnapshotArrives
  <2>2. a.text \in Seq(Nat)
    BY <2>1, AdoptEffect DEF Types
  <2>3. Shown' = a.text
    BY <2>1, <2>2, MarkersAssumption DEF Shown
  <2> QED
    BY <1>3, <2>1, <2>3
<1>9. CASE SessionArrives
  <2>1. PICK a \in answers :
          /\ a.answer = "session"
          /\ \/ /\ Adopt(a.revision, a.text)
                /\ editor' = a.text
                /\ binding' = IF binding = NoText THEN NoText ELSE a.text
             \/ UNCHANGED <<queues, editor, binding>>
          /\ UNCHANGED <<texts, typed, overtyped>>
    BY <1>9 DEF SessionArrives
  <2>2. CASE UNCHANGED <<queues, editor, binding>>
    BY <1>1, <2>1, <2>2 DEF Shown
  <2>3. CASE /\ Adopt(a.revision, a.text)
             /\ editor' = a.text
             /\ binding' = IF binding = NoText THEN NoText ELSE a.text
    <3>1. Shown' = a.text
      BY <2>3 DEF Shown
    <3> QED
      BY <1>3, <2>1, <2>3, <3>1
  <2> QED
    BY <2>1, <2>2, <2>3
<1>10. CASE SessionChanged
  <2>1. UNCHANGED screen /\ (UNCHANGED queues \/ Pump(Current, Awaited))
    BY <1>10 DEF SessionChanged, Awaited
  <2>2. /\ Awaited.batch = queues[Current].batch
        /\ Awaited.pending = queues[Current].pending
        /\ Awaited.revision = queues[Current].revision
        /\ Awaited.optimistic = queues[Current].optimistic
    BY <1>0 DEF Awaited, AnyQueue
  <2> QED
    BY <1>1, <1>2, <1>4, <2>1, <2>2, AwaitedIsQueue
<1>11. CASE Remount
  BY <1>1, <1>11 DEF Remount, Shown
<1>12. CASE Backend \/ DraftStored \/ DraftFails
  <2>1. UNCHANGED <<queues, screen>>
    BY <1>12 DEF Backend, ExecuteBatch, ExecuteGet, ExecuteSnapshot, TakeCall, ForeignWrite,
         DraftStored, DraftFails
  <2> QED
    BY <1>1, <1>2, <2>1
<1> QED
  BY <1>5, <1>6, <1>7, <1>8, <1>9, <1>10, <1>11, <1>12 DEF Next, Window

-----------------------------------------------------------------------------
(* Keystrokes in order *)

\* What a queue has to deliver was typed, in this order, and after everything
\* in the revisions up to the one the queue knows.
OrderedIn(queue) ==
  LET unsent == UnsentOf(queue)
  IN  /\ \A i \in 1 .. Len(unsent) :
           /\ unsent[i].key \in 1 .. typed
           /\ \A r \in 1 .. queue.revision : \A k \in 1 .. Len(texts[r]) :
                texts[r][k] < unsent[i].key
      /\ \A i, j \in 1 .. Len(unsent) : i < j => unsent[i].key < unsent[j].key

QueuesAreOrdered == \A c \in 1 .. Current : OrderedIn(queues[c])

KeysIn(revisions) == {0} \cup UNION {Range(revisions[r]) : r \in 1 .. Len(revisions)}

TextsAreTyped == \A key \in KeysIn(texts) : key <= typed

IsLast(key, keys) == key \in keys /\ \A k \in keys : k <= key

Order ==
  /\ QueuesAreOrdered
  /\ TextsAreTyped
  /\ \E key \in KeysIn(texts) : IsLast(key, KeysIn(texts))

\* Where the keys of a list of texts come from, and what the last one is.
HasKey(text, key) == \E i \in 1 .. Len(text) : key = text[i]

LEMMA KeysInTexts ==
  ASSUME NEW revisions \in Seq(Seq(Nat))
  PROVE  /\ \A k : k \in KeysIn(revisions) <=>
              k = 0 \/ \E r \in 1 .. Len(revisions) : HasKey(revisions[r], k)
         /\ KeysIn(revisions) \subseteq Nat
<1>1. ASSUME NEW r \in 1 .. Len(revisions), NEW k
      PROVE  /\ k \in Range(revisions[r]) <=> HasKey(revisions[r], k)
             /\ HasKey(revisions[r], k) => k \in Nat
  <2>1. revisions[r] \in Seq(Nat)
    OBVIOUS
  <2>2. DOMAIN revisions[r] = 1 .. Len(revisions[r])
    BY <2>1
  <2>3. \A i \in 1 .. Len(revisions[r]) : revisions[r][i] \in Nat
    BY <2>1
  <2> QED
    BY <2>2, <2>3 DEF Range, HasKey
<1>2. ASSUME NEW k
      PROVE  k \in KeysIn(revisions) <=>
               k = 0 \/ \E r \in 1 .. Len(revisions) : k \in Range(revisions[r])
  BY DEF KeysIn
<1>3. ASSUME NEW k
      PROVE  k \in KeysIn(revisions) <=>
               k = 0 \/ \E r \in 1 .. Len(revisions) : HasKey(revisions[r], k)
  BY <1>1, <1>2
<1>4. ASSUME NEW k \in KeysIn(revisions) PROVE k \in Nat
  BY <1>1, <1>3
<1> QED
  BY <1>3, <1>4

LEMMA LastIsMax ==
  ASSUME NEW revisions \in Seq(Seq(Nat)), NEW key, IsLast(key, KeysIn(revisions))
  PROVE  Max(KeysIn(revisions)) = key
<1> DEFINE keys == KeysIn(revisions)
<1>1. keys \subseteq Nat /\ key \in keys /\ \A k \in keys : k <= key
  BY KeysInTexts DEF IsLast
<1> HIDE DEF keys
<1>2. \A x \in keys : (\A y \in keys : x >= y) => x = key
  BY <1>1
<1>3. \A y \in keys : key >= y
  BY <1>1
<1>4. Max(keys) = key
  BY <1>1, <1>2, <1>3 DEF Max
<1> QED
  BY <1>4 DEF keys

\* A text more: its keys join the others.
LEMMA KeysJoin ==
  ASSUME NEW before \in Seq(Seq(Nat)), NEW after \in Seq(Seq(Nat)),
         Len(after) = Len(before) + 1,
         \A r \in 1 .. Len(before) : after[r] = before[r]
  PROVE  \A k : k \in KeysIn(after) <=>
           k \in KeysIn(before) \/ HasKey(after[Len(after)], k)
<1>1. Len(before) \in Nat /\ Len(after) \in Nat
  OBVIOUS
<1>2. \A r \in 1 .. Len(after) : r \in 1 .. Len(before) \/ r = Len(after)
  BY <1>1
<1>3. Len(after) \in 1 .. Len(after) /\ \A r \in 1 .. Len(before) : r \in 1 .. Len(after)
  BY <1>1
<1> SUFFICES ASSUME NEW k
             PROVE  k \in KeysIn(after) <=>
                      k \in KeysIn(before) \/ HasKey(after[Len(after)], k)
  OBVIOUS
<1>4. k \in KeysIn(before) <=>
        k = 0 \/ \E r \in 1 .. Len(before) : HasKey(before[r], k)
  BY KeysInTexts
<1>5. k \in KeysIn(after) <=>
        k = 0 \/ \E r \in 1 .. Len(after) : HasKey(after[r], k)
  BY KeysInTexts
<1> QED
  BY <1>2, <1>3, <1>4, <1>5

LEMMA OrderStays ==
  ASSUME Types, Types', TextsKept, typed <= typed', NEW old, NEW new, OrderedIn(old),
         old.revision \in 1 .. Len(texts),
         new.revision = old.revision, UnsentOf(new) = UnsentOf(old)
  PROVE  OrderedIn(new)'
<1>1. /\ typed \in Nat /\ typed' \in Nat /\ Len(texts) \in Nat
      /\ \A r \in 1 .. Len(texts) : texts'[r] = texts[r]
  BY DEF Types, ScreenTypes, DocumentTypes, TextsKept
<1>2. \A r \in 1 .. new.revision : texts'[r] = texts[r]
  BY <1>1
<1>3. \A key \in 1 .. typed : key \in 1 .. typed'
  BY <1>1
<1>4. UnsentOf(new)' = UnsentOf(new)
  BY DEF UnsentOf
<1> QED
  BY <1>2, <1>3, <1>4 DEF OrderedIn

LEMMA OrderGrows ==
  ASSUME Types, Types', UNCHANGED texts, typed' = typed + 1, TextsAreTyped,
         NEW old \in AnyQueue, NEW new, OrderedIn(old),
         old.revision \in 1 .. Len(texts), new.revision = old.revision,
         UnsentOf(new) =
           Append(UnsentOf(old), [before |-> Len(editor), key |-> typed + 1])
  PROVE  OrderedIn(new)'
<1> DEFINE tx == [before |-> Len(editor), key |-> typed + 1]
           unsent == UnsentOf(old)
           more == UnsentOf(new)
<1>1. /\ typed \in Nat /\ typed' = typed + 1 /\ Len(texts) \in Nat /\ texts' = texts
      /\ texts \in Seq(Seq(Nat))
  BY DEF Types, ScreenTypes, DocumentTypes
<1>2. tx.key = typed + 1 /\ more = Append(unsent, tx) /\ unsent \in Seq(Tx)
  BY UnsentTyped
<1>3. /\ \A i \in 1 .. Len(unsent) : unsent[i].key \in 1 .. typed
      /\ \A i \in 1 .. Len(unsent) : \A r \in 1 .. old.revision :
           \A k \in 1 .. Len(texts[r]) : texts[r][k] < unsent[i].key
      /\ \A i, j \in 1 .. Len(unsent) : i < j => unsent[i].key < unsent[j].key
  BY DEF OrderedIn
<1>4. more' = more
  BY DEF UnsentOf
<1>5. \A r \in 1 .. old.revision : \A k \in 1 .. Len(texts[r]) : texts[r][k] < typed + 1
  <2> SUFFICES ASSUME NEW r \in 1 .. old.revision, NEW k \in 1 .. Len(texts[r])
               PROVE  texts[r][k] < typed + 1
    OBVIOUS
  <2>1. r \in 1 .. Len(texts)
    BY <1>1
  <2>2. texts[r][k] <= typed
    <3>1. HasKey(texts[r], texts[r][k])
      BY DEF HasKey
    <3>2. texts[r][k] \in KeysIn(texts)
      BY <1>1, <2>1, <3>1, KeysInTexts
    <3> QED
      BY <3>2 DEF TextsAreTyped
  <2>3. texts[r] \in Seq(Nat)
    BY <1>1, <2>1
  <2>4. texts[r][k] \in Nat
    BY <2>3, SMTT(30)
  <2> QED
    BY <1>1, <2>2, <2>4, SMTT(30)
<1> HIDE DEF tx, unsent, more
<1>6. /\ Len(unsent) \in Nat /\ Len(more) = Len(unsent) + 1
      /\ \A i \in 1 .. Len(unsent) : more[i] = unsent[i]
      /\ more[Len(unsent) + 1] = tx
  <2>1. unsent \in Seq(Tx) /\ tx \in Tx
    BY <1>1, <1>2 DEF tx, Tx, Types, ScreenTypes
  <2> QED
    BY <1>2, <2>1
<1>7. \A i \in 1 .. Len(more) :
        i \in 1 .. Len(unsent) \/ (i = Len(unsent) + 1 /\ more[i].key = typed + 1)
  BY <1>2, <1>6
<1>8. ASSUME NEW i \in 1 .. Len(more) PROVE more[i].key \in 1 .. typed + 1
  <2>1. CASE i \in 1 .. Len(unsent)
    <3>1. more[i].key \in 1 .. typed
      BY <1>3, <1>6, <2>1
    <3> QED
      BY <1>1, <3>1
  <2>2. CASE more[i].key = typed + 1
    BY <1>1, <2>2
  <2> QED
    BY <1>7, <2>1, <2>2
<1>9. \A i \in 1 .. Len(more) : \A r \in 1 .. old.revision :
        \A k \in 1 .. Len(texts[r]) : texts[r][k] < more[i].key
  BY <1>3, <1>5, <1>6, <1>7
<1>10. ASSUME NEW i \in 1 .. Len(more), NEW j \in 1 .. Len(more), i < j
       PROVE  more[i].key < more[j].key
  <2>1. i \in 1 .. Len(unsent)
    BY <1>6, <1>10
  <2>2. CASE j \in 1 .. Len(unsent)
    BY <1>3, <1>6, <1>10, <2>1, <2>2
  <2>3. CASE j = Len(unsent) + 1 /\ more[j].key = typed + 1
    <3>1. more[i].key \in 1 .. typed
      BY <1>3, <1>6, <2>1
    <3> QED
      BY <1>1, <2>3, <3>1
  <2> QED
    BY <1>7, <2>2, <2>3
<1> QED
  BY <1>1, <1>4, <1>8, <1>9, <1>10 DEF OrderedIn, more

LEMMA OrderShrinks ==
  ASSUME Types, UNCHANGED <<texts, typed>>,
         NEW old \in AnyQueue, NEW new, OrderedIn(old), old.batch # NoBatch,
         old.revision \in 1 .. Len(texts), new.revision = old.revision + 1,
         new.revision \in 1 .. Len(texts), UnsentOf(new) = old.pending,
         texts[new.revision] = texts[old.revision] \o KeysOf(old.batch.payload)
  PROVE  OrderedIn(new)'
<1> DEFINE payload == old.batch.payload
           pending == old.pending
           unsent == UnsentOf(old)
           text == texts[old.revision]
<1>1. payload \in Seq(Tx) /\ pending \in Seq(Tx) /\ unsent = payload \o pending
  BY UnsentTyped DEF AnyQueue
<1>2. /\ texts \in Seq(Seq(Nat)) /\ texts' = texts /\ typed' = typed /\ Len(texts) \in Nat
      /\ old.revision \in Nat
  BY DEF Types, DocumentTypes
<1>3. text \in Seq(Nat) /\ texts[new.revision] = text \o KeysOf(payload)
  BY <1>2
<1>4. /\ \A i \in 1 .. Len(unsent) : unsent[i].key \in 1 .. typed
      /\ \A i \in 1 .. Len(unsent) : \A r \in 1 .. old.revision :
           \A k \in 1 .. Len(texts[r]) : texts[r][k] < unsent[i].key
      /\ \A i, j \in 1 .. Len(unsent) : i < j => unsent[i].key < unsent[j].key
  BY DEF OrderedIn
<1>5. \A k \in 1 .. Len(text) : \A i \in 1 .. Len(unsent) : text[k] < unsent[i].key
  <2>1. old.revision \in 1 .. old.revision
    BY <1>2
  <2> QED
    BY <1>4, <2>1
<1>6. UnsentOf(new)' = UnsentOf(new)
  BY DEF UnsentOf
<1>7. /\ KeysOf(payload) \in Seq(Nat) /\ Len(KeysOf(payload)) = Len(payload)
      /\ \A i \in 1 .. Len(payload) : KeysOf(payload)[i] = payload[i].key
  BY <1>1, KeysAreNaturals
<1> DEFINE keys == KeysOf(payload)
<1> HIDE DEF payload, pending, unsent, text, keys
<1>8. /\ Len(payload) \in Nat /\ Len(pending) \in Nat
      /\ Len(unsent) = Len(payload) + Len(pending)
      /\ \A i \in 1 .. Len(payload) : unsent[i] = payload[i]
      /\ \A i \in 1 .. Len(pending) : unsent[Len(payload) + i] = pending[i]
  BY <1>1
<1>9. \A i \in 1 .. Len(pending) :
        /\ Len(payload) + i \in 1 .. Len(unsent)
        /\ pending[i] = unsent[Len(payload) + i]
  BY <1>8
<1>10. \A i \in 1 .. Len(payload) : i \in 1 .. Len(unsent) /\ payload[i] = unsent[i]
  BY <1>8
<1>11. \A i \in 1 .. Len(pending) : pending[i].key \in 1 .. typed
  BY <1>4, <1>9
<1>12. ASSUME NEW i \in 1 .. Len(pending), NEW j \in 1 .. Len(pending), i < j
       PROVE  pending[i].key < pending[j].key
  <2>1. Len(payload) + i < Len(payload) + j
    BY <1>8, <1>12
  <2> QED
    BY <1>4, <1>9, <2>1
<1>13. \A i \in 1 .. Len(pending) : \A j \in 1 .. Len(payload) : payload[j].key < pending[i].key
  <2>1. \A i \in 1 .. Len(pending) : \A j \in 1 .. Len(payload) : j < Len(payload) + i
    BY <1>8
  <2> QED
    BY <1>4, <1>9, <1>10, <2>1
<1>14. ASSUME NEW i \in 1 .. Len(pending), NEW k \in 1 .. Len(texts[new.revision])
       PROVE  texts[new.revision][k] < pending[i].key
  <2>1. /\ keys \in Seq(Nat) /\ Len(keys) = Len(payload) /\ text \in Seq(Nat)
        /\ texts[new.revision] = text \o keys
        /\ \A j \in 1 .. Len(payload) : keys[j] = payload[j].key
    BY <1>3, <1>7 DEF keys
  <2>2. \/ k \in 1 .. Len(text) /\ texts[new.revision][k] = text[k]
        \/ /\ k - Len(text) \in 1 .. Len(payload)
           /\ texts[new.revision][k] = keys[k - Len(text)]
    BY <2>1
  <2> QED
    BY <1>5, <1>9, <1>13, <2>1, <2>2
<1>15. ASSUME NEW i \in 1 .. Len(pending), NEW r \in 1 .. new.revision,
              NEW k \in 1 .. Len(texts[r])
       PROVE  texts[r][k] < pending[i].key
  <2>1. CASE r = new.revision
    BY <1>14, <2>1
  <2>2. CASE r \in 1 .. old.revision
    BY <1>4, <1>9, <2>2
  <2> QED
    BY <1>2, <2>1, <2>2
<1> QED
  BY <1>2, <1>6, <1>11, <1>12, <1>15 DEF OrderedIn, pending

\* The texts change by an accepted batch or by another writer.
Overwrites ==
  /\ UNCHANGED <<screen, queues>>
  /\ Len(texts') = Len(texts) + 1
  /\ \A r \in 1 .. Len(texts) : texts'[r] = texts[r]
  /\ texts'[Len(texts) + 1] \in {<<Foreign>>, Append(doc.text, Foreign)}
  /\ doc'.text = texts'[Len(texts) + 1]

LEMMA DocumentKinds ==
  ASSUME Types, Flight, Next
  PROVE  \/ UNCHANGED <<doc, texts>>
         \/ ExecuteBatch /\ AcceptsTaken
         \/ Overwrites
<1>1. CASE Window
  BY <1>1 DEF Window, Type, AckArrives, BatchFails, DraftStored, DraftFails,
       SnapshotArrives, Remount, SessionChanged, SessionArrives
<1>2. CASE ExecuteBatch
  BY <1>2, BatchEffect DEF RefusesTaken
<1>3. CASE ExecuteGet \/ ExecuteSnapshot
  BY <1>3 DEF ExecuteGet, ExecuteSnapshot
<1>4. CASE ForeignWrite
  <2>1. PICK text \in {<<Foreign>>, Append(doc.text, Foreign)} :
          doc' = D!ReplaceCanonicalText(doc, text, TRUE)
    BY <1>4 DEF ForeignWrite
  <2>2. doc.text \in Seq(Nat) /\ Revised /\ UNCHANGED <<screen, queues>>
    BY <1>4 DEF ForeignWrite, Types, DocumentTypes, IsDocument
  <2>3. text \in Seq(Nat)
    <3>1. <<Foreign>> \in Seq(Nat)
      BY DEF Foreign
    <3>2. Append(doc.text, Foreign) \in Seq(Nat)
      BY <2>2 DEF Foreign
    <3> QED
      BY <2>1, <3>1, <3>2
  <2>4. /\ TextsKept /\ Len(texts') = Len(texts) + 1
        /\ texts'[Len(texts) + 1] = doc'.text /\ doc'.text = text
    BY <2>1, <2>2, <2>3, ReplaceAdvances, RevisedAppends DEF Types
  <2> QED
    BY <2>2, <2>4 DEF Overwrites, TextsKept
<1> QED
  BY <1>1, <1>2, <1>3, <1>4 DEF Next, Backend

LEMMA QueuesStep ==
  ASSUME Types, Types', TextsKept, Flight, Order, Next
  PROVE  QueuesAreOrdered'
<1>1. Quiet \/ Typing \/ Acknowledging \/ Adopting
  BY StepKinds
<1>2. typed \in Nat /\ typed' \in Nat /\ typed <= typed'
  <2>1. typed' = typed \/ typed' = typed + 1
    BY <1>1 DEF Quiet, Typing, Grows, Acknowledging, Shrinks, Adopting, Type, screen
  <2> QED
    BY <2>1 DEF Types, ScreenTypes
<1>3. /\ Current \in Nat \ {0}
      /\ \A c \in 1 .. Current : /\ queues[c] \in AnyQueue
                                 /\ queues[c].revision \in 1 .. Len(texts)
                                 /\ OrderedIn(queues[c])
  BY DEF Types, QueueTypes, Current, Flight, QueueFlies, Order, QueuesAreOrdered
<1>4. ASSUME NEW c \in 1 .. Current, Stays(c)
      PROVE  OrderedIn(queues[c])'
  <2>1. PICK old : old = queues[c]
    OBVIOUS
  <2>2. PICK new : new = queues'[c]
    OBVIOUS
  <2>3. OrderedIn(new)'
    BY <1>2, <1>3, <1>4, <2>1, <2>2, OrderStays DEF Stays
  <2> QED
    BY <2>2, <2>3 DEF OrderedIn
<1>5. CASE Quiet
  BY <1>4, <1>5 DEF Quiet, QueuesAreOrdered
<1>6. CASE Typing
  <2>1. PICK c : c = Current
    OBVIOUS
  <2>2. PICK old : old = queues[c]
    OBVIOUS
  <2>3. PICK new : new = queues'[c]
    OBVIOUS
  <2>4. /\ typed' = typed + 1 /\ UNCHANGED texts
        /\ UnsentOf(new) =
             Append(UnsentOf(old), [before |-> Len(editor), key |-> typed + 1])
        /\ new.revision = old.revision
    BY <1>6, <2>1, <2>2, <2>3 DEF Typing, Grows, Type
  <2>5. /\ old \in AnyQueue /\ OrderedIn(old) /\ old.revision \in 1 .. Len(texts)
        /\ TextsAreTyped
    BY <1>3, <2>1, <2>2 DEF Order
  <2>6. OrderedIn(new)'
    BY <2>4, <2>5, OrderGrows
  <2>7. OrderedIn(queues[c])'
    BY <2>3, <2>6 DEF OrderedIn
  <2> QED
    BY <1>4, <1>6, <2>1, <2>7 DEF Typing, QueuesAreOrdered
<1>7. CASE Acknowledging
  <2>1. PICK d \in 1 .. Current : /\ Shrinks(d)
                                  /\ \A c \in 1 .. Current : c # d => Stays(c)
    BY <1>7 DEF Acknowledging
  <2>2. PICK old : old = queues[d]
    OBVIOUS
  <2>3. PICK new : new = queues'[d]
    OBVIOUS
  <2>4. /\ UNCHANGED <<texts, typed>>
        /\ old.batch # NoBatch
        /\ UnsentOf(new) = old.pending
        /\ new.revision = old.revision + 1
        /\ new.revision \in 1 .. Len(texts)
        /\ texts[new.revision] = texts[old.revision] \o KeysOf(old.batch.payload)
    BY <2>1, <2>2, <2>3 DEF Shrinks, screen
  <2>5. old \in AnyQueue /\ OrderedIn(old) /\ old.revision \in 1 .. Len(texts)
    BY <1>3, <2>2
  <2>6. OrderedIn(new)'
    BY <2>4, <2>5, OrderShrinks
  <2>7. OrderedIn(queues[d])'
    BY <2>3, <2>6 DEF OrderedIn
  <2> QED
    BY <1>4, <1>7, <2>1, <2>7 DEF Acknowledging, QueuesAreOrdered
<1>8. CASE Adopting
  <2>1. Current' = Current + 1 /\ Starts(Current + 1)
    BY <1>8 DEF Adopting
  <2>2. OrderedIn(queues[Current])'
    <3>1. PICK new : new = queues'[Current + 1]
      OBVIOUS
    <3>2. UnsentOf(new) = << >> /\ UnsentOf(new)' = UnsentOf(new)
      <4>1. UnsentOf(new) = << >>
        BY <2>1, <3>1 DEF Starts
      <4>2. UnsentOf(new)' = UnsentOf(new)
        BY DEF UnsentOf
      <4> QED
        BY <4>1, <4>2
    <3>3. OrderedIn(new)'
      BY <3>2 DEF OrderedIn
    <3> QED
      BY <2>1, <3>1, <3>3 DEF OrderedIn
  <2>3. \A c \in 1 .. Current' : c \in 1 .. Current \/ c = Current'
    BY <1>3, <2>1
  <2> QED
    BY <1>4, <1>8, <2>2, <2>3 DEF Adopting, QueuesAreOrdered
<1> QED
  BY <1>1, <1>5, <1>6, <1>7, <1>8

\* An accepted batch brings keystrokes that were typed, in order, and after all
\* that were delivered.
Delivered == KeysOf(Taken.payload)

LEMMA DeliveryEffect ==
  ASSUME Types, Types', Flight, Order, ExecuteBatch, AcceptsTaken
  PROVE  /\ Delivered \in Seq(Nat) /\ Len(Delivered) \in Nat \ {0}
         /\ doc'.text = doc.text \o Delivered
         /\ \A i \in 1 .. Len(Delivered) : Delivered[i] \in 1 .. typed
         /\ \A i, j \in 1 .. Len(Delivered) : i < j => Delivered[i] < Delivered[j]
         /\ \A i \in 1 .. Len(Delivered) : \A k \in KeysIn(texts) : k < Delivered[i]
         /\ IsLast(Delivered[Len(Delivered)], KeysIn(texts'))
<1>0. PICK c : c = Taken.client
  OBVIOUS
<1>00. PICK keys : keys = Delivered
  OBVIOUS
<1> DEFINE queue == queues[c]
           payload == Taken.payload
           unsent == UnsentOf(queue)
<1>1. /\ Taken \in SentBatch /\ c \in 1 .. Current
      /\ queue.batch = Taken /\ Taken # NoBatch
      /\ queue.revision = Len(texts) /\ payload # << >>
      /\ UNCHANGED <<queues, screen>>
  BY <1>0, BatchEffect, AcceptEffect, NewBatchIsBatch
<1>2. queue \in AnyQueue /\ OrderedIn(queue)
  BY <1>1 DEF Types, QueueTypes, Current, Order, QueuesAreOrdered
<1>3. /\ payload \in Seq(Tx) /\ queue.pending \in Seq(Tx)
      /\ unsent = payload \o queue.pending
  BY <1>1, <1>2, UnsentTyped DEF AnyQueue
<1>4. /\ keys \in Seq(Nat) /\ Len(keys) = Len(payload) /\ Len(payload) \in Nat \ {0}
      /\ \A i \in 1 .. Len(payload) : keys[i] = payload[i].key
  BY <1>00, <1>1, <1>3, KeysAreNaturals DEF Delivered
<1>5. /\ \A i \in 1 .. Len(unsent) : unsent[i].key \in 1 .. typed
      /\ \A i \in 1 .. Len(unsent) : \A r \in 1 .. queue.revision :
           \A k \in 1 .. Len(texts[r]) : texts[r][k] < unsent[i].key
      /\ \A i, j \in 1 .. Len(unsent) : i < j => unsent[i].key < unsent[j].key
  BY <1>2 DEF OrderedIn
<1>6. \A i \in 1 .. Len(payload) : i \in 1 .. Len(unsent) /\ unsent[i] = payload[i]
  <2> HIDE DEF payload, unsent
  <2> DEFINE pending == queue.pending
  <2>1. pending \in Seq(Tx) /\ payload \in Seq(Tx) /\ unsent = payload \o pending
    BY <1>3
  <2> HIDE DEF pending
  <2> QED
    BY <2>1
<1>7. \A i \in 1 .. Len(keys) : keys[i] = unsent[i].key /\ i \in 1 .. Len(unsent)
  BY <1>4, <1>6
<1>8. /\ texts \in Seq(Seq(Nat)) /\ texts' \in Seq(Seq(Nat)) /\ typed \in Nat
      /\ doc.text \in Seq(Nat)
  BY DEF Types, DocumentTypes, ScreenTypes, IsDocument
<1>9. /\ Len(texts') = Len(texts) + 1
      /\ \A r \in 1 .. Len(texts) : texts'[r] = texts[r]
      /\ texts'[Len(texts')] = doc.text \o keys
      /\ doc'.text = doc.text \o keys
      /\ Len(texts) \in Nat \ {0} /\ texts[Len(texts)] = doc.text
  BY <1>00, AcceptEffect DEF Delivered
<1> HIDE DEF payload, unsent
<1>10. \A i \in 1 .. Len(keys) : keys[i] \in 1 .. typed
  BY <1>5, <1>7
<1>11. \A i, j \in 1 .. Len(keys) : i < j => keys[i] < keys[j]
  BY <1>5, <1>7
<1>12. \A i \in 1 .. Len(keys) : \A k \in KeysIn(texts) : k < keys[i]
  <2> SUFFICES ASSUME NEW i \in 1 .. Len(keys), NEW k \in KeysIn(texts)
               PROVE  k < keys[i]
    OBVIOUS
  <2>1. CASE k = 0
    BY <1>8, <1>10, <2>1
  <2>2. CASE \E r \in 1 .. Len(texts) : HasKey(texts[r], k)
    BY <1>1, <1>5, <1>7, <2>2 DEF HasKey
  <2> QED
    BY <1>8, <2>1, <2>2, KeysInTexts
<1>13. IsLast(keys[Len(keys)], KeysIn(texts'))
  <2> DEFINE last == keys[Len(keys)]
             text == doc.text \o keys
  <2>1. /\ text \in Seq(Nat) /\ Len(text) = Len(doc.text) + Len(keys)
        /\ Len(keys) \in 1 .. Len(keys)
        /\ text[Len(text)] = last /\ Len(text) \in 1 .. Len(text)
        /\ \A i \in 1 .. Len(text) :
             \/ i \in 1 .. Len(doc.text) /\ text[i] = doc.text[i]
             \/ i - Len(doc.text) \in 1 .. Len(keys) /\ text[i] = keys[i - Len(doc.text)]
    <3> DEFINE before == doc.text
    <3>1. before \in Seq(Nat) /\ keys \in Seq(Nat) /\ Len(keys) \in Nat \ {0}
      BY <1>4, <1>8
    <3> HIDE DEF before
    <3>2. before \o keys \in Seq(Nat) /\ Len(before \o keys) = Len(before) + Len(keys)
          /\ Len(before) \in Nat
      BY <3>1
    <3>3. /\ Len(keys) \in 1 .. Len(keys)
          /\ (before \o keys)[Len(before) + Len(keys)] = keys[Len(keys)]
          /\ Len(before \o keys) \in 1 .. Len(before \o keys)
      BY <3>1, <3>2
    <3>4. \A i \in 1 .. Len(before \o keys) :
            \/ i \in 1 .. Len(before) /\ (before \o keys)[i] = before[i]
            \/ /\ i - Len(before) \in 1 .. Len(keys)
               /\ (before \o keys)[i] = keys[i - Len(before)]
      BY <3>1, <3>2
    <3> QED
      BY <3>2, <3>3, <3>4 DEF before
  <2>2. \A k : k \in KeysIn(texts') <=> k \in KeysIn(texts) \/ HasKey(text, k)
    <3>1. texts'[Len(texts')] = text
      BY <1>9
    <3> HIDE DEF text
    <3>2. \A k : k \in KeysIn(texts') <=>
            k \in KeysIn(texts) \/ HasKey(texts'[Len(texts')], k)
      <4>1. PICK before \in Seq(Seq(Nat)) : before = texts
        BY <1>8
      <4>2. PICK after \in Seq(Seq(Nat)) : after = texts'
        BY <1>8
      <4>3. /\ Len(after) = Len(before) + 1
            /\ \A r \in 1 .. Len(before) : after[r] = before[r]
        BY <1>9, <4>1, <4>2
      <4>4. \A k : k \in KeysIn(after) <=>
              k \in KeysIn(before) \/ HasKey(after[Len(after)], k)
        BY <4>3, KeysJoin
      <4> QED
        BY <4>1, <4>2, <4>4
    <3> QED
      BY <3>1, <3>2
  <2> HIDE DEF text
  <2>3. last \in KeysIn(texts')
    BY <2>1, <2>2 DEF HasKey
  <2>4. \A i \in 1 .. Len(keys) : keys[i] <= last
    <3>1. \A i \in 1 .. Len(keys) : i < Len(keys) \/ i = Len(keys)
      BY <1>4
    <3>2. \A i \in 1 .. Len(keys) : keys[i] \in Nat
      BY <1>4
    <3> QED
      BY <1>11, <2>1, <3>1, <3>2, SMTT(30)
  <2>5. \A k \in KeysIn(texts) : k <= last
    <3>1. KeysIn(texts) \subseteq Nat /\ last \in Nat
      BY <1>4, <1>8, <2>1, KeysInTexts, SMTT(30)
    <3> QED
      BY <1>12, <2>1, <3>1
  <2>6. \A i \in 1 .. Len(text) : text[i] <= last
    <3>1. \A i \in 1 .. Len(doc.text) : doc.text[i] \in KeysIn(texts)
      <4>1. ASSUME NEW i \in 1 .. Len(doc.text) PROVE HasKey(texts[Len(texts)], doc.text[i])
        BY <1>9 DEF HasKey
      <4>2. Len(texts) \in 1 .. Len(texts)
        BY <1>9
      <4>3. \A k : (\E r \in 1 .. Len(texts) : HasKey(texts[r], k)) => k \in KeysIn(texts)
        BY <1>8, KeysInTexts
      <4> QED
        BY <4>1, <4>2, <4>3
    <3> QED
      BY <2>1, <2>4, <2>5, <3>1
  <2> QED
    BY <2>2, <2>3, <2>5, <2>6 DEF IsLast, HasKey
<1> QED
  BY <1>00, <1>4, <1>9, <1>10, <1>11, <1>12, <1>13

LEMMA OverwritingEffect ==
  ASSUME Types, Types', Overwrites
  PROVE  \A k : k \in KeysIn(texts') <=> k \in KeysIn(texts)
<1>1. /\ Len(texts') = Len(texts) + 1
      /\ \A r \in 1 .. Len(texts) : texts'[r] = texts[r]
      /\ texts'[Len(texts) + 1] \in {<<0>>, Append(doc.text, 0)}
  BY DEF Overwrites, Foreign
<1>2. /\ texts \in Seq(Seq(Nat)) /\ texts' \in Seq(Seq(Nat))
      /\ doc.text \in Seq(Nat) /\ Len(texts) \in Nat \ {0}
      /\ texts[Len(texts)] = doc.text
  BY DEF Types, DocumentTypes, IsDocument
<1>3. PICK before \in Seq(Seq(Nat)) : before = texts
  BY <1>2
<1>4. PICK after \in Seq(Seq(Nat)) : after = texts'
  BY <1>2
<1>5. \A k : k \in KeysIn(after) <=> k \in KeysIn(before) \/ HasKey(after[Len(after)], k)
  BY <1>1, <1>3, <1>4, KeysJoin
<1>6. ASSUME NEW k, HasKey(after[Len(after)], k) PROVE k \in KeysIn(before)
  <2>1. 0 \in KeysIn(before)
    BY KeysInTexts
  <2>2. CASE after[Len(after)] = <<0>>
    <3>1. k = 0
      BY <1>6, <2>2 DEF HasKey
    <3> QED
      BY <2>1, <3>1
  <2>3. CASE after[Len(after)] = Append(doc.text, 0)
    <3>1. k = 0 \/ HasKey(doc.text, k)
      BY <1>2, <1>6, <2>3, SMTT(30) DEF HasKey
    <3>2. HasKey(doc.text, k) => HasKey(before[Len(before)], k) /\ Len(before) \in 1 .. Len(before)
      BY <1>2, <1>3
    <3>3. HasKey(before[Len(before)], k) /\ Len(before) \in 1 .. Len(before)
            => k \in KeysIn(before)
      BY KeysInTexts
    <3> QED
      BY <2>1, <3>1, <3>2, <3>3
  <2> QED
    BY <1>1, <1>3, <1>4, <2>2, <2>3
<1> QED
  BY <1>3, <1>4, <1>5, <1>6

LEMMA OrderStep ==
  ASSUME Types, Types', TextsKept, Flight, Order, Next
  PROVE  Order'
<1>1. QueuesAreOrdered'
  BY QueuesStep
<1>2. typed \in Nat /\ typed' \in Nat /\ typed <= typed' /\ KeysIn(texts) \subseteq Nat
  <2>1. Quiet \/ Typing \/ Acknowledging \/ Adopting
    BY StepKinds
  <2>2. typed' = typed \/ typed' = typed + 1
    BY <2>1 DEF Quiet, Typing, Grows, Acknowledging, Shrinks, Adopting, Type, screen
  <2> QED
    BY <2>2, KeysInTexts DEF Types, ScreenTypes, DocumentTypes
<1>3. PICK last \in KeysIn(texts) : IsLast(last, KeysIn(texts))
  BY DEF Order
<1>4. ASSUME \A k : k \in KeysIn(texts') <=> k \in KeysIn(texts)
      PROVE  TextsAreTyped' /\ \E key \in KeysIn(texts') : IsLast(key, KeysIn(texts'))
  <2>1. \A k \in KeysIn(texts') : k <= typed'
    BY <1>2, <1>4 DEF Order, TextsAreTyped
  <2>2. IsLast(last, KeysIn(texts')) /\ last \in KeysIn(texts')
    BY <1>3, <1>4 DEF IsLast
  <2> QED
    BY <2>1, <2>2 DEF TextsAreTyped
<1>5. CASE UNCHANGED <<doc, texts>>
  BY <1>1, <1>4, <1>5 DEF Order
<1>6. CASE ExecuteBatch /\ AcceptsTaken
  <2>1. /\ Len(Delivered) \in Nat \ {0}
        /\ \A i \in 1 .. Len(Delivered) : Delivered[i] \in 1 .. typed
        /\ IsLast(Delivered[Len(Delivered)], KeysIn(texts'))
    BY <1>6, DeliveryEffect
  <2>2. PICK key : key = Delivered[Len(Delivered)]
    OBVIOUS
  <2>3. key \in 1 .. typed /\ IsLast(key, KeysIn(texts')) /\ key \in KeysIn(texts')
    BY <2>1, <2>2 DEF IsLast
  <2>4. KeysIn(texts') \subseteq Nat
    BY KeysInTexts DEF Types, DocumentTypes
  <2>5. \A k \in KeysIn(texts') : k <= typed'
    BY <1>2, <2>3, <2>4 DEF IsLast
  <2> QED
    BY <1>1, <2>3, <2>5 DEF Order, TextsAreTyped
<1>7. CASE Overwrites
  BY <1>1, <1>4, <1>7, OverwritingEffect DEF Order
<1> QED
  BY <1>5, <1>6, <1>7, DocumentKinds

-----------------------------------------------------------------------------
(* The screen *)

\* As long as no keystroke came between an installation and the new editor,
\* what is on the screen or about to be is the known text and what is unsent.
Screen ==
  ~overtyped =>
    /\ Shown = texts[Known] \o KeysOf(UnsentOf(queues[Current]))
    /\ queues[Current].optimistic = Len(Shown)

LEMMA KeysOfAppended ==
  ASSUME NEW s \in Seq(Tx), NEW tx \in Tx
  PROVE  KeysOf(Append(s, tx)) = Append(KeysOf(s), tx.key)
<1>1. /\ Append(s, tx) \in Seq(Tx) /\ <<tx>> \in Seq(Tx) /\ Append(s, tx) = s \o <<tx>>
      /\ Len(<<tx>>) = 1 /\ <<tx>>[1] = tx
  OBVIOUS
<1>2. KeysOf(Append(s, tx)) = KeysOf(s) \o KeysOf(<<tx>>)
  BY <1>1, KeysOfJoined
<1>3. KeysOf(<<tx>>) = <<tx.key>>
  BY <1>1 DEF KeysOf
<1>4. PICK keys \in Seq(Nat) : keys = KeysOf(s)
  BY KeysAreNaturals
<1>5. PICK key \in Nat : key = tx.key
  BY DEF Tx
<1>6. keys \o <<key>> = Append(keys, key)
  BY SMTT(10)
<1> QED
  BY <1>2, <1>3, <1>4, <1>5, <1>6

LEMMA KeysOfNothing == KeysOf(<< >>) = << >>
BY DEF KeysOf

LEMMA TypedBehind ==
  ASSUME NEW s \in Seq(Nat), NEW t \in Seq(Nat), NEW key \in Nat
  PROVE  s \o Append(t, key) = Append(s \o t, key)
BY SMTT(10)

LEMMA Associated ==
  ASSUME NEW s \in Seq(Nat), NEW t \in Seq(Nat), NEW u \in Seq(Nat)
  PROVE  s \o (t \o u) = (s \o t) \o u
BY SMTT(30)

LEMMA KnownTextIsShown ==
  ASSUME Types, Types', TextsKept, Flight, Screen, Next
  PROVE  Screen'
<1> SUFFICES ASSUME ~overtyped'
             PROVE  /\ Shown' = texts'[Known'] \o KeysOf(UnsentOf(queues'[Current']))
                    /\ queues'[Current'].optimistic = Len(Shown')
  BY DEF Screen, UnsentOf, KeysOf
<1>1. Quiet \/ Typing \/ Acknowledging \/ Adopting
  BY StepKinds
<1> DEFINE queue == queues[Current]
<1>2. /\ Current \in 1 .. Current /\ Current \in Nat
      /\ queue \in AnyQueue /\ queue.revision \in 1 .. Len(texts)
      /\ texts'[queue.revision] = texts[queue.revision]
      /\ texts[queue.revision] \in Seq(Nat)
  <2>1. Current \in 1 .. Current /\ Current \in Nat /\ queue \in AnyQueue
    BY DEF Types, QueueTypes, Current
  <2>2. queue.revision \in 1 .. Len(texts)
    BY <2>1 DEF Flight, QueueFlies
  <2> HIDE DEF queue
  <2>3. texts'[queue.revision] = texts[queue.revision]
    BY <2>2 DEF TextsKept
  <2>4. texts[queue.revision] \in Seq(Nat)
    BY <2>2 DEF Types, DocumentTypes
  <2> QED
    BY <2>1, <2>2, <2>3, <2>4
<1>3. UnsentOf(queue) \in Seq(Tx) /\ KeysOf(UnsentOf(queue)) \in Seq(Nat)
  BY <1>2, UnsentTyped, KeysAreNaturals
<1>4. ~overtyped
  BY <1>1 DEF Quiet, Typing, Grows, Acknowledging, Shrinks, Adopting, Type, screen
<1>5. /\ Shown = texts[queue.revision] \o KeysOf(UnsentOf(queue))
      /\ queue.optimistic = Len(Shown)
  BY <1>4 DEF Screen, Known
<1>6. ASSUME Stays(Current), Current' = Current, Shown' = Shown
      PROVE  /\ Shown' = texts'[Known'] \o KeysOf(UnsentOf(queues'[Current']))
             /\ queues'[Current'].optimistic = Len(Shown')
  BY <1>2, <1>5, <1>6 DEF Stays, Known
<1>7. CASE Quiet
  <2>1. CASE Shown' = Shown
    BY <1>2, <1>6, <1>7, <2>1 DEF Quiet
  <2>2. CASE Type /\ Len(editor) # queue.optimistic
    <3>1. binding = NoText
      BY <2>2 DEF Type
    <3> QED
      BY <1>5, <2>2, <3>1 DEF Shown
  <2> QED
    BY <1>7, <2>1, <2>2 DEF Quiet
<1>8. CASE Typing
  <2> DEFINE tx == [before |-> Len(editor), key |-> typed + 1]
  <2>1. /\ Current' = Current /\ Type
        /\ UnsentOf(queues'[Current]) = Append(UnsentOf(queue), tx)
        /\ queues'[Current].revision = queue.revision
        /\ queues'[Current].optimistic = queue.optimistic + 1
    BY <1>8 DEF Typing, Grows
  <2>2. /\ binding = NoText /\ binding' = NoText
        /\ editor' = Append(editor, typed + 1)
    BY <2>1 DEF Type
  <2>3. Shown = editor /\ Shown' = Append(editor, typed + 1)
    BY <2>2 DEF Shown
  <2>4. tx \in Tx /\ tx.key = typed + 1 /\ editor \in Seq(Nat) /\ typed + 1 \in Nat
    BY DEF Tx, Types, ScreenTypes
  <2> HIDE DEF tx
  <2>5. KeysOf(UnsentOf(queues'[Current])) = Append(KeysOf(UnsentOf(queue)), typed + 1)
    BY <1>3, <2>1, <2>4, KeysOfAppended
  <2>6. texts[queue.revision] \o Append(KeysOf(UnsentOf(queue)), typed + 1) =
          Append(texts[queue.revision] \o KeysOf(UnsentOf(queue)), typed + 1)
    BY <1>2, <1>3, <2>4, TypedBehind
  <2>7. Len(Shown') = Len(Shown) + 1
    BY <2>3, <2>4
  <2> QED
    BY <1>2, <1>5, <2>1, <2>3, <2>5, <2>6, <2>7 DEF Known
<1>9. CASE Acknowledging
  <2>1. PICK d \in 1 .. Current : /\ Shrinks(d)
                                  /\ \A c \in 1 .. Current : c # d => Stays(c)
    BY <1>9 DEF Acknowledging
  <2>2. Shown' = Shown /\ Current' = Current
    BY <1>9, <2>1 DEF Shrinks, screen, Shown, Acknowledging
  <2>3. CASE d # Current
    BY <1>2, <1>6, <2>1, <2>2, <2>3
  <2>4. CASE d = Current
    <3> DEFINE payload == queue.batch.payload
               pending == queue.pending
               text == texts[queue.revision]
    <3>1. /\ UnsentOf(queues'[Current]) = pending
          /\ queues'[Current].revision = queue.revision + 1
          /\ queues'[Current].revision \in 1 .. Len(texts)
          /\ texts' = texts
          /\ texts[queues'[Current].revision] = text \o KeysOf(payload)
          /\ queues'[Current].optimistic = queue.optimistic
          /\ queue.batch # NoBatch
      BY <2>1, <2>4 DEF Shrinks
    <3>2. /\ payload \in Seq(Tx) /\ pending \in Seq(Tx)
          /\ UnsentOf(queue) = payload \o pending
      BY <1>2, <3>1, UnsentTyped DEF AnyQueue
    <3>3. /\ KeysOf(UnsentOf(queue)) = KeysOf(payload) \o KeysOf(pending)
          /\ KeysOf(payload) \in Seq(Nat) /\ KeysOf(pending) \in Seq(Nat)
      BY <3>2, KeysOfJoined, KeysAreNaturals
    <3>4. text \o (KeysOf(payload) \o KeysOf(pending)) =
            (text \o KeysOf(payload)) \o KeysOf(pending)
      BY <1>2, <3>3, Associated
    <3> QED
      BY <1>5, <2>2, <3>1, <3>3, <3>4 DEF Known
  <2> QED
    BY <2>3, <2>4
<1>10. CASE Adopting
  <2>1. /\ Current' = Current + 1
        /\ Shown' = texts[queues'[Current + 1].revision] /\ texts' = texts
        /\ queues'[Current + 1].revision \in 1 .. Len(texts)
        /\ UnsentOf(queues'[Current + 1]) = << >>
        /\ queues'[Current + 1].optimistic = Len(texts[queues'[Current + 1].revision])
    BY <1>10 DEF Adopting, Starts
  <2>2. Shown' \in Seq(Nat)
    BY <2>1 DEF Types, DocumentTypes
  <2>3. Shown' \o << >> = Shown'
    BY <2>2, ConcatEmptySeq
  <2> QED
    BY <2>1, <2>3, KeysOfNothing DEF Known
<1> QED
  BY <1>1, <1>7, <1>8, <1>9, <1>10

-----------------------------------------------------------------------------
(* Convergence *)

NoneFailed == \A c \in 1 .. Current : ~queues[c].failed

Asked(call) == \E i \in 1 .. Len(requests) : requests[i].call = call

Awaiting == \E c \in 1 .. Current : queues[c].waiting > 0

\* Nothing that needs a recovery has happened.
Undisturbed ==
  /\ recovery = "idle"
  /\ binding = NoText
  /\ ~overtyped
  /\ ~Asked("snapshot")
  /\ \A a \in answers : a.answer # "snapshot"

\* News of the latest revision is on its way.
News ==
  \/ doc.revision \in events
  \/ Awaiting
  \/ Asked("get")
  \/ \E a \in answers : a.answer = "session" /\ a.revision = doc.revision

\* In the browser nothing is announced, and what the window does not know yet
\* is the batch that waits for its verdict.
OnlyOwnBatches ==
  /\ Current = 1
  /\ events = {}
  /\ ~Awaiting
  /\ ~Asked("get")
  /\ \A a \in answers : a.answer # "session"
  /\ \A a \in answers : a.answer = "ack" => a.ack.revision = doc.revision
  /\ ~Judged(1) => doc.revision = Known

Calm ==
  NoneFailed =>
    /\ Undisturbed
    /\ desktop => (doc.revision > Known => News)
    /\ ~desktop => OnlyOwnBatches

LEMMA PumpCalls ==
  ASSUME Types, NEW c \in 1 .. Current, NEW queue \in AnyQueue, Pump(c, queue)
  PROVE  /\ Current' = Current
         /\ \A i \in 1 .. Current : i # c => queues'[i] = queues[i]
         /\ queues'[c].failed = queue.failed
         /\ Asked("snapshot")' => Asked("snapshot")
         /\ Asked("get") => Asked("get")'
         /\ queue.waiting > 0 => queues'[c].waiting > 0 \/ Asked("get")'
         /\ queue.waiting = 0 => queues'[c].waiting = 0 /\ (Asked("get")' => Asked("get"))
<1>1. /\ Len(queues') = Len(queues)
      /\ \A i \in 1 .. Len(queues) : i # c => queues'[i] = queues[i]
      /\ Sends(c, queue) \/ Holds(c, queue) \/ Releases(c, queue)
      /\ CallsAdded(c, queue)
  BY PumpEffect DEF Types
<1>2. Asked("get") => Asked("get")'
  BY <1>1 DEF CallsAdded, Asked
<1>3. requests \in Seq(Call) /\ Len(requests) \in Nat /\ queue.waiting \in Nat
  BY DEF Types, QueueTypes, AnyQueue
<1>4. ASSUME NEW call \in {"get", "snapshot"}, Asked(call)'
      PROVE  Asked(call) \/ (call = "get" /\ Releases(c, queue) /\ queue.waiting > 0)
  <2>1. PICK i \in 1 .. Len(requests') : requests'[i].call = call
    BY <1>4 DEF Asked
  <2>2. CASE i \in 1 .. Len(requests)
    BY <1>1, <2>1, <2>2 DEF CallsAdded, Asked
  <2>3. CASE i \notin 1 .. Len(requests)
    <3>1. CASE Sends(c, queue)
      <4>1. i = Len(requests) + 1 /\ requests'[i] = ApplyCall(TakePendingBatch(c, queue))
        BY <1>3, <2>3, <3>1 DEF Sends
      <4> QED
        BY <2>1, <4>1 DEF ApplyCall
    <3>2. CASE Holds(c, queue)
      BY <2>3, <3>2 DEF Holds
    <3>3. CASE Releases(c, queue)
      <4>1. /\ i \in Len(requests) + 1 .. Len(requests')
            /\ Len(requests') = Len(requests) + queue.waiting
        BY <1>3, <2>3, <3>3 DEF Releases
      <4>2. requests'[i] = GetCall /\ queue.waiting > 0
        BY <1>3, <3>3, <4>1 DEF Releases
      <4> QED
        BY <2>1, <3>3, <4>2 DEF GetCall
    <3> QED
      BY <1>1, <3>1, <3>2, <3>3
  <2> QED
    BY <2>2, <2>3
<1>5. /\ queues'[c].failed = queue.failed
      /\ Sends(c, queue) \/ Holds(c, queue) => queues'[c].waiting = queue.waiting
      /\ Releases(c, queue) => queues'[c].waiting = 0
  BY <1>1 DEF Sends, Holds, Releases, AnyQueue
<1>6. Releases(c, queue) /\ queue.waiting > 0 => Asked("get")'
  <2> SUFFICES ASSUME Releases(c, queue), queue.waiting > 0
               PROVE  Asked("get")'
    OBVIOUS
  <2>1. Len(requests) + 1 \in 1 .. Len(requests') /\ requests'[Len(requests) + 1] = GetCall
    BY <1>3 DEF Releases
  <2> QED
    BY <2>1 DEF Asked, GetCall
<1> QED
  BY <1>1, <1>2, <1>3, <1>4, <1>5, <1>6 DEF Current

\* A queue that failed stays that way.
LEMMA FailuresStay ==
  ASSUME Types, Next, NoneFailed'
  PROVE  NoneFailed
<1>0. /\ Current \in Nat \ {0} /\ Current \in 1 .. Current
      /\ \A c \in 1 .. Current : queues[c] \in AnyQueue
  BY DEF Types, QueueTypes, Current
<1>1. ASSUME UNCHANGED queues PROVE NoneFailed
  BY <1>1 DEF NoneFailed, Current
<1>2. ASSUME NEW c \in 1 .. Current, NEW queue \in AnyQueue, Pump(c, queue),
             queue.failed = queues[c].failed
      PROVE  NoneFailed
  <2>1. /\ Current' = Current /\ queues'[c].failed = queues[c].failed
        /\ \A i \in 1 .. Current : i # c => queues'[i] = queues[i]
    BY <1>2, PumpCalls
  <2> QED
    BY <2>1 DEF NoneFailed
<1>3. ASSUME NEW a \in answers, a.answer \in {"session", "snapshot"},
             Adopt(a.revision, a.text)
      PROVE  NoneFailed
  <2>1. Current' = Current + 1 /\ \A i \in 1 .. Current : queues'[i] = queues[i]
    BY <1>3, AdoptEffect DEF Types
  <2> QED
    BY <1>0, <2>1 DEF NoneFailed
<1>4. CASE Type
  <2>1. Enqueued \in AnyQueue /\ (UNCHANGED queues \/ Pump(Current, Enqueued))
    BY <1>4, TypeEffect
  <2>2. Enqueued.failed = queues[Current].failed
    BY <1>0 DEF Enqueued, AnyQueue
  <2> QED
    BY <1>0, <1>1, <1>2, <2>1, <2>2
<1>5. CASE AckArrives
  <2>1. PICK a \in answers : a.answer = "ack" /\ Pump(a.ack.client, Acknowledged(a))
    BY <1>5 DEF AckArrives, Acknowledged
  <2>2. a.ack.client \in 1 .. Current /\ Acknowledged(a) \in AnyQueue
    BY <2>1, AckEffect
  <2>3. Acknowledged(a).failed = queues[a.ack.client].failed
    <3>1. queues[a.ack.client] \in AnyQueue
      BY <1>0, <2>2
    <3> QED
      BY <3>1 DEF Acknowledged, AnyQueue
  <2> QED
    BY <1>2, <2>1, <2>2, <2>3
<1>6. CASE BatchFails
  <2>1. PICK a : Fails(a)
    BY <1>6 DEF BatchFails, Fails, ClientOf
  <2>2. /\ ClientOf(a) \in 1 .. Current /\ Len(queues') = Len(queues)
        /\ queues'[ClientOf(a)] =
             [queues[ClientOf(a)] EXCEPT !.failed = TRUE, !.waiting = 0]
    BY <2>1, FailEffect
  <2>3. queues'[ClientOf(a)].failed
    BY <1>0, <2>2 DEF AnyQueue
  <2> QED
    BY <2>2, <2>3 DEF NoneFailed, Current
<1>7. CASE SnapshotArrives
  BY <1>3, <1>7 DEF SnapshotArrives
<1>8. CASE SessionArrives
  BY <1>1, <1>3, <1>8 DEF SessionArrives
<1>9. CASE SessionChanged
  <2>1. UNCHANGED queues \/ Pump(Current, Awaited)
    BY <1>9 DEF SessionChanged, Awaited
  <2>2. Awaited.failed = queues[Current].failed
    BY <1>0 DEF Awaited, AnyQueue
  <2> QED
    BY <1>0, <1>1, <1>2, <2>1, <2>2, AwaitedIsQueue
<1>10. CASE Backend \/ Remount \/ DraftStored \/ DraftFails
  <2>1. UNCHANGED queues
    BY <1>10 DEF Backend, ExecuteBatch, ExecuteGet, ExecuteSnapshot, TakeCall, ForeignWrite,
         Remount, DraftStored, DraftFails
  <2> QED
    BY <1>1, <2>1
<1> QED
  BY <1>4, <1>5, <1>6, <1>7, <1>8, <1>9, <1>10 DEF Next, Window

\* Taking a call leaves the calls of other kinds.
LEMMA TakenCall ==
  ASSUME Types, requests # << >>, requests' = Tail(requests),
         NEW call, requests[1].call # call
  PROVE  Asked(call)' <=> Asked(call)
<1>1. /\ Len(requests) \in Nat \ {0} /\ Len(requests') = Len(requests) - 1
      /\ \A i \in 1 .. Len(requests') :
           i + 1 \in 1 .. Len(requests) /\ requests'[i] = requests[i + 1]
  BY TakeEffect
<1>2. ASSUME Asked(call) PROVE Asked(call)'
  <2>1. PICK i \in 1 .. Len(requests) : requests[i].call = call
    BY <1>2 DEF Asked
  <2>2. i - 1 \in 1 .. Len(requests') /\ i = (i - 1) + 1
    BY <1>1, <2>1
  <2>3. requests'[i - 1] = requests[i]
    BY <1>1, <2>2
  <2> QED
    BY <2>1, <2>2, <2>3 DEF Asked
<1>3. ASSUME Asked(call)' PROVE Asked(call)
  BY <1>1, <1>3 DEF Asked
<1> QED
  BY <1>2, <1>3

LEMMA CalmStep ==
  ASSUME Types, Types', Flight, Calm, Next
  PROVE  Calm'
<1> SUFFICES ASSUME NoneFailed'
             PROVE  /\ Undisturbed'
                    /\ desktop' => (doc'.revision > Known' => News')
                    /\ ~desktop' => OnlyOwnBatches'
  BY DEF Calm
<1>1. NoneFailed
  BY FailuresStay
<1>2. /\ Undisturbed
      /\ desktop => (doc.revision > Known => News)
      /\ ~desktop => OnlyOwnBatches
  BY <1>1 DEF Calm
<1>3. /\ Current \in Nat \ {0} /\ Current \in 1 .. Current
      /\ \A c \in 1 .. Current : queues[c] \in AnyQueue
      /\ doc.revision \in Nat /\ Known \in Nat
  <2>1. /\ Current \in Nat \ {0} /\ Current \in 1 .. Current
        /\ \A c \in 1 .. Current : queues[c] \in AnyQueue
    BY DEF Types, QueueTypes, Current
  <2>2. queues[Current] \in AnyQueue /\ doc.revision \in Nat
    BY <2>1 DEF Types, DocumentTypes, IsDocument
  <2> QED
    BY <2>1, <2>2 DEF Known, AnyQueue
<1>4. UNCHANGED desktop
  BY DEF Next, Window, Backend, Type, AckArrives, BatchFails, DraftStored, DraftFails,
     SnapshotArrives, Remount, SessionChanged, SessionArrives, ExecuteBatch, ExecuteGet,
     ExecuteSnapshot, TakeCall, ForeignWrite, screen
\* A queue pumps, and no answer but a verdict is gone.
<1>5. ASSUME UNCHANGED <<doc, recovery, binding>>, ~overtyped',
             NEW c \in 1 .. Current, NEW queue \in AnyQueue, Pump(c, queue),
             queue.waiting >= queues[c].waiting,
             queue.revision >= queues[c].revision,
             answers' \subseteq answers,
             \A a \in answers : a.answer = "session" => a \in answers',
             ~desktop => queue.waiting = 0 /\ events' = {},
             desktop => UNCHANGED events \/ queue.waiting > 0,
             ~desktop /\ ~Judged(1)' => doc.revision = queue.revision
      PROVE  /\ Undisturbed'
             /\ desktop' => (doc'.revision > Known' => News')
             /\ ~desktop' => OnlyOwnBatches'
  <2>1. /\ Current' = Current
        /\ \A i \in 1 .. Current : i # c => queues'[i] = queues[i]
        /\ Asked("snapshot")' => Asked("snapshot")
        /\ Asked("get") => Asked("get")'
        /\ queue.waiting > 0 => queues'[c].waiting > 0 \/ Asked("get")'
        /\ queue.waiting = 0 => queues'[c].waiting = 0 /\ (Asked("get")' => Asked("get"))
    BY <1>5, PumpCalls
  <2>2. queues'[c].revision = queue.revision
    BY <1>5, PumpKeepsUnsent
  <2>3. Undisturbed'
    BY <1>2, <1>5, <2>1 DEF Undisturbed
  <2>4. ASSUME desktop, doc'.revision > Known' PROVE News'
    <3>1. CASE queue.waiting > 0
      BY <2>1, <3>1 DEF News, Awaiting
    <3>2. CASE ~(queue.waiting > 0)
      <4>1. Known' >= Known /\ Known' \in Nat
        <5>1. CASE c = Current
          BY <1>3, <1>5, <2>1, <2>2, <5>1 DEF Known, AnyQueue
        <5>2. CASE c # Current
          BY <1>3, <2>1, <5>2 DEF Known
        <5> QED
          BY <5>1, <5>2
      <4>2. News /\ doc' = doc /\ UNCHANGED events
        BY <1>2, <1>3, <1>5, <2>4, <3>2, <4>1
      <4>3. CASE Awaiting
        <5>1. PICK i \in 1 .. Current : queues[i].waiting > 0
          BY <4>3 DEF Awaiting
        <5>2. i # c
          BY <1>3, <1>5, <3>2, <5>1 DEF AnyQueue
        <5> QED
          BY <2>1, <5>1, <5>2 DEF News, Awaiting
      <4> QED
        BY <1>5, <2>1, <4>2, <4>3 DEF News
    <3> QED
      BY <3>1, <3>2
  <2>5. ASSUME ~desktop PROVE OnlyOwnBatches'
    <3>1. OnlyOwnBatches /\ c = 1 /\ Current = 1
      BY <1>2, <1>5, <2>5 DEF OnlyOwnBatches
    <3>2. ~Awaiting' /\ ~Asked("get")'
      BY <1>5, <2>1, <2>5, <3>1 DEF OnlyOwnBatches, Awaiting
    <3>3. ~Judged(1)' => doc'.revision = Known'
      BY <1>5, <2>1, <2>2, <2>5, <3>1 DEF Known
    <3> QED
      BY <1>5, <2>1, <2>5, <3>1, <3>2, <3>3 DEF OnlyOwnBatches
  <2> QED
    BY <1>4, <2>3, <2>4, <2>5
<1>6. CASE Type
  <2>1. /\ Enqueued \in AnyQueue
        /\ Pump(Current, Enqueued) \/ UNCHANGED <<queues, requests>>
    BY <1>6, TypeEffect
  <2>2. UNCHANGED <<doc, recovery, binding, answers, events>> /\ ~overtyped'
    BY <1>2, <1>6 DEF Type, Undisturbed
  <2>3. /\ Enqueued.waiting = queues[Current].waiting
        /\ Enqueued.revision = queues[Current].revision
    BY <1>3 DEF Enqueued, AnyQueue
  <2>4. Judged(1)' <=> Judged(1)
    BY <2>2 DEF Judged, Verdict, ClientOf
  <2>5. CASE Pump(Current, Enqueued)
    <3>1. /\ Enqueued.waiting >= queues[Current].waiting
          /\ Enqueued.revision >= queues[Current].revision
      BY <1>3, <2>3 DEF AnyQueue
    <3>2. ~desktop => Enqueued.waiting = 0 /\ events' = {}
      BY <1>2, <1>3, <2>2, <2>3 DEF OnlyOwnBatches, Awaiting, AnyQueue
    <3>3. ~desktop /\ ~Judged(1)' => doc.revision = Enqueued.revision
      BY <1>2, <2>3, <2>4 DEF OnlyOwnBatches, Known
    <3> QED
      BY <1>3, <1>5, <2>1, <2>2, <2>5, <3>1, <3>2, <3>3
  <2>6. CASE UNCHANGED <<queues, requests>>
    <3>1. Undisturbed'
      BY <1>2, <2>2, <2>6 DEF Undisturbed, Asked
    <3>2. Known' = Known /\ Current' = Current /\ (News' <=> News)
      BY <2>2, <2>6 DEF Known, Current, News, Awaiting, Asked
    <3>3. ~desktop => OnlyOwnBatches'
      BY <1>2, <2>2, <2>4, <2>6, <3>2 DEF OnlyOwnBatches, Awaiting, Asked, Current
    <3> QED
      BY <1>2, <1>4, <2>2, <3>1, <3>2, <3>3
  <2> QED
    BY <2>1, <2>5, <2>6
<1>7. CASE AckArrives
  <2>1. PICK a \in answers : /\ a.answer = "ack" /\ answers' = answers \ {a}
                             /\ Matches(queues[a.ack.client], a.ack)
                             /\ Pump(a.ack.client, Acknowledged(a))
    BY <1>7 DEF AckArrives, Acknowledged
  <2>2. UNCHANGED <<screen, doc, recovery, events>>
    BY <1>7 DEF AckArrives
  <2>3. PICK c : c = a.ack.client
    OBVIOUS
  <2>4. PICK queue : queue = Acknowledged(a)
    OBVIOUS
  <2>5. c \in 1 .. Current /\ queue \in AnyQueue /\ Pump(c, queue)
    BY <2>1, <2>3, <2>4, AckEffect
  <2>6. queues[c] \in AnyQueue
    BY <1>3, <2>5
  <2>7. queue.waiting = queues[c].waiting /\ queue.revision = a.ack.revision
    BY <2>3, <2>4, <2>6 DEF Acknowledged, AnyQueue
  <2>8. a.ack.revision = queues[c].revision + 1
    <3>1. queues[c].batch # NoBatch
      BY <2>1, <2>3 DEF Flight, VerdictsFly, Verdict, ClientOf
    <3>2. queues[c].batch.expectedRevision = queues[c].revision
      BY <2>5, <3>1 DEF Flight, QueueFlies
    <3> QED
      BY <2>1, <2>3, <3>2 DEF Matches
  <2>9. queue.waiting >= queues[c].waiting /\ queue.revision >= queues[c].revision
    BY <2>6, <2>7, <2>8 DEF AnyQueue
  <2>10. ~desktop => /\ queue.waiting = 0 /\ events' = {}
                     /\ doc.revision = queue.revision
    BY <1>2, <2>1, <2>2, <2>5, <2>6, <2>7 DEF OnlyOwnBatches, Awaiting, AnyQueue
  <2>11. UNCHANGED <<doc, recovery, binding, events>> /\ ~overtyped'
    BY <1>2, <2>2 DEF screen, Undisturbed
  <2>12. \A b \in answers : b.answer = "session" => b \in answers'
    BY <2>1
  <2> QED
    BY <1>5, <2>1, <2>5, <2>9, <2>10, <2>11, <2>12
<1>8. CASE BatchFails
  <2>1. PICK a : Fails(a)
    BY <1>8 DEF BatchFails, Fails, ClientOf
  <2>2. /\ ClientOf(a) \in 1 .. Current /\ Len(queues') = Len(queues)
        /\ queues'[ClientOf(a)] =
             [queues[ClientOf(a)] EXCEPT !.failed = TRUE, !.waiting = 0]
    BY <2>1, FailEffect
  <2>3. queues'[ClientOf(a)].failed
    BY <1>3, <2>2 DEF AnyQueue
  <2> QED
    BY <2>2, <2>3 DEF NoneFailed, Current
<1>9. CASE DraftStored \/ DraftFails \/ SnapshotArrives \/ Remount
  BY <1>2, <1>9 DEF DraftStored, DraftFails, SnapshotArrives, Remount, Undisturbed
<1>10. CASE SessionChanged
  <2>1. PICK revision \in events :
          /\ events' = events \ {revision}
          /\ IF revision <= Known \/ queues[Current].failed
               THEN UNCHANGED <<queues, requests>>
               ELSE Pump(Current, Awaited)
    BY <1>10 DEF SessionChanged, Awaited
  <2>2. /\ UNCHANGED <<doc, recovery, answers, binding>> /\ ~overtyped'
        /\ desktop /\ ~queues[Current].failed
    BY <1>1, <1>2, <1>3, <1>10, <2>1
       DEF SessionChanged, screen, Undisturbed, OnlyOwnBatches, NoneFailed
  <2>3. CASE revision <= Known
    <3>1. UNCHANGED <<queues, requests>> /\ Known' = Known /\ Current' = Current
      BY <2>1, <2>3 DEF Known, Current
    <3>2. Undisturbed'
      BY <1>2, <2>2, <3>1 DEF Undisturbed, Asked
    <3>3. doc.revision > Known => News'
      <4> SUFFICES ASSUME doc.revision > Known PROVE News'
        OBVIOUS
      <4>1. News /\ doc' = doc
        BY <1>2, <2>2
      <4>2. doc.revision \in events => doc.revision \in events'
        <5> SUFFICES ASSUME doc.revision = revision PROVE FALSE
          BY <2>1
        <5> QED
          BY <1>3, <2>3
      <4> QED
        BY <2>2, <3>1, <4>1, <4>2 DEF News, Awaiting, Asked
    <3> QED
      BY <1>4, <2>2, <3>1, <3>2, <3>3
  <2>4. CASE ~(revision <= Known)
    <3>1. Pump(Current, Awaited) /\ Awaited \in AnyQueue
      BY <2>1, <2>2, <2>4, AwaitedIsQueue
    <3>2. /\ Awaited.waiting > 0 /\ Awaited.waiting >= queues[Current].waiting
          /\ Awaited.revision >= queues[Current].revision
      BY <1>3 DEF Awaited, AnyQueue
    <3> QED
      BY <1>3, <1>5, <2>2, <3>1, <3>2
  <2> QED
    BY <2>3, <2>4
<1>11. CASE SessionArrives
  <2>1. PICK a \in answers :
          /\ a.answer = "session" /\ answers' = answers \ {a}
          /\ IF a.revision > Known
               THEN /\ Adopt(a.revision, a.text)
                    /\ binding' = IF binding = NoText THEN NoText ELSE a.text
               ELSE UNCHANGED <<queues, editor, binding>>
    BY <1>11 DEF SessionArrives
  <2>2. UNCHANGED <<doc, recovery, requests, events>> /\ ~overtyped' /\ desktop
    BY <1>2, <1>11, <2>1 DEF SessionArrives, Undisturbed, OnlyOwnBatches
  <2>3. binding' = NoText
    BY <1>2, <2>1 DEF Undisturbed
  <2>4. Undisturbed'
    BY <1>2, <2>1, <2>2, <2>3 DEF Undisturbed, Asked
  <2>5. /\ a.revision <= Known' /\ Known <= Known' /\ Known' \in Nat
        /\ Awaiting => Awaiting'
    <3>1. CASE a.revision > Known
      <4>1. /\ Current' = Current + 1 /\ a.revision \in 1 .. Len(texts)
            /\ \A i \in 1 .. Current : queues'[i] = queues[i]
            /\ queues'[Current + 1] = NewQueue(a.revision, Len(a.text))
        BY <2>1, <3>1, AdoptEffect DEF Types
      <4>2. Known' = a.revision
        BY <4>1 DEF Known, NewQueue
      <4>3. a.revision \in Nat
        BY <4>1 DEF Types, DocumentTypes
      <4> QED
        BY <1>3, <3>1, <4>1, <4>2, <4>3 DEF Awaiting
    <3>2. CASE ~(a.revision > Known)
      <4>1. a.revision \in Nat
        BY <2>1 DEF Types, IsAnswer, DocumentTypes
      <4> QED
        BY <1>3, <2>1, <3>2, <4>1 DEF Known, Awaiting, Current
    <3> QED
      BY <3>1, <3>2
  <2>6. ASSUME doc.revision > Known' PROVE News'
    <3>1. News
      BY <1>2, <1>3, <2>2, <2>5, <2>6
    <3>2. a.revision # doc.revision
      BY <1>3, <2>5, <2>6
    <3> QED
      BY <2>1, <2>2, <2>5, <3>1, <3>2 DEF News, Asked
  <2> QED
    BY <1>4, <2>2, <2>4, <2>6
<1>12. CASE ExecuteBatch
  <2>1. /\ requests[1].call = "apply" /\ requests # << >> /\ requests' = Tail(requests)
        /\ Len(requests) \in Nat \ {0}
        /\ Taken.client \in 1 .. Current
        /\ UNCHANGED <<screen, queues, recovery>>
        /\ AcceptsTaken \/ RefusesTaken
    BY <1>12, BatchEffect DEF ExecuteBatch, TakeCall
  <2>2. \A call \in {"get", "snapshot"} : Asked(call)' <=> Asked(call)
    BY <2>1, TakenCall
  <2>3. /\ Current' = Current /\ Known' = Known /\ (Awaiting' <=> Awaiting)
        /\ UNCHANGED <<binding, overtyped>>
    BY <2>1 DEF Current, Known, Awaiting, screen
  <2>4. PICK verdict : /\ answers' = answers \cup {verdict}
                       /\ verdict = Failure \/ (verdict = Success /\ AcceptsTaken)
    BY <2>1 DEF AcceptsTaken, RefusesTaken
  <2>5. /\ Verdict(verdict) /\ ClientOf(verdict) = Taken.client
        /\ verdict.answer = "ack" => verdict = Success /\ AcceptsTaken
    BY <1>12, <2>4, VerdictFits DEF Failure
  <2>6. Undisturbed'
    BY <1>2, <2>1, <2>2, <2>3, <2>4, <2>5 DEF Undisturbed, Verdict
  <2>7. ASSUME desktop, doc'.revision > Known' PROVE News'
    <3>1. CASE AcceptsTaken
      BY <2>7, <3>1 DEF AcceptsTaken, Revised, News
    <3>2. CASE RefusesTaken
      <4>1. News /\ UNCHANGED <<doc, events>>
        BY <1>2, <2>3, <2>7, <3>2 DEF RefusesTaken
      <4> QED
        BY <2>2, <2>3, <2>4, <4>1 DEF News
    <3> QED
      BY <2>1, <3>1, <3>2
  <2>8. ASSUME ~desktop PROVE OnlyOwnBatches'
    <3>1. OnlyOwnBatches /\ Taken.client = 1
      BY <1>2, <2>1, <2>8 DEF OnlyOwnBatches
    <3>2. Called(1)
      BY <2>1, <3>1 DEF Called, Taken
    <3>3. ~Judged(1)
      BY <1>3, <3>1, <3>2 DEF Flight, CallOrVerdict, OnlyOwnBatches
    <3>4. ASSUME NEW a \in answers' PROVE a.answer = "ack" => a.ack.revision = doc'.revision
      <4>1. CASE a \in answers
        <5>1. a.answer # "ack"
          <6> SUFFICES ASSUME a.answer = "ack" PROVE FALSE
            OBVIOUS
          <6>1. a.ack.client = 1
            BY <3>1, <4>1, AckEffect DEF OnlyOwnBatches
          <6> QED
            BY <3>3, <4>1, <6>1 DEF Judged, Verdict, ClientOf
        <5> QED
          BY <5>1
      <4>2. CASE a = verdict
        <5> SUFFICES ASSUME a.answer = "ack" PROVE a.ack.revision = doc'.revision
          OBVIOUS
        <5>1. a = Success /\ AcceptsTaken
          BY <2>5, <4>2
        <5> QED
          BY <1>12, <5>1, AcceptEffect
      <4> QED
        BY <2>4, <3>4, <4>1, <4>2
    <3>5. Judged(1)'
      BY <2>4, <2>5, <3>1 DEF Judged, Verdict, ClientOf
    <3>6. events' = {}
      BY <2>1, <2>8, <3>1 DEF OnlyOwnBatches, AcceptsTaken, RefusesTaken, Revised
    <3>7. \A a \in answers' : a.answer # "session"
      BY <2>4, <2>5, <3>1 DEF OnlyOwnBatches, Verdict
    <3> QED
      BY <2>2, <2>3, <3>1, <3>4, <3>5, <3>6, <3>7 DEF OnlyOwnBatches
  <2> QED
    BY <1>4, <2>6, <2>7, <2>8
<1>13. CASE ExecuteGet
  <2>1. /\ requests # << >> /\ requests' = Tail(requests)
        /\ UNCHANGED <<screen, queues, recovery, doc, events>>
        /\ answers' = answers \cup {Snapshot("session")}
        /\ Head(requests).call = "get"
    BY <1>13 DEF ExecuteGet, TakeCall
  <2>2. requests[1].call = "get" /\ Len(requests) \in Nat \ {0}
    BY <2>1, TakeEffect
  <2>3. Asked("get")
    BY <2>2 DEF Asked
  <2>4. Asked("snapshot")' <=> Asked("snapshot")
    BY <2>1, <2>2, TakenCall
  <2>5. desktop
    BY <1>2, <2>3 DEF OnlyOwnBatches
  <2>6. Undisturbed'
    BY <1>2, <2>1, <2>4 DEF Undisturbed, Snapshot, screen
  <2>7. News'
    <3>1. PICK a : a = Snapshot("session")
      OBVIOUS
    <3>2. a.answer = "session" /\ a.revision = doc.revision
      BY <3>1 DEF Snapshot
    <3> QED
      BY <2>1, <3>1, <3>2 DEF News
  <2> QED
    BY <1>4, <2>5, <2>6, <2>7
<1>14. CASE ExecuteSnapshot
  <2>1. requests # << >> /\ requests' = Tail(requests) /\ Head(requests).call = "snapshot"
    BY <1>14 DEF ExecuteSnapshot, TakeCall
  <2>2. requests[1].call = "snapshot" /\ Len(requests) \in Nat \ {0}
    BY <2>1, TakeEffect
  <2> QED
    BY <1>2, <2>2 DEF Undisturbed, Asked
<1>15. CASE ForeignWrite
  <2>1. /\ desktop /\ events' = events \cup {doc'.revision}
        /\ UNCHANGED <<screen, queues, recovery, requests, answers>>
    BY <1>15 DEF ForeignWrite, Revised
  <2>2. Undisturbed'
    BY <1>2, <2>1 DEF Undisturbed, Asked, screen
  <2>3. News'
    BY <2>1 DEF News
  <2> QED
    BY <1>4, <2>1, <2>2, <2>3
<1> QED
  BY <1>6, <1>7, <1>8, <1>9, <1>10, <1>11, <1>12, <1>13, <1>14, <1>15 DEF Next, Window, Backend

-----------------------------------------------------------------------------
(* The invariant *)

IInv ==
  /\ Types
  /\ Flight
  /\ Order
  /\ Screen
  /\ Calm

LEMMA NoKeysYet ==
  ASSUME texts = << << >> >>
  PROVE  \A k : k \in KeysIn(texts) <=> k = 0
<1>1. texts \in Seq(Seq(Nat)) /\ Len(texts) = 1 /\ texts[1] = << >>
  OBVIOUS
<1>2. \A r \in 1 .. Len(texts) : r = 1
  BY <1>1
<1>3. \A k : ~HasKey(texts[1], k)
  BY <1>1 DEF HasKey
<1>4. \A k : k \in KeysIn(texts) <=>
        k = 0 \/ \E r \in 1 .. Len(texts) : HasKey(texts[r], k)
  BY <1>1, KeysInTexts
<1> QED
  BY <1>2, <1>3, <1>4

LEMMA Start == Init => IInv
<1> SUFFICES ASSUME Init PROVE IInv
  OBVIOUS
<1>1. /\ Current = 1 /\ queues = << NewQueue(1, 0) >> /\ queues[1] = NewQueue(1, 0)
      /\ Len(requests) = 0 /\ requests = << >> /\ answers = {} /\ events = {}
      /\ recovery = "idle" /\ binding = NoText /\ ~overtyped
      /\ editor = << >> /\ typed = 0
  BY DEF Init, Current
<1>2. /\ IsDocument(doc) /\ doc.text = << >> /\ doc.revision = 1
      /\ texts = << << >> >> /\ Len(texts) = 1 /\ texts[1] = << >>
      /\ texts \in Seq(Seq(Nat))
  BY DEF Init, IsDocument, Fields, D!NewDocument, D!FirstRevision
<1>3. queues \in Seq(AnyQueue) /\ NewQueue(1, 0) \in AnyQueue
  BY <1>1, NewQueueIsQueue
<1>4. /\ queues[1].revision = 1 /\ queues[1].pending = << >> /\ queues[1].batch = NoBatch
      /\ queues[1].optimistic = 0 /\ ~queues[1].failed /\ queues[1].waiting = 0
  BY <1>1 DEF NewQueue
<1>5. Types
  BY <1>1, <1>2, <1>3 DEF Types, DocumentTypes, ScreenTypes, QueueTypes
<1>6. Flight
  BY <1>1, <1>2, <1>4
     DEF Flight, CallsFly, VerdictsFly, OneCall, OneVerdict, CallOrVerdict, QueueFlies,
         Called, Judged
<1>7. UnsentOf(queues[1]) = << >>
  BY <1>4 DEF UnsentOf
<1>8. Order
  <2>1. QueuesAreOrdered
    BY <1>1, <1>7 DEF QueuesAreOrdered, OrderedIn
  <2>2. \A k : k \in KeysIn(texts) <=> k = 0
    BY <1>2, NoKeysYet
  <2> QED
    BY <1>1, <2>1, <2>2 DEF Order, TextsAreTyped, IsLast
<1>9. Screen
  BY <1>1, <1>2, <1>4, <1>7, KeysOfNothing DEF Screen, Shown, Known
<1>10. Calm
  BY <1>1, <1>2, <1>4
     DEF Calm, Undisturbed, OnlyOwnBatches, News, Awaiting, Asked, Judged, Known
<1> QED
  BY <1>5, <1>6, <1>8, <1>9, <1>10 DEF IInv

LEMMA Step == IInv /\ [Next]_vars => IInv'
<1> SUFFICES ASSUME IInv, [Next]_vars PROVE IInv'
  OBVIOUS
<1>1. CASE Next
  <2>1. Types /\ Flight /\ Order /\ Screen /\ Calm
    BY DEF IInv
  <2>2. Types' /\ TextsKept /\ Current <= Current'
    BY <1>1, <2>1, TypesStep
  <2>3. Flight'
    BY <1>1, <2>1, <2>2, FlightStep
  <2>4. Order' /\ Screen' /\ Calm'
    BY <1>1, <2>1, <2>2, OrderStep, KnownTextIsShown, CalmStep
  <2> QED
    BY <2>2, <2>3, <2>4 DEF IInv
<1>2. CASE UNCHANGED vars
  <2>0. /\ doc' = doc /\ texts' = texts /\ typed' = typed /\ queues' = queues
        /\ requests' = requests /\ answers' = answers
    BY <1>2 DEF vars
  <2>1. Types'
    BY <1>2 DEF vars, IInv, Types, DocumentTypes, ScreenTypes, QueueTypes, Current, IsAnswer,
         IsDocument
  <2>2. Flight'
    <3>1. CallsFly' /\ OneCall' /\ OneVerdict' /\ CallOrVerdict'
      BY <2>0 DEF IInv, Flight, CallsFly, OneCall, OneVerdict, CallOrVerdict, Called, Judged,
           Current
    <3>2. ASSUME NEW a \in answers, Fits(a) PROVE Fits(a)'
      BY <2>0, <3>2 DEF Fits, Matches
    <3>3. VerdictsFly'
      BY <2>0, <3>2 DEF IInv, Flight, VerdictsFly
    <3>4. \A c \in 1 .. Current : (Called(c)' <=> Called(c)) /\ (Judged(c)' <=> Judged(c))
      BY <2>0 DEF Called, Judged
    <3>5. \A c \in 1 .. Current : QueueFlies(c) => QueueFlies(c)'
      BY <2>0, <3>4 DEF QueueFlies
    <3> QED
      BY <2>0, <3>1, <3>3, <3>5 DEF IInv, Flight, Current
  <2>3. Order'
    <3>1. ASSUME NEW queue, OrderedIn(queue) PROVE OrderedIn(queue)'
      BY <2>0, <3>1 DEF OrderedIn, UnsentOf
    <3>2. QueuesAreOrdered'
      BY <2>0, <3>1 DEF IInv, Order, QueuesAreOrdered, Current
    <3> QED
      BY <2>0, <3>2 DEF IInv, Order, TextsAreTyped
  <2>4. Screen'
    BY <1>2 DEF vars, IInv, Screen, Shown, Known, Current, UnsentOf
  <2>5. Calm'
    BY <1>2 DEF vars, IInv, Calm, NoneFailed, Undisturbed, OnlyOwnBatches, News, Awaiting,
         Asked, Judged, Known, Current
  <2> QED
    BY <2>1, <2>2, <2>3, <2>4, <2>5 DEF IInv
<1> QED
  BY <1>1, <1>2

LEMMA Invariance == Spec => []IInv
BY Start, Step, PTL DEF Spec

-----------------------------------------------------------------------------
(* The theorems *)

\* In every reachable state the documents, the screen, the queues, the calls and
\* the answers have their types, and a session or snapshot on its way is the
\* text of the revision it names.
THEOREM TypeCorrect == Spec => []Types
<1>1. IInv => Types
  BY DEF IInv
<1> QED
  BY <1>1, Invariance, PTL

\* #validateAck never fires: every acknowledgement on its way is the answer to
\* the batch its queue has in flight, with the number, the revision and the
\* length the queue computes for itself, whatever other queues, writers and
\* sessions did since the batch was sent.
THEOREM AcknowledgementsMatch == Spec => []AcksMatch
<1>1. IInv => AcksMatch
  BY DEF IInv, Flight, VerdictsFly, Verdict, Fits, AcksMatch
<1> QED
  BY <1>1, Invariance, PTL

LEMMA UnsentKeys ==
  ASSUME NEW queue \in AnyQueue
  PROVE  Unsent(queue) = KeysOf(UnsentOf(queue))
<1>1. queue.pending \in Seq(Tx) /\ KeysOf(queue.pending) \in Seq(Nat)
  BY KeysAreNaturals DEF AnyQueue
<1>2. CASE queue.batch = NoBatch
  <2>1. Unsent(queue) = << >> \o KeysOf(queue.pending)
    BY <1>2 DEF Unsent
  <2>2. << >> \o KeysOf(queue.pending) = KeysOf(queue.pending)
    BY <1>1, ConcatEmptySeq
  <2> QED
    BY <1>2, <2>1, <2>2, UnsentTyped
<1>3. CASE queue.batch # NoBatch
  <2>1. Unsent(queue) = KeysOf(queue.batch.payload) \o KeysOf(queue.pending)
    BY <1>3 DEF Unsent
  <2>2. /\ queue.batch.payload \in Seq(Tx)
        /\ UnsentOf(queue) = queue.batch.payload \o queue.pending
    BY <1>3, UnsentTyped
  <2> QED
    BY <1>1, <2>1, <2>2, KeysOfJoined
<1> QED
  BY <1>2, <1>3

LEMMA CurrentQueue ==
  ASSUME IInv
  PROVE  /\ Current \in 1 .. Current /\ queues[Current] \in AnyQueue
         /\ Known \in 1 .. Len(texts) /\ texts[Known] \in Seq(Nat)
<1>1. Current \in 1 .. Current /\ queues[Current] \in AnyQueue
  BY DEF IInv, Types, QueueTypes, Current
<1>2. Known \in 1 .. Len(texts)
  BY <1>1 DEF IInv, Flight, QueueFlies, Known
<1> QED
  BY <1>1, <1>2 DEF IInv, Types, DocumentTypes

\* As long as no keystroke comes between the installation of a document and the
\* new editor, the user sees the text of the revision the window knows with the
\* keystrokes its queue still has to deliver, and the queue's idea of its length
\* is right, so enqueue never throws a keystroke back.
THEOREM ScreenIsTrue == Spec => []ScreenIsKnownTextPlusUnsent
<1>1. ASSUME IInv PROVE ScreenIsKnownTextPlusUnsent
  <2>1. Unsent(queues[Current]) = KeysOf(UnsentOf(queues[Current]))
    BY <1>1, CurrentQueue, UnsentKeys
  <2> QED
    BY <1>1, <2>1 DEF IInv, Screen, Shown, ScreenIsKnownTextPlusUnsent
<1> QED
  BY <1>1, Invariance, PTL

\* As long as no batch was refused, an editor that nothing is under way for any
\* more shows the text of the document: no event, flush, session or
\* acknowledgement is needed that does not come.
THEOREM EditorConverges == Spec => []ConvergesUnlessRefused
<1>1. ASSUME IInv, AtRest, \A i \in 1 .. Current : ~queues[i].failed
      PROVE  editor = doc.text
  <2> DEFINE queue == queues[Current]
  <2>1. NoneFailed /\ Undisturbed
    BY <1>1 DEF NoneFailed, IInv, Calm
  <2>2. \A c : ~Called(c) /\ ~Judged(c)
    BY <1>1 DEF AtRest, Called, Judged
  <2>3. /\ Current \in 1 .. Current /\ queue \in AnyQueue
        /\ Known \in 1 .. Len(texts) /\ texts[Known] \in Seq(Nat)
    BY <1>1, CurrentQueue
  <2>4. \A c \in 1 .. Current : queues[c].batch = NoBatch /\ queues[c].waiting = 0
    BY <1>1, <2>2 DEF IInv, Flight, QueueFlies
  <2>5. UnsentOf(queue) = << >>
    <3>1. queue.pending = << >> /\ queue.batch = NoBatch
      BY <1>1, <2>3, <2>4 DEF IInv, Flight, QueueFlies
    <3> QED
      BY <2>3, <3>1, UnsentTyped
  <2>6. editor = texts[Known]
    <3>1. editor = texts[Known] \o << >>
      BY <1>1, <2>1, <2>5, KeysOfNothing DEF IInv, Screen, Shown, Undisturbed
    <3> QED
      BY <2>3, <3>1, ConcatEmptySeq
  <2>7. Len(texts) = doc.revision /\ doc.revision \in Nat /\ texts[Len(texts)] = doc.text
    BY <1>1 DEF IInv, Types, DocumentTypes, IsDocument
  <2>8. ~News
    BY <1>1, <2>4 DEF News, AtRest, Awaiting, Asked
  <2>9. doc.revision = Known
    <3>1. CASE desktop
      BY <1>1, <2>1, <2>3, <2>7, <2>8, <3>1 DEF IInv, Calm
    <3>2. CASE ~desktop
      BY <1>1, <2>1, <2>2, <3>2 DEF IInv, Calm, OnlyOwnBatches
    <3> QED
      BY <3>1, <3>2
  <2> QED
    BY <2>6, <2>7, <2>9
<1>2. IInv => ConvergesUnlessRefused
  BY <1>1 DEF ConvergesUnlessRefused
<1> QED
  BY <1>2, Invariance, PTL

-----------------------------------------------------------------------------
(* The delivery of keystrokes *)

\* What was delivered last, as the specification of the delivery reads it.
LastDelivered == Max({0} \cup UNION {Range(texts[r]) : r \in 1 .. Len(texts)})

LEMMA LastDeliveredIsLast ==
  ASSUME IInv
  PROVE  LastDelivered \in KeysIn(texts) /\ KeysIn(texts) \subseteq Nat
<1>1. LastDelivered = Max(KeysIn(texts))
  BY DEF LastDelivered, KeysIn
<1>2. texts \in Seq(Seq(Nat)) /\ \E key \in KeysIn(texts) : IsLast(key, KeysIn(texts))
  BY DEF IInv, Types, DocumentTypes, Order
<1> QED
  BY <1>1, <1>2, LastIsMax, KeysInTexts

LEMMA Split ==
  ASSUME NEW s \in Seq(Nat), NEW t \in Seq(Nat), Len(t) > 0
  PROVE  /\ Len(s \o t) > Len(s)
         /\ SubSeq(s \o t, 1, Len(s)) = s
         /\ SubSeq(s \o t, Len(s) + 1, Len(s \o t)) = t
<1>1. /\ s \o t \in Seq(Nat) /\ Len(s \o t) = Len(s) + Len(t)
      /\ Len(s) \in Nat /\ Len(t) \in Nat
  OBVIOUS
<1>2. SubSeq(s \o t, 1, Len(s)) = s
  BY <1>1, SMTT(30)
<1>3. SubSeq(s \o t, Len(s) + 1, Len(s \o t)) = t
  BY <1>1, SMTT(30)
<1> QED
  BY <1>1, <1>2, <1>3

LEMMA DeliveryStep ==
  ASSUME IInv, IInv', [Next]_vars
  PROVE  [Delivery!Next]_(Delivery!vars)
<1> USE DEF Delivery!vars
<1>1. CASE UNCHANGED vars
  BY <1>1 DEF vars
<1>2. CASE Next
  <2>0. Types /\ Types' /\ Flight /\ Order /\ typed \in Nat /\ typed' \in Nat
    BY DEF IInv, Types, ScreenTypes
  <2>1. CASE UNCHANGED <<doc, texts>>
    <3>1. typed' = typed \/ typed' = typed + 1
      <4>1. Quiet \/ Typing \/ Acknowledging \/ Adopting
        BY <1>2, <2>0, StepKinds
      <4> QED
        BY <4>1 DEF Quiet, Typing, Grows, Acknowledging, Shrinks, Adopting, Type, screen
    <3> QED
      BY <2>1, <3>1 DEF Delivery!Next, Delivery!Type
  <2>2. CASE ExecuteBatch /\ AcceptsTaken
    <3>1. PICK keys : keys = Delivered
      OBVIOUS
    <3>2. /\ keys \in Seq(Nat) /\ Len(keys) \in Nat \ {0}
          /\ doc'.text = doc.text \o keys
          /\ \A i \in 1 .. Len(keys) : keys[i] \in 1 .. typed
          /\ \A i, j \in 1 .. Len(keys) : i < j => keys[i] < keys[j]
          /\ \A i \in 1 .. Len(keys) : \A k \in KeysIn(texts) : k < keys[i]
          /\ IsLast(keys[Len(keys)], KeysIn(texts'))
      BY <2>0, <2>2, <3>1, DeliveryEffect
    <3>3. doc.text \in Seq(Nat) /\ UNCHANGED typed
      BY <2>0, <2>2, BatchEffect DEF Types, DocumentTypes, IsDocument, screen
    <3>4. PICK before : before = doc.text
      OBVIOUS
    <3>5. PICK after : after = doc'.text
      OBVIOUS
    <3>6. /\ Len(after) > Len(before)
          /\ SubSeq(after, 1, Len(before)) = before
          /\ SubSeq(after, Len(before) + 1, Len(after)) = keys
      <4>1. before \in Seq(Nat) /\ after = before \o keys /\ Len(keys) > 0
        BY <3>2, <3>3, <3>4, <3>5
      <4> QED
        BY <3>2, <4>1, Split, Zenon
    <3>7. \A i \in 2 .. Len(keys) : keys[i - 1] < keys[i]
      BY <3>2
    <3>8. keys[1] > LastDelivered
      <4>1. LastDelivered \in KeysIn(texts) /\ KeysIn(texts) \subseteq Nat
        BY LastDeliveredIsLast
      <4>2. 1 \in 1 .. Len(keys) /\ keys[1] \in Nat
        BY <3>2
      <4> QED
        BY <3>2, <4>1, <4>2
    <3>9. LastDelivered' = keys[Len(keys)]
      <4>1. PICK revisions : revisions = texts'
        OBVIOUS
      <4>2. revisions \in Seq(Seq(Nat)) /\ IsLast(keys[Len(keys)], KeysIn(revisions))
        BY <2>0, <3>2, <4>1 DEF Types, DocumentTypes
      <4>3. Max(KeysIn(revisions)) = keys[Len(keys)]
        BY <4>2, LastIsMax
      <4> QED
        BY <4>1, <4>3 DEF LastDelivered, KeysIn
    <3>10. keys[Len(keys)] <= typed
      BY <2>0, <3>2
    <3>11. Delivery!Deliver
      BY <3>3, <3>4, <3>5, <3>6, <3>7, <3>8, <3>9, <3>10
         DEF Delivery!Deliver, Delivery!Increasing, LastDelivered
    <3> QED
      BY <3>11 DEF Delivery!Next
  <2>3. CASE Overwrites
    <3>1. \A k : k \in KeysIn(texts') <=> k \in KeysIn(texts)
      BY <2>0, <2>3, OverwritingEffect
    <3>2. KeysIn(texts') = KeysIn(texts)
      BY <3>1
    <3>3. LastDelivered' = LastDelivered
      BY <3>2 DEF LastDelivered, KeysIn
    <3>4. UNCHANGED typed
      BY <2>3 DEF Overwrites, screen
    <3>5. doc'.text \in {<<Foreign>>, Append(doc.text, Foreign)}
      BY <2>3 DEF Overwrites
    <3>6. <<Foreign>> = Append(<< >>, Foreign)
      OBVIOUS
    <3>7. \E kept \in {<< >>, doc.text} : doc'.text = Append(kept, Foreign)
      BY <3>5, <3>6
    <3> QED
      BY <3>3, <3>4, <3>7 DEF Delivery!Next, Delivery!Overwrite, LastDelivered
  <2> QED
    BY <1>2, <2>0, <2>1, <2>2, <2>3, DocumentKinds
<1> QED
  BY <1>1, <1>2

\* The document gets every keystroke at most once, in the order it was typed,
\* and never one that is older than one it has: however batches, answers,
\* sessions, recoveries and other writers interleave, the window and its document
\* implement KeystrokeDelivery.
THEOREM KeystrokesAreDeliveredInOrder == Spec => DeliversOnceInOrder
<1>1. Init => Delivery!Init
  <2> SUFFICES ASSUME Init PROVE Delivery!Init
    OBVIOUS
  <2>1. typed = 0 /\ doc.text = << >> /\ texts = << << >> >>
    BY DEF Init, D!NewDocument
  <2>2. IInv
    BY Start
  <2>3. LastDelivered \in KeysIn(texts)
    BY <2>2, LastDeliveredIsLast
  <2>4. \A k \in KeysIn(texts) : k = 0
    BY <2>1, NoKeysYet
  <2> QED
    BY <2>1, <2>3, <2>4 DEF Delivery!Init, LastDelivered
<1>2. IInv /\ IInv' /\ [Next]_vars => [Delivery!Next]_(Delivery!vars)
  BY DeliveryStep
<1> QED
  BY <1>1, <1>2, Invariance, PTL DEF Spec, DeliversOnceInOrder, Delivery!Spec

=============================================================================
