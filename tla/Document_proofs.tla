-------------------------- MODULE Document_proofs --------------------------
(***************************************************************************)
(* The promises of a document: those of its retry ledger, for every number *)
(* of clients, every set of texts and payloads and every width of a        *)
(* revision number, that the tags of its page nest, to any depth, and that *)
(* the references of its diagrams lead where they led.                     *)
(*                                                                         *)
(* Tags are not numbered in the code: a closing tag names what it closes,  *)
(* and whether it was opened is told from stacks and flags of their own.   *)
(* The invariant of the markup says which tags should be open (Marks): of  *)
(* every element and scope that is not hidden, in the order of the source; *)
(* and that these are the tags that are open, each once (Matches).         *)
(*                                                                         *)
(* A diagram is read twice, and its elements are not numbered either: both *)
(* passes count the occurrences of an id among the elements they keep. The *)
(* invariant ties the counters of a pass to the source (Reading), what the *)
(* first one planned to the elements that have an id (Planned), and what   *)
(* the second one wrote to that plan.                                      *)
(***************************************************************************)
EXTENDS DocumentLedger, PreviewMarkup, GeneratedSvg, SequenceTheorems, FiniteSetTheorems, TLAPS

-----------------------------------------------------------------------------
(* The operations of the document, once and for all. *)

\* A new document is well typed.
LEMMA NewDocumentType ==
  ASSUME NEW text \in Texts, NEW dirty \in BOOLEAN
  PROVE  NewDocument(text, dirty) \in Document
  BY MaxRevisionAssumption
  DEF NewDocument, Document, Revisions, FirstRevision

\* The revision of a document that can advance has a successor.
LEMMA NextRevision ==
  ASSUME NEW d \in Document, CanAdvance(d)
  PROVE  d.revision + 1 \in Revisions
  BY MaxRevisionAssumption DEF CanAdvance, Document, Revisions, FirstRevision

\* Saving, replacing and touching keep a document well typed, and leave the
\* ledger alone.
LEMMA MarkSavedType ==
  ASSUME NEW d \in Document
  PROVE  MarkSaved(d) \in Document
  BY DEF MarkSaved, Document

LEMMA ReplaceType ==
  ASSUME NEW d \in Document, CanAdvance(d), NEW text \in Texts, NEW dirty \in BOOLEAN
  PROVE  ReplaceCanonicalText(d, text, dirty) \in Document
  BY NextRevision DEF ReplaceCanonicalText, Document

LEMMA TouchType ==
  ASSUME NEW d \in Document, CanAdvance(d)
  PROVE  Touch(d) \in Document
  BY NextRevision DEF Touch, Document

\* An accepted batch has a result, and its acknowledgement is well typed.
LEMMA NewAckType ==
  ASSUME NEW d \in Document, NEW batch \in Batch, Accepts(d, batch)
  PROVE  /\ Applied(d.text, batch.payload) \in Texts
         /\ NewAck(d, batch) \in Ack
<1>1. d.text \in Texts /\ batch.payload \in Payloads
  BY DEF Document, Batch
<1>2. Applied(d.text, batch.payload) \in Texts
  BY <1>1, AppliedAssumption DEF Accepts
<1>3. LengthOf(Applied(d.text, batch.payload)) \in Nat
  BY <1>2, LengthAssumption
<1>4. d.revision + 1 \in Revisions
  BY NextRevision DEF Accepts
<1>5. (d.saved # Applied(d.text, batch.payload)) \in BOOLEAN
  OBVIOUS
<1>6. batch.client \in Clients /\ batch.batchId \in U64
  BY DEF Batch
<1> QED
  BY <1>2, <1>3, <1>4, <1>5, <1>6 DEF NewAck, Ack

LEMMA AfterBatchType ==
  ASSUME NEW d \in Document, NEW batch \in Batch, Accepts(d, batch)
  PROVE  AfterBatch(d, batch) \in Document
<1> DEFINE ack == NewAck(d, batch)
           entry == [batch |-> batch, ack |-> ack]
<1>1. Applied(d.text, batch.payload) \in Texts /\ ack \in Ack
  BY NewAckType
<1>2. entry \in AppliedBatch
  BY <1>1 DEF AppliedBatch
<1>3. batch.client \in Clients
  BY DEF Batch
<1>4. [d.ledger EXCEPT ![batch.client] = entry] \in [Clients -> AppliedBatch \cup {NoBatch}]
  BY <1>2, <1>3 DEF Document
<1>5. ack.revision \in Revisions /\ ack.dirty \in BOOLEAN
  BY <1>1 DEF Ack
<1> HIDE DEF ack
<1> QED
  BY <1>1, <1>4, <1>5 DEF AfterBatch, Document, ack

\* What the document is after an accepted batch, field by field.
LEMMA AfterBatchFields ==
  ASSUME NEW d \in Document, NEW batch \in Batch
  PROVE  LET n == AfterBatch(d, batch)
         IN  /\ n.text = Applied(d.text, batch.payload)
             /\ n.saved = d.saved
             /\ n.revision = d.revision + 1
             /\ n.dirty = (d.saved # Applied(d.text, batch.payload))
             /\ n.ledger = [d.ledger EXCEPT ![batch.client] =
                              [batch |-> batch, ack |-> NewAck(d, batch)]]
<1>1. /\ NewAck(d, batch).revision = d.revision + 1
      /\ NewAck(d, batch).dirty = (d.saved # Applied(d.text, batch.payload))
  BY Zenon DEF NewAck
<1> QED
  BY <1>1 DEF AfterBatch, Document

\* A retry is answered with a well-typed acknowledgement.
LEMMA ReplayedAckType ==
  ASSUME NEW d \in Document, NEW batch \in Batch, IsReplay(d, batch)
  PROVE  ReplayedAck(d, batch) \in Ack
<1>1. d.ledger[batch.client] \in AppliedBatch
  BY DEF Document, Batch, IsReplay
<1> QED
  BY <1>1 DEF ReplayedAck, Ack, AppliedBatch, Document

-----------------------------------------------------------------------------
(* Type correctness. *)

LEMMA RecordType ==
  ASSUME TypeOK, doc' \in Document, NEW cause \in Batch \cup {NoBatch}, Record(cause)
  PROVE  history' \in Seq(Version)
  BY DEF TypeOK, Record, Version, Document

LEMMA InitType == Init => TypeOK
<1> SUFFICES ASSUME Init PROVE TypeOK
  OBVIOUS
<1>1. doc \in Document
  BY NewDocumentType DEF Init
<1>2. history \in Seq(Version)
  BY <1>1 DEF Init, Version, Document
<1> QED
  BY <1>1, <1>2 DEF Init, TypeOK

LEMMA NextType == TypeOK /\ [Next]_vars => TypeOK'
<1> SUFFICES ASSUME TypeOK, [Next]_vars PROVE TypeOK'
  OBVIOUS
<1>0. doc \in Document
  BY DEF TypeOK
<1>1. ASSUME NEW batch \in Batch, ApplyNew(batch) PROVE TypeOK'
  <2>1. doc' \in Document /\ NewAck(doc, batch) \in Ack
    BY <1>0, <1>1, AfterBatchType, NewAckType DEF ApplyNew
  <2>2. history' \in Seq(Version)
    BY <1>1, <2>1, RecordType DEF ApplyNew
  <2>3. reply' \in Reply
    BY <1>1, <2>1 DEF ApplyNew, Reply
  <2> QED
    BY <2>1, <2>2, <2>3 DEF TypeOK
<1>2. ASSUME NEW batch \in Batch, Replay(batch) PROVE TypeOK'
  <2>1. ReplayedAck(doc, batch) \in Ack
    BY <1>0, <1>2, ReplayedAckType DEF Replay
  <2> QED
    BY <1>2, <2>1 DEF Replay, TypeOK, Reply
<1>3. ASSUME NEW batch \in Batch, Refuse(batch) PROVE TypeOK'
  BY <1>3 DEF Refuse, TypeOK, Reply
<1>4. CASE Save
  BY <1>0, <1>4, MarkSavedType DEF Save, TypeOK
<1>5. ASSUME NEW next \in Document, Revise(next) PROVE TypeOK'
  BY <1>5, RecordType DEF Revise, TypeOK
<1>6. ASSUME NEW text \in Texts, NEW dirty \in BOOLEAN, Replace(text, dirty) PROVE TypeOK'
  BY <1>0, <1>5, <1>6, ReplaceType DEF Replace, Revise
<1>7. ASSUME NEW dirty \in BOOLEAN, CommitDelete(dirty) PROVE TypeOK'
  <2>1. doc.text \in Texts
    BY <1>0 DEF Document
  <2> QED
    BY <1>0, <1>5, <1>7, <2>1, ReplaceType DEF CommitDelete, SetDirtyAndTouch, Revise
<1>8. CASE TouchDocument
  BY <1>0, <1>5, <1>8, TouchType DEF TouchDocument, Revise
<1>9. CASE UNCHANGED vars
  BY <1>9 DEF vars, TypeOK
<1> QED
  BY <1>1, <1>2, <1>3, <1>4, <1>6, <1>7, <1>8, <1>9 DEF Next, ApplyMutationBatch

\* The document, its history and the last answer always have their types.
THEOREM TypeCorrect == Spec => []TypeOK
  BY InitType, NextType, PTL DEF Spec

-----------------------------------------------------------------------------
(***************************************************************************)
(* Safety. The promises about history are not inductive by themselves: a   *)
(* new batch is the first of its number because the ledger's last number   *)
(* is the highest in history, which LedgerAgreesWithHistory says.          *)
(***************************************************************************)
Inv ==
  /\ TypeOK
  /\ RevisionNamesText
  /\ DirtyMeansUnsaved
  /\ LedgerAgreesWithHistory
  /\ BatchesExtendWhatTheySaw
  /\ BatchesOnceInOrder

\* What recording a version does to history, position by position.
LEMMA Appended ==
  ASSUME TypeOK, TypeOK', NEW cause, Record(cause)
  PROVE  /\ Len(history) \in Nat
         /\ Len(history') = Len(history) + 1
         /\ \A r \in 1 .. Len(history) : history'[r] = history[r]
         /\ history'[Len(history) + 1].cause = cause
         /\ history'[Len(history) + 1].text = doc'.text
  BY DEF TypeOK, Record

\* The parts of the typed state that arithmetic needs.
LEMMA Numbers ==
  ASSUME TypeOK
  PROVE  /\ doc.revision \in Nat /\ doc.revision >= 1
         /\ \A c \in Clients : doc.ledger[c] # NoBatch =>
              /\ doc.ledger[c].batch \in Batch
              /\ doc.ledger[c].batch # NoBatch
              /\ doc.ledger[c].batch.batchId \in Nat
              /\ doc.ledger[c].ack.revision \in Nat
              /\ doc.ledger[c].ack.revision >= 1
         /\ \A r \in 1 .. Len(history) : history[r].cause # NoBatch =>
              /\ history[r].cause \in Batch
              /\ history[r].cause.client \in Clients
              /\ history[r].cause.batchId \in Nat
<1>1. doc.revision \in Nat /\ doc.revision >= 1
  BY MaxRevisionAssumption DEF TypeOK, Document, Revisions, FirstRevision
<1>2. ASSUME NEW c \in Clients, doc.ledger[c] # NoBatch
      PROVE  /\ doc.ledger[c].batch \in Batch
             /\ doc.ledger[c].batch # NoBatch
             /\ doc.ledger[c].batch.batchId \in Nat
             /\ doc.ledger[c].ack.revision \in Nat
             /\ doc.ledger[c].ack.revision >= 1
  <2>1. doc.ledger[c] \in AppliedBatch
    BY <1>2 DEF TypeOK, Document
  <2> QED
    BY <2>1, NoBatchAssumption, MaxRevisionAssumption
    DEF AppliedBatch, Batch, Ack, U64, Revisions, FirstRevision
<1>3. ASSUME NEW r \in 1 .. Len(history), history[r].cause # NoBatch
      PROVE  /\ history[r].cause \in Batch
             /\ history[r].cause.client \in Clients
             /\ history[r].cause.batchId \in Nat
  <2>1. history[r] \in Version
    BY DEF TypeOK
  <2>2. history[r].cause \in Batch
    BY <1>3, <2>1 DEF Version
  <2> QED
    BY <2>2, MaxRevisionAssumption DEF Batch, U64
<1> QED
  BY <1>1, <1>2, <1>3

LEMMA InitInv == Init => Inv
<1> SUFFICES ASSUME Init PROVE Inv
  OBVIOUS
<1>0. TypeOK
  BY InitType
<1>1. PICK text \in Texts, dirty \in BOOLEAN : doc = NewDocument(text, dirty)
  BY DEF Init
<1>2. /\ doc.text = text
      /\ doc.saved = IF dirty THEN NoText ELSE text
      /\ doc.revision = 1
      /\ doc.dirty = dirty
      /\ doc.ledger = [c \in Clients |-> NoBatch]
  BY <1>1, Zenon DEF NewDocument, FirstRevision
<1>3. history = << [text |-> doc.text, cause |-> NoBatch] >>
  BY DEF Init
<1>4. Len(history) = 1 /\ history[1].cause = NoBatch /\ history[1].text = doc.text
  BY <1>3
<1>5. RevisionNamesText
  BY <1>2, <1>4 DEF RevisionNamesText
<1>6. DirtyMeansUnsaved
  <2>1. CASE dirty
    BY <1>2, <2>1, MarkersAssumption DEF DirtyMeansUnsaved
  <2>2. CASE ~dirty
    BY <1>2, <2>2 DEF DirtyMeansUnsaved
  <2> QED
    BY <2>1, <2>2
<1>7. LedgerAgreesWithHistory
  <2>1. \A r \in 1 .. Len(history) : history[r].cause = NoBatch
    BY <1>4
  <2>2. \A c \in Clients : doc.ledger[c] = NoBatch
    BY <1>2
  <2> QED
    BY <2>1, <2>2, Zenon DEF LedgerAgreesWithHistory
<1>8. BatchesExtendWhatTheySaw /\ BatchesOnceInOrder
  BY <1>4 DEF BatchesExtendWhatTheySaw, BatchesOnceInOrder
<1> QED
  BY <1>0, <1>5, <1>6, <1>7, <1>8 DEF Inv

\* A revision made without a batch keeps everything history says of batches.
LEMMA ReviseKeepsInv ==
  ASSUME Inv, TypeOK', NEW next \in Document, Revise(next),
         next.revision = doc.revision + 1,
         next.ledger = doc.ledger,
         next.dirty = (next.saved # next.text)
  PROVE  Inv'
<1> USE DEF Inv
<1>1. doc' = next /\ Record(NoBatch)
  BY DEF Revise
<1>2. /\ Len(history) \in Nat
      /\ Len(history') = Len(history) + 1
      /\ \A r \in 1 .. Len(history) : history'[r] = history[r]
      /\ history'[Len(history) + 1].cause = NoBatch
      /\ history'[Len(history) + 1].text = doc'.text
  BY <1>1, Appended
<1>3. RevisionNamesText'
  BY <1>1, <1>2 DEF RevisionNamesText
<1>4. DirtyMeansUnsaved'
  BY <1>1 DEF DirtyMeansUnsaved
<1>5. \A r \in 1 .. Len(history') : history'[r].cause # NoBatch =>
        r \in 1 .. Len(history) /\ history'[r] = history[r]
  BY <1>2
<1>6. LedgerAgreesWithHistory'
  <2> SUFFICES ASSUME NEW c \in Clients
               PROVE  LedgerAgreesWithHistory!(c)'
    BY DEF LedgerAgreesWithHistory
  <2>1. doc'.ledger[c] = doc.ledger[c]
    BY <1>1
  <2>2. CASE doc.ledger[c] = NoBatch
    BY <1>5, <2>1, <2>2 DEF LedgerAgreesWithHistory
  <2>3. CASE doc.ledger[c] # NoBatch
    <3>1. doc.ledger[c].ack.revision \in 1 .. Len(history)
      BY <1>2, <2>3, Numbers DEF LedgerAgreesWithHistory
    <3>2. history'[doc.ledger[c].ack.revision] = history[doc.ledger[c].ack.revision]
      BY <1>2, <3>1
    <3>3. PICK entry, at : entry = doc.ledger[c] /\ at = entry.ack.revision
      OBVIOUS
    <3>4. /\ entry.batch.client = c /\ at <= Len(history)
          /\ history[at].cause = entry.batch
          /\ entry.ack.length = LengthOf(history[at].text)
      BY <2>3, <3>3, Zenon DEF LedgerAgreesWithHistory
    <3>5. \A r \in 1 .. Len(history) :
            (history[r].cause # NoBatch /\ history[r].cause.client = c)
              => history[r].cause.batchId <= entry.batch.batchId /\ r <= at
      BY <2>3, <3>3, Zenon DEF LedgerAgreesWithHistory
    <3>6. at <= Len(history') /\ history'[at] = history[at]
      BY <1>2, <3>1, <3>2, <3>3
    <3>7. \A r \in 1 .. Len(history') :
            (history'[r].cause # NoBatch /\ history'[r].cause.client = c)
              => history'[r].cause.batchId <= entry.batch.batchId /\ r <= at
      BY <1>5, <3>5, Zenon
    <3>8. doc'.ledger[c] = entry /\ entry # NoBatch /\ entry.ack.revision = at
      BY <2>1, <2>3, <3>3
    <3>9. history'[at].cause = entry.batch /\ entry.batch.client = c
      BY <3>4, <3>6
    <3>10. at <= Len(history') /\ entry.ack.length = LengthOf(history'[at].text)
      BY <3>4, <3>6
    <3> QED
      BY <3>8, <3>9, <3>10, <3>7 DEF LedgerAgreesWithHistory
  <2> QED
    BY <2>2, <2>3
<1>7. BatchesExtendWhatTheySaw'
  BY <1>2, <1>5 DEF BatchesExtendWhatTheySaw
<1>8. \A c, n : Numbered(c, n)' = Numbered(c, n)
  BY <1>2, <1>5 DEF Numbered
<1>9. BatchesOnceInOrder'
  <2> SUFFICES ASSUME NEW r \in 1 .. Len(history'), history'[r].cause # NoBatch
               PROVE  BatchesOnceInOrder!(r)'
    BY DEF BatchesOnceInOrder
  <2>1. r \in 1 .. Len(history) /\ history'[r] = history[r]
    BY <1>5
  <2> QED
    BY <1>8, <2>1 DEF BatchesOnceInOrder
<1> QED
  BY <1>3, <1>4, <1>6, <1>7, <1>9

\* An accepted batch keeps what history says: it is the first of its number,
\* and the one before it in its client's numbering is in history already.
LEMMA ApplyNewKeepsInv ==
  ASSUME Inv, TypeOK', NEW batch \in Batch, ApplyNew(batch)
  PROVE  Inv'
<1> USE DEF Inv
<1> DEFINE top == Len(history) + 1
           last == doc.ledger[batch.client]
<1>0. /\ doc \in Document
      /\ batch.client \in Clients
      /\ batch.batchId \in Nat
      /\ batch.expectedRevision = doc.revision
      /\ batch.batchId = ExpectedBatchId(doc, batch.client)
  BY MaxRevisionAssumption DEF TypeOK, ApplyNew, Accepts, Batch, U64
<1>1. /\ doc'.text = Applied(doc.text, batch.payload)
      /\ doc'.saved = doc.saved
      /\ doc'.revision = doc.revision + 1
      /\ doc'.dirty = (doc.saved # Applied(doc.text, batch.payload))
      /\ doc'.ledger = [doc.ledger EXCEPT ![batch.client] =
                          [batch |-> batch, ack |-> NewAck(doc, batch)]]
  BY <1>0, AfterBatchFields DEF ApplyNew
<1>2. /\ Len(history) \in Nat
      /\ Len(history') = top
      /\ \A r \in 1 .. Len(history) : history'[r] = history[r]
      /\ history'[top].cause = batch
      /\ history'[top].text = doc'.text
  BY Appended DEF ApplyNew
<1>3. Len(history) = doc.revision /\ history[doc.revision].text = doc.text
  BY DEF RevisionNamesText
<1>4. /\ NewAck(doc, batch).revision = top
      /\ NewAck(doc, batch).length = LengthOf(Applied(doc.text, batch.payload))
  BY <1>3 DEF NewAck
\* The client's number is higher than every number it has in history.
<1>5. \A r \in 1 .. Len(history) :
        (history[r].cause # NoBatch /\ history[r].cause.client = batch.client)
          => history[r].cause.batchId < batch.batchId
  <2>1. CASE last = NoBatch
    BY <1>0, <2>1 DEF LedgerAgreesWithHistory
  <2>2. CASE last # NoBatch
    <3>1. batch.batchId = last.batch.batchId + 1
      BY <1>0, <2>2 DEF ExpectedBatchId
    <3>2. last.batch.batchId \in Nat
      BY <1>0, <2>2, Numbers
    <3>3. \A r \in 1 .. Len(history) :
            (history[r].cause # NoBatch /\ history[r].cause.client = batch.client)
              => history[r].cause.batchId <= last.batch.batchId
      BY <1>0, <2>2 DEF LedgerAgreesWithHistory
    <3> QED
      BY <3>1, <3>2, <3>3, Numbers
  <2> QED
    BY <2>1, <2>2
<1>6. RevisionNamesText'
  BY <1>1, <1>2, <1>3 DEF RevisionNamesText
<1>7. DirtyMeansUnsaved'
  BY <1>1 DEF DirtyMeansUnsaved
<1>8. LedgerAgreesWithHistory'
  <2> SUFFICES ASSUME NEW c \in Clients
               PROVE  LedgerAgreesWithHistory!(c)'
    BY DEF LedgerAgreesWithHistory
  <2>1. CASE c = batch.client
    <3>1. doc'.ledger[c] = [batch |-> batch, ack |-> NewAck(doc, batch)]
      BY <1>0, <1>1, <2>1 DEF Document
    <3>2. doc'.ledger[c] # NoBatch
      <4>1. doc'.ledger[c] \in AppliedBatch
        BY <1>0, <3>1, NewAckType DEF AppliedBatch, ApplyNew
      <4> QED
        BY <4>1, NoBatchAssumption
    <3>3. /\ doc'.ledger[c].batch = batch
          /\ doc'.ledger[c].ack.revision = top
          /\ doc'.ledger[c].ack.length = LengthOf(history'[top].text)
      BY <1>1, <1>2, <1>4, <3>1
    <3>4. \A r \in 1 .. Len(history') :
            (history'[r].cause # NoBatch /\ history'[r].cause.client = c)
              => history'[r].cause.batchId <= batch.batchId /\ r <= top
      <4> SUFFICES ASSUME NEW r \in 1 .. Len(history'),
                          history'[r].cause # NoBatch, history'[r].cause.client = c
                   PROVE  history'[r].cause.batchId <= batch.batchId /\ r <= top
        OBVIOUS
      <4>1. CASE r = top
        BY <1>0, <1>2, <4>1
      <4>2. CASE r \in 1 .. Len(history)
        BY <1>0, <1>2, <1>5, <2>1, <4>2, Numbers
      <4> QED
        BY <1>2, <4>1, <4>2
    <3>5. top <= Len(history')
      BY <1>2
    <3> QED
      BY <1>2, <2>1, <3>2, <3>3, <3>4, <3>5
  <2>2. CASE c # batch.client
    <3>1. doc'.ledger[c] = doc.ledger[c]
      BY <1>0, <1>1, <2>2 DEF Document
    <3>2. \A r \in 1 .. Len(history') :
            (history'[r].cause # NoBatch /\ history'[r].cause.client = c)
              => r \in 1 .. Len(history) /\ history'[r] = history[r]
      BY <1>2, <2>2
    <3>3. CASE doc.ledger[c] = NoBatch
      BY <3>1, <3>2, <3>3 DEF LedgerAgreesWithHistory
    <3>4. CASE doc.ledger[c] # NoBatch
      <4>1. doc.ledger[c].ack.revision \in 1 .. Len(history)
        BY <1>2, <3>4, Numbers DEF LedgerAgreesWithHistory
      <4>2. history'[doc.ledger[c].ack.revision] = history[doc.ledger[c].ack.revision]
        BY <1>2, <4>1
      <4>3. doc.ledger[c].ack.revision <= Len(history')
        BY <1>2, <4>1
      <4> QED
        BY <3>1, <3>2, <3>4, <4>2, <4>3 DEF LedgerAgreesWithHistory
    <3> QED
      BY <3>3, <3>4
  <2> QED
    BY <2>1, <2>2
<1>9. BatchesExtendWhatTheySaw'
  <2> SUFFICES ASSUME NEW r \in 2 .. Len(history'), history'[r].cause # NoBatch
               PROVE  /\ history'[r].cause.expectedRevision = r - 1
                      /\ history'[r].text =
                           Applied(history'[r - 1].text, history'[r].cause.payload)
    BY DEF BatchesExtendWhatTheySaw
  <2>1. CASE r = top
    <3>1. doc.revision \in 1 .. Len(history) /\ r - 1 = doc.revision
      BY <1>3, <2>1, Numbers
    <3>2. history'[r - 1].text = doc.text
      BY <1>2, <1>3, <3>1
    <3> QED
      BY <1>0, <1>1, <1>2, <2>1, <3>1, <3>2
  <2>2. CASE r \in 2 .. Len(history)
    <3>1. history'[r] = history[r] /\ history'[r - 1] = history[r - 1]
      BY <1>2, <2>2
    <3> QED
      BY <2>2, <3>1 DEF BatchesExtendWhatTheySaw
  <2>3. r = top \/ r \in 2 .. Len(history)
    BY <1>2, <1>3
  <2> QED
    BY <2>1, <2>2, <2>3, Zenon
<1>10. BatchesOnceInOrder'
  <2> SUFFICES ASSUME NEW r \in 1 .. Len(history'), history'[r].cause # NoBatch,
                      NEW c, c = history'[r].cause.client,
                      NEW n, n = history'[r].cause.batchId
               PROVE  /\ n >= 1
                      /\ Numbered(c, n)' = {r}
                      /\ n > 1 => \E p \in 1 .. r - 1 : Numbered(c, n - 1)' = {p}
    BY DEF BatchesOnceInOrder, FirstBatchId, Numbered
  <2>1. \A d, m : ~(d = batch.client /\ m = batch.batchId)
          => Numbered(d, m)' = Numbered(d, m)
    BY <1>2 DEF Numbered
  <2>2. batch.batchId - 1 # batch.batchId
    BY <1>0
  <2>3. CASE r = top
    <3>1. batch.batchId >= 1
      BY <1>0, Numbers DEF ExpectedBatchId, FirstBatchId
    <3>2. Numbered(batch.client, batch.batchId)' = {top}
      <4>1. top \in Numbered(batch.client, batch.batchId)'
        BY <1>2, <2>3 DEF Numbered
      <4>2. ASSUME NEW q \in Numbered(batch.client, batch.batchId)', q # top
            PROVE  FALSE
        <5>1. q \in 1 .. Len(history) /\ history'[q] = history[q]
          BY <1>2, <4>2 DEF Numbered
        <5>2. /\ history[q].cause # NoBatch
              /\ history[q].cause.client = batch.client
              /\ history[q].cause.batchId = batch.batchId
          BY <4>2, <5>1 DEF Numbered
        <5> QED
          BY <1>0, <1>5, <5>1, <5>2
      <4> QED
        BY <4>1, <4>2
    <3>3. ASSUME batch.batchId > 1
          PROVE  \E p \in 1 .. top - 1 : Numbered(batch.client, batch.batchId - 1)' = {p}
      <4>1. last # NoBatch /\ batch.batchId - 1 = last.batch.batchId
        BY <1>0, <3>3, Numbers DEF ExpectedBatchId, FirstBatchId
      <4> DEFINE p == last.ack.revision
      <4>2. /\ p \in 1 .. Len(history)
            /\ history[p].cause = last.batch
            /\ last.batch # NoBatch
            /\ last.batch.client = batch.client
        BY <1>0, <1>2, <4>1, Numbers, SMTT(30) DEF LedgerAgreesWithHistory
      <4>3. Numbered(batch.client, batch.batchId - 1) = {p}
        BY <4>1, <4>2 DEF BatchesOnceInOrder
      <4>4. Numbered(batch.client, batch.batchId - 1)' = {p}
        BY <2>1, <2>2, <4>3
      <4> QED
        BY <1>2, <4>2, <4>4, SMTT(30)
    <3>4. c = batch.client /\ n = batch.batchId
      BY <1>2, <2>3
    <3> QED
      BY <2>3, <3>1, <3>2, <3>3, <3>4
  <2>4. CASE r \in 1 .. Len(history)
    <3>1. /\ history'[r] = history[r]
          /\ c = history[r].cause.client
          /\ n = history[r].cause.batchId
      BY <1>2, <2>4
    <3>2. /\ n >= 1
          /\ Numbered(c, n) = {r}
          /\ n > 1 => \E p \in 1 .. r - 1 : Numbered(c, n - 1) = {p}
      BY <2>4, <3>1 DEF BatchesOnceInOrder, FirstBatchId
    <3>3. n \in Nat /\ (c = batch.client => n < batch.batchId)
      BY <1>5, <2>4, <3>1, Numbers
    <3>4. /\ Numbered(c, n)' = Numbered(c, n)
          /\ Numbered(c, n - 1)' = Numbered(c, n - 1)
      BY <1>0, <2>1, <3>3
    <3> QED
      BY <3>2, <3>4
  <2>5. r = top \/ r \in 1 .. Len(history)
    BY <1>2
  <2> QED
    BY <2>3, <2>4, <2>5
<1> QED
  BY <1>6, <1>7, <1>8, <1>9, <1>10

LEMMA NextInv == Inv /\ [Next]_vars => Inv'
<1> SUFFICES ASSUME Inv, [Next]_vars PROVE Inv'
  OBVIOUS
<1>0. TypeOK' /\ doc \in Document
  BY NextType DEF Inv, TypeOK
<1>1. ASSUME NEW batch \in Batch, ApplyNew(batch) PROVE Inv'
  BY <1>0, <1>1, ApplyNewKeepsInv
<1>2. ASSUME UNCHANGED <<doc, history>> PROVE Inv'
  <2>1. doc' = doc /\ history' = history
    BY <1>2
  <2>2. RevisionNamesText' /\ DirtyMeansUnsaved' /\ LedgerAgreesWithHistory'
    BY <2>1 DEF Inv, RevisionNamesText, DirtyMeansUnsaved, LedgerAgreesWithHistory
  <2>3. BatchesExtendWhatTheySaw' /\ BatchesOnceInOrder'
    BY <2>1 DEF Inv, BatchesExtendWhatTheySaw, BatchesOnceInOrder, Numbered
  <2> QED
    BY <1>0, <2>2, <2>3 DEF Inv
<1>3. CASE Save
  <2>1. /\ doc'.text = doc.text /\ doc'.saved = doc.text /\ doc'.dirty = FALSE
        /\ doc'.revision = doc.revision /\ doc'.ledger = doc.ledger
        /\ history' = history
    BY <1>0, <1>3 DEF Save, MarkSaved, Document
  <2>2. DirtyMeansUnsaved'
    BY <2>1 DEF DirtyMeansUnsaved
  <2>3. RevisionNamesText' /\ LedgerAgreesWithHistory'
    BY <2>1 DEF Inv, RevisionNamesText, LedgerAgreesWithHistory
  <2>4. BatchesExtendWhatTheySaw' /\ BatchesOnceInOrder'
    BY <2>1 DEF Inv, BatchesExtendWhatTheySaw, BatchesOnceInOrder, Numbered
  <2> QED
    BY <1>0, <2>2, <2>3, <2>4 DEF Inv
<1>4. ASSUME NEW text \in Texts, NEW dirty \in BOOLEAN,
             Revise(ReplaceCanonicalText(doc, text, dirty))
      PROVE  Inv'
  <2> DEFINE next == ReplaceCanonicalText(doc, text, dirty)
  <2>1. next \in Document
    BY <1>0, <1>4, ReplaceType DEF Revise
  <2>2. /\ next.revision = doc.revision + 1
        /\ next.ledger = doc.ledger
        /\ next.dirty = dirty
        /\ next.text = text
        /\ next.saved = IF dirty THEN NoText ELSE text
    BY <1>0 DEF ReplaceCanonicalText, Document
  <2>3. next.dirty = (next.saved # next.text)
    <3>1. CASE dirty
      BY <2>2, <3>1, MarkersAssumption
    <3>2. CASE ~dirty
      BY <2>2, <3>2
    <3> QED
      BY <3>1, <3>2
  <2> QED
    BY <1>0, <1>4, <2>1, <2>2, <2>3, ReviseKeepsInv
<1>5. ASSUME NEW dirty \in BOOLEAN, CommitDelete(dirty) PROVE Inv'
  <2>1. doc.text \in Texts
    BY <1>0 DEF Document
  <2> QED
    BY <1>4, <1>5, <2>1 DEF CommitDelete, SetDirtyAndTouch
<1>6. CASE TouchDocument
  <2> DEFINE next == Touch(doc)
  <2>1. next \in Document
    BY <1>0, <1>6, TouchType DEF TouchDocument, Revise
  <2>2. /\ next.revision = doc.revision + 1 /\ next.ledger = doc.ledger
        /\ next.dirty = doc.dirty /\ next.text = doc.text /\ next.saved = doc.saved
    BY <1>0 DEF Touch, Document
  <2>3. next.dirty = (next.saved # next.text)
    BY <2>2 DEF Inv, DirtyMeansUnsaved
  <2> QED
    BY <1>0, <1>6, <2>1, <2>2, <2>3, ReviseKeepsInv DEF TouchDocument
<1> QED
  BY <1>1, <1>2, <1>3, <1>4, <1>5, <1>6
  DEF Next, ApplyMutationBatch, Replay, Refuse, Replace, vars

LEMMA Invariance == Spec => []Inv
  BY InitInv, NextInv, PTL DEF Spec

-----------------------------------------------------------------------------
(* The promises one by one. *)

\* A revision number names one text for good.
THEOREM RevisionNaming == Spec => []RevisionNamesText
  BY Invariance, PTL DEF Inv

\* A batch is applied to the very text its sender saw.
THEOREM NoLostUpdate == Spec => []BatchesExtendWhatTheySaw
  BY Invariance, PTL DEF Inv

\* Retries and reordering never apply a batch twice, skip one or swap two.
THEOREM ExactlyOnceInOrder == Spec => []BatchesOnceInOrder
  BY Invariance, PTL DEF Inv

\* The dirty flag always compares the text with the saved text.
THEOREM DirtyFlag == Spec => []DirtyMeansUnsaved
  BY Invariance, PTL DEF Inv

\* The two readings of "last applied", the ledger's and history's, agree.
LEMMA NewestEntries == Inv => LastAppliedIsNewest
<1> SUFFICES ASSUME Inv PROVE LastAppliedIsNewest
  OBVIOUS
<1> DEFINE causes == {r \in 1 .. Len(history) : history[r].cause # NoBatch}
           newest == {r \in causes : \A q \in causes : q <= r}
           active == {c \in Clients : doc.ledger[c] # NoBatch}
           Left == {<<e.batch, e.ack.revision>> : e \in LastAppliedBatches(doc)}
           Right == {<<history[r].cause, r>> : r \in newest}
<1>1. \A c \in active :
        /\ doc.ledger[c].ack.revision \in causes
        /\ history[doc.ledger[c].ack.revision].cause = doc.ledger[c].batch
  <2> SUFFICES ASSUME NEW c \in active
               PROVE  /\ doc.ledger[c].ack.revision \in causes
                      /\ history[doc.ledger[c].ack.revision].cause = doc.ledger[c].batch
    OBVIOUS
  <2>1. /\ doc.ledger[c].ack.revision \in Nat
        /\ doc.ledger[c].ack.revision >= 1
        /\ doc.ledger[c].batch # NoBatch
    BY Numbers DEF Inv
  <2>2. /\ doc.ledger[c].ack.revision <= Len(history)
        /\ history[doc.ledger[c].ack.revision].cause = doc.ledger[c].batch
    BY DEF Inv, LedgerAgreesWithHistory
  <2>3. Len(history) \in Nat
    BY DEF Inv, TypeOK
  <2>4. doc.ledger[c].ack.revision \in 1 .. Len(history)
    BY <2>1, <2>2, <2>3
  <2> QED
    BY <2>1, <2>2, <2>4
<1>2. \A r \in causes : \E c \in active :
        history[r].cause.client = c /\ r <= doc.ledger[c].ack.revision
  BY Numbers DEF Inv, LedgerAgreesWithHistory
<1>3. \A e : e \in LastAppliedBatches(doc) <=>
        \E c \in active : /\ e = doc.ledger[c]
                          /\ \A d \in active : doc.ledger[d].ack.revision <= e.ack.revision
  BY DEF LastAppliedBatches
<1>4. \A r \in causes : r \in Nat
  OBVIOUS
<1>5. ASSUME NEW e \in LastAppliedBatches(doc)
      PROVE  <<e.batch, e.ack.revision>> \in Right
  <2>1. PICK c \in active : /\ e = doc.ledger[c]
                           /\ \A d \in active : doc.ledger[d].ack.revision <= e.ack.revision
    BY <1>3
  <2>2. e.ack.revision \in causes /\ history[e.ack.revision].cause = e.batch
    BY <1>1, <2>1
  <2>3. ASSUME NEW q \in causes PROVE q <= e.ack.revision
    <3>1. PICK d \in active : q <= doc.ledger[d].ack.revision
      BY <1>2
    <3>2. doc.ledger[d].ack.revision \in Nat
      BY <1>1, <1>4
    <3> QED
      BY <1>4, <2>1, <2>2, <3>1, <3>2
  <2>4. e.ack.revision \in newest
    BY <2>2, <2>3
  <2> QED
    BY <2>2, <2>4
<1>6. ASSUME NEW r \in newest
      PROVE  <<history[r].cause, r>> \in Left
  <2>1. PICK c \in active : r <= doc.ledger[c].ack.revision
    BY <1>2
  <2> DEFINE e == doc.ledger[c]
  <2>2. e.ack.revision \in causes /\ history[e.ack.revision].cause = e.batch
    BY <1>1
  <2>3. e.ack.revision = r
    BY <1>4, <2>1, <2>2
  <2>4. \A d \in active : doc.ledger[d].ack.revision <= e.ack.revision
    BY <1>1, <2>3
  <2>5. e \in LastAppliedBatches(doc)
    BY <1>3, <2>4
  <2> QED
    BY <2>2, <2>3, <2>5
<1>7. Left = Right
  BY <1>5, <1>6
<1> QED
  BY <1>7 DEF LastAppliedIsNewest

\* last_applied_batch has one answer, the newest batch of history.
THEOREM LastApplied == Spec => []LastAppliedIsNewest
  BY Invariance, NewestEntries, PTL

\* An acknowledgement is true when it is given.
LEMMA NextAck == Inv /\ AcksTellTheTruth /\ [Next]_vars => AcksTellTheTruth'
<1> SUFFICES ASSUME Inv, AcksTellTheTruth, [Next]_vars PROVE AcksTellTheTruth'
  OBVIOUS
<1>0. Inv' /\ TypeOK /\ doc \in Document
  BY NextInv DEF Inv, TypeOK
<1>1. ASSUME NEW batch \in Batch, ApplyNew(batch) PROVE AcksTellTheTruth'
  <2>1. reply'.batch = batch /\ reply'.ack = NewAck(doc, batch)
    BY <1>1 DEF ApplyNew
  <2>2. /\ doc'.text = Applied(doc.text, batch.payload)
        /\ doc'.revision = doc.revision + 1
        /\ doc'.dirty = (doc.saved # Applied(doc.text, batch.payload))
    BY <1>0, <1>1, AfterBatchFields DEF ApplyNew
  <2>3. /\ history'[Len(history) + 1].cause = batch
        /\ history'[Len(history) + 1].text = doc'.text
    BY <1>0, <1>1, Appended DEF ApplyNew, Inv
  <2>4. Len(history) = doc.revision
    BY DEF Inv, RevisionNamesText
  <2>5. /\ NewAck(doc, batch).revision = doc.revision + 1
        /\ NewAck(doc, batch).length = LengthOf(Applied(doc.text, batch.payload))
        /\ NewAck(doc, batch).dirty = (doc.saved # Applied(doc.text, batch.payload))
    BY Zenon DEF NewAck
  <2>6. doc.revision \in Nat
    BY <1>0, Numbers
  <2> QED
    BY <2>1, <2>2, <2>3, <2>4, <2>5, <2>6 DEF AcksTellTheTruth
<1>2. ASSUME NEW batch \in Batch, Replay(batch) PROVE AcksTellTheTruth'
  <2> DEFINE entry == doc.ledger[batch.client]
  <2>1. /\ reply'.batch = batch /\ reply'.ack = ReplayedAck(doc, batch)
        /\ doc' = doc /\ history' = history
    BY <1>2 DEF Replay
  <2>2. /\ batch.client \in Clients
        /\ entry # NoBatch
        /\ entry.batch = batch
    BY <1>2 DEF Replay, IsReplay, Batch
  <2>3. /\ entry.ack.revision <= Len(history)
        /\ history[entry.ack.revision].cause = batch
        /\ entry.ack.length = LengthOf(history[entry.ack.revision].text)
    BY <2>2 DEF Inv, LedgerAgreesWithHistory
  <2>4. entry.ack \in Ack
    BY <1>0, <2>2 DEF Document, AppliedBatch
  <2>5. /\ ReplayedAck(doc, batch).revision = entry.ack.revision
        /\ ReplayedAck(doc, batch).length = entry.ack.length
        /\ entry.ack.revision = doc.revision => ReplayedAck(doc, batch).dirty = doc.dirty
    BY <2>4 DEF ReplayedAck, Ack
  <2>6. Len(history) = doc.revision
    BY DEF Inv, RevisionNamesText
  <2> QED
    BY <2>1, <2>3, <2>5, <2>6 DEF AcksTellTheTruth
<1>3. ASSUME reply' = NoReply PROVE AcksTellTheTruth'
  BY <1>3 DEF AcksTellTheTruth
<1>4. ASSUME NEW batch \in Batch, Refuse(batch) PROVE AcksTellTheTruth'
  BY <1>4 DEF Refuse, AcksTellTheTruth
<1>5. CASE UNCHANGED vars
  BY <1>5 DEF vars, AcksTellTheTruth
<1> QED
  BY <1>1, <1>2, <1>3, <1>4, <1>5
  DEF Next, ApplyMutationBatch, Save, Replace, CommitDelete, TouchDocument, Revise

\* Every acknowledgement, first or repeated, tells what history shows.
THEOREM TruthfulAcks == Spec => []AcksTellTheTruth
<1>1. Init => AcksTellTheTruth
  BY DEF Init, AcksTellTheTruth
<1> QED
  BY <1>1, Invariance, NextAck, PTL DEF Spec

-----------------------------------------------------------------------------
(* Sequences *)

Longer(s, e) ==
  /\ Append(s, e) # << >> /\ Len(Append(s, e)) = Len(s) + 1
  /\ \A i \in 1 .. Len(s) : Append(s, e)[i] = s[i]
  /\ Append(s, e)[Len(s) + 1] = e

LEMMA LongerOf ==
  ASSUME NEW S, NEW s \in Seq(S), NEW e \in S
  PROVE  Append(s, e) \in Seq(S) /\ Longer(s, e) /\ Len(s) \in Nat
BY DEF Longer

Shorter(s) ==
  /\ Len(s) \in Nat \ {0} /\ Len(Front(s)) = Len(s) - 1
  /\ \A i \in 1 .. Len(s) - 1 : Front(s)[i] = s[i]

LEMMA ShorterOf ==
  ASSUME NEW S, NEW s \in Seq(S), s # << >>
  PROVE  Front(s) \in Seq(S) /\ Shorter(s) /\ Last(s) \in S
<1>1. Len(s) \in Nat \ {0}
  BY EmptySeq
<1>2. \A i \in 1 .. Len(s) - 1 : s[i] \in S
  BY <1>1
<1>3. /\ Front(s) \in Seq(S)
      /\ Len(Front(s)) = IF 1 <= Len(s) - 1 THEN Len(s) - 1 - 1 + 1 ELSE 0
      /\ \A i \in 1 .. Len(s) - 1 - 1 + 1 : Front(s)[i] = s[1 + i - 1]
  <2>1. 1 \in Int /\ Len(s) - 1 \in Int
    BY <1>1
  <2> QED
    BY <1>2, <2>1, SubSeqProperties DEF Front
<1>4. Last(s) \in S
  BY <1>1 DEF Last
<1>5. Len(Front(s)) = Len(s) - 1
  <2>1. PICK n \in Nat : n = Len(s) /\ n # 0
    BY <1>1
  <2>2. Len(Front(s)) = IF 1 <= n - 1 THEN n - 1 - 1 + 1 ELSE 0
    BY <1>3, <2>1
  <2> QED
    BY <2>1, <2>2
<1>6. \A i \in 1 .. Len(s) - 1 : Front(s)[i] = s[i]
  BY <1>1, <1>3
<1> QED
  BY <1>1, <1>3, <1>4, <1>5, <1>6 DEF Shorter

LEMMA LastAgain ==
  ASSUME NEW S, NEW s \in Seq(S), s # << >>, NEW e, Last(s) = e
  PROVE  Append(Front(s), e) = s
<1>1. Front(s) \in Seq(S) /\ Shorter(s) /\ e \in S
  BY ShorterOf
<1>2. PICK t \in Seq(S) : t = Append(Front(s), e) /\ Longer(Front(s), e)
  BY <1>1, LongerOf
<1>3. PICK n \in Nat : Len(s) = n + 1 /\ Len(Front(s)) = n
  BY <1>1 DEF Shorter
<1>4. Len(t) = n + 1 /\ t[n + 1] = e /\ \A i \in 1 .. n : t[i] = s[i]
  BY <1>1, <1>2, <1>3 DEF Longer, Shorter
<1>5. s[n + 1] = e
  BY <1>3 DEF Last
<1>6. \A i \in 1 .. n + 1 : t[i] = s[i]
  <2>1. \A i \in 1 .. n + 1 : i \in 1 .. n \/ i = n + 1
    OBVIOUS
  <2> QED
    BY <1>4, <1>5, <2>1
<1>7. t = s
  BY <1>2, <1>3, <1>4, <1>6, SeqEqual
<1> QED
  BY <1>2, <1>7

-----------------------------------------------------------------------------
(* What is written on a stack *)

\* Marks are places in the document with the tag written for each: << depth, sort,
\* place on its stack, tag >>. Of two at one depth the element is first.
Before(m, n) ==
  \/ m[1] < n[1]
  \/ m[1] = n[1] /\ n[2] # "element" /\ (m[2] = n[2] => m[3] < n[3])

Orders(owner, written, marks) ==
  /\ owner \in [1 .. Len(written) -> marks]
  /\ \A k \in 1 .. Len(written) : written[k] = owner[k][4]
  /\ \A k, l \in 1 .. Len(written) : k < l => Before(owner[k], owner[l])
  /\ \A m \in marks : \E k \in 1 .. Len(written) : owner[k] = m

Matches(written, marks) == \E owner : Orders(owner, written, marks)

LEMMA AppendMatches ==
  ASSUME NEW T, NEW written \in Seq(T), NEW marks, Matches(written, marks),
         NEW n, n[4] \in T, \A m \in marks : Before(m, n)
  PROVE  Matches(Append(written, n[4]), marks \cup {n})
<1>1. PICK owner : Orders(owner, written, marks)
  BY DEF Matches
<1> DEFINE L == Len(written)
           new == [k \in 1 .. L + 1 |-> IF k = L + 1 THEN n ELSE owner[k]]
           long == Append(written, n[4])
<1>2. L \in Nat /\ Longer(written, n[4])
  BY LongerOf
<1>3. /\ owner \in [1 .. L -> marks]
      /\ \A k \in 1 .. L : written[k] = owner[k][4]
      /\ \A k, l \in 1 .. L : k < l => Before(owner[k], owner[l])
      /\ \A m \in marks : \E k \in 1 .. L : owner[k] = m
  BY <1>1 DEF Orders
<1>4. /\ Len(long) = L + 1
      /\ \A i \in 1 .. L : long[i] = written[i]
      /\ long[L + 1] = n[4]
  BY <1>2 DEF Longer
<1> HIDE DEF L, long
<1>5. /\ \A k \in 1 .. L : new[k] = owner[k] /\ k \in 1 .. L + 1
      /\ new[L + 1] = n /\ L + 1 \in 1 .. L + 1
      /\ \A k \in 1 .. L + 1 : k \in 1 .. L \/ k = L + 1
  BY <1>2
<1>6. new \in [1 .. L + 1 -> marks \cup {n}]
  BY <1>2, <1>3
<1> HIDE DEF new
<1>7. \A k \in 1 .. L + 1 : long[k] = new[k][4]
  BY <1>3, <1>4, <1>5
<1>8. \A k, l \in 1 .. L + 1 : k < l => Before(new[k], new[l])
  <2> SUFFICES ASSUME NEW k \in 1 .. L + 1, NEW l \in 1 .. L + 1, k < l
               PROVE  Before(new[k], new[l])
    OBVIOUS
  <2>1. k \in 1 .. L
    BY <1>2
  <2>2. CASE l \in 1 .. L
    BY <1>3, <1>5, <2>1, <2>2
  <2>3. CASE l = L + 1
    <3>1. owner[k] \in marks
      BY <1>3, <2>1
    <3> QED
      BY <1>5, <2>1, <2>3, <3>1
  <2> QED
    BY <1>5, <2>2, <2>3
<1>9. \A m \in marks \cup {n} : \E k \in 1 .. L + 1 : new[k] = m
  BY <1>3, <1>5
<1>10. Orders(new, long, marks \cup {n})
  BY <1>4, <1>6, <1>7, <1>8, <1>9, Zenon DEF Orders
<1> QED
  BY <1>10 DEF Matches, long

LEMMA FrontMatches ==
  ASSUME NEW T, NEW written \in Seq(T), NEW marks, Matches(written, marks),
         NEW n \in marks, \A m \in marks : ~Before(n, m)
  PROVE  /\ written # << >> /\ Last(written) = n[4]
         /\ Front(written) \in Seq(T) /\ Matches(Front(written), marks \ {n})
<1>1. PICK owner : Orders(owner, written, marks)
  BY DEF Matches
<1> DEFINE L == Len(written)
           new == [k \in 1 .. L - 1 |-> owner[k]]
           short == Front(written)
<1>2. L \in Nat
  OBVIOUS
<1>3. /\ owner \in [1 .. L -> marks]
      /\ \A k \in 1 .. L : written[k] = owner[k][4]
      /\ \A k, l \in 1 .. L : k < l => Before(owner[k], owner[l])
      /\ \A m \in marks : \E k \in 1 .. L : owner[k] = m
  BY <1>1 DEF Orders
<1>4. PICK top \in 1 .. L : owner[top] = n
  BY <1>3
<1>5. L # 0 /\ L \in 1 .. L /\ owner[L] \in marks
  BY <1>2, <1>3, <1>4
<1>6. top = L
  <2>1. ~(top < L)
    BY <1>3, <1>4, <1>5
  <2> QED
    BY <1>2, <1>4, <2>1
<1>7. written # << >>
  BY <1>5
<1>8. Front(written) \in Seq(T) /\ Shorter(written)
  BY <1>7, ShorterOf
<1>9. /\ Len(short) = L - 1
      /\ \A i \in 1 .. L - 1 : short[i] = written[i]
  BY <1>8 DEF Shorter
<1> HIDE DEF L, short
<1>10. \A k \in 1 .. L - 1 : k \in 1 .. L /\ k < L
  BY <1>2
<1>11. \A k \in 1 .. L - 1 : owner[k] \in marks \ {n}
  BY <1>3, <1>4, <1>5, <1>6, <1>10
<1>12. new \in [1 .. L - 1 -> marks \ {n}]
  BY <1>11
<1>13. \A k \in 1 .. L - 1 : new[k] = owner[k]
  OBVIOUS
<1> HIDE DEF new
<1>14. \A k \in 1 .. L - 1 : short[k] = new[k][4]
  BY <1>3, <1>9, <1>10, <1>13
<1>15. \A k, l \in 1 .. L - 1 : k < l => Before(new[k], new[l])
  BY <1>3, <1>10, <1>13
<1>16. \A m \in marks \ {n} : \E k \in 1 .. L - 1 : new[k] = m
  <2> SUFFICES ASSUME NEW m \in marks, m # n PROVE \E k \in 1 .. L - 1 : new[k] = m
    OBVIOUS
  <2>1. PICK k \in 1 .. L : owner[k] = m
    BY <1>3
  <2>2. k # L
    BY <1>4, <1>6, <2>1
  <2>3. k \in 1 .. L - 1
    BY <1>2, <2>1, <2>2
  <2> QED
    BY <1>13, <2>1, <2>3
<1>17. Orders(new, short, marks \ {n})
  BY <1>9, <1>12, <1>14, <1>15, <1>16, Zenon DEF Orders
<1>18. Matches(short, marks \ {n})
  BY <1>17 DEF Matches
<1>19. Last(written) = n[4]
  BY <1>3, <1>4, <1>6 DEF Last, L
<1> QED
  BY <1>7, <1>8, <1>18, <1>19 DEF short

-----------------------------------------------------------------------------
(* The tags that should be open *)

TagNames == Kinds \cup {"paragraph", "scope", "span", None}

Types ==
  /\ elements \in Seq(Kinds)
  /\ tags \in Seq(TagNames)
  /\ scopes \in Seq([depth : Nat, tag : {"scope", None}])
  /\ inlines \in Seq([depth : Nat, tag : {"span", None}])
  /\ quotes \in Seq(Kinds)
  /\ callouts \in Seq({"pending", "delayed", "open", "done"})
  /\ footnotes \in Seq(Nat)
  /\ images \in Nat
  /\ badLinks \in Nat

IsPlain(d) == \A j \in 1 .. d : elements[j] # "image"

\* The tag of a paragraph, of which one at most is open, has been written.
ParagraphShown ==
  Top(callouts, "done") # "delayed" /\ (footnotes = << >> \/ Last(footnotes) > 1)

Shown(d) ==
  /\ IsPlain(d)
  /\ elements[d] \notin {"badlink", "diagram"}
  /\ elements[d] = "paragraph" => ParagraphShown

ElementMark(d) == <<d, "element", d, elements[d]>>
ElementMarks == {ElementMark(d) : d \in {e \in 1 .. Depth : Shown(e)}}

ScopeMark(sort, stack, i) == <<stack[i].depth, sort, i, stack[i].tag>>
ScopeMarks(sort, stack) ==
  {ScopeMark(sort, stack, i) :
     i \in {j \in 1 .. Len(stack) : stack[j].tag # None /\ IsPlain(stack[j].depth)}}

Marks == ElementMarks \cup ScopeMarks("scope", scopes) \cup ScopeMarks("inline", inlines)

\* What is inline, a paragraph or a title holds what is inline.
Shape ==
  \A d, e \in 1 .. Depth :
    d < e /\ elements[d] \in Inline \cup {"paragraph", "title"} => elements[e] \in Inline

Links ==
  \A d, e \in 1 .. Depth :
    elements[d] \in {"link", "badlink"} /\ elements[e] \in {"link", "badlink"} => d = e

ImagePlaces == {d \in 1 .. Depth : elements[d] = "image"}
ImageCount == images = Cardinality(ImagePlaces)

HasBadLink == \E d \in 1 .. Depth : elements[d] = "badlink" /\ IsPlain(d)
BadLinkCount == badLinks = IF HasBadLink THEN 1 ELSE 0

QuotesUpto(d) == {e \in 1 .. d : elements[e] \in {"quote", "callout"}}
QuoteStack ==
  /\ Len(quotes) = Cardinality(QuotesUpto(Depth))
  /\ \A d \in QuotesUpto(Depth) : quotes[Cardinality(QuotesUpto(d))] = elements[d]

Within(stack, d) == \A i \in 1 .. Len(stack) : stack[i].depth <= d

ScopesWithin == Within(scopes, Depth) /\ Within(inlines, Depth)

\* A paragraph whose tag is delayed is the innermost block and holds no scope.
Delayed ==
  /\ \A i \in 1 .. Len(callouts) - 1 : callouts[i] # "delayed"
  /\ Top(callouts, "done") = "delayed" =>
       /\ footnotes = << >> /\ IsPlain(Depth)
       /\ \E d \in 1 .. Depth :
            elements[d] = "paragraph" /\ Within(scopes, d - 1) /\ Within(inlines, d - 1)

Good ==
  /\ Types
  /\ crossed = FALSE
  /\ Matches(tags, Marks)
  /\ Shape /\ Links /\ ImageCount /\ BadLinkCount /\ QuoteStack /\ ScopesWithin /\ Delayed

\* Stated as long as scopes and elements have not crossed in the source.
MarkupInv == tidy => Good

-----------------------------------------------------------------------------
(* Writing tags *)

LEMMA SilentKeeps ==
  ASSUME Types, crossed = FALSE, Matches(tags, Marks), Silent, Marks' = Marks
  PROVE  crossed' = FALSE /\ tags' \in Seq(TagNames) /\ Matches(tags', Marks')
BY DEF Silent, Types

LEMMA PushKeeps ==
  ASSUME Types, crossed = FALSE, Matches(tags, Marks), images = 0,
         NEW n, n[4] \in TagNames, Push(n[4]),
         \A m \in Marks : Before(m, n), Marks' = Marks \cup {n}
  PROVE  crossed' = FALSE /\ tags' \in Seq(TagNames) /\ Matches(tags', Marks')
<1>1. tags' = Append(tags, n[4]) /\ crossed' = crossed
  BY DEF Push, Opened
<1>2. Matches(Append(tags, n[4]), Marks \cup {n})
  BY AppendMatches DEF Types
<1>3. Append(tags, n[4]) \in Seq(TagNames)
  BY LongerOf DEF Types
<1> QED
  BY <1>1, <1>2, <1>3

LEMMA PopKeeps ==
  ASSUME Types, crossed = FALSE, Matches(tags, Marks), images = 0,
         NEW n \in Marks, Pop(n[4]),
         \A m \in Marks : ~Before(n, m), Marks' = Marks \ {n}
  PROVE  crossed' = FALSE /\ tags' \in Seq(TagNames) /\ Matches(tags', Marks')
<1>1. /\ tags # << >> /\ Last(tags) = n[4]
      /\ Front(tags) \in Seq(TagNames) /\ Matches(Front(tags), Marks \ {n})
  BY FrontMatches DEF Types
<1>2. tags' = Front(tags) /\ crossed' = (crossed \/ FALSE)
  BY <1>1 DEF Pop, Closed, Crosses, Top
<1> QED
  BY <1>1, <1>2

-----------------------------------------------------------------------------
(* Places of elements *)

LEMMA ImagesOf ==
  ASSUME Types, ImageCount
  PROVE  /\ IsFiniteSet(ImagePlaces) /\ Depth \in Nat
         /\ images = 0 <=> IsPlain(Depth)
<1>1. Depth \in Nat
  BY DEF Types, Depth
<1>2. IsFiniteSet(1 .. Depth)
  BY <1>1, FS_Interval
<1>3. IsFiniteSet(ImagePlaces)
  BY <1>2, FS_Subset DEF ImagePlaces
<1>4. Cardinality(ImagePlaces) = 0 <=> ImagePlaces = {}
  BY <1>3, FS_EmptySet
<1> QED
  BY <1>1, <1>3, <1>4 DEF ImageCount, ImagePlaces, IsPlain

\* One more element.
LEMMA Begun ==
  ASSUME elements \in Seq(Kinds), NEW kind \in Kinds, elements' = Append(elements, kind)
  PROVE  /\ Depth \in Nat /\ Depth' = Depth + 1 /\ elements' \in Seq(Kinds)
         /\ \A d \in 1 .. Depth : elements'[d] = elements[d] /\ d \in 1 .. Depth + 1
         /\ elements'[Depth + 1] = kind
         /\ \A d \in Nat : d <= Depth => (IsPlain(d)' <=> IsPlain(d))
         /\ \A d \in Nat : d = Depth + 1 => (IsPlain(d)' <=> IsPlain(Depth) /\ kind # "image")
<1>1. /\ Depth \in Nat /\ Depth' = Depth + 1 /\ elements' \in Seq(Kinds)
      /\ \A d \in 1 .. Depth : elements'[d] = elements[d] /\ d \in 1 .. Depth + 1
      /\ elements'[Depth + 1] = kind
  BY LongerOf DEF Longer, Depth
<1>2. \A d \in Nat : d <= Depth => \A j \in 1 .. d : elements'[j] = elements[j]
  <2>1. \A d \in Nat : d <= Depth => \A j \in 1 .. d : j \in 1 .. Depth
    BY <1>1
  <2> QED
    BY <1>1, <2>1
<1>3. \A d \in Nat : d <= Depth => (IsPlain(d)' <=> IsPlain(d))
  BY <1>2 DEF IsPlain
<1>4. \A j \in 1 .. Depth + 1 : j \in 1 .. Depth \/ j = Depth + 1
  BY <1>1
<1>5. Depth + 1 \in 1 .. Depth + 1
  BY <1>1
<1>6. (\A j \in 1 .. Depth + 1 : elements'[j] # "image") <=>
        (\A j \in 1 .. Depth : elements[j] # "image") /\ kind # "image"
  BY <1>1, <1>4, <1>5
<1>7. \A d \in Nat : d = Depth + 1 => (IsPlain(d)' <=> IsPlain(Depth) /\ kind # "image")
  BY <1>6 DEF IsPlain
<1> QED
  BY <1>1, <1>3, <1>7

\* One element less.
LEMMA Ended ==
  ASSUME elements \in Seq(Kinds), elements # << >>, elements' = Front(elements)
  PROVE  /\ Depth \in Nat \ {0} /\ Depth' = Depth - 1 /\ elements' \in Seq(Kinds)
         /\ Last(elements) = elements[Depth] /\ elements[Depth] \in Kinds
         /\ \A d \in 1 .. Depth - 1 : elements'[d] = elements[d] /\ d \in 1 .. Depth
         /\ \A d \in Nat : d < Depth => (IsPlain(d)' <=> IsPlain(d))
<1>1. /\ Depth \in Nat \ {0} /\ Depth' = Depth - 1 /\ elements' \in Seq(Kinds)
      /\ Last(elements) = elements[Depth] /\ elements[Depth] \in Kinds
      /\ \A d \in 1 .. Depth - 1 : elements'[d] = elements[d]
  BY ShorterOf DEF Shorter, Depth, Last
<1>2. \A d \in 1 .. Depth - 1 : d \in 1 .. Depth
  BY <1>1
<1>3. \A d \in Nat : d < Depth => \A j \in 1 .. d : elements'[j] = elements[j]
  BY <1>1
<1>4. \A d \in Nat : d < Depth => (IsPlain(d)' <=> IsPlain(d))
  BY <1>3 DEF IsPlain
<1> QED
  BY <1>1, <1>2, <1>4

LEMMA Holding ==
  ASSUME NoneIsNoElement, elements \in Seq(Kinds), NEW kind \in Kinds, MayHold(kind)
  PROVE  /\ kind \in Inline <=>
              Depth # 0 /\ elements[Depth] \in Inline \cup {"paragraph", "title"}
         /\ kind \in {"link", "badlink"} =>
              \A d \in 1 .. Depth : elements[d] \notin {"link", "badlink"}
<1>1. Depth \in Nat /\ (elements = << >> <=> Depth = 0)
  BY EmptySeq DEF Depth
<1>2. Top(elements, None) = IF Depth = 0 THEN None ELSE elements[Depth]
  BY <1>1 DEF Top, Last, Depth
<1>3. \A d \in 1 .. Depth : elements[d] \in Range(elements)
  BY DEF Range, Depth
<1>4. CASE Depth = 0
  BY <1>1, <1>2, <1>4 DEF MayHold, NoneIsNoElement, Inline
<1>5. CASE Depth # 0
  <2>1. Top(elements, None) = elements[Depth]
    BY <1>2, <1>5
  <2>2. CASE elements[Depth] \in Inline \cup {"paragraph", "title"}
    <3>1. /\ kind \in Inline
          /\ kind \in {"link", "badlink"} => {"link", "badlink"} \cap Range(elements) = {}
      BY <2>1, <2>2 DEF MayHold, Inline
    <3> QED
      BY <1>3, <1>5, <2>2, <3>1
  <2>3. CASE elements[Depth] \notin Inline \cup {"paragraph", "title"}
    <3>1. kind \notin Inline
      BY <2>1, <2>3 DEF MayHold, Inline
    <3> QED
      BY <2>3, <3>1 DEF Inline
  <2> QED
    BY <2>2, <2>3
<1> QED
  BY <1>4, <1>5

\* Around a block there are only blocks.
LEMMA BlocksAround ==
  ASSUME Shape, Depth \in Nat,
         Depth # 0 => elements[Depth] \notin Inline \cup {"paragraph", "title"}
  PROVE  /\ \A d \in 1 .. Depth : elements[d] \notin Inline \cup {"paragraph", "title"}
         /\ IsPlain(Depth)
<1>1. \A d \in 1 .. Depth : elements[d] \notin Inline \cup {"paragraph", "title"}
  <2> SUFFICES ASSUME NEW d \in 1 .. Depth, elements[d] \in Inline \cup {"paragraph", "title"} PROVE FALSE
    OBVIOUS
  <2>1. d < Depth /\ Depth \in 1 .. Depth
    OBVIOUS
  <2> QED
    BY <2>1 DEF Shape
<1> QED
  BY <1>1 DEF IsPlain, Inline

LEMMA BegunShape ==
  ASSUME NoneIsNoElement, elements \in Seq(Kinds), NEW kind \in Kinds, MayHold(kind),
         elements' = Append(elements, kind), Shape, Links
  PROVE  Shape' /\ Links'
<1>1. /\ Depth \in Nat /\ Depth' = Depth + 1
      /\ \A d \in 1 .. Depth : elements'[d] = elements[d] /\ d \in 1 .. Depth + 1
      /\ elements'[Depth + 1] = kind
  BY Begun
<1>2. \A d \in 1 .. Depth + 1 : d \in 1 .. Depth \/ d = Depth + 1
  BY <1>1
<1>3. Shape'
  <2> SUFFICES ASSUME NEW d \in 1 .. Depth + 1, NEW e \in 1 .. Depth + 1, d < e,
                      elements'[d] \in Inline \cup {"paragraph", "title"}
               PROVE  elements'[e] \in Inline
    BY <1>1 DEF Shape
  <2>1. d \in 1 .. Depth
    BY <1>1
  <2>2. CASE e \in 1 .. Depth
    BY <1>1, <2>1, <2>2 DEF Shape
  <2>3. CASE e = Depth + 1
    <3>1. Depth # 0 /\ Depth \in 1 .. Depth /\ (d < Depth \/ d = Depth)
      BY <1>1, <2>1
    <3>2. elements[d] \in Inline \cup {"paragraph", "title"}
      BY <1>1, <2>1
    <3>4. elements[Depth] \in Inline \cup {"paragraph", "title"}
      BY <2>1, <3>1, <3>2 DEF Shape
    <3> QED
      BY <1>1, <2>3, <3>1, <3>4, Holding
  <2> QED
    BY <1>2, <2>2, <2>3
<1>4. Links'
  <2> SUFFICES ASSUME NEW d \in 1 .. Depth + 1, NEW e \in 1 .. Depth + 1,
                      elements'[d] \in {"link", "badlink"}, elements'[e] \in {"link", "badlink"}
               PROVE  d = e
    BY <1>1 DEF Links
  <2>1. kind \in {"link", "badlink"} => \A c \in 1 .. Depth : elements[c] \notin {"link", "badlink"}
    BY Holding
  <2> QED
    BY <1>1, <1>2, <2>1 DEF Links
<1> QED
  BY <1>3, <1>4

LEMMA BegunImages ==
  ASSUME Types, ImageCount, NEW kind \in Kinds, elements' = Append(elements, kind),
         images' = IF kind = "image" THEN images + 1 ELSE images
  PROVE  ImageCount' /\ images' \in Nat
<1>1. /\ Depth \in Nat /\ Depth' = Depth + 1
      /\ \A d \in 1 .. Depth : elements'[d] = elements[d] /\ d \in 1 .. Depth + 1
      /\ elements'[Depth + 1] = kind
  BY Begun DEF Types
<1>2. \A d \in 1 .. Depth + 1 : d \in 1 .. Depth \/ d = Depth + 1
  BY <1>1
<1>3. Depth + 1 \notin ImagePlaces /\ Depth + 1 \in 1 .. Depth + 1
  BY <1>1 DEF ImagePlaces
<1>4. IsFiniteSet(ImagePlaces)
  BY ImagesOf
<1>5. CASE kind = "image"
  <2>1. ImagePlaces' = ImagePlaces \cup {Depth + 1}
    BY <1>1, <1>2, <1>3, <1>5 DEF ImagePlaces
  <2>2. Cardinality(ImagePlaces \cup {Depth + 1}) = Cardinality(ImagePlaces) + 1
    BY <1>3, <1>4, FS_AddElement
  <2> QED
    BY <1>5, <2>1, <2>2 DEF ImageCount, Types
<1>6. CASE kind # "image"
  <2>1. ImagePlaces' = ImagePlaces
    BY <1>1, <1>2, <1>6 DEF ImagePlaces
  <2> QED
    BY <1>6, <2>1 DEF ImageCount, Types
<1> QED
  BY <1>5, <1>6

LEMMA EndedImages ==
  ASSUME Types, ImageCount, elements # << >>, elements' = Front(elements),
         images' = IF elements[Depth] = "image" THEN images - 1 ELSE images
  PROVE  ImageCount' /\ images' \in Nat
<1>1. /\ Depth \in Nat \ {0} /\ Depth' = Depth - 1
      /\ \A d \in 1 .. Depth - 1 : elements'[d] = elements[d] /\ d \in 1 .. Depth
  BY Ended DEF Types
<1>2. \A d \in 1 .. Depth : d \in 1 .. Depth - 1 \/ d = Depth
  BY <1>1
<1>3. Depth \notin 1 .. Depth - 1 /\ Depth \in 1 .. Depth
  BY <1>1
<1>4. IsFiniteSet(ImagePlaces)
  BY ImagesOf
<1>5. ImagePlaces' = ImagePlaces \ {Depth}
  BY <1>1, <1>2, <1>3 DEF ImagePlaces
<1>6. Cardinality(ImagePlaces \ {Depth})
        = IF Depth \in ImagePlaces THEN Cardinality(ImagePlaces) - 1 ELSE Cardinality(ImagePlaces)
  BY <1>4, FS_RemoveElement
<1>7. Depth \in ImagePlaces <=> elements[Depth] = "image"
  BY <1>3 DEF ImagePlaces
<1>8. IsFiniteSet(ImagePlaces \ {Depth})
  BY <1>4, FS_RemoveElement
<1>9. Cardinality(ImagePlaces \ {Depth}) \in Nat
  BY <1>8, FS_CardinalityType
<1> QED
  BY <1>5, <1>6, <1>7, <1>9 DEF ImageCount

LEMMA BegunBadLinks ==
  ASSUME NoneIsNoElement, Types, BadLinkCount, NEW kind \in Kinds, MayHold(kind),
         elements' = Append(elements, kind),
         badLinks' = IF kind = "badlink" /\ IsPlain(Depth) THEN badLinks + 1 ELSE badLinks
  PROVE  BadLinkCount' /\ badLinks' \in Nat
<1>1. /\ Depth \in Nat /\ Depth' = Depth + 1
      /\ \A d \in 1 .. Depth : elements'[d] = elements[d] /\ d \in 1 .. Depth + 1
      /\ elements'[Depth + 1] = kind
      /\ \A d \in Nat : d <= Depth => (IsPlain(d)' <=> IsPlain(d))
      /\ \A d \in Nat : d = Depth + 1 => (IsPlain(d)' <=> IsPlain(Depth) /\ kind # "image")
  BY Begun DEF Types
<1>2. \A d \in 1 .. Depth + 1 : d \in 1 .. Depth \/ d = Depth + 1
  BY <1>1
<1>3. \A d \in 1 .. Depth : IsPlain(d)' <=> IsPlain(d)
  BY <1>1
<1>4. Depth + 1 \in 1 .. Depth + 1 /\ Depth + 1 \in Nat
  BY <1>1
<1>5. (\E d \in 1 .. Depth + 1 : elements'[d] = "badlink" /\ IsPlain(d)') <=>
        \/ \E d \in 1 .. Depth : elements[d] = "badlink" /\ IsPlain(d)
        \/ kind = "badlink" /\ IsPlain(Depth)
  BY <1>1, <1>2, <1>3, <1>4
<1>6. kind = "badlink" => \A d \in 1 .. Depth : elements[d] # "badlink"
  BY Holding DEF Types
<1>7. HasBadLink' <=> HasBadLink \/ (kind = "badlink" /\ IsPlain(Depth))
  BY <1>1, <1>5 DEF HasBadLink
<1>8. kind = "badlink" => ~HasBadLink
  BY <1>6 DEF HasBadLink
<1> QED
  BY <1>7, <1>8 DEF BadLinkCount

LEMMA EndedBadLinks ==
  ASSUME Types, Links, BadLinkCount, elements # << >>, elements' = Front(elements),
         badLinks' = IF elements[Depth] = "badlink" /\ IsPlain(Depth) THEN badLinks - 1 ELSE badLinks
  PROVE  BadLinkCount' /\ badLinks' \in Nat
<1>1. /\ Depth \in Nat \ {0} /\ Depth' = Depth - 1
      /\ \A d \in 1 .. Depth - 1 : elements'[d] = elements[d] /\ d \in 1 .. Depth
      /\ \A d \in Nat : d < Depth => (IsPlain(d)' <=> IsPlain(d))
  BY Ended DEF Types
<1>2. \A d \in 1 .. Depth : d \in 1 .. Depth - 1 \/ d = Depth
  BY <1>1
<1>3. \A d \in 1 .. Depth - 1 : (IsPlain(d)' <=> IsPlain(d)) /\ d # Depth
  BY <1>1
<1>4. Depth \in 1 .. Depth
  BY <1>1
<1>5. (\E d \in 1 .. Depth - 1 : elements'[d] = "badlink" /\ IsPlain(d)') <=>
        \E d \in 1 .. Depth - 1 : elements[d] = "badlink" /\ IsPlain(d)
  BY <1>1, <1>3
<1>6. elements[Depth] = "badlink" => \A d \in 1 .. Depth - 1 : elements[d] # "badlink"
  BY <1>1, <1>3, <1>4 DEF Links
<1>7. (\E d \in 1 .. Depth : elements[d] = "badlink" /\ IsPlain(d)) <=>
        \/ \E d \in 1 .. Depth - 1 : elements[d] = "badlink" /\ IsPlain(d)
        \/ elements[Depth] = "badlink" /\ IsPlain(Depth)
  BY <1>1, <1>2, <1>4
<1>8. HasBadLink <=> HasBadLink' \/ (elements[Depth] = "badlink" /\ IsPlain(Depth))
  BY <1>1, <1>5, <1>7 DEF HasBadLink
<1>9. elements[Depth] = "badlink" => ~HasBadLink'
  BY <1>1, <1>5, <1>6 DEF HasBadLink
<1> QED
  BY <1>8, <1>9 DEF BadLinkCount

LEMMA EndedShape ==
  ASSUME elements \in Seq(Kinds), elements # << >>, elements' = Front(elements), Shape, Links
  PROVE  Shape' /\ Links'
<1>1. /\ Depth \in Nat \ {0} /\ Depth' = Depth - 1
      /\ \A d \in 1 .. Depth - 1 : elements'[d] = elements[d] /\ d \in 1 .. Depth
  BY Ended
<1> QED
  BY <1>1 DEF Shape, Links

-----------------------------------------------------------------------------
(* Quotes *)

LEMMA QuotesFinite ==
  ASSUME NEW d \in Nat
  PROVE  /\ IsFiniteSet(QuotesUpto(d)) /\ Cardinality(QuotesUpto(d)) \in Nat
         /\ \A e \in QuotesUpto(d) :
              Cardinality(QuotesUpto(e)) \in 1 .. Cardinality(QuotesUpto(d))
<1>1. \A e \in Nat : IsFiniteSet(QuotesUpto(e)) /\ Cardinality(QuotesUpto(e)) \in Nat
  <2> SUFFICES ASSUME NEW e \in Nat
               PROVE  IsFiniteSet(QuotesUpto(e)) /\ Cardinality(QuotesUpto(e)) \in Nat
    OBVIOUS
  <2>1. IsFiniteSet(1 .. e) /\ QuotesUpto(e) \subseteq 1 .. e
    BY FS_Interval DEF QuotesUpto
  <2> QED
    BY <2>1, FS_Subset, FS_CardinalityType
<1>2. \A e \in QuotesUpto(d) : e \in Nat /\ e \in QuotesUpto(e) /\ QuotesUpto(e) \subseteq QuotesUpto(d)
  BY DEF QuotesUpto
<1>3. \A e \in QuotesUpto(d) : Cardinality(QuotesUpto(e)) # 0
  BY <1>1, <1>2, FS_EmptySet
<1>4. \A e \in QuotesUpto(d) : Cardinality(QuotesUpto(e)) <= Cardinality(QuotesUpto(d))
  BY <1>1, <1>2, FS_Subset
<1> QED
  BY <1>1, <1>2, <1>3, <1>4

LEMMA BegunQuotes ==
  ASSUME Types, QuoteStack, NEW kind \in Kinds, elements' = Append(elements, kind),
         quotes' = IF kind \in {"quote", "callout"} THEN Append(quotes, kind) ELSE quotes
  PROVE  QuoteStack' /\ quotes' \in Seq(Kinds)
<1>1. /\ Depth \in Nat /\ Depth' = Depth + 1
      /\ \A d \in 1 .. Depth : elements'[d] = elements[d] /\ d \in 1 .. Depth + 1
      /\ elements'[Depth + 1] = kind
  BY Begun DEF Types
<1>2. \A d \in 1 .. Depth + 1 : d \in 1 .. Depth \/ d = Depth + 1
  BY <1>1
<1>3. Depth + 1 \in 1 .. Depth + 1 /\ Depth + 1 \in Nat /\ Depth + 1 \notin QuotesUpto(Depth)
  BY <1>1 DEF QuotesUpto
<1>4. \A d \in 1 .. Depth : QuotesUpto(d)' = QuotesUpto(d)
  <2>1. \A d \in 1 .. Depth : \A e \in 1 .. d : e \in 1 .. Depth
    BY <1>1
  <2> QED
    BY <1>1, <2>1 DEF QuotesUpto
<1>5. IsFiniteSet(QuotesUpto(Depth))
  BY <1>1, QuotesFinite
<1>6. \A d \in QuotesUpto(Depth) : Cardinality(QuotesUpto(d)) \in 1 .. Len(quotes)
  BY <1>1, QuotesFinite DEF QuoteStack
<1>10. PICK N \in Nat : N = Depth + 1
  BY <1>1
<1>7. CASE kind \in {"quote", "callout"}
  <2>1. \A d \in Nat : d = N => QuotesUpto(d)' = QuotesUpto(Depth) \cup {N}
    BY <1>1, <1>2, <1>3, <1>7, <1>10 DEF QuotesUpto
  <2>2. Cardinality(QuotesUpto(Depth) \cup {N}) = Len(quotes) + 1
    BY <1>3, <1>5, <1>10, FS_AddElement DEF QuoteStack
  <2>3. /\ Len(quotes') = Len(quotes) + 1 /\ quotes' \in Seq(Kinds)
        /\ \A i \in 1 .. Len(quotes) : quotes'[i] = quotes[i]
        /\ quotes'[Len(quotes) + 1] = kind
    BY <1>7, LongerOf DEF Longer, Types
  <2>4. \A d \in QuotesUpto(Depth) :
          quotes'[Cardinality(QuotesUpto(d)')] = elements'[d]
    BY <1>1, <1>4, <1>6, <2>3 DEF QuotesUpto, QuoteStack
  <2>5. Depth' \in Nat /\ Depth' = N
    BY <1>1, <1>10
  <2>6. QuotesUpto(N)' = QuotesUpto(Depth) \cup {N}
    BY <2>1
  <2>7. quotes'[Cardinality(QuotesUpto(N)')] = elements'[N]
    BY <1>1, <1>10, <2>2, <2>3, <2>6
  <2>8. Len(quotes') = Cardinality(QuotesUpto(Depth)')
    BY <2>1, <2>2, <2>3, <2>5
  <2>9. \A d \in QuotesUpto(Depth)' : quotes'[Cardinality(QuotesUpto(d)')] = elements'[d]
    BY <2>1, <2>4, <2>5, <2>7
  <2> QED
    BY <2>3, <2>8, <2>9 DEF QuoteStack
<1>8. CASE kind \notin {"quote", "callout"}
  <2>1. \A d \in Nat : d = N => QuotesUpto(d)' = QuotesUpto(Depth)
    BY <1>1, <1>2, <1>3, <1>8, <1>10 DEF QuotesUpto
  <2>2. Depth' \in Nat /\ Depth' = N
    BY <1>1, <1>10
  <2>3. QuotesUpto(Depth)' = QuotesUpto(Depth)
    BY <2>1, <2>2
  <2>4. \A d \in QuotesUpto(Depth) : d \in 1 .. Depth
    BY DEF QuotesUpto
  <2> QED
    BY <1>1, <1>4, <1>8, <2>3, <2>4 DEF QuoteStack, Types
<1> QED
  BY <1>7, <1>8

LEMMA EndedQuotes ==
  ASSUME Types, QuoteStack, elements # << >>, elements' = Front(elements),
         quotes' = IF elements[Depth] \in {"quote", "callout"} THEN Front(quotes) ELSE quotes
  PROVE  /\ QuoteStack' /\ quotes' \in Seq(Kinds)
         /\ elements[Depth] \in {"quote", "callout"} =>
              quotes # << >> /\ Last(quotes) = elements[Depth]
<1>1. /\ Depth \in Nat \ {0} /\ Depth' = Depth - 1
      /\ \A d \in 1 .. Depth - 1 : elements'[d] = elements[d] /\ d \in 1 .. Depth
  BY Ended DEF Types
<1>2. \A d \in 1 .. Depth : d \in 1 .. Depth - 1 \/ d = Depth
  BY <1>1
<1>3. Depth \in 1 .. Depth /\ Depth - 1 \in Nat /\ Depth \notin QuotesUpto(Depth - 1)
  BY <1>1 DEF QuotesUpto
<1>4. \A d \in Nat : d < Depth => QuotesUpto(d)' = QuotesUpto(d)
  <2>1. \A d \in Nat : d < Depth => \A e \in 1 .. d : e \in 1 .. Depth - 1
    BY <1>1
  <2> QED
    BY <1>1, <2>1 DEF QuotesUpto
<1>5. /\ IsFiniteSet(QuotesUpto(Depth - 1)) /\ Cardinality(QuotesUpto(Depth - 1)) \in Nat
      /\ \A e \in QuotesUpto(Depth - 1) :
           Cardinality(QuotesUpto(e)) \in 1 .. Cardinality(QuotesUpto(Depth - 1))
  BY <1>3, QuotesFinite
<1>6. QuotesUpto(Depth)' = QuotesUpto(Depth - 1)
  BY <1>1, <1>3, <1>4
<1>7. \A d \in QuotesUpto(Depth - 1) :
        /\ d \in Nat /\ d < Depth /\ d \in QuotesUpto(Depth)
        /\ elements'[d] = elements[d] /\ QuotesUpto(d)' = QuotesUpto(d)
  BY <1>1, <1>4 DEF QuotesUpto
<1>8. CASE elements[Depth] \in {"quote", "callout"}
  <2>1. QuotesUpto(Depth) = QuotesUpto(Depth - 1) \cup {Depth}
    BY <1>1, <1>2, <1>3, <1>8 DEF QuotesUpto
  <2>2. Len(quotes) = Cardinality(QuotesUpto(Depth - 1)) + 1
    BY <1>3, <1>5, <2>1, FS_AddElement DEF QuoteStack
  <2>3. quotes # << >> /\ quotes \in Seq(Kinds)
    BY <1>5, <2>2 DEF Types
  <2>4. /\ Front(quotes) \in Seq(Kinds) /\ Len(Front(quotes)) = Len(quotes) - 1
        /\ \A i \in 1 .. Len(quotes) - 1 : Front(quotes)[i] = quotes[i]
    BY <2>3, ShorterOf DEF Shorter
  <2>5. Last(quotes) = elements[Depth]
    <3>1. Depth \in QuotesUpto(Depth)
      BY <2>1
    <3> QED
      BY <3>1 DEF QuoteStack, Last
  <2>6. \A d \in QuotesUpto(Depth - 1) : quotes'[Cardinality(QuotesUpto(d)')] = elements'[d]
    <3>1. \A d \in QuotesUpto(Depth - 1) : Cardinality(QuotesUpto(d)) \in 1 .. Len(quotes) - 1
      BY <1>5, <2>2
    <3> QED
      BY <1>7, <1>8, <2>4, <3>1 DEF QuoteStack
  <2>7. Len(quotes') = Cardinality(QuotesUpto(Depth)')
    BY <1>5, <1>6, <1>8, <2>2, <2>4
  <2> QED
    BY <1>6, <1>8, <2>3, <2>4, <2>5, <2>6, <2>7 DEF QuoteStack
<1>9. CASE elements[Depth] \notin {"quote", "callout"}
  <2>1. QuotesUpto(Depth) = QuotesUpto(Depth - 1)
    BY <1>1, <1>2, <1>3, <1>9 DEF QuotesUpto
  <2> QED
    BY <1>6, <1>7, <1>9, <2>1 DEF QuoteStack, Types
<1> QED
  BY <1>8, <1>9

-----------------------------------------------------------------------------
(* The tags that should be open, when an element begins or ends *)

LEMMA Depths ==
  ASSUME Types
  PROVE  /\ \A i \in 1 .. Len(scopes) : scopes[i].depth \in Nat
         /\ \A i \in 1 .. Len(inlines) : inlines[i].depth \in Nat
         /\ \A i \in 1 .. Len(scopes) : scopes[i].tag \in {"scope", None}
         /\ \A i \in 1 .. Len(inlines) : inlines[i].tag \in {"span", None}
<1>1. /\ \A i \in 1 .. Len(scopes) : scopes[i] \in [depth : Nat, tag : {"scope", None}]
      /\ \A i \in 1 .. Len(inlines) : inlines[i] \in [depth : Nat, tag : {"span", None}]
  BY ElementOfSeq DEF Types
<1> QED
  BY <1>1

LEMMA ScopeMarksSame ==
  ASSUME Types, UNCHANGED <<scopes, inlines>>,
         NEW top \in Nat, Within(scopes, top), Within(inlines, top),
         \A d \in Nat : d <= top => (IsPlain(d)' <=> IsPlain(d))
  PROVE  /\ ScopeMarks("scope", scopes)' = ScopeMarks("scope", scopes)
         /\ ScopeMarks("inline", inlines)' = ScopeMarks("inline", inlines)
<1>1. \A d \in Nat : d <= top =>
        ((\A j \in 1 .. d : elements'[j] # "image") <=> \A j \in 1 .. d : elements[j] # "image")
  BY DEF IsPlain
<1>2. /\ \A i \in 1 .. Len(scopes) : (\A j \in 1 .. scopes[i].depth : elements'[j] # "image")
                                        <=> \A j \in 1 .. scopes[i].depth : elements[j] # "image"
      /\ \A i \in 1 .. Len(inlines) : (\A j \in 1 .. inlines[i].depth : elements'[j] # "image")
                                        <=> \A j \in 1 .. inlines[i].depth : elements[j] # "image"
  BY <1>1, Depths DEF Within
<1>3. ScopeMarks("scope", scopes)' = ScopeMarks("scope", scopes)
  BY <1>2 DEF ScopeMarks, ScopeMark, IsPlain
<1>4. ScopeMarks("inline", inlines)' = ScopeMarks("inline", inlines)
  BY <1>2 DEF ScopeMarks, ScopeMark, IsPlain
<1> QED
  BY <1>3, <1>4

\* A mark is at the depth of its element or scope.
LEMMA MarkPlaces ==
  ASSUME NEW m \in Marks
  PROVE  \/ \E d \in 1 .. Depth : m = ElementMark(d) /\ Shown(d)
         \/ \E i \in 1 .. Len(scopes) : /\ m = ScopeMark("scope", scopes, i)
                                        /\ IsPlain(scopes[i].depth) /\ scopes[i].tag # None
         \/ \E i \in 1 .. Len(inlines) : /\ m = ScopeMark("inline", inlines, i)
                                         /\ IsPlain(inlines[i].depth) /\ inlines[i].tag # None
<1>1. m \in ElementMarks \/ m \in ScopeMarks("scope", scopes) \/ m \in ScopeMarks("inline", inlines)
  BY DEF Marks
<1>2. CASE m \in ElementMarks
  BY <1>2 DEF ElementMarks
<1>3. CASE m \in ScopeMarks("scope", scopes)
  BY <1>3 DEF ScopeMarks
<1>4. CASE m \in ScopeMarks("inline", inlines)
  BY <1>4 DEF ScopeMarks
<1> QED
  BY <1>1, <1>2, <1>3, <1>4

NewMark(kind) == <<Depth + 1, "element", Depth + 1, kind>>

LEMMA BegunMarks ==
  ASSUME Types, ScopesWithin, NEW kind \in Kinds, elements' = Append(elements, kind),
         UNCHANGED <<scopes, inlines>>,
         \A d \in 1 .. Depth : elements[d] = "paragraph" => (ParagraphShown' <=> ParagraphShown)
  PROVE  /\ \A m \in Marks : Before(m, NewMark(kind))
         /\ Marks' = IF /\ IsPlain(Depth) /\ kind \notin {"image", "badlink", "diagram"}
                        /\ kind = "paragraph" => ParagraphShown'
                     THEN Marks \cup {NewMark(kind)} ELSE Marks
         /\ ScopesWithin'
<1>1. PICK n : n = NewMark(kind)
  OBVIOUS
<1>2. n = <<Depth + 1, "element", Depth + 1, kind>>
  BY <1>1 DEF NewMark
<1> USE <1>2
<1>3. /\ Depth \in Nat /\ Depth' = Depth + 1
      /\ \A d \in 1 .. Depth : elements'[d] = elements[d] /\ d \in 1 .. Depth + 1
      /\ elements'[Depth + 1] = kind
      /\ \A d \in Nat : d <= Depth => (IsPlain(d)' <=> IsPlain(d))
      /\ \A d \in Nat : d = Depth + 1 => (IsPlain(d)' <=> IsPlain(Depth) /\ kind # "image")
  BY Begun DEF Types
<1>4. PICK N \in Nat : N = Depth + 1
  BY <1>3
<1>5. N \in 1 .. N /\ N \notin 1 .. Depth /\ \A d \in 1 .. N : d \in 1 .. Depth \/ d = N
  BY <1>3, <1>4
<1>6. \A d \in 1 .. Depth : (Shown(d)' <=> Shown(d)) /\ ElementMark(d)' = ElementMark(d)
  <2>1. \A d \in 1 .. Depth : IsPlain(d)' <=> IsPlain(d)
    BY <1>3
  <2> QED
    BY <1>3, <2>1 DEF Shown, ElementMark
<1> DEFINE Shows == /\ IsPlain(Depth) /\ kind \notin {"image", "badlink", "diagram"}
                    /\ kind = "paragraph" => ParagraphShown'
<1>7. Shown(N)' <=> Shows
  BY <1>3, <1>4 DEF Shown
<1>8. ElementMark(N)' = n
  BY <1>3, <1>4 DEF ElementMark
<1> HIDE DEF Shows
<1>9. ElementMarks' = {ElementMark(d)' : d \in {e \in 1 .. N : Shown(e)'}}
  BY <1>3, <1>4 DEF ElementMarks
<1>10. ElementMarks' = IF Shows THEN ElementMarks \cup {n} ELSE ElementMarks
  <2>1. ElementMarks = {ElementMark(d)' : d \in {e \in 1 .. Depth : Shown(e)'}}
    BY <1>6 DEF ElementMarks
  <2>2. {e \in 1 .. N : Shown(e)'} =
          IF Shows THEN {e \in 1 .. Depth : Shown(e)'} \cup {N} ELSE {e \in 1 .. Depth : Shown(e)'}
    BY <1>3, <1>4, <1>5, <1>7
  <2> QED
    BY <1>8, <1>9, <2>1, <2>2
<1>11. /\ \A i \in 1 .. Len(scopes) : scopes[i].depth \in Nat /\ scopes[i].depth <= Depth
      /\ \A i \in 1 .. Len(inlines) : inlines[i].depth \in Nat /\ inlines[i].depth <= Depth
  BY Depths DEF ScopesWithin, Within
<1>12. /\ ScopeMarks("scope", scopes)' = ScopeMarks("scope", scopes)
       /\ ScopeMarks("inline", inlines)' = ScopeMarks("inline", inlines)
  BY <1>3, ScopeMarksSame DEF ScopesWithin
<1>13. Marks' = IF Shows THEN Marks \cup {n} ELSE Marks
  BY <1>10, <1>12 DEF Marks
<1>14. \A m \in Marks : Before(m, n)
  <2> SUFFICES ASSUME NEW m \in Marks PROVE m[1] < n[1]
    BY DEF Before
  <2>1. m[1] \in Nat /\ m[1] <= Depth
    BY <1>3, <1>11, MarkPlaces DEF ElementMark, ScopeMark
  <2> QED
    BY <1>3, <2>1
<1>15. ScopesWithin'
  <2>1. \A d \in Nat : d <= Depth => d <= Depth + 1
    BY <1>3
  <2>2. /\ \A i \in 1 .. Len(scopes) : scopes[i].depth <= Depth'
        /\ \A i \in 1 .. Len(inlines) : inlines[i].depth <= Depth'
    BY <1>3, <1>11, <2>1
  <2> QED
    BY <2>2 DEF ScopesWithin, Within
<1> QED
  BY <1>13, <1>14, <1>15, <1>1 DEF Shows

LEMMA EndedMarks ==
  ASSUME Types, Shape, ScopesWithin, ~LeavesScope, elements # << >>, elements' = Front(elements),
         UNCHANGED <<scopes, inlines>>,
         elements[Depth] \in Inline => (ParagraphShown' <=> ParagraphShown)
  PROVE  /\ \A m \in Marks : ~Before(ElementMark(Depth), m)
         /\ ElementMark(Depth) \in Marks <=> Shown(Depth)
         /\ Marks' = Marks \ {ElementMark(Depth)}
         /\ ScopesWithin'
<1>1. PICK n : n = ElementMark(Depth)
  OBVIOUS
<1> USE <1>1
<1>2. /\ Depth \in Nat \ {0} /\ Depth' = Depth - 1
      /\ \A d \in 1 .. Depth - 1 : elements'[d] = elements[d] /\ d \in 1 .. Depth
      /\ \A d \in Nat : d < Depth => (IsPlain(d)' <=> IsPlain(d))
  BY Ended DEF Types
<1>3. Depth \in 1 .. Depth /\ Depth \notin 1 .. Depth - 1
      /\ \A d \in 1 .. Depth : d \in 1 .. Depth - 1 \/ d = Depth
  BY <1>2
<1>4. \A d \in 1 .. Depth - 1 : elements[d] = "paragraph" => (ParagraphShown' <=> ParagraphShown)
  <2>1. \A d \in 1 .. Depth - 1 : d < Depth
    BY <1>2
  <2> QED
    BY <1>2, <1>3, <2>1 DEF Shape
<1>5. \A d \in 1 .. Depth - 1 : (Shown(d)' <=> Shown(d)) /\ ElementMark(d)' = ElementMark(d)
  <2>1. \A d \in 1 .. Depth - 1 : IsPlain(d)' <=> IsPlain(d)
    BY <1>2
  <2> QED
    BY <1>2, <1>4, <2>1 DEF Shown, ElementMark
<1>6. /\ \A i \in 1 .. Len(scopes) : scopes[i].depth \in Nat /\ scopes[i].depth < Depth
      /\ \A i \in 1 .. Len(inlines) : inlines[i].depth \in Nat /\ inlines[i].depth < Depth
  <2>1. /\ \A i \in 1 .. Len(scopes) : scopes[i].depth # Depth
        /\ \A i \in 1 .. Len(inlines) : inlines[i].depth # Depth
    BY DEF LeavesScope, Range
  <2> QED
    BY <1>2, <2>1, Depths DEF ScopesWithin, Within
<1>7. /\ ScopeMarks("scope", scopes)' = ScopeMarks("scope", scopes)
      /\ ScopeMarks("inline", inlines)' = ScopeMarks("inline", inlines)
  <2>1. PICK top \in Nat : top = Depth - 1
    BY <1>2
  <2>2. Within(scopes, top) /\ Within(inlines, top)
    BY <1>2, <1>6, <2>1 DEF Within
  <2>3. \A d \in Nat : d <= top => (IsPlain(d)' <=> IsPlain(d))
    BY <1>2, <2>1
  <2> QED
    BY <2>2, <2>3, ScopeMarksSame
<1>8. n[1] = Depth /\ n[2] = "element"
  BY DEF ElementMark
<1>9. /\ n \notin ScopeMarks("scope", scopes) /\ n \notin ScopeMarks("inline", inlines)
      /\ \A d \in 1 .. Depth - 1 : ElementMark(d) # n
  <2>1. n \notin ScopeMarks("scope", scopes)
    BY <1>8 DEF ScopeMarks, ScopeMark
  <2>2. n \notin ScopeMarks("inline", inlines)
    BY <1>8 DEF ScopeMarks, ScopeMark
  <2> QED
    BY <1>2, <1>3, <1>8, <2>1, <2>2 DEF ElementMark
<1>10. n \in Marks <=> Shown(Depth)
  <2>1. n \in ElementMarks <=> Shown(Depth)
    <3>1. n \in ElementMarks => Shown(Depth)
      BY <1>3, <1>9 DEF ElementMarks
    <3> QED
      BY <1>3, <3>1 DEF ElementMarks
  <2> QED
    BY <1>9, <2>1 DEF Marks
<1>11. ElementMarks' = ElementMarks \ {n}
  <2>1. ElementMarks' = {ElementMark(d)' : d \in {e \in 1 .. Depth - 1 : Shown(e)'}}
    BY <1>2 DEF ElementMarks
  <2>2. ElementMarks' = {ElementMark(d) : d \in {e \in 1 .. Depth - 1 : Shown(e)}}
    BY <1>5, <2>1
  <2>3. {e \in 1 .. Depth - 1 : Shown(e)} = {e \in 1 .. Depth : Shown(e)} \ {Depth}
    BY <1>2, <1>3
  <2> QED
    BY <1>3, <1>9, <2>2, <2>3 DEF ElementMarks
<1>12. Marks' = Marks \ {n}
  BY <1>7, <1>9, <1>11 DEF Marks
<1>13. \A m \in Marks : ~Before(n, m)
  <2> SUFFICES ASSUME NEW m \in Marks PROVE ~Before(n, m)
    OBVIOUS
  <2>1. CASE \E d \in 1 .. Depth : m = ElementMark(d)
    BY <1>2, <1>8, <2>1 DEF Before, ElementMark
  <2>2. CASE \E i \in 1 .. Len(scopes) : m = ScopeMark("scope", scopes, i)
    BY <1>2, <1>6, <1>8, <2>2 DEF Before, ScopeMark
  <2>3. CASE \E i \in 1 .. Len(inlines) : m = ScopeMark("inline", inlines, i)
    BY <1>2, <1>6, <1>8, <2>3 DEF Before, ScopeMark
  <2> QED
    BY <2>1, <2>2, <2>3, MarkPlaces
<1>14. ScopesWithin'
  BY <1>2, <1>6 DEF ScopesWithin, Within
<1> QED
  BY <1>10, <1>12, <1>13, <1>14

-----------------------------------------------------------------------------
(* Paragraphs whose tag is delayed *)

LEMMA TopOf ==
  ASSUME NEW S, NEW s \in Seq(S), NEW e
  PROVE  /\ s = << >> => Top(s, e) = e /\ Len(s) = 0
         /\ s # << >> => Top(s, e) = s[Len(s)] /\ Len(s) \in 1 .. Len(s) /\ Last(s) = s[Len(s)]
BY EmptySeq DEF Top, Last

ChangedAt(s, t, e) ==
  /\ t # << >> /\ Len(t) = Len(s)
  /\ \A i \in 1 .. Len(s) - 1 : t[i] = s[i]
  /\ Last(t) = e /\ \A d : Top(t, d) = e

LEMMA LastChanged ==
  ASSUME NEW S, NEW s \in Seq(S), s # << >>, NEW e \in S
  PROVE  /\ [s EXCEPT ![Len(s)] = e] \in Seq(S)
         /\ ChangedAt(s, [s EXCEPT ![Len(s)] = e], e)
<1> DEFINE t == [s EXCEPT ![Len(s)] = e]
<1>1. Len(s) \in 1 .. Len(s) /\ Len(s) # 0
  BY EmptySeq
<1>2. t \in Seq(S) /\ Len(t) = Len(s) /\ t[Len(s)] = e /\ \A i \in 1 .. Len(s) - 1 : t[i] = s[i]
  BY <1>1
<1>3. t # << >>
  <2>1. Len(t) # 0
    BY <1>1, <1>2, Zenon
  <2> QED
    BY <1>2, <2>1, EmptySeq, Zenon
<1> HIDE DEF t
<1>4. Last(t) = e /\ \A d : Top(t, d) = e
  BY <1>2, <1>3 DEF Top, Last
<1>5. t \in Seq(S) /\ ChangedAt(s, t, e)
  BY <1>2, <1>3, <1>4 DEF ChangedAt
<1> QED
  BY <1>5 DEF t

\* A paragraph is the innermost block.
LEMMA ParagraphInside ==
  ASSUME Shape, Depth \in Nat, NEW d \in 1 .. Depth, elements[d] = "paragraph"
  PROVE  /\ d = Depth \/ elements[Depth] \in Inline
         /\ \A e \in 1 .. Depth : elements[e] = "paragraph" => e = d
<1>1. Depth \in 1 .. Depth /\ \A e \in 1 .. Depth : e < d \/ e = d \/ d < e
  OBVIOUS
<1>2. d = Depth \/ elements[Depth] \in Inline
  <2>1. CASE d < Depth
    BY <1>1, <2>1 DEF Shape
  <2> QED
    BY <2>1
<1>3. \A e \in 1 .. Depth : elements[e] = "paragraph" => e = d
  BY <1>1 DEF Shape, Inline
<1> QED
  BY <1>2, <1>3

LEMMA SameMarks ==
  ASSUME UNCHANGED <<elements, scopes, inlines>>, ParagraphShown' <=> ParagraphShown
  PROVE  Marks' = Marks
<1>1. ElementMarks' = ElementMarks
  BY DEF ElementMarks, ElementMark, Shown, IsPlain, Depth
<1>2. /\ ScopeMarks("scope", scopes)' = ScopeMarks("scope", scopes)
      /\ ScopeMarks("inline", inlines)' = ScopeMarks("inline", inlines)
  BY DEF ScopeMarks, ScopeMark, IsPlain
<1> QED
  BY <1>1, <1>2 DEF Marks

LEMMA SameShape ==
  ASSUME Shape, Links, ImageCount, BadLinkCount, QuoteStack,
         UNCHANGED <<elements, quotes, images, badLinks>>
  PROVE  Shape' /\ Links' /\ ImageCount' /\ BadLinkCount' /\ QuoteStack'
BY DEF Shape, Links, ImageCount, ImagePlaces, BadLinkCount, HasBadLink, IsPlain, QuoteStack,
       QuotesUpto, Depth

LEMMA StillGood ==
  ASSUME Good, UNCHANGED <<elements, scopes, inlines, quotes, callouts, footnotes, images, badLinks>>,
         Silent
  PROVE  Good'
<1>1. /\ Types /\ crossed = FALSE /\ Matches(tags, Marks) /\ ScopesWithin /\ Delayed
      /\ Shape /\ Links /\ ImageCount /\ BadLinkCount /\ QuoteStack
  BY DEF Good
<1>2. Marks' = Marks
  BY SameMarks DEF ParagraphShown, Top
<1>3. crossed' = FALSE /\ tags' \in Seq(TagNames) /\ Matches(tags', Marks')
  BY <1>1, <1>2, SilentKeeps
<1>4. Shape' /\ Links' /\ ImageCount' /\ BadLinkCount' /\ QuoteStack'
  BY <1>1, SameShape
<1>5. ScopesWithin' /\ Delayed'
  BY <1>1 DEF ScopesWithin, Within, Delayed, Depth, IsPlain, Top
<1>6. Types'
  BY <1>1, <1>3 DEF Types
<1> QED
  BY <1>3, <1>4, <1>5, <1>6 DEF Good

\* The tag of the paragraph is written: nothing has been written inside it.
LEMMA OpeningMarks ==
  ASSUME Types, Shape, ScopesWithin, Delayed, UNCHANGED <<scopes, inlines, footnotes>>,
         Top(callouts, "done") = "delayed", Top(callouts', "done") = "open",
         Top(elements, None) \notin Inline,
         \/ elements' = elements
         \/ "image" \in Kinds /\ elements' = Append(elements, "image")
  PROVE  \E n : /\ n[4] = "paragraph" /\ Marks' = Marks \cup {n}
                /\ \A m \in Marks : Before(m, n)
<1>1. Depth \in Nat
  BY DEF Types, Depth
<1>2. PICK d \in 1 .. Depth : elements[d] = "paragraph" /\ Within(scopes, d - 1) /\ Within(inlines, d - 1)
  BY DEF Delayed
<1>3. Depth \in 1 .. Depth /\ elements # << >> /\ Top(elements, None) = elements[Depth]
  BY <1>1, <1>2, TopOf DEF Types, Depth
<1>4. d = Depth
  BY <1>1, <1>2, <1>3, ParagraphInside
<1>5. /\ Depth' \in {Depth, Depth + 1}
      /\ \A e \in 1 .. Depth : elements'[e] = elements[e]
      /\ Depth' = Depth + 1 => elements'[Depth + 1] = "image"
  BY <1>1, Begun DEF Depth, Types
<1>6. \A e \in Nat : e <= Depth => \A j \in 1 .. e : elements'[j] = elements[j]
  BY <1>1, <1>5
<1>7. \A e \in Nat : e <= Depth => (IsPlain(e)' <=> IsPlain(e))
  BY <1>6 DEF IsPlain
<1>8. IsPlain(Depth) /\ ~ParagraphShown /\ ParagraphShown'
  BY DEF Delayed, ParagraphShown
<1>9. \A e \in 1 .. Depth : elements[e] = "paragraph" <=> e = Depth
  BY <1>1, <1>2, <1>4, ParagraphInside
<1>10. PICK N \in Nat : N = Depth
  BY <1>1
<1>11. Shown(N)' /\ ~Shown(N)
  BY <1>3, <1>5, <1>7, <1>8, <1>9, <1>10 DEF Shown
<1>12. \A e \in 1 .. Depth : e # N => (Shown(e)' <=> Shown(e))
  <2>1. \A e \in 1 .. Depth : IsPlain(e)' <=> IsPlain(e)
    BY <1>1, <1>7
  <2> QED
    BY <1>5, <1>9, <1>10, <2>1 DEF Shown
<1>13. Depth' = Depth + 1 => \A e \in Nat : e = Depth + 1 => ~Shown(e)'
  BY <1>1, <1>5 DEF Shown, IsPlain
<1>14. \A e \in 1 .. Depth : ElementMark(e)' = ElementMark(e)
  BY <1>5 DEF ElementMark
<1> DEFINE n == ElementMark(N)
<1>15. {e \in 1 .. Depth' : Shown(e)'} = {e \in 1 .. Depth : Shown(e)} \cup {N}
  <2>1. \A e \in 1 .. Depth' : e \in 1 .. Depth \/ (Depth' = Depth + 1 /\ e = Depth + 1)
    BY <1>1, <1>5
  <2>2. \A e \in 1 .. Depth : e \in 1 .. Depth'
    BY <1>1, <1>5
  <2>3. \A e \in 1 .. Depth' : e \in Nat
    BY <1>1, <1>5
  <2>4. \A e \in 1 .. Depth' : Shown(e)' => e \in 1 .. Depth
    BY <1>13, <2>1, <2>3
  <2>5. N \in 1 .. Depth
    BY <1>3, <1>10
  <2> QED
    BY <1>11, <1>12, <2>2, <2>4, <2>5
<1>16. ElementMarks' = {ElementMark(e)' : e \in {c \in 1 .. Depth' : Shown(c)'}}
  BY DEF ElementMarks
<1>17. ElementMarks' = {ElementMark(e)' : e \in {c \in 1 .. Depth : Shown(c)} \cup {N}}
  BY <1>15, <1>16
<1>18. N \in 1 .. Depth
  BY <1>3, <1>10
<1>19. ElementMarks' = {ElementMark(e) : e \in {c \in 1 .. Depth : Shown(c)} \cup {N}}
  BY <1>14, <1>17, <1>18
<1>20. ElementMarks' = ElementMarks \cup {n}
  BY <1>19 DEF ElementMarks
<1>21. /\ ScopeMarks("scope", scopes)' = ScopeMarks("scope", scopes)
       /\ ScopeMarks("inline", inlines)' = ScopeMarks("inline", inlines)
  BY <1>1, <1>7, ScopeMarksSame DEF ScopesWithin
<1>22. Marks' = Marks \cup {n}
  BY <1>20, <1>21 DEF Marks
<1>23. n[1] = N /\ n[4] = "paragraph"
  BY <1>2, <1>4, <1>10 DEF ElementMark
<1>24. \A m \in Marks : Before(m, n)
  <2> SUFFICES ASSUME NEW m \in Marks PROVE Before(m, n)
    OBVIOUS
  <2>1. CASE \E e \in 1 .. Depth : m = ElementMark(e) /\ Shown(e)
    BY <1>1, <1>10, <1>11, <1>23, <2>1 DEF Before, ElementMark
  <2>2. CASE \E i \in 1 .. Len(scopes) : m = ScopeMark("scope", scopes, i)
    BY <1>1, <1>2, <1>4, <1>10, <1>23, <2>2, Depths DEF Before, ScopeMark, Within
  <2>3. CASE \E i \in 1 .. Len(inlines) : m = ScopeMark("inline", inlines, i)
    BY <1>1, <1>2, <1>4, <1>10, <1>23, <2>3, Depths DEF Before, ScopeMark, Within
  <2> QED
    BY <2>1, <2>2, <2>3, MarkPlaces
<1> HIDE DEF n
<1> QED
  BY <1>22, <1>23, <1>24

LEMMA OpenDelayedKeeps ==
  ASSUME Good, OpenDelayed, ~OpensInside,
         UNCHANGED <<scopes, inlines, footnotes>>,
         \/ elements' = elements
         \/ "image" \in Kinds /\ elements' = Append(elements, "image")
  PROVE  /\ crossed' = FALSE /\ tags' \in Seq(TagNames) /\ Matches(tags', Marks')
         /\ callouts' \in Seq({"pending", "delayed", "open", "done"})
         /\ ScopesWithin' /\ Delayed'
<1>1. /\ Types /\ crossed = FALSE /\ Matches(tags, Marks) /\ ScopesWithin /\ Delayed
      /\ Shape /\ ImageCount
  BY DEF Good
<1>2. Depth \in Nat /\ Depth' \in {Depth, Depth + 1}
  <2>1. "image" \in Kinds /\ elements' = Append(elements, "image") => Depth' = Depth + 1
    BY <1>1, Begun DEF Types
  <2> QED
    BY <1>1, <2>1 DEF Types, Depth
<1>3. ScopesWithin'
  <2>1. /\ \A i \in 1 .. Len(scopes) : scopes[i].depth \in Nat
        /\ \A i \in 1 .. Len(inlines) : inlines[i].depth \in Nat
    BY <1>1, Depths
  <2> QED
    BY <1>1, <1>2, <2>1 DEF ScopesWithin, Within
<1>4. CASE Top(callouts, "done") = "delayed"
  <2>1. callouts # << >>
    BY <1>4 DEF Top
  <2>2. callouts' = [callouts EXCEPT ![Len(callouts)] = "open"] /\ Push("paragraph")
    BY <1>4 DEF OpenDelayed
  <2>3. /\ callouts' \in Seq({"pending", "delayed", "open", "done"})
        /\ callouts' # << >> /\ Len(callouts') = Len(callouts)
        /\ \A i \in 1 .. Len(callouts) - 1 : callouts'[i] = callouts[i]
        /\ Top(callouts', "done") = "open"
    <3> DEFINE C == {"pending", "delayed", "open", "done"}
    <3>1. callouts \in Seq(C) /\ "open" \in C
      BY <1>1 DEF Types
    <3> HIDE DEF C
    <3>2. callouts' \in Seq(C) /\ ChangedAt(callouts, callouts', "open")
      BY <2>1, <2>2, <3>1, LastChanged
    <3> QED
      BY <3>2 DEF C, ChangedAt
  <2>4. Top(elements, None) \notin Inline
    BY <1>4 DEF OpensInside
  <2>5. PICK n : /\ n[4] = "paragraph" /\ Marks' = Marks \cup {n}
                 /\ \A m \in Marks : Before(m, n)
    BY <1>1, <1>4, <2>3, <2>4, OpeningMarks
  <2>6. images = 0
    BY <1>1, <1>4, ImagesOf DEF Delayed
  <2>7. crossed' = FALSE /\ tags' \in Seq(TagNames) /\ Matches(tags', Marks')
    BY <1>1, <2>2, <2>5, <2>6, PushKeeps DEF TagNames
  <2>8. Delayed'
    BY <1>1, <2>3 DEF Delayed
  <2> QED
    BY <1>3, <2>3, <2>7, <2>8
<1>5. CASE Top(callouts, "done") # "delayed"
  <2>1. Silent /\ callouts' = callouts
    BY <1>5 DEF OpenDelayed
  <2>2. ParagraphShown' <=> ParagraphShown
    BY <2>1 DEF ParagraphShown, Top
  <2>3. Marks' = Marks
    <3>1. CASE elements' = elements
      BY <2>2, <3>1, SameMarks
    <3>2. CASE "image" \in Kinds /\ elements' = Append(elements, "image")
      BY <1>1, <2>2, <3>2, BegunMarks
    <3> QED
      BY <3>1, <3>2
  <2>4. crossed' = FALSE /\ tags' \in Seq(TagNames) /\ Matches(tags', Marks')
    BY <1>1, <2>1, <2>3, SilentKeeps
  <2>5. Delayed'
    BY <1>1, <1>5, <2>1 DEF Delayed, Top
  <2> QED
    BY <1>1, <1>3, <2>1, <2>4, <2>5 DEF Types
<1> QED
  BY <1>4, <1>5

-----------------------------------------------------------------------------
(* The actions that leave the elements open *)

LEMMA OpenedStaysGood ==
  ASSUME Good, OpenDelayed, ~OpensInside,
         UNCHANGED <<elements, scopes, inlines, quotes, footnotes, images, badLinks>>
  PROVE  Good'
<1>1. Types /\ Shape /\ Links /\ ImageCount /\ BadLinkCount /\ QuoteStack
  BY DEF Good
<1>2. /\ crossed' = FALSE /\ tags' \in Seq(TagNames) /\ Matches(tags', Marks')
      /\ callouts' \in Seq({"pending", "delayed", "open", "done"})
      /\ ScopesWithin' /\ Delayed'
  BY OpenDelayedKeeps
<1>3. Shape' /\ Links' /\ ImageCount' /\ BadLinkCount' /\ QuoteStack'
  BY <1>1, SameShape
<1>4. Types'
  BY <1>1, <1>2 DEF Types
<1> QED
  BY <1>2, <1>3, <1>4 DEF Good

LEMMA TextKeeps ==
  ASSUME Good, Text, tidy' PROVE Good'
<1>1. PICK onMarker \in BOOLEAN :
        LET marker == onMarker /\ Top(callouts, "done") \in {"delayed", "open"}
            collected == images > 0 \/ Top(elements, None) = "diagram"
        IN  /\ IF collected \/ marker THEN Silent /\ UNCHANGED callouts ELSE OpenDelayed
            /\ tidy' = (tidy /\ ~(~collected /\ ~marker /\ OpensInside))
            /\ UNCHANGED <<elements, scopes, inlines, single, style, quotes, footnotes, images,
                           badLinks>>
  BY DEF Text
<1>2. CASE Silent /\ UNCHANGED callouts
  BY <1>1, <1>2, StillGood
<1>3. CASE OpenDelayed /\ ~OpensInside
  BY <1>1, <1>3, OpenedStaysGood
<1> QED
  BY <1>1, <1>2, <1>3

LEMMA HtmlKeeps ==
  ASSUME Good, Html, tidy' PROVE Good'
<1>1. PICK lineBreak \in BOOLEAN :
        /\ IF lineBreak /\ elements # << >> THEN OpenDelayed ELSE Silent /\ UNCHANGED callouts
        /\ tidy' = (tidy /\ ~(lineBreak /\ OpensInside))
        /\ UNCHANGED <<elements, scopes, inlines, single, style, quotes, footnotes, images,
                       badLinks>>
  BY DEF Html
<1>2. CASE Silent /\ UNCHANGED callouts
  BY <1>1, <1>2, StillGood
<1>3. CASE OpenDelayed /\ ~OpensInside
  BY <1>1, <1>3, OpenedStaysGood
<1> QED
  BY <1>1, <1>2, <1>3

LEMMA ParamsKeeps ==
  ASSUME Good, Params PROVE Good'
BY StillGood DEF Params

\* What a scope leaves as it is.
LEMMA ScopeLeaves ==
  ASSUME Good, UNCHANGED <<elements, quotes, callouts, footnotes, images, badLinks>>
  PROVE  /\ ElementMarks' = ElementMarks
         /\ Shape' /\ Links' /\ ImageCount' /\ BadLinkCount' /\ QuoteStack'
         /\ Depth' = Depth /\ Depth \in Nat
         /\ \A d : IsPlain(d)' <=> IsPlain(d)
         /\ images = 0 <=> IsPlain(Depth)
         /\ Top(callouts', "done") = Top(callouts, "done")
<1>1. Types /\ Shape /\ Links /\ ImageCount /\ BadLinkCount /\ QuoteStack
  BY DEF Good
<1>2. ElementMarks' = ElementMarks
  BY DEF ElementMarks, ElementMark, Shown, IsPlain, Depth, ParagraphShown, Top
<1>3. Shape' /\ Links' /\ ImageCount' /\ BadLinkCount' /\ QuoteStack'
  BY <1>1, SameShape
<1> QED
  BY <1>1, <1>2, <1>3, ImagesOf DEF Depth, IsPlain, Top

\* One scope more, and its mark if it is shown.
LEMMA ScopeBegun ==
  ASSUME NEW sort, NEW S, NEW stack \in Seq(S), NEW scope \in S,
         NEW n, n = <<scope.depth, sort, Len(stack) + 1, scope.tag>>
  PROVE  ScopeMarks(sort, Append(stack, scope))
           = IF scope.tag # None /\ IsPlain(scope.depth)
               THEN ScopeMarks(sort, stack) \cup {n} ELSE ScopeMarks(sort, stack)
<1> DEFINE long == Append(stack, scope)
           N == Len(stack) + 1
           shown == {j \in 1 .. Len(stack) : stack[j].tag # None /\ IsPlain(stack[j].depth)}
           after == {j \in 1 .. Len(long) : long[j].tag # None /\ IsPlain(long[j].depth)}
<1>1. /\ Len(stack) \in Nat /\ Len(long) = N
      /\ \A i \in 1 .. Len(stack) : long[i] = stack[i]
      /\ long[N] = scope
  BY LongerOf DEF Longer
<1>2. \A i \in 1 .. N : i \in 1 .. Len(stack) \/ i = N
  BY <1>1
<1>3. N \in 1 .. N /\ \A i \in 1 .. Len(stack) : i \in 1 .. N
  BY <1>1
<1> HIDE DEF long
<1>4. after = IF scope.tag # None /\ IsPlain(scope.depth) THEN shown \cup {N} ELSE shown
  <2>1. N \notin 1 .. Len(stack)
    BY <1>1
  <2> HIDE DEF N
  <2> QED
    BY <1>1, <1>2, <1>3, <2>1
<1>5. /\ \A i \in shown : ScopeMark(sort, long, i) = ScopeMark(sort, stack, i)
      /\ ScopeMark(sort, long, N) = n
  BY <1>1 DEF ScopeMark
<1>6. ScopeMarks(sort, stack) = {ScopeMark(sort, stack, i) : i \in shown}
  BY DEF ScopeMarks
<1>7. ScopeMarks(sort, long) = {ScopeMark(sort, long, i) : i \in after}
  BY DEF ScopeMarks
<1> HIDE DEF shown, after, N
<1>8. ScopeMarks(sort, long) = IF scope.tag # None /\ IsPlain(scope.depth)
        THEN ScopeMarks(sort, stack) \cup {n} ELSE ScopeMarks(sort, stack)
  BY <1>4, <1>5, <1>6, <1>7
<1> QED
  BY <1>8 DEF long

\* The last scope less, and its mark.
LastMark(sort, stack, n) ==
  /\ ScopeMarks(sort, Front(stack)) = ScopeMarks(sort, stack) \ {n}
  /\ n \in ScopeMarks(sort, stack) <=> Last(stack).tag # None /\ IsPlain(Last(stack).depth)
  /\ n[1] = Last(stack).depth /\ n[2] = sort /\ n[3] = Len(stack)
  /\ n[4] = Last(stack).tag

LEMMA ScopeEnded ==
  ASSUME NEW sort, NEW S, NEW stack \in Seq(S), stack # << >>
  PROVE  LastMark(sort, stack, ScopeMark(sort, stack, Len(stack)))
<1> DEFINE n == ScopeMark(sort, stack, Len(stack))
           short == Front(stack)
           L == Len(stack)
           shown == {j \in 1 .. L : stack[j].tag # None /\ IsPlain(stack[j].depth)}
           after == {j \in 1 .. Len(short) : short[j].tag # None /\ IsPlain(short[j].depth)}
<1>1. /\ L \in Nat \ {0} /\ Len(short) = L - 1
      /\ \A i \in 1 .. L - 1 : short[i] = stack[i]
      /\ Last(stack) = stack[L]
  BY ShorterOf DEF Shorter, Last
<1>2. /\ L \in 1 .. L /\ L \notin 1 .. L - 1
      /\ \A i \in 1 .. L : i \in 1 .. L - 1 \/ i = L
      /\ \A i \in 1 .. L - 1 : i \in 1 .. L
  BY <1>1
<1> HIDE DEF short, L
<1>3. after = shown \ {L}
  BY <1>1, <1>2
<1>4. \A i \in after : ScopeMark(sort, short, i) = ScopeMark(sort, stack, i)
  BY <1>1 DEF ScopeMark
<1>5. \A i, j \in 1 .. L : ScopeMark(sort, stack, i) = ScopeMark(sort, stack, j) => i = j
  BY DEF ScopeMark
<1>6. n = ScopeMark(sort, stack, L)
  BY DEF L
<1>7. ScopeMarks(sort, stack) = {ScopeMark(sort, stack, i) : i \in shown}
  BY DEF ScopeMarks, L
<1>8. ScopeMarks(sort, short) = {ScopeMark(sort, short, i) : i \in after}
  BY DEF ScopeMarks
<1>9. shown \subseteq 1 .. L /\ (L \in shown <=> Last(stack).tag # None /\ IsPlain(Last(stack).depth))
  BY <1>1, <1>2
<1> HIDE DEF shown, after
<1>10. ScopeMarks(sort, short) = ScopeMarks(sort, stack) \ {n}
  <2>1. ScopeMarks(sort, short) = {ScopeMark(sort, stack, i) : i \in shown \ {L}}
    BY <1>3, <1>4, <1>8
  <2> QED
    BY <1>2, <1>5, <1>6, <1>7, <1>9, <2>1
<1>11. n \in ScopeMarks(sort, stack) <=> L \in shown
  BY <1>2, <1>5, <1>6, <1>7, <1>9
<1>12. n[1] = Last(stack).depth /\ n[2] = sort /\ n[3] = L /\ n[4] = Last(stack).tag
  BY <1>1, <1>6 DEF ScopeMark
<1> HIDE DEF n
<1>13. LastMark(sort, stack, n)
  BY <1>9, <1>10, <1>11, <1>12 DEF short, L, LastMark
<1> QED
  BY <1>13 DEF n

LEMMA WithinOf ==
  ASSUME NEW S, NEW stack \in Seq(S), NEW top, Within(stack, top)
  PROVE  /\ \A scope \in S : scope.depth <= top => Within(Append(stack, scope), top)
         /\ stack # << >> => Within(Front(stack), top)
<1>1. ASSUME NEW scope \in S, scope.depth <= top PROVE Within(Append(stack, scope), top)
  <2>1. /\ Len(stack) \in Nat /\ Len(Append(stack, scope)) = Len(stack) + 1
        /\ \A i \in 1 .. Len(stack) : Append(stack, scope)[i] = stack[i]
        /\ Append(stack, scope)[Len(stack) + 1] = scope
    BY LongerOf DEF Longer
  <2>2. \A i \in 1 .. Len(stack) + 1 : i \in 1 .. Len(stack) \/ i = Len(stack) + 1
    BY <2>1
  <2> QED
    BY <1>1, <2>1, <2>2 DEF Within
<1>2. ASSUME stack # << >> PROVE Within(Front(stack), top)
  <2>1. /\ Len(stack) \in Nat \ {0} /\ Len(Front(stack)) = Len(stack) - 1
        /\ \A i \in 1 .. Len(stack) - 1 : Front(stack)[i] = stack[i]
    BY <1>2, ShorterOf DEF Shorter
  <2>2. \A i \in 1 .. Len(stack) - 1 : i \in 1 .. Len(stack)
    BY <2>1
  <2> QED
    BY <2>1, <2>2 DEF Within
<1> QED
  BY <1>1, <1>2

LEMMA OpenScopeKeeps ==
  ASSUME Good, OpenScope, tidy' PROVE Good'
<1> DEFINE Scopes == [depth : Nat, tag : {"scope", None}]
           Inlines == [depth : Nat, tag : {"span", None}]
<1>1. /\ Types /\ crossed = FALSE /\ Matches(tags, Marks) /\ ScopesWithin /\ Delayed
  BY DEF Good
<1>2. PICK inline \in BOOLEAN, shows \in BOOLEAN :
        LET scope == [depth |-> Depth, tag |-> IF shows THEN "scope" ELSE None]
            ruby == [scope EXCEPT !.tag = IF shows THEN "span" ELSE None]
        IN  /\ IF shows THEN Push(IF inline THEN "span" ELSE "scope") ELSE Silent
            /\ IF inline THEN inlines' = Append(inlines, ruby) /\ UNCHANGED scopes
                         ELSE scopes' = Append(scopes, scope) /\ UNCHANGED inlines
            /\ tidy' = (tidy /\ ~(Top(callouts, "done") = "delayed" /\ Depth > 0))
            /\ UNCHANGED <<elements, single, style, quotes, callouts, footnotes, images, badLinks>>
  BY DEF OpenScope
<1>3. /\ ElementMarks' = ElementMarks
      /\ Shape' /\ Links' /\ ImageCount' /\ BadLinkCount' /\ QuoteStack'
      /\ Depth' = Depth /\ Depth \in Nat
      /\ \A d : IsPlain(d)' <=> IsPlain(d)
      /\ images = 0 <=> IsPlain(Depth)
      /\ Top(callouts', "done") = Top(callouts, "done")
  BY <1>2, ScopeLeaves
<1>4. Top(callouts, "done") # "delayed"
  <2>1. Top(callouts, "done") = "delayed" => Depth > 0
    BY <1>1, <1>3 DEF Delayed
  <2> QED
    BY <1>2, <2>1
<1>5. Delayed'
  BY <1>1, <1>2, <1>3, <1>4 DEF Delayed
<1>6. scopes \in Seq(Scopes) /\ inlines \in Seq(Inlines)
  BY <1>1 DEF Types
<1>7. Depth <= Depth
  BY <1>3
<1>8. CASE ~inline
  <2> DEFINE scope == [depth |-> Depth, tag |-> IF shows THEN "scope" ELSE None]
             n == <<Depth, "scope", Len(scopes) + 1, IF shows THEN "scope" ELSE None>>
  <2>1. /\ scope \in Scopes /\ scope.depth = Depth /\ (scope.tag # None <=> shows)
        /\ n = <<scope.depth, "scope", Len(scopes) + 1, scope.tag>>
    BY <1>3, NoneIsNoElement
  <2>2. /\ IF shows THEN Push("scope") ELSE Silent
        /\ scopes' = Append(scopes, scope) /\ inlines' = inlines
    BY <1>2, <1>8
  <2>3. n[1] = Depth /\ n[2] = "scope" /\ n[3] = Len(scopes) + 1 /\ (shows => n[4] = "scope")
    OBVIOUS
  <2> HIDE DEF scope, n, Scopes
  <2>4. ScopeMarks("scope", Append(scopes, scope))
          = IF shows /\ IsPlain(Depth) THEN ScopeMarks("scope", scopes) \cup {n}
            ELSE ScopeMarks("scope", scopes)
    BY <1>6, <2>1, ScopeBegun
  <2>5. Marks' = IF shows /\ IsPlain(Depth) THEN Marks \cup {n} ELSE Marks
    BY <1>2, <1>3, <2>2, <2>4 DEF Marks, ScopeMarks, ScopeMark, IsPlain
  <2>6. \A m \in Marks : Before(m, n)
    <3> SUFFICES ASSUME NEW m \in Marks PROVE Before(m, n)
      OBVIOUS
    <3>1. CASE \E d \in 1 .. Depth : m = ElementMark(d)
      BY <1>3, <2>3, <3>1 DEF Before, ElementMark
    <3>2. CASE \E i \in 1 .. Len(scopes) : m = ScopeMark("scope", scopes, i)
      BY <1>1, <1>3, <2>3, <3>2, Depths DEF Before, ScopeMark, ScopesWithin, Within
    <3>3. CASE \E i \in 1 .. Len(inlines) : m = ScopeMark("inline", inlines, i)
      BY <1>1, <1>3, <2>3, <3>3, Depths DEF Before, ScopeMark, ScopesWithin, Within
    <3> QED
      BY <3>1, <3>2, <3>3, MarkPlaces
  <2>7. crossed' = FALSE /\ tags' \in Seq(TagNames) /\ Matches(tags', Marks')
    <3>1. CASE ~shows
      BY <1>1, <2>2, <2>5, <3>1, SilentKeeps
    <3>2. CASE shows /\ images # 0
      <4>1. Silent
        BY <1>1, <2>2, <3>2 DEF Push, Opened, Silent, Types
      <4> QED
        BY <1>1, <1>3, <2>5, <3>2, <4>1, SilentKeeps
    <3>3. CASE shows /\ images = 0
      <4>1. n[4] \in TagNames /\ Push(n[4]) /\ Marks' = Marks \cup {n}
        BY <1>3, <2>2, <2>3, <2>5, <3>3 DEF TagNames
      <4> QED
        BY <1>1, <2>6, <3>3, <4>1, PushKeeps
    <3> QED
      BY <3>1, <3>2, <3>3
  <2>8. Append(scopes, scope) \in Seq(Scopes) /\ Within(Append(scopes, scope), Depth)
    BY <1>1, <1>6, <1>7, <2>1, LongerOf, WithinOf DEF ScopesWithin
  <2>9. ScopesWithin'
    BY <1>1, <1>3, <2>2, <2>8 DEF ScopesWithin, Within
  <2>10. Types'
    BY <1>1, <1>2, <2>2, <2>7, <2>8 DEF Types, Scopes
  <2> QED
    BY <1>3, <1>5, <2>7, <2>9, <2>10 DEF Good
<1>9. CASE inline
  <2> DEFINE scope == [depth |-> Depth, tag |-> IF shows THEN "span" ELSE None]
             n == <<Depth, "inline", Len(inlines) + 1, IF shows THEN "span" ELSE None>>
  <2>1. /\ scope \in Inlines /\ scope.depth = Depth /\ (scope.tag # None <=> shows)
        /\ n = <<scope.depth, "inline", Len(inlines) + 1, scope.tag>>
    BY <1>3, NoneIsNoElement
  <2>2. /\ IF shows THEN Push("span") ELSE Silent
        /\ inlines' = Append(inlines, scope) /\ scopes' = scopes
    BY <1>2, <1>9
  <2>3. n[1] = Depth /\ n[2] = "inline" /\ n[3] = Len(inlines) + 1 /\ (shows => n[4] = "span")
    OBVIOUS
  <2> HIDE DEF scope, n, Inlines
  <2>4. ScopeMarks("inline", Append(inlines, scope))
          = IF shows /\ IsPlain(Depth) THEN ScopeMarks("inline", inlines) \cup {n}
            ELSE ScopeMarks("inline", inlines)
    BY <1>6, <2>1, ScopeBegun
  <2>5. Marks' = IF shows /\ IsPlain(Depth) THEN Marks \cup {n} ELSE Marks
    BY <1>2, <1>3, <2>2, <2>4 DEF Marks, ScopeMarks, ScopeMark, IsPlain
  <2>6. \A m \in Marks : Before(m, n)
    <3> SUFFICES ASSUME NEW m \in Marks PROVE Before(m, n)
      OBVIOUS
    <3>1. CASE \E d \in 1 .. Depth : m = ElementMark(d)
      BY <1>3, <2>3, <3>1 DEF Before, ElementMark
    <3>2. CASE \E i \in 1 .. Len(scopes) : m = ScopeMark("scope", scopes, i)
      BY <1>1, <1>3, <2>3, <3>2, Depths DEF Before, ScopeMark, ScopesWithin, Within
    <3>3. CASE \E i \in 1 .. Len(inlines) : m = ScopeMark("inline", inlines, i)
      BY <1>1, <1>3, <2>3, <3>3, Depths DEF Before, ScopeMark, ScopesWithin, Within
    <3> QED
      BY <3>1, <3>2, <3>3, MarkPlaces
  <2>7. crossed' = FALSE /\ tags' \in Seq(TagNames) /\ Matches(tags', Marks')
    <3>1. CASE ~shows
      BY <1>1, <2>2, <2>5, <3>1, SilentKeeps
    <3>2. CASE shows /\ images # 0
      <4>1. Silent
        BY <1>1, <2>2, <3>2 DEF Push, Opened, Silent, Types
      <4> QED
        BY <1>1, <1>3, <2>5, <3>2, <4>1, SilentKeeps
    <3>3. CASE shows /\ images = 0
      <4>1. n[4] \in TagNames /\ Push(n[4]) /\ Marks' = Marks \cup {n}
        BY <1>3, <2>2, <2>3, <2>5, <3>3 DEF TagNames
      <4> QED
        BY <1>1, <2>6, <3>3, <4>1, PushKeeps
    <3> QED
      BY <3>1, <3>2, <3>3
  <2>8. Append(inlines, scope) \in Seq(Inlines) /\ Within(Append(inlines, scope), Depth)
    BY <1>1, <1>6, <1>7, <2>1, LongerOf, WithinOf DEF ScopesWithin
  <2>9. ScopesWithin'
    BY <1>1, <1>3, <2>2, <2>8 DEF ScopesWithin, Within
  <2>10. Types'
    BY <1>1, <1>2, <2>2, <2>7, <2>8 DEF Types, Inlines
  <2> QED
    BY <1>3, <1>5, <2>7, <2>9, <2>10 DEF Good
<1> QED
  BY <1>8, <1>9

\* Nothing is closed while the text of an image is collected.
LEMMA PopCollected ==
  ASSUME Types, crossed = FALSE, images # 0, NEW tag, Pop(tag) PROVE Silent
<1>1. images > 0
  BY DEF Types
<1>2. Closed(tags, tag) = tags
  BY <1>1 DEF Closed
<1>3. ~Crosses(tags, tag)
  BY DEF Crosses
<1> QED
  BY <1>2, <1>3 DEF Pop, Silent

LEMMA CloseScopeKeeps ==
  ASSUME Good, CloseScope, tidy' PROVE Good'
<1> DEFINE Scopes == [depth : Nat, tag : {"scope", None}]
           Inlines == [depth : Nat, tag : {"span", None}]
<1>1. /\ Types /\ crossed = FALSE /\ Matches(tags, Marks) /\ ScopesWithin /\ Delayed
  BY DEF Good
<1>2. PICK inline \in BOOLEAN :
        LET stack == IF inline THEN inlines ELSE scopes
            other == IF inline THEN scopes ELSE inlines
            scope == Last(stack)
        IN  /\ IF stack # << >> /\ scope.tag # None THEN Pop(scope.tag) ELSE Silent
            /\ inlines' = IF inline /\ stack # << >> THEN Front(inlines) ELSE inlines
            /\ scopes' = IF ~inline /\ stack # << >> THEN Front(scopes) ELSE scopes
            /\ tidy' = (tidy /\ stack # << >> /\ scope.depth = Depth
                             /\ \A s \in Range(other) : s.depth < Depth)
            /\ UNCHANGED <<elements, single, style, quotes, callouts, footnotes, images, badLinks>>
  BY DEF CloseScope
<1>3. /\ ElementMarks' = ElementMarks
      /\ Shape' /\ Links' /\ ImageCount' /\ BadLinkCount' /\ QuoteStack'
      /\ Depth' = Depth /\ Depth \in Nat
      /\ \A d : IsPlain(d)' <=> IsPlain(d)
      /\ images = 0 <=> IsPlain(Depth)
      /\ Top(callouts', "done") = Top(callouts, "done")
  BY <1>2, ScopeLeaves
<1>4. scopes \in Seq(Scopes) /\ inlines \in Seq(Inlines)
  BY <1>1 DEF Types
<1> HIDE DEF Scopes, Inlines
<1>5. CASE ~inline
  <2> DEFINE n == ScopeMark("scope", scopes, Len(scopes))
             scope == Last(scopes)
  <2>1. /\ scopes # << >> /\ scope.depth = Depth
        /\ \A i \in 1 .. Len(inlines) : inlines[i].depth < Depth
    <3>1. \A i \in 1 .. Len(inlines) : inlines[i] \in Range(inlines)
      BY <1>4 DEF Range
    <3>2. \A s \in Range(inlines) : s.depth < Depth
      BY <1>2, <1>5
    <3> QED
      BY <1>2, <1>5, <3>1, <3>2
  <2>2. /\ IF scope.tag # None THEN Pop(scope.tag) ELSE Silent
        /\ scopes' = Front(scopes) /\ inlines' = inlines
    BY <1>2, <1>5, <2>1
  <2>3. /\ ScopeMarks("scope", Front(scopes)) = ScopeMarks("scope", scopes) \ {n}
        /\ n \in ScopeMarks("scope", scopes) <=> scope.tag # None /\ IsPlain(Depth)
        /\ n[1] = Depth /\ n[2] = "scope" /\ n[3] = Len(scopes) /\ n[4] = scope.tag
    <3>1. scopes # << >>
      BY <2>1
    <3>2. LastMark("scope", scopes, n)
      BY <1>4, <3>1, ScopeEnded
    <3> HIDE DEF n
    <3> QED
      BY <2>1, <3>2 DEF LastMark
  <2> HIDE DEF n, scope
  <2>4. n \notin ElementMarks /\ n \notin ScopeMarks("inline", inlines)
    BY <2>3 DEF ElementMarks, ElementMark, ScopeMarks, ScopeMark
  <2>5. Marks' = Marks \ {n} /\ (n \in Marks <=> scope.tag # None /\ IsPlain(Depth))
    <3>1. /\ ScopeMarks("scope", scopes)' = ScopeMarks("scope", Front(scopes))
          /\ ScopeMarks("inline", inlines)' = ScopeMarks("inline", inlines)
      BY <1>2, <2>2 DEF ScopeMarks, ScopeMark, IsPlain
    <3> QED
      BY <1>3, <2>3, <2>4, <3>1 DEF Marks
  <2>6. \A m \in Marks : ~Before(n, m)
    <3> SUFFICES ASSUME NEW m \in Marks PROVE ~Before(n, m)
      OBVIOUS
    <3>1. CASE \E d \in 1 .. Depth : m = ElementMark(d)
      BY <1>3, <2>3, <3>1 DEF Before, ElementMark
    <3>2. CASE \E i \in 1 .. Len(scopes) : m = ScopeMark("scope", scopes, i)
      BY <1>1, <1>3, <2>3, <3>2, Depths DEF Before, ScopeMark, ScopesWithin, Within
    <3>3. CASE \E i \in 1 .. Len(inlines) : m = ScopeMark("inline", inlines, i)
      BY <1>1, <1>3, <2>1, <2>3, <3>3, Depths DEF Before, ScopeMark
    <3> QED
      BY <3>1, <3>2, <3>3, MarkPlaces
  <2>7. crossed' = FALSE /\ tags' \in Seq(TagNames) /\ Matches(tags', Marks')
    <3>1. CASE scope.tag = None
      <4>1. Silent /\ Marks' = Marks
        BY <2>2, <2>5, <3>1
      <4> QED
        BY <1>1, <4>1, SilentKeeps
    <3>2. CASE scope.tag # None /\ images # 0
      <4>1. Silent
        BY <1>1, <2>2, <3>2, PopCollected
      <4>2. Marks' = Marks
        BY <1>3, <2>5, <3>2
      <4> QED
        BY <1>1, <4>1, <4>2, SilentKeeps
    <3>3. CASE scope.tag # None /\ images = 0
      <4>1. n \in Marks /\ Pop(n[4])
        BY <1>3, <2>2, <2>3, <2>5, <3>3
      <4> QED
        BY <1>1, <2>5, <2>6, <3>3, <4>1, PopKeeps
    <3> QED
      BY <3>1, <3>2, <3>3
  <2>8. /\ Front(scopes) \in Seq(Scopes)
        /\ \A d : Within(scopes, d) => Within(Front(scopes), d)
    BY <1>4, <2>1, ShorterOf, WithinOf
  <2>9. ScopesWithin'
    BY <1>1, <1>3, <2>2, <2>8 DEF ScopesWithin, Within
  <2>10. Delayed'
    <3>1. \A d : Within(scopes, d) => Within(scopes', d)
      BY <2>2, <2>8
    <3>2. \A d : Within(inlines, d) => Within(inlines', d)
      BY <2>2
    <3>3. Top(callouts', "done") = "delayed" =>
            \E d \in 1 .. Depth : elements[d] = "paragraph"
               /\ Within(scopes', d - 1) /\ Within(inlines', d - 1)
      BY <1>1, <1>3, <3>1, <3>2 DEF Delayed
    <3> QED
      BY <1>1, <1>2, <1>3, <3>3 DEF Delayed, Within
  <2>11. Types'
    BY <1>1, <1>2, <2>2, <2>7, <2>8 DEF Types, Scopes
  <2> QED
    BY <1>3, <2>7, <2>9, <2>10, <2>11 DEF Good
<1>6. CASE inline
  <2> DEFINE n == ScopeMark("inline", inlines, Len(inlines))
             scope == Last(inlines)
  <2>1. /\ inlines # << >> /\ scope.depth = Depth
        /\ \A i \in 1 .. Len(scopes) : scopes[i].depth < Depth
    <3>1. \A i \in 1 .. Len(scopes) : scopes[i] \in Range(scopes)
      BY <1>4 DEF Range
    <3>2. \A s \in Range(scopes) : s.depth < Depth
      BY <1>2, <1>6
    <3> QED
      BY <1>2, <1>6, <3>1, <3>2
  <2>2. /\ IF scope.tag # None THEN Pop(scope.tag) ELSE Silent
        /\ inlines' = Front(inlines) /\ scopes' = scopes
    BY <1>2, <1>6, <2>1
  <2>3. /\ ScopeMarks("inline", Front(inlines)) = ScopeMarks("inline", inlines) \ {n}
        /\ n \in ScopeMarks("inline", inlines) <=> scope.tag # None /\ IsPlain(Depth)
        /\ n[1] = Depth /\ n[2] = "inline" /\ n[3] = Len(inlines) /\ n[4] = scope.tag
    <3>1. inlines # << >>
      BY <2>1
    <3>2. LastMark("inline", inlines, n)
      BY <1>4, <3>1, ScopeEnded
    <3> HIDE DEF n
    <3> QED
      BY <2>1, <3>2 DEF LastMark
  <2> HIDE DEF n, scope
  <2>4. n \notin ElementMarks /\ n \notin ScopeMarks("scope", scopes)
    BY <2>3 DEF ElementMarks, ElementMark, ScopeMarks, ScopeMark
  <2>5. Marks' = Marks \ {n} /\ (n \in Marks <=> scope.tag # None /\ IsPlain(Depth))
    <3>1. /\ ScopeMarks("inline", inlines)' = ScopeMarks("inline", Front(inlines))
          /\ ScopeMarks("scope", scopes)' = ScopeMarks("scope", scopes)
      BY <1>2, <2>2 DEF ScopeMarks, ScopeMark, IsPlain
    <3> QED
      BY <1>3, <2>3, <2>4, <3>1 DEF Marks
  <2>6. \A m \in Marks : ~Before(n, m)
    <3> SUFFICES ASSUME NEW m \in Marks PROVE ~Before(n, m)
      OBVIOUS
    <3>1. CASE \E d \in 1 .. Depth : m = ElementMark(d)
      BY <1>3, <2>3, <3>1 DEF Before, ElementMark
    <3>2. CASE \E i \in 1 .. Len(inlines) : m = ScopeMark("inline", inlines, i)
      BY <1>1, <1>3, <2>3, <3>2, Depths DEF Before, ScopeMark, ScopesWithin, Within
    <3>3. CASE \E i \in 1 .. Len(scopes) : m = ScopeMark("scope", scopes, i)
      BY <1>1, <1>3, <2>1, <2>3, <3>3, Depths DEF Before, ScopeMark
    <3> QED
      BY <3>1, <3>2, <3>3, MarkPlaces
  <2>7. crossed' = FALSE /\ tags' \in Seq(TagNames) /\ Matches(tags', Marks')
    <3>1. CASE scope.tag = None
      <4>1. Silent /\ Marks' = Marks
        BY <2>2, <2>5, <3>1
      <4> QED
        BY <1>1, <4>1, SilentKeeps
    <3>2. CASE scope.tag # None /\ images # 0
      <4>1. Silent
        BY <1>1, <2>2, <3>2, PopCollected
      <4>2. Marks' = Marks
        BY <1>3, <2>5, <3>2
      <4> QED
        BY <1>1, <4>1, <4>2, SilentKeeps
    <3>3. CASE scope.tag # None /\ images = 0
      <4>1. n \in Marks /\ Pop(n[4])
        BY <1>3, <2>2, <2>3, <2>5, <3>3
      <4> QED
        BY <1>1, <2>5, <2>6, <3>3, <4>1, PopKeeps
    <3> QED
      BY <3>1, <3>2, <3>3
  <2>8. /\ Front(inlines) \in Seq(Inlines)
        /\ \A d : Within(inlines, d) => Within(Front(inlines), d)
    BY <1>4, <2>1, ShorterOf, WithinOf
  <2>9. ScopesWithin'
    BY <1>1, <1>3, <2>2, <2>8 DEF ScopesWithin, Within
  <2>10. Delayed'
    <3>1. \A d : Within(inlines, d) => Within(inlines', d)
      BY <2>2, <2>8
    <3>2. \A d : Within(scopes, d) => Within(scopes', d)
      BY <2>2
    <3>3. Top(callouts', "done") = "delayed" =>
            \E d \in 1 .. Depth : elements[d] = "paragraph"
               /\ Within(scopes', d - 1) /\ Within(inlines', d - 1)
      BY <1>1, <1>3, <3>1, <3>2 DEF Delayed
    <3> QED
      BY <1>1, <1>2, <1>3, <3>3 DEF Delayed, Within
  <2>11. Types'
    BY <1>1, <1>2, <2>2, <2>7, <2>8 DEF Types, Inlines
  <2> QED
    BY <1>3, <2>7, <2>9, <2>10, <2>11 DEF Good
<1> QED
  BY <1>5, <1>6

-----------------------------------------------------------------------------
(* An element begins *)

LEMMA InImage ==
  ASSUME Shape, Depth \in Nat, ~IsPlain(Depth)
  PROVE  Depth # 0 /\ elements[Depth] \in Inline
<1>1. PICK j \in 1 .. Depth : elements[j] = "image"
  BY DEF IsPlain
<1>2. Depth \in 1 .. Depth /\ (j = Depth \/ j < Depth)
  OBVIOUS
<1>3. elements[j] \in Inline
  BY <1>1 DEF Inline
<1> QED
  BY <1>2, <1>3 DEF Shape

LEMMA StartInImageKeeps ==
  ASSUME Good, NEW kind \in Kinds, MayHold(kind), elements' = Append(elements, kind), images > 0,
         NEW near, StartInImage(kind, near), UNCHANGED <<scopes, inlines>>
  PROVE  Good'
<1>1. /\ Types /\ crossed = FALSE /\ Matches(tags, Marks) /\ ScopesWithin /\ Delayed
      /\ Shape /\ Links /\ ImageCount /\ BadLinkCount /\ QuoteStack
  BY DEF Good
<1>2. Depth \in Nat /\ ~IsPlain(Depth)
  BY <1>1, ImagesOf
<1>3. kind \in Inline
  BY <1>1, <1>2, InImage, Holding, NoneIsNoElement DEF Types
<1>4. /\ Silent /\ images' = IF kind = "image" THEN images + 1 ELSE images
      /\ UNCHANGED <<quotes, callouts, footnotes, badLinks>>
  BY DEF StartInImage
<1>5. ParagraphShown' <=> ParagraphShown
  BY <1>4 DEF ParagraphShown, Top
<1>6. Marks' = Marks /\ ScopesWithin'
  BY <1>1, <1>2, <1>5, BegunMarks
<1>7. crossed' = FALSE /\ tags' \in Seq(TagNames) /\ Matches(tags', Marks')
  BY <1>1, <1>4, <1>6, SilentKeeps
<1>8. Shape' /\ Links' /\ elements' \in Seq(Kinds)
  BY <1>1, BegunShape, Begun, NoneIsNoElement DEF Types
<1>9. ImageCount' /\ images' \in Nat
  BY <1>1, <1>4, BegunImages
<1>10. BadLinkCount' /\ badLinks' \in Nat
  BY <1>1, <1>2, <1>4, BegunBadLinks, NoneIsNoElement
<1>11. QuoteStack' /\ quotes' \in Seq(Kinds)
  <2>1. kind \notin {"quote", "callout"}
    BY <1>3 DEF Inline
  <2> QED
    BY <1>1, <1>4, <2>1, BegunQuotes
<1>12. Delayed'
  <2>1. Top(callouts, "done") # "delayed"
    BY <1>1, <1>2 DEF Delayed
  <2> QED
    BY <1>1, <1>4, <2>1 DEF Delayed, Top
<1>13. Types'
  BY <1>1, <1>4, <1>7, <1>8, <1>9, <1>10, <1>11 DEF Types
<1> QED
  BY <1>6, <1>7, <1>8, <1>9, <1>10, <1>11, <1>12, <1>13 DEF Good

LEMMA StartInlineKeeps ==
  ASSUME Good, NEW kind \in Kinds, MayHold(kind), elements' = Append(elements, kind), images = 0,
         kind \in Inline, NEW near, StartInline(kind, near),
         ~(kind = "image" /\ OpensInside),
         UNCHANGED <<scopes, inlines, quotes, footnotes>>
  PROVE  Good'
<1>1. /\ Types /\ crossed = FALSE /\ Matches(tags, Marks) /\ ScopesWithin /\ Delayed
      /\ Shape /\ Links /\ ImageCount /\ BadLinkCount /\ QuoteStack
  BY DEF Good
<1>2. Depth \in Nat /\ IsPlain(Depth)
  BY <1>1, ImagesOf
<1>3. /\ images' = IF kind = "image" THEN images + 1 ELSE images
      /\ badLinks' = IF kind = "badlink" THEN badLinks + 1 ELSE badLinks
      /\ kind = "image" => OpenDelayed
      /\ kind = "badlink" => Silent
      /\ kind \notin {"image", "badlink"} => Push(kind)
      /\ kind # "image" => UNCHANGED callouts
  BY DEF StartInline
<1>4. Shape' /\ Links' /\ elements' \in Seq(Kinds)
  BY <1>1, BegunShape, Begun, NoneIsNoElement DEF Types
<1>5. ImageCount' /\ images' \in Nat
  BY <1>1, <1>3, BegunImages
<1>6. BadLinkCount' /\ badLinks' \in Nat
  BY <1>1, <1>2, <1>3, BegunBadLinks, NoneIsNoElement
<1>7. QuoteStack' /\ quotes' \in Seq(Kinds)
  <2>1. kind \notin {"quote", "callout"}
    BY DEF Inline
  <2> QED
    BY <1>1, <2>1, BegunQuotes
<1>8. /\ crossed' = FALSE /\ tags' \in Seq(TagNames) /\ Matches(tags', Marks')
      /\ callouts' \in Seq({"pending", "delayed", "open", "done"})
      /\ ScopesWithin' /\ Delayed'
  <2>1. CASE kind = "image"
    BY <1>3, <2>1, OpenDelayedKeeps
  <2>2. CASE kind # "image"
    <3>1. ParagraphShown' <=> ParagraphShown
      BY <1>3, <2>2 DEF ParagraphShown, Top
    <3>2. kind \notin {"diagram", "paragraph"}
      BY DEF Inline
    <3>3. /\ \A m \in Marks : Before(m, NewMark(kind))
          /\ Marks' = IF kind # "badlink" THEN Marks \cup {NewMark(kind)} ELSE Marks
          /\ ScopesWithin'
      BY <1>1, <1>2, <2>2, <3>1, <3>2, BegunMarks
    <3>4. crossed' = FALSE /\ tags' \in Seq(TagNames) /\ Matches(tags', Marks')
      <4>1. CASE kind = "badlink"
        BY <1>1, <1>3, <3>3, <4>1, SilentKeeps
      <4>2. CASE kind # "badlink"
        <5>1. NewMark(kind)[4] = kind /\ kind \in TagNames
          BY DEF NewMark, TagNames
        <5> QED
          BY <1>1, <1>3, <2>2, <3>3, <4>2, <5>1, PushKeeps
      <4> QED
        BY <4>1, <4>2
    <3>5. Delayed'
      <4>1. callouts' = callouts /\ footnotes' = footnotes
        BY <1>3, <2>2
      <4>2. ASSUME Top(callouts, "done") = "delayed"
            PROVE  /\ footnotes = << >> /\ IsPlain(Depth)'
                   /\ \E d \in 1 .. Depth' : elements'[d] = "paragraph"
                        /\ Within(scopes, d - 1) /\ Within(inlines, d - 1)
        <5>1. /\ Depth' = Depth + 1
              /\ \A d \in 1 .. Depth : elements'[d] = elements[d] /\ d \in 1 .. Depth + 1
              /\ \A d \in Nat : d = Depth + 1 => (IsPlain(d)' <=> IsPlain(Depth) /\ kind # "image")
          BY <1>1, Begun DEF Types
        <5>2. Depth' \in Nat
          BY <1>2, <5>1
        <5>3. \A d \in Nat : d = Depth + 1 => IsPlain(d)'
          BY <1>2, <2>2, <5>1
        <5>4. IsPlain(Depth)'
          BY <5>1, <5>2, <5>3
        <5> QED
          BY <1>1, <4>2, <5>1, <5>4 DEF Delayed
      <4> QED
        BY <1>1, <4>1, <4>2 DEF Delayed, Top, Within
    <3> QED
      BY <1>1, <1>3, <2>2, <3>3, <3>4, <3>5 DEF Types
  <2> QED
    BY <2>1, <2>2
<1>9. Types'
  BY <1>1, <1>4, <1>5, <1>6, <1>7, <1>8 DEF Types
<1> QED
  BY <1>4, <1>5, <1>6, <1>7, <1>8, <1>9 DEF Good

LEMMA LeastOfTwo ==
  ASSUME NEW a \in Nat PROVE Min({a + 1, 2}) = IF a = 0 THEN 1 ELSE 2
<1> DEFINE least == IF a = 0 THEN 1 ELSE 2
<1>1. least \in {a + 1, 2} /\ \A y \in {a + 1, 2} : least <= y
  OBVIOUS
<1>2. \A x \in {a + 1, 2} : (\A y \in {a + 1, 2} : x <= y) => x = least
  BY <1>1
<1> HIDE DEF least
<1>3. Min({a + 1, 2}) = least
  BY <1>1, <1>2 DEF Min
<1> QED
  BY <1>3 DEF least

\* Where a block begins no paragraph is open.
LEMMA BlockPlace ==
  ASSUME Good, NEW kind \in Kinds, MayHold(kind), kind \notin Inline
  PROVE  /\ Depth \in Nat /\ IsPlain(Depth)
         /\ \A d \in 1 .. Depth : elements[d] # "paragraph"
         /\ Top(callouts, "done") # "delayed"
<1>1. Types /\ Shape /\ Delayed
  BY DEF Good
<1>2. Depth \in Nat
  BY <1>1 DEF Types, Depth
<1>3. Depth # 0 => elements[Depth] \notin Inline \cup {"paragraph", "title"}
  BY <1>1, Holding, NoneIsNoElement DEF Types
<1>4. /\ \A d \in 1 .. Depth : elements[d] \notin Inline \cup {"paragraph", "title"}
      /\ IsPlain(Depth)
  BY <1>1, <1>2, <1>3, BlocksAround
<1> QED
  BY <1>1, <1>2, <1>4 DEF Delayed

\* What begins with the paragraph: its tag is written exactly if it is shown.
LEMMA StartParagraphKeeps ==
  ASSUME Good, "paragraph" \in Kinds, MayHold("paragraph"), images = 0,
         elements' = Append(elements, "paragraph"), StartParagraph,
         UNCHANGED <<scopes, inlines>>
  PROVE  /\ crossed' = FALSE /\ tags' \in Seq(TagNames) /\ Matches(tags', Marks')
         /\ callouts' \in Seq({"pending", "delayed", "open", "done"})
         /\ footnotes' \in Seq(Nat) /\ ScopesWithin' /\ Delayed'
<1> DEFINE kind == "paragraph"
           C == {"pending", "delayed", "open", "done"}
<1>1. /\ Types /\ crossed = FALSE /\ Matches(tags, Marks) /\ ScopesWithin /\ Delayed /\ Shape
  BY DEF Good
<1>2. /\ Depth \in Nat /\ IsPlain(Depth)
      /\ \A d \in 1 .. Depth : elements[d] # "paragraph"
      /\ Top(callouts, "done") # "delayed"
  BY BlockPlace DEF Inline
<1>3. /\ \A m \in Marks : Before(m, NewMark(kind))
      /\ Marks' = IF ParagraphShown' THEN Marks \cup {NewMark(kind)} ELSE Marks
      /\ ScopesWithin'
  BY <1>1, <1>2, BegunMarks
<1>4. NewMark(kind)[4] = kind /\ kind \in TagNames
  BY DEF NewMark, TagNames
<1>5. ASSUME IF ParagraphShown' THEN Push(kind) ELSE Silent
      PROVE  crossed' = FALSE /\ tags' \in Seq(TagNames) /\ Matches(tags', Marks')
  <2>1. CASE ParagraphShown'
    BY <1>1, <1>3, <1>4, <1>5, <2>1, PushKeeps
  <2>2. CASE ~ParagraphShown'
    BY <1>1, <1>3, <1>5, <2>2, SilentKeeps
  <2> QED
    BY <2>1, <2>2
<1>6. callouts \in Seq(C) /\ "delayed" \in C /\ footnotes \in Seq(Nat)
  BY <1>1 DEF Types
<1> HIDE DEF C
<1>7. CASE footnotes # << >>
  <2>1. /\ footnotes' = [footnotes EXCEPT ![Len(footnotes)] = Min({@ + 1, 2})]
        /\ IF Last(footnotes) = 0 THEN Silent ELSE Push("paragraph")
        /\ callouts' = callouts
    BY <1>7 DEF StartParagraph
  <2>2. Last(footnotes) = footnotes[Len(footnotes)] /\ Last(footnotes) \in Nat
    BY <1>6, <1>7, ShorterOf DEF Last
  <2>3. PICK count \in Nat : count = IF Last(footnotes) = 0 THEN 1 ELSE 2
    OBVIOUS
  <2>4. Min({Last(footnotes) + 1, 2}) = count
    BY <2>2, <2>3, LeastOfTwo
  <2>5. footnotes' = [footnotes EXCEPT ![Len(footnotes)] = count]
    BY <2>1, <2>2, <2>4
  <2>6. footnotes' \in Seq(Nat) /\ footnotes' # << >> /\ Last(footnotes') = count
    <3>1. footnotes' \in Seq(Nat) /\ ChangedAt(footnotes, footnotes', count)
      BY <1>6, <1>7, <2>5, LastChanged
    <3> QED
      BY <3>1 DEF ChangedAt
  <2>7. Top(callouts', "done") # "delayed"
    BY <1>2, <2>1
  <2>8. ParagraphShown' <=> Last(footnotes) # 0
    BY <2>2, <2>3, <2>6, <2>7 DEF ParagraphShown
  <2>9. Delayed'
    BY <1>1, <2>1, <2>7 DEF Delayed
  <2> QED
    BY <1>3, <1>5, <1>6, <2>1, <2>6, <2>8, <2>9 DEF C
<1>8. CASE footnotes = << >> /\ Top(callouts, "done") = "pending"
  <2>1. /\ callouts' = [callouts EXCEPT ![Len(callouts)] = "delayed"]
        /\ Silent /\ footnotes' = footnotes /\ callouts # << >>
    BY <1>8 DEF StartParagraph, Top
  <2>2. callouts' \in Seq(C) /\ ChangedAt(callouts, callouts', "delayed")
    BY <1>6, <2>1, LastChanged
  <2>3. ~ParagraphShown'
    BY <2>2 DEF ParagraphShown, ChangedAt
  <2>4. Delayed'
    <3>1. /\ Depth' = Depth + 1 /\ elements'[Depth + 1] = kind
          /\ \A d \in Nat : d = Depth + 1 => (IsPlain(d)' <=> IsPlain(Depth) /\ kind # "image")
      BY <1>1, Begun DEF Types
    <3>2. Depth' \in Nat /\ Depth' - 1 = Depth /\ Depth' \in 1 .. Depth'
      BY <1>2, <3>1
    <3>3. \A d \in Nat : d = Depth + 1 => IsPlain(d)'
      BY <1>2, <3>1
    <3>4. IsPlain(Depth)'
      BY <3>1, <3>2, <3>3
    <3>5. Within(scopes, Depth) /\ Within(inlines, Depth)
      BY <1>1 DEF ScopesWithin
    <3>6. \E d \in 1 .. Depth' : elements'[d] = "paragraph"
            /\ Within(scopes, d - 1) /\ Within(inlines, d - 1)
      BY <3>1, <3>2, <3>5
    <3>7. \A i \in 1 .. Len(callouts') - 1 : callouts'[i] # "delayed"
      BY <1>1, <2>2 DEF Delayed, ChangedAt
    <3> QED
      BY <1>8, <2>1, <3>4, <3>6, <3>7 DEF Delayed, Within
  <2> QED
    BY <1>3, <1>5, <1>6, <2>1, <2>2, <2>3, <2>4 DEF C
<1>9. CASE footnotes = << >> /\ Top(callouts, "done") # "pending"
  <2>1. Push(kind) /\ UNCHANGED <<callouts, footnotes>>
    BY <1>9 DEF StartParagraph
  <2>2. ParagraphShown'
    BY <1>2, <1>9, <2>1 DEF ParagraphShown
  <2>3. Delayed'
    BY <1>1, <1>2, <2>1 DEF Delayed
  <2> QED
    BY <1>3, <1>5, <1>6, <2>1, <2>2, <2>3 DEF C
<1> QED
  BY <1>7, <1>8, <1>9

\* The same for the other blocks.
LEMMA StartOtherKeeps ==
  ASSUME Good, NEW kind \in Kinds, MayHold(kind), images = 0, kind \notin Inline, kind # "paragraph",
         elements' = Append(elements, kind), UNCHANGED <<scopes, inlines>>,
         IF kind = "diagram" THEN Silent ELSE Push(kind),
         callouts' = IF kind = "callout" THEN Append(callouts, "pending") ELSE callouts,
         footnotes' = IF kind = "footnote" THEN Append(footnotes, 0) ELSE footnotes
  PROVE  /\ crossed' = FALSE /\ tags' \in Seq(TagNames) /\ Matches(tags', Marks')
         /\ callouts' \in Seq({"pending", "delayed", "open", "done"})
         /\ footnotes' \in Seq(Nat) /\ ScopesWithin' /\ Delayed'
<1> DEFINE C == {"pending", "delayed", "open", "done"}
<1>1. /\ Types /\ crossed = FALSE /\ Matches(tags, Marks) /\ ScopesWithin /\ Delayed
  BY DEF Good
<1>2. /\ Depth \in Nat /\ IsPlain(Depth)
      /\ \A d \in 1 .. Depth : elements[d] # "paragraph"
      /\ Top(callouts, "done") # "delayed"
  BY BlockPlace
<1>3. /\ \A m \in Marks : Before(m, NewMark(kind))
      /\ Marks' = IF kind # "diagram" THEN Marks \cup {NewMark(kind)} ELSE Marks
      /\ ScopesWithin'
  <2>1. kind \notin {"image", "badlink"}
    BY DEF Inline
  <2> QED
    BY <1>1, <1>2, <2>1, BegunMarks
<1>4. NewMark(kind)[4] = kind /\ kind \in TagNames
  BY DEF NewMark, TagNames
<1>5. crossed' = FALSE /\ tags' \in Seq(TagNames) /\ Matches(tags', Marks')
  <2>1. CASE kind = "diagram"
    BY <1>1, <1>3, <2>1, SilentKeeps
  <2>2. CASE kind # "diagram"
    BY <1>1, <1>3, <1>4, <2>2, PushKeeps
  <2> QED
    BY <2>1, <2>2
<1>6. callouts \in Seq(C) /\ "pending" \in C /\ footnotes \in Seq(Nat)
  BY <1>1 DEF Types
<1>7. footnotes' \in Seq(Nat)
  BY <1>6, LongerOf
<1> HIDE DEF C
<1>8. CASE kind = "callout"
  <2>1. /\ callouts' \in Seq(C) /\ callouts' # << >> /\ Len(callouts) \in Nat
        /\ Len(callouts') = Len(callouts) + 1
        /\ \A i \in 1 .. Len(callouts) : callouts'[i] = callouts[i]
        /\ callouts'[Len(callouts) + 1] = "pending"
    BY <1>6, <1>8, LongerOf DEF Longer
  <2>2. Top(callouts', "done") = "pending"
    BY <2>1 DEF Top, Last
  <2>3. \A i \in 1 .. Len(callouts) : callouts[i] # "delayed"
    <3> SUFFICES ASSUME NEW i \in 1 .. Len(callouts) PROVE callouts[i] # "delayed"
      OBVIOUS
    <3>1. callouts # << >>
      BY <2>1
    <3>2. Top(callouts, "done") = callouts[Len(callouts)]
      BY <1>6, <3>1, TopOf
    <3>3. i = Len(callouts) \/ i \in 1 .. Len(callouts) - 1
      BY <2>1
    <3> QED
      BY <1>1, <1>2, <3>2, <3>3 DEF Delayed
  <2>4. Len(callouts') - 1 = Len(callouts)
    BY <2>1
  <2>5. Delayed'
    BY <2>1, <2>2, <2>3, <2>4 DEF Delayed
  <2> QED
    BY <1>3, <1>5, <1>7, <2>1, <2>5 DEF C
<1>9. CASE kind # "callout"
  <2>1. callouts' = callouts
    BY <1>9
  <2>2. Top(callouts', "done") # "delayed"
    BY <1>2, <2>1
  <2>3. Delayed'
    BY <1>1, <2>1, <2>2 DEF Delayed
  <2> QED
    BY <1>3, <1>5, <1>6, <1>7, <2>1, <2>3 DEF C
<1> QED
  BY <1>8, <1>9

LEMMA StartBlockKeeps ==
  ASSUME Good, NEW kind \in Kinds, MayHold(kind), elements' = Append(elements, kind), images = 0,
         kind \notin Inline, NEW near, StartBlock(kind, near),
         UNCHANGED <<scopes, inlines>>
  PROVE  Good'
<1>1. Types /\ Shape /\ Links /\ ImageCount /\ BadLinkCount /\ QuoteStack
  BY DEF Good
<1>2. /\ UNCHANGED <<images, badLinks>>
      /\ quotes' = IF kind \in {"quote", "callout"} THEN Append(quotes, kind) ELSE quotes
  BY DEF StartBlock, StartQuote
<1>3. kind \notin {"image", "badlink"}
  BY DEF Inline
<1>4. Shape' /\ Links' /\ elements' \in Seq(Kinds)
  BY <1>1, BegunShape, Begun, NoneIsNoElement DEF Types
<1>5. ImageCount' /\ images' \in Nat
  BY <1>1, <1>2, <1>3, BegunImages
<1>6. BadLinkCount' /\ badLinks' \in Nat
  BY <1>1, <1>2, <1>3, BegunBadLinks, NoneIsNoElement
<1>7. QuoteStack' /\ quotes' \in Seq(Kinds)
  BY <1>1, <1>2, BegunQuotes
<1>8. /\ crossed' = FALSE /\ tags' \in Seq(TagNames) /\ Matches(tags', Marks')
      /\ callouts' \in Seq({"pending", "delayed", "open", "done"})
      /\ footnotes' \in Seq(Nat) /\ ScopesWithin' /\ Delayed'
  <2>1. CASE kind = "paragraph"
    <3>1. StartParagraph
      BY <2>1 DEF StartBlock
    <3> QED
      BY <2>1, <3>1, StartParagraphKeeps
  <2>2. CASE kind # "paragraph"
    <3>1. IF kind = "diagram" THEN Silent ELSE Push(kind)
      BY <2>2 DEF StartBlock, StartQuote
    <3>2. callouts' = IF kind = "callout" THEN Append(callouts, "pending") ELSE callouts
      BY <2>2 DEF StartBlock, StartQuote
    <3>3. footnotes' = IF kind = "footnote" THEN Append(footnotes, 0) ELSE footnotes
      BY <2>2 DEF StartBlock, StartQuote
    <3> QED
      BY <2>2, <3>1, <3>2, <3>3, StartOtherKeeps
  <2> QED
    BY <2>1, <2>2
<1>9. Types'
  BY <1>1, <1>4, <1>5, <1>6, <1>7, <1>8 DEF Types
<1> QED
  BY <1>4, <1>5, <1>6, <1>7, <1>8, <1>9 DEF Good

LEMMA StartKeeps ==
  ASSUME Good, Start, tidy' PROVE Good'
<1>1. PICK kind \in Kinds, near \in BOOLEAN :
        /\ MayHold(kind)
        /\ elements' = Append(elements, kind)
        /\ IF images > 0 THEN StartInImage(kind, near)
           ELSE IF kind \in Inline
             THEN StartInline(kind, near) /\ UNCHANGED <<single, style, quotes, footnotes>>
             ELSE StartBlock(kind, near)
        /\ tidy' = (tidy /\ ~(kind = "image" /\ images = 0 /\ OpensInside))
        /\ UNCHANGED <<scopes, inlines>>
  BY DEF Start
<1>2. images \in Nat
  BY DEF Good, Types
<1>3. CASE images > 0
  BY <1>1, <1>3, StartInImageKeeps
<1>4. CASE images = 0 /\ kind \in Inline
  <2>1. ~(images > 0)
    BY <1>4
  <2>2. StartInline(kind, near) /\ UNCHANGED <<quotes, footnotes>>
    BY <1>1, <1>4, <2>1
  <2>3. ~(kind = "image" /\ OpensInside)
    BY <1>1, <1>4
  <2> QED
    BY <1>1, <1>4, <2>2, <2>3, StartInlineKeeps
<1>5. CASE images = 0 /\ kind \notin Inline
  BY <1>1, <1>5, StartBlockKeeps
<1> QED
  BY <1>2, <1>3, <1>4, <1>5

-----------------------------------------------------------------------------
(* An element ends *)

LEMMA FrontOf ==
  ASSUME NEW S, NEW s \in Seq(S)
  PROVE  Front(s) \in Seq(S) /\ \A i \in 1 .. Len(Front(s)) : i \in 1 .. Len(s) - 1 /\ Front(s)[i] = s[i]
<1>1. CASE s = << >>
  <2>1. Front(s) = << >>
    BY <1>1, SubSeqProperties DEF Front
  <2> QED
    BY <2>1
<1>2. CASE s # << >>
  BY <1>2, ShorterOf DEF Shorter
<1> QED
  BY <1>1, <1>2

\* The counts and the stack of quotes, when an element ends.
LEMMA EndedCounts ==
  ASSUME Good, elements # << >>, elements' = Front(elements),
         images' = IF elements[Depth] = "image" THEN images - 1 ELSE images,
         badLinks' = IF elements[Depth] = "badlink" /\ IsPlain(Depth) THEN badLinks - 1 ELSE badLinks,
         quotes' = IF elements[Depth] \in {"quote", "callout"} THEN Front(quotes) ELSE quotes
  PROVE  /\ Shape' /\ Links' /\ ImageCount' /\ BadLinkCount' /\ QuoteStack'
         /\ elements' \in Seq(Kinds) /\ images' \in Nat /\ badLinks' \in Nat /\ quotes' \in Seq(Kinds)
<1>1. Types /\ Shape /\ Links /\ ImageCount /\ BadLinkCount /\ QuoteStack
  BY DEF Good
<1>2. Shape' /\ Links' /\ elements' \in Seq(Kinds)
  BY <1>1, EndedShape, Ended DEF Types
<1>3. ImageCount' /\ images' \in Nat
  BY <1>1, EndedImages
<1>4. BadLinkCount' /\ badLinks' \in Nat
  BY <1>1, EndedBadLinks
<1>5. QuoteStack' /\ quotes' \in Seq(Kinds)
  BY <1>1, EndedQuotes
<1> QED
  BY <1>2, <1>3, <1>4, <1>5

\* What is inline ends inside the paragraph it is in.
LEMMA EndedInside ==
  ASSUME Good, elements # << >>, elements' = Front(elements), elements[Depth] \in Inline,
         UNCHANGED <<callouts, footnotes, scopes, inlines>>
  PROVE  Delayed'
<1>1. Types /\ Delayed
  BY DEF Good
<1>2. /\ Depth \in Nat \ {0} /\ Depth' = Depth - 1
      /\ \A d \in 1 .. Depth - 1 : elements'[d] = elements[d] /\ d \in 1 .. Depth
      /\ \A d \in Nat : d < Depth => (IsPlain(d)' <=> IsPlain(d))
  BY <1>1, Ended DEF Types
<1>3. ASSUME Top(callouts, "done") = "delayed"
      PROVE  /\ IsPlain(Depth)'
             /\ \E d \in 1 .. Depth' : elements'[d] = "paragraph"
                  /\ Within(scopes, d - 1) /\ Within(inlines, d - 1)
  <2>1. PICK d \in 1 .. Depth : elements[d] = "paragraph"
                                   /\ Within(scopes, d - 1) /\ Within(inlines, d - 1)
    BY <1>1, <1>3 DEF Delayed
  <2>2. d # Depth
    BY <2>1 DEF Inline
  <2>3. d \in 1 .. Depth' /\ elements'[d] = "paragraph"
    BY <1>2, <2>1, <2>2
  <2>4. IsPlain(Depth) /\ Depth' \in Nat /\ Depth' < Depth
    BY <1>1, <1>2, <1>3 DEF Delayed
  <2>5. PICK e \in Nat : e = Depth'
    BY <2>4
  <2>6. IsPlain(e)'
    <3>1. IsPlain(e)
      BY <1>2, <2>4, <2>5 DEF IsPlain
    <3> QED
      BY <1>2, <2>4, <2>5, <3>1
  <2>7. IsPlain(Depth)'
    BY <2>5, <2>6 DEF IsPlain
  <2> QED
    BY <2>1, <2>3, <2>7
<1> QED
  BY <1>1, <1>3 DEF Delayed, Top, Within

\* The parts of an invariant that an end has in common.
LEMMA EndedMark ==
  ASSUME Good, ~LeavesScope, elements # << >>, elements' = Front(elements),
         UNCHANGED <<scopes, inlines>>,
         elements[Depth] \in Inline => UNCHANGED <<callouts, footnotes>>,
         IF Shown(Depth) THEN Pop(elements[Depth]) ELSE Silent
  PROVE  /\ crossed' = FALSE /\ tags' \in Seq(TagNames) /\ Matches(tags', Marks')
         /\ ScopesWithin'
<1>1. /\ Types /\ crossed = FALSE /\ Matches(tags, Marks) /\ ScopesWithin
      /\ Shape /\ ImageCount
  BY DEF Good
<1>2. elements[Depth] \in Inline => (ParagraphShown' <=> ParagraphShown)
  BY DEF ParagraphShown, Top
<1>3. /\ \A m \in Marks : ~Before(ElementMark(Depth), m)
      /\ ElementMark(Depth) \in Marks <=> Shown(Depth)
      /\ Marks' = Marks \ {ElementMark(Depth)}
      /\ ScopesWithin'
  BY <1>1, <1>2, EndedMarks
<1>4. CASE Shown(Depth)
  <2>1. images = 0
    BY <1>1, <1>4, ImagesOf DEF Shown
  <2>2. ElementMark(Depth)[4] = elements[Depth]
    BY DEF ElementMark
  <2> QED
    BY <1>1, <1>3, <1>4, <2>1, <2>2, PopKeeps
<1>5. CASE ~Shown(Depth)
  BY <1>1, <1>3, <1>5, SilentKeeps
<1> QED
  BY <1>4, <1>5

LEMMA EndInlineKeeps ==
  ASSUME Good, ~LeavesScope, elements # << >>, elements' = Front(elements), images = 0,
         elements[Depth] \in Inline, EndInline(elements[Depth]),
         UNCHANGED <<scopes, inlines, quotes, callouts, footnotes>>
  PROVE  Good'
<1>1. Types /\ Links /\ ImageCount /\ BadLinkCount
  BY DEF Good
<1>2. Depth \in Nat \ {0} /\ IsPlain(Depth) /\ Depth \in 1 .. Depth
  <2>1. Depth \in Nat \ {0}
    BY <1>1, Ended DEF Types
  <2> QED
    BY <1>1, <2>1, ImagesOf
<1>3. elements[Depth] # "image"
  BY <1>2 DEF IsPlain
<1>4. elements[Depth] \in {"link", "badlink"} =>
        (badLinks > 0 <=> elements[Depth] = "badlink")
  <2>1. CASE elements[Depth] = "badlink"
    <3>1. HasBadLink
      BY <1>2, <2>1 DEF HasBadLink
    <3> QED
      BY <1>1, <2>1, <3>1 DEF BadLinkCount
  <2>2. CASE elements[Depth] = "link"
    <3>1. ~HasBadLink
      BY <1>1, <1>2, <2>2 DEF HasBadLink, Links
    <3> QED
      BY <1>1, <2>2, <3>1 DEF BadLinkCount
  <2> QED
    BY <2>1, <2>2
<1>5. /\ images' = images
      /\ badLinks' = IF elements[Depth] = "badlink" THEN badLinks - 1 ELSE badLinks
      /\ IF elements[Depth] = "badlink" THEN Silent ELSE Pop(elements[Depth])
  BY <1>3, <1>4 DEF EndInline
<1>6. IF Shown(Depth) THEN Pop(elements[Depth]) ELSE Silent
  BY <1>2, <1>5 DEF Shown, Inline
<1>7. /\ crossed' = FALSE /\ tags' \in Seq(TagNames) /\ Matches(tags', Marks')
      /\ ScopesWithin'
  BY <1>6, EndedMark
<1>8. elements[Depth] \notin {"quote", "callout"}
  BY DEF Inline
<1>9. /\ Shape' /\ Links' /\ ImageCount' /\ BadLinkCount' /\ QuoteStack'
      /\ elements' \in Seq(Kinds) /\ images' \in Nat /\ badLinks' \in Nat /\ quotes' \in Seq(Kinds)
  BY <1>2, <1>3, <1>5, <1>8, EndedCounts
<1>10. Delayed'
  BY EndedInside
<1>11. Types'
  BY <1>1, <1>7, <1>9 DEF Types
<1> QED
  BY <1>7, <1>9, <1>10, <1>11 DEF Good

LEMMA EndInImageKeeps ==
  ASSUME Good, ~LeavesScope, elements # << >>, elements' = Front(elements), images > 0,
         images' = IF elements[Depth] = "image" THEN images - 1 ELSE images,
         Silent, UNCHANGED <<scopes, inlines, quotes, callouts, footnotes, badLinks>>
  PROVE  Good'
<1>1. Types /\ Shape /\ ImageCount
  BY DEF Good
<1>2. Depth \in Nat /\ ~IsPlain(Depth)
  BY <1>1, ImagesOf
<1>3. elements[Depth] \in Inline
  BY <1>1, <1>2, InImage
<1>4. ~Shown(Depth)
  BY <1>2 DEF Shown
<1>5. /\ crossed' = FALSE /\ tags' \in Seq(TagNames) /\ Matches(tags', Marks')
      /\ ScopesWithin'
  BY <1>4, EndedMark
<1>6. elements[Depth] \notin {"quote", "callout"}
  BY <1>3 DEF Inline
<1>7. /\ Shape' /\ Links' /\ ImageCount' /\ BadLinkCount' /\ QuoteStack'
      /\ elements' \in Seq(Kinds) /\ images' \in Nat /\ badLinks' \in Nat /\ quotes' \in Seq(Kinds)
  BY <1>2, <1>6, EndedCounts
<1>8. Delayed'
  BY <1>3, EndedInside
<1>9. Types'
  BY <1>1, <1>5, <1>7 DEF Types
<1> QED
  BY <1>5, <1>7, <1>8, <1>9 DEF Good

LEMMA EndParagraphKeeps ==
  ASSUME Good, ~LeavesScope, elements # << >>, elements' = Front(elements), images = 0,
         elements[Depth] = "paragraph", EndParagraph,
         UNCHANGED <<scopes, inlines, quotes, footnotes, images, badLinks>>
  PROVE  Good'
<1> DEFINE C == {"pending", "delayed", "open", "done"}
<1>1. Types /\ ImageCount /\ Delayed
  BY DEF Good
<1>2. IsPlain(Depth)
  BY <1>1, ImagesOf
<1>3. callouts \in Seq(C) /\ "done" \in C
  BY <1>1 DEF Types
<1> HIDE DEF C
<1>4. Shown(Depth) <=> ParagraphShown
  BY <1>2 DEF Shown
<1>5. footnotes # << >> => Last(footnotes) \in Nat
  BY <1>1, ShorterOf DEF Types
<1>6. IF Shown(Depth) THEN Pop(elements[Depth]) ELSE Silent
  BY <1>4, <1>5 DEF ParagraphShown, EndParagraph
<1>7. /\ crossed' = FALSE /\ tags' \in Seq(TagNames) /\ Matches(tags', Marks')
      /\ ScopesWithin'
  <2>1. elements[Depth] \notin Inline
    BY DEF Inline
  <2> QED
    BY <1>6, <2>1, EndedMark
<1>8. /\ Shape' /\ Links' /\ ImageCount' /\ BadLinkCount' /\ QuoteStack'
      /\ elements' \in Seq(Kinds) /\ images' \in Nat /\ badLinks' \in Nat /\ quotes' \in Seq(Kinds)
  BY EndedCounts
<1>9. callouts' \in Seq(C) /\ Delayed'
  <2>1. CASE Top(callouts, "done") \in {"delayed", "open"}
    <3>1. callouts' = [callouts EXCEPT ![Len(callouts)] = "done"] /\ callouts # << >>
      BY <2>1 DEF EndParagraph, Top
    <3>2. callouts' \in Seq(C) /\ ChangedAt(callouts, callouts', "done")
      BY <1>3, <3>1, LastChanged
    <3> QED
      BY <1>1, <3>2 DEF Delayed, ChangedAt
  <2>2. CASE Top(callouts, "done") \notin {"delayed", "open"}
    <3>1. callouts' = callouts
      BY <2>2 DEF EndParagraph
    <3>2. Top(callouts', "done") # "delayed"
      BY <2>2, <3>1
    <3> QED
      BY <1>1, <1>3, <3>1, <3>2 DEF Delayed
  <2> QED
    BY <2>1, <2>2
<1>10. Types'
  BY <1>1, <1>7, <1>8, <1>9 DEF Types, C
<1> QED
  BY <1>7, <1>8, <1>9, <1>10 DEF Good

LEMMA EndBlockKeeps ==
  ASSUME Good, ~LeavesScope, elements # << >>, elements' = Front(elements), images = 0,
         elements[Depth] \notin Inline, elements[Depth] # "paragraph", EndBlock(elements[Depth]),
         UNCHANGED <<scopes, inlines, images, badLinks>>
  PROVE  Good'
<1> DEFINE C == {"pending", "delayed", "open", "done"}
           kind == elements[Depth]
<1>1. Types /\ Shape /\ ImageCount /\ QuoteStack /\ Delayed
  BY DEF Good
<1>2. Depth \in Nat \ {0} /\ IsPlain(Depth)
  <2>1. Depth \in Nat \ {0}
    BY <1>1, Ended DEF Types
  <2> QED
    BY <1>1, <2>1, ImagesOf
<1>3. Top(callouts, "done") # "delayed"
  <2> SUFFICES ASSUME Top(callouts, "done") = "delayed" PROVE FALSE
    OBVIOUS
  <2>1. PICK d \in 1 .. Depth : elements[d] = "paragraph"
    BY <1>1 DEF Delayed
  <2> QED
    BY <1>1, <1>2, <2>1, ParagraphInside
<1>4. kind \in {"quote", "callout"} => quotes # << >> /\ Last(quotes) = kind
  <2>1. CASE kind \in {"quote", "callout"}
    <3>1. Depth \in 1 .. Depth /\ Depth \in QuotesUpto(Depth)
      BY <1>2, <2>1 DEF QuotesUpto
    <3>2. Cardinality(QuotesUpto(Depth)) \in 1 .. Len(quotes) /\ Last(quotes) = kind
      BY <1>1, <1>2, <3>1, QuotesFinite DEF QuoteStack, Last
    <3>3. quotes # << >>
      BY <3>2
    <3> QED
      BY <3>2, <3>3
  <2> QED
    BY <2>1
<1>5. kind \in {"quote", "callout"} => Top(quotes, "quote") = kind
  BY <1>4 DEF Top
<1>6. kind \notin {"image", "badlink"}
  BY DEF Inline
<1>7. /\ IF kind = "diagram" THEN Silent ELSE Pop(kind)
      /\ quotes' = IF kind \in {"quote", "callout"} THEN Front(quotes) ELSE quotes
      /\ callouts' = IF kind = "callout" THEN Front(callouts) ELSE callouts
      /\ footnotes' = IF kind = "footnote" THEN Front(footnotes) ELSE footnotes
  <2>1. CASE kind \in {"quote", "callout"}
    BY <1>4, <1>5, <2>1 DEF EndBlock
  <2>2. CASE kind \notin {"quote", "callout"}
    BY <2>2 DEF EndBlock
  <2> QED
    BY <2>1, <2>2
<1>8. IF Shown(Depth) THEN Pop(elements[Depth]) ELSE Silent
  BY <1>2, <1>6, <1>7 DEF Shown
<1>9. /\ crossed' = FALSE /\ tags' \in Seq(TagNames) /\ Matches(tags', Marks')
      /\ ScopesWithin'
  BY <1>8, EndedMark
<1>10. /\ Shape' /\ Links' /\ ImageCount' /\ BadLinkCount' /\ QuoteStack'
       /\ elements' \in Seq(Kinds) /\ images' \in Nat /\ badLinks' \in Nat /\ quotes' \in Seq(Kinds)
  BY <1>6, <1>7, EndedCounts
<1>11. callouts \in Seq(C) /\ footnotes \in Seq(Nat)
  BY <1>1 DEF Types
<1>12. footnotes' \in Seq(Nat)
  BY <1>7, <1>11, FrontOf
<1>13. callouts' \in Seq(C) /\ Delayed'
  <2>1. CASE kind # "callout"
    <3>1. callouts' = callouts
      BY <1>7, <2>1
    <3>2. Top(callouts', "done") # "delayed"
      BY <1>3, <3>1
    <3> QED
      BY <1>1, <1>11, <3>1, <3>2 DEF Delayed
  <2>2. CASE kind = "callout"
    <3>1. callouts' = Front(callouts)
      BY <1>7, <2>2
    <3> HIDE DEF C, kind
    <3>2. /\ callouts' \in Seq(C)
          /\ \A i \in 1 .. Len(callouts') : i \in 1 .. Len(callouts) - 1 /\ callouts'[i] = callouts[i]
      BY <1>11, <3>1, FrontOf
    <3>3. \A i \in 1 .. Len(callouts') : callouts'[i] # "delayed"
      BY <1>1, <3>2 DEF Delayed
    <3>4. Top(callouts', "done") # "delayed"
      <4>1. CASE callouts' = << >>
        BY <3>2, <4>1, TopOf
      <4>2. CASE callouts' # << >>
        <5>1. Top(callouts', "done") = callouts'[Len(callouts')] /\ Len(callouts') \in 1 .. Len(callouts')
          BY <3>2, <4>2, TopOf
        <5> QED
          BY <3>3, <5>1
      <4> QED
        BY <4>1, <4>2
    <3>5. \A i \in 1 .. Len(callouts') - 1 : callouts'[i] # "delayed"
      <4>1. Len(callouts') \in Nat
        BY <3>2
      <4> QED
        BY <3>3, <4>1
    <3> QED
      BY <3>2, <3>4, <3>5 DEF Delayed
  <2> QED
    BY <2>1, <2>2
<1>14. Types'
  BY <1>1, <1>9, <1>10, <1>12, <1>13 DEF Types
<1> QED
  BY <1>9, <1>10, <1>13, <1>14 DEF Good

LEMMA EndKeeps ==
  ASSUME Good, End, tidy' PROVE Good'
<1>1. /\ elements # << >> /\ elements' = Front(elements) /\ ~LeavesScope
      /\ UNCHANGED <<scopes, inlines>>
  BY DEF End
<1>2. images \in Nat /\ Last(elements) = elements[Depth]
  BY <1>1, Ended DEF Good, Types
<1> DEFINE kind == elements[Depth]
<1>3. IF images > 0
        THEN /\ images' = IF kind = "image" THEN images - 1 ELSE images
             /\ Silent /\ UNCHANGED <<single, style, quotes, callouts, footnotes, badLinks>>
      ELSE IF kind \in Inline
        THEN EndInline(kind) /\ UNCHANGED <<single, style, quotes, callouts, footnotes>>
      ELSE /\ IF kind = "paragraph" THEN EndParagraph /\ UNCHANGED <<quotes, footnotes>>
                ELSE EndBlock(kind)
           /\ UNCHANGED <<images, badLinks>>
  BY <1>2 DEF End
<1> HIDE DEF kind
<1>4. CASE images > 0
  BY <1>1, <1>3, <1>4, EndInImageKeeps DEF kind
<1>5. CASE images = 0 /\ kind \in Inline
  <2>1. EndInline(kind) /\ UNCHANGED <<quotes, callouts, footnotes>>
    BY <1>3, <1>5
  <2> QED
    BY <1>1, <1>5, <2>1, EndInlineKeeps DEF kind
<1>6. CASE images = 0 /\ kind = "paragraph"
  <2>1. EndParagraph /\ UNCHANGED <<quotes, footnotes, images, badLinks>>
    BY <1>3, <1>6 DEF Inline
  <2> QED
    BY <1>1, <1>6, <2>1, EndParagraphKeeps DEF kind
<1>7. CASE images = 0 /\ kind \notin Inline /\ kind # "paragraph"
  <2>1. EndBlock(kind) /\ UNCHANGED <<images, badLinks>>
    BY <1>3, <1>7
  <2> QED
    BY <1>1, <1>7, <2>1, EndBlockKeeps DEF kind
<1> QED
  BY <1>2, <1>4, <1>5, <1>6, <1>7

-----------------------------------------------------------------------------
(* A line of a title ends *)

\* Where no scope was opened inside it the tag of the innermost element is the last.
LEMMA InnermostMark ==
  ASSUME Types, ScopesWithin, ~LeavesScope, Depth \in Nat \ {0}, Shown(Depth)
  PROVE  /\ ElementMark(Depth) \in Marks
         /\ \A m \in Marks : ~Before(ElementMark(Depth), m)
<1>1. PICK n : n = ElementMark(Depth)
  OBVIOUS
<1>2. n[1] = Depth /\ n[2] = "element"
  BY <1>1 DEF ElementMark
<1>3. n \in Marks
  BY <1>1 DEF Marks, ElementMarks
<1>4. /\ \A i \in 1 .. Len(scopes) : scopes[i].depth \in Nat /\ scopes[i].depth < Depth
      /\ \A i \in 1 .. Len(inlines) : inlines[i].depth \in Nat /\ inlines[i].depth < Depth
  <2>1. /\ \A i \in 1 .. Len(scopes) : scopes[i].depth # Depth
        /\ \A i \in 1 .. Len(inlines) : inlines[i].depth # Depth
    BY DEF LeavesScope, Range
  <2> QED
    BY <2>1, Depths DEF ScopesWithin, Within
<1>5. ASSUME NEW m \in Marks PROVE ~Before(n, m)
  <2>1. CASE \E d \in 1 .. Depth : m = ElementMark(d)
    BY <1>2, <2>1 DEF Before, ElementMark
  <2>2. CASE \E i \in 1 .. Len(scopes) : m = ScopeMark("scope", scopes, i)
    BY <1>2, <1>4, <2>2 DEF Before, ScopeMark
  <2>3. CASE \E i \in 1 .. Len(inlines) : m = ScopeMark("inline", inlines, i)
    BY <1>2, <1>4, <2>3 DEF Before, ScopeMark
  <2> QED
    BY <2>1, <2>2, <2>3, MarkPlaces
<1> QED
  BY <1>1, <1>3, <1>5

\* The tag closed and opened again is the last one, so that the same tags are open.
LEMMA BreakTitleKeeps ==
  ASSUME Good, BreakTitle, tidy' PROVE Good'
<1>1. /\ Types /\ crossed = FALSE /\ Matches(tags, Marks) /\ ScopesWithin /\ ImageCount
  BY DEF Good
<1>2. /\ tags' = Opened(Closed(tags, "title"), "title")
      /\ crossed' = (crossed \/ Crosses(tags, "title"))
      /\ images > 0 \/ (Last(elements) = "title" /\ ~LeavesScope)
      /\ "title" \in Range(elements)
      /\ UNCHANGED <<elements, scopes, inlines, quotes, callouts, footnotes, images, badLinks>>
  BY DEF BreakTitle
<1>3. images \in Nat
  BY <1>1 DEF Types
<1>4. CASE images > 0
  <2>1. Silent
    <3>1. tags' = tags
      BY <1>2, <1>4 DEF Opened, Closed
    <3>2. ~Crosses(tags, "title")
      BY <1>3, <1>4 DEF Crosses
    <3>3. crossed' = (FALSE \/ FALSE)
      BY <1>1, <1>2, <3>2
    <3> QED
      BY <1>1, <3>1, <3>3 DEF Silent
  <2> QED
    BY <1>2, <2>1, StillGood
<1>5. CASE images = 0
  <2>1. Depth \in Nat \ {0} /\ elements[Depth] = "title" /\ ~LeavesScope
    <3>1. Len(elements) \in Nat /\ \A i \in 1 .. Len(elements) : Len(elements) # 0
      BY <1>1 DEF Types
    <3> QED
      BY <1>2, <1>3, <1>5, <3>1 DEF Depth, Last, Range
  <2>2. Shown(Depth)
    BY <1>1, <1>5, <2>1, ImagesOf DEF Shown
  <2>3. PICK n \in Marks : n[4] = "title" /\ \A m \in Marks : ~Before(n, m)
    <3>1. ElementMark(Depth)[4] = "title"
      BY <2>1 DEF ElementMark
    <3> QED
      BY <1>1, <2>1, <2>2, <3>1, InnermostMark
  <2>4. tags \in Seq(TagNames)
    BY <1>1 DEF Types
  <2>5. tags # << >> /\ Last(tags) = "title"
    BY <1>1, <2>3, <2>4, FrontMatches
  <2>6. Append(Front(tags), "title") = tags
    BY <2>4, <2>5, LastAgain
  <2>7. Closed(tags, "title") = Front(tags) /\ ~Crosses(tags, "title")
    BY <1>5, <2>5 DEF Closed, Crosses, Top
  <2>8. Silent
    <3>1. tags' = tags
      BY <1>2, <1>5, <2>6, <2>7 DEF Opened
    <3>2. crossed' = (FALSE \/ FALSE)
      BY <1>1, <1>2, <2>7
    <3> QED
      BY <1>1, <3>1, <3>2 DEF Silent
  <2> QED
    BY <1>2, <2>8, StillGood
<1> QED
  BY <1>3, <1>4, <1>5

-----------------------------------------------------------------------------
(* The invariant *)

LEMMA InitIsGood == ASSUME MarkupInit PROVE MarkupInv
<1>1. elements = << >> /\ scopes = << >> /\ inlines = << >> /\ tags = << >> /\ quotes = << >>
      /\ callouts = << >> /\ footnotes = << >> /\ images = 0 /\ badLinks = 0 /\ crossed = FALSE
  BY DEF MarkupInit
<1>2. Types
  BY <1>1 DEF Types
<1>3. Depth = 0 /\ Len(scopes) = 0 /\ Len(inlines) = 0 /\ Len(tags) = 0 /\ Len(quotes) = 0
      /\ Len(callouts) = 0 /\ \A d \in 1 .. 0 : FALSE
  BY <1>1 DEF Depth
<1>4. Shape /\ Links
  BY <1>3 DEF Shape, Links
<1>5. ImagePlaces = {} /\ QuotesUpto(Depth) = {}
  BY <1>3 DEF ImagePlaces, QuotesUpto
<1>6. ImageCount /\ QuoteStack
  BY <1>1, <1>3, <1>5, FS_EmptySet DEF ImageCount, QuoteStack
<1>7. BadLinkCount
  BY <1>1, <1>3 DEF BadLinkCount, HasBadLink
<1>8. ScopesWithin
  BY <1>3 DEF ScopesWithin, Within
<1>9. Delayed
  <2>1. \A i \in 1 .. Len(callouts) - 1 : FALSE
    BY <1>3
  <2> QED
    BY <1>1, <2>1 DEF Delayed, Top
<1>10. Marks = {}
  BY <1>3 DEF Marks, ElementMarks, ScopeMarks
<1>11. Matches(tags, Marks)
  <2>1. 1 .. Len(tags) = {}
    BY <1>3
  <2>2. Orders([k \in {} |-> k], tags, {})
    BY <2>1 DEF Orders
  <2> QED
    BY <1>10, <2>2 DEF Matches
<1> QED
  BY <1>1, <1>2, <1>4, <1>6, <1>7, <1>8, <1>9, <1>11 DEF MarkupInv, Good

LEMMA NextKeeps == ASSUME MarkupInv, [MarkupNext]_markupVars PROVE MarkupInv'
<1>1. CASE UNCHANGED markupVars
  <2>1. /\ Silent /\ tidy' = tidy
        /\ UNCHANGED <<elements, scopes, inlines, quotes, callouts, footnotes, images, badLinks>>
    BY <1>1 DEF markupVars, emitter, Silent
  <2> QED
    BY <2>1, StillGood DEF MarkupInv
<1>2. CASE MarkupNext
  <2> SUFFICES ASSUME tidy' PROVE Good'
    BY DEF MarkupInv
  <2>1. CASE Start
    <3>1. tidy
      BY <2>1 DEF Start
    <3> QED
      BY <2>1, <3>1, StartKeeps DEF MarkupInv
  <2>2. CASE End
    <3>1. tidy
      BY <2>2 DEF End
    <3> QED
      BY <2>2, <3>1, EndKeeps DEF MarkupInv
  <2>3. CASE Text
    <3>1. tidy
      BY <2>3 DEF Text
    <3> QED
      BY <2>3, <3>1, TextKeeps DEF MarkupInv
  <2>4. CASE Params
    <3>1. tidy
      BY <2>4 DEF Params
    <3> QED
      BY <2>4, <3>1, ParamsKeeps DEF MarkupInv
  <2>5. CASE OpenScope
    <3>1. tidy
      BY <2>5 DEF OpenScope
    <3> QED
      BY <2>5, <3>1, OpenScopeKeeps DEF MarkupInv
  <2>6. CASE CloseScope
    <3>1. tidy
      BY <2>6 DEF CloseScope
    <3> QED
      BY <2>6, <3>1, CloseScopeKeeps DEF MarkupInv
  <2>7. CASE Html
    <3>1. tidy
      BY <2>7 DEF Html
    <3> QED
      BY <2>7, <3>1, HtmlKeeps DEF MarkupInv
  <2>8. CASE BreakTitle
    <3>1. tidy
      BY <2>8 DEF BreakTitle
    <3> QED
      BY <2>8, <3>1, BreakTitleKeeps DEF MarkupInv
  <2> QED
    BY <1>2, <2>1, <2>2, <2>3, <2>4, <2>5, <2>6, <2>7, <2>8 DEF MarkupNext
<1> QED
  BY <1>1, <1>2

\* HtmlEmitter: as long as scopes do not cross elements in the source, and no line of a
\* definition's title ends inside an element or a scope, every closing tag closes the last
\* tag that is open, whatever was left unwritten.
THEOREM TagsNest == MarkupSpec => []TidyTagsNest
<1>1. MarkupInv => TidyTagsNest
  BY DEF MarkupInv, Good, TidyTagsNest
<1> QED
  BY <1>1, InitIsGood, NextKeeps, PTL DEF MarkupSpec

-----------------------------------------------------------------------------
(* The elements of a diagram *)

LEMMA BetweenStep ==
  ASSUME NEW s, NEW kind, NEW j \in Nat, NEW m \in Nat, j <= m + 1
  PROVE  /\ Between(s, kind, j, m) \in Nat
         /\ Between(s, kind, j, m + 1) = Between(s, kind, j, m) + (IF s[m + 1].kind = kind THEN 1 ELSE 0)
<1> DEFINE Of(n) == {i \in j .. n : s[i].kind = kind}
<1>1. IsFiniteSet(Of(m)) /\ Cardinality(Of(m)) \in Nat
  <2>1. IsFiniteSet(j .. m)
    BY FS_Interval
  <2> QED
    BY <2>1, FS_Subset, FS_CardinalityType
<1>2. m + 1 \notin Of(m)
  OBVIOUS
<1>3. CASE s[m + 1].kind = kind
  <2>1. Of(m + 1) = Of(m) \cup {m + 1}
    BY <1>3
  <2> HIDE DEF Of
  <2>2. Cardinality(Of(m) \cup {m + 1}) = Cardinality(Of(m)) + 1
    BY <1>1, <1>2, FS_AddElement
  <2>3. Cardinality(Of(m + 1)) = Cardinality(Of(m)) + 1
    BY <2>1, <2>2
  <2> QED
    BY <1>1, <1>3, <2>3 DEF Between, Of
<1>4. CASE s[m + 1].kind # kind
  <2>1. Of(m + 1) = Of(m)
    BY <1>4
  <2> HIDE DEF Of
  <2>2. Cardinality(Of(m + 1)) = Cardinality(Of(m))
    BY <2>1
  <2> QED
    BY <1>1, <1>4, <2>2 DEF Between, Of
<1> QED
  BY <1>3, <1>4

LEMMA BetweenNone ==
  ASSUME NEW s, NEW kind, NEW j \in Nat
  PROVE  j > 0 => Between(s, kind, j, j - 1) = 0
<1>1. j > 0 => j .. j - 1 = {}
  OBVIOUS
<1>2. j > 0 => {i \in j .. j - 1 : s[i].kind = kind} = {}
  BY <1>1
<1> QED
  BY <1>2, FS_EmptySet DEF Between

LEMMA BetweenSame ==
  ASSUME NEW s, NEW t, NEW n \in Nat, \A i \in 1 .. n : t[i] = s[i],
         NEW kind, NEW j \in Nat \ {0}, NEW m \in 0 .. n
  PROVE  Between(t, kind, j, m) = Between(s, kind, j, m)
<1>1. {i \in j .. m : t[i].kind = kind} = {i \in j .. m : s[i].kind = kind}
  OBVIOUS
<1> QED
  BY <1>1 DEF Between

\* How much deeper the source is after m than before j.
Surplus(s, j, m) == Between(s, "start", j, m) - Between(s, "end", j, m)

LEMMA SurplusStep ==
  ASSUME NEW s, NEW j \in Nat \ {0}, NEW m \in Nat, j <= m + 1
  PROVE  /\ Surplus(s, j, m) \in Int
         /\ s[m + 1].kind = "start" => Surplus(s, j, m + 1) = Surplus(s, j, m) + 1
         /\ s[m + 1].kind = "end" => Surplus(s, j, m + 1) = Surplus(s, j, m) - 1
         /\ s[m + 1].kind \notin {"start", "end"} => Surplus(s, j, m + 1) = Surplus(s, j, m)
         /\ j = m + 1 => Surplus(s, j, m) = 0
<1>1. /\ Between(s, "start", j, m) \in Nat
      /\ Between(s, "start", j, m + 1)
           = Between(s, "start", j, m) + (IF s[m + 1].kind = "start" THEN 1 ELSE 0)
  BY BetweenStep
<1>2. /\ Between(s, "end", j, m) \in Nat
      /\ Between(s, "end", j, m + 1)
           = Between(s, "end", j, m) + (IF s[m + 1].kind = "end" THEN 1 ELSE 0)
  BY BetweenStep
<1>3. j = m + 1 => Between(s, "start", j, m) = 0 /\ Between(s, "end", j, m) = 0
  BY BetweenNone
<1> QED
  BY <1>1, <1>2, <1>3 DEF Surplus

LEMMA AroundIs ==
  ASSUME NEW s, NEW k \in Nat, NEW j
  PROVE  j \in Around(s, k)
           <=> j \in 1 .. k - 1 /\ s[j].kind = "start" /\ \A m \in j .. k - 1 : Surplus(s, j, m) > 0
<1>1. ASSUME NEW i \in 1 .. k - 1, NEW m \in i .. k - 1
      PROVE  Between(s, "start", i, m) > Between(s, "end", i, m) <=> Surplus(s, i, m) > 0
  <2>1. Between(s, "start", i, m) \in Nat /\ Between(s, "end", i, m) \in Nat
    BY BetweenStep
  <2> QED
    BY <2>1 DEF Surplus
<1> QED
  BY <1>1 DEF Around

\* The elements around the next event.
LEMMA AroundNext ==
  ASSUME NEW s, NEW n \in Nat, NEW j
  PROVE  j \in Around(s, n + 2)
           <=> \/ j \in Around(s, n + 1) /\ Surplus(s, j, n + 1) > 0
               \/ j = n + 1 /\ s[n + 1].kind = "start"
<1>1. s[n + 1].kind = "start" => Surplus(s, n + 1, n + 1) > 0
  <2> n + 1 \in Nat \ {0} /\ n + 1 <= n + 1
    OBVIOUS
  <2>1. Surplus(s, n + 1, n) = 0 /\ Surplus(s, n + 1, n) \in Int
    BY SurplusStep
  <2>2. s[n + 1].kind = "start" => Surplus(s, n + 1, n + 1) = Surplus(s, n + 1, n) + 1
    BY SurplusStep
  <2> QED
    BY <2>1, <2>2
<1>2. j \in Around(s, n + 2) <=> j \in 1 .. n + 1 /\ s[j].kind = "start" /\ \A m \in j .. n + 1 : Surplus(s, j, m) > 0
  BY AroundIs
<1>3. j \in Around(s, n + 1) <=> j \in 1 .. n /\ s[j].kind = "start" /\ \A m \in j .. n : Surplus(s, j, m) > 0
  BY AroundIs
<1>4. CASE j \in 1 .. n
  <2>1. j .. n + 1 = (j .. n) \cup {n + 1}
    BY <1>4
  <2> QED
    BY <1>2, <1>3, <1>4, <2>1
<1>5. CASE j = n + 1
  <2>1. j .. n + 1 = {n + 1}
    BY <1>5
  <2> QED
    BY <1>1, <1>2, <1>3, <1>5, <2>1
<1>6. CASE j \notin 1 .. n + 1
  BY <1>2, <1>3, <1>6
<1> QED
  BY <1>4, <1>5, <1>6

\* What is kept of a source is told from its beginning.
LEMMA SameBeginning ==
  ASSUME NEW s, NEW t, NEW n \in Nat, \A i \in 1 .. n : t[i] = s[i]
  PROVE  /\ \A k \in 1 .. n + 1 : Around(t, k) = Around(s, k)
         /\ \A k \in 1 .. n : IsKept(t, k) <=> IsKept(s, k)
         /\ \A j \in 1 .. n : Surplus(t, j, n) = Surplus(s, j, n)
<1>1. ASSUME NEW j \in 1 .. n, NEW m \in j .. n PROVE Surplus(t, j, m) = Surplus(s, j, m)
  <2>1. Between(t, "start", j, m) = Between(s, "start", j, m)
    BY BetweenSame
  <2>2. Between(t, "end", j, m) = Between(s, "end", j, m)
    BY BetweenSame
  <2> QED
    BY <2>1, <2>2 DEF Surplus
<1>2. ASSUME NEW k \in 1 .. n + 1 PROVE Around(t, k) = Around(s, k)
  <2>1. ASSUME NEW j PROVE j \in Around(t, k) <=> j \in Around(s, k)
    <3>1. /\ j \in Around(t, k) <=> j \in 1 .. k - 1 /\ t[j].kind = "start"
                                      /\ \A m \in j .. k - 1 : Surplus(t, j, m) > 0
          /\ j \in Around(s, k) <=> j \in 1 .. k - 1 /\ s[j].kind = "start"
                                      /\ \A m \in j .. k - 1 : Surplus(s, j, m) > 0
      BY AroundIs
    <3>2. j \in 1 .. k - 1 => t[j] = s[j] /\ \A m \in j .. k - 1 : Surplus(t, j, m) = Surplus(s, j, m)
      BY <1>1
    <3> QED
      BY <3>1, <3>2
  <2> QED
    BY <2>1
<1>3. ASSUME NEW k \in 1 .. n PROVE (IsKept(t, k) <=> IsKept(s, k))
  <2>1. Around(t, k) = Around(s, k) /\ Around(s, k) \subseteq 1 .. n
    BY <1>2 DEF Around
  <2>2. ASSUME NEW j \in Around(s, k) \cup {k} PROVE Safe(t, j) <=> Safe(s, j)
    <3>1. j \in 1 .. n /\ Around(t, j) = Around(s, j) /\ Around(s, j) \subseteq 1 .. n
      BY <1>2, <2>1 DEF Around
    <3> QED
      BY <3>1 DEF Safe
  <2> QED
    BY <2>1, <2>2 DEF IsKept, IsTag
<1> QED
  BY <1>1, <1>2, <1>3

-----------------------------------------------------------------------------
(* Where a pass is *)

SvgNames == {tag.name : tag \in Tags}

\* The elements that are open after n events, from the outside. Of those, the ones that
\* are left out are within the others.
Stacked(stack, r, s, n) ==
  /\ stack \in [1 .. Len(r.open) -> 1 .. n]
  /\ Around(s, n + 1) = {stack[i] : i \in 1 .. Len(r.open)}
  /\ \A i \in 1 .. Len(r.open) :
       /\ s[stack[i]].kind = "start" /\ s[stack[i]].tag.name = r.open[i]
       /\ Surplus(s, stack[i], n) = Len(r.open) - i + 1
       /\ Around(s, stack[i]) = {stack[j] : j \in 1 .. i - 1}
       /\ IsKept(s, stack[i]) <=> i <= Len(r.open) - r.suppressed

InForeign(r) == \E i \in 1 .. Len(r.open) - r.suppressed : r.open[i] = "foreignObject"

\* The reader r has come through n events of s.
Reading(r, s, n) ==
  /\ r \in [open : Seq(SvgNames), suppressed : Nat, foreign : Nat, roots : Nat]
  /\ r.suppressed <= Len(r.open)
  /\ r.foreign = IF InForeign(r) THEN 1 ELSE 0
  /\ \E stack : Stacked(stack, r, s, n)

\* The same, told of the length and of one element.
EntryTo(L, stack, r, s, n, i) ==
  /\ s[stack[i]].kind = "start" /\ s[stack[i]].tag.name = r.open[i]
  /\ Surplus(s, stack[i], n) = L - i + 1
  /\ Around(s, stack[i]) = {stack[j] : j \in 1 .. i - 1}
  /\ IsKept(s, stack[i]) <=> i <= L - r.suppressed

StackedTo(L, stack, r, s, n) ==
  /\ stack \in [1 .. L -> 1 .. n]
  /\ Around(s, n + 1) = {stack[i] : i \in 1 .. L}
  /\ \A i \in 1 .. L : EntryTo(L, stack, r, s, n, i)

LEMMA EntryIs ==
  ASSUME NEW M, NEW stack, NEW r, NEW s, NEW n, NEW i,
         s[stack[i]].kind = "start", s[stack[i]].tag.name = r.open[i],
         Surplus(s, stack[i], n) = M - i + 1,
         Around(s, stack[i]) = {stack[j] : j \in 1 .. i - 1},
         IsKept(s, stack[i]) <=> i <= M - r.suppressed
  PROVE  EntryTo(M, stack, r, s, n, i)
  BY Zenon DEF EntryTo

LEMMA StackedIs ==
  ASSUME NEW stack, NEW r, NEW s, NEW n, NEW L, Len(r.open) = L, StackedTo(L, stack, r, s, n)
  PROVE  Stacked(stack, r, s, n)
  BY Zenon DEF Stacked, StackedTo, EntryTo

LEMMA StackGrows ==
  ASSUME NEW stack, NEW r, NEW s, NEW n \in Nat, Len(r.open) \in Nat, Stacked(stack, r, s, n)
  PROVE  \A i, j \in 1 .. Len(r.open) : i < j => stack[i] < stack[j]
<1>1. ASSUME NEW i \in 1 .. Len(r.open), NEW j \in 1 .. Len(r.open), i < j PROVE stack[i] < stack[j]
  <2>1. stack[i] \in Around(s, stack[j])
    <3>1. i \in 1 .. j - 1
      BY <1>1
    <3> QED
      BY <1>1, <3>1 DEF Stacked
  <2>2. stack[i] \in 1 .. n /\ stack[j] \in 1 .. n
    BY <1>1 DEF Stacked
  <2> QED
    BY <2>1, <2>2 DEF Around
<1> QED
  BY <1>1

LEMMA TopIs ==
  ASSUME NEW s, NEW n \in Nat, Reading(reader, s, n)
  PROVE  /\ AtTop <=> Around(s, n + 1) = {}
         /\ ~AtTop => \E j \in Around(s, n + 1) : j \in 1 .. n /\ IsTag(s, j) /\ Around(s, j) = {}
<1>1. PICK stack : Stacked(stack, reader, s, n)
  BY DEF Reading
<1>2. PICK L \in Nat : L = Len(reader.open)
  BY DEF Reading
<1>3. AtTop <=> L = 0
  BY <1>2, EmptySeq DEF AtTop, Reading
<1>4. /\ stack \in [1 .. L -> 1 .. n]
      /\ Around(s, n + 1) = {stack[i] : i \in 1 .. L}
      /\ \A i \in 1 .. L :
           /\ s[stack[i]].kind = "start"
           /\ Around(s, stack[i]) = {stack[j] : j \in 1 .. i - 1}
  BY <1>1, <1>2 DEF Stacked
<1>5. L = 0 => Around(s, n + 1) = {}
  <2>1. L = 0 => 1 .. L = {}
    OBVIOUS
  <2> QED
    BY <1>4, <2>1
<1>6. L # 0 => stack[1] \in Around(s, n + 1) /\ stack[1] \in 1 .. n
                 /\ IsTag(s, stack[1]) /\ Around(s, stack[1]) = {}
  <2>1. (L # 0 => 1 \in 1 .. L) /\ 1 .. 1 - 1 = {}
    OBVIOUS
  <2> QED
    BY <1>4, <2>1 DEF IsTag
<1> QED
  BY <1>3, <1>5, <1>6

\* An element is left out exactly if the reader says so.
LEMMA KeptUnlessSkipped ==
  ASSUME NEW s, NEW n \in Nat, Reading(reader, s, n), IsTag(s, n + 1)
  PROVE  /\ Skips(s[n + 1].tag.name) <=> ~IsKept(s, n + 1)
         /\ AtTop <=> Around(s, n + 1) = {}
<1>1. /\ reader.open \in Seq(SvgNames) /\ Len(reader.open) \in Nat
      /\ reader.suppressed \in Nat /\ reader.suppressed <= Len(reader.open)
      /\ reader.foreign = IF InForeign(reader) THEN 1 ELSE 0
  BY DEF Reading
<1>2. PICK stack : Stacked(stack, reader, s, n)
  BY DEF Reading
<1>3. PICK L \in Nat : L = Len(reader.open)
  BY <1>1
<1>4. /\ stack \in [1 .. L -> 1 .. n]
      /\ Around(s, n + 1) = {stack[i] : i \in 1 .. L}
      /\ \A i \in 1 .. L :
           /\ s[stack[i]].kind = "start" /\ s[stack[i]].tag.name = reader.open[i]
           /\ Around(s, stack[i]) = {stack[j] : j \in 1 .. i - 1}
           /\ IsKept(s, stack[i]) <=> i <= L - reader.suppressed
  BY <1>2, <1>3 DEF Stacked
<1>5. AtTop <=> Around(s, n + 1) = {}
  BY TopIs
<1>6. CASE reader.suppressed > 0
  <2>1. L \in 1 .. L /\ ~IsKept(s, stack[L]) /\ IsTag(s, stack[L])
    BY <1>1, <1>3, <1>4, <1>6 DEF IsTag
  <2>2. stack[L] \in Around(s, n + 1) /\ Around(s, stack[L]) \subseteq Around(s, n + 1)
    <3>1. 1 .. L - 1 \subseteq 1 .. L
      OBVIOUS
    <3>2. Around(s, stack[L]) = {stack[j] : j \in 1 .. L - 1}
      BY <1>4, <2>1
    <3> QED
      BY <1>4, <2>1, <3>1, <3>2
  <2>3. ~IsKept(s, n + 1)
    BY <2>1, <2>2 DEF IsKept
  <2> QED
    BY <1>5, <1>6, <2>3 DEF Skips
<1>7. CASE reader.suppressed = 0
  <2>1. \A i \in 1 .. L : IsKept(s, stack[i])
    BY <1>3, <1>4, <1>7
  <2>2. \A j \in Around(s, n + 1) : Safe(s, j)
    BY <1>4, <2>1 DEF IsKept
  <2>3. IsKept(s, n + 1) <=> Safe(s, n + 1)
    BY <2>2 DEF IsKept
  <2>4. (\E f \in Around(s, n + 1) : s[f].tag.name = "foreignObject") <=> InForeign(reader)
    BY <1>3, <1>4, <1>7 DEF InForeign
  <2>5. reader.foreign > 0 <=> InForeign(reader)
    BY <1>1
  <2> QED
    BY <1>5, <1>7, <2>3, <2>4, <2>5 DEF Safe, Skips
<1> QED
  BY <1>1, <1>6, <1>7

LEMMA FreshReads ==
  ASSUME NEW s
  PROVE  Reading(Fresh, s, 0)
<1>1. Len(Fresh.open) = 0 /\ Fresh.open \in Seq(SvgNames)
  BY DEF Fresh
<1>2. Around(s, 0 + 1) = {}
  BY DEF Around
<1>3. Stacked([i \in 1 .. 0 |-> 0], Fresh, s, 0)
  BY <1>1, <1>2 DEF Stacked
<1>4. ~InForeign(Fresh)
  BY <1>1 DEF InForeign, Fresh
<1> QED
  BY <1>1, <1>3, <1>4 DEF Reading, Fresh

\* A pass that has come through the beginning of a source does not see how it ends.
LEMMA ReadingSame ==
  ASSUME NEW r, NEW s, NEW t, NEW n \in Nat, \A i \in 1 .. n : t[i] = s[i], Reading(r, s, n)
  PROVE  Reading(r, t, n)
<1>1. PICK stack : Stacked(stack, r, s, n)
  BY DEF Reading
<1>2. /\ \A k \in 1 .. n + 1 : Around(t, k) = Around(s, k)
      /\ \A k \in 1 .. n : IsKept(t, k) <=> IsKept(s, k)
      /\ \A j \in 1 .. n : Surplus(t, j, n) = Surplus(s, j, n)
  BY SameBeginning
<1>3. /\ stack \in [1 .. Len(r.open) -> 1 .. n]
      /\ Around(s, n + 1) = {stack[i] : i \in 1 .. Len(r.open)}
  BY <1>1 DEF Stacked
<1>4. Around(t, n + 1) = {stack[i] : i \in 1 .. Len(r.open)}
  BY <1>2, <1>3
<1>5. ASSUME NEW i \in 1 .. Len(r.open)
      PROVE  /\ t[stack[i]].kind = "start" /\ t[stack[i]].tag.name = r.open[i]
             /\ Surplus(t, stack[i], n) = Len(r.open) - i + 1
             /\ Around(t, stack[i]) = {stack[j] : j \in 1 .. i - 1}
             /\ IsKept(t, stack[i]) <=> i <= Len(r.open) - r.suppressed
  <2>1. stack[i] \in 1 .. n
    BY <1>3
  <2>2. stack[i] \in 1 .. n + 1
    BY <2>1
  <2>3. /\ s[stack[i]].kind = "start" /\ s[stack[i]].tag.name = r.open[i]
        /\ Surplus(s, stack[i], n) = Len(r.open) - i + 1
        /\ Around(s, stack[i]) = {stack[j] : j \in 1 .. i - 1}
        /\ IsKept(s, stack[i]) <=> i <= Len(r.open) - r.suppressed
    BY <1>1 DEF Stacked
  <2>4. t[stack[i]] = s[stack[i]] /\ Surplus(t, stack[i], n) = Surplus(s, stack[i], n)
        /\ Around(t, stack[i]) = Around(s, stack[i]) /\ (IsKept(t, stack[i]) <=> IsKept(s, stack[i]))
    BY <1>2, <2>1, <2>2
  <2> QED
    BY <2>3, <2>4
<1>6. Stacked(stack, r, t, n)
  BY <1>3, <1>4, <1>5 DEF Stacked
<1> QED
  BY <1>6 DEF Reading

\* The elements around the event after the next.
LEMMA AroundAfter ==
  ASSUME NEW stack, NEW r, NEW s, NEW n \in Nat, Len(r.open) \in Nat, Stacked(stack, r, s, n)
  PROVE  /\ s[n + 1].kind = "start" => Around(s, n + 2) = Around(s, n + 1) \cup {n + 1}
         /\ s[n + 1].kind = "end" =>
              Around(s, n + 2) = {stack[i] : i \in 1 .. Len(r.open) - 1}
         /\ s[n + 1].kind \notin {"start", "end"} => Around(s, n + 2) = Around(s, n + 1)
         /\ \A i \in 1 .. Len(r.open) :
              /\ s[n + 1].kind = "start" => Surplus(s, stack[i], n + 1) = Len(r.open) + 1 - i + 1
              /\ s[n + 1].kind = "end" => Surplus(s, stack[i], n + 1) = Len(r.open) - 1 - i + 1
              /\ s[n + 1].kind \notin {"start", "end"} =>
                   Surplus(s, stack[i], n + 1) = Len(r.open) - i + 1
<1>1. PICK L \in Nat : L = Len(r.open)
  OBVIOUS
<1>2. /\ stack \in [1 .. L -> 1 .. n]
      /\ Around(s, n + 1) = {stack[i] : i \in 1 .. L}
      /\ \A i \in 1 .. L : Surplus(s, stack[i], n) = L - i + 1
  BY <1>1 DEF Stacked
<1>3. ASSUME NEW i \in 1 .. L
      PROVE  /\ s[n + 1].kind = "start" => Surplus(s, stack[i], n + 1) = (L + 1) - i + 1
             /\ s[n + 1].kind = "end" => Surplus(s, stack[i], n + 1) = L - 1 - i + 1
             /\ s[n + 1].kind \notin {"start", "end"} => Surplus(s, stack[i], n + 1) = L - i + 1
  <2>1. PICK j \in Nat \ {0} : j = stack[i] /\ j <= n + 1
    BY <1>2
  <2>2. Surplus(s, j, n) = L - i + 1
    BY <1>2, <2>1
  <2>3. /\ s[n + 1].kind = "start" => Surplus(s, j, n + 1) = Surplus(s, j, n) + 1
        /\ s[n + 1].kind = "end" => Surplus(s, j, n + 1) = Surplus(s, j, n) - 1
        /\ s[n + 1].kind \notin {"start", "end"} => Surplus(s, j, n + 1) = Surplus(s, j, n)
    BY <2>1, SurplusStep
  <2> QED
    BY <2>1, <2>2, <2>3
<1>4. ASSUME NEW j
      PROVE  j \in Around(s, n + 2)
               <=> \/ \E i \in 1 .. L : j = stack[i] /\ Surplus(s, stack[i], n + 1) > 0
                   \/ j = n + 1 /\ s[n + 1].kind = "start"
  <2>1. j \in Around(s, n + 1) <=> \E i \in 1 .. L : j = stack[i]
    BY <1>2
  <2> QED
    BY <2>1, AroundNext
<1>5. CASE s[n + 1].kind = "start"
  <2>1. \A i \in 1 .. L : Surplus(s, stack[i], n + 1) > 0
    BY <1>3, <1>5
  <2>2. \A j : j \in Around(s, n + 2) <=> j \in Around(s, n + 1) \/ j = n + 1
    BY <1>2, <1>4, <1>5, <2>1
  <2> QED
    BY <1>1, <1>3, <1>5, <2>2
<1>6. CASE s[n + 1].kind = "end"
  <2>1. \A i \in 1 .. L : Surplus(s, stack[i], n + 1) > 0 <=> i \in 1 .. L - 1
    BY <1>3, <1>6
  <2>2. 1 .. L - 1 \subseteq 1 .. L
    OBVIOUS
  <2>3. \A j : j \in Around(s, n + 2) <=> \E i \in 1 .. L - 1 : j = stack[i]
    BY <1>4, <1>6, <2>1, <2>2
  <2>4. Around(s, n + 2) = {stack[i] : i \in 1 .. L - 1}
    BY <2>3
  <2> QED
    BY <1>1, <1>3, <1>6, <2>4
<1>7. CASE s[n + 1].kind \notin {"start", "end"}
  <2>1. \A i \in 1 .. L : Surplus(s, stack[i], n + 1) > 0
    BY <1>3, <1>7
  <2>2. \A j : j \in Around(s, n + 2) <=> j \in Around(s, n + 1)
    BY <1>2, <1>4, <1>7, <2>1
  <2> QED
    BY <1>1, <1>3, <1>7, <2>2
<1> QED
  BY <1>5, <1>6, <1>7

\* Other events leave a pass where it is.
LEMMA ReadingOther ==
  ASSUME NEW r, NEW s, NEW n \in Nat, Reading(r, s, n), s[n + 1].kind \notin {"start", "end"},
         NEW q, q \in [open : Seq(SvgNames), suppressed : Nat, foreign : Nat, roots : Nat],
         q.open = r.open, q.suppressed = r.suppressed, q.foreign = r.foreign
  PROVE  Reading(q, s, n + 1)
<1>1. PICK stack : Stacked(stack, r, s, n)
  BY DEF Reading
<1>2. Len(r.open) \in Nat
  BY DEF Reading
<1>3. /\ Around(s, n + 2) = Around(s, n + 1)
      /\ \A i \in 1 .. Len(r.open) : Surplus(s, stack[i], n + 1) = Len(r.open) - i + 1
  BY <1>1, <1>2, AroundAfter
<1>4. Stacked(stack, q, s, n + 1)
  <2>1. stack \in [1 .. Len(q.open) -> 1 .. n + 1]
    BY <1>1 DEF Stacked
  <2>2. Around(s, n + 1 + 1) = {stack[i] : i \in 1 .. Len(q.open)}
    BY <1>1, <1>3 DEF Stacked
  <2> QED
    BY <1>1, <1>3, <2>1, <2>2 DEF Stacked
<1>5. InForeign(q) <=> InForeign(r)
  BY DEF InForeign
<1> QED
  BY <1>4, <1>5 DEF Reading

LEMMA ReadingTag ==
  ASSUME NEW s, NEW n \in Nat, Reading(reader, s, n), IsTag(s, n + 1), s[n + 1].tag \in Tags
  PROVE  Reading(ReadTag(s[n + 1]), s, n + 1)
<1>1. PICK e : e = s[n + 1]
  OBVIOUS
<1>2. /\ reader \in [open : Seq(SvgNames), suppressed : Nat, foreign : Nat, roots : Nat]
      /\ reader.suppressed <= Len(reader.open)
      /\ reader.foreign = IF InForeign(reader) THEN 1 ELSE 0
  BY DEF Reading
<1>3. PICK roots \in Nat : roots = reader.roots + (IF AtTop THEN 1 ELSE 0)
  BY <1>2
<1>4. e.kind \in {"start", "empty"} /\ e.tag.name \in SvgNames
  BY <1>1 DEF IsTag, SvgNames
<1>5. CASE e.kind = "empty"
  <2>1. ReadTag(e) = [reader EXCEPT !.roots = roots]
    BY <1>3, <1>5 DEF ReadTag
  <2>2. PICK q : q = ReadTag(e)
    OBVIOUS
  <2>3. /\ q \in [open : Seq(SvgNames), suppressed : Nat, foreign : Nat, roots : Nat]
        /\ q.open = reader.open /\ q.suppressed = reader.suppressed /\ q.foreign = reader.foreign
    BY <1>2, <2>1, <2>2
  <2>4. s[n + 1].kind \notin {"start", "end"}
    BY <1>1, <1>5
  <2>5. Reading(q, s, n + 1)
    BY <2>3, <2>4, ReadingOther
  <2> QED
    BY <1>1, <2>2, <2>5
<1>6. CASE e.kind = "start"
  <2>1. PICK name \in SvgNames : name = e.tag.name
    BY <1>4
  <2>2. PICK q : q = ReadTag(e)
    OBVIOUS
  <2>3. PICK stack : Stacked(stack, reader, s, n)
    BY DEF Reading
  <2>4. PICK L \in Nat : L = Len(reader.open)
    BY <1>2
  <2>5. /\ q.open = Append(reader.open, name)
        /\ q.suppressed = IF Skips(name) THEN reader.suppressed + 1 ELSE 0
        /\ q.foreign = reader.foreign + (IF ~Skips(name) /\ name = "foreignObject" THEN 1 ELSE 0)
        /\ q = [open |-> q.open, suppressed |-> q.suppressed, foreign |-> q.foreign, roots |-> roots]
    BY <1>3, <1>6, <2>1, <2>2 DEF ReadTag
  <2>6. q.open \in Seq(SvgNames) /\ Longer(reader.open, name)
    BY <1>2, <2>5, LongerOf
  <2>7. Len(q.open) = L + 1 /\ q.open[L + 1] = name /\ \A i \in 1 .. L : q.open[i] = reader.open[i]
    BY <2>4, <2>5, <2>6 DEF Longer
  <2>8. q \in [open : Seq(SvgNames), suppressed : Nat, foreign : Nat, roots : Nat]
        /\ q.suppressed <= L + 1
    <3>1. q.suppressed \in Nat /\ q.suppressed <= L + 1
      BY <1>2, <2>4, <2>5
    <3>2. q.foreign \in Nat
      BY <1>2, <2>5
    <3>3. PICK u \in Nat, f \in Nat : u = q.suppressed /\ f = q.foreign
      BY <3>1, <3>2
    <3>4. PICK o \in Seq(SvgNames) : o = q.open
      BY <2>6
    <3>5. q = [open |-> o, suppressed |-> u, foreign |-> f, roots |-> roots]
      BY <2>5, <3>3, <3>4
    <3> QED
      BY <3>1, <3>5
  <2>9. Skips(name) <=> ~IsKept(s, n + 1)
    BY <1>1, <2>1, KeptUnlessSkipped
  <2>10. /\ stack \in [1 .. L -> 1 .. n]
         /\ Around(s, n + 1) = {stack[i] : i \in 1 .. L}
         /\ \A i \in 1 .. L :
              /\ s[stack[i]].kind = "start" /\ s[stack[i]].tag.name = reader.open[i]
              /\ Around(s, stack[i]) = {stack[j] : j \in 1 .. i - 1}
              /\ IsKept(s, stack[i]) <=> i <= L - reader.suppressed
    BY <2>3, <2>4 DEF Stacked
  <2>11. /\ Around(s, n + 2) = Around(s, n + 1) \cup {n + 1}
         /\ \A i \in 1 .. L : Surplus(s, stack[i], n + 1) = (L + 1) - i + 1
    BY <1>1, <1>2, <1>6, <2>3, <2>4, AroundAfter
  <2>12. Surplus(s, n + 1, n + 1) = 1
    <3>1. n + 1 \in Nat \ {0} /\ n + 1 <= n + 1
      OBVIOUS
    <3> QED
      BY <1>1, <1>6, <3>1, SurplusStep
  <2>13. ~Skips(name) => reader.suppressed = 0 /\ (name = "foreignObject" => reader.foreign = 0)
    BY <1>2 DEF Skips, IsSafeForeign
  <2>14. PICK longer : /\ longer \in [1 .. L + 1 -> 1 .. n + 1] /\ longer[L + 1] = n + 1
                        /\ \A i \in 1 .. L : longer[i] = stack[i]
    <3> DEFINE so == [i \in 1 .. L + 1 |-> IF i = L + 1 THEN n + 1 ELSE stack[i]]
    <3>1. /\ so \in [1 .. L + 1 -> 1 .. n + 1] /\ so[L + 1] = n + 1
          /\ \A i \in 1 .. L : so[i] = stack[i]
      BY <2>10
    <3> HIDE DEF so
    <3> QED
      BY <3>1
  <2>15. \A i \in 1 .. L + 1 : i \in 1 .. L \/ i = L + 1
    OBVIOUS
  <2>16. 1 .. L \subseteq 1 .. L + 1 /\ L + 1 \in 1 .. L + 1
    OBVIOUS
  <2>17. Around(s, n + 1 + 1) = {longer[i] : i \in 1 .. L + 1}
    <3>1. \A j : j \in Around(s, n + 2) <=> \E i \in 1 .. L + 1 : j = longer[i]
      <4>1. \A j : j \in Around(s, n + 2) <=> (\E i \in 1 .. L : j = stack[i]) \/ j = n + 1
        BY <2>10, <2>11
      <4> QED
        BY <4>1, <2>14, <2>15, <2>16
    <3>2. Around(s, n + 2) = {longer[i] : i \in 1 .. L + 1}
      BY <3>1
    <3> QED
      BY <3>2
  <2>18. ASSUME NEW i \in 1 .. L + 1
         PROVE  EntryTo(L + 1, longer, q, s, n + 1, i)
    <3>1. \A j \in 1 .. i - 1 : j \in 1 .. L /\ longer[j] = stack[j]
      BY <2>14
    <3>2. {longer[j] : j \in 1 .. i - 1} = {stack[j] : j \in 1 .. i - 1}
      BY <3>1
    <3>3. CASE i \in 1 .. L
      <4>1. longer[i] = stack[i]
        BY <2>14, <3>3
      <4>2. IsKept(s, stack[i]) <=> i <= L - reader.suppressed
        BY <2>10, <3>3
      <4>3. IsKept(s, longer[i]) <=> i <= (L + 1) - q.suppressed
        <5>1. CASE Skips(name)
          BY <1>2, <2>5, <3>3, <4>1, <4>2, <5>1
        <5>2. CASE ~Skips(name)
          BY <2>5, <2>13, <3>3, <4>1, <4>2, <5>2
        <5> QED
          BY <5>1, <5>2
      <4>4. Around(s, longer[i]) = {longer[j] : j \in 1 .. i - 1}
        BY <2>10, <3>2, <3>3, <4>1
      <4> QED
        <5>1. /\ s[longer[i]].kind = "start" /\ s[longer[i]].tag.name = q.open[i]
              /\ Surplus(s, longer[i], n + 1) = (L + 1) - i + 1
          BY <2>7, <2>10, <2>11, <3>3, <4>1
        <5> QED
          BY <4>3, <4>4, <5>1, EntryIs
    <3>4. CASE i = L + 1
      <4>1. longer[i] = n + 1 /\ i - 1 = L
        BY <2>14, <3>4
      <4>2. Around(s, n + 1) = {longer[j] : j \in 1 .. i - 1}
        BY <2>10, <3>2, <4>1
      <4>3. IsKept(s, n + 1) <=> i <= (L + 1) - q.suppressed
        BY <1>2, <2>5, <2>9, <3>4
      <4> QED
        <5>1. /\ s[longer[i]].kind = "start" /\ s[longer[i]].tag.name = q.open[i]
              /\ Surplus(s, longer[i], n + 1) = (L + 1) - i + 1
          BY <1>1, <1>6, <2>1, <2>7, <2>12, <3>4, <4>1
        <5>2. IsKept(s, longer[i]) <=> i <= (L + 1) - q.suppressed
          BY <4>1, <4>3
        <5>3. Around(s, longer[i]) = {longer[j] : j \in 1 .. i - 1}
          BY <4>1, <4>2
        <5> QED
          BY <5>1, <5>2, <5>3, EntryIs
    <3> QED
      BY <3>3, <3>4
  <2>19. Stacked(longer, q, s, n + 1)
    <3>1. StackedTo(L + 1, longer, q, s, n + 1)
      BY <2>14, <2>17, <2>18, Zenon DEF StackedTo
    <3> QED
      BY <2>7, <3>1, StackedIs
  <2>20. q.foreign = IF InForeign(q) THEN 1 ELSE 0
    <3>1. CASE Skips(name)
      <4>1. 1 .. Len(q.open) - q.suppressed = 1 .. Len(reader.open) - reader.suppressed
        BY <1>2, <2>4, <2>5, <2>7, <3>1
      <4>2. \A i \in 1 .. Len(reader.open) - reader.suppressed : q.open[i] = reader.open[i]
        <5>1. PICK m \in Nat : m = reader.suppressed
          BY <1>2
        <5>2. \A i \in 1 .. L - m : i \in 1 .. L
          OBVIOUS
        <5> QED
          BY <2>4, <2>7, <5>1, <5>2
      <4>3. InForeign(q) <=> InForeign(reader)
        BY <4>1, <4>2 DEF InForeign
      <4> QED
        BY <1>2, <2>5, <3>1, <4>3
    <3>2. CASE ~Skips(name)
      <4>1. reader.suppressed = 0 /\ q.suppressed = 0
        BY <2>5, <2>13, <3>2
      <4>2. InForeign(q) <=> InForeign(reader) \/ name = "foreignObject"
        <5>1. Len(q.open) - q.suppressed = L + 1 /\ Len(reader.open) - reader.suppressed = L
          BY <2>4, <2>7, <4>1
        <5>2. InForeign(q) <=> \E i \in 1 .. L + 1 : q.open[i] = "foreignObject"
          BY <5>1 DEF InForeign
        <5>3. InForeign(reader) <=> \E i \in 1 .. L : reader.open[i] = "foreignObject"
          BY <5>1 DEF InForeign
        <5> QED
          BY <2>7, <2>15, <2>16, <5>2, <5>3
      <4>3. name = "foreignObject" => ~InForeign(reader)
        BY <1>2, <2>13, <3>2
      <4> QED
        BY <1>2, <2>5, <3>2, <4>2, <4>3
    <3> QED
      BY <3>1, <3>2
  <2>21. Reading(q, s, n + 1)
    BY <2>7, <2>8, <2>19, <2>20 DEF Reading
  <2> QED
    BY <1>1, <2>2, <2>21
<1> QED
  BY <1>4, <1>5, <1>6

LEMMA ReadingEnd ==
  ASSUME NEW s, NEW n \in Nat, Reading(reader, s, n), s[n + 1].kind = "end", ~AtTop
  PROVE  Reading(ReadEnd, s, n + 1) /\ Around(s, n + 1) # {}
<1>1. /\ reader \in [open : Seq(SvgNames), suppressed : Nat, foreign : Nat, roots : Nat]
      /\ reader.suppressed <= Len(reader.open)
      /\ reader.foreign = IF InForeign(reader) THEN 1 ELSE 0
  BY DEF Reading
<1>2. PICK stack : Stacked(stack, reader, s, n)
  BY DEF Reading
<1>3. /\ Front(reader.open) \in Seq(SvgNames) /\ Shorter(reader.open)
      /\ Last(reader.open) = reader.open[Len(reader.open)]
  BY <1>1, ShorterOf DEF AtTop, Last
<1>4. PICK L \in Nat \ {0} : L = Len(reader.open)
  BY <1>3 DEF Shorter
<1>5. PICK K \in Nat : L = K + 1 /\ K = L - 1
  <2>1. L - 1 \in Nat /\ L = (L - 1) + 1
    OBVIOUS
  <2> QED
    BY <2>1
<1>6. Len(Front(reader.open)) = K /\ \A i \in 1 .. K : Front(reader.open)[i] = reader.open[i]
  BY <1>3, <1>4, <1>5 DEF Shorter
<1>7. PICK u \in Nat : u = reader.suppressed /\ u <= L
  BY <1>1, <1>4
<1>8. PICK v \in Nat : v = (IF u > 0 THEN u - 1 ELSE 0) /\ v <= K
  BY <1>5, <1>7
<1>9. PICK q : q = ReadEnd
  OBVIOUS
<1>10. /\ q.open = Front(reader.open) /\ q.suppressed = v /\ q.roots = reader.roots
       /\ q.foreign = IF u = 0 /\ Last(reader.open) = "foreignObject"
                      THEN reader.foreign - 1 ELSE reader.foreign
       /\ q = [open |-> q.open, suppressed |-> q.suppressed, foreign |-> q.foreign, roots |-> q.roots]
  BY <1>1, <1>7, <1>8, <1>9 DEF ReadEnd
<1>11. /\ stack \in [1 .. L -> 1 .. n]
       /\ Around(s, n + 1) = {stack[i] : i \in 1 .. L}
       /\ \A i \in 1 .. L :
            /\ s[stack[i]].kind = "start" /\ s[stack[i]].tag.name = reader.open[i]
            /\ Around(s, stack[i]) = {stack[j] : j \in 1 .. i - 1}
            /\ IsKept(s, stack[i]) <=> i <= L - u
  BY <1>2, <1>4, <1>7 DEF Stacked
<1>12. /\ Around(s, n + 2) = {stack[i] : i \in 1 .. K}
       /\ \A i \in 1 .. L : Surplus(s, stack[i], n + 1) = K - i + 1
  <2>1. /\ Around(s, n + 2) = {stack[i] : i \in 1 .. Len(reader.open) - 1}
        /\ \A i \in 1 .. Len(reader.open) : Surplus(s, stack[i], n + 1) = Len(reader.open) - 1 - i + 1
    <3>1. Len(reader.open) \in Nat
      BY <1>4
    <3> QED
      BY <1>2, <3>1, AroundAfter
  <2> QED
    BY <1>4, <1>5, <2>1
<1>13. 1 .. K \subseteq 1 .. L /\ L \in 1 .. L
  BY <1>5
<1>14. PICK shorter : shorter \in [1 .. K -> 1 .. n + 1] /\ \A i \in 1 .. K : shorter[i] = stack[i]
  <2> DEFINE so == [i \in 1 .. K |-> stack[i]]
  <2>1. so \in [1 .. K -> 1 .. n + 1] /\ \A i \in 1 .. K : so[i] = stack[i]
    BY <1>11, <1>13
  <2> HIDE DEF so
  <2> QED
    BY <2>1
<1>15. Around(s, n + 1 + 1) = {shorter[i] : i \in 1 .. K}
  <2>1. {shorter[i] : i \in 1 .. K} = {stack[i] : i \in 1 .. K}
    BY <1>14
  <2>2. n + 1 + 1 = n + 2
    OBVIOUS
  <2>3. Around(s, n + 2) = {shorter[i] : i \in 1 .. K}
    BY <1>12, <2>1
  <2> QED
    BY <2>2, <2>3
<1>16. ASSUME NEW i \in 1 .. K PROVE EntryTo(K, shorter, q, s, n + 1, i)
  <2>1. shorter[i] = stack[i] /\ i \in 1 .. L /\ q.open[i] = reader.open[i]
    BY <1>6, <1>10, <1>13, <1>14
  <2>2. Surplus(s, shorter[i], n + 1) = K - i + 1
    BY <1>5, <1>12, <2>1
  <2>3. {shorter[j] : j \in 1 .. i - 1} = {stack[j] : j \in 1 .. i - 1}
    BY <1>14
  <2>4. Around(s, shorter[i]) = {shorter[j] : j \in 1 .. i - 1}
    BY <1>11, <2>1, <2>3
  <2>5. IsKept(s, shorter[i]) <=> i <= K - q.suppressed
    BY <1>5, <1>7, <1>8, <1>10, <1>11, <2>1
  <2>6. s[shorter[i]].kind = "start" /\ s[shorter[i]].tag.name = q.open[i]
    BY <1>11, <2>1
  <2> QED
    BY <2>2, <2>4, <2>5, <2>6, EntryIs
<1>17. Stacked(shorter, q, s, n + 1)
  <2>1. StackedTo(K, shorter, q, s, n + 1)
    BY <1>14, <1>15, <1>16, Zenon DEF StackedTo
  <2> QED
    BY <1>6, <1>10, <2>1, StackedIs
<1>18. q.foreign = IF InForeign(q) THEN 1 ELSE 0
  <2>1. CASE u > 0
    <3>1. Len(q.open) - q.suppressed = L - u /\ Len(reader.open) - reader.suppressed = L - u
      BY <1>4, <1>5, <1>6, <1>7, <1>8, <1>10, <2>1
    <3>2. \A i \in 1 .. L - u : q.open[i] = reader.open[i]
      BY <1>5, <1>6, <1>7, <1>10, <2>1
    <3>3. InForeign(q) <=> InForeign(reader)
      BY <3>1, <3>2 DEF InForeign
    <3> QED
      BY <1>1, <1>10, <2>1, <3>3
  <2>2. CASE u = 0
    <3>1. Len(q.open) - q.suppressed = K /\ Len(reader.open) - reader.suppressed = L
      BY <1>4, <1>5, <1>6, <1>7, <1>8, <1>10, <2>2
    <3>2. InForeign(q) <=> \E i \in 1 .. K : reader.open[i] = "foreignObject"
      BY <1>6, <1>10, <3>1 DEF InForeign
    <3>3. InForeign(reader) <=> \E i \in 1 .. L : reader.open[i] = "foreignObject"
      BY <3>1 DEF InForeign
    <3>4. \A i \in 1 .. L : i \in 1 .. K \/ i = L
      BY <1>5
    <3>5. InForeign(reader) <=> InForeign(q) \/ reader.open[L] = "foreignObject"
      BY <1>13, <3>2, <3>3, <3>4
    <3>6. reader.open[L] = "foreignObject" => ~InForeign(q)
      <4>1. SUFFICES ASSUME reader.open[L] = "foreignObject",
                            NEW i \in 1 .. K, reader.open[i] = "foreignObject"
                     PROVE  FALSE
        BY <3>2
      <4>2. IsKept(s, stack[L]) /\ s[stack[L]].tag.name = "foreignObject"
        BY <1>7, <1>11, <1>13, <2>2, <4>1
      <4>3. stack[i] \in Around(s, stack[L]) /\ s[stack[i]].tag.name = "foreignObject"
        BY <1>5, <1>11, <1>13, <4>1
      <4> QED
        BY <4>2, <4>3 DEF IsKept, Safe, IsSafeForeign
    <3> QED
      BY <1>1, <1>4, <1>3, <1>10, <2>2, <3>5, <3>6
  <2> QED
    BY <1>7, <2>1, <2>2
<1>19. q \in [open : Seq(SvgNames), suppressed : Nat, foreign : Nat, roots : Nat]
  <2>1. q.foreign \in Nat /\ q.roots \in Nat
    BY <1>1, <1>10, <1>18
  <2> QED
    BY <1>3, <1>10, <2>1
<1>20. Around(s, n + 1) # {}
  <2>1. stack[L] \in Around(s, n + 1)
    BY <1>11, <1>13
  <2> QED
    BY <2>1
<1>21. Reading(q, s, n + 1)
  BY <1>6, <1>8, <1>10, <1>17, <1>18, <1>19 DEF Reading
<1> QED
  BY <1>9, <1>20, <1>21

-----------------------------------------------------------------------------
(* Ids and the elements that have them *)

Bearer(s, id, k) == IsKept(s, k) /\ s[k].tag.id = id

\* The elements up to k that are kept and have an id.
Count(s, id, k) == Cardinality({j \in 1 .. k : Bearer(s, id, j)})

LEMMA CountIs ==
  ASSUME NEW s, NEW id, NEW k \in Nat
  PROVE  /\ Count(s, id, k) \in Nat /\ Count(s, id, 0) = 0
         /\ Bearer(s, id, k + 1) => Count(s, id, k + 1) = Count(s, id, k) + 1
         /\ ~Bearer(s, id, k + 1) => Count(s, id, k + 1) = Count(s, id, k)
<1> DEFINE Of(n) == {j \in 1 .. n : Bearer(s, id, j)}
<1>1. IsFiniteSet(Of(k)) /\ Cardinality(Of(k)) \in Nat
  <2>1. IsFiniteSet(1 .. k)
    BY FS_Interval
  <2> QED
    BY <2>1, FS_Subset, FS_CardinalityType
<1>2. Of(0) = {} /\ k + 1 \notin Of(k)
  <2>1. 1 .. 0 = {}
    OBVIOUS
  <2> QED
    BY <2>1
<1>3. (Bearer(s, id, k + 1) => Of(k + 1) = Of(k) \cup {k + 1})
      /\ (~Bearer(s, id, k + 1) => Of(k + 1) = Of(k))
  <2>1. 1 .. k + 1 = (1 .. k) \cup {k + 1}
    OBVIOUS
  <2> QED
    BY <2>1
<1>4. Count(s, id, k) = Cardinality(Of(k)) /\ Count(s, id, k + 1) = Cardinality(Of(k + 1))
      /\ Count(s, id, 0) = Cardinality(Of(0))
  BY DEF Count
<1> HIDE DEF Of
<1>5. Cardinality(Of(k) \cup {k + 1}) = Cardinality(Of(k)) + 1
  BY <1>1, <1>2, FS_AddElement
<1>6. Cardinality({}) = 0
  BY FS_EmptySet
<1> QED
  BY <1>1, <1>2, <1>3, <1>4, <1>5, <1>6

LEMMA CountRises ==
  ASSUME NEW s, NEW id, NEW f \in Nat \ {0}, NEW g \in Nat, f < g, Bearer(s, id, f)
  PROVE  Count(s, id, f - 1) # Count(s, id, g - 1)
<1> DEFINE Of(n) == {j \in 1 .. n : Bearer(s, id, j)}
<1>1. \A n \in Nat : IsFiniteSet(Of(n)) /\ Cardinality(Of(n)) \in Nat
  <2>1. ASSUME NEW n \in Nat PROVE IsFiniteSet(Of(n)) /\ Cardinality(Of(n)) \in Nat
    <3>1. IsFiniteSet(1 .. n)
      BY FS_Interval
    <3> QED
      BY <3>1, FS_Subset, FS_CardinalityType
  <2> QED
    BY <2>1
<1>2. f - 1 \in Nat /\ g - 1 \in Nat
  OBVIOUS
<1>3. f \notin Of(f - 1) /\ Of(f - 1) \cup {f} \subseteq Of(g - 1)
  OBVIOUS
<1>4. Count(s, id, f - 1) = Cardinality(Of(f - 1)) /\ Count(s, id, g - 1) = Cardinality(Of(g - 1))
  BY DEF Count
<1> HIDE DEF Of
<1>5. Cardinality(Of(f - 1) \cup {f}) = Cardinality(Of(f - 1)) + 1
  BY <1>1, <1>2, <1>3, FS_AddElement
<1>6. Cardinality(Of(f - 1) \cup {f}) <= Cardinality(Of(g - 1))
  BY <1>1, <1>2, <1>3, FS_Subset
<1>7. Cardinality(Of(f - 1)) \in Nat /\ Cardinality(Of(g - 1)) \in Nat
  BY <1>1, <1>2
<1> QED
  BY <1>4, <1>5, <1>6, <1>7

\* The element an id stands for, without saying how it is chosen.
Better(s, k, j) ==
  IF s[k].kind = "start" <=> s[j].kind = "start" THEN k <= j ELSE s[k].kind = "start"
IsTarget(s, id, k) ==
  /\ k \in 1 .. Len(s) /\ Bearer(s, id, k)
  /\ \A j \in 1 .. Len(s) : Bearer(s, id, j) => Better(s, k, j)

LEMMA TargetIs ==
  ASSUME NEW S, NEW s \in Seq(S), NEW id, NEW k, IsTarget(s, id, k)
  PROVE  Bearers(s, id) # {} /\ Target(s, id) = k
<1> DEFINE expanded == {j \in Bearers(s, id) : s[j].kind = "start"}
           chosen == IF expanded # {} THEN expanded ELSE Bearers(s, id)
<1>1. DOMAIN s = 1 .. Len(s) /\ Len(s) \in Nat
  OBVIOUS
<1>2. \A j : j \in Bearers(s, id) <=> j \in 1 .. Len(s) /\ Bearer(s, id, j)
  BY <1>1 DEF Bearers, Bearer
<1>3. k \in chosen /\ \A j \in chosen : k <= j
  <2>1. k \in Bearers(s, id)
    BY <1>2 DEF IsTarget
  <2>2. \A j \in Bearers(s, id) : Better(s, k, j)
    BY <1>2 DEF IsTarget
  <2>3. CASE s[k].kind = "start"
    <3>1. k \in expanded
      BY <2>1, <2>3
    <3>2. \A j \in expanded : k <= j
      BY <2>2, <2>3 DEF Better
    <3> QED
      BY <3>1, <3>2
  <2>4. CASE s[k].kind # "start"
    <3>1. expanded = {}
      BY <2>2, <2>4 DEF Better
    <3>2. \A j \in Bearers(s, id) : k <= j
      BY <2>2, <2>4 DEF Better
    <3> QED
      BY <2>1, <3>1, <3>2
  <2> QED
    BY <2>3, <2>4
<1>4. \A j \in chosen : j \in Nat
  BY <1>1, <1>2
<1>5. Target(s, id) = CHOOSE i \in chosen : \A j \in chosen : i <= j
  BY Zenon DEF Target
<1>6. Bearers(s, id) # {}
  BY <1>2 DEF IsTarget
<1> HIDE DEF chosen
<1>7. ASSUME NEW i \in chosen, \A j \in chosen : i <= j PROVE i = k
  <2>1. i <= k /\ k <= i /\ i \in Nat /\ k \in Nat
    BY <1>3, <1>4, <1>7
  <2> QED
    BY <2>1
<1>8. (CHOOSE i \in chosen : \A j \in chosen : i <= j) = k
  BY <1>3, <1>7
<1> QED
  BY <1>5, <1>6, <1>8

\* What inspect_svg knows of an id when it has read s: p is the plan for it, and top the
\* last number given to one.
PlanRight(s, p, top, id) ==
  \/ p.new = NoId /\ \A k \in 1 .. Len(s) : ~Bearer(s, id, k)
  \/ \E k : /\ IsTarget(s, id, k)
            /\ p.new \in 0 .. top /\ (p.new = RootId <=> Bearer(s, id, 1))
            /\ p.retained = Count(s, id, k - 1)
            /\ p.expanded <=> s[k].kind = "start"

LEMMA PlanIs ==
  ASSUME NEW s, NEW p, NEW top, NEW id, NEW k, IsTarget(s, id, k),
         p.new \in 0 .. top, p.new = RootId <=> Bearer(s, id, 1),
         p.retained = Count(s, id, k - 1), p.expanded <=> s[k].kind = "start"
  PROVE  PlanRight(s, p, top, id)
  BY DEF PlanRight

\* The source t is s and one event.
Grown(s, t, n) ==
  n \in Nat /\ Len(s) = n /\ Len(t) = n + 1 /\ \A i \in 1 .. n : t[i] = s[i]

LEMMA GrownIs ==
  ASSUME NEW s, NEW t, NEW n, Grown(s, t, n), NEW id
  PROVE  /\ n \in Nat /\ Len(s) = n /\ Len(t) = n + 1 /\ \A i \in 1 .. n : t[i] = s[i]
         /\ \A k \in 1 .. n : Bearer(t, id, k) <=> Bearer(s, id, k)
         /\ \A k \in 0 .. n : Count(t, id, k) = Count(s, id, k)
<1>1. n \in Nat /\ Len(s) = n /\ Len(t) = n + 1 /\ \A i \in 1 .. n : t[i] = s[i]
  BY DEF Grown
<1>2. ASSUME NEW k \in 1 .. n PROVE Bearer(t, id, k) <=> Bearer(s, id, k)
  <2>1. IsKept(t, k) <=> IsKept(s, k)
    BY <1>1, SameBeginning
  <2> QED
    BY <1>1, <2>1 DEF Bearer
<1>3. ASSUME NEW k \in 0 .. n PROVE Count(t, id, k) = Count(s, id, k)
  <2>1. {j \in 1 .. k : Bearer(t, id, j)} = {j \in 1 .. k : Bearer(s, id, j)}
    BY <1>1, <1>2
  <2> QED
    BY <2>1 DEF Count
<1> QED
  BY <1>1, <1>2, <1>3

LEMMA CountGrown ==
  ASSUME NEW s, NEW t, NEW n, Grown(s, t, n), NEW id
  PROVE  Count(t, id, n) = Count(s, id, n)
<1>1. n \in 0 .. n
  BY DEF Grown
<1>2. \A k \in 0 .. n : Count(t, id, k) = Count(s, id, k)
  BY GrownIs
<1> QED
  BY <1>1, <1>2

LEMMA PlanSame ==
  ASSUME NEW s, NEW t, NEW n, Grown(s, t, n), NEW p, NEW top \in Nat, NEW high \in Nat, top <= high,
         NEW id, ~Bearer(t, id, n + 1), PlanRight(s, p, top, id)
  PROVE  PlanRight(t, p, high, id)
<1>1. n \in Nat /\ Len(s) = n /\ Len(t) = n + 1 /\ \A i \in 1 .. n : t[i] = s[i]
  BY GrownIs
<1>2. /\ \A k \in 1 .. n : Bearer(t, id, k) <=> Bearer(s, id, k)
      /\ \A k \in 0 .. n : Count(t, id, k) = Count(s, id, k)
  BY GrownIs
<1>3. \A k \in 1 .. n + 1 : Bearer(t, id, k) => k \in 1 .. n
  BY <1>1
<1>4. CASE p.new = NoId /\ \A k \in 1 .. Len(s) : ~Bearer(s, id, k)
  BY <1>1, <1>2, <1>3, <1>4 DEF PlanRight
<1>5. ASSUME NEW k, IsTarget(s, id, k), p.new \in 0 .. top, p.new = RootId <=> Bearer(s, id, 1),
             p.retained = Count(s, id, k - 1), p.expanded <=> s[k].kind = "start"
      PROVE  PlanRight(t, p, high, id)
  <2>1. k \in 1 .. n /\ Bearer(s, id, k) /\ \A j \in 1 .. n : Bearer(s, id, j) => Better(s, k, j)
    BY <1>1, <1>5 DEF IsTarget
  <2>2. IsTarget(t, id, k)
    <3>1. ASSUME NEW j \in 1 .. n + 1, Bearer(t, id, j) PROVE Better(t, k, j)
      <4>1. j \in 1 .. n /\ Bearer(s, id, j)
        BY <1>2, <1>3, <3>1
      <4>2. t[j] = s[j] /\ t[k] = s[k] /\ Better(s, k, j)
        BY <1>1, <2>1, <4>1
      <4> QED
        BY <4>2 DEF Better
    <3>2. k \in 1 .. n + 1 /\ Bearer(t, id, k)
      BY <1>1, <1>2, <2>1
    <3> QED
      BY <1>1, <3>1, <3>2 DEF IsTarget
  <2>3. Bearer(t, id, 1) <=> Bearer(s, id, 1)
    <3>1. 1 \in 1 .. n
      BY <1>1, <2>1
    <3> QED
      BY <1>2, <3>1
  <2>4. k - 1 \in 0 .. n
    BY <1>1, <2>1
  <2>5. p.retained = Count(t, id, k - 1) /\ (p.expanded <=> t[k].kind = "start")
    BY <1>1, <1>2, <1>5, <2>1, <2>4
  <2>6. p.new \in 0 .. high /\ (p.new = RootId <=> Bearer(t, id, 1))
    BY <1>5, <2>3
  <2> QED
    BY <2>2, <2>5, <2>6 DEF PlanRight
<1> QED
  BY <1>4, <1>5 DEF PlanRight

\* The plan for an id when one more element has it.
Collected(p, count, root, top, opens) ==
  IF p.new = NoId
    THEN [new |-> IF root THEN RootId ELSE top + 1, retained |-> count, expanded |-> opens]
  ELSE IF opens /\ ~p.expanded THEN [p EXCEPT !.retained = count, !.expanded = TRUE]
  ELSE p

Plans == [new : Int, retained : Nat, expanded : BOOLEAN]

CollectedAt(s, t, n, p, top, high, id, root, q) ==
  /\ Grown(s, t, n) /\ Bearer(t, id, n + 1) /\ PlanRight(s, p, top, id)
  /\ p \in Plans /\ top \in Nat /\ high = IF p.new # NoId \/ root THEN top ELSE top + 1
  /\ root \in BOOLEAN /\ (root <=> n = 0)
  /\ q = Collected(p, Count(s, id, n), root, top, t[n + 1].kind = "start")

CollectedRight(t, n, p, top, high, id, q) ==
  /\ PlanRight(t, q, high, id) /\ q \in Plans
  /\ q.new # NoId /\ (q.new = p.new \/ q.new > top \/ n = 0)

LEMMA PlanCollected ==
  ASSUME NEW s, NEW t, NEW n, NEW p, NEW top, NEW high, NEW id, NEW root, NEW q,
         CollectedAt(s, t, n, p, top, high, id, root, q)
  PROVE  CollectedRight(t, n, p, top, high, id, q)
<1> /\ Grown(s, t, n) /\ Bearer(t, id, n + 1) /\ PlanRight(s, p, top, id)
    /\ p \in Plans /\ top \in Nat /\ high = IF p.new # NoId \/ root THEN top ELSE top + 1
    /\ root \in BOOLEAN /\ (root <=> n = 0)
    /\ q = Collected(p, Count(s, id, n), root, top, t[n + 1].kind = "start")
  BY Zenon DEF CollectedAt
<1> SUFFICES /\ PlanRight(t, q, high, id) /\ q \in Plans
             /\ q.new # NoId /\ (q.new = p.new \/ q.new > top \/ n = 0)
  BY DEF CollectedRight
<1>1. n \in Nat /\ Len(s) = n /\ Len(t) = n + 1 /\ \A i \in 1 .. n : t[i] = s[i]
  BY GrownIs
<1>2. /\ \A k \in 1 .. n : Bearer(t, id, k) <=> Bearer(s, id, k)
      /\ \A k \in 0 .. n : Count(t, id, k) = Count(s, id, k)
  BY GrownIs
<1>3. PICK c \in Nat : c = Count(s, id, n)
  BY <1>1, CountIs
<1>4. PICK opens \in BOOLEAN : opens <=> t[n + 1].kind = "start"
  OBVIOUS
<1>5. Count(t, id, n) = c /\ n + 1 \in 1 .. n + 1
  BY <1>1, <1>2, <1>3
<1>6. q = Collected(p, c, root, top, opens)
  BY <1>3, <1>4
<1>7. CASE p.new = NoId /\ \A k \in 1 .. Len(s) : ~Bearer(s, id, k)
  <2>1. q = [new |-> IF root THEN RootId ELSE top + 1, retained |-> c, expanded |-> opens]
    BY <1>6, <1>7 DEF Collected
  <2>2. /\ q \in Plans /\ q.new = (IF root THEN RootId ELSE top + 1) /\ q.retained = c
        /\ q.expanded = opens
    BY <2>1 DEF Plans, RootId
  <2>3. \A j \in 1 .. n + 1 : Bearer(t, id, j) => j = n + 1
    <3>1. \A j \in 1 .. n + 1 : j \in 1 .. n \/ j = n + 1
      BY <1>1
    <3> QED
      BY <1>1, <1>2, <1>7, <3>1
  <2>4. IsTarget(t, id, n + 1)
    BY <1>1, <1>5, <2>3 DEF IsTarget, Better
  <2>5. q.new = RootId <=> Bearer(t, id, 1)
    <3>1. Bearer(t, id, 1) <=> n = 0
      <4>1. 1 \in 1 .. n + 1
        BY <1>1
      <4> QED
        BY <1>1, <2>3, <4>1
    <3> QED
      BY <2>2, <3>1 DEF RootId
  <2>6. q.new \in 0 .. high
    BY <1>7, <2>2 DEF RootId
  <2>7. q.retained = Count(t, id, (n + 1) - 1)
    <3>1. (n + 1) - 1 = n
      BY <1>1
    <3> QED
      BY <1>5, <2>2, <3>1
  <2>8. PlanRight(t, q, high, id)
    <3>1. q.expanded <=> t[n + 1].kind = "start"
      BY <1>4, <2>2
    <3> QED
      BY <2>4, <2>5, <2>6, <2>7, <3>1, PlanIs
  <2> QED
    BY <2>2, <2>8 DEF NoId, RootId
<1>8. ASSUME NEW k, IsTarget(s, id, k), p.new \in 0 .. top, p.new = RootId <=> Bearer(s, id, 1),
             p.retained = Count(s, id, k - 1), p.expanded <=> s[k].kind = "start"
      PROVE  /\ PlanRight(t, q, high, id) /\ q \in Plans
             /\ q.new # NoId /\ (q.new = p.new \/ q.new > top \/ n = 0)
  <2>1. k \in 1 .. n /\ Bearer(s, id, k) /\ \A j \in 1 .. n : Bearer(s, id, j) => Better(s, k, j)
    BY <1>1, <1>8 DEF IsTarget
  <2>2. p.new # NoId /\ high = top /\ n # 0
    BY <1>1, <1>8, <2>1 DEF NoId
  <2>3. Bearer(t, id, 1) <=> Bearer(s, id, 1)
    <3>1. 1 \in 1 .. n
      BY <1>1, <2>1
    <3> QED
      BY <1>2, <3>1
  <2>4. \A j \in 1 .. n + 1 : Bearer(t, id, j) => j = n + 1 \/ (j \in 1 .. n /\ Bearer(s, id, j))
    <3>1. \A j \in 1 .. n + 1 : j \in 1 .. n \/ j = n + 1
      BY <1>1
    <3> QED
      BY <1>2, <3>1
  <2>5. \A j \in 1 .. n : t[j] = s[j]
    BY <1>1
  <2>6. CASE opens /\ ~p.expanded
    <3>1. q = [p EXCEPT !.retained = c, !.expanded = TRUE]
      BY <1>6, <2>2, <2>6 DEF Collected
    <3>2. q \in Plans /\ q.new = p.new /\ q.retained = c /\ q.expanded = TRUE
      BY <3>1 DEF Plans
    <3>3. ASSUME NEW j \in 1 .. n + 1, Bearer(t, id, j) PROVE Better(t, n + 1, j)
      <4>1. t[n + 1].kind = "start"
        BY <1>4, <2>6
      <4>2. s[k].kind # "start"
        BY <1>8, <2>6
      <4>3. CASE j = n + 1
        BY <1>1, <4>3 DEF Better
      <4>4. CASE j \in 1 .. n /\ Bearer(s, id, j)
        <5>1. Better(s, k, j)
          BY <2>1, <4>4
        <5>2. t[j].kind # "start"
          BY <2>5, <4>2, <4>4, <5>1 DEF Better
        <5> QED
          BY <4>1, <5>2 DEF Better
      <4> QED
        BY <2>4, <3>3, <4>3, <4>4
    <3>4. IsTarget(t, id, n + 1)
      BY <1>1, <1>5, <3>3 DEF IsTarget
    <3>5. q.retained = Count(t, id, (n + 1) - 1)
      <4>1. (n + 1) - 1 = n
        BY <1>1
      <4> QED
        BY <1>5, <3>2, <4>1
    <3>6. q.expanded <=> t[n + 1].kind = "start"
      BY <1>4, <2>6, <3>2
    <3>7. q.new \in 0 .. high /\ (q.new = RootId <=> Bearer(t, id, 1))
      BY <1>8, <2>2, <2>3, <3>2
    <3>8. PlanRight(t, q, high, id)
      BY <3>4, <3>5, <3>6, <3>7, PlanIs
    <3> QED
      BY <2>2, <3>2, <3>8
  <2>7. CASE ~(opens /\ ~p.expanded)
    <3>1. q = p
      BY <1>6, <2>2, <2>7 DEF Collected
    <3>2. ASSUME NEW j \in 1 .. n + 1, Bearer(t, id, j) PROVE Better(t, k, j)
      <4>1. t[k] = s[k] /\ k \in Nat /\ k <= n
        BY <1>1, <2>1, <2>5
      <4>2. CASE j = n + 1
        <5>1. t[n + 1].kind = "start" => s[k].kind = "start"
          BY <1>4, <1>8, <2>7
        <5> QED
          BY <1>1, <4>1, <4>2, <5>1 DEF Better
      <4>3. CASE j \in 1 .. n /\ Bearer(s, id, j)
        <5>1. Better(s, k, j) /\ t[j] = s[j]
          BY <2>1, <2>5, <4>3
        <5> QED
          BY <4>1, <5>1 DEF Better
      <4> QED
        BY <2>4, <3>2, <4>2, <4>3
    <3>3. k \in 1 .. n + 1 /\ Bearer(t, id, k)
      BY <1>1, <1>2, <2>1
    <3>4. IsTarget(t, id, k)
      BY <1>1, <3>2, <3>3 DEF IsTarget
    <3>5. k - 1 \in 0 .. n
      BY <1>1, <2>1
    <3>6. q.retained = Count(t, id, k - 1)
      BY <1>2, <1>8, <3>1, <3>5
    <3>7. q.expanded <=> t[k].kind = "start"
      BY <1>8, <2>1, <2>5, <3>1
    <3>8. q.new \in 0 .. high /\ (q.new = RootId <=> Bearer(t, id, 1))
      BY <1>8, <2>2, <2>3, <3>1
    <3>9. PlanRight(t, q, high, id)
      BY <3>4, <3>6, <3>7, <3>8 DEF PlanRight
    <3> QED
      BY <2>2, <3>1, <3>9
  <2> QED
    BY <2>6, <2>7
<1> QED
  BY <1>7, <1>8 DEF PlanRight

-----------------------------------------------------------------------------
(* The first pass *)

SvgKinds == {"start", "empty", "text", "end", "doctype"}
SvgEvents == [kind : SvgKinds, tag : Tags \cup {Absent}, rule : Rules \cup {Absent}]
WellFormed(e) ==
  /\ e \in SvgEvents
  /\ e.kind \in {"start", "empty"} => e.tag \in Tags
  /\ e.kind = "text" => e.rule \in Rules

SvgTypes ==
  /\ pass \in {"inspect", "rewrite", "done", "failed"}
  /\ svg \in Seq(SvgEvents) /\ \A k \in 1 .. Len(svg) : WellFormed(svg[k])
  /\ plan \in [Ids -> Plans] /\ nextId \in Nat /\ seen \in [Ids -> Nat]

\* Everything is within the first element, if it was the only root.
RootRight(s) ==
  \A k \in 1 .. Len(s) :
    /\ IsTag(s, k) => k = 1 \/ 1 \in Around(s, k)
    /\ s[k].kind = "end" => Around(s, k) # {}

\* No two ids are given the same new one.
NoTwoAlike(p) ==
  \A i, j \in Ids : p[i].new = p[j].new /\ p[i].new # NoId => i = j

Planned(s, p, top) == (\A id \in Ids : PlanRight(s, p[id], top, id)) /\ NoTwoAlike(p)

CountedTo(c, s, n) == \A id \in Ids : c[id] = Count(s, id, n)

Inspecting ==
  /\ Reading(reader, svg, Len(svg)) /\ CountedTo(seen, svg, Len(svg))
  /\ place = 1 /\ out = << >> /\ sheet = NoSheet
  /\ reader.roots = 0 => svg = << >>
  /\ reader.roots <= 1 => RootRight(svg) /\ Planned(svg, plan, nextId)

LEMMA RootGrows ==
  ASSUME NEW s, NEW t, NEW n, Grown(s, t, n), RootRight(s),
         IsTag(t, n + 1) => n = 0 \/ 1 \in Around(t, n + 1),
         t[n + 1].kind = "end" => Around(t, n + 1) # {}
  PROVE  RootRight(t)
<1>1. n \in Nat /\ Len(s) = n /\ Len(t) = n + 1 /\ \A i \in 1 .. n : t[i] = s[i]
  BY DEF Grown
<1>2. \A k \in 1 .. n + 1 : Around(t, k) = Around(s, k)
  BY <1>1, SameBeginning
<1>3. ASSUME NEW k \in 1 .. n + 1
      PROVE  /\ IsTag(t, k) => k = 1 \/ 1 \in Around(t, k)
             /\ t[k].kind = "end" => Around(t, k) # {}
  <2>1. CASE k = n + 1
    BY <1>1, <2>1
  <2>2. CASE k \in 1 .. n
    <3>1. t[k] = s[k] /\ Around(t, k) = Around(s, k)
      BY <1>1, <1>2, <2>2
    <3>2. /\ IsTag(s, k) => k = 1 \/ 1 \in Around(s, k)
          /\ s[k].kind = "end" => Around(s, k) # {}
      BY <1>1, <2>2 DEF RootRight
    <3> QED
      BY <3>1, <3>2 DEF IsTag
  <2> QED
    BY <1>1, <2>1, <2>2
<1> QED
  BY <1>1, <1>3 DEF RootRight

\* An event that has been read and led to no failure.
LEMMA EventRead ==
  ASSUME SvgTypes, Inspecting, NEW e, WellFormed(e), NEW t, t = Append(svg, e), NEW n, n = Len(svg)
  PROVE  /\ Grown(svg, t, n) /\ t[n + 1] = e /\ n \in Nat /\ Len(t) = n + 1
         /\ t \in Seq(SvgEvents) /\ \A k \in 1 .. Len(t) : WellFormed(t[k])
         /\ Reading(reader, t, n)
         /\ reader.roots = 0 => AtTop
         /\ ~AtTop /\ RootRight(svg) => 1 \in Around(t, n + 1)
<1>1. svg \in Seq(SvgEvents) /\ e \in SvgEvents /\ \A k \in 1 .. Len(svg) : WellFormed(svg[k])
  BY DEF SvgTypes, WellFormed
<1>2. t \in Seq(SvgEvents) /\ Longer(svg, e) /\ n \in Nat
  BY <1>1, LongerOf
<1>3. Len(t) = n + 1 /\ t[n + 1] = e /\ \A i \in 1 .. n : t[i] = svg[i]
  BY <1>2 DEF Longer
<1>4. Grown(svg, t, n)
  BY <1>2, <1>3 DEF Grown
<1>5. \A k \in 1 .. Len(t) : WellFormed(t[k])
  <2>1. \A k \in 1 .. n + 1 : k \in 1 .. n \/ k = n + 1
    BY <1>2
  <2> QED
    BY <1>1, <1>3, <2>1
<1>6. Reading(reader, svg, n)
  BY DEF Inspecting
<1>7. Reading(reader, t, n)
  BY <1>2, <1>3, <1>6, ReadingSame
<1>8. reader.roots = 0 => AtTop
  <2>1. SUFFICES ASSUME svg = << >> PROVE AtTop
    BY DEF Inspecting
  <2>2. n = 0
    BY <2>1
  <2>3. Around(svg, n + 1) = {}
    BY <2>2 DEF Around
  <2> QED
    BY <1>2, <1>6, <2>3, TopIs
<1>9. ASSUME ~AtTop, RootRight(svg) PROVE 1 \in Around(t, n + 1)
  <2>1. PICK j \in Around(svg, n + 1) : j \in 1 .. n /\ IsTag(svg, j) /\ Around(svg, j) = {}
    BY <1>2, <1>6, <1>9, TopIs
  <2>2. j = 1
    BY <1>9, <2>1 DEF RootRight
  <2>3. Around(t, n + 1) = Around(svg, n + 1)
    <3>1. n + 1 \in 1 .. n + 1
      BY <1>2
    <3> QED
      BY <1>2, <1>3, <3>1, SameBeginning
  <2> QED
    BY <2>1, <2>2, <2>3
<1> QED
  BY <1>2, <1>3, <1>4, <1>5, <1>7, <1>8, <1>9

\* What is no kept element changes nothing in the plan.
LEMMA PlanStays ==
  ASSUME NEW s, NEW t, NEW n, Grown(s, t, n), NEW p, NEW top \in Nat, NEW c,
         \A id \in Ids : ~Bearer(t, id, n + 1)
  PROVE  /\ Planned(s, p, top) => Planned(t, p, top)
         /\ CountedTo(c, s, n) => CountedTo(c, t, n + 1)
<1>1. n \in Nat
  BY DEF Grown
<1>2. ASSUME NEW id \in Ids, PlanRight(s, p[id], top, id) PROVE PlanRight(t, p[id], top, id)
  BY <1>2, PlanSame
<1>3. ASSUME NEW id \in Ids, c[id] = Count(s, id, n) PROVE c[id] = Count(t, id, n + 1)
  <2>1. Count(t, id, n) = Count(s, id, n)
    BY CountGrown
  <2> QED
    BY <1>1, <1>3, <2>1, CountIs
<1> QED
  BY <1>2, <1>3 DEF Planned, CountedTo

LEMMA CollectIs ==
  ASSUME SvgTypes, NEW id \in Ids, NEW root \in BOOLEAN, NEW opens \in BOOLEAN,
         CollectId(id, root, opens), NEW q, q = Collected(plan[id], seen[id], root, nextId, opens)
  PROVE  /\ q \in Plans
         /\ plan' = [plan EXCEPT ![id] = q]
         /\ nextId' = IF plan[id].new # NoId \/ root THEN nextId ELSE nextId + 1
         /\ seen' = [seen EXCEPT ![id] = seen[id] + 1]
<1>1. plan \in [Ids -> Plans] /\ nextId \in Nat /\ seen \in [Ids -> Nat]
  BY DEF SvgTypes
<1>2. PICK p \in Plans : p = plan[id]
  BY <1>1
<1>3. PICK c \in Nat : c = seen[id]
  BY <1>1
<1>4. seen' = [seen EXCEPT ![id] = seen[id] + 1]
  BY <1>1 DEF CollectId
<1>5. CASE p.new = NoId
  <2>1. q = [new |-> IF root THEN RootId ELSE nextId + 1, retained |-> c, expanded |-> opens]
    BY <1>2, <1>3, <1>5 DEF Collected
  <2>2. q \in Plans
    BY <1>1, <2>1 DEF Plans, RootId
  <2>3. /\ nextId' = IF root THEN nextId ELSE nextId + 1
        /\ plan' = [plan EXCEPT ![id] = q]
    BY <1>2, <1>3, <1>5, <2>1 DEF CollectId
  <2> QED
    BY <1>2, <1>4, <1>5, <2>2, <2>3
<1>6. CASE p.new # NoId /\ opens /\ ~p.expanded
  <2>1. q = [p EXCEPT !.retained = c, !.expanded = TRUE]
    BY <1>2, <1>3, <1>6 DEF Collected
  <2>2. q \in Plans
    BY <2>1 DEF Plans
  <2>3. plan' = [plan EXCEPT ![id].retained = c, ![id].expanded = TRUE] /\ nextId' = nextId
    BY <1>2, <1>3, <1>6 DEF CollectId
  <2>4. plan' = [plan EXCEPT ![id] = q]
    BY <1>1, <1>2, <2>1, <2>3
  <2> QED
    BY <1>2, <1>4, <1>6, <2>2, <2>3, <2>4
<1>7. CASE p.new # NoId /\ ~(opens /\ ~p.expanded)
  <2>1. q = p
    BY <1>2, <1>7 DEF Collected
  <2>2. plan' = plan /\ nextId' = nextId
    BY <1>2, <1>7 DEF CollectId
  <2>3. plan' = [plan EXCEPT ![id] = q]
    BY <1>1, <1>2, <2>1, <2>2
  <2> QED
    BY <1>2, <1>4, <1>7, <2>1, <2>2, <2>3
<1> QED
  BY <1>5, <1>6, <1>7

\* An element that is kept and has an id.
LEMMA CollectedIsPlanned ==
  ASSUME SvgTypes, NEW t, NEW n, Grown(svg, t, n), NEW id \in Ids,
         \A j \in Ids : Bearer(t, j, n + 1) <=> j = id,
         CountedTo(seen, svg, n), Planned(svg, plan, nextId),
         NEW root \in BOOLEAN, root <=> n = 0, CollectId(id, root, t[n + 1].kind = "start")
  PROVE  Planned(t, plan', nextId')
<1>1. plan \in [Ids -> Plans] /\ nextId \in Nat /\ seen \in [Ids -> Nat]
  BY DEF SvgTypes
<1>2. n \in Nat /\ Len(svg) = n
  BY DEF Grown
<1>3. PICK q : q = Collected(plan[id], seen[id], root, nextId, t[n + 1].kind = "start")
  OBVIOUS
<1>4. PICK opens \in BOOLEAN : opens = (t[n + 1].kind = "start")
  OBVIOUS
<1>5. /\ q \in Plans /\ plan' = [plan EXCEPT ![id] = q]
      /\ nextId' = IF plan[id].new # NoId \/ root THEN nextId ELSE nextId + 1
  <2>1. CollectId(id, root, opens) /\ q = Collected(plan[id], seen[id], root, nextId, opens)
    BY <1>3, <1>4
  <2> QED
    BY <2>1, CollectIs
<1>6. nextId' \in Nat /\ nextId <= nextId'
  BY <1>1, <1>5
<1>7. \A j \in Ids : PlanRight(svg, plan[j], nextId, j) /\ plan[j] \in Plans
  BY <1>1 DEF Planned
<1>8. seen[id] = Count(svg, id, n) /\ Bearer(t, id, n + 1)
  BY DEF CountedTo
<1>9. /\ PlanRight(t, q, nextId', id)
      /\ q.new # NoId /\ (q.new = plan[id].new \/ q.new > nextId \/ n = 0)
  <2>1. PICK p \in Plans : p = plan[id]
    BY <1>7
  <2>2. q = Collected(p, Count(svg, id, n), root, nextId, t[n + 1].kind = "start")
    BY <1>3, <1>8, <2>1
  <2>3. nextId' = IF p.new # NoId \/ root THEN nextId ELSE nextId + 1
    BY <1>5, <2>1
  <2>4. PlanRight(svg, p, nextId, id)
    BY <1>7, <2>1
  <2>5. PICK high \in Nat : high = nextId'
    BY <1>6
  <2>6. PlanRight(t, q, high, id) /\ q.new # NoId /\ (q.new = p.new \/ q.new > nextId \/ n = 0)
    <3>1. high = IF p.new # NoId \/ root THEN nextId ELSE nextId + 1
      BY <2>3, <2>5
    <3>2. nextId \in Nat /\ Bearer(t, id, n + 1)
      BY <1>1, <1>8
    <3> QED
      <4>1. CollectedAt(svg, t, n, p, nextId, high, id, root, q)
        BY <2>2, <2>4, <3>1, <3>2, Zenon DEF CollectedAt
      <4> QED
        BY <4>1, PlanCollected DEF CollectedRight
  <2> QED
    BY <2>1, <2>5, <2>6
<1>10. ASSUME NEW j \in Ids, j # id
       PROVE  PlanRight(t, plan[j], nextId', j) /\ (plan[j].new \in 0 .. nextId \/ plan[j].new = NoId)
              /\ (n = 0 => plan[j].new = NoId)
  <2>1. ~Bearer(t, j, n + 1) /\ PlanRight(svg, plan[j], nextId, j)
    BY <1>7, <1>10
  <2>2. PICK high \in Nat : high = nextId'
    BY <1>6
  <2>3. PlanRight(t, plan[j], high, j)
    BY <1>1, <1>6, <2>1, <2>2, PlanSame
  <2>4. (plan[j].new \in 0 .. nextId \/ plan[j].new = NoId) /\ (n = 0 => plan[j].new = NoId)
    BY <1>2, <2>1 DEF PlanRight, IsTarget
  <2> QED
    BY <2>2, <2>3, <2>4
<1>11. plan'[id] = q /\ \A j \in Ids : j # id => plan'[j] = plan[j]
  BY <1>1, <1>5
<1>12. NoTwoAlike(plan')
  <2>1. ASSUME NEW j \in Ids, j # id, plan'[j].new # NoId PROVE plan'[j].new # plan'[id].new
    <3>1. plan'[j].new = plan[j].new /\ plan[j].new \in 0 .. nextId /\ n # 0
      BY <1>10, <1>11, <2>1
    <3>2. plan[j].new # plan[id].new
      BY <2>1, <3>1 DEF Planned, NoTwoAlike
    <3>3. q.new = plan[id].new \/ q.new > nextId
      BY <1>9, <3>1
    <3>4. q.new \in Int
      BY <1>5 DEF Plans
    <3> QED
      BY <1>1, <1>11, <3>1, <3>2, <3>3, <3>4
  <2>2. NoTwoAlike(plan)
    BY DEF Planned
  <2> QED
    BY <1>11, <2>1, <2>2 DEF NoTwoAlike
<1>13. \A j \in Ids : PlanRight(t, plan'[j], nextId', j)
  BY <1>9, <1>10, <1>11
<1> QED
  BY <1>12, <1>13 DEF Planned

\* What inspect_svg knows after an event, if it did not fail.
LEMMA InspectingNext ==
  ASSUME Inspecting, NEW t, NEW n \in Nat, svg' = t, Len(t) = n + 1,
         Reading(reader', t, n + 1), CountedTo(seen', t, n + 1), UNCHANGED <<place, sheet, out>>,
         reader'.roots # 0, reader'.roots <= 1 => RootRight(t) /\ Planned(t, plan', nextId')
  PROVE  Inspecting'
  BY DEF Inspecting

LEMMA InspectTagKeeps ==
  ASSUME SvgTypes, Inspecting, NEW tag \in Tags, NEW e, e \in {StartEvent(tag), EmptyEvent(tag)},
         InspectTag(e), pass' = "inspect"
  PROVE  Inspecting' /\ SvgTypes'
<1>1. e.kind \in {"start", "empty"} /\ e.tag = tag /\ WellFormed(e)
  BY DEF StartEvent, EmptyEvent, Event, WellFormed, SvgEvents, SvgKinds
<1>2. PICK n : n = Len(svg)
  OBVIOUS
<1>3. PICK t : t = svg'
  OBVIOUS
<1>4. t = Append(svg, e) /\ UNCHANGED <<place, sheet, out>>
  BY <1>3 DEF InspectTag, Reads
<1>5. /\ Grown(svg, t, n) /\ t[n + 1] = e /\ n \in Nat /\ Len(t) = n + 1
      /\ t \in Seq(SvgEvents) /\ \A k \in 1 .. Len(t) : WellFormed(t[k])
      /\ Reading(reader, t, n)
      /\ reader.roots = 0 => AtTop
      /\ ~AtTop /\ RootRight(svg) => 1 \in Around(t, n + 1)
  BY <1>1, <1>2, <1>4, EventRead
<1>6. IsTag(t, n + 1) /\ t[n + 1].tag \in Tags
  BY <1>1, <1>5 DEF IsTag
<1>7. /\ Skips(tag.name) <=> ~IsKept(t, n + 1)
      /\ AtTop <=> Around(t, n + 1) = {}
  BY <1>1, <1>5, <1>6, KeptUnlessSkipped
<1>8. reader' = ReadTag(e)
  BY DEF InspectTag
<1>9. Reading(reader', t, n + 1)
  BY <1>5, <1>6, <1>8, ReadingTag
<1>10. PICK roots \in Nat : roots = reader.roots
  BY <1>5 DEF Reading
<1>11. reader'.roots = roots + (IF AtTop THEN 1 ELSE 0)
  <2>1. reader \in [open : Seq(SvgNames), suppressed : Nat, foreign : Nat, roots : Nat]
    BY <1>5 DEF Reading
  <2> QED
    BY <1>8, <1>10, <2>1 DEF ReadTag
<1>12. reader'.roots # 0
  BY <1>5, <1>10, <1>11
<1>13. n = 0 => AtTop
  <2>1. n = 0 => Around(t, n + 1) = {}
    BY DEF Around
  <2> QED
    BY <1>7, <2>1
<1>14. reader'.roots <= 1 => (n = 0 <=> AtTop)
  <2>1. reader'.roots <= 1 /\ AtTop => roots = 0
    BY <1>10, <1>11
  <2>2. roots = 0 => n = 0
    BY <1>2, <1>10 DEF Inspecting
  <2> QED
    BY <1>13, <2>1, <2>2
<1>15. reader'.roots <= 1 => reader.roots <= 1 /\ RootRight(svg) /\ Planned(svg, plan, nextId)
  BY <1>10, <1>11 DEF Inspecting
<1>16. reader'.roots <= 1 => RootRight(t)
  <2>1. SUFFICES ASSUME reader'.roots <= 1 PROVE RootRight(t)
    OBVIOUS
  <2>2. RootRight(svg) /\ (n = 0 \/ 1 \in Around(t, n + 1))
    BY <1>5, <1>14, <1>15, <2>1
  <2>3. t[n + 1].kind # "end"
    BY <1>1, <1>5
  <2> QED
    BY <1>5, <2>2, <2>3, RootGrows
<1>17. /\ CountedTo(seen', t, n + 1)
       /\ plan' \in [Ids -> Plans] /\ nextId' \in Nat /\ seen' \in [Ids -> Nat]
       /\ reader'.roots <= 1 => Planned(t, plan', nextId')
  <2>1. plan \in [Ids -> Plans] /\ nextId \in Nat /\ seen \in [Ids -> Nat] /\ CountedTo(seen, svg, n)
    BY <1>2 DEF SvgTypes, Inspecting
  <2>2. CASE tag.id # Absent /\ ~Skips(tag.name)
    <3>1. PICK id \in Ids : id = tag.id
      BY <2>2, TagsHaveKnownIds
    <3>2. PICK root \in BOOLEAN : root <=> AtTop
      BY DEF AtTop
    <3>3. CollectId(id, root, e.kind = "start")
      BY <1>1, <2>2, <3>1, <3>2 DEF InspectTag, AtTop
    <3>4. PICK opens \in BOOLEAN : opens = (e.kind = "start")
      OBVIOUS
    <3>5. PICK q : q = Collected(plan[id], seen[id], root, nextId, opens)
      OBVIOUS
    <3>6. /\ q \in Plans /\ plan' = [plan EXCEPT ![id] = q]
          /\ nextId' = IF plan[id].new # NoId \/ root THEN nextId ELSE nextId + 1
          /\ seen' = [seen EXCEPT ![id] = seen[id] + 1]
      BY <3>3, <3>4, <3>5, CollectIs
    <3>7. \A j \in Ids : Bearer(t, j, n + 1) <=> j = id
      BY <1>1, <1>5, <1>7, <2>2, <3>1 DEF Bearer
    <3>8. ASSUME NEW j \in Ids PROVE seen'[j] = Count(t, j, n + 1)
      <4>1. Count(t, j, n) = Count(svg, j, n)
        BY <1>5, CountGrown
      <4>2. seen[j] = Count(t, j, n)
        BY <2>1, <4>1 DEF CountedTo
      <4>3. CASE j = id
        BY <1>5, <2>1, <3>6, <3>7, <4>2, <4>3, CountIs
      <4>4. CASE j # id
        BY <1>5, <2>1, <3>6, <3>7, <4>2, <4>4, CountIs
      <4> QED
        BY <4>3, <4>4
    <3>9. reader'.roots <= 1 => Planned(t, plan', nextId')
      <4>1. SUFFICES ASSUME reader'.roots <= 1 PROVE Planned(t, plan', nextId')
        OBVIOUS
      <4>2. root <=> n = 0
        BY <1>14, <3>2, <4>1
      <4>3. CollectId(id, root, t[n + 1].kind = "start")
        BY <1>5, <3>3
      <4> QED
        BY <1>5, <1>15, <2>1, <3>7, <4>1, <4>2, <4>3, CollectedIsPlanned
    <3> QED
      BY <2>1, <3>6, <3>8, <3>9 DEF CountedTo
  <2>3. CASE ~(tag.id # Absent /\ ~Skips(tag.name))
    <3>1. UNCHANGED <<plan, nextId, seen>>
      BY <1>1, <2>3 DEF InspectTag
    <3>2. ASSUME NEW id \in Ids PROVE ~Bearer(t, id, n + 1)
      BY <1>1, <1>5, <1>7, <2>3, AbsentIsNoId DEF Bearer
    <3>3. (Planned(svg, plan, nextId) => Planned(t, plan, nextId)) /\ CountedTo(seen, t, n + 1)
      BY <1>5, <2>1, <3>2, PlanStays
    <3> QED
      BY <1>15, <2>1, <3>1, <3>3
  <2> QED
    BY <2>2, <2>3
<1>18. Inspecting'
  BY <1>3, <1>4, <1>5, <1>9, <1>12, <1>16, <1>17, InspectingNext
<1> QED
  BY <1>3, <1>5, <1>17, <1>18 DEF SvgTypes

\* The end of an element, or a text.
LEMMA InspectOtherKeeps ==
  ASSUME SvgTypes, Inspecting, NEW e, WellFormed(e), ~AtTop,
         svg' = Append(svg, e), UNCHANGED <<place, sheet, out, plan, nextId, seen>>, pass' = "inspect",
         \/ e.kind = "end" /\ reader' = ReadEnd
         \/ e.kind = "text" /\ reader' = reader
  PROVE  Inspecting' /\ SvgTypes'
<1>1. e.kind \in {"end", "text"}
  OBVIOUS
<1>2. PICK n : n = Len(svg)
  OBVIOUS
<1>3. PICK t : t = svg'
  OBVIOUS
<1>4. /\ Grown(svg, t, n) /\ t[n + 1] = e /\ n \in Nat /\ Len(t) = n + 1
      /\ t \in Seq(SvgEvents) /\ \A k \in 1 .. Len(t) : WellFormed(t[k])
      /\ Reading(reader, t, n)
      /\ reader.roots = 0 => AtTop
  BY <1>2, <1>3, EventRead
<1>5. reader \in [open : Seq(SvgNames), suppressed : Nat, foreign : Nat, roots : Nat]
  BY <1>4 DEF Reading
<1>6. Reading(reader', t, n + 1) /\ reader'.roots = reader.roots
  <2>1. CASE e.kind = "end" /\ reader' = ReadEnd
    <3>1. Reading(ReadEnd, t, n + 1)
      BY <1>4, <2>1, ReadingEnd
    <3>2. ReadEnd.roots = reader.roots
      BY <1>5 DEF ReadEnd
    <3> QED
      BY <2>1, <3>1, <3>2
  <2>2. CASE e.kind = "text" /\ reader' = reader
    <3>1. Reading(reader, t, n + 1)
      BY <1>4, <1>5, <2>2, ReadingOther
    <3> QED
      BY <2>2, <3>1
  <2> QED
    BY <2>1, <2>2
<1>7. ~IsTag(t, n + 1) /\ Around(t, n + 1) # {}
  BY <1>1, <1>4, TopIs DEF IsTag
<1>8. \A id \in Ids : ~Bearer(t, id, n + 1)
  BY <1>7 DEF Bearer, IsKept
<1>9. /\ CountedTo(seen, svg, n)
      /\ reader.roots <= 1 => RootRight(svg) /\ Planned(svg, plan, nextId)
  BY <1>2 DEF Inspecting
<1>10. /\ CountedTo(seen, t, n + 1)
       /\ reader.roots <= 1 => RootRight(t) /\ Planned(t, plan, nextId)
  <2>1. CountedTo(seen, t, n + 1) /\ (Planned(svg, plan, nextId) => Planned(t, plan, nextId))
    <3>1. nextId \in Nat
      BY DEF SvgTypes
    <3> QED
      BY <1>4, <1>8, <1>9, <3>1, PlanStays
  <2>2. RootRight(svg) => RootRight(t)
    BY <1>4, <1>7, RootGrows
  <2> QED
    BY <1>9, <2>1, <2>2
<1>11. CountedTo(seen', t, n + 1) /\ Planned(t, plan', nextId') = Planned(t, plan, nextId)
  BY <1>10
<1>12. reader'.roots # 0
  BY <1>4, <1>6
<1>13. Inspecting'
  BY <1>3, <1>4, <1>6, <1>10, <1>11, <1>12, InspectingNext
<1> QED
  BY <1>3, <1>4, <1>13 DEF SvgTypes

-----------------------------------------------------------------------------
(* The second pass *)

\* The new id of an id, by the plan p.
NewOf(p, id) == IF id \in Ids THEN p[id].new ELSE NoId

\* The id an element is written with: the root has a given one, and of those that share
\* an id the one it stands for keeps it.
NameOf(s, p, f) ==
  IF f = 1 THEN RootId
  ELSE IF s[f].tag.id \in Ids /\ IsTarget(s, s[f].tag.id, f) THEN p[s[f].tag.id].new
  ELSE NoId

\* A selector applies within the root, and the ids in it are the new ones.
SelectorRight(p, s) ==
  /\ s[1].new = RootId /\ ~Escapes(s)
  /\ \A k \in DOMAIN s : s[k] = Root \/ s[k].new = NewOf(p, s[k].id)

RuleRight(p, rule) ==
  rule.new = NewOf(p, rule.url) /\ \A s \in rule.selectors : SelectorRight(p, s)

EntryRight(s, p, o) ==
  \/ /\ IsKept(s, o.from) /\ o.id = NameOf(s, p, o.from)
     /\ o.to = NewOf(p, s[o.from].tag.to) /\ o.rules = {}
  \/ /\ ~IsTag(s, o.from) /\ o.id = NoId
     /\ \A rule \in o.rules : RuleRight(p, rule)

\* What was written of the first n events of s.
OutRight(s, p, w, n) ==
  /\ \E S : w \in Seq(S)
  /\ \A k \in 1 .. Len(w) : w[k].from \in 1 .. n /\ EntryRight(s, p, w[k])
  /\ \A i, j \in 1 .. Len(w) : w[i].from = w[j].from => i = j
  /\ \A f \in 1 .. n : IsKept(s, f) => \E k \in 1 .. Len(w) : w[k].from = f

Rewriting ==
  /\ RootRight(svg) /\ Planned(svg, plan, nextId)
  /\ sheet \in [depth : Nat, rules : SUBSET Rules]
  /\ \E n \in 0 .. Len(svg) :
       /\ place = n + 1 /\ OutRight(svg, plan, out, n)
       /\ pass = "rewrite" => Reading(reader, svg, n) /\ CountedTo(seen, svg, n)
       /\ pass = "done" => n = Len(svg)

SvgInv ==
  /\ SvgTypes
  /\ pass = "inspect" => Inspecting
  /\ pass \in {"rewrite", "done"} => Rewriting

LEMMA WiderSequence ==
  ASSUME NEW S, NEW s \in Seq(S), NEW e
  PROVE  s \in Seq(S \cup {e})
<1>1. Len(s) \in Nat /\ \A i \in 1 .. Len(s) : s[i] \in S \cup {e}
  OBVIOUS
<1>2. s = [i \in 1 .. Len(s) |-> s[i]]
  OBVIOUS
<1>3. [i \in 1 .. Len(s) |-> s[i]] \in Seq(S \cup {e})
  BY <1>1
<1> QED
  BY <1>2, <1>3

LEMMA MappedIs ==
  ASSUME NEW id
  PROVE  Mapped(id) = NewOf(plan, id)
  BY DEF Mapped, NewOf

LEMMA ScopedSelector ==
  ASSUME NEW S, NEW selector \in Seq(S), selector # << >>,
         NEW w, w = Rewritten(selector), ~(w[1].new = RootId /\ Escapes(w))
  PROVE  SelectorRight(plan, BelowRoot(w))
<1>1. PICK L \in Nat : L = Len(selector) /\ DOMAIN selector = 1 .. L
  OBVIOUS
<1>2. L # 0
  BY <1>1, EmptySeq
<1>3. DOMAIN w = 1 .. L /\ \A k \in 1 .. L : w[k].new = NewOf(plan, w[k].id)
  BY <1>1, MappedIs DEF Rewritten, Token
<1>4. CASE w[1].new = RootId
  BY <1>3, <1>4 DEF SelectorRight, BelowRoot
<1>5. CASE w[1].new # RootId
  <2>1. PICK T : T = {w[k] : k \in 1 .. L} \cup {Root, Descendant}
    OBVIOUS
  <2>2. w \in Seq(T) /\ Len(w) = L
    <3>1. \A k \in 1 .. L : w[k] \in T
      BY <2>1
    <3>2. w = [k \in 1 .. L |-> w[k]]
      BY <1>1 DEF Rewritten
    <3>3. [k \in 1 .. L |-> w[k]] \in Seq(T) /\ Len([k \in 1 .. L |-> w[k]]) = L
      BY <3>1
    <3> QED
      BY <3>2, <3>3
  <2>3. PICK two \in Seq(T) : two = <<Root, Descendant>> /\ Len(two) = 2 /\ two[1] = Root /\ two[2] = Descendant
    <3>1. PICK a, b : a = Root /\ b = Descendant
      OBVIOUS
    <3>2. a \in T /\ b \in T
      BY <2>1, <3>1
    <3>3. <<a, b>> \in Seq(T) /\ Len(<<a, b>>) = 2 /\ <<a, b>>[1] = a /\ <<a, b>>[2] = b
      BY <3>2
    <3> QED
      BY <3>1, <3>3
  <2>4. PICK r \in Seq(T) : r = two \o w
    <3>1. two \o w \in Seq(T)
      BY <2>2, <2>3
    <3> QED
      BY <3>1
  <2>5. Len(r) = 2 + L /\ r[1] = Root /\ r[2] = Descendant
        /\ \A k \in 3 .. 2 + L : r[k] = w[k - 2]
    BY <1>1, <1>2, <2>2, <2>3, <2>4
  <2>6. DOMAIN r = 1 .. 2 + L
    BY <2>5
  <2>7. BelowRoot(w) = r
    BY <1>5, <2>3, <2>4 DEF BelowRoot
  <2>8. r[1].new = RootId
    BY <2>5 DEF Root, Token
  <2>9. ~Escapes(r)
    <3>1. r[1].kind = "id" /\ r[2].kind = "descendant"
      BY <2>5 DEF Root, Descendant, Token
    <3>2. SUFFICES ASSUME NEW k \in 1 .. 2 + L, r[k].kind = "sibling",
                          \A j \in 1 .. k - 1 : r[j].kind \notin {"descendant", "child", "sibling"}
                   PROVE  FALSE
      BY <2>6 DEF Escapes
    <3>3. k # 1 /\ k # 2
      BY <3>1, <3>2
    <3>4. 2 \in 1 .. k - 1
      BY <1>1, <3>3
    <3> QED
      BY <3>1, <3>2, <3>4
  <2>10. ASSUME NEW k \in 1 .. 2 + L PROVE r[k] = Root \/ r[k].new = NewOf(plan, r[k].id)
    <3>1. CASE k = 1
      BY <2>5, <3>1
    <3>2. CASE k = 2
      BY <2>5, <3>2, AbsentIsNoId DEF Descendant, Token, NewOf
    <3>3. CASE k \in 3 .. 2 + L
      <4>1. r[k] = w[k - 2] /\ k - 2 \in 1 .. L
        BY <1>1, <2>5, <3>3
      <4> QED
        BY <1>3, <4>1
    <3> QED
      BY <1>1, <3>1, <3>2, <3>3
  <2> QED
    BY <2>6, <2>7, <2>8, <2>9, <2>10 DEF SelectorRight
<1> QED
  BY <1>4, <1>5

LEMMA SheetRight ==
  ASSUME NEW written \in SUBSET Rules, NEW rule \in Sheet(written)
  PROVE  RuleRight(plan, rule)
<1>1. PICK source \in Rules : rule = Scoped(source)
  BY DEF Sheet
<1>2. rule.new = NewOf(plan, rule.url)
  BY <1>1, MappedIs DEF Scoped
<1>3. ASSUME NEW s \in rule.selectors PROVE SelectorRight(plan, s)
  <2>1. PICK selector \in source.selectors :
          s = BelowRoot(Rewritten(selector))
          /\ ~(Rewritten(selector)[1].new = RootId /\ Escapes(Rewritten(selector)))
    BY <1>1 DEF Scoped
  <2>2. selector \in Seq(Range(selector)) /\ selector # << >>
    BY SelectorsAreSequences
  <2> QED
    BY <2>1, <2>2, ScopedSelector
<1> QED
  BY <1>2, <1>3 DEF RuleRight

LEMMA OutLonger ==
  ASSUME NEW s, NEW p, NEW w, NEW n \in Nat, OutRight(s, p, w, n),
         NEW o, o.from = n + 1, EntryRight(s, p, o), NEW v, v = Append(w, o)
  PROVE  OutRight(s, p, v, n + 1)
<1>1. PICK S : w \in Seq(S)
  BY DEF OutRight
<1>2. w \in Seq(S \cup {o})
  BY <1>1, WiderSequence
<1>3. v \in Seq(S \cup {o}) /\ Longer(w, o) /\ Len(w) \in Nat
  BY <1>2, LongerOf
<1>4. PICK m \in Nat : m = Len(w)
  BY <1>3
<1>5. Len(v) = m + 1 /\ v[m + 1] = o /\ \A k \in 1 .. m : v[k] = w[k]
  BY <1>3, <1>4 DEF Longer
<1>6. \A k \in 1 .. m + 1 : k \in 1 .. m \/ k = m + 1
  OBVIOUS
<1>7. \A k \in 1 .. m : w[k].from \in 1 .. n /\ EntryRight(s, p, w[k])
  BY <1>4 DEF OutRight
<1>8. \A k \in 1 .. m + 1 : v[k].from \in 1 .. n + 1 /\ EntryRight(s, p, v[k])
  BY <1>5, <1>6, <1>7
<1>9. ASSUME NEW i \in 1 .. m + 1, NEW j \in 1 .. m + 1, v[i].from = v[j].from PROVE i = j
  <2>1. \A k \in 1 .. m : v[k].from \in 1 .. n
    BY <1>5, <1>7
  <2>2. v[m + 1].from = n + 1 /\ n + 1 \notin 1 .. n
    BY <1>5
  <2>3. \A a, b \in 1 .. m : v[a].from = v[b].from => a = b
    BY <1>4, <1>5 DEF OutRight
  <2> QED
    BY <1>6, <1>9, <2>1, <2>2, <2>3
<1>10. ASSUME NEW f \in 1 .. n + 1, IsKept(s, f) PROVE \E k \in 1 .. m + 1 : v[k].from = f
  <2>1. CASE f = n + 1
    <3>1. m + 1 \in 1 .. m + 1
      OBVIOUS
    <3> QED
      BY <1>5, <2>1, <3>1
  <2>2. CASE f \in 1 .. n
    <3>1. PICK k \in 1 .. m : w[k].from = f
      BY <1>4, <1>10, <2>2 DEF OutRight
    <3> QED
      BY <1>5, <3>1
  <2>3. f = n + 1 \/ f \in 1 .. n
    OBVIOUS
  <2> QED
    BY <2>1, <2>2, <2>3
<1>11. \E U : v \in Seq(U)
  BY <1>3
<1> QED
  BY <1>5, <1>8, <1>9, <1>10, <1>11 DEF OutRight

LEMMA OutSame ==
  ASSUME NEW s, NEW p, NEW w, NEW n \in Nat, OutRight(s, p, w, n), ~IsKept(s, n + 1)
  PROVE  OutRight(s, p, w, n + 1)
<1>1. \A k \in 1 .. Len(w) : w[k].from \in 1 .. n + 1
  BY DEF OutRight
<1>2. \A f \in 1 .. n + 1 : IsKept(s, f) => f \in 1 .. n
  OBVIOUS
<1> QED
  BY <1>1, <1>2 DEF OutRight

LEMMA NewInPlan ==
  ASSUME SvgTypes, Planned(svg, plan, nextId), NEW n \in Nat, NEW id \in Ids, Bearer(svg, id, n + 1),
         n + 1 <= Len(svg), seen[id] = Count(svg, id, n)
  PROVE  plan[id].retained = seen[id] <=> IsTarget(svg, id, n + 1)
<1>1. svg \in Seq(SvgEvents) /\ Len(svg) \in Nat
  BY DEF SvgTypes
<1>2. PlanRight(svg, plan[id], nextId, id)
  BY DEF Planned
<1>3. PICK m \in Nat \ {0} : m = n + 1 /\ m - 1 = n
  <2>1. n + 1 \in Nat \ {0} /\ (n + 1) - 1 = n
    OBVIOUS
  <2> QED
    BY <2>1
<1>4. m \in 1 .. Len(svg) /\ Bearer(svg, id, m) /\ seen[id] = Count(svg, id, m - 1)
  BY <1>1, <1>3
<1>5. PICK k : IsTarget(svg, id, k) /\ plan[id].retained = Count(svg, id, k - 1)
  BY <1>2, <1>4 DEF PlanRight
<1>6. k \in Nat \ {0} /\ Bearer(svg, id, k)
  BY <1>1, <1>5 DEF IsTarget
<1>7. CASE k = m
  BY <1>3, <1>4, <1>5, <1>7
<1>8. CASE k # m
  <2>1. ~IsTarget(svg, id, m)
    <3>1. Target(svg, id) = k
      BY <1>1, <1>5, TargetIs
    <3>2. IsTarget(svg, id, m) => Target(svg, id) = m
      BY <1>1, TargetIs
    <3> QED
      BY <1>8, <3>1, <3>2
  <2>2. Count(svg, id, k - 1) # Count(svg, id, m - 1)
    <3>1. CASE k < m
      BY <1>3, <1>6, <3>1, CountRises
    <3>2. CASE m < k
      BY <1>3, <1>4, <1>6, <3>2, CountRises
    <3> QED
      BY <1>3, <1>6, <1>8, <3>1, <3>2
  <2> QED
    BY <1>3, <1>4, <1>5, <2>1, <2>2
<1> QED
  BY <1>7, <1>8

\* What is known of an event that rewrite_svg comes to.
LEMMA EventAgain ==
  ASSUME SvgTypes, Rewriting, pass = "rewrite", place <= Len(svg), NEW n, place = n + 1, n \in 0 .. Len(svg)
  PROVE  /\ n \in Nat /\ n + 1 \in 0 .. Len(svg) /\ WellFormed(svg[n + 1])
         /\ OutRight(svg, plan, out, n) /\ Reading(reader, svg, n) /\ CountedTo(seen, svg, n)
         /\ IsTag(svg, n + 1) => (AtTop <=> n = 0)
         /\ svg[n + 1].kind = "end" => ~AtTop
<1>1. svg \in Seq(SvgEvents) /\ Len(svg) \in Nat /\ \A k \in 1 .. Len(svg) : WellFormed(svg[k])
  BY DEF SvgTypes
<1>2. n \in Nat /\ n + 1 \in 0 .. Len(svg) /\ n + 1 \in 1 .. Len(svg)
  BY <1>1
<1>3. OutRight(svg, plan, out, n) /\ Reading(reader, svg, n) /\ CountedTo(seen, svg, n)
  <2>1. PICK m \in 0 .. Len(svg) :
          /\ place = m + 1 /\ OutRight(svg, plan, out, m)
          /\ Reading(reader, svg, m) /\ CountedTo(seen, svg, m)
    BY DEF Rewriting
  <2>2. m = n
    BY <1>1, <1>2, <2>1
  <2> QED
    BY <2>1, <2>2
<1>4. AtTop <=> Around(svg, n + 1) = {}
  BY <1>2, <1>3, TopIs
<1>5. /\ IsTag(svg, n + 1) => n + 1 = 1 \/ 1 \in Around(svg, n + 1)
      /\ svg[n + 1].kind = "end" => Around(svg, n + 1) # {}
  BY <1>2 DEF Rewriting, RootRight
<1>6. n = 0 => Around(svg, n + 1) = {}
  BY DEF Around
<1> QED
  BY <1>1, <1>2, <1>3, <1>4, <1>5, <1>6

\* What is to be shown of a step of rewrite_svg.
LEMMA RewritingNext ==
  ASSUME SvgTypes, Rewriting, UNCHANGED <<svg, plan, nextId>>, NEW n, n \in 0 .. Len(svg),
         place' = n + 1, OutRight(svg, plan, out', n), sheet' \in [depth : Nat, rules : SUBSET Rules],
         pass' = "rewrite" => Reading(reader', svg, n) /\ CountedTo(seen', svg, n),
         pass' = "done" => n = Len(svg)
  PROVE  Rewriting'
  BY DEF Rewriting

\* An element that is kept is written with the id it is to have.
LEMMA NamedIs ==
  ASSUME SvgTypes, Planned(svg, plan, nextId), NEW n \in Nat, n + 1 <= Len(svg), IsKept(svg, n + 1),
         CountedTo(seen, svg, n), NEW tag \in Tags, svg[n + 1].tag = tag, NEW root \in BOOLEAN, root <=> n = 0
  PROVE  Named(tag, root) = NameOf(svg, plan, n + 1)
<1>1. root <=> n + 1 = 1
  OBVIOUS
<1>2. tag.id # Absent <=> tag.id \in Ids
  BY TagsHaveKnownIds, AbsentIsNoId
<1>3. ASSUME tag.id \in Ids PROVE plan[tag.id].retained = seen[tag.id] <=> IsTarget(svg, tag.id, n + 1)
  <2>1. PICK id \in Ids : id = tag.id
    BY <1>3
  <2>2. Bearer(svg, id, n + 1) /\ seen[id] = Count(svg, id, n)
    BY <2>1 DEF Bearer, CountedTo
  <2>3. plan[id].retained = seen[id] <=> IsTarget(svg, id, n + 1)
    BY <2>2, NewInPlan
  <2> QED
    BY <2>1, <2>3
<1> QED
  BY <1>1, <1>2, <1>3 DEF Named, NameOf

LEMMA RewriteTagKeeps ==
  ASSUME SvgTypes, Rewriting, RewriteTag, pass' # "failed"
  PROVE  Rewriting' /\ SvgTypes'
<1>1. PICK n \in 0 .. Len(svg) : place = n + 1
  BY DEF Rewriting
<1>2. /\ n \in Nat /\ n + 1 \in 0 .. Len(svg) /\ WellFormed(svg[n + 1])
      /\ OutRight(svg, plan, out, n) /\ Reading(reader, svg, n) /\ CountedTo(seen, svg, n)
      /\ IsTag(svg, n + 1) => (AtTop <=> n = 0)
  BY <1>1, EventAgain DEF RewriteTag
<1>3. IsTag(svg, n + 1)
  BY <1>1 DEF RewriteTag, IsTag
<1>4. PICK tag \in Tags : tag = svg[n + 1].tag
  BY <1>2, <1>3 DEF IsTag, WellFormed
<1>5. Skips(tag.name) <=> ~IsKept(svg, n + 1)
  BY <1>2, <1>3, <1>4, KeptUnlessSkipped
<1>6. Reading(reader', svg, n + 1)
  <2>1. reader' = ReadTag(svg[n + 1])
    BY <1>1 DEF RewriteTag
  <2> QED
    BY <1>2, <1>3, <1>4, <2>1, ReadingTag
<1>7. UNCHANGED <<svg, plan, nextId>> /\ place' = (n + 1) + 1
  BY <1>1 DEF RewriteTag
<1>8. /\ sheet \in [depth : Nat, rules : SUBSET Rules] /\ seen \in [Ids -> Nat]
      /\ Planned(svg, plan, nextId)
  BY DEF Rewriting, SvgTypes
<1>9. CASE Skips(tag.name)
  <2>1. UNCHANGED <<pass, seen, sheet, out>>
    BY <1>1, <1>4, <1>9 DEF RewriteTag
  <2>2. OutRight(svg, plan, out, n + 1)
    BY <1>2, <1>5, <1>9, OutSame
  <2>3. CountedTo(seen, svg, n + 1)
    <3>1. ASSUME NEW id \in Ids PROVE seen[id] = Count(svg, id, n + 1)
      <4>1. ~Bearer(svg, id, n + 1) /\ seen[id] = Count(svg, id, n)
        BY <1>2, <1>5, <1>9 DEF Bearer, CountedTo
      <4> QED
        BY <1>2, <4>1, CountIs
    <3> QED
      BY <3>1 DEF CountedTo
  <2>4. pass' = "rewrite"
    BY <2>1 DEF RewriteTag
  <2>5. Rewriting'
    BY <1>2, <1>6, <1>7, <1>8, <2>1, <2>2, <2>3, <2>4, RewritingNext
  <2> QED
    BY <1>7, <2>1, <2>5 DEF SvgTypes
<1>10. CASE ~Skips(tag.name)
  <2>1. ~Refused(tag)
    BY <1>1, <1>4, <1>10 DEF RewriteTag
  <2>2. PICK o : o = [from |-> place, id |-> Named(tag, AtTop), to |-> Mapped(tag.to), rules |-> {}]
    OBVIOUS
  <2>3. /\ seen' = Counted(tag) /\ out' = Append(out, o) /\ pass' = pass
        /\ sheet' = IF svg[n + 1].kind = "start" /\ tag.name = "style"
                    THEN [depth |-> Len(reader.open) + 1, rules |-> {}] ELSE sheet
    BY <1>1, <1>4, <1>10, <2>1, <2>2 DEF RewriteTag
  <2>4. IsKept(svg, n + 1)
    BY <1>5, <1>10
  <2>5. OutRight(svg, plan, out', n + 1)
    <3>1. PICK root \in BOOLEAN : root = AtTop
      BY DEF AtTop
    <3>2. root <=> n = 0
      BY <1>2, <1>3, <3>1
    <3>3. Named(tag, root) = NameOf(svg, plan, n + 1)
      BY <1>2, <1>4, <1>8, <2>4, <3>2, NamedIs
    <3>4. /\ o.from = n + 1 /\ o.id = NameOf(svg, plan, n + 1) /\ o.rules = {}
          /\ o.to = NewOf(plan, svg[n + 1].tag.to)
      BY <1>1, <1>4, <2>2, <3>1, <3>3, MappedIs
    <3>5. EntryRight(svg, plan, o)
      BY <2>4, <3>4 DEF EntryRight
    <3> QED
      BY <1>2, <2>3, <3>4, <3>5, OutLonger
  <2>6. sheet' \in [depth : Nat, rules : SUBSET Rules]
    <3>1. Len(reader.open) + 1 \in Nat
      BY <1>2 DEF Reading
    <3> QED
      BY <1>8, <2>3, <3>1
  <2>7. CountedTo(seen', svg, n + 1) /\ seen' \in [Ids -> Nat]
    <3>1. ASSUME NEW id \in Ids PROVE seen'[id] = Count(svg, id, n + 1)
      <4>1. seen[id] = Count(svg, id, n)
        BY <1>2 DEF CountedTo
      <4>2. Bearer(svg, id, n + 1) <=> tag.id = id
        BY <1>4, <2>4 DEF Bearer
      <4>3. seen'[id] = IF tag.id = id THEN seen[id] + 1 ELSE seen[id]
        BY <1>8, <2>3, AbsentIsNoId DEF Counted
      <4> QED
        BY <1>2, <4>1, <4>2, <4>3, CountIs
    <3>2. seen' \in [Ids -> Nat]
      BY <1>8, <2>3, TagsHaveKnownIds DEF Counted
    <3> QED
      BY <3>1, <3>2 DEF CountedTo
  <2>8. pass' = "rewrite"
    BY <2>3 DEF RewriteTag
  <2>9. Rewriting'
    BY <1>2, <1>6, <1>7, <2>5, <2>6, <2>7, <2>8, RewritingNext
  <2> QED
    BY <1>7, <2>7, <2>8, <2>9 DEF SvgTypes
<1> QED
  BY <1>9, <1>10

\* Events that are no elements count nowhere.
LEMMA OtherEvent ==
  ASSUME SvgTypes, NEW n \in Nat, ~IsTag(svg, n + 1), CountedTo(seen, svg, n)
  PROVE  ~IsKept(svg, n + 1) /\ CountedTo(seen, svg, n + 1)
<1>1. ~IsKept(svg, n + 1)
  BY DEF IsKept
<1>2. ASSUME NEW id \in Ids PROVE seen[id] = Count(svg, id, n + 1)
  <2>1. ~Bearer(svg, id, n + 1) /\ seen[id] = Count(svg, id, n)
    BY <1>1 DEF Bearer, CountedTo
  <2> QED
    BY <2>1, CountIs
<1> QED
  BY <1>1, <1>2 DEF CountedTo

LEMMA RewriteEndKeeps ==
  ASSUME SvgTypes, Rewriting, RewriteEnd, pass' # "failed"
  PROVE  Rewriting' /\ SvgTypes'
<1>1. PICK n \in 0 .. Len(svg) : place = n + 1
  BY DEF Rewriting
<1>2. svg[n + 1].kind = "end" /\ ~IsTag(svg, n + 1)
  BY <1>1 DEF RewriteEnd, IsTag
<1>3. /\ n \in Nat /\ n + 1 \in 0 .. Len(svg) /\ WellFormed(svg[n + 1])
      /\ OutRight(svg, plan, out, n) /\ Reading(reader, svg, n) /\ CountedTo(seen, svg, n)
      /\ ~AtTop
  BY <1>1, <1>2, EventAgain DEF RewriteEnd
<1>4. ~IsKept(svg, n + 1) /\ CountedTo(seen, svg, n + 1)
  BY <1>2, <1>3, OtherEvent
<1>5. Reading(reader', svg, n + 1)
  <2>1. reader' = ReadEnd
    BY DEF RewriteEnd
  <2> QED
    BY <1>2, <1>3, <2>1, ReadingEnd
<1>6. UNCHANGED <<svg, plan, nextId, seen>> /\ place' = (n + 1) + 1
  BY <1>1 DEF RewriteEnd
<1>7. sheet \in [depth : Nat, rules : SUBSET Rules]
  BY DEF Rewriting
<1>8. OutRight(svg, plan, out', n + 1) /\ sheet' \in [depth : Nat, rules : SUBSET Rules] /\ pass' = "rewrite"
  <2>1. CASE out' = out /\ sheet' = sheet /\ pass' = pass
    <3>1. OutRight(svg, plan, out, n + 1)
      BY <1>3, <1>4, OutSame
    <3> QED
      BY <1>7, <2>1, <3>1 DEF RewriteEnd
  <2>2. PICK o : o = [from |-> place, id |-> NoId, to |-> NoId, rules |-> Sheet(sheet.rules)]
    OBVIOUS
  <2>3. CASE out' = Append(out, o) /\ sheet' = NoSheet /\ pass' = pass
    <3>1. sheet.rules \in SUBSET Rules
      BY <1>7
    <3>2. \A rule \in Sheet(sheet.rules) : RuleRight(plan, rule)
      BY <3>1, SheetRight
    <3>3. o.from = n + 1 /\ o.id = NoId /\ o.rules = Sheet(sheet.rules)
      BY <1>1, <2>2
    <3>4. EntryRight(svg, plan, o)
      BY <1>2, <3>2, <3>3 DEF EntryRight
    <3>5. OutRight(svg, plan, out', n + 1)
      BY <1>3, <2>3, <3>3, <3>4, OutLonger
    <3> QED
      BY <2>3, <3>5 DEF RewriteEnd, NoSheet
  <2> QED
    BY <2>1, <2>2, <2>3 DEF RewriteEnd
<1>9. Rewriting'
  BY <1>3, <1>4, <1>5, <1>6, <1>8, RewritingNext
<1> QED
  BY <1>6, <1>8, <1>9 DEF SvgTypes

LEMMA RewriteTextKeeps ==
  ASSUME SvgTypes, Rewriting, RewriteText
  PROVE  Rewriting' /\ SvgTypes'
<1>1. PICK n \in 0 .. Len(svg) : place = n + 1
  BY DEF Rewriting
<1>2. svg[n + 1].kind = "text" /\ ~IsTag(svg, n + 1)
  BY <1>1 DEF RewriteText, IsTag
<1>3. /\ n \in Nat /\ n + 1 \in 0 .. Len(svg) /\ WellFormed(svg[n + 1])
      /\ OutRight(svg, plan, out, n) /\ Reading(reader, svg, n) /\ CountedTo(seen, svg, n)
  BY <1>1, EventAgain DEF RewriteText
<1>4. ~IsKept(svg, n + 1) /\ CountedTo(seen, svg, n + 1)
  BY <1>2, <1>3, OtherEvent
<1>5. UNCHANGED <<svg, pass, reader, plan, nextId, seen, out>> /\ place' = (n + 1) + 1 /\ pass = "rewrite"
  BY <1>1 DEF RewriteText
<1>6. Reading(reader, svg, n + 1)
  <2>1. reader \in [open : Seq(SvgNames), suppressed : Nat, foreign : Nat, roots : Nat]
    BY <1>3 DEF Reading
  <2>2. svg[n + 1].kind \notin {"start", "end"}
    BY <1>2
  <2> QED
    BY <1>3, <2>1, <2>2, ReadingOther
<1>7. OutRight(svg, plan, out, n + 1)
  BY <1>3, <1>4, OutSame
<1>8. sheet' \in [depth : Nat, rules : SUBSET Rules]
  <2>1. sheet \in [depth : Nat, rules : SUBSET Rules] /\ svg[n + 1].rule \in Rules
    BY <1>2, <1>3 DEF Rewriting, WellFormed
  <2> QED
    BY <1>1, <2>1 DEF RewriteText
<1>9. Rewriting'
  BY <1>3, <1>4, <1>5, <1>6, <1>7, <1>8, RewritingNext
<1> QED
  BY <1>5, <1>9 DEF SvgTypes

-----------------------------------------------------------------------------
(* Every step *)

LEMMA EventsAreWellFormed ==
  /\ \A tag \in Tags : WellFormed(StartEvent(tag)) /\ WellFormed(EmptyEvent(tag))
  /\ \A rule \in Rules : WellFormed(TextEvent(rule))
  /\ WellFormed(EndEvent) /\ WellFormed(DoctypeEvent)
  BY DEF StartEvent, EmptyEvent, TextEvent, EndEvent, DoctypeEvent, Event, WellFormed,
         SvgEvents, SvgKinds

\* A source that is refused.
LEMMA FailedTypes ==
  ASSUME SvgTypes, pass' = "failed", UNCHANGED <<plan, nextId, seen>>,
         svg' = svg \/ \E e : WellFormed(e) /\ svg' = Append(svg, e)
  PROVE  SvgInv'
<1>1. svg \in Seq(SvgEvents) /\ \A k \in 1 .. Len(svg) : WellFormed(svg[k])
  BY DEF SvgTypes
<1>2. svg' \in Seq(SvgEvents) /\ \A k \in 1 .. Len(svg') : WellFormed(svg'[k])
  <2>1. CASE svg' = svg
    BY <1>1, <2>1
  <2>2. ASSUME NEW e, WellFormed(e), svg' = Append(svg, e)
        PROVE  svg' \in Seq(SvgEvents) /\ \A k \in 1 .. Len(svg') : WellFormed(svg'[k])
    <3>1. svg' \in Seq(SvgEvents) /\ Longer(svg, e) /\ Len(svg) \in Nat
      BY <1>1, <2>2, LongerOf DEF WellFormed
    <3>2. Len(svg') = Len(svg) + 1 /\ svg'[Len(svg) + 1] = e /\ \A i \in 1 .. Len(svg) : svg'[i] = svg[i]
      BY <2>2, <3>1 DEF Longer
    <3>3. \A k \in 1 .. Len(svg) + 1 : k \in 1 .. Len(svg) \/ k = Len(svg) + 1
      BY <3>1
    <3> QED
      BY <1>1, <2>2, <3>1, <3>2, <3>3
  <2> QED
    BY <2>1, <2>2
<1>3. SvgTypes'
  BY <1>2 DEF SvgTypes
<1> QED
  BY <1>3 DEF SvgInv

LEMMA InspectEofKeeps ==
  ASSUME SvgTypes, Inspecting, InspectEof
  PROVE  SvgInv'
<1>1. CASE AtTop /\ reader.roots = 1
  <2>1. /\ pass' = "rewrite" /\ reader' = Fresh /\ seen' = Unseen
        /\ UNCHANGED <<svg, place, plan, nextId, sheet, out>>
    BY <1>1 DEF InspectEof
  <2>2. RootRight(svg) /\ Planned(svg, plan, nextId) /\ place = 1 /\ out = << >> /\ sheet = NoSheet
    BY <1>1 DEF Inspecting
  <2>3. Reading(Fresh, svg, 0)
    BY FreshReads
  <2>4. CountedTo(Unseen, svg, 0)
    <3>1. \A id \in Ids : Count(svg, id, 0) = 0
      BY CountIs
    <3> QED
      BY <3>1 DEF CountedTo, Unseen
  <2>5. OutRight(svg, plan, << >>, 0)
    <3>1. << >> \in Seq({}) /\ Len(<< >>) = 0
      OBVIOUS
    <3>2. 1 .. 0 = {}
      OBVIOUS
    <3> QED
      BY <3>1, <3>2 DEF OutRight
  <2>6. 0 \in 0 .. Len(svg) /\ place = 0 + 1
    BY <2>2 DEF SvgTypes
  <2>7. NoSheet \in [depth : Nat, rules : SUBSET Rules]
    BY DEF NoSheet
  <2>8. Rewriting'
    BY <2>1, <2>2, <2>3, <2>4, <2>5, <2>6, <2>7 DEF Rewriting
  <2>9. SvgTypes'
    BY <2>1 DEF SvgTypes, Unseen
  <2> QED
    BY <2>1, <2>8, <2>9 DEF SvgInv
<1>2. CASE ~(AtTop /\ reader.roots = 1)
  BY <1>2, FailedTypes DEF InspectEof
<1> QED
  BY <1>1, <1>2

LEMMA InspectTagStep ==
  ASSUME SvgInv, NEW tag \in Tags, NEW e, e \in {StartEvent(tag), EmptyEvent(tag)}, InspectTag(e)
  PROVE  SvgInv'
<1>1. SvgTypes /\ Inspecting /\ pass = "inspect" /\ WellFormed(e)
  BY EventsAreWellFormed DEF SvgInv, InspectTag, Reads
<1>2. CASE pass' = "failed"
  <2>1. svg' = Append(svg, e)
    BY DEF InspectTag, Reads
  <2>2. UNCHANGED <<plan, nextId, seen>>
    BY <1>1, <1>2 DEF InspectTag
  <2> QED
    BY <1>1, <1>2, <2>1, <2>2, FailedTypes
<1>3. CASE pass' = "inspect"
  <2>1. Inspecting' /\ SvgTypes'
    BY <1>1, <1>3, InspectTagKeeps
  <2> QED
    BY <1>3, <2>1 DEF SvgInv
<1> QED
  BY <1>1, <1>2, <1>3 DEF InspectTag

LEMMA InspectOtherStep ==
  ASSUME SvgInv, InspectEnd \/ (\E rule \in Rules : InspectText(rule)) \/ InspectDoctype
  PROVE  SvgInv'
<1>1. SvgTypes /\ Inspecting /\ pass = "inspect"
  BY DEF SvgInv, InspectEnd, InspectText, InspectDoctype, Reads
<1>2. CASE InspectEnd
  <2>1. svg' = Append(svg, EndEvent) /\ WellFormed(EndEvent) /\ EndEvent.kind = "end"
        /\ UNCHANGED <<place, sheet, out, plan, nextId, seen>>
    BY <1>2, EventsAreWellFormed DEF InspectEnd, Reads, EndEvent, Event
  <2>2. CASE AtTop
    <3>1. pass' = "failed"
      BY <1>2, <2>2 DEF InspectEnd
    <3> QED
      BY <1>1, <2>1, <3>1, FailedTypes
  <2>3. CASE ~AtTop
    <3>1. reader' = ReadEnd /\ pass' = "inspect"
      BY <1>1, <1>2, <2>3 DEF InspectEnd
    <3>2. Inspecting' /\ SvgTypes'
      BY <1>1, <2>1, <2>3, <3>1, InspectOtherKeeps
    <3> QED
      BY <3>1, <3>2 DEF SvgInv
  <2> QED
    BY <2>2, <2>3
<1>3. ASSUME NEW rule \in Rules, InspectText(rule) PROVE SvgInv'
  <2>1. PICK e : e = TextEvent(rule)
    OBVIOUS
  <2>2. svg' = Append(svg, e) /\ WellFormed(e) /\ e.kind = "text"
        /\ UNCHANGED <<place, sheet, out, plan, nextId, seen, reader>>
    BY <1>3, <2>1, EventsAreWellFormed DEF InspectText, Reads, TextEvent, Event
  <2>3. CASE AtTop
    <3>1. pass' = "failed"
      BY <1>3, <2>3 DEF InspectText
    <3> QED
      BY <1>1, <2>2, <3>1, FailedTypes
  <2>4. CASE ~AtTop
    <3>1. reader' = reader /\ pass' = "inspect"
      BY <1>1, <1>3, <2>2, <2>4 DEF InspectText
    <3>2. Inspecting' /\ SvgTypes'
      BY <1>1, <2>2, <2>4, <3>1, InspectOtherKeeps
    <3> QED
      BY <3>1, <3>2 DEF SvgInv
  <2> QED
    BY <2>3, <2>4
<1>4. CASE InspectDoctype
  <2>1. svg' = Append(svg, DoctypeEvent) /\ pass' = "failed" /\ UNCHANGED <<plan, nextId, seen>>
    BY <1>4 DEF InspectDoctype, Reads
  <2> QED
    BY <1>1, <2>1, EventsAreWellFormed, FailedTypes
<1> QED
  BY <1>2, <1>3, <1>4

LEMMA RewriteStep ==
  ASSUME SvgInv, RewriteTag \/ RewriteEnd \/ RewriteText \/ RewriteEof
  PROVE  SvgInv'
<1>1. SvgTypes /\ Rewriting /\ pass = "rewrite"
  BY DEF SvgInv, RewriteTag, RewriteEnd, RewriteText, RewriteEof
<1>2. CASE RewriteTag
  <2>1. CASE pass' = "failed"
    <3>1. UNCHANGED <<svg, plan, nextId, seen>>
      BY <1>1, <1>2, <2>1 DEF RewriteTag
    <3> QED
      BY <1>1, <2>1, <3>1, FailedTypes
  <2>2. CASE pass' # "failed"
    <3>1. Rewriting' /\ SvgTypes'
      BY <1>1, <1>2, <2>2, RewriteTagKeeps
    <3>2. pass' = "rewrite"
      BY <1>1, <1>2, <2>2 DEF RewriteTag
    <3> QED
      BY <3>1, <3>2 DEF SvgInv
  <2> QED
    BY <2>1, <2>2
<1>3. CASE RewriteEnd
  <2>1. CASE pass' = "failed"
    <3>1. UNCHANGED <<svg, plan, nextId, seen>>
      BY <1>3 DEF RewriteEnd
    <3> QED
      BY <1>1, <2>1, <3>1, FailedTypes
  <2>2. CASE pass' # "failed"
    <3>1. Rewriting' /\ SvgTypes'
      BY <1>1, <1>3, <2>2, RewriteEndKeeps
    <3>2. pass' = "rewrite"
      BY <1>1, <1>3, <2>2 DEF RewriteEnd
    <3> QED
      BY <3>1, <3>2 DEF SvgInv
  <2> QED
    BY <2>1, <2>2
<1>4. CASE RewriteText
  <2>1. Rewriting' /\ SvgTypes'
    BY <1>1, <1>4, RewriteTextKeeps
  <2>2. pass' = "rewrite"
    BY <1>1, <1>4 DEF RewriteText
  <2> QED
    BY <2>1, <2>2 DEF SvgInv
<1>5. CASE RewriteEof
  <2>1. PICK n \in 0 .. Len(svg) : place = n + 1 /\ OutRight(svg, plan, out, n)
    BY <1>1 DEF Rewriting
  <2>2. n = Len(svg) /\ pass' = "done" /\ UNCHANGED <<svg, place, plan, nextId, seen, sheet, out>>
    <3>1. Len(svg) \in Nat /\ place > Len(svg)
      BY <1>1, <1>5 DEF SvgTypes, RewriteEof
    <3> QED
      BY <1>5, <2>1, <3>1 DEF RewriteEof
  <2>3. sheet' \in [depth : Nat, rules : SUBSET Rules] /\ place' = n + 1
    BY <1>1, <2>1, <2>2 DEF Rewriting
  <2>4. Rewriting'
    BY <1>1, <2>1, <2>2, <2>3, RewritingNext
  <2>5. SvgTypes'
    BY <1>1, <2>2 DEF SvgTypes
  <2> QED
    BY <2>2, <2>4, <2>5 DEF SvgInv
<1> QED
  BY <1>2, <1>3, <1>4, <1>5

LEMMA SvgStarts ==
  ASSUME SvgInit
  PROVE  SvgInv
<1>1. /\ svg = << >> /\ pass = "inspect" /\ place = 1 /\ reader = Fresh /\ seen = Unseen
      /\ nextId = 0 /\ plan = [id \in Ids |-> Unplanned] /\ sheet = NoSheet /\ out = << >>
  BY DEF SvgInit
<1>2. svg \in Seq(SvgEvents) /\ Len(svg) = 0 /\ 1 .. Len(svg) = {}
  BY <1>1
<1>3. SvgTypes
  BY <1>1, <1>2 DEF SvgTypes, Plans, Unplanned, Unseen, NoId
<1>4. Reading(reader, svg, Len(svg))
  BY <1>1, <1>2, FreshReads
<1>5. CountedTo(seen, svg, Len(svg))
  <2>1. \A id \in Ids : Count(svg, id, 0) = 0
    BY CountIs
  <2> QED
    BY <1>1, <1>2, <2>1 DEF CountedTo, Unseen
<1>6. RootRight(svg)
  BY <1>2 DEF RootRight
<1>7. Planned(svg, plan, nextId)
  <2>1. \A id \in Ids : plan[id].new = NoId
    BY <1>1 DEF Unplanned
  <2> QED
    BY <1>2, <2>1 DEF Planned, NoTwoAlike, PlanRight
<1> QED
  BY <1>1, <1>3, <1>4, <1>5, <1>6, <1>7 DEF SvgInv, Inspecting

LEMMA SvgStep ==
  ASSUME SvgInv, [SvgNext]_svgVars
  PROVE  SvgInv'
<1>1. CASE UNCHANGED svgVars
  BY <1>1 DEF svgVars, SvgInv, SvgTypes, Inspecting, Rewriting
<1>2. ASSUME NEW tag \in Tags, InspectTag(StartEvent(tag)) \/ InspectTag(EmptyEvent(tag)) PROVE SvgInv'
  BY <1>2, InspectTagStep
<1>3. CASE InspectEnd \/ (\E rule \in Rules : InspectText(rule)) \/ InspectDoctype
  BY <1>3, InspectOtherStep
<1>4. CASE InspectEof
  BY <1>4, InspectEofKeeps DEF SvgInv, InspectEof
<1>5. CASE RewriteTag \/ RewriteEnd \/ RewriteText \/ RewriteEof
  BY <1>5, RewriteStep
<1> QED
  BY <1>1, <1>2, <1>3, <1>4, <1>5 DEF SvgNext

-----------------------------------------------------------------------------
(* An accepted diagram *)

LEMMA TargetIsRoot ==
  ASSUME SvgTypes, RootRight(svg), NEW id, NEW k, IsTarget(svg, id, k), Bearer(svg, id, 1)
  PROVE  k = 1
<1>1. Len(svg) \in Nat /\ k \in 1 .. Len(svg) /\ 1 \in 1 .. Len(svg)
  BY DEF SvgTypes, IsTarget
<1>2. Better(svg, k, 1) /\ IsTag(svg, k) /\ IsTag(svg, 1)
  BY <1>1 DEF IsTarget, Bearer, IsKept
<1>3. SUFFICES ASSUME k # 1 PROVE FALSE
  OBVIOUS
<1>4. 1 \in Around(svg, k)
  BY <1>1, <1>2, <1>3 DEF RootRight
<1>5. svg[1].kind = "start"
  BY <1>4 DEF Around
<1> QED
  BY <1>1, <1>2, <1>3, <1>5 DEF Better

LEMMA NewLeads ==
  ASSUME SvgInv, pass = "done", NEW id
  PROVE  Leads(NewOf(plan, id), id)
<1>1. /\ SvgTypes /\ RootRight(svg) /\ Planned(svg, plan, nextId)
      /\ svg \in Seq(SvgEvents) /\ Len(svg) \in Nat /\ OutRight(svg, plan, out, Len(svg))
  BY DEF SvgInv, SvgTypes, Rewriting
<1>2. /\ DOMAIN svg = 1 .. Len(svg) /\ DOMAIN out = 1 .. Len(out)
  BY <1>1 DEF OutRight
<1>3. \A k : k \in Bearers(svg, id) <=> k \in 1 .. Len(svg) /\ Bearer(svg, id, k)
  BY <1>2 DEF Bearers, Bearer
<1>4. PICK new : new = NewOf(plan, id)
  OBVIOUS
<1> DEFINE named == {k \in DOMAIN out : out[k].id # NoId /\ out[k].id = new}
<1>5. CASE id \in Ids /\ Bearers(svg, id) # {}
  <2>1. new = plan[id].new /\ PlanRight(svg, plan[id], nextId, id)
    BY <1>1, <1>4, <1>5 DEF NewOf, Planned
  <2>2. PICK k : IsTarget(svg, id, k) /\ new \in 0 .. nextId /\ (new = RootId <=> Bearer(svg, id, 1))
    BY <1>3, <1>5, <2>1 DEF PlanRight
  <2>3. Target(svg, id) = k /\ k \in 1 .. Len(svg) /\ Bearer(svg, id, k) /\ new # NoId
    BY <1>1, <2>2, TargetIs DEF IsTarget, NoId
  <2>4. IsKept(svg, k) /\ IsTag(svg, k) /\ svg[k].tag.id = id
    BY <2>3 DEF Bearer, IsKept
  <2>5. PICK m \in 1 .. Len(out) : out[m].from = k
    BY <1>1, <2>3, <2>4 DEF OutRight
  <2>6. NameOf(svg, plan, k) = new
    BY <1>5, <2>1, <2>2, <2>3, <2>4 DEF NameOf
  <2>7. out[m].id = new
    <3>1. EntryRight(svg, plan, out[m])
      BY <1>1 DEF OutRight
    <3> QED
      BY <2>4, <2>5, <2>6, <3>1 DEF EntryRight
  <2>8. ASSUME NEW j \in 1 .. Len(out), out[j].id = new PROVE j = m
    <3>1. EntryRight(svg, plan, out[j])
      BY <1>1 DEF OutRight
    <3>2. PICK f : f = out[j].from
      OBVIOUS
    <3>3. NameOf(svg, plan, f) = new
      BY <2>3, <2>8, <3>1, <3>2 DEF EntryRight
    <3>4. CASE f = 1
      <4>1. new = RootId
        BY <3>3, <3>4 DEF NameOf
      <4>2. k = 1
        BY <1>1, <2>2, <4>1, TargetIsRoot
      <4> QED
        BY <1>1, <2>5, <3>2, <3>4, <4>2 DEF OutRight
    <3>5. CASE f # 1
      <4>1. PICK other \in Ids : IsTarget(svg, other, f) /\ plan[other].new = new
        BY <2>3, <3>3, <3>5 DEF NameOf
      <4>2. other = id
        BY <1>1, <1>5, <2>1, <2>3, <4>1 DEF Planned, NoTwoAlike
      <4>3. f = k
        BY <1>1, <2>3, <4>1, <4>2, TargetIs
      <4> QED
        BY <1>1, <2>5, <3>2, <4>3 DEF OutRight
    <3> QED
      BY <3>4, <3>5
  <2>9. named = {m}
    BY <1>2, <2>3, <2>7, <2>8
  <2>10. m \in named /\ out[m].from = Target(svg, id)
    BY <2>3, <2>5, <2>9
  <2> HIDE DEF named
  <2>11. \E i \in named : named = {i} /\ out[i].from = Target(svg, id)
    BY <2>9, <2>10
  <2>12. Leads(new, id)
    BY <1>5, <2>11 DEF Leads, named
  <2> QED
    BY <1>4, <2>12
<1>6. CASE ~(id \in Ids /\ Bearers(svg, id) # {})
  <2>1. new = NoId
    <3>1. CASE id \notin Ids
      BY <1>4, <3>1 DEF NewOf
    <3>2. CASE id \in Ids
      <4>1. PlanRight(svg, plan[id], nextId, id) /\ Bearers(svg, id) = {}
        BY <1>1, <1>6, <3>2 DEF Planned
      <4>2. \A k : ~IsTarget(svg, id, k)
        BY <1>1, <4>1, TargetIs
      <4> QED
        BY <1>4, <3>2, <4>1, <4>2 DEF NewOf, PlanRight
    <3> QED
      BY <3>1, <3>2
  <2>2. Leads(new, id)
    BY <1>6, <2>1 DEF Leads
  <2> QED
    BY <1>4, <2>2
<1> QED
  BY <1>5, <1>6

LEMMA TargetsAreKept ==
  ASSUME SvgInv
  PROVE  ReferencesKeepTheirTarget
<1>1. SUFFICES ASSUME pass = "done", NEW k \in DOMAIN out
               PROVE  /\ IsTag(svg, out[k].from) => Leads(out[k].to, svg[out[k].from].tag.to)
                      /\ \A rule \in out[k].rules : RuleLeads(rule)
  BY DEF ReferencesKeepTheirTarget
<1>2. EntryRight(svg, plan, out[k])
  <2>1. OutRight(svg, plan, out, Len(svg))
    BY <1>1 DEF SvgInv, SvgTypes, Rewriting
  <2>2. DOMAIN out = 1 .. Len(out)
    BY <2>1 DEF OutRight
  <2> QED
    BY <1>1, <2>1, <2>2 DEF OutRight
<1>3. IsTag(svg, out[k].from) => Leads(out[k].to, svg[out[k].from].tag.to)
  BY <1>1, <1>2, NewLeads DEF EntryRight
<1>4. ASSUME NEW rule \in out[k].rules PROVE RuleLeads(rule)
  <2>1. RuleRight(plan, rule)
    BY <1>2 DEF EntryRight
  <2>2. Leads(rule.new, rule.url)
    BY <1>1, <2>1, NewLeads DEF RuleRight
  <2>3. ASSUME NEW s \in rule.selectors PROVE SelectorLeads(s)
    <3>1. SelectorRight(plan, s)
      BY <2>1 DEF RuleRight
    <3>2. ASSUME NEW i \in DOMAIN s PROVE s[i] = Root \/ Leads(s[i].new, s[i].id)
      <4>1. s[i] = Root \/ s[i].new = NewOf(plan, s[i].id)
        BY <3>1 DEF SelectorRight
      <4>2. Leads(NewOf(plan, s[i].id), s[i].id)
        BY <1>1, NewLeads
      <4> QED
        BY <4>1, <4>2
    <3> QED
      BY <3>1, <3>2 DEF SelectorRight, SelectorLeads
  <2> QED
    BY <2>2, <2>3 DEF RuleLeads
<1> QED
  BY <1>3, <1>4

\* Every reference of a diagram that was accepted leads where it led in the source
\* (generated_svg.rs:79, 284), whatever ids, tags and rules there are and however long
\* the source is: the second pass counts the occurrences of an id as the first did.
THEOREM ReferencesKept == SvgSpec => []ReferencesKeepTheirTarget
<1>1. SvgInit => SvgInv
  BY SvgStarts
<1>2. SvgInv /\ [SvgNext]_svgVars => SvgInv'
  BY SvgStep
<1>3. SvgInv => ReferencesKeepTheirTarget
  BY TargetsAreKept
<1> QED
  BY <1>1, <1>2, <1>3, PTL DEF SvgSpec
=============================================================================
