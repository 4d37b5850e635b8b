--------------------------- MODULE DocumentLedger ---------------------------
(***************************************************************************)
(* One document and everyone who may change it: mutation queues that send  *)
(* any batch at any time, retries and reordered ones included, and the     *)
(* application service, which saves it, replaces its text when a proposal  *)
(* is accepted or a frontend is synchronised, and touches it when a file   *)
(* operation is staged, cancelled or committed. Each call runs under the   *)
(* service's lock, so a call is one step.                                  *)
(***************************************************************************)
EXTENDS EditorDocument, Sequences

CONSTANT NoReply

VARIABLES
  doc,       \* the document
  history,   \* history[r]: the text of revision r and the batch that made it
  reply      \* the answer of the last call, NoReply if it was no batch

vars == <<doc, history, reply>>

Version == [text : Texts, cause : Batch \cup {NoBatch}]

Reply == [outcome : {"applied", "replayed"}, batch : Batch, ack : Ack]
           \cup [outcome : {"refused"}, batch : Batch]

-----------------------------------------------------------------------------
Init ==
  /\ \E text \in Texts, dirty \in BOOLEAN : doc = NewDocument(text, dirty)
  /\ history = << [text |-> doc.text, cause |-> NoBatch] >>
  /\ reply = NoReply

Record(cause) == history' = Append(history, [text |-> doc'.text, cause |-> cause])

ApplyNew(batch) ==
  /\ Accepts(doc, batch)
  /\ doc' = AfterBatch(doc, batch)
  /\ Record(batch)
  /\ reply' = [outcome |-> "applied", batch |-> batch, ack |-> NewAck(doc, batch)]

Replay(batch) ==
  /\ IsReplay(doc, batch)
  /\ reply' = [outcome |-> "replayed", batch |-> batch, ack |-> ReplayedAck(doc, batch)]
  /\ UNCHANGED <<doc, history>>

Refuse(batch) ==
  /\ ~Accepts(doc, batch)
  /\ ~IsReplay(doc, batch)
  /\ reply' = [outcome |-> "refused", batch |-> batch]
  /\ UNCHANGED <<doc, history>>

ApplyMutationBatch(batch) == ApplyNew(batch) \/ Replay(batch) \/ Refuse(batch)

Save ==
  /\ doc' = MarkSaved(doc)
  /\ reply' = NoReply
  /\ UNCHANGED history

\* The operations that make a revision without a batch.
Revise(next) ==
  /\ CanAdvance(doc)
  /\ doc' = next
  /\ Record(NoBatch)
  /\ reply' = NoReply

Replace(text, dirty) == Revise(ReplaceCanonicalText(doc, text, dirty))

CommitDelete(dirty) == Revise(SetDirtyAndTouch(doc, dirty))

TouchDocument == Revise(Touch(doc))

Next ==
  \/ \E batch \in Batch : ApplyMutationBatch(batch)
  \/ Save
  \/ \E text \in Texts, dirty \in BOOLEAN : Replace(text, dirty)
  \/ \E dirty \in BOOLEAN : CommitDelete(dirty)
  \/ TouchDocument

Spec == Init /\ [][Next]_vars

-----------------------------------------------------------------------------
TypeOK ==
  /\ doc \in Document
  /\ history \in Seq(Version)
  /\ reply \in Reply \cup {NoReply}

\* A revision number names one text for good: the preview cache, the proposals
\* and the drafts all read "revision r" as "this text" long after they left
\* the lock (every operation of editor_document.rs that writes self.text).
RevisionNamesText ==
  /\ Len(history) = doc.revision
  /\ history[doc.revision].text = doc.text

\* A batch changes exactly the text its sender saw: the revision it expected is
\* the one right before, and the new text is that text edited (no lost update,
\* the checks before the commit in apply_mutation_batch).
BatchesExtendWhatTheySaw ==
  \A r \in 2 .. Len(history) :
    LET batch == history[r].cause
    IN  batch # NoBatch =>
          /\ batch.expectedRevision = r - 1
          /\ history[r].text = Applied(history[r - 1].text, batch.payload)

\* However often a client sends a batch, and whatever others do in between, its
\* batches take effect once each, in the order of their numbers and with no
\* gap (the retry ledger last_batches).
Numbered(client, n) ==
  {r \in 1 .. Len(history) :
     history[r].cause # NoBatch
       /\ history[r].cause.client = client
       /\ history[r].cause.batchId = n}

BatchesOnceInOrder ==
  \A r \in 1 .. Len(history) :
    LET batch == history[r].cause
    IN  batch # NoBatch =>
          /\ batch.batchId >= FirstBatchId
          /\ Numbered(batch.client, batch.batchId) = {r}
          /\ batch.batchId > FirstBatchId =>
               \E p \in 1 .. r - 1 : Numbered(batch.client, batch.batchId - 1) = {p}

\* What an acknowledgement says is so, on a first answer and on a retry: the
\* batch made that revision, that length, and while the revision is current
\* the document is as dirty as the answer says.
AcksTellTheTruth ==
  (reply # NoReply /\ reply.outcome # "refused") =>
    LET ack == reply.ack
    IN  /\ ack.revision <= doc.revision
        /\ history[ack.revision].cause = reply.batch
        /\ ack.length = LengthOf(history[ack.revision].text)
        /\ ack.revision = doc.revision => ack.dirty = doc.dirty

\* The dirty flag is never out of step with the saved text it summarises, so a
\* document reverted to what was saved is clean again and every other one that
\* differs is dirty (is_dirty against saved_text).
DirtyMeansUnsaved == doc.dirty = (doc.saved # doc.text)

\* The newest applied batch is one batch, and the one history says, so the
\* answer of last_applied_batch does not depend on the map's order.
LastAppliedIsNewest ==
  LET causes == {r \in 1 .. Len(history) : history[r].cause # NoBatch}
      newest == {r \in causes : \A q \in causes : q <= r}
  IN  {<<e.batch, e.ack.revision>> : e \in LastAppliedBatches(doc)}
        = {<<history[r].cause, r>> : r \in newest}

-----------------------------------------------------------------------------
(* What ties the ledger to history. *)
LedgerAgreesWithHistory ==
  \A c \in Clients :
    LET entry == doc.ledger[c]
    IN  IF entry = NoBatch
          THEN \A r \in 1 .. Len(history) :
                 history[r].cause # NoBatch => history[r].cause.client # c
          ELSE /\ entry.batch.client = c
               /\ entry.ack.revision <= Len(history)
               /\ history[entry.ack.revision].cause = entry.batch
               /\ entry.ack.length = LengthOf(history[entry.ack.revision].text)
               /\ \A r \in 1 .. Len(history) :
                    (history[r].cause # NoBatch /\ history[r].cause.client = c)
                      => /\ history[r].cause.batchId <= entry.batch.batchId
                         /\ r <= entry.ack.revision

=============================================================================
