--------------------------- MODULE EditorDocument ---------------------------
(***************************************************************************)
(* The authoritative document of an editor session: EditorDocument in      *)
(* crates/kmark-core/src/editor_document.rs. Each operation is an operator *)
(* from the document before to the document after; the modules that own a  *)
(* document apply them under the lock the code holds.                      *)
(*                                                                         *)
(* Texts are canonical (LF only), so the operations that refuse a \r have  *)
(* no such input here; LineEndings says where the LF form comes from. What *)
(* a payload does to a text is the constant operator Applied, which        *)
(* TextEdits!ApplyTransactions is one instance of; an empty batch, a range *)
(* out of order and a split surrogate pair are all Rejected. Client names  *)
(* are not blank.                                                          *)
(***************************************************************************)
EXTENDS Integers

CONSTANTS
  Clients,         \* mutation queues, each with a name of its own
  Texts,           \* canonical texts
  Payloads,        \* lists of transactions
  Applied(_, _),   \* the text a payload makes of a text, or Rejected
  LengthOf(_),     \* UTF-16 length of a text
  Rejected,
  NoText,          \* the saved text of a document with no known clean state
  NoBatch,         \* the ledger entry of a client that sent nothing yet
  MaxRevision      \* u64::MAX, where checked_add refuses to go on

ASSUME AppliedAssumption ==
  \A t \in Texts : \A p \in Payloads : Applied(t, p) \in Texts \cup {Rejected}

ASSUME LengthAssumption == \A t \in Texts : LengthOf(t) \in Nat

ASSUME MarkersAssumption == Rejected \notin Texts /\ NoText \notin Texts

ASSUME MaxRevisionAssumption == MaxRevision \in Nat \ {0}

-----------------------------------------------------------------------------
FirstBatchId == 1
FirstRevision == 1
Revisions == FirstRevision .. MaxRevision
U64 == 0 .. MaxRevision

Batch ==
  [client : Clients, batchId : U64, expectedRevision : U64, payload : Payloads]

Ack ==
  [client : Clients, batchId : U64, revision : Revisions, length : Nat,
   dirty : BOOLEAN, replayed : BOOLEAN]

AppliedBatch == [batch : Batch, ack : Ack]

ASSUME NoBatchAssumption == NoBatch \notin AppliedBatch /\ NoBatch \notin Batch

Document ==
  [text : Texts,
   saved : Texts \cup {NoText},
   revision : Revisions,
   dirty : BOOLEAN,
   ledger : [Clients -> AppliedBatch \cup {NoBatch}]]

-----------------------------------------------------------------------------
(* from_canonical_text *)
NewDocument(text, dirty) ==
  [text |-> text,
   saved |-> IF dirty THEN NoText ELSE text,
   revision |-> FirstRevision,
   dirty |-> dirty,
   ledger |-> [c \in Clients |-> NoBatch]]

(* mark_saved: the text becomes the clean state; the revision stays. *)
MarkSaved(doc) == [doc EXCEPT !.saved = doc.text, !.dirty = FALSE]

(* The revision step of every other operation: next_revision. *)
CanAdvance(doc) == doc.revision < MaxRevision

(* replace_canonical_text *)
ReplaceCanonicalText(doc, text, dirty) ==
  [doc EXCEPT !.text = text,
              !.saved = IF dirty THEN NoText ELSE text,
              !.dirty = dirty,
              !.revision = @ + 1]

(* set_dirty_and_touch *)
SetDirtyAndTouch(doc, dirty) == ReplaceCanonicalText(doc, doc.text, dirty)

(* touch *)
Touch(doc) == [doc EXCEPT !.revision = @ + 1]

-----------------------------------------------------------------------------
(***************************************************************************)
(* apply_mutation_batch. The ledger keeps the last batch of every client   *)
(* with its acknowledgement: the same batch again is answered from it, the *)
(* next batch number at the current revision is applied, all else refused. *)
(***************************************************************************)
ExpectedBatchId(doc, client) ==
  IF doc.ledger[client] = NoBatch
    THEN FirstBatchId
    ELSE doc.ledger[client].batch.batchId + 1

IsReplay(doc, batch) ==
  /\ doc.ledger[batch.client] # NoBatch
  /\ doc.ledger[batch.client].batch = batch

\* Mutant: the batch number is the only check.
AcceptsAnyRevision(doc, batch) ==
  /\ batch.batchId = ExpectedBatchId(doc, batch.client)
  /\ Applied(doc.text, batch.payload) # Rejected
  /\ CanAdvance(doc)

Accepts(doc, batch) ==
  /\ batch.batchId = ExpectedBatchId(doc, batch.client)
  /\ batch.expectedRevision = doc.revision
  /\ Applied(doc.text, batch.payload) # Rejected
  /\ CanAdvance(doc)

\* The acknowledgement of a batch applied now.
NewAck(doc, batch) ==
  LET candidate == Applied(doc.text, batch.payload)
  IN  [client |-> batch.client,
       batchId |-> batch.batchId,
       revision |-> doc.revision + 1,
       length |-> LengthOf(candidate),
       dirty |-> doc.saved # candidate,
       replayed |-> FALSE]

\* Mutant: a retry is answered with the dirty flag of the first answer.
ReplayedAckVerbatim(doc, batch) ==
  [doc.ledger[batch.client].ack EXCEPT !.replayed = TRUE]

\* The acknowledgement of a batch applied before: the revision it made then,
\* its dirty flag brought up to date only while that revision is current.
ReplayedAck(doc, batch) ==
  LET ack == doc.ledger[batch.client].ack
  IN  [ack EXCEPT !.replayed = TRUE,
                  !.dirty = IF ack.revision = doc.revision THEN doc.dirty ELSE @]

\* Mutant: the ledger does not learn of the batch.
AfterBatchUnrecorded(doc, batch) ==
  LET ack == NewAck(doc, batch)
  IN  [doc EXCEPT !.text = Applied(doc.text, batch.payload),
                  !.revision = ack.revision,
                  !.dirty = ack.dirty]

AfterBatch(doc, batch) ==
  LET ack == NewAck(doc, batch)
  IN  [doc EXCEPT !.text = Applied(doc.text, batch.payload),
                  !.revision = ack.revision,
                  !.dirty = ack.dirty,
                  !.ledger = [@ EXCEPT ![batch.client] = [batch |-> batch, ack |-> ack]]]

\* last_applied_batch: the newest entries of the ledger. The code takes one of
\* them in the iteration order of a hash map.
LastAppliedBatches(doc) ==
  LET entries == {doc.ledger[c] : c \in {d \in Clients : doc.ledger[d] # NoBatch}}
  IN  {e \in entries : \A f \in entries : f.ack.revision <= e.ack.revision}
=============================================================================
