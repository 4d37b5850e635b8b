---------------------------- MODULE ProposalReview ----------------------------
(***************************************************************************)
(* Changes proposed by another program over REST, reviewed by the user:    *)
(* ApplicationService in crates/kmark-application/src/service.rs, as the   *)
(* commands of src-tauri/src/commands/external_api.rs drive it. A proposal *)
(* edits the text of an open document, or renames or deletes its file; the *)
(* latter are staged when accepted and carried out by a commit.            *)
(*                                                                         *)
(* Every window shows every pending proposal, so several reviewers may act *)
(* on one. Accepting runs on a thread of its own and takes the service's   *)
(* lock several times, with the disk read in between; so does saving.      *)
(* Rejecting, editing, committing and cancelling are synchronous commands  *)
(* of the main thread, one at a time, but not excluded from an accept or a *)
(* save under way.                                                         *)
(*                                                                         *)
(* One session with a saved document. A text is a number that every edit   *)
(* changes, EmptyText among them; a file is the version of its contents, 0 *)
(* if there is none, and a fingerprint is the version it was taken of.     *)
(* Every write makes a new version, and a move keeps it.                   *)
(***************************************************************************)
EXTENDS Integers, Sequences, FiniteSets

CONSTANTS
  Reviewers,     \* threads that accept
  Proposals,     \* proposals another program may make
  Paths,         \* files below the registered root
  SavePaths,     \* those the user saves to
  ForeignPaths,  \* those other programs write or remove
  MaxRevision,   \* bound on revisions
  MaxVersion,    \* bound on versions of files
  None, NoText, NoBatch, Rejected

ASSUME PathsAssumption == SavePaths \subseteq Paths /\ ForeignPaths \subseteq Paths

EmptyText == 0
Texts == 0 .. 1
Edited(text) == 1 - text
Window == "window"
Versions == 1 .. MaxVersion
Absent == 0

D == INSTANCE EditorDocument
       WITH Clients <- {Window}, Payloads <- {"edit"}, LengthOf <- LAMBDA t : t,
            Applied <- LAMBDA t, p : Edited(t)

VARIABLES
  doc,         \* the document of the session
  history,     \* history[r]: text of revision r and the proposal that made it
  path,        \* the file of the session, None once it is deleted
  fingerprint, \* of that file, as last seen by the session
  pending,     \* pending_proposal_id
  staged,      \* staged_file_operation
  proposals,   \* what was proposed
  accepting,   \* where each accept is
  committing,  \* where the commit is
  saving,      \* where the save is
  disk,        \* the files
  contents     \* the text written as each version

vars == <<doc, history, path, fingerprint, pending, staged, proposals,
          accepting, committing, saving, disk, contents>>

files == <<disk, contents>>

session == <<doc, history, path, fingerprint, pending, staged>>

Kind == [op : {"text", "delete"}, target : {None}] \cup [op : {"rename"}, target : Paths]
Status == {"pending", "accepted", "rejected", "stale"}
Proposal == [status : Status, kind : Kind, base : D!Revisions, baseText : Texts]
Stage ==
  [kind : Kind, source : Paths, fingerprint : Versions, revision : D!Revisions]

ASSUME RevisionsAssumption == MaxRevision \in Nat \ {0}

ASSUME NoneAssumption == None \notin Proposals /\ None \notin Status /\ None \notin Proposal

Resting == [pc |-> "idle"]

StatusOf(p) == IF proposals[p] = None THEN None ELSE proposals[p].status
IsFileOperation(p) == proposals[p].kind.op # "text"
DeleteIsStaged == staged # None /\ staged.kind.op = "delete"

-----------------------------------------------------------------------------
Init ==
  /\ \E text \in Texts : doc = D!NewDocument(text, FALSE)
  /\ history = << [text |-> doc.text, cause |-> None] >>
  /\ path \in Paths
  /\ disk = [q \in Paths |-> IF q = path THEN 1 ELSE Absent]
  /\ contents = [v \in Versions |-> IF v = 1 THEN doc.text ELSE None]
  /\ fingerprint = 1
  /\ pending = None
  /\ staged = None
  /\ proposals = [p \in Proposals |-> None]
  /\ accepting = [r \in Reviewers |-> Resting]
  /\ committing = Resting
  /\ saving = Resting

Revise(next, cause) ==
  /\ D!CanAdvance(doc)
  /\ doc' = next
  /\ history' = Append(history, [text |-> next.text, cause |-> cause])

\* create_session_proposal, at the revision the other program has read.
CreateProposal(p, kind) ==
  /\ proposals[p] = None
  /\ pending = None
  /\ kind.op # "text" => path # None
  /\ pending' = p
  /\ proposals' = [proposals EXCEPT ![p] =
       [status |-> "pending", kind |-> kind, base |-> doc.revision, baseText |-> doc.text]]
  /\ UNCHANGED <<doc, history, path, fingerprint, staged, accepting, committing, saving, files>>

-----------------------------------------------------------------------------
(* accept_session_proposal *)

At(r, pc) == accepting[r].pc = pc

Step(r, next) == accepting' = [accepting EXCEPT ![r] = next]

\* The proposal is read, and the lock given back.
AcceptBegins(r, p) ==
  /\ At(r, "idle")
  /\ StatusOf(p) = "pending"
  /\ Step(r, [pc |-> IF IsFileOperation(p) THEN "locate" ELSE "apply", proposal |-> p,
              source |-> None, fingerprint |-> None])
  /\ UNCHANGED <<session, proposals, committing, saving, files>>

\* The file to stage is looked up.
AcceptLocates(r) ==
  /\ At(r, "locate")
  /\ LET p == accepting[r].proposal
     IN  Step(r, CASE doc.revision # proposals[p].base -> [accepting[r] EXCEPT !.pc = "stale"]
                   [] doc.revision = proposals[p].base /\ path = None -> Resting
                   [] OTHER -> [accepting[r] EXCEPT !.pc = "inspect", !.source = path,
                                                    !.fingerprint = fingerprint])
  /\ UNCHANGED <<session, proposals, committing, saving, files>>

\* It must be the file the session opened.
AcceptInspects(r) ==
  /\ At(r, "inspect")
  /\ Step(r, IF disk[accepting[r].source] = accepting[r].fingerprint
               THEN [accepting[r] EXCEPT !.pc = "apply"]
               ELSE Resting)
  /\ UNCHANGED <<session, proposals, committing, saving, files>>

\* Mutant: the text is looked at, the revision is not.
IsSameText(p) == doc.text = proposals[p].baseText

\* What the reviewer saw is still the document.
IsCurrent(p) ==
  /\ doc.revision = proposals[p].base
  /\ doc.text = proposals[p].baseText

AcceptFindsStale(r) ==
  /\ At(r, "apply")
  /\ ~IsCurrent(accepting[r].proposal)
  /\ Step(r, [accepting[r] EXCEPT !.pc = "stale"])
  /\ UNCHANGED <<session, proposals, committing, saving, files>>

\* mark_proposal_stale, in a lock of its own.
AcceptMarksStale(r) ==
  /\ At(r, "stale")
  /\ proposals' = [proposals EXCEPT ![accepting[r].proposal].status = "stale"]
  /\ pending' = None
  /\ Step(r, Resting)
  /\ UNCHANGED <<doc, history, path, fingerprint, staged, committing, saving, files>>

\* Mutant: the revision of the stage is that before the touch.
StageBeforeTouch(r) ==
  [kind |-> proposals[accepting[r].proposal].kind, source |-> accepting[r].source,
   fingerprint |-> accepting[r].fingerprint, revision |-> doc.revision]

StageOf(r) ==
  [kind |-> proposals[accepting[r].proposal].kind, source |-> accepting[r].source,
   fingerprint |-> accepting[r].fingerprint, revision |-> doc.revision + 1]

AcceptApplies(r) ==
  /\ At(r, "apply")
  /\ LET p == accepting[r].proposal
         kind == proposals[p].kind
     IN  /\ IsCurrent(p)
         /\ \/ /\ kind.op = "text"
               /\ Revise(D!ReplaceCanonicalText(doc, Edited(doc.text), TRUE), p)
               /\ UNCHANGED staged
            \/ /\ kind.op # "text"
               /\ Revise(D!Touch(doc), p)
               /\ staged' = StageOf(r)
         /\ proposals' = [proposals EXCEPT ![p].status = "accepted"]
  /\ pending' = None
  /\ Step(r, Resting)
  /\ UNCHANGED <<path, fingerprint, committing, saving, files>>

-----------------------------------------------------------------------------
(* The main thread. *)

MainThreadIsFree == committing.pc = "idle"

\* reject_session_proposal
Reject(p) ==
  /\ MainThreadIsFree
  /\ StatusOf(p) = "pending"
  /\ proposals' = [proposals EXCEPT ![p].status = "rejected"]
  /\ pending' = None
  /\ UNCHANGED <<doc, history, path, fingerprint, staged, accepting, committing, saving, files>>

\* apply_editor_mutation_batch with the next batch of the window's queue.
Edit ==
  /\ MainThreadIsFree
  /\ ~DeleteIsStaged
  /\ LET batch == [client |-> Window, batchId |-> D!ExpectedBatchId(doc, Window),
                   expectedRevision |-> doc.revision, payload |-> "edit"]
     IN  D!Accepts(doc, batch) /\ Revise(D!AfterBatch(doc, batch), None)
  /\ UNCHANGED <<path, fingerprint, pending, staged, proposals, accepting, committing,
                 saving, files>>

\* cancel_staged_file_operation
CancelStaged ==
  /\ MainThreadIsFree
  /\ staged # None
  /\ staged' = None
  /\ Revise(D!Touch(doc), None)
  /\ UNCHANGED <<path, fingerprint, pending, proposals, accepting, committing, saving, files>>

\* commit_staged_file_operation: the stage and the text are read under the
\* lock, the file is checked and moved without it, and the session follows.
CommitBegins ==
  /\ MainThreadIsFree
  /\ staged # None
  /\ committing' = [pc |-> "verify", stage |-> staged, moved |-> Absent,
                    wasEmpty |-> doc.text = EmptyText]
  /\ UNCHANGED <<session, proposals, accepting, saving, files>>

CommitVerifies ==
  /\ committing.pc = "verify"
  /\ committing' = IF disk[committing.stage.source] = committing.stage.fingerprint
                     THEN [committing EXCEPT !.pc = "move"]
                     ELSE Resting
  /\ UNCHANGED <<session, proposals, accepting, saving, files>>

\* A rename goes to a free name only; a file that went away fails both.
CommitMoves ==
  /\ committing.pc = "move"
  /\ LET source == committing.stage.source
         target == committing.stage.kind.target
     IN  IF disk[source] = Absent \/ (target # None /\ disk[target] # Absent)
           THEN /\ committing' = Resting
                /\ UNCHANGED disk
           ELSE /\ committing' = [committing EXCEPT
                                    !.pc = IF target = None THEN "finish" ELSE "read"]
                /\ disk' = [q \in Paths |-> CASE q = source -> Absent
                                              [] q = target -> disk[source]
                                              [] OTHER -> disk[q]]
  /\ UNCHANGED <<session, proposals, accepting, saving, contents>>

\* The file is read at its new name. If that fails (it is too long, no UTF-8 or
\* gone) so does the commit: the file has moved, and the operation stays staged.
CommitReads ==
  /\ committing.pc = "read"
  /\ LET found == disk[committing.stage.kind.target]
     IN  \/ committing' = Resting
         \/ /\ found # Absent
            /\ committing' = [committing EXCEPT !.pc = "finish", !.moved = found]
  /\ UNCHANGED <<session, proposals, accepting, saving, files>>

\* The operation staged in the meantime is another one: the session is left
\* as it is, the file is not.
CommitFindsOtherStage ==
  /\ committing.pc = "finish"
  /\ staged # committing.stage
  /\ committing' = Resting
  /\ UNCHANGED <<session, proposals, accepting, saving, files>>

CommitFinishes ==
  /\ committing.pc = "finish"
  /\ staged = committing.stage
  /\ IF staged.kind.op = "rename"
       THEN /\ path' = staged.kind.target
            /\ fingerprint' = committing.moved
            /\ Revise(D!Touch(doc), None)
       ELSE /\ path' = None
            /\ fingerprint' = None
            /\ Revise(D!SetDirtyAndTouch(doc, ~committing.wasEmpty), None)
  /\ staged' = None
  /\ committing' = Resting
  /\ UNCHANGED <<pending, proposals, accepting, saving, files>>

-----------------------------------------------------------------------------
(* persist_editor_session_snapshot: the text is read, written to the file of *)
(* the session or to another one, and the session follows if nothing         *)
(* revised it in the meantime. Neither the stage nor the proposal is looked  *)
(* at, and the revision stays as it is.                                      *)

Write(q, text) ==
  \E version \in Versions :
    /\ \A v \in Versions : contents[v] = None <=> v >= version
    /\ disk' = [disk EXCEPT ![q] = version]
    /\ contents' = [contents EXCEPT ![version] = text]

SaveBegins(q) ==
  /\ saving.pc = "idle"
  /\ saving' = [pc |-> "write", path |-> q, revision |-> doc.revision,
               text |-> doc.text, found |-> Absent]
  /\ UNCHANGED <<session, proposals, accepting, committing, files>>

SaveWrites ==
  /\ saving.pc = "write"
  /\ Write(saving.path, saving.text)
  /\ saving' = [saving EXCEPT !.pc = "read"]
  /\ UNCHANGED <<session, proposals, accepting, committing>>

\* The fingerprint is taken, without the lock, of what is in the file by now; a
\* file that is gone already is not found below the root.
SaveReads ==
  /\ saving.pc = "read"
  /\ saving' = [saving EXCEPT !.pc = "mark", !.found = disk[saving.path]]
  /\ UNCHANGED <<session, proposals, accepting, committing, files>>

SaveMarks ==
  /\ saving.pc = "mark"
  /\ IF saving.revision = doc.revision
       THEN /\ doc' = D!MarkSaved(doc)
            /\ path' = IF saving.found = Absent THEN None ELSE saving.path
            /\ fingerprint' = IF saving.found = Absent THEN None ELSE saving.found
       ELSE UNCHANGED <<doc, path, fingerprint>>
  /\ saving' = Resting
  /\ UNCHANGED <<history, pending, staged, proposals, accepting, committing, files>>

\* Another program writes or removes a file.
DiskChanges(q) ==
  /\ \/ \E text \in Texts : Write(q, text)
     \/ /\ disk[q] # Absent
        /\ disk' = [disk EXCEPT ![q] = Absent]
        /\ UNCHANGED contents
  /\ UNCHANGED <<session, proposals, accepting, committing, saving>>

Kinds ==
  {[op |-> "text", target |-> None], [op |-> "delete", target |-> None]}
    \cup {[op |-> "rename", target |-> q] : q \in Paths \ {path}}

Accept(r) ==
  \/ \E p \in Proposals : AcceptBegins(r, p)
  \/ AcceptLocates(r)
  \/ AcceptInspects(r)
  \/ AcceptFindsStale(r)
  \/ AcceptMarksStale(r)
  \/ AcceptApplies(r)

Commit ==
  \/ CommitBegins
  \/ CommitVerifies
  \/ CommitMoves
  \/ CommitReads
  \/ CommitFindsOtherStage
  \/ CommitFinishes

Next ==
  \/ \E p \in Proposals, kind \in Kinds : CreateProposal(p, kind)
  \/ \E r \in Reviewers : Accept(r)
  \/ \E p \in Proposals : Reject(p)
  \/ Edit
  \/ CancelStaged
  \/ Commit
  \/ \E q \in SavePaths : SaveBegins(q)
  \/ SaveWrites
  \/ SaveReads
  \/ SaveMarks
  \/ \E q \in ForeignPaths : DiskChanges(q)

Spec == Init /\ [][Next]_vars

-----------------------------------------------------------------------------
(* Correctness *)

Files == Versions \cup {Absent}

\* Types, and that the history is that of the document.
TypeOK ==
  /\ doc \in D!Document
  /\ history \in Seq([text : Texts, cause : Proposals \cup {None}])
  /\ Len(history) = doc.revision
  /\ history[doc.revision].text = doc.text
  /\ path \in Paths \cup {None}
  /\ fingerprint \in Versions \cup {None}
  /\ path = None <=> fingerprint = None
  /\ pending \in Proposals \cup {None}
  /\ staged \in Stage \cup {None}
  /\ proposals \in [Proposals -> Proposal \cup {None}]
  /\ \A r \in Reviewers : accepting[r].pc # "idle" => accepting[r].proposal \in Proposals
  /\ committing.pc # "idle" => committing.stage \in Stage
  /\ saving.pc # "idle" => saving.path \in Paths /\ saving.found \in Files
  /\ disk \in [Paths -> Files]
  /\ contents \in [Versions -> Texts \cup {None}]
  /\ \A q \in Paths : disk[q] # Absent => contents[disk[q]] # None

Revised(p) == {r \in 1 .. Len(history) : history[r].cause = p}

\* What a proposal did to the document it did to the very text its reviewer was
\* shown, and no proposal was carried out twice, however many windows accepted
\* it and whatever was typed while they did.
AcceptedAsReviewed ==
  \A p \in Proposals : \A r \in Revised(p) :
    /\ r = proposals[p].base + 1
    /\ history[r - 1].text = proposals[p].baseText
    /\ Cardinality(Revised(p)) = 1

\* A file operation waiting for its commit is the one a reviewer accepted, at
\* the revision that accepted it, and the last one accepted.
StagedAsReviewed ==
  staged # None =>
    \E p \in Proposals :
      /\ history[staged.revision].cause = p
      /\ proposals[p].kind = staged.kind
      /\ \A r \in staged.revision + 1 .. Len(history) :
           history[r].cause # None => proposals[history[r].cause].kind.op = "text"

=============================================================================
