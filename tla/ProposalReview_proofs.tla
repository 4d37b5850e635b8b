-------------------------- MODULE ProposalReview_proofs --------------------------
(***************************************************************************)
(* What a proposal did it did to the text its reviewer saw, and once, and  *)
(* what waits for its commit is what was accepted last, for any number of  *)
(* reviewers, proposals, files and revisions.                              *)
(*                                                                         *)
(* Neither is inductive. That a proposal is carried out once needs that    *)
(* every revision it made is the one after its base, so that the check of  *)
(* the base refuses a second accept, and that a name is proposed once; the *)
(* rest is that a base is a revision with the text that was shown.         *)
(***************************************************************************)
EXTENDS ProposalReview, FiniteSetTheorems, TLAPS

Fields == {"text", "saved", "revision", "dirty", "ledger"}

IsDocument(d) ==
  /\ DOMAIN d = Fields
  /\ d.text \in Texts
  /\ d.revision \in Nat \ {0}

Version == [text : Texts, cause : Proposals \cup {None}]

Types ==
  /\ IsDocument(doc)
  /\ doc.revision <= MaxRevision
  /\ history \in Seq(Version)
  /\ Len(history) = doc.revision
  /\ history[doc.revision].text = doc.text
  /\ proposals \in [Proposals -> Proposal \cup {None}]

\* A reviewer is idle or has a proposal that was made.
Reviewing(accept) ==
  /\ DOMAIN accept = {"pc", "proposal", "source", "fingerprint"}
  /\ accept.proposal \in Proposals
  /\ proposals[accept.proposal] # None

ReviewersAreBusy ==
  /\ DOMAIN accepting = Reviewers
  /\ \A r \in Reviewers : accepting[r].pc # "idle" => Reviewing(accepting[r])

\* The base of a proposal is a revision with the text its reviewer is shown.
BasesAreShown ==
  \A p \in Proposals : proposals[p] # None =>
    /\ proposals[p].base \in 1 .. Len(history)
    /\ history[proposals[p].base].text = proposals[p].baseText

\* A revision a proposal made is the one after its base.
CausesFollowBases ==
  \A r \in 1 .. Len(history) : history[r].cause # None =>
    /\ proposals[history[r].cause] # None
    /\ r = proposals[history[r].cause].base + 1

\* The stage is of the last file operation in the history.
StageIsLast ==
  staged # None =>
    /\ staged.revision \in 1 .. Len(history)
    /\ history[staged.revision].cause # None
    /\ proposals[history[staged.revision].cause].kind = staged.kind
    /\ \A r \in staged.revision + 1 .. Len(history) :
         history[r].cause # None => proposals[history[r].cause].kind.op = "text"

IInv ==
  Types /\ ReviewersAreBusy /\ BasesAreShown /\ CausesFollowBases /\ StageIsLast

-----------------------------------------------------------------------------
(* The operations of the document *)

LEMMA TouchAdvances ==
  ASSUME NEW d, IsDocument(d)
  PROVE  /\ IsDocument(D!Touch(d))
         /\ D!Touch(d).revision = d.revision + 1
         /\ D!Touch(d).text = d.text
BY DEF IsDocument, D!Touch, Fields

LEMMA ReplaceAdvances ==
  ASSUME NEW d, IsDocument(d), NEW text \in Texts, NEW dirty \in BOOLEAN
  PROVE  /\ IsDocument(D!ReplaceCanonicalText(d, text, dirty))
         /\ D!ReplaceCanonicalText(d, text, dirty).revision = d.revision + 1
BY DEF IsDocument, D!ReplaceCanonicalText, Fields

LEMMA BatchAdvances ==
  ASSUME NEW d, IsDocument(d), NEW batch
  PROVE  /\ IsDocument(D!AfterBatch(d, batch))
         /\ D!AfterBatch(d, batch).revision = d.revision + 1
BY DEF IsDocument, D!AfterBatch, D!NewAck, Fields, Edited, Texts

LEMMA SavingKeeps ==
  ASSUME NEW d, IsDocument(d)
  PROVE  /\ IsDocument(D!MarkSaved(d))
         /\ D!MarkSaved(d).revision = d.revision
         /\ D!MarkSaved(d).text = d.text
BY DEF IsDocument, D!MarkSaved, Fields

\* What one more revision does to the history, position by position.
LEMMA ReviseAppends ==
  ASSUME Types, NEW next, NEW cause \in Proposals \cup {None}, Revise(next, cause),
         IsDocument(next), next.revision = doc.revision + 1
  PROVE  /\ IsDocument(doc') /\ doc'.revision <= MaxRevision
         /\ history' \in Seq(Version)
         /\ Len(history) \in Nat \ {0} /\ Len(history) = doc.revision
         /\ Len(history') = Len(history) + 1
         /\ Len(history') = doc'.revision
         /\ history'[doc'.revision].text = doc'.text
         /\ history'[Len(history) + 1].cause = cause
         /\ \A r \in 1 .. Len(history) : history'[r] = history[r]
<1> DEFINE version == [text |-> next.text, cause |-> cause]
<1>1. version \in Version
  BY DEF Version, IsDocument
<1>2. doc' = next /\ history' = Append(history, version) /\ doc.revision < MaxRevision
  BY DEF Revise, D!CanAdvance
<1>3. version.text = next.text /\ version.cause = cause
  OBVIOUS
<1> HIDE DEF version
<1>4. doc.revision \in Nat \ {0} /\ Len(history) = doc.revision
  BY DEF Types, IsDocument
<1>5. /\ history' \in Seq(Version)
      /\ Len(history') = Len(history) + 1
      /\ history'[Len(history) + 1] = version
      /\ \A r \in 1 .. Len(history) : history'[r] = history[r]
  BY <1>1, <1>2 DEF Types
<1>6. doc'.revision <= MaxRevision
  BY <1>2, <1>4, RevisionsAssumption
<1> QED
  BY <1>2, <1>3, <1>4, <1>5, <1>6

\* Proposals that keep what was asked for, whatever becomes of their status.
SameProposals ==
  \A p \in Proposals : proposals[p] # None =>
    /\ proposals'[p] # None
    /\ proposals'[p].kind = proposals[p].kind
    /\ proposals'[p].base = proposals[p].base
    /\ proposals'[p].baseText = proposals[p].baseText

NoNewProposals ==
  /\ proposals' \in [Proposals -> Proposal \cup {None}]
  /\ SameProposals
  /\ \A p \in Proposals : proposals'[p] # None => proposals[p] # None

LEMMA StatusChanges ==
  ASSUME Types, NEW p \in Proposals, proposals[p] # None, NEW status \in Status,
         proposals' = [proposals EXCEPT ![p].status = status]
  PROVE  NoNewProposals
<1> DEFINE changed == [proposals[p] EXCEPT !.status = status]
<1>1. proposals[p] \in Proposal /\ proposals \in [Proposals -> Proposal \cup {None}]
  BY DEF Types
<1>2. /\ changed \in Proposal
      /\ changed.kind = proposals[p].kind
      /\ changed.base = proposals[p].base
      /\ changed.baseText = proposals[p].baseText
  BY <1>1 DEF Proposal
<1>3. proposals' = [proposals EXCEPT ![p] = changed]
  OBVIOUS
<1> HIDE DEF changed
<1>4. changed # None
  BY <1>2, NoneAssumption
<1> QED
  BY <1>1, <1>2, <1>3, <1>4 DEF NoNewProposals, SameProposals

LEMMA UnchangedProposals ==
  ASSUME Types, UNCHANGED proposals
  PROVE  NoNewProposals
BY DEF Types, NoNewProposals, SameProposals

-----------------------------------------------------------------------------
(* What carries the invariant over *)

\* Reviewers that do nothing, or end, or go on with their proposal.
LEMMA ReviewerSteps ==
  ASSUME ReviewersAreBusy, NoNewProposals, NEW r \in Reviewers, NEW next, Step(r, next),
         next.pc = "idle" \/ (DOMAIN next = {"pc", "proposal", "source", "fingerprint"}
                              /\ next.proposal \in Proposals
                              /\ proposals[next.proposal] # None)
  PROVE  ReviewersAreBusy'
<1>1. accepting' = [accepting EXCEPT ![r] = next]
  BY DEF Step
<1>2. DOMAIN accepting' = Reviewers /\ accepting'[r] = next
      /\ \A q \in Reviewers \ {r} : accepting'[q] = accepting[q]
  BY <1>1 DEF ReviewersAreBusy
<1>3. ASSUME NEW q \in Reviewers, accepting'[q].pc # "idle"
      PROVE  Reviewing(accepting[q])'
  <2>1. CASE q = r
    BY <1>2, <1>3, <2>1 DEF Reviewing, NoNewProposals, SameProposals
  <2>2. CASE q # r
    <3>1. Reviewing(accepting[q]) /\ accepting'[q] = accepting[q]
      BY <1>2, <1>3, <2>2 DEF ReviewersAreBusy
    <3> QED
      BY <3>1 DEF Reviewing, NoNewProposals, SameProposals
  <2> QED
    BY <2>1, <2>2
<1> QED
  BY <1>2, <1>3 DEF ReviewersAreBusy

LEMMA ReviewersRest ==
  ASSUME ReviewersAreBusy, NoNewProposals, UNCHANGED accepting
  PROVE  ReviewersAreBusy'
BY DEF ReviewersAreBusy, Reviewing, NoNewProposals, SameProposals

\* A step that leaves the document's text and history alone.
LEMMA HistoryStays ==
  ASSUME IInv, UNCHANGED history, NoNewProposals, ReviewersAreBusy', IsDocument(doc'),
         doc'.text = doc.text, doc'.revision = doc.revision, UNCHANGED staged
  PROVE  IInv'
<1> USE DEF IInv
<1>1. Types'
  BY DEF Types, NoNewProposals
<1>2. BasesAreShown'
  BY DEF BasesAreShown, NoNewProposals, SameProposals
<1>3. \A r \in 1 .. Len(history) : history[r].cause \in Proposals \cup {None}
  <2>1. \A r \in 1 .. Len(history) : history[r] \in Version
    BY DEF Types
  <2> QED
    BY <2>1 DEF Version
<1>4. CausesFollowBases'
  BY <1>3 DEF CausesFollowBases, NoNewProposals, SameProposals
<1>5. StageIsLast'
  <2> SUFFICES ASSUME staged # None
               PROVE  StageIsLast'
    BY DEF StageIsLast
  <2>1. staged.revision \in 1 .. Len(history)
    BY DEF StageIsLast
  <2>2. \A r \in staged.revision + 1 .. Len(history) : r \in 1 .. Len(history)
    BY <2>1 DEF Types, IsDocument
  <2> QED
    BY <1>3, <2>1, <2>2 DEF StageIsLast, CausesFollowBases, NoNewProposals, SameProposals
<1> QED
  BY <1>1, <1>2, <1>4, <1>5

\* A revision that no proposal made.
LEMMA PlainRevision ==
  ASSUME IInv, NEW next, Revise(next, None), IsDocument(next),
         next.revision = doc.revision + 1, UNCHANGED <<proposals, accepting>>,
         staged' \in {staged, None}
  PROVE  IInv'
<1> USE DEF IInv
<1>1. /\ IsDocument(doc') /\ doc'.revision <= MaxRevision
      /\ history' \in Seq(Version)
      /\ Len(history) \in Nat \ {0} /\ Len(history) = doc.revision
      /\ Len(history') = Len(history) + 1
      /\ Len(history') = doc'.revision
      /\ history'[doc'.revision].text = doc'.text
      /\ history'[Len(history) + 1].cause = None
      /\ \A r \in 1 .. Len(history) : history'[r] = history[r]
  BY ReviseAppends
<1>2. \A r \in 1 .. Len(history') : r \in 1 .. Len(history) \/ r = Len(history) + 1
  BY <1>1
<1>3. Types'
  BY <1>1 DEF Types
<1>4. ReviewersAreBusy'
  BY UnchangedProposals, ReviewersRest
<1>5. BasesAreShown'
  BY <1>1 DEF BasesAreShown
<1>6. CausesFollowBases'
  BY <1>1, <1>2 DEF CausesFollowBases
<1>7. StageIsLast'
  <2> SUFFICES ASSUME staged' # None, staged' = staged
               PROVE  StageIsLast'
    BY DEF StageIsLast
  <2>1. staged.revision \in 1 .. Len(history)
    BY DEF StageIsLast
  <2>2. \A r \in staged.revision + 1 .. Len(history') :
          r \in staged.revision + 1 .. Len(history) \/ r = Len(history) + 1
    BY <1>1, <2>1
  <2>3. \A r \in staged.revision + 1 .. Len(history) : r \in 1 .. Len(history)
    BY <1>1, <2>1
  <2>4. /\ staged.revision \in 1 .. Len(history')
        /\ history'[staged.revision] = history[staged.revision]
    BY <1>1, <2>1
  <2>5. ASSUME NEW r \in staged.revision + 1 .. Len(history'), history'[r].cause # None
        PROVE  proposals[history'[r].cause].kind.op = "text"
    <3>1. r \in staged.revision + 1 .. Len(history) /\ history'[r] = history[r]
      BY <1>1, <2>2, <2>3, <2>5
    <3> QED
      BY <2>5, <3>1 DEF StageIsLast
  <2> QED
    BY <2>4, <2>5 DEF StageIsLast
<1> QED
  BY <1>3, <1>4, <1>5, <1>6, <1>7

-----------------------------------------------------------------------------
(* The actions *)

LEMMA CreateProposalKeepsIInv ==
  ASSUME IInv, NEW p \in Proposals, NEW kind \in Kinds, CreateProposal(p, kind)
  PROVE  IInv'
<1> USE DEF IInv
<1> DEFINE proposal ==
             [status |-> "pending", kind |-> kind, base |-> doc.revision, baseText |-> doc.text]
<1>1. /\ proposals[p] = None
      /\ proposals' = [proposals EXCEPT ![p] = proposal]
      /\ UNCHANGED <<doc, history, staged, accepting>>
  BY DEF CreateProposal
<1>2. doc.revision \in D!Revisions /\ doc.text \in Texts
  BY DEF Types, IsDocument, D!Revisions, D!FirstRevision
<1>3. kind \in Kind
  BY DEF Kinds, Kind
<1>4. /\ proposal \in Proposal
      /\ proposal.base = doc.revision /\ proposal.baseText = doc.text
  BY <1>2, <1>3 DEF Proposal, Status
<1> HIDE DEF proposal
<1>5. proposal # None
  BY <1>4, NoneAssumption
<1>6. /\ proposals' \in [Proposals -> Proposal \cup {None}]
      /\ proposals'[p] = proposal
      /\ \A q \in Proposals \ {p} : proposals'[q] = proposals[q]
  BY <1>1, <1>4 DEF Types
<1>7. Types'
  BY <1>1, <1>6 DEF Types
<1>8. ReviewersAreBusy'
  BY <1>1, <1>6 DEF ReviewersAreBusy, Reviewing
<1>9. BasesAreShown'
  <2>1. doc.revision \in 1 .. Len(history) /\ history[doc.revision].text = doc.text
    BY DEF Types, IsDocument
  <2> QED
    BY <1>1, <1>4, <1>6, <2>1 DEF BasesAreShown
<1>10. \A r \in 1 .. Len(history) : history[r].cause # None =>
         /\ history[r].cause \in Proposals \ {p}
         /\ proposals'[history[r].cause] = proposals[history[r].cause]
  <2>1. \A r \in 1 .. Len(history) : history[r] \in Version
    BY DEF Types
  <2> QED
    BY <1>1, <1>6, <2>1 DEF CausesFollowBases, Version
<1>11. CausesFollowBases'
  BY <1>1, <1>10 DEF CausesFollowBases
<1>12. StageIsLast'
  <2>1. staged # None =>
          \A r \in staged.revision + 1 .. Len(history) : r \in 1 .. Len(history)
    BY DEF StageIsLast, Types, IsDocument
  <2> QED
    BY <1>1, <1>10, <2>1 DEF StageIsLast
<1> QED
  BY <1>7, <1>8, <1>9, <1>11, <1>12

\* The reviewer's steps that only look.
LEMMA LooksKeepIInv ==
  ASSUME IInv, NEW r \in Reviewers,
         \/ \E p \in Proposals : AcceptBegins(r, p)
         \/ AcceptLocates(r) \/ AcceptInspects(r) \/ AcceptFindsStale(r)
  PROVE  IInv'
<1> USE DEF IInv
<1>1. NoNewProposals /\ UNCHANGED <<doc, history, staged, proposals>>
  <2>1. UNCHANGED <<doc, history, staged, proposals>>
    BY DEF AcceptBegins, AcceptLocates, AcceptInspects, AcceptFindsStale, session
  <2> QED
    BY <2>1, UnchangedProposals
<1>2. ReviewersAreBusy'
  <2>1. ASSUME NEW p \in Proposals, AcceptBegins(r, p)
        PROVE  ReviewersAreBusy'
    <3> DEFINE next == [pc |-> IF IsFileOperation(p) THEN "locate" ELSE "apply", proposal |-> p,
                        source |-> None, fingerprint |-> None]
    <3>1. proposals[p] # None
      BY <2>1, NoneAssumption DEF AcceptBegins, StatusOf, Status
    <3>2. Step(r, next)
      BY <2>1 DEF AcceptBegins
    <3>3. DOMAIN next = {"pc", "proposal", "source", "fingerprint"} /\ next.proposal = p
      OBVIOUS
    <3> HIDE DEF next
    <3> QED
      BY <1>1, <3>1, <3>2, <3>3, ReviewerSteps
  <2>2. ASSUME At(r, "locate") \/ At(r, "inspect") \/ At(r, "apply")
        PROVE  Reviewing(accepting[r])
    BY <2>2 DEF At, ReviewersAreBusy
  <2>3. CASE AcceptLocates(r)
    <3>1. PICK next : /\ Step(r, next)
                      /\ \/ next = [accepting[r] EXCEPT !.pc = "stale"]
                         \/ next = Resting
                         \/ next = [accepting[r] EXCEPT !.pc = "inspect", !.source = path,
                                                        !.fingerprint = fingerprint]
      BY <2>3 DEF AcceptLocates
    <3>2. Reviewing(accepting[r])
      BY <2>2, <2>3 DEF AcceptLocates
    <3>3. \/ next.pc = "idle"
          \/ /\ DOMAIN next = {"pc", "proposal", "source", "fingerprint"}
             /\ next.proposal = accepting[r].proposal
      <4>1. CASE next = [accepting[r] EXCEPT !.pc = "stale"]
        BY <3>2, <4>1 DEF Reviewing
      <4>2. CASE next = Resting
        BY <4>2 DEF Resting
      <4>3. CASE next = [accepting[r] EXCEPT !.pc = "inspect", !.source = path,
                                             !.fingerprint = fingerprint]
        BY <3>2, <4>3 DEF Reviewing
      <4> QED
        BY <3>1, <4>1, <4>2, <4>3
    <3> QED
      BY <1>1, <3>1, <3>2, <3>3, ReviewerSteps DEF Reviewing
  <2>4. CASE AcceptInspects(r) \/ AcceptFindsStale(r)
    <3>1. PICK next : /\ Step(r, next)
                      /\ \/ next = [accepting[r] EXCEPT !.pc = "stale"]
                         \/ next = Resting
                         \/ next = [accepting[r] EXCEPT !.pc = "apply"]
      BY <2>4 DEF AcceptInspects, AcceptFindsStale
    <3>2. Reviewing(accepting[r])
      BY <2>2, <2>4 DEF AcceptInspects, AcceptFindsStale
    <3>3. \/ next.pc = "idle"
          \/ /\ DOMAIN next = {"pc", "proposal", "source", "fingerprint"}
             /\ next.proposal = accepting[r].proposal
      <4>1. CASE next = [accepting[r] EXCEPT !.pc = "stale"]
        BY <3>2, <4>1 DEF Reviewing
      <4>2. CASE next = Resting
        BY <4>2 DEF Resting
      <4>3. CASE next = [accepting[r] EXCEPT !.pc = "apply"]
        BY <3>2, <4>3 DEF Reviewing
      <4> QED
        BY <3>1, <4>1, <4>2, <4>3
    <3> QED
      BY <1>1, <3>1, <3>2, <3>3, ReviewerSteps DEF Reviewing
  <2> QED
    BY <2>1, <2>3, <2>4
<1> QED
  BY <1>1, <1>2, HistoryStays DEF Types

LEMMA AcceptMarksStaleKeepsIInv ==
  ASSUME IInv, NEW r \in Reviewers, AcceptMarksStale(r)
  PROVE  IInv'
<1> USE DEF IInv
<1>1. Reviewing(accepting[r])
  BY DEF AcceptMarksStale, At, ReviewersAreBusy
<1>2. NoNewProposals
  BY <1>1, StatusChanges DEF AcceptMarksStale, Reviewing, Status
<1>3. ReviewersAreBusy'
  BY <1>2, ReviewerSteps DEF AcceptMarksStale, Resting
<1> QED
  BY <1>2, <1>3, HistoryStays DEF AcceptMarksStale, Types

\* The document is the one the reviewer saw, so the revision it makes is the
\* one after the base, and no other has the same cause.
LEMMA AcceptAppliesKeepsIInv ==
  ASSUME IInv, NEW r \in Reviewers, AcceptApplies(r)
  PROVE  IInv'
<1> USE DEF IInv
<1> DEFINE p == accepting[r].proposal
           kind == proposals[p].kind
<1>1. p \in Proposals /\ proposals[p] # None
  BY DEF AcceptApplies, At, ReviewersAreBusy, Reviewing
<1>2. /\ doc.revision = proposals[p].base
      /\ proposals' = [proposals EXCEPT ![p].status = "accepted"]
      /\ Step(r, Resting)
  BY DEF AcceptApplies, IsCurrent
<1>3. NoNewProposals
  BY <1>1, <1>2, StatusChanges DEF Status
<1>4. ReviewersAreBusy'
  BY <1>2, <1>3, ReviewerSteps DEF Resting
<1>5. PICK next : /\ Revise(next, p) /\ IsDocument(next) /\ next.revision = doc.revision + 1
                  /\ \/ kind.op = "text" /\ staged' = staged
                     \/ kind.op # "text" /\ staged' = StageOf(r)
  <2>1. IsDocument(doc) /\ Edited(doc.text) \in Texts
    BY DEF Types, IsDocument, Edited, Texts
  <2>2. CASE kind.op = "text"
    <3>1. Revise(D!ReplaceCanonicalText(doc, Edited(doc.text), TRUE), p) /\ staged' = staged
      BY <2>2 DEF AcceptApplies
    <3> QED
      BY <2>1, <2>2, <3>1, ReplaceAdvances
  <2>3. CASE kind.op # "text"
    <3>1. Revise(D!Touch(doc), p) /\ staged' = StageOf(r)
      BY <2>3 DEF AcceptApplies
    <3> QED
      BY <2>1, <2>3, <3>1, TouchAdvances
  <2> QED
    BY <2>2, <2>3
<1>6. /\ IsDocument(doc') /\ doc'.revision <= MaxRevision
      /\ history' \in Seq(Version)
      /\ Len(history) \in Nat \ {0} /\ Len(history) = doc.revision
      /\ Len(history') = Len(history) + 1
      /\ Len(history') = doc'.revision
      /\ history'[doc'.revision].text = doc'.text
      /\ history'[Len(history) + 1].cause = p
      /\ \A i \in 1 .. Len(history) : history'[i] = history[i]
  BY <1>1, <1>5, ReviseAppends
<1>7. \A i \in 1 .. Len(history') : i \in 1 .. Len(history) \/ i = Len(history) + 1
  BY <1>6
<1>8. \A i \in 1 .. Len(history) : history[i].cause \in Proposals \cup {None}
  <2>1. \A i \in 1 .. Len(history) : history[i] \in Version
    BY DEF Types
  <2> QED
    BY <2>1 DEF Version
<1>9. /\ p # None /\ proposals'[p] # None
      /\ proposals'[p].kind = kind /\ proposals'[p].base = doc.revision
  BY <1>1, <1>2, <1>3, NoneAssumption DEF NoNewProposals, SameProposals
<1> HIDE DEF p, kind
<1>10. Types'
  BY <1>3, <1>6 DEF Types, NoNewProposals
<1>11. BasesAreShown'
  BY <1>3, <1>6 DEF BasesAreShown, NoNewProposals, SameProposals
<1>12. CausesFollowBases'
  <2> SUFFICES ASSUME NEW i \in 1 .. Len(history'), history'[i].cause # None
               PROVE  /\ proposals'[history'[i].cause] # None
                      /\ i = proposals'[history'[i].cause].base + 1
    BY DEF CausesFollowBases
  <2>1. CASE i \in 1 .. Len(history)
    BY <1>3, <1>6, <1>8, <2>1 DEF CausesFollowBases, NoNewProposals, SameProposals
  <2>2. CASE i = Len(history) + 1
    BY <1>6, <1>9, <2>2
  <2> QED
    BY <1>7, <2>1, <2>2
<1>13. StageIsLast'
  <2>1. CASE kind.op = "text" /\ staged' = staged
    <3> SUFFICES ASSUME staged # None
                 PROVE  StageIsLast'
      BY <2>1 DEF StageIsLast
    <3>1. /\ staged.revision \in 1 .. Len(history)
          /\ staged.revision \in 1 .. Len(history')
          /\ history'[staged.revision] = history[staged.revision]
      BY <1>6 DEF StageIsLast
    <3>2. proposals'[history[staged.revision].cause].kind = staged.kind
      BY <1>3, <1>8, <3>1 DEF StageIsLast, CausesFollowBases, NoNewProposals, SameProposals
    <3>3. ASSUME NEW i \in staged.revision + 1 .. Len(history'), history'[i].cause # None
          PROVE  proposals'[history'[i].cause].kind.op = "text"
      <4>1. i \in staged.revision + 1 .. Len(history) \/ i = Len(history) + 1
        BY <1>6, <3>1
      <4>2. CASE i = Len(history) + 1
        BY <1>6, <1>9, <2>1, <4>2
      <4>3. CASE i \in staged.revision + 1 .. Len(history)
        <5>1. i \in 1 .. Len(history) /\ history'[i] = history[i]
          BY <1>6, <3>1, <4>3
        <5>2. proposals[history[i].cause].kind.op = "text" /\ history[i].cause \in Proposals
              /\ proposals[history[i].cause] # None
          BY <1>8, <3>3, <4>3, <5>1 DEF StageIsLast, CausesFollowBases
        <5> QED
          BY <1>3, <5>1, <5>2 DEF NoNewProposals, SameProposals
      <4> QED
        BY <4>1, <4>2, <4>3
    <3>4. history'[staged.revision].cause # None
      BY <3>1 DEF StageIsLast
    <3> QED
      BY <2>1, <3>1, <3>2, <3>3, <3>4 DEF StageIsLast
  <2>2. CASE kind.op # "text" /\ staged' = StageOf(r)
    <3>1. staged'.revision = Len(history) + 1 /\ staged'.kind = kind
      BY <1>6, <2>2 DEF StageOf, p, kind
    <3>2. staged'.revision + 1 .. Len(history') = {}
      BY <1>6, <3>1
    <3>3. staged'.revision \in 1 .. Len(history')
      BY <1>6, <3>1
    <3> QED
      BY <1>6, <1>9, <3>1, <3>2, <3>3 DEF StageIsLast
  <2> QED
    BY <1>5, <2>1, <2>2 DEF p, kind
<1> QED
  BY <1>4, <1>10, <1>11, <1>12, <1>13

LEMMA RejectKeepsIInv ==
  ASSUME IInv, NEW p \in Proposals, Reject(p)
  PROVE  IInv'
<1> USE DEF IInv
<1>1. proposals[p] # None
  BY NoneAssumption DEF Reject, StatusOf, Status
<1>2. NoNewProposals
  BY <1>1, StatusChanges DEF Reject, Status
<1> QED
  BY <1>2, ReviewersRest, HistoryStays DEF Reject, Types

LEMMA EditKeepsIInv ==
  ASSUME IInv, Edit
  PROVE  IInv'
<1>1. PICK batch : Revise(D!AfterBatch(doc, batch), None)
  BY DEF Edit
<1>2. UNCHANGED <<proposals, accepting, staged>>
  BY DEF Edit
<1> QED
  BY <1>1, <1>2, BatchAdvances, PlainRevision DEF IInv, Types

LEMMA CancelKeepsIInv ==
  ASSUME IInv, CancelStaged
  PROVE  IInv'
BY TouchAdvances, PlainRevision DEF CancelStaged, IInv, Types

LEMMA CommitKeepsIInv ==
  ASSUME IInv, Commit
  PROVE  IInv'
<1> USE DEF IInv
<1>1. CASE CommitBegins \/ CommitVerifies \/ CommitMoves \/ CommitReads
             \/ CommitFindsOtherStage
  <2>1. UNCHANGED <<doc, history, staged, proposals, accepting>>
    BY <1>1 DEF CommitBegins, CommitVerifies, CommitMoves, CommitReads,
                CommitFindsOtherStage, session
  <2> QED
    BY <2>1, UnchangedProposals, ReviewersRest, HistoryStays DEF Types
<1>2. CASE CommitFinishes
  <2>1. staged' = None /\ UNCHANGED <<proposals, accepting>>
    BY <1>2 DEF CommitFinishes
  <2>2. CASE staged.kind.op = "rename"
    <3>1. Revise(D!Touch(doc), None)
      BY <1>2, <2>2 DEF CommitFinishes
    <3> QED
      BY <2>1, <3>1, TouchAdvances, PlainRevision DEF Types
  <2>3. CASE staged.kind.op # "rename"
    <3>1. Revise(D!ReplaceCanonicalText(doc, doc.text, ~committing.wasEmpty), None)
      BY <1>2, <2>3 DEF CommitFinishes, D!SetDirtyAndTouch
    <3>2. IsDocument(doc) /\ doc.text \in Texts
      BY DEF Types, IsDocument
    <3>3. (~committing.wasEmpty) \in BOOLEAN
      BY Zenon
    <3> QED
      BY <2>1, <3>1, <3>2, <3>3, ReplaceAdvances, PlainRevision
  <2> QED
    BY <2>2, <2>3
<1> QED
  BY <1>1, <1>2 DEF Commit

LEMMA DiskKeepsIInv ==
  ASSUME IInv,
         \/ \E q \in SavePaths : SaveBegins(q)
         \/ SaveWrites
         \/ SaveReads
         \/ \E q \in ForeignPaths : DiskChanges(q)
  PROVE  IInv'
<1>1. UNCHANGED <<doc, history, staged, proposals, accepting>>
  BY DEF SaveBegins, SaveWrites, SaveReads, DiskChanges, session
<1> QED
  BY <1>1, UnchangedProposals, ReviewersRest, HistoryStays DEF IInv, Types

LEMMA SaveMarksKeepsIInv ==
  ASSUME IInv, SaveMarks
  PROVE  IInv'
<1>1. /\ UNCHANGED <<history, staged, proposals, accepting>>
      /\ doc' = D!MarkSaved(doc) \/ doc' = doc
  BY DEF SaveMarks
<1>2. IsDocument(doc)
  BY DEF IInv, Types
<1>3. IsDocument(doc') /\ doc'.text = doc.text /\ doc'.revision = doc.revision
  BY <1>1, <1>2, SavingKeeps
<1> QED
  BY <1>1, <1>3, UnchangedProposals, ReviewersRest, HistoryStays DEF IInv

-----------------------------------------------------------------------------
LEMMA InitIInv == Init => IInv
<1> SUFFICES ASSUME Init PROVE IInv
  OBVIOUS
<1>1. PICK text \in Texts : doc = D!NewDocument(text, FALSE)
  BY DEF Init
<1>2. IsDocument(doc) /\ doc.revision = 1 /\ doc.text = text
  BY <1>1 DEF IsDocument, D!NewDocument, D!FirstRevision, Fields
<1>3. history = << [text |-> text, cause |-> None] >>
  BY <1>2 DEF Init
<1>4. history \in Seq(Version) /\ Len(history) = 1
      /\ history[1].text = text /\ history[1].cause = None
  BY <1>3 DEF Version
<1>5. /\ staged = None
      /\ proposals = [p \in Proposals |-> None]
      /\ accepting = [r \in Reviewers |-> Resting]
  BY DEF Init
<1>6. Types
  BY <1>2, <1>4, <1>5, RevisionsAssumption DEF Types
<1>7. ReviewersAreBusy /\ BasesAreShown /\ CausesFollowBases /\ StageIsLast
  BY <1>4, <1>5 DEF ReviewersAreBusy, Resting, BasesAreShown, CausesFollowBases, StageIsLast
<1> QED
  BY <1>6, <1>7 DEF IInv

LEMMA NextKeepsIInv == IInv /\ [Next]_vars => IInv'
<1> SUFFICES ASSUME IInv, [Next]_vars PROVE IInv'
  OBVIOUS
<1>1. CASE UNCHANGED vars
  <2>1. UNCHANGED <<doc, history, staged, proposals, accepting>>
    BY <1>1 DEF vars
  <2> QED
    BY <2>1, UnchangedProposals, ReviewersRest, HistoryStays DEF IInv, Types
<1>2. ASSUME NEW r \in Reviewers, Accept(r)
      PROVE  IInv'
  BY <1>2, LooksKeepIInv, AcceptMarksStaleKeepsIInv, AcceptAppliesKeepsIInv DEF Accept
<1>3. CASE Next
  BY <1>2, <1>3, CreateProposalKeepsIInv, RejectKeepsIInv, EditKeepsIInv, CancelKeepsIInv,
     CommitKeepsIInv, DiskKeepsIInv, SaveMarksKeepsIInv DEF Next
<1> QED
  BY <1>1, <1>3

LEMMA Invariance == Spec => []IInv
  BY InitIInv, NextKeepsIInv, PTL DEF Spec

\* What a proposal did to the document it did to the very text its reviewer was
\* shown, and no proposal is carried out twice.
THEOREM ProposalsAreReviewed == Spec => []AcceptedAsReviewed
<1>1. IInv => AcceptedAsReviewed
  <2> SUFFICES ASSUME IInv, NEW p \in Proposals, NEW r \in Revised(p)
               PROVE  /\ r = proposals[p].base + 1
                      /\ history[r - 1].text = proposals[p].baseText
                      /\ Cardinality(Revised(p)) = 1
    BY DEF AcceptedAsReviewed
  <2>1. p # None
    BY NoneAssumption
  <2>2. \A i \in Revised(p) : i = proposals[p].base + 1 /\ proposals[p] # None
    BY <2>1 DEF Revised, IInv, CausesFollowBases
  <2>3. /\ proposals[p].base \in 1 .. Len(history)
        /\ history[proposals[p].base].text = proposals[p].baseText
    BY <2>2 DEF IInv, BasesAreShown
  <2>4. r - 1 = proposals[p].base
    BY <2>2, <2>3
  <2>5. Revised(p) = {r}
    BY <2>2
  <2> QED
    BY <2>2, <2>3, <2>4, <2>5, FS_Singleton
<1> QED
  BY <1>1, Invariance, PTL

\* The file operation that waits for its commit is the one a reviewer accepted
\* last, at the revision that accepted it.
THEOREM StageIsReviewed == Spec => []StagedAsReviewed
<1>1. IInv => StagedAsReviewed
  <2> SUFFICES ASSUME IInv, staged # None
               PROVE  \E p \in Proposals :
                        /\ history[staged.revision].cause = p
                        /\ proposals[p].kind = staged.kind
                        /\ \A r \in staged.revision + 1 .. Len(history) :
                             history[r].cause # None => proposals[history[r].cause].kind.op = "text"
    BY DEF StagedAsReviewed
  <2>1. history[staged.revision] \in Version
    BY DEF IInv, Types, StageIsLast
  <2>2. history[staged.revision].cause \in Proposals
    BY <2>1 DEF Version, IInv, StageIsLast
  <2> QED
    BY <2>2 DEF IInv, StageIsLast
<1> QED
  BY <1>1, Invariance, PTL
=============================================================================
