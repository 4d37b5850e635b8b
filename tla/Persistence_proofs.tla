------------------------- MODULE Persistence_proofs -------------------------
(***************************************************************************)
(* Proofs about what is kept outside the process: the slots of the state   *)
(* store, and the lease, the record and the preferences of the external    *)
(* API. They share no state; each part has an invariant of its own.        *)
(*                                                                         *)
(* The state store, for every set of payloads and every last              *)
(* revision. What the slots hold is stated over a value s of the variable  *)
(* slots and l of legacy, so that it is there for the state after a step   *)
(* as for the one before.                                                  *)
(*                                                                         *)
(* The external API: an MCP process is answered with a server              *)
(* that ran since it asked, and a setting takes effect or is undone.       *)
(*                                                                         *)
(* Three things hold at every moment. Server: who starts or stops a server *)
(* has the lock of the runtime, and whenever nobody has it, the server     *)
(* that runs, its record and its lease are there together; whoever has it  *)
(* has removed the record, or not yet written it. A process that has ended *)
(* may leave its record, never its lease. ClientsKnow: what a client has   *)
(* learnt by its first step, the lease or the record, together with Server *)
(* settles the second. PreferencesAgree: how far a command has got says    *)
(* which of the preferences, the roots and the server it has changed, and  *)
(* what it needs to change them back is what was there before.             *)
(***************************************************************************)
EXTENDS StateStore, ExternalApi, TLAPS

-----------------------------------------------------------------------------
(* The state store *)

ValidIn(s) == {i \in Slots : s[i] \in Envelope}

NewestIn(s) ==
  CHOOSE i \in ValidIn(s) :
    \A j \in ValidIn(s) \ {i} :
      \/ s[j].revision < s[i].revision
      \/ s[j].revision = s[i].revision /\ j < i

StoredIn(s, l) ==
  CASE ValidIn(s) # {} -> s[NewestIn(s)].payload
    [] ValidIn(s) = {} /\ l \in Values -> l
    [] OTHER -> Nothing

TargetIn(s) ==
  CASE 0 \notin ValidIn(s) -> 0
    [] 0 \in ValidIn(s) /\ 1 \notin ValidIn(s) -> 1
    [] OTHER -> IF s[0].revision <= s[1].revision THEN 0 ELSE 1

ConsecutiveIn(s) ==
  ValidIn(s) = Slots => {s[0].revision - s[1].revision} \subseteq {-1, 1}

Other(i) == 1 - i

\* What a load would return if the slot that is being written were lost.
Fallback == StoredIn([slots EXCEPT ![op.slot] = Corrupt], legacy)

\* A save has a payload, and a slot that was read is not of a later version.
ReadInv ==
  /\ op.pc \in {"read", "decide"} /\ op.call = "persist" => op.payload \in Values
  /\ op.pc = "read" /\ op.slot = 1 => slots[0] # Newer
  /\ op.pc = "decide" => \A i \in Slots : slots[i] # Newer

\* While a slot is written the other one is the generation before, both what
\* is written and what it replaces may be loaded next, nothing of a later
\* version is under the pen, and a load writes what it read in the old file.
WriteInv ==
  op.pc \in {"write", "fill", "verify"} =>
    /\ slots[op.slot] # Newer
    /\ slots[Other(op.slot)] \in Envelope =>
         slots[Other(op.slot)].revision = op.envelope.revision - 1
    /\ op.envelope.payload \in promised
    /\ Fallback \in promised
    /\ op.pc = "verify" => slots[op.slot] = op.envelope
    /\ op.call = "load" => legacy \in Values

Inv ==
  /\ TypeOK
  /\ LoadsWhatWasSaved
  /\ SlotsAreConsecutive
  /\ ReadInv
  /\ WriteInv

-----------------------------------------------------------------------------
(* What two slots hold. *)

\* An envelope has a number for its revision and a payload.
LEMMA EnvelopeFields ==
  ASSUME NEW e \in Envelope
  PROVE  /\ e.revision \in 1 .. MaxRevision
         /\ e.revision \in Int
         /\ e.payload \in Values
         /\ e \notin {Missing, Corrupt, Newer}
  BY EnvelopeAssumption, MaxRevisionAssumption DEF Envelope

\* The only valid slot is the newest.
LEMMA OneValid ==
  ASSUME NEW s \in [Slots -> File], NEW l, NEW i \in Slots,
         s[i] \in Envelope, s[Other(i)] \notin Envelope
  PROVE  StoredIn(s, l) = s[i].payload
<1>1. ValidIn(s) = {i}
  BY DEF ValidIn, Slots, Other
<1>2. NewestIn(s) = i
  BY <1>1 DEF NewestIn
<1> QED
  BY <1>1, <1>2 DEF StoredIn

\* Of two valid slots the newest is the one with the higher revision.
LEMMA TwoValid ==
  ASSUME NEW s \in [Slots -> File], NEW l, NEW i \in Slots,
         s[i] \in Envelope, s[Other(i)] \in Envelope,
         s[Other(i)].revision < s[i].revision
  PROVE  StoredIn(s, l) = s[i].payload
<1>1. ValidIn(s) = {i, Other(i)} /\ Other(i) # i
  BY DEF ValidIn, Slots, Other
<1>2. s[i].revision \in Int /\ s[Other(i)].revision \in Int
  BY EnvelopeFields
<1>3. ValidIn(s) \ {i} = {Other(i)} /\ ValidIn(s) \ {Other(i)} = {i}
  BY <1>1
<1>4. NewestIn(s) = i
  BY <1>1, <1>2, <1>3 DEF NewestIn
<1> QED
  BY <1>1, <1>4 DEF StoredIn

\* With no valid slot it is the old file.
LEMMA NoneValid ==
  ASSUME NEW s \in [Slots -> File], NEW l, \A i \in Slots : s[i] \notin Envelope
  PROVE  StoredIn(s, l) = IF l \in Values THEN l ELSE Nothing
<1>1. ValidIn(s) = {}
  BY DEF ValidIn
<1> QED
  BY <1>1 DEF StoredIn

\* With a valid slot the old file does not matter.
LEMMA LegacyDoesNotMatter ==
  ASSUME NEW s, NEW l, NEW k, ValidIn(s) # {}
  PROVE  StoredIn(s, l) = StoredIn(s, k)
  BY DEF StoredIn

\* What is stored is a payload.
LEMMA StoredType ==
  ASSUME NEW s \in [Slots -> File], NEW l, ConsecutiveIn(s)
  PROVE  /\ StoredIn(s, l) \in Values \cup {Nothing}
         /\ ValidIn(s) # {} => s[NewestIn(s)].payload = StoredIn(s, l)
<1>1. ValidIn(s) # {} => s[NewestIn(s)].payload = StoredIn(s, l)
  BY DEF StoredIn
<1>2. CASE ValidIn(s) = {}
  BY <1>2 DEF StoredIn
<1>3. CASE \E i \in Slots : s[i] \in Envelope /\ s[Other(i)] \notin Envelope
  BY <1>1, <1>3, OneValid, EnvelopeFields
<1>4. CASE ValidIn(s) = Slots
  <2>1. s[0] \in Envelope /\ s[1] \in Envelope /\ Other(0) = 1 /\ Other(1) = 0
    BY <1>4 DEF ValidIn, Slots, Other
  <2>2. s[0].revision \in Int /\ s[1].revision \in Int
    BY <2>1, EnvelopeFields
  <2>3. s[0].revision < s[1].revision \/ s[1].revision < s[0].revision
    BY <1>4, <2>2 DEF ConsecutiveIn
  <2>4. 0 \in Slots /\ 1 \in Slots
    BY DEF Slots
  <2>5. StoredIn(s, l) = s[0].payload \/ StoredIn(s, l) = s[1].payload
    BY <2>1, <2>3, <2>4, TwoValid
  <2> QED
    BY <1>1, <2>1, <2>5, EnvelopeFields
<1> QED
  BY <1>2, <1>3, <1>4 DEF ValidIn, Slots, Other

\* The slot to write can be lost: what is stored is in the other one. The
\* other one is of the generation before the one to be written.
LEMMA TargetCanBeLost ==
  ASSUME NEW s \in [Slots -> File], NEW l, ConsecutiveIn(s),
         NEW x \in {Corrupt, Newer}
  PROVE  /\ TargetIn(s) \in Slots
         /\ StoredIn([s EXCEPT ![TargetIn(s)] = x], l) = StoredIn(s, l)
         /\ s[Other(TargetIn(s))] \in Envelope =>
              /\ NewestIn(s) = Other(TargetIn(s))
              /\ ValidIn(s) # {}
         /\ s[Other(TargetIn(s))] \notin Envelope => ValidIn(s) = {}
<1> DEFINE t == TargetIn(s)
           r == [s EXCEPT ![t] = x]
<1>1. t \in Slots /\ Other(t) \in Slots /\ Other(t) # t /\ Other(Other(t)) = t
  BY DEF TargetIn, Slots, Other
<1>2. x \notin Envelope /\ x \in File
  BY EnvelopeAssumption DEF File
<1>3. r \in [Slots -> File] /\ r[t] = x /\ r[Other(t)] = s[Other(t)]
  BY <1>1, <1>2
<1>4. s[Other(t)] \notin Envelope => \A i \in Slots : s[i] \notin Envelope
  BY DEF TargetIn, ValidIn, Slots, Other
<1>5. s[t] \in Envelope =>
        s[Other(t)] \in Envelope /\ s[t].revision < s[Other(t)].revision
  <2>1. SUFFICES ASSUME s[t] \in Envelope
                 PROVE  s[Other(t)] \in Envelope /\ s[t].revision < s[Other(t)].revision
    OBVIOUS
  <2>2. s[Other(t)] \in Envelope
    BY <1>4, <1>1, <2>1
  <2>3. s[0] \in Envelope /\ s[1] \in Envelope
    BY <1>1, <2>1, <2>2 DEF Slots, Other
  <2>4. s[0].revision \in Int /\ s[1].revision \in Int
    BY <2>3, EnvelopeFields
  <2>5. ValidIn(s) = Slots
    BY <2>3 DEF ValidIn, Slots
  <2>6. s[0].revision - s[1].revision \in {-1, 1}
    BY <2>5 DEF ConsecutiveIn
  <2>7. t = IF s[0].revision <= s[1].revision THEN 0 ELSE 1
    BY <2>5 DEF TargetIn, Slots
  <2> QED
    BY <2>2, <2>4, <2>6, <2>7 DEF Other
<1> HIDE DEF t
<1>6. CASE s[Other(t)] \notin Envelope
  <2>1. \A i \in Slots : s[i] \notin Envelope /\ r[i] \notin Envelope
    BY <1>1, <1>2, <1>3, <1>4, <1>6 DEF Slots, Other
  <2>2. StoredIn(r, l) = StoredIn(s, l)
    BY <1>3, <2>1, NoneValid
  <2>3. ValidIn(s) = {}
    BY <2>1 DEF ValidIn
  <2> QED
    BY <1>1, <1>6, <2>2, <2>3 DEF t
<1>7. CASE s[Other(t)] \in Envelope
  <2> DEFINE o == Other(t)
  <2>0. o \in Slots /\ Other(o) = t
    BY <1>1
  <2>1. StoredIn(r, l) = s[o].payload
    <3>1. r[o] \in Envelope /\ r[Other(o)] \notin Envelope
      BY <1>1, <1>2, <1>3, <1>7
    <3> QED
      BY <1>3, <2>0, <3>1, OneValid
  <2>2. StoredIn(s, l) = s[o].payload
    BY <1>5, <1>7, <2>0, OneValid, TwoValid
  <2>3. o \in ValidIn(s)
    BY <1>7, <2>0 DEF ValidIn
  <2>4. NewestIn(s) = o
    <3>1. CASE s[t] \notin Envelope
      <4>1. ValidIn(s) = {o}
        BY <1>1, <2>3, <3>1 DEF ValidIn, Slots, Other
      <4> QED
        BY <4>1 DEF NewestIn
    <3>2. CASE s[t] \in Envelope
      <4>1. ValidIn(s) = {o, t}
        BY <1>1, <2>3, <3>2 DEF ValidIn, Slots, Other
      <4>2. s[t].revision \in Int /\ s[o].revision \in Int /\ s[t].revision < s[o].revision
        BY <1>5, <1>7, <3>2, EnvelopeFields
      <4>3. ValidIn(s) \ {o} = {t} /\ ValidIn(s) \ {t} = {o}
        BY <1>1, <4>1
      <4> HIDE DEF o
      <4> QED
        BY <4>1, <4>2, <4>3 DEF NewestIn
    <3> QED
      BY <3>1, <3>2
  <2> QED
    BY <1>1, <1>7, <2>1, <2>2, <2>3, <2>4 DEF t
<1> QED
  BY <1>6, <1>7

-----------------------------------------------------------------------------
(* The operators of the model are those, now and after a step. *)

LEMMA InTheseTerms ==
  /\ Valid = ValidIn(slots)
  /\ Newest = NewestIn(slots)
  /\ Stored = StoredIn(slots, legacy)
  /\ Stored' = StoredIn(slots', legacy')
  /\ Target = TargetIn(slots)
  /\ SlotsAreConsecutive = ConsecutiveIn(slots)
  /\ SlotsAreConsecutive' = ConsecutiveIn(slots')
  BY DEF Valid, ValidIn, Newest, NewestIn, Stored, StoredIn, Target, TargetIn,
         SlotsAreConsecutive, ConsecutiveIn

\* No valid slot comes: then slots of successive generations stay so.
LEMMA FewerAreConsecutive ==
  ASSUME NEW s \in [Slots -> File], NEW r, ConsecutiveIn(s),
         \A i \in Slots : r[i] \in Envelope => r[i] = s[i]
  PROVE  ConsecutiveIn(r)
  BY DEF ConsecutiveIn, ValidIn, Slots

\* An operation is of the kind its pc says.
LEMMA OperationFields ==
  ASSUME NEW o \in Operation
  PROVE  /\ o.pc \in {"read", "decide"} =>
              o \in [pc : {"read", "decide"}, call : {"load", "persist"},
                     payload : Values \cup {Nothing}, slot : Slots]
         /\ o.pc \in {"write", "fill", "verify"} =>
              o \in [pc : {"write", "fill", "verify"}, call : {"load", "persist"},
                     slot : Slots, envelope : Envelope]
  BY DEF Operation, Idle

\* An operation that has ended has nothing to keep.
LEMMA IdleKeeps ==
  ASSUME op' = Idle
  PROVE  ReadInv' /\ WriteInv' /\ op' \in Operation
  BY DEF ReadInv, WriteInv, Operation, Idle

-----------------------------------------------------------------------------
(* The invariant, one action at a time. *)

LEMMA BeginKeeps ==
  ASSUME Inv, BeginLoad \/ BeginPersist
  PROVE  Inv'
<1>1. PICK call \in {"load", "persist"}, payload \in Values \cup {Nothing} :
        Begin(call, payload) /\ (call = "persist" => payload \in Values)
  BY DEF BeginLoad, BeginPersist
<1>2. op' = [pc |-> "read", call |-> call, payload |-> payload, slot |-> 0]
  BY <1>1 DEF Begin
<1>3. UNCHANGED <<desktop, slots, legacy, promised>>
  BY <1>1 DEF Begin
<1>4. op' \in Operation
  BY <1>2 DEF Operation, Slots
<1>5. TypeOK'
  BY <1>3, <1>4 DEF Inv, TypeOK
<1>6. LoadsWhatWasSaved' /\ SlotsAreConsecutive'
  BY <1>3, InTheseTerms DEF Inv, LoadsWhatWasSaved
<1>7. ReadInv' /\ WriteInv'
  BY <1>1, <1>2 DEF ReadInv, WriteInv
<1> QED
  BY <1>5, <1>6, <1>7 DEF Inv

LEMMA ReadSlotKeeps ==
  ASSUME Inv, ReadSlot
  PROVE  Inv'
<1>1. /\ op.pc = "read"
      /\ slots' = [slots EXCEPT ![op.slot] = IF @ = Corrupt THEN Missing ELSE @]
      /\ UNCHANGED <<desktop, legacy, promised>>
  BY DEF ReadSlot
<1>2. /\ op \in [pc : {"read", "decide"}, call : {"load", "persist"},
                 payload : Values \cup {Nothing}, slot : Slots]
      /\ slots \in [Slots -> File]
  BY <1>1, OperationFields DEF Inv, TypeOK
<1>3. /\ slots' \in [Slots -> File]
      /\ \A i \in Slots : slots'[i] \in {slots[i], Missing}
      /\ \A i \in Slots : slots[i] # Corrupt => slots'[i] = slots[i]
  BY <1>1, <1>2 DEF File
<1>4. Missing \notin Envelope /\ Corrupt \notin Envelope /\ Newer # Missing
  BY EnvelopeAssumption, MarkersAssumption
<1>5. \A i \in Slots : slots'[i] \in Envelope \/ slots[i] \in Envelope =>
        slots'[i] = slots[i]
  BY <1>3, <1>4
<1>6. ValidIn(slots') = ValidIn(slots)
  BY <1>5 DEF ValidIn
<1>7. Stored' = Stored
  <2>1. \A i \in ValidIn(slots) : slots'[i] = slots[i]
    BY <1>5 DEF ValidIn
  <2>2. CASE ValidIn(slots) = {}
    BY <1>1, <1>6, <2>2, InTheseTerms DEF StoredIn
  <2>3. CASE \E i \in Slots : slots[i] \in Envelope /\ slots[Other(i)] \notin Envelope
    BY <1>2, <1>3, <1>4, <1>5, <2>3, OneValid, InTheseTerms DEF Slots, Other
  <2>4. CASE ValidIn(slots) = Slots
    <3>1. slots' = slots
      BY <1>2, <1>3, <2>1, <2>4
    <3> QED
      BY <1>1, <3>1, InTheseTerms
  <2> QED
    BY <2>2, <2>3, <2>4 DEF ValidIn, Slots, Other
<1>8. LoadsWhatWasSaved'
  BY <1>1, <1>7 DEF Inv, LoadsWhatWasSaved
<1>9. SlotsAreConsecutive'
  BY <1>2, <1>5, FewerAreConsecutive, InTheseTerms DEF Inv
<1>10. op' = CASE slots[op.slot] = Newer -> Idle
               [] slots[op.slot] # Newer /\ op.slot = 0 -> [op EXCEPT !.slot = 1]
               [] OTHER -> [op EXCEPT !.pc = "decide"]
  BY DEF ReadSlot
<1>11. op' \in Operation /\ ReadInv' /\ WriteInv'
  <2>1. CASE slots[op.slot] = Newer
    BY <1>10, <2>1, IdleKeeps
  <2>2. CASE slots[op.slot] # Newer /\ op.slot = 0
    <3>1. op' = [op EXCEPT !.slot = 1]
      BY <1>10, <2>2
    <3>2. op' \in Operation /\ op'.pc = "read" /\ op'.call = op.call /\ op'.payload = op.payload
      BY <1>1, <1>2, <3>1 DEF Operation, Slots
    <3>3. slots'[0] # Newer
      BY <1>3, <1>4, <2>2 DEF Slots
    <3> QED
      BY <1>1, <3>2, <3>3 DEF Inv, ReadInv, WriteInv
  <2>3. CASE slots[op.slot] # Newer /\ op.slot # 0
    <3>1. op' = [op EXCEPT !.pc = "decide"]
      BY <1>10, <2>3
    <3>2. op' \in Operation /\ op'.pc = "decide" /\ op'.call = op.call /\ op'.payload = op.payload
      BY <1>2, <3>1 DEF Operation
    <3>3. op.slot = 1
      BY <1>2, <2>3 DEF Slots
    <3>4. slots[0] # Newer /\ slots[1] # Newer
      BY <1>1, <2>3, <3>3 DEF Inv, ReadInv
    <3>5. \A i \in Slots : slots'[i] # Newer
      BY <1>3, <1>4, <3>4 DEF Slots
    <3> QED
      BY <1>1, <3>2, <3>5 DEF Inv, ReadInv, WriteInv
  <2> QED
    BY <2>1, <2>2, <2>3
<1>12. TypeOK'
  BY <1>1, <1>3, <1>11 DEF Inv, TypeOK
<1> QED
  BY <1>8, <1>9, <1>11, <1>12 DEF Inv

LEMMA LoadNewestKeeps ==
  ASSUME Inv, LoadNewest
  PROVE  Inv'
<1>1. /\ Valid # {} /\ op' = Idle /\ promised' = {slots[Newest].payload}
      /\ UNCHANGED <<desktop, slots, legacy>>
  BY DEF LoadNewest, Answer
<1>2. slots \in [Slots -> File] /\ ConsecutiveIn(slots)
  BY InTheseTerms DEF Inv, TypeOK
<1>3. promised' = {Stored}
  BY <1>1, <1>2, StoredType, InTheseTerms
<1>4. Stored' = Stored
  BY <1>1, InTheseTerms
<1>5. LoadsWhatWasSaved' /\ SlotsAreConsecutive'
  BY <1>1, <1>3, <1>4, InTheseTerms DEF Inv, LoadsWhatWasSaved
<1>6. Stored \in Values \cup {Nothing}
  BY <1>2, StoredType, InTheseTerms
<1>7. TypeOK'
  BY <1>1, <1>3, <1>6, IdleKeeps DEF Inv, TypeOK
<1> QED
  BY <1>1, <1>5, <1>7, IdleKeeps DEF Inv

\* What is to be written next to the generation before it may be lost while it
\* is written.
LEMMA WritingKeeps ==
  ASSUME Inv, op.pc = "decide",
         NEW slot \in Slots, NEW revision \in 1 .. MaxRevision, NEW payload \in Values,
         op' = Writing(slot, revision, payload),
         UNCHANGED <<desktop, slots, legacy>>,
         promised \subseteq promised', promised' \subseteq Values \cup {Nothing},
         payload \in promised',
         op.call = "load" => legacy \in Values,
         slots[Other(slot)] \in Envelope => slots[Other(slot)].revision = revision - 1,
         StoredIn([slots EXCEPT ![slot] = Corrupt], legacy) = Stored
  PROVE  Inv'
<1>1. op.call \in {"load", "persist"}
  BY OperationFields DEF Inv, TypeOK
<1> DEFINE e == [revision |-> revision, payload |-> payload]
<1>2. op' = [pc |-> "write", call |-> op.call, slot |-> slot, envelope |-> e]
  BY DEF Writing
<1>3. e \in Envelope
  BY DEF Envelope
<1>4. e.revision = revision /\ e.payload = payload
  OBVIOUS
<1> HIDE DEF e
<1>5. op'.pc = "write" /\ op'.call = op.call /\ op'.slot = slot /\ op'.envelope = e
  BY <1>2
<1>6. op' \in Operation
  BY <1>1, <1>2, <1>3 DEF Operation
<1>7. TypeOK'
  BY <1>6 DEF Inv, TypeOK
<1>8. LoadsWhatWasSaved' /\ SlotsAreConsecutive'
  BY InTheseTerms DEF Inv, LoadsWhatWasSaved
<1>9. slots[slot] # Newer
  BY DEF Inv, ReadInv
<1>10. Fallback' \in promised'
  BY <1>5 DEF Fallback, Inv, LoadsWhatWasSaved
<1>11. ReadInv' /\ WriteInv'
  BY <1>4, <1>5, <1>9, <1>10 DEF ReadInv, WriteInv
<1> QED
  BY <1>7, <1>8, <1>11 DEF Inv

LEMMA LoadLegacyKeeps ==
  ASSUME Inv, LoadLegacy
  PROVE  Inv'
<1>1. op.pc = "decide" /\ Valid = {} /\ UNCHANGED <<desktop, slots>>
  BY DEF LoadLegacy
<1>2. slots \in [Slots -> File] /\ \A i \in Slots : slots[i] \notin Envelope
  BY <1>1 DEF Inv, TypeOK, Valid
<1>3. CASE /\ legacy \in Values
           /\ op' = Writing(0, 1, legacy)
           /\ UNCHANGED <<legacy, promised>>
  <2>1. 0 \in Slots /\ 1 \in 1 .. MaxRevision /\ Other(0) \in Slots
    BY MaxRevisionAssumption DEF Slots, Other
  <2>2. Stored = legacy
    BY <1>2, <1>3, NoneValid, InTheseTerms
  <2> DEFINE r == [slots EXCEPT ![0] = Corrupt]
  <2>3. r \in [Slots -> File] /\ \A i \in Slots : r[i] \notin Envelope
    BY <1>2, EnvelopeAssumption DEF File
  <2>4. StoredIn(r, legacy) = Stored
    BY <1>3, <2>2, <2>3, NoneValid
  <2>5. legacy \in promised /\ promised \subseteq Values \cup {Nothing}
    BY <2>2 DEF Inv, LoadsWhatWasSaved, TypeOK
  <2> QED
    BY <1>1, <1>2, <1>3, <2>1, <2>4, <2>5, WritingKeeps
<1>4. CASE legacy = Newer /\ op' = Idle /\ UNCHANGED <<legacy, promised>>
  <2>1. TypeOK'
    BY <1>1, <1>4, IdleKeeps DEF Inv, TypeOK
  <2>2. LoadsWhatWasSaved' /\ SlotsAreConsecutive'
    BY <1>1, <1>4, InTheseTerms DEF Inv, LoadsWhatWasSaved
  <2> QED
    BY <1>4, <2>1, <2>2, IdleKeeps DEF Inv
<1>5. CASE legacy \in {Missing, Corrupt} /\ legacy' = Missing /\ Answer(Nothing)
  <2>1. op' = Idle /\ promised' = {Nothing}
    BY <1>5 DEF Answer
  <2>2. TypeOK'
    BY <1>1, <1>5, <2>1, IdleKeeps DEF Inv, TypeOK
  <2>3. Stored' = Nothing
    BY <1>1, <1>2, <1>5, NoneValid, MarkersAssumption, InTheseTerms
  <2>4. SlotsAreConsecutive'
    BY <1>1, InTheseTerms DEF Inv
  <2> QED
    BY <2>1, <2>2, <2>3, <2>4, IdleKeeps DEF Inv, LoadsWhatWasSaved
<1> QED
  BY <1>3, <1>4, <1>5 DEF LoadLegacy

LEMMA PersistKeeps ==
  ASSUME Inv, Persist
  PROVE  Inv'
<1>1. op.pc = "decide" /\ op.call = "persist" /\ UNCHANGED <<desktop, slots, legacy>>
  BY DEF Persist
<1>2. slots \in [Slots -> File] /\ ConsecutiveIn(slots)
  BY InTheseTerms DEF Inv, TypeOK
<1>3. CASE NextRevision <= MaxRevision
  <2>1. op' = Writing(Target, NextRevision, op.payload)
        /\ promised' = promised \cup {op.payload}
    BY <1>3 DEF Persist
  <2>2. op.payload \in Values
    BY <1>1 DEF Inv, ReadInv
  <2>3. Corrupt \in {Corrupt, Newer}
    OBVIOUS
  <2>4. /\ Target \in Slots
        /\ StoredIn([slots EXCEPT ![Target] = Corrupt], legacy) = Stored
        /\ slots[Other(Target)] \in Envelope => Newest = Other(Target) /\ Valid # {}
        /\ slots[Other(Target)] \notin Envelope => Valid = {}
    BY <1>2, <2>3, TargetCanBeLost, InTheseTerms
  <2>5. NextRevision \in 1 .. MaxRevision
    <3>1. CASE slots[Other(Target)] \in Envelope
      BY <1>3, <2>4, <3>1, EnvelopeFields, MaxRevisionAssumption DEF NextRevision
    <3>2. CASE slots[Other(Target)] \notin Envelope
      BY <1>3, <2>4, <3>2, MaxRevisionAssumption DEF NextRevision
    <3> QED
      BY <3>1, <3>2
  <2>6. slots[Other(Target)] \in Envelope =>
          slots[Other(Target)].revision = NextRevision - 1
    BY <2>4, EnvelopeFields DEF NextRevision
  <2>7. promised' \subseteq Values \cup {Nothing}
    BY <2>1, <2>2 DEF Inv, TypeOK
  <2> HIDE DEF Target, NextRevision
  <2> QED
    BY <1>1, <2>1, <2>2, <2>4, <2>5, <2>6, <2>7, WritingKeeps
<1>4. CASE ~(NextRevision <= MaxRevision)
  <2>1. op' = Idle /\ promised' = promised
    BY <1>4 DEF Persist
  <2>2. TypeOK'
    BY <1>1, <2>1, IdleKeeps DEF Inv, TypeOK
  <2>3. LoadsWhatWasSaved' /\ SlotsAreConsecutive'
    BY <1>1, <2>1, InTheseTerms DEF Inv, LoadsWhatWasSaved
  <2> QED
    BY <2>1, <2>2, <2>3, IdleKeeps DEF Inv
<1> QED
  BY <1>3, <1>4

\* What a write has while it goes on.
LEMMA Writes ==
  ASSUME Inv, op.pc \in {"write", "fill", "verify"}
  PROVE  /\ op \in [pc : {"write", "fill", "verify"}, call : {"load", "persist"},
                    slot : Slots, envelope : Envelope]
         /\ op.slot \in Slots /\ Other(op.slot) \in Slots
         /\ Other(op.slot) # op.slot /\ Other(Other(op.slot)) = op.slot
         /\ op.envelope \in Envelope
<1>1. op \in [pc : {"write", "fill", "verify"}, call : {"load", "persist"},
              slot : Slots, envelope : Envelope]
  BY OperationFields DEF Inv, TypeOK
<1> QED
  BY <1>1 DEF Slots, Other

LEMMA CreateFileKeeps ==
  ASSUME Inv, CreateFile
  PROVE  Inv'
<1>1. /\ op.pc = "write"
      /\ slots' = [slots EXCEPT ![op.slot] = Corrupt]
      /\ op' = [op EXCEPT !.pc = "fill"]
      /\ UNCHANGED <<desktop, legacy, promised>>
  BY DEF CreateFile
<1>2. slots \in [Slots -> File]
  BY DEF Inv, TypeOK
<1>3. slots' \in [Slots -> File] /\ slots'[Other(op.slot)] = slots[Other(op.slot)]
      /\ slots'[op.slot] = Corrupt
  BY <1>1, <1>2, Writes DEF File
<1>4. /\ op' \in Operation
      /\ op'.pc = "fill" /\ op'.call = op.call
      /\ op'.slot = op.slot /\ op'.envelope = op.envelope
  BY <1>1, Writes DEF Operation
<1>5. TypeOK'
  BY <1>1, <1>3, <1>4 DEF Inv, TypeOK
<1>6. Stored' = Fallback
  BY <1>1, InTheseTerms DEF Fallback
<1>7. Fallback \in promised /\ op.envelope.payload \in promised
  BY <1>1 DEF Inv, WriteInv
<1>8. \A i \in Slots : slots'[i] \in Envelope => slots'[i] = slots[i]
  BY <1>1, <1>2, EnvelopeAssumption
<1>9. SlotsAreConsecutive'
  BY <1>2, <1>8, FewerAreConsecutive, InTheseTerms DEF Inv
<1>10. Fallback' = Fallback
  <2>1. [slots' EXCEPT ![op.slot] = Corrupt] = slots'
    BY <1>3
  <2> QED
    BY <1>1, <1>4, <2>1 DEF Fallback
<1>11. slots[Other(op.slot)] \in Envelope =>
         slots[Other(op.slot)].revision = op.envelope.revision - 1
  BY <1>1 DEF Inv, WriteInv
<1>12. Corrupt # Newer /\ (op.call = "load" => legacy \in Values)
  BY <1>1, MarkersAssumption DEF Inv, WriteInv
<1>13. ReadInv' /\ WriteInv'
  BY <1>1, <1>3, <1>4, <1>7, <1>10, <1>11, <1>12 DEF ReadInv, WriteInv
<1> QED
  BY <1>1, <1>5, <1>6, <1>7, <1>9, <1>13 DEF Inv, LoadsWhatWasSaved

\* Once an envelope is on the disk it is what is stored.
LEMMA WrittenIsStored ==
  ASSUME NEW s \in [Slots -> File], NEW l, NEW i \in Slots, NEW e \in Envelope,
         s[i] = e,
         s[Other(i)] \in Envelope => s[Other(i)].revision = e.revision - 1
  PROVE  StoredIn(s, l) = e.payload /\ ConsecutiveIn(s)
<1>1. CASE s[Other(i)] \notin Envelope
  <2>1. ValidIn(s) # Slots
    BY <1>1 DEF ValidIn, Slots, Other
  <2> QED
    BY <1>1, <2>1, OneValid DEF ConsecutiveIn
<1>2. CASE s[Other(i)] \in Envelope
  <2>1. s[i].revision \in Int /\ s[Other(i)].revision \in Int
    BY <1>2, EnvelopeFields
  <2>2. s[Other(i)].revision < s[i].revision
    BY <1>2, <2>1
  <2>3. ConsecutiveIn(s)
    BY <1>2, <2>1 DEF ConsecutiveIn, Slots, Other
  <2> QED
    BY <1>2, <2>2, <2>3, TwoValid
<1> QED
  BY <1>1, <1>2

LEMMA FillFileKeeps ==
  ASSUME Inv, FillFile
  PROVE  Inv'
<1>1. /\ op.pc \in {"write", "fill"}
      /\ slots' = [slots EXCEPT ![op.slot] = op.envelope]
      /\ op' = [op EXCEPT !.pc = "verify"]
      /\ UNCHANGED <<desktop, legacy, promised>>
  BY DEF FillFile
<1>2. slots \in [Slots -> File]
  BY DEF Inv, TypeOK
<1>3. slots' \in [Slots -> File] /\ slots'[Other(op.slot)] = slots[Other(op.slot)]
      /\ slots'[op.slot] = op.envelope
  BY <1>1, <1>2, Writes DEF File
<1>4. /\ op' \in Operation
      /\ op'.pc = "verify" /\ op'.call = op.call
      /\ op'.slot = op.slot /\ op'.envelope = op.envelope
  BY <1>1, Writes DEF Operation
<1>5. TypeOK'
  BY <1>1, <1>3, <1>4 DEF Inv, TypeOK
<1>6. slots[Other(op.slot)] \in Envelope =>
        slots[Other(op.slot)].revision = op.envelope.revision - 1
  BY <1>1 DEF Inv, WriteInv
<1>7. Stored' = op.envelope.payload /\ SlotsAreConsecutive'
  <2>1. op.slot \in Slots /\ op.envelope \in Envelope
    BY <1>1, Writes
  <2>2. StoredIn(slots', legacy') = op.envelope.payload /\ ConsecutiveIn(slots')
    BY <1>3, <1>6, <2>1, WrittenIsStored
  <2> QED
    BY <2>2, InTheseTerms
<1>8. Fallback \in promised /\ op.envelope.payload \in promised
  BY <1>1 DEF Inv, WriteInv
<1>9. Fallback' = Fallback
  <2>1. [slots' EXCEPT ![op.slot] = Corrupt] = [slots EXCEPT ![op.slot] = Corrupt]
    BY <1>1, <1>2
  <2> QED
    BY <1>1, <1>4, <2>1 DEF Fallback
<1>10. op.envelope # Newer /\ (op.call = "load" => legacy \in Values)
  BY <1>1, Writes, EnvelopeAssumption DEF Inv, WriteInv
<1>11. ReadInv' /\ WriteInv'
  BY <1>1, <1>3, <1>4, <1>6, <1>8, <1>9, <1>10 DEF ReadInv, WriteInv
<1> QED
  BY <1>1, <1>5, <1>7, <1>8, <1>11 DEF Inv, LoadsWhatWasSaved

LEMMA VerifyKeeps ==
  ASSUME Inv, Verify
  PROVE  Inv'
<1>1. /\ op.pc = "verify" /\ op' = Idle /\ promised' = {op.envelope.payload}
      /\ UNCHANGED <<desktop, slots, legacy>>
  BY DEF Verify, Answer
<1>2. /\ slots \in [Slots -> File]
      /\ slots[op.slot] = op.envelope
      /\ slots[Other(op.slot)] \in Envelope =>
           slots[Other(op.slot)].revision = op.envelope.revision - 1
  BY <1>1 DEF Inv, TypeOK, WriteInv
<1>3. Stored' = op.envelope.payload
  BY <1>1, <1>2, Writes, WrittenIsStored, InTheseTerms
<1>4. SlotsAreConsecutive'
  BY <1>1, InTheseTerms DEF Inv
<1>5. TypeOK'
  BY <1>1, Writes, EnvelopeFields, IdleKeeps DEF Inv, TypeOK
<1> QED
  BY <1>1, <1>3, <1>4, <1>5, IdleKeeps DEF Inv, LoadsWhatWasSaved

LEMMA InterruptedKeeps ==
  ASSUME Inv, Interrupted
  PROVE  Inv'
<1>1. op' = Idle /\ UNCHANGED <<desktop, legacy, promised>>
  BY DEF Interrupted
<1>2. slots \in [Slots -> File]
  BY DEF Inv, TypeOK
<1>3. CASE UNCHANGED slots
  <2>1. TypeOK'
    BY <1>1, <1>3, IdleKeeps DEF Inv, TypeOK
  <2>2. LoadsWhatWasSaved' /\ SlotsAreConsecutive'
    BY <1>1, <1>3, InTheseTerms DEF Inv, LoadsWhatWasSaved
  <2> QED
    BY <1>1, <2>1, <2>2, IdleKeeps DEF Inv
<1>4. CASE op.pc = "verify" /\ slots' = [slots EXCEPT ![op.slot] = Corrupt]
  <2>1. Stored' = Fallback
    BY <1>1, <1>4, InTheseTerms DEF Fallback
  <2>2. Fallback \in promised
    BY <1>4 DEF Inv, WriteInv
  <2>3. slots' \in [Slots -> File]
    BY <1>2, <1>4 DEF File
  <2>4. \A i \in Slots : slots'[i] \in Envelope => slots'[i] = slots[i]
    BY <1>2, <1>4, EnvelopeAssumption
  <2>5. SlotsAreConsecutive'
    BY <1>2, <2>4, FewerAreConsecutive, InTheseTerms DEF Inv
  <2>6. TypeOK'
    BY <1>1, <2>3, IdleKeeps DEF Inv, TypeOK
  <2> QED
    BY <1>1, <2>1, <2>2, <2>5, <2>6, IdleKeeps DEF Inv, LoadsWhatWasSaved
<1> QED
  BY <1>3, <1>4 DEF Interrupted

LEMMA MigrationFailsKeeps ==
  ASSUME Inv, MigrationFails
  PROVE  Inv'
<1>1. /\ legacy' = Missing /\ op' = Idle /\ promised' = promised \cup {Nothing}
      /\ UNCHANGED <<desktop, slots>>
  BY DEF MigrationFails
<1>2. slots \in [Slots -> File]
  BY DEF Inv, TypeOK
<1>3. CASE ValidIn(slots) = {}
  <2>1. StoredIn(slots, Missing) = Nothing
    BY <1>3, MarkersAssumption DEF StoredIn
  <2> QED
    <3>1. LoadsWhatWasSaved' /\ SlotsAreConsecutive'
      BY <1>1, <2>1, InTheseTerms DEF Inv, LoadsWhatWasSaved
    <3>2. TypeOK'
      BY <1>1, IdleKeeps DEF Inv, TypeOK
    <3> QED
      BY <1>1, <3>1, <3>2, IdleKeeps DEF Inv
<1>4. CASE ValidIn(slots) # {}
  <2>1. Stored' = Stored
    BY <1>1, <1>4, LegacyDoesNotMatter, InTheseTerms
  <2>2. LoadsWhatWasSaved' /\ SlotsAreConsecutive'
    BY <1>1, <2>1, InTheseTerms DEF Inv, LoadsWhatWasSaved
  <2>3. TypeOK'
    BY <1>1, IdleKeeps DEF Inv, TypeOK
  <2> QED
    BY <1>1, <2>2, <2>3, IdleKeeps DEF Inv
<1> QED
  BY <1>3, <1>4

LEMMA RotsKeeps ==
  ASSUME Inv, NEW i \in Slots, Rots(i)
  PROVE  Inv'
<1>1. /\ op = Idle /\ op' = op
      /\ slots' = [slots EXCEPT ![i] = Corrupt]
      /\ UNCHANGED <<desktop, legacy>>
      /\ promised' = promised \cup {Stored'}
  BY DEF Rots
<1>2. slots \in [Slots -> File] /\ slots' \in [Slots -> File]
  BY <1>1 DEF Inv, TypeOK, File
<1>3. \A j \in Slots : slots'[j] \in Envelope => slots'[j] = slots[j]
  BY <1>1, <1>2, EnvelopeAssumption
<1>4. SlotsAreConsecutive'
  BY <1>2, <1>3, FewerAreConsecutive, InTheseTerms DEF Inv
<1>5. Stored' \in Values \cup {Nothing}
  BY <1>2, <1>4, StoredType, InTheseTerms
<1>6. TypeOK'
  BY <1>1, <1>2, <1>5, IdleKeeps DEF Inv, TypeOK
<1> QED
  BY <1>1, <1>4, <1>6, IdleKeeps DEF Inv, LoadsWhatWasSaved

LEMMA LaterVersionSavesKeeps ==
  ASSUME Inv, LaterVersionSaves
  PROVE  Inv'
<1>1. /\ op = Idle /\ op' = op
      /\ slots' = [slots EXCEPT ![Target] = Newer]
      /\ UNCHANGED <<desktop, legacy, promised>>
  BY DEF LaterVersionSaves
<1>2. slots \in [Slots -> File] /\ slots' \in [Slots -> File] /\ ConsecutiveIn(slots)
  BY <1>1, InTheseTerms DEF Inv, TypeOK, File
<1>3. Newer \in {Corrupt, Newer}
  OBVIOUS
<1>4. Stored' = Stored
  BY <1>1, <1>2, <1>3, TargetCanBeLost, InTheseTerms
<1>5. \A j \in Slots : slots'[j] \in Envelope => slots'[j] = slots[j]
  BY <1>1, <1>2, EnvelopeAssumption
<1>6. SlotsAreConsecutive'
  BY <1>2, <1>5, FewerAreConsecutive, InTheseTerms
<1>7. TypeOK'
  BY <1>1, <1>2, IdleKeeps DEF Inv, TypeOK
<1> QED
  BY <1>1, <1>4, <1>6, <1>7, IdleKeeps DEF Inv, LoadsWhatWasSaved

-----------------------------------------------------------------------------
(* The theorems. *)

LEMMA InitEstablishes ==
  ASSUME Init
  PROVE  Inv
<1>1. /\ desktop \in BOOLEAN
      /\ slots = [i \in Slots |-> Missing]
      /\ legacy \in Values \cup {Missing, Corrupt, Newer}
      /\ op = Idle
      /\ promised = {Stored}
  BY DEF Init
<1>2. /\ slots \in [Slots -> File]
      /\ \A i \in Slots : slots[i] \notin Envelope
  BY <1>1, EnvelopeAssumption DEF File
<1>3. SlotsAreConsecutive
  BY <1>2, InTheseTerms DEF ConsecutiveIn, ValidIn, Slots
<1>4. Stored \in Values \cup {Nothing}
  BY <1>2, NoneValid, InTheseTerms
<1>5. TypeOK
  BY <1>1, <1>2, <1>4 DEF TypeOK, Operation
<1>6. ReadInv /\ WriteInv
  BY <1>1 DEF ReadInv, WriteInv, Idle
<1> QED
  BY <1>1, <1>3, <1>5, <1>6 DEF Inv, LoadsWhatWasSaved

LEMMA StepKeeps ==
  ASSUME Inv, [Next]_vars
  PROVE  Inv'
<1>1. CASE UNCHANGED vars
  <2>1. UNCHANGED <<desktop, slots, legacy, op, promised>>
    BY <1>1 DEF vars
  <2>2. TypeOK' /\ ReadInv'
    BY <2>1 DEF Inv, TypeOK, ReadInv
  <2>3. LoadsWhatWasSaved' /\ SlotsAreConsecutive'
    BY <2>1, InTheseTerms DEF Inv, LoadsWhatWasSaved
  <2>4. Fallback' = Fallback
    BY <2>1 DEF Fallback
  <2>5. WriteInv'
    BY <2>1, <2>4 DEF Inv, WriteInv
  <2> QED
    BY <2>2, <2>3, <2>5 DEF Inv
<1>2. CASE Load
  BY <1>2, BeginKeeps, LoadNewestKeeps, LoadLegacyKeeps, MigrationFailsKeeps DEF Load
<1>3. CASE Save
  BY <1>3, BeginKeeps, PersistKeeps DEF Save
<1>4. CASE Write
  BY <1>4, CreateFileKeeps, FillFileKeeps, VerifyKeeps DEF Write
<1>5. CASE ReadSlot \/ Interrupted \/ LaterVersionSaves
  BY <1>5, ReadSlotKeeps, InterruptedKeeps, LaterVersionSavesKeeps
<1>6. CASE \E i \in Slots : Rots(i)
  BY <1>6, RotsKeeps
<1> QED
  BY <1>1, <1>2, <1>3, <1>4, <1>5, <1>6 DEF Next

\* Everything the other theorems rest on always holds.
THEOREM Invariance == Spec => []Inv
<1>1. Init => Inv
  BY InitEstablishes
<1>2. Inv /\ [Next]_vars => Inv'
  BY StepKeeps
<1> QED
  BY <1>1, <1>2, PTL DEF Spec

\* The slots, the operation that has the lock and what is promised are well
\* typed; so no revision exceeds the last one that can be written.
THEOREM TypeCorrect == Spec => []TypeOK
<1>1. Inv => TypeOK
  BY DEF Inv
<1> QED
  BY <1>1, Invariance, PTL

\* However the saves stop, whichever slot was being written and whatever rots
\* between them, a load returns the last payload whose save was answered, or
\* that of a save that was interrupted after it.
THEOREM LoadIsFaithful == Spec => []LoadsWhatWasSaved
<1>1. Inv => LoadsWhatWasSaved
  BY DEF Inv
<1> QED
  BY <1>1, Invariance, PTL

\* Two slots that can be read are always of successive generations.
THEOREM Generations == Spec => []SlotsAreConsecutive
<1>1. Inv => SlotsAreConsecutive
  BY DEF Inv
<1> QED
  BY <1>1, Invariance, PTL

\* No step of this version changes a file of a later one: no operation gets
\* past a slot of a later version, and only a slot that was read is written.
THEOREM LaterVersionIsSafe == Spec => LaterVersionIsUntouched
<1>1. Inv /\ [Next]_vars => [LaterVersionStays]_vars
  <2> SUFFICES ASSUME Inv, Next PROVE LaterVersionStays
    OBVIOUS
  <2> USE DEF LaterVersionStays
  <2>1. slots \in [Slots -> File] /\ Newer # Corrupt /\ Newer # Missing /\ Newer \notin Values
    BY MarkersAssumption DEF Inv, TypeOK
  <2>2. CASE BeginLoad \/ BeginPersist
    BY <2>2 DEF BeginLoad, BeginPersist, Begin
  <2>3. CASE LoadNewest \/ Persist \/ Verify
    BY <2>3 DEF LoadNewest, Persist, Verify
  <2>4. CASE LoadLegacy
    BY <2>1, <2>4 DEF LoadLegacy
  <2>5. CASE ReadSlot
    BY <2>1, <2>5 DEF ReadSlot
  <2>6. CASE CreateFile
    <3>1. slots[op.slot] # Newer
      BY <2>6 DEF CreateFile, Inv, WriteInv
    <3> QED
      BY <2>1, <2>6, <3>1 DEF CreateFile
  <2>7. CASE FillFile
    <3>1. op.pc \in {"write", "fill"} /\ UNCHANGED legacy
          /\ slots' = [slots EXCEPT ![op.slot] = op.envelope]
      BY <2>7 DEF FillFile
    <3>2. slots[op.slot] # Newer
      BY <3>1 DEF Inv, WriteInv
    <3> QED
      BY <2>1, <3>1, <3>2
  <2>8. CASE Interrupted
    <3>1. op.pc = "verify" => slots[op.slot] # Newer
      BY DEF Inv, WriteInv
    <3> QED
      BY <2>1, <2>8, <3>1 DEF Interrupted
  <2>9. CASE MigrationFails
    BY <2>1, <2>9 DEF MigrationFails, Inv, WriteInv
  <2>10. CASE LaterVersionSaves
    BY <2>1, <2>10 DEF LaterVersionSaves
  <2>11. CASE \E i \in Slots : Rots(i)
    BY <2>1, <2>11, EnvelopeAssumption DEF Rots, Valid
  <2> QED
    BY <2>2, <2>3, <2>4, <2>5, <2>6, <2>7, <2>8, <2>9, <2>10, <2>11
    DEF Next, Load, Save, Write
<1> QED
  BY <1>1, Invariance, PTL DEF Spec, LaterVersionIsUntouched

\* The desktop never changes an old file that can be read.
THEOREM MigrationKeepsLegacy == Spec => LegacyIsKept
<1>1. [Next]_vars => [LegacyStays]_vars
  <2> SUFFICES ASSUME Next, desktop, legacy \in Values PROVE legacy' = legacy
    BY DEF LegacyStays
  <2>1. CASE LoadLegacy
    BY <2>1, MarkersAssumption DEF LoadLegacy
  <2>2. CASE MigrationFails
    BY <2>2 DEF MigrationFails
  <2>3. CASE BeginLoad \/ LoadNewest \/ Save \/ ReadSlot
    BY <2>3 DEF BeginLoad, LoadNewest, Save, BeginPersist, Begin, Persist, ReadSlot
  <2>4. CASE Write \/ Interrupted \/ LaterVersionSaves \/ \E i \in Slots : Rots(i)
    BY <2>4 DEF Write, CreateFile, FillFile, Verify, Interrupted, LaterVersionSaves, Rots
  <2> QED
    BY <2>1, <2>2, <2>3, <2>4 DEF Next, Load
<1> QED
  BY <1>1, PTL DEF Spec, LegacyIsKept

-----------------------------------------------------------------------------
(* The external API *)

\* Where a command, the launch and the exit may be.
Pcs ==
  {"idle", "roots", "lock", "lease", "publish", "persist", "install", "undo", "restore", "stop"}
LaunchPcs == {"idle", "lock", "lease", "publish"}
SetCall == [pc : Pcs, wanted : Preferences, previous : Preferences, previousRoots : Roots]
LaunchCall == [pc : LaunchPcs, wanted : Preferences]
ExitCall == [pc : {"idle", "stop"}]
ClientCall ==
  [pc : {"read", "probe", "unlock", "answered"}, lists : BOOLEAN, token : Nat \cup {None},
   ran : SUBSET Nat, disturbed : BOOLEAN]

StateTypes ==
  /\ alive \in BOOLEAN /\ overlapped \in BOOLEAN /\ unserved \in BOOLEAN
  /\ misreported \in BOOLEAN
  /\ current \in Preferences /\ saved \in Preferences /\ roots \in Roots
  /\ started \in Nat /\ servers \subseteq 1 .. started
  /\ runtime \in Nat \cup {None} /\ record \in Nat \cup {None}
  /\ holder \in Callers \cup {None}
  /\ lease \in {"missing", "app", None} \cup Clients

CallTypes ==
  /\ DOMAIN calls = Callers
  /\ \A w \in Windows : calls[w] = Resting \/ calls[w] \in SetCall
  /\ calls["launch"] = Resting \/ calls["launch"] \in LaunchCall
  /\ calls["exit"] \in ExitCall

ClientTypes ==
  /\ DOMAIN clients = Clients
  /\ \A c \in Clients : clients[c] = Resting \/ clients[c] \in ClientCall

Types == StateTypes /\ CallTypes /\ ClientTypes

-----------------------------------------------------------------------------
(* Commands and clients that go on *)

\* A caller is where it is, and every one has a place.
LEMMA PlaceOfCaller ==
  ASSUME CallTypes, NEW caller \in Callers
  PROVE  /\ "pc" \in DOMAIN calls[caller]
         /\ caller \in Windows => calls[caller].pc \in Pcs
         /\ caller = "launch" => calls[caller].pc \in LaunchPcs
         /\ caller = "exit" => calls[caller].pc \in {"idle", "stop"}
         /\ caller \in Windows /\ calls[caller].pc # "idle" => calls[caller] \in SetCall
         /\ caller = "launch" /\ calls[caller].pc # "idle" => calls[caller] \in LaunchCall
<1>1. Resting.pc = "idle" /\ "pc" \in DOMAIN Resting
  BY DEF Resting
<1>2. CASE caller \in Windows
  <2>1. calls[caller] = Resting \/ calls[caller] \in SetCall
    BY <1>2 DEF CallTypes
  <2>2. CASE calls[caller] = Resting
    BY <1>1, <2>2, <1>2 DEF Pcs, LaunchPcs, CallTypes, LaunchCall, ExitCall
  <2>3. CASE calls[caller] \in SetCall
    BY <2>3, <1>1, <1>2 DEF SetCall, Pcs, LaunchPcs, CallTypes, LaunchCall, ExitCall
  <2> QED
    BY <2>1, <2>2, <2>3
<1>3. CASE caller = "launch" /\ caller \notin Windows
  BY <1>1, <1>3 DEF CallTypes, LaunchCall, LaunchPcs
<1>4. CASE caller = "exit" /\ caller \notin Windows
  BY <1>4 DEF CallTypes, ExitCall
<1> QED
  BY <1>2, <1>3, <1>4 DEF Callers

LEMMA GoesEffect ==
  ASSUME CallTypes, NEW caller \in Callers, NEW p, Goes(caller, p)
  PROVE  /\ DOMAIN calls' = Callers
         /\ \A other \in Callers \ {caller} : calls'[other] = calls[other]
         /\ calls'[caller] = [calls[caller] EXCEPT !.pc = p]
         /\ calls'[caller].pc = p
<1>1. DOMAIN calls = Callers /\ "pc" \in DOMAIN calls[caller]
  BY PlaceOfCaller DEF CallTypes
<1>2. calls' = [calls EXCEPT ![caller] = [calls[caller] EXCEPT !.pc = p]]
  BY DEF Goes
<1> QED
  BY <1>1, <1>2

LEMMA GoesOn ==
  ASSUME Apart, CallTypes, NEW caller \in Callers, NEW p, Goes(caller, p),
         caller \in Windows => p \in Pcs /\ calls[caller].pc # "idle",
         caller = "launch" => p \in LaunchPcs /\ calls[caller].pc # "idle",
         caller = "exit" => p \in {"idle", "stop"}
  PROVE  /\ CallTypes'
         /\ caller \in Windows =>
              /\ calls'[caller].wanted = calls[caller].wanted
              /\ calls'[caller].previous = calls[caller].previous
              /\ calls'[caller].previousRoots = calls[caller].previousRoots
<1>1. /\ DOMAIN calls' = Callers
      /\ \A other \in Callers \ {caller} : calls'[other] = calls[other]
      /\ calls'[caller] = [calls[caller] EXCEPT !.pc = p]
  BY GoesEffect
<1>2. CASE caller \in Windows
  <2>1. calls[caller] \in SetCall
    BY <1>2, PlaceOfCaller
  <2>2. /\ calls'[caller] \in SetCall
        /\ calls'[caller].wanted = calls[caller].wanted
        /\ calls'[caller].previous = calls[caller].previous
        /\ calls'[caller].previousRoots = calls[caller].previousRoots
    BY <1>1, <1>2, <2>1 DEF SetCall
  <2>3. caller # "launch" /\ caller # "exit"
    BY <1>2 DEF Apart
  <2> QED
    BY <1>1, <2>2, <2>3 DEF CallTypes, Callers
<1>3. CASE caller = "launch"
  <2>1. calls[caller] \in LaunchCall
    BY <1>3, PlaceOfCaller
  <2>2. calls'[caller] \in LaunchCall
    BY <1>1, <1>3, <2>1 DEF LaunchCall
  <2>3. caller \notin Windows /\ caller # "exit"
    BY <1>3 DEF Apart
  <2> QED
    BY <1>1, <1>3, <2>2, <2>3 DEF CallTypes, Callers
<1>4. CASE caller = "exit"
  <2>1. calls'[caller] \in ExitCall
    BY <1>1, <1>4 DEF CallTypes, ExitCall
  <2>2. caller \notin Windows /\ caller # "launch"
    BY <1>4 DEF Apart
  <2> QED
    BY <1>1, <1>4, <2>1, <2>2 DEF CallTypes, Callers
<1> QED
  BY <1>2, <1>3, <1>4 DEF Callers

LEMMA AllRest ==
  ASSUME calls' = [caller \in Callers |-> Resting]
  PROVE  /\ CallTypes'
         /\ \A caller \in Callers : calls'[caller].pc = "idle"
BY DEF CallTypes, Resting, ExitCall, Callers

\* One client goes on.
LEMMA ClientEffect ==
  ASSUME ClientTypes, NEW c \in Clients, NEW next \in ClientCall \cup {Resting}, Client(c, next)
  PROVE  /\ ClientTypes'
         /\ clients'[c] = next
         /\ \A other \in Clients \ {c} : clients'[other] = clients[other]
<1>1. clients' = [clients EXCEPT ![c] = next]
  BY DEF Client
<1> QED
  BY <1>1 DEF ClientTypes

-----------------------------------------------------------------------------
(* Types *)

StartStep(caller) ==
  FindsServer(caller) \/ StartsServer(caller) \/ StartFails(caller)
    \/ TakesLease(caller) \/ Publishes(caller)

StopStep(caller) == Unpublishes(caller) \/ ReleasesLease(caller) \/ ShutsDown(caller)

SetStep(w) ==
  \/ \E wanted \in Preferences : Sets(w, wanted)
  \/ ReplacesRoots(w) \/ Saves(w) \/ SaveFails(w) \/ Restores(w) \/ Installs(w)

ClientStep(c) ==
  \/ \E lists \in BOOLEAN : Asks(c, lists)
  \/ Reads(c) \/ Probes(c) \/ Unlocks(c) \/ UsesAnswer(c)

LEMMA StartTypes ==
  ASSUME Apart, Types, NEW caller \in Callers, StartStep(caller)
  PROVE  Types'
<1>1. /\ calls[caller].pc \in {"lock", "lease", "publish"}
      /\ caller \in Windows \/ caller = "launch"
  <2>1. calls[caller].pc \in {"lock", "lease", "publish"}
    BY DEF StartStep, FindsServer, StartsServer, StartFails, TakesLease, Publishes, At
  <2>2. caller # "exit"
    BY <2>1, PlaceOfCaller DEF Types
  <2> QED
    BY <2>1, <2>2 DEF Callers
<1>2. \E p \in {Served(caller), Unserved(caller), "lease", "publish"} : Goes(caller, p)
  BY DEF StartStep, FindsServer, StartsServer, StartFails, TakesLease, Publishes
<1>3. CallTypes'
  <2>1. PICK p \in {Served(caller), Unserved(caller), "lease", "publish"} : Goes(caller, p)
    BY <1>2
  <2>2. /\ caller \in Windows => p \in Pcs
        /\ caller = "launch" => p \in LaunchPcs
        /\ caller # "exit"
    BY <1>1, <2>1 DEF Served, Unserved, Pcs, LaunchPcs, Apart
  <2> QED
    BY <1>1, <2>1, <2>2, GoesOn DEF Types
<1>4. StateTypes' /\ ClientTypes'
  <2>1. CASE FindsServer(caller)
    BY <2>1 DEF FindsServer, preferences, files, Types, StateTypes, ClientTypes
  <2>2. CASE StartsServer(caller)
    <3>1. /\ started' = started + 1 /\ servers' = servers \cup {started + 1} /\ holder' = caller
          /\ clients' = [c \in Clients |->
               IF clients[c].pc = "idle" THEN clients[c]
               ELSE [clients[c] EXCEPT !.ran = @ \cup {started + 1}]]
          /\ UNCHANGED <<alive, current, saved, roots, misreported>>
          /\ UNCHANGED <<runtime, record, lease, overlapped, unserved>>
      BY <2>2 DEF StartsServer, preferences, files
    <3>2. StateTypes'
      BY <3>1 DEF Types, StateTypes
    <3>3. started + 1 \in Nat
      BY DEF Types, StateTypes
    <3>4. ASSUME NEW c \in Clients PROVE clients'[c] = Resting \/ clients'[c] \in ClientCall
      <4>1. CASE clients[c] = Resting
        BY <3>1, <4>1 DEF Resting
      <4>2. CASE clients[c] \in ClientCall
        <5>1. [clients[c] EXCEPT !.ran = clients[c].ran \cup {started + 1}] \in ClientCall
          BY <3>3, <4>2 DEF ClientCall
        <5> QED
          BY <3>1, <4>2, <5>1
      <4> QED
        BY <4>1, <4>2 DEF Types, ClientTypes
    <3>5. ClientTypes'
      BY <3>1, <3>4 DEF ClientTypes
    <3> QED
      BY <3>2, <3>5
  <2>3. CASE StartFails(caller)
    BY <2>3 DEF StartFails, preferences, Types, StateTypes, ClientTypes
  <2>4. CASE TakesLease(caller)
    BY <2>4 DEF TakesLease, preferences, Types, StateTypes, ClientTypes
  <2>5. CASE Publishes(caller)
    BY <2>5 DEF Publishes, preferences, Types, StateTypes, ClientTypes
  <2> QED
    BY <2>1, <2>2, <2>3, <2>4, <2>5 DEF StartStep
<1> QED
  BY <1>3, <1>4 DEF Types

LEMMA StopTypes ==
  ASSUME Apart, Types, NEW caller \in Callers, StopStep(caller)
  PROVE  Types'
<1>1. StateTypes' /\ ClientTypes'
  <2>1. CASE Unpublishes(caller)
    BY <2>1 DEF Unpublishes, preferences, Types, StateTypes, ClientTypes
  <2>2. CASE ReleasesLease(caller)
    BY <2>2 DEF ReleasesLease, preferences, Types, StateTypes, ClientTypes
  <2>3. CASE ShutsDown(caller)
    BY <2>3 DEF ShutsDown, preferences, files, Types, StateTypes, ClientTypes
  <2> QED
    BY <2>1, <2>2, <2>3 DEF StopStep
<1>2. CallTypes'
  <2>1. CASE UNCHANGED calls
    BY <2>1 DEF Types, CallTypes
  <2>2. CASE calls' = [other \in Callers |-> Resting]
    BY <2>2, AllRest
  <2>3. CASE ShutsDown(caller) /\ caller # "exit"
    <3>1. PICK p \in {"restore", "idle"} : p = IF calls[caller].pc = "undo" THEN "restore" ELSE "idle"
      OBVIOUS
    <3>2. Goes(caller, p)
      BY <2>3, <3>1 DEF ShutsDown, Goes
    <3>3. calls[caller].pc \in {"stop", "undo"}
      BY <2>3 DEF ShutsDown, Stopping
    <3>4. caller \in Windows
      BY <2>3, <3>3, PlaceOfCaller DEF Callers, Types, LaunchPcs
    <3>5. caller # "launch" /\ p \in Pcs
      BY <3>4 DEF Apart, Pcs
    <3> QED
      BY <2>3, <3>2, <3>3, <3>4, <3>5, GoesOn DEF Types
  <2> QED
    BY <2>1, <2>2, <2>3 DEF StopStep, Unpublishes, ReleasesLease, ShutsDown
<1> QED
  BY <1>1, <1>2 DEF Types

LEMMA SetTypes ==
  ASSUME Apart, Types, NEW w \in Windows, SetStep(w)
  PROVE  Types'
<1>0. w \in Callers /\ w # "launch" /\ w # "exit"
  BY DEF Callers, Apart
<1>1. CASE \E wanted \in Preferences : Sets(w, wanted)
  <2>1. PICK wanted \in Preferences : Sets(w, wanted)
    BY <1>1
  <2>2. PICK call : call = [pc |-> IF wanted.enabled THEN "roots" ELSE "persist", wanted |-> wanted,
                            previous |-> current, previousRoots |-> roots]
    OBVIOUS
  <2>3. call \in SetCall
    BY <2>2 DEF SetCall, Pcs, Types, StateTypes
  <2>4. calls' = [calls EXCEPT ![w] = call]
    BY <2>1, <2>2 DEF Sets
  <2>5. CallTypes'
    BY <1>0, <2>3, <2>4 DEF Types, CallTypes, Callers
  <2>6. StateTypes' /\ ClientTypes'
    BY <2>1 DEF Sets, preferences, files, Types, StateTypes, ClientTypes
  <2> QED
    BY <2>5, <2>6 DEF Types
<1>2. CASE Restores(w)
  <2>1. calls[w] \in SetCall
    BY <1>0, <1>2, PlaceOfCaller DEF Restores, At, Types
  <2>2. StateTypes' /\ ClientTypes'
    BY <1>2, <2>1 DEF Restores, SetCall, files, Types, StateTypes, ClientTypes
  <2>3. CallTypes'
    BY <1>0, <1>2 DEF Restores, Types, CallTypes, Callers
  <2> QED
    BY <2>2, <2>3 DEF Types
<1>3. CASE ReplacesRoots(w) \/ Saves(w) \/ SaveFails(w) \/ Installs(w)
  <2>1. /\ calls[w].pc # "idle"
        /\ \E p \in {"lock", "install", "idle", "stop", AfterFailedSave(w)} : Goes(w, p)
    BY <1>3 DEF ReplacesRoots, Saves, SaveFails, Installs, At
  <2>2. CallTypes'
    <3>1. PICK p \in {"lock", "install", "idle", "stop", AfterFailedSave(w)} : Goes(w, p)
      BY <2>1
    <3>2. p \in Pcs
      BY <3>1 DEF AfterFailedSave, Pcs
    <3> QED
      BY <1>0, <2>1, <3>1, <3>2, GoesOn DEF Types
  <2>3. calls[w] \in SetCall
    BY <1>0, <2>1, PlaceOfCaller DEF Types
  <2>4. calls[w].wanted \in Preferences /\ calls[w].wanted.roots \in Roots
    BY <2>3 DEF SetCall, Preferences
  <2>5. StateTypes' /\ ClientTypes'
    <3>1. /\ current' \in {current, calls[w].wanted} /\ saved' \in {saved, calls[w].wanted}
          /\ roots' \in {roots, calls[w].wanted.roots} /\ misreported' \in {misreported, TRUE, FALSE}
          /\ UNCHANGED <<alive, servers, runtime, holder, record, lease, clients, started, overlapped, unserved>>
      BY <1>3 DEF ReplacesRoots, Saves, SaveFails, Installs, preferences, files
    <3>2. misreported' \in BOOLEAN
      BY <3>1 DEF Types, StateTypes
    <3>3. ClientTypes'
      BY <3>1 DEF Types, ClientTypes
    <3> QED
      BY <2>4, <3>1, <3>2, <3>3 DEF Types, StateTypes
  <2> QED
    BY <2>2, <2>5 DEF Types
<1> QED
  BY <1>1, <1>2, <1>3 DEF SetStep

LEMMA EndTypes ==
  ASSUME Apart, Types, Exit \/ Crash
  PROVE  Types'
<1>1. CASE Exit
  <2>1. Goes("exit", "stop") /\ "exit" \in Callers /\ "exit" \notin Windows
    BY <1>1 DEF Exit, Callers, Apart
  <2>2. CallTypes'
    BY <2>1, GoesOn DEF Types
  <2> QED
    BY <1>1, <2>2 DEF Exit, preferences, files, Types, StateTypes, ClientTypes
<1>2. CASE Crash
  <2>1. CallTypes'
    BY <1>2, AllRest DEF Crash
  <2> QED
    BY <1>2, <2>1 DEF Crash, preferences, Types, StateTypes, ClientTypes
<1> QED
  BY <1>1, <1>2

LEMMA ClientTypesKept ==
  ASSUME Apart, Types, NEW c \in Clients, ClientStep(c)
  PROVE  Types'
<1>1. clients[c] = Resting \/ clients[c] \in ClientCall
  BY DEF Types, ClientTypes
<1>2. clients[c].pc # "idle" => clients[c] \in ClientCall
  BY <1>1 DEF Resting
<1>3. \E next \in ClientCall \cup {Resting} : Client(c, next)
  <2>1. ASSUME NEW lists \in BOOLEAN, Asks(c, lists)
        PROVE  \E next \in ClientCall \cup {Resting} : Client(c, next)
    <3>1. PICK next : next = [pc |-> IF lists THEN "read" ELSE "probe", lists |-> lists, token |-> None,
                              ran |-> servers, disturbed |-> FALSE]
      OBVIOUS
    <3>2. next \in ClientCall
      BY <3>1 DEF ClientCall, Types, StateTypes
    <3> QED
      BY <2>1, <3>1, <3>2 DEF Asks
  <2>2. CASE Reads(c)
    <3>1. clients[c] \in ClientCall
      BY <1>2, <2>2 DEF Reads
    <3>2. \A p \in {"probe", "answered"} :
            [clients[c] EXCEPT !.token = record, !.pc = p] \in ClientCall
      BY <3>1 DEF ClientCall, Types, StateTypes
    <3> QED
      BY <2>2, <3>1, <3>2 DEF Reads
  <2>3. CASE Probes(c)
    <3>1. clients[c] \in ClientCall
      BY <1>2, <2>3 DEF Probes
    <3>2. \A p \in {"read", "answered"}, d \in BOOLEAN :
            [clients[c] EXCEPT !.disturbed = d, !.pc = p] \in ClientCall
      BY <3>1 DEF ClientCall
    <3>3. [clients[c] EXCEPT !.pc = "unlock"] \in ClientCall
      BY <3>1 DEF ClientCall
    <3>4. PICK p \in {"read", "answered"} : p = IF clients[c].lists THEN "answered" ELSE "read"
      OBVIOUS
    <3>5. CASE LeaseIsActive
      <4> DEFINE d == lease \in Clients
      <4>1. d \in BOOLEAN
        OBVIOUS
      <4>2. Client(c, [clients[c] EXCEPT !.disturbed = d, !.pc = p])
        BY <2>3, <3>4, <3>5 DEF Probes
      <4> HIDE DEF d
      <4> QED
        BY <3>2, <4>1, <4>2
    <3>6. CASE ~LeaseIsActive
      BY <2>3, <3>3, <3>6 DEF Probes
    <3> QED
      BY <3>5, <3>6
  <2>4. CASE Unlocks(c) \/ UsesAnswer(c)
    BY <2>4 DEF Unlocks, UsesAnswer
  <2> QED
    BY <2>1, <2>2, <2>3, <2>4 DEF ClientStep
<1>4. /\ lease' \in {lease, c, None}
      /\ UNCHANGED <<alive, preferences, servers, runtime, holder, calls, record, started, sets,
                     overlapped, unserved>>
  <2>1. lease' \in {lease, c, None}
    BY DEF ClientStep, Asks, Reads, Probes, Unlocks, UsesAnswer
  <2> QED
    BY <1>3, <2>1 DEF Client
<1>5. ClientTypes'
  BY <1>3, ClientEffect DEF Types
<1> QED
  BY <1>4, <1>5 DEF Types, StateTypes, CallTypes, preferences

-----------------------------------------------------------------------------
(* The server, its record and its lease *)

Only(server) == IF server = None THEN {} ELSE {server}

Starting(caller) == calls[caller].pc \in {"lease", "publish"}

\* Who starts or stops a server has the lock.
LockIsHeld ==
  /\ \A caller \in Callers : Starting(caller) => holder = caller
  /\ holder # None => Starting(holder) \/ Stopping(holder)

\* What runs is the server that is being started, or that of the runtime. It
\* has its record and its lease whenever nobody is starting or stopping it.
Serving ==
  /\ servers = IF holder # None /\ Starting(holder) THEN {started} ELSE Only(runtime)
  /\ holder # None /\ Starting(holder) => runtime = None
  /\ record = IF holder # None THEN None ELSE runtime
  /\ lease = "app" => runtime # None \/ (holder # None /\ At(holder, "publish"))
  /\ runtime # None /\ holder = None => lease = "app"
  /\ holder # None /\ At(holder, "publish") => lease = "app"

\* Nothing runs once the process has ended; a record may be left.
Ended ==
  /\ servers = {} /\ runtime = None /\ holder = None
  /\ lease # "app"
  /\ \A caller \in Callers : At(caller, "idle")

Server == LockIsHeld /\ (alive => Serving) /\ (~alive => Ended)

-----------------------------------------------------------------------------

\* Who does something belongs to a process that runs.
LEMMA BusyIsAlive ==
  ASSUME Types, Server, NEW caller \in Callers, calls[caller].pc # "idle"
  PROVE  alive /\ Serving
BY DEF Types, StateTypes, Server, Ended, At

\* A step that has nothing to do with the server.
LEMMA SameServer ==
  ASSUME Apart, Types, Server,
         UNCHANGED <<alive, servers, runtime, holder, record, started>>,
         lease' = lease \/ (lease # "app" /\ lease' # "app"),
         \/ UNCHANGED calls
         \/ /\ alive
            /\ \A c \in Callers :
                 \/ calls'[c].pc = calls[c].pc
                 \/ /\ calls[c].pc \notin {"lease", "publish", "stop", "undo"}
                    /\ calls'[c].pc \notin {"lease", "publish"}
  PROVE  Server'
<1>1. holder # None => holder \in Callers
  BY DEF Types, StateTypes
<1>2. \A c \in Callers : /\ Starting(c)' <=> Starting(c)
                         /\ At(c, "publish")' <=> At(c, "publish")
                         /\ Stopping(c) => Stopping(c)'
                         /\ At(c, "idle") /\ ~alive => At(c, "idle")'
  BY DEF Starting, At, Stopping
<1>3. LockIsHeld'
  BY <1>1, <1>2 DEF Server, LockIsHeld
<1>4. (alive => Serving)'
  <2> SUFFICES ASSUME alive PROVE Serving'
    OBVIOUS
  <2>1. Serving
    BY DEF Server
  <2>2. lease' = "app" <=> lease = "app"
    OBVIOUS
  <2>3. holder # None => (Starting(holder)' <=> Starting(holder)) /\ (At(holder, "publish")' <=> At(holder, "publish"))
    BY <1>1, <1>2
  <2> QED
    BY <2>1, <2>2, <2>3 DEF Serving, Only, Starting, At
<1>5. (~alive => Ended)'
  BY <1>2 DEF Server, Ended
<1> QED
  BY <1>3, <1>4, <1>5 DEF Server

\* Nobody is starting a server while the lock is free.
LEMMA NobodyStarts ==
  ASSUME Apart, LockIsHeld, holder = None
  PROVE  \A c \in Callers : ~Starting(c)
BY DEF Apart, LockIsHeld

LEMMA StartServer ==
  ASSUME Apart, Types, Server, NEW caller \in Callers, StartStep(caller)
  PROVE  Server'
<1>1. /\ calls[caller].pc \in {"lock", "lease", "publish"}
      /\ Served(caller) \in {"idle", "persist"} /\ Unserved(caller) \in {"idle", "restore"}
  BY DEF StartStep, FindsServer, StartsServer, StartFails, TakesLease, Publishes, At, Served, Unserved
<1>2. alive /\ Serving /\ LockIsHeld /\ caller # None
  BY <1>1, BusyIsAlive DEF Server, Apart
<1>3. alive' = alive
  BY DEF StartStep, FindsServer, StartsServer, StartFails, TakesLease, Publishes
<1>4. CASE FindsServer(caller)
  <2>1. /\ Goes(caller, Served(caller)) /\ calls[caller].pc = "lock"
        /\ UNCHANGED <<alive, servers, runtime, holder, record, lease, started>>
    BY <1>4 DEF FindsServer, files, At
  <2>2. /\ \A other \in Callers \ {caller} : calls'[other] = calls[other]
        /\ calls'[caller].pc = Served(caller)
    BY <2>1, GoesEffect DEF Types
  <2> QED
    BY <1>1, <1>2, <2>1, <2>2, SameServer
<1>5. CASE StartsServer(caller)
  <2>1. /\ Goes(caller, "lease") /\ calls[caller].pc = "lock"
        /\ holder = None /\ runtime = None
        /\ started' = started + 1 /\ servers' = servers \cup {started'} /\ holder' = caller
        /\ UNCHANGED <<runtime, record, lease>>
    BY <1>5 DEF StartsServer, files, At
  <2>2. /\ \A other \in Callers \ {caller} : calls'[other] = calls[other]
        /\ calls'[caller].pc = "lease"
    BY <2>1, GoesEffect DEF Types
  <2>3. servers = {} /\ record = None /\ lease # "app"
    BY <1>2, <2>1 DEF Serving, Only
  <2>4. LockIsHeld'
    <3>1. \A c \in Callers : ~Starting(c)
      BY <1>2, <2>1, NobodyStarts
    <3>2. \A c \in Callers \ {caller} : ~Starting(c)'
      BY <2>2, <3>1 DEF Starting
    <3>3. Starting(caller)'
      BY <2>2 DEF Starting
    <3> QED
      BY <2>1, <3>2, <3>3 DEF LockIsHeld, Starting
  <2>5. Serving'
    BY <1>2, <2>1, <2>2, <2>3 DEF Serving, Starting, Only, At
  <2> QED
    BY <1>2, <1>3, <2>4, <2>5 DEF Server
<1>6. CASE StartFails(caller)
  <2>1. /\ Goes(caller, Unserved(caller))
        /\ \/ calls[caller].pc = "lock" /\ holder = None /\ runtime = None
           \/ calls[caller].pc \in {"lease", "publish"}
        /\ servers' = IF holder = caller THEN servers \ {started} ELSE servers
        /\ lease' = IF lease = "app" THEN None ELSE lease
        /\ holder' = None
        /\ UNCHANGED <<runtime, record, started>>
    BY <1>6 DEF StartFails, At
  <2>2. /\ \A other \in Callers \ {caller} : calls'[other] = calls[other]
        /\ calls'[caller].pc = Unserved(caller)
    BY <2>1, GoesEffect DEF Types
  <2>3. (holder = None /\ runtime = None) \/ (holder = caller /\ Starting(caller))
    BY <2>1, <1>2 DEF LockIsHeld, Starting
  <2>4. LockIsHeld'
    <3>1. \A c \in Callers \ {caller} : ~Starting(c)
      BY <1>2, <2>3, NobodyStarts DEF LockIsHeld
    <3>2. \A c \in Callers \ {caller} : ~Starting(c)'
      BY <2>2, <3>1 DEF Starting
    <3>3. ~Starting(caller)'
      BY <1>1, <2>2 DEF Starting
    <3>4. \A c \in Callers : ~Starting(c)'
      BY <3>2, <3>3
    <3>5. holder' = None
      BY <2>1
    <3> QED
      BY <3>4, <3>5 DEF LockIsHeld, Starting
  <2>5. runtime = None /\ record = None /\ servers' = {}
    <3>1. CASE holder = None /\ runtime = None
      BY <1>2, <2>1, <3>1 DEF Serving, Only
    <3>2. CASE holder = caller /\ Starting(caller)
      BY <1>2, <2>1, <3>2 DEF Serving
    <3> QED
      BY <2>3, <3>1, <3>2
  <2>6. lease' # "app"
    BY <2>1 DEF Apart
  <2>7. Serving'
    BY <1>1, <2>1, <2>5, <2>6 DEF Serving, Only
  <2> QED
    BY <1>2, <1>3, <2>4, <2>7 DEF Server
<1>7. CASE TakesLease(caller)
  <2>1. /\ Goes(caller, "publish") /\ calls[caller].pc = "lease"
        /\ lease' = "app"
        /\ UNCHANGED <<servers, runtime, holder, record, started>>
    BY <1>7 DEF TakesLease, At
  <2>2. /\ \A other \in Callers \ {caller} : calls'[other] = calls[other]
        /\ calls'[caller].pc = "publish"
    BY <2>1, GoesEffect DEF Types
  <2>3. holder = caller /\ Starting(caller)
    BY <1>2, <2>1 DEF LockIsHeld, Starting
  <2>4. LockIsHeld'
    BY <1>2, <2>1, <2>2, <2>3 DEF LockIsHeld, Starting
  <2>5. Serving'
    BY <1>2, <2>1, <2>2, <2>3 DEF Serving, Only, Starting, At
  <2> QED
    BY <1>2, <1>3, <2>4, <2>5 DEF Server
<1>8. CASE Publishes(caller)
  <2>1. /\ Goes(caller, Served(caller)) /\ calls[caller].pc = "publish"
        /\ record' = started /\ runtime' = started /\ holder' = None
        /\ UNCHANGED <<servers, lease, started>>
    BY <1>8 DEF Publishes, At
  <2>2. /\ \A other \in Callers \ {caller} : calls'[other] = calls[other]
        /\ calls'[caller].pc = Served(caller)
    BY <2>1, GoesEffect DEF Types
  <2>3. holder = caller /\ Starting(caller) /\ At(caller, "publish") /\ started # None
    BY <1>2, <2>1 DEF LockIsHeld, Starting, At, Types, StateTypes, Apart
  <2>4. LockIsHeld'
    BY <1>1, <1>2, <2>1, <2>2, <2>3 DEF LockIsHeld, Starting
  <2>5. Serving'
    BY <1>2, <2>1, <2>3 DEF Serving, Only
  <2> QED
    BY <1>2, <1>3, <2>4, <2>5 DEF Server
<1> QED
  BY <1>4, <1>5, <1>6, <1>7, <1>8 DEF StartStep

LEMMA StopServer ==
  ASSUME Apart, Types, Server, NEW caller \in Callers, StopStep(caller)
  PROVE  Server'
<1>1. calls[caller].pc \in {"stop", "undo"}
  BY DEF StopStep, Unpublishes, ReleasesLease, ShutsDown, Stopping
<1>2. alive /\ Serving /\ LockIsHeld /\ caller # None /\ ~Starting(caller) /\ Stopping(caller)
  BY <1>1, BusyIsAlive DEF Server, Apart, Starting, Stopping
<1>3. CASE Unpublishes(caller)
  <2>1. /\ holder = None /\ holder' = caller
        /\ record' = IF runtime # None THEN None ELSE record
        /\ UNCHANGED <<alive, servers, runtime, calls, lease, started>>
    BY <1>3 DEF Unpublishes
  <2>2. LockIsHeld'
    <3>1. \A c \in Callers : ~Starting(c)
      BY <1>2, <2>1, NobodyStarts
    <3>2. Stopping(caller)' /\ \A c \in Callers : ~Starting(c)'
      BY <1>2, <2>1, <3>1 DEF Starting, Stopping
    <3> QED
      BY <2>1, <3>2 DEF LockIsHeld, Stopping
  <2>3. Serving'
    BY <1>1, <1>2, <2>1 DEF Serving, Only, Starting, At
  <2> QED
    BY <1>2, <2>1, <2>2, <2>3 DEF Server
<1>4. CASE ReleasesLease(caller)
  <2>1. /\ holder = caller /\ runtime # None /\ lease' = None
        /\ UNCHANGED <<alive, servers, runtime, holder, calls, record, started>>
    BY <1>4 DEF ReleasesLease
  <2>2. LockIsHeld'
    BY <1>2, <2>1 DEF LockIsHeld, Starting, Stopping
  <2>3. Serving'
    BY <1>1, <1>2, <2>1 DEF Serving, Only, Starting, At, Apart
  <2> QED
    BY <1>2, <2>1, <2>2, <2>3 DEF Server
<1>5. CASE ShutsDown(caller)
  <2>1. /\ holder = caller /\ (runtime # None => lease # "app")
        /\ servers' = servers \ {runtime} /\ runtime' = None /\ holder' = None
        /\ alive' = (caller # "exit")
        /\ UNCHANGED <<record, lease, started>>
    BY <1>5 DEF ShutsDown, files
  <2>2. servers' = {} /\ record = None /\ lease # "app"
    BY <1>1, <1>2, <2>1 DEF Serving, Only, Starting, At
  <2>3. CASE caller = "exit"
    <3>1. \A other \in Callers : calls'[other].pc = "idle"
      BY <1>5, <2>3, AllRest DEF ShutsDown
    <3>2. LockIsHeld'
      BY <2>1, <3>1 DEF LockIsHeld, Starting
    <3>3. Ended'
      BY <2>1, <2>2, <3>1 DEF Ended, At
    <3> QED
      BY <2>1, <2>3, <3>2, <3>3 DEF Server
  <2>4. CASE caller # "exit"
    <3>1. PICK p \in {"restore", "idle"} : p = IF calls[caller].pc = "undo" THEN "restore" ELSE "idle"
      OBVIOUS
    <3>2. Goes(caller, p)
      BY <1>5, <2>4, <3>1 DEF ShutsDown, Goes
    <3>3. /\ \A other \in Callers \ {caller} : calls'[other] = calls[other]
          /\ calls'[caller].pc = p
      BY <3>2, GoesEffect DEF Types
    <3>4. LockIsHeld'
      BY <1>2, <2>1, <3>1, <3>3 DEF LockIsHeld, Starting
    <3>5. Serving'
      BY <2>1, <2>2 DEF Serving, Only
    <3> QED
      BY <2>1, <2>4, <3>4, <3>5 DEF Server
  <2> QED
    BY <2>3, <2>4
<1> QED
  BY <1>3, <1>4, <1>5 DEF StopStep

LEMMA SetServer ==
  ASSUME Apart, Types, Server, NEW w \in Windows, SetStep(w)
  PROVE  Server'
<1>0. w \in Callers
  BY DEF Callers
<1>1. UNCHANGED <<alive, servers, runtime, holder, record, lease, started>>
  BY DEF SetStep, Sets, ReplacesRoots, Saves, SaveFails, Restores, Installs, preferences, files
<1>2. alive
  <2>1. CASE \E wanted \in Preferences : Sets(w, wanted)
    BY <2>1 DEF Sets
  <2>2. CASE calls[w].pc # "idle"
    BY <1>0, <2>2, BusyIsAlive
  <2> QED
    BY <2>1, <2>2 DEF SetStep, ReplacesRoots, Saves, SaveFails, Restores, Installs, At
<1>3. calls[w].pc \in {"idle", "roots", "persist", "restore", "install"}
  BY DEF SetStep, Sets, ReplacesRoots, Saves, SaveFails, Restores, Installs, At
<1>4. /\ \A other \in Callers \ {w} : calls'[other] = calls[other]
      /\ calls'[w].pc \notin {"lease", "publish"}
  <2>1. CASE \E wanted \in Preferences : Sets(w, wanted)
    <3>1. PICK wanted \in Preferences : Sets(w, wanted)
      BY <2>1
    <3>2. calls' = [calls EXCEPT ![w] = [pc |-> IF wanted.enabled THEN "roots" ELSE "persist",
                      wanted |-> wanted, previous |-> current, previousRoots |-> roots]]
      BY <3>1 DEF Sets
    <3> QED
      BY <1>0, <3>2 DEF Types, CallTypes
  <2>2. CASE Restores(w)
    BY <1>0, <2>2 DEF Restores, Types, CallTypes, Resting
  <2>3. CASE ReplacesRoots(w) \/ Saves(w) \/ SaveFails(w) \/ Installs(w)
    <3>1. \E p \in {"lock", "install", "undo", "restore", "idle", "stop"} : Goes(w, p)
      BY <2>3 DEF ReplacesRoots, Saves, SaveFails, Installs, AfterFailedSave
    <3> QED
      BY <1>0, <3>1, GoesEffect DEF Types
  <2> QED
    BY <2>1, <2>2, <2>3 DEF SetStep
<1> QED
  BY <1>0, <1>1, <1>2, <1>3, <1>4, SameServer

LEMMA EndServer ==
  ASSUME Apart, Types, Server, Exit \/ Crash
  PROVE  Server'
<1>1. CASE Exit
  <2>1. /\ Goes("exit", "stop") /\ "exit" \in Callers /\ calls["exit"].pc = "idle" /\ alive
        /\ UNCHANGED <<alive, servers, runtime, holder, record, lease, started>>
    BY <1>1 DEF Exit, Callers, At, files
  <2>2. /\ \A other \in Callers \ {"exit"} : calls'[other] = calls[other]
        /\ calls'["exit"].pc = "stop"
    BY <2>1, GoesEffect DEF Types
  <2> QED
    BY <2>1, <2>2, SameServer
<1>2. CASE Crash
  <2>1. \A other \in Callers : calls'[other].pc = "idle"
    BY <1>2, AllRest DEF Crash
  <2>2. /\ alive' = FALSE /\ servers' = {} /\ runtime' = None /\ holder' = None /\ lease' # "app"
    BY <1>2 DEF Crash, Apart
  <2>3. LockIsHeld'
    BY <2>1, <2>2 DEF LockIsHeld, Starting
  <2>4. Ended'
    BY <2>1, <2>2 DEF Ended, At
  <2> QED
    BY <2>2, <2>3, <2>4 DEF Server
<1> QED
  BY <1>1, <1>2

\* A client that asks may take the lease for a moment, never that of a server.
LEMMA ClientServer ==
  ASSUME Apart, Types, Server, NEW c \in Clients, ClientStep(c),
         clients[c].pc = "unlock" => lease = c
  PROVE  Server'
<1>1. UNCHANGED <<alive, servers, runtime, holder, calls, record, started>>
  BY DEF ClientStep, Asks, Reads, Probes, Unlocks, UsesAnswer, Client
<1>2. lease' = lease \/ (lease # "app" /\ lease' # "app")
  BY DEF ClientStep, Asks, Reads, Probes, Unlocks, UsesAnswer, Apart
<1> QED
  BY <1>1, <1>2, SameServer

-----------------------------------------------------------------------------
(* What the clients are told *)

\* What runs has run since a client asked. Whoever resolved the lease of a
\* server reads a record of one of those, and whoever lists the instances has
\* read one of those as long as the process runs. No other process is told of.
Knows(c) ==
  /\ clients[c].pc = "unlock" => lease = c
  /\ clients[c].pc # "idle" => servers \subseteq clients[c].ran
  /\ clients[c].pc = "read" /\ ~clients[c].lists /\ ~clients[c].disturbed
       => record = None \/ record \in clients[c].ran
  /\ clients[c].pc = "probe" => ~clients[c].disturbed
  /\ clients[c].pc = "read" /\ clients[c].lists => ~clients[c].disturbed
  /\ clients[c].pc = "probe" /\ clients[c].lists /\ alive => clients[c].token \in clients[c].ran
  /\ clients[c].pc = "answered" /\ ~clients[c].disturbed => clients[c].token \in clients[c].ran

ClientsKnow == \A c \in Clients : Knows(c)

\* A step of the program that gives up servers, removes the record or writes
\* that of a server that runs, and leaves the lease of a client alone.
LEMMA KnowStill ==
  ASSUME Types, ClientsKnow, UNCHANGED clients,
         servers' \subseteq servers,
         record' \in {record, None} \cup servers,
         lease \in Clients => lease' = lease,
         alive' => alive
  PROVE  ClientsKnow'
<1> SUFFICES ASSUME NEW c \in Clients PROVE Knows(c)'
  BY DEF ClientsKnow
<1>1. Knows(c)
  BY DEF ClientsKnow
<1> QED
  BY <1>1 DEF Knows

LEMMA StartKnow ==
  ASSUME Apart, Types, Server, ClientsKnow, NEW caller \in Callers, StartStep(caller)
  PROVE  ClientsKnow'
<1>1. CASE FindsServer(caller)
  BY <1>1, KnowStill DEF FindsServer, files
<1>2. CASE StartsServer(caller)
  <2>1. /\ servers' = servers \cup {started + 1}
        /\ clients' = [c \in Clients |->
             IF clients[c].pc = "idle" THEN clients[c]
             ELSE [clients[c] EXCEPT !.ran = @ \cup {started + 1}]]
        /\ UNCHANGED <<alive, record, lease>>
    BY <1>2 DEF StartsServer, files
  <2> SUFFICES ASSUME NEW c \in Clients PROVE Knows(c)'
    BY DEF ClientsKnow
  <2>2. Knows(c)
    BY DEF ClientsKnow
  <2>3. CASE clients[c].pc = "idle"
    BY <2>1, <2>2, <2>3 DEF Knows
  <2>4. CASE clients[c].pc # "idle"
    <3>1. clients[c] \in ClientCall
      BY <2>4 DEF Types, ClientTypes, Resting
    <3>2. /\ clients'[c].pc = clients[c].pc
          /\ clients'[c].lists = clients[c].lists
          /\ clients'[c].token = clients[c].token
          /\ clients'[c].disturbed = clients[c].disturbed
          /\ clients'[c].ran = clients[c].ran \cup {started + 1}
      BY <2>1, <2>4, <3>1 DEF ClientCall
    <3> QED
      BY <2>1, <2>2, <3>2 DEF Knows
  <2> QED
    BY <2>3, <2>4
<1>3. CASE StartFails(caller)
  BY <1>3, KnowStill DEF StartFails, Apart
<1>4. CASE TakesLease(caller)
  BY <1>4, KnowStill DEF TakesLease, Apart
<1>5. CASE Publishes(caller)
  <2>1. calls[caller].pc = "publish"
    BY <1>5 DEF Publishes, At
  <2>2. Serving /\ holder = caller /\ Starting(caller) /\ caller # None
    BY <2>1, BusyIsAlive DEF Server, LockIsHeld, Starting, Apart
  <2>3. started \in servers
    BY <2>2 DEF Serving
  <2> QED
    BY <1>5, <2>3, KnowStill DEF Publishes
<1> QED
  BY <1>1, <1>2, <1>3, <1>4, <1>5 DEF StartStep

LEMMA StopKnow ==
  ASSUME Apart, Types, Server, ClientsKnow, NEW caller \in Callers, StopStep(caller)
  PROVE  ClientsKnow'
<1>1. UNCHANGED clients /\ servers' \subseteq servers /\ record' \in {record, None}
  BY DEF StopStep, Unpublishes, ReleasesLease, ShutsDown, files
<1>2. lease \in Clients => lease' = lease
  BY DEF StopStep, Unpublishes, ReleasesLease, ShutsDown, files, Apart
<1>3. calls[caller].pc # "idle"
  BY DEF StopStep, Unpublishes, ReleasesLease, ShutsDown, Stopping
<1> QED
  BY <1>1, <1>2, <1>3, BusyIsAlive, KnowStill

LEMMA SetKnow ==
  ASSUME Types, ClientsKnow, NEW w \in Windows, SetStep(w)
  PROVE  ClientsKnow'
<1>1. UNCHANGED <<alive, servers, record, lease, clients>>
  BY DEF SetStep, Sets, ReplacesRoots, Saves, SaveFails, Restores, Installs, files
<1> QED
  BY <1>1, KnowStill

LEMMA EndKnow ==
  ASSUME Apart, Types, ClientsKnow, Exit \/ Crash
  PROVE  ClientsKnow'
BY KnowStill DEF Exit, Crash, files, Apart

\* As long as it has a lease, a record is that of a server that runs.
LEMMA RecordRuns ==
  ASSUME Apart, Types, Server, alive, record # None
  PROVE  record \in servers
<1>1. Serving
  BY DEF Server
<1>2. holder = None /\ record = runtime
  BY <1>1 DEF Serving
<1> QED
  BY <1>1, <1>2 DEF Serving, Only

LEMMA LeaseRuns ==
  ASSUME Types, Server, lease \notin {"missing", None}, lease \notin Clients
  PROVE  alive
BY DEF Types, StateTypes, Server, Ended

LEMMA ClientKnows ==
  ASSUME Apart, Types, Server, ClientsKnow, NEW c \in Clients, ClientStep(c)
  PROVE  ClientsKnow'
<1>1. Knows(c)
  BY DEF ClientsKnow
<1>2. clients[c] = Resting \/ clients[c] \in ClientCall
  BY DEF Types, ClientTypes
<1>3. clients[c].pc # "idle" => clients[c] \in ClientCall
  BY <1>2 DEF Resting
<1>4. UNCHANGED <<alive, servers, record>>
  BY DEF ClientStep, Asks, Reads, Probes, Unlocks, UsesAnswer, Client
<1>5. \A other \in Clients \ {c} : clients'[other] = clients[other]
  <2>1. \E next : Client(c, next)
    BY DEF ClientStep, Asks, Reads, Probes, Unlocks, UsesAnswer
  <2> QED
    BY <2>1 DEF Client, Types, ClientTypes
<1>6. ASSUME NEW other \in Clients \ {c} PROVE Knows(other)'
  <2>1. Knows(other)
    BY DEF ClientsKnow
  <2>2. lease = other => lease' = other
    BY <1>1 DEF ClientStep, Asks, Reads, Probes, LeaseIsActive, Unlocks, UsesAnswer, Knows, Apart
  <2>3. clients'[other] = clients[other]
    BY <1>5
  <2> QED
    BY <1>4, <2>1, <2>2, <2>3 DEF Knows
<1>7. Knows(c)'
  <2>1. ASSUME NEW lists \in BOOLEAN, Asks(c, lists) PROVE Knows(c)'
    <3>1. clients'[c] = [pc |-> IF lists THEN "read" ELSE "probe", lists |-> lists, token |-> None,
                         ran |-> servers, disturbed |-> FALSE]
      BY <2>1 DEF Asks, Client, Types, ClientTypes
    <3>2. /\ clients'[c].pc = IF lists THEN "read" ELSE "probe"
          /\ clients'[c].lists = lists /\ clients'[c].ran = servers
          /\ clients'[c].disturbed = FALSE
      BY <3>1
    <3> QED
      BY <1>4, <3>2 DEF Knows
  <2>2. CASE Reads(c)
    <3>1. clients[c].pc = "read" /\ clients[c] \in ClientCall
      BY <1>3, <2>2 DEF Reads
    <3>2. CASE record = None
      BY <2>2, <3>2 DEF Reads, Client, Knows, Resting, Types, ClientTypes
    <3>3. CASE record # None
      <4>1. clients'[c] = [clients[c] EXCEPT !.token = record,
                             !.pc = IF clients[c].lists THEN "probe" ELSE "answered"]
        BY <2>2, <3>3 DEF Reads, Client, Types, ClientTypes
      <4>2. /\ clients'[c].pc = IF clients[c].lists THEN "probe" ELSE "answered"
            /\ clients'[c].token = record
            /\ clients'[c].lists = clients[c].lists
            /\ clients'[c].ran = clients[c].ran
            /\ clients'[c].disturbed = clients[c].disturbed
        BY <3>1, <4>1 DEF ClientCall
      <4>3. alive => record \in clients[c].ran
        BY <1>1, <3>1, <3>3, RecordRuns DEF Knows
      <4> QED
        BY <1>1, <1>4, <3>1, <3>3, <4>2, <4>3 DEF Knows
    <3> QED
      BY <3>2, <3>3
  <2>3. CASE Probes(c)
    <3>1. clients[c].pc = "probe" /\ clients[c] \in ClientCall
      BY <1>3, <2>3 DEF Probes
    <3>2. CASE LeaseIsActive
      <4>0. PICK d \in BOOLEAN : d <=> lease \in Clients
        OBVIOUS
      <4>1. clients'[c] = [clients[c] EXCEPT !.disturbed = lease \in Clients,
                             !.pc = IF clients[c].lists THEN "answered" ELSE "read"]
        BY <2>3, <3>2 DEF Probes, Client, Types, ClientTypes
      <4>2. /\ clients'[c].pc = IF clients[c].lists THEN "answered" ELSE "read"
            /\ clients'[c].token = clients[c].token
            /\ clients'[c].lists = clients[c].lists
            /\ clients'[c].ran = clients[c].ran
            /\ clients'[c].disturbed = (lease \in Clients)
        BY <3>1, <4>1 DEF ClientCall
      <4>3. ~clients'[c].disturbed => alive
        BY <3>2, <4>2, LeaseRuns DEF LeaseIsActive
      <4>4. alive => record = None \/ record \in clients[c].ran
        BY <1>1, <3>1, RecordRuns DEF Knows
      <4> QED
        BY <1>1, <1>4, <3>1, <4>2, <4>3, <4>4 DEF Knows
    <3>3. CASE ~LeaseIsActive /\ lease = None
      <4>1. clients'[c] = [clients[c] EXCEPT !.pc = "unlock"] /\ lease' = c
        BY <2>3, <3>3 DEF Probes, Client, Types, ClientTypes
      <4>2. clients'[c].pc = "unlock" /\ clients'[c].ran = clients[c].ran
        BY <3>1, <4>1 DEF ClientCall
      <4> QED
        BY <1>1, <1>4, <3>1, <4>1, <4>2 DEF Knows
    <3>4. CASE ~LeaseIsActive /\ lease # None
      BY <2>3, <3>4 DEF Probes, Client, Knows, Resting, Types, ClientTypes
    <3> QED
      BY <3>2, <3>3, <3>4
  <2>4. CASE Unlocks(c) \/ UsesAnswer(c)
    BY <2>4 DEF Unlocks, UsesAnswer, Client, Knows, Resting, Types, ClientTypes
  <2> QED
    BY <2>1, <2>2, <2>3, <2>4 DEF ClientStep
<1> QED
  BY <1>6, <1>7 DEF ClientsKnow

-----------------------------------------------------------------------------
(* What a command has done so far *)

\* The server is the one that is wanted, or it failed to start with the program.
Wanted ==
  /\ runtime # None => current.enabled
  /\ current.enabled => runtime # None \/ unserved

\* What is saved is what is set, or was saved by a call that reported failure.
Kept == saved = current \/ misreported

Settled == Kept /\ roots = current.roots /\ Wanted

\* A command knows what it found; what it has changed so far depends on where it is.
Setting(w) ==
  LET call == calls[w]
      pc == calls[w].pc
      on == calls[w].wanted.enabled
  IN /\ pc = "stop" \/ (call.previous = current /\ call.previousRoots = current.roots)
     /\ IF pc = "install" THEN saved = call.wanted ELSE Kept
     /\ pc \in {"roots", "lock", "lease", "publish", "undo"} => on
     /\ pc \in {"roots", "stop"} => roots = current.roots
     /\ pc \in {"lock", "lease", "publish"} => roots = call.wanted.roots
     /\ pc \in {"persist", "install"} => roots = IF on THEN call.wanted.roots ELSE current.roots
     /\ pc \in {"persist", "install"} /\ on => runtime # None
     /\ pc \in {"persist", "install"} /\ ~on => Wanted
     /\ pc \in {"persist", "install"} => (current.enabled => runtime # None \/ unserved)
     /\ pc \in {"roots", "lock", "lease", "publish", "restore"} => Wanted
     /\ pc \in {"undo", "stop"} => ~current.enabled

Launching == Kept /\ roots = current.roots /\ current.enabled

OneAtATime ==
  /\ \A w, v \in Windows : w # v => At(w, "idle") \/ At(v, "idle")
  /\ \A w \in Windows : At("launch", "idle") \/ At(w, "idle")

Agreement ==
  /\ OneAtATime
  /\ (\A caller \in Callers : At(caller, "idle")) => Settled
  /\ ~At("launch", "idle") => Launching
  /\ \A w \in Windows : ~At(w, "idle") => Setting(w)

\* An exit ends the process whatever has been set.
Undisturbed == alive /\ ~overlapped /\ At("exit", "idle")

PreferencesAgree == Undisturbed => Agreement

LEMMA OthersRest ==
  ASSUME Apart, Agreement, At("exit", "idle"), NEW caller \in Windows \cup {"launch"},
         ~At(caller, "idle")
  PROVE  \A other \in Callers \ {caller} : At(other, "idle")
BY DEF Apart, Agreement, OneAtATime, Callers

\* One goes on while the others rest.
LEMMA AgreeAgain ==
  ASSUME Apart, NEW caller \in Windows \cup {"launch"},
         \A other \in Callers \ {caller} : At(other, "idle")',
         At(caller, "idle")' => Settled',
         caller \in Windows /\ ~At(caller, "idle")' => Setting(caller)',
         caller = "launch" /\ ~At(caller, "idle")' => Launching'
  PROVE  PreferencesAgree'
<1>1. caller \in Windows => caller # "launch"
  BY DEF Apart
<1>2. caller \in Callers /\ "launch" \in Callers /\ Windows \subseteq Callers
  BY DEF Callers
<1>3. OneAtATime'
  <2>1. \A w \in Windows : w # "launch"
    BY DEF Apart
  <2> QED
    BY <1>2, <2>1 DEF OneAtATime, At
<1>4. (\A c \in Callers : At(c, "idle"))' => Settled'
  BY <1>2 DEF At
<1>5. (~At("launch", "idle"))' => Launching'
  BY <1>1, <1>2 DEF At
<1>6. ASSUME NEW w \in Windows, ~At(w, "idle")' PROVE Setting(w)'
  BY <1>1, <1>2, <1>6 DEF At
<1> QED
  BY <1>3, <1>4, <1>5, <1>6 DEF PreferencesAgree, Agreement

\* What all start and stop steps leave alone.
LEMMA AgreeTypes ==
  ASSUME Types, NEW w \in Windows, ~At(w, "idle")
  PROVE  calls[w] \in SetCall
<1>1. w \in Callers
  BY DEF Callers
<1> QED
  BY <1>1, PlaceOfCaller DEF Types, At

\* One that was under way went on.
LEMMA WentOn ==
  ASSUME Apart, Types, PreferencesAgree, NEW caller \in Windows \cup {"launch"},
         ~At(caller, "idle"), NEW p, Goes(caller, p),
         Undisturbed' => Undisturbed,
         Undisturbed' /\ Agreement =>
           /\ p = "idle" => Settled'
           /\ caller \in Windows /\ p # "idle" => Setting(caller)'
           /\ caller = "launch" /\ p # "idle" => Launching'
  PROVE  PreferencesAgree'
<1> SUFFICES ASSUME Undisturbed' PROVE Agreement'
  BY DEF PreferencesAgree
<1>1. Agreement /\ At("exit", "idle")
  BY DEF PreferencesAgree, Undisturbed
<1>2. caller \in Callers
  BY DEF Callers
<1>3. /\ \A other \in Callers \ {caller} : calls'[other] = calls[other]
      /\ calls'[caller].pc = p
  BY <1>2, GoesEffect DEF Types
<1>4. \A other \in Callers \ {caller} : At(other, "idle")'
  BY <1>1, <1>3, OthersRest DEF At
<1>5. At(caller, "idle")' <=> p = "idle"
  BY <1>3 DEF At
<1>6. PreferencesAgree'
  BY <1>1, <1>4, <1>5, AgreeAgain
<1> QED
  BY <1>6 DEF PreferencesAgree

LEMMA StartAgree ==
  ASSUME Apart, Types, PreferencesAgree, NEW caller \in Callers, StartStep(caller)
  PROVE  PreferencesAgree'
<1>1. /\ calls[caller].pc \in {"lock", "lease", "publish"}
      /\ caller \in Windows \cup {"launch"}
  <2>1. calls[caller].pc \in {"lock", "lease", "publish"}
    BY DEF StartStep, FindsServer, StartsServer, StartFails, TakesLease, Publishes, At
  <2>2. caller # "exit"
    BY <2>1, PlaceOfCaller DEF Types
  <2> QED
    BY <2>1, <2>2 DEF Callers
<1>2. UNCHANGED <<alive, overlapped, current, saved, roots, misreported>>
  BY DEF StartStep, FindsServer, StartsServer, StartFails, TakesLease, Publishes, preferences
<1>3. PICK p \in {Served(caller), Unserved(caller), "lease", "publish"} :
        /\ Goes(caller, p)
        /\ p = Served(caller) /\ p # Unserved(caller) => runtime' # None
        /\ p # Served(caller) => runtime' = runtime /\ (unserved => unserved')
        /\ p = "idle" => runtime' # None \/ (unserved' /\ runtime' = runtime)
  <2>1. started # None
    BY DEF Types, StateTypes, Apart
  <2>2. caller # "launch" => Served(caller) = "persist" /\ Unserved(caller) = "restore"
    BY DEF Served, Unserved
  <2>3. caller = "launch" => Served(caller) = "idle" /\ Unserved(caller) = "idle"
    BY DEF Served, Unserved
  <2>4. CASE FindsServer(caller)
    BY <2>2, <2>3, <2>4 DEF FindsServer
  <2>5. CASE StartsServer(caller)
    BY <2>2, <2>3, <2>5 DEF StartsServer
  <2>6. CASE StartFails(caller)
    BY <2>2, <2>3, <2>6 DEF StartFails
  <2>7. CASE TakesLease(caller)
    BY <2>2, <2>3, <2>7 DEF TakesLease
  <2>8. CASE Publishes(caller)
    BY <2>1, <2>2, <2>3, <2>8 DEF Publishes
  <2> QED
    BY <2>4, <2>5, <2>6, <2>7, <2>8 DEF StartStep
<1>4. calls'[caller].pc = p /\ \A other \in Callers \ {caller} : calls'[other] = calls[other]
  BY <1>3, GoesEffect DEF Types
<1>5. Undisturbed' => Undisturbed
  BY <1>1, <1>2, <1>4, PlaceOfCaller DEF Undisturbed, At, Types, Apart, Callers
<1>6. ASSUME Undisturbed', Agreement, caller = "launch"
      PROVE  IF p = "idle" THEN Settled' ELSE Launching'
  <2>1. Launching
    BY <1>1, <1>6 DEF Agreement, At
  <2> QED
    BY <1>2, <1>3, <2>1 DEF Launching, Settled, Wanted, Kept
<1>7. ASSUME Undisturbed', Agreement, caller \in Windows
      PROVE  p # "idle" /\ Setting(caller)'
  <2>1. Setting(caller) /\ caller # "launch"
    BY <1>1, <1>7 DEF Agreement, At, Apart
  <2>2. p \in {"persist", "restore", "lease", "publish"}
    BY <1>3, <2>1 DEF Served, Unserved
  <2>3. /\ calls'[caller].wanted = calls[caller].wanted
        /\ calls'[caller].previous = calls[caller].previous
        /\ calls'[caller].previousRoots = calls[caller].previousRoots
    BY <1>1, <1>3, <1>7, <2>1, <2>2, GoesOn DEF Types, Pcs, Apart
  <2>4. /\ p = "persist" => runtime' # None
        /\ p # "persist" => runtime' = runtime /\ (unserved => unserved')
    BY <1>3, <2>1 DEF Served, Unserved
  <2> QED
    BY <1>1, <1>2, <1>4, <2>1, <2>2, <2>3, <2>4 DEF Setting, Wanted, Kept
<1> QED
  BY <1>1, <1>3, <1>5, <1>6, <1>7, WentOn DEF At

LEMMA StopAgree ==
  ASSUME Apart, Types, Server, PreferencesAgree, NEW caller \in Callers, StopStep(caller)
  PROVE  PreferencesAgree'
<1>1. /\ calls[caller].pc \in {"stop", "undo"} /\ alive
      /\ UNCHANGED <<overlapped, current, saved, roots, misreported, unserved>>
  <2>1. calls[caller].pc \in {"stop", "undo"}
    BY DEF StopStep, Unpublishes, ReleasesLease, ShutsDown, Stopping
  <2> QED
    BY <2>1, BusyIsAlive DEF StopStep, Unpublishes, ReleasesLease, ShutsDown, preferences
<1>2. CASE UNCHANGED <<alive, calls, runtime>>
  BY <1>1, <1>2 DEF PreferencesAgree, Undisturbed, Agreement, OneAtATime, Settled, Wanted,
     Launching, Setting, At, Kept
<1>3. CASE ShutsDown(caller) /\ caller = "exit"
  BY <1>3 DEF ShutsDown, PreferencesAgree, Undisturbed
<1>4. CASE ShutsDown(caller) /\ caller # "exit"
  <2>1. PICK p \in {"restore", "idle"} : p = IF calls[caller].pc = "undo" THEN "restore" ELSE "idle"
    OBVIOUS
  <2>2. Goes(caller, p) /\ runtime' = None
    BY <1>4, <2>1 DEF ShutsDown, Goes
  <2>3. caller \in Windows /\ caller # "launch"
    BY <1>1, <1>4, PlaceOfCaller DEF Callers, Types, LaunchPcs, Apart
  <2>4. calls'[caller].pc = p /\ \A other \in Callers \ {caller} : calls'[other] = calls[other]
    BY <2>2, GoesEffect DEF Types
  <2>5. Undisturbed' => Undisturbed
    BY <1>1, <1>4, <2>4 DEF Undisturbed, At, Callers
  <2>6. /\ calls'[caller].wanted = calls[caller].wanted
        /\ calls'[caller].previous = calls[caller].previous
        /\ calls'[caller].previousRoots = calls[caller].previousRoots
    BY <1>1, <1>4, <2>1, <2>2, <2>3, GoesOn DEF Types, Pcs
  <2>7. ASSUME Agreement PROVE IF p = "idle" THEN Settled' ELSE Setting(caller)'
    <3>1. Setting(caller)
      BY <1>1, <2>3, <2>7 DEF Agreement, At
    <3>2. CASE calls[caller].pc = "stop"
      BY <1>1, <2>1, <2>2, <3>1, <3>2 DEF Setting, Settled, Wanted, Kept
    <3>3. CASE calls[caller].pc = "undo"
      BY <1>1, <2>1, <2>2, <2>4, <2>6, <3>1, <3>3 DEF Setting, Wanted, Kept
    <3> QED
      BY <1>1, <3>2, <3>3
  <2> QED
    BY <1>1, <2>2, <2>3, <2>5, <2>7, WentOn DEF At
<1> QED
  BY <1>1, <1>2, <1>3, <1>4 DEF StopStep, Unpublishes, ReleasesLease

LEMMA SetsAgree ==
  ASSUME Apart, Types, PreferencesAgree, NEW w \in Windows, NEW wanted \in Preferences,
         Sets(w, wanted)
  PROVE  PreferencesAgree'
<1>1. /\ At(w, "idle") /\ At("launch", "idle") /\ At("exit", "idle") /\ alive
      /\ UNCHANGED <<alive, current, saved, roots, misreported, runtime, unserved>>
      /\ overlapped' = (overlapped \/ \E other \in Windows : ~At(other, "idle"))
  BY DEF Sets, preferences
<1>2. w \in Callers /\ w # "launch" /\ w # "exit"
  BY DEF Callers, Apart
<1>3. PICK call : call = [pc |-> IF wanted.enabled THEN "roots" ELSE "persist", wanted |-> wanted,
                          previous |-> current, previousRoots |-> roots]
  OBVIOUS
<1>4. calls' = [calls EXCEPT ![w] = call]
  BY <1>3 DEF Sets
<1>5. calls'[w] = call /\ \A other \in Callers \ {w} : calls'[other] = calls[other]
  BY <1>2, <1>4 DEF Types, CallTypes
<1> SUFFICES ASSUME Undisturbed' PROVE Agreement'
  BY DEF PreferencesAgree
<1>6. ~overlapped /\ \A other \in Windows : At(other, "idle")
  BY <1>1 DEF Undisturbed, Types, StateTypes
<1>7. Settled
  BY <1>1, <1>6 DEF PreferencesAgree, Undisturbed, Agreement, Callers
<1>8. /\ call.pc = IF wanted.enabled THEN "roots" ELSE "persist"
      /\ call.wanted = wanted /\ call.previous = current /\ call.previousRoots = roots
  BY <1>3
<1>9. Setting(w)'
  BY <1>1, <1>5, <1>7, <1>8 DEF Setting, Settled, Wanted, Kept
<1>10. \A other \in Callers \ {w} : At(other, "idle")'
  BY <1>1, <1>5, <1>6 DEF At, Callers
<1>11. ~At(w, "idle")'
  BY <1>5, <1>8 DEF At
<1>12. PreferencesAgree'
  BY <1>2, <1>9, <1>10, <1>11, AgreeAgain
<1> QED
  BY <1>12 DEF PreferencesAgree

LEMMA SetAgree ==
  ASSUME Apart, Types, PreferencesAgree, NEW w \in Windows, SetStep(w)
  PROVE  PreferencesAgree'
<1>0. w \in Callers /\ w # "launch" /\ w # "exit"
  BY DEF Callers, Apart
<1>1. CASE \E wanted \in Preferences : Sets(w, wanted)
  BY <1>1, SetsAgree
<1>2. CASE Restores(w)
  <2>1. /\ calls[w].pc = "restore"
        /\ roots' = calls[w].previousRoots /\ calls' = [calls EXCEPT ![w] = Resting]
        /\ UNCHANGED <<alive, overlapped, current, saved, misreported, runtime, unserved>>
    BY <1>2 DEF Restores, At
  <2>2. calls'[w].pc = "idle" /\ \A other \in Callers \ {w} : calls'[other] = calls[other]
    BY <1>0, <2>1 DEF Types, CallTypes, Resting
  <2> SUFFICES ASSUME Undisturbed' PROVE Agreement'
    BY DEF PreferencesAgree
  <2>3. At("exit", "idle") /\ Agreement
    BY <1>0, <2>1, <2>2 DEF PreferencesAgree, Undisturbed, At, Callers
  <2>4. Setting(w)
    BY <2>1, <2>3 DEF Agreement, At
  <2>5. Settled'
    BY <2>1, <2>4 DEF Setting, Settled, Wanted, Kept
  <2>6. \A other \in Callers \ {w} : At(other, "idle")'
    BY <2>1, <2>2, <2>3, OthersRest DEF At
  <2>7. PreferencesAgree'
    BY <1>0, <2>2, <2>5, <2>6, AgreeAgain DEF At
  <2> QED
    BY <2>7 DEF PreferencesAgree
<1>3. CASE ReplacesRoots(w) \/ Saves(w) \/ SaveFails(w) \/ Installs(w)
  <2>1. /\ calls[w].pc \in {"roots", "persist", "install"}
        /\ UNCHANGED <<alive, overlapped, runtime, unserved>>
    BY <1>3 DEF ReplacesRoots, Saves, SaveFails, Installs, At, preferences
  <2>2. \E p \in {"lock", "install", "idle", "stop", AfterFailedSave(w)} : Goes(w, p)
    BY <1>3 DEF ReplacesRoots, Saves, SaveFails, Installs
  <2>3. Undisturbed' => Undisturbed
    BY <1>0, <2>1, <2>2, GoesEffect DEF Types, Undisturbed, At, Callers
  <2>4. AfterFailedSave(w) \in {"undo", "restore"}
    BY DEF AfterFailedSave
  <2>5. \A p \in {"lock", "install", "idle", "stop", AfterFailedSave(w)} : Goes(w, p) =>
          /\ calls'[w].pc = p
          /\ calls'[w].wanted = calls[w].wanted
          /\ calls'[w].previous = calls[w].previous
          /\ calls'[w].previousRoots = calls[w].previousRoots
    BY <1>0, <2>1, <2>4, GoesOn, GoesEffect DEF Types, Pcs
  <2>6. Agreement => Setting(w)
    BY <2>1 DEF Agreement, At
  <2>7. CASE ReplacesRoots(w)
    <3>1. Goes(w, "lock") /\ calls[w].pc = "roots" /\ roots' = calls[w].wanted.roots
          /\ UNCHANGED <<current, saved, misreported>>
      BY <2>7 DEF ReplacesRoots, At
    <3>2. Agreement => Setting(w)'
      BY <2>1, <2>5, <2>6, <3>1 DEF Setting, Wanted, Kept
    <3> QED
      BY <1>0, <2>1, <2>3, <3>1, <3>2, WentOn DEF At
  <2>8. CASE Saves(w)
    <3>1. Goes(w, "install") /\ calls[w].pc = "persist" /\ saved' = calls[w].wanted
          /\ UNCHANGED <<current, roots>>
      BY <2>8 DEF Saves, At
    <3>2. Agreement => Setting(w)'
      BY <2>1, <2>5, <2>6, <3>1 DEF Setting, Wanted, Kept
    <3> QED
      BY <1>0, <2>1, <2>3, <3>1, <3>2, WentOn DEF At
  <2>9. CASE SaveFails(w)
    <3>1. PICK p : p = AfterFailedSave(w)
      OBVIOUS
    <3>2. Goes(w, p) /\ calls[w].pc = "persist" /\ UNCHANGED <<current, roots>>
          /\ (UNCHANGED <<saved, misreported>> \/ misreported')
      BY <2>9, <3>1 DEF SaveFails, At, preferences
    <3>3. calls'[w].pc = p /\ calls'[w].wanted = calls[w].wanted
          /\ calls'[w].previous = calls[w].previous
          /\ calls'[w].previousRoots = calls[w].previousRoots
      BY <2>5, <3>1, <3>2
    <3>4. ASSUME Agreement PROVE Setting(w)'
      <4>1. Setting(w)
        BY <2>6, <3>4
      <4>2. /\ calls[w].previous = current /\ calls[w].previousRoots = current.roots
            /\ Kept /\ Kept'
        BY <3>2, <4>1 DEF Setting, Kept
      <4>3. CASE p = "undo"
        <5>1. calls[w].wanted.enabled /\ ~current.enabled
          BY <3>1, <4>2, <4>3 DEF AfterFailedSave
        <5> QED
          BY <3>2, <3>3, <4>2, <4>3, <5>1 DEF Setting, Kept
      <4>4. CASE p = "restore"
        <5>1. ~calls[w].wanted.enabled \/ current.enabled
          BY <3>1, <4>2, <4>4 DEF AfterFailedSave
        <5>2. Wanted
          BY <3>2, <4>1, <5>1 DEF Setting, Wanted, Kept
        <5> QED
          BY <2>1, <3>2, <3>3, <4>2, <4>4, <5>2 DEF Setting, Wanted, Kept
      <4> QED
        BY <2>4, <3>1, <4>3, <4>4
    <3>5. p # "idle"
      BY <2>4, <3>1
    <3> QED
      BY <1>0, <2>1, <2>3, <3>2, <3>4, <3>5, WentOn DEF At
  <2>10. CASE Installs(w)
    <3>1. PICK p \in {"idle", "stop"} : p = IF calls[w].wanted.enabled THEN "idle" ELSE "stop"
      OBVIOUS
    <3>2. /\ Goes(w, p) /\ calls[w].pc = "install"
          /\ roots' = IF calls[w].wanted.enabled THEN roots ELSE calls[w].wanted.roots
          /\ current' = calls[w].wanted /\ UNCHANGED <<saved, misreported>>
      BY <2>10, <3>1 DEF Installs, At
    <3>3. calls'[w].pc = p /\ calls'[w].wanted = calls[w].wanted
      BY <2>5, <3>2
    <3>4. ASSUME Agreement PROVE IF p = "idle" THEN Settled' ELSE Setting(w)'
      <4>1. Setting(w)
        BY <2>6, <3>4
      <4>2. CASE calls[w].wanted.enabled
        BY <2>1, <3>1, <3>2, <4>1, <4>2 DEF Setting, Settled, Wanted, Kept
      <4>3. CASE ~calls[w].wanted.enabled
        BY <2>1, <3>1, <3>2, <3>3, <4>1, <4>3 DEF Setting, Kept
      <4> QED
        BY <4>2, <4>3
    <3> QED
      BY <1>0, <2>1, <2>3, <3>2, <3>4, WentOn DEF At
  <2> QED
    BY <1>3, <2>7, <2>8, <2>9, <2>10
<1> QED
  BY <1>1, <1>2, <1>3 DEF SetStep

LEMMA EndAgree ==
  ASSUME Apart, Types, Exit \/ Crash
  PROVE  PreferencesAgree'
<1>1. CASE Exit
  <2>1. calls'["exit"].pc = "stop"
    BY <1>1, GoesEffect DEF Exit, Callers, Types
  <2> QED
    BY <2>1 DEF PreferencesAgree, Undisturbed, At
<1>2. CASE Crash
  BY <1>2 DEF Crash, PreferencesAgree, Undisturbed
<1> QED
  BY <1>1, <1>2

LEMMA ClientAgree ==
  ASSUME PreferencesAgree, NEW c \in Clients, ClientStep(c)
  PROVE  PreferencesAgree'
<1>1. UNCHANGED <<alive, overlapped, current, saved, roots, misreported, runtime, calls, unserved>>
  BY DEF ClientStep, Asks, Reads, Probes, Unlocks, UsesAnswer, Client, preferences
<1> QED
  BY <1>1 DEF PreferencesAgree, Undisturbed, Agreement, OneAtATime, Settled, Wanted,
     Launching, Setting, At, Kept

-----------------------------------------------------------------------------
(* The theorems *)

ApiInv == Types /\ Server /\ ClientsKnow /\ PreferencesAgree

LEMMA InitApi ==
  ASSUME Apart, ApiInit
  PROVE  ApiInv
<1> DEFINE rests(caller) == ~(caller = "launch" /\ saved.enabled)
<1>1. /\ alive /\ current = saved /\ saved \in Preferences /\ roots = saved.roots
      /\ servers = {} /\ runtime = None /\ holder = None /\ record = None /\ lease = "missing"
      /\ started = 0 /\ alive = TRUE /\ overlapped = FALSE /\ unserved = FALSE
      /\ misreported = FALSE
      /\ clients = [c \in Clients |-> Resting]
  BY DEF ApiInit
<1>2. calls = [caller \in Callers |->
        IF caller = "launch" /\ saved.enabled THEN [pc |-> "lock", wanted |-> saved] ELSE Resting]
  BY DEF ApiInit
<1>3. /\ \A caller \in Callers \ {"launch"} : calls[caller] = Resting
      /\ saved.enabled => calls["launch"] = [pc |-> "lock", wanted |-> saved]
      /\ ~saved.enabled => calls["launch"] = Resting
  BY <1>2 DEF Callers
<1>4. calls["launch"].pc = IF saved.enabled THEN "lock" ELSE "idle"
  BY <1>1, <1>3 DEF Preferences, Resting
<1>5. \A caller \in Callers \ {"launch"} : calls[caller].pc = "idle"
  BY <1>3 DEF Resting
<1>6. Types
  <2>1. StateTypes
    BY <1>1 DEF StateTypes, Preferences
  <2>2. CallTypes
    <3>1. DOMAIN calls = Callers
      BY <1>2
    <3>2. \A w \in Windows : calls[w] = Resting
      BY <1>3 DEF Callers, Apart
    <3>3. calls["launch"] = Resting \/ calls["launch"] \in LaunchCall
      BY <1>1, <1>3 DEF LaunchCall, LaunchPcs, Preferences
    <3>4. calls["exit"] \in ExitCall
      BY <1>3 DEF Callers, ExitCall, Resting
    <3> QED
      BY <3>1, <3>2, <3>3, <3>4 DEF CallTypes
  <2>3. ClientTypes
    BY <1>1 DEF ClientTypes
  <2> QED
    BY <2>1, <2>2, <2>3 DEF Types
<1>7. Server
  <2>1. \A caller \in Callers : ~Starting(caller)
    BY <1>4, <1>5 DEF Starting
  <2>2. Serving
    BY <1>1 DEF Serving, Only
  <2> QED
    BY <1>1, <2>1, <2>2 DEF Server, LockIsHeld
<1>8. ClientsKnow
  BY <1>1 DEF ClientsKnow, Knows, Resting
<1>9. PreferencesAgree
  <2>1. \A w \in Windows : At(w, "idle")
    BY <1>5 DEF At, Callers, Apart
  <2>2. ~At("launch", "idle") <=> saved.enabled
    BY <1>1, <1>4 DEF At, Preferences
  <2>3. OneAtATime
    BY <2>1 DEF OneAtATime
  <2>4. At("launch", "idle") => Settled
    BY <1>1, <2>2 DEF Settled, Wanted, Kept
  <2>5. ~At("launch", "idle") => Launching
    BY <1>1, <2>2 DEF Launching, Kept
  <2> QED
    BY <2>1, <2>3, <2>4, <2>5 DEF PreferencesAgree, Agreement, Callers
<1> QED
  BY <1>6, <1>7, <1>8, <1>9 DEF ApiInv

LEMMA NextApi ==
  ASSUME Apart, ApiInv, ApiNext
  PROVE  ApiInv'
<1> USE DEF ApiInv
<1>1. CASE \E caller \in Callers : StartStep(caller)
  BY <1>1, StartTypes, StartServer, StartKnow, StartAgree
<1>2. CASE \E caller \in Callers : StopStep(caller)
  BY <1>2, StopTypes, StopServer, StopKnow, StopAgree
<1>3. CASE \E w \in Windows : SetStep(w)
  BY <1>3, SetTypes, SetServer, SetKnow, SetAgree
<1>4. CASE Exit \/ Crash
  BY <1>4, EndTypes, EndServer, EndKnow, EndAgree
<1>5. CASE \E c \in Clients : ClientStep(c)
  <2>1. PICK c \in Clients : ClientStep(c)
    BY <1>5
  <2>2. clients[c].pc = "unlock" => lease = c
    BY DEF ClientsKnow, Knows
  <2> QED
    BY <2>1, <2>2, ClientTypesKept, ClientServer, ClientKnows, ClientAgree
<1> QED
  BY <1>1, <1>2, <1>3, <1>4, <1>5 DEF ApiNext, StartStep, StopStep, SetStep, ClientStep

LEMMA StutterApi ==
  ASSUME ApiInv, UNCHANGED apiVars
  PROVE  ApiInv'
<1>1. /\ UNCHANGED <<alive, current, saved, roots, servers, runtime, holder, calls>>
      /\ UNCHANGED <<record, lease, clients, started, overlapped, unserved, misreported>>
  BY DEF apiVars, preferences, files
<1>2. Types'
  BY <1>1 DEF ApiInv, Types, StateTypes, CallTypes, ClientTypes
<1>3. Server'
  <2>1. LockIsHeld'
    BY <1>1 DEF ApiInv, Server, LockIsHeld, Starting, Stopping
  <2>2. (alive => Serving)'
    BY <1>1 DEF ApiInv, Server, Serving, Starting, Only, At
  <2>3. (~alive => Ended)'
    BY <1>1 DEF ApiInv, Server, Ended, At
  <2> QED
    BY <2>1, <2>2, <2>3 DEF Server
<1>4. ClientsKnow'
  BY <1>1 DEF ApiInv, ClientsKnow, Knows
<1>5. PreferencesAgree'
  BY <1>1 DEF ApiInv, PreferencesAgree, Undisturbed, Agreement, OneAtATime, Settled, Wanted,
     Launching, Setting, At, Kept
<1> QED
  BY <1>2, <1>3, <1>4, <1>5 DEF ApiInv

\* Server, clients and preferences are as the invariant says under every order of commands,
\* failures, crashes and questions.
THEOREM ApiHolds == ApiSpec => []ApiInv
<1>1. ApiInit => ApiInv
  BY InitApi, ApartAssumption
<1>2. ApiInv /\ [ApiNext]_apiVars => ApiInv'
  BY NextApi, StutterApi, ApartAssumption
<1> QED
  BY <1>1, <1>2, PTL DEF ApiSpec

\* Whatever is started, stopped, set or killed while it asks, an MCP process is answered
\* with a server that ran at some time since it asked, unless another one held the lease.
THEOREM AnswersAreServers == ApiSpec => []AnswersNameServers
<1>1. ApiInv => AnswersNameServers
  BY DEF ApiInv, ClientsKnow, Knows, AnswersNameServers
<1> QED
  BY <1>1, ApiHolds, PTL

\* When no command is under way, the preferences in memory, the roots, the server, its
\* record and its lease agree, whichever step of whichever command failed, and so do the
\* preferences saved unless a save wrote them and reported failure, as long as windows set
\* the preferences one at a time.
THEOREM SettingsTakeEffect == ApiSpec => []SettingTakesEffect
<1>1. ApiInv => SettingTakesEffect
  <2> SUFFICES ASSUME ApiInv, alive, ~overlapped, \A caller \in Callers : At(caller, "idle")
               PROVE  /\ roots = current.roots
                      /\ saved = current \/ misreported
                      /\ servers = IF runtime = None THEN {} ELSE {runtime}
                      /\ record = runtime
                      /\ runtime # None => current.enabled /\ lease = "app"
                      /\ current.enabled => runtime # None \/ unserved
    BY DEF SettingTakesEffect
  <2>1. Settled
    BY DEF ApiInv, PreferencesAgree, Undisturbed, Agreement, Callers
  <2>2. holder = None
    BY DEF ApiInv, Types, StateTypes, Server, LockIsHeld, Starting, Stopping, At
  <2>3. Serving
    BY DEF ApiInv, Server
  <2> QED
    BY <2>1, <2>2, <2>3 DEF Settled, Wanted, Serving, Only, Kept
<1> QED
  BY <1>1, ApiHolds, PTL
=============================================================================
