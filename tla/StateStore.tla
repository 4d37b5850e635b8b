------------------------------ MODULE StateStore ------------------------------
(***************************************************************************)
(* Preferences, recent files and drafts on disk: one state, kept in two    *)
(* slots that are written in turn, so that a crash while one is written    *)
(* leaves the other (src-tauri/src/infra/json_state_store.rs in the        *)
(* desktop, src/infra/webStateStore.ts in the browser). An operation runs  *)
(* under a lock that all windows and processes share and that a crash      *)
(* gives back; so there is one operation at a time, and between any two    *)
(* of its steps it may be the last one.                                    *)
(*                                                                         *)
(* The desktop creates a file and fills it: a crash in between leaves a    *)
(* corrupt one. The browser swaps the new contents in. A payload is a      *)
(* value; copies of corrupt files put aside are not modelled. A directory  *)
(* entry is as durable as the file it is of.                               *)
(***************************************************************************)
EXTENDS Integers

CONSTANTS
  Values,       \* payloads
  Nothing,      \* what is loaded where nothing was ever saved
  Missing, Corrupt,
  Newer,        \* a file with the schema of a later version
  MaxRevision   \* Number.MAX_SAFE_INTEGER, where saving is refused

ASSUME MarkersAssumption ==
  /\ Nothing \notin Values
  /\ {Missing, Corrupt, Newer} \cap Values = {}
  /\ Missing # Corrupt /\ Missing # Newer /\ Corrupt # Newer

ASSUME MaxRevisionAssumption == MaxRevision \in Nat \ {0}

Slots == {0, 1}
Envelope == [revision : 1 .. MaxRevision, payload : Values]

ASSUME EnvelopeAssumption == {Missing, Corrupt, Newer} \cap Envelope = {}

VARIABLES
  desktop,   \* TRUE: the desktop; FALSE: the browser; never changes
  slots,     \* the slot files
  legacy,    \* the file of the version before there were slots
  op,        \* the operation that has the lock
  promised   \* history: the payloads a load may return

vars == <<desktop, slots, legacy, op, promised>>

Idle == [pc |-> "idle"]

-----------------------------------------------------------------------------
(* What the slots hold. *)

Valid == {i \in Slots : slots[i] \in Envelope}

\* The valid slot with the highest revision, the later one of two equals.
Newest ==
  CHOOSE i \in Valid :
    \A j \in Valid \ {i} :
      \/ slots[j].revision < slots[i].revision
      \/ slots[j].revision = slots[i].revision /\ j < i

\* What a load would return now.
Stored ==
  CASE Valid # {} -> slots[Newest].payload
    [] Valid = {} /\ legacy \in Values -> legacy
    [] OTHER -> Nothing

\* Mutant: the slot that was written last is written again.
TargetNewest == IF Valid = {} THEN 0 ELSE Newest

\* The slot to write: the first that holds nothing, or else the older one.
Target ==
  CASE 0 \notin Valid -> 0
    [] 0 \in Valid /\ 1 \notin Valid -> 1
    [] OTHER -> IF slots[0].revision <= slots[1].revision THEN 0 ELSE 1

NextRevision == 1 + (IF Valid = {} THEN 0 ELSE slots[Newest].revision)

-----------------------------------------------------------------------------
Init ==
  /\ desktop \in BOOLEAN
  /\ slots = [i \in Slots |-> Missing]
  /\ legacy \in Values \cup {Missing, Corrupt, Newer}
  /\ op = Idle
  /\ promised = {Stored}

Begin(call, payload) ==
  /\ op = Idle
  /\ op' = [pc |-> "read", call |-> call, payload |-> payload, slot |-> 0]
  /\ UNCHANGED <<desktop, slots, legacy, promised>>

BeginLoad == Begin("load", Nothing)

BeginPersist == \E payload \in Values : Begin("persist", payload)

\* Mutant: whatever cannot be read is put aside.
ReadSlotOfAnySchema ==
  /\ op.pc = "read"
  /\ slots' = [slots EXCEPT ![op.slot] = IF @ \in {Corrupt, Newer} THEN Missing ELSE @]
  /\ op' = IF op.slot = 0 THEN [op EXCEPT !.slot = 1] ELSE [op EXCEPT !.pc = "decide"]
  /\ UNCHANGED <<desktop, legacy, promised>>

\* read_slot: a file of a later version ends the operation with an error, a
\* corrupt one is put aside.
ReadSlot ==
  /\ op.pc = "read"
  /\ slots' = [slots EXCEPT ![op.slot] = IF @ = Corrupt THEN Missing ELSE @]
  /\ op' = CASE slots[op.slot] = Newer -> Idle
             [] slots[op.slot] # Newer /\ op.slot = 0 -> [op EXCEPT !.slot = 1]
             [] OTHER -> [op EXCEPT !.pc = "decide"]
  /\ UNCHANGED <<desktop, legacy, promised>>

Answer(payload) ==
  /\ op' = Idle
  /\ promised' = {payload}

LoadNewest ==
  /\ op.pc = "decide"
  /\ op.call = "load"
  /\ Valid # {}
  /\ Answer(slots[Newest].payload)
  /\ UNCHANGED <<desktop, slots, legacy>>

Writing(slot, revision, payload) ==
  [pc |-> "write", call |-> op.call, slot |-> slot,
   envelope |-> [revision |-> revision, payload |-> payload]]

\* read_legacy_state, and the migration of what it reads.
LoadLegacy ==
  /\ op.pc = "decide"
  /\ op.call = "load"
  /\ Valid = {}
  /\ \/ /\ legacy \in Values
        /\ op' = Writing(0, 1, legacy)
        /\ UNCHANGED <<legacy, promised>>
     \/ /\ legacy = Newer
        /\ op' = Idle
        /\ UNCHANGED <<legacy, promised>>
     \/ /\ legacy \in {Missing, Corrupt}
        /\ legacy' = Missing
        /\ Answer(Nothing)
  /\ UNCHANGED <<desktop, slots>>

\* A save that is interrupted may have happened, so its payload is promised
\* from here on.
Persist ==
  /\ op.pc = "decide"
  /\ op.call = "persist"
  /\ IF NextRevision <= MaxRevision
       THEN /\ op' = Writing(Target, NextRevision, op.payload)
            /\ promised' = promised \cup {op.payload}
       ELSE /\ op' = Idle
            /\ UNCHANGED promised
  /\ UNCHANGED <<desktop, slots, legacy>>

\* File::create
CreateFile ==
  /\ desktop
  /\ op.pc = "write"
  /\ slots' = [slots EXCEPT ![op.slot] = Corrupt]
  /\ op' = [op EXCEPT !.pc = "fill"]
  /\ UNCHANGED <<desktop, legacy, promised>>

\* write_all in the desktop, close of the writable in the browser.
FillFile ==
  /\ op.pc = IF desktop THEN "fill" ELSE "write"
  /\ slots' = [slots EXCEPT ![op.slot] = op.envelope]
  /\ op' = [op EXCEPT !.pc = "verify"]
  /\ UNCHANGED <<desktop, legacy, promised>>

\* Mutant: the file of the old version is cleared away.
VerifyAndClear ==
  /\ op.pc = "verify"
  /\ slots[op.slot] = op.envelope
  /\ legacy' = IF op.call = "load" THEN Missing ELSE legacy
  /\ Answer(op.envelope.payload)
  /\ UNCHANGED <<desktop, slots>>

\* sync_all and the read-back.
Verify ==
  /\ op.pc = "verify"
  /\ slots[op.slot] = op.envelope
  /\ Answer(op.envelope.payload)
  /\ UNCHANGED <<desktop, slots, legacy>>

\* The process ends, or a step returns an error: the lock is given back, and
\* nothing is cleaned up. What was not synced may be lost with the power.
Interrupted ==
  /\ op # Idle
  /\ op' = Idle
  /\ \/ UNCHANGED slots
     \/ /\ desktop
        /\ op.pc = "verify"
        /\ slots' = [slots EXCEPT ![op.slot] = Corrupt]
  /\ UNCHANGED <<desktop, legacy, promised>>

\* In the browser a migration that cannot be written, for want of space for
\* one, is taken for a corrupt file.
MigrationFails ==
  /\ ~desktop
  /\ op.pc \in {"write", "verify"}
  /\ op.call = "load"
  /\ legacy' = Missing
  /\ op' = Idle
  /\ promised' = promised \cup {Nothing}
  /\ UNCHANGED <<desktop, slots>>

-----------------------------------------------------------------------------
(* The world. *)

\* A file rots between two operations; nothing is promised then but what is
\* left, see SlotsAreConsecutive.
Rots(i) ==
  /\ op = Idle
  /\ i \in Valid
  /\ slots' = [slots EXCEPT ![i] = Corrupt]
  /\ UNCHANGED <<desktop, legacy, op>>
  /\ promised' = promised \cup {Stored'}

\* A later version of the program saves: it reads what this one wrote and goes
\* on in its own schema.
LaterVersionSaves ==
  /\ op = Idle
  /\ \A i \in Slots : slots[i] # Newer
  /\ slots' = [slots EXCEPT ![Target] = Newer]
  /\ UNCHANGED <<desktop, legacy, op, promised>>

Load == BeginLoad \/ LoadNewest \/ LoadLegacy \/ MigrationFails

Save == BeginPersist \/ Persist

Write == CreateFile \/ FillFile \/ Verify

Next ==
  \/ Load
  \/ Save
  \/ ReadSlot
  \/ Write
  \/ Interrupted
  \/ \E i \in Slots : Rots(i)
  \/ LaterVersionSaves

Spec == Init /\ [][Next]_vars

-----------------------------------------------------------------------------
(* Correctness *)

File == Envelope \cup {Missing, Corrupt, Newer}

Operation ==
  {Idle}
    \cup [pc : {"read"}, call : {"load", "persist"}, payload : Values \cup {Nothing},
          slot : Slots]
    \cup [pc : {"decide"}, call : {"load", "persist"}, payload : Values \cup {Nothing},
          slot : Slots]
    \cup [pc : {"write", "fill", "verify"}, call : {"load", "persist"}, slot : Slots,
          envelope : Envelope]

TypeOK ==
  /\ desktop \in BOOLEAN
  /\ slots \in [Slots -> File]
  /\ legacy \in Values \cup {Missing, Corrupt, Newer}
  /\ op \in Operation
  /\ promised \subseteq Values \cup {Nothing}

\* A load returns what was saved last, wherever the saves before it stopped: a
\* save that was answered is there, one that was not is there or is not, and
\* once a load has decided which, it stays so ("valid maximum revision is
\* adopted", docs/architecture-dsa.md:140).
LoadsWhatWasSaved == Stored \in promised

\* Two slots that can both be read are of successive generations, so that the
\* loss of a slot costs one save at most, and the newer one is never in doubt.
SlotsAreConsecutive ==
  Valid = Slots => {slots[0].revision - slots[1].revision} \subseteq {-1, 1}

\* What a later version wrote is not written over by this one, whatever is in
\* the other slot ("future schema: rewriting forbidden",
\* docs/architecture-dsa.md:145).
LaterVersionStays ==
  /\ \A i \in Slots : slots[i] = Newer => slots'[i] = Newer
  /\ legacy = Newer => legacy' = Newer

LaterVersionIsUntouched == [][LaterVersionStays]_vars

\* The desktop keeps the old file when it migrates it, whatever interrupts the
\* migration ("the old file is kept", docs/architecture-dsa.md:143). The
\* browser puts it aside where the migration fails.
LegacyStays == desktop /\ legacy \in Values => legacy' = legacy

LegacyIsKept == [][LegacyStays]_vars
=============================================================================
