---------------------------- MODULE StoreCommit ----------------------------
(***************************************************************************)
(* Recording edits and committing them (src/src/core/omc_edit.c) on the    *)
(* entry table of a store (src/src/core/omc_store.c).  A commit validates  *)
(* the recorded operations, builds a candidate store entry by entry and    *)
(* operation by operation, and publishes it over out only when every       *)
(* allocation and every copy succeeded.  Arena contents are module Arena's *)
(* business: here a value is whole or of malformed shape.                  *)
(***************************************************************************)
EXTENDS Integers, Sequences, FiniteSets

CONSTANTS
    Key,            \* metadata keys
    Value,          \* values, Malformed among them
    Malformed,      \* a value omc_value_shape_valid rejects
    MaxEntries,     \* entry ids a store can hold (omc_entry_id)
    MaxOps          \* bound of the model: operations in one edit

ASSUME ValueAssumption == Malformed \in Value
ASSUME BoundAssumption == MaxEntries \in Nat /\ MaxOps \in Nat

VARIABLES
    base,       \* entries of the store edits are recorded against
    ops,        \* the edit: its recorded operations
    out,        \* entries of the output store
    cand,       \* entries of the candidate a call is building
    pc,         \* where the call is: idle, reserve, blocks, entries, apply
    call,       \* commit or compact
    done,       \* entries visited, then operations applied
    status      \* answer of the last call

vars == <<base, ops, out, cand, pc, call, done, status>>

Entry == [key : Key, value : Value, dirty : BOOLEAN, deleted : BOOLEAN]
FreshEntry == [key : Key, value : Value, dirty : {FALSE}, deleted : {FALSE}]
Target == 0..MaxEntries
Op ==
    [kind : {"ADD_ENTRY"}, entry : FreshEntry]
    \cup [kind : {"SET_VALUE"}, target : Target, value : Value]
    \cup [kind : {"TOMBSTONE", "MARK_DIRTY"}, target : Target]
    \cup [kind : {"UNKNOWN"}]

Init ==
    /\ base = <<>> /\ ops = <<>> /\ out = <<>> /\ cand = <<>>
    /\ pc = "idle" /\ call = "none" /\ done = 0 /\ status = "OK"

-----------------------------------------------------------------------------
(* The client, between calls.                                              *)

(* omc_edit_add_entry, _set_value, _tombstone and _mark_dirty: no check of *)
(* the target or of the value.  A caller may also store a kind of its own. *)
(* The model's client adopts a result before it records more.              *)
Record(op) ==
    /\ pc = "idle" /\ Len(ops) < MaxOps /\ out = <<>>
    /\ ops' = Append(ops, op)
    /\ status' = "OK"
    /\ UNCHANGED <<base, out, cand, pc, call, done>>

(* omc_edit_reset.                                                         *)
Discard ==
    /\ pc = "idle" /\ ops # <<>>
    /\ ops' = <<>>
    /\ UNCHANGED <<base, out, cand, pc, call, done, status>>

(* omc_store_add_entry by the decoder that fills a store before any edit.  *)
Fill(e) ==
    /\ pc = "idle" /\ Len(base) < MaxEntries
    /\ ops = <<>> /\ out = <<>>
    /\ base' = Append(base, e)
    /\ UNCHANGED <<ops, out, cand, pc, call, done, status>>

(* The client goes on with the result: out becomes the next base.          *)
Adopt ==
    /\ pc = "idle" /\ out # <<>>
    /\ base' = out /\ out' = <<>>
    /\ UNCHANGED <<ops, cand, pc, call, done, status>>

-----------------------------------------------------------------------------
Return(answer) ==
    /\ status' = answer
    /\ pc' = "idle" /\ call' = "none" /\ cand' = <<>> /\ done' = 0

(* The candidate is released, out and base stay (omc_store_fini).          *)
Fail(answer) ==
    /\ Return(answer)
    /\ UNCHANGED <<base, ops, out>>

(* *out = candidate.                                                       *)
Publish(entries) ==
    /\ out' = entries
    /\ Return("OK")
    /\ UNCHANGED <<base, ops>>

KnownKinds == \A j \in 1..Len(ops) : ops[j].kind # "UNKNOWN"

(* omc_edit_commit and the checks of omc_edit_build that precede any       *)
(* allocation.                                                             *)
StartCommit ==
    /\ pc = "idle"
    /\ \/ /\ KnownKinds
          /\ pc' = "reserve" /\ call' = "commit" /\ cand' = <<>> /\ done' = 0
          /\ UNCHANGED <<base, ops, out, status>>
       \/ ~KnownKinds /\ Fail("INVALID_ARGUMENT")

StartCompact ==
    /\ pc = "idle"
    /\ pc' = "reserve" /\ call' = "compact" /\ cand' = <<>> /\ done' = 0
    /\ UNCHANGED <<base, ops, out, status>>

(* Arena and entry table of the candidate, then the block table; each may  *)
(* find no memory.                                                         *)
ReserveCandidate ==
    /\ pc = "reserve"
    /\ \/ pc' = "blocks" /\ UNCHANGED <<base, ops, out, cand, call, done, status>>
       \/ \E answer \in {"NO_MEMORY", "OVERFLOW"} : Fail(answer)

CopyBlocks ==
    /\ pc = "blocks"
    /\ \/ pc' = "entries" /\ UNCHANGED <<base, ops, out, cand, call, done, status>>
       \/ Fail("NO_MEMORY")

ClonableUnchecked(value) == TRUE    \* mutant: shapes are not validated
Clonable(value) == value # Malformed

AddUnbounded(e) ==                  \* mutant: ids are not counted
    \/ /\ Clonable(e.value)
       /\ cand' = Append(cand, e)
       /\ done' = done + 1
       /\ UNCHANGED <<base, ops, out, pc, call, status>>
    \/ ~Clonable(e.value) /\ Fail("STATE")
    \/ Clonable(e.value) /\ Fail("NO_MEMORY")

(* omc_clone_entry and omc_store_add_entry.                                *)
AddToCandidate(e) ==
    \/ /\ Clonable(e.value) /\ Len(cand) < MaxEntries
       /\ cand' = Append(cand, e)
       /\ done' = done + 1
       /\ UNCHANGED <<base, ops, out, pc, call, status>>
    \/ ~Clonable(e.value) /\ Fail("STATE")
    \/ Clonable(e.value) /\ Len(cand) >= MaxEntries /\ Fail("OVERFLOW")
    \/ Clonable(e.value) /\ Fail("NO_MEMORY")

CopyLiveOnly ==                     \* mutant: commits drop tombstones too
    /\ pc = "entries" /\ done < Len(base)
    /\ LET e == base[done + 1]
       IN  IF e.deleted
           THEN done' = done + 1 /\ UNCHANGED <<base, ops, out, cand, pc, call, status>>
           ELSE AddToCandidate(e)

(* One round of omc_copy_live_entries: a commit keeps tombstones, so that  *)
(* ids stay; compaction skips them.                                        *)
CopyEntry ==
    /\ pc = "entries" /\ done < Len(base)
    /\ LET e == base[done + 1]
       IN  IF call = "compact" /\ e.deleted
           THEN done' = done + 1 /\ UNCHANGED <<base, ops, out, cand, pc, call, status>>
           ELSE AddToCandidate(e)

EntriesCopied ==
    /\ pc = "entries" /\ done = Len(base)
    /\ IF call = "compact" THEN Publish(cand)
       ELSE /\ pc' = "apply" /\ done' = 0
            /\ UNCHANGED <<base, ops, out, cand, call, status>>

HitsButLast(op) == op.target + 1 < Len(cand)    \* mutant: the last entry is missed
Hits(op) == op.target < Len(cand)

Update(op, e) ==
    /\ cand' = [cand EXCEPT ![op.target + 1] = e]
    /\ done' = done + 1
    /\ UNCHANGED <<base, ops, out, pc, call, status>>

Skip == done' = done + 1 /\ UNCHANGED <<base, ops, out, cand, pc, call, status>>

ApplySetRevives(op) ==              \* mutant: a new value clears the tombstone
    LET e == cand[op.target + 1] IN
    \/ ~Hits(op) /\ Skip
    \/ /\ Hits(op) /\ Clonable(op.value)
       /\ Update(op, [e EXCEPT !.value = op.value, !.dirty = TRUE, !.deleted = FALSE])
    \/ Hits(op) /\ ~Clonable(op.value) /\ Fail("STATE")
    \/ Hits(op) /\ Clonable(op.value) /\ \E answer \in {"NO_MEMORY", "OVERFLOW"} : Fail(answer)

ApplySetValue(op) ==
    LET e == cand[op.target + 1] IN
    \/ ~Hits(op) /\ Skip
    \/ Hits(op) /\ Clonable(op.value) /\ Update(op, [e EXCEPT !.value = op.value, !.dirty = TRUE])
    \/ Hits(op) /\ ~Clonable(op.value) /\ Fail("STATE")
    \/ Hits(op) /\ Clonable(op.value) /\ \E answer \in {"NO_MEMORY", "OVERFLOW"} : Fail(answer)

ApplyFlags(op) ==
    LET e == cand[op.target + 1] IN
    \/ ~Hits(op) /\ Skip
    \/ /\ Hits(op) /\ op.kind = "TOMBSTONE"
       /\ Update(op, [e EXCEPT !.dirty = TRUE, !.deleted = TRUE])
    \/ /\ Hits(op) /\ op.kind = "MARK_DIRTY"
       /\ Update(op, [e EXCEPT !.dirty = TRUE])

(* One round of the operations loop of omc_edit_build.                     *)
ApplyOp ==
    /\ pc = "apply" /\ done < Len(ops)
    /\ LET op == ops[done + 1] IN
       \/ op.kind = "ADD_ENTRY" /\ AddToCandidate(op.entry)
       \/ op.kind = "SET_VALUE" /\ ApplySetValue(op)
       \/ op.kind \in {"TOMBSTONE", "MARK_DIRTY"} /\ ApplyFlags(op)

OpsApplied == pc = "apply" /\ done = Len(ops) /\ Publish(cand)

Next ==
    \/ \E op \in Op : Record(op)
    \/ Discard
    \/ \E e \in FreshEntry : Fill(e)
    \/ Adopt
    \/ StartCommit
    \/ StartCompact
    \/ ReserveCandidate
    \/ CopyBlocks
    \/ CopyEntry
    \/ EntriesCopied
    \/ ApplyOp
    \/ OpsApplied

Spec == Init /\ [][Next]_vars

-----------------------------------------------------------------------------
(* Every variable has its type and no store has more entries than an id    *)
(* can name.                                                               *)
TypeOK ==
    /\ base \in Seq(Entry) /\ out \in Seq(Entry) /\ cand \in Seq(Entry)
    /\ Len(base) <= MaxEntries /\ Len(out) <= MaxEntries /\ Len(cand) <= MaxEntries
    /\ ops \in Seq(Op)
    /\ pc \in {"idle", "reserve", "blocks", "entries", "apply"}
    /\ call \in {"none", "commit", "compact"}
    /\ done \in Nat
    /\ status \in {"OK", "NO_MEMORY", "OVERFLOW", "STATE", "INVALID_ARGUMENT"}

(* While the operations of a commit are applied, the candidate still holds *)
(* every entry of the base under its own id: same key, and deleted if it   *)
(* was deleted.  Later targets therefore mean what they meant when they    *)
(* were recorded, and no SET_VALUE revives a tombstone.                    *)
CandidateKeepsIds ==
    LET kept == IF pc = "apply" THEN Len(base) ELSE done
    IN  (call = "commit" /\ pc \in {"entries", "apply"}) =>
           /\ kept <= Len(cand)
           /\ \A i \in 1..kept : /\ cand[i].key = base[i].key
                                 /\ base[i].deleted => cand[i].deleted

(* A store that was committed holds no value of malformed shape, whatever  *)
(* the base and the edit held.                                             *)
OutWellFormed == \A i \in 1..Len(out) : out[i].value # Malformed

(* Nor does a candidate, at any moment of its construction.                *)
CandidateWellFormed == \A i \in 1..Len(cand) : cand[i].value # Malformed

(* Loop bookkeeping the proof of the invariants above needs.               *)
LoopBounds ==
    /\ pc \in {"idle", "reserve", "blocks"} => cand = <<>> /\ done = 0
    /\ pc # "idle" => call \in {"commit", "compact"}
    /\ pc = "entries" => done <= Len(base)
    /\ pc = "entries" /\ call = "commit" => Len(cand) = done
    /\ pc = "apply" => call = "commit"

IInv ==
    /\ TypeOK /\ LoopBounds
    /\ CandidateKeepsIds /\ CandidateWellFormed /\ OutWellFormed

(* A commit that replaces out keeps the ids of the base: entry i has the   *)
(* key of entry i, and what was deleted stays deleted.                     *)
PublishedKeepsIds ==
    out' # out /\ out' # <<>> /\ call = "commit" =>
        /\ Len(base) <= Len(out')
        /\ \A i \in 1..Len(base) : /\ out'[i].key = base[i].key
                                   /\ base[i].deleted => out'[i].deleted
IdsAreStable == [][PublishedKeepsIds]_vars

Ledger == INSTANCE StoreLedger

(* Each call is the promised one step on out, or none: intermediate states *)
(* of the candidate never show, failures leave base, edit and out alone.   *)
ImplementsLedger == Ledger!Spec
=============================================================================
