---------------------------- MODULE StoreLedger ----------------------------
(***************************************************************************)
(* What omc_edit.h promises: a commit replaces out, at one point in time,  *)
(* by the base store with every recorded operation applied, or replaces    *)
(* nothing; compaction likewise by the base store without its tombstones.  *)
(* The effect of the operations is stated per entry, without a loop.       *)
(***************************************************************************)
EXTENDS Integers, Sequences, FiniteSets

CONSTANTS Key, Value, Malformed, MaxEntries, MaxOps

VARIABLES
    base,       \* entries of the store an edit is recorded against
    ops,        \* the operations recorded in the edit
    out,        \* entries of the store results go to
    status      \* answer of the last commit or compaction

vars == <<base, ops, out, status>>

Entry == [key : Key, value : Value, dirty : BOOLEAN, deleted : BOOLEAN]

Init == base = <<>> /\ ops = <<>> /\ out = <<>> /\ status = "OK"

-----------------------------------------------------------------------------
AddsBefore(j) == {i \in 1..(j - 1) : ops[i].kind = "ADD_ENTRY"}
Adds == AddsBefore(Len(ops) + 1)
Size == Len(base) + Cardinality(Adds)

(* The entry id i starts from: one of base, or the one the matching        *)
(* ADD_ENTRY carries.                                                      *)
Original(i) ==
    IF i <= Len(base) THEN base[i]
    ELSE LET j == CHOOSE k \in Adds : Cardinality(AddsBefore(k)) = i - Len(base) - 1
         IN  ops[j].entry

(* Operations that reach entry i: their target exists when they are        *)
(* applied.  Entries are numbered from 1 here, targets from 0.             *)
Reaching(i, kinds) ==
    {j \in 1..Len(ops) :
        /\ ops[j].kind \in kinds
        /\ ops[j].target = i - 1
        /\ i <= Len(base) + Cardinality(AddsBefore(j))}

Latest(js) == CHOOSE j \in js : \A k \in js : k <= j

Edited(i) ==
    LET sets == Reaching(i, {"SET_VALUE"})
    IN  [key     |-> Original(i).key,
         value   |-> IF sets = {} THEN Original(i).value ELSE ops[Latest(sets)].value,
         dirty   |-> \/ Original(i).dirty
                     \/ Reaching(i, {"SET_VALUE", "TOMBSTONE", "MARK_DIRTY"}) # {},
         deleted |-> \/ Original(i).deleted
                     \/ Reaching(i, {"TOMBSTONE"}) # {}]

LiveUpTo(n) == {i \in 1..n : ~base[i].deleted}

Record(op) == ops' = Append(ops, op) /\ status' = "OK" /\ UNCHANGED <<base, out>>
Discard == ops' = <<>> /\ UNCHANGED <<base, out, status>>
Fill(e) == base' = Append(base, e) /\ UNCHANGED <<ops, out, status>>
Adopt == base' = out /\ out' = <<>> /\ UNCHANGED <<ops, status>>

(* A value of malformed shape is never stored.                             *)
Commit ==
    /\ \A i \in 1..Len(base) : base[i].value # Malformed
    /\ \A j \in Adds : ops[j].entry.value # Malformed
    /\ \A i \in 1..Size : Edited(i).value # Malformed
    /\ Size <= MaxEntries
    /\ out' = [i \in 1..Size |-> Edited(i)]
    /\ status' = "OK"
    /\ UNCHANGED <<base, ops>>

(* A live entry follows the live entries before it.                        *)
Compact ==
    /\ Len(out') = Cardinality(LiveUpTo(Len(base)))
    /\ \A i \in LiveUpTo(Len(base)) : /\ out'[Cardinality(LiveUpTo(i))] = base[i]
                                      /\ base[i].value # Malformed
    /\ status' = "OK"
    /\ UNCHANGED <<base, ops>>

Refuse ==
    /\ status' \in {"NO_MEMORY", "OVERFLOW", "STATE", "INVALID_ARGUMENT"}
    /\ UNCHANGED <<base, ops, out>>

Op ==
    [kind : {"ADD_ENTRY"}, entry : Entry]
    \cup [kind : {"SET_VALUE"}, target : 0..MaxEntries, value : Value]
    \cup [kind : {"TOMBSTONE", "MARK_DIRTY"}, target : 0..MaxEntries]
    \cup [kind : {"UNKNOWN"}]

Next ==
    \/ \E op \in Op : Record(op)
    \/ \E e \in Entry : Fill(e)
    \/ Discard
    \/ Adopt
    \/ Commit
    \/ Compact
    \/ Refuse

Spec == Init /\ [][Next]_vars
=============================================================================
