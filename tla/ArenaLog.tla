------------------------------ MODULE ArenaLog ------------------------------
(***************************************************************************)
(* What omc_arena promises its clients, without blocks or pointers: an     *)
(* append-only log of cells addressed by (offset, size) references.  A     *)
(* reference returned by an append reads the appended cells until the log  *)
(* is cleared; a range that is lent out is never written; a call that      *)
(* fails changes nothing.  Module Arena implements this specification with *)
(* heap blocks, growth and retirement.                                     *)
(***************************************************************************)
EXTENDS Integers, Sequences

CONSTANTS
    Cell,       \* what one byte of the arena may hold
    Chunks,     \* the byte strings callers append
    MaxRef      \* the largest value an omc_u32 reference field holds

VARIABLES
    log,        \* the bytes appended since the last clear, a function on 0..n-1
    end,        \* n, the number of bytes in the log
    lent,       \* the references whose views clients still hold
    result      \* status and reference of the last call

vars == <<log, end, lent, result>>

NoRef == [offset |-> 0, size |-> 0]
Answer(status, ref) == [status |-> status, ref |-> ref]

Range(r) == r.offset .. (r.offset + r.size - 1)
InLog(r) == r.offset + r.size <= end
Disjoint(r, s) == Range(r) \cap Range(s) = {}

Init ==
    /\ log = [i \in 0..-1 |-> 0]
    /\ end = 0
    /\ lent = {}
    /\ result = Answer("OK", NoRef)

(* The bytes of a caller, or of a view the caller borrowed from this log.  *)
Appendable ==
    Chunks \cup {[i \in 1..r.size |-> log[r.offset + i - 1]] : r \in lent}

LogAppend(bytes) ==
    /\ end + Len(bytes) <= MaxRef
    /\ end' = end + Len(bytes)
    /\ log' = [i \in 0..(end + Len(bytes) - 1) |->
                  IF i < end THEN log[i] ELSE bytes[i - end + 1]]
    /\ result' = Answer("OK", [offset |-> end, size |-> Len(bytes)])
    /\ UNCHANGED lent

Fail(status) ==
    /\ status \in {"NO_MEMORY", "OVERFLOW", "INVALID_ARGUMENT"}
    /\ result' = Answer(status, NoRef)
    /\ UNCHANGED <<log, end, lent>>

Reserve ==
    /\ result' = Answer("OK", NoRef)
    /\ UNCHANGED <<log, end, lent>>

Lend(r) ==
    /\ InLog(r)
    /\ lent' = lent \cup {r}
    /\ result' = Answer("OK", NoRef)
    /\ UNCHANGED <<log, end>>

Patch(r, cell) ==
    /\ InLog(r)
    /\ \A s \in lent : Disjoint(r, s)
    /\ log' = [i \in 0..(end - 1) |-> IF i \in Range(r) THEN cell ELSE log[i]]
    /\ result' = Answer("OK", NoRef)
    /\ UNCHANGED <<end, lent>>

Clear ==
    /\ log' = [i \in 0..-1 |-> 0]
    /\ end' = 0
    /\ lent' = {}
    /\ result' = Answer("OK", NoRef)

Refs == [offset : 0..MaxRef, size : 0..MaxRef]

Next ==
    \/ \E bytes \in Appendable : LogAppend(bytes)
    \/ \E status \in {"NO_MEMORY", "OVERFLOW", "INVALID_ARGUMENT"} : Fail(status)
    \/ Reserve
    \/ \E r \in Refs : Lend(r)
    \/ \E r \in Refs, cell \in Cell : Patch(r, cell)
    \/ Clear

Spec == Init /\ [][Next]_vars
=============================================================================
