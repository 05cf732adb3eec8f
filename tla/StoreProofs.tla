---------------------------- MODULE StoreProofs ----------------------------
(***************************************************************************)
(* Proofs about the two components a store is made of: the commits that    *)
(* publish its entries, and the arena that holds their values.             *)
(***************************************************************************)
EXTENDS StoreCommit, Arena, FiniteSetTheorems, TLAPS

-----------------------------------------------------------------------------
(* Proofs about commits for any keys, values, limits and any length of     *)
(* store and edit: what a commit publishes keeps the ids and the           *)
(* tombstones of its base, no malformed value is ever published, and every *)
(* commit and compaction is one step of the ledger, or none.               *)

(* Initially all tables are empty, and the empty table fits.               *)
LEMMA EmptyFits == <<>> \in Seq(Entry) /\ Len(<<>>) <= MaxEntries
  BY BoundAssumption

(* omc_edit_init on empty stores satisfies the invariant.                  *)
LEMMA CommitInit == Init => IInv
  BY EmptyFits DEF Init, IInv, TypeOK, LoopBounds, CandidateKeepsIds, CandidateWellFormed,
         OutWellFormed, Entry, Op

(* A failed call drops the candidate and nothing else.                     *)
LEMMA FailStep ==
    ASSUME IInv, NEW answer \in {"NO_MEMORY", "OVERFLOW", "STATE", "INVALID_ARGUMENT"},
           Fail(answer)
    PROVE  IInv'
  BY EmptyFits DEF Fail, Return, IInv, TypeOK, LoopBounds, CandidateKeepsIds,
         CandidateWellFormed, OutWellFormed

(* Publishing puts the candidate in place of out.                          *)
LEMMA PublishStep ==
    ASSUME IInv, Publish(cand)
    PROVE  IInv'
  BY EmptyFits DEF Publish, Return, IInv, TypeOK, LoopBounds, CandidateKeepsIds,
         CandidateWellFormed, OutWellFormed

(* What clients do between calls touches no candidate.                     *)
LEMMA ClientStep ==
    ASSUME IInv,
           \/ \E op \in Op : Record(op)
           \/ Discard
           \/ \E e \in FreshEntry : Fill(e)
           \/ Adopt
    PROVE  IInv'
  <1>1. FreshEntry \subseteq Entry
    BY DEF FreshEntry, Entry
  <1>2. pc = "idle" /\ UNCHANGED <<cand, pc, call, done>>
    BY DEF Record, Discard, Fill, Adopt
  <1>3. base' \in Seq(Entry) /\ out' \in Seq(Entry) /\ ops' \in Seq(Op)
    <2>1. base \in Seq(Entry) /\ out \in Seq(Entry) /\ ops \in Seq(Op)
      BY DEF IInv, TypeOK
    <2>2. ASSUME NEW op \in Op, Record(op)
          PROVE  base' \in Seq(Entry) /\ out' \in Seq(Entry) /\ ops' \in Seq(Op)
      BY <2>1, <2>2 DEF Record
    <2>3. ASSUME NEW e \in Entry, Fill(e)
          PROVE  base' \in Seq(Entry) /\ out' \in Seq(Entry) /\ ops' \in Seq(Op)
      BY <2>1, <2>3 DEF Fill
    <2>4. CASE Discard \/ Adopt
      <3>1. <<>> \in Seq(Entry) /\ <<>> \in Seq(Op)
        OBVIOUS
      <3>2. CASE Discard
        BY <2>1, <3>1, <3>2, Zenon DEF Discard
      <3>3. CASE Adopt
        BY <2>1, <3>1, <3>3, Zenon DEF Adopt
      <3>4. QED
        BY <2>4, <3>2, <3>3
    <2>5. QED
      BY <1>1, <2>2, <2>3, <2>4
  <1>4. status' \in {"OK", "NO_MEMORY", "OVERFLOW", "STATE", "INVALID_ARGUMENT"}
    BY DEF Record, Discard, Fill, Adopt, IInv, TypeOK
  <1>5. OutWellFormed'
    BY DEF Record, Discard, Fill, Adopt, IInv, OutWellFormed
  <1>6. Len(base') <= MaxEntries /\ Len(out') <= MaxEntries
    <2>1. Len(base) <= MaxEntries /\ Len(out) <= MaxEntries /\ base \in Seq(Entry)
      BY DEF IInv, TypeOK
    <2>2. CASE UNCHANGED <<base, out>>
      BY <2>1, <2>2
    <2>3. CASE \E e \in FreshEntry : Fill(e)
      BY <2>1, <2>3, <1>1, BoundAssumption DEF Fill
    <2>4. CASE Adopt
      BY <2>1, <2>4, EmptyFits, Zenon DEF Adopt
    <2>5. QED
      BY <2>2, <2>3, <2>4 DEF Record, Discard
  <1>7. QED
    BY <1>2, <1>3, <1>4, <1>5, <1>6
    DEF IInv, TypeOK, LoopBounds, CandidateKeepsIds, CandidateWellFormed

(* A call starts with an empty candidate.                                  *)
LEMMA StartStep ==
    ASSUME IInv, StartCommit \/ StartCompact
    PROVE  IInv'
  <1>1. CASE Fail("INVALID_ARGUMENT")
    BY <1>1, FailStep
  <1>2. CASE ~Fail("INVALID_ARGUMENT")
    BY <1>2 DEF StartCommit, StartCompact, IInv, TypeOK, LoopBounds,
                CandidateKeepsIds, CandidateWellFormed, OutWellFormed
  <1>3. QED
    BY <1>1, <1>2

(* Obtaining memory for the candidate succeeds or ends the call.           *)
LEMMA PrepareStep ==
    ASSUME IInv, ReserveCandidate \/ CopyBlocks
    PROVE  IInv'
  <1>1. CASE \E answer \in {"NO_MEMORY", "OVERFLOW"} : Fail(answer)
    BY <1>1, FailStep
  <1>2. CASE pc = "reserve" /\ pc' = "blocks" /\ UNCHANGED <<base, ops, out, cand, call, done, status>>
    BY <1>2 DEF IInv, TypeOK, LoopBounds, CandidateKeepsIds, CandidateWellFormed,
                OutWellFormed
  <1>3. CASE pc = "blocks" /\ pc' = "entries" /\ UNCHANGED <<base, ops, out, cand, call, done, status>>
    <2>1. call' \in {"commit", "compact"} /\ cand' = <<>> /\ done' = 0
      BY <1>3 DEF IInv, LoopBounds
    <2>2. QED
      BY <1>3, <2>1 DEF IInv, TypeOK, LoopBounds, CandidateKeepsIds, CandidateWellFormed,
                        OutWellFormed
  <1>4. QED
    BY <1>1, <1>2, <1>3 DEF ReserveCandidate, CopyBlocks

(* An entry joins the candidate behind the ones it holds.                  *)
LEMMA AddStep ==
    ASSUME IInv, NEW e \in Entry, AddToCandidate(e),
           \/ pc = "entries" /\ done < Len(base) /\ e = base[done + 1]
           \/ pc = "apply"
    PROVE  IInv'
  <1>1. CASE \E answer \in {"NO_MEMORY", "OVERFLOW", "STATE"} : Fail(answer)
    BY <1>1, FailStep
  <1>2. CASE /\ Clonable(e.value) /\ Len(cand) < MaxEntries /\ cand' = Append(cand, e) /\ done' = done + 1
             /\ UNCHANGED <<base, ops, out, pc, call, status>>
    <2>1. /\ cand \in Seq(Entry) /\ done \in Nat /\ base \in Seq(Entry)
          /\ cand' \in Seq(Entry) /\ Len(cand') = Len(cand) + 1
          /\ cand'[Len(cand) + 1] = e
          /\ \A i \in 1..Len(cand) : cand'[i] = cand[i]
      BY <1>2 DEF IInv, TypeOK
    <2>2. TypeOK' /\ LoopBounds' /\ OutWellFormed'
      BY <1>2, <2>1, BoundAssumption DEF IInv, TypeOK, LoopBounds, OutWellFormed
    <2>3. CandidateWellFormed'
      BY <1>2, <2>1 DEF IInv, CandidateWellFormed, Clonable
    <2>4. CandidateKeepsIds'
      <3>1. CASE pc = "entries" /\ call = "commit"
        <4>1. Len(cand) = done /\ done < Len(base) /\ e = base[done + 1]
          BY <3>1 DEF IInv, LoopBounds
        <4>2. QED
          BY <1>2, <2>1, <3>1, <4>1 DEF IInv, CandidateKeepsIds
      <3>2. CASE pc = "apply" /\ call = "commit"
        BY <1>2, <2>1, <3>2 DEF IInv, CandidateKeepsIds
      <3>3. CASE call # "commit"
        BY <1>2, <3>3 DEF CandidateKeepsIds
      <3>4. QED
        BY <3>1, <3>2, <3>3
    <2>5. QED
      BY <2>2, <2>3, <2>4 DEF IInv
  <1>3. QED
    BY <1>1, <1>2 DEF AddToCandidate

(* A commit copies every entry of the base, a compaction the live ones.    *)
LEMMA CopyStep ==
    ASSUME IInv, CopyEntry \/ EntriesCopied
    PROVE  IInv'
  <1>1. CASE CopyEntry
    <2>1. pc = "entries" /\ done < Len(base) /\ base[done + 1] \in Entry
      BY <1>1 DEF CopyEntry, IInv, TypeOK
    <2>2. CASE AddToCandidate(base[done + 1])
      BY <2>1, <2>2, AddStep
    <2>3. CASE call = "compact" /\ Skip
      BY <2>1, <2>3 DEF Skip, IInv, TypeOK, LoopBounds, CandidateKeepsIds,
                        CandidateWellFormed, OutWellFormed
    <2>4. QED
      BY <1>1, <2>2, <2>3 DEF CopyEntry, Skip
  <1>2. CASE EntriesCopied
    <2>1. CASE Publish(cand)
      BY <2>1, PublishStep
    <2>2. CASE /\ call # "compact" /\ pc = "entries" /\ done = Len(base)
               /\ pc' = "apply" /\ done' = 0
               /\ UNCHANGED <<base, ops, out, cand, call, status>>
      <3>1. call = "commit"
        BY <2>2 DEF IInv, LoopBounds
      <3>2. QED
        BY <2>2, <3>1 DEF IInv, TypeOK, LoopBounds, CandidateKeepsIds,
                          CandidateWellFormed, OutWellFormed
    <2>3. QED
      BY <1>2, <2>1, <2>2 DEF EntriesCopied
  <1>3. QED
    BY <1>1, <1>2

(* An operation rewrites one entry of the candidate without changing its   *)
(* key or clearing its tombstone.                                          *)
LEMMA UpdateStep ==
    ASSUME IInv, pc = "apply", NEW op, op.target \in Nat, Hits(op), NEW e \in Entry,
           Update(op, e), e.key = cand[op.target + 1].key,
           cand[op.target + 1].deleted => e.deleted, e.value # Malformed
    PROVE  IInv'
  <1>1. /\ cand \in Seq(Entry) /\ done \in Nat /\ base \in Seq(Entry)
        /\ cand' = [cand EXCEPT ![op.target + 1] = e]
        /\ cand' \in Seq(Entry) /\ Len(cand') = Len(cand)
        /\ \A i \in 1..Len(cand) : cand'[i] = IF i = op.target + 1 THEN e ELSE cand[i]
    BY DEF IInv, TypeOK, Update, Hits
  <1>2. done' = done + 1 /\ UNCHANGED <<base, ops, out, pc, call, status>>
    BY DEF Update
  <1>3. TypeOK' /\ LoopBounds' /\ OutWellFormed'
    BY <1>1, <1>2 DEF IInv, TypeOK, LoopBounds, OutWellFormed
  <1>4. CandidateWellFormed'
    BY <1>1 DEF IInv, CandidateWellFormed
  <1>5. CandidateKeepsIds'
    <2>1. call = "commit"
      BY DEF IInv, LoopBounds
    <2>2. /\ Len(base) <= Len(cand)
          /\ \A i \in 1..Len(base) : /\ cand[i].key = base[i].key
                                     /\ base[i].deleted => cand[i].deleted
      BY <2>1 DEF IInv, CandidateKeepsIds
    <2>3. \A i \in 1..Len(base) : /\ cand'[i].key = base[i].key
                                  /\ base[i].deleted => cand'[i].deleted
      BY <1>1, <2>2
    <2>4. QED
      BY <1>1, <1>2, <2>2, <2>3 DEF CandidateKeepsIds
  <1>6. QED
    BY <1>3, <1>4, <1>5 DEF IInv

(* Operations append entries or update them in place.                      *)
LEMMA ApplyStep ==
    ASSUME IInv, ApplyOp
    PROVE  IInv'
  <1> DEFINE op == ops[done + 1]
             e == cand[op.target + 1]
  <1>1. pc = "apply" /\ done < Len(ops) /\ op \in Op
    BY DEF ApplyOp, IInv, TypeOK
  <1>2. CASE op.kind = "ADD_ENTRY" /\ AddToCandidate(op.entry)
    <2>1. op.entry \in Entry
      BY <1>1, <1>2 DEF Op, FreshEntry, Entry
    <2>2. QED
      BY <1>1, <1>2, <2>1, AddStep
  <1>3. ASSUME op.kind \in {"SET_VALUE", "TOMBSTONE", "MARK_DIRTY"}, Hits(op)
        PROVE  e \in Entry /\ e.value # Malformed /\ op.target \in Nat
    <2>1. op.target \in Nat
      BY <1>1, <1>3, BoundAssumption DEF Op, Target
    <2>2. op.target + 1 \in 1..Len(cand)
      BY <1>3, <2>1 DEF Hits, IInv, TypeOK
    <2>3. QED
      BY <2>1, <2>2 DEF IInv, TypeOK, CandidateWellFormed
  <1>4. CASE Skip
    BY <1>1, <1>4 DEF Skip, IInv, TypeOK, LoopBounds, CandidateKeepsIds,
                      CandidateWellFormed, OutWellFormed
  <1>5. CASE \E answer \in {"NO_MEMORY", "OVERFLOW", "STATE"} : Fail(answer)
    BY <1>5, FailStep
  <1>6. CASE /\ op.kind = "SET_VALUE" /\ Hits(op) /\ Clonable(op.value)
             /\ Update(op, [e EXCEPT !.value = op.value, !.dirty = TRUE])
    <2> DEFINE f == [e EXCEPT !.value = op.value, !.dirty = TRUE]
    <2>1. op.value \in Value
      BY <1>1, <1>6 DEF Op
    <2>2. f \in Entry /\ f.key = e.key /\ f.deleted = e.deleted /\ f.value = op.value
      BY <1>3, <1>6, <2>1 DEF Entry
    <2>3. Update(op, f) /\ Hits(op) /\ op.target \in Nat /\ f.value # Malformed
      BY <1>3, <1>6, <2>2 DEF Clonable
    <2> HIDE DEF f, op
    <2>4. QED
      BY <1>1, <2>2, <2>3, UpdateStep
  <1>7. CASE /\ op.kind = "TOMBSTONE" /\ Hits(op)
             /\ Update(op, [e EXCEPT !.dirty = TRUE, !.deleted = TRUE])
    <2> DEFINE f == [e EXCEPT !.dirty = TRUE, !.deleted = TRUE]
    <2>1. f \in Entry /\ f.key = e.key /\ f.deleted = TRUE /\ f.value = e.value
      BY <1>3, <1>7 DEF Entry
    <2>2. Update(op, f) /\ Hits(op) /\ op.target \in Nat /\ f.value # Malformed
      BY <1>3, <1>7, <2>1
    <2> HIDE DEF f, op
    <2>3. QED
      BY <1>1, <2>1, <2>2, UpdateStep
  <1>8. CASE /\ op.kind = "MARK_DIRTY" /\ Hits(op)
             /\ Update(op, [e EXCEPT !.dirty = TRUE])
    <2> DEFINE f == [e EXCEPT !.dirty = TRUE]
    <2>1. f \in Entry /\ f.key = e.key /\ f.deleted = e.deleted /\ f.value = e.value
      BY <1>3, <1>8 DEF Entry
    <2>2. Update(op, f) /\ Hits(op) /\ op.target \in Nat /\ f.value # Malformed
      BY <1>3, <1>8, <2>1
    <2> HIDE DEF f, op
    <2>3. QED
      BY <1>1, <2>1, <2>2, UpdateStep
  <1>9. QED
    BY <1>2, <1>4, <1>5, <1>6, <1>7, <1>8 DEF ApplyOp, ApplySetValue, ApplyFlags

(* Every step of a client or of a call keeps the invariant.                *)
LEMMA CommitStep == IInv /\ [Next]_vars => IInv'
  <1> SUFFICES ASSUME IInv, [Next]_vars PROVE IInv'
    OBVIOUS
  <1>1. CASE UNCHANGED vars
    BY <1>1 DEF vars, IInv, TypeOK, LoopBounds, CandidateKeepsIds, CandidateWellFormed,
                OutWellFormed
  <1>2. CASE OpsApplied
    BY <1>2, PublishStep DEF OpsApplied
  <1>3. QED
    BY <1>1, <1>2, ClientStep, StartStep, PrepareStep, CopyStep, ApplyStep DEF Next

(* For stores and edits of any length: the candidate a commit builds keeps *)
(* ids and tombstones at every moment and holds only well-formed values.   *)
THEOREM CommitInvariant == Spec => []IInv
  <1>1. QED
    BY CommitInit, CommitStep, PTL DEF Spec

(* The type invariant of the run.                                          *)
THEOREM CommitTypeOK == Spec => []TypeOK
  <1>1. IInv => TypeOK
    BY DEF IInv
  <1>2. QED
    BY <1>1, CommitInvariant, PTL

(* Targets keep their meaning while a commit applies its operations.       *)
THEOREM CommitKeepsIds == Spec => []CandidateKeepsIds
  <1>1. IInv => CandidateKeepsIds
    BY DEF IInv
  <1>2. QED
    BY <1>1, CommitInvariant, PTL

(* No malformed value reaches the output store.                            *)
THEOREM CommitOutWellFormed == Spec => []OutWellFormed
  <1>1. IInv => OutWellFormed
    BY DEF IInv
  <1>2. QED
    BY <1>1, CommitInvariant, PTL

(* Only the publish of a finished candidate makes a commit change out, and *)
(* that candidate has every id and every tombstone of the base.            *)
THEOREM CommitIdsAreStable == Spec => IdsAreStable
  <1>1. IInv /\ [Next]_vars => [PublishedKeepsIds]_vars
    <2> SUFFICES ASSUME IInv, Next PROVE PublishedKeepsIds
      BY DEF vars
    <2>1. CASE OpsApplied
      BY <2>1 DEF OpsApplied, Publish, PublishedKeepsIds, IInv, CandidateKeepsIds
    <2>2. CASE EntriesCopied
      BY <2>2 DEF EntriesCopied, Publish, PublishedKeepsIds, IInv
    <2>3. CASE \/ \E op \in Op : Record(op)
               \/ Discard
               \/ \E e \in FreshEntry : Fill(e)
               \/ Adopt
      BY <2>3 DEF Record, Discard, Fill, Adopt, PublishedKeepsIds
    <2>4. CASE \/ StartCommit \/ StartCompact \/ ReserveCandidate \/ CopyBlocks
               \/ CopyEntry \/ ApplyOp
      <3>1. out' = out
        BY <2>4 DEF StartCommit, StartCompact, ReserveCandidate, CopyBlocks, CopyEntry,
                    ApplyOp, AddToCandidate, ApplySetValue, ApplyFlags, Update, Skip, Fail
      <3>2. QED
        BY <3>1 DEF PublishedKeepsIds
    <2>5. QED
      BY <2>1, <2>2, <2>3, <2>4 DEF Next
  <1>2. QED
    BY <1>1, CommitInvariant, PTL DEF Spec, IdsAreStable
-----------------------------------------------------------------------------
(* The refinement: every step of a call is no step of the ledger until the *)
(* publish, and the candidate then holds what the ledger promises.  The    *)
(* link relates the candidate of a call to the ledger's view of the base   *)
(* and of the operations applied so far.                                   *)

(* The ledger counts as this module does.                                  *)
LEMMA SameCount == \A S : Ledger!Cardinality(S) = Cardinality(S)
  BY DEF Ledger!Cardinality, Cardinality

(* The operations among the first n that reach entry i, and entry i with   *)
(* them applied.                                                           *)
Touching == {"SET_VALUE", "TOMBSTONE", "MARK_DIRTY"}

ReachingBy(n, i, kinds) == {j \in Ledger!Reaching(i, kinds) : j <= n}

EditedBy(n, i) ==
    LET sets == ReachingBy(n, i, {"SET_VALUE"})
    IN  [key     |-> Ledger!Original(i).key,
         value   |-> IF sets = {} THEN Ledger!Original(i).value
                     ELSE ops[Ledger!Latest(sets)].value,
         dirty   |-> \/ Ledger!Original(i).dirty
                     \/ ReachingBy(n, i, Touching) # {},
         deleted |-> \/ Ledger!Original(i).deleted
                     \/ ReachingBy(n, i, {"TOMBSTONE"}) # {}]

CopiesLink ==
    pc = "entries" /\ call = "commit" => \A i \in 1..done : cand[i] = base[i]

CompactLink ==
    pc = "entries" /\ call = "compact" =>
        /\ Len(cand) = Cardinality(Ledger!LiveUpTo(done))
        /\ \A i \in Ledger!LiveUpTo(done) :
              /\ cand[Cardinality(Ledger!LiveUpTo(i))] = base[i]
              /\ base[i].value # Malformed

ApplyLink ==
    pc = "apply" =>
        /\ done <= Len(ops)
        /\ \A i \in 1..Len(base) : base[i].value # Malformed
        /\ \A j \in Ledger!AddsBefore(done + 1) : ops[j].entry.value # Malformed
        /\ Len(cand) = Len(base) + Cardinality(Ledger!AddsBefore(done + 1))
        /\ \A i \in 1..Len(cand) : cand[i] = EditedBy(done, i)

Link == CopiesLink /\ CompactLink /\ ApplyLink

(* Counting the additions among the first operations, or the live entries  *)
(* among the first of the base, one more at a time.                        *)
LEMMA CountUpTo ==
    ASSUME NEW n \in Nat, NEW S, S \subseteq 1..n
    PROVE  IsFiniteSet(S) /\ Cardinality(S) \in Nat /\ (S = {} => Cardinality(S) = 0)
  <1>1. IsFiniteSet(1..n)
    BY FS_Interval
  <1>2. IsFiniteSet(S)
    BY <1>1, FS_Subset
  <1>3. QED
    BY <1>2, FS_CardinalityType, FS_EmptySet

(* One more counts one more.                                               *)
LEMMA CountOneMore ==
    ASSUME NEW n \in Nat, NEW S, S \subseteq 1..n
    PROVE  Cardinality(S \cup {n + 1}) = Cardinality(S) + 1
  <1>1. IsFiniteSet(S)
    BY CountUpTo
  <1>2. QED
    <2>1. n + 1 \notin S
      OBVIOUS
    <2>2. QED
      BY <1>1, <2>1, FS_AddElement

(* Fewer never count more.                                                 *)
LEMMA CountMonotone ==
    ASSUME NEW n \in Nat, NEW S, NEW T, T \subseteq 1..n, S \subseteq T
    PROVE  Cardinality(S) <= Cardinality(T)
  <1>1. IsFiniteSet(T)
    BY CountUpTo
  <1>2. QED
    BY <1>1, FS_Subset

(* Additions of an edit are told apart by how many precede them.           *)
LEMMA AddsInOrder ==
    ASSUME ops \in Seq(Op), NEW j \in Ledger!Adds, NEW k \in 1..(Len(ops) + 1), j < k
    PROVE  Cardinality(Ledger!AddsBefore(j)) < Cardinality(Ledger!AddsBefore(k))
  <1> DEFINE upToJ == Ledger!AddsBefore(j) \cup {j}
  <1>1. j \in Nat /\ k \in Nat /\ j - 1 \in Nat /\ k - 1 \in Nat
    BY DEF Ledger!Adds, Ledger!AddsBefore
  <1>2. /\ Ledger!AddsBefore(j) \subseteq 1..(j - 1)
        /\ Ledger!AddsBefore(k) \subseteq 1..(k - 1)
        /\ upToJ \subseteq Ledger!AddsBefore(k)
    BY <1>1 DEF Ledger!Adds, Ledger!AddsBefore
  <1>3. Cardinality(upToJ) = Cardinality(Ledger!AddsBefore(j)) + 1
    <2>1. (j - 1) + 1 = j
      BY <1>1
    <2>2. QED
      BY <1>1, <1>2, <2>1, CountOneMore
  <1>4. /\ Cardinality(upToJ) <= Cardinality(Ledger!AddsBefore(k))
        /\ Cardinality(Ledger!AddsBefore(j)) \in Nat
        /\ Cardinality(Ledger!AddsBefore(k)) \in Nat
    BY <1>1, <1>2, CountMonotone, CountUpTo
  <1>5. QED
    BY <1>3, <1>4

(* An entry added by operation j starts from what that operation carries.  *)
LEMMA OriginalOfAdd ==
    ASSUME ops \in Seq(Op), base \in Seq(Entry), NEW j \in Ledger!Adds
    PROVE  Ledger!Original(Len(base) + Cardinality(Ledger!AddsBefore(j)) + 1) = ops[j].entry
  <1> DEFINE i == Len(base) + Cardinality(Ledger!AddsBefore(j)) + 1
             At(k) == Cardinality(Ledger!AddsBefore(k)) = i - Len(base) - 1
  <1>1. \A k \in Ledger!Adds : k \in 1..Len(ops) /\ Cardinality(Ledger!AddsBefore(k)) \in Nat
    <2> SUFFICES ASSUME NEW k \in Ledger!Adds
                 PROVE  k \in 1..Len(ops) /\ Cardinality(Ledger!AddsBefore(k)) \in Nat
      OBVIOUS
    <2>1. k \in 1..Len(ops) /\ k - 1 \in Nat /\ Ledger!AddsBefore(k) \subseteq 1..(k - 1)
      BY DEF Ledger!Adds, Ledger!AddsBefore
    <2>2. QED
      BY <2>1, CountUpTo
  <1>2. Len(base) \in Nat /\ At(j) /\ i > Len(base)
    BY <1>1
  <1>3. ASSUME NEW k \in Ledger!Adds, At(k)
        PROVE  k = j
    <2>1. Cardinality(Ledger!AddsBefore(k)) = Cardinality(Ledger!AddsBefore(j))
      BY <1>1, <1>2, <1>3
    <2>2. j \in 1..Len(ops) /\ k \in 1..Len(ops)
      BY <1>1
    <2>3. j \in 1..(Len(ops) + 1) /\ k \in 1..(Len(ops) + 1)
      BY <2>2
    <2>4. CASE j < k
      BY <1>1, <2>1, <2>3, <2>4, AddsInOrder
    <2>5. CASE k < j
      BY <1>1, <2>1, <2>3, <2>5, AddsInOrder
    <2>6. QED
      BY <2>2, <2>4, <2>5
  <1>4. (CHOOSE k \in Ledger!Adds : At(k)) = j
    BY <1>2, <1>3
  <1>5. Ledger!Original(i) = ops[CHOOSE k \in Ledger!Adds : At(k)].entry
    <2>1. ~(i <= Len(base))
      BY <1>1, <1>2
    <2>2. QED
      BY <2>1, SameCount DEF Ledger!Original
  <1>6. QED
    BY <1>4, <1>5

(* A step that leaves base and edit alone keeps the link when the          *)
(* candidate and the counter agree with what the ledger then sees.         *)
LEMMA ApplyLinkNext ==
    ASSUME UNCHANGED <<base, ops>>, pc' = "apply",
           done' <= Len(ops),
           \A i \in 1..Len(base) : base[i].value # Malformed,
           \A j \in Ledger!AddsBefore(done' + 1) : ops[j].entry.value # Malformed,
           Len(cand') = Len(base) + Cardinality(Ledger!AddsBefore(done' + 1)),
           \A i \in 1..Len(cand') : cand'[i] = EditedBy(done', i)
    PROVE  ApplyLink'
  <1>1. ASSUME NEW i \in 1..Len(cand')
        PROVE  cand'[i] = EditedBy(done, i)'
    <2>1. Ledger!Original(i)' = Ledger!Original(i)
      BY DEF Ledger!Original, Ledger!Adds, Ledger!AddsBefore
    <2>2. /\ ReachingBy(done, i, {"SET_VALUE"})' = ReachingBy(done', i, {"SET_VALUE"})
          /\ ReachingBy(done, i, {"TOMBSTONE"})' = ReachingBy(done', i, {"TOMBSTONE"})
          /\ ReachingBy(done, i, Touching)' = ReachingBy(done', i, Touching)
      BY DEF ReachingBy, Ledger!Reaching, Ledger!AddsBefore, Touching
    <2>3. EditedBy(done, i)' = EditedBy(done', i)
      BY <2>1, <2>2 DEF EditedBy, Ledger!Latest
    <2>4. QED
      BY <2>3
  <1>2. QED
    BY <1>1 DEF ApplyLink, Ledger!AddsBefore

(* The same for the copying loop of a compaction.                          *)
LEMMA CompactLinkNext ==
    ASSUME UNCHANGED <<base, ops>>,
           Len(cand') = Cardinality(Ledger!LiveUpTo(done')),
           \A i \in Ledger!LiveUpTo(done') :
              /\ cand'[Cardinality(Ledger!LiveUpTo(i))] = base[i]
              /\ base[i].value # Malformed
    PROVE  CompactLink'
  BY DEF CompactLink, Ledger!LiveUpTo

(* One more operation applied: the additions before the next one, and the  *)
(* operations that reach an entry.                                         *)
LEMMA AddsNext ==
    ASSUME ops \in Seq(Op), NEW n \in Nat, n < Len(ops)
    PROVE  /\ ops[n + 1].kind # "ADD_ENTRY" =>
                 Ledger!AddsBefore(n + 2) = Ledger!AddsBefore(n + 1)
           /\ ops[n + 1].kind = "ADD_ENTRY" =>
                 /\ Ledger!AddsBefore(n + 2) = Ledger!AddsBefore(n + 1) \cup {n + 1}
                 /\ Cardinality(Ledger!AddsBefore(n + 2)) =
                       Cardinality(Ledger!AddsBefore(n + 1)) + 1
           /\ Cardinality(Ledger!AddsBefore(n + 1)) \in Nat
  <1>1. Ledger!AddsBefore(n + 1) \subseteq 1..n
    BY DEF Ledger!AddsBefore
  <1>2. \A m : m \in 1..(n + 1) <=> m \in 1..n \/ m = n + 1
    OBVIOUS
  <1>3. ops[n + 1].kind # "ADD_ENTRY" => Ledger!AddsBefore(n + 2) = Ledger!AddsBefore(n + 1)
    BY <1>2 DEF Ledger!AddsBefore
  <1>4. ops[n + 1].kind = "ADD_ENTRY" =>
           Ledger!AddsBefore(n + 2) = Ledger!AddsBefore(n + 1) \cup {n + 1}
    BY <1>2 DEF Ledger!AddsBefore
  <1>5. QED
    BY <1>1, <1>3, <1>4, CountUpTo, CountOneMore

(* The next operation joins those that reach an entry, or does not.        *)
LEMMA ReachingNext ==
    ASSUME ops \in Seq(Op), NEW n \in Nat, n < Len(ops), NEW i, NEW kinds
    PROVE  /\ n + 1 \in Ledger!Reaching(i, kinds) =>
                 ReachingBy(n + 1, i, kinds) = ReachingBy(n, i, kinds) \cup {n + 1}
           /\ n + 1 \notin Ledger!Reaching(i, kinds) =>
                 ReachingBy(n + 1, i, kinds) = ReachingBy(n, i, kinds)
           /\ n + 1 \in Ledger!Reaching(i, kinds) <=>
                 /\ ops[n + 1].kind \in kinds
                 /\ ops[n + 1].target = i - 1
                 /\ i <= Len(base) + Cardinality(Ledger!AddsBefore(n + 1))
  <1>1. Ledger!Reaching(i, kinds) \subseteq 1..Len(ops)
    BY DEF Ledger!Reaching
  <1>2. \A m \in Ledger!Reaching(i, kinds) : m <= n + 1 <=> m <= n \/ m = n + 1
    BY <1>1
  <1>3. n + 1 \in 1..Len(ops)
    OBVIOUS
  <1>4. QED
    BY <1>2, <1>3, SameCount DEF ReachingBy, Ledger!Reaching

(* An operation that does not reach an entry leaves it alone.              *)
LEMMA NotReached ==
    ASSUME ops \in Seq(Op), NEW n \in Nat, n < Len(ops), NEW i,
           n + 1 \notin Ledger!Reaching(i, Touching)
    PROVE  EditedBy(n + 1, i) = EditedBy(n, i)
  <1>1. \A kinds \in SUBSET Touching : n + 1 \notin Ledger!Reaching(i, kinds)
    BY DEF Ledger!Reaching
  <1>2. \A kinds \in SUBSET Touching : ReachingBy(n + 1, i, kinds) = ReachingBy(n, i, kinds)
    BY <1>1, ReachingNext
  <1>3. QED
    BY <1>2 DEF EditedBy, Touching

(* The next operation is the latest.                                       *)
LEMMA LatestOfNext ==
    ASSUME NEW n \in Nat, NEW S, \A j \in S : j \in Nat /\ j <= n
    PROVE  Ledger!Latest(S \cup {n + 1}) = n + 1
  BY DEF Ledger!Latest

(* SET_VALUE: its value, and dirty.                                        *)
LEMMA ReachedBySet ==
    ASSUME ops \in Seq(Op), NEW n \in Nat, n < Len(ops), NEW i,
           n + 1 \in Ledger!Reaching(i, {"SET_VALUE"})
    PROVE  EditedBy(n + 1, i) =
              [key     |-> EditedBy(n, i).key,
               value   |-> ops[n + 1].value,
               dirty   |-> TRUE,
               deleted |-> EditedBy(n, i).deleted]
  <1>1. n + 1 \in Ledger!Reaching(i, Touching) /\ n + 1 \notin Ledger!Reaching(i, {"TOMBSTONE"})
    BY DEF Ledger!Reaching, Touching
  <1>2. \A j \in ReachingBy(n, i, {"SET_VALUE"}) : j \in Nat /\ j <= n
    BY DEF ReachingBy, Ledger!Reaching
  <1>3. ReachingBy(n + 1, i, {"SET_VALUE"}) = ReachingBy(n, i, {"SET_VALUE"}) \cup {n + 1}
    BY ReachingNext
  <1>4. Ledger!Latest(ReachingBy(n + 1, i, {"SET_VALUE"})) = n + 1
    BY <1>2, <1>3, LatestOfNext
  <1>5. ReachingBy(n + 1, i, Touching) = ReachingBy(n, i, Touching) \cup {n + 1}
    BY <1>1, ReachingNext
  <1>6. ReachingBy(n + 1, i, {"TOMBSTONE"}) = ReachingBy(n, i, {"TOMBSTONE"})
    BY <1>1, ReachingNext
  <1>7. QED
    BY <1>3, <1>4, <1>5, <1>6 DEF EditedBy

(* TOMBSTONE: dirty and deleted.                                           *)
LEMMA ReachedByTombstone ==
    ASSUME ops \in Seq(Op), NEW n \in Nat, n < Len(ops), NEW i,
           n + 1 \in Ledger!Reaching(i, {"TOMBSTONE"})
    PROVE  EditedBy(n + 1, i) =
              [key     |-> EditedBy(n, i).key,
               value   |-> EditedBy(n, i).value,
               dirty   |-> TRUE,
               deleted |-> TRUE]
  <1>1. n + 1 \in Ledger!Reaching(i, Touching) /\ n + 1 \notin Ledger!Reaching(i, {"SET_VALUE"})
    BY DEF Ledger!Reaching, Touching
  <1>2. ReachingBy(n + 1, i, {"TOMBSTONE"}) = ReachingBy(n, i, {"TOMBSTONE"}) \cup {n + 1}
    BY ReachingNext
  <1>3. ReachingBy(n + 1, i, Touching) = ReachingBy(n, i, Touching) \cup {n + 1}
    BY <1>1, ReachingNext
  <1>4. ReachingBy(n + 1, i, {"SET_VALUE"}) = ReachingBy(n, i, {"SET_VALUE"})
    BY <1>1, ReachingNext
  <1>5. QED
    BY <1>2, <1>3, <1>4 DEF EditedBy

(* MARK_DIRTY: dirty and nothing else.                                     *)
LEMMA ReachedByMark ==
    ASSUME ops \in Seq(Op), NEW n \in Nat, n < Len(ops), NEW i,
           n + 1 \in Ledger!Reaching(i, {"MARK_DIRTY"})
    PROVE  EditedBy(n + 1, i) =
              [key     |-> EditedBy(n, i).key,
               value   |-> EditedBy(n, i).value,
               dirty   |-> TRUE,
               deleted |-> EditedBy(n, i).deleted]
  <1>1. /\ n + 1 \in Ledger!Reaching(i, Touching)
        /\ n + 1 \notin Ledger!Reaching(i, {"SET_VALUE"})
        /\ n + 1 \notin Ledger!Reaching(i, {"TOMBSTONE"})
    BY DEF Ledger!Reaching, Touching
  <1>2. /\ ReachingBy(n + 1, i, {"TOMBSTONE"}) = ReachingBy(n, i, {"TOMBSTONE"})
        /\ ReachingBy(n + 1, i, Touching) # {}
        /\ ReachingBy(n + 1, i, {"SET_VALUE"}) = ReachingBy(n, i, {"SET_VALUE"})
    BY <1>1, ReachingNext
  <1>3. QED
    BY <1>2 DEF EditedBy, Touching

(* An entry nothing reached yet is its original.                           *)
LEMMA Untouched ==
    ASSUME NEW n, NEW i, ReachingBy(n, i, Touching) = {}, Ledger!Original(i) \in Entry
    PROVE  EditedBy(n, i) = Ledger!Original(i)
  <1>1. ReachingBy(n, i, {"SET_VALUE"}) = {} /\ ReachingBy(n, i, {"TOMBSTONE"}) = {}
    BY DEF ReachingBy, Ledger!Reaching, Touching
  <1>2. QED
    BY <1>1 DEF EditedBy, Touching, Entry

(* The entry an operation adds is what it carries: no operation before it  *)
(* reached the id, which did not exist.                                    *)
LEMMA JustAdded ==
    ASSUME ops \in Seq(Op), base \in Seq(Entry), NEW n \in Nat, n < Len(ops),
           ops[n + 1].kind = "ADD_ENTRY"
    PROVE  EditedBy(n + 1, Len(base) + Cardinality(Ledger!AddsBefore(n + 1)) + 1) =
              ops[n + 1].entry
  <1> DEFINE i == Len(base) + Cardinality(Ledger!AddsBefore(n + 1)) + 1
  <1>1. n + 1 \in Ledger!Adds
    BY DEF Ledger!Adds, Ledger!AddsBefore
  <1>2. Ledger!Original(i) = ops[n + 1].entry
    BY <1>1, OriginalOfAdd
  <1>3. ops[n + 1].entry \in Entry
    <2>1. ops[n + 1] \in Op
      OBVIOUS
    <2>2. QED
      BY <2>1 DEF Op, FreshEntry, Entry
  <1>4. ASSUME NEW j \in Ledger!Reaching(i, Touching), j <= n + 1
        PROVE  FALSE
    <2>1. j \in 1..Len(ops) /\ ops[j].kind \in Touching
          /\ i <= Len(base) + Cardinality(Ledger!AddsBefore(j))
      BY SameCount DEF Ledger!Reaching
    <2>2. j # n + 1
      BY <2>1 DEF Touching
    <2>3. /\ Ledger!AddsBefore(n + 1) \subseteq 1..n
          /\ Ledger!AddsBefore(j) \subseteq Ledger!AddsBefore(n + 1)
      BY <1>4, <2>1, <2>2 DEF Ledger!AddsBefore
    <2>4. /\ Cardinality(Ledger!AddsBefore(j)) <= Cardinality(Ledger!AddsBefore(n + 1))
          /\ Cardinality(Ledger!AddsBefore(n + 1)) \in Nat
      BY <2>3, CountMonotone, CountUpTo
    <2>5. Cardinality(Ledger!AddsBefore(j)) \in Nat /\ Len(base) \in Nat
      <3>1. Ledger!AddsBefore(j) \subseteq 1..n
        BY <2>3
      <3>2. QED
        BY <3>1, CountUpTo
    <2>6. QED
      BY <2>1, <2>4, <2>5
  <1>5. ReachingBy(n + 1, i, Touching) = {}
    BY <1>4 DEF ReachingBy
  <1>6. QED
    BY <1>2, <1>3, <1>5, Untouched

(* Once every operation is applied an entry is what the ledger promises.   *)
LEMMA AllApplied ==
    ASSUME ops \in Seq(Op), NEW i
    PROVE  EditedBy(Len(ops), i) = Ledger!Edited(i)
  <1>1. \A kinds : ReachingBy(Len(ops), i, kinds) = Ledger!Reaching(i, kinds)
    BY DEF ReachingBy, Ledger!Reaching
  <1>2. QED
    BY <1>1 DEF EditedBy, Ledger!Edited, Touching

-----------------------------------------------------------------------------
RInv == IInv /\ Link

(* Outside its two loops a call has no candidate to relate.                *)
LEMMA LinkOutsideLoops ==
    ASSUME pc' \in {"idle", "reserve", "blocks"}
    PROVE  Link'
  BY DEF Link, CopiesLink, CompactLink, ApplyLink

(* A failed call is the ledger's refusal.                                  *)
LEMMA FailRefines ==
    ASSUME NEW answer \in {"NO_MEMORY", "OVERFLOW", "STATE", "INVALID_ARGUMENT"}, Fail(answer)
    PROVE  Link' /\ Ledger!Next
  <1>1. Link'
    BY LinkOutsideLoops DEF Fail, Return
  <1>2. Ledger!Refuse
    BY DEF Fail, Return, Ledger!Refuse
  <1>3. QED
    BY <1>1, <1>2 DEF Ledger!Next

(* Clients do the same to both.                                            *)
LEMMA ClientRefines ==
    ASSUME IInv,
           \/ \E op \in Op : Record(op)
           \/ Discard
           \/ \E e \in FreshEntry : Fill(e)
           \/ Adopt
    PROVE  Link' /\ Ledger!Next
  <1>1. Link'
    BY LinkOutsideLoops DEF Record, Discard, Fill, Adopt
  <1>2. FreshEntry \subseteq Ledger!Entry
    BY DEF FreshEntry, Ledger!Entry
  <1>3. Op \subseteq Ledger!Op
    BY <1>2 DEF Op, Target, Ledger!Op
  <1>4. CASE \E op \in Op : Record(op)
    BY <1>1, <1>3, <1>4 DEF Record, Ledger!Record, Ledger!Next
  <1>5. CASE Discard
    BY <1>1, <1>5 DEF Discard, Ledger!Discard, Ledger!Next
  <1>6. CASE \E e \in FreshEntry : Fill(e)
    BY <1>1, <1>2, <1>6 DEF Fill, Ledger!Fill, Ledger!Next
  <1>7. CASE Adopt
    BY <1>1, <1>7 DEF Adopt, Ledger!Adopt, Ledger!Next
  <1>8. QED
    BY <1>4, <1>5, <1>6, <1>7

(* Until its loops begin a call changes nothing the ledger sees.           *)
LEMMA BeginRefines ==
    ASSUME IInv, StartCommit \/ StartCompact \/ ReserveCandidate \/ CopyBlocks
    PROVE  Link' /\ [Ledger!Next]_(Ledger!vars)
  <1>1. CASE \E answer \in {"NO_MEMORY", "OVERFLOW", "STATE", "INVALID_ARGUMENT"} : Fail(answer)
    BY <1>1, FailRefines
  <1>2. CASE pc' \in {"reserve", "blocks"} /\ UNCHANGED <<base, ops, out, status>>
    BY <1>2, LinkOutsideLoops DEF Ledger!vars
  <1>3. CASE /\ pc = "blocks" /\ pc' = "entries"
             /\ UNCHANGED <<base, ops, out, cand, call, done, status>>
    <2>1. cand' = <<>> /\ done' = 0
      BY <1>3 DEF IInv, LoopBounds
    <2>2. CopiesLink' /\ ApplyLink'
      BY <1>3, <2>1 DEF CopiesLink, ApplyLink
    <2>3. Ledger!LiveUpTo(done') = {} /\ Cardinality({}) = 0
      BY <2>1, FS_EmptySet DEF Ledger!LiveUpTo
    <2>4. CompactLink'
      BY <1>3, <2>1, <2>3, CompactLinkNext
    <2>5. QED
      BY <1>3, <2>2, <2>4 DEF Link, Ledger!vars
  <1>4. QED
    BY <1>1, <1>2, <1>3 DEF StartCommit, StartCompact, ReserveCandidate, CopyBlocks

(* Live entries among the first of the base, one more.                     *)
LEMMA LiveNext ==
    ASSUME NEW n \in Nat
    PROVE  /\ base[n + 1].deleted => Ledger!LiveUpTo(n + 1) = Ledger!LiveUpTo(n)
           /\ ~base[n + 1].deleted =>
                 /\ Ledger!LiveUpTo(n + 1) = Ledger!LiveUpTo(n) \cup {n + 1}
                 /\ Cardinality(Ledger!LiveUpTo(n + 1)) = Cardinality(Ledger!LiveUpTo(n)) + 1
           /\ Cardinality(Ledger!LiveUpTo(n)) \in Nat
  <1>1. Ledger!LiveUpTo(n) \subseteq 1..n
    BY DEF Ledger!LiveUpTo
  <1>2. \A m : m \in 1..(n + 1) <=> m \in 1..n \/ m = n + 1
    OBVIOUS
  <1>3. base[n + 1].deleted => Ledger!LiveUpTo(n + 1) = Ledger!LiveUpTo(n)
    BY <1>2 DEF Ledger!LiveUpTo
  <1>4. ~base[n + 1].deleted => Ledger!LiveUpTo(n + 1) = Ledger!LiveUpTo(n) \cup {n + 1}
    BY <1>2 DEF Ledger!LiveUpTo
  <1>5. QED
    BY <1>1, <1>3, <1>4, CountUpTo, CountOneMore

(* The rank of a live entry is a place among the live ones up to n.        *)
LEMMA LiveRank ==
    ASSUME NEW n \in Nat, NEW i \in Ledger!LiveUpTo(n)
    PROVE  Cardinality(Ledger!LiveUpTo(i)) \in 1..Cardinality(Ledger!LiveUpTo(n))
  <1>1. i \in 1..n /\ ~base[i].deleted /\ i - 1 \in Nat /\ (i - 1) + 1 = i
    BY DEF Ledger!LiveUpTo
  <1>2. Cardinality(Ledger!LiveUpTo(i)) = Cardinality(Ledger!LiveUpTo(i - 1)) + 1
        /\ Cardinality(Ledger!LiveUpTo(i - 1)) \in Nat
    BY <1>1, LiveNext
  <1>3. Ledger!LiveUpTo(i) \subseteq Ledger!LiveUpTo(n) /\ Ledger!LiveUpTo(n) \subseteq 1..n
    BY <1>1 DEF Ledger!LiveUpTo
  <1>4. /\ Cardinality(Ledger!LiveUpTo(i)) <= Cardinality(Ledger!LiveUpTo(n))
        /\ Cardinality(Ledger!LiveUpTo(n)) \in Nat
    BY <1>3, CountMonotone, CountUpTo
  <1>5. QED
    BY <1>2, <1>4

(* A round of the copying loop keeps the link and shows the ledger nothing *)
(* but a failure.                                                          *)
LEMMA CopyRefines ==
    ASSUME RInv, CopyEntry
    PROVE  Link' /\ [Ledger!Next]_(Ledger!vars)
  <1> DEFINE e == base[done + 1]
  <1>1. /\ pc = "entries" /\ done < Len(base) /\ done \in Nat
        /\ cand \in Seq(Entry) /\ base \in Seq(Entry) /\ e \in Entry
        /\ call \in {"commit", "compact"}
    BY DEF CopyEntry, RInv, IInv, TypeOK, LoopBounds
  <1>2. CASE \E answer \in {"NO_MEMORY", "OVERFLOW", "STATE"} : Fail(answer)
    BY <1>2, FailRefines
  <1>3. CASE call = "compact" /\ e.deleted /\ Skip
    <2>1. done' = done + 1 /\ cand' = cand /\ UNCHANGED <<base, ops, out, pc, call, status>>
      BY <1>3 DEF Skip
    <2>2. Ledger!LiveUpTo(done') = Ledger!LiveUpTo(done)
      BY <1>1, <1>3, <2>1, LiveNext
    <2>3. CompactLink'
      BY <1>1, <1>3, <2>1, <2>2, CompactLinkNext DEF RInv, Link, CompactLink
    <2>4. CopiesLink' /\ ApplyLink'
      BY <1>1, <1>3, <2>1 DEF CopiesLink, ApplyLink
    <2>5. QED
      BY <2>1, <2>3, <2>4 DEF Link, Ledger!vars
  <1>4. CASE /\ call = "commit" \/ ~e.deleted
             /\ Clonable(e.value) /\ cand' = Append(cand, e) /\ done' = done + 1
             /\ UNCHANGED <<base, ops, out, pc, call, status>>
    <2>1. /\ Len(cand') = Len(cand) + 1 /\ cand'[Len(cand) + 1] = e
          /\ \A i \in 1..Len(cand) : cand'[i] = cand[i]
      BY <1>1, <1>4
    <2>2. ApplyLink'
      BY <1>1, <1>4 DEF ApplyLink
    <2>3. CopiesLink'
      <3>1. CASE call = "commit"
        <4>1. Len(cand) = done /\ \A i \in 1..done : cand[i] = base[i]
          BY <1>1, <3>1 DEF RInv, IInv, LoopBounds, Link, CopiesLink
        <4>2. \A i \in 1..(done + 1) : cand'[i] = base[i]
          BY <1>1, <2>1, <4>1
        <4>3. QED
          BY <1>4, <4>2 DEF CopiesLink
      <3>2. CASE call # "commit"
        BY <1>4, <3>2 DEF CopiesLink
      <3>3. QED
        BY <3>1, <3>2
    <2>4. CompactLink'
      <3>1. CASE call = "compact"
        <4>1. /\ Len(cand) = Cardinality(Ledger!LiveUpTo(done))
              /\ \A i \in Ledger!LiveUpTo(done) :
                    /\ cand[Cardinality(Ledger!LiveUpTo(i))] = base[i]
                    /\ base[i].value # Malformed
          BY <1>1, <3>1 DEF RInv, Link, CompactLink
        <4>2. /\ Ledger!LiveUpTo(done + 1) = Ledger!LiveUpTo(done) \cup {done + 1}
              /\ Cardinality(Ledger!LiveUpTo(done + 1)) = Len(cand) + 1
          BY <1>1, <1>4, <3>1, <4>1, LiveNext
        <4>3. ASSUME NEW i \in Ledger!LiveUpTo(done)
              PROVE  /\ cand'[Cardinality(Ledger!LiveUpTo(i))] = base[i]
                     /\ base[i].value # Malformed
          BY <1>1, <2>1, <4>1, LiveRank
        <4>4. \A i \in Ledger!LiveUpTo(done + 1) :
                 /\ cand'[Cardinality(Ledger!LiveUpTo(i))] = base[i]
                 /\ base[i].value # Malformed
          BY <1>4, <2>1, <4>2, <4>3 DEF Clonable
        <4>5. UNCHANGED <<base, ops>> /\ done' = done + 1
          BY <1>4
        <4>6. QED
          BY <2>1, <4>2, <4>4, <4>5, CompactLinkNext
      <3>2. CASE call # "compact"
        BY <1>4, <3>2 DEF CompactLink
      <3>3. QED
        BY <3>1, <3>2
    <2>5. QED
      BY <1>4, <2>2, <2>3, <2>4 DEF Link, Ledger!vars
  <1>5. QED
    BY <1>1, <1>2, <1>3, <1>4 DEF CopyEntry, AddToCandidate, Skip

(* A compaction publishes the live entries; a commit turns to its edit.    *)
LEMMA CopiedRefines ==
    ASSUME RInv, EntriesCopied
    PROVE  Link' /\ [Ledger!Next]_(Ledger!vars)
  <1>1. /\ pc = "entries" /\ done = Len(base)
        /\ cand \in Seq(Entry) /\ base \in Seq(Entry) /\ ops \in Seq(Op)
        /\ call \in {"commit", "compact"}
    BY DEF EntriesCopied, RInv, IInv, TypeOK, LoopBounds
  <1>2. CASE call = "compact"
    <2>1. Link'
      BY <1>1, <1>2, LinkOutsideLoops DEF EntriesCopied, Publish, Return
    <2>2. Ledger!Compact
      BY <1>1, <1>2, SameCount
         DEF EntriesCopied, Publish, Return, RInv, Link, CompactLink, Ledger!Compact
    <2>3. QED
      BY <2>1, <2>2 DEF Ledger!Next
  <1>3. CASE call = "commit"
    <2>1. pc' = "apply" /\ done' = 0 /\ UNCHANGED <<base, ops, out, cand, call, status>>
      BY <1>3 DEF EntriesCopied
    <2>2. Len(cand) = Len(base) /\ \A i \in 1..Len(base) : cand[i] = base[i]
      BY <1>1, <1>3 DEF RInv, IInv, LoopBounds, Link, CopiesLink
    <2>3. \A i \in 1..Len(base) : base[i].value # Malformed
      BY <1>1, <2>2 DEF RInv, IInv, CandidateWellFormed
    <2>4. Ledger!AddsBefore(1) = {} /\ Cardinality(Ledger!AddsBefore(1)) = 0
      <3>1. Ledger!AddsBefore(1) = {}
        BY DEF Ledger!AddsBefore
      <3>2. QED
        BY <3>1, FS_EmptySet
    <2>5. ASSUME NEW i \in 1..Len(base)
          PROVE  EditedBy(0, i) = base[i]
      <3>1. Ledger!Original(i) = base[i] /\ base[i] \in Entry
        BY <1>1 DEF Ledger!Original
      <3>2. ReachingBy(0, i, Touching) = {}
        BY DEF ReachingBy, Ledger!Reaching
      <3>3. QED
        BY <3>1, <3>2, Untouched
    <2>6. /\ done' <= Len(ops)
          /\ Len(cand') = Len(base) + Cardinality(Ledger!AddsBefore(done' + 1))
          /\ \A j \in Ledger!AddsBefore(done' + 1) : ops[j].entry.value # Malformed
          /\ \A i \in 1..Len(cand') : cand'[i] = EditedBy(done', i)
      <3>1. Len(base) \in Nat /\ Len(ops) \in Nat
        BY <1>1
      <3>2. done' + 1 = 1 /\ cand' = cand
        BY <2>1
      <3>3. Len(base) = Len(base) + Cardinality(Ledger!AddsBefore(1))
        BY <2>4, <3>1
      <3>4. \A i \in 1..Len(cand) : cand[i] = EditedBy(0, i)
        BY <2>2, <2>5
      <3>5. QED
        BY <2>1, <2>2, <2>4, <3>1, <3>2, <3>3, <3>4
    <2>7. ApplyLink'
      BY <2>1, <2>3, <2>6, ApplyLinkNext
    <2>8. CopiesLink' /\ CompactLink'
      BY <2>1 DEF CopiesLink, CompactLink
    <2>9. QED
      BY <2>1, <2>7, <2>8 DEF Link, Ledger!vars
  <1>4. QED
    BY <1>1, <1>2, <1>3

(* What every round of the operations loop leaves to show.                 *)
LEMMA ApplyRound ==
    ASSUME RInv, pc = "apply", done < Len(ops), done' = done + 1,
           UNCHANGED <<base, ops, out, pc, call, status>>,
           ops[done + 1].kind = "ADD_ENTRY" => ops[done + 1].entry.value # Malformed,
           Len(cand') = Len(base) + Cardinality(Ledger!AddsBefore(done + 2)),
           \A i \in 1..Len(cand') : cand'[i] = EditedBy(done + 1, i)
    PROVE  Link' /\ [Ledger!Next]_(Ledger!vars)
  <1>1. ops \in Seq(Op) /\ done \in Nat
    BY DEF RInv, IInv, TypeOK
  <1>2. /\ \A i \in 1..Len(base) : base[i].value # Malformed
        /\ \A j \in Ledger!AddsBefore(done + 1) : ops[j].entry.value # Malformed
    BY DEF RInv, Link, ApplyLink
  <1>3. \A j \in Ledger!AddsBefore(done + 2) : ops[j].entry.value # Malformed
    BY <1>1, <1>2, AddsNext
  <1>4. done' + 1 = done + 2 /\ done' <= Len(ops) /\ done' = done + 1
    BY <1>1
  <1>5. ApplyLink'
    BY <1>2, <1>3, <1>4, ApplyLinkNext
  <1>6. QED
    BY <1>5 DEF Link, CopiesLink, CompactLink, Ledger!vars

(* An entry is its four fields.                                            *)
LEMMA EntryFields ==
    ASSUME NEW e \in Entry
    PROVE  e = [key |-> e.key, value |-> e.value, dirty |-> e.dirty, deleted |-> e.deleted]
  BY DEF Entry

(* The three ways an operation changes an entry, field by field.           *)
LEMMA EntryUpdates ==
    ASSUME NEW e \in Entry, NEW v \in Value
    PROVE  /\ [e EXCEPT !.value = v, !.dirty = TRUE] =
                 [key |-> e.key, value |-> v, dirty |-> TRUE, deleted |-> e.deleted]
           /\ [e EXCEPT !.dirty = TRUE, !.deleted = TRUE] =
                 [key |-> e.key, value |-> e.value, dirty |-> TRUE, deleted |-> TRUE]
           /\ [e EXCEPT !.dirty = TRUE] =
                 [key |-> e.key, value |-> e.value, dirty |-> TRUE, deleted |-> e.deleted]
  <1>1. ASSUME NEW f, f = [e EXCEPT !.value = v, !.dirty = TRUE]
        PROVE  f = [key |-> e.key, value |-> v, dirty |-> TRUE, deleted |-> e.deleted]
    <2>1. f \in Entry /\ f.key = e.key /\ f.value = v /\ f.dirty = TRUE /\ f.deleted = e.deleted
      BY <1>1 DEF Entry
    <2>2. QED
      BY <2>1, EntryFields
  <1>2. ASSUME NEW f, f = [e EXCEPT !.dirty = TRUE, !.deleted = TRUE]
        PROVE  f = [key |-> e.key, value |-> e.value, dirty |-> TRUE, deleted |-> TRUE]
    <2>1. f \in Entry /\ f.key = e.key /\ f.value = e.value /\ f.dirty = TRUE /\ f.deleted = TRUE
      BY <1>2 DEF Entry
    <2>2. QED
      BY <2>1, EntryFields
  <1>3. ASSUME NEW f, f = [e EXCEPT !.dirty = TRUE]
        PROVE  f = [key |-> e.key, value |-> e.value, dirty |-> TRUE, deleted |-> e.deleted]
    <2>1. f \in Entry /\ f.key = e.key /\ f.value = e.value /\ f.dirty = TRUE
          /\ f.deleted = e.deleted
      BY <1>3 DEF Entry
    <2>2. QED
      BY <2>1, EntryFields
  <1>4. QED
    BY <1>1, <1>2, <1>3

(* Each operation does to the candidate what the ledger says it does to    *)
(* the entry it reaches, and nothing to any other.                         *)
LEMMA ApplyRefines ==
    ASSUME RInv, ApplyOp
    PROVE  Link' /\ [Ledger!Next]_(Ledger!vars)
  <1> DEFINE op == ops[done + 1]
             t == op.target + 1
  <1>1. /\ pc = "apply" /\ done < Len(ops) /\ done \in Nat /\ op \in Op
        /\ ops \in Seq(Op) /\ base \in Seq(Entry) /\ cand \in Seq(Entry)
    BY DEF ApplyOp, RInv, IInv, TypeOK
  <1>2. /\ Len(cand) = Len(base) + Cardinality(Ledger!AddsBefore(done + 1))
        /\ \A i \in 1..Len(cand) : cand[i] = EditedBy(done, i)
    BY <1>1 DEF RInv, Link, ApplyLink
  <1>3. CASE \E answer \in {"NO_MEMORY", "OVERFLOW", "STATE"} : Fail(answer)
    BY <1>3, FailRefines
  <1>4. CASE /\ op.kind = "ADD_ENTRY" /\ Clonable(op.entry.value)
             /\ cand' = Append(cand, op.entry) /\ done' = done + 1
             /\ UNCHANGED <<base, ops, out, pc, call, status>>
    <2>1. op.entry \in Entry
      BY <1>1, <1>4 DEF Op, FreshEntry, Entry
    <2>2. /\ Len(cand') = Len(cand) + 1 /\ cand'[Len(cand) + 1] = op.entry
          /\ \A i \in 1..Len(cand) : cand'[i] = cand[i]
      BY <1>1, <1>4, <2>1
    <2>3. Len(cand') = Len(base) + Cardinality(Ledger!AddsBefore(done + 2))
      BY <1>1, <1>2, <1>4, <2>2, AddsNext
    <2>4. ASSUME NEW i \in 1..Len(cand)
          PROVE  cand'[i] = EditedBy(done + 1, i)
      <3>1. done + 1 \notin Ledger!Reaching(i, Touching)
        BY <1>4 DEF Ledger!Reaching, Touching
      <3>2. EditedBy(done + 1, i) = EditedBy(done, i)
        BY <1>1, <3>1, NotReached
      <3>3. QED
        BY <1>2, <2>2, <3>2
    <2>5. EditedBy(done + 1, Len(cand) + 1) = op.entry
      BY <1>1, <1>2, <1>4, JustAdded
    <2>6. \A i \in 1..Len(cand') : cand'[i] = EditedBy(done + 1, i)
      <3>1. \A i \in 1..Len(cand') : i \in 1..Len(cand) \/ i = Len(cand) + 1
        BY <1>1, <2>2
      <3>2. QED
        BY <2>2, <2>4, <2>5, <3>1
    <2>7. QED
      BY <1>1, <1>4, <2>3, <2>6, ApplyRound DEF Clonable
  <1>5. ASSUME op.kind # "ADD_ENTRY", NEW i \in 1..Len(cand), op.target # i - 1
        PROVE  EditedBy(done + 1, i) = cand[i]
    <2>1. done + 1 \notin Ledger!Reaching(i, Touching)
      BY <1>5 DEF Ledger!Reaching
    <2>2. QED
      BY <1>1, <1>2, <2>1, NotReached
  <1>6. ASSUME op.kind \in Touching
        PROVE  op.target \in Nat /\ t - 1 = op.target
               /\ Ledger!AddsBefore(done + 2) = Ledger!AddsBefore(done + 1)
    <2>1. op.kind # "ADD_ENTRY"
      BY <1>6 DEF Touching
    <2>2. op.target \in Nat
      BY <1>1, <1>6, BoundAssumption DEF Op, Target, Touching
    <2>3. QED
      BY <1>1, <2>1, <2>2, AddsNext
  <1>7. CASE op.kind \in Touching /\ ~Hits(op) /\ Skip
    <2>1. /\ cand' = cand /\ done' = done + 1
          /\ UNCHANGED <<base, ops, out, pc, call, status>>
      BY <1>7 DEF Skip
    <2>2. op.kind # "ADD_ENTRY"
      BY <1>7 DEF Touching
    <2>3. ASSUME NEW i \in 1..Len(cand)
          PROVE  cand'[i] = EditedBy(done + 1, i)
      BY <1>1, <1>5, <1>6, <1>7, <2>1, <2>2 DEF Hits
    <2>4. Len(cand') = Len(base) + Cardinality(Ledger!AddsBefore(done + 2))
      BY <1>2, <1>6, <1>7, <2>1
    <2>5. QED
      BY <1>1, <2>1, <2>2, <2>3, <2>4, ApplyRound
  <1>8. ASSUME op.kind \in Touching, Hits(op), NEW f, f = EditedBy(done + 1, t), Update(op, f)
        PROVE  Link' /\ [Ledger!Next]_(Ledger!vars)
    <2>1. /\ cand' = [cand EXCEPT ![t] = f] /\ done' = done + 1
          /\ UNCHANGED <<base, ops, out, pc, call, status>>
      BY <1>8 DEF Update
    <2>2. op.kind # "ADD_ENTRY"
      BY <1>8 DEF Touching
    <2>3. /\ Len(cand') = Len(cand)
          /\ \A i \in 1..Len(cand) : cand'[i] = IF i = t THEN f ELSE cand[i]
      BY <1>1, <1>6, <1>8, <2>1 DEF Hits
    <2>4. ASSUME NEW i \in 1..Len(cand)
          PROVE  cand'[i] = EditedBy(done + 1, i)
      <3>1. CASE i = t
        BY <1>8, <2>3, <3>1
      <3>2. CASE i # t
        BY <1>5, <1>6, <1>8, <2>2, <2>3, <3>2
      <3>3. QED
        BY <3>1, <3>2
    <2>5. Len(cand') = Len(base) + Cardinality(Ledger!AddsBefore(done + 2))
      BY <1>2, <1>6, <1>8, <2>3
    <2>6. \A i \in 1..Len(cand') : cand'[i] = EditedBy(done + 1, i)
      BY <2>3, <2>4
    <2>7. QED
      BY <1>1, <2>1, <2>2, <2>5, <2>6, ApplyRound
  <1>9. ASSUME op.kind \in Touching, Hits(op)
        PROVE  /\ cand[t] \in Entry /\ cand[t] = EditedBy(done, t)
               /\ done + 1 \in Ledger!Reaching(t, {op.kind})
    <2>1. t \in 1..Len(cand)
      BY <1>1, <1>6, <1>9 DEF Hits
    <2>2. cand[t] \in Entry /\ cand[t] = EditedBy(done, t)
      BY <1>1, <1>2, <2>1
    <2>3. op.target = t - 1 /\ t <= Len(base) + Cardinality(Ledger!AddsBefore(done + 1))
      BY <1>2, <1>6, <1>9, <2>1
    <2>4. done + 1 \in Ledger!Reaching(t, {op.kind})
      BY <1>1, <2>3, SameCount DEF Ledger!Reaching
    <2>5. QED
      BY <2>2, <2>4
  <1>10. CASE /\ op.kind = "SET_VALUE" /\ Hits(op)
              /\ Update(op, [cand[t] EXCEPT !.value = op.value, !.dirty = TRUE])
    <2> DEFINE f == [cand[t] EXCEPT !.value = op.value, !.dirty = TRUE]
    <2>1. op.kind \in Touching
      BY <1>10 DEF Touching
    <2>2. f = [key |-> cand[t].key, value |-> op.value, dirty |-> TRUE,
               deleted |-> cand[t].deleted]
      <3>1. op.value \in Value
        BY <1>1, <1>10 DEF Op
      <3>2. QED
        BY <1>9, <1>10, <2>1, <3>1, EntryUpdates
    <2>3. f = EditedBy(done + 1, t)
      BY <1>1, <1>9, <1>10, <2>1, <2>2, ReachedBySet
    <2> HIDE DEF f
    <2>4. Update(op, f)
      BY <1>10 DEF f
    <2>5. QED
      BY <1>8, <1>10, <2>1, <2>3, <2>4
  <1>11. CASE /\ op.kind = "TOMBSTONE" /\ Hits(op)
              /\ Update(op, [cand[t] EXCEPT !.dirty = TRUE, !.deleted = TRUE])
    <2> DEFINE f == [cand[t] EXCEPT !.dirty = TRUE, !.deleted = TRUE]
    <2>1. op.kind \in Touching
      BY <1>11 DEF Touching
    <2>2. f = [key |-> cand[t].key, value |-> cand[t].value, dirty |-> TRUE, deleted |-> TRUE]
      BY <1>9, <1>11, <2>1, ValueAssumption, EntryUpdates
    <2>3. f = EditedBy(done + 1, t)
      BY <1>1, <1>9, <1>11, <2>1, <2>2, ReachedByTombstone
    <2> HIDE DEF f
    <2>4. Update(op, f)
      BY <1>11 DEF f
    <2>5. QED
      BY <1>8, <1>11, <2>1, <2>3, <2>4
  <1>12. CASE /\ op.kind = "MARK_DIRTY" /\ Hits(op)
              /\ Update(op, [cand[t] EXCEPT !.dirty = TRUE])
    <2> DEFINE f == [cand[t] EXCEPT !.dirty = TRUE]
    <2>1. op.kind \in Touching
      BY <1>12 DEF Touching
    <2>2. f = [key |-> cand[t].key, value |-> cand[t].value, dirty |-> TRUE,
               deleted |-> cand[t].deleted]
      BY <1>9, <1>12, <2>1, ValueAssumption, EntryUpdates
    <2>3. f = EditedBy(done + 1, t)
      BY <1>1, <1>9, <1>12, <2>1, <2>2, ReachedByMark
    <2> HIDE DEF f
    <2>4. Update(op, f)
      BY <1>12 DEF f
    <2>5. QED
      BY <1>8, <1>12, <2>1, <2>3, <2>4
  <1>13. QED
    BY <1>3, <1>4, <1>7, <1>10, <1>11, <1>12
       DEF ApplyOp, AddToCandidate, ApplySetValue, ApplyFlags, Touching

(* The publish of a commit is the ledger's commit.                         *)
LEMMA AppliedRefines ==
    ASSUME RInv, OpsApplied
    PROVE  Link' /\ [Ledger!Next]_(Ledger!vars)
  <1>1. /\ pc = "apply" /\ done = Len(ops) /\ Publish(cand)
        /\ ops \in Seq(Op) /\ cand \in Seq(Entry) /\ Len(cand) <= MaxEntries
    BY DEF OpsApplied, RInv, IInv, TypeOK
  <1>2. Link'
    BY <1>1, LinkOutsideLoops DEF Publish, Return
  <1>3. /\ \A i \in 1..Len(base) : base[i].value # Malformed
        /\ \A j \in Ledger!Adds : ops[j].entry.value # Malformed
        /\ Len(cand) = Ledger!Size
    BY <1>1, SameCount DEF RInv, Link, ApplyLink, Ledger!Adds, Ledger!Size
  <1>4. \A i \in 1..Ledger!Size : cand[i] = Ledger!Edited(i) /\ cand[i].value # Malformed
    BY <1>1, <1>3, AllApplied DEF RInv, IInv, CandidateWellFormed, Link, ApplyLink
  <1>5. cand = [i \in 1..Ledger!Size |-> Ledger!Edited(i)]
    <2>1. cand = [i \in 1..Len(cand) |-> cand[i]]
      BY <1>1
    <2>2. QED
      BY <1>3, <1>4, <2>1
  <1>6. Ledger!Commit
    BY <1>1, <1>3, <1>4, <1>5 DEF Publish, Return, Ledger!Commit
  <1>7. QED
    BY <1>2, <1>6 DEF Ledger!Next

(* Every step is a step of the ledger or none, and keeps the link.         *)
LEMMA RefinementStep ==
    ASSUME RInv, [Next]_vars
    PROVE  RInv' /\ [Ledger!Next]_(Ledger!vars)
  <1>1. IInv'
    BY CommitStep DEF RInv
  <1>2. CASE UNCHANGED vars
    <2>1. UNCHANGED <<base, ops, out, cand, pc, call, done, status>>
      BY <1>2 DEF vars
    <2>2. CopiesLink'
      BY <2>1 DEF RInv, Link, CopiesLink
    <2>3. CompactLink'
      BY <2>1, CompactLinkNext DEF RInv, Link, CompactLink
    <2>4. ApplyLink'
      BY <2>1, ApplyLinkNext DEF RInv, Link, ApplyLink
    <2>5. QED
      BY <1>1, <2>1, <2>2, <2>3, <2>4 DEF RInv, Link, Ledger!vars
  <1>3. CASE Next
    <2>1. IInv
      BY DEF RInv
    <2>2. Link' /\ [Ledger!Next]_(Ledger!vars)
      BY <1>3, <2>1, ClientRefines, BeginRefines, CopyRefines, CopiedRefines, ApplyRefines,
         AppliedRefines DEF Next
    <2>3. QED
      BY <1>1, <2>2 DEF RInv
  <1>4. QED
    BY <1>2, <1>3

(* For stores and edits of any length: each commit and each compaction is  *)
(* one step of the ledger on out, done whole, or none.                     *)
THEOREM CommitImplementsLedger == Spec => ImplementsLedger
  <1>1. Init => RInv /\ Ledger!Init
    BY CommitInit
       DEF Init, RInv, Link, CopiesLink, CompactLink, ApplyLink, Ledger!Init
  <1>2. RInv /\ [Next]_vars => RInv' /\ [Ledger!Next]_(Ledger!vars)
    BY RefinementStep
  <1>3. QED
    BY <1>1, <1>2, PTL DEF Spec, ImplementsLedger, Ledger!Spec

-----------------------------------------------------------------------------
(* Proofs about the arena, for any set of addresses, any bytes and any     *)
(* limits: the inductive invariant, and the log the arena implements.      *)

USE DEF NoRef, Answer, Refs, Span

(* The two kinds of source an append reads.                                *)
Sources == {Caller(bytes) : bytes \in Chunks} \cup {Borrowed(v) : v \in views}

(* The capacity a growing append asks for holds what is needed and is a    *)
(* value of omc_size (omc_arena_next_capacity).                            *)
LEMMA NextCapacityFits ==
    ASSUME NEW current \in 0..MaxSize, NEW needed \in 0..MaxSize
    PROVE  NextCapacity(current, needed) \in needed..MaxSize
  <1> DEFINE start == IF current = 0 THEN FirstCapacity ELSE current
  <1>1. start \in 0..MaxSize
    BY SizeAssumption
  <1>2. Doublings(start, needed) \subseteq needed..MaxSize
    BY DEF Doublings
  <1>3. \/ start >= needed /\ NextCapacity(current, needed) = start
        \/ NextCapacity(current, needed) = needed
        \/ NextCapacity(current, needed) \in Doublings(start, needed)
    <2> DEFINE choice == CHOOSE c \in Doublings(start, needed) : TRUE
    <2>1. NextCapacity(current, needed) =
             IF start >= needed THEN start
             ELSE IF Doublings(start, needed) = {} THEN needed ELSE choice
      BY Zenon DEF NextCapacity
    <2>2. Doublings(start, needed) # {} => choice \in Doublings(start, needed)
      OBVIOUS
    <2> HIDE DEF choice
    <2>3. QED
      BY <2>1, <2>2
  <1>4. QED
    BY <1>1, <1>2, <1>3, SizeAssumption

(* Where a source of an append reads from, every byte was written.         *)
LEMMA SourceWritten ==
    ASSUME ArenaInv, NEW src \in Sources, NEW h,
           \A b \in DOMAIN heap : b \in DOMAIN h /\ h[b] = heap[b]
    PROVE  /\ src.size \in Nat
           /\ \A i \in 1..src.size : Read(h, src)[i] \in Cell
  <1>1. CASE \E bytes \in Chunks : src = Caller(bytes)
    <2>1. PICK bytes \in Chunks : src = Caller(bytes)
      BY <1>1
    <2>2. bytes \in Seq(Cell)
      BY CellAssumption
    <2>3. src.size = Len(bytes) /\ Read(h, src) = bytes
      BY <2>1 DEF Caller, Read
    <2>4. QED
      BY <2>2, <2>3
  <1>2. CASE \E v \in views : src = Borrowed(v)
    <2>1. PICK v \in views : src = Borrowed(v)
      BY <1>2
    <2>2. v.offset \in Nat /\ v.size \in Nat
      BY SizeAssumption DEF ArenaInv, ArenaTypes
    <2>3. src.size = v.size /\ src.lent = TRUE /\ src.view = v
      BY <2>1 DEF Borrowed
    <2>4. SUFFICES ASSUME NEW i \in 1..v.size
                   PROVE  Read(h, src)[i] \in Cell
      BY <2>2, <2>3
    <2>5. v.block \in DOMAIN heap /\ v.offset + i - 1 \in Span(v)
      BY <2>2 DEF ArenaInv, ViewsStayReadable
    <2>6. Read(h, src)[i] = heap[v.block][v.offset + i - 1]
      BY <2>3, <2>5 DEF Read
    <2>7. heap[v.block][v.offset + i - 1] = heap[data][v.offset + i - 1]
      BY <2>2, <2>5 DEF ArenaInv, ViewsStayReadable
    <2>8. v.offset + i - 1 \in 0..(size - 1)
      BY <2>2, SizeAssumption DEF ArenaInv, ViewsStayReadable, ArenaTypes
    <2>9. QED
      BY <2>6, <2>7, <2>8 DEF ArenaInv, BytesInUseWritten
  <1>3. QED
    BY <1>1, <1>2 DEF Sources

-----------------------------------------------------------------------------
(* Growth: the new block starts with the bytes in use, every other block   *)
(* keeps its contents.                                                     *)
LEMMA GrownBlocks ==
    ASSUME ArenaInv, NEW b \in Block, b \notin DOMAIN heap,
           NEW cap \in 0..MaxSize, size <= cap
    PROVE  /\ DOMAIN Grown(b, cap) = DOMAIN heap \cup {b}
           /\ Grown(b, cap) = [x \in DOMAIN Grown(b, cap) |-> Grown(b, cap)[x]]
           /\ Grown(b, cap)[b] \in [0..(cap - 1) -> Cell \cup {Junk}]
           /\ \A i \in 0..(size - 1) : Grown(b, cap)[b][i] = heap[data][i]
           /\ \A x \in DOMAIN heap : Grown(b, cap)[x] = heap[x]
  <1>1. \A i \in 0..(size - 1) : heap[data][i] \in Cell
    BY DEF ArenaInv, BytesInUseWritten
  <1>2. size \in Nat /\ cap \in Nat
    BY SizeAssumption DEF ArenaInv, ArenaTypes
  <1>3. Grown(b, cap)[b] = [i \in 0..(cap - 1) |-> IF i < size THEN heap[data][i] ELSE Junk]
    BY DEF Grown
  <1>4. Grown(b, cap)[b] \in [0..(cap - 1) -> Cell \cup {Junk}]
    BY <1>1, <1>2, <1>3
  <1>5. \A i \in 0..(size - 1) : Grown(b, cap)[b][i] = heap[data][i]
    BY <1>2, <1>3
  <1>6. QED
    BY <1>4, <1>5 DEF Grown

(* Writing n bytes at an offset changes that range of that block only.     *)
LEMMA WrittenBlock ==
    ASSUME NEW h, NEW b \in DOMAIN h, h = [x \in DOMAIN h |-> h[x]],
           NEW offset \in Nat, NEW n \in Nat, NEW bytes,
           NEW cap \in Nat, h[b] \in [0..(cap - 1) -> Cell \cup {Junk}],
           \A i \in 1..n : bytes[i] \in Cell
    PROVE  LET w == Write(h, b, offset, n, bytes) IN
           /\ DOMAIN w = DOMAIN h
           /\ w = [x \in DOMAIN w |-> w[x]]
           /\ w[b] \in [0..(cap - 1) -> Cell \cup {Junk}]
           /\ \A x \in DOMAIN h \ {b} : w[x] = h[x]
           /\ \A i \in 0..(cap - 1) :
                 w[b][i] = IF i \in offset..(offset + n - 1)
                           THEN bytes[i - offset + 1] ELSE h[b][i]
  <1> DEFINE w == Write(h, b, offset, n, bytes)
  <1>1. w[b] = [i \in 0..(cap - 1) |-> IF i \in offset..(offset + n - 1)
                                      THEN bytes[i - offset + 1] ELSE h[b][i]]
    BY DEF Write
  <1>2. ASSUME NEW i \in 0..(cap - 1), i \in offset..(offset + n - 1)
        PROVE  bytes[i - offset + 1] \in Cell
    <2>1. i - offset + 1 \in 1..n
      BY <1>2
    <2>2. QED
      BY <2>1
  <1>3. w[b] \in [0..(cap - 1) -> Cell \cup {Junk}]
    BY <1>1, <1>2
  <1>4. QED
    BY <1>1, <1>3 DEF Write

(* A step that makes b the current block, keeps the bytes in use and the   *)
(* blocks that views point to, and fills whatever it adds, keeps ArenaInv. *)
LEMMA KeptBytes ==
    ASSUME ArenaInv, NEW b \in Block, NEW cap \in 0..MaxSize,
           data' = b, capacity' = cap, views' = views,
           size' \in 0..MaxRef, size <= size', size' <= cap,
           DOMAIN heap \subseteq DOMAIN heap', DOMAIN heap' \subseteq Block,
           heap' = [x \in DOMAIN heap' |-> heap'[x]],
           heap'[b] \in [0..(cap - 1) -> Cell \cup {Junk}],
           \A x \in DOMAIN heap' \ {b} : heap'[x] = heap[x] /\ x \in DOMAIN heap,
           \A i \in 0..(size - 1) : heap'[b][i] = heap[data][i],
           \A i \in size..(size' - 1) : heap'[b][i] \in Cell,
           DOMAIN heap' = retired' \cup {b}, b \notin retired', retired' \subseteq Block,
           result' \in [status : {"OK"}, ref : Refs]
    PROVE  ArenaInv'
  <1>1. size \in Nat /\ size' \in Nat /\ cap \in Nat
    BY SizeAssumption DEF ArenaInv, ArenaTypes
  <1>2. ArenaTypes'
    <2>1. \A x \in DOMAIN heap' :
             \E k \in 0..MaxSize : heap'[x] \in [0..(k - 1) -> Cell \cup {Junk}]
      <3>1. ASSUME NEW x \in DOMAIN heap' \ {b}
            PROVE  \E k \in 0..MaxSize : heap'[x] \in [0..(k - 1) -> Cell \cup {Junk}]
        BY <3>1 DEF ArenaInv, ArenaTypes
      <3>2. QED
        BY <3>1
    <2>2. result' \in [status : {"OK", "NO_MEMORY", "OVERFLOW", "INVALID_ARGUMENT"}, ref : Refs]
      OBVIOUS
    <2>3. QED
      BY <2>1, <2>2 DEF ArenaInv, ArenaTypes
  <1>3. OwnsItsBlocks'
    BY BlockAssumption DEF OwnsItsBlocks
  <1>4. BytesInUseWritten'
    <2>1. ASSUME NEW i \in 0..(size' - 1)
          PROVE  heap'[b][i] \in Cell
      <3>1. CASE i < size
        BY <1>1, <3>1 DEF ArenaInv, BytesInUseWritten
      <3>2. CASE i >= size
        BY <1>1, <3>2
      <3>3. QED
        BY <1>1, <3>1, <3>2
    <2>2. QED
      BY <1>1, <2>1, BlockAssumption DEF BytesInUseWritten
  <1>5. ViewsStayReadable'
    <2>1. SUFFICES ASSUME NEW v \in views
                   PROVE  /\ v.offset + v.size <= size'
                          /\ v.size > 0 =>
                                /\ v.block \in DOMAIN heap'
                                /\ \A i \in Span(v) :
                                      i \in DOMAIN heap'[v.block]
                                      /\ heap'[v.block][i] = heap'[b][i]
      BY DEF ViewsStayReadable
    <2>2. v.offset \in Nat /\ v.size \in Nat /\ v.offset + v.size <= size
      BY SizeAssumption DEF ArenaInv, ArenaTypes, ViewsStayReadable
    <2>3. ASSUME v.size > 0, NEW i \in Span(v)
          PROVE  /\ v.block \in DOMAIN heap'
                 /\ i \in DOMAIN heap'[v.block]
                 /\ heap'[v.block][i] = heap'[b][i]
      <3>1. i \in 0..(size - 1) /\ i \in 0..(cap - 1)
        BY <1>1, <2>2
      <3>2. v.block \in DOMAIN heap /\ i \in DOMAIN heap[v.block]
            /\ heap[v.block][i] = heap[data][i]
        BY <2>3 DEF ArenaInv, ViewsStayReadable
      <3>3. CASE v.block = b
        BY <3>1, <3>2, <3>3
      <3>4. CASE v.block # b
        BY <3>1, <3>2, <3>4
      <3>5. QED
        BY <3>3, <3>4
    <2>4. v.size > 0 => v.offset \in Span(v)
      BY <2>2
    <2>5. QED
      BY <1>1, <2>2, <2>3, <2>4
  <1>6. QED
    BY <1>2, <1>3, <1>4, <1>5 DEF ArenaInv

-----------------------------------------------------------------------------
(* A refused call leaves everything but its answer as it was.              *)
LEMMA RefusedStep ==
    ASSUME ArenaInv, NEW answer \in {"NO_MEMORY", "OVERFLOW"}, Refused(answer)
    PROVE  ArenaInv'
  <1>1. result' \in [status : {"OK", "NO_MEMORY", "OVERFLOW", "INVALID_ARGUMENT"}, ref : Refs]
    BY SizeAssumption DEF Refused
  <1>2. QED
    BY <1>1 DEF ArenaInv, ArenaTypes, OwnsItsBlocks, BytesInUseWritten, ViewsStayReadable, Refused

(* A block that becomes current leaves the previous one on the list.       *)
LEMMA MovedBlocks ==
    ASSUME ArenaInv, NEW b, NEW cap, Move(b, cap)
    PROVE  /\ b \in Block /\ b \notin DOMAIN heap
           /\ data' = b /\ capacity' = cap
           /\ retired' = DOMAIN heap /\ retired' \subseteq Block /\ b \notin retired'
  BY DEF ArenaInv, ArenaTypes, OwnsItsBlocks, Move, Retire

(* An append that outgrows its block (omc_arena_append after a reserve): the*)
(* lent views keep reading the retired block, and the new one holds the same.*)
LEMMA AppendGrowingStep ==
    ASSUME ArenaInv, NEW src \in Sources, NEW b \in Block, AppendGrowing(src, b)
    PROVE  ArenaInv'
  <1> DEFINE n == src.size
             cap == NextCapacity(capacity, size + n)
             grown == Grown(b, cap)
             bytes == Read(grown, src)
  <1>1. n \in Nat
    BY SourceWritten
  <1>2. size \in Nat /\ size + n <= MaxRef /\ capacity \in 0..MaxSize
    BY <1>1, SizeAssumption DEF ArenaInv, ArenaTypes, AppendGrowing, Overflows
  <1>3. cap \in 0..MaxSize /\ size + n <= cap
    <2>1. size + n \in 0..MaxSize
      BY <1>1, <1>2, SizeAssumption
    <2>2. cap \in (size + n)..MaxSize
      BY <1>2, <2>1, NextCapacityFits
    <2> HIDE DEF cap
    <2>3. QED
      BY <2>1, <2>2, SizeAssumption
  <1>4. /\ Move(b, cap)
        /\ heap' = Write(grown, b, size, n, bytes)
        /\ size' = size + n
        /\ result' = Answer("OK", [offset |-> size, size |-> n])
        /\ views' = views
    BY DEF AppendGrowing
  <1>5. /\ b \in Block /\ b \notin DOMAIN heap
        /\ data' = b /\ capacity' = cap
        /\ retired' = DOMAIN heap /\ retired' \subseteq Block /\ b \notin retired'
    BY <1>4, MovedBlocks
  <1> HIDE DEF cap
  <1>6. /\ DOMAIN grown = DOMAIN heap \cup {b}
        /\ grown = [x \in DOMAIN grown |-> grown[x]]
        /\ grown[b] \in [0..(cap - 1) -> Cell \cup {Junk}]
        /\ \A i \in 0..(size - 1) : grown[b][i] = heap[data][i]
        /\ \A x \in DOMAIN heap : grown[x] = heap[x]
    <2>1. size <= cap
      BY <1>1, <1>2, <1>3, SizeAssumption
    <2>2. QED
      BY <1>3, <1>5, <2>1, GrownBlocks
  <1> HIDE DEF grown
  <1>7. \A i \in 1..n : bytes[i] \in Cell
    BY <1>6, SourceWritten
  <1> HIDE DEF bytes, n
  <1>8. /\ DOMAIN heap' = DOMAIN grown
        /\ heap' = [x \in DOMAIN heap' |-> heap'[x]]
        /\ heap'[b] \in [0..(cap - 1) -> Cell \cup {Junk}]
        /\ \A x \in DOMAIN grown \ {b} : heap'[x] = grown[x]
        /\ \A i \in 0..(cap - 1) :
              heap'[b][i] = IF i \in size..(size + n - 1)
                            THEN bytes[i - size + 1] ELSE grown[b][i]
    <2>1. cap \in Nat /\ b \in DOMAIN grown
      BY <1>3, <1>6, SizeAssumption
    <2>2. heap' = Write(grown, b, size, n, bytes)
      BY <1>4
    <2>3. QED
      BY <1>1, <1>2, <1>6, <1>7, <2>1, <2>2, WrittenBlock
  <1>9. ASSUME NEW i \in size..(size + n - 1)
        PROVE  heap'[b][i] \in Cell
    <2>1. i \in 0..(cap - 1) /\ i - size + 1 \in 1..n
      BY <1>1, <1>2, <1>3, SizeAssumption
    <2>2. QED
      BY <1>7, <1>8, <2>1
  <1>10. ASSUME NEW i \in 0..(size - 1)
         PROVE  heap'[b][i] = heap[data][i]
    <2>1. i \in 0..(cap - 1) /\ i \notin size..(size + n - 1)
      BY <1>1, <1>2, <1>3, SizeAssumption
    <2>2. QED
      BY <1>6, <1>8, <2>1
  <1>11. result' \in [status : {"OK"}, ref : Refs]
    BY <1>1, <1>2, <1>4, SizeAssumption
  <1>12. size' \in 0..MaxRef /\ size <= size' /\ size' <= cap /\ size' = size + n
    BY <1>1, <1>2, <1>3, <1>4, SizeAssumption
  <1>13. DOMAIN heap' \subseteq Block /\ views' = views
    BY <1>4, <1>5, <1>6, <1>8 DEF ArenaInv, ArenaTypes
  <1>14. \A i \in size..(size' - 1) : heap'[b][i] \in Cell
    BY <1>1, <1>2, <1>9, <1>12
  <1>15. /\ DOMAIN heap \subseteq DOMAIN heap' /\ DOMAIN heap' = retired' \cup {b}
         /\ \A x \in DOMAIN heap' \ {b} : heap'[x] = heap[x] /\ x \in DOMAIN heap
    BY <1>5, <1>6, <1>8
  <1>16. QED
    BY <1>3, <1>5, <1>8, <1>10, <1>11, <1>12, <1>13, <1>14, <1>15, KeptBytes

(* An append that fits writes behind the bytes in use only, where no view  *)
(* reaches.                                                                *)
LEMMA AppendInPlaceStep ==
    ASSUME ArenaInv, NEW src \in Sources, AppendInPlace(src)
    PROVE  ArenaInv'
  <1> DEFINE n == src.size
             bytes == Read(heap, src)
  <1>1. n \in Nat /\ \A i \in 1..n : bytes[i] \in Cell
    BY SourceWritten
  <1>2. /\ size \in Nat /\ size + n <= MaxRef /\ capacity \in 0..MaxSize
        /\ size + n <= capacity
    BY <1>1, SizeAssumption DEF ArenaInv, ArenaTypes, AppendInPlace, Overflows
  <1>3. /\ heap' = IF n = 0 THEN heap ELSE Write(heap, data, size, n, bytes)
        /\ size' = size + n
        /\ result' = Answer("OK", [offset |-> size, size |-> n])
        /\ UNCHANGED <<data, capacity, retired, views>>
    BY DEF AppendInPlace
  <1>4. CASE n = 0
    <2>1. size' = size /\ heap' = heap
      BY <1>2, <1>3, <1>4
    <2>2. result' \in [status : {"OK", "NO_MEMORY", "OVERFLOW", "INVALID_ARGUMENT"}, ref : Refs]
      BY <1>2, <1>3, <1>4, SizeAssumption
    <2>3. QED
      BY SMTT(20), <1>3, <2>1, <2>2
      DEF ArenaInv, ArenaTypes, OwnsItsBlocks, BytesInUseWritten, ViewsStayReadable
  <1>5. CASE n # 0
    <2>1. data # NULL
      BY <1>1, <1>2, <1>5 DEF ArenaInv, BytesInUseWritten
    <2>2. /\ data \in Block /\ data \in DOMAIN heap /\ DOMAIN heap \subseteq Block
          /\ heap = [x \in DOMAIN heap |-> heap[x]]
          /\ DOMAIN heap = retired \cup {data} /\ data \notin retired /\ retired \subseteq Block
      BY <2>1 DEF ArenaInv, ArenaTypes, OwnsItsBlocks, BytesInUseWritten
    <2>3. heap[data] \in [0..(capacity - 1) -> Cell \cup {Junk}]
      <3>1. PICK k \in 0..MaxSize : heap[data] \in [0..(k - 1) -> Cell \cup {Junk}]
        BY <2>2 DEF ArenaInv, ArenaTypes
      <3>2. DOMAIN heap[data] = 0..(capacity - 1)
        BY <2>1 DEF ArenaInv, BytesInUseWritten
      <3>3. QED
        BY <3>1, <3>2
    <2> HIDE DEF n, bytes
    <2>4. /\ DOMAIN heap' = DOMAIN heap
          /\ heap' = [x \in DOMAIN heap' |-> heap'[x]]
          /\ heap'[data] \in [0..(capacity - 1) -> Cell \cup {Junk}]
          /\ \A x \in DOMAIN heap \ {data} : heap'[x] = heap[x]
          /\ \A i \in 0..(capacity - 1) :
                heap'[data][i] = IF i \in size..(size + n - 1)
                                 THEN bytes[i - size + 1] ELSE heap[data][i]
      <3>1. capacity \in Nat
        BY <1>2, SizeAssumption
      <3>2. heap' = Write(heap, data, size, n, bytes)
        BY <1>3, <1>5
      <3>3. QED
        BY <1>1, <1>2, <2>2, <2>3, <3>1, <3>2, WrittenBlock
    <2>5. ASSUME NEW i \in size..(size + n - 1)
          PROVE  heap'[data][i] \in Cell
      <3>1. i \in 0..(capacity - 1) /\ i - size + 1 \in 1..n
        BY <1>1, <1>2, SizeAssumption
      <3>2. QED
        BY <1>1, <2>4, <3>1
    <2>6. ASSUME NEW i \in 0..(size - 1)
          PROVE  heap'[data][i] = heap[data][i]
      <3>1. i \in 0..(capacity - 1) /\ i \notin size..(size + n - 1)
        BY <1>1, <1>2, SizeAssumption
      <3>2. QED
        BY <2>4, <3>1
    <2>7. result' \in [status : {"OK"}, ref : Refs]
      BY <1>1, <1>2, <1>3, SizeAssumption
    <2>8. size' \in 0..MaxRef /\ size <= size' /\ size' <= capacity /\ size' = size + n
      BY <1>1, <1>2, <1>3, SizeAssumption
    <2>9. \A i \in size..(size' - 1) : heap'[data][i] \in Cell
      BY <1>1, <1>2, <2>5, <2>8
    <2>10. data' = data /\ capacity' = capacity /\ retired' = retired /\ views' = views
      BY <1>3
    <2>11. /\ DOMAIN heap \subseteq DOMAIN heap' /\ DOMAIN heap' = retired' \cup {data}
           /\ \A x \in DOMAIN heap' \ {data} : heap'[x] = heap[x] /\ x \in DOMAIN heap
      BY <2>2, <2>4, <2>10
    <2>12. QED
      BY <1>2, <2>2, <2>4, <2>6, <2>7, <2>8, <2>9, <2>10, <2>11, KeptBytes
  <1>6. QED
    BY <1>4, <1>5

(* omc_arena_reserve grows, does nothing or is refused; the bytes in use and*)
(* every view read as before.                                              *)
LEMMA ReserveStep ==
    ASSUME ArenaInv, NEW cap \in 0..MaxSize, Reserve(cap)
    PROVE  ArenaInv'
  <1>1. CASE cap > capacity /\ \E b \in Block : Move(b, cap) /\ heap' = Grown(b, cap)
                /\ result' = Answer("OK", NoRef) /\ UNCHANGED <<size, views>>
    <2>1. PICK b \in Block : /\ Move(b, cap)
                             /\ heap' = Grown(b, cap)
      BY <1>1
    <2>2. /\ b \notin DOMAIN heap
          /\ data' = b /\ capacity' = cap
          /\ retired' = DOMAIN heap /\ retired' \subseteq Block /\ b \notin retired'
      BY <2>1, MovedBlocks
    <2>3. size \in 0..MaxRef /\ size <= cap
      BY <1>1, SizeAssumption DEF ArenaInv, ArenaTypes, BytesInUseWritten
    <2>4. /\ DOMAIN heap' = DOMAIN heap \cup {b}
          /\ heap' = [x \in DOMAIN heap' |-> heap'[x]]
          /\ heap'[b] \in [0..(cap - 1) -> Cell \cup {Junk}]
          /\ \A i \in 0..(size - 1) : heap'[b][i] = heap[data][i]
          /\ \A x \in DOMAIN heap : heap'[x] = heap[x]
      <3> DEFINE grown == Grown(b, cap)
      <3>1. /\ DOMAIN grown = DOMAIN heap \cup {b}
            /\ grown = [x \in DOMAIN grown |-> grown[x]]
            /\ grown[b] \in [0..(cap - 1) -> Cell \cup {Junk}]
            /\ \A i \in 0..(size - 1) : grown[b][i] = heap[data][i]
            /\ \A x \in DOMAIN heap : grown[x] = heap[x]
        BY <2>2, <2>3, GrownBlocks
      <3>2. heap' = grown
        BY <2>1
      <3> HIDE DEF grown
      <3>3. QED
        BY <3>1, <3>2
    <2>5. result' \in [status : {"OK"}, ref : Refs]
      BY <1>1, SizeAssumption
    <2>6. size' = size /\ views' = views /\ size..(size - 1) = {}
      BY <1>1, <2>3, SizeAssumption
    <2>7. size <= size' /\ size' <= cap /\ size' \in 0..MaxRef
      BY <2>3, <2>6, SizeAssumption
    <2>8. QED
      BY <2>2, <2>4, <2>5, <2>6, <2>7, KeptBytes
  <1>2. CASE UNCHANGED <<data, size, capacity, retired, heap, views>>
                /\ result' = Answer("OK", NoRef)
    <2>1. result' \in [status : {"OK", "NO_MEMORY", "OVERFLOW", "INVALID_ARGUMENT"}, ref : Refs]
      BY <1>2, SizeAssumption
    <2>2. QED
      BY <1>2, <2>1 DEF ArenaInv, ArenaTypes, OwnsItsBlocks, BytesInUseWritten, ViewsStayReadable
  <1>3. CASE Refused("NO_MEMORY")
    BY <1>3, RefusedStep
  <1>4. QED
    BY <1>1, <1>2, <1>3 DEF Reserve

(* A view of the current block reads the current block.                    *)
LEMMA ViewStep ==
    ASSUME ArenaInv, NEW ref \in Refs, View(ref)
    PROVE  ArenaInv'
  <1> DEFINE v == [block |-> data, offset |-> ref.offset, size |-> ref.size]
  <1>1. ref.offset \in Nat /\ ref.size \in Nat /\ size \in Nat
    BY SizeAssumption DEF ArenaInv, ArenaTypes
  <1>2. result' \in [status : {"OK", "NO_MEMORY", "OVERFLOW", "INVALID_ARGUMENT"}, ref : Refs]
    BY SizeAssumption DEF View
  <1>3. CASE InBounds(ref)
    <2>1. views' = views \cup {v} /\ UNCHANGED <<data, size, capacity, retired, heap>>
      BY <1>3 DEF View
    <2>2. v \in [block : Block \cup {NULL}, offset : 0..MaxRef, size : 0..MaxRef]
      BY DEF ArenaInv, ArenaTypes
    <2>3. v.offset + v.size <= size
      BY <1>1, <1>3 DEF InBounds
    <2>4. v.size > 0 => /\ v.block \in DOMAIN heap
                        /\ \A i \in Span(v) : i \in DOMAIN heap[v.block]
      BY <1>1, <2>3, SizeAssumption DEF ArenaInv, ArenaTypes, BytesInUseWritten
    <2>5. v.block = data
      OBVIOUS
    <2> HIDE DEF v
    <2>6. ViewsStayReadable'
      BY <2>1, <2>3, <2>4, <2>5 DEF ArenaInv, ViewsStayReadable
    <2>7. QED
      BY <1>2, <2>1, <2>2, <2>6 DEF ArenaInv, ArenaTypes, OwnsItsBlocks, BytesInUseWritten
  <1>4. CASE ~InBounds(ref)
    BY <1>2, <1>4 DEF View, ArenaInv, ArenaTypes, OwnsItsBlocks, BytesInUseWritten, ViewsStayReadable
  <1>5. QED
    BY <1>3, <1>4

(* Writing through omc_arena_view_mut where nothing is lent disturbs no view.*)
LEMMA PatchStep ==
    ASSUME ArenaInv, NEW ref \in Refs, NEW cell \in Cell, Patch(ref, cell)
    PROVE  ArenaInv'
  <1> DEFINE bytes == [i \in 1..ref.size |-> cell]
  <1>1. /\ ref.offset \in Nat /\ ref.size \in Nat /\ size \in Nat /\ capacity \in Nat
        /\ ref.offset + ref.size <= size /\ size <= capacity
    BY SizeAssumption DEF ArenaInv, ArenaTypes, BytesInUseWritten, Patch, InBounds
  <1>2. result' \in [status : {"OK", "NO_MEMORY", "OVERFLOW", "INVALID_ARGUMENT"}, ref : Refs]
    BY SizeAssumption DEF Patch
  <1>3. UNCHANGED <<data, size, capacity, retired, views>>
    BY DEF Patch
  <1>4. CASE ref.size = 0
    BY <1>2, <1>3, <1>4
    DEF Patch, ArenaInv, ArenaTypes, OwnsItsBlocks, BytesInUseWritten, ViewsStayReadable
  <1>5. CASE ref.size # 0
    <2>1. data # NULL
      BY <1>1, <1>5 DEF ArenaInv, BytesInUseWritten
    <2>2. /\ data \in DOMAIN heap /\ heap = [x \in DOMAIN heap |-> heap[x]]
          /\ DOMAIN heap[data] = 0..(capacity - 1)
      BY <2>1 DEF ArenaInv, ArenaTypes, OwnsItsBlocks, BytesInUseWritten
    <2>3. heap[data] \in [0..(capacity - 1) -> Cell \cup {Junk}]
      BY <2>2 DEF ArenaInv, ArenaTypes
    <2>4. /\ DOMAIN heap' = DOMAIN heap
          /\ heap' = [x \in DOMAIN heap' |-> heap'[x]]
          /\ heap'[data] \in [0..(capacity - 1) -> Cell \cup {Junk}]
          /\ \A x \in DOMAIN heap \ {data} : heap'[x] = heap[x]
          /\ \A i \in 0..(capacity - 1) :
                heap'[data][i] = IF i \in Span(ref)
                                 THEN bytes[i - ref.offset + 1] ELSE heap[data][i]
      <3>1. \A i \in 1..ref.size : bytes[i] \in Cell
        OBVIOUS
      <3>2. heap' = Write(heap, data, ref.offset, ref.size, bytes)
        BY <1>5 DEF Patch
      <3> HIDE DEF bytes
      <3>3. QED
        BY <1>1, <2>2, <2>3, <3>1, <3>2, WrittenBlock
    <2>5. \A i \in 0..(capacity - 1) :
             heap'[data][i] = IF i \in Span(ref) THEN cell ELSE heap[data][i]
      <3>1. ASSUME NEW i \in 0..(capacity - 1), i \in Span(ref)
            PROVE  bytes[i - ref.offset + 1] = cell
        BY <1>1, <3>1
      <3> HIDE DEF bytes
      <3>2. QED
        BY <2>4, <3>1
    <2>6. ArenaTypes'
      <3>1. \A x \in DOMAIN heap' :
               \E k \in 0..MaxSize : heap'[x] \in [0..(k - 1) -> Cell \cup {Junk}]
        <4>1. ASSUME NEW x \in DOMAIN heap \ {data}
              PROVE  \E k \in 0..MaxSize : heap'[x] \in [0..(k - 1) -> Cell \cup {Junk}]
          BY <2>4 DEF ArenaInv, ArenaTypes
        <4>2. capacity \in 0..MaxSize
          BY DEF ArenaInv, ArenaTypes
        <4>3. QED
          BY <2>4, <4>1, <4>2
      <3>2. QED
        BY <1>2, <1>3, <2>4, <3>1 DEF ArenaInv, ArenaTypes
    <2>7. OwnsItsBlocks' /\ BytesInUseWritten'
      <3>1. \A i \in 0..(size - 1) : heap'[data][i] \in Cell
        <4>1. \A i \in 0..(size - 1) : i \in 0..(capacity - 1) /\ heap[data][i] \in Cell
          BY <1>1 DEF ArenaInv, BytesInUseWritten
        <4>2. QED
          BY <2>5, <4>1
      <3>2. QED
        BY <1>3, <2>4, <3>1 DEF ArenaInv, OwnsItsBlocks, BytesInUseWritten
    <2>8. ViewsStayReadable'
      <3>1. SUFFICES ASSUME NEW v \in views, v.size > 0, NEW i \in Span(v)
                     PROVE  /\ v.block \in DOMAIN heap'
                            /\ i \in DOMAIN heap'[v.block]
                            /\ heap'[v.block][i] = heap'[data][i]
        <4>1. \A v \in views : v.size > 0 => v.offset \in Span(v)
          BY SizeAssumption DEF ArenaInv, ArenaTypes
        <4>2. QED
          BY <1>3, <4>1 DEF ArenaInv, ViewsStayReadable
      <3>2. v.offset \in Nat /\ v.size \in Nat /\ v.offset + v.size <= size
        BY SizeAssumption DEF ArenaInv, ArenaTypes, ViewsStayReadable
      <3>3. i \in 0..(capacity - 1) /\ i \notin Span(ref)
        BY <1>1, <3>2 DEF Patch
      <3>4. /\ v.block \in DOMAIN heap /\ i \in DOMAIN heap[v.block]
            /\ heap[v.block][i] = heap[data][i]
        BY <3>1 DEF ArenaInv, ViewsStayReadable
      <3>5. QED
        BY <2>2, <2>4, <2>5, <3>3, <3>4
    <2>9. QED
      BY <2>6, <2>7, <2>8 DEF ArenaInv
  <1>6. QED
    BY <1>4, <1>5

(* omc_arena_reset and omc_arena_fini free what the arena owns and nothing *)
(* that a view could still point to: all views expire with them.           *)
LEMMA ClearStep ==
    ASSUME ArenaInv, Reset \/ Fini
    PROVE  ArenaInv'
  <1>1. result' \in [status : {"OK", "NO_MEMORY", "OVERFLOW", "INVALID_ARGUMENT"}, ref : Refs]
    BY SizeAssumption DEF Reset, Fini
  <1>2. 0 \in 0..MaxRef /\ 0 \in 0..MaxSize
    BY SizeAssumption
  <1>3. CASE Reset
    <2>1. /\ DOMAIN heap' = DOMAIN heap \ retired
          /\ heap' = [b \in DOMAIN heap' |-> heap'[b]]
          /\ \A b \in DOMAIN heap' : heap'[b] = heap[b]
      BY <1>3 DEF Reset, FreeAll
    <2>2. /\ size' = 0 /\ retired' = {} /\ views' = {}
          /\ data' = data /\ capacity' = capacity
      BY <1>3 DEF Reset
    <2>3. ArenaTypes'
      BY <1>1, <1>2, <2>1, <2>2 DEF ArenaInv, ArenaTypes
    <2>4. OwnsItsBlocks'
      BY <2>1, <2>2 DEF ArenaInv, OwnsItsBlocks
    <2>5. BytesInUseWritten'
      <3>1. capacity \in Nat
        BY SizeAssumption DEF ArenaInv, ArenaTypes
      <3>2. QED
        BY <2>1, <2>2, <3>1 DEF ArenaInv, OwnsItsBlocks, BytesInUseWritten
    <2>6. QED
      BY <2>2, <2>3, <2>4, <2>5 DEF ArenaInv, ViewsStayReadable
  <1>4. CASE Fini
    <2>1. heap' = [b \in {} |-> heap[b]] /\ DOMAIN heap' = {}
      <3>1. DOMAIN heap \ (retired \cup {data}) = {}
        BY DEF ArenaInv, OwnsItsBlocks
      <3>2. QED
        BY <1>4, <3>1 DEF Fini, FreeAll
    <2>2. /\ data' = NULL /\ size' = 0 /\ capacity' = 0 /\ retired' = {} /\ views' = {}
      BY <1>4 DEF Fini
    <2>3. heap' = [b \in DOMAIN heap' |-> heap'[b]]
      BY <2>1
    <2>4. ArenaTypes'
      BY <1>1, <1>2, <2>1, <2>2, <2>3 DEF ArenaTypes
    <2>5. OwnsItsBlocks' /\ BytesInUseWritten' /\ ViewsStayReadable'
      BY <2>1, <2>2 DEF OwnsItsBlocks, BytesInUseWritten, ViewsStayReadable
    <2>6. QED
      BY <2>4, <2>5 DEF ArenaInv
  <1>5. QED
    BY <1>3, <1>4

-----------------------------------------------------------------------------
(* omc_arena_init: an arena without a block satisfies the invariant.       *)
LEMMA ArenaStarts == ArenaInit => ArenaInv
  <1> SUFFICES ASSUME ArenaInit PROVE ArenaInv
    OBVIOUS
  <1>1. result \in [status : {"OK", "NO_MEMORY", "OVERFLOW", "INVALID_ARGUMENT"}, ref : Refs]
    BY SizeAssumption DEF ArenaInit
  <1>2. QED
    BY <1>1, SizeAssumption
    DEF ArenaInit, ArenaInv, ArenaTypes, OwnsItsBlocks, BytesInUseWritten, ViewsStayReadable

(* Every call of the arena keeps the inductive invariant.                  *)
LEMMA ArenaStep == ArenaInv /\ [ArenaNext]_arenaVars => ArenaInv'
  <1> SUFFICES ASSUME ArenaInv, [ArenaNext]_arenaVars PROVE ArenaInv'
    OBVIOUS
  <1>1. ASSUME NEW cap \in 0..MaxSize, Reserve(cap) PROVE ArenaInv'
    BY <1>1, ReserveStep
  <1>2. ASSUME NEW src \in Sources, ArenaAppend(src) PROVE ArenaInv'
    <2>1. CASE AppendInPlace(src)
      BY <2>1, AppendInPlaceStep
    <2>2. CASE \E b \in Block : AppendGrowing(src, b)
      BY <2>2, AppendGrowingStep
    <2>3. CASE AppendFails(src)
      BY <2>3, RefusedStep DEF AppendFails
    <2>4. QED
      BY <1>2, <2>1, <2>2, <2>3 DEF ArenaAppend
  <1>3. ASSUME NEW ref \in Refs, View(ref) PROVE ArenaInv'
    BY <1>3, ViewStep
  <1>4. ASSUME NEW ref \in Refs, NEW cell \in Cell, Patch(ref, cell) PROVE ArenaInv'
    BY <1>4, PatchStep
  <1>5. CASE Reset \/ Fini
    BY <1>5, ClearStep
  <1>6. CASE UNCHANGED arenaVars
    BY <1>6 DEF arenaVars, ArenaInv, ArenaTypes, OwnsItsBlocks, BytesInUseWritten, ViewsStayReadable
  <1>7. QED
    BY <1>1, <1>2, <1>3, <1>4, <1>5, <1>6 DEF ArenaNext, Sources

(* For any memory, any bytes and any limits: the arena owns exactly what   *)
(* it allocated, exposes only bytes that were written, and the pointers    *)
(* lent since the last reset stay valid and current.                       *)
THEOREM ArenaInvariant == ArenaSpec => []ArenaInv
  <1>1. QED
    BY ArenaStarts, ArenaStep, PTL DEF ArenaSpec

(* Every field of the arena stays within its width, for every allocator.   *)
THEOREM ArenaTypeOK == ArenaSpec => []ArenaTypes
  <1>1. ArenaInv => ArenaTypes
    BY DEF ArenaInv
  <1>2. QED
    BY <1>1, ArenaInvariant, PTL

(* No call leaks a block or leaves one on two owners.                      *)
THEOREM ArenaOwnsItsBlocks == ArenaSpec => []OwnsItsBlocks
  <1>1. ArenaInv => OwnsItsBlocks
    BY DEF ArenaInv
  <1>2. QED
    BY <1>1, ArenaInvariant, PTL

(* No call exposes a byte of a block that nobody wrote.                    *)
THEOREM ArenaBytesInUseWritten == ArenaSpec => []BytesInUseWritten
  <1>1. ArenaInv => BytesInUseWritten
    BY DEF ArenaInv
  <1>2. QED
    BY <1>1, ArenaInvariant, PTL

(* Pointers borrowed since the last reset never dangle and never read stale*)
(* bytes, however often the arena has grown.                               *)
THEOREM ArenaViewsStayReadable == ArenaSpec => []ViewsStayReadable
  <1>1. ArenaInv => ViewsStayReadable
    BY DEF ArenaInv
  <1>2. QED
    BY <1>1, ArenaInvariant, PTL

-----------------------------------------------------------------------------
(* The log the arena implements, step by step.                             *)
USE DEF Log!NoRef, Log!Answer, Log!Refs, Log!Range

(* What an append reads from its source after a growth is what the log has *)
(* at the lent reference: a retired block still holds it.                  *)
LEMMA SourceAppendable ==
    ASSUME ArenaInv, NEW src \in Sources, NEW h,
           \A b \in DOMAIN heap : b \in DOMAIN h /\ h[b] = heap[b]
    PROVE  /\ Read(h, src) \in Log!Appendable
           /\ Len(Read(h, src)) = src.size
  <1>1. CASE \E bytes \in Chunks : src = Caller(bytes)
    BY <1>1 DEF Caller, Read, Log!Appendable
  <1>2. CASE \E v \in views : src = Borrowed(v)
    <2>1. PICK v \in views : src = Borrowed(v)
      BY <1>2
    <2>2. v.offset \in Nat /\ v.size \in Nat /\ v.offset + v.size <= size /\ size \in Nat
      BY SizeAssumption DEF ArenaInv, ArenaTypes, ViewsStayReadable
    <2>3. src.size = v.size /\ src.lent = TRUE /\ src.view = v
      BY <2>1 DEF Borrowed
    <2> DEFINE log == [i \in 0..(size - 1) |-> heap[data][i]]
               read == [i \in 1..v.size |-> log[v.offset + i - 1]]
    <2>4. ASSUME NEW i \in 1..v.size
          PROVE  /\ v.block \in DOMAIN h
                 /\ h[v.block][v.offset + i - 1] = log[v.offset + i - 1]
      <3>1. v.offset + i - 1 \in Span(v) /\ v.offset + i - 1 \in 0..(size - 1)
        BY <2>2
      <3>2. /\ v.block \in DOMAIN heap
            /\ heap[v.block][v.offset + i - 1] = heap[data][v.offset + i - 1]
        BY <2>2, <3>1 DEF ArenaInv, ViewsStayReadable
      <3>3. QED
        BY <3>1, <3>2
    <2>5. Read(h, src) = [i \in 1..v.size |->
                            IF v.block \in DOMAIN h
                            THEN h[v.block][v.offset + i - 1] ELSE Junk]
      BY <2>3 DEF Read
    <2>6. Read(h, src) = read
      BY <2>4, <2>5
    <2>7. [offset |-> v.offset, size |-> v.size]
             \in {[offset |-> w.offset, size |-> w.size] : w \in views}
      OBVIOUS
    <2>8. read \in Log!Appendable
      <3>1. \E r \in {[offset |-> w.offset, size |-> w.size] : w \in views} :
               r.offset = v.offset /\ r.size = v.size
        BY <2>7
      <3>2. PICK r \in {[offset |-> w.offset, size |-> w.size] : w \in views} :
               r.offset = v.offset /\ r.size = v.size
        BY <3>1
      <3>3. [i \in 1..r.size |-> log[r.offset + i - 1]] \in Log!Appendable
        BY <3>2 DEF Log!Appendable
      <3>4. QED
        BY <3>2, <3>3
    <2>9. Len(read) = v.size
      BY <2>2
    <2>10. QED
      BY <2>3, <2>6, <2>8, <2>9
  <1>3. QED
    BY <1>1, <1>2 DEF Sources

(* A refused call is a failure of the log.                                 *)
LEMMA RefusedImplements ==
    ASSUME NEW answer \in {"NO_MEMORY", "OVERFLOW"}, Refused(answer)
    PROVE  Log!Next
  <1>1. Log!Fail(answer)
    BY DEF Refused, Log!Fail
  <1>2. QED
    BY <1>1 DEF Log!Next

(* An append of bytes or of a lent view is an append to the log.           *)
LEMMA AppendImplements ==
    ASSUME ArenaInv, NEW src \in Sources, ArenaAppend(src)
    PROVE  Log!Next
  <1> DEFINE n == src.size
  <1>1. n \in Nat /\ size \in Nat
    <2>1. n \in Nat
      BY SourceWritten
    <2>2. size \in Nat
      BY SizeAssumption DEF ArenaInv, ArenaTypes
    <2>3. QED
      BY <2>1, <2>2
  <1>2. ASSUME NEW bytes \in Log!Appendable, Len(bytes) = n, size + n <= MaxRef,
               size' = size + n, views' = views,
               result' = Answer("OK", [offset |-> size, size |-> n]),
               \A i \in 0..(size + n - 1) :
                  heap'[data'][i] = IF i < size THEN heap[data][i]
                                    ELSE bytes[i - size + 1]
        PROVE  Log!Next
    <2> HIDE DEF n
    <2>1. [i \in 0..(size' - 1) |-> heap'[data'][i]] =
             [i \in 0..(size + Len(bytes) - 1) |->
                IF i < size THEN [j \in 0..(size - 1) |-> heap[data][j]][i]
                ELSE bytes[i - size + 1]]
      BY <1>1, <1>2
    <2>2. Log!LogAppend(bytes)
      BY <1>2, <2>1 DEF Log!LogAppend
    <2>3. QED
      BY <2>2 DEF Log!Next
  <1>3. CASE AppendInPlace(src)
    <2> DEFINE bytes == Read(heap, src)
    <2>1. bytes \in Log!Appendable /\ Len(bytes) = n
      BY SourceAppendable
    <2>2. /\ size + n <= MaxRef /\ size + n <= capacity
          /\ heap' = IF n = 0 THEN heap ELSE Write(heap, data, size, n, bytes)
          /\ size' = size + n /\ views' = views /\ data' = data
          /\ result' = Answer("OK", [offset |-> size, size |-> n])
      BY <1>1, <1>3, SizeAssumption DEF AppendInPlace, Overflows
    <2> HIDE DEF bytes, n
    <2>3. \A i \in 0..(size + n - 1) :
             heap'[data'][i] = IF i < size THEN heap[data][i] ELSE bytes[i - size + 1]
      <3>1. CASE n = 0
        BY <1>1, <2>2, <3>1
      <3>2. CASE n # 0
        <4>1. data # NULL
          BY <1>1, <2>2, <3>2 DEF ArenaInv, BytesInUseWritten
        <4>2. data \in DOMAIN heap /\ DOMAIN heap[data] = 0..(capacity - 1)
          BY <4>1 DEF ArenaInv, BytesInUseWritten
        <4>3. capacity \in Nat
          BY SizeAssumption DEF ArenaInv, ArenaTypes
        <4>4. heap'[data] = [i \in 0..(capacity - 1) |->
                               IF i \in size..(size + n - 1)
                               THEN bytes[i - size + 1] ELSE heap[data][i]]
          BY <2>2, <3>2, <4>2 DEF Write
        <4>5. QED
          BY <1>1, <2>2, <4>3, <4>4
      <3>3. QED
        BY <3>1, <3>2
    <2>4. QED
      BY <1>2, <2>1, <2>2, <2>3
  <1>4. CASE \E b \in Block : AppendGrowing(src, b)
    <2>1. PICK b \in Block : AppendGrowing(src, b)
      BY <1>4
    <2> DEFINE cap == NextCapacity(capacity, size + n)
               grown == Grown(b, cap)
               bytes == Read(grown, src)
    <2>2. /\ size + n <= MaxRef /\ Move(b, cap)
          /\ heap' = Write(grown, b, size, n, bytes)
          /\ size' = size + n /\ views' = views
          /\ result' = Answer("OK", [offset |-> size, size |-> n])
      BY <1>1, <2>1, SizeAssumption DEF AppendGrowing, Overflows
    <2>3. cap \in 0..MaxSize /\ size + n <= cap
      <3>1. size + n \in 0..MaxSize /\ capacity \in 0..MaxSize
        BY <1>1, <2>2, SizeAssumption DEF ArenaInv, ArenaTypes
      <3>2. cap \in (size + n)..MaxSize
        BY <3>1, NextCapacityFits
      <3> HIDE DEF cap
      <3>3. QED
        BY <3>1, <3>2, SizeAssumption
    <2>4. b \in Block /\ b \notin DOMAIN heap /\ data' = b
      BY <2>2, MovedBlocks
    <2> HIDE DEF cap
    <2>5. size <= cap /\ cap \in Nat
      BY <1>1, <2>3, SizeAssumption
    <2>6. /\ DOMAIN grown = DOMAIN heap \cup {b}
          /\ grown[b] \in [0..(cap - 1) -> Cell \cup {Junk}]
          /\ \A i \in 0..(size - 1) : grown[b][i] = heap[data][i]
          /\ \A x \in DOMAIN heap : grown[x] = heap[x]
      BY <2>3, <2>4, <2>5, GrownBlocks
    <2> HIDE DEF grown
    <2>7. bytes \in Log!Appendable /\ Len(bytes) = n
      BY <2>6, SourceAppendable
    <2> HIDE DEF bytes, n
    <2>8. heap'[b] = [i \in 0..(cap - 1) |->
                        IF i \in size..(size + n - 1)
                        THEN bytes[i - size + 1] ELSE grown[b][i]]
      BY <2>2, <2>6 DEF Write
    <2>9. \A i \in 0..(size + n - 1) :
             heap'[data'][i] = IF i < size THEN heap[data][i] ELSE bytes[i - size + 1]
      BY <1>1, <2>3, <2>4, <2>5, <2>6, <2>8
    <2>10. QED
      BY <1>2, <2>2, <2>7, <2>9
  <1>5. CASE AppendFails(src)
    BY <1>5, RefusedImplements DEF AppendFails
  <1>6. QED
    BY <1>3, <1>4, <1>5 DEF ArenaAppend

(* Growth does not show in the log.                                        *)
LEMMA ReserveImplements ==
    ASSUME ArenaInv, NEW cap \in 0..MaxSize, Reserve(cap)
    PROVE  Log!Next
  <1>1. CASE cap > capacity /\ \E b \in Block : Move(b, cap) /\ heap' = Grown(b, cap)
                /\ result' = Answer("OK", NoRef) /\ UNCHANGED <<size, views>>
    <2>1. PICK b \in Block : Move(b, cap) /\ heap' = Grown(b, cap)
      BY <1>1
    <2>2. b \notin DOMAIN heap /\ data' = b
      BY <2>1, MovedBlocks
    <2>3. size \in Nat /\ size <= cap
      BY <1>1, SizeAssumption DEF ArenaInv, ArenaTypes, BytesInUseWritten
    <2>4. \A i \in 0..(size - 1) : heap'[b][i] = heap[data][i]
      <3> DEFINE grown == Grown(b, cap)
      <3>1. \A i \in 0..(size - 1) : grown[b][i] = heap[data][i]
        BY <2>2, <2>3, GrownBlocks
      <3>2. heap' = grown
        BY <2>1
      <3> HIDE DEF grown
      <3>3. QED
        BY <3>1, <3>2
    <2>5. Log!Reserve
      BY <1>1, <2>2, <2>4 DEF Log!Reserve
    <2>6. QED
      BY <2>5 DEF Log!Next
  <1>2. CASE UNCHANGED <<data, size, capacity, retired, heap, views>>
                /\ result' = Answer("OK", NoRef)
    <2>1. Log!Reserve
      BY <1>2 DEF Log!Reserve
    <2>2. QED
      BY <2>1 DEF Log!Next
  <1>3. CASE Refused("NO_MEMORY")
    BY <1>3, RefusedImplements
  <1>4. QED
    BY <1>1, <1>2, <1>3 DEF Reserve

(* A view that is given lends a range of the log; one that is not is a     *)
(* failure.                                                                *)
LEMMA ViewImplements ==
    ASSUME ArenaInv, NEW ref \in Refs, View(ref)
    PROVE  Log!Next
  <1> DEFINE lent == {[offset |-> v.offset, size |-> v.size] : v \in views}
  <1>1. ref.offset \in Nat /\ ref.size \in Nat /\ size \in Nat
    BY SizeAssumption DEF ArenaInv, ArenaTypes
  <1>2. CASE InBounds(ref)
    <2>1. {[offset |-> v.offset, size |-> v.size] : v \in views'} = lent \cup {ref}
      <3> DEFINE w == [block |-> data, offset |-> ref.offset, size |-> ref.size]
      <3>1. views' = views \cup {w}
        BY <1>2 DEF View
      <3>2. [offset |-> w.offset, size |-> w.size] = ref
        OBVIOUS
      <3> HIDE DEF w
      <3>3. QED
        BY <3>1, <3>2
    <2>2. Log!Lend(ref)
      BY <1>1, <1>2, <2>1 DEF View, InBounds, Log!Lend, Log!InLog
    <2>3. QED
      BY <2>2 DEF Log!Next
  <1>3. CASE ~InBounds(ref)
    <2>1. Log!Fail("INVALID_ARGUMENT")
      BY <1>3 DEF View, Log!Fail
    <2>2. QED
      BY <2>1 DEF Log!Next
  <1>4. QED
    BY <1>2, <1>3

(* A write through a mutable view changes that range of the log.           *)
LEMMA PatchImplements ==
    ASSUME ArenaInv, NEW ref \in Refs, NEW cell \in Cell, Patch(ref, cell)
    PROVE  Log!Next
  <1>1. /\ ref.offset \in Nat /\ ref.size \in Nat /\ size \in Nat /\ capacity \in Nat
        /\ ref.offset + ref.size <= size /\ size <= capacity
    BY SizeAssumption DEF ArenaInv, ArenaTypes, BytesInUseWritten, Patch, InBounds
  <1>2. \A i \in 0..(size - 1) :
           heap'[data][i] = IF i \in Span(ref) THEN cell ELSE heap[data][i]
    <2>1. CASE ref.size = 0
      BY <1>1, <2>1 DEF Patch
    <2>2. CASE ref.size # 0
      <3>1. data # NULL
        BY <1>1, <2>2 DEF ArenaInv, BytesInUseWritten
      <3>2. data \in DOMAIN heap /\ DOMAIN heap[data] = 0..(capacity - 1)
        BY <3>1 DEF ArenaInv, BytesInUseWritten
      <3>3. heap'[data] = [i \in 0..(capacity - 1) |->
                             IF i \in Span(ref)
                             THEN [k \in 1..ref.size |-> cell][i - ref.offset + 1]
                             ELSE heap[data][i]]
        BY <2>2, <3>2 DEF Patch, Write
      <3>4. QED
        BY <1>1, <3>3
    <2>3. QED
      BY <2>1, <2>2
  <1>3. /\ UNCHANGED <<data, size, views>>
        /\ result' = Answer("OK", NoRef)
        /\ \A v \in views : Span(v) \cap Span(ref) = {}
    BY DEF Patch
  <1>4. [i \in 0..(size' - 1) |-> heap'[data'][i]] =
           [i \in 0..(size - 1) |->
              IF i \in Span(ref) THEN cell
              ELSE [j \in 0..(size - 1) |-> heap[data][j]][i]]
    BY <1>2, <1>3
  <1>5. \A s \in {[offset |-> v.offset, size |-> v.size] : v \in views} :
           Log!Disjoint(ref, s)
    BY <1>3 DEF Log!Disjoint
  <1>6. Log!Patch(ref, cell)
    BY <1>1, <1>3, <1>4, <1>5 DEF Log!Patch, Log!InLog
  <1>7. QED
    BY <1>6 DEF Log!Next

(* Reset and fini clear the log.                                           *)
LEMMA ClearImplements ==
    ASSUME ArenaInv, Reset \/ Fini
    PROVE  Log!Next
  <1>1. Log!Clear
    BY DEF Reset, Fini, Log!Clear
  <1>2. QED
    BY <1>1 DEF Log!Next

(* The arena implements the log: for any sequence of calls and any malloc  *)
(* failures, clients see an append-only sequence of bytes.                 *)
THEOREM ArenaImplementsLog == ArenaSpec => ImplementsLog
  <1>1. ArenaInit => Log!Init
    BY DEF ArenaInit, Log!Init
  <1>2. ArenaInv /\ [ArenaNext]_arenaVars => [Log!Next]_(Log!vars)
    <2> SUFFICES ASSUME ArenaInv, [ArenaNext]_arenaVars PROVE [Log!Next]_(Log!vars)
      OBVIOUS
    <2>1. ASSUME NEW cap \in 0..MaxSize, Reserve(cap) PROVE Log!Next
      BY <2>1, ReserveImplements
    <2>2. ASSUME NEW src \in Sources, ArenaAppend(src) PROVE Log!Next
      BY <2>2, AppendImplements
    <2>3. ASSUME NEW ref \in Refs, View(ref) PROVE Log!Next
      BY <2>3, ViewImplements
    <2>4. ASSUME NEW ref \in Refs, NEW cell \in Cell, Patch(ref, cell) PROVE Log!Next
      BY <2>4, PatchImplements
    <2>5. CASE Reset \/ Fini
      BY <2>5, ClearImplements
    <2>6. CASE UNCHANGED arenaVars
      BY <2>6 DEF arenaVars, Log!vars
    <2>7. QED
      BY <2>1, <2>2, <2>3, <2>4, <2>5, <2>6 DEF ArenaNext, Sources
  <1>3. QED
    BY <1>1, <1>2, ArenaInvariant, PTL DEF ArenaSpec, ImplementsLog, Log!Spec

=============================================================================
