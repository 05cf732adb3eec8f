---------------------------- MODULE ReadProofs ----------------------------
(***************************************************************************)
(* Proofs about the two components a file is read with: the source, with   *)
(* its window and caches, and the reader that scans and decodes it.        *)
(***************************************************************************)
EXTENDS Source, Reader, SequenceTheorems, TLAPS

-----------------------------------------------------------------------------
(* Proofs about reads of any source, through a window and caches of any    *)
(* size, under any budgets: answers are the bytes of the source, budgets   *)
(* hold, the first failure is final and read-ahead costs nothing.          *)

StateType ==
    [code : Codes, requests : 0..MaxCount, requested : 0..MaxTotal,
     completed : 0..MaxTotal, failure : (0..SourceSize) \X (0..SourceSize)]
InputType == [start : Offsets, size : Offsets, at : Offsets, cache : Seq(Byte)]
IsRange(r) == r.start \in Nat /\ r.size \in Nat /\ r.start + r.size <= SourceSize

(* Within the budgets, as the state of an operation.                       *)
Within(st) ==
    /\ limits.requests # 0 => st.requests <= limits.requests
    /\ limits.total # 0 => st.requested <= limits.total
    /\ st.completed <= st.requested

(* An input is a part of the source, and its cache holds bytes of it.      *)
(* SlicesNest says this of a slice and its parent; a slice of any depth    *)
(* lies within the source.                                                 *)
GoodInput(input) ==
    /\ input \in InputType
    /\ input.start + input.size <= SourceSize
    /\ \A k \in 1..Len(input.cache) : input.cache[k] = input.start + input.at + k - 1

GoodWindow(w) ==
    /\ w \in [valid : BOOLEAN, offset : Offsets, bytes : Seq(Byte)]
    /\ w.valid => \A k \in 1..Len(w.bytes) : w.bytes[k] = w.offset + k - 1

GoodAnswer(a) ==
    /\ a \in [code : Codes, at : Offsets, size : Offsets, bytes : Seq(Byte)]
    /\ a.code = "OK" => Len(a.bytes) = a.size
    /\ \A k \in 1..Len(a.bytes) : a.bytes[k] = a.at + k - 1

InputsInv ==
    /\ inputs \in Seq(InputType) /\ Len(inputs) \in 1..MaxDepth
    /\ \A d \in 1..Len(inputs) : GoodInput(inputs[d])
    /\ SlicesNest

(* The inductive invariant.                                                *)
IInv ==
    /\ memory \in BOOLEAN /\ limits \in Limits
    /\ state \in StateType /\ Within(state)
    /\ GoodWindow(window)
    /\ InputsInv
    /\ GoodAnswer(answer)

(* What a step may do to the operation: nothing once it has failed, and    *)
(* never a refusal that read-ahead alone brought about.                    *)
FreeStep == RefusedForBudget => BudgetFailure(state, answer'.size) # "OK"

-----------------------------------------------------------------------------
LEMMA SizeFacts ==
    /\ SourceSize \in Nat /\ Capacity \in Nat /\ CacheBytes \in Nat
    /\ MaxCount \in Nat /\ MaxTotal \in Nat /\ ReadAhead \subseteq Nat
    /\ MaxDepth \in Nat \ {0} /\ Offsets \subseteq Nat
  BY SizesAreNaturals DEF Offsets

LEMMA LimitFacts ==
    ASSUME TypeOK
    PROVE  /\ limits.requests \in 0..MaxCount /\ limits.total \in 0..MaxTotal
           /\ limits.single \in Nat
  BY LimitsAreBudgets DEF TypeOK

(* The bytes asked for, where they lie within a range of the source.       *)
LEMMA BytesFacts ==
    ASSUME NEW range, IsRange(range), NEW offset \in Offsets, NEW size \in Offsets,
           InRange(range, offset, size)
    PROVE  /\ range.start + offset \in Offsets
           /\ BytesAt(range, offset, size) \in Seq(Byte)
           /\ Len(BytesAt(range, offset, size)) = size
           /\ \A k \in 1..size : BytesAt(range, offset, size)[k] = range.start + offset + k - 1
  <1> DEFINE b == [k \in 1..size |-> range.start + offset + k - 1]
  <1>1. BytesAt(range, offset, size) = b
    BY DEF BytesAt
  <1>2. /\ range.start \in Nat /\ range.size \in Nat /\ offset \in Nat /\ size \in Nat
        /\ range.start + offset + size <= SourceSize
    BY SizeFacts DEF IsRange, InRange
  <1>3. /\ range.start + offset \in Offsets
        /\ \A k \in 1..size : range.start + offset + k - 1 \in Byte
    BY <1>2, SizeFacts DEF Byte, Offsets
  <1>4. b \in Seq(Byte)
    BY <1>2, <1>3
  <1>5. Len(b) = size
    BY <1>2
  <1>6. QED
    BY <1>1, <1>3, <1>4, <1>5

(* A failure is recorded if it is the first.                               *)
LEMMA FailedType ==
    ASSUME NEW st \in StateType, NEW code \in Codes, NEW o \in Offsets, NEW n \in Offsets
    PROVE  /\ Failed(st, code, o, n) \in StateType
           /\ Failed(st, code, o, n).requests = st.requests
           /\ Failed(st, code, o, n).requested = st.requested
           /\ Failed(st, code, o, n).completed = st.completed
           /\ st.code # "OK" => Failed(st, code, o, n) = st
           /\ st.code = "OK" => /\ Failed(st, code, o, n).code = code
                                /\ Failed(st, code, o, n).failure = <<o, n>>
  BY DEF Failed, StateType, Offsets

(* A request that is within the budgets may be sent.                       *)
LEMMA BudgetFacts ==
    ASSUME TypeOK, NEW st \in StateType, NEW size \in Offsets
    PROVE  /\ BudgetFailure(st, size) \in
                 {"OK", "REQUEST_TOO_LARGE", "REQUEST_LIMIT", "BYTE_LIMIT"}
           /\ BudgetFailure(st, size) = "OK" <=>
                 /\ limits.single = 0 \/ size <= limits.single
                 /\ limits.requests = 0 \/ st.requests < limits.requests
                 /\ st.requests # MaxCount
                 /\ size <= MaxTotal - st.requested
                 /\ limits.total = 0 \/ (st.requested <= limits.total
                                         /\ size <= limits.total - st.requested)
  BY SizeFacts, LimitFacts DEF BudgetFailure, StateType, Offsets

(* A counter of the state is set without disturbing the rest.              *)
LEMMA CounterFacts ==
    ASSUME NEW st \in StateType
    PROVE  /\ \A n \in 0..MaxCount : [st EXCEPT !.requests = n] \in StateType
           /\ \A n \in 0..MaxTotal : [st EXCEPT !.requested = n] \in StateType
           /\ \A n \in 0..MaxTotal : [st EXCEPT !.completed = n] \in StateType
           /\ \A n, m : [st EXCEPT !.requests = n, !.requested = m]
                        = [[st EXCEPT !.requests = n] EXCEPT !.requested = m]
  BY DEF StateType

(* What a request that was sent adds to the counters.                      *)
LEMMA SentFacts ==
    ASSUME TypeOK, NEW st \in StateType, Within(st), NEW size \in Offsets,
           BudgetFailure(st, size) = "OK", NEW got \in 0..size
    PROVE  LET sent == [st EXCEPT !.requests = @ + 1, !.requested = @ + size]
               answered == [sent EXCEPT !.completed = @ + got]
           IN  /\ sent \in StateType /\ Within(sent) /\ sent.code = st.code
               /\ answered \in StateType /\ Within(answered) /\ answered.code = st.code
  <1> DEFINE counted == [st EXCEPT !.requests = st.requests + 1]
             sent == [counted EXCEPT !.requested = st.requested + size]
             answered == [sent EXCEPT !.completed = st.completed + got]
  <1>1. /\ st.requests \in 0..MaxCount /\ st.requested \in 0..MaxTotal
        /\ st.completed \in 0..MaxTotal /\ size \in Nat /\ got \in Nat /\ got <= size
    BY SizeFacts DEF StateType, Offsets
  <1>2. /\ st.requests + 1 \in 0..MaxCount /\ st.requested + size \in 0..MaxTotal
        /\ st.completed + got <= st.requested + size
    BY <1>1, BudgetFacts, SizeFacts DEF Within
  <1>3. st.completed + got \in 0..MaxTotal
    BY <1>1, <1>2, SizeFacts
  <1>4. counted \in StateType
    BY <1>2, CounterFacts
  <1>5. sent \in StateType
    <2> HIDE DEF counted
    <2> QED BY <1>2, <1>4, CounterFacts
  <1>6. answered \in StateType
    <2> HIDE DEF sent
    <2> QED BY <1>3, <1>5, CounterFacts
  <1>7. /\ sent.requests = st.requests + 1 /\ sent.requested = st.requested + size
        /\ sent.completed = st.completed /\ sent.code = st.code
        /\ answered.requests = st.requests + 1
        /\ answered.requested = st.requested + size
        /\ answered.completed = st.completed + got /\ answered.code = st.code
    BY DEF StateType
  <1>8. [st EXCEPT !.requests = @ + 1, !.requested = @ + size] = sent
    BY CounterFacts
  <1> HIDE DEF sent, answered
  <1>9. Within(sent) /\ Within(answered)
    BY <1>1, <1>2, <1>7, BudgetFacts, LimitFacts, SizeFacts DEF Within
  <1>10. answered = [sent EXCEPT !.completed = @ + got]
    BY <1>7 DEF answered
  <1>11. QED
    BY <1>5, <1>6, <1>7, <1>8, <1>9, <1>10

Refusals == {"REQUEST_TOO_LARGE", "REQUEST_LIMIT", "BYTE_LIMIT"}

(* What the host reported is no refusal of a budget.                       *)
LEMMA ReportFacts ==
    ASSUME NEW size \in Offsets, NEW report \in Reports(size)
    PROVE  /\ ReportedCode(report, size) \in Codes \ Refusals
           /\ ReportedCode(report, size) # "CONTRACT_VIOLATION" => report.read \in 0..size
           /\ ReportedCode(report, size) = "OK" => report.read = size
  <1>1. size \in Nat
    BY SizeFacts
  <1>2. CASE report \in [code : {"OK", "ERROR", "CHANGED", "CANCELLED"}, read : 0..size]
    <2>1. /\ report.code \in {"OK", "ERROR", "CHANGED", "CANCELLED"} /\ report.read \in 0..size
          /\ ~(report.read > size)
      BY <1>1, <1>2
    <2>2. QED
      BY <2>1 DEF ReportedCode, Codes, Refusals
  <1>3. CASE report \in [code : {"OK", "UNKNOWN"}, read : {size + 1}]
    <2>0. report.read = size + 1 /\ report.read > size
      BY <1>1, <1>3
    <2>1. ReportedCode(report, size) = "CONTRACT_VIOLATION"
      BY <2>0 DEF ReportedCode
    <2>2. QED
      BY <2>1 DEF Codes, Refusals
  <1>4. QED
    BY <1>2, <1>3 DEF Reports

(* What a read leaves: a state within the budgets, the code of the first   *)
(* failure, and the bytes asked for or none that count.                    *)
GoodRead(st, range, offset, size, read) ==
    /\ read.code \in Codes
    /\ read.st \in StateType /\ Within(read.st)
    /\ read.bytes \in Seq(Byte)
    /\ read.code = "OK" =>
          /\ InRange(range, offset, size) /\ Len(read.bytes) = size
          /\ \A k \in 1..size : read.bytes[k] = range.start + offset + k - 1
    /\ st.code # "OK" => read.st = st /\ read.code = st.code
    /\ st.code = "OK" =>
          /\ read.st.code = read.code
          /\ read.code \in Refusals =>
                /\ BudgetFailure(st, size) = read.code
                /\ InRange(range, offset, size) /\ size # 0
                /\ read.st.failure = <<range.start + offset, size>>

LEMMA GarbageFacts ==
    ASSUME NEW size \in Offsets
    PROVE  [k \in 1..size |-> Garbage] \in Seq(Byte)
  BY SizeFacts DEF Byte

LEMMA ReadResult ==
    ASSUME TypeOK, NEW st \in StateType, Within(st), NEW range, IsRange(range),
           NEW offset \in Offsets, NEW size \in Offsets,
           NEW read \in SourceRead(st, range, offset, size)
    PROVE  GoodRead(st, range, offset, size, read)
  <1> DEFINE absolute == range.start + offset
             garbage == [k \in 1..size |-> Garbage]
             over == BudgetFailure(st, size)
             sent == [st EXCEPT !.requests = @ + 1, !.requested = @ + size]
             answered(n) == [sent EXCEPT !.completed = @ + n]
  <1>1. garbage \in Seq(Byte)
    BY GarbageFacts
  <1>2. /\ offset \in Nat /\ size \in Nat /\ range.start \in Nat /\ range.size \in Nat
        /\ range.start + range.size <= SourceSize
        /\ st.code \in Codes
    BY SizeFacts DEF IsRange, StateType
  <1>3. ASSUME InRange(range, offset, size)
        PROVE  /\ absolute \in Offsets
               /\ BytesAt(range, offset, size) \in Seq(Byte)
               /\ Len(BytesAt(range, offset, size)) = size
               /\ \A k \in 1..size :
                     BytesAt(range, offset, size)[k] = range.start + offset + k - 1
    BY <1>3, BytesFacts
  <1>sent. ASSUME over = "OK", NEW got \in 0..size
           PROVE  /\ answered(got) \in StateType /\ Within(answered(got))
                  /\ answered(got).code = st.code
    <2>1. BudgetFailure(st, size) = "OK"
      BY <1>sent
    <2> HIDE DEF over, absolute, garbage
    <2>2. QED
      BY <2>1, SentFacts
  <1>4. CASE st.code # "OK"
    <2>1. read = [code |-> st.code, st |-> st, bytes |-> garbage]
      BY <1>4 DEF SourceRead
    <2> HIDE DEF garbage
    <2>2. QED
      BY <1>1, <1>2, <1>4, <2>1 DEF GoodRead
  <1>5. CASE st.code = "OK" /\ ~InRange(range, offset, size)
    <2>1. read = [code |-> "OUT_OF_RANGE", st |-> Failed(st, "OUT_OF_RANGE", offset, size),
                  bytes |-> garbage]
      BY <1>5 DEF SourceRead
    <2> HIDE DEF garbage
    <2>2. "OUT_OF_RANGE" \in Codes \ Refusals
      BY DEF Codes, Refusals
    <2>3. QED
      BY <1>1, <1>5, <2>1, <2>2, FailedType DEF GoodRead, Within
  <1>6. CASE st.code = "OK" /\ InRange(range, offset, size) /\ size = 0
    <2>1. read = [code |-> "OK", st |-> st, bytes |-> <<>>]
      BY <1>6 DEF SourceRead
    <2>2. QED
      BY <1>6, <2>1 DEF GoodRead, Codes, Refusals
  <1>7. CASE st.code = "OK" /\ InRange(range, offset, size) /\ size # 0
    <2>1. CASE over # "OK"
      <3>1. read = [code |-> over, st |-> Failed(st, over, absolute, size), bytes |-> garbage]
        BY <1>7, <2>1 DEF SourceRead
      <3>2. over \in Codes
        BY BudgetFacts DEF Codes
      <3> HIDE DEF garbage, over
      <3>3. QED
        BY <1>1, <1>3, <1>7, <2>1, <3>1, <3>2, FailedType DEF GoodRead, Within, over
    <2>2. CASE over = "OK" /\ memory
      <3>1. read = [code |-> "OK", st |-> answered(size), bytes |-> BytesAt(range, offset, size)]
        BY <1>7, <2>2 DEF SourceRead
      <3>2. size \in 0..size
        BY <1>2
      <3>3. answered(size) \in StateType /\ Within(answered(size)) /\ answered(size).code = "OK"
        BY <1>7, <2>2, <3>2, SentFacts
      <3> HIDE DEF answered
      <3>4. QED
        BY <1>3, <1>7, <3>1, <3>3 DEF GoodRead, Codes, Refusals
    <2>3. CASE over = "OK" /\ ~memory
      <3>1. PICK report \in Reports(size) :
               LET code == ReportedCode(report, size)
                   got == [sent EXCEPT !.completed =
                             IF code = "CONTRACT_VIOLATION" THEN @ ELSE @ + report.read]
               IN  read = IF code = "OK"
                          THEN [code |-> code, st |-> got,
                                bytes |-> BytesAt(range, offset, size)]
                          ELSE [code |-> code, st |-> Failed(got, code, absolute, size),
                                bytes |-> garbage]
        BY <1>7, <2>3 DEF SourceRead
      <3> DEFINE code == ReportedCode(report, size)
                 taken == IF code = "CONTRACT_VIOLATION" THEN 0 ELSE report.read
      <3>2. code \in Codes \ Refusals /\ taken \in 0..size
        BY <1>2, ReportFacts
      <3>3. answered(taken) \in StateType /\ Within(answered(taken)) /\ answered(taken).code = "OK"
        <4> HIDE DEF code, taken, answered
        <4>1. QED
          BY <1>7, <1>sent, <2>3, <3>2
      <3>4. [sent EXCEPT !.completed = IF code = "CONTRACT_VIOLATION" THEN @ ELSE @ + report.read]
               = answered(taken)
        <4>1. sent \in StateType
          BY <1>7, <2>3, <3>2, SentFacts
        <4>2. sent.completed + 0 = sent.completed
          BY <4>1, SizeFacts DEF StateType
        <4> HIDE DEF sent
        <4>3. QED
          BY <4>2
      <3> HIDE DEF answered, garbage, code
      <3>5. read = IF code = "OK"
                   THEN [code |-> code, st |-> answered(taken),
                         bytes |-> BytesAt(range, offset, size)]
                   ELSE [code |-> code, st |-> Failed(answered(taken), code, absolute, size),
                         bytes |-> garbage]
        BY <3>1, <3>4 DEF code
      <3>6. CASE code = "OK"
        BY <1>3, <1>7, <3>2, <3>3, <3>5, <3>6 DEF GoodRead
      <3>7. CASE code # "OK"
        <4> DEFINE kept == Failed(answered(taken), code, absolute, size)
        <4>1. /\ kept \in StateType /\ kept.code = code
              /\ kept.requests = answered(taken).requests
              /\ kept.requested = answered(taken).requested
              /\ kept.completed = answered(taken).completed
          BY SMTT(20), <1>3, <1>7, <3>2, <3>3, FailedType
        <4> HIDE DEF kept
        <4>2. Within(kept)
          BY <3>3, <4>1 DEF Within
        <4>3. read.code = code /\ read.st = kept /\ read.bytes = garbage
          BY <3>5, <3>7 DEF kept
        <4>4. QED
          BY <1>1, <1>7, <3>2, <3>7, <4>1, <4>2, <4>3 DEF GoodRead
      <3>8. QED
        BY <3>6, <3>7
    <2>4. QED
      BY <2>1, <2>2, <2>3
  <1>8. QED
    BY <1>4, <1>5, <1>6, <1>7

-----------------------------------------------------------------------------
LEMMA InvariantParts ==
    ASSUME IInv
    PROVE  TypeOK /\ BudgetsHold /\ AnswersAreTrue /\ CachesAreTrue
  <1>1. TypeOK
    BY DEF IInv, TypeOK, GoodWindow, GoodAnswer, InputsInv, GoodInput, InputType, StateType
  <1>2. BudgetsHold /\ AnswersAreTrue
    BY DEF IInv, BudgetsHold, Within, AnswersAreTrue, GoodAnswer
  <1>3. CachesAreTrue
    BY DEF IInv, CachesAreTrue, GoodWindow, InputsInv, GoodInput
  <1>4. QED
    BY <1>1, <1>2, <1>3

LEMMA InnerFacts ==
    ASSUME IInv
    PROVE  GoodInput(Inner) /\ IsRange(Inner) /\ IsRange(Whole) /\ Len(inputs) \in Nat \ {0}
  <1>1. Len(inputs) \in Nat \ {0}
    BY SizeFacts DEF IInv, InputsInv
  <1>2. GoodInput(Inner)
    <2>1. Len(inputs) \in 1..Len(inputs)
      BY <1>1
    <2>2. QED
      BY <2>1 DEF IInv, InputsInv, Inner
  <1>3. IsRange(Inner)
    BY <1>2, SizeFacts DEF GoodInput, InputType, IsRange
  <1>4. IsRange(Whole)
    BY SizeFacts DEF IsRange, Whole
  <1>5. QED
    BY <1>1, <1>2, <1>3, <1>4

(* A part of cached bytes that are in place is in place.                   *)
LEMMA PartFacts ==
    ASSUME NEW bytes \in Seq(Byte), NEW at \in Nat,
           \A k \in 1..Len(bytes) : bytes[k] = at + k - 1,
           NEW skip \in Nat, NEW size \in Nat, skip + size <= Len(bytes)
    PROVE  /\ SubSeq(bytes, skip + 1, skip + size) \in Seq(Byte)
           /\ Len(SubSeq(bytes, skip + 1, skip + size)) = size
           /\ \A k \in 1..size : SubSeq(bytes, skip + 1, skip + size)[k] = at + skip + k - 1
  <1> DEFINE part == SubSeq(bytes, skip + 1, skip + size)
  <1>0. skip + 1 \in Int /\ skip + size \in Int
    OBVIOUS
  <1>1. \A k \in (skip + 1)..(skip + size) : bytes[k] \in Byte
    OBVIOUS
  <1>2. /\ part \in Seq(Byte)
        /\ Len(part) = IF skip + 1 <= skip + size THEN skip + size - (skip + 1) + 1 ELSE 0
        /\ \A k \in 1..(skip + size - (skip + 1) + 1) : part[k] = bytes[skip + 1 + k - 1]
    BY ONLY SMTT(20), <1>0, <1>1, SubSeqProperties
  <1> HIDE DEF part
  <1>3. Len(part) = size
    BY <1>2
  <1>4. ASSUME NEW k \in 1..size PROVE part[k] = at + skip + k - 1
    <2>1. part[k] = bytes[skip + k]
      BY <1>2
    <2>2. skip + k \in 1..Len(bytes)
      OBVIOUS
    <2>3. QED
      BY <2>1, <2>2
  <1>5. QED
    BY <1>2, <1>3, <1>4 DEF part

(* What a call answers.                                                    *)
LEMMA AnswerFacts ==
    ASSUME NEW code \in Codes, NEW at \in Nat, NEW size \in Offsets, NEW bytes,
           code # "OK" => bytes = <<>>,
           code = "OK" => /\ at \in Offsets /\ bytes \in Seq(Byte) /\ Len(bytes) = size
                          /\ \A k \in 1..size : bytes[k] = at + k - 1
    PROVE  GoodAnswer(Answer(code, at, size, bytes))
  <1>1. CASE code = "OK"
    <2>1. Answer(code, at, size, bytes) = [code |-> code, at |-> at, size |-> size, bytes |-> bytes]
      BY <1>1 DEF Answer
    <2>2. QED
      BY <1>1, <2>1 DEF GoodAnswer
  <1>2. CASE code # "OK"
    <2>1. Answer(code, at, size, bytes) = [code |-> code, at |-> 0, size |-> size, bytes |-> <<>>]
      BY <1>2 DEF Answer
    <2>2. <<>> \in Seq(Byte) /\ Len(<<>>) = 0 /\ 0 \in Offsets
      BY SizeFacts DEF Offsets
    <2>3. QED
      BY <1>2, <2>1, <2>2 DEF GoodAnswer
  <1>3. QED
    BY <1>1, <1>2

(* A read of exactly these bytes.                                          *)
LEMMA ExactReadStep ==
    ASSUME IInv, NEW offset \in Offsets, NEW size \in Offsets, ExactRead(offset, size)
    PROVE  IInv' /\ Frozen /\ FreeStep
  <1>1. PICK read \in SourceRead(state, Whole, offset, size) :
            /\ state' = read.st
            /\ answer' = Answer(read.code, offset, size,
                                IF read.code = "OK" THEN read.bytes ELSE <<>>)
    BY DEF ExactRead
  <1>2. UNCHANGED <<memory, limits, window, inputs>>
    BY DEF ExactRead
  <1>3. TypeOK /\ state \in StateType /\ Within(state)
    BY InvariantParts DEF IInv
  <1>4. GoodRead(state, Whole, offset, size, read)
    BY <1>3, InnerFacts, ReadResult
  <1>5. state' \in StateType /\ Within(state')
    BY <1>1, <1>4 DEF GoodRead
  <1>6. GoodAnswer(answer')
    <2> DEFINE bytes == IF read.code = "OK" THEN read.bytes ELSE <<>>
    <2>1. /\ read.code \in Codes /\ offset \in Nat
          /\ read.code # "OK" => bytes = <<>>
          /\ read.code = "OK" =>
                /\ offset \in Offsets /\ bytes \in Seq(Byte) /\ Len(bytes) = size
                /\ \A k \in 1..size : bytes[k] = offset + k - 1
      BY <1>4, SizeFacts DEF GoodRead, Whole
    <2> HIDE DEF bytes
    <2>2. GoodAnswer(Answer(read.code, offset, size, bytes))
      BY <2>1, AnswerFacts
    <2>3. QED
      BY <1>1, <2>2 DEF bytes
  <1>7. IInv'
    BY <1>2, <1>5, <1>6 DEF IInv, Within, GoodWindow, GoodAnswer, InputsInv, SlicesNest, GoodInput
  <1>8. Frozen
    BY <1>1, <1>4 DEF GoodRead, Frozen
  <1>9. FreeStep
    BY <1>1, <1>4 DEF GoodRead, FreeStep, RefusedForBudget, Refusals, Answer
  <1>10. QED
    BY <1>7, <1>8, <1>9

(* What is fetched is what was asked for and no more than what is left,    *)
(* except that what a budget refuses is refused anyway.                    *)
LEMMA FetchFacts ==
    ASSUME IInv, state.code = "OK", NEW offset \in Offsets, NEW size \in Offsets,
           NEW minimum \in ReadAhead, InRange(Whole, offset, size), size # 0, size <= Capacity
    PROVE  LET fetch == Fetch(Whole, offset, size, minimum)
           IN  /\ fetch \in Offsets
               /\ fetch < size => BudgetFailure(state, size) # "OK"
               /\ /\ fetch >= size
                  /\ BudgetFailure(state, fetch) # "OK"
                  /\ ~(limits.total = 0 /\ fetch > MaxTotal - state.requested)
                  => BudgetFailure(state, size) # "OK"
  <1> DEFINE wanted == Smaller(Smaller(Larger(size, minimum), Capacity), SourceSize - offset)
             single == IF limits.single # 0 THEN Smaller(wanted, limits.single) ELSE wanted
             fetch == IF limits.total # 0 /\ state.requested < limits.total
                      THEN Smaller(single, limits.total - state.requested) ELSE single
  <1>1. Fetch(Whole, offset, size, minimum) = fetch
    BY DEF Fetch, Whole
  <1>2. /\ offset \in Nat /\ size \in Nat /\ minimum \in Nat /\ offset + size <= SourceSize
        /\ SourceSize \in Nat /\ Capacity \in Nat /\ MaxTotal \in Nat /\ MaxCount \in Nat
    BY SizeFacts DEF InRange, Whole
  <1>3. TypeOK /\ state \in StateType /\ Within(state)
    BY InvariantParts DEF IInv
  <1>4. /\ limits.requests \in Nat /\ limits.total \in Nat /\ limits.single \in Nat
        /\ limits.total <= MaxTotal /\ state.requested \in Nat /\ state.requested <= MaxTotal
        /\ state.requests \in Nat
        /\ limits.total # 0 => state.requested <= limits.total
    BY <1>3, LimitFacts, SizeFacts DEF StateType, Within
  <1>5. wanted \in Nat /\ wanted >= size /\ wanted + offset <= SourceSize
    BY <1>2 DEF Smaller, Larger
  <1> HIDE DEF wanted
  <1>6. /\ single \in Nat /\ single <= wanted
        /\ limits.single # 0 => single <= limits.single
        /\ single < size => limits.single # 0 /\ size > limits.single
    BY <1>2, <1>4, <1>5 DEF Smaller
  <1> HIDE DEF single
  <1>7. /\ fetch \in Nat /\ fetch <= single
        /\ limits.total # 0 /\ state.requested < limits.total
              => fetch <= limits.total - state.requested
        /\ fetch < size => single < size \/ (limits.total # 0
                                             /\ size > limits.total - state.requested)
    BY <1>2, <1>4, <1>6 DEF Smaller
  <1> HIDE DEF fetch
  <1>8. fetch \in Offsets
    BY <1>2, <1>5, <1>6, <1>7 DEF Offsets
  <1>9. fetch < size => BudgetFailure(state, size) # "OK"
    <2>1. SUFFICES ASSUME fetch < size, BudgetFailure(state, size) = "OK" PROVE FALSE
      OBVIOUS
    <2>2. /\ limits.single = 0 \/ size <= limits.single
          /\ limits.total = 0 \/ size <= limits.total - state.requested
      BY <1>3, <2>1, BudgetFacts
    <2>3. QED
      BY <1>2, <1>4, <1>6, <1>7, <2>1, <2>2
  <1>10. ASSUME fetch >= size, BudgetFailure(state, fetch) # "OK",
                ~(limits.total = 0 /\ fetch > MaxTotal - state.requested)
         PROVE  BudgetFailure(state, size) # "OK"
    <2>1. SUFFICES ASSUME BudgetFailure(state, size) = "OK" PROVE FALSE
      OBVIOUS
    <2>2. /\ limits.requests = 0 \/ state.requests < limits.requests
          /\ state.requests # MaxCount /\ size <= MaxTotal - state.requested
          /\ limits.total = 0 \/ size <= limits.total - state.requested
      BY <1>3, <2>1, BudgetFacts
    <2>3. limits.total # 0 => state.requested < limits.total
      BY <1>2, <1>4, <2>2
    <2>4. /\ limits.single = 0 \/ fetch <= limits.single
          /\ fetch <= MaxTotal - state.requested
          /\ limits.total = 0 \/ (state.requested <= limits.total
                                  /\ fetch <= limits.total - state.requested)
      BY <1>2, <1>4, <1>6, <1>7, <1>10, <2>3
    <2>5. BudgetFailure(state, fetch) = "OK"
      BY <1>3, <1>8, <2>2, <2>4, BudgetFacts
    <2>6. QED
      BY <1>10, <2>5
  <1>11. QED
    BY <1>1, <1>8, <1>9, <1>10

(* A view that is refused records the failure if it is the first.          *)
LEMMA RefuseStep ==
    ASSUME IInv, NEW code \in Codes \ {"OK"}, NEW offset \in Offsets, NEW size \in Offsets,
           RefuseView(code, offset, size), UNCHANGED <<memory, limits, inputs>>,
           state.code # "OK" \/ code \notin Refusals \/ BudgetFailure(state, size) # "OK"
    PROVE  IInv' /\ Frozen /\ FreeStep
  <1>1. /\ state' = Failed(state, code, offset, size)
        /\ answer' = Answer(code, offset, size, <<>>) /\ window' = window
    BY DEF RefuseView
  <1>2. state \in StateType /\ Within(state)
    BY DEF IInv
  <1>3. state' \in StateType /\ Within(state')
    BY <1>1, <1>2, FailedType DEF Within
  <1>4. GoodAnswer(answer')
    BY <1>1, SizeFacts, AnswerFacts
  <1>5. IInv'
    BY <1>1, <1>3, <1>4 DEF IInv, Within, GoodWindow, GoodAnswer, InputsInv, SlicesNest, GoodInput
  <1>6. Frozen
    BY <1>1, <1>2, FailedType DEF Frozen
  <1>7. FreeStep
    <2>1. answer'.size = size
      BY <1>1 DEF Answer
    <2>2. state.code = "OK" => state'.code = code
      BY <1>1, <1>2, FailedType
    <2>3. QED
      BY <2>1, <2>2 DEF FreeStep, RefusedForBudget, Refusals
  <1>8. QED
    BY <1>5, <1>6, <1>7

(* A view of bytes that are there changes nothing but the answer.          *)
LEMMA LendStep ==
    ASSUME IInv, NEW offset \in Offsets, NEW size \in Offsets, NEW bytes \in Seq(Byte),
           Len(bytes) = size, \A k \in 1..size : bytes[k] = offset + k - 1,
           LendView(offset, bytes), UNCHANGED <<memory, limits, inputs>>
    PROVE  IInv' /\ Frozen /\ FreeStep
  <1>1. /\ answer' = Answer("OK", offset, size, bytes)
        /\ state' = state /\ window' = window
    BY DEF LendView
  <1>2. "OK" \in Codes /\ offset \in Nat
    BY SizeFacts DEF Codes
  <1>3. GoodAnswer(Answer("OK", offset, size, bytes))
    BY <1>2, AnswerFacts
  <1>4. IInv'
    BY <1>1, <1>3 DEF IInv, Within, GoodWindow, InputsInv, SlicesNest, GoodInput
  <1>5. Frozen /\ FreeStep
    BY <1>1 DEF Frozen, FreeStep, RefusedForBudget
  <1>6. QED
    BY <1>4, <1>5

(* The window is refilled with what was read, or left invalid.             *)
LEMMA RefillStep ==
    ASSUME IInv, NEW offset \in Offsets, NEW size \in Offsets, NEW fetch \in Offsets,
           size # 0, fetch >= size, InRange(Whole, offset, size),
           /\ BudgetFailure(state, fetch) # "OK"
           /\ ~(limits.total = 0 /\ fetch > MaxTotal - state.requested)
           => BudgetFailure(state, size) # "OK",
           Refill(offset, size, fetch), UNCHANGED <<memory, limits, inputs>>
    PROVE  IInv' /\ Frozen /\ FreeStep
  <1>1. PICK read \in SourceRead(state, Whole, offset, fetch) :
        /\ state' = read.st
        /\ window' = [valid |-> read.code = "OK",
                      offset |-> IF read.code = "OK" THEN offset ELSE 0,
                      bytes |-> IF read.code = "OK" THEN read.bytes ELSE <<>>]
        /\ answer' = Answer(read.code, offset, size,
                            IF read.code = "OK" THEN SubSeq(read.bytes, 1, size) ELSE <<>>)
    BY DEF Refill
  <1>2. TypeOK /\ state \in StateType /\ Within(state)
    BY InvariantParts DEF IInv
  <1>3. GoodRead(state, Whole, offset, fetch, read)
    BY <1>2, InnerFacts, ReadResult
  <1>4. state' \in StateType /\ Within(state')
    BY <1>1, <1>3 DEF GoodRead
  <1>5. offset \in Nat /\ size \in Nat /\ fetch \in Nat /\ 0 \in Offsets
    BY SizeFacts DEF Offsets
  <1>6. read.code = "OK" =>
           /\ read.bytes \in Seq(Byte) /\ Len(read.bytes) = fetch
           /\ \A k \in 1..fetch : read.bytes[k] = offset + k - 1
    BY <1>3, <1>5 DEF GoodRead, Whole
  <1>7. GoodWindow(window')
    <2>1. CASE read.code = "OK"
      BY <1>1, <1>6, <2>1 DEF GoodWindow
    <2>2. CASE read.code # "OK"
      BY <1>1, <1>5, <2>2 DEF GoodWindow
    <2>3. QED
      BY <2>1, <2>2
  <1>8. GoodAnswer(answer')
    <2> DEFINE bytes == IF read.code = "OK" THEN SubSeq(read.bytes, 1, size) ELSE <<>>
    <2>1. CASE read.code = "OK"
      <3>1. /\ SubSeq(read.bytes, 0 + 1, 0 + size) \in Seq(Byte)
            /\ Len(SubSeq(read.bytes, 0 + 1, 0 + size)) = size
            /\ \A k \in 1..size : SubSeq(read.bytes, 0 + 1, 0 + size)[k] = offset + 0 + k - 1
        <4>1. 0 \in Nat /\ 0 + size <= Len(read.bytes)
          BY <1>5, <1>6, <2>1
        <4>2. QED
          BY SMTT(20), <1>5, <1>6, <2>1, <4>1, PartFacts
      <3>2. /\ bytes \in Seq(Byte) /\ Len(bytes) = size
            /\ \A k \in 1..size : bytes[k] = offset + k - 1
        BY <1>5, <2>1, <3>1
      <3>3. "OK" \in Codes
        BY DEF Codes
      <3> HIDE DEF bytes
      <3>4. GoodAnswer(Answer("OK", offset, size, bytes))
        BY <1>5, <3>2, <3>3, AnswerFacts
      <3>5. QED
        BY <1>1, <2>1, <3>4 DEF bytes
    <2>2. CASE read.code # "OK"
      <3>1. read.code \in Codes
        BY <1>3 DEF GoodRead
      <3>2. GoodAnswer(Answer(read.code, offset, size, <<>>))
        BY <1>5, <2>2, <3>1, AnswerFacts
      <3>3. QED
        BY <1>1, <2>2, <3>2
    <2>3. QED
      BY <2>1, <2>2
  <1>9. IInv'
    BY <1>4, <1>7, <1>8 DEF IInv, Within, GoodWindow, InputsInv, SlicesNest, GoodInput
  <1>10. Frozen
    BY <1>1, <1>3 DEF GoodRead, Frozen
  <1>11. FreeStep
    <2>1. SUFFICES ASSUME RefusedForBudget PROVE BudgetFailure(state, answer'.size) # "OK"
      BY DEF FreeStep
    <2>2. answer'.size = size
      BY <1>1 DEF Answer
    <2>3. state.code = "OK" /\ read.code \in Refusals /\ read.st.code = read.code
      BY <1>1, <1>3, <2>1 DEF GoodRead, RefusedForBudget, Refusals
    <2>4. BudgetFailure(state, fetch) # "OK" /\ read.st.failure[2] = fetch
      BY <1>3, <2>3 DEF GoodRead, Refusals
    <2>5. QED
      BY <1>1, <2>1, <2>2, <2>4 DEF RefusedForBudget
  <1>12. QED
    BY <1>9, <1>10, <1>11

LEMMA ReadViewStep ==
    ASSUME IInv, NEW offset \in Offsets, NEW size \in Offsets, NEW minimum \in ReadAhead,
           ReadView(offset, size, minimum)
    PROVE  IInv' /\ Frozen /\ FreeStep
  <1>1. UNCHANGED <<memory, limits, inputs>>
    BY DEF ReadView
  <1>2. /\ offset \in Nat /\ size \in Nat /\ state.code \in Codes /\ GoodWindow(window)
        /\ {"OUT_OF_RANGE", "SCRATCH_TOO_SMALL", "BYTE_LIMIT"} \subseteq Codes \ {"OK"}
        /\ Refusals = {"REQUEST_TOO_LARGE", "REQUEST_LIMIT", "BYTE_LIMIT"}
    BY SizeFacts DEF IInv, StateType, Codes, Refusals
  <1>3. CASE state.code # "OK"
    <2>1. RefuseView(state.code, offset, size)
      BY <1>3 DEF ReadView
    <2>2. QED
      BY <1>1, <1>2, <1>3, <2>1, RefuseStep
  <1>4. CASE state.code = "OK" /\ ~InRange(Whole, offset, size)
    <2>1. RefuseView("OUT_OF_RANGE", offset, size)
      BY <1>4 DEF ReadView
    <2>2. QED
      BY <1>1, <1>2, <2>1, RefuseStep
  <1>5. CASE state.code = "OK" /\ InRange(Whole, offset, size) /\ memory
    <2>1. LendView(offset, BytesAt(Whole, offset, size))
      BY <1>5 DEF ReadView
    <2>2. /\ BytesAt(Whole, offset, size) \in Seq(Byte)
          /\ Len(BytesAt(Whole, offset, size)) = size
          /\ \A k \in 1..size : BytesAt(Whole, offset, size)[k] = 0 + offset + k - 1
      BY <1>5, InnerFacts, BytesFacts DEF Whole
    <2>3. \A k \in 1..size : BytesAt(Whole, offset, size)[k] = offset + k - 1
      BY <1>2, <2>2
    <2>4. QED
      BY <1>1, <2>1, <2>2, <2>3, LendStep
  <1>6. CASE state.code = "OK" /\ InRange(Whole, offset, size) /\ ~memory /\ size = 0
    <2>1. LendView(offset, <<>>)
      BY <1>6 DEF ReadView
    <2>2. <<>> \in Seq(Byte) /\ Len(<<>>) = size /\ \A k \in 1..size : <<>>[k] = offset + k - 1
      BY <1>6
    <2>3. QED
      BY <1>1, <2>1, <2>2, LendStep
  <1>7. CASE /\ state.code = "OK" /\ InRange(Whole, offset, size) /\ ~memory /\ size # 0
             /\ size > Capacity
    <2>1. RefuseView("SCRATCH_TOO_SMALL", offset, size)
      BY <1>7 DEF ReadView
    <2>2. QED
      BY <1>1, <1>2, <2>1, RefuseStep
  <1>8. CASE /\ state.code = "OK" /\ InRange(Whole, offset, size) /\ ~memory /\ size # 0
             /\ ~(size > Capacity) /\ Cached(offset, size)
    <2> DEFINE bytes == window.bytes
               at == window.offset
               skip == offset - at
               part == SubSeq(bytes, skip + 1, skip + size)
    <2>1. LendView(offset, part)
      BY <1>8 DEF ReadView
    <2>2. bytes \in Seq(Byte) /\ at \in Offsets
      BY <1>2 DEF GoodWindow
    <2>3. /\ window.valid /\ offset >= at /\ offset - at <= Len(bytes)
          /\ size <= Len(bytes) - (offset - at)
      BY <1>8 DEF Cached
    <2>4. \A k \in 1..Len(bytes) : bytes[k] = at + k - 1
      BY <1>2, <2>3 DEF GoodWindow
    <2> HIDE DEF bytes, at
    <2>5. at \in Nat /\ Len(bytes) \in Nat
      BY <2>2, SizeFacts
    <2>6. skip \in Nat /\ skip + size <= Len(bytes) /\ at + skip = offset
      BY <1>2, <2>3, <2>5
    <2> HIDE DEF skip
    <2>7. /\ part \in Seq(Byte) /\ Len(part) = size
          /\ \A k \in 1..size : part[k] = at + skip + k - 1
      BY <1>2, <2>2, <2>4, <2>5, <2>6, PartFacts
    <2> HIDE DEF part
    <2>8. QED
      BY <1>1, <2>1, <2>6, <2>7, LendStep
  <1>9. CASE /\ state.code = "OK" /\ InRange(Whole, offset, size) /\ ~memory /\ size # 0
             /\ ~(size > Capacity) /\ ~Cached(offset, size)
    <2> DEFINE fetch == Fetch(Whole, offset, size, minimum)
    <2>1. IF fetch < size THEN RefuseView("BYTE_LIMIT", offset, size)
          ELSE Refill(offset, size, fetch)
      BY <1>9 DEF ReadView
    <2>2. size <= Capacity
      BY <1>2, <1>9, SizeFacts
    <2>3. /\ fetch \in Offsets
          /\ fetch < size => BudgetFailure(state, size) # "OK"
          /\ /\ fetch >= size
             /\ BudgetFailure(state, fetch) # "OK"
             /\ ~(limits.total = 0 /\ fetch > MaxTotal - state.requested)
             => BudgetFailure(state, size) # "OK"
      BY <1>9, <2>2, FetchFacts
    <2>4. fetch \in Nat
      BY <2>3, SizeFacts
    <2> HIDE DEF fetch
    <2>5. CASE fetch < size
      BY <1>1, <1>2, <2>1, <2>3, <2>5, RefuseStep
    <2>6. CASE ~(fetch < size)
      <3>1. fetch >= size
        BY <1>2, <2>4, <2>6
      <3>2. QED
        BY <1>1, <1>9, <2>1, <2>3, <2>6, <3>1, RefillStep
    <2>7. QED
      BY <2>5, <2>6
  <1>10. memory \in BOOLEAN
    BY DEF IInv
  <1>11. QED
    BY <1>3, <1>4, <1>5, <1>6, <1>7, <1>8, <1>9, <1>10

(* The cache of the innermost input is replaced by bytes that are in place.*)
LEMMA CachingFacts ==
    ASSUME IInv, NEW offset \in Offsets, NEW bytes \in Seq(Byte),
           \A k \in 1..Len(bytes) : bytes[k] = Inner.start + offset + k - 1,
           inputs' = [inputs EXCEPT ![Len(inputs)] =
                        [@ EXCEPT !.at = offset, !.cache = bytes]]
    PROVE  InputsInv'
  <1> DEFINE new == [Inner EXCEPT !.at = offset, !.cache = bytes]
  <1>1. Len(inputs) \in Nat \ {0} /\ GoodInput(Inner) /\ InputsInv
    BY InnerFacts DEF IInv
  <1>2. inputs' = [inputs EXCEPT ![Len(inputs)] = new]
    BY DEF Inner
  <1>3. /\ new \in InputType /\ new.start = Inner.start /\ new.size = Inner.size
        /\ new.at = offset /\ new.cache = bytes
    BY <1>1 DEF GoodInput, InputType
  <1> HIDE DEF new
  <1>4. GoodInput(new)
    BY <1>1, <1>3 DEF GoodInput
  <1>5. /\ inputs' \in Seq(InputType) /\ Len(inputs') = Len(inputs)
        /\ \A d \in 1..Len(inputs) : inputs'[d] = IF d = Len(inputs) THEN new ELSE inputs[d]
    <2>1. inputs \in Seq(InputType) /\ Len(inputs) \in 1..Len(inputs)
      BY <1>1 DEF InputsInv
    <2>2. QED
      BY <1>2, <1>3, <2>1, ExceptSeq
  <1>6. /\ Len(inputs) \in 1..MaxDepth /\ \A d \in 1..Len(inputs) : GoodInput(inputs[d])
        /\ SlicesNest
    BY <1>1 DEF InputsInv
  <1>7. \A d \in 1..Len(inputs') : GoodInput(inputs'[d])
    BY <1>4, <1>5, <1>6
  <1>8. \A d \in 1..Len(inputs) : inputs'[d].start = inputs[d].start /\ inputs'[d].size = inputs[d].size
    BY <1>3, <1>5 DEF Inner
  <1>9. SlicesNest'
    <2>1. 1 \in 1..Len(inputs) /\ \A d \in 2..Len(inputs) : d - 1 \in 1..Len(inputs) /\ d \in 1..Len(inputs)
      BY <1>1
    <2>2. QED
      BY <1>5, <1>6, <1>8, <2>1 DEF SlicesNest
  <1>10. QED
    BY <1>5, <1>6, <1>7, <1>9 DEF InputsInv, GoodInput

(* What an input answers is what it read or what it had cached.            *)
LEMMA InputReadStep ==
    ASSUME IInv, NEW offset \in Offsets, NEW size \in Offsets, InputRead(offset, size)
    PROVE  IInv' /\ Frozen /\ FreeStep
  <1>1. UNCHANGED <<memory, limits, window>>
    BY DEF InputRead
  <1>2. /\ GoodInput(Inner) /\ IsRange(Inner) /\ Inner.start \in Nat /\ Inner.size \in Nat
        /\ offset \in Nat /\ size \in Nat
        /\ state.code \in Codes /\ {"OK", "OUT_OF_RANGE"} \subseteq Codes
        /\ memory \in BOOLEAN
    BY InnerFacts, SizeFacts DEF IInv, StateType, Codes, IsRange
  <1>3. ASSUME NEW code \in Codes, NEW bytes, InputAnswer(code, offset, size, bytes),
               code # "OK" => bytes = <<>>,
               code = "OK" => /\ InRange(Inner, offset, size)
                              /\ bytes \in Seq(Byte) /\ Len(bytes) = size
                              /\ \A k \in 1..size : bytes[k] = Inner.start + offset + k - 1
        PROVE  GoodAnswer(answer') /\ answer'.size = size
    <2>1. code = "OK" => Inner.start + offset \in Offsets
      BY <1>2, <1>3, BytesFacts
    <2>2. Inner.start + offset \in Nat
      BY <1>2
    <2>3. GoodAnswer(Answer(code, Inner.start + offset, size, bytes))
      BY <1>3, <2>1, <2>2, AnswerFacts
    <2>4. QED
      BY <1>3, <2>3 DEF InputAnswer, Answer
  <1>4. ASSUME state' = state, inputs' = inputs, GoodAnswer(answer')
        PROVE  IInv' /\ Frozen /\ FreeStep
    <2>1. IInv'
      BY <1>1, <1>4 DEF IInv, Within, GoodWindow, InputsInv, SlicesNest, GoodInput
    <2>2. QED
      BY <1>4, <2>1 DEF Frozen, FreeStep, RefusedForBudget
  <1>5. CASE ~InRange(Inner, offset, size)
    <2>1. InputAnswer("OUT_OF_RANGE", offset, size, <<>>) /\ UNCHANGED <<state, inputs>>
      BY <1>5 DEF InputRead
    <2>2. GoodAnswer(answer')
      BY <1>2, <1>3, <2>1
    <2>3. QED
      BY <1>4, <2>1, <2>2
  <1>6. CASE InRange(Inner, offset, size) /\ memory
    <2>1. /\ InputAnswer("OK", offset, size, BytesAt(Inner, offset, size))
          /\ UNCHANGED <<state, inputs>>
      BY <1>6 DEF InputRead
    <2>2. GoodAnswer(answer')
      BY <1>2, <1>3, <1>6, <2>1, BytesFacts
    <2>3. QED
      BY <1>4, <2>1, <2>2
  <1>7. CASE InRange(Inner, offset, size) /\ ~memory /\ state.code # "OK"
    <2>1. InputAnswer(state.code, offset, size, <<>>) /\ UNCHANGED <<state, inputs>>
      BY <1>7 DEF InputRead
    <2>2. GoodAnswer(answer')
      BY <1>2, <1>3, <1>7, <2>1
    <2>3. QED
      BY <1>4, <2>1, <2>2
  <1>8. CASE /\ InRange(Inner, offset, size) /\ ~memory /\ state.code = "OK"
             /\ InputCached(Inner, offset, size)
    <2> DEFINE cache == Inner.cache
               at == Inner.start + Inner.at
               skip == offset - Inner.at
               part == SubSeq(cache, skip + 1, skip + size)
    <2>1. InputAnswer("OK", offset, size, part) /\ UNCHANGED <<state, inputs>>
      BY <1>8 DEF InputRead
    <2>2. /\ cache \in Seq(Byte) /\ Inner.at \in Nat
          /\ \A k \in 1..Len(cache) : cache[k] = at + k - 1
      BY <1>2, SizeFacts DEF GoodInput, InputType
    <2>3. size <= Len(cache) /\ offset >= Inner.at /\ offset - Inner.at <= Len(cache) - size
      BY <1>8 DEF InputCached
    <2> HIDE DEF cache
    <2>4. /\ at \in Nat /\ skip \in Nat /\ skip + size <= Len(cache)
          /\ at + skip = Inner.start + offset
      BY SMTT(20), <1>2, <2>2, <2>3
    <2> HIDE DEF at, skip
    <2>5. /\ part \in Seq(Byte) /\ Len(part) = size
          /\ \A k \in 1..size : part[k] = at + skip + k - 1
      BY SMTT(20), <1>2, <2>2, <2>4, PartFacts
    <2> HIDE DEF part
    <2>6. GoodAnswer(answer')
      BY <1>2, <1>3, <1>8, <2>1, <2>4, <2>5
    <2>7. QED
      BY <1>4, <2>1, <2>6
  <1>9. CASE /\ InRange(Inner, offset, size) /\ ~memory /\ state.code = "OK"
             /\ ~InputCached(Inner, offset, size)
    <2>1. PICK read \in SourceRead(state, Inner, offset, size) :
              /\ state' = read.st
              /\ InputAnswer(read.code, offset, size,
                             IF read.code = "OK" THEN read.bytes ELSE <<>>)
              /\ inputs' = IF read.code = "OK" /\ size # 0 /\ size <= CacheBytes
                           THEN [inputs EXCEPT ![Len(inputs)] =
                                    [@ EXCEPT !.at = offset, !.cache = read.bytes]]
                           ELSE inputs
      BY <1>9 DEF InputRead
    <2>2. TypeOK /\ state \in StateType /\ Within(state)
      BY InvariantParts DEF IInv
    <2>3. GoodRead(state, Inner, offset, size, read)
      BY <1>2, <2>2, ReadResult
    <2>4. state' \in StateType /\ Within(state')
      BY <2>1, <2>3 DEF GoodRead
    <2>5. GoodAnswer(answer') /\ answer'.size = size
      <3> DEFINE bytes == IF read.code = "OK" THEN read.bytes ELSE <<>>
      <3>1. /\ read.code \in Codes
            /\ read.code # "OK" => bytes = <<>>
            /\ read.code = "OK" =>
                  /\ InRange(Inner, offset, size)
                  /\ bytes \in Seq(Byte) /\ Len(bytes) = size
                  /\ \A k \in 1..size : bytes[k] = Inner.start + offset + k - 1
        BY <2>3 DEF GoodRead
      <3>2. InputAnswer(read.code, offset, size, bytes)
        BY <2>1
      <3> HIDE DEF bytes
      <3>3. QED
        BY <1>3, <3>1, <3>2
    <2>6. InputsInv'
      <3>1. CASE read.code = "OK" /\ size # 0 /\ size <= CacheBytes
        <4>1. /\ read.bytes \in Seq(Byte)
              /\ \A k \in 1..Len(read.bytes) : read.bytes[k] = Inner.start + offset + k - 1
          BY <2>3, <3>1 DEF GoodRead
        <4>2. inputs' = [inputs EXCEPT ![Len(inputs)] =
                            [@ EXCEPT !.at = offset, !.cache = read.bytes]]
          BY <2>1, <3>1
        <4>3. QED
          BY <4>1, <4>2, CachingFacts
      <3>2. CASE ~(read.code = "OK" /\ size # 0 /\ size <= CacheBytes)
        <4>1. inputs' = inputs
          BY <2>1, <3>2
        <4>2. QED
          BY <4>1 DEF IInv, InputsInv, SlicesNest, GoodInput
      <3>3. QED
        BY <3>1, <3>2
    <2>7. IInv'
      BY <1>1, <2>4, <2>5, <2>6 DEF IInv, Within, GoodWindow
    <2>8. Frozen
      BY <1>9 DEF Frozen
    <2>9. FreeStep
      BY <2>1, <2>3, <2>5 DEF GoodRead, FreeStep, RefusedForBudget, Refusals
    <2>10. QED
      BY <2>7, <2>8, <2>9
  <1>10. QED
    BY <1>2, <1>5, <1>6, <1>7, <1>8, <1>9

-----------------------------------------------------------------------------
LEMMA UncachedFacts ==
    ASSUME NEW input \in InputType, input.start + input.size <= SourceSize, input.cache = <<>>
    PROVE  GoodInput(input)
  <1>1. Len(input.cache) = 0
    OBVIOUS
  <1>2. \A k \in 1..Len(input.cache) : FALSE
    BY <1>1
  <1>3. QED
    BY <1>2 DEF GoodInput

(* A slice lies within the input it is cut from, with an empty cache.      *)
LEMMA SlicedFacts ==
    ASSUME IInv, NEW offset \in Offsets, NEW size \in Offsets
    PROVE  LET part == Sliced(Inner, offset, size)
           IN  /\ GoodInput(part) /\ Inner.start <= part.start
               /\ part.start + part.size <= Inner.start + Inner.size
  <1>1. /\ Inner \in InputType /\ Inner.start + Inner.size <= SourceSize
        /\ Inner.start \in Nat /\ Inner.size \in Nat /\ offset \in Nat /\ size \in Nat
    BY InnerFacts, SizeFacts DEF GoodInput, InputType
  <1>2. CASE InRange(Inner, offset, size)
    <2> DEFINE part == [start |-> Inner.start + offset, size |-> size, at |-> Inner.at,
                        cache |-> <<>>]
    <2>1. Sliced(Inner, offset, size) = part
      BY <1>2 DEF Sliced
    <2>2. Inner.start + offset \in Offsets /\ Inner.start + offset + size <= Inner.start + Inner.size
      BY <1>1, <1>2, SizeFacts DEF InRange, Offsets
    <2>3. <<>> \in Seq(Byte) /\ Len(<<>>) = 0
      OBVIOUS
    <2>4. part \in InputType
      BY <1>1, <2>2, <2>3 DEF InputType
    <2>7. /\ part.start = Inner.start + offset /\ part.size = size /\ part.cache = <<>>
      OBVIOUS
    <2> HIDE DEF part
    <2>8. part.start + part.size <= SourceSize
      BY <1>1, <2>2, <2>7, SizeFacts
    <2>5. GoodInput(part)
      BY <2>4, <2>7, <2>8, UncachedFacts
    <2>6. QED
      BY <1>1, <2>1, <2>2, <2>5, <2>7
  <1>3. CASE ~InRange(Inner, offset, size)
    <2> DEFINE part == [Inner EXCEPT !.size = 0, !.cache = <<>>]
    <2>1. Sliced(Inner, offset, size) = part
      BY <1>3 DEF Sliced
    <2>2. <<>> \in Seq(Byte) /\ Len(<<>>) = 0 /\ 0 \in Offsets
      BY SizeFacts DEF Offsets
    <2>3. /\ part \in InputType /\ part.start = Inner.start /\ part.size = 0
          /\ part.cache = <<>>
      BY <1>1, <2>2 DEF InputType
    <2> HIDE DEF part
    <2>4. part.start + part.size <= SourceSize
      BY <1>1, <2>3, SizeFacts
    <2>6. GoodInput(part)
      BY <2>3, <2>4, UncachedFacts
    <2>5. QED
      BY <1>1, <2>1, <2>3, <2>6
  <1>4. QED
    BY <1>2, <1>3

(* Changing the inputs alone.                                              *)
LEMMA InputsStep ==
    ASSUME IInv, InputsInv', UNCHANGED <<memory, limits, state, window, answer>>
    PROVE  IInv' /\ Frozen /\ FreeStep
  BY DEF IInv, Within, GoodWindow, GoodAnswer, Frozen, FreeStep, RefusedForBudget

LEMMA SliceStep ==
    ASSUME IInv, NEW offset \in Offsets, NEW size \in Offsets, Slice(offset, size)
    PROVE  IInv' /\ Frozen /\ FreeStep
  <1> DEFINE part == Sliced(Inner, offset, size)
  <1>1. /\ inputs' = Append(inputs, part) /\ Len(inputs) < MaxDepth
        /\ UNCHANGED <<memory, limits, state, window, answer>>
    BY DEF Slice
  <1>2. /\ GoodInput(part) /\ Inner.start <= part.start
        /\ part.start + part.size <= Inner.start + Inner.size
    BY SlicedFacts
  <1> HIDE DEF part
  <1>3. /\ inputs \in Seq(InputType) /\ Len(inputs) \in Nat \ {0} /\ MaxDepth \in Nat
        /\ \A d \in 1..Len(inputs) : GoodInput(inputs[d])
        /\ SlicesNest
    BY InnerFacts, SizeFacts DEF IInv, InputsInv
  <1>4. /\ inputs' \in Seq(InputType) /\ Len(inputs') = Len(inputs) + 1
        /\ \A d \in 1..Len(inputs) : inputs'[d] = inputs[d]
        /\ inputs'[Len(inputs) + 1] = part
    BY <1>1, <1>2, <1>3, AppendProperties DEF GoodInput
  <1>5. Len(inputs') \in 1..MaxDepth
    BY <1>1, <1>3, <1>4
  <1>6. \A d \in 1..Len(inputs') : GoodInput(inputs'[d])
    BY <1>2, <1>3, <1>4
  <1>7. SlicesNest'
    <2>1. inputs'[1] = inputs[1]
      BY <1>3, <1>4
    <2>2. ASSUME NEW d \in 2..Len(inputs')
          PROVE  /\ inputs'[d - 1].start <= inputs'[d].start
                 /\ inputs'[d].start + inputs'[d].size <= inputs'[d - 1].start + inputs'[d - 1].size
      <3>1. CASE d = Len(inputs) + 1
        <4>1. inputs'[d] = part /\ inputs'[d - 1] = Inner
          BY <1>3, <1>4, <3>1 DEF Inner
        <4>2. QED
          BY <1>2, <4>1
      <3>2. CASE d # Len(inputs) + 1
        <4>1. d \in 2..Len(inputs) /\ d \in 1..Len(inputs) /\ d - 1 \in 1..Len(inputs)
          BY <1>3, <1>4, <2>2, <3>2
        <4>2. QED
          BY <1>3, <1>4, <4>1 DEF SlicesNest
      <3>3. QED
        BY <3>1, <3>2
    <2>3. QED
      BY <1>3, <2>1, <2>2 DEF SlicesNest
  <1>8. InputsInv'
    BY <1>4, <1>5, <1>6, <1>7 DEF InputsInv, GoodInput
  <1>9. QED
    BY <1>1, <1>8, InputsStep

LEMMA UnsliceStep ==
    ASSUME IInv, Unslice
    PROVE  IInv' /\ Frozen /\ FreeStep
  <1>1. /\ inputs' = SubSeq(inputs, 1, Len(inputs) - 1) /\ Len(inputs) > 1
        /\ UNCHANGED <<memory, limits, state, window, answer>>
    BY DEF Unslice
  <1>2. /\ inputs \in Seq(InputType) /\ Len(inputs) \in 1..MaxDepth /\ MaxDepth \in Nat
        /\ \A d \in 1..Len(inputs) : GoodInput(inputs[d])
        /\ SlicesNest
    BY SizeFacts DEF IInv, InputsInv
  <1>3. /\ inputs' \in Seq(InputType) /\ Len(inputs') = Len(inputs) - 1
        /\ \A d \in 1..(Len(inputs) - 1) : inputs'[d] = inputs[d]
    <2> DEFINE n == Len(inputs) - 1
    <2>1. 1 \in Int /\ n \in Nat /\ n >= 1 /\ \A d \in 1..n : inputs[d] \in InputType
      BY <1>1, <1>2
    <2> HIDE DEF n
    <2>2. /\ SubSeq(inputs, 1, n) \in Seq(InputType)
          /\ Len(SubSeq(inputs, 1, n)) = IF 1 <= n THEN n - 1 + 1 ELSE 0
          /\ \A d \in 1..(n - 1 + 1) : SubSeq(inputs, 1, n)[d] = inputs[1 + d - 1]
      BY <2>1, SubSeqProperties
    <2>3. QED
      BY <1>1, <2>1, <2>2 DEF n
  <1>4. Len(inputs') \in 1..MaxDepth /\ \A d \in 1..Len(inputs') : GoodInput(inputs'[d])
    BY <1>1, <1>2, <1>3
  <1>5. SlicesNest'
    <2>1. inputs'[1] = inputs[1]
      BY <1>1, <1>2, <1>3
    <2>2. \A d \in 2..Len(inputs') : /\ d \in 2..Len(inputs)
                                     /\ inputs'[d] = inputs[d] /\ inputs'[d - 1] = inputs[d - 1]
      BY <1>1, <1>2, <1>3
    <2>3. QED
      BY <1>2, <2>1, <2>2 DEF SlicesNest
  <1>6. QED
    BY <1>1, <1>3, <1>4, <1>5, InputsStep DEF InputsInv, GoodInput

(* At the start nothing has been read.                                     *)
LEMMA InitialState ==
    ASSUME Init
    PROVE  IInv
  <1>1. state \in StateType /\ Within(state)
    BY LimitsAreBudgets, SizeFacts DEF Init, StateType, Within, Codes
  <1>2. GoodWindow(window)
    <2>1. window = [valid |-> FALSE, offset |-> 0, bytes |-> <<>>] /\ 0 \in Offsets
      BY SizeFacts DEF Init, Offsets
    <2>2. QED
      BY <2>1 DEF GoodWindow
  <1>3. GoodAnswer(answer)
    <2>1. 0 \in Offsets /\ 0 \in Nat /\ <<>> \in Seq(Byte) /\ Len(<<>>) = 0 /\ "OK" \in Codes
      BY SizeFacts DEF Offsets, Codes
    <2>2. GoodAnswer(Answer("OK", 0, 0, <<>>))
      <3>1. /\ Len(<<>>) = 0
            /\ \A k \in 1..0 : <<>>[k] = 0 + k - 1
        OBVIOUS
      <3>2. \A e : e = <<>> /\ Len(e) = 0 /\ (\A k \in 1..0 : e[k] = 0 + k - 1) /\ e \in Seq(Byte)
                     => GoodAnswer(Answer("OK", 0, 0, e))
        BY <2>1, AnswerFacts
      <3>3. QED
        BY <2>1, <3>1, <3>2
    <2>3. QED
      BY <2>2 DEF Init
  <1>4. InputsInv
    <2> DEFINE first == [start |-> 0, size |-> SourceSize, at |-> 0, cache |-> <<>>]
    <2>1. first \in InputType /\ GoodInput(first)
      BY SizeFacts DEF InputType, GoodInput, Offsets
    <2>2. inputs = <<first>>
      BY DEF Init
    <2>3. first.start = 0 /\ first.size = SourceSize
      OBVIOUS
    <2> HIDE DEF first
    <2>4. inputs \in Seq(InputType) /\ Len(inputs) = 1 /\ inputs[1] = first
      BY <2>1, <2>2
    <2>5. QED
      BY <2>1, <2>3, <2>4, SizeFacts DEF InputsInv, SlicesNest
  <1>5. QED
    BY <1>1, <1>2, <1>3, <1>4 DEF Init, IInv

LEMMA EveryStep ==
    ASSUME IInv, [Next]_vars
    PROVE  IInv' /\ Frozen /\ FreeStep
  <1>1. CASE UNCHANGED vars
    <2>1. InputsInv'
      BY <1>1 DEF vars, IInv, InputsInv, SlicesNest, GoodInput
    <2>2. QED
      BY <1>1, <2>1, InputsStep DEF vars
  <1>2. CASE Next
    BY <1>2, ExactReadStep, ReadViewStep, InputReadStep, SliceStep, UnsliceStep DEF Next
  <1>3. QED
    BY <1>1, <1>2

THEOREM SourceInvariant == Spec => []IInv
  <1>1. Init => IInv
    BY InitialState
  <1>2. IInv /\ [Next]_vars => IInv'
    BY EveryStep
  <1>3. QED
    BY <1>1, <1>2, PTL DEF Spec

(* Type correctness of the reads: every counter within its width, every    *)
(* slice within the input it was cut from.                                 *)
THEOREM SourceTypes == Spec => []TypeOK
  <1>1. IInv => TypeOK
    BY InvariantParts
  <1>2. QED
    BY <1>1, SourceInvariant, PTL

(* The budgets of an operation hold over direct reads, window refills with *)
(* read-ahead and cached input reads together.                             *)
THEOREM SourceBudgets == Spec => []BudgetsHold
  <1>1. IInv => BudgetsHold
    BY InvariantParts
  <1>2. QED
    BY <1>1, SourceInvariant, PTL

(* What a call answers are the source's bytes at the place asked for.      *)
THEOREM SourceAnswers == Spec => []AnswersAreTrue
  <1>1. IInv => AnswersAreTrue
    BY InvariantParts
  <1>2. QED
    BY <1>1, SourceInvariant, PTL

(* Neither the window nor the cache of any input, a slice or the one       *)
(* returned to, holds a byte that is not the source's at its place.        *)
THEOREM SourceCaches == Spec => []CachesAreTrue
  <1>1. IInv => CachesAreTrue
    BY InvariantParts
  <1>2. QED
    BY <1>1, SourceInvariant, PTL

(* The first failure of an operation is final: nothing is read after it.   *)
THEOREM SourceFailureFinal == Spec => FailureIsFinal
  <1>1. IInv /\ [Next]_vars => [Frozen]_vars
    BY EveryStep
  <1>2. QED
    BY <1>1, SourceInvariant, PTL DEF Spec, FailureIsFinal

(* Read-ahead alone never brings a refusal about, whatever the budgets.    *)
THEOREM SourceReadAheadFree == Spec => ReadAheadIsFree
  <1>1. IInv /\ [Next]_vars
           => [RefusedForBudget => BudgetFailure(state, answer'.size) # "OK"]_vars
    BY EveryStep DEF FreeStep
  <1>2. QED
    BY <1>1, SourceInvariant, PTL DEF Spec, ReadAheadIsFree

-----------------------------------------------------------------------------
(* Proofs about reading for any files and any room for blocks: ids of the  *)
(* old store stay valid however a read ends, a callback that is not read   *)
(* to its end changes nothing, and no decoder's failure is forgotten.      *)

Result == Decoder \cup {"pay"}
Answered == {"OK", "TRUNCATED", "UNSUPPORTED", "MALFORMED", "LIMIT", "NOMEM"}
Stores == [blocks : Nat, entries : Seq(Nat)]

(* The types of the variables, and that a block in hand was found.         *)
TypeInv ==
    /\ file \in Files /\ inMemory \in BOOLEAN /\ cap \in Nat
    /\ store \in Stores /\ candidate \in Stores
    /\ scan \in [status : {"OK", "TRUNCATED", "UNSUPPORTED", "MALFORMED"}, written : Nat]
    /\ scan.written <= Len(file.blocks)
    /\ res \in [Result -> Answered]
    /\ scratchShort \in BOOLEAN /\ io \in BOOLEAN
    /\ i \in Nat \ {0}
    /\ embedded \in Seq({"xmp", "icc", "iptc", "irb"})
    /\ outcomes \subseteq (Result \cup {"text"}) \X Answered
    /\ pc \in {"begin", "scan", "boxes", "native", "block", "assemble", "decode",
               "embedded", "tail", "sidecar", "classify", "done"}
    /\ pc \in {"assemble", "decode", "embedded"} => i <= scan.written

(* A store keeps what it held, and what was added names added blocks.      *)
Grown(s) ==
    /\ s.blocks >= Old.blocks
    /\ IsPrefix(Old.entries, s.entries)
    /\ \A k \in (Len(Old.entries) + 1) .. Len(s.entries) :
          s.entries[k] \in {NoBlock} \cup (Old.blocks + 1) .. s.blocks

(* A block in hand is an added one.                                        *)
InHand == pc \in {"assemble", "decode", "embedded"} => LastBlock > Old.blocks

StoreInv ==
    /\ Grown(store) /\ Grown(candidate) /\ InHand
    /\ ~inMemory /\ ~(Done /\ status = "OK") => store = Old
    /\ pc = "begin" => candidate = Old

-----------------------------------------------------------------------------
(* What is known of the files.                                             *)
LEMMA FileFacts ==
    ASSUME TypeInv
    PROVE  /\ file.scan \in {"OK", "UNSUPPORTED", "MALFORMED"}
           /\ file.blocks \in Seq(Scanned)
           /\ file.embedded \in Seq({"xmp", "icc", "iptc", "irb"})
           /\ file.format = "SIDECAR" => file.blocks = <<>>
           /\ file.format = "TIFF" =>
                 Len(file.blocks) <= 1
                 /\ \A k \in DOMAIN file.blocks : file.blocks[k].decoder = "exif"
  BY FilesAssumption DEF TypeInv

(* Adding entries and blocks keeps a store a store.                        *)
LEMMA AddedType ==
    ASSUME NEW s \in Stores, NEW n \in 0..1, NEW block \in Nat
    PROVE  /\ Added(s, n, block) \in Stores /\ NewBlock(s) \in Stores
           /\ Added(s, n, block).blocks = s.blocks
           /\ NewBlock(s).blocks = s.blocks + 1
           /\ NewBlock(s).entries = s.entries
           /\ Len(Added(s, n, block).entries) = Len(s.entries) + n
           /\ \A k \in 1..Len(s.entries) : Added(s, n, block).entries[k] = s.entries[k]
           /\ \A k \in (Len(s.entries) + 1)..(Len(s.entries) + n) :
                 Added(s, n, block).entries[k] = block
  <1> DEFINE new == [k \in 1..n |-> block]
  <1>1. new \in Seq(Nat) /\ Len(new) = n /\ \A k \in 1..n : new[k] = block
    OBVIOUS
  <1>2. s.entries \in Seq(Nat) /\ s.blocks \in Nat
    BY DEF Stores
  <1>4. Added(s, n, block) = [s EXCEPT !.entries = s.entries \o new]
    BY DEF Added
  <1> HIDE DEF new
  <1>3. /\ s.entries \o new \in Seq(Nat)
        /\ Len(s.entries \o new) = Len(s.entries) + n
        /\ \A k \in 1..Len(s.entries) : (s.entries \o new)[k] = s.entries[k]
        /\ \A k \in (Len(s.entries) + 1)..(Len(s.entries) + n) : (s.entries \o new)[k] = block
    <2>1. s.entries \o new \in Seq(Nat) /\ Len(s.entries \o new) = Len(s.entries) + n
      BY <1>1, <1>2
    <2>2. \A k \in 1..Len(s.entries) : (s.entries \o new)[k] = s.entries[k]
      BY <1>1, <1>2
    <2>3. ASSUME NEW k \in (Len(s.entries) + 1)..(Len(s.entries) + n)
          PROVE  (s.entries \o new)[k] = block
      <3>1. k - Len(s.entries) \in 1..n
        BY <1>2
      <3>2. (s.entries \o new)[k] = new[k - Len(s.entries)]
        BY <1>1, <1>2, <3>1
      <3>3. QED
        BY <1>1, <3>1, <3>2
    <2>4. QED
      BY <2>1, <2>2, <2>3
  <1>5. Added(s, n, block) = [blocks |-> s.blocks, entries |-> s.entries \o new]
    BY <1>4 DEF Stores
  <1>6. NewBlock(s) = [blocks |-> s.blocks + 1, entries |-> s.entries]
    BY DEF Stores, NewBlock
  <1>7. QED
    BY <1>2, <1>3, <1>5, <1>6 DEF Stores

(* A store that has grown grows by entries of added blocks, and by blocks. *)
LEMMA GrownAdded ==
    ASSUME NEW s \in Stores, Grown(s), NEW n \in 0..1,
           NEW block \in {NoBlock} \cup (Old.blocks + 1)..s.blocks
    PROVE  Grown(Added(s, n, block)) /\ Grown(NewBlock(s))
  <1>1. /\ Old.blocks = 1 /\ Len(Old.entries) = 2 /\ Old.entries \in Seq(Nat)
        /\ block \in Nat /\ block \in {NoBlock} \cup 2..s.blocks
    BY DEF Old, NoBlock, Stores
  <1> DEFINE t == Added(s, n, block)
             b == NewBlock(s)
  <1>2. /\ t \in Stores /\ b \in Stores /\ t.blocks = s.blocks /\ b.blocks = s.blocks + 1
        /\ b.entries = s.entries
        /\ Len(t.entries) = Len(s.entries) + n
        /\ \A k \in 1..Len(s.entries) : t.entries[k] = s.entries[k]
        /\ \A k \in (Len(s.entries) + 1)..(Len(s.entries) + n) : t.entries[k] = block
    BY SMTT(20), <1>1, AddedType
  <1> HIDE DEF t, b
  <1>3. /\ s.blocks \in Nat /\ s.entries \in Seq(Nat) /\ s.blocks >= 1 /\ Len(s.entries) >= 2
        /\ SubSeq(Old.entries, 1, 2) = SubSeq(s.entries, 1, 2)
        /\ \A k \in 3..Len(s.entries) : s.entries[k] \in {NoBlock} \cup 2..s.blocks
    BY <1>1 DEF Grown, IsPrefix, Stores
  <1>4. SubSeq(t.entries, 1, 2) = SubSeq(s.entries, 1, 2)
    <2>1. t.entries \in Seq(Nat)
      BY <1>2 DEF Stores
    <2>2. \A k \in 1..2 : t.entries[k] = s.entries[k]
      BY <1>2, <1>3
    <2>3. QED
      BY <1>2, <1>3, <2>1, <2>2
  <1>5. \A k \in 3..Len(t.entries) : t.entries[k] \in {NoBlock} \cup 2..s.blocks
    <2>1. ASSUME NEW k \in 3..Len(t.entries)
          PROVE  t.entries[k] \in {NoBlock} \cup 2..s.blocks
      <3>1. CASE k <= Len(s.entries)
        <4>1. k \in 1..Len(s.entries) /\ k \in 3..Len(s.entries)
          BY <1>2, <1>3, <3>1
        <4>2. t.entries[k] = s.entries[k]
          BY <1>2, <4>1
        <4>3. QED
          BY <1>3, <4>1, <4>2
      <3>2. CASE k > Len(s.entries)
        <4>1. k \in (Len(s.entries) + 1)..(Len(s.entries) + n)
          BY <1>2, <1>3, <3>2
        <4>2. t.entries[k] = block
          BY <1>2, <4>1
        <4>3. QED
          BY <1>1, <4>2
      <3>3. QED
        BY <1>3, <3>1, <3>2
    <2>2. QED
      BY <2>1
  <1>6. Grown(t)
    BY <1>1, <1>2, <1>3, <1>4, <1>5 DEF Grown, IsPrefix
  <1>7. \A k \in 3..Len(b.entries) : b.entries[k] \in {NoBlock} \cup 2..b.blocks
    BY SMTT(20), <1>2, <1>3
  <1>8. Grown(b)
    BY <1>1, <1>2, <1>3, <1>7 DEF Grown, IsPrefix
  <1>9. QED
    BY <1>6, <1>8 DEF t, b

-----------------------------------------------------------------------------
(* What a call of a decoder may do: entries of a block go into the store,  *)
(* its answer is merged and noted.                                         *)
LEMMA DecodedType ==
    ASSUME TypeInv, NEW d \in Result, NEW s \in Answered, NEW n \in 0..1,
           NEW t \in Stores, NEW block \in Nat
    PROVE  /\ Into(Added(t, n, block)) => store' \in Stores /\ candidate' \in Stores
           /\ MergeInto(d, s) \in [Result -> Answered]
           /\ [res EXCEPT ![d] = s] \in [Result -> Answered]
           /\ Call(d, s) => outcomes' \subseteq (Result \cup {"text"}) \X Answered
  <1>1. Added(t, n, block) \in Stores
    BY AddedType
  <1>2. Into(Added(t, n, block)) => store' \in Stores /\ candidate' \in Stores
    BY <1>1 DEF Into, TypeInv
  <1>3. MergeInto(d, s) \in [Result -> Answered]
    BY DEF MergeInto, Worse, TypeInv
  <1>4. Call(d, s) => outcomes' \subseteq (Result \cup {"text"}) \X Answered
    BY DEF Call, TypeInv
  <1>5. QED
    BY <1>2, <1>3, <1>4 DEF TypeInv

(* A decoder answers with a status.                                        *)
LEMMA AnswerType == \A d : Answers(d) \subseteq Answered
  BY DEF Answers, Losses, Answered

LEMMA TargetType ==
    ASSUME TypeInv
    PROVE  /\ Target \in Stores /\ LastBlock \in Nat /\ NoBlock \in Nat
           /\ NewBlock(Target) \in Stores /\ Target.blocks + 1 \in Nat
           /\ NewBlock(candidate) \in Stores /\ candidate.blocks + 1 \in Nat
  <1>1. store \in Stores /\ candidate \in Stores /\ 0 \in Nat /\ 0 \in 0..1
    BY DEF TypeInv
  <1>2. \A s \in Stores : s.blocks \in Nat /\ NewBlock(s) \in Stores
    BY <1>1, AddedType DEF Stores
  <1>3. Target \in Stores
    BY <1>1 DEF Target
  <1>4. QED
    BY <1>1, <1>2, <1>3 DEF LastBlock, NoBlock

(* The initial state has its types.                                        *)
LEMMA TypeInit == ReadInit => TypeInv
  <1>1. FreshRes \in [Result -> Answered]
    BY DEF FreshRes, Result, Answered
  <1>2. Old \in Stores
    BY DEF Old, NoBlock, Stores
  <1>3. ASSUME ReadInit PROVE TypeInv
    <2>1. file.blocks \in Seq(Scanned)
      BY <1>3, FilesAssumption DEF ReadInit
    <2>2. scan \in [status : {"OK", "TRUNCATED", "UNSUPPORTED", "MALFORMED"}, written : Nat]
          /\ scan.written <= Len(file.blocks)
      BY <1>3, <2>1 DEF ReadInit
    <2>3. cap \in Nat /\ file \in Files /\ inMemory \in BOOLEAN
      BY <1>3, CapsAreNaturals DEF ReadInit
    <2>4. embedded \in Seq({"xmp", "icc", "iptc", "irb"})
      BY <1>3 DEF ReadInit
    <2>5. store \in Stores /\ candidate \in Stores /\ res \in [Result -> Answered]
      BY <1>1, <1>2, <1>3 DEF ReadInit
    <2>6. pc = "begin" /\ i \in Nat \ {0} /\ outcomes = {}
      BY <1>3 DEF ReadInit
    <2>7. scratchShort \in BOOLEAN /\ io \in BOOLEAN
      BY <1>3, Zenon DEF ReadInit
    <2>8. QED
      BY <2>2, <2>3, <2>4, <2>5, <2>6, <2>7 DEF TypeInv
  <1>4. QED
    BY <1>3

(* The steps that decode nothing.                                          *)
LEMMA TypeQuiet ==
    ASSUME TypeInv,
           Refuse \/ Begin \/ ReadFails \/ Scan \/ FinishTiff \/ Publish
    PROVE  TypeInv'
  <1>1. CASE Refuse
    BY <1>1 DEF Refuse, Refused, TypeInv, call
  <1>2. CASE Begin
    BY <1>2 DEF Begin, TypeInv, call
  <1>3. CASE ReadFails
    BY <1>3 DEF ReadFails, TypeInv, call
  <1>4. CASE Scan
    <2>1. Len(file.blocks) \in Nat /\ cap \in Nat
      BY FileFacts DEF TypeInv
    <2>2. scan' \in [status : {"OK", "TRUNCATED", "UNSUPPORTED", "MALFORMED"}, written : Nat]
          /\ scan'.written <= Len(file.blocks)
      BY <1>4, <2>1, FileFacts DEF Scan
    <2>3. QED
      BY <1>4, <2>2 DEF Scan, TypeInv, call
  <1>5. CASE FinishTiff
    BY <1>5 DEF FinishTiff, TypeInv, call
  <1>6. CASE Publish
    BY <1>6 DEF Publish, TypeInv, call
  <1>7. QED
    BY <1>1, <1>2, <1>3, <1>4, <1>5, <1>6

(* The steps on the file as a whole.                                       *)
LEMMA TypeWhole ==
    ASSUME TypeInv,
           DecodeBoxes \/ DecodeNative \/ DecodeLooseXmp \/ DecodeExr \/ DecodeSidecar
    PROVE  TypeInv'
  <1> DEFINE Same == UNCHANGED <<store, candidate, res, outcomes>>
             Decoded(d) == \E s \in Answered, n \in 0..1, t \in Stores, block \in Nat :
                              /\ Into(Added(t, n, block))
                              /\ res' \in {res, MergeInto(d, s), [res EXCEPT ![d] = s]}
                              /\ UNCHANGED outcomes \/ Call(d, s)
             Typed == /\ store' \in Stores /\ candidate' \in Stores
                      /\ res' \in [Result -> Answered]
                      /\ outcomes' \subseteq (Result \cup {"text"}) \X Answered
  <1>0. ASSUME NEW d \in Result, Same \/ Decoded(d) PROVE Typed
    <2>1. CASE Same
      BY <2>1 DEF TypeInv
    <2>2. CASE Decoded(d)
      <3>1. PICK s \in Answered, n \in 0..1, t \in Stores, block \in Nat :
               /\ Into(Added(t, n, block))
               /\ res' \in {res, MergeInto(d, s), [res EXCEPT ![d] = s]}
               /\ UNCHANGED outcomes \/ Call(d, s)
        BY <2>2
      <3>2. store' \in Stores /\ candidate' \in Stores
        BY <3>1, DecodedType
      <3>3. res' \in [Result -> Answered]
        <4>1. /\ res \in [Result -> Answered] /\ MergeInto(d, s) \in [Result -> Answered]
              /\ [res EXCEPT ![d] = s] \in [Result -> Answered]
          BY DecodedType DEF TypeInv
        <4>2. QED
          BY <3>1, <4>1
      <3>4. outcomes' \subseteq (Result \cup {"text"}) \X Answered
        BY <3>1, DecodedType DEF TypeInv
      <3>5. QED
        BY <3>2, <3>3, <3>4
    <2>3. QED
      BY <1>0, <2>1, <2>2
  <1>1. CASE DecodeBoxes
    <2>1. Same \/ Decoded("bmff")
      BY <1>1, AnswerType, TargetType DEF DecodeBoxes
    <2>2. Typed
      BY <1>0, <2>1 DEF Result, Decoder
    <2>3. QED
      BY <1>1, <2>2 DEF DecodeBoxes, TypeInv, call
  <1>2. CASE DecodeNative
    <2>1. Same \/ Decoded("exif")
      BY <1>2, AnswerType, TargetType DEF DecodeNative
    <2>2. Typed
      BY <1>0, <2>1 DEF Result, Decoder
    <2>3. /\ scratchShort' \in BOOLEAN
          /\ scan' \in [status : {"OK", "TRUNCATED", "UNSUPPORTED", "MALFORMED"}, written : Nat]
          /\ scan'.written = scan.written
      BY <1>2 DEF DecodeNative, TypeInv
    <2>4. QED
      BY <1>2, <2>2, <2>3 DEF DecodeNative, TypeInv, call
  <1>3. CASE DecodeLooseXmp
    <2>1. \/ Same \/ Decoded("xmp")
          \/ res' = [res EXCEPT !.xmp = "NOMEM"] /\ Call("xmp", "NOMEM")
             /\ UNCHANGED <<store, candidate>>
      BY <1>3, AnswerType, TargetType DEF DecodeLooseXmp
    <2>2. Typed
      <3>1. "xmp" \in Result /\ "NOMEM" \in Answered
        BY DEF Result, Decoder, Answered
      <3>2. CASE Same \/ Decoded("xmp")
        BY <1>0, <3>1, <3>2
      <3>3. CASE res' = [res EXCEPT !.xmp = "NOMEM"] /\ Call("xmp", "NOMEM")
                 /\ UNCHANGED <<store, candidate>>
        BY <3>1, <3>3 DEF TypeInv, Call
      <3>4. QED
        BY <2>1, <3>2, <3>3
    <2>3. QED
      BY <1>3, <2>2 DEF DecodeLooseXmp, TypeInv, call
  <1>4. CASE DecodeExr
    <2>1. Same \/ Decoded("exr")
      <3>1. (IF file.format = "EXR" THEN Answers("exr") ELSE {"UNSUPPORTED"}) \subseteq Answered
        BY AnswerType DEF Answered
      <3>2. QED
        BY <1>4, <3>1, TargetType DEF DecodeExr
    <2>2. Typed
      BY <1>0, <2>1 DEF Result, Decoder
    <2>3. /\ scratchShort' \in BOOLEAN
          /\ scan' \in [status : {"OK", "TRUNCATED", "UNSUPPORTED", "MALFORMED"}, written : Nat]
          /\ scan'.written = scan.written
      BY <1>4 DEF DecodeExr, TypeInv
    <2>4. QED
      BY <1>4, <2>2, <2>3 DEF DecodeExr, TypeInv, call
  <1>5. CASE DecodeSidecar
    <2>1. CASE UNCHANGED <<candidate, scan, res, outcomes>> /\ scratchShort' \in BOOLEAN
      BY <1>5, <2>1 DEF DecodeSidecar, TypeInv, call
    <2>2. CASE \E s \in Answers("xmp"), n \in 0..1, stored \in BOOLEAN :
                 /\ candidate' = IF stored
                                 THEN Added(NewBlock(candidate), n, candidate.blocks + 1)
                                 ELSE candidate
                 /\ res' = [FreshRes EXCEPT !.xmp = s]
                 /\ Call("xmp", s)
                 /\ scan' = IF s = "OK" /\ stored THEN [scan EXCEPT !.status = "OK"] ELSE scan
                 /\ UNCHANGED <<store, scratchShort>>
      <3>1. candidate' \in Stores
        <4>1. candidate \in Stores
          BY DEF TypeInv
        <4>2. \A n \in 0..1 : Added(NewBlock(candidate), n, candidate.blocks + 1) \in Stores
          BY AddedType, TargetType
        <4>3. QED
          BY <2>2, <4>1, <4>2
      <3>2. res' \in [Result -> Answered]
        <4>1. FreshRes \in [Result -> Answered]
          BY DEF FreshRes, Result, Answered
        <4>2. QED
          BY <2>2, <4>1, AnswerType
      <3>3. outcomes' \subseteq (Result \cup {"text"}) \X Answered
        BY <2>2, AnswerType DEF Call, TypeInv, Result, Decoder
      <3>4. /\ scan' \in [status : {"OK", "TRUNCATED", "UNSUPPORTED", "MALFORMED"}, written : Nat]
            /\ scan'.written = scan.written
        BY <2>2 DEF TypeInv
      <3>5. UNCHANGED <<store, scratchShort>>
        BY <2>2
      <3>6. QED
        BY <1>5, <3>1, <3>2, <3>3, <3>4, <3>5 DEF DecodeSidecar, TypeInv, call
    <2>3. QED
      <3>1. scratchShort \in BOOLEAN
        BY DEF TypeInv
      <3>2. QED
        BY <1>5, <2>1, <2>2, <3>1 DEF DecodeSidecar
  <1>6. QED
    BY <1>1, <1>2, <1>3, <1>4, <1>5

(* The steps on the blocks.                                                *)
LEMMA TypeBlocks ==
    ASSUME TypeInv,
           StoreBlock \/ StoreBlockFails \/ Assemble \/ DecodeBlock \/ DecodeEmbedded \/ EmitText
    PROVE  TypeInv'
  <1>1. CASE StoreBlock
    <2>1. store' \in Stores /\ candidate' \in Stores
      BY <1>1, TargetType DEF StoreBlock, Into, TypeInv
    <2>2. i' \in Nat \ {0}
      BY <1>1 DEF StoreBlock, NextBlock, TypeInv
    <2>3. pc' \in {"block", "assemble", "decode"} /\ (pc' # "block" => i' <= scan.written)
      BY <1>1 DEF StoreBlock, NextBlock, AtBlock
    <2>4. QED
      BY <1>1, <2>1, <2>2, <2>3 DEF StoreBlock, TypeInv, call
  <1>2. CASE StoreBlockFails
    <2>1. res' \in [Result -> Answered]
      BY <1>2 DEF StoreBlockFails, TypeInv, Answered
    <2>2. outcomes' \subseteq (Result \cup {"text"}) \X Answered
      BY <1>2 DEF StoreBlockFails, TypeInv, Call, Answered, Result, Decoder
    <2>3. QED
      BY <1>2, <2>1, <2>2 DEF StoreBlockFails, TypeInv, call
  <1>3. CASE Assemble
    <2>1. PICK s \in Answered :
            /\ res' = MergeInto("pay", s)
            /\ Call("pay", s)
            /\ IF s = "OK" /\ Block.decoder # "none" THEN pc' = "decode" /\ UNCHANGED i
               ELSE NextBlock
      BY <1>3, AnswerType DEF Assemble
    <2>2. "pay" \in Result
      BY DEF Result
    <2>3. res' \in [Result -> Answered] /\ outcomes' \subseteq (Result \cup {"text"}) \X Answered
      BY <2>1, <2>2, DecodedType, TargetType
    <2>4. i' \in Nat \ {0} /\ pc' \in {"decode", "block"} /\ (pc' = "decode" => i' <= scan.written)
      BY <1>3, <2>1 DEF Assemble, NextBlock, TypeInv
    <2>5. QED
      BY <1>3, <2>3, <2>4 DEF Assemble, TypeInv, call
  <1>4. CASE DecodeBlock
    <2>1. PICK s \in Answered, n \in 0..1 :
            /\ Into(Added(Target, n, LastBlock))
            /\ res' = IF TiffPath THEN [res EXCEPT !.exif = s] ELSE MergeInto(Block.decoder, s)
            /\ Call(Block.decoder, s)
      BY <1>4, AnswerType DEF DecodeBlock
    <2>2. Block.decoder \in Result /\ "exif" \in Result
      BY <1>4 DEF DecodeBlock, Result, Decoder
    <2>3. store' \in Stores /\ candidate' \in Stores
      BY <2>1, <2>2, DecodedType, TargetType
    <2>4. res' \in [Result -> Answered]
      BY <2>1, <2>2, DecodedType, TargetType
    <2>5. outcomes' \subseteq (Result \cup {"text"}) \X Answered
      BY <2>1, <2>2, DecodedType, TargetType
    <2>6. scratchShort' \in BOOLEAN /\ embedded' \in Seq({"xmp", "icc", "iptc", "irb"})
      BY <1>4, FileFacts DEF DecodeBlock, TypeInv
    <2>7. QED
      BY <1>4, <2>3, <2>4, <2>5, <2>6 DEF DecodeBlock, TypeInv, call
  <1>5. CASE DecodeEmbedded
    <2>1. CASE embedded = <<>>
      <3>1. UNCHANGED <<store, candidate, res, embedded, outcomes, call, scan, status, scratchShort, io>>
            /\ i' = i + 1 /\ pc' = "block"
        BY <1>5, <2>1 DEF DecodeEmbedded, NextBlock
      <3>2. QED
        BY <3>1 DEF TypeInv, call
    <2>2. CASE embedded # <<>>
      <3>1. PICK s \in Answered, n \in 0..1 :
              /\ Into(Added(Target, n, LastBlock))
              /\ res' = MergeInto(Head(embedded), s)
              /\ Call(Head(embedded), s)
              /\ embedded' = Tail(embedded)
              /\ UNCHANGED <<i, pc>>
        BY <1>5, <2>2, AnswerType DEF DecodeEmbedded
      <3>2. Head(embedded) \in Result /\ Tail(embedded) \in Seq({"xmp", "icc", "iptc", "irb"})
        BY <2>2 DEF TypeInv, Result, Decoder
      <3>3. store' \in Stores /\ candidate' \in Stores
        BY <3>1, <3>2, DecodedType, TargetType
      <3>4. res' \in [Result -> Answered]
        BY <3>1, <3>2, DecodedType, TargetType
      <3>5. outcomes' \subseteq (Result \cup {"text"}) \X Answered
        BY <3>1, <3>2, DecodedType, TargetType
      <3>6. QED
        BY <1>5, <3>1, <3>2, <3>3, <3>4, <3>5 DEF DecodeEmbedded, TypeInv, call
    <2>3. QED
      BY <2>1, <2>2
  <1>6. CASE EmitText
    <2>1. i' \in Nat \ {0} /\ pc' = "block"
      BY <1>6 DEF EmitText, NextBlock, TypeInv
    <2>2. store' \in Stores /\ candidate' \in Stores
      <3>1. CASE UNCHANGED <<store, candidate>>
        BY <3>1 DEF TypeInv
      <3>2. CASE \E n \in 0..1 : Into(Added(Target, n, LastBlock))
        BY <3>2, TargetType, AddedType DEF Into, TypeInv
      <3>3. QED
        BY <1>6, <3>1, <3>2 DEF EmitText
    <2>3. outcomes' \subseteq (Result \cup {"text"}) \X Answered
      BY <1>6 DEF EmitText, Call, TypeInv, Answered
    <2>4. scratchShort' \in BOOLEAN
      BY <1>6 DEF EmitText, TypeInv
    <2>5. QED
      BY <1>6, <2>1, <2>2, <2>3, <2>4 DEF EmitText, TypeInv, call
  <1>7. QED
    BY <1>1, <1>2, <1>3, <1>4, <1>5, <1>6

(* The types hold in every state.                                          *)
THEOREM ReaderTypes == ReadSpec => []TypeInv
  <1>1. TypeInv /\ UNCHANGED readVars => TypeInv'
    BY DEF TypeInv, readVars, call
  <1>2. TypeInv /\ [ReadNext]_readVars => TypeInv'
    BY <1>1, TypeQuiet, TypeWhole, TypeBlocks DEF ReadNext
  <1>3. QED
    BY <1>2, TypeInit, PTL DEF ReadSpec

-----------------------------------------------------------------------------
(* A decode that leaves its target grown keeps the invariant of the        *)
(* stores: what is not memory is decoded into the candidate.               *)
LEMMA IntoStep ==
    ASSUME TypeInv, StoreInv, UNCHANGED inMemory, pc \notin {"begin", "done"},
           pc' \notin {"begin", "done"},
           \/ UNCHANGED <<store, candidate>>
           \/ \E s \in Stores : Grown(s) /\ Into(s) /\ s.blocks >= Target.blocks,
           pc' \in {"assemble", "decode", "embedded"} =>
              pc \in {"assemble", "decode", "embedded"} \/ LastBlock' > Old.blocks
    PROVE  StoreInv'
  <1>1. Target \in Stores /\ Target.blocks \in Nat /\ Old.blocks \in Nat
    BY TargetType DEF Stores, Old
  <1>2. /\ Grown(store) /\ Grown(candidate)
        /\ ~inMemory => store = Old
        /\ pc \in {"assemble", "decode", "embedded"} => Target.blocks > Old.blocks
    BY DEF StoreInv, Done, InHand, LastBlock
  <1>3. CASE UNCHANGED <<store, candidate>>
    BY <1>2, <1>3 DEF StoreInv, InHand, Target, LastBlock, Grown, Done
  <1>4. CASE \E s \in Stores : Grown(s) /\ Into(s) /\ s.blocks >= Target.blocks
    <2>1. PICK s \in Stores : Grown(s) /\ Into(s) /\ s.blocks >= Target.blocks
      BY <1>4
    <2>2. Target' = s /\ s.blocks \in Nat
      BY <2>1 DEF Target, Into, Stores
    <2>3. Grown(store') /\ Grown(candidate') /\ (~inMemory => store' = Old)
      BY <1>2, <2>1, <2>2 DEF Into, Target
    <2>4. InHand'
      BY <1>1, <1>2, <2>1, <2>2 DEF InHand, LastBlock
    <2>5. QED
      BY <2>3, <2>4 DEF StoreInv, Grown, Done
  <1>5. QED
    BY <1>3, <1>4

(* What may be decoded: entries of no block, or of the block in hand.      *)
LEMMA TargetGrows ==
    ASSUME TypeInv, StoreInv, NEW n \in 0..1,
           NEW block \in {NoBlock} \cup (Old.blocks + 1)..Target.blocks
    PROVE  /\ Added(Target, n, block) \in Stores /\ Grown(Added(Target, n, block))
           /\ Added(Target, n, block).blocks = Target.blocks
           /\ Target.blocks \in Nat
  <1>1. Target \in Stores /\ Grown(Target) /\ Target.blocks \in Nat /\ block \in Nat
    BY TargetType DEF StoreInv, Target, Stores, NoBlock, Old
  <1>2. QED
    BY <1>1, AddedType, GrownAdded

LEMMA TargetGetsBlock ==
    ASSUME TypeInv, StoreInv
    PROVE  /\ NewBlock(Target) \in Stores /\ Grown(NewBlock(Target))
           /\ NewBlock(Target).blocks = Target.blocks + 1 /\ Target.blocks \in Nat
  <1>1. Target \in Stores /\ Grown(Target) /\ Target.blocks \in Nat
    BY TargetType DEF StoreInv, Target, Stores
  <1>2. 0 \in 0..1 /\ NoBlock \in {NoBlock} \cup (Old.blocks + 1)..Target.blocks /\ NoBlock \in Nat
    BY DEF NoBlock
  <1>3. NewBlock(Target) \in Stores /\ NewBlock(Target).blocks = Target.blocks + 1
    BY <1>1, <1>2, AddedType
  <1>4. Grown(NewBlock(Target))
    BY <1>1, <1>2, GrownAdded
  <1>5. QED
    BY <1>1, <1>3, <1>4

LEMMA StoreInit == ReadInit => StoreInv
  <1>1. Grown(Old)
    BY DEF Grown, IsPrefix, Old
  <1>2. QED
    BY <1>1 DEF ReadInit, StoreInv, InHand, Done

(* The steps that decode nothing.                                          *)
LEMMA StoreQuiet ==
    ASSUME TypeInv, StoreInv,
           Refuse \/ Begin \/ ReadFails \/ Scan \/ FinishTiff \/ Publish
    PROVE  StoreInv'
  <1>1. CASE Refuse
    <2>1. /\ UNCHANGED <<inMemory, store, candidate>> /\ pc = "begin" /\ pc' = "done"
          /\ status' # "OK"
      BY <1>1 DEF Refuse, Refused, call
    <2>2. QED
      BY <2>1 DEF StoreInv, Grown, InHand, Done
  <1>2. CASE Begin
    <2>1. UNCHANGED <<inMemory, store>> /\ candidate' = store /\ pc = "begin" /\ pc' \in {"tail", "scan"}
      BY <1>2 DEF Begin, call
    <2>2. QED
      BY <2>1 DEF StoreInv, Grown, InHand, Done
  <1>3. CASE ReadFails
    <2>1. UNCHANGED <<inMemory, store, candidate, pc>> /\ pc \notin {"begin", "done"}
      BY <1>3 DEF ReadFails, call
    <2>2. QED
      BY <2>1, IntoStep
  <1>4. CASE Scan \/ FinishTiff
    <2>1. /\ UNCHANGED <<inMemory, store, candidate>> /\ pc \notin {"begin", "done"}
          /\ pc' \in {"block", "boxes", "classify"}
      BY <1>4 DEF Scan, FinishTiff, AfterBlocks, call
    <2>2. QED
      BY <2>1, IntoStep
  <1>5. CASE Publish
    <2>1. /\ UNCHANGED <<inMemory, candidate>> /\ pc' = "done" /\ pc = "classify"
          /\ store' = IF ~inMemory /\ status' = "OK" THEN candidate ELSE store
      BY <1>5 DEF Publish, Published, call
    <2>2. QED
      BY <2>1 DEF StoreInv, Grown, InHand, Done
  <1>6. QED
    BY <1>1, <1>2, <1>3, <1>4, <1>5

(* The steps on the file as a whole.                                       *)
LEMMA StoreWhole ==
    ASSUME TypeInv, StoreInv,
           DecodeBoxes \/ DecodeNative \/ DecodeLooseXmp \/ DecodeExr \/ DecodeSidecar
    PROVE  StoreInv'
  <1>1. ASSUME UNCHANGED <<store, candidate>> \/ \E n \in 0..1 : Into(Added(Target, n, NoBlock)),
               UNCHANGED inMemory, pc \notin {"begin", "done"},
               pc' \in {"native", "block", "tail", "sidecar", "classify"}
        PROVE  StoreInv'
    <2>1. \A n \in 0..1 : LET s == Added(Target, n, NoBlock)
                          IN s \in Stores /\ Grown(s) /\ s.blocks >= Target.blocks
      BY TargetGrows
    <2>2. QED
      BY <1>1, <2>1, IntoStep
  <1>2. CASE DecodeBoxes
    BY <1>1, <1>2 DEF DecodeBoxes, call
  <1>3. CASE DecodeNative
    BY <1>1, <1>3 DEF DecodeNative, call
  <1>4. CASE DecodeExr
    BY <1>1, <1>4 DEF DecodeExr, call
  <1>5. CASE DecodeLooseXmp
    <2>1. /\ UNCHANGED inMemory /\ pc = "block" /\ pc' = "tail"
          /\ \/ UNCHANGED <<store, candidate>>
             \/ \E n \in 0..1 : Into(Added(NewBlock(Target), n, Target.blocks + 1))
      BY <1>5 DEF DecodeLooseXmp, AfterBlocks, call
    <2>2. \A n \in 0..1 : LET s == Added(NewBlock(Target), n, Target.blocks + 1)
                          IN s \in Stores /\ Grown(s) /\ s.blocks >= Target.blocks
      <3>1. NewBlock(Target) \in Stores /\ Grown(NewBlock(Target))
            /\ NewBlock(Target).blocks = Target.blocks + 1 /\ Target.blocks \in Nat
        BY TargetGetsBlock
      <3>2. Target.blocks >= Old.blocks /\ Old.blocks = 1
        BY DEF StoreInv, Grown, Target, Old
      <3>3. Target.blocks + 1 \in (Old.blocks + 1)..NewBlock(Target).blocks
        BY <3>1, <3>2
      <3>4. QED
        BY <3>1, <3>3, AddedType, GrownAdded
    <2>3. QED
      BY <2>1, <2>2, IntoStep
  <1>6. CASE DecodeSidecar
    <2>1. /\ UNCHANGED <<inMemory, store>> /\ pc = "sidecar" /\ pc' = "classify"
          /\ \/ UNCHANGED candidate
             \/ \E n \in 0..1 : /\ ~inMemory
                                /\ candidate' = Added(NewBlock(candidate), n, candidate.blocks + 1)
      BY <1>6 DEF DecodeSidecar, ReadsSidecar, call
    <2>2. CASE UNCHANGED candidate
      BY <2>1, <2>2, IntoStep
    <2>3. CASE \E n \in 0..1 : /\ ~inMemory
                               /\ candidate' = Added(NewBlock(candidate), n, candidate.blocks + 1)
      <3>1. Target = candidate
        BY <2>3 DEF Target
      <3>2. NewBlock(candidate) \in Stores /\ Grown(NewBlock(candidate))
            /\ NewBlock(candidate).blocks = candidate.blocks + 1 /\ candidate.blocks \in Nat
        BY <3>1, TargetGetsBlock
      <3>3. candidate.blocks >= Old.blocks /\ Old.blocks = 1
        BY DEF StoreInv, Grown, Old
      <3>4. candidate.blocks + 1 \in (Old.blocks + 1)..NewBlock(candidate).blocks
        BY <3>2, <3>3
      <3>5. \A n \in 0..1 : LET s == Added(NewBlock(candidate), n, candidate.blocks + 1)
                            IN s \in Stores /\ Grown(s) /\ s.blocks >= Target.blocks
        BY <3>1, <3>2, <3>4, AddedType, GrownAdded
      <3>6. \E s \in Stores : Grown(s) /\ Into(s) /\ s.blocks >= Target.blocks
        BY <2>1, <2>3, <3>5 DEF Into
      <3>7. QED
        BY <2>1, <3>6, IntoStep
    <2>4. QED
      BY <2>1, <2>2, <2>3
  <1>7. QED
    BY <1>2, <1>3, <1>4, <1>5, <1>6

(* The steps on the blocks.                                                *)
LEMMA StoreBlocks ==
    ASSUME TypeInv, StoreInv,
           StoreBlock \/ StoreBlockFails \/ Assemble \/ DecodeBlock \/ DecodeEmbedded \/ EmitText
    PROVE  StoreInv'
  <1>1. ASSUME \/ UNCHANGED <<store, candidate>>
               \/ \E n \in 0..1 : Into(Added(Target, n, LastBlock)),
               UNCHANGED inMemory, pc \in {"assemble", "decode", "embedded"},
               pc' \notin {"begin", "done"}
        PROVE  StoreInv'
    <2>1. LastBlock \in (Old.blocks + 1)..Target.blocks
      BY <1>1, TargetType DEF StoreInv, InHand, LastBlock, Stores, Old
    <2>2. \A n \in 0..1 : LET s == Added(Target, n, LastBlock)
                          IN s \in Stores /\ Grown(s) /\ s.blocks >= Target.blocks
      BY <2>1, TargetGrows
    <2>3. QED
      BY <1>1, <2>2, IntoStep
  <1>2. CASE StoreBlock
    <2>1. /\ UNCHANGED inMemory /\ pc = "block" /\ pc' \in {"block", "decode", "assemble"}
          /\ Into(NewBlock(Target))
      BY <1>2 DEF StoreBlock, NextBlock, call
    <2>2. /\ NewBlock(Target) \in Stores /\ Grown(NewBlock(Target))
          /\ NewBlock(Target).blocks = Target.blocks + 1 /\ Target.blocks \in Nat
      BY TargetGetsBlock
    <2>3. Target.blocks >= Old.blocks /\ Old.blocks = 1
      BY DEF StoreInv, Grown, Target, Old
    <2>4. LastBlock' = NewBlock(Target).blocks
      BY <2>1 DEF LastBlock, Target, Into
    <2>5. QED
      BY <2>1, <2>2, <2>3, <2>4, IntoStep
  <1>3. CASE StoreBlockFails
    <2>1. /\ UNCHANGED <<inMemory, store, candidate>> /\ pc = "block"
          /\ pc' \in {"classify", "tail"}
      BY <1>3 DEF StoreBlockFails, call
    <2>2. QED
      BY <2>1, IntoStep
  <1>4. CASE Assemble
    BY <1>1, <1>4 DEF Assemble, NextBlock, call
  <1>5. CASE DecodeBlock
    BY <1>1, <1>5 DEF DecodeBlock, call
  <1>6. CASE DecodeEmbedded
    BY <1>1, <1>6 DEF DecodeEmbedded, NextBlock, call
  <1>7. CASE EmitText
    BY <1>1, <1>7 DEF EmitText, NextBlock, call
  <1>8. QED
    BY <1>2, <1>3, <1>4, <1>5, <1>6, <1>7

(* However a read ends, what the store held keeps its place and ids, and a *)
(* callback that is not reported read to its end leaves the store alone.   *)
THEOREM ReaderKeepsStore == ReadSpec => []StoreKept
  <1>1. TypeInv /\ StoreInv /\ UNCHANGED readVars => StoreInv'
    BY DEF StoreInv, Grown, InHand, LastBlock, Target, Done, readVars, call
  <1>2. TypeInv /\ StoreInv /\ [ReadNext]_readVars => StoreInv'
    BY <1>1, StoreQuiet, StoreWhole, StoreBlocks DEF ReadNext
  <1>3. StoreInv => StoreKept
    BY DEF StoreInv, StoreKept, Grown
  <1>4. QED
    BY <1>2, <1>3, StoreInit, ReaderTypes, PTL DEF ReadSpec

-----------------------------------------------------------------------------
(* No answer is outranked, and why that is so where statuses are set and   *)
(* not merged: OpenEXR answers last, the one block of a TIFF once, and     *)
(* what comes before the packet of a sidecar has nothing to report.        *)
Ranked == \A o \in outcomes : o[1] # "text" => Rank[res[o[1]]] >= Rank[o[2]]
Fresh(d) == \A o \in outcomes : o[1] # d
SetOnce ==
    /\ pc \in {"begin", "scan"} => outcomes = {} /\ i = 1
    /\ pc \notin {"sidecar", "classify", "done"} => Fresh("exr")
    /\ TiffPath => /\ pc \notin {"boxes", "native"}
                   /\ i = 1 /\ pc \in {"block", "assemble", "decode"} => Fresh("exif")
    /\ (~inMemory /\ file.format = "SIDECAR" /\ pc \notin {"classify", "done"})
          => \A o \in outcomes : o[2] = "OK"

(* A payload cut short makes the status LIMIT; merging could hide it.      *)
CutShort == ~inMemory /\ ~Done /\ <<"pay", "TRUNCATED">> \in outcomes => status = "LIMIT"

(* What a verdict of OK has looked at.                                     *)
Sound ==
    Done /\ ~inMemory /\ status = "OK" =>
        /\ io /\ ~scratchShort
        /\ \A o \in outcomes : o[1] # "text" => o[2] \notin Losses /\ o # <<"pay", "TRUNCATED">>

ReportInv == Ranked /\ SetOnce /\ CutShort /\ Sound

LEMMA RankFacts ==
    /\ \A s \in Answered : Rank[s] \in 0..4
    /\ Rank["OK"] = 0 /\ "OK" \in Answered
    /\ \A s \in Answered : s \in Losses <=> Rank[s] = 4
  BY DEF Rank, Answered, Losses

(* An answer is merged, or set if it is the first of its decoder or as bad *)
(* as can be; so it is not outranked.                                      *)
Noted(d, s) ==
    /\ Call(d, s)
    /\ \/ res' = MergeInto(d, s)
       \/ res' = [res EXCEPT ![d] = s] /\ (Fresh(d) \/ s \in Losses)

LEMMA AnswerRanked ==
    ASSUME TypeInv, Ranked, NEW d \in Result, NEW s \in Answered, Noted(d, s)
    PROVE  Ranked'
  <1> USE DEF Noted
  <1> SUFFICES ASSUME NEW o \in outcomes', o[1] # "text"
               PROVE  Rank[res'[o[1]]] >= Rank[o[2]]
    BY DEF Ranked
  <1>1. \A p \in outcomes : p[1] \in Result \cup {"text"} /\ p[2] \in Answered
    BY DEF TypeInv
  <1>2. res \in [Result -> Answered]
    BY DEF TypeInv
  <1>3. o \in outcomes \/ o = <<d, s>>
    BY DEF Call
  <1>4. CASE o = <<d, s>>
    <2>1. res'[d] = s \/ res'[d] = Worse(res[d], s)
      BY <1>2 DEF MergeInto
    <2>2. res[d] \in Answered
      BY <1>2
    <2>3. Rank[Worse(res[d], s)] >= Rank[s] /\ Rank[s] >= Rank[s]
      BY <2>2, RankFacts DEF Worse
    <2>4. QED
      BY <1>4, <2>1, <2>3
  <1>5. CASE o \in outcomes
    <2>1. Rank[res[o[1]]] >= Rank[o[2]] /\ o[1] \in Result /\ o[2] \in Answered
      BY <1>1, <1>5 DEF Ranked
    <2>2. CASE o[1] # d
      <3>1. res'[o[1]] = res[o[1]]
        BY <1>2, <2>1, <2>2 DEF MergeInto
      <3>2. QED
        BY <2>1, <3>1
    <2>3. CASE o[1] = d /\ res' = [res EXCEPT ![d] = s] /\ s \in Losses
      <3>1. Rank[s] = 4 /\ res'[d] = s
        BY <1>2, <2>3, RankFacts
      <3>2. QED
        BY <2>1, <2>3, <3>1, RankFacts
    <2>4. CASE o[1] = d /\ res' = MergeInto(d, s)
      <3>1. res'[d] = Worse(res[d], s)
        BY <1>2, <2>4 DEF MergeInto
      <3>2. Rank[Worse(res[d], s)] >= Rank[res[d]] /\ res[d] \in Answered
        BY <1>2, RankFacts DEF Worse
      <3>3. Worse(res[d], s) \in Answered
        BY <3>2 DEF Worse
      <3>4. Rank[Worse(res[d], s)] \in Nat /\ Rank[res[d]] \in Nat /\ Rank[o[2]] \in Nat
        BY <2>1, <3>2, <3>3, RankFacts
      <3>5. QED
        BY <2>1, <2>4, <3>1, <3>2, <3>4
    <2>5. QED
      BY <1>5, <2>2, <2>3, <2>4 DEF Fresh
  <1>6. QED
    BY <1>3, <1>4, <1>5

LEMMA ReportInit == ReadInit => ReportInv
  BY DEF ReadInit, ReportInv, Ranked, SetOnce, Fresh, CutShort, Sound, Done

(* The steps that decode nothing.                                          *)
LEMMA ReportQuiet ==
    ASSUME TypeInv, ReportInv,
           Refuse \/ Begin \/ ReadFails \/ Scan \/ FinishTiff \/ Publish
    PROVE  ReportInv'
  <1>1. UNCHANGED <<res, outcomes, file, inMemory, i>>
    BY DEF Refuse, Refused, Begin, ReadFails, Scan, FinishTiff, Publish, call
  <1>2. Ranked'
    BY <1>1 DEF ReportInv, Ranked
  <1>3. SetOnce'
    <2>1. CASE Refuse
      BY <1>1, <2>1 DEF ReportInv, SetOnce, Fresh, Refuse, Refused, TiffPath
    <2>2. CASE Begin
      BY <1>1, <2>2 DEF ReportInv, SetOnce, Fresh, Begin, TiffPath
    <2>3. CASE ReadFails
      BY <1>1, <2>3 DEF ReportInv, SetOnce, Fresh, ReadFails, TiffPath
    <2>4. CASE Scan
      BY <1>1, <2>4 DEF ReportInv, SetOnce, Fresh, Scan, TiffPath
    <2>5. CASE FinishTiff \/ Publish
      BY <1>1, <2>5 DEF ReportInv, SetOnce, Fresh, FinishTiff, Publish, TiffPath, AfterBlocks
    <2>6. QED
      BY <2>1, <2>2, <2>3, <2>4, <2>5
  <1>4. CutShort'
    BY <1>1 DEF ReportInv, CutShort, Done, Refuse, Refused, Begin, ReadFails, Scan, FinishTiff,
           Publish, AfterBlocks
  <1>5. Sound'
    <2>1. CASE Refuse
      BY <2>1 DEF Refuse, Refused, Sound
    <2>2. CASE Begin \/ ReadFails \/ Scan \/ FinishTiff
      <3>1. pc' # "done"
        BY <2>2 DEF Begin, ReadFails, Scan, FinishTiff
      <3>2. QED
        BY <3>1 DEF Sound, Done
    <2>3. CASE Publish
      <3>1. SUFFICES ASSUME ~inMemory, Verdict = "OK"
                     PROVE  /\ io /\ ~scratchShort
                            /\ \A o \in outcomes :
                                  o[1] # "text" => o[2] \notin Losses /\ o # <<"pay", "TRUNCATED">>
        BY <1>1, <2>3 DEF Publish, Sound
      <3>2. /\ io /\ status # "LIMIT" /\ ~scratchShort
            /\ \A d \in DOMAIN res : res[d] \notin Losses
        BY <3>1 DEF Verdict
      <3>3. <<"pay", "TRUNCATED">> \notin outcomes
        BY <2>3, <3>1, <3>2 DEF ReportInv, CutShort, Publish, Done
      <3>4. ASSUME NEW o \in outcomes, o[1] # "text" PROVE o[2] \notin Losses
        <4>1. o[1] \in Result /\ o[2] \in Answered /\ res[o[1]] \in Answered /\ o[1] \in DOMAIN res
          BY <3>4 DEF TypeInv
        <4>2. Rank[res[o[1]]] >= Rank[o[2]] /\ Rank[res[o[1]]] # 4
          BY <3>2, <3>4, <4>1, RankFacts DEF ReportInv, Ranked
        <4>3. QED
          BY <4>1, <4>2, RankFacts
      <3>5. QED
        BY <3>2, <3>3, <3>4
    <2>4. QED
      BY <2>1, <2>2, <2>3
  <1>6. QED
    BY <1>2, <1>3, <1>4, <1>5 DEF ReportInv

(* What keeps the invariant when a decoder other than that of payloads     *)
(* answers, or none does.                                                  *)
LEMMA AnswerStep ==
    ASSUME TypeInv, ReportInv, UNCHANGED <<file, inMemory>>, ~Done, pc' # "done",
           \/ UNCHANGED <<res, outcomes>>
           \/ \E d \in Decoder, s \in Answered : Noted(d, s),
           SetOnce', status' = status \/ status' = "LIMIT"
    PROVE  ReportInv'
  <1>1. Ranked'
    <2>1. CASE UNCHANGED <<res, outcomes>>
      BY <2>1 DEF ReportInv, Ranked
    <2>2. CASE \E d \in Decoder, s \in Answered : Noted(d, s)
      BY <2>2, AnswerRanked DEF ReportInv, Result
    <2>3. QED
      BY <2>1, <2>2
  <1>2. CutShort'
    <2>1. <<"pay", "TRUNCATED">> \in outcomes' => <<"pay", "TRUNCATED">> \in outcomes
      <3>1. \A d \in Decoder : d # "pay"
        BY DEF Decoder
      <3>2. QED
        BY <3>1 DEF Call, Noted
    <2>2. QED
      BY <2>1 DEF ReportInv, CutShort, Done
  <1>3. Sound'
    BY DEF Sound, Done
  <1>4. QED
    BY <1>1, <1>2, <1>3 DEF ReportInv

LEMMA DecoderNames ==
    {"bmff", "exif", "icc", "iptc", "irb", "jumbf", "xmp", "exr"} \subseteq Decoder
  BY DEF Decoder

LEMMA ReportWhole ==
    ASSUME TypeInv, ReportInv,
           DecodeBoxes \/ DecodeNative \/ DecodeLooseXmp \/ DecodeExr \/ DecodeSidecar
    PROVE  ReportInv'
  <1> USE AnswerType DEF Call
  <1>1. CASE DecodeBoxes
    <2>1. /\ UNCHANGED <<file, inMemory, status, i>> /\ pc = "boxes" /\ pc' = "native"
          /\ \/ UNCHANGED <<res, outcomes>>
             \/ \E s \in Answered : /\ Noted("bmff", s)
                                    /\ file.format = "SIDECAR" => s = "OK"
      BY <1>1 DEF DecodeBoxes, call, Noted
    <2>2. SetOnce'
      BY <2>1 DEF ReportInv, SetOnce, Fresh, TiffPath, Noted
    <2>3. QED
      BY <2>1, <2>2, AnswerStep, DecoderNames DEF Done
  <1>2. CASE DecodeNative
    <2>1. /\ UNCHANGED <<file, inMemory, status, i>> /\ pc = "native" /\ pc' = "block"
          /\ \/ UNCHANGED <<res, outcomes>>
             \/ \E s \in Answered : /\ Noted("exif", s)
                                    /\ file.format = "RAW"
      BY <1>2 DEF DecodeNative, call, Noted
    <2>2. SetOnce'
      BY <2>1 DEF ReportInv, SetOnce, Fresh, TiffPath, Noted
    <2>3. QED
      BY <2>1, <2>2, AnswerStep, DecoderNames DEF Done
  <1>3. CASE DecodeLooseXmp
    <2>1. /\ UNCHANGED <<file, inMemory, status, i>> /\ pc = "block" /\ pc' = "tail" /\ ~TiffPath
          /\ \/ UNCHANGED <<res, outcomes>>
             \/ \E s \in Answered : inMemory /\ Noted("xmp", s)
      BY <1>3 DEF DecodeLooseXmp, LooksLikeXmp, AfterBlocks, call, Answered, Noted, Losses
    <2>2. SetOnce'
      BY <2>1 DEF ReportInv, SetOnce, Fresh, TiffPath, Noted
    <2>3. QED
      BY <2>1, <2>2, AnswerStep, DecoderNames DEF Done
  <1>4. CASE DecodeExr
    <2>1. /\ UNCHANGED <<file, inMemory, status, i>> /\ pc = "tail" /\ pc' = "sidecar"
          /\ \/ UNCHANGED <<res, outcomes>>
             \/ \E s \in Answered : /\ res' = [res EXCEPT !.exr = s] /\ Call("exr", s)
                                    /\ inMemory \/ file.format = "EXR"
      <3>1. (IF file.format = "EXR" THEN Answers("exr") ELSE {"UNSUPPORTED"}) \subseteq Answered
        BY DEF Answered
      <3>2. QED
        BY <1>4, <3>1 DEF DecodeExr, call
    <2>2. SetOnce' /\ Fresh("exr")
      BY <2>1 DEF ReportInv, SetOnce, Fresh, TiffPath
    <2>3. QED
      BY <2>1, <2>2, AnswerStep, DecoderNames DEF Done, Noted
  <1>5. CASE DecodeSidecar
    <2>1. UNCHANGED <<file, inMemory, i>> /\ pc = "sidecar" /\ pc' = "classify"
      BY <1>5 DEF DecodeSidecar, call
    <2>2. CASE UNCHANGED <<res, outcomes>> /\ (status' = status \/ status' = "LIMIT")
      <3>1. SetOnce'
        BY <2>1, <2>2 DEF ReportInv, SetOnce, Fresh, TiffPath
      <3>2. QED
        BY <2>1, <2>2, <3>1, AnswerStep DEF Done
    <2>3. CASE /\ ~inMemory /\ file.format = "SIDECAR"
               /\ \E s \in Answered : res' = [FreshRes EXCEPT !.xmp = s] /\ Call("xmp", s)
      <3>1. PICK s \in Answered : res' = [FreshRes EXCEPT !.xmp = s] /\ outcomes' = outcomes \cup {<<"xmp", s>>}
        BY <2>3
      <3>2. \A o \in outcomes : o[2] = "OK" /\ o[1] \in Result \cup {"text"}
        BY <2>1, <2>3 DEF ReportInv, SetOnce, TypeInv
      <3>3. SetOnce'
        BY <2>1 DEF SetOnce, TiffPath
      <3>4. Ranked'
        <4>1. FreshRes \in [Result -> Answered] /\ "xmp" \in Result
          BY DEF FreshRes, Result, Decoder, Answered
        <4>2. res' \in [Result -> Answered] /\ res'["xmp"] = s
          BY <3>1, <4>1
        <4>3. ASSUME NEW o \in outcomes', o[1] # "text"
              PROVE  Rank[res'[o[1]]] >= Rank[o[2]]
          <5>1. CASE o = <<"xmp", s>>
            BY <4>2, <5>1, RankFacts
          <5>2. CASE o \in outcomes
            <6>1. o[2] = "OK" /\ res'[o[1]] \in Answered
              BY <3>2, <4>2, <4>3, <5>2
            <6>2. QED
              BY <6>1, RankFacts
          <5>3. QED
            BY <3>1, <5>1, <5>2
        <4>4. QED
          BY <4>3 DEF Ranked
      <3>5. CutShort'
        BY <3>1, <3>2 DEF CutShort
      <3>6. QED
        BY <2>1, <3>3, <3>4, <3>5 DEF ReportInv, Sound, Done
    <2>4. QED
      BY <1>5, <2>2, <2>3 DEF DecodeSidecar, ReadsSidecar
  <1>6. QED
    BY <1>1, <1>2, <1>3, <1>4, <1>5

(* The block in hand was found by the scan.                                *)
LEMMA BlockType ==
    ASSUME TypeInv, i <= scan.written
    PROVE  /\ Block \in Scanned /\ file.format # "SIDECAR"
           /\ file.format = "TIFF" => Block.decoder = "exif" /\ i = 1
  <1>1. file.blocks \in Seq(Scanned) /\ i \in 1..Len(file.blocks)
    BY FileFacts DEF TypeInv
  <1>2. Block \in Scanned
    BY <1>1 DEF Block
  <1>3. file.format # "SIDECAR"
    BY <1>1, FileFacts
  <1>4. file.format = "TIFF" => Block.decoder = "exif" /\ i = 1
    BY <1>1, FileFacts DEF Block
  <1>5. QED
    BY <1>2, <1>3, <1>4

LEMMA ReportBlocks ==
    ASSUME TypeInv, ReportInv,
           StoreBlock \/ StoreBlockFails \/ Assemble \/ DecodeBlock \/ DecodeEmbedded \/ EmitText
    PROVE  ReportInv'
  <1> USE AnswerType DEF Call
  <1>1. CASE StoreBlock
    <2>1. /\ UNCHANGED <<file, inMemory, status, res, outcomes>> /\ pc = "block"
          /\ pc' \in {"block", "assemble", "decode"} /\ i' \in {i, i + 1} /\ i \in Nat \ {0}
      BY <1>1 DEF StoreBlock, NextBlock, call, TypeInv
    <2>2. SetOnce'
      BY <2>1 DEF ReportInv, SetOnce, Fresh, TiffPath
    <2>3. QED
      BY <2>1, <2>2, AnswerStep DEF Done
  <1>2. CASE StoreBlockFails
    <2>1. /\ UNCHANGED <<file, inMemory, status, i>> /\ pc = "block" /\ pc' \in {"classify", "tail"}
          /\ TiffPath => pc' = "classify"
          /\ AtBlock
          /\ res' = [d \in DOMAIN res |-> IF d \in Unstored THEN "NOMEM" ELSE res[d]]
          /\ outcomes' = outcomes \cup {<<"exif", "NOMEM">>} /\ "exif" \in Unstored
      BY <1>2 DEF StoreBlockFails, call, Unstored
    <2>2. file.format # "SIDECAR"
      BY <2>1, BlockType DEF AtBlock
    <2>3. SetOnce'
      BY <2>1, <2>2 DEF ReportInv, SetOnce, Fresh, TiffPath
    <2>4. Ranked'
      <3>1. \A p \in outcomes : p[1] \in Result \cup {"text"} /\ p[2] \in Answered
        BY DEF TypeInv
      <3>2. res \in [Result -> Answered] /\ "exif" \in Result /\ "NOMEM" \in Answered
        BY DEF TypeInv, Result, Decoder, Answered
      <3>3. Rank["NOMEM"] = 4
        BY DEF Rank
      <3>4. ASSUME NEW o \in outcomes', o[1] # "text"
            PROVE  Rank[res'[o[1]]] >= Rank[o[2]]
        <4>1. o[1] \in Result /\ o[2] \in Answered
          BY <2>1, <3>1, <3>2, <3>4
        <4>2. CASE o[1] \in Unstored
          <5>1. res'[o[1]] = "NOMEM"
            BY <2>1, <3>2, <4>1, <4>2
          <5>2. QED
            BY <3>3, <4>1, <5>1, RankFacts
        <4>3. CASE o[1] \notin Unstored
          <5>1. o \in outcomes /\ res'[o[1]] = res[o[1]]
            BY <2>1, <3>2, <4>1, <4>3
          <5>2. QED
            BY <3>4, <5>1 DEF ReportInv, Ranked
        <4>4. QED
          BY <4>2, <4>3
      <3>5. QED
        BY <3>4 DEF Ranked
    <2>5. CutShort' /\ Sound'
      BY <2>1 DEF ReportInv, CutShort, Sound, Done
    <2>6. QED
      BY <2>3, <2>4, <2>5 DEF ReportInv
  <1>3. CASE Assemble
    <2>1. PICK s \in Answered :
            /\ res' = MergeInto("pay", s) /\ outcomes' = outcomes \cup {<<"pay", s>>}
            /\ status' = IF ~inMemory /\ s \in Losses \cup {"TRUNCATED"} THEN "LIMIT" ELSE status
      BY <1>3 DEF Assemble
    <2>2. /\ UNCHANGED <<file, inMemory>> /\ pc = "assemble" /\ pc' \in {"decode", "block"}
          /\ i' \in {i, i + 1} /\ i \in Nat \ {0} /\ i <= scan.written
      BY <1>3 DEF Assemble, NextBlock, call, TypeInv
    <2>3. SetOnce'
      BY <2>1, <2>2, BlockType DEF ReportInv, SetOnce, Fresh, TiffPath
    <2>4. Ranked'
      BY <2>1, AnswerRanked DEF ReportInv, Result, Noted
    <2>5. CutShort'
      BY <2>1, <2>2 DEF ReportInv, CutShort, Done
    <2>6. QED
      BY <2>2, <2>3, <2>4, <2>5 DEF ReportInv, Sound, Done
  <1>4. CASE DecodeBlock
    <2>1. /\ UNCHANGED <<file, inMemory, status, i>> /\ pc = "decode" /\ pc' = "embedded"
          /\ Block.decoder \in Decoder /\ i <= scan.written
      BY <1>4 DEF DecodeBlock, call, TypeInv
    <2>2. PICK s \in Answered :
            /\ res' = IF TiffPath THEN [res EXCEPT !.exif = s] ELSE MergeInto(Block.decoder, s)
            /\ Call(Block.decoder, s)
      BY <1>4 DEF DecodeBlock
    <2>3. Block.decoder \notin {"bmff", "exr"} /\ file.format # "SIDECAR"
      BY <2>1, BlockType DEF Scanned, Decoder
    <2>4. TiffPath => Block.decoder = "exif" /\ Fresh("exif")
      BY <2>1, BlockType DEF TiffPath, ReportInv, SetOnce
    <2>5. SetOnce'
      BY <2>1, <2>2, <2>3 DEF ReportInv, SetOnce, Fresh, TiffPath
    <2>6. Noted(Block.decoder, s)
      BY <2>2, <2>4 DEF Noted
    <2>7. QED
      BY <2>1, <2>2, <2>5, <2>6, AnswerStep DEF Done
  <1>5. CASE DecodeEmbedded
    <2>1. /\ UNCHANGED <<file, inMemory, status>> /\ pc = "embedded" /\ pc' \in {"embedded", "block"}
          /\ i <= scan.written /\ i \in Nat \ {0}
          /\ \/ UNCHANGED <<res, outcomes>> /\ i' = i + 1
             \/ /\ embedded # <<>> /\ UNCHANGED <<i, pc>>
                /\ \E s \in Answered : Noted(Head(embedded), s)
      BY <1>5 DEF DecodeEmbedded, NextBlock, call, TypeInv, Noted
    <2>2. embedded # <<>> => Head(embedded) \in {"xmp", "icc", "iptc", "irb"}
      BY DEF TypeInv
    <2>3. SetOnce'
      BY <2>1, <2>2, BlockType DEF ReportInv, SetOnce, Fresh, TiffPath, Noted
    <2>4. QED
      BY <2>1, <2>2, <2>3, AnswerStep, DecoderNames DEF Done
  <1>6. CASE EmitText
    <2>1. /\ UNCHANGED <<file, inMemory, res>> /\ pc = "decode" /\ pc' = "block"
          /\ status' = status \/ status' = "LIMIT"
          /\ i' = i + 1 /\ i \in Nat \ {0} /\ i <= scan.written
          /\ \A o \in outcomes' : o \in outcomes \/ o[1] = "text"
          /\ outcomes \subseteq outcomes'
      BY <1>6 DEF EmitText, NextBlock, call, TypeInv
    <2>2. SetOnce'
      BY <2>1, BlockType DEF ReportInv, SetOnce, Fresh, TiffPath
    <2>3. Ranked' /\ CutShort'
      BY <2>1 DEF ReportInv, Ranked, CutShort, Done
    <2>4. QED
      BY <2>1, <2>2, <2>3 DEF ReportInv, Sound, Done
  <1>7. QED
    BY <1>1, <1>2, <1>3, <1>4, <1>5, <1>6

(* No failure of a decoder is forgotten, whatever came after it, and no    *)
(* store takes the old one's place once one ran out of room or memory, or  *)
(* a read failed.                                                          *)
THEOREM ReaderReportsFailures == ReadSpec => []FailuresAreReported
  <1>1. TypeInv /\ ReportInv /\ UNCHANGED readVars => ReportInv'
    BY DEF ReportInv, Ranked, SetOnce, Fresh, TiffPath, CutShort, Sound, Done, readVars, call
  <1>2. TypeInv /\ ReportInv /\ [ReadNext]_readVars => ReportInv'
    BY <1>1, ReportQuiet, ReportWhole, ReportBlocks DEF ReadNext
  <1>3. ReportInv => FailuresAreReported
    BY DEF ReportInv, FailuresAreReported, Ranked, Sound
  <1>4. QED
    BY <1>2, <1>3, ReportInit, ReaderTypes, PTL DEF ReadSpec

=============================================================================
