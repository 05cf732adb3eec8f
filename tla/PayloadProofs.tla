--------------------------- MODULE PayloadProofs ---------------------------
(***************************************************************************)
(* Proofs about the two components that put payloads together: prepared    *)
(* patches (MetadataPatch), for any stores, requests, values, keys,        *)
(* workers and batches, and extraction (Pay), for any file, blocks, limits *)
(* and failures.  A payload is FlattenSeq of what is written for each      *)
(* entry or read for each part, defined by recursion; what it holds is     *)
(* found by induction, in the form that a set of numbers has a least       *)
(* element.                                                                *)
(***************************************************************************)
EXTENDS MetadataPatch, Pay, WellFoundedInduction, SequenceTheorems, FiniteSetTheorems, TLAPS

-----------------------------------------------------------------------------
(* Induction over numbers, in the form of a least counterexample: a set of *)
(* numbers that is not empty has a least element.                          *)
LEMMA LeastNatural ==
  ASSUME NEW T, \A x \in T : x \in Nat, T # {}
  PROVE  \E x \in T : \A y \in T : x <= y
<1> DEFINE R == OpToRel(<, Nat)
<1>1. IsWellFoundedOn(R, Nat)
  BY NatLessThanWellFounded
<1>2. \A x, y \in T : y < x => <<y, x>> \in R
  BY DEF OpToRel
<1> HIDE DEF R
<1>3. PICK x \in T : \A y \in T : ~ (<<y, x>> \in R)
  BY <1>1, WFMin
<1>4. \A y \in T : ~ (y < x)
  BY <1>2, <1>3
<1>5. \A y \in T : x <= y
  BY <1>4
<1> QED BY <1>5

(* Least finds it.                                                         *)
LEMMA LeastIsLeast ==
  ASSUME NEW S, \A x \in S : x \in Nat, S # {}
  PROVE  Least(S) \in S /\ \A m \in S : Least(S) <= m
  BY LeastNatural DEF Least

Below(S, m) == {l \in S : l < m}

(* The rank of an element is below the size of the set, and greater        *)
(* elements have greater ranks.                                            *)
LEMMA BelowGrows ==
  ASSUME NEW S, \A x \in S : x \in Nat, IsFiniteSet(S), NEW a \in S, NEW b \in S
  PROVE  /\ Cardinality(Below(S, a)) \in 0 .. Cardinality(S) - 1
         /\ a < b => Cardinality(Below(S, a)) < Cardinality(Below(S, b))
<1>1. \A c \in S : IsFiniteSet(Below(S, c)) /\ Cardinality(Below(S, c)) \in Nat
  BY FS_Subset, FS_CardinalityType DEF Below
<1>2. Cardinality(Below(S, a)) < Cardinality(S) /\ Cardinality(S) \in Nat
  <2>1. Below(S, a) \subseteq S /\ a \notin Below(S, a)
    BY DEF Below
  <2> QED BY <2>1, FS_Subset, FS_CardinalityType
<1>3. ASSUME a < b PROVE Cardinality(Below(S, a)) < Cardinality(Below(S, b))
  <2>1. Below(S, a) \subseteq Below(S, b) /\ a \notin Below(S, a) /\ a \in Below(S, b)
    BY <1>3 DEF Below
  <2> QED BY <1>1, <2>1, FS_Subset
<1> QED BY <1>1, <1>2, <1>3

(* A finite set of numbers has an n-th smallest for every n below its size.*)
LEMMA NthExists ==
  ASSUME NEW S, \A x \in S : x \in Nat, IsFiniteSet(S), NEW n \in 0 .. Cardinality(S) - 1
  PROVE  \E m \in S : Cardinality(Below(S, m)) = n
<1> DEFINE T == {c \in 0 .. Cardinality(S) - 1 : ~ \E m \in S : Cardinality(Below(S, m)) = c}
<1>0. Cardinality(S) \in Nat
  BY FS_CardinalityType
<1> SUFFICES ASSUME T # {} PROVE FALSE
  OBVIOUS
<1>1. PICK x \in T : \A y \in T : x <= y
  <2>1. \A c \in T : c \in Nat
    BY <1>0
  <2> QED BY <2>1, LeastNatural
<1>2. CASE x = 0
  <2>1. S # {}
    BY <1>0, FS_EmptySet
  <2>2. Below(S, Least(S)) = {}
    BY <2>1, LeastIsLeast DEF Below
  <2> QED BY <1>2, <2>1, <2>2, LeastIsLeast, FS_EmptySet
<1>3. CASE x # 0
  <2>1. x - 1 \in 0 .. Cardinality(S) - 1 /\ x - 1 \notin T
    BY <1>0, <1>1, <1>3
  <2>2. PICK m \in S : Cardinality(Below(S, m)) = x - 1
    BY <2>1
  <2> DEFINE Above == {l \in S : l > m}
             Upto == Below(S, m) \cup {m}
  <2>3. IsFiniteSet(Below(S, m)) /\ m \notin Below(S, m)
    BY FS_Subset DEF Below
  <2>4. IsFiniteSet(Upto) /\ Cardinality(Upto) = x
    <3>1. IsFiniteSet(Upto) /\ Cardinality(Upto) = Cardinality(Below(S, m)) + 1
      BY <2>3, FS_AddElement
    <3> QED BY <1>0, <1>1, <2>2, <3>1
  <2>5. Above # {}
    <3>1. SUFFICES ASSUME Above = {} PROVE FALSE
      OBVIOUS
    <3>2. S = Upto
      BY <3>1 DEF Below
    <3> QED BY <1>0, <2>4, <3>2
  <2>6. Least(Above) \in Above /\ \A l \in Above : Least(Above) <= l
    BY <2>5, LeastIsLeast
  <2>7. Below(S, Least(Above)) = Upto
    <3> HIDE DEF Above
    <3>1. Least(Above) \in S /\ m < Least(Above) /\ \A l \in S : m < l => Least(Above) <= l
      BY <2>6 DEF Above
    <3>2. \A l \in S : l < Least(Above) <=> l < m \/ l = m
      BY <3>1
    <3> QED BY <3>1, <3>2 DEF Below
  <2> QED BY <2>4, <2>6, <2>7
<1> QED BY <1>2, <1>3

(* Nth finds the element of rank n.                                        *)
LEMMA NthIsNth ==
  ASSUME NEW S, \A x \in S : x \in Nat, IsFiniteSet(S), NEW n \in 0 .. Cardinality(S) - 1
  PROVE  Nth(S, n) \in S /\ Cardinality(Below(S, Nth(S, n))) = n
  BY NthExists DEF Nth, Below

(* No other element has the rank of m.                                     *)
LEMMA NthOfBelow ==
  ASSUME NEW S, \A x \in S : x \in Nat, IsFiniteSet(S), NEW m \in S
  PROVE  Nth(S, Cardinality(Below(S, m))) = m
<1> DEFINE n == Cardinality(Below(S, m))
<1>1. n \in 0 .. Cardinality(S) - 1
  BY BelowGrows
<1>2. Nth(S, n) \in S /\ Cardinality(Below(S, Nth(S, n))) = n
  BY <1>1, NthIsNth
<1>3. ~(Nth(S, n) < m) /\ ~(m < Nth(S, n))
  BY <1>2, BelowGrows, FS_CardinalityType
<1> QED BY <1>2, <1>3

(* Nth lists the elements in order.                                        *)
LEMMA NthAscends ==
  ASSUME NEW S, \A x \in S : x \in Nat, IsFiniteSet(S),
         NEW a \in 0 .. Cardinality(S) - 1, NEW b \in 0 .. Cardinality(S) - 1, a < b
  PROVE  Nth(S, a) < Nth(S, b)
<1>1. Nth(S, a) \in S /\ Nth(S, b) \in S
  BY NthIsNth
<1>2. ~(Nth(S, b) < Nth(S, a)) /\ Nth(S, a) # Nth(S, b)
  BY <1>1, NthIsNth, BelowGrows
<1> QED BY <1>1, <1>2

(* Ascending lists a set of numbers once each, and in order.               *)
LEMMA AscendingIsSorted ==
  ASSUME NEW S, \A x \in S : x \in Nat, IsFiniteSet(S)
  PROVE  /\ Ascending(S) \in Seq(S) /\ Len(Ascending(S)) = Cardinality(S)
         /\ Cardinality(S) \in Nat
         /\ \A m \in S : \E a \in 1 .. Cardinality(S) : Ascending(S)[a] = m
         /\ \A a, b \in 1 .. Cardinality(S) : a < b => Ascending(S)[a] < Ascending(S)[b]
<1>0. Cardinality(S) \in Nat
  BY FS_CardinalityType
<1>1. \A a \in 1 .. Cardinality(S) : Ascending(S)[a] \in S
  BY <1>0, NthIsNth DEF Ascending
<1>2. Ascending(S) \in Seq(S) /\ Len(Ascending(S)) = Cardinality(S)
  BY <1>0, <1>1 DEF Ascending
<1>3. ASSUME NEW m \in S PROVE \E a \in 1 .. Cardinality(S) : Ascending(S)[a] = m
  <2>1. Cardinality(Below(S, m)) \in 0 .. Cardinality(S) - 1
    BY BelowGrows
  <2>2. Cardinality(Below(S, m)) + 1 \in 1 .. Cardinality(S)
    BY <1>0, <2>1
  <2>3. Ascending(S)[Cardinality(Below(S, m)) + 1] = m
    BY <1>0, <2>1, <2>2, NthOfBelow DEF Ascending
  <2> QED BY <2>2, <2>3
<1>4. ASSUME NEW a \in 1 .. Cardinality(S), NEW b \in 1 .. Cardinality(S), a < b
      PROVE Ascending(S)[a] < Ascending(S)[b]
  BY <1>0, <1>4, NthAscends DEF Ascending
<1> QED BY <1>0, <1>2, <1>3, <1>4

-----------------------------------------------------------------------------
(* FlattenSeq, defined by recursion, one sequence at a time.               *)
Joins(f, seqs, n) ==
    f = [i \in 1 .. n |-> IF i = 1 THEN seqs[i] ELSE f[i - 1] \o seqs[i]]

(* The i-th join, by the definition.                                       *)
LEMMA JoinsAt ==
  ASSUME NEW f, NEW seqs, NEW n \in Nat, Joins(f, seqs, n), NEW i \in 1 .. n
  PROVE  f[i] = IF i = 1 THEN seqs[i] ELSE f[i - 1] \o seqs[i]
  BY DEF Joins

(* The recursion FlattenSeq is defined by has a solution, of every length. *)
LEMMA JoinsExists ==
  ASSUME NEW seqs, NEW n \in Nat
  PROVE  \E f : Joins(f, seqs, n)
<1> DEFINE T == {c \in Nat : ~ \E f : Joins(f, seqs, c)}
<1> SUFFICES ASSUME T # {} PROVE FALSE
  OBVIOUS
<1>1. PICK x \in T : \A y \in T : x <= y
  BY LeastNatural
<1>2. CASE x = 0
  <2>1. Joins([i \in 1 .. 0 |-> i], seqs, 0)
    BY DEF Joins
  <2> QED BY <1>2, <2>1
<1>3. CASE x # 0
  <2>1. x - 1 \in Nat /\ x - 1 \notin T
    BY <1>1, <1>3
  <2>2. PICK g : Joins(g, seqs, x - 1)
    BY <2>1
  <2> DEFINE f == [i \in 1 .. x |-> IF i = 1 THEN seqs[i]
                                    ELSE IF i < x THEN g[i] ELSE g[x - 1] \o seqs[x]]
  <2>3. \A i \in 1 .. x - 1 : f[i] = g[i]
    BY <2>2 DEF Joins
  <2>4. \A i \in 1 .. x : f[i] = IF i = 1 THEN seqs[i] ELSE f[i - 1] \o seqs[i]
    <3>1. ASSUME NEW i \in 1 .. x, i # 1 PROVE f[i] = f[i - 1] \o seqs[i]
      <4>1. i - 1 \in 1 .. x - 1
        BY <1>1, <3>1
      <4>2. f[i - 1] = g[i - 1]
        BY <2>3, <4>1
      <4>3. CASE i = x
        <5>1. f[i] = g[x - 1] \o seqs[x]
          <6>1. ~(i < x)
            BY <1>1, <4>3
          <6> QED BY <3>1, <4>3, <6>1
        <5> QED BY <4>2, <4>3, <5>1
      <4>4. CASE i # x
        <5>1. i \in 1 .. x - 1
          BY <1>1, <3>1, <4>4
        <5>2. g[i] = g[i - 1] \o seqs[i]
          <6>1. g[i] = IF i = 1 THEN seqs[i] ELSE g[i - 1] \o seqs[i]
            BY <2>1, <2>2, <5>1, JoinsAt
          <6> QED BY <3>1, <6>1
        <5> QED BY <2>3, <4>2, <5>1, <5>2
      <4> QED BY <4>3, <4>4
    <3> QED BY <3>1
  <2>5. Joins(f, seqs, x)
    BY <2>4 DEF Joins
  <2> QED BY <2>5
<1> QED BY <1>2, <1>3

(* Joins of sequences that begin alike begin alike.                        *)
LEMMA JoinsAgree ==
  ASSUME NEW s, NEW t, NEW n \in Nat, NEW k \in Nat, n <= k,
         \A i \in 1 .. n : s[i] = t[i],
         NEW f, Joins(f, s, n), NEW g, Joins(g, t, k)
  PROVE  \A i \in 1 .. n : f[i] = g[i]
<1> DEFINE T == {i \in 1 .. n : f[i] # g[i]}
<1> SUFFICES ASSUME T # {} PROVE FALSE
  OBVIOUS
<1>1. PICK x \in T : \A y \in T : x <= y
  <2>1. \A c \in T : c \in Nat
    OBVIOUS
  <2> QED BY <2>1, LeastNatural
<1>2. f[x] = IF x = 1 THEN s[x] ELSE f[x - 1] \o s[x]
  BY JoinsAt
<1>3. g[x] = IF x = 1 THEN t[x] ELSE g[x - 1] \o t[x]
  BY JoinsAt
<1>4. x # 1 => f[x - 1] = g[x - 1]
  BY <1>1
<1> QED BY <1>2, <1>3, <1>4

(* FlattenSeq is the last of the joins of its argument.                    *)
LEMMA FlattenIsJoined ==
  ASSUME NEW S, NEW seqs \in Seq(S), Len(seqs) # 0
  PROVE  \E f : Joins(f, seqs, Len(seqs)) /\ FlattenSeq(seqs) = f[Len(seqs)]
<1> DEFINE h == CHOOSE f :
        f = [i \in 1 .. Len(seqs) |-> IF i = 1 THEN seqs[i] ELSE f[i - 1] \o seqs[i]]
<1>1. FlattenSeq(seqs) = h[Len(seqs)]
  BY DEF FlattenSeq
<1>2. \E f : f = [i \in 1 .. Len(seqs) |-> IF i = 1 THEN seqs[i] ELSE f[i - 1] \o seqs[i]]
  <2>1. Len(seqs) \in Nat
    OBVIOUS
  <2> QED BY <2>1, JoinsExists, Zenon DEF Joins
<1>3. h = [i \in 1 .. Len(seqs) |-> IF i = 1 THEN seqs[i] ELSE h[i - 1] \o seqs[i]]
  BY <1>2
<1> QED BY <1>1, <1>3 DEF Joins

(* Of no sequences it is the empty one.                                    *)
LEMMA FlattenEmpty == FlattenSeq(<<>>) = <<>>
  BY DEF FlattenSeq

(* One more sequence is appended to the last join.                         *)
LEMMA JoinsStep ==
  ASSUME NEW s, NEW t, NEW n \in Nat \ {0}, \A i \in 1 .. n : s[i] = t[i],
         NEW f, Joins(f, s, n), NEW g, Joins(g, t, n + 1)
  PROVE  g[n + 1] = f[n] \o t[n + 1]
<1>1. n \in Nat /\ n + 1 \in Nat /\ n <= n + 1 /\ n \in 1 .. n /\ n + 1 \in 1 .. n + 1
  OBVIOUS
<1>2. \A i \in 1 .. n : f[i] = g[i]
  BY <1>1, JoinsAgree
<1>3. g[n + 1] = IF n + 1 = 1 THEN t[n + 1] ELSE g[n + 1 - 1] \o t[n + 1]
  BY <1>1, JoinsAt
<1>4. n + 1 # 1 /\ n + 1 - 1 = n
  OBVIOUS
<1> QED BY <1>1, <1>2, <1>3, <1>4

(* FlattenSeq of a sequence with one more element is what it was with that *)
(* element appended: the step of every induction below.                    *)
LEMMA FlattenStep ==
  ASSUME NEW S, NEW s \in Seq(Seq(S)), NEW t \in Seq(Seq(S)), Len(t) = Len(s) + 1,
         \A i \in 1 .. Len(s) : t[i] = s[i]
  PROVE  FlattenSeq(t) = FlattenSeq(s) \o t[Len(t)]
<1>1. PICK g : Joins(g, t, Len(t)) /\ FlattenSeq(t) = g[Len(t)]
  <2>1. Len(t) # 0
    OBVIOUS
  <2> QED BY <2>1, FlattenIsJoined
<1>2. CASE Len(s) = 0
  <2>1. FlattenSeq(t) = t[1] /\ FlattenSeq(s) = <<>> /\ t[1] \in Seq(S)
    <3>1. s = <<>>
      BY <1>2
    <3> QED BY <1>1, <1>2, <3>1, FlattenEmpty DEF Joins
  <2> QED BY <1>2, <2>1
<1>3. CASE Len(s) # 0
  <2>1. PICK f : Joins(f, s, Len(s)) /\ FlattenSeq(s) = f[Len(s)]
    BY <1>3, FlattenIsJoined
  <2>2. Len(s) \in Nat \ {0} /\ \A i \in 1 .. Len(s) : s[i] = t[i]
    BY <1>3
  <2>3. Joins(g, t, Len(s) + 1)
    BY <1>1
  <2>4. g[Len(s) + 1] = f[Len(s)] \o t[Len(s) + 1]
    BY <2>1, <2>2, <2>3, JoinsStep
  <2> QED BY <1>1, <2>1, <2>4
<1> QED BY <1>2, <1>3

(* By induction over the number of sequences.                              *)
LEMMA FlattenType ==
  ASSUME NEW S, NEW s \in Seq(Seq(S))
  PROVE  FlattenSeq(s) \in Seq(S)
<1> DEFINE T == {c \in Nat : \E t \in Seq(Seq(S)) : Len(t) = c /\ FlattenSeq(t) \notin Seq(S)}
<1> SUFFICES ASSUME T # {} PROVE FALSE
  OBVIOUS
<1>1. PICK x \in T : \A y \in T : x <= y
  BY LeastNatural
<1>2. PICK t \in Seq(Seq(S)) : Len(t) = x /\ FlattenSeq(t) \notin Seq(S)
  BY <1>1
<1>3. x # 0
  BY <1>2, FlattenEmpty
<1> DEFINE u == SubSeq(t, 1, x - 1)
<1>4. u \in Seq(Seq(S)) /\ Len(u) = x - 1 /\ \A i \in 1 .. x - 1 : u[i] = t[i]
  BY <1>1, <1>2, <1>3
<1>5. FlattenSeq(u) \in Seq(S)
  <2>1. x - 1 \in Nat /\ x - 1 \notin T
    BY <1>1, <1>3
  <2> HIDE DEF u
  <2> QED BY <1>4, <2>1
<1>6. FlattenSeq(t) = FlattenSeq(u) \o t[x]
  <2>1. Len(t) = Len(u) + 1
    BY <1>1, <1>2, <1>3, <1>4
  <2> HIDE DEF u
  <2> QED BY <1>2, <1>4, <2>1, FlattenStep
<1>7. t[x] \in Seq(S)
  BY <1>2, <1>3
<1> QED BY <1>2, <1>5, <1>6, <1>7

-----------------------------------------------------------------------------
(* Domain, length and elements of a sequence.                              *)
LEMMA SeqDomain ==
  ASSUME NEW S, NEW s \in Seq(S)
  PROVE  /\ DOMAIN s = 1 .. Len(s) /\ Len(s) \in Nat
         /\ \A i \in DOMAIN s : s[i] \in S
  OBVIOUS

(* Cells has the marks of the serialisers, the keys, the frames, and the   *)
(* bytes of the values written and of the entries stored.                  *)
LEMMA CellFacts ==
  /\ "/" \in Cells /\ "&" \in Cells /\ ";" \in Cells /\ XmpKey \subseteq Cells
  /\ \A k \in ExifKey : \A n \in DOMAIN Frame[k] : Frame[k][n] \in Cells
  /\ \A v \in Values : \A n \in DOMAIN v.bytes : v.bytes[n] \in Cells
  /\ \A st \in Stores : \A i \in DOMAIN st :
        \A n \in DOMAIN st[i].bytes : st[i].bytes[n] \in Cells
<1> DEFINE Frames == UNION {Range(Frame[k]) : k \in ExifKey}
           Marks == {"/", "&", ";"}
           Texts == UNION {Range(v.bytes) : v \in Values}
           Stored == UNION {Range(e.bytes) : e \in UNION {Range(st) : st \in Stores}}
<1>0. Cells = XmpKey \cup Marks \cup Frames \cup Texts \cup Stored
  BY Zenon DEF Cells
<1>5. "/" \in Marks /\ "&" \in Marks /\ ";" \in Marks
  OBVIOUS
<1>6. /\ \A k \in ExifKey : Range(Frame[k]) \subseteq Frames
      /\ \A v \in Values : Range(v.bytes) \subseteq Texts
      /\ \A st \in Stores : \A e \in Range(st) : Range(e.bytes) \subseteq Stored
  <2>1. \A st \in Stores : Range(st) \subseteq UNION {Range(s) : s \in Stores}
    BY Zenon
  <2>2. \A e \in UNION {Range(s) : s \in Stores} : Range(e.bytes) \subseteq Stored
    BY Zenon
  <2> QED BY <2>1, <2>2, Zenon
<1> HIDE DEF Frames, Marks, Texts, Stored
<1>1. "/" \in Cells /\ "&" \in Cells /\ ";" \in Cells /\ XmpKey \subseteq Cells
  BY <1>0, <1>5
<1>2. ASSUME NEW k \in ExifKey, NEW n \in DOMAIN Frame[k] PROVE Frame[k][n] \in Cells
  <2>1. Frame[k][n] \in Range(Frame[k])
    BY DEF Range
  <2> QED BY <2>1, <1>0, <1>6
<1>3. ASSUME NEW v \in Values, NEW n \in DOMAIN v.bytes PROVE v.bytes[n] \in Cells
  <2>1. v.bytes[n] \in Range(v.bytes)
    BY DEF Range
  <2> QED BY <2>1, <1>0, <1>6
<1>4. ASSUME NEW st \in Stores, NEW i \in DOMAIN st, NEW n \in DOMAIN st[i].bytes
      PROVE  st[i].bytes[n] \in Cells
  <2>1. st[i].bytes[n] \in Range(st[i].bytes) /\ st[i] \in Range(st)
    BY DEF Range
  <2> QED BY <2>1, <1>0, <1>6
<1> QED BY <1>1, <1>2, <1>3, <1>4, Zenon

(* An entry of a store that is prepared, and its bytes.                    *)
LEMMA EntryFacts ==
  ASSUME NEW st \in Stores, NEW i \in DOMAIN st
  PROVE  /\ st[i] \in Entry /\ st[i].key \in ExifKey \cup XmpKey
         /\ st[i].bytes \in Seq(Cells)
<1>1. st \in Seq(Entry)
  BY DataAssumption
<1>2. st[i] \in Entry
  BY <1>1, SeqDomain
<1>3. st[i].key \in ExifKey \cup XmpKey /\ st[i].bytes \in Seq(STRING)
  BY <1>2 DEF Entry
<1>4. \A n \in DOMAIN st[i].bytes : st[i].bytes[n] \in Cells
  BY CellFacts
<1> QED BY <1>2, <1>3, <1>4

(* What is written before a value is not empty.                            *)
LEMMA FrameFacts ==
  ASSUME NEW k \in ExifKey
  PROVE  Frame[k] \in Seq(Cells) /\ Len(Frame[k]) \in Nat \ {0}
<1>1. Frame[k] \in Seq(STRING) /\ Frame[k] # <<>>
  BY FrameAssumption
<1>2. \A n \in DOMAIN Frame[k] : Frame[k][n] \in Cells
  BY CellFacts
<1> QED BY <1>1, <1>2

(* Sequences of one and of two elements.                                   *)
LEMMA ShortSequences ==
  ASSUME NEW S, NEW a \in S, NEW b \in S
  PROVE  <<a>> \in Seq(S) /\ <<a, b>> \in Seq(S)
  OBVIOUS

(* Escaping makes cells of cells.                                          *)
LEMMA EscapedType ==
  ASSUME NEW bytes \in Seq(Cells)
  PROVE  Escaped(bytes) \in Seq(Cells)
<1> DEFINE parts == [i \in DOMAIN bytes |-> IF bytes[i] = "&" THEN <<"&", ";">> ELSE <<bytes[i]>>]
<1>1. "&" \in Cells /\ ";" \in Cells
  BY CellFacts
<1>2. DOMAIN bytes = 1 .. Len(bytes) /\ Len(bytes) \in Nat
  BY SeqDomain
<1>3. parts \in Seq(Seq(Cells))
  <2>1. \A c \in Cells : <<c>> \in Seq(Cells)
    BY ShortSequences
  <2>2. <<"&", ";">> \in Seq(Cells)
    BY <1>1, ShortSequences
  <2>3. \A i \in DOMAIN bytes : parts[i] \in Seq(Cells)
    BY <2>1, <2>2, SeqDomain
  <2> HIDE DEF parts
  <2>4. DOMAIN parts = 1 .. Len(bytes)
    BY <1>2 DEF parts
  <2>5. parts = [i \in 1 .. Len(bytes) |-> parts[i]]
    BY <1>2 DEF parts
  <2> QED BY <1>2, <2>3, <2>5
<1> HIDE DEF parts
<1>4. FlattenSeq(parts) \in Seq(Cells)
  BY <1>3, FlattenType
<1> QED BY <1>4 DEF Escaped, parts

(* The live entries of a key are finitely many numbers of entries that     *)
(* have it.                                                                *)
LEMMA LiveFacts ==
  ASSUME NEW st \in Stores, NEW k
  PROVE  /\ IsFiniteSet(Live(st, k)) /\ Live(st, k) \subseteq DOMAIN st
         /\ \A i \in Live(st, k) : i \in Nat /\ st[i].key = k
<1>1. st \in Seq(Entry)
  BY DataAssumption
<1>2. DOMAIN st = 1 .. Len(st) /\ Len(st) \in Nat
  BY <1>1, SeqDomain
<1>3. IsFiniteSet(1 .. Len(st))
  BY <1>2, FS_Interval
<1> QED BY <1>2, <1>3, FS_Subset DEF Live

ExifLive(st) == UNION {Live(st, k) : k \in ExifKey}
XmpLive(st) == {Least(Live(st, k)) : k \in {x \in XmpKey : Live(st, x) # {}}}

(* The EXIF serialiser writes live entries of EXIF keys only.              *)
LEMMA ExifOrderType ==
  ASSUME NEW st \in Stores
  PROVE  ExifOrder(st) \in Seq(ExifLive(st))
<1> DEFINE runs == [t \in DOMAIN TagOrder |-> Ascending(Live(st, TagOrder[t]))]
<1>1. DOMAIN TagOrder = 1 .. Len(TagOrder) /\ \A t \in DOMAIN TagOrder : TagOrder[t] \in ExifKey
  BY TagAssumption, SeqDomain
<1>2. ASSUME NEW t \in DOMAIN TagOrder PROVE runs[t] \in Seq(ExifLive(st))
  <2>1. runs[t] \in Seq(Live(st, TagOrder[t]))
    BY LiveFacts, AscendingIsSorted
  <2>2. Live(st, TagOrder[t]) \subseteq ExifLive(st)
    BY <1>1 DEF ExifLive
  <2> QED BY <2>1, <2>2, SeqMonotonic
<1>3. runs \in Seq(Seq(ExifLive(st)))
  BY <1>1, <1>2, TagAssumption
<1> HIDE DEF runs
<1>4. FlattenSeq(runs) \in Seq(ExifLive(st))
  BY <1>3, FlattenType
<1> QED BY <1>4 DEF ExifOrder, runs

(* The first live entry of each property is one of its live entries.       *)
LEMMA XmpLiveFacts ==
  ASSUME NEW st \in Stores
  PROVE  /\ XmpLive(st) \subseteq DOMAIN st /\ IsFiniteSet(XmpLive(st))
         /\ \A i \in XmpLive(st) : /\ i \in Nat /\ st[i].key \in XmpKey
                                   /\ i \in Live(st, st[i].key) /\ i = Least(Live(st, st[i].key))
<1>1. ASSUME NEW i \in XmpLive(st)
      PROVE  /\ i \in DOMAIN st /\ i \in Nat /\ st[i].key \in XmpKey
             /\ i \in Live(st, st[i].key) /\ i = Least(Live(st, st[i].key))
  <2>1. PICK k \in XmpKey : Live(st, k) # {} /\ i = Least(Live(st, k))
    BY DEF XmpLive
  <2>2. i \in Live(st, k)
    BY <2>1, LiveFacts, LeastIsLeast
  <2>3. st[i].key = k /\ i \in Nat /\ i \in DOMAIN st
    BY <2>2, LiveFacts
  <2> QED BY <2>1, <2>2, <2>3
<1>2. DOMAIN st = 1 .. Len(st) /\ Len(st) \in Nat
  BY DataAssumption, SeqDomain
<1>3. IsFiniteSet(DOMAIN st)
  BY <1>2, FS_Interval
<1>4. XmpLive(st) \subseteq DOMAIN st
  BY <1>1
<1>5. IsFiniteSet(XmpLive(st))
  BY <1>3, <1>4, FS_Subset
<1> QED BY <1>1, <1>4, <1>5

(* The XMP serialiser writes those only.                                   *)
LEMMA XmpOrderType ==
  ASSUME NEW st \in Stores
  PROVE  XmpOrder(st) \in Seq(XmpLive(st))
<1>1. XmpOrder(st) = Ascending(XmpLive(st))
  BY DEF XmpOrder, XmpLive
<1> QED BY <1>1, XmpLiveFacts, AscendingIsSorted

PayloadType == [EXIF_TIFF : Seq(Cells), XMP : Seq(Cells)]

ExifParts(st) == [n \in DOMAIN ExifOrder(st) |-> ExifCells(st[ExifOrder(st)[n]])]
XmpParts(st) == [n \in DOMAIN XmpOrder(st) |-> XmpCells(st[XmpOrder(st)[n]])]

(* What is written for an entry is a sequence of cells.                    *)
LEMMA CellsOfEntry ==
  ASSUME NEW st \in Stores, NEW i \in DOMAIN st
  PROVE  /\ st[i].key \in ExifKey => ExifCells(st[i]) \in Seq(Cells)
         /\ st[i].key \in XmpKey => XmpCells(st[i]) \in Seq(Cells)
<1>1. st[i].bytes \in Seq(Cells)
  BY EntryFacts
<1>2. CASE st[i].key \in ExifKey
  <2>1. Frame[st[i].key] \in Seq(Cells)
    BY <1>2, FrameFacts
  <2>2. ExifCells(st[i]) \in Seq(Cells)
    BY <1>1, <2>1, ConcatProperties DEF ExifCells
  <2> QED BY <1>2, <2>2, TagAssumption
<1>3. CASE st[i].key \in XmpKey
  <2>1. <<st[i].key>> \in Seq(Cells) /\ <<"/">> \in Seq(Cells)
    BY <1>3, CellFacts, ShortSequences
  <2>2. Escaped(st[i].bytes) \in Seq(Cells)
    BY <1>1, EscapedType
  <2>3. <<st[i].key>> \o Escaped(st[i].bytes) \in Seq(Cells)
    BY <2>1, <2>2, ConcatProperties
  <2>4. XmpCells(st[i]) \in Seq(Cells)
    BY <2>1, <2>3, ConcatProperties DEF XmpCells
  <2> QED BY <1>3, <2>4, TagAssumption
<1> QED BY <1>2, <1>3

(* So are the parts of both payloads,                                      *)
LEMMA PartsType ==
  ASSUME NEW st \in Stores
  PROVE  ExifParts(st) \in Seq(Seq(Cells)) /\ XmpParts(st) \in Seq(Seq(Cells))
<1>1. ExifParts(st) \in Seq(Seq(Cells))
  <2>1. DOMAIN ExifOrder(st) = 1 .. Len(ExifOrder(st)) /\ Len(ExifOrder(st)) \in Nat
        /\ \A n \in DOMAIN ExifOrder(st) : ExifOrder(st)[n] \in ExifLive(st)
    BY ExifOrderType, SeqDomain
  <2>2. \A i \in ExifLive(st) : i \in DOMAIN st /\ st[i].key \in ExifKey
    BY LiveFacts DEF ExifLive
  <2>3. \A n \in DOMAIN ExifOrder(st) : ExifCells(st[ExifOrder(st)[n]]) \in Seq(Cells)
    BY <2>1, <2>2, CellsOfEntry
  <2> QED BY <2>1, <2>3 DEF ExifParts
<1>2. XmpParts(st) \in Seq(Seq(Cells))
  <2>1. DOMAIN XmpOrder(st) = 1 .. Len(XmpOrder(st)) /\ Len(XmpOrder(st)) \in Nat
        /\ \A n \in DOMAIN XmpOrder(st) : XmpOrder(st)[n] \in XmpLive(st)
    BY XmpOrderType, SeqDomain
  <2>2. \A i \in XmpLive(st) : i \in DOMAIN st /\ st[i].key \in XmpKey
    BY XmpLiveFacts
  <2>3. \A n \in DOMAIN XmpOrder(st) : XmpCells(st[XmpOrder(st)[n]]) \in Seq(Cells)
    BY <2>1, <2>2, CellsOfEntry
  <2> QED BY <2>1, <2>3 DEF XmpParts
<1> QED BY <1>1, <1>2

(* and the payloads of every store.                                        *)
LEMMA PayloadsType ==
  ASSUME NEW st \in Stores
  PROVE  Payloads(st) \in PayloadType
<1>1. FlattenSeq(ExifParts(st)) \in Seq(Cells) /\ FlattenSeq(XmpParts(st)) \in Seq(Cells)
  BY PartsType, FlattenType
<1> QED BY <1>1 DEF Payloads, PayloadType, ExifParts, XmpParts

-----------------------------------------------------------------------------
(* Where a needle occurs it lies inside, and is found there.               *)
LEMMA OccursFacts ==
  ASSUME NEW cells \in Seq(Cells), NEW needle \in Seq(Cells)
  PROVE  /\ IsFiniteSet(OccursAt(cells, needle))
         /\ \A i \in OccursAt(cells, needle) :
                /\ i \in Nat /\ i + Len(needle) <= Len(cells)
                /\ SubSeq(cells, i + 1, i + Len(needle)) = needle
<1>1. Len(cells) \in Nat /\ Len(needle) \in Nat
  BY SeqDomain
<1>2. IsFiniteSet(0 .. Len(cells) - Len(needle))
  BY <1>1, FS_Interval
<1>3. OccursAt(cells, needle) \subseteq 0 .. Len(cells) - Len(needle)
  BY DEF OccursAt
<1>4. IsFiniteSet(OccursAt(cells, needle))
  BY <1>2, <1>3, FS_Subset
<1>5. ASSUME NEW i \in OccursAt(cells, needle)
      PROVE  i \in Nat /\ i + Len(needle) <= Len(cells)
  BY <1>1, <1>3
<1>6. \A i \in OccursAt(cells, needle) : SubSeq(cells, i + 1, i + Len(needle)) = needle
  BY DEF OccursAt
<1> QED BY <1>4, <1>5, <1>6

EntryFor(st, r) == Nth(Live(st, r.key), r.occurrence)
NeedleFor(st, r) ==
    IF FamilyOf(r.key) = "XMP" THEN Escaped(st[EntryFor(st, r)].bytes)
    ELSE st[EntryFor(st, r)].bytes

(* A slot that is found lies where the bytes of the value it was asked for *)
(* occur, and its width is theirs; the slot of an EXIF request is at the   *)
(* occurrence it names, and an XMP request names the first.                *)
LEMMA SlotIsBound ==
  ASSUME NEW st \in Stores, NEW payloads \in PayloadType, NEW r \in Request,
         FindSlot(st, payloads, r) # Denied
  PROVE  LET slot == FindSlot(st, payloads, r)
             found == OccursAt(payloads[slot.family], NeedleFor(st, r))
         IN /\ slot \in Slot /\ slot.family = FamilyOf(r.key)
            /\ EntryFor(st, r) \in Live(st, r.key)
            /\ NeedleFor(st, r) \in Seq(Cells)
            /\ slot.offset \in found /\ slot.width = Len(NeedleFor(st, r))
            /\ r.occurrence < Cardinality(Live(st, r.key))
            /\ slot.family = "XMP" => r.occurrence = 0
            /\ slot.family # "XMP" =>
                    slot.offset = Nth(found, r.occurrence) /\ r.occurrence < Cardinality(found)
<1> DEFINE live == Live(st, r.key)
           e == st[EntryFor(st, r)]
           needle == NeedleFor(st, r)
           family == FamilyOf(r.key)
           offset == IF family = "XMP" THEN XmpOffset(payloads.XMP, r.key, needle)
                     ELSE ExifOffset(payloads.EXIF_TIFF, needle, r.occurrence)
           slot == FindSlot(st, payloads, r)
           found == OccursAt(payloads[family], needle)
<1>1. /\ slot = [family |-> family, offset |-> offset, width |-> Width(needle),
                 expected |-> r.expected]
      /\ offset # NotFound
      /\ family = "XMP" => r.occurrence = 0
      /\ ~(Cardinality(live) <= r.occurrence)
  BY Zenon DEF FindSlot, EntryFor, NeedleFor
<1>2. r.key \in ExifKey \cup XmpKey /\ r.occurrence \in Nat /\ r.expected \in Expected
  BY DEF Request
<1>3. IsFiniteSet(live) /\ Cardinality(live) \in Nat
  BY LiveFacts, FS_CardinalityType
<1>4. r.occurrence < Cardinality(live) /\ r.occurrence \in 0 .. Cardinality(live) - 1
  BY <1>1, <1>2, <1>3
<1>5. EntryFor(st, r) \in live
  <2>1. \A x \in live : x \in Nat
    BY LiveFacts
  <2> QED BY <1>3, <1>4, <2>1, NthIsNth DEF EntryFor
<1>6. e.bytes \in Seq(Cells)
  <2>1. EntryFor(st, r) \in DOMAIN st
    BY <1>5, LiveFacts
  <2> QED BY <2>1, EntryFacts
<1>7. needle \in Seq(Cells)
  BY <1>6, EscapedType DEF NeedleFor
<1>8. family \in Family
  BY DEF FamilyOf, Family
<1>9. payloads.XMP \in Seq(Cells) /\ payloads.EXIF_TIFF \in Seq(Cells)
  BY DEF PayloadType
<1>10. offset \in found /\ (family # "XMP" => offset = Nth(found, r.occurrence)
                                              /\ r.occurrence < Cardinality(found))
  <2>1. CASE family = "XMP"
    <3> DEFINE after == {p \in DOMAIN payloads.XMP : payloads.XMP[p] \in NamesFrom[r.key]}
               hits == {i \in OccursAt(payloads.XMP, needle) : \E p \in after : p <= i}
    <3>1. offset = IF hits = {} THEN NotFound ELSE Least(hits)
      BY <2>1 DEF XmpOffset
    <3>2. \A x \in hits : x \in Nat
      BY <1>7, <1>9, OccursFacts
    <3>3. offset = Least(hits) /\ hits # {}
      BY <1>1, <3>1
    <3>4. offset \in hits
      BY <3>2, <3>3, LeastIsLeast
    <3> QED BY <2>1, <3>4
  <2>2. CASE family # "XMP"
    <3>1. family = "EXIF_TIFF"
      BY <1>8, <2>2 DEF Family
    <3>2. found = OccursAt(payloads.EXIF_TIFF, needle)
      BY <3>1
    <3>3. /\ offset = Nth(found, r.occurrence)
          /\ ~(Cardinality(found) <= r.occurrence)
      BY <1>1, <2>2, <3>2 DEF ExifOffset
    <3>4. IsFiniteSet(found) /\ \A x \in found : x \in Nat
      BY <1>7, <1>9, <3>2, OccursFacts
    <3>5. Cardinality(found) \in Nat
      BY <3>4, FS_CardinalityType
    <3> HIDE DEF found, offset
    <3>6. r.occurrence < Cardinality(found) /\ r.occurrence \in 0 .. Cardinality(found) - 1
      BY <1>2, <3>3, <3>5
    <3> QED BY <3>3, <3>4, <3>6, NthIsNth
  <2> QED BY <2>1, <2>2
<1>11. offset \in Nat
  <2>1. payloads[family] \in Seq(Cells)
    BY <1>8, <1>9 DEF Family
  <2> QED BY <1>7, <1>10, <2>1, OccursFacts
<1>12. slot \in Slot
  <2>1. Width(needle) \in Nat
    BY <1>7 DEF Width
  <2> HIDE DEF slot, family, offset, needle
  <2> QED BY <1>1, <1>2, <1>8, <1>11, <2>1 DEF Slot
<1> HIDE DEF family, offset, needle
<1>13. slot.family = family /\ slot.offset = offset /\ slot.width = Len(needle)
  BY <1>1 DEF Width
<1> HIDE DEF slot
<1> QED BY <1>1, <1>4, <1>5, <1>7, <1>10, <1>12, <1>13 DEF slot, family, needle

-----------------------------------------------------------------------------
(* The inductive invariant.  A plan or an instance is a record whose slots *)
(* lie inside its payload and whose generation was issued; the batch under *)
(* way consists of updates that were accepted, and up to the one about to  *)
(* be written the payload is what they leave.                              *)
Update == [token : Handles, shape : Shape, bytes : Seq(Cells),
           from : {Own} \cup [family : Family, worker : Worker, offset : Nat]]
CallType == [pc : {"idle", "check", "write", "returned"}, worker : Worker,
             updates : Seq(Update), i : Nat \ {0}, code : {"REFUSED", "NONE"}]

PlanRecord(s) ==
    s = [id |-> s.id, payload |-> s.payload, slots |-> s.slots, gen |-> s.gen,
         places |-> s.places, equals |-> s.equals]

GoodState(s) ==
    /\ PlanRecord(s) /\ s.id \in PlanId /\ s.payload \in PayloadType
    /\ s.slots \in Seq(Slot) /\ Len(s.slots) \in 1 .. MaxRequests
    /\ \A n \in DOMAIN s.slots :
            s.slots[n].offset + s.slots[n].width <= Len(s.payload[s.slots[n].family])

Issued(s) == \E p \in issued : p.gen = s.gen /\ p.id = s.id /\ p.count = Len(s.slots)

GoodUpdate(u) ==
    u \in Update /\ InPayload(u) /\ Knows(u.token) /\ ~Aliases(u) /\ Fits(u)

Covers(u, f, p) ==
    SlotOf(u).family = f /\ p - SlotOf(u).offset \in 1 .. SlotOf(u).width

PatchedTo(n) ==
    \A f \in Family :
        /\ Len(Self.payload[f]) = Len(before[f])
        /\ \A p \in 1 .. Len(before[f]) :
            \/ /\ \A k \in 1 .. n : ~Covers(call.updates[k], f, p)
               /\ Self.payload[f][p] = before[f][p]
            \/ \E k \in 1 .. n :
                /\ Covers(call.updates[k], f, p)
                /\ \A l \in k + 1 .. n : ~Covers(call.updates[l], f, p)
                /\ Self.payload[f][p] =
                        Encoded(call.updates[k])[p - SlotOf(call.updates[k]).offset]

StatesInv ==
    /\ plan # None => GoodState(plan) /\ Issued(plan)
    /\ inst = [w \in Worker |-> inst[w]]
    /\ \A w \in Worker : inst[w] # None => GoodState(inst[w]) /\ Issued(inst[w])

CallInv ==
    /\ call \in CallType
    /\ call.pc # "idle" => Self # None /\ before \in PayloadType
    /\ call.pc \in {"check", "write"} =>
            call.code = "REFUSED" /\ \A k \in 1 .. Len(call.updates) : GoodUpdate(call.updates[k])
    /\ call.pc = "check" => call.i = 1 /\ Self.payload = before
    /\ call.pc = "write" => call.i \in 1 .. Len(call.updates) /\ PatchedTo(call.i - 1)
    /\ call.pc = "returned" =>
            IF call.code = "NONE"
            THEN /\ \A k \in 1 .. Len(call.updates) : GoodUpdate(call.updates[k])
                 /\ PatchedTo(Len(call.updates))
            ELSE Self.payload = before

IInv == StatesInv /\ CallInv

(* A plan is told from None by its id, which is not 0.                     *)
LEMMA NoneIsNoPlan ==
  ASSUME NEW s, GoodState(s)
  PROVE  s # None
<1>1. s.id # 0
  BY PlanAssumption DEF GoodState
<1> QED BY <1>1 DEF None

(* Payloads are two sequences of cells.                                    *)
LEMMA PayloadFacts ==
  ASSUME NEW a \in PayloadType
  PROVE  /\ \A f \in Family : /\ a[f] \in Seq(Cells) /\ Len(a[f]) \in Nat
                              /\ DOMAIN a[f] = 1 .. Len(a[f])
         /\ DOMAIN a = Family
         /\ \A b \in PayloadType : (\A f \in Family : a[f] = b[f]) => a = b
  BY DEF PayloadType, Family

(* A slot of a plan lies inside the payload.                               *)
LEMMA SlotFacts ==
  ASSUME NEW s, GoodState(s), NEW n \in DOMAIN s.slots
  PROVE  /\ s.slots[n] \in Slot /\ s.slots[n].family \in Family
         /\ s.slots[n].offset \in Nat /\ s.slots[n].width \in Nat
         /\ s.slots[n].offset + s.slots[n].width <= Len(s.payload[s.slots[n].family])
<1>1. s.slots[n] \in Slot
  BY SeqDomain DEF GoodState
<1> QED BY <1>1 DEF GoodState, Slot

(* A plan whose payload of one family is replaced by another of the same   *)
(* length is a plan, with the same id, slots and generation.               *)
LEMMA PayloadReplaced ==
  ASSUME NEW s, GoodState(s), NEW f \in Family, NEW cells \in Seq(Cells),
         Len(cells) = Len(s.payload[f])
  PROVE  LET t == [s EXCEPT !.payload[f] = cells]
         IN /\ GoodState(t)
            /\ t.payload[f] = cells /\ \A g \in Family : g # f => t.payload[g] = s.payload[g]
            /\ t.id = s.id /\ t.slots = s.slots /\ t.gen = s.gen
<1> DEFINE t == [s EXCEPT !.payload[f] = cells]
           q == [s.payload EXCEPT ![f] = cells]
<1>1. q \in PayloadType /\ q[f] = cells /\ \A g \in Family : g # f => q[g] = s.payload[g]
  BY DEF GoodState, PayloadType, Family
<1>2. t = [id |-> s.id, payload |-> q, slots |-> s.slots, gen |-> s.gen,
           places |-> s.places, equals |-> s.equals]
  BY DEF GoodState, PlanRecord
<1> HIDE DEF t, q
<1>3. /\ t.payload = q /\ t.id = s.id /\ t.slots = s.slots /\ t.gen = s.gen
      /\ PlanRecord(t)
  BY <1>2 DEF PlanRecord
<1>4. \A g \in Family : Len(t.payload[g]) = Len(s.payload[g])
  BY <1>1, <1>3
<1>5. \A n \in DOMAIN t.slots :
        t.slots[n].offset + t.slots[n].width <= Len(t.payload[t.slots[n].family])
  BY <1>3, <1>4, SlotFacts
<1>6. GoodState(t)
  BY <1>1, <1>3, <1>5 DEF GoodState
<1> QED BY <1>1, <1>3, <1>6 DEF t

(* The instance of the call under way.                                     *)
LEMMA SelfFacts ==
  ASSUME StatesInv, call \in CallType, Self # None
  PROVE  call.worker \in Worker /\ GoodState(Self) /\ Issued(Self)
  BY DEF StatesInv, CallType, Self

(* The bytes of an update that lies in a payload are as many as it says.   *)
LEMMA BytesFacts ==
  ASSUME StatesInv, NEW u \in Update, InPayload(u)
  PROVE  TheBytes(u) \in Seq(Cells) /\ Len(TheBytes(u)) = Len(u.bytes)
<1>1. u.bytes \in Seq(Cells) /\ Len(u.bytes) \in Nat
  BY DEF Update
<1>2. CASE u.from = Own
  BY <1>1, <1>2 DEF TheBytes
<1>3. CASE u.from # Own
  <2> DEFINE p == inst[u.from.worker].payload[u.from.family]
             o == u.from.offset
  <2>1. u.from \in [family : Family, worker : Worker, offset : Nat]
    BY <1>3 DEF Update
  <2>2. u.from.family \in Family /\ u.from.worker \in Worker /\ o \in Nat
    BY <2>1
  <2>3. inst[u.from.worker] # None /\ o + Len(u.bytes) <= Len(p)
    BY <1>3 DEF InPayload
  <2>4. p \in Seq(Cells) /\ Len(p) \in Nat
    BY <2>2, <2>3, PayloadFacts DEF StatesInv, GoodState
  <2>5. TheBytes(u) = SubSeq(p, o + 1, o + Len(u.bytes))
    BY <1>3 DEF TheBytes
  <2> HIDE DEF p, o
  <2>6. SubSeq(p, o + 1, o + Len(u.bytes)) \in Seq(Cells)
        /\ Len(SubSeq(p, o + 1, o + Len(u.bytes))) = Len(u.bytes)
    BY <1>1, <2>2, <2>3, <2>4, SubSeqProperties
  <2> QED BY <2>5, <2>6
<1> QED BY <1>2, <1>3

(* What they become are cells.                                             *)
LEMMA EncodedFacts ==
  ASSUME StatesInv, NEW u \in Update, InPayload(u)
  PROVE  Encoded(u) \in Seq(Cells)
  BY BytesFacts, EscapedType DEF Encoded

(* A known handle has a slot inside the payload.                           *)
LEMMA KnownSlot ==
  ASSUME GoodState(Self), NEW u, Knows(u.token)
  PROVE  /\ IndexOf(u.token) \in DOMAIN Self.slots
         /\ SlotOf(u).family \in Family /\ SlotOf(u).offset \in Nat /\ SlotOf(u).width \in Nat
         /\ SlotOf(u).offset + SlotOf(u).width <= Len(Self.payload[SlotOf(u).family])
  BY SlotFacts DEF Knows, SlotOf

(* The invariant holds before anything was prepared.                       *)
LEMMA InitInv == Init => IInv
<1> SUFFICES ASSUME Init PROVE IInv
  OBVIOUS
<1>1. StatesInv
  BY DEF Init, StatesInv
<1>2. call \in CallType /\ call.pc = "idle"
  <2>1. (CHOOSE w \in Worker : TRUE) \in Worker
    BY WorkerAssumption
  <2>2. <<>> \in Seq(Update)
    OBVIOUS
  <2> QED BY <2>1, <2>2 DEF Init, NoCall, CallType
<1>3. CallInv
  BY <1>2 DEF CallInv
<1> QED BY <1>1, <1>3 DEF IInv

(* Plans and instances come and go between calls only.                     *)
LEMMA IdleStep ==
  ASSUME IInv, Idle, call' = call, before' = before, StatesInv'
  PROVE  IInv'
  BY DEF IInv, CallInv, Idle

(* prepare makes a plan whose slots lie inside its payload, with or        *)
(* without its EXIF part, under the generation it has issued.              *)
LEMMA PrepareStep ==
  ASSUME IInv, NEW st \in Stores, NEW rs \in TupleOf(Requests, 1) \cup TupleOf(Requests, 2),
         NEW id \in PlanId, Prepare(st, rs, id)
  PROVE  IInv'
<1>1. rs \in Seq(Request) /\ DOMAIN rs = 1 .. Len(rs) /\ Len(rs) \in Nat
  <2>1. PICK n \in Nat : rs \in [1 .. n -> Requests]
    BY DEF TupleOf
  <2>2. rs \in [1 .. n -> Request]
    BY <2>1, DataAssumption
  <2> QED BY <2>2
<1>2. Len(rs) \in 1 .. MaxRequests
  BY DEF Prepare
<1>3. PICK lost \in BOOLEAN :
        LET payloads == IF lost THEN [Payloads(st) EXCEPT !.EXIF_TIFF = <<>>]
                        ELSE Payloads(st)
            slots == [n \in DOMAIN rs |-> FindSlot(st, payloads, rs[n])]
            entry == [n \in DOMAIN rs |-> Nth(Live(st, rs[n].key), rs[n].occurrence)]
            gen == Cardinality(issued) + 1
        IN /\ Denied \notin Range(slots)
           /\ plan' = [id |-> id, payload |-> payloads, slots |-> slots, gen |-> gen,
                       places |-> [n \in DOMAIN rs |-> Place(st, entry[n])],
                       equals |-> [n \in DOMAIN rs |-> Equals(st, entry[n])]]
           /\ issued' = issued \cup {[gen |-> gen, id |-> id, count |-> Len(rs)]}
  BY Zenon DEF Prepare
<1> DEFINE payloads == IF lost THEN [Payloads(st) EXCEPT !.EXIF_TIFF = <<>>] ELSE Payloads(st)
           slots == [n \in DOMAIN rs |-> FindSlot(st, payloads, rs[n])]
           gen == Cardinality(issued) + 1
<1>4. payloads \in PayloadType
  <2>1. <<>> \in Seq(Cells)
    OBVIOUS
  <2>2. \A a \in PayloadType : [a EXCEPT !.EXIF_TIFF = <<>>] \in PayloadType
    BY <2>1 DEF PayloadType
  <2> QED BY <2>2, PayloadsType
<1> HIDE DEF payloads, slots, gen
<1>5. /\ Denied \notin Range(slots)
      /\ PlanRecord(plan') /\ plan'.id = id /\ plan'.payload = payloads /\ plan'.slots = slots
      /\ plan'.gen = gen
      /\ issued' = issued \cup {[gen |-> gen, id |-> id, count |-> Len(rs)]}
  BY <1>3 DEF payloads, slots, gen, PlanRecord
<1>6. ASSUME NEW n \in 1 .. Len(rs)
      PROVE  slots[n] \in Slot /\ slots[n].offset + slots[n].width <= Len(payloads[slots[n].family])
  <2>1. slots[n] = FindSlot(st, payloads, rs[n]) /\ slots[n] \in Range(slots)
    BY <1>1 DEF slots, Range
  <2>2. rs[n] \in Request /\ FindSlot(st, payloads, rs[n]) # Denied
    BY <1>1, <1>5, <2>1
  <2> DEFINE needle == NeedleFor(st, rs[n])
             found == OccursAt(payloads[slots[n].family], needle)
  <2>3. /\ slots[n] \in Slot /\ needle \in Seq(Cells)
        /\ slots[n].offset \in found /\ slots[n].width = Len(needle)
    BY <1>4, <2>1, <2>2, SlotIsBound
  <2>4. payloads[slots[n].family] \in Seq(Cells)
    BY <1>4, <2>3, PayloadFacts DEF Slot
  <2>5. slots[n].offset + Len(needle) <= Len(payloads[slots[n].family])
    BY <2>3, <2>4, OccursFacts
  <2> QED BY <2>3, <2>5
<1>7. slots \in Seq(Slot) /\ Len(slots) = Len(rs) /\ DOMAIN slots = 1 .. Len(rs)
  BY <1>1, <1>6 DEF slots
<1>8. GoodState(plan')
  BY <1>2, <1>4, <1>5, <1>6, <1>7 DEF GoodState
<1>9. \E p \in issued' : p.gen = plan'.gen /\ p.id = plan'.id /\ p.count = Len(plan'.slots)
  <2>1. [gen |-> gen, id |-> id, count |-> Len(rs)] \in issued'
    BY <1>5
  <2> QED BY <1>5, <1>7, <2>1
<1>10. inst' = inst /\ call' = call /\ before' = before /\ Idle /\ issued \subseteq issued'
  BY <1>5 DEF Prepare
<1>11. StatesInv'
  BY <1>8, <1>9, <1>10 DEF IInv, StatesInv, GoodState, PlanRecord, Issued
<1> QED BY <1>10, <1>11, IdleStep

(* Without the plan the instances stay what they are.                      *)
LEMMA ResetPlanStep ==
  ASSUME IInv, ResetPlan
  PROVE  IInv'
<1>1. plan' = None /\ inst' = inst /\ issued' = issued /\ call' = call /\ before' = before /\ Idle
  BY DEF ResetPlan
<1>2. StatesInv'
  BY <1>1 DEF IInv, StatesInv, GoodState, PlanRecord, Issued
<1> QED BY <1>1, <1>2, IdleStep

(* An instance takes the place of another: the plan, or none at all.       *)
LEMMA InstanceStep ==
  ASSUME IInv, NEW w \in Worker, CreateInstance(w) \/ ResetInstance(w)
  PROVE  IInv'
<1>1. /\ plan' = plan /\ issued' = issued /\ call' = call /\ before' = before /\ Idle
      /\ \E s : inst' = [inst EXCEPT ![w] = s] /\ (s = None \/ (s = plan /\ plan # None))
  BY DEF CreateInstance, ResetInstance
<1>2. PICK s : inst' = [inst EXCEPT ![w] = s] /\ (s = None \/ (s = plan /\ plan # None))
  BY <1>1
<1>3. s # None => GoodState(s) /\ Issued(s)
  BY <1>2 DEF IInv, StatesInv
<1>4. DOMAIN inst = Worker
  BY DEF IInv, StatesInv
<1>5. inst' = [x \in Worker |-> inst'[x]]
  BY <1>2, <1>4
<1>6. \A x \in Worker : inst'[x] = IF x = w THEN s ELSE inst[x]
  BY <1>2, <1>4
<1>7. ASSUME NEW x \in Worker, inst'[x] # None
      PROVE  GoodState(inst'[x]) /\ Issued(inst'[x])
  <2>1. inst[x] # None => GoodState(inst[x]) /\ Issued(inst[x])
    BY DEF IInv, StatesInv
  <2>2. CASE x = w
    BY <1>3, <1>6, <1>7, <2>2
  <2>3. CASE x # w
    BY <1>6, <1>7, <2>1, <2>3
  <2> QED BY <2>2, <2>3
<1>8. \A x \in Worker : inst'[x] # None => GoodState(inst[x])' /\ Issued(inst[x])'
  BY <1>1, <1>7 DEF GoodState, PlanRecord, Issued
<1>9. (plan # None => GoodState(plan) /\ Issued(plan))'
  BY <1>1 DEF IInv, StatesInv, GoodState, PlanRecord, Issued
<1>10. StatesInv'
  BY <1>5, <1>8, <1>9 DEF StatesInv
<1> QED BY <1>1, <1>10, IdleStep

(* Plans stay plans where nothing of them changes.                         *)
LEMMA StatesUnchanged ==
  ASSUME StatesInv, plan' = plan, inst' = inst, issued' = issued
  PROVE  StatesInv'
  BY DEF StatesInv, GoodState, PlanRecord, Issued

(* apply begins with no update accepted and the payloads untouched.        *)
LEMMA BeginApplyStep ==
  ASSUME IInv, NEW w \in Worker, BeginApply(w)
  PROVE  IInv'
<1>1. /\ inst[w] # None /\ before' = inst[w].payload
      /\ plan' = plan /\ inst' = inst /\ issued' = issued
      /\ call' = [NoCall EXCEPT !.pc = "check", !.worker = w]
  BY DEF BeginApply
<1>2. call' = [pc |-> "check", worker |-> w, updates |-> <<>>, i |-> 1, code |-> "REFUSED"]
  BY <1>1 DEF NoCall
<1>3. call' \in CallType /\ Len(call'.updates) = 0
  <2>1. <<>> \in Seq(Update) /\ Len(<<>>) = 0
    OBVIOUS
  <2> QED BY <1>2, <2>1 DEF CallType
<1>4. Self' = inst[w]
  BY <1>1, <1>2 DEF Self
<1>5. inst[w].payload \in PayloadType
  BY <1>1 DEF IInv, StatesInv, GoodState
<1>6. StatesInv'
  BY <1>1, StatesUnchanged DEF IInv
<1>7. call'.pc = "check" /\ call'.code = "REFUSED" /\ call'.i = 1
  BY <1>2
<1>8. 1 .. Len(call'.updates) = {}
  BY <1>3
<1>9. (Self # None)' /\ (before \in PayloadType)' /\ (Self.payload = before)'
  BY <1>1, <1>4, <1>5 DEF None
<1>10. CallInv'
  BY <1>3, <1>7, <1>8, <1>9 DEF CallInv
<1> QED BY <1>6, <1>10 DEF IInv

(* Nothing is kept of a call.                                              *)
LEMMA ReturnStep ==
  ASSUME IInv, Return
  PROVE  IInv'
<1>1. call' = NoCall /\ plan' = plan /\ inst' = inst /\ issued' = issued
  BY DEF Return
<1>2. call' \in CallType /\ call'.pc = "idle"
  <2>1. (CHOOSE w \in Worker : TRUE) \in Worker
    BY WorkerAssumption
  <2>2. <<>> \in Seq(Update)
    OBVIOUS
  <2> QED BY <1>1, <2>1, <2>2 DEF NoCall, CallType
<1>3. StatesInv'
  BY <1>1, StatesUnchanged DEF IInv
<1>4. CallInv'
  BY <1>2 DEF CallInv
<1> QED BY <1>3, <1>4 DEF IInv

(* The client's updates name handles, shapes and bytes, and parts of the   *)
(* payload of an instance there is.                                        *)
LEMMA UpdatesTyped ==
  ASSUME StatesInv, NEW u \in Updates
  PROVE  u \in Update
<1>1. \A v \in Values : v.shape \in Shape /\ v.bytes \in Seq(Cells)
  <2> SUFFICES ASSUME NEW v \in Values PROVE v.shape \in Shape /\ v.bytes \in Seq(Cells)
    OBVIOUS
  <2>1. v.shape \in Shape /\ v.bytes \in Seq(STRING)
    BY DataAssumption DEF Value
  <2>2. \A n \in DOMAIN v.bytes : v.bytes[n] \in Cells
    BY CellFacts
  <2> QED BY <2>1, <2>2
<1>2. CASE \E h \in Handles, v \in Values :
              u = [token |-> h, shape |-> v.shape, bytes |-> v.bytes, from |-> Own]
  BY <1>1, <1>2 DEF Update
<1>3. CASE \E f \in Family, w \in Worker : \E h \in Handles, v \in Values :
              \E o \in DOMAIN inst[w].payload[f] :
                inst[w] # None /\ u = [token |-> h, shape |-> "text", bytes |-> v.bytes,
                     from |-> [family |-> f, worker |-> w, offset |-> o]]
  <2>0. PICK f \in Family, w \in Worker : \E h \in Handles, v \in Values :
              \E o \in DOMAIN inst[w].payload[f] :
                inst[w] # None /\ u = [token |-> h, shape |-> "text", bytes |-> v.bytes,
                     from |-> [family |-> f, worker |-> w, offset |-> o]]
    BY <1>3
  <2>1. PICK h \in Handles, v \in Values : \E o \in DOMAIN inst[w].payload[f] :
                inst[w] # None /\ u = [token |-> h, shape |-> "text", bytes |-> v.bytes,
                     from |-> [family |-> f, worker |-> w, offset |-> o]]
    BY <2>0
  <2>6. PICK o \in DOMAIN inst[w].payload[f] :
                inst[w] # None /\ u = [token |-> h, shape |-> "text", bytes |-> v.bytes,
                     from |-> [family |-> f, worker |-> w, offset |-> o]]
    BY <2>1
  <2>2. inst[w].payload \in PayloadType
    BY <2>6 DEF StatesInv, GoodState
  <2>3. o \in Nat
    BY <2>2, PayloadFacts
  <2>4. [family |-> f, worker |-> w, offset |-> o] \in
            [family : Family, worker : Worker, offset : Nat]
    BY <2>3
  <2>5. "text" \in Shape
    BY DEF Shape
  <2> QED BY <1>1, <2>4, <2>5, <2>6 DEF Update
<1>4. \/ \E h \in Handles, v \in Values :
              u = [token |-> h, shape |-> v.shape, bytes |-> v.bytes, from |-> Own]
      \/ \E f \in Family, w \in Worker : \E h \in Handles, v \in Values :
              \E o \in DOMAIN inst[w].payload[f] :
                inst[w] # None /\ u = [token |-> h, shape |-> "text", bytes |-> v.bytes,
                     from |-> [family |-> f, worker |-> w, offset |-> o]]
  <2>1. CASE u \in {[token |-> t, shape |-> v.shape, bytes |-> v.bytes, from |-> Own] :
                        t \in Handles, v \in Values}
    BY <2>1
  <2>2. CASE u \in UNION {{[token |-> t, shape |-> "text", bytes |-> v.bytes,
                             from |-> [family |-> f, worker |-> w, offset |-> o]] :
                                t \in Handles, v \in {x \in Values : x.shape = "text"},
                                o \in DOMAIN inst[w].payload[f]} :
                           f \in Family, w \in {x \in Worker : inst[x] # None}}
    <3>1. PICK f \in Family, w \in {x \in Worker : inst[x] # None} :
                u \in {[token |-> t, shape |-> "text", bytes |-> v.bytes,
                         from |-> [family |-> f, worker |-> w, offset |-> o]] :
                            t \in Handles, v \in {x \in Values : x.shape = "text"},
                            o \in DOMAIN inst[w].payload[f]}
      BY <2>2
    <3> QED BY <3>1
  <2> QED BY <2>1, <2>2 DEF Updates
<1> QED BY <1>2, <1>3, <1>4

(* Checking an update writes nothing; what is accepted has a known handle  *)
(* and fits its slot, and does not lie in the payload that is to be        *)
(* written.                                                                *)
LEMMA CheckUpdateStep ==
  ASSUME IInv, NEW u \in Updates, NEW isLast \in BOOLEAN, CheckUpdate(u, isLast)
  PROVE  IInv'
<1>1. /\ call.pc = "check" /\ InPayload(u)
      /\ plan' = plan /\ inst' = inst /\ issued' = issued /\ before' = before
  BY DEF CheckUpdate
<1>2. StatesInv'
  BY <1>1, StatesUnchanged DEF IInv
<1>3. /\ call \in CallType /\ Self # None /\ before \in PayloadType /\ call.code = "REFUSED"
      /\ \A k \in 1 .. Len(call.updates) : GoodUpdate(call.updates[k])
      /\ call.i = 1 /\ Self.payload = before
  BY <1>1 DEF IInv, CallInv
<1>4. call.updates \in Seq(Update) /\ Len(call.updates) \in Nat
  BY <1>3 DEF CallType
<1>5. CASE ~Accepted(u, Range(call.updates))
  <2>1. call' = [call EXCEPT !.pc = "returned"]
    BY <1>5 DEF CheckUpdate
  <2>2. /\ call' \in CallType /\ call'.pc = "returned" /\ call'.worker = call.worker
        /\ call'.code = "REFUSED"
    BY <1>3, <2>1 DEF CallType
  <2>3. Self' = Self
    BY <1>1, <2>2 DEF Self
  <2>4. CallInv'
    BY <1>1, <1>3, <2>2, <2>3 DEF CallInv
  <2> QED BY <1>2, <2>4 DEF IInv
<1>6. CASE Accepted(u, Range(call.updates))
  <2>1. call' = [call EXCEPT !.pc = IF isLast THEN "write" ELSE "check",
                             !.updates = Append(call.updates, u)]
    BY <1>6 DEF CheckUpdate
  <2>2. u \in Update
    BY UpdatesTyped DEF IInv
  <2>3. GoodUpdate(u)
    BY <1>1, <1>6, <2>2 DEF GoodUpdate, Accepted
  <2> DEFINE us == Append(call.updates, u)
  <2>4. /\ us \in Seq(Update) /\ Len(us) = Len(call.updates) + 1
        /\ \A k \in 1 .. Len(call.updates) : us[k] = call.updates[k]
        /\ us[Len(us)] = u
    BY <1>4, <2>2
  <2>5. \A k \in 1 .. Len(us) : GoodUpdate(us[k])
    BY <1>3, <1>4, <2>3, <2>4
  <2> HIDE DEF us
  <2>6. /\ call' \in CallType /\ call'.worker = call.worker /\ call'.code = "REFUSED"
        /\ call'.updates = us /\ call'.i = 1
        /\ call'.pc = IF isLast THEN "write" ELSE "check"
    BY <1>3, <2>1, <2>4 DEF CallType, us
  <2>7. Self' = Self
    BY <1>1, <2>6 DEF Self
  <2>8. \A k \in 1 .. Len(us) : GoodUpdate(call.updates[k])'
    <3> SUFFICES ASSUME NEW k \in 1 .. Len(us)
                 PROVE  GoodUpdate(call.updates[k])'
      OBVIOUS
    <3>1. PICK v : v = us[k]
      OBVIOUS
    <3>2. call'.updates[k] = v /\ GoodUpdate(v)
      BY <2>5, <2>6, <3>1
    <3>3. InPayload(call.updates[k])'
      BY <1>1, <3>2 DEF GoodUpdate, InPayload
    <3>4. Knows(call.updates[k].token)'
      BY <2>7, <3>2 DEF GoodUpdate, Knows
    <3>5. ~Aliases(call.updates[k])'
      BY <2>6, <3>2 DEF GoodUpdate, Aliases
    <3>6. SlotOf(call.updates[k])' = SlotOf(v)
      BY <2>7, <3>2 DEF SlotOf
    <3>7. TheBytes(call.updates[k])' = TheBytes(v)
      BY <1>1, <3>2 DEF TheBytes
    <3>8. Encoded(call.updates[k])' = Encoded(v)
      BY <3>6, <3>7 DEF Encoded
    <3>9. Fits(call.updates[k])'
      BY <3>2, <3>6, <3>8 DEF GoodUpdate, Fits
    <3> QED BY <3>2, <3>3, <3>4, <3>5, <3>9 DEF GoodUpdate
  <2>9. PatchedTo(0)'
    <3>1. \A f \in Family : Self'.payload[f] = before'[f]
      BY <1>1, <1>3, <2>7
    <3> QED BY <3>1 DEF PatchedTo
  <2>10. call'.i \in 1 .. Len(us) /\ call'.i - 1 = 0
    BY <1>4, <2>4, <2>6
  <2>11. PatchedTo(call.i - 1)'
    BY <2>9, <2>10
  <2>12. (Self # None)' /\ (before \in PayloadType)' /\ (Self.payload = before)'
    BY <1>1, <1>3, <2>7 DEF None
  <2>13. call'.pc \in {"check", "write"} /\ 1 .. Len(call'.updates) = 1 .. Len(us)
    BY <2>6
  <2>14. CallInv'
    BY <2>6, <2>8, <2>10, <2>11, <2>12, <2>13 DEF CallInv
  <2> QED BY <1>2, <2>14 DEF IInv
<1> QED BY <1>5, <1>6

-----------------------------------------------------------------------------
(* Overwriting inside a payload keeps its length, and changes the cells    *)
(* written and no others.                                                  *)
LEMMA OverwrittenFacts ==
  ASSUME NEW cells \in Seq(Cells), NEW bytes \in Seq(Cells), NEW offset \in Nat,
         offset + Len(bytes) <= Len(cells)
  PROVE  LET new == Overwritten(cells, offset, bytes)
         IN /\ new \in Seq(Cells) /\ Len(new) = Len(cells)
            /\ \A p \in 1 .. Len(cells) :
                    new[p] = IF p - offset \in 1 .. Len(bytes) THEN bytes[p - offset] ELSE cells[p]
<1> DEFINE new == Overwritten(cells, offset, bytes)
<1>1. new = [p \in 1 .. Len(cells) |->
                IF p - offset \in 1 .. Len(bytes) THEN bytes[p - offset] ELSE cells[p]]
  BY DEF Overwritten
<1>2. ASSUME NEW p \in 1 .. Len(cells)
      PROVE  (IF p - offset \in 1 .. Len(bytes) THEN bytes[p - offset] ELSE cells[p]) \in Cells
  BY SeqDomain
<1> QED BY <1>1, <1>2

(* An accepted update that lies in a payload lies in that of another       *)
(* worker or has no bytes, so that what is written leaves it as it was.    *)
LEMMA WriteKeepsUpdates ==
  ASSUME IInv, call'.worker = call.worker, NEW f \in Family, NEW cells \in Seq(Cells),
         Self # None, Len(cells) = Len(Self.payload[f]),
         inst' = [inst EXCEPT ![call.worker] = [Self EXCEPT !.payload[f] = cells]]
  PROVE  /\ Self' = [Self EXCEPT !.payload[f] = cells]
         /\ \A w \in Worker : w # call.worker => inst'[w] = inst[w]
         /\ inst' = [w \in Worker |-> inst'[w]]
         /\ \A v \in Update : GoodUpdate(v) =>
                /\ InPayload(v)' /\ Knows(v.token)' /\ ~Aliases(v)' /\ Fits(v)'
                /\ SlotOf(v)' = SlotOf(v) /\ Encoded(v)' = Encoded(v)
<1>1. call.worker \in Worker /\ GoodState(Self) /\ DOMAIN inst = Worker /\ StatesInv
  BY SelfFacts DEF IInv, CallInv, StatesInv
<1> DEFINE t == [Self EXCEPT !.payload[f] = cells]
<1>2. /\ GoodState(t) /\ t.id = Self.id /\ t.slots = Self.slots
      /\ t.payload[f] = cells /\ \A g \in Family : g # f => t.payload[g] = Self.payload[g]
  BY <1>1, PayloadReplaced
<1> HIDE DEF t
<1>3. inst' = [inst EXCEPT ![call.worker] = t]
  BY DEF t
<1>4. /\ Self' = t /\ inst'[call.worker] = t /\ inst' = [w \in Worker |-> inst'[w]]
      /\ \A w \in Worker : w # call.worker => inst'[w] = inst[w]
  BY <1>1, <1>3 DEF Self
<1>5. ASSUME NEW v \in Update, GoodUpdate(v)
      PROVE  /\ InPayload(v)' /\ Knows(v.token)' /\ ~Aliases(v)' /\ Fits(v)'
             /\ SlotOf(v)' = SlotOf(v) /\ Encoded(v)' = Encoded(v)
  <2>1. InPayload(v) /\ Knows(v.token) /\ ~Aliases(v) /\ Fits(v)
    BY <1>5 DEF GoodUpdate
  <2>2. v.bytes \in Seq(Cells) /\ Len(v.bytes) \in Nat
        /\ (v.from # Own => /\ v.from.family \in Family /\ v.from.worker \in Worker
                            /\ v.from.offset \in Nat)
    BY DEF Update
  <2>3. InPayload(v)' /\ TheBytes(v)' = TheBytes(v)
    <3>1. CASE v.from = Own
      BY <3>1 DEF InPayload, TheBytes
    <3>2. CASE v.from # Own /\ v.from.worker # call.worker
      <4>1. inst'[v.from.worker] = inst[v.from.worker]
        BY <1>4, <2>2, <3>2
      <4>2. InPayload(v)'
        BY <2>1, <3>2, <4>1 DEF InPayload
      <4>3. TheBytes(v) = SubSeq(inst[v.from.worker].payload[v.from.family],
                                 v.from.offset + 1, v.from.offset + Len(v.bytes))
        BY <3>2 DEF TheBytes
      <4>4. TheBytes(v)' = SubSeq(inst'[v.from.worker].payload[v.from.family],
                                  v.from.offset + 1, v.from.offset + Len(v.bytes))
        BY <3>2 DEF TheBytes
      <4> QED BY <4>1, <4>2, <4>3, <4>4
    <3>3. CASE v.from # Own /\ v.from.worker = call.worker
      <4> DEFINE old == inst[v.from.worker].payload[v.from.family]
                 new == inst'[v.from.worker].payload[v.from.family]
      <4>1. v.bytes = <<>> /\ Len(v.bytes) = 0
        BY <2>1, <3>3 DEF Aliases
      <4>2. old \in Seq(Cells) /\ new \in Seq(Cells) /\ Len(new) = Len(old)
        <5>1. Self.payload[v.from.family] \in Seq(Cells)
          BY <1>1, <2>2, <3>3, PayloadFacts DEF GoodState
        <5>2. t.payload[v.from.family] \in Seq(Cells)
          BY <1>2, <2>2, <3>3, PayloadFacts DEF GoodState
        <5>3. Len(t.payload[v.from.family]) = Len(Self.payload[v.from.family])
          BY <1>2, <2>2, <3>3
        <5>4. old = Self.payload[v.from.family] /\ new = t.payload[v.from.family]
          BY <1>4, <3>3 DEF Self
        <5> QED BY <5>1, <5>2, <5>3, <5>4
      <4>3. v.from.offset + Len(v.bytes) <= Len(old)
        BY <2>1, <3>3 DEF InPayload
      <4>4. inst'[v.from.worker] # None
        BY <1>2, <1>4, <3>3, NoneIsNoPlan
      <4> HIDE DEF old, new
      <4>5. \A s \in Seq(Cells), o \in Nat : SubSeq(s, o + 1, o + 0) = <<>>
        OBVIOUS
      <4>6. SubSeq(old, v.from.offset + 1, v.from.offset + Len(v.bytes)) = <<>>
            /\ SubSeq(new, v.from.offset + 1, v.from.offset + Len(v.bytes)) = <<>>
        BY <2>2, <3>3, <4>1, <4>2, <4>5
      <4>7. InPayload(v)'
        BY <4>2, <4>3, <4>4 DEF InPayload, old, new
      <4>8. TheBytes(v)' = TheBytes(v)
        BY <3>3, <4>6 DEF TheBytes, old, new
      <4> QED BY <4>7, <4>8
    <3> QED BY <3>1, <3>2, <3>3
  <2>4. SlotOf(v)' = SlotOf(v)
    BY <1>2, <1>4 DEF SlotOf
  <2>5. Encoded(v)' = Encoded(v)
    BY <2>3, <2>4 DEF Encoded
  <2>6. Fits(v)'
    BY <2>1, <2>4, <2>5 DEF Fits
  <2>7. Knows(v.token)' /\ ~Aliases(v)'
    BY <1>2, <1>4, <2>1 DEF Knows, Aliases
  <2> QED BY <2>3, <2>4, <2>5, <2>6, <2>7
<1> QED BY <1>4, <1>5 DEF t

(* What is written is the value of the update at its slot.                 *)
LEMMA WriteFacts ==
  ASSUME IInv, WriteUpdate
  PROVE  LET u == Current
             f == SlotOf(u).family
             cells == Overwritten(Self.payload[f], SlotOf(u).offset, Encoded(u))
         IN /\ u \in Update /\ GoodUpdate(u) /\ u = call.updates[call.i]
            /\ f \in Family /\ cells \in Seq(Cells) /\ Len(cells) = Len(Self.payload[f])
            /\ \A p \in 1 .. Len(Self.payload[f]) :
                    cells[p] = IF p - SlotOf(u).offset \in 1 .. SlotOf(u).width
                               THEN Encoded(u)[p - SlotOf(u).offset] ELSE Self.payload[f][p]
            /\ Self # None /\ before \in PayloadType /\ call.updates \in Seq(Update)
            /\ call.i \in 1 .. Len(call.updates) /\ PatchedTo(call.i - 1)
            /\ \A k \in 1 .. Len(call.updates) : GoodUpdate(call.updates[k])
            /\ inst' = [inst EXCEPT ![call.worker] = [Self EXCEPT !.payload[f] = cells]]
            /\ plan' = plan /\ issued' = issued /\ before' = before
            /\ call' = IF call.i < Len(call.updates) THEN [call EXCEPT !.i = call.i + 1]
                       ELSE [call EXCEPT !.pc = "returned", !.code = "NONE"]
<1> DEFINE u == Current
           f == SlotOf(u).family
           o == SlotOf(u).offset
           cells == Overwritten(Self.payload[f], o, Encoded(u))
<1>1. /\ call.pc = "write" /\ plan' = plan /\ issued' = issued /\ before' = before
      /\ call' = IF call.i < Len(call.updates) THEN [call EXCEPT !.i = call.i + 1]
                 ELSE [call EXCEPT !.pc = "returned", !.code = "NONE"]
      /\ inst' = [inst EXCEPT ![call.worker].payload[f] = Overwritten(@, o, Encoded(u))]
  BY DEF WriteUpdate
<1>2. /\ call \in CallType /\ Self # None /\ before \in PayloadType
      /\ call.i \in 1 .. Len(call.updates) /\ PatchedTo(call.i - 1)
      /\ \A k \in 1 .. Len(call.updates) : GoodUpdate(call.updates[k])
  BY <1>1 DEF IInv, CallInv
<1>3. call.updates \in Seq(Update)
  BY <1>2 DEF CallType
<1>4. u \in Update /\ GoodUpdate(u) /\ u = call.updates[call.i]
  BY <1>2, <1>3 DEF Current
<1>5. StatesInv /\ GoodState(Self) /\ call.worker \in Worker /\ DOMAIN inst = Worker
  BY <1>2, SelfFacts DEF IInv, StatesInv
<1>6. Encoded(u) \in Seq(Cells) /\ Len(Encoded(u)) = SlotOf(u).width /\ Knows(u.token)
  BY <1>4, <1>5, EncodedFacts DEF GoodUpdate, Fits
<1>7. f \in Family /\ o \in Nat /\ SlotOf(u).width \in Nat
      /\ o + SlotOf(u).width <= Len(Self.payload[f])
  BY <1>5, <1>6, KnownSlot
<1>8. Self.payload[f] \in Seq(Cells)
  BY <1>5, <1>7, PayloadFacts DEF GoodState
<1>9. inst' = [inst EXCEPT ![call.worker] = [Self EXCEPT !.payload[f] = cells]]
  BY <1>1, <1>5 DEF Self
<1> HIDE DEF u, f, o
<1>10. /\ cells \in Seq(Cells) /\ Len(cells) = Len(Self.payload[f])
       /\ \A p \in 1 .. Len(Self.payload[f]) :
              cells[p] = IF p - o \in 1 .. SlotOf(u).width
                         THEN Encoded(u)[p - o] ELSE Self.payload[f][p]
  BY <1>6, <1>7, <1>8, OverwrittenFacts
<1> HIDE DEF cells
<1> QED BY <1>1, <1>2, <1>3, <1>4, <1>7, <1>9, <1>10 DEF u, f, o, cells

(* After a write the payload is what the updates up to it leave.           *)
LEMMA WriteUpdateStep ==
  ASSUME IInv, WriteUpdate
  PROVE  IInv'
<1> DEFINE u == Current
           f == SlotOf(u).family
           o == SlotOf(u).offset
           w == SlotOf(u).width
           cells == Overwritten(Self.payload[f], o, Encoded(u))
<1>1. /\ u \in Update /\ GoodUpdate(u) /\ u = call.updates[call.i]
      /\ f \in Family /\ cells \in Seq(Cells) /\ Len(cells) = Len(Self.payload[f])
      /\ \A p \in 1 .. Len(Self.payload[f]) :
              cells[p] = IF p - o \in 1 .. w THEN Encoded(u)[p - o] ELSE Self.payload[f][p]
  BY WriteFacts
<1>2. /\ Self # None /\ before \in PayloadType /\ call.updates \in Seq(Update)
      /\ call.i \in 1 .. Len(call.updates) /\ PatchedTo(call.i - 1)
      /\ \A k \in 1 .. Len(call.updates) : GoodUpdate(call.updates[k])
  BY WriteFacts
<1>3. /\ inst' = [inst EXCEPT ![call.worker] = [Self EXCEPT !.payload[f] = cells]]
      /\ plan' = plan /\ issued' = issued /\ before' = before
      /\ call' = IF call.i < Len(call.updates) THEN [call EXCEPT !.i = call.i + 1]
                 ELSE [call EXCEPT !.pc = "returned", !.code = "NONE"]
  BY WriteFacts
<1>4. call \in CallType /\ call.pc = "write" /\ call.code = "REFUSED" /\ StatesInv
  BY DEF IInv, CallInv, WriteUpdate
<1>5. /\ call' \in CallType /\ call'.worker = call.worker /\ call'.updates = call.updates
      /\ \/ /\ call'.pc = "write" /\ call'.code = "REFUSED" /\ call'.i = call.i + 1
            /\ call.i < Len(call.updates)
         \/ /\ call'.pc = "returned" /\ call'.code = "NONE"
            /\ call.i = Len(call.updates)
  <2>1. call.i \in Nat /\ Len(call.updates) \in Nat /\ call.i + 1 \in Nat \ {0}
        /\ call.i <= Len(call.updates)
    BY <1>2
  <2>2. CASE call.i < Len(call.updates)
    <3>1. call' = [call EXCEPT !.i = call.i + 1]
      BY <1>3, <2>2
    <3> QED BY <1>4, <2>1, <2>2, <3>1 DEF CallType
  <2>3. CASE ~(call.i < Len(call.updates))
    <3>1. call' = [call EXCEPT !.pc = "returned", !.code = "NONE"]
      BY <1>3, <2>3
    <3>2. call.i = Len(call.updates)
      BY <2>1, <2>3
    <3> QED BY <1>4, <3>1, <3>2 DEF CallType
  <2> QED BY <2>2, <2>3
<1> HIDE DEF u, f, o, w, cells
<1>6. /\ Self' = [Self EXCEPT !.payload[f] = cells]
      /\ \A x \in Worker : x # call.worker => inst'[x] = inst[x]
      /\ inst' = [x \in Worker |-> inst'[x]]
      /\ \A v \in Update : GoodUpdate(v) =>
             /\ InPayload(v)' /\ Knows(v.token)' /\ ~Aliases(v)' /\ Fits(v)'
             /\ SlotOf(v)' = SlotOf(v) /\ Encoded(v)' = Encoded(v)
  BY <1>1, <1>2, <1>3, <1>5, WriteKeepsUpdates
<1>7. GoodState(Self) /\ Issued(Self) /\ call.worker \in Worker
  BY <1>2, <1>4, SelfFacts
<1>8. /\ GoodState(Self') /\ Self'.id = Self.id /\ Self'.slots = Self.slots
      /\ Self'.gen = Self.gen /\ Self'.payload[f] = cells
      /\ \A g \in Family : g # f => Self'.payload[g] = Self.payload[g]
  BY <1>1, <1>6, <1>7, PayloadReplaced
<1>9. StatesInv'
  <2>1. (plan # None => GoodState(plan) /\ Issued(plan))'
    BY <1>3, <1>4 DEF StatesInv, GoodState, PlanRecord, Issued
  <2>2. ASSUME NEW x \in Worker, inst'[x] # None
        PROVE  GoodState(inst'[x]) /\ Issued(inst'[x])
    <3>1. CASE x = call.worker
      <4>1. inst'[x] = Self'
        BY <1>5, <3>1 DEF Self
      <4> QED BY <1>7, <1>8, <4>1 DEF Issued
    <3>2. CASE x # call.worker
      BY <1>4, <1>6, <2>2, <3>2 DEF StatesInv
    <3> QED BY <3>1, <3>2
  <2>3. \A x \in Worker : inst'[x] # None => GoodState(inst[x])' /\ Issued(inst[x])'
    BY <1>3, <2>2 DEF GoodState, PlanRecord, Issued
  <2> QED BY <1>6, <2>1, <2>3 DEF StatesInv
<1>10. ASSUME NEW k \in 1 .. Len(call.updates)
       PROVE  /\ GoodUpdate(call.updates[k])' /\ SlotOf(call.updates[k])' = SlotOf(call.updates[k])
              /\ Encoded(call.updates[k])' = Encoded(call.updates[k])
  <2>1. PICK v : v = call.updates[k]
    OBVIOUS
  <2>2. v \in Update /\ GoodUpdate(v) /\ v = call'.updates[k]
    BY <1>2, <1>5, <2>1
  <2>3. /\ InPayload(v)' /\ Knows(v.token)' /\ ~Aliases(v)' /\ Fits(v)'
        /\ SlotOf(v)' = SlotOf(v) /\ Encoded(v)' = Encoded(v)
    BY <1>6, <2>2
  <2>4. GoodUpdate(call.updates[k])'
    BY <2>2, <2>3 DEF GoodUpdate, InPayload, Knows, Aliases, Fits, SlotOf, Encoded, TheBytes
  <2>5. SlotOf(call.updates[k])' = SlotOf(call.updates[k])
    BY <2>1, <2>2, <2>3 DEF SlotOf
  <2>6. Encoded(call.updates[k])' = Encoded(call.updates[k])
    BY <2>1, <2>2, <2>3 DEF Encoded, TheBytes, SlotOf
  <2> QED BY <2>4, <2>5, <2>6
<1>11. \A k \in 1 .. Len(call.updates), g \in Family, p \in Int :
            Covers(call.updates[k], g, p)' <=> Covers(call.updates[k], g, p)
  BY <1>10 DEF Covers
<1>12. PICK n : n = call.i
  OBVIOUS
<1>13. n \in 1 .. Len(call.updates) /\ n \in Nat /\ Len(call.updates) \in Nat
       /\ call.updates[n] = u
  BY <1>1, <1>2, <1>12
<1>14. ASSUME NEW g \in Family
       PROVE  Len(Self'.payload[g]) = Len(before[g]) /\ Len(before[g]) \in Nat
              /\ Len(Self.payload[g]) = Len(before[g])
  BY <1>1, <1>2, <1>8, PayloadFacts DEF PatchedTo
<1>15. ASSUME NEW g \in Family, NEW p \in 1 .. Len(before[g])
       PROVE  \/ /\ \A k \in 1 .. n : ~Covers(call.updates[k], g, p)
                 /\ Self'.payload[g][p] = before[g][p]
              \/ \E k \in 1 .. n :
                  /\ Covers(call.updates[k], g, p)
                  /\ \A l \in k + 1 .. n : ~Covers(call.updates[l], g, p)
                  /\ Self'.payload[g][p] =
                          Encoded(call.updates[k])[p - SlotOf(call.updates[k]).offset]
  <2>1. p \in 1 .. Len(Self.payload[g]) /\ p \in Int
    BY <1>14
  <2>2. CASE Covers(u, g, p)
    <3>1. g = f /\ p - o \in 1 .. w
      BY <2>2 DEF Covers, f, o, w
    <3>2. Self'.payload[g][p] = Encoded(u)[p - o]
      BY <1>1, <1>8, <2>1, <3>1
    <3>3. n \in 1 .. n /\ \A l \in n + 1 .. n : ~Covers(call.updates[l], g, p)
      BY <1>13
    <3> QED BY <1>13, <2>2, <3>2, <3>3 DEF o
  <2>3. CASE ~Covers(u, g, p)
    <3>1. Self'.payload[g][p] = Self.payload[g][p]
      <4>1. CASE g # f
        BY <1>8, <4>1
      <4>2. CASE g = f
        <5>1. ~(p - o \in 1 .. w)
          BY <2>3, <4>2 DEF Covers, f, o, w
        <5> QED BY <1>1, <1>8, <2>1, <4>2, <5>1
      <4> QED BY <4>1, <4>2
    <3>2. \A k \in 1 .. n : k = n \/ k \in 1 .. n - 1
      BY <1>13
    <3>3. \A k \in 1 .. n - 1 : k \in 1 .. n
      BY <1>13
    <3>4. \/ /\ \A k \in 1 .. n - 1 : ~Covers(call.updates[k], g, p)
             /\ Self.payload[g][p] = before[g][p]
          \/ \E k \in 1 .. n - 1 :
              /\ Covers(call.updates[k], g, p)
              /\ \A l \in k + 1 .. n - 1 : ~Covers(call.updates[l], g, p)
              /\ Self.payload[g][p] =
                      Encoded(call.updates[k])[p - SlotOf(call.updates[k]).offset]
      BY <1>2, <1>12 DEF PatchedTo
    <3>5. CASE /\ \A k \in 1 .. n - 1 : ~Covers(call.updates[k], g, p)
               /\ Self.payload[g][p] = before[g][p]
      BY <1>13, <2>3, <3>1, <3>2, <3>5
    <3>6. ASSUME NEW k \in 1 .. n - 1,
                 /\ Covers(call.updates[k], g, p)
                 /\ \A l \in k + 1 .. n - 1 : ~Covers(call.updates[l], g, p)
                 /\ Self.payload[g][p] =
                         Encoded(call.updates[k])[p - SlotOf(call.updates[k]).offset]
          PROVE  \A l \in k + 1 .. n : ~Covers(call.updates[l], g, p)
      <4>1. \A l \in k + 1 .. n : l = n \/ l \in k + 1 .. n - 1
        BY <1>13
      <4> QED BY <1>13, <2>3, <3>6, <4>1
    <3> QED BY <3>1, <3>3, <3>4, <3>5, <3>6
  <2> QED BY <2>2, <2>3
<1>16. PatchedTo(n)'
  <2>1. ASSUME NEW g \in Family, NEW p \in 1 .. Len(before'[g])
        PROVE  \/ /\ \A k \in 1 .. n : ~Covers(call.updates[k], g, p)'
                  /\ Self'.payload[g][p] = before'[g][p]
               \/ \E k \in 1 .. n :
                   /\ Covers(call.updates[k], g, p)'
                   /\ \A l \in k + 1 .. n : ~Covers(call.updates[l], g, p)'
                   /\ Self'.payload[g][p] =
                           (Encoded(call.updates[k])')[p - (SlotOf(call.updates[k])').offset]
    <3>1. p \in 1 .. Len(before[g]) /\ p \in Int
      BY <1>3, <1>14, <2>1
    <3>2. \A k \in 1 .. n : k \in 1 .. Len(call.updates)
      BY <1>13
    <3>3. \A k \in 1 .. n : \A l \in k + 1 .. n : l \in 1 .. Len(call.updates)
      BY <1>13
    <3>4. CASE /\ \A k \in 1 .. n : ~Covers(call.updates[k], g, p)
               /\ Self'.payload[g][p] = before[g][p]
      BY <1>3, <1>11, <3>1, <3>2, <3>4
    <3>5. CASE \E k \in 1 .. n :
                  /\ Covers(call.updates[k], g, p)
                  /\ \A l \in k + 1 .. n : ~Covers(call.updates[l], g, p)
                  /\ Self'.payload[g][p] =
                          Encoded(call.updates[k])[p - SlotOf(call.updates[k]).offset]
      <4>1. PICK k \in 1 .. n :
                  /\ Covers(call.updates[k], g, p)
                  /\ \A l \in k + 1 .. n : ~Covers(call.updates[l], g, p)
                  /\ Self'.payload[g][p] =
                          Encoded(call.updates[k])[p - SlotOf(call.updates[k]).offset]
        BY <3>5
      <4>2. Covers(call.updates[k], g, p)'
        BY <1>11, <3>1, <3>2, <4>1
      <4>3. \A l \in k + 1 .. n : ~Covers(call.updates[l], g, p)'
        BY <1>11, <3>1, <3>3, <4>1
      <4>4. Self'.payload[g][p] = (Encoded(call.updates[k])')[p - (SlotOf(call.updates[k])').offset]
        BY <1>10, <3>2, <4>1
      <4> QED BY <4>2, <4>3, <4>4
    <3> QED BY <1>15, <3>1, <3>4, <3>5
  <2>2. \A g \in Family : Len(Self'.payload[g]) = Len(before'[g])
    BY <1>3, <1>14
  <2> QED BY <2>1, <2>2 DEF PatchedTo
<1>17. (Self # None)' /\ (before \in PayloadType)'
  <2>1. Self' # None
    BY <1>8, NoneIsNoPlan
  <2> QED BY <1>2, <1>3, <2>1 DEF None, PayloadType
<1>18. \A k \in 1 .. Len(call'.updates) : GoodUpdate(call.updates[k])'
  BY <1>5, <1>10
<1>19. CASE call'.pc = "write"
  <2>1. /\ call'.code = "REFUSED" /\ call'.i = n + 1 /\ call'.i \in 1 .. Len(call'.updates)
        /\ call'.i - 1 = n
    BY <1>5, <1>12, <1>13, <1>19
  <2>2. PatchedTo(call.i - 1)'
    BY <1>16, <2>1
  <2> QED BY <1>5, <1>9, <1>17, <1>18, <1>19, <2>1, <2>2 DEF IInv, CallInv
<1>20. CASE call'.pc = "returned"
  <2>1. call'.code = "NONE" /\ Len(call'.updates) = n
    BY <1>5, <1>12, <1>20
  <2>2. PatchedTo(Len(call.updates))'
    BY <1>16, <2>1
  <2> QED BY <1>5, <1>9, <1>17, <1>18, <1>20, <2>1, <2>2 DEF IInv, CallInv
<1> QED BY <1>5, <1>19, <1>20

(* Every step keeps the invariant.                                         *)
LEMMA NextInv == IInv /\ [Next]_vars => IInv'
<1> SUFFICES ASSUME IInv, [Next]_vars PROVE IInv'
  OBVIOUS
<1>1. CASE UNCHANGED vars
  <2>1. plan' = plan /\ inst' = inst /\ call' = call /\ issued' = issued /\ before' = before
    BY <1>1 DEF vars
  <2>2. StatesInv'
    BY <2>1, StatesUnchanged DEF IInv
  <2>3. Self' = Self
    BY <2>1 DEF Self
  <2>4. \A k : GoodUpdate(call.updates[k]) => GoodUpdate(call.updates[k])'
    BY <2>1, <2>3 DEF GoodUpdate, InPayload, Knows, Aliases, Fits, SlotOf, Encoded, TheBytes
  <2>5. \A n : PatchedTo(n) => PatchedTo(n)'
    <3> SUFFICES ASSUME NEW n, PatchedTo(n) PROVE PatchedTo(n)'
      OBVIOUS
    <3>1. \A k : SlotOf(call.updates[k])' = SlotOf(call.updates[k])
      BY <2>1, <2>3 DEF SlotOf
    <3>2. \A k : Encoded(call.updates[k])' = Encoded(call.updates[k])
      BY <2>1, <3>1 DEF Encoded, TheBytes
    <3>3. \A k, f, p : Covers(call.updates[k], f, p)' <=> Covers(call.updates[k], f, p)
      BY <3>1 DEF Covers
    <3>4. ASSUME NEW f \in Family, NEW p \in 1 .. Len(before'[f])
          PROVE  \/ /\ \A k \in 1 .. n : ~Covers(call.updates[k], f, p)'
                    /\ Self'.payload[f][p] = before'[f][p]
                 \/ \E k \in 1 .. n :
                     /\ Covers(call.updates[k], f, p)'
                     /\ \A l \in k + 1 .. n : ~Covers(call.updates[l], f, p)'
                     /\ Self'.payload[f][p] =
                             (Encoded(call.updates[k])')[p - (SlotOf(call.updates[k])').offset]
      <4>1. p \in 1 .. Len(before[f])
        BY <2>1
      <4>2. CASE /\ \A k \in 1 .. n : ~Covers(call.updates[k], f, p)
                 /\ Self.payload[f][p] = before[f][p]
        BY <2>1, <2>3, <3>3, <4>2
      <4>3. CASE \E k \in 1 .. n :
                    /\ Covers(call.updates[k], f, p)
                    /\ \A l \in k + 1 .. n : ~Covers(call.updates[l], f, p)
                    /\ Self.payload[f][p] =
                            Encoded(call.updates[k])[p - SlotOf(call.updates[k]).offset]
        <5>1. PICK k \in 1 .. n :
                    /\ Covers(call.updates[k], f, p)
                    /\ \A l \in k + 1 .. n : ~Covers(call.updates[l], f, p)
                    /\ Self.payload[f][p] =
                            Encoded(call.updates[k])[p - SlotOf(call.updates[k]).offset]
          BY <4>3
        <5>2. Self'.payload[f][p] = (Encoded(call.updates[k])')[p - (SlotOf(call.updates[k])').offset]
          BY <2>3, <3>1, <3>2, <5>1
        <5> QED BY <3>3, <5>1, <5>2
      <4> QED BY <4>1, <4>2, <4>3 DEF PatchedTo
    <3>5. \A f \in Family : Len(Self'.payload[f]) = Len(before'[f])
      BY <2>1, <2>3 DEF PatchedTo
    <3> QED BY <3>4, <3>5 DEF PatchedTo
  <2>6. CallInv'
    BY <2>1, <2>3, <2>4, <2>5 DEF IInv, CallInv
  <2> QED BY <2>2, <2>6 DEF IInv
<1>2. ASSUME NEW st \in Stores, NEW rs \in TupleOf(Requests, 1) \cup TupleOf(Requests, 2),
             NEW id \in PlanId, Prepare(st, rs, id)
      PROVE  IInv'
  BY <1>2, PrepareStep
<1>3. CASE ResetPlan
  BY <1>3, ResetPlanStep
<1>4. ASSUME NEW w \in Worker, CreateInstance(w) \/ ResetInstance(w)
      PROVE  IInv'
  BY <1>4, InstanceStep
<1>5. ASSUME NEW w \in Worker, BeginApply(w)
      PROVE  IInv'
  BY <1>5, BeginApplyStep
<1>6. ASSUME NEW u \in Updates, NEW isLast \in BOOLEAN, CheckUpdate(u, isLast)
      PROVE  IInv'
  BY <1>6, CheckUpdateStep
<1>7. CASE WriteUpdate
  BY <1>7, WriteUpdateStep
<1>8. CASE Return
  BY <1>8, ReturnStep
<1> QED BY <1>1, <1>2, <1>3, <1>4, <1>5, <1>6, <1>7, <1>8 DEF Next

(* The inductive invariant holds in every state.                           *)
THEOREM Inductive == Spec => []IInv
  BY InitInv, NextInv, PTL DEF Spec

(* Whatever is prepared, copied, reset and applied, and whatever runs out  *)
(* of memory, plans and instances keep a nonzero id, and every slot lies   *)
(* inside the payload it belongs to: apply, which copies to the offset of  *)
(* a slot unchecked (omc_metadata_patch_apply), writes inside it.          *)
THEOREM TypeCorrect == Spec => []TypeOK
<1>1. IInv => TypeOK
  <2> SUFFICES ASSUME IInv PROVE TypeOK
    OBVIOUS
  <2>1. call \in CallType /\ inst = [w \in Worker |-> inst[w]]
    BY DEF IInv, CallInv, StatesInv
  <2>2. ASSUME NEW s, s # None => GoodState(s)
        PROVE  IsState(s)
    BY <2>2, PayloadFacts DEF IsState, GoodState
  <2>3. \A s \in {plan} \cup Range(inst) : s # None => GoodState(s)
    <3>1. \A s \in Range(inst) : \E w \in Worker : s = inst[w]
      BY <2>1 DEF Range
    <3> QED BY <3>1 DEF IInv, StatesInv
  <2>4. IsState(plan) /\ \A w \in Worker : IsState(inst[w])
    BY <2>2 DEF IInv, StatesInv
  <2>5. SlotsFit
    BY <2>3, SlotFacts DEF SlotsFit
  <2>6. call.pc = "write" => call.i \in DOMAIN call.updates
    <3>1. DOMAIN call.updates = 1 .. Len(call.updates)
      BY <2>1 DEF CallType
    <3> QED BY <3>1 DEF IInv, CallInv
  <2> QED BY <2>1, <2>4, <2>5, <2>6 DEF TypeOK, CallType
<1> QED BY <1>1, Inductive, PTL

(* A batch applies as a whole or not at all, and leaves what its values,   *)
(* read when apply was called, ought to leave, though values may lie in    *)
(* the payloads of instances: for any stores, requests, values and         *)
(* workers, and batches of any length.                                     *)
THEOREM WholeBatches == Spec => []BatchIsWhole
<1>1. ASSUME IInv, NEW u \in Update, GoodUpdate(u)
      PROVE  BytesAtCall(u) = TheBytes(u)
  <2> SUFFICES ASSUME u.from # Own, u.from.worker = call.worker
               PROVE  BytesAtCall(u) = TheBytes(u)
    BY DEF BytesAtCall
  <2> DEFINE n == u.from.offset + Len(u.bytes)
  <2>1. u.bytes = <<>> /\ Len(u.bytes) = 0
    BY <1>1 DEF GoodUpdate, Aliases
  <2>2. u.from.offset \in Nat
    BY DEF Update
  <2>3. \A s : SubSeq(s, u.from.offset + 1, u.from.offset + 0) = <<>>
    BY <2>2
  <2> QED BY <2>1, <2>3 DEF BytesAtCall, TheBytes
<1>2. ASSUME IInv, call.pc = "returned", call.code = "NONE"
      PROVE  PatchedBy(call.updates, Self.payload)
  <2> DEFINE us == call.updates
  <2>1. /\ \A k \in 1 .. Len(us) : GoodUpdate(us[k])
        /\ PatchedTo(Len(us)) /\ before \in PayloadType
        /\ us \in Seq(Update)
    BY <1>2 DEF IInv, CallInv, CallType
  <2>2. DOMAIN us = 1 .. Len(us) /\ Len(us) \in Nat /\ \A k \in 1 .. Len(us) : us[k] \in Update
    BY <2>1
  <2>3. \A f \in Family : Len(Self.payload[f]) = Len(before[f])
            /\ DOMAIN before[f] = 1 .. Len(before[f])
    BY <2>1, PayloadFacts DEF PatchedTo
  <2> HIDE DEF us
  <2>4. ASSUME NEW f \in Family, NEW p \in DOMAIN before[f]
        PROVE  LET covering == {k \in DOMAIN us : Covers(us[k], f, p)}
               IN IF covering = {} THEN Self.payload[f][p] = before[f][p]
                  ELSE LET k == CHOOSE j \in covering : \A l \in covering : l <= j
                           value == BytesAtCall(us[k])
                           cells == IF f = "XMP" THEN Escaped(value) ELSE value
                       IN /\ Len(cells) = SlotOf(us[k]).width
                          /\ Self.payload[f][p] = cells[p - SlotOf(us[k]).offset]
    <3> DEFINE covering == {k \in DOMAIN us : Covers(us[k], f, p)}
    <3>1. \/ /\ \A k \in 1 .. Len(us) : ~Covers(us[k], f, p)
             /\ Self.payload[f][p] = before[f][p]
          \/ \E k \in 1 .. Len(us) :
              /\ Covers(us[k], f, p)
              /\ \A l \in k + 1 .. Len(us) : ~Covers(us[l], f, p)
              /\ Self.payload[f][p] = Encoded(us[k])[p - SlotOf(us[k]).offset]
      BY <2>1, <2>3 DEF PatchedTo, us
    <3>2. CASE \A k \in 1 .. Len(us) : ~Covers(us[k], f, p)
      <4>1. covering = {}
        BY <2>2, <3>2
      <4> QED BY <2>2, <3>1, <3>2, <4>1
    <3>3. ASSUME NEW k \in 1 .. Len(us), Covers(us[k], f, p),
                 \A l \in k + 1 .. Len(us) : ~Covers(us[l], f, p),
                 Self.payload[f][p] = Encoded(us[k])[p - SlotOf(us[k]).offset]
          PROVE  /\ covering # {} /\ k = CHOOSE j \in covering : \A l \in covering : l <= j
                 /\ LET value == BytesAtCall(us[k])
                        cells == IF f = "XMP" THEN Escaped(value) ELSE value
                    IN /\ Len(cells) = SlotOf(us[k]).width
                       /\ Self.payload[f][p] = cells[p - SlotOf(us[k]).offset]
      <4>1. k \in covering /\ \A l \in covering : l <= k
        BY <2>2, <3>3
      <4>2. \A j \in covering : (\A l \in covering : l <= j) => j = k
        BY <2>2, <4>1
      <4> HIDE DEF covering
      <4>3. k = CHOOSE j \in covering : \A l \in covering : l <= j
        BY <4>1, <4>2
      <4>4. us[k] \in Update /\ GoodUpdate(us[k])
        BY <2>1, <2>2 DEF us
      <4>5. BytesAtCall(us[k]) = TheBytes(us[k])
        BY <1>1, <1>2, <4>4
      <4>6. SlotOf(us[k]).family = f /\ Len(Encoded(us[k])) = SlotOf(us[k]).width
        BY <3>3, <4>4 DEF Covers, GoodUpdate, Fits
      <4> QED BY <3>3, <4>1, <4>3, <4>5, <4>6 DEF Encoded
    <3> QED BY <3>1, <3>2, <3>3
  <2> QED BY <2>3, <2>4 DEF PatchedBy, Covers, us
<1>3. IInv => BatchIsWhole
  BY <1>2 DEF BatchIsWhole, IInv, CallInv
<1> QED BY <1>3, Inductive, PTL

(* What is written goes by handles of the plan its instance was copied     *)
(* from: those of earlier plans, and of plans of other ids, are refused.   *)
THEOREM ForeignRefused == Spec => []ForeignHandlesRefused
<1>1. IInv => ForeignHandlesRefused
  <2> SUFFICES ASSUME IInv, call.pc = "write", NEW k \in DOMAIN call.updates
               PROVE  \E p \in issued :
                        /\ p.gen = Self.gen /\ PlanIdOf(call.updates[k].token) = p.id
                        /\ IndexOf(call.updates[k].token) \in 1 .. p.count
    BY DEF ForeignHandlesRefused
  <2>1. /\ call \in CallType /\ Self # None /\ StatesInv
        /\ \A l \in 1 .. Len(call.updates) : GoodUpdate(call.updates[l])
    BY DEF IInv, CallInv
  <2>2. DOMAIN call.updates = 1 .. Len(call.updates)
    BY <2>1 DEF CallType
  <2>3. GoodState(Self) /\ Issued(Self)
    BY <2>1, SelfFacts
  <2>4. Knows(call.updates[k].token)
    BY <2>1, <2>2 DEF GoodUpdate
  <2>5. DOMAIN Self.slots = 1 .. Len(Self.slots)
    BY <2>3 DEF GoodState
  <2> QED BY <2>3, <2>4, <2>5 DEF Issued, Knows
<1> QED BY <1>1, Inductive, PTL

-----------------------------------------------------------------------------
(* The EXIF serialiser's order: every live entry of an EXIF key is there,  *)
(* and the entries of one key stand in the order of the store, hence once. *)
OrderedBy(st, order) ==
    \A a, b \in 1 .. Len(order) :
        a < b /\ st[order[a]].key = st[order[b]].key => order[a] < order[b]

(* One more tag appends its entries in the order of the store.             *)
LEMMA OrderGrows ==
  ASSUME NEW st \in Stores, NEW k \in ExifKey, NEW s \in Seq(ExifLive(st)),
         OrderedBy(st, s), \A a \in 1 .. Len(s) : st[s[a]].key # k
  PROVE  LET t == s \o Ascending(Live(st, k))
         IN /\ OrderedBy(st, t)
            /\ \A i \in Live(st, k) : \E a \in 1 .. Len(t) : t[a] = i
            /\ \A a \in 1 .. Len(t) : (a \in 1 .. Len(s) /\ t[a] = s[a]) \/ st[t[a]].key = k
            /\ \A a \in 1 .. Len(s) : a \in 1 .. Len(t) /\ t[a] = s[a]
<1> DEFINE live == Live(st, k)
           run == Ascending(live)
           n == Cardinality(live)
           t == s \o run
<1>1. /\ run \in Seq(live) /\ Len(run) = n /\ n \in Nat
      /\ \A m \in live : \E a \in 1 .. n : run[a] = m
      /\ \A a, b \in 1 .. n : a < b => run[a] < run[b]
  BY LiveFacts, AscendingIsSorted
<1>2. \A i \in live : st[i].key = k
  BY LiveFacts
<1> HIDE DEF n, run, live
<1>3. Len(s) \in Nat
  OBVIOUS
<1>4. /\ Len(t) = Len(s) + n
      /\ \A a \in 1 .. Len(s) : t[a] = s[a]
      /\ \A a \in 1 .. n : t[Len(s) + a] = run[a]
      /\ \A a \in 1 .. n : run[a] \in live
  BY <1>1
<1> HIDE DEF t
<1>5. \A a \in 1 .. Len(t) : \/ a \in 1 .. Len(s) /\ t[a] = s[a]
                            \/ \E b \in 1 .. n : a = Len(s) + b /\ t[a] = run[b]
  <2> SUFFICES ASSUME NEW a \in 1 .. Len(t), a > Len(s)
               PROVE  \E b \in 1 .. n : a = Len(s) + b /\ t[a] = run[b]
    BY <1>3, <1>4
  <2>1. a - Len(s) \in 1 .. n /\ a = Len(s) + (a - Len(s))
    BY <1>1, <1>3, <1>4
  <2> QED BY <1>4, <2>1
<1>6. \A a \in 1 .. Len(t) : (a \in 1 .. Len(s) /\ t[a] = s[a]) \/ st[t[a]].key = k
  BY <1>2, <1>4, <1>5
<1>7. \A i \in live : \E a \in 1 .. Len(t) : t[a] = i
  <2> SUFFICES ASSUME NEW i \in live PROVE \E a \in 1 .. Len(t) : t[a] = i
    OBVIOUS
  <2>1. PICK b \in 1 .. n : run[b] = i
    BY <1>1
  <2>2. Len(s) + b \in 1 .. Len(t)
    BY <1>1, <1>3, <1>4
  <2> QED BY <1>4, <2>1, <2>2
<1>8. OrderedBy(st, t)
  <2> SUFFICES ASSUME NEW a \in 1 .. Len(t), NEW b \in 1 .. Len(t), a < b,
                      st[t[a]].key = st[t[b]].key
               PROVE  t[a] < t[b]
    BY DEF OrderedBy
  <2>1. CASE b \in 1 .. Len(s)
    <3>1. a \in 1 .. Len(s)
      BY <1>3, <2>1
    <3> QED BY <1>4, <2>1, <3>1 DEF OrderedBy
  <2>2. CASE b \notin 1 .. Len(s)
    <3>1. PICK d \in 1 .. n : b = Len(s) + d /\ t[b] = run[d]
      BY <1>5, <2>2
    <3>2. st[t[a]].key = k
      BY <1>2, <1>4, <3>1
    <3>3. PICK c \in 1 .. n : a = Len(s) + c /\ t[a] = run[c]
      BY <1>5, <3>2
    <3>4. c < d
      BY <1>1, <1>3, <3>1, <3>3
    <3> QED BY <1>1, <3>1, <3>3, <3>4
  <2> QED BY <2>1, <2>2
<1>9. \A a \in 1 .. Len(s) : a \in 1 .. Len(t) /\ t[a] = s[a]
  BY <1>1, <1>3, <1>4
<1> QED BY <1>6, <1>7, <1>8, <1>9 DEF t, run, live

(* By induction over the tags: every live entry is written, and those of   *)
(* one key in order.                                                       *)
LEMMA ExifOrderFacts ==
  ASSUME NEW st \in Stores
  PROVE  /\ OrderedBy(st, ExifOrder(st))
         /\ \A k \in ExifKey : \A i \in Live(st, k) :
                \E a \in 1 .. Len(ExifOrder(st)) : ExifOrder(st)[a] = i
<1> DEFINE runs == [t \in DOMAIN TagOrder |-> Ascending(Live(st, TagOrder[t]))]
           upto(n) == FlattenSeq(SubSeq(runs, 1, n))
           good(n) == /\ upto(n) \in Seq(ExifLive(st)) /\ OrderedBy(st, upto(n))
                      /\ \A a \in 1 .. Len(upto(n)) :
                            \E t \in 1 .. n : st[upto(n)[a]].key = TagOrder[t]
                      /\ \A t \in 1 .. n : \A i \in Live(st, TagOrder[t]) :
                            \E a \in 1 .. Len(upto(n)) : upto(n)[a] = i
<1>1. /\ DOMAIN TagOrder = 1 .. Len(TagOrder) /\ Len(TagOrder) \in Nat
      /\ \A t \in DOMAIN TagOrder : TagOrder[t] \in ExifKey
  BY TagAssumption, SeqDomain
<1>2. \A t, u \in DOMAIN TagOrder : TagOrder[t] = TagOrder[u] => t = u
  BY TagAssumption DEF IsInjective
<1>3. \A k \in ExifKey : \E t \in DOMAIN TagOrder : TagOrder[t] = k
  BY TagAssumption DEF Range
<1>4. runs \in Seq(Seq(ExifLive(st))) /\ Len(runs) = Len(TagOrder)
      /\ \A t \in 1 .. Len(TagOrder) : runs[t] = Ascending(Live(st, TagOrder[t]))
  <2>1. ASSUME NEW t \in DOMAIN TagOrder PROVE runs[t] \in Seq(ExifLive(st))
    <3>1. runs[t] \in Seq(Live(st, TagOrder[t]))
      BY LiveFacts, AscendingIsSorted
    <3>2. Live(st, TagOrder[t]) \subseteq ExifLive(st)
      BY <1>1 DEF ExifLive
    <3> QED BY <3>1, <3>2, SeqMonotonic
  <2> QED BY <1>1, <2>1
<1>5. ExifOrder(st) = upto(Len(TagOrder))
  <2>1. SubSeq(runs, 1, Len(runs)) = runs
    <3> HIDE DEF runs
    <3> QED BY <1>4
  <2> QED BY <1>4, <2>1 DEF ExifOrder
<1> HIDE DEF runs
<1>6. \A n \in 0 .. Len(TagOrder) :
        /\ SubSeq(runs, 1, n) \in Seq(Seq(ExifLive(st))) /\ Len(SubSeq(runs, 1, n)) = n
        /\ \A t \in 1 .. n : SubSeq(runs, 1, n)[t] = runs[t]
  BY <1>1, <1>4
<1>7. \A n \in 0 .. Len(TagOrder) : upto(n) \in Seq(ExifLive(st))
  BY <1>6, FlattenType
<1>8. upto(0) = <<>>
  <2>1. SubSeq(runs, 1, 0) = <<>>
    BY <1>4
  <2> QED BY <2>1, FlattenEmpty
<1>9. ASSUME NEW n \in 0 .. Len(TagOrder) - 1
      PROVE  upto(n + 1) = upto(n) \o Ascending(Live(st, TagOrder[n + 1]))
  <2> DEFINE s == SubSeq(runs, 1, n)
             u == SubSeq(runs, 1, n + 1)
  <2>0. n \in 0 .. Len(TagOrder) /\ n + 1 \in 0 .. Len(TagOrder) /\ n + 1 \in 1 .. n + 1
        /\ n + 1 \in 1 .. Len(TagOrder) /\ \A t \in 1 .. n : t \in 1 .. n + 1
    BY <1>1
  <2>1. /\ s \in Seq(Seq(ExifLive(st))) /\ u \in Seq(Seq(ExifLive(st)))
        /\ Len(s) = n /\ Len(u) = n + 1
        /\ \A t \in 1 .. n : s[t] = runs[t]
        /\ \A t \in 1 .. n + 1 : u[t] = runs[t]
    BY <1>6, <2>0
  <2> HIDE DEF s, u
  <2>2. FlattenSeq(u) = FlattenSeq(s) \o u[Len(u)]
    <3>1. Len(u) = Len(s) + 1 /\ \A t \in 1 .. Len(s) : u[t] = s[t]
      BY <2>0, <2>1
    <3> QED BY <2>1, <3>1, FlattenStep
  <2>3. u[Len(u)] = Ascending(Live(st, TagOrder[n + 1]))
    BY <1>4, <2>0, <2>1
  <2> QED BY <2>2, <2>3 DEF s, u
<1> HIDE DEF upto
<1>10. good(0)
  BY <1>1, <1>7, <1>8 DEF OrderedBy
<1>11. ASSUME NEW n \in 0 .. Len(TagOrder) - 1, good(n)
       PROVE  good(n + 1)
  <2> DEFINE k == TagOrder[n + 1]
             s == upto(n)
             r == s \o Ascending(Live(st, k))
  <2>1. /\ n + 1 \in 1 .. Len(TagOrder) /\ n \in 0 .. Len(TagOrder) /\ k \in ExifKey
        /\ n + 1 \in 0 .. Len(TagOrder) /\ n + 1 \in 1 .. n + 1
        /\ \A t \in 1 .. n : t \in 1 .. Len(TagOrder) /\ t # n + 1 /\ t \in 1 .. n + 1
        /\ \A t \in 1 .. n + 1 : t \in 1 .. n \/ t = n + 1
    BY <1>1
  <2>2. s \in Seq(ExifLive(st)) /\ OrderedBy(st, s)
        /\ (\A a \in 1 .. Len(s) : \E t \in 1 .. n : st[s[a]].key = TagOrder[t])
        /\ \A t \in 1 .. n : \A i \in Live(st, TagOrder[t]) :
                            \E a \in 1 .. Len(s) : s[a] = i
    BY <1>11
  <2>3. \A a \in 1 .. Len(s) : st[s[a]].key # k
    <3>1. \A t \in 1 .. n : TagOrder[t] # k
      BY <1>1, <1>2, <2>1
    <3> QED BY <2>2, <3>1
  <2>4. upto(n + 1) = r
    BY <1>9
  <2> HIDE DEF k, s
  <2>5. /\ OrderedBy(st, r)
        /\ \A i \in Live(st, k) : \E a \in 1 .. Len(r) : r[a] = i
        /\ \A a \in 1 .. Len(r) : (a \in 1 .. Len(s) /\ r[a] = s[a]) \/ st[r[a]].key = k
        /\ \A a \in 1 .. Len(s) : a \in 1 .. Len(r) /\ r[a] = s[a]
    BY <2>1, <2>2, <2>3, OrderGrows
  <2>6. upto(n + 1) \in Seq(ExifLive(st))
    BY <1>7, <2>1
  <2> HIDE DEF r
  <2>7. \A a \in 1 .. Len(r) : \E t \in 1 .. n + 1 : st[r[a]].key = TagOrder[t]
    BY <2>1, <2>2, <2>5 DEF k
  <2>8. \A t \in 1 .. n + 1 : \A i \in Live(st, TagOrder[t]) : \E a \in 1 .. Len(r) : r[a] = i
    <3> SUFFICES ASSUME NEW t \in 1 .. n + 1, NEW i \in Live(st, TagOrder[t])
                 PROVE  \E a \in 1 .. Len(r) : r[a] = i
      OBVIOUS
    <3>1. CASE t \in 1 .. n
      <4>1. PICK a \in 1 .. Len(s) : s[a] = i
        BY <2>2, <3>1
      <4> QED BY <2>5, <4>1
    <3>2. CASE t = n + 1
      BY <2>5, <3>2 DEF k
    <3> QED BY <2>1, <3>1, <3>2
  <2> QED BY <2>4, <2>5, <2>6, <2>7, <2>8
<1> HIDE DEF good
<1>12. good(Len(TagOrder))
  <2> DEFINE T == {n \in 0 .. Len(TagOrder) : ~good(n)}
  <2> SUFFICES ASSUME T # {} PROVE FALSE
    BY <1>1
  <2>1. PICK x \in T : \A y \in T : x <= y
    <3>1. \A c \in T : c \in Nat
      BY <1>1
    <3> HIDE DEF T
    <3> QED BY <3>1, LeastNatural
  <2>2. x # 0
    BY <1>10, <2>1
  <2>3. x - 1 \in 0 .. Len(TagOrder) - 1 /\ x - 1 \notin T /\ x - 1 + 1 = x
    BY <1>1, <2>1, <2>2
  <2>4. x - 1 \in 0 .. Len(TagOrder)
    BY <1>1, <2>3
  <2> QED BY <1>11, <2>1, <2>3, <2>4
<1> QED BY <1>1, <1>3, <1>5, <1>12 DEF good

(* Sequences of cells that are not empty: a longer prefix of them makes a  *)
(* longer text.                                                            *)
LEMMA PrefixesGrow ==
  ASSUME NEW S, NEW c \in Seq(Seq(S)), \A i \in 1 .. Len(c) : Len(c[i]) # 0,
         NEW n \in 0 .. Len(c), NEW m \in 0 .. Len(c), n < m
  PROVE  /\ Len(FlattenSeq(SubSeq(c, 1, n))) \in Nat
         /\ Len(FlattenSeq(SubSeq(c, 1, n))) < Len(FlattenSeq(SubSeq(c, 1, m)))
<1> DEFINE size(i) == Len(FlattenSeq(SubSeq(c, 1, i)))
           T == {i \in 0 .. Len(c) : n < i /\ ~(size(n) < size(i))}
<1>1. Len(c) \in Nat
  OBVIOUS
<1>2. \A i \in 0 .. Len(c) :
        /\ SubSeq(c, 1, i) \in Seq(Seq(S)) /\ Len(SubSeq(c, 1, i)) = i
        /\ \A j \in 1 .. i : SubSeq(c, 1, i)[j] = c[j]
  BY <1>1
<1>3. \A i \in 0 .. Len(c) : FlattenSeq(SubSeq(c, 1, i)) \in Seq(S) /\ size(i) \in Nat
  <2>1. \A i \in 0 .. Len(c) : FlattenSeq(SubSeq(c, 1, i)) \in Seq(S)
    BY <1>2, FlattenType
  <2> QED BY <2>1
<1>4. ASSUME NEW i \in 0 .. Len(c) - 1 PROVE size(i) < size(i + 1)
  <2> DEFINE s == SubSeq(c, 1, i)
             u == SubSeq(c, 1, i + 1)
  <2>1. i \in 0 .. Len(c) /\ i + 1 \in 0 .. Len(c) /\ i + 1 \in 1 .. Len(c)
        /\ i + 1 \in 1 .. i + 1 /\ \A j \in 1 .. i : j \in 1 .. i + 1
    BY <1>1
  <2>2. /\ s \in Seq(Seq(S)) /\ u \in Seq(Seq(S)) /\ Len(s) = i /\ Len(u) = i + 1
        /\ \A j \in 1 .. i : s[j] = c[j]
        /\ \A j \in 1 .. i + 1 : u[j] = c[j]
    BY <1>2, <2>1
  <2>3. FlattenSeq(s) \in Seq(S)
    BY <1>3, <2>1
  <2> HIDE DEF s, u
  <2>4. FlattenSeq(u) = FlattenSeq(s) \o u[Len(u)]
    <3>1. Len(u) = Len(s) + 1 /\ \A j \in 1 .. Len(s) : u[j] = s[j]
      BY <2>1, <2>2
    <3> QED BY <2>2, <3>1, FlattenStep
  <2>5. c[i + 1] \in Seq(S) /\ Len(c[i + 1]) # 0 /\ u[Len(u)] = c[i + 1]
    BY <2>1, <2>2
  <2>6. Len(FlattenSeq(u)) = Len(FlattenSeq(s)) + Len(c[i + 1])
    BY <2>3, <2>4, <2>5
  <2>7. Len(c[i + 1]) \in Nat /\ Len(FlattenSeq(s)) \in Nat
    BY <2>3, <2>5
  <2>8. Len(FlattenSeq(s)) < Len(FlattenSeq(u))
    BY <2>5, <2>6, <2>7
  <2> QED BY <2>8 DEF s, u
<1> HIDE DEF size
<1>5. T = {}
  <2> SUFFICES ASSUME T # {} PROVE FALSE
    OBVIOUS
  <2>1. PICK x \in T : \A y \in T : x <= y
    <3>1. \A i \in T : i \in Nat
      BY <1>1
    <3> HIDE DEF T
    <3> QED BY <3>1, LeastNatural
  <2>2. x - 1 \in 0 .. Len(c) - 1 /\ x - 1 \in 0 .. Len(c) /\ x - 1 \notin T /\ x - 1 + 1 = x
        /\ x \in 0 .. Len(c)
    BY <1>1, <2>1
  <2>3. size(x - 1) < size(x)
    BY <1>4, <2>2
  <2>4. x - 1 = n \/ size(n) < size(x - 1)
    BY <1>1, <2>1, <2>2
  <2>5. size(n) \in Nat /\ size(x - 1) \in Nat /\ size(x) \in Nat
    BY <1>3, <2>2
  <2>6. ~(size(n) < size(x))
    BY <2>1
  <2> HIDE DEF T
  <2>7. CASE x - 1 = n
    BY <2>3, <2>6, <2>7
  <2>8. CASE size(n) < size(x - 1)
    BY <2>3, <2>5, <2>6, <2>8
  <2> QED BY <2>4, <2>7, <2>8
<1>6. size(n) < size(m) /\ size(n) \in Nat
  BY <1>3, <1>5
<1> QED BY <1>6 DEF size

(* A map that keeps the order of a set of numbers keeps their ranks.       *)
LEMMA NthOfImage ==
  ASSUME NEW S, \A x \in S : x \in Nat, IsFiniteSet(S), NEW f, \A x \in S : f[x] \in Nat,
         \A x, y \in S : x < y => f[x] < f[y],
         NEW n \in 0 .. Cardinality(S) - 1
  PROVE  Nth({f[x] : x \in S}, n) = f[Nth(S, n)]
<1> DEFINE T == {f[x] : x \in S}
           m == Nth(S, n)
           A == Below(S, m)
           B == Below(T, f[m])
           g == [x \in A |-> f[x]]
           h == [x \in S |-> f[x]]
<1>1. m \in S /\ Cardinality(A) = n /\ IsFiniteSet(A)
  BY NthIsNth, FS_Subset DEF Below
<1>2. \A x, y \in S : f[x] = f[y] => x = y
  OBVIOUS
<1>3. \A x \in S : f[x] < f[m] <=> x < m
  <2>1. \A x \in S : x < m \/ x = m \/ m < x
    BY <1>1
  <2> QED BY <1>1, <2>1
<1>4. h \in Surjection(S, T)
  BY DEF Surjection
<1>5. IsFiniteSet(T) /\ \A x \in T : x \in Nat
  <2> HIDE DEF h, T
  <2>1. IsFiniteSet(T)
    BY <1>4, FS_Surjection
  <2> QED BY <2>1 DEF T
<1>6. g \in Bijection(A, B)
  <2>1. \A x \in A : f[x] \in B
    BY <1>1, <1>3 DEF Below
  <2>2. \A y \in B : \E x \in A : f[x] = y
    BY <1>1, <1>3 DEF Below
  <2>3. \A x \in A : x \in S
    BY DEF Below
  <2> HIDE DEF A, B
  <2>4. g \in [A -> B] /\ IsInjective(g) /\ \A y \in B : \E x \in A : g[x] = y
    BY <1>2, <2>1, <2>2, <2>3 DEF IsInjective
  <2> QED BY <2>4 DEF Bijection, Injection, Surjection
<1> HIDE DEF A, B, g
<1>7. Cardinality(B) = n
  <2>1. ExistsBijection(A, B)
    BY <1>6 DEF ExistsBijection
  <2> QED BY <1>1, <2>1, FS_Bijection
<1>8. f[m] \in T
  BY <1>1
<1> HIDE DEF T, m
<1>9. Nth(T, Cardinality(Below(T, f[m]))) = f[m]
  BY <1>5, <1>8, NthOfBelow
<1> QED BY <1>7, <1>9 DEF B, T, m

(* The place of an entry, by the parts that are written before it.         *)
LEMMA PlaceIs ==
  ASSUME NEW st \in Stores, NEW k \in ExifKey, NEW j \in Live(st, k)
  PROVE  \E m \in 1 .. Len(ExifOrder(st)) :
            /\ ExifOrder(st)[m] = j
            /\ Place(st, j) =
                    Len(Frame[k]) + Len(FlattenSeq(SubSeq(ExifParts(st), 1, m - 1)))
<1> DEFINE order == ExifOrder(st)
           m == CHOOSE p \in DOMAIN order : order[p] = j
           prefix == [p \in 1 .. m - 1 |-> ExifCells(st[order[p]])]
<1>1. /\ DOMAIN order = 1 .. Len(order) /\ Len(order) \in Nat
      /\ \A p \in 1 .. Len(order) : order[p] \in ExifLive(st)
  BY ExifOrderType, SeqDomain
<1>2. m \in 1 .. Len(order) /\ order[m] = j
  BY <1>1, ExifOrderFacts
<1>3. st[j].key = k /\ k \notin XmpKey
  BY LiveFacts, TagAssumption
<1> HIDE DEF m, order
<1>4. \A p \in 1 .. Len(order) : st[order[p]].key \notin XmpKey
  <2>1. \A i \in ExifLive(st) : st[i].key \in ExifKey
    BY LiveFacts DEF ExifLive
  <2> QED BY <1>1, <2>1, TagAssumption
<1>5. \A p \in 1 .. m - 1 : p \in 1 .. Len(order)
  BY <1>1, <1>2
<1>6. Place(st, j) = Len(Frame[k]) + Len(FlattenSeq(
            [p \in 1 .. m - 1 |-> IF st[order[p]].key \in XmpKey THEN XmpCells(st[order[p]])
                                  ELSE ExifCells(st[order[p]])]))
  BY <1>3 DEF Place, m, order
<1>7. [p \in 1 .. m - 1 |-> IF st[order[p]].key \in XmpKey THEN XmpCells(st[order[p]])
                            ELSE ExifCells(st[order[p]])] = prefix
  BY <1>4, <1>5
<1>8. ExifParts(st) \in Seq(Seq(Cells)) /\ DOMAIN ExifParts(st) = 1 .. Len(order)
      /\ \A p \in 1 .. Len(order) : ExifParts(st)[p] = ExifCells(st[order[p]])
  BY <1>1, PartsType DEF ExifParts, order
<1>9. prefix = SubSeq(ExifParts(st), 1, m - 1)
  <2>1. SubSeq(ExifParts(st), 1, m - 1) = [p \in 1 .. m - 1 |-> ExifParts(st)[p]]
    BY <1>1, <1>2, <1>8
  <2> QED BY <1>5, <1>8, <2>1
<1> QED BY <1>2, <1>6, <1>7, <1>9 DEF order

(* Entries of one key stand in the payload in the order of the store.      *)
LEMMA PlacesAscend ==
  ASSUME NEW st \in Stores, NEW k \in ExifKey, NEW i \in Live(st, k), NEW j \in Live(st, k)
  PROVE  Place(st, i) \in Nat /\ (i < j => Place(st, i) < Place(st, j))
<1> DEFINE order == ExifOrder(st)
           parts == ExifParts(st)
           size(n) == Len(FlattenSeq(SubSeq(parts, 1, n)))
<1>1. PICK m \in 1 .. Len(order) : order[m] = i /\ Place(st, i) = Len(Frame[k]) + size(m - 1)
  BY PlaceIs
<1>2. PICK n \in 1 .. Len(order) : order[n] = j /\ Place(st, j) = Len(Frame[k]) + size(n - 1)
  BY PlaceIs
<1>3. /\ DOMAIN order = 1 .. Len(order) /\ Len(order) \in Nat
      /\ \A p \in 1 .. Len(order) : order[p] \in ExifLive(st)
  BY ExifOrderType, SeqDomain
<1>4. parts \in Seq(Seq(Cells)) /\ Len(parts) = Len(order)
  <2>1. parts \in Seq(Seq(Cells))
    BY PartsType
  <2>2. DOMAIN parts = 1 .. Len(order)
    BY <1>3 DEF ExifParts
  <2> HIDE DEF parts, order
  <2> QED BY <1>3, <2>1, <2>2
<1>5. \A p \in 1 .. Len(parts) : Len(parts[p]) # 0
  <2> SUFFICES ASSUME NEW p \in 1 .. Len(parts) PROVE Len(parts[p]) # 0
    OBVIOUS
  <2> DEFINE e == st[order[p]]
  <2>1. parts[p] = ExifCells(e) /\ order[p] \in ExifLive(st)
    BY <1>3, <1>4 DEF ExifParts
  <2>2. order[p] \in DOMAIN st /\ e.key \in ExifKey
    BY <2>1, LiveFacts DEF ExifLive
  <2>3. Frame[e.key] \in Seq(Cells) /\ Len(Frame[e.key]) \in Nat \ {0} /\ e.bytes \in Seq(Cells)
    BY <2>2, FrameFacts, EntryFacts
  <2> HIDE DEF e
  <2>4. Len(Frame[e.key] \o e.bytes) = Len(Frame[e.key]) + Len(e.bytes) /\ Len(e.bytes) \in Nat
    BY <2>3
  <2>5. Len(Frame[e.key]) + Len(e.bytes) # 0
    <3>1. \A a \in Nat \ {0}, b \in Nat : a + b # 0
      OBVIOUS
    <3> QED BY <2>3, <2>4, <3>1
  <2>6. ExifCells(e) = Frame[e.key] \o e.bytes
    BY DEF ExifCells
  <2> HIDE DEF parts
  <2> QED BY <2>1, <2>4, <2>5, <2>6
<1>6. Len(Frame[k]) \in Nat
  BY FrameFacts
<1> HIDE DEF order, parts
<1>7. \A p \in 0 .. Len(parts) : size(p) \in Nat
  <2>1. \A p \in 0 .. Len(parts) : SubSeq(parts, 1, p) \in Seq(Seq(Cells))
    BY <1>4
  <2>2. \A p \in 0 .. Len(parts) : FlattenSeq(SubSeq(parts, 1, p)) \in Seq(Cells)
    BY <2>1, FlattenType
  <2> QED BY <2>2
<1>8. m - 1 \in 0 .. Len(parts) /\ n - 1 \in 0 .. Len(parts)
  BY <1>1, <1>2, <1>3, <1>4
<1>9. ASSUME i < j PROVE size(m - 1) < size(n - 1)
  <2>1. st[i].key = k /\ st[j].key = k /\ i \in Nat /\ j \in Nat
    BY LiveFacts
  <2>2. m # n
    BY <1>1, <1>2, <1>9, <2>1
  <2>3. ~(n < m)
    <3>1. n < m => j < i
      BY <1>1, <1>2, <2>1, ExifOrderFacts DEF OrderedBy, order
    <3> QED BY <1>9, <2>1, <3>1
  <2>4. m - 1 < n - 1
    BY <2>2, <2>3
  <2> QED BY <1>4, <1>5, <1>8, <2>4, PrefixesGrow
<1> HIDE DEF size
<1> QED BY <1>1, <1>2, <1>6, <1>7, <1>8, <1>9

(* The slot of a request whose value stands at the entries of its key and  *)
(* nowhere else is the place of the entry it names.                        *)
LEMMA SlotIsPlace ==
  ASSUME NEW st \in Stores, NEW payloads \in PayloadType, NEW r \in Request,
         FindSlot(st, payloads, r) # Denied,
         LET slot == FindSlot(st, payloads, r)
         IN OccursAt(payloads[slot.family], NeedleFor(st, r)) = Equals(st, EntryFor(st, r))
  PROVE  FindSlot(st, payloads, r).offset = Place(st, EntryFor(st, r))
<1> DEFINE slot == FindSlot(st, payloads, r)
           entry == EntryFor(st, r)
           live == Live(st, r.key)
           found == OccursAt(payloads[slot.family], NeedleFor(st, r))
<1>1. /\ slot.family = FamilyOf(r.key) /\ entry \in live /\ slot.offset \in found
      /\ r.occurrence < Cardinality(live)
      /\ slot.family = "XMP" => r.occurrence = 0
      /\ slot.family # "XMP" =>
              slot.offset = Nth(found, r.occurrence) /\ r.occurrence < Cardinality(found)
  BY SlotIsBound
<1>2. r.key \in ExifKey \cup XmpKey /\ r.occurrence \in Nat
  BY DEF Request
<1>3. entry \in DOMAIN st /\ st[entry].key = r.key /\ IsFiniteSet(live) /\ \A i \in live : i \in Nat
  BY <1>1, LiveFacts
<1>4. found = Equals(st, entry)
  OBVIOUS
<1>5. r.occurrence \in 0 .. Cardinality(live) - 1
  <2>1. Cardinality(live) \in Nat
    BY <1>3, FS_CardinalityType
  <2> QED BY <1>1, <1>2, <2>1
<1>6. entry = Nth(live, r.occurrence)
  BY DEF EntryFor
<1> HIDE DEF slot, entry, live, found
<1>7. CASE r.key \in XmpKey
  <2>1. slot.family = "XMP" /\ r.occurrence = 0
    BY <1>1, <1>7 DEF FamilyOf
  <2>2. Equals(st, entry) = {Place(st, j) : j \in {l \in live : l \in Range(XmpOrder(st))}}
    BY <1>3, <1>7 DEF Equals, live
  <2>3. \A l \in live : l \in Range(XmpOrder(st)) => l = Least(live)
    <3>1. Range(XmpOrder(st)) \subseteq XmpLive(st)
      BY XmpOrderType, SeqDomain DEF Range
    <3>2. \A l \in XmpLive(st) : l = Least(Live(st, st[l].key))
      BY XmpLiveFacts
    <3>3. \A l \in live : st[l].key = r.key
      BY LiveFacts DEF live
    <3> QED BY <3>1, <3>2, <3>3 DEF live
  <2>4. entry = Least(live)
    <3>1. Cardinality(Below(live, entry)) = 0
      BY <1>3, <1>5, <1>6, <2>1, NthIsNth
    <3>2. Below(live, entry) = {}
      <4>1. Below(live, entry) \in SUBSET live
        BY DEF Below
      <4>2. IsFiniteSet(Below(live, entry))
        BY <1>3, <4>1, FS_Subset
      <4> QED BY <3>1, <4>2, FS_EmptySet
    <3>3. Least(live) \in live /\ Least(live) <= entry
      BY <1>1, <1>3, LeastIsLeast
    <3> QED BY <1>1, <1>3, <3>2, <3>3 DEF Below
  <2>5. \A p \in Equals(st, entry) : p = Place(st, entry)
    BY <2>2, <2>3, <2>4
  <2> QED BY <1>1, <1>4, <2>5 DEF slot, entry
<1>8. CASE r.key \notin XmpKey
  <2> DEFINE f == [i \in live |-> Place(st, i)]
  <2>1. slot.family # "XMP" /\ r.key \in ExifKey
    BY <1>1, <1>2, <1>8 DEF FamilyOf
  <2>2. Equals(st, entry) = {Place(st, j) : j \in {l \in live : l \in Range(ExifOrder(st))}}
    BY <1>3, <1>8 DEF Equals, live
  <2>3. \A l \in live : l \in Range(ExifOrder(st))
    <3>1. DOMAIN ExifOrder(st) = 1 .. Len(ExifOrder(st))
      BY ExifOrderType, SeqDomain
    <3> QED BY <2>1, <3>1, ExifOrderFacts DEF Range, live
  <2>4. found = {f[i] : i \in live}
    BY <1>4, <2>2, <2>3
  <2>5. /\ \A i \in live : f[i] \in Nat
        /\ \A i, j \in live : i < j => f[i] < f[j]
    BY <2>1, PlacesAscend DEF live
  <2>6. f[entry] = Place(st, entry)
    BY <1>1
  <2> HIDE DEF f
  <2>7. Nth(found, r.occurrence) = f[Nth(live, r.occurrence)]
    BY <1>3, <1>5, <2>4, <2>5, NthOfImage
  <2> QED BY <1>1, <1>6, <2>1, <2>6, <2>7 DEF slot, entry
<1> QED BY <1>7, <1>8

(* Requests bind a key and an occurrence: where the bytes of the value are *)
(* found at the entries of the key and nowhere else, the slot is the place *)
(* of the entry asked for, in whatever order prepare was given the entries *)
(* and whichever of them are deleted.                                      *)
THEOREM Unmistakable == Spec => []UnmistakableIsBound
<1>1. Init => UnmistakableIsBound
  BY DEF Init, UnmistakableIsBound
<1>2. ASSUME UnmistakableIsBound, NEW st \in Stores,
             NEW rs \in TupleOf(Requests, 1) \cup TupleOf(Requests, 2),
             NEW id \in PlanId, Prepare(st, rs, id)
      PROVE  UnmistakableIsBound'
  <2>1. rs \in Seq(Request) /\ DOMAIN rs = 1 .. Len(rs)
    <3>1. PICK n \in Nat : rs \in [1 .. n -> Requests]
      BY DEF TupleOf
    <3>2. rs \in [1 .. n -> Request]
      BY <3>1, DataAssumption
    <3> QED BY <3>2
  <2>2. PICK lost \in BOOLEAN :
          LET payloads == IF lost THEN [Payloads(st) EXCEPT !.EXIF_TIFF = <<>>]
                          ELSE Payloads(st)
              slots == [n \in DOMAIN rs |-> FindSlot(st, payloads, rs[n])]
              entry == [n \in DOMAIN rs |-> Nth(Live(st, rs[n].key), rs[n].occurrence)]
              gen == Cardinality(issued) + 1
          IN /\ Denied \notin Range(slots)
             /\ plan' = [id |-> id, payload |-> payloads, slots |-> slots, gen |-> gen,
                         places |-> [n \in DOMAIN rs |-> Place(st, entry[n])],
                         equals |-> [n \in DOMAIN rs |-> Equals(st, entry[n])]]
    BY <1>2, Zenon DEF Prepare
  <2> DEFINE payloads == IF lost THEN [Payloads(st) EXCEPT !.EXIF_TIFF = <<>>] ELSE Payloads(st)
             slots == [n \in DOMAIN rs |-> FindSlot(st, payloads, rs[n])]
  <2>3. payloads \in PayloadType
    <3>1. <<>> \in Seq(Cells)
      OBVIOUS
    <3>2. \A a \in PayloadType : [a EXCEPT !.EXIF_TIFF = <<>>] \in PayloadType
      BY <3>1 DEF PayloadType
    <3> QED BY <3>2, PayloadsType
  <2> HIDE DEF payloads
  <2>4. /\ Denied \notin Range(slots) /\ plan'.payload = payloads /\ plan'.slots = slots
        /\ \A n \in DOMAIN rs : /\ plan'.places[n] = Place(st, EntryFor(st, rs[n]))
                               /\ plan'.equals[n] = Equals(st, EntryFor(st, rs[n]))
    BY <2>2 DEF payloads, EntryFor
  <2>5. ASSUME NEW n \in DOMAIN slots
        PROVE  LET cells == payloads[slots[n].family]
                   value == SubSeq(cells, slots[n].offset + 1, slots[n].offset + slots[n].width)
               IN OccursAt(cells, value) = plan'.equals[n] => slots[n].offset = plan'.places[n]
    <3>1. n \in DOMAIN rs /\ slots[n] = FindSlot(st, payloads, rs[n]) /\ slots[n] \in Range(slots)
          /\ rs[n] \in Request
      BY <2>1 DEF Range
    <3> DEFINE needle == NeedleFor(st, rs[n])
               cells == payloads[slots[n].family]
               value == SubSeq(cells, slots[n].offset + 1, slots[n].offset + slots[n].width)
    <3> HIDE DEF slots, needle
    <3>2. FindSlot(st, payloads, rs[n]) # Denied
      BY <2>4, <3>1
    <3>3. /\ slots[n] \in Slot /\ needle \in Seq(Cells)
          /\ slots[n].offset \in OccursAt(cells, needle) /\ slots[n].width = Len(needle)
      BY <2>3, <3>1, <3>2, SlotIsBound DEF needle
    <3>4. cells \in Seq(Cells)
      BY <2>3, <3>3, PayloadFacts DEF Slot
    <3> HIDE DEF cells
    <3>5. value = needle
      BY <3>3, <3>4, OccursFacts
    <3>6. OccursAt(cells, needle) = Equals(st, EntryFor(st, rs[n])) =>
                slots[n].offset = Place(st, EntryFor(st, rs[n]))
      BY <2>3, <3>1, <3>2, SlotIsPlace DEF needle, cells
    <3> QED BY <2>4, <3>1, <3>5, <3>6 DEF cells
  <2> QED BY <2>4, <2>5 DEF UnmistakableIsBound
<1>3. UnmistakableIsBound /\ plan' = plan => UnmistakableIsBound'
  BY DEF UnmistakableIsBound
<1>4. plan' = None => UnmistakableIsBound'
  BY DEF UnmistakableIsBound, None
<1>5. UnmistakableIsBound /\ [Next]_vars => UnmistakableIsBound'
  <2> SUFFICES ASSUME UnmistakableIsBound, [Next]_vars PROVE UnmistakableIsBound'
    OBVIOUS
  <2>1. CASE UNCHANGED vars
    BY <1>3, <2>1 DEF vars
  <2>2. ASSUME NEW st \in Stores, NEW rs \in TupleOf(Requests, 1) \cup TupleOf(Requests, 2),
               NEW id \in PlanId, Prepare(st, rs, id)
        PROVE  UnmistakableIsBound'
    BY <1>2, <2>2
  <2>3. CASE ResetPlan
    BY <1>4, <2>3 DEF ResetPlan
  <2>4. ASSUME NEW w \in Worker, CreateInstance(w) \/ ResetInstance(w) \/ BeginApply(w)
        PROVE  UnmistakableIsBound'
    BY <1>3, <2>4 DEF CreateInstance, ResetInstance, BeginApply
  <2>5. ASSUME NEW u \in Updates, NEW isLast \in BOOLEAN, CheckUpdate(u, isLast)
        PROVE  UnmistakableIsBound'
    BY <1>3, <2>5 DEF CheckUpdate
  <2>6. CASE WriteUpdate \/ Return
    BY <1>3, <2>6 DEF WriteUpdate, Return
  <2> QED BY <2>1, <2>2, <2>3, <2>4, <2>5, <2>6 DEF Next
<1> QED BY <1>1, <1>5, PTL DEF Spec

-----------------------------------------------------------------------------
(* Extraction of a payload: parts and their sizes, the sorts, what parts   *)
(* describe, sub-blocks, and then the steps.                               *)

(* s holds the sums of the sizes of the first n parts.                     *)
Sums(s, c, parts, n) ==
    s = [m \in 0 .. n |-> IF m = 0 THEN 0 ELSE s[m - 1] + c.blocks[parts[m]].size]

(* Each of them is the one before and a size.                              *)
LEMMA SumsAt ==
  ASSUME NEW s, NEW c, NEW parts, NEW n \in Nat, Sums(s, c, parts, n), NEW m \in 0 .. n
  PROVE  s[m] = IF m = 0 THEN 0 ELSE s[m - 1] + c.blocks[parts[m]].size
  BY DEF Sums

(* There are such sums.                                                    *)
LEMMA SumsExist ==
  ASSUME NEW c, NEW parts, NEW n \in Nat
  PROVE  \E s : Sums(s, c, parts, n)
<1> DEFINE T == {x \in Nat : ~ \E s : Sums(s, c, parts, x)}
<1> SUFFICES ASSUME T # {} PROVE FALSE
  OBVIOUS
<1>1. PICK x \in T : \A y \in T : x <= y
  BY LeastNatural
<1>2. CASE x = 0
  <2>1. Sums([m \in 0 .. 0 |-> 0], c, parts, 0)
    BY DEF Sums
  <2> QED BY <1>2, <2>1
<1>3. CASE x # 0
  <2>1. x - 1 \in Nat /\ x - 1 \notin T
    BY <1>1, <1>3
  <2>2. PICK g : Sums(g, c, parts, x - 1)
    BY <2>1
  <2> DEFINE s == [m \in 0 .. x |-> IF m = 0 THEN 0
                                    ELSE IF m < x THEN g[m]
                                    ELSE g[x - 1] + c.blocks[parts[x]].size]
  <2>3. \A m \in 0 .. x - 1 : s[m] = g[m]
    BY <2>1, <2>2 DEF Sums
  <2>4. ASSUME NEW m \in 0 .. x
        PROVE  s[m] = IF m = 0 THEN 0 ELSE s[m - 1] + c.blocks[parts[m]].size
    <3>1. CASE m = 0
      BY <3>1
    <3>2. CASE m # 0
      <4>1. m - 1 \in 0 .. x - 1
        BY <1>1, <3>2
      <4>2. s[m - 1] = g[m - 1]
        BY <2>3, <4>1
      <4>3. CASE m = x
        <5>1. ~(m < x) /\ m \in 0 .. x
          BY <1>1, <4>3
        <5>2. s[m] = g[x - 1] + c.blocks[parts[x]].size
          BY <3>2, <5>1
        <5> QED BY <3>2, <4>2, <4>3, <5>2
      <4>4. CASE m # x
        <5>1. m \in 0 .. x - 1
          BY <1>1, <4>4
        <5>2. g[m] = g[m - 1] + c.blocks[parts[m]].size
          BY <2>1, <2>2, <3>2, <5>1, SumsAt
        <5>3. s[m] = g[m]
          BY <2>3, <5>1
        <5> HIDE DEF s
        <5> QED BY <3>2, <4>2, <5>2, <5>3
      <4> QED BY <4>3, <4>4
    <3> QED BY <3>1, <3>2
  <2>5. Sums(s, c, parts, x)
    BY <2>4 DEF Sums
  <2> QED BY <2>5
<1> QED BY <1>2, <1>3

(* Each part adds its size.                                                *)
LEMMA SizeToStep ==
  ASSUME NEW c, NEW parts, Len(parts) \in Nat
  PROVE  /\ SizeTo(c, parts, 0) = 0
         /\ \A n \in 1 .. Len(parts) :
                SizeTo(c, parts, n) = SizeTo(c, parts, n - 1) + c.blocks[parts[n]].size
<1> DEFINE h == CHOOSE s : s = [m \in 0 .. Len(parts) |->
                        IF m = 0 THEN 0 ELSE s[m - 1] + c.blocks[parts[m]].size]
<1>1. \A n : SizeTo(c, parts, n) = h[n]
  BY DEF SizeTo
<1>2. \E s : s = [m \in 0 .. Len(parts) |->
                        IF m = 0 THEN 0 ELSE s[m - 1] + c.blocks[parts[m]].size]
  <2>1. PICK s : Sums(s, c, parts, Len(parts))
    BY SumsExist
  <2>2. s = [m \in 0 .. Len(parts) |->
                        IF m = 0 THEN 0 ELSE s[m - 1] + c.blocks[parts[m]].size]
    BY <2>1 DEF Sums
  <2> QED BY <2>2, Zenon
<1>3. h = [m \in 0 .. Len(parts) |-> IF m = 0 THEN 0 ELSE h[m - 1] + c.blocks[parts[m]].size]
  BY <1>2
<1> HIDE DEF h
<1>4. h[0] = 0
  BY <1>3
<1>5. ASSUME NEW n \in 1 .. Len(parts) PROVE h[n] = h[n - 1] + c.blocks[parts[n]].size
  BY <1>3
<1> QED BY <1>1, <1>4, <1>5

(* The parts of a call are blocks of it.                                   *)
LEMMA BlockFacts ==
  ASSUME NEW c \in Call, NEW m \in DOMAIN c.blocks
  PROVE  /\ m \in Nat \ {0} /\ c.blocks[m] \in Block
         /\ c.blocks[m].size \in Nat /\ c.blocks[m].size <= MaxU64
         /\ c.blocks[m].off \in Nat /\ c.blocks[m].lOff \in Nat /\ c.blocks[m].index \in Nat
         /\ c.blocks[m].lSize \in Nat /\ c.blocks[m].lSize <= MaxU64
         /\ MaxU64 \in Nat
<1>1. MaxU64 \in Nat
  BY FileAssumption
<1>2. c.blocks \in Seq(Block)
  BY DEF Call
<1>3. c.blocks[m] \in Block /\ m \in Nat \ {0}
  BY <1>2
<1> QED BY <1>1, <1>3 DEF Block, Sizes

(* Sums of sizes are numbers and grow with the parts.                      *)
LEMMA SizeToGrows ==
  ASSUME NEW c \in Call, NEW parts \in Seq(DOMAIN c.blocks)
  PROVE  /\ \A n \in 0 .. Len(parts) : SizeTo(c, parts, n) \in Nat
         /\ \A n, m \in 0 .. Len(parts) : n <= m => SizeTo(c, parts, n) <= SizeTo(c, parts, m)
<1> DEFINE N == Len(parts)
           T == {m \in 0 .. N : \E n \in 0 .. m : ~(/\ SizeTo(c, parts, m) \in Nat
                                                    /\ SizeTo(c, parts, n) \in Nat
                                                    /\ SizeTo(c, parts, n) <= SizeTo(c, parts, m))}
<1>0. N \in Nat /\ \A m \in 1 .. N : parts[m] \in DOMAIN c.blocks
  OBVIOUS
<1>1. T = {}
  <2> SUFFICES ASSUME T # {} PROVE FALSE
    OBVIOUS
  <2>1. PICK x \in T : \A y \in T : x <= y
    <3>1. \A y \in T : y \in Nat
      BY <1>0
    <3> HIDE DEF T
    <3> QED BY <3>1, LeastNatural
  <2>2. PICK n \in 0 .. x : ~(/\ SizeTo(c, parts, x) \in Nat
                              /\ SizeTo(c, parts, n) \in Nat
                              /\ SizeTo(c, parts, n) <= SizeTo(c, parts, x))
    BY <2>1
  <2>3. CASE x = 0
    <3>1. n = 0
      BY <2>3
    <3> QED BY <1>0, <2>2, <2>3, <3>1, SizeToStep
  <2>4. CASE x # 0
    <3>1. x \in 1 .. N /\ x - 1 \in 0 .. N /\ x - 1 \notin T
      BY <1>0, <2>1, <2>4
    <3>2. \A k \in 0 .. x - 1 : /\ SizeTo(c, parts, x - 1) \in Nat
                                /\ SizeTo(c, parts, k) \in Nat
                                /\ SizeTo(c, parts, k) <= SizeTo(c, parts, x - 1)
      BY <3>1
    <3>3. SizeTo(c, parts, x - 1) \in Nat
      <4>1. 0 \in 0 .. x - 1
        BY <3>1
      <4> QED BY <3>2, <4>1
    <3>4. SizeTo(c, parts, x) = SizeTo(c, parts, x - 1) + c.blocks[parts[x]].size
      BY <1>0, <3>1, SizeToStep
    <3>5. c.blocks[parts[x]].size \in Nat
      BY <1>0, <3>1, BlockFacts
    <3>6. n = x \/ n \in 0 .. x - 1
      BY <1>0, <2>1
    <3> HIDE DEF T
    <3> QED BY <2>2, <3>2, <3>3, <3>4, <3>5, <3>6
  <2> QED BY <2>3, <2>4
<1>2. ASSUME NEW m \in 0 .. N, NEW n \in 0 .. m
      PROVE  /\ SizeTo(c, parts, m) \in Nat
             /\ SizeTo(c, parts, n) <= SizeTo(c, parts, m)
  BY <1>1
<1>3. \A m \in 0 .. N : SizeTo(c, parts, m) \in Nat
  <2> TAKE m \in 0 .. N
  <2>1. m \in 0 .. m
    BY <1>0
  <2> QED BY <1>2, <2>1
<1>4. ASSUME NEW n \in 0 .. N, NEW m \in 0 .. N, n <= m
      PROVE  SizeTo(c, parts, n) <= SizeTo(c, parts, m)
  <2>1. n \in 0 .. m
    BY <1>0, <1>4
  <2> QED BY <1>2, <2>1
<1> QED BY <1>3, <1>4

(* Every byte of the sum lies in a part.                                   *)
LEMMA ByteInPart ==
  ASSUME NEW c \in Call, NEW parts \in Seq(DOMAIN c.blocks), NEW n \in 0 .. Len(parts),
         NEW k \in 1 .. SizeTo(c, parts, n)
  PROVE  \E m \in 1 .. n : SizeTo(c, parts, m - 1) < k /\ k <= SizeTo(c, parts, m)
<1> DEFINE T == {m \in 0 .. n : k <= SizeTo(c, parts, m)}
<1>0. \A m \in 0 .. Len(parts) : SizeTo(c, parts, m) \in Nat
  BY SizeToGrows
<1>1. n \in T
  BY <1>0
<1>2. PICK x \in T : \A y \in T : x <= y
  <2>1. \A y \in T : y \in Nat
    OBVIOUS
  <2> HIDE DEF T
  <2> QED BY <1>1, <2>1, LeastNatural
<1>3. x # 0
  <2>1. SizeTo(c, parts, 0) = 0
    BY SizeToStep
  <2> QED BY <1>0, <1>2, <2>1
<1>4. x \in 1 .. n /\ x - 1 \in 0 .. n /\ x - 1 \notin T /\ x - 1 \in 0 .. Len(parts)
  BY <1>2, <1>3
<1>5. SizeTo(c, parts, x - 1) < k
  BY <1>0, <1>4
<1> QED BY <1>2, <1>4, <1>5

(* k sorts before m by its key.                                            *)
Before(key, k, m) == key[k] < key[m] \/ (key[k] = key[m] /\ k < m)

(* What sorts later has more ahead of it.                                  *)
LEMMA AheadGrows ==
  ASSUME NEW S, \A x \in S : x \in Nat, IsFiniteSet(S), NEW key, \A x \in S : key[x] \in Nat,
         NEW a \in S, NEW b \in S
  PROVE  /\ Cardinality(Ahead(S, key, a)) \in 0 .. Cardinality(S) - 1
         /\ Before(key, a, b) => Cardinality(Ahead(S, key, a)) < Cardinality(Ahead(S, key, b))
<1>1. \A x \in S : IsFiniteSet(Ahead(S, key, x)) /\ Cardinality(Ahead(S, key, x)) \in Nat
  BY FS_Subset, FS_CardinalityType DEF Ahead
<1>2. Cardinality(Ahead(S, key, a)) < Cardinality(S) /\ Cardinality(S) \in Nat
  <2>1. Ahead(S, key, a) \subseteq S /\ a \notin Ahead(S, key, a)
    BY DEF Ahead
  <2> QED BY <2>1, FS_Subset, FS_CardinalityType
<1>3. ASSUME Before(key, a, b)
      PROVE  Cardinality(Ahead(S, key, a)) < Cardinality(Ahead(S, key, b))
  <2>1. \A x \in S : Before(key, x, a) => Before(key, x, b)
    BY <1>3 DEF Before
  <2>2. Ahead(S, key, a) \subseteq Ahead(S, key, b)
    BY <2>1 DEF Before, Ahead
  <2>3. a \notin Ahead(S, key, a) /\ a \in Ahead(S, key, b)
    BY <1>3 DEF Before, Ahead
  <2> QED BY <1>1, <2>2, <2>3, FS_Subset
<1> QED BY <1>1, <1>2, <1>3

(* Every rank below the size of the set is an element's.                   *)
LEMMA RanksAreTaken ==
  ASSUME NEW S, \A x \in S : x \in Nat, IsFiniteSet(S), NEW key, \A x \in S : key[x] \in Nat
  PROVE  /\ \A n \in 0 .. Cardinality(S) - 1 : \E m \in S : Cardinality(Ahead(S, key, m)) = n
         /\ \A a, b \in S : Cardinality(Ahead(S, key, a)) = Cardinality(Ahead(S, key, b)) => a = b
<1> DEFINE N == Cardinality(S)
           rank == [m \in S |-> Cardinality(Ahead(S, key, m))]
<1>0. N \in Nat
  BY FS_CardinalityType
<1>1. \A m \in S : rank[m] \in 0 .. N - 1
  BY AheadGrows
<1>2. ASSUME NEW a \in S, NEW b \in S, rank[a] = rank[b] PROVE a = b
  <2>1. ~Before(key, a, b) /\ ~Before(key, b, a)
    <3>1. rank[a] \in Nat /\ rank[b] \in Nat
      BY <1>0, <1>1
    <3>2. Before(key, a, b) => rank[a] < rank[b]
      BY AheadGrows
    <3>3. Before(key, b, a) => rank[b] < rank[a]
      BY AheadGrows
    <3> HIDE DEF rank
    <3> QED BY <1>2, <3>1, <3>2, <3>3
  <2>2. a \in Nat /\ b \in Nat /\ key[a] \in Nat /\ key[b] \in Nat
    OBVIOUS
  <2> QED BY <2>1, <2>2 DEF Before
<1>3. IsFiniteSet(0 .. N - 1) /\ Cardinality(0 .. N - 1) = N
  <2>1. 0 \in Int /\ N - 1 \in Int /\ (IF 0 > N - 1 THEN 0 ELSE (N - 1) - 0 + 1) = N
    BY <1>0
  <2> HIDE DEF N
  <2> QED BY <2>1, FS_Interval
<1>4. rank \in Injection(S, 0 .. N - 1)
  <2>1. rank \in [S -> 0 .. N - 1]
    BY <1>1
  <2> HIDE DEF rank, N
  <2> QED BY <1>2, <2>1 DEF Injection, IsInjective
<1>5. rank \in Surjection(S, 0 .. N - 1)
  <2> HIDE DEF rank
  <2> QED BY <1>3, <1>4, FS_Injection
<1>6. \A n \in 0 .. N - 1 : \E m \in S : rank[m] = n
  <2> HIDE DEF rank
  <2> QED BY <1>5 DEF Surjection
<1> QED BY <1>2, <1>6

(* Sorted lists a set of numbers once each, in the order of their keys.    *)
LEMMA SortedFacts ==
  ASSUME NEW S, \A x \in S : x \in Nat, IsFiniteSet(S), NEW key, \A x \in S : key[x] \in Nat
  PROVE  /\ Cardinality(S) \in Nat
         /\ Sorted(S, key) \in Seq(S) /\ Len(Sorted(S, key)) = Cardinality(S)
         /\ \A m \in S : \E n \in 1 .. Cardinality(S) : Sorted(S, key)[n] = m
         /\ \A a, b \in 1 .. Cardinality(S) :
                a < b => Before(key, Sorted(S, key)[a], Sorted(S, key)[b])
<1> DEFINE N == Cardinality(S)
           s == Sorted(S, key)
<1>0. N \in Nat
  BY FS_CardinalityType
<1>1. ASSUME NEW n \in 1 .. N PROVE s[n] \in S /\ Cardinality(Ahead(S, key, s[n])) = n - 1
  <2>1. n - 1 \in 0 .. N - 1
    BY <1>0
  <2>2. \E m \in S : Cardinality(Ahead(S, key, m)) = n - 1
    BY <2>1, RanksAreTaken
  <2>3. s[n] = CHOOSE m \in S : Cardinality(Ahead(S, key, m)) = n - 1
    BY DEF Sorted
  <2> HIDE DEF s
  <2> QED BY <2>2, <2>3
<1>2. s \in Seq(S) /\ Len(s) = N
  <2>1. s = [n \in 1 .. N |-> s[n]]
    BY DEF Sorted
  <2> HIDE DEF s, N
  <2> QED BY <1>0, <1>1, <2>1
<1>3. ASSUME NEW m \in S PROVE \E n \in 1 .. N : s[n] = m
  <2>1. Cardinality(Ahead(S, key, m)) \in 0 .. N - 1
    BY AheadGrows
  <2>2. PICK n \in 1 .. N : Cardinality(Ahead(S, key, m)) = n - 1
    <3>1. Cardinality(Ahead(S, key, m)) + 1 \in 1 .. N
      BY <1>0, <2>1
    <3> QED BY <2>1, <3>1
  <2>3. s[n] \in S /\ Cardinality(Ahead(S, key, s[n])) = n - 1
    BY <1>1
  <2> HIDE DEF s
  <2>4. s[n] = m
    BY <2>2, <2>3, RanksAreTaken
  <2> QED BY <2>4
<1>4. ASSUME NEW a \in 1 .. N, NEW b \in 1 .. N, a < b PROVE Before(key, s[a], s[b])
  <2> HIDE DEF s
  <2>1. /\ s[a] \in S /\ Cardinality(Ahead(S, key, s[a])) = a - 1
        /\ s[b] \in S /\ Cardinality(Ahead(S, key, s[b])) = b - 1
    BY <1>1
  <2>2. ~Before(key, s[b], s[a])
    <3>1. Before(key, s[b], s[a]) => b - 1 < a - 1
      BY <2>1, AheadGrows
    <3> QED BY <1>0, <1>4, <3>1
  <2>3. s[a] # s[b]
    <3>1. a - 1 # b - 1
      BY <1>0, <1>4
    <3> QED BY <2>1, <3>1
  <2>4. s[a] \in Nat /\ s[b] \in Nat /\ key[s[a]] \in Nat /\ key[s[b]] \in Nat
    BY <2>1
  <2> QED BY <2>2, <2>3, <2>4 DEF Before
<1> QED BY <1>0, <1>2, <1>3, <1>4

(* The parts of a stream, sorted by their place or by their number.        *)
LEMMA PartsFacts ==
  ASSUME NEW c \in Call, c.seed \in DOMAIN c.blocks
  PROVE  /\ IsFiniteSet(Parts(c)) /\ Cardinality(Parts(c)) \in Nat
         /\ \A m \in Parts(c) : m \in DOMAIN c.blocks /\ m \in Nat
         /\ c.seed \in Parts(c)
<1>1. c.blocks \in Seq(Block)
  BY DEF Call
<1>2. Parts(c) \subseteq 1 .. Len(c.blocks) /\ DOMAIN c.blocks = 1 .. Len(c.blocks)
      /\ Len(c.blocks) \in Nat
  BY <1>1 DEF Parts
<1>3. IsFiniteSet(1 .. Len(c.blocks))
  BY <1>2, FS_Interval
<1>4. IsFiniteSet(Parts(c)) /\ Cardinality(Parts(c)) \in Nat
  BY <1>2, <1>3, FS_Subset, FS_CardinalityType
<1>5. c.seed \in Parts(c)
  <2>1. Seed(c) \in Block
    BY <1>1 DEF Seed
  <2> QED BY <2>1 DEF Parts, SameStream, Seed
<1> QED BY <1>2, <1>4, <1>5

ListsParts(c, parts, Key(_)) ==
    /\ parts \in Seq(DOMAIN c.blocks) /\ Len(parts) = Cardinality(Parts(c))
    /\ \A n \in 1 .. Len(parts) : parts[n] \in Parts(c)
    /\ \A m \in Parts(c) : \E n \in 1 .. Len(parts) : parts[n] = m
    /\ \A a, b \in 1 .. Len(parts) :
        a < b => \/ Key(c.blocks[parts[a]]) < Key(c.blocks[parts[b]])
                 \/ Key(c.blocks[parts[a]]) = Key(c.blocks[parts[b]]) /\ parts[a] < parts[b]
(* The two keys parts are sorted by.                                       *)
Index(b) == b.index
LOffset(b) == b.lOff

(* The two sorts list the parts by their keys.                             *)
LEMMA SortedParts ==
  ASSUME NEW c \in Call, c.seed \in DOMAIN c.blocks
  PROVE  ListsParts(c, ByIndex(c), Index) /\ ListsParts(c, ByOffset(c), LOffset)
<1>1. IsFiniteSet(Parts(c)) /\ \A m \in Parts(c) : m \in DOMAIN c.blocks /\ m \in Nat
  BY PartsFacts
<1> DEFINE ki == [m \in Parts(c) |-> c.blocks[m].index]
           ko == [m \in Parts(c) |-> c.blocks[m].lOff]
<1>2. \A m \in Parts(c) : ki[m] \in Nat /\ ko[m] \in Nat
  BY <1>1, BlockFacts
<1>3. ByIndex(c) = Sorted(Parts(c), ki) /\ ByOffset(c) = Sorted(Parts(c), ko)
  BY DEF ByIndex, ByOffset
<1>4. \A m \in Parts(c) : ki[m] = Index(c.blocks[m]) /\ ko[m] = LOffset(c.blocks[m])
  BY DEF Index, LOffset
<1> HIDE DEF ki, ko
<1>5. ListsParts(c, ByIndex(c), Index)
  <2> DEFINE s == Sorted(Parts(c), ki)
  <2>0. (\A m \in Parts(c) : m \in Nat) /\ \A m \in Parts(c) : ki[m] \in Nat
    BY <1>1, <1>2
  <2>1. /\ Cardinality(Parts(c)) \in Nat
        /\ s \in Seq(Parts(c)) /\ Len(s) = Cardinality(Parts(c))
        /\ \A m \in Parts(c) : \E n \in 1 .. Cardinality(Parts(c)) : s[n] = m
        /\ \A a, b \in 1 .. Cardinality(Parts(c)) : a < b => Before(ki, s[a], s[b])
    BY <1>1, <2>0, SortedFacts
  <2> HIDE DEF s
  <2>2. s \in Seq(DOMAIN c.blocks) /\ \A n \in 1 .. Len(s) : s[n] \in Parts(c)
    BY <1>1, <2>1
  <2>3. ListsParts(c, s, Index)
    BY <1>4, <2>1, <2>2 DEF ListsParts, Before
  <2> QED BY <1>3, <2>3 DEF s
<1>6. ListsParts(c, ByOffset(c), LOffset)
  <2> DEFINE s == Sorted(Parts(c), ko)
  <2>0. (\A m \in Parts(c) : m \in Nat) /\ \A m \in Parts(c) : ko[m] \in Nat
    BY <1>1, <1>2
  <2>1. /\ Cardinality(Parts(c)) \in Nat
        /\ s \in Seq(Parts(c)) /\ Len(s) = Cardinality(Parts(c))
        /\ \A m \in Parts(c) : \E n \in 1 .. Cardinality(Parts(c)) : s[n] = m
        /\ \A a, b \in 1 .. Cardinality(Parts(c)) : a < b => Before(ko, s[a], s[b])
    BY <1>1, <2>0, SortedFacts
  <2> HIDE DEF s
  <2>2. s \in Seq(DOMAIN c.blocks) /\ \A n \in 1 .. Len(s) : s[n] \in Parts(c)
    BY <1>1, <2>1
  <2>3. ListsParts(c, s, LOffset)
    BY <1>4, <2>1, <2>2 DEF ListsParts, Before
  <2> QED BY <1>3, <2>3 DEF s
<1> QED BY <1>5, <1>6

(* What a byte of the file can be.                                         *)
FileByte == 0 .. 255

(* The bytes of a block that lies in the file.                             *)
LEMMA BlockBytes ==
  ASSUME NEW c \in Call, NEW m \in DOMAIN c.blocks, InFile(c.blocks[m].off, c.blocks[m].size)
  PROVE  /\ Bytes(c.blocks[m]) \in Seq(FileByte)
         /\ Len(Bytes(c.blocks[m])) = c.blocks[m].size
         /\ \A j \in 1 .. c.blocks[m].size : /\ Bytes(c.blocks[m])[j] = File[c.blocks[m].off + j]
                                             /\ File[c.blocks[m].off + j] \in FileByte
<1> DEFINE off == c.blocks[m].off
           size == c.blocks[m].size
<1>1. off \in Nat /\ size \in Nat
  BY BlockFacts
<1>2. File \in Seq(FileByte) /\ Len(File) \in Nat
  BY FileAssumption DEF FileByte
<1>3. off + size <= Len(File)
  BY <1>1, <1>2 DEF InFile
<1>4. Bytes(c.blocks[m]) = SubSeq(File, off + 1, off + size)
  BY DEF Bytes
<1> HIDE DEF off, size
<1>5. SubSeq(File, off + 1, off + size) \in Seq(FileByte)
  BY <1>1, <1>2, <1>3
<1>6. Len(SubSeq(File, off + 1, off + size)) = size
  BY <1>1, <1>2, <1>3
<1>7. \A j \in 1 .. size : /\ SubSeq(File, off + 1, off + size)[j] = File[off + j]
                           /\ off + j \in 1 .. Len(File)
  BY <1>1, <1>2, <1>3
<1>8. \A j \in 1 .. size : File[off + j] \in FileByte
  BY <1>2, <1>7
<1> QED BY <1>4, <1>5, <1>6, <1>7, <1>8 DEF off, size

(* The block of a part lies in the file.                                   *)
PartInFile(c, m) == InFile(c.blocks[m].off, c.blocks[m].size)

(* What the bytes p of some parts, one after the other, are.               *)
Joined(c, parts, p) ==
    /\ p \in Seq(FileByte) /\ Len(p) = Total(c, parts)
    /\ \A n \in 1 .. Len(parts), j \in Nat :
        1 <= j /\ j <= c.blocks[parts[n]].size
            => p[SizeTo(c, parts, n - 1) + j] = File[c.blocks[parts[n]].off + j]

(* The bytes of the parts, flattened, are their bytes one after the other. *)
LEMMA FlattenedParts ==
  ASSUME NEW c \in Call, NEW parts \in Seq(DOMAIN c.blocks),
         \A n \in 1 .. Len(parts) : PartInFile(c, parts[n]),
         NEW t, t = [n \in 1 .. Len(parts) |-> Bytes(c.blocks[parts[n]])]
  PROVE  Joined(c, parts, FlattenSeq(t))
<1> DEFINE N == Len(parts)
           Upto(k) == FlattenSeq(SubSeq(t, 1, k))
           Holds1(k) ==
                /\ Upto(k) \in Seq(FileByte)
                /\ Len(Upto(k)) = SizeTo(c, parts, k)
                /\ \A n \in 1 .. k, j \in Nat :
                    1 <= j /\ j <= c.blocks[parts[n]].size
                        => Upto(k)[SizeTo(c, parts, n - 1) + j] = File[c.blocks[parts[n]].off + j]
           T == {k \in 0 .. N : ~Holds1(k)}
<1>0. N \in Nat /\ \A n \in 1 .. N : parts[n] \in DOMAIN c.blocks
  OBVIOUS
<1>1. \A n \in 1 .. N :
        /\ t[n] = Bytes(c.blocks[parts[n]])
        /\ t[n] \in Seq(FileByte)
        /\ Len(t[n]) = c.blocks[parts[n]].size
        /\ c.blocks[parts[n]].size \in Nat
        /\ \A j \in 1 .. c.blocks[parts[n]].size : t[n][j] = File[c.blocks[parts[n]].off + j]
  <2> TAKE n \in 1 .. N
  <2>1. t[n] = Bytes(c.blocks[parts[n]])
    OBVIOUS
  <2>2. parts[n] \in DOMAIN c.blocks /\ InFile(c.blocks[parts[n]].off, c.blocks[parts[n]].size)
    BY <1>0 DEF PartInFile
  <2> QED BY <2>1, <2>2, BlockBytes, BlockFacts
<1>2. t \in Seq(Seq(FileByte)) /\ Len(t) = N
  BY <1>0, <1>1
<1>3. \A k \in 0 .. N : /\ SubSeq(t, 1, k) \in Seq(Seq(FileByte)) /\ Len(SubSeq(t, 1, k)) = k
                        /\ \A i \in 1 .. k : SubSeq(t, 1, k)[i] = t[i]
  BY <1>0, <1>2
<1>4. \A k \in 0 .. N : Upto(k) \in Seq(FileByte)
  BY <1>3, FlattenType
<1>5. \A k \in 0 .. N : SizeTo(c, parts, k) \in Nat
  BY SizeToGrows
<1>6. Holds1(0)
  <2>1. SubSeq(t, 1, 0) = <<>>
    BY <1>2
  <2>2. Upto(0) = <<>>
    BY <2>1, FlattenEmpty
  <2>3. SizeTo(c, parts, 0) = 0
    BY <1>0, SizeToStep
  <2>4. <<>> \in Seq(FileByte) /\ Len(<<>>) = 0 /\ \A n \in 1 .. 0 : FALSE
    OBVIOUS
  <2> HIDE DEF Upto
  <2> QED BY <2>2, <2>3, <2>4
<1>7. ASSUME NEW k \in 0 .. N - 1, Holds1(k) PROVE Holds1(k + 1)
  <2>0. k \in 0 .. N /\ k + 1 \in 1 .. N /\ k + 1 \in 0 .. N /\ k \in Nat
        /\ k + 1 \in 1 .. k + 1 /\ k + 1 - 1 = k /\ \A i \in 1 .. k : i \in 1 .. k + 1
    BY <1>0
  <2> DEFINE s == SubSeq(t, 1, k)
             u == SubSeq(t, 1, k + 1)
  <2>1. /\ s \in Seq(Seq(FileByte)) /\ u \in Seq(Seq(FileByte)) /\ Len(s) = k /\ Len(u) = k + 1
        /\ \A i \in 1 .. k : s[i] = t[i]
        /\ \A i \in 1 .. k + 1 : u[i] = t[i]
    BY <1>3, <2>0
  <2>2. FlattenSeq(u) = FlattenSeq(s) \o t[k + 1]
    <3> HIDE DEF s, u
    <3>1. Len(u) = Len(s) + 1 /\ (\A i \in 1 .. Len(s) : u[i] = s[i]) /\ u[Len(u)] = t[k + 1]
      BY <2>0, <2>1
    <3>2. FlattenSeq(u) = FlattenSeq(s) \o u[Len(u)]
      BY <2>1, <3>1, FlattenStep
    <3> QED BY <3>1, <3>2
  <2> DEFINE a == Upto(k)
             b == Upto(k + 1)
             size == c.blocks[parts[k + 1]].size
             off == c.blocks[parts[k + 1]].off
  <2>3. b = a \o t[k + 1]
    BY <2>2
  <2>4. a \in Seq(FileByte) /\ Len(a) = SizeTo(c, parts, k)
    BY <1>7
  <2>5. t[k + 1] \in Seq(FileByte) /\ Len(t[k + 1]) = size /\ size \in Nat
        /\ \A j \in 1 .. size : t[k + 1][j] = File[off + j]
    BY <1>1, <2>0
  <2>6. SizeTo(c, parts, k + 1) = SizeTo(c, parts, k) + size /\ SizeTo(c, parts, k) \in Nat
    <3> HIDE DEF Holds1, a, b, s, u, Upto, size
    <3>1. SizeTo(c, parts, k + 1) = SizeTo(c, parts, k + 1 - 1) + size
      <4>1. \A n \in 1 .. N : SizeTo(c, parts, n)
                            = SizeTo(c, parts, n - 1) + c.blocks[parts[n]].size
        BY <1>0, SizeToStep
      <4> QED BY <2>0, <4>1 DEF size
    <3> QED BY <1>5, <2>0, <3>1
  <2>7. \A n \in 1 .. k, j \in Nat :
            1 <= j /\ j <= c.blocks[parts[n]].size
                => a[SizeTo(c, parts, n - 1) + j] = File[c.blocks[parts[n]].off + j]
    BY <1>7
  <2>8. b \in Seq(FileByte)
    BY <1>4, <2>0
  <2> HIDE DEF a, b, size, off, Holds1
  <2>9. Len(b) = SizeTo(c, parts, k + 1)
    <3>1. Len(b) = Len(a) + Len(t[k + 1])
      BY <2>3, <2>4, <2>5
    <3> QED BY <2>4, <2>5, <2>6, <3>1
  <2>10. \A i \in 1 .. Len(a) : b[i] = a[i]
    BY <2>3, <2>4, <2>5
  <2>11. \A j \in 1 .. size : b[Len(a) + j] = t[k + 1][j]
    BY <2>3, <2>4, <2>5
  <2>12. ASSUME NEW n \in 1 .. k + 1, NEW j \in Nat, 1 <= j, j <= c.blocks[parts[n]].size
         PROVE  b[SizeTo(c, parts, n - 1) + j] = File[c.blocks[parts[n]].off + j]
    <3>1. CASE n = k + 1
      <4>1. n - 1 = k /\ j \in 1 .. size
        BY <2>0, <2>12, <3>1 DEF size
      <4>2. b[SizeTo(c, parts, k) + j] = File[off + j]
        BY <2>4, <2>5, <2>11, <4>1
      <4> QED BY <3>1, <4>1, <4>2 DEF off
    <3>2. CASE n # k + 1
      <4>1. n \in 1 .. k /\ n - 1 \in 0 .. N /\ n \in 0 .. N /\ n <= k /\ n \in 1 .. N
        BY <1>0, <2>0, <3>2
      <4>2. SizeTo(c, parts, n) = SizeTo(c, parts, n - 1) + c.blocks[parts[n]].size
        BY <1>0, <4>1, SizeToStep
      <4>3. SizeTo(c, parts, n) <= SizeTo(c, parts, k)
        BY <2>0, <4>1, SizeToGrows
      <4>4. SizeTo(c, parts, n) \in Nat /\ SizeTo(c, parts, n - 1) \in Nat
        BY <1>5, <4>1
      <4>5. c.blocks[parts[n]].size \in Nat
        BY <1>1, <4>1
      <4>6. SizeTo(c, parts, n - 1) + j \in 1 .. Len(a)
        BY <2>4, <2>6, <2>12, <4>2, <4>3, <4>4, <4>5
      <4>7. a[SizeTo(c, parts, n - 1) + j] = File[c.blocks[parts[n]].off + j]
        BY <2>7, <2>12, <4>1
      <4> QED BY <2>10, <4>6, <4>7
    <3> QED BY <3>1, <3>2
  <2> QED BY <2>8, <2>9, <2>12 DEF Holds1, b
<1>8. T = {}
  <2> HIDE DEF Holds1
  <2> SUFFICES ASSUME T # {} PROVE FALSE
    OBVIOUS
  <2>1. PICK x \in T : \A y \in T : x <= y
    <3>1. \A y \in T : y \in Nat
      BY <1>0
    <3> HIDE DEF T
    <3> QED BY <3>1, LeastNatural
  <2>2. x # 0
    BY <1>6, <2>1
  <2>3. x - 1 \in 0 .. N - 1 /\ x - 1 \in 0 .. N /\ x - 1 \notin T /\ x - 1 + 1 = x
    BY <1>0, <2>1, <2>2
  <2>4. Holds1(x - 1)
    BY <2>3
  <2> QED BY <1>7, <2>1, <2>3, <2>4
<1>9. Holds1(N)
  <2>1. N \in 0 .. N
    BY <1>0
  <2> HIDE DEF Holds1
  <2> QED BY <1>8, <2>1
<1>10. SubSeq(t, 1, N) = t
  BY <1>2
<1> QED BY <1>9, <1>10 DEF Joined, Total

(* The payload of a call is what its parts hold, one after the other.      *)
Describes(c, parts) ==
    /\ parts \in Seq(DOMAIN c.blocks)
    /\ (\A n \in 1 .. Len(parts) : PartInFile(c, parts[n])) => Joined(c, parts, Payload(c))
    /\ (\E n \in 1 .. Len(parts) : ~PartInFile(c, parts[n])) => Payload(c) = NoPayload

(* The calls that are answered from parts.                                 *)
ByParts(c) ==
    /\ c.seed \in DOMAIN c.blocks /\ Seed(c).compression = "NONE"
    /\ Seed(c).chunking # "GIF_SUB"

(* The one part of a call whose block is a range of the file.              *)
LEMMA SingleIsPayload ==
  ASSUME NEW c \in Call, ByParts(c), Seed(c).chunking = "NONE", Single(c)
  PROVE  Describes(c, <<c.seed>>)
<1> DEFINE parts == <<c.seed>>
<1>1. parts \in Seq(DOMAIN c.blocks) /\ Len(parts) = 1 /\ parts[1] = c.seed
      /\ \A n \in 1 .. Len(parts) : n = 1
  <2>1. c.seed \in DOMAIN c.blocks
    BY DEF ByParts
  <2>2. \A S : \A x \in S : <<x>> \in Seq(S) /\ Len(<<x>>) = 1 /\ <<x>>[1] = x
    OBVIOUS
  <2>3. \A n \in 1 .. 1 : n = 1
    OBVIOUS
  <2>4. parts \in Seq(DOMAIN c.blocks) /\ Len(parts) = 1 /\ parts[1] = c.seed
    BY <2>1, <2>2, Zenon
  <2> HIDE DEF parts
  <2> QED BY <2>3, <2>4
<1>2. Payload(c) = IF InFile(Seed(c).off, Seed(c).size) THEN Bytes(Seed(c)) ELSE NoPayload
  BY DEF Payload, ByParts
<1>3. Total(c, parts) = Seed(c).size /\ SizeTo(c, parts, 0) = 0
  <2>1. SizeTo(c, parts, 0) = 0 /\ SizeTo(c, parts, 1) = SizeTo(c, parts, 0) + c.blocks[parts[1]].size
    <3> HIDE DEF parts
    <3>1. 1 \in 1 .. Len(parts) /\ 1 - 1 = 0 /\ Len(parts) \in Nat
      BY <1>1
    <3> QED BY <3>1, SizeToStep
  <2>2. Seed(c).size \in Nat
    BY BlockFacts DEF ByParts, Seed
  <2> HIDE DEF parts
  <2> QED BY <1>1, <2>1, <2>2 DEF Total, Seed
<1> HIDE DEF parts
<1>4. ASSUME PartInFile(c, c.seed) PROVE Joined(c, parts, Payload(c))
  <2>1. Payload(c) = Bytes(c.blocks[c.seed])
    BY <1>2, <1>4 DEF PartInFile, Seed
  <2>2. /\ Bytes(c.blocks[c.seed]) \in Seq(FileByte)
        /\ Len(Bytes(c.blocks[c.seed])) = c.blocks[c.seed].size
        /\ c.blocks[c.seed].size \in Nat
        /\ \A j \in 1 .. c.blocks[c.seed].size :
                Bytes(c.blocks[c.seed])[j] = File[c.blocks[c.seed].off + j]
    BY <1>4, BlockBytes, BlockFacts DEF PartInFile, ByParts
  <2>3. ASSUME NEW n \in 1 .. Len(parts), NEW j \in Nat, 1 <= j, j <= c.blocks[parts[n]].size
        PROVE  Payload(c)[SizeTo(c, parts, n - 1) + j] = File[c.blocks[parts[n]].off + j]
    <3>1. n = 1 /\ n - 1 = 0 /\ parts[n] = c.seed /\ SizeTo(c, parts, n - 1) + j = j
      BY <1>1, <1>3
    <3>2. j \in 1 .. c.blocks[c.seed].size
      BY <2>2, <2>3, <3>1
    <3> QED BY <2>1, <2>2, <3>1, <3>2
  <2> QED BY <1>3, <2>1, <2>2, <2>3 DEF Joined, Seed
<1>5. ASSUME ~PartInFile(c, c.seed) PROVE Payload(c) = NoPayload
  BY <1>2, <1>5 DEF PartInFile, Seed
<1>6. \A n \in 1 .. Len(parts) : parts[n] = c.seed
  BY <1>1
<1>7. 1 \in 1 .. Len(parts)
  BY <1>1
<1> QED BY <1>1, <1>4, <1>5, <1>6, <1>7 DEF Describes, parts

-----------------------------------------------------------------------------
(* Numbered parts.                                                         *)
InOrder(c) ==
    /\ Seed(c).count # 0 /\ Cardinality(Parts(c)) = Seed(c).count
    /\ \A n \in 1 .. Len(ByIndex(c)) : Numbered(c, ByIndex(c)[n], n)

(* Numbers from 0, as many as there are parts, sort by their value.        *)
LEMMA NumbersAreInOrder ==
  ASSUME NEW c \in Call, c.seed \in DOMAIN c.blocks, Cardinality(Parts(c)) = Seed(c).count,
         Seed(c).count # 0, {c.blocks[m].index : m \in Parts(c)} = 0 .. Seed(c).count - 1
  PROVE  /\ InOrder(c)
         /\ \A m, n \in Parts(c) : c.blocks[m].index = c.blocks[n].index => m = n
<1> DEFINE N == Seed(c).count
           f == [m \in Parts(c) |-> c.blocks[m].index]
           parts == ByIndex(c)
           num(n) == c.blocks[parts[n]].index
<1>1. IsFiniteSet(Parts(c)) /\ Cardinality(Parts(c)) = N /\ N \in Nat \ {0}
  <2>1. IsFiniteSet(Parts(c)) /\ Cardinality(Parts(c)) \in Nat
    BY PartsFacts
  <2> QED BY <2>1
<1>2. f \in Surjection(Parts(c), 0 .. N - 1)
  <2>1. \A m \in Parts(c) : f[m] \in 0 .. N - 1
    OBVIOUS
  <2>2. \A k \in 0 .. N - 1 : \E m \in Parts(c) : f[m] = k
    OBVIOUS
  <2>3. f \in [Parts(c) -> 0 .. N - 1]
    BY <2>1
  <2> HIDE DEF f, N
  <2> QED BY <2>2, <2>3 DEF Surjection
<1>3. Cardinality(0 .. N - 1) = N
  <2>1. 0 \in Int /\ N - 1 \in Int /\ (IF 0 > N - 1 THEN 0 ELSE (N - 1) - 0 + 1) = N
    BY <1>1
  <2> HIDE DEF N
  <2> QED BY <2>1, FS_Interval
<1>4. f \in Injection(Parts(c), 0 .. N - 1)
  <2> HIDE DEF f, N
  <2> QED BY <1>1, <1>2, <1>3, FS_SurjSameCardinalityImpliesInj
<1>5. \A m, n \in Parts(c) : f[m] = f[n] => m = n
  <2> HIDE DEF f, N
  <2> QED BY <1>4 DEF Injection, IsInjective
<1>6. \A m, n \in Parts(c) : c.blocks[m].index = c.blocks[n].index => m = n
  BY <1>5
<1>7. \A k \in 0 .. N - 1 : \E m \in Parts(c) : c.blocks[m].index = k
  OBVIOUS
<1>8. \A m \in Parts(c) : c.blocks[m].index \in 0 .. N - 1
  OBVIOUS
<1>9. ListsParts(c, parts, Index)
  BY SortedParts
<1> HIDE DEF N, f, parts
<1>10. /\ Len(parts) = N
       /\ \A n \in 1 .. N : parts[n] \in Parts(c) /\ parts[n] \in Nat
       /\ \A m \in Parts(c) : \E n \in 1 .. N : parts[n] = m
  <2>1. \A m \in Parts(c) : m \in Nat
    BY PartsFacts
  <2> QED BY <1>1, <1>9, <2>1 DEF ListsParts
<1>11. \A n \in 1 .. N : num(n) \in 0 .. N - 1
  BY <1>8, <1>10
<1>12. ASSUME NEW a \in 1 .. N, NEW b \in 1 .. N, a < b PROVE num(a) < num(b)
  <2>1. num(a) < num(b) \/ (num(a) = num(b) /\ parts[a] < parts[b])
    BY <1>9, <1>10, <1>12 DEF ListsParts, Index
  <2>2. parts[a] < parts[b] => parts[a] # parts[b]
    BY <1>10
  <2>3. num(a) = num(b) => parts[a] = parts[b]
    BY <1>6, <1>10
  <2> QED BY <2>1, <2>2, <2>3
<1> DEFINE T == {n \in 1 .. N : num(n) # n - 1}
<1>13. ASSUME NEW k \in 0 .. N - 1 PROVE \E n \in 1 .. N : num(n) = k
  <2>1. PICK m \in Parts(c) : c.blocks[m].index = k
    BY <1>7
  <2>2. PICK n \in 1 .. N : parts[n] = m
    BY <1>10
  <2> QED BY <2>1, <2>2
<1> HIDE DEF num
<1>14. T = {}
  <2> SUFFICES ASSUME T # {} PROVE FALSE
    OBVIOUS
  <2>1. PICK x \in T : \A y \in T : x <= y
    <3>1. \A y \in T : y \in Nat
      OBVIOUS
    <3> HIDE DEF T
    <3> QED BY <3>1, LeastNatural
  <2>2. x \in 1 .. N /\ num(x) # x - 1 /\ x - 1 \in 0 .. N - 1
    BY <1>1, <2>1
  <2>3. \A y \in 1 .. N : y < x => num(y) = y - 1
    BY <1>1, <2>1
  <2>4. PICK y \in 1 .. N : num(y) = x - 1
    BY <1>13, <2>2
  <2>5. x < y
    BY <2>2, <2>3, <2>4
  <2>6. num(x) < x - 1 /\ num(x) \in 0 .. N - 1
    BY <1>11, <1>12, <2>2, <2>4, <2>5
  <2> DEFINE z == num(x) + 1
  <2>7. z \in 1 .. N /\ z < x /\ z - 1 = num(x)
    BY <1>1, <2>2, <2>6
  <2>8. num(z) = num(x)
    BY <2>3, <2>7
  <2>9. num(z) < num(x)
    BY <1>12, <2>2, <2>7
  <2>10. num(x) \in Int
    BY <2>6
  <2> HIDE DEF z
  <2> QED BY <2>8, <2>9, <2>10
<1>15. \A n \in 1 .. N : num(n) = n - 1
  BY <1>14
<1> QED BY <1>1, <1>6, <1>10, <1>15 DEF InOrder, Numbered, num, parts, N

(* Parts in order have the numbers from 0, each once.                      *)
LEMMA InOrderIsNumbered ==
  ASSUME NEW c \in Call, c.seed \in DOMAIN c.blocks, InOrder(c)
  PROVE  /\ {c.blocks[m].index : m \in Parts(c)} = 0 .. Seed(c).count - 1
         /\ Len(ByIndex(c)) = Seed(c).count
         /\ \A n \in 1 .. Seed(c).count :
                (CHOOSE m \in Parts(c) : c.blocks[m].index = n - 1) = ByIndex(c)[n]
         /\ \A n \in 1 .. Seed(c).count : ByIndex(c)[n] \in Parts(c)
         /\ \A m \in Parts(c) : \E n \in 1 .. Seed(c).count : ByIndex(c)[n] = m
<1> DEFINE N == Seed(c).count
           parts == ByIndex(c)
<1>1. ListsParts(c, parts, Index)
  BY SortedParts
<1>2. N \in Nat \ {0} /\ Cardinality(Parts(c)) = N
  <2>1. Cardinality(Parts(c)) \in Nat
    BY PartsFacts
  <2> QED BY <2>1 DEF InOrder
<1>3. /\ Len(parts) = N
      /\ \A n \in 1 .. N : parts[n] \in Parts(c) /\ c.blocks[parts[n]].index = n - 1
      /\ \A m \in Parts(c) : \E n \in 1 .. N : parts[n] = m
  BY <1>1, <1>2 DEF ListsParts, InOrder, Numbered
<1> HIDE DEF N, parts
<1>4. {c.blocks[m].index : m \in Parts(c)} = 0 .. N - 1
  <2>1. ASSUME NEW m \in Parts(c) PROVE c.blocks[m].index \in 0 .. N - 1
    <3>1. PICK n \in 1 .. N : parts[n] = m
      BY <1>3
    <3>2. n - 1 \in 0 .. N - 1
      BY <1>2
    <3> QED BY <1>3, <3>1, <3>2
  <2>2. ASSUME NEW k \in 0 .. N - 1 PROVE \E m \in Parts(c) : c.blocks[m].index = k
    <3>1. k + 1 \in 1 .. N /\ k + 1 - 1 = k
      BY <1>2
    <3> QED BY <1>3, <3>1
  <2> QED BY <2>1, <2>2
<1>5. ASSUME NEW n \in 1 .. N
      PROVE  (CHOOSE m \in Parts(c) : c.blocks[m].index = n - 1) = parts[n]
  <2>1. ASSUME NEW m \in Parts(c), c.blocks[m].index = n - 1 PROVE m = parts[n]
    <3>1. PICK i \in 1 .. N : parts[i] = m
      BY <1>3
    <3>2. i - 1 = n - 1
      BY <1>3, <2>1, <3>1
    <3>3. i = n
      BY <1>2, <3>2
    <3> QED BY <3>1, <3>3
  <2> QED BY <1>3, <2>1
<1> QED BY <1>3, <1>4, <1>5 DEF N, parts

(* Those whose parts are numbered.                                         *)
ByNumber(c) ==
    /\ ByParts(c) /\ Seed(c).chunking # "XMP_EXT"
    /\ ~(Seed(c).chunking = "NONE" /\ Single(c))

(* Parts whose numbers are their ranks hold the payload in their order.    *)
LEMMA InOrderIsPayload ==
  ASSUME NEW c \in Call, ByNumber(c), InOrder(c)
  PROVE  Describes(c, ByIndex(c))
<1> DEFINE N == Seed(c).count
           parts == ByIndex(c)
<1>1. c.seed \in DOMAIN c.blocks /\ Payload(c) = NumberedPayload(c)
  BY DEF ByNumber, ByParts, Payload
<1>2. /\ {c.blocks[m].index : m \in Parts(c)} = 0 .. N - 1
      /\ Len(parts) = N
      /\ \A n \in 1 .. N : (CHOOSE m \in Parts(c) : c.blocks[m].index = n - 1) = parts[n]
      /\ \A n \in 1 .. N : parts[n] \in Parts(c)
      /\ \A m \in Parts(c) : \E n \in 1 .. N : parts[n] = m
  BY <1>1, InOrderIsNumbered
<1>3. parts \in Seq(DOMAIN c.blocks)
  BY <1>1, SortedParts DEF ListsParts
<1>4. N # 0 /\ Cardinality(Parts(c)) = N
  BY DEF InOrder
<1> HIDE DEF N, parts
<1>5. Payload(c) =
        IF \E m \in Parts(c) : ~PartInFile(c, m) THEN NoPayload
        ELSE FlattenSeq([n \in 1 .. N |->
                    Bytes(c.blocks[CHOOSE m \in Parts(c) : c.blocks[m].index = n - 1])])
  BY <1>1, <1>2, <1>4 DEF NumberedPayload, PartInFile, N
<1>6. [n \in 1 .. N |-> Bytes(c.blocks[CHOOSE m \in Parts(c) : c.blocks[m].index = n - 1])]
      = [n \in 1 .. Len(parts) |-> Bytes(c.blocks[parts[n]])]
  <2>1. \A n \in 1 .. N :
            Bytes(c.blocks[CHOOSE m \in Parts(c) : c.blocks[m].index = n - 1])
            = Bytes(c.blocks[parts[n]])
    BY <1>2
  <2>2. 1 .. N = 1 .. Len(parts)
    BY <1>2
  <2> QED BY <2>1, <2>2, Zenon
<1>7. ASSUME \A n \in 1 .. Len(parts) : PartInFile(c, parts[n])
      PROVE  Joined(c, parts, Payload(c))
  <2>1. ~ \E m \in Parts(c) : ~PartInFile(c, m)
    BY <1>2, <1>7
  <2> DEFINE t == [n \in 1 .. Len(parts) |-> Bytes(c.blocks[parts[n]])]
  <2>2. Payload(c) = FlattenSeq(t)
    BY <1>5, <1>6, <2>1
  <2>3. Joined(c, parts, FlattenSeq(t))
    BY <1>3, <1>7, FlattenedParts
  <2> QED BY <2>2, <2>3
<1>8. ASSUME NEW n \in 1 .. Len(parts), ~PartInFile(c, parts[n])
      PROVE  Payload(c) = NoPayload
  BY <1>2, <1>5, <1>8
<1> QED BY <1>3, <1>7, <1>8 DEF Describes, parts

(* The parts that hold byte k.                                             *)
Holders(c, k) == {m \in Parts(c) : Holds(c.blocks[m], k)}

(* Placed parts that cover what they should, each byte once.               *)
CoversOnce(c) ==
    /\ \A m \in Parts(c) : /\ c.blocks[m].lSize = Seed(c).lSize
                           /\ c.blocks[m].lOff + c.blocks[m].size <= Seed(c).lSize
                           /\ ~Stray(c, m)
    /\ \A k \in 1 .. Seed(c).lSize : Cardinality(Holders(c, k)) = 1

(* Placed parts each of which begins where the one before it ends.         *)
Contiguous(c) ==
    /\ \A n \in 1 .. Len(ByOffset(c)) : Adjoins(c, ByOffset(c)[n], n)
    /\ Total(c, ByOffset(c)) = Seed(c).lSize

(* Only one is named, where there is only one.                             *)
LEMMA OneHolder ==
  ASSUME NEW c \in Call, c.seed \in DOMAIN c.blocks, NEW k
  PROVE  Cardinality(Holders(c, k)) = 1 <=> \E m : Holders(c, k) = {m}
<1>1. IsFiniteSet(Parts(c))
  BY PartsFacts
<1>2. IsFiniteSet(Holders(c, k))
  BY <1>1, FS_Subset DEF Holders
<1> QED BY <1>2, FS_Singleton

(* What the proofs about placed parts know of their blocks and sums.       *)
LEMMA PlacedFacts ==
  ASSUME NEW c \in Call, c.seed \in DOMAIN c.blocks, NEW parts, parts = ByOffset(c)
  PROVE  /\ parts \in Seq(DOMAIN c.blocks) /\ Len(parts) \in Nat
         /\ \A n \in 1 .. Len(parts) :
                /\ parts[n] \in Parts(c) /\ parts[n] \in DOMAIN c.blocks /\ parts[n] \in Nat
                /\ SizeTo(c, parts, n) = SizeTo(c, parts, n - 1) + c.blocks[parts[n]].size
         /\ \A n \in 0 .. Len(parts) : SizeTo(c, parts, n) \in Nat
         /\ \A n, m \in 0 .. Len(parts) : n <= m => SizeTo(c, parts, n) <= SizeTo(c, parts, m)
         /\ \A m \in Parts(c) :
                /\ m \in Nat /\ c.blocks[m].size \in Nat /\ c.blocks[m].lOff \in Nat
                /\ \E n \in 1 .. Len(parts) : parts[n] = m
         /\ \A a, b \in 1 .. Len(parts) :
              a < b => \/ c.blocks[parts[a]].lOff < c.blocks[parts[b]].lOff
                       \/ c.blocks[parts[a]].lOff = c.blocks[parts[b]].lOff /\ parts[a] < parts[b]
         /\ Seed(c).lSize \in Nat
         /\ SizeTo(c, parts, 0) = 0
<1>1. ListsParts(c, parts, LOffset)
  BY SortedParts
<1>2. parts \in Seq(DOMAIN c.blocks) /\ Len(parts) \in Nat
  BY <1>1 DEF ListsParts
<1>3. \A m \in Parts(c) : m \in DOMAIN c.blocks /\ m \in Nat
  BY PartsFacts
<1>4. \A m \in Parts(c) : c.blocks[m].size \in Nat /\ c.blocks[m].lOff \in Nat
  BY <1>3, BlockFacts
<1>5. Seed(c).lSize \in Nat
  BY BlockFacts DEF Seed
<1>6. /\ \A m \in Parts(c) : \E n \in 1 .. Len(parts) : parts[n] = m
      /\ \A n \in 1 .. Len(parts) : parts[n] \in Parts(c)
      /\ \A a, b \in 1 .. Len(parts) :
              a < b => \/ c.blocks[parts[a]].lOff < c.blocks[parts[b]].lOff
                       \/ c.blocks[parts[a]].lOff = c.blocks[parts[b]].lOff /\ parts[a] < parts[b]
  BY <1>1 DEF ListsParts, LOffset
<1>7. /\ SizeTo(c, parts, 0) = 0
      /\ \A n \in 1 .. Len(parts) :
            SizeTo(c, parts, n) = SizeTo(c, parts, n - 1) + c.blocks[parts[n]].size
  BY <1>2, SizeToStep
<1>8. /\ \A n \in 0 .. Len(parts) : SizeTo(c, parts, n) \in Nat
      /\ \A n, m \in 0 .. Len(parts) : n <= m => SizeTo(c, parts, n) <= SizeTo(c, parts, m)
  BY <1>2, SizeToGrows
<1> QED BY <1>2, <1>3, <1>4, <1>5, <1>6, <1>7, <1>8

(* Where parts adjoin, a byte is held by the part its sums say.            *)
LEMMA HeldByOne ==
  ASSUME NEW c \in Call, c.seed \in DOMAIN c.blocks, NEW parts, parts = ByOffset(c),
         NEW e \in 0 .. Len(parts),
         \A n \in 1 .. e : c.blocks[parts[n]].lOff = SizeTo(c, parts, n - 1),
         NEW i \in 1 .. e, NEW k \in Nat
  PROVE  Holds(c.blocks[parts[i]], k)
            <=> SizeTo(c, parts, i - 1) < k /\ k <= SizeTo(c, parts, i)
<1>1. i \in 1 .. Len(parts) /\ i - 1 \in 0 .. Len(parts) /\ i \in 0 .. Len(parts)
  <2>1. Len(parts) \in Nat
    BY PlacedFacts
  <2> QED BY <2>1
<1>2. /\ SizeTo(c, parts, i) = SizeTo(c, parts, i - 1) + c.blocks[parts[i]].size
      /\ SizeTo(c, parts, i) \in Nat /\ SizeTo(c, parts, i - 1) \in Nat
      /\ parts[i] \in Parts(c)
  BY <1>1, PlacedFacts
<1>3. c.blocks[parts[i]].size \in Nat
  BY <1>2, PlacedFacts
<1>4. c.blocks[parts[i]].lOff = SizeTo(c, parts, i - 1)
  OBVIOUS
<1> QED BY <1>2, <1>3, <1>4 DEF Holds

(* Parts that adjoin hold each byte once, and none is stray.               *)
LEMMA ContiguousCovers ==
  ASSUME NEW c \in Call, c.seed \in DOMAIN c.blocks, Contiguous(c)
  PROVE  /\ CoversOnce(c)
         /\ \A n \in 1 .. Len(ByOffset(c)), k \in Nat :
                SizeTo(c, ByOffset(c), n - 1) < k /\ k <= SizeTo(c, ByOffset(c), n)
                    => Holders(c, k) = {ByOffset(c)[n]}
<1> DEFINE parts == ByOffset(c)
           N == Len(parts)
           sum(n) == SizeTo(c, parts, n)
           blk(n) == c.blocks[parts[n]]
<1>1. /\ N \in Nat
      /\ \A n \in 1 .. N : /\ parts[n] \in Parts(c) /\ parts[n] \in DOMAIN c.blocks /\ parts[n] \in Nat
                           /\ sum(n) = sum(n - 1) + blk(n).size
      /\ \A n \in 0 .. N : sum(n) \in Nat
      /\ \A n, m \in 0 .. N : n <= m => sum(n) <= sum(m)
      /\ \A m \in Parts(c) : /\ m \in Nat /\ c.blocks[m].size \in Nat /\ c.blocks[m].lOff \in Nat
                             /\ \E n \in 1 .. N : parts[n] = m
      /\ \A a, b \in 1 .. N :
              a < b => blk(a).lOff < blk(b).lOff \/ (blk(a).lOff = blk(b).lOff /\ parts[a] < parts[b])
      /\ Seed(c).lSize \in Nat
  <2> HIDE DEF parts
  <2>1. parts = ByOffset(c)
    BY DEF parts
  <2>2. /\ Len(parts) \in Nat /\ Seed(c).lSize \in Nat
        /\ \A n \in 0 .. Len(parts) : SizeTo(c, parts, n) \in Nat
        /\ \A n, m \in 0 .. Len(parts) : n <= m => SizeTo(c, parts, n) <= SizeTo(c, parts, m)
    BY <2>1, PlacedFacts
  <2>3. \A n \in 1 .. Len(parts) :
            /\ parts[n] \in Parts(c) /\ parts[n] \in DOMAIN c.blocks /\ parts[n] \in Nat
            /\ SizeTo(c, parts, n) = SizeTo(c, parts, n - 1) + c.blocks[parts[n]].size
    BY <2>1, PlacedFacts
  <2>4. \A m \in Parts(c) :
            /\ m \in Nat /\ c.blocks[m].size \in Nat /\ c.blocks[m].lOff \in Nat
            /\ \E n \in 1 .. Len(parts) : parts[n] = m
    BY <2>1, PlacedFacts
  <2>5. \A a, b \in 1 .. Len(parts) :
              a < b => \/ c.blocks[parts[a]].lOff < c.blocks[parts[b]].lOff
                       \/ c.blocks[parts[a]].lOff = c.blocks[parts[b]].lOff /\ parts[a] < parts[b]
    <3>1. ListsParts(c, parts, LOffset)
      BY <2>1, SortedParts
    <3> QED BY <3>1 DEF ListsParts, LOffset
  <2> QED BY <2>2, <2>3, <2>4, <2>5
<1>2. \A n \in 1 .. N : blk(n).lOff = sum(n - 1) /\ blk(n).lSize = Seed(c).lSize
  BY DEF Contiguous, Adjoins
<1>3. sum(N) = Seed(c).lSize
  BY DEF Contiguous, Total
<1>4. \A i \in 1 .. N, k \in Nat : Holds(blk(i), k) <=> sum(i - 1) < k /\ k <= sum(i)
  <2>1. N \in 0 .. N /\ parts = ByOffset(c)
    BY <1>1
  <2> HIDE DEF parts
  <2> QED BY <1>2, <2>1, HeldByOne
<1>5. \A n \in 1 .. N : n \in 0 .. N /\ n - 1 \in 0 .. N
  BY <1>1
<1>6. \A k \in 1 .. sum(N) : \E m \in 1 .. N : sum(m - 1) < k /\ k <= sum(m)
  <2>1. parts \in Seq(DOMAIN c.blocks) /\ N \in 0 .. N
    BY <1>1, PlacedFacts
  <2> HIDE DEF parts
  <2> QED BY <2>1, ByteInPart
<1>7. ASSUME NEW i \in 1 .. N, NEW j \in 1 .. N, NEW k \in Nat,
             sum(i - 1) < k, k <= sum(i), sum(j - 1) < k, k <= sum(j)
      PROVE  i = j
  <2>1. sum(i - 1) \in Nat /\ sum(i) \in Nat /\ sum(j - 1) \in Nat /\ sum(j) \in Nat
    BY <1>1, <1>5
  <2>2. ~(i < j)
    <3>1. i < j => i <= j - 1
      OBVIOUS
    <3>2. i <= j - 1 => sum(i) <= sum(j - 1)
      BY <1>1, <1>5
    <3> HIDE DEF sum
    <3> QED BY <1>7, <2>1, <3>1, <3>2
  <2>3. ~(j < i)
    <3>1. j < i => j <= i - 1
      OBVIOUS
    <3>2. j <= i - 1 => sum(j) <= sum(i - 1)
      BY <1>1, <1>5
    <3> HIDE DEF sum
    <3> QED BY <1>7, <2>1, <3>1, <3>2
  <2> QED BY <2>2, <2>3
<1> HIDE DEF sum, parts, N
<1>8. ASSUME NEW n \in 1 .. N, NEW k \in Nat, sum(n - 1) < k, k <= sum(n)
      PROVE  Holders(c, k) = {parts[n]}
  <2>1. parts[n] \in Holders(c, k)
    BY <1>1, <1>4, <1>8 DEF Holders
  <2>2. ASSUME NEW m \in Holders(c, k) PROVE m = parts[n]
    <3>1. m \in Parts(c) /\ Holds(c.blocks[m], k)
      BY DEF Holders
    <3>2. PICK i \in 1 .. N : parts[i] = m
      BY <1>1, <3>1
    <3>3. sum(i - 1) < k /\ k <= sum(i)
      BY <1>4, <3>1, <3>2
    <3>4. i = n
      BY <1>7, <1>8, <3>3
    <3> QED BY <3>2, <3>4
  <2> QED BY <2>1, <2>2
<1>9. ASSUME NEW k \in 1 .. Seed(c).lSize PROVE Cardinality(Holders(c, k)) = 1
  <2>1. k \in Nat /\ k \in 1 .. sum(N)
    BY <1>1, <1>3
  <2>2. PICK m \in 1 .. N : sum(m - 1) < k /\ k <= sum(m)
    BY <1>6, <2>1
  <2>3. Holders(c, k) = {parts[m]}
    BY <1>8, <2>1, <2>2
  <2> QED BY <2>3, OneHolder
<1>10. ASSUME NEW m \in Parts(c)
       PROVE  /\ c.blocks[m].lSize = Seed(c).lSize
              /\ c.blocks[m].lOff + c.blocks[m].size <= Seed(c).lSize
              /\ ~Stray(c, m)
  <2>1. PICK i \in 1 .. N : parts[i] = m
    BY <1>1
  <2>2. c.blocks[m].lSize = Seed(c).lSize /\ c.blocks[m].lOff = sum(i - 1)
    BY <1>2, <2>1
  <2>3. sum(i) = sum(i - 1) + c.blocks[m].size
    BY <1>1, <2>1
  <2>4. sum(i) <= sum(N)
    BY <1>1, <1>5
  <2>5. ~Stray(c, m)
    <3> SUFFICES ASSUME Stray(c, m) PROVE FALSE
      OBVIOUS
    <3>1. PICK k \in Parts(c) :
            /\ c.blocks[k].size # 0
            /\ c.blocks[m].lOff - c.blocks[k].lOff
                    \in (IF k < m THEN 0 ELSE 1) .. c.blocks[k].size - 1
      BY DEF Stray
    <3>2. PICK j \in 1 .. N : parts[j] = k
      BY <1>1
    <3>3. c.blocks[k].lOff = sum(j - 1) /\ sum(j) = sum(j - 1) + c.blocks[k].size
      BY <1>1, <1>2, <3>2
    <3>4. /\ sum(i - 1) \in Nat /\ sum(j - 1) \in Nat /\ sum(j) \in Nat
          /\ c.blocks[k].size \in Nat /\ m \in Nat /\ k \in Nat
      BY <1>1, <1>5
    <3>5. c.blocks[m].size = 0
      BY DEF Stray
    <3>6. i # j
      BY <2>1, <3>1, <3>2, <3>5
    <3>7. CASE i < j
      <4>1. sum(i - 1) <= sum(j - 1)
        <5>1. i - 1 <= j - 1
          BY <3>7
        <5> QED BY <1>1, <1>5, <5>1
      <4>2. c.blocks[m].lOff = c.blocks[k].lOff /\ k < m
        <5>1. sum(i - 1) - sum(j - 1) >= (IF k < m THEN 0 ELSE 1)
          BY <2>2, <3>1, <3>3, <3>4
        <5> QED BY <2>2, <3>3, <3>4, <4>1, <5>1
      <4>3. m < k
        BY <1>1, <2>1, <3>2, <3>4, <3>7, <4>2
      <4> QED BY <3>4, <4>2, <4>3
    <3>8. CASE j < i
      <4>1. sum(j) <= sum(i - 1)
        <5>1. j <= i - 1
          BY <3>8
        <5> QED BY <1>1, <1>5, <5>1
      <4>2. sum(i - 1) - sum(j - 1) <= c.blocks[k].size - 1
        BY <2>2, <3>1, <3>3, <3>4
      <4> QED BY <3>3, <3>4, <4>1, <4>2
    <3> QED BY <3>6, <3>7, <3>8
  <2> QED BY <1>3, <2>2, <2>3, <2>4, <2>5
<1>11. CoversOnce(c)
  BY <1>9, <1>10 DEF CoversOnce
<1> QED BY <1>8, <1>11 DEF sum, parts, N

(* The part at n begins where those before it end, if these adjoin.        *)
LEMMA NextAdjoins ==
  ASSUME NEW c \in Call, c.seed \in DOMAIN c.blocks, CoversOnce(c), NEW parts, parts = ByOffset(c),
         NEW e \in Nat, e + 1 \in 1 .. Len(parts),
         \A n \in 1 .. e : c.blocks[parts[n]].lOff = SizeTo(c, parts, n - 1)
  PROVE  c.blocks[parts[e + 1]].lOff = SizeTo(c, parts, e)
<1> DEFINE N == Len(parts)
           S == Seed(c).lSize
           sum(n) == SizeTo(c, parts, n)
           o == c.blocks[parts[e + 1]].lOff
           size == c.blocks[parts[e + 1]].size
<1>1. /\ N \in Nat /\ e \in 0 .. N /\ e + 1 \in 1 .. N /\ \A i \in 1 .. e : i \in 1 .. N
      /\ \A i \in 1 .. e : i \in 0 .. N /\ i - 1 \in 0 .. N
  <2>1. N \in Nat
    BY PlacedFacts
  <2> QED BY <2>1
<1>2. parts[e + 1] \in Parts(c)
  BY <1>1, PlacedFacts
<1>3. o \in Nat /\ size \in Nat /\ S \in Nat /\ o + size <= S /\ ~Stray(c, parts[e + 1])
  <2>1. o \in Nat /\ size \in Nat /\ S \in Nat
    BY <1>2, PlacedFacts
  <2>2. o + size <= S /\ ~Stray(c, parts[e + 1])
    BY <1>2 DEF CoversOnce
  <2> QED BY <2>1, <2>2
<1>4. \A k \in 1 .. S, m, n \in Parts(c) :
            Holds(c.blocks[m], k) /\ Holds(c.blocks[n], k) => m = n
  <2> TAKE k \in 1 .. S, m, n \in Parts(c)
  <2>1. PICK x : Holders(c, k) = {x}
    BY OneHolder DEF CoversOnce
  <2> QED BY <2>1 DEF Holders
<1>5. \A k \in 1 .. S : \E m \in Parts(c) : Holds(c.blocks[m], k)
  <2> TAKE k \in 1 .. S
  <2>1. PICK x : Holders(c, k) = {x}
    BY OneHolder DEF CoversOnce
  <2> QED BY <2>1 DEF Holders
<1>6. \A i \in 1 .. e, k \in Nat : Holds(c.blocks[parts[i]], k) <=> sum(i - 1) < k /\ k <= sum(i)
  BY <1>1, HeldByOne
<1>7. \A i \in 0 .. N : sum(i) \in Nat
  BY PlacedFacts
<1>8. \A i \in 1 .. e : sum(i) <= sum(e) /\ parts[i] \in Parts(c)
  <2>1. \A i \in 1 .. e : i <= e
    OBVIOUS
  <2> QED BY <1>1, <2>1, PlacedFacts
<1>9. sum(e) \in Nat
  BY <1>1, <1>7
<1>10. \A a, b \in 1 .. N :
          a < b => \/ c.blocks[parts[a]].lOff < c.blocks[parts[b]].lOff
                   \/ c.blocks[parts[a]].lOff = c.blocks[parts[b]].lOff /\ parts[a] < parts[b]
  <2>1. ListsParts(c, parts, LOffset)
    BY SortedParts
  <2> QED BY <2>1 DEF ListsParts, LOffset
<1>11. \A i \in 1 .. e : i < e + 1
  BY <1>1
<1>12. \A k \in 1 .. sum(e) : \E i \in 1 .. e : sum(i - 1) < k /\ k <= sum(i)
  <2>1. parts \in Seq(DOMAIN c.blocks) /\ e \in 0 .. Len(parts)
    BY <1>1, PlacedFacts
  <2> QED BY <2>1, ByteInPart, Zenon
<1>13. \A m \in Parts(c) : /\ m \in Nat /\ c.blocks[m].size \in Nat /\ c.blocks[m].lOff \in Nat
                           /\ \E n \in 1 .. N : parts[n] = m
  BY PlacedFacts
<1>14. \A i \in 1 .. e : c.blocks[parts[i]].lOff = sum(i - 1)
  OBVIOUS
<1>15. \A i \in 1 .. e : sum(i) = sum(i - 1) + c.blocks[parts[i]].size
  BY <1>1, PlacedFacts
<1> DEFINE E == sum(e)
<1>15a. o = c.blocks[parts[e + 1]].lOff /\ size = c.blocks[parts[e + 1]].size /\ E = sum(e)
  OBVIOUS
<1> HIDE DEF N, S, sum, o, size, E
<1>15b. E \in Nat
  BY <1>9, <1>15a
<1>16. ~(o < E)
  <2> SUFFICES ASSUME o < E PROVE FALSE
    OBVIOUS
  <2>1. o + 1 \in 1 .. E /\ o + 1 \in Nat
    BY <1>3, <1>15b
  <2>2. PICK i \in 1 .. e : sum(i - 1) < o + 1 /\ o + 1 <= sum(i)
    BY <1>12, <1>15a, <2>1
  <2>3. Holds(c.blocks[parts[i]], o + 1)
    BY <1>6, <2>1, <2>2
  <2>4. /\ sum(i) \in Nat /\ sum(i - 1) \in Nat
        /\ parts[i] \in Parts(c) /\ c.blocks[parts[i]].size \in Nat
        /\ parts[i] \in Nat
    BY <1>1, <1>7, <1>8, <1>13
  <2>5. parts[i] # parts[e + 1]
    <3>1. i < e + 1 /\ i \in 1 .. N /\ e + 1 \in 1 .. N
      BY <1>1, <1>11
    <3>2. \/ c.blocks[parts[i]].lOff < c.blocks[parts[e + 1]].lOff
          \/ parts[i] < parts[e + 1]
      BY <1>10, <3>1
    <3> QED BY <1>3, <1>15a, <2>4, <3>2
  <2>6. CASE size # 0
    <3>1. Holds(c.blocks[parts[e + 1]], o + 1)
      <4>1. \A x, z \in Nat : z # 0 => (x + 1) - x \in 1 .. z
        OBVIOUS
      <4>2. (o + 1) - o \in 1 .. size
        BY <1>3, <2>6, <4>1
      <4>3. (o + 1) - c.blocks[parts[e + 1]].lOff \in 1 .. c.blocks[parts[e + 1]].size
        BY <1>15a, <4>2, Zenon
      <4> QED BY <4>3 DEF Holds
    <3>2. o + 1 \in 1 .. S
      BY <1>3, <2>6
    <3> QED BY <1>2, <1>4, <2>3, <2>4, <2>5, <3>1, <3>2
  <2>7. CASE size = 0
    <3> DEFINE d == o - c.blocks[parts[i]].lOff
    <3>0. c.blocks[parts[i]].lOff = sum(i - 1) /\ sum(i) = sum(i - 1) + c.blocks[parts[i]].size
      BY <1>14, <1>15
    <3>1. d = o - sum(i - 1) /\ d \in 0 .. c.blocks[parts[i]].size - 1
          /\ c.blocks[parts[i]].size # 0
      <4>1. \A q, r, z \in Nat : q < o + 1 /\ o + 1 <= r /\ r = q + z
                                => o - q \in 0 .. z - 1 /\ z # 0
        BY <1>3
      <4> HIDE DEF d
      <4>2. d = o - sum(i - 1)
        BY <3>0 DEF d
      <4> QED BY <2>2, <2>4, <3>0, <4>1, <4>2
    <3>2. d = 0 => parts[i] < parts[e + 1]
      <4>1. i < e + 1 /\ i \in 1 .. N /\ e + 1 \in 1 .. N
        BY <1>1, <1>11
      <4>2. \/ c.blocks[parts[i]].lOff < c.blocks[parts[e + 1]].lOff
            \/ parts[i] < parts[e + 1]
        BY <1>10, <4>1
      <4>3. c.blocks[parts[i]].lOff = sum(i - 1)
        BY <1>14
      <4> HIDE DEF d
      <4>4. d = 0 => o = sum(i - 1)
        BY <1>3, <2>4, <3>1
      <4>5. \A x \in Nat : ~(x < x)
        OBVIOUS
      <4> QED BY <1>3, <1>15a, <4>2, <4>3, <4>4, <4>5
    <3>3. d \in (IF parts[i] < parts[e + 1] THEN 0 ELSE 1) .. c.blocks[parts[i]].size - 1
      BY <2>4, <3>1, <3>2
    <3>4. Stray(c, parts[e + 1])
      BY <1>15a, <2>4, <2>7, <3>1, <3>3 DEF Stray
    <3> QED BY <1>3, <3>4
  <2> QED BY <2>6, <2>7
<1>17. ~(E < o)
  <2> SUFFICES ASSUME E < o PROVE FALSE
    OBVIOUS
  <2> DEFINE k == E + 1
  <2>1. k \in 1 .. S /\ k \in Nat /\ k <= o /\ E < k
    BY <1>3, <1>15b
  <2>2. PICK m \in Parts(c) : Holds(c.blocks[m], k)
    BY <1>5, <2>1
  <2>3. PICK n \in 1 .. N : parts[n] = m
    BY <1>13
  <2>4. CASE n \in 1 .. e
    <3>1. k <= sum(n) /\ sum(n) <= E
      BY <1>15a,  <1>6, <1>8, <2>1, <2>2, <2>3, <2>4
    <3>2. sum(n) \in Nat
      BY <1>1, <1>7, <2>4
    <3> QED BY <1>15b, <2>1, <3>1, <3>2
  <2>5. CASE n \notin 1 .. e
    <3>1. n = e + 1 \/ e + 1 < n
      BY <1>1, <2>5
    <3>2. o <= c.blocks[m].lOff
      <4>1. c.blocks[m].lOff \in Nat
        BY <1>13
      <4>2. CASE n = e + 1
        BY <1>3, <1>15a, <2>3, <4>2
      <4>3. CASE e + 1 < n
        <5>1. \/ o < c.blocks[parts[n]].lOff
              \/ o = c.blocks[parts[n]].lOff
          BY <1>1, <1>10, <1>15a, <4>3
        <5> QED BY <1>3, <2>3, <4>1, <5>1
      <4> QED BY <3>1, <4>2, <4>3
    <3>3. k - c.blocks[m].lOff >= 1 /\ c.blocks[m].lOff \in Nat
      BY <1>13, <2>1, <2>2 DEF Holds
    <3> QED BY <1>3, <2>1, <3>2, <3>3
  <2> QED BY <2>4, <2>5
<1>18. o = E
  BY <1>3, <1>15b, <1>16, <1>17
<1> QED BY <1>15a, <1>18 DEF sum

(* Parts that hold each byte once adjoin as they are sorted.               *)
LEMMA CoversIsContiguous ==
  ASSUME NEW c \in Call, c.seed \in DOMAIN c.blocks, CoversOnce(c)
  PROVE  Contiguous(c)
<1> DEFINE parts == ByOffset(c)
           N == Len(parts)
           Starts(n) == c.blocks[parts[n]].lOff = SizeTo(c, parts, n - 1)
           T == {n \in 1 .. N : ~Starts(n)}
<1>0. parts = ByOffset(c)
  OBVIOUS
<1> HIDE DEF parts
<1>1. N \in Nat
  BY <1>0, PlacedFacts
<1>2. T = {}
  <2> SUFFICES ASSUME T # {} PROVE FALSE
    OBVIOUS
  <2>1. PICK x \in T : \A y \in T : x <= y
    <3>1. \A y \in T : y \in Nat
      BY <1>1
    <3> HIDE DEF T
    <3> QED BY <3>1, LeastNatural
  <2> DEFINE e == x - 1
  <2>2. e \in Nat /\ e + 1 = x /\ e + 1 \in 1 .. N /\ \A n \in 1 .. e : n \in 1 .. N /\ n < x
    BY <1>1, <2>1
  <2>3. \A n \in 1 .. e : Starts(n)
    BY <1>1, <2>1, <2>2
  <2>4. ~Starts(x)
    BY <2>1
  <2>5. e = x - 1
    OBVIOUS
  <2> HIDE DEF e, T
  <2>6. c.blocks[parts[e + 1]].lOff = SizeTo(c, parts, e)
    BY <1>0, <2>2, <2>3, NextAdjoins
  <2> QED BY <2>2, <2>4, <2>5, <2>6
<1>3. \A n \in 1 .. N : Starts(n)
  BY <1>2
<1>4. \A n \in 1 .. N : Adjoins(c, parts[n], n)
  <2>1. \A n \in 1 .. N : parts[n] \in Parts(c)
    BY <1>0, PlacedFacts
  <2>2. \A n \in 1 .. N : c.blocks[parts[n]].lSize = Seed(c).lSize
    BY <2>1 DEF CoversOnce
  <2> QED BY <1>0, <1>3, <2>2 DEF Adjoins
<1> DEFINE E == SizeTo(c, parts, N)
           S == Seed(c).lSize
<1>5. E \in Nat /\ S \in Nat
  <2>1. N \in 0 .. N
    BY <1>1
  <2> QED BY <1>0, <2>1, PlacedFacts
<1>6. ~(S < E)
  <2> SUFFICES ASSUME S < E PROVE FALSE
    OBVIOUS
  <2>1. N # 0
    <3>1. SizeTo(c, parts, 0) = 0
      BY <1>0, PlacedFacts
    <3> QED BY <1>5, <3>1
  <2>2. N \in 1 .. N
    BY <1>1, <2>1
  <2>3. parts[N] \in Parts(c) /\ E = SizeTo(c, parts, N - 1) + c.blocks[parts[N]].size
    BY <1>0, <2>2, PlacedFacts
  <2>4. c.blocks[parts[N]].lOff = SizeTo(c, parts, N - 1)
    BY <1>3, <2>2
  <2>5. c.blocks[parts[N]].lOff + c.blocks[parts[N]].size <= S
    BY <2>3 DEF CoversOnce
  <2>6. E <= S
    BY <2>3, <2>4, <2>5
  <2> HIDE DEF E, S
  <2> QED BY <1>5, <2>6
<1>7. ~(E < S)
  <2> SUFFICES ASSUME E < S PROVE FALSE
    OBVIOUS
  <2> DEFINE k == E + 1
  <2>1. k \in 1 .. S /\ k \in Nat
    BY <1>5
  <2>2. PICK m : Holders(c, k) = {m}
    BY <2>1, OneHolder DEF CoversOnce
  <2>3. m \in Parts(c) /\ Holds(c.blocks[m], k)
    BY <2>2 DEF Holders
  <2>4. PICK n \in 1 .. N : parts[n] = m
    BY <1>0, <2>3, PlacedFacts
  <2>5. N \in 0 .. N /\ n \in 0 .. N /\ n <= N
    BY <1>1
  <2>6. k <= SizeTo(c, parts, n)
    BY <1>0, <1>3, <2>1, <2>3, <2>4, <2>5, HeldByOne
  <2>7. SizeTo(c, parts, n) <= E /\ SizeTo(c, parts, n) \in Nat
    BY <1>0, <2>5, PlacedFacts
  <2> QED BY <1>5, <2>6, <2>7
<1>8. E = S
  <2> HIDE DEF E, S
  <2> QED BY <1>5, <1>6, <1>7
<1> QED BY <1>0, <1>4, <1>8 DEF Contiguous, Total

(* A call without a payload is not complete.                               *)
LEMMA NothingIsIncomplete ==
  ASSUME NEW c, Payload(c) = NoPayload
  PROVE  ~Complete(c)
<1>1. 1 \in DOMAIN NoPayload /\ NoPayload[1] = Untouched
  BY DEF NoPayload
<1>2. Untouched \in Range(NoPayload)
  BY <1>1 DEF Range
<1> QED BY <1>2 DEF Complete

(* A payload of numbers is complete.                                       *)
LEMMA BytesAreComplete ==
  ASSUME NEW c, NEW S, Payload(c) \in Seq(S), \A x \in S : x \in Nat
  PROVE  Complete(c)
<1>1. \A p \in DOMAIN Payload(c) : Payload(c)[p] \in Nat
  OBVIOUS
<1>2. Untouched \notin Nat
  BY DEF Untouched
<1> QED BY <1>1, <1>2 DEF Complete, Range

(* A call whose parts are described has their payload, or none.            *)
LEMMA DescribedIsWhole ==
  ASSUME NEW c \in Call, NEW parts, Describes(c, parts)
  PROVE  /\ \/ ~Complete(c)
            \/ Complete(c) /\ Len(Payload(c)) = Total(c, parts)
         /\ Total(c, parts) \in Nat
<1>1. parts \in Seq(DOMAIN c.blocks) /\ Len(parts) \in 0 .. Len(parts)
  <2>1. parts \in Seq(DOMAIN c.blocks)
    BY DEF Describes
  <2>2. Len(parts) \in Nat
    BY <2>1
  <2> QED BY <2>1, <2>2
<1>2. Total(c, parts) \in Nat
  BY <1>1, SizeToGrows DEF Total
<1>3. CASE \A n \in 1 .. Len(parts) : PartInFile(c, parts[n])
  <2>1. Payload(c) \in Seq(FileByte) /\ Len(Payload(c)) = Total(c, parts)
    BY <1>3 DEF Describes, Joined
  <2>2. \A x \in FileByte : x \in Nat
    BY DEF FileByte
  <2>3. Complete(c)
    BY <2>1, <2>2, BytesAreComplete
  <2> QED BY <1>2, <2>1, <2>3
<1>4. CASE \E n \in 1 .. Len(parts) : ~PartInFile(c, parts[n])
  <2>1. Payload(c) = NoPayload
    BY <1>4 DEF Describes
  <2> QED BY <1>2, <2>1, NothingIsIncomplete
<1> QED BY <1>3, <1>4

(* What a status found before bytes move says of the call.                 *)
Verdict(c, parts, status) ==
    /\ parts \in Seq(DOMAIN c.blocks)
    /\ status \in {"OK", "MALFORMED", "LIMIT"}
    /\ status = "OK" => Describes(c, parts)
    /\ status = "MALFORMED" => ~Complete(c)
    /\ status = "LIMIT" => \/ LacksRoom(c) \/ ~Complete(c)
                           \/ Len(Payload(c)) \in Nat /\ Len(Payload(c)) > MaxU64

(* Numbered parts are refused only with a reason.                          *)
LEMMA NumberedVerdict ==
  ASSUME NEW c \in Call, ByNumber(c)
  PROVE  Verdict(c, ByIndex(c), SeqStatus(c))
<1> DEFINE parts == ByIndex(c)
           N == Len(parts)
           count == Seed(c).count
<1>1. c.seed \in DOMAIN c.blocks /\ Payload(c) = NumberedPayload(c)
  BY DEF ByNumber, ByParts, Payload
<1>2. ListsParts(c, parts, Index)
  BY <1>1, SortedParts
<1>3. /\ parts \in Seq(DOMAIN c.blocks) /\ Cardinality(Parts(c)) = N /\ N \in Nat
      /\ DOMAIN parts = 1 .. N
  <2> HIDE DEF parts
  <2>1. parts \in Seq(DOMAIN c.blocks) /\ Len(parts) = Cardinality(Parts(c))
    BY <1>2 DEF ListsParts
  <2> QED BY <2>1
<1>4. /\ \A n \in 1 .. N : SizeTo(c, parts, n - 1) \in Nat /\ SizeTo(c, parts, n - 1) <= Total(c, parts)
      /\ Total(c, parts) \in Nat
  <2> HIDE DEF parts
  <2>1. \A n \in 1 .. N : n - 1 \in 0 .. N /\ n - 1 <= N
    BY <1>3
  <2>2. N \in 0 .. N
    BY <1>3
  <2> QED BY <1>3, <2>1, <2>2, SizeToGrows DEF Total
<1>5. MaxU64 \in Nat
  BY FileAssumption
<1>6. count \in Nat /\ c.maxParts \in Nat /\ c.scratchCap \in Nat
  <2>1. Seed(c) \in Block
    BY <1>1, BlockFacts DEF Seed
  <2> QED BY <2>1 DEF Block, Call
<1> HIDE DEF parts, N, count
(* A payload comes from parts in order, with one number each.              *)
<1>7. ASSUME Complete(c)
      PROVE  /\ count # 0 /\ N = count /\ InOrder(c)
             /\ \A m, n \in Parts(c) : c.blocks[m].index = c.blocks[n].index => m = n
  <2>1. NumberedPayload(c) # NoPayload
    BY <1>1, <1>7, NothingIsIncomplete
  <2>2. /\ count # 0 /\ N = count
        /\ {c.blocks[m].index : m \in Parts(c)} = 0 .. count - 1
    BY <1>3, <2>1 DEF NumberedPayload, count
  <2> QED BY <1>1, <1>3, <2>2, NumbersAreInOrder DEF count
<1>8. ASSUME InOrder(c) PROVE Describes(c, parts)
  BY <1>8, InOrderIsPayload DEF parts
<1>9. SeqStatus(c) =
        IF count = 0 THEN "MALFORMED"
        ELSE IF count > c.maxParts \/ count > c.scratchCap \/ N > c.scratchCap THEN "LIMIT"
        ELSE IF \/ N # count
                \/ \E m, n \in Parts(c) : m # n /\ c.blocks[m].index = c.blocks[n].index
                \/ \E n \in 1 .. N : ~Numbered(c, parts[n], n) /\ SizeTo(c, parts, n - 1) <= MaxU64
             THEN "MALFORMED"
        ELSE IF Total(c, parts) > MaxU64 THEN "LIMIT" ELSE "OK"
  BY <1>3 DEF SeqStatus, parts, count
<1>10. InOrder(c) <=> count # 0 /\ N = count /\ \A n \in 1 .. N : Numbered(c, parts[n], n)
  BY <1>3 DEF InOrder, parts, count, N
<1>11. ASSUME SeqStatus(c) = "OK" PROVE Describes(c, parts)
  <2>1. /\ count # 0 /\ N = count /\ ~(Total(c, parts) > MaxU64)
        /\ \A n \in 1 .. N : Numbered(c, parts[n], n) \/ ~(SizeTo(c, parts, n - 1) <= MaxU64)
    BY <1>9, <1>11
  <2>2. \A n \in 1 .. N : SizeTo(c, parts, n - 1) <= MaxU64
    BY <1>4, <1>5, <2>1
  <2> QED BY <1>8, <1>10, <2>1, <2>2
<1>12. ASSUME SeqStatus(c) = "MALFORMED" PROVE ~Complete(c)
  <2> SUFFICES ASSUME Complete(c) PROVE FALSE
    OBVIOUS
  <2>1. /\ count # 0 /\ N = count /\ InOrder(c)
        /\ \A m, n \in Parts(c) : c.blocks[m].index = c.blocks[n].index => m = n
    BY <1>7
  <2>2. \A n \in 1 .. N : Numbered(c, parts[n], n)
    BY <1>10, <2>1
  <2> QED BY <1>9, <1>12, <2>1, <2>2
<1>13. ASSUME SeqStatus(c) = "LIMIT", Complete(c), ~LacksRoom(c)
       PROVE  Len(Payload(c)) \in Nat /\ Len(Payload(c)) > MaxU64
  <2>1. N = count /\ count # 0 /\ InOrder(c)
    BY <1>7, <1>13
  <2>2. ~(N > Lesser(c.scratchCap, c.maxParts))
    <3>1. Seed(c).chunking \in {"SEQ", "XMP_EXT"} \/ ~Single(c)
      <4>1. Seed(c).chunking \in Chunking
        <5>1. Seed(c) \in Block
          BY <1>1, BlockFacts DEF Seed
        <5> QED BY <5>1 DEF Block
      <4> QED BY <4>1 DEF ByNumber, ByParts, Chunking
    <3> QED BY <1>3, <1>13, <3>1 DEF LacksRoom, ByNumber, ByParts
  <2>3. ~(count > c.maxParts) /\ ~(count > c.scratchCap)
    BY <1>6, <2>1, <2>2 DEF Lesser
  <2>4. Total(c, parts) > MaxU64
    BY <1>9, <1>13, <2>1, <2>3
  <2>5. Len(Payload(c)) = Total(c, parts)
    BY <1>8, <1>13, <2>1, DescribedIsWhole
  <2> QED BY <1>4, <2>4, <2>5
<1>14. SeqStatus(c) \in {"OK", "MALFORMED", "LIMIT"}
  BY <1>9
<1> QED BY <1>3, <1>11, <1>12, <1>13, <1>14 DEF Verdict, parts

(* Byte k, by the part that holds it.                                      *)
PlacedByte(c, k) ==
    LET b == c.blocks[CHOOSE m \in Parts(c) : Holds(c.blocks[m], k)]
    IN File[b.off + k - b.lOff]

(* The placed payload is that of parts that hold each byte once.           *)
LEMMA PlacedPayloadIs ==
  ASSUME NEW c \in Call, c.seed \in DOMAIN c.blocks
  PROVE  PlacedPayload(c) =
            IF ~CoversOnce(c) \/ \E m \in Parts(c) : ~PartInFile(c, m) THEN NoPayload
            ELSE [k \in 1 .. Seed(c).lSize |-> PlacedByte(c, k)]
<1>1. \A m \in Parts(c) : /\ c.blocks[m].lOff + c.blocks[m].size \in Nat
                          /\ Seed(c).lSize \in Nat
  <2> TAKE m \in Parts(c)
  <2>1. m \in DOMAIN c.blocks
    BY PartsFacts
  <2> QED BY <2>1, BlockFacts DEF Seed
<1>2. \A m \in Parts(c) : c.blocks[m].lOff + c.blocks[m].size > Seed(c).lSize
            <=> ~(c.blocks[m].lOff + c.blocks[m].size <= Seed(c).lSize)
  BY <1>1
<1>3. \A k : Holders(c, k) = {m \in Parts(c) : Holds(c.blocks[m], k)}
  BY DEF Holders
<1>4. (\/ \E m \in Parts(c) : \/ c.blocks[m].lSize # Seed(c).lSize
                              \/ c.blocks[m].lOff + c.blocks[m].size > Seed(c).lSize
                              \/ ~InFile(c.blocks[m].off, c.blocks[m].size)
                              \/ Stray(c, m)
       \/ \E k \in 1 .. Seed(c).lSize :
            Cardinality({m \in Parts(c) : Holds(c.blocks[m], k)}) # 1)
      <=> ~CoversOnce(c) \/ \E m \in Parts(c) : ~PartInFile(c, m)
  BY <1>2, <1>3 DEF CoversOnce, PartInFile
<1> QED BY <1>4 DEF PlacedPayload, PlacedByte

(* The calls whose parts are placed.                                       *)
ByPlace(c) == ByParts(c) /\ Seed(c).chunking = "XMP_EXT"

(* Parts that adjoin hold the payload in their order.                      *)
LEMMA ContiguousIsPayload ==
  ASSUME NEW c \in Call, ByPlace(c), Contiguous(c)
  PROVE  Describes(c, ByOffset(c))
<1> DEFINE parts == ByOffset(c)
           N == Len(parts)
           S == Seed(c).lSize
<1>0. parts = ByOffset(c)
  OBVIOUS
<1> HIDE DEF parts
<1>1. c.seed \in DOMAIN c.blocks /\ Payload(c) = PlacedPayload(c)
  BY DEF ByPlace, ByParts, Payload
<1>2. /\ CoversOnce(c)
      /\ \A n \in 1 .. N, k \in Nat :
            SizeTo(c, parts, n - 1) < k /\ k <= SizeTo(c, parts, n)
                => Holders(c, k) = {parts[n]}
  BY <1>0, <1>1, ContiguousCovers
<1>3. Payload(c) = IF \E m \in Parts(c) : ~PartInFile(c, m) THEN NoPayload
                   ELSE [k \in 1 .. S |-> PlacedByte(c, k)]
  BY <1>1, <1>2, PlacedPayloadIs
<1>4. /\ parts \in Seq(DOMAIN c.blocks) /\ N \in Nat
      /\ \A n \in 1 .. N : parts[n] \in Parts(c) /\ parts[n] \in DOMAIN c.blocks
      /\ \A m \in Parts(c) : \E n \in 1 .. N : parts[n] = m
      /\ S \in Nat
      /\ \A n \in 0 .. N : SizeTo(c, parts, n) \in Nat
  <2>1. /\ parts \in Seq(DOMAIN c.blocks) /\ Len(parts) \in Nat /\ Seed(c).lSize \in Nat
        /\ \A n \in 1 .. Len(parts) : parts[n] \in Parts(c) /\ parts[n] \in DOMAIN c.blocks
    BY <1>0, <1>1, PlacedFacts, Zenon
  <2>2. \A m \in Parts(c) : \E n \in 1 .. Len(parts) : parts[n] = m
    <3>1. ListsParts(c, parts, LOffset)
      BY <1>0, <1>1, SortedParts
    <3> QED BY <3>1 DEF ListsParts
  <2>3. \A n \in 0 .. Len(parts) : SizeTo(c, parts, n) \in Nat
    BY <1>0, <1>1, PlacedFacts, Zenon
  <2> QED BY <2>1, <2>2, <2>3, Zenon
<1>5. /\ \A n \in 1 .. N : /\ c.blocks[parts[n]].lOff = SizeTo(c, parts, n - 1)
                           /\ SizeTo(c, parts, n)
                                = SizeTo(c, parts, n - 1) + c.blocks[parts[n]].size
      /\ Total(c, parts) = S
  BY <1>0, <1>1, PlacedFacts DEF Contiguous, Adjoins
<1>6. SizeTo(c, parts, N) = S
  BY <1>5 DEF Total
<1>7. \A n \in 1 .. N : /\ n \in 0 .. N /\ n - 1 \in 0 .. N /\ n <= N
                        /\ SizeTo(c, parts, n) <= SizeTo(c, parts, N)
  <2>1. \A n \in 1 .. N : n \in 0 .. N /\ n - 1 \in 0 .. N /\ n <= N
    BY <1>4
  <2>2. N \in 0 .. N
    BY <1>4
  <2> QED BY <1>4, <2>1, <2>2, SizeToGrows
<1> HIDE DEF N, S
<1>8. ASSUME \A n \in 1 .. N : PartInFile(c, parts[n]) PROVE Joined(c, parts, Payload(c))
  <2>1. \A m \in Parts(c) : PartInFile(c, m)
    BY <1>4, <1>8
  <2>2. Payload(c) = [k \in 1 .. S |-> PlacedByte(c, k)]
    BY <1>3, <2>1
  <2>3. ASSUME NEW n \in 1 .. N, NEW j \in Nat, 1 <= j, j <= c.blocks[parts[n]].size
        PROVE  /\ SizeTo(c, parts, n - 1) + j \in 1 .. S
               /\ PlacedByte(c, SizeTo(c, parts, n - 1) + j) = File[c.blocks[parts[n]].off + j]
               /\ File[c.blocks[parts[n]].off + j] \in FileByte
    <3> DEFINE p == SizeTo(c, parts, n - 1)
               b == c.blocks[parts[n]]
    <3>1. p \in Nat /\ b.size \in Nat /\ b.off \in Nat /\ b.lOff = p
          /\ SizeTo(c, parts, n) = p + b.size /\ p + b.size <= S
      <4>1. b.size \in Nat /\ b.off \in Nat
        BY <1>4, BlockFacts
      <4>2. p \in Nat
        BY <1>4, <1>7
      <4>3. SizeTo(c, parts, n) <= S
        BY <1>6, <1>7
      <4> QED BY <1>5, <4>1, <4>2, <4>3
    <3>2. SizeTo(c, parts, n - 1) = p /\ c.blocks[parts[n]] = b
      OBVIOUS
    <3> HIDE DEF p, b
    <3>3. p + j \in Nat /\ p < p + j /\ p + j <= p + b.size /\ p + j \in 1 .. S
      BY <1>4, <2>3, <3>1, <3>2
    <3>4. Holders(c, p + j) = {parts[n]}
      BY <1>2, <3>1, <3>2, <3>3
    <3>5. (CHOOSE m \in Parts(c) : Holds(c.blocks[m], p + j)) = parts[n]
      BY <3>4 DEF Holders
    <3>6. PlacedByte(c, p + j) = File[b.off + ((p + j) - b.lOff)]
      BY <3>2, <3>5 DEF PlacedByte
    <3>7. b.off + ((p + j) - b.lOff) = b.off + j
      <4>1. \A x, y, z \in Nat : x + ((y + z) - y) = x + z
        OBVIOUS
      <4> QED BY <3>1, <4>1
    <3>8. File[b.off + j] \in FileByte
      <4>1. PartInFile(c, parts[n]) /\ j \in 1 .. b.size /\ parts[n] \in DOMAIN c.blocks
        BY <1>4, <1>8, <2>3, <3>1, <3>2
      <4> QED BY <3>2, <4>1, BlockBytes DEF PartInFile
    <3>9. PlacedByte(c, p + j) = File[b.off + j]
      BY <3>6, <3>7
    <3> QED BY <3>2, <3>3, <3>8, <3>9
  <2>4. ASSUME NEW k \in 1 .. S PROVE PlacedByte(c, k) \in FileByte
    <3>1. PICK n \in 1 .. N : SizeTo(c, parts, n - 1) < k /\ k <= SizeTo(c, parts, n)
      <4>1. N \in 0 .. N /\ k \in 1 .. SizeTo(c, parts, N)
        BY <1>4, <1>6
      <4> QED BY <1>4, <4>1, ByteInPart DEF N
    <3> DEFINE p == SizeTo(c, parts, n - 1)
               j == k - p
               z == c.blocks[parts[n]].size
    <3>2. p \in Nat /\ z \in Nat /\ k \in Nat /\ p < k /\ k <= p + z
      <4>1. SizeTo(c, parts, n) = p + z /\ p \in Nat
        BY <1>4, <1>5, <1>7
      <4>2. z \in Nat
        BY <1>4, BlockFacts
      <4> QED BY <1>4, <3>1, <4>1, <4>2
    <3>3. j \in Nat /\ 1 <= j /\ j <= z /\ p + j = k
      <4> HIDE DEF p, z
      <4> QED BY <3>2
    <3> HIDE DEF j
    <3>4. PlacedByte(c, p + j) \in FileByte
      BY <2>3, <3>3
    <3> QED BY <3>3, <3>4
  <2>5. Payload(c) \in Seq(FileByte) /\ Len(Payload(c)) = S
    BY <1>4, <2>2, <2>4
  <2>6. ASSUME NEW n \in 1 .. N, NEW j \in Nat, 1 <= j, j <= c.blocks[parts[n]].size
        PROVE  Payload(c)[SizeTo(c, parts, n - 1) + j] = File[c.blocks[parts[n]].off + j]
    BY <2>2, <2>3, <2>6
  <2> QED BY <1>5, <2>5, <2>6 DEF Joined, N
<1>9. ASSUME NEW n \in 1 .. N, ~PartInFile(c, parts[n]) PROVE Payload(c) = NoPayload
  BY <1>3, <1>4, <1>9
<1> QED BY <1>0, <1>4, <1>8, <1>9 DEF Describes, N

(* Placed parts are refused only with a reason.                            *)
LEMMA PlacedVerdict ==
  ASSUME NEW c \in Call, ByPlace(c)
  PROVE  Verdict(c, ByOffset(c), ExtStatus(c))
<1>1. c.seed \in DOMAIN c.blocks /\ Payload(c) = PlacedPayload(c)
  BY DEF ByPlace, ByParts, Payload
<1>2. /\ ByOffset(c) \in Seq(DOMAIN c.blocks) /\ DOMAIN ByOffset(c) = 1 .. Len(ByOffset(c))
      /\ Seed(c).lSize \in Nat
  BY <1>1, PlacedFacts
<1>3. Seed(c).lSize <= MaxU64 /\ MaxU64 \in Nat
  BY <1>1, BlockFacts DEF Seed
<1>4. AllAdjoin(c) /\ Total(c, ByOffset(c)) = Seed(c).lSize <=> Contiguous(c)
  BY <1>2, <1>3 DEF AllAdjoin, Contiguous
<1>5. ExtStatus(c) \in {"OK", "MALFORMED", "LIMIT"}
  BY DEF ExtStatus
<1>6. ASSUME ExtStatus(c) = "OK" PROVE Describes(c, ByOffset(c))
  <2>1. Contiguous(c)
    BY <1>4, <1>6 DEF ExtStatus
  <2> QED BY <2>1, ContiguousIsPayload
<1>7. ASSUME ExtStatus(c) = "MALFORMED" PROVE ~Complete(c)
  <2>1. ~Contiguous(c)
    BY <1>4, <1>7 DEF ExtStatus
  <2>2. ~CoversOnce(c)
    BY <1>1, <2>1, CoversIsContiguous
  <2>3. Payload(c) = NoPayload
    BY <1>1, <2>2, PlacedPayloadIs
  <2> QED BY <2>3, NothingIsIncomplete
<1>8. ASSUME ExtStatus(c) = "LIMIT" PROVE LacksRoom(c)
  BY <1>8 DEF ExtStatus, LacksRoom, ByPlace, ByParts
<1> QED BY <1>2, <1>5, <1>6, <1>7, <1>8 DEF Verdict

(* What the sub-blocks from p on hold, by those behind.                    *)
Rest(c, f, p) ==
    IF p >= GifEnd(c) THEN NoPayload
    ELSE LET size == File[p + 1]
         IN IF size = 0 THEN IF p + 1 = GifEnd(c) THEN <<>> ELSE NoPayload
            ELSE IF p + 1 + size > GifEnd(c) THEN NoPayload
            ELSE SubSeq(File, p + 2, p + 1 + size) \o f[p + 1 + size]

(* The seed lies in the file, so its sub-blocks can be read.               *)
GifInFile(c) ==
    /\ c \in Call /\ c.seed \in DOMAIN c.blocks
    /\ InFile(Seed(c).off, Seed(c).size)

(* Bytes are numbers.                                                      *)
LEMMA ByteIsNatural == \A x \in FileByte : x \in Nat
BY DEF FileByte

(* Where the sub-blocks of a call lie.                                     *)
LEMMA GifFacts ==
  ASSUME NEW c, GifInFile(c)
  PROVE  /\ Len(File) \in Nat /\ GifEnd(c) \in Nat /\ GifEnd(c) <= Len(File)
         /\ Seed(c).off \in 0 .. GifEnd(c)
         /\ \A p \in 1 .. Len(File) : File[p] \in FileByte
<1>1. File \in Seq(FileByte) /\ Len(File) \in Nat
  BY FileAssumption DEF FileByte
<1>2. Seed(c).off \in Nat /\ Seed(c).size \in Nat
  BY BlockFacts DEF GifInFile, Seed
<1>3. Seed(c).off + Seed(c).size <= Len(File)
  BY <1>1, <1>2 DEF GifInFile, InFile
<1> QED BY <1>1, <1>2, <1>3 DEF GifEnd

(* Rest looks at sub-blocks further on only.                               *)
LEMMA RestLooksAhead ==
  ASSUME NEW c, GifInFile(c), NEW p \in 0 .. Len(File), NEW f, NEW g,
         \A i \in p + 1 .. Len(File) : f[i] = g[i]
  PROVE  Rest(c, f, p) = Rest(c, g, p)
<1>1. CASE p >= GifEnd(c)
  BY <1>1 DEF Rest
<1>2. CASE ~(p >= GifEnd(c))
  <2> DEFINE size == File[p + 1]
  <2>1. /\ size \in Nat /\ p + 1 + size \in Nat /\ p + 1 <= p + 1 + size
        /\ GifEnd(c) \in Nat /\ GifEnd(c) <= Len(File) /\ Len(File) \in Nat
    <3>1. p + 1 \in 1 .. Len(File) /\ GifEnd(c) \in Nat /\ GifEnd(c) <= Len(File) /\ Len(File) \in Nat
      BY <1>2, GifFacts
    <3>2. size \in Nat
      BY <3>1, GifFacts, ByteIsNatural
    <3> QED BY <3>1, <3>2
  <2>2. ~(p + 1 + size > GifEnd(c)) => f[p + 1 + size] = g[p + 1 + size]
    <3> HIDE DEF size
    <3>1. ~(p + 1 + size > GifEnd(c)) => p + 1 + size \in p + 1 .. Len(File)
      BY <2>1
    <3> QED BY <3>1
  <2> QED BY <1>2, <2>2, Zenon DEF Rest
<1> QED BY <1>1, <1>2

(* There is a function that is its Rest everywhere.                        *)
LEMMA SubBlocksExist ==
  ASSUME NEW c, GifInFile(c)
  PROVE  \E f : f = [p \in 0 .. Len(File) |-> Rest(c, f, p)]
<1> DEFINE L == Len(File)
           Solves(f, k) == \A p \in 0 .. L : L < p + k => f[p] = Rest(c, f, p)
           T == {k \in 0 .. L + 1 : ~ \E f : f = [p \in 0 .. L |-> f[p]] /\ Solves(f, k)}
<1>1. L \in Nat
  BY GifFacts
<1>2. T = {}
  <2> SUFFICES ASSUME T # {} PROVE FALSE
    OBVIOUS
  <2>1. PICK x \in T : \A y \in T : x <= y
    <3>1. \A y \in T : y \in Nat
      BY <1>1
    <3> HIDE DEF T
    <3> QED BY <3>1, LeastNatural
  <2>2. CASE x = 0
    <3> DEFINE f == [p \in 0 .. L |-> 0]
    <3>1. f = [p \in 0 .. L |-> f[p]]
      OBVIOUS
    <3>2. \A p \in 0 .. L : ~(L < p + 0)
      BY <1>1
    <3> HIDE DEF f
    <3>3. Solves(f, 0)
      BY <3>2
    <3> HIDE DEF Solves
    <3> QED BY <2>1, <2>2, <3>1, <3>3
  <2>3. CASE x # 0
    <3> DEFINE q == L - (x - 1)
    <3>1. x - 1 \in 0 .. L + 1 /\ x - 1 \notin T /\ q \in 0 .. L
      BY <1>1, <2>1, <2>3
    <3>2. PICK g : g = [p \in 0 .. L |-> g[p]] /\ Solves(g, x - 1)
      <4> HIDE DEF Solves
      <4> QED BY <3>1
    <3> DEFINE f == [p \in 0 .. L |-> IF p = q THEN Rest(c, g, q) ELSE g[p]]
    <3>3. f = [p \in 0 .. L |-> f[p]]
      OBVIOUS
    <3>4. ASSUME NEW p \in 0 .. L, L < p + x PROVE f[p] = Rest(c, f, p)
      <4>1. q <= p
        BY <1>1, <2>1, <3>1, <3>4
      <4>2. \A i \in p + 1 .. L : f[i] = g[i]
        <5>1. \A i \in p + 1 .. L : i \in 0 .. L /\ i # q
          BY <1>1, <3>1, <4>1
        <5> HIDE DEF q
        <5> QED BY <5>1
      <4>3. Rest(c, f, p) = Rest(c, g, p)
        <5> HIDE DEF f
        <5> QED BY <4>2, RestLooksAhead
      <4>4. CASE p = q
        <5> HIDE DEF q
        <5>1. f[p] = Rest(c, g, p)
          BY <4>4
        <5> QED BY <4>3, <5>1
      <4>5. CASE p # q
        <5>1. L < p + (x - 1)
          BY <1>1, <2>1, <3>1, <3>4, <4>5
        <5>2. g[p] = Rest(c, g, p)
          BY <3>2, <5>1
        <5>3. f[p] = g[p]
          <6> HIDE DEF q
          <6> QED BY <4>5
        <5> HIDE DEF f
        <5> QED BY <4>3, <5>2, <5>3
      <4> QED BY <4>4, <4>5
    <3> HIDE DEF f
    <3>5. Solves(f, x)
      BY <3>4
    <3> HIDE DEF Solves
    <3> QED BY <2>1, <3>3, <3>5
  <2> QED BY <2>2, <2>3
<1>3. PICK f : f = [p \in 0 .. L |-> f[p]] /\ Solves(f, L + 1)
  <2>1. L + 1 \in 0 .. L + 1 /\ L + 1 \notin T
    BY <1>1, <1>2
  <2> HIDE DEF Solves
  <2> QED BY <2>1
<1>4. \A p \in 0 .. L : f[p] = Rest(c, f, p)
  <2>1. \A p \in 0 .. L : L < p + (L + 1)
    BY <1>1
  <2> QED BY <1>3, <2>1
<1>5. f = [p \in 0 .. L |-> Rest(c, f, p)]
  BY <1>3, <1>4
<1> QED BY <1>5

(* The sub-blocks from an offset on, by those behind them.                 *)
LEMMA SubBlocksAt ==
  ASSUME NEW c, GifInFile(c), NEW p \in 0 .. Len(File)
  PROVE  SubBlocks(c)[p] = Rest(c, SubBlocks(c), p)
<1>1. PICK f : f = [q \in 0 .. Len(File) |-> Rest(c, f, q)]
  BY SubBlocksExist
<1> DEFINE h == SubBlocks(c)
<1>2. h = CHOOSE from : from = [q \in 0 .. Len(File) |-> Rest(c, from, q)]
  BY DEF SubBlocks, Rest
<1> HIDE DEF h
<1>3. h = [q \in 0 .. Len(File) |-> Rest(c, h, q)]
  BY <1>1, <1>2, Zenon
<1>4. h[p] = Rest(c, h, p)
  BY <1>3
<1> QED BY <1>4 DEF h

(* A byte of a payload, or the mark that there is none.                    *)
Datum == FileByte \cup {Untouched}

(* The sub-blocks hold bytes and perhaps that mark.                        *)
LEMMA SubBlocksType ==
  ASSUME NEW c, GifInFile(c), NEW p \in 0 .. Len(File)
  PROVE  SubBlocks(c)[p] \in Seq(Datum)
<1> DEFINE L == Len(File)
           f == SubBlocks(c)
           T == {k \in 0 .. L : f[L - k] \notin Seq(Datum)}
<1>1. L \in Nat /\ GifEnd(c) \in Nat /\ GifEnd(c) <= L /\ \A q \in 1 .. L : File[q] \in FileByte
  BY GifFacts
<1>2. \A q \in 0 .. L : f[q] = Rest(c, f, q)
  BY SubBlocksAt
<1>3. NoPayload \in Seq(Datum) /\ <<>> \in Seq(Datum)
  BY DEF NoPayload, Datum
<1> HIDE DEF f
<1>4. ASSUME NEW q \in 0 .. L, \A i \in q + 1 .. L : f[i] \in Seq(Datum)
      PROVE  f[q] \in Seq(Datum)
  <2> SUFFICES ASSUME f[q] # NoPayload, f[q] # <<>> PROVE f[q] \in Seq(Datum)
    BY <1>3
  <2> DEFINE size == File[q + 1]
             next == q + 1 + size
  <2>1. ~(q >= GifEnd(c)) /\ ~(next > GifEnd(c))
        /\ f[q] = SubSeq(File, q + 2, next) \o f[next]
    BY <1>2, Zenon DEF Rest
  <2>2. q + 1 \in 1 .. L
    BY <1>1, <2>1
  <2>3. size \in Nat
    BY <1>1, <2>2, ByteIsNatural
  <2>4. next \in q + 1 .. L
    <3> HIDE DEF size
    <3> QED BY <1>1, <2>1, <2>3
  <2>5. SubSeq(File, q + 2, next) \in Seq(Datum)
    <3>1. File \in Seq(Datum)
      BY FileAssumption DEF FileByte, Datum
    <3>2. next \in Nat /\ next <= Len(File)
      BY <1>1, <2>4
    <3>3. q + 2 \in Nat /\ 1 <= q + 2
      OBVIOUS
    <3> HIDE DEF next
    <3> QED BY <3>1, <3>2, <3>3
  <2>6. f[next] \in Seq(Datum)
    BY <1>4, <2>4
  <2> HIDE DEF next
  <2> QED BY <2>1, <2>5, <2>6
<1>5. T = {}
  <2> SUFFICES ASSUME T # {} PROVE FALSE
    OBVIOUS
  <2>1. PICK x \in T : \A y \in T : x <= y
    <3>1. \A y \in T : y \in Nat
      BY <1>1
    <3> HIDE DEF T
    <3> QED BY <3>1, LeastNatural
  <2>2. L - x \in 0 .. L /\ f[L - x] \notin Seq(Datum)
    BY <1>1, <2>1
  <2>3. ASSUME NEW i \in L - x + 1 .. L PROVE f[i] \in Seq(Datum)
    <3>1. L - i \in 0 .. L /\ L - i < x /\ L - (L - i) = i
      BY <1>1, <2>1
    <3>2. L - i \notin T
      BY <1>1, <2>1, <3>1
    <3> QED BY <3>1, <3>2
  <2> DEFINE q == L - x
  <2>4. q \in 0 .. L /\ f[q] \notin Seq(Datum) /\ \A i \in q + 1 .. L : f[i] \in Seq(Datum)
    BY <2>2, <2>3
  <2> HIDE DEF q, T
  <2> QED BY <1>4, <2>4
<1>6. L - p \in 0 .. L /\ L - (L - p) = p
  BY <1>1
<1> QED BY <1>5, <1>6 DEF f

(* The types of a call under way.                                          *)
PayType ==
    /\ job \in Calls
    /\ pc \in {"begin", "copy", "gif", "inflate", "returned"}
    /\ res \in [status : Status, written : Nat, needed : Nat]
    /\ out \in [1 .. job.cap -> Int]
    /\ chain \in Seq(Nat) /\ reached \in Nat /\ at \in Nat
    /\ readFailed \in BOOLEAN

(* The count and the status tell what was reached, which is within the     *)
(* limit.                                                                  *)
Extracted ==
    /\ res.written = Lesser(job.cap, at)
    /\ res.status = IF at > job.cap THEN "TRUNCATED" ELSE "OK"
    /\ at <= job.maxOut
    /\ \A p \in DOMAIN out : p > at => out[p] = Untouched

(* As far as it was reached, the buffer holds q.                           *)
Answered(q) == \A p \in DOMAIN out : p <= at => out[p] = q[p]

(* Nothing was done yet.                                                   *)
Begun ==
    /\ res = [status |-> "OK", written |-> 0, needed |-> 0]
    /\ reached = 0 /\ at = 0
    /\ \A p \in DOMAIN out : out[p] = Untouched

(* Parts are copied: those so far lie in the file, and if all do, the      *)
(* buffer holds the payload as far as it was reached.                      *)
Copying ==
    /\ chain \in Seq(DOMAIN job.blocks)
    /\ Describes(job, chain)
    /\ Total(job, chain) <= job.maxOut
    /\ reached <= Len(chain) /\ at = SizeTo(job, chain, reached)
    /\ res.needed = Total(job, chain)
    /\ Extracted
    /\ \A n \in 1 .. reached : PartInFile(job, chain[n])
    /\ (\A n \in 1 .. Len(chain) : PartInFile(job, chain[n])) => Answered(Payload(job))

(* The payload is what was reached, and then q.                            *)
SubBlocksAhead(q) ==
    /\ Payload(job) \in Seq(Datum)
    /\ Len(Payload(job)) = at + Len(q)
    /\ \A k \in 1 .. Len(q) : Payload(job)[at + k] = q[k]
    /\ \A p \in 1 .. at : Payload(job)[p] \in FileByte

(* Sub-blocks are copied: the payload goes on with those ahead.            *)
Splitting ==
    /\ GifInFile(job)
    /\ reached <= GifEnd(job)
    /\ res.needed = at
    /\ Extracted
    /\ SubBlocksAhead(SubBlocks(job)[reached])
    /\ Answered(Payload(job))

(* The library gives bytes.                                                *)
Inflating ==
    /\ job.seed \in DOMAIN job.blocks /\ Seed(job).compression # "NONE"
    /\ InFile(Seed(job).off, Seed(job).size)
    /\ at <= job.holds
    /\ Extracted
    /\ \A p \in DOMAIN out : p <= at => out[p] = 256 + p

(* The invariant: the two properties, and what holds in each phase.        *)
PayInv ==
    /\ PayType
    /\ LimitHolds
    /\ AnswerIsPayload
    /\ pc = "begin" => Begun
    /\ pc = "copy" => Copying
    /\ pc = "gif" => Splitting
    /\ pc = "inflate" => Inflating

(* The types of a call.                                                    *)
LEMMA CallFacts ==
  ASSUME NEW c \in Calls
  PROVE  /\ c \in Call /\ c.cap \in Nat /\ c.maxOut \in Nat /\ c.holds \in Nat
         /\ c.maxOut <= MaxU64 /\ MaxU64 \in Nat
         /\ c.blocks \in Seq(Block)
         /\ c.ends \in {"end", "error", "cut", "no memory"} /\ c.buffer \in BOOLEAN
<1>1. c \in Call /\ MaxU64 \in Nat
  BY CallsAssumption, FileAssumption
<1>2. c.cap \in 0 .. MaxU64 /\ c.maxOut \in 0 .. MaxU64
  BY <1>1 DEF Call, Sizes
<1>3. c.holds \in Nat /\ c.blocks \in Seq(Block) /\ c.buffer \in BOOLEAN
      /\ c.ends \in {"end", "error", "cut", "no memory"}
  BY <1>1 DEF Call
<1>4. \A x \in 0 .. MaxU64 : x \in Nat /\ x <= MaxU64
  BY <1>1
<1> QED BY <1>1, <1>2, <1>3, <1>4, Zenon

(* A refusal keeps what was written, and has a reason.                     *)
LEMMA Refusal ==
  ASSUME PayInv, job' = job, out' = out, pc' = "returned",
         res' \in [status : Status, written : Nat, needed : Nat],
         res'.written = res.written, res'.status \notin {"OK", "TRUNCATED"},
         chain' \in Seq(Nat), reached' \in Nat, at' \in Nat, readFailed' \in BOOLEAN,
         \/ ~Complete(job) \/ Len(Payload(job)) > job.maxOut \/ LacksRoom(job)
         \/ res'.status # "LIMIT" /\ (readFailed' \/ res'.status = "UNSUPPORTED")
  PROVE  PayInv'
<1>1. PayType'
  BY DEF PayInv, PayType
<1>2. LimitHolds'
  BY DEF PayInv, LimitHolds
<1>3. AnswerIsPayload'
  BY DEF AnswerIsPayload
<1> QED BY <1>1, <1>2, <1>3 DEF PayInv

(* omc_pay_ext_input begins with nothing written: the invariant holds.     *)
THEOREM PayStarts == PayInit => PayInv
<1> SUFFICES ASSUME PayInit PROVE PayInv
  OBVIOUS
<1>1. job \in Call /\ job.cap \in Nat
  BY CallFacts DEF PayInit
<1>2. PayType
  <2>1. out \in [1 .. job.cap -> Int]
    BY DEF PayInit, Untouched
  <2>2. res \in [status : Status, written : Nat, needed : Nat]
    BY DEF PayInit, Status
  <2>3. chain \in Seq(Nat) /\ reached \in Nat /\ at \in Nat /\ readFailed \in BOOLEAN
    <3>1. <<>> \in Seq(Nat) /\ 0 \in Nat /\ FALSE \in BOOLEAN
      OBVIOUS
    <3> QED BY <3>1, Zenon DEF PayInit
  <2> QED BY <2>1, <2>2, <2>3, Zenon DEF PayInit, PayType
<1>3. LimitHolds
  BY <1>1 DEF PayInit, LimitHolds
<1>4. AnswerIsPayload /\ Begun
  BY DEF PayInit, AnswerIsPayload, Begun
<1> QED BY <1>2, <1>3, <1>4 DEF PayInit, PayInv

(* Copying a range takes the bytes the buffer has room for, and counts the *)
(* rest.                                                                   *)
LEMMA CopyRangeStep ==
  ASSUME PayType, Extracted, NEW need \in Nat, at <= need, NEW off \in Nat, NEW size \in Nat,
         NEW next, CopyRange([res EXCEPT !.needed = need], off, size, at, next)
  PROVE  \/ /\ pc' = "returned" /\ out' = out
            /\ res' = [res EXCEPT !.needed = need, !.status = "MALFORMED"]
            /\ \/ ~InFile(off, size) /\ readFailed' = readFailed
               \/ readFailed' = TRUE
         \/ /\ InFile(off, size) /\ pc' = next /\ readFailed' = readFailed
            /\ res' = [status |-> IF at + size > job.cap THEN "TRUNCATED" ELSE "OK",
                       written |-> Lesser(job.cap, at + size), needed |-> need]
            /\ out' = [p \in 1 .. job.cap |->
                        IF p <= at THEN out[p]
                        ELSE IF p <= at + size THEN File[off + (p - at)] ELSE Untouched]
<1> DEFINE r == [res EXCEPT !.needed = need]
           n == Reaches(at, size)
<1>1. /\ job.cap \in Nat /\ at \in Nat
      /\ r = [status |-> IF at > job.cap THEN "TRUNCATED" ELSE "OK",
              written |-> Lesser(job.cap, at), needed |-> need]
  <2>1. job.cap \in Nat /\ at \in Nat
    BY CallFacts DEF PayType
  <2>2. res = [status |-> res.status, written |-> res.written, needed |-> res.needed]
    BY DEF PayType
  <2>3. r = [status |-> res.status, written |-> res.written, needed |-> need]
    BY <2>2
  <2> HIDE DEF r
  <2> QED BY <2>1, <2>3 DEF Extracted
<1>2. ~(at > r.needed)
  BY <1>1
<1>3. CASE ~InFile(off, size)
  BY <1>3 DEF CopyRange
<1>4. CASE InFile(off, size) /\ readFailed' = TRUE /\ pc' = "returned"
            /\ res' = [r EXCEPT !.status = "MALFORMED"] /\ out' = out
  BY <1>4
<1>5. CASE InFile(off, size) /\ res' = Copied(r, at, size) /\ pc' = next /\ readFailed' = readFailed
            /\ out' = [p \in DOMAIN out |->
                            IF p - at \in 1 .. n THEN File[off + p - at] ELSE out[p]]
  <2>1. n = IF at > job.cap THEN 0 ELSE IF size < job.cap - at THEN size ELSE job.cap - at
    BY DEF Reaches, Lesser
  <2>2. Written(r, at, n) = Lesser(job.cap, at + size)
    <3>1. Written(r, at, n) = IF at + n > r.written /\ at <= job.cap THEN at + n ELSE r.written
      BY DEF Written
    <3>2. r.written = IF job.cap < at THEN job.cap ELSE at
      BY <1>1 DEF Lesser
    <3>3. Lesser(job.cap, at + size) = IF job.cap < at + size THEN job.cap ELSE at + size
      BY DEF Lesser
    <3> HIDE DEF r, n
    <3> QED BY <1>1, <2>1, <3>1, <3>2, <3>3
  <2>3. res' = [status |-> IF at + size > job.cap THEN "TRUNCATED" ELSE "OK",
                written |-> Lesser(job.cap, at + size), needed |-> need]
    <3>1. DEFINE done == [r EXCEPT !.written = Written(r, at, n)]
    <3>2. done = [status |-> IF at > job.cap THEN "TRUNCATED" ELSE "OK",
                  written |-> Lesser(job.cap, at + size), needed |-> need]
      <4>1. done = [r EXCEPT !.written = Lesser(job.cap, at + size)]
        BY <2>2
      <4> HIDE DEF n, r, done
      <4> QED BY <1>1, <4>1
    <3>3. res' = IF at > job.cap \/ size > job.cap - at THEN Truncated(done) ELSE done
      BY <1>5 DEF Copied
    <3>4. (at > job.cap \/ size > job.cap - at) <=> at + size > job.cap
      BY <1>1
    <3> HIDE DEF done
    <3>5. Truncated(done) = [status |-> "TRUNCATED", written |-> Lesser(job.cap, at + size), needed |-> need]
      BY <3>2 DEF Truncated
    <3>6. ~(at + size > job.cap) => ~(at > job.cap)
      BY <1>1
    <3> QED BY <3>2, <3>3, <3>4, <3>5, <3>6
  <2>4. out' = [p \in 1 .. job.cap |->
                    IF p <= at THEN out[p]
                    ELSE IF p <= at + size THEN File[off + (p - at)] ELSE Untouched]
    <3>1. DOMAIN out = 1 .. job.cap
      BY DEF PayType
    <3>2. ASSUME NEW p \in 1 .. job.cap
          PROVE  (IF p - at \in 1 .. n THEN File[off + p - at] ELSE out[p])
                 = IF p <= at THEN out[p]
                   ELSE IF p <= at + size THEN File[off + (p - at)] ELSE Untouched
      <4>1. p \in Nat /\ off + p - at = off + (p - at)
        BY <1>1
      <4>2. p - at \in 1 .. n <=> ~(p <= at) /\ p <= at + size
        <5> HIDE DEF n
        <5> QED BY <1>1, <2>1
      <4>3. ~(p <= at) => out[p] = Untouched
        BY <1>1, <3>1 DEF Extracted
      <4> HIDE DEF n
      <4> QED BY <4>1, <4>2, <4>3
    <3> HIDE DEF n
    <3> QED BY <1>5, <3>1, <3>2
  <2> QED BY <1>5, <2>3, <2>4
<1>6. \/ InFile(off, size) /\ readFailed' = TRUE /\ pc' = "returned"
            /\ res' = [r EXCEPT !.status = "MALFORMED"] /\ out' = out
      \/ InFile(off, size) /\ res' = Copied(r, at, size) /\ pc' = next /\ readFailed' = readFailed
            /\ out' = [p \in DOMAIN out |->
                            IF p - at \in 1 .. n THEN File[off + p - at] ELSE out[p]]
      \/ ~InFile(off, size)
  <2> HIDE DEF r, n
  <2> QED BY <1>2 DEF CopyRange, n, r
<1> QED BY <1>3, <1>4, <1>5, <1>6

(* What the phases' part of the invariant comes to, once they are left.    *)
LEMMA Answer ==
  ASSUME PayInv, job' = job, pc' = "returned", out' \in [1 .. job.cap -> Int],
         res' \in [status : Status, written : Nat, needed : Nat],
         chain' \in Seq(Nat), reached' \in Nat, at' \in Nat, readFailed' \in BOOLEAN,
         at' = Len(Payload(job)), Complete(job), res'.needed = at', Extracted',
         Answered(Payload(job))'
  PROVE  PayInv'
<1>1. PayType'
  BY DEF PayInv, PayType
<1>2. job.cap \in Nat /\ job.maxOut \in Nat
  BY CallFacts DEF PayInv, PayType
<1>3. LimitHolds'
  <2>1. res'.written <= job.cap /\ \A p \in DOMAIN out' : p > job.maxOut => out'[p] = Untouched
    <3>1. DOMAIN out' = 1 .. job.cap
      OBVIOUS
    <3>2. res'.written = Lesser(job.cap, at') /\ at' <= job.maxOut
          /\ \A p \in DOMAIN out' : p > at' => out'[p] = Untouched
      BY DEF Extracted
    <3>3. res'.written <= job.cap
      BY <1>2, <3>2 DEF Lesser
    <3>4. \A p \in 1 .. job.cap : p > job.maxOut => p > at'
      BY <1>2, <3>2
    <3> QED BY <3>1, <3>2, <3>3, <3>4
  <2>2. res'.status # "LIMIT"
    BY DEF Extracted
  <2> QED BY <2>1, <2>2 DEF LimitHolds
<1>4. AnswerIsPayload'
  <2>1. res'.status \in {"OK", "TRUNCATED"}
    BY DEF Extracted
  <2>2. (res'.status = "TRUNCATED") = (job.cap < Len(Payload(job)))
    BY <1>2 DEF Extracted
  <2>3. \A p \in DOMAIN out' :
            out'[p] = IF p <= Len(Payload(job)) THEN Payload(job)[p] ELSE Untouched
    <3>1. \A p \in DOMAIN out' : p > at' <=> ~(p <= at')
      BY <1>2
    <3> QED BY <3>1 DEF Extracted, Answered
  <2>4. Len(Payload(job)) <= job.maxOut /\ res'.written = Lesser(job.cap, Len(Payload(job)))
    BY DEF Extracted
  <2> QED BY <2>1, <2>2, <2>3, <2>4 DEF AnswerIsPayload
<1> QED BY <1>1, <1>3, <1>4 DEF PayInv

(* A step within a phase keeps the limit, as what it reached is within it. *)
LEMMA Going ==
  ASSUME PayInv, job' = job, pc' # "returned", Extracted', out' \in [1 .. job.cap -> Int],
         at' \in Nat
  PROVE  LimitHolds' /\ AnswerIsPayload'
<1>1. job.cap \in Nat /\ job.maxOut \in Nat
  BY CallFacts DEF PayInv, PayType
<1>2. res'.written = Lesser(job.cap, at') /\ at' <= job.maxOut
      /\ \A p \in DOMAIN out' : p > at' => out'[p] = Untouched
  BY DEF Extracted
<1>3. res'.written <= job.cap
  BY <1>1, <1>2 DEF Lesser
<1>4. \A p \in DOMAIN out' : p > job.maxOut => out'[p] = Untouched
  <2>1. \A p \in 1 .. job.cap : p > job.maxOut => p > at'
    BY <1>1, <1>2
  <2> QED BY <1>2, <2>1
<1> QED BY <1>3, <1>4 DEF LimitHolds, AnswerIsPayload

(* The bytes copied by one step are those of the payload there, if those   *)
(* before it were.                                                         *)
LEMMA CopiedOn ==
  ASSUME PayType, Answered(Payload(job)), Extracted, NEW off \in Nat, NEW size \in Nat,
         out' = [p \in 1 .. job.cap |->
                    IF p <= at THEN out[p]
                    ELSE IF p <= at + size THEN File[off + (p - at)] ELSE Untouched],
         \A j \in 1 .. size : Payload(job)[at + j] = File[off + j]
  PROVE  /\ \A p \in DOMAIN out' : p <= at + size => out'[p] = Payload(job)[p]
         /\ \A p \in DOMAIN out' : p > at + size => out'[p] = Untouched
<1>1. job.cap \in Nat /\ at \in Nat /\ DOMAIN out' = 1 .. job.cap /\ DOMAIN out = 1 .. job.cap
  BY CallFacts DEF PayType
<1>2. ASSUME NEW p \in 1 .. job.cap, p <= at + size
      PROVE  out'[p] = Payload(job)[p]
  <2>1. CASE p <= at
    BY <1>1, <2>1 DEF Answered
  <2>2. CASE ~(p <= at)
    <3>1. p - at \in 1 .. size /\ at + (p - at) = p
      BY <1>1, <1>2, <2>2
    <3>2. Payload(job)[at + (p - at)] = File[off + (p - at)]
      BY <3>1
    <3> QED BY <1>1, <1>2, <2>2, <3>1, <3>2
  <2> QED BY <2>1, <2>2
<1>3. ASSUME NEW p \in 1 .. job.cap, p > at + size
      PROVE  out'[p] = Untouched
  <2>1. ~(p <= at) /\ ~(p <= at + size)
    BY <1>1, <1>3
  <2> QED BY <1>1, <2>1
<1> QED BY <1>1, <1>2, <1>3

(* Whatever is copied, the buffer holds integers.                          *)
LEMMA CopiedType ==
  ASSUME PayType, NEW off \in Nat, NEW size \in Nat, InFile(off, size)
  PROVE  [p \in 1 .. job.cap |->
            IF p <= at THEN out[p]
            ELSE IF p <= at + size THEN File[off + (p - at)] ELSE Untouched] \in [1 .. job.cap -> Int]
<1>1. job.cap \in Nat /\ at \in Nat
  BY CallFacts DEF PayType
<1>2. Len(File) \in Nat /\ off + size <= Len(File) /\ \A q \in 1 .. Len(File) : File[q] \in Int
  <2>1. File \in Seq(FileByte) /\ Len(File) \in Nat
    BY FileAssumption DEF FileByte
  <2>2. \A q \in 1 .. Len(File) : File[q] \in FileByte
    BY <2>1
  <2>3. off + size <= Len(File)
    BY <2>1 DEF InFile
  <2> QED BY <2>1, <2>2, <2>3, ByteIsNatural
<1>3. ASSUME NEW p \in 1 .. job.cap
      PROVE  (IF p <= at THEN out[p]
              ELSE IF p <= at + size THEN File[off + (p - at)] ELSE Untouched) \in Int
  <2>1. ~(p <= at) /\ p <= at + size => off + (p - at) \in 1 .. Len(File)
    BY <1>1, <1>2
  <2>2. out[p] \in Int /\ Untouched \in Int
    BY DEF PayType, Untouched
  <2> QED BY <1>2, <2>1, <2>2
<1> QED BY <1>3

(* Copying a part keeps the invariant: the bytes copied are those the      *)
(* payload has there, and after the last part the whole payload was        *)
(* reached.                                                                *)
LEMMA CopyPartInv ==
  ASSUME PayInv, CopyPart
  PROVE  PayInv'
<1>1. /\ PayType /\ pc = "copy" /\ Copying /\ job' = job /\ chain' = chain
      /\ job \in Call /\ job.cap \in Nat /\ job.maxOut \in Nat
  BY CallFacts DEF PayInv, PayType, CopyPart
<1>2. /\ Len(chain) \in Nat /\ reached \in 0 .. Len(chain)
      /\ \A n \in 0 .. Len(chain) : SizeTo(job, chain, n) \in Nat
      /\ \A n, m \in 0 .. Len(chain) : n <= m => SizeTo(job, chain, n) <= SizeTo(job, chain, m)
      /\ \A n \in 1 .. Len(chain) :
            SizeTo(job, chain, n) = SizeTo(job, chain, n - 1) + job.blocks[chain[n]].size
      /\ Total(job, chain) = SizeTo(job, chain, Len(chain))
  <2>1. chain \in Seq(DOMAIN job.blocks) /\ Len(chain) \in Nat
    BY <1>1 DEF Copying
  <2>2. reached \in 0 .. Len(chain)
    BY <1>1, <2>1 DEF Copying, PayType
  <2> QED BY <1>1, <2>1, <2>2, SizeToStep, SizeToGrows DEF Total
<1>3. CASE reached = Len(chain)
  <2>1. pc' = "returned" /\ res' = res /\ out' = out /\ at' = at /\ reached' = reached
        /\ readFailed' = readFailed
    BY <1>3 DEF CopyPart
  <2>2. \A n \in 1 .. Len(chain) : PartInFile(job, chain[n])
    BY <1>1, <1>3 DEF Copying
  <2>3. Joined(job, chain, Payload(job))
    BY <1>1, <2>2 DEF Copying, Describes
  <2>4. Payload(job) \in Seq(FileByte) /\ Len(Payload(job)) = at
    BY <1>1, <1>2, <1>3, <2>3 DEF Joined, Copying
  <2>5. Complete(job)
    BY <2>4, ByteIsNatural, BytesAreComplete
  <2>6. at' = Len(Payload(job)) /\ res'.needed = at'
    BY <1>1, <1>2, <1>3, <2>1, <2>4 DEF Copying
  <2>7. Extracted'
    BY <1>1, <2>1 DEF Copying, Extracted
  <2>8. Answered(Payload(job))'
    BY <1>1, <2>1, <2>2 DEF Copying, Answered
  <2>9. out' \in [1 .. job.cap -> Int] /\ res' \in [status : Status, written : Nat, needed : Nat]
        /\ chain' \in Seq(Nat) /\ reached' \in Nat /\ at' \in Nat /\ readFailed' \in BOOLEAN
    BY <1>1, <2>1 DEF PayType
  <2> QED BY <1>1, <2>1, <2>5, <2>6, <2>7, <2>8, <2>9, Answer
<1>4. CASE reached # Len(chain)
  <2> DEFINE n == reached + 1
             b == job.blocks[chain[n]]
             r == [res EXCEPT !.needed = res.needed]
  <2>1. n \in 1 .. Len(chain) /\ n - 1 = reached /\ n \in 0 .. Len(chain)
    BY <1>2, <1>4
  <2>2. chain[n] \in DOMAIN job.blocks
    BY <1>1, <2>1 DEF Copying
  <2>3. b.off \in Nat /\ b.size \in Nat
    BY <1>1, <2>2, BlockFacts
  <2>4. CopyRange(res, b.off, b.size, at, "copy") /\ at' = at + b.size /\ reached' = n
    BY <1>4 DEF CopyPart
  <2>5. r = res
    BY <1>1 DEF PayType
  <2>6. /\ Extracted /\ at = SizeTo(job, chain, reached) /\ res.needed = Total(job, chain)
        /\ Total(job, chain) \in Nat /\ at <= Total(job, chain)
        /\ at + b.size = SizeTo(job, chain, n) /\ at + b.size <= Total(job, chain)
        /\ at + b.size \in Nat /\ at \in Nat
    <3>1. at = SizeTo(job, chain, reached) /\ res.needed = Total(job, chain) /\ Extracted
      BY <1>1 DEF Copying
    <3>2. at + b.size = SizeTo(job, chain, n) /\ SizeTo(job, chain, n) \in Nat
      BY <1>2, <2>1, <3>1
    <3>3. at <= Total(job, chain) /\ SizeTo(job, chain, n) <= Total(job, chain)
          /\ Total(job, chain) \in Nat /\ at \in Nat
      <4> HIDE DEF n
      <4> QED BY <1>2, <2>1, <3>1
    <3> HIDE DEF n, b
    <3> QED BY <3>1, <3>2, <3>3
  <2> HIDE DEF r
  <2> DEFINE copied == [p \in 1 .. job.cap |->
                        IF p <= at THEN out[p]
                        ELSE IF p <= at + b.size THEN File[b.off + (p - at)] ELSE Untouched]
  <2>7. \/ /\ pc' = "returned" /\ out' = out
           /\ res' = [res EXCEPT !.needed = res.needed, !.status = "MALFORMED"]
           /\ \/ ~InFile(b.off, b.size) /\ readFailed' = readFailed
              \/ readFailed' = TRUE
        \/ /\ InFile(b.off, b.size) /\ pc' = "copy" /\ readFailed' = readFailed
           /\ res' = [status |-> IF at + b.size > job.cap THEN "TRUNCATED" ELSE "OK",
                      written |-> Lesser(job.cap, at + b.size), needed |-> res.needed]
           /\ out' = copied
    <3>1. CopyRange([res EXCEPT !.needed = res.needed], b.off, b.size, at, "copy")
      BY <2>4, <2>5 DEF r
    <3>2. res.needed \in Nat /\ at <= res.needed
      BY <2>6
    <3>3. PayType /\ Extracted
      BY <1>1, <2>6
    <3> HIDE DEF b
    <3> QED BY <2>3, <3>1, <3>2, <3>3, CopyRangeStep, Zenon
  <2>8. chain' \in Seq(Nat) /\ reached' \in Nat /\ at' \in Nat
    BY <1>1, <1>2, <2>1, <2>4, <2>6 DEF PayType
  <2>9. CASE /\ pc' = "returned" /\ out' = out
             /\ res' = [res EXCEPT !.needed = res.needed, !.status = "MALFORMED"]
             /\ \/ ~InFile(b.off, b.size) /\ readFailed' = readFailed
                \/ readFailed' = TRUE
    <3>1. ~InFile(b.off, b.size) => ~Complete(job)
      <4>1. ~InFile(b.off, b.size) => ~PartInFile(job, chain[n])
        BY DEF PartInFile
      <4>2. ~InFile(b.off, b.size) => Payload(job) = NoPayload
        BY <1>1, <2>1, <4>1 DEF Copying, Describes
      <4> QED BY <4>2, NothingIsIncomplete
    <3>2. /\ res' \in [status : Status, written : Nat, needed : Nat]
          /\ res'.written = res.written /\ res'.status = "MALFORMED"
      BY <1>1, <2>9 DEF PayType, Status
    <3>3. readFailed' \in BOOLEAN /\ (readFailed' \/ ~Complete(job))
      BY <1>1, <2>9, <3>1 DEF PayType
    <3> QED BY <1>1, <2>8, <2>9, <3>2, <3>3, Refusal
  <2>10. CASE /\ InFile(b.off, b.size) /\ pc' = "copy" /\ readFailed' = readFailed
              /\ res' = [status |-> IF at + b.size > job.cap THEN "TRUNCATED" ELSE "OK",
                         written |-> Lesser(job.cap, at + b.size), needed |-> res.needed]
              /\ out' = copied
    <3>1. copied \in [1 .. job.cap -> Int]
      <4> HIDE DEF b
      <4> QED BY <1>1, <2>3, <2>10, CopiedType
    <3>2. PayType'
      <4>1. res' \in [status : Status, written : Nat, needed : Nat]
        <5>1. Lesser(job.cap, at + b.size) \in Nat /\ res.needed \in Nat
          BY <1>1, <2>6 DEF Lesser, PayType
        <5> QED BY <2>10, <5>1 DEF Status
      <4> HIDE DEF copied
      <4> QED BY <1>1, <2>8, <2>10, <3>1, <4>1 DEF PayType
    <3>3. (\A i \in 1 .. Len(chain) : PartInFile(job, chain[i])) =>
            \A j \in 1 .. b.size : Payload(job)[at + j] = File[b.off + j]
      <4> SUFFICES ASSUME \A i \in 1 .. Len(chain) : PartInFile(job, chain[i]), NEW j \in 1 .. b.size
                   PROVE  Payload(job)[at + j] = File[b.off + j]
        OBVIOUS
      <4>1. Joined(job, chain, Payload(job))
        BY <1>1 DEF Copying, Describes
      <4>2. j \in Nat /\ 1 <= j /\ j <= b.size
        BY <2>3
      <4>3. Payload(job)[SizeTo(job, chain, n - 1) + j] = File[b.off + j]
        BY <2>1, <4>1, <4>2 DEF Joined
      <4> QED BY <2>1, <2>6, <4>3
    <3>4. \A p \in DOMAIN out' : p > at + b.size => out'[p] = Untouched
      <4>1. ASSUME NEW p \in 1 .. job.cap, p > at + b.size PROVE copied[p] = Untouched
        <5>1. ~(p <= at) /\ ~(p <= at + b.size)
          BY <2>3, <2>6, <4>1
        <5> QED BY <5>1
      <4> QED BY <2>10, <4>1
    <3>5. Extracted'
      <4>1. at' <= job.maxOut
        BY <1>1, <2>4, <2>6 DEF Copying
      <4> HIDE DEF copied, b
      <4> QED BY <1>1, <2>4, <2>10, <3>4, <4>1 DEF Extracted
    <3>6. (\A i \in 1 .. Len(chain) : PartInFile(job, chain[i])) => Answered(Payload(job))'
      <4> SUFFICES ASSUME \A i \in 1 .. Len(chain) : PartInFile(job, chain[i])
                   PROVE  Answered(Payload(job))'
        OBVIOUS
      <4>1. Answered(Payload(job))
        BY <1>1 DEF Copying
      <4>2. \A p \in DOMAIN out' : p <= at + b.size => out'[p] = Payload(job)[p]
        <5>1. PayType /\ Extracted /\ \A j \in 1 .. b.size : Payload(job)[at + j] = File[b.off + j]
          BY <1>1, <2>6, <3>3
        <5>2. b.off \in Nat /\ b.size \in Nat /\ out' = copied
          BY <2>3, <2>10
        <5> HIDE DEF b
        <5> QED BY <4>1, <5>1, <5>2, CopiedOn, Zenon
      <4> QED BY <1>1, <2>4, <4>2 DEF Answered
    <3>7. Copying'
      <4>1. \A i \in 1 .. n : PartInFile(job, chain[i])
        <5>1. \A i \in 1 .. reached : PartInFile(job, chain[i])
          BY <1>1 DEF Copying
        <5>2. PartInFile(job, chain[n])
          BY <2>10 DEF PartInFile
        <5>3. \A i \in 1 .. n : i \in 1 .. reached \/ i = n
          BY <1>2
        <5> QED BY <5>1, <5>2, <5>3
      <4>2. n <= Len(chain) /\ at' = SizeTo(job, chain, n) /\ reached' = n
        BY <2>1, <2>4, <2>6, <1>2
      <4>3. res'.needed = Total(job, chain)
        BY <2>6, <2>10
      <4> HIDE DEF n, b, copied
      <4> QED BY <1>1, <3>5, <3>6, <4>1, <4>2, <4>3 DEF Copying
    <3>8. LimitHolds' /\ AnswerIsPayload'
      BY <1>1, <2>8, <2>10, <3>1, <3>5, Going
    <3> QED BY <2>10, <3>2, <3>7, <3>8 DEF PayInv
  <2> QED BY <2>7, <2>9, <2>10
<1> QED BY <1>3, <1>4

(* Bytes are bytes or the mark.                                            *)
LEMMA BytesAreData ==
  ASSUME NEW s \in Seq(FileByte)
  PROVE  s \in Seq(Datum)
<1>1. \A n \in 1 .. Len(s) : s[n] \in Datum
  BY DEF Datum
<1>2. Len(s) \in Nat /\ s = [n \in 1 .. Len(s) |-> s[n]]
  OBVIOUS
<1> QED BY <1>1, <1>2

(* The first elements of two sequences joined are those of the first.      *)
LEMMA ConcatHead ==
  ASSUME NEW S, NEW s \in Seq(S), NEW t \in Seq(S), NEW j \in 1 .. Len(s)
  PROVE  (s \o t)[j] = s[j]
  OBVIOUS

(* The others are those of the second.                                     *)
LEMMA ConcatTail ==
  ASSUME NEW S, NEW s \in Seq(S), NEW t \in Seq(S), NEW k \in 1 .. Len(t)
  PROVE  (s \o t)[Len(s) + k] = t[k]
  OBVIOUS

(* q is the size bytes of a sub-block at p, and then next.                 *)
OneAhead(p, size, q, next) ==
    /\ q \in Seq(Datum) /\ next \in Seq(Datum) /\ Len(q) = size + Len(next)
    /\ \A j \in 1 .. size : q[j] = File[p + 1 + j] /\ q[j] \in FileByte
    /\ \A k \in 1 .. Len(next) : q[size + k] = next[k]

(* A sub-block is its bytes, and then the sub-blocks behind it.            *)
LEMMA SubBlockAhead ==
  ASSUME NEW c, GifInFile(c), NEW p \in 0 .. Len(File), p < GifEnd(c),
         NEW size \in Nat, size = File[p + 1], size # 0, p + 1 + size <= GifEnd(c)
  PROVE  /\ p + 1 + size \in 0 .. Len(File)
         /\ OneAhead(p, size, SubBlocks(c)[p], SubBlocks(c)[p + 1 + size])
<1> DEFINE q == SubBlocks(c)[p]
           to == p + 1 + size
           next == SubBlocks(c)[to]
           here == SubSeq(File, p + 2, to)
<1>1. /\ Len(File) \in Nat /\ GifEnd(c) \in Nat /\ GifEnd(c) <= Len(File)
      /\ \A i \in 1 .. Len(File) : File[i] \in FileByte
  BY GifFacts
<1>2. to \in 0 .. Len(File)
  BY <1>1
<1>3. q = here \o next
  <2>1. q = Rest(c, SubBlocks(c), p)
    BY SubBlocksAt
  <2>2. ~(p >= GifEnd(c)) /\ ~(File[p + 1] = 0) /\ ~(p + 1 + File[p + 1] > GifEnd(c))
    BY <1>1
  <2>3. q = SubSeq(File, p + 2, p + 1 + File[p + 1]) \o SubBlocks(c)[p + 1 + File[p + 1]]
    <3> HIDE DEF q, next, here
    <3> QED BY <2>1, <2>2, Zenon DEF Rest
  <2> QED BY <2>3
<1>4. next \in Seq(Datum)
  <2> HIDE DEF to
  <2> QED BY <1>2, SubBlocksType
<1>5. here \in Seq(FileByte) /\ Len(here) = size
      /\ \A j \in 1 .. size : here[j] = File[p + 1 + j] /\ here[j] \in FileByte
  <2>1. File \in Seq(FileByte)
    BY FileAssumption DEF FileByte
  <2>2. /\ p + 2 \in Nat /\ 1 <= p + 2 /\ to \in Nat /\ to <= Len(File) /\ to - (p + 2) + 1 = size
        /\ p + 2 <= to + 1
    BY <1>1, <1>2
  <2>3. here \in Seq(FileByte) /\ Len(here) = size
    <3> HIDE DEF to
    <3> QED BY <2>1, <2>2
  <2>4. ASSUME NEW j \in 1 .. size PROVE here[j] = File[p + 1 + j]
    <3>1. j \in 1 .. to - (p + 2) + 1 /\ p + 2 + j - 1 = p + 1 + j
      BY <2>2
    <3>2. here[j] = File[p + 2 + j - 1]
      <4> HIDE DEF to
      <4> QED BY <2>1, <2>2, <3>1
    <3> QED BY <3>1, <3>2
  <2>5. \A j \in 1 .. size : here[j] \in FileByte
    <3> HIDE DEF here
    <3> QED BY <2>3
  <2> HIDE DEF here
  <2> QED BY <2>3, <2>4, <2>5
<1>6. here \in Seq(Datum)
  <2> HIDE DEF here
  <2>1. FileByte \subseteq Datum
    BY DEF Datum
  <2> QED BY <1>5, <2>1, BytesAreData
<1> HIDE DEF to, next, here, q
<1>7. q \in Seq(Datum) /\ Len(q) = size + Len(next)
      /\ (\A j \in 1 .. size : q[j] = here[j]) /\ \A k \in 1 .. Len(next) : q[size + k] = next[k]
  <2>1. q \in Seq(Datum) /\ Len(q) = size + Len(next)
    BY <1>3, <1>4, <1>5, <1>6
  <2>2. \A j \in 1 .. size : q[j] = here[j]
    BY <1>3, <1>4, <1>5, <1>6, ConcatHead
  <2>3. \A k \in 1 .. Len(next) : q[size + k] = next[k]
    <3>1. \A k \in 1 .. Len(next) : (here \o next)[Len(here) + k] = next[k]
      BY <1>4, <1>6, ConcatTail
    <3> QED BY <1>3, <1>5, <3>1
  <2> QED BY <2>1, <2>2, <2>3
<1>8. \A j \in 1 .. size : q[j] = File[p + 1 + j] /\ q[j] \in FileByte
  BY <1>5, <1>7
<1>9. OneAhead(p, size, q, next)
  BY <1>4, <1>7, <1>8 DEF OneAhead
<1> QED BY <1>2, <1>9 DEF to, next, q

(* What is no payload from here on, is none.                               *)
LEMMA BrokenSubBlocks ==
  ASSUME Splitting, at \in Nat, SubBlocks(job)[reached] = NoPayload
  PROVE  ~Complete(job)
<1>1. Len(NoPayload) = 1 /\ NoPayload[1] = Untouched
  BY DEF NoPayload
<1>2. Payload(job)[at + 1] = Untouched /\ Len(Payload(job)) = at + 1 /\ Payload(job) \in Seq(Datum)
  BY <1>1 DEF Splitting, SubBlocksAhead
<1>3. at + 1 \in DOMAIN Payload(job)
  BY <1>2
<1> QED BY <1>2, <1>3 DEF Complete, Range

(* One sub-block further.                                                  *)
LEMMA SubBlocksFurther ==
  ASSUME Splitting, at \in Nat, reached \in Nat, reached < GifEnd(job),
         NEW size \in Nat, size = File[reached + 1], size # 0, reached + 1 + size <= GifEnd(job)
  PROVE  /\ \A j \in 1 .. size : Payload(job)[at + j] = File[reached + 1 + j]
         /\ at + size <= Len(Payload(job))
         /\ Payload(job) \in Seq(Datum)
         /\ Len(Payload(job)) = at + size + Len(SubBlocks(job)[reached + 1 + size])
         /\ \A k \in 1 .. Len(SubBlocks(job)[reached + 1 + size]) :
                Payload(job)[at + size + k] = SubBlocks(job)[reached + 1 + size][k]
         /\ \A p \in 1 .. at + size : Payload(job)[p] \in FileByte
<1> DEFINE q == SubBlocks(job)[reached]
           next == SubBlocks(job)[reached + 1 + size]
           whole == Payload(job)
<1>1. GifInFile(job) /\ GifEnd(job) \in Nat /\ GifEnd(job) <= Len(File) /\ Len(File) \in Nat
  BY GifFacts DEF Splitting
<1>2. reached \in 0 .. Len(File)
  BY <1>1
<1>3. /\ next \in Seq(Datum) /\ q \in Seq(Datum) /\ Len(q) = size + Len(next)
      /\ \A j \in 1 .. size : q[j] = File[reached + 1 + j] /\ q[j] \in FileByte
      /\ \A k \in 1 .. Len(next) : q[size + k] = next[k]
  <2>1. OneAhead(reached, size, q, next)
    BY <1>1, <1>2, SubBlockAhead
  <2> HIDE DEF q, next
  <2> QED BY <2>1 DEF OneAhead
<1>4. /\ whole \in Seq(Datum) /\ Len(whole) = at + Len(q)
      /\ \A k \in 1 .. Len(q) : whole[at + k] = q[k]
      /\ \A p \in 1 .. at : whole[p] \in FileByte
  BY DEF Splitting, SubBlocksAhead
<1> HIDE DEF q, next, whole
<1>5. Len(next) \in Nat
  BY <1>3
<1>6. \A j \in 1 .. size : whole[at + j] = File[reached + 1 + j] /\ whole[at + j] \in FileByte
  <2>1. \A j \in 1 .. size : j \in 1 .. Len(q)
    BY <1>3, <1>5
  <2> QED BY <1>3, <1>4, <2>1, Zenon
<1>7. \A k \in 1 .. Len(next) : whole[at + size + k] = next[k]
  <2>1. \A k \in 1 .. Len(next) : size + k \in 1 .. Len(q) /\ at + (size + k) = at + size + k
    BY <1>3, <1>5
  <2> QED BY <1>3, <1>4, <2>1, Zenon
<1>8. ASSUME NEW p \in 1 .. at + size PROVE whole[p] \in FileByte
  <2>1. CASE p <= at
    BY <1>4, <2>1
  <2>2. CASE ~(p <= at)
    <3>1. p - at \in 1 .. size /\ at + (p - at) = p
      BY <2>2
    <3>2. whole[at + (p - at)] \in FileByte
      BY <1>6, <3>1
    <3> QED BY <3>1, <3>2
  <2> QED BY <2>1, <2>2
<1>9. Len(whole) = at + size + Len(next) /\ at + size <= Len(whole)
  BY <1>3, <1>4, <1>5
<1> QED BY <1>4, <1>6, <1>7, <1>8, <1>9 DEF whole, next

(* Reading a sub-block keeps the invariant: an end where none may be means *)
(* that there is no payload, and a limit passed that it is too long.       *)
LEMMA GifStepInv ==
  ASSUME PayInv, GifStep
  PROVE  PayInv'
<1>1. /\ PayType /\ pc = "gif" /\ Splitting /\ job' = job /\ chain' = chain
      /\ job \in Call /\ job.cap \in Nat /\ job.maxOut \in Nat /\ at \in Nat /\ reached \in Nat
      /\ chain' \in Seq(Nat) /\ at <= job.maxOut
  BY CallFacts DEF PayInv, PayType, GifStep, Splitting, Extracted
<1>2. /\ GifInFile(job) /\ GifEnd(job) \in Nat /\ GifEnd(job) <= Len(File) /\ Len(File) \in Nat
      /\ reached <= GifEnd(job) /\ reached \in 0 .. Len(File)
  BY <1>1, GifFacts DEF Splitting
<1> DEFINE q == SubBlocks(job)[reached]
<1>3. q = Rest(job, SubBlocks(job), reached)
  BY <1>2, SubBlocksAt
<1>4. ASSUME Fail("MALFORMED"), out' = out, reached' = reached, at' = at,
             \/ readFailed' = TRUE
             \/ readFailed' = readFailed /\ q = NoPayload
      PROVE  PayInv'
  <2>1. /\ res' \in [status : Status, written : Nat, needed : Nat]
        /\ res'.written = res.written /\ res'.status = "MALFORMED" /\ pc' = "returned"
    BY <1>1, <1>4 DEF PayType, Status, Fail
  <2>2. readFailed' \/ ~Complete(job)
    BY <1>1, <1>4, BrokenSubBlocks
  <2>3. readFailed' \in BOOLEAN
    BY <1>1, <1>4 DEF PayType
  <2> QED BY <1>1, <1>4, <2>1, <2>2, <2>3, Refusal
<1>5. CASE /\ reached < GifEnd(job)
           /\ readFailed' = TRUE
           /\ Fail("MALFORMED") /\ UNCHANGED <<out, reached, at>>
  BY <1>4, <1>5
<1>6. CASE /\ reached = GifEnd(job)
           /\ Fail("MALFORMED") /\ UNCHANGED <<out, reached, at, readFailed>>
  <2>1. q = NoPayload
    BY <1>2, <1>3, <1>6 DEF Rest
  <2> QED BY <1>4, <1>6, <2>1
<1>7. CASE /\ reached < GifEnd(job) /\ File[reached + 1] = 0
           /\ IF reached + 1 = GifEnd(job)
              THEN pc' = "returned" /\ res' = [res EXCEPT !.needed = at]
              ELSE Fail("MALFORMED")
           /\ UNCHANGED <<out, reached, at, readFailed>>
  <2>1. q = IF reached + 1 = GifEnd(job) THEN <<>> ELSE NoPayload
    <3>1. ~(reached >= GifEnd(job))
      BY <1>2, <1>7
    <3> HIDE DEF q
    <3> QED BY <1>3, <1>7, <3>1 DEF Rest
  <2>2. CASE reached + 1 # GifEnd(job)
    BY <1>4, <1>7, <2>1, <2>2
  <2>3. CASE reached + 1 = GifEnd(job)
    <3>1. q = <<>>
      BY <2>1, <2>3
    <3>2. Payload(job) \in Seq(Datum) /\ Len(Payload(job)) = at
          /\ \A p \in 1 .. at : Payload(job)[p] \in FileByte
      <4>1. SubBlocksAhead(<<>>) /\ Len(<<>>) = 0
        BY <1>1, <3>1 DEF Splitting
      <4> QED BY <1>1, <4>1 DEF SubBlocksAhead
    <3>3. Payload(job) \in Seq(FileByte)
      BY <3>2
    <3>4. Complete(job)
      BY <3>3, ByteIsNatural, BytesAreComplete
    <3>5. pc' = "returned" /\ res' = res /\ res.needed = at /\ out' = out /\ at' = at
          /\ reached' = reached /\ readFailed' = readFailed
      BY <1>1, <1>7, <2>3 DEF Splitting, PayType
    <3>6. Extracted'
      BY <1>1, <3>5 DEF Splitting, Extracted
    <3>7. Answered(Payload(job))'
      BY <1>1, <3>5 DEF Splitting, Answered
    <3>8. out' \in [1 .. job.cap -> Int] /\ res' \in [status : Status, written : Nat, needed : Nat]
          /\ reached' \in Nat /\ at' \in Nat /\ readFailed' \in BOOLEAN
      BY <1>1, <3>5 DEF PayType
    <3>9. at' = Len(Payload(job)) /\ res'.needed = at'
      BY <3>2, <3>5
    <3> QED BY <1>1, <3>4, <3>5, <3>6, <3>7, <3>8, <3>9, Answer
  <2> QED BY <2>2, <2>3
<1>8. ASSUME NEW size, size = File[reached + 1], reached < GifEnd(job), size # 0,
             IF size > GifEnd(job) - (reached + 1)
             THEN Fail("MALFORMED") /\ UNCHANGED <<out, reached, at, readFailed>>
             ELSE IF size > job.maxOut - at
             THEN /\ pc' = "returned"
                  /\ res' = [[res EXCEPT !.needed = at + size] EXCEPT !.status = "LIMIT"]
                  /\ UNCHANGED <<out, reached, at, readFailed>>
             ELSE /\ CopyRange([res EXCEPT !.needed = at + size], reached + 1, size, at, "gif")
                  /\ at' = at + size
                  /\ reached' = reached + 1 + size
      PROVE  PayInv'
  <2>1. size \in Nat
    <3>1. reached + 1 \in 1 .. Len(File)
      BY <1>2, <1>8
    <3> QED BY <1>2, <1>8, <3>1, GifFacts, ByteIsNatural
  <2>2. CASE size > GifEnd(job) - (reached + 1)
    <3>1. ~(reached >= GifEnd(job)) /\ reached + 1 + size > GifEnd(job)
      BY <1>2, <1>8, <2>1, <2>2
    <3>2. q = NoPayload
      <4> HIDE DEF q
      <4> QED BY <1>3, <1>8, <3>1, Zenon DEF Rest
    <3> QED BY <1>4, <1>8, <2>2, <3>2
  <2>3. CASE ~(size > GifEnd(job) - (reached + 1))
    <3>1. reached + 1 + size <= GifEnd(job)
      BY <1>2, <2>1, <2>3
    <3> DEFINE next == SubBlocks(job)[reached + 1 + size]
               whole == Payload(job)
    <3>2. /\ \A j \in 1 .. size : whole[at + j] = File[reached + 1 + j]
          /\ at + size <= Len(whole)
          /\ whole \in Seq(Datum)
          /\ Len(whole) = at + size + Len(next)
          /\ \A k \in 1 .. Len(next) : whole[at + size + k] = next[k]
          /\ \A p \in 1 .. at + size : whole[p] \in FileByte
      BY <1>1, <1>8, <2>1, <3>1, SubBlocksFurther
    <3>3. CASE size > job.maxOut - at
      <4>1. Len(whole) > job.maxOut
        <5>1. Len(whole) \in Nat
          BY <3>2
        <5>2. at + size <= Len(whole)
          BY <3>2
        <5> HIDE DEF whole
        <5> QED BY <1>1, <2>1, <3>3, <5>1, <5>2
      <4>2. /\ res' \in [status : Status, written : Nat, needed : Nat]
            /\ res'.written = res.written /\ res'.status = "LIMIT" /\ pc' = "returned"
        <5>1. at + size \in Nat
          BY <1>1, <2>1
        <5> QED BY <1>1, <1>8, <2>3, <3>3, <5>1 DEF PayType, Status
      <4>3. out' = out /\ reached' = reached /\ at' = at /\ readFailed' = readFailed
        BY <1>8, <2>3, <3>3
      <4>4. reached' \in Nat /\ at' \in Nat /\ readFailed' \in BOOLEAN
        BY <1>1, <4>3 DEF PayType
      <4> QED BY <1>1, <4>1, <4>2, <4>3, <4>4, Refusal
    <3>4. CASE ~(size > job.maxOut - at)
      <4> DEFINE copied == [p \in 1 .. job.cap |->
                            IF p <= at THEN out[p]
                            ELSE IF p <= at + size THEN File[reached + 1 + (p - at)] ELSE Untouched]
      <4>1. at' = at + size /\ reached' = reached + 1 + size
            /\ CopyRange([res EXCEPT !.needed = at + size], reached + 1, size, at, "gif")
        BY <1>8, <2>3, <3>4
      <4>2. at + size \in Nat /\ at <= at + size /\ reached + 1 \in Nat /\ reached' \in Nat /\ at' \in Nat
            /\ at + size <= job.maxOut
        BY <1>1, <2>1, <3>4, <4>1
      <4>3. PayType /\ Extracted
        BY <1>1 DEF Splitting
      <4>4. \/ /\ pc' = "returned" /\ out' = out
               /\ res' = [res EXCEPT !.needed = at + size, !.status = "MALFORMED"]
               /\ \/ ~InFile(reached + 1, size) /\ readFailed' = readFailed
                  \/ readFailed' = TRUE
            \/ /\ InFile(reached + 1, size) /\ pc' = "gif" /\ readFailed' = readFailed
               /\ res' = [status |-> IF at + size > job.cap THEN "TRUNCATED" ELSE "OK",
                          written |-> Lesser(job.cap, at + size), needed |-> at + size]
               /\ out' = copied
        BY <2>1, <4>1, <4>2, <4>3, CopyRangeStep, Zenon
      <4>5. InFile(reached + 1, size)
        BY <1>1, <1>2, <2>1, <3>1 DEF InFile
      <4>6. CASE /\ pc' = "returned" /\ out' = out
                 /\ res' = [res EXCEPT !.needed = at + size, !.status = "MALFORMED"]
                 /\ readFailed' = TRUE
        <5>1. /\ res' \in [status : Status, written : Nat, needed : Nat]
              /\ res'.written = res.written /\ res'.status = "MALFORMED"
          BY <1>1, <4>2, <4>6 DEF PayType, Status
        <5> QED BY <1>1, <4>2, <4>6, <5>1, Refusal
      <4>7. CASE /\ pc' = "gif" /\ readFailed' = readFailed
                 /\ res' = [status |-> IF at + size > job.cap THEN "TRUNCATED" ELSE "OK",
                            written |-> Lesser(job.cap, at + size), needed |-> at + size]
                 /\ out' = copied
        <5>1. copied \in [1 .. job.cap -> Int]
          BY <2>1, <4>2, <4>3, <4>5, CopiedType, Zenon
        <5>2. PayType'
          <6>1. res' \in [status : Status, written : Nat, needed : Nat]
            <7>1. Lesser(job.cap, at + size) \in Nat
              BY <1>1, <4>2 DEF Lesser
            <7> QED BY <4>2, <4>7, <7>1 DEF Status
          <6> HIDE DEF copied
          <6> QED BY <1>1, <4>2, <4>7, <5>1, <6>1 DEF PayType
        <5>3. /\ \A p \in DOMAIN out' : p <= at + size => out'[p] = Payload(job)[p]
              /\ \A p \in DOMAIN out' : p > at + size => out'[p] = Untouched
          <6>1. Answered(Payload(job)) /\ out' = copied
            BY <1>1, <4>7 DEF Splitting
          <6> QED BY <2>1, <3>2, <4>2, <4>3, <6>1, CopiedOn, Zenon
        <5> HIDE DEF copied
        <5>4. Extracted'
          BY <1>1, <4>1, <4>2, <4>7, <5>3 DEF Extracted
        <5>5. Answered(Payload(job))'
          BY <1>1, <4>1, <5>3 DEF Answered
        <5>6. SubBlocksAhead(SubBlocks(job)[reached])'
          <6>1. SubBlocksAhead(SubBlocks(job)[reached])' =
                    (/\ whole \in Seq(Datum)
                     /\ Len(whole) = at + size + Len(next)
                     /\ \A k \in 1 .. Len(next) : whole[at + size + k] = next[k]
                     /\ \A p \in 1 .. at + size : whole[p] \in FileByte)
            BY <1>1, <4>1, Zenon DEF SubBlocksAhead
          <6> QED BY <3>2, <6>1
        <5>7. Splitting'
          BY <1>1, <1>2, <3>1, <4>1, <4>7, <5>4, <5>5, <5>6 DEF Splitting
        <5>8. LimitHolds' /\ AnswerIsPayload'
          BY <1>1, <4>2, <4>7, <5>1, <5>4, Going
        <5> QED BY <4>7, <5>2, <5>7, <5>8 DEF PayInv
      <4> QED BY <4>4, <4>5, <4>6, <4>7
    <3> QED BY <3>3, <3>4
  <2> QED BY <2>2, <2>3
<1>9. CASE /\ reached < GifEnd(job) /\ File[reached + 1] # 0
           /\ LET size == File[reached + 1]
                  more == [res EXCEPT !.needed = at + size]
              IN IF size > GifEnd(job) - (reached + 1)
                 THEN Fail("MALFORMED") /\ UNCHANGED <<out, reached, at, readFailed>>
                 ELSE IF size > job.maxOut - at
                 THEN /\ pc' = "returned" /\ res' = [more EXCEPT !.status = "LIMIT"]
                      /\ UNCHANGED <<out, reached, at, readFailed>>
                 ELSE /\ CopyRange(more, reached + 1, size, at, "gif")
                      /\ at' = at + size
                      /\ reached' = reached + 1 + size
  BY <1>8, <1>9
<1> QED BY <1>5, <1>6, <1>7, <1>9 DEF GifStep

(* A refusal after more was written, within the limits.                    *)
LEMMA LateRefusal ==
  ASSUME PayInv, job' = job, pc' = "returned", out' \in [1 .. job.cap -> Int],
         res' \in [status : Status, written : Nat, needed : Nat],
         res'.written <= job.cap, \A p \in DOMAIN out' : p > job.maxOut => out'[p] = Untouched,
         res'.status \notin {"OK", "TRUNCATED"}, ~Complete(job),
         chain' \in Seq(Nat), reached' \in Nat, at' \in Nat, readFailed' \in BOOLEAN
  PROVE  PayInv'
<1>1. PayType'
  BY DEF PayInv, PayType
<1>2. LimitHolds'
  BY DEF LimitHolds
<1>3. AnswerIsPayload'
  BY DEF AnswerIsPayload
<1> QED BY <1>1, <1>2, <1>3 DEF PayInv

(* What a compressed stream holds.                                         *)
LEMMA InflatedPayload ==
  ASSUME Inflating, job.holds \in Nat
  PROVE  /\ job.ends = "end" =>
                /\ Payload(job) = [k \in 1 .. job.holds |-> 256 + k]
                /\ Len(Payload(job)) = job.holds /\ Complete(job)
         /\ job.ends # "end" => ~Complete(job)
<1>1. CASE job.ends = "end"
  <2> DEFINE whole == [k \in 1 .. job.holds |-> 256 + k]
  <2>1. Payload(job) = whole
    BY <1>1 DEF Inflating, Payload
  <2>2. whole \in Seq(Nat) /\ Len(whole) = job.holds
    OBVIOUS
  <2> HIDE DEF whole
  <2>3. Complete(job)
    BY <2>1, <2>2, BytesAreComplete
  <2> QED BY <1>1, <2>1, <2>2, <2>3 DEF whole
<1>2. CASE job.ends # "end"
  <2>1. Payload(job) = NoPayload
    BY <1>2 DEF Inflating, Payload
  <2> QED BY <1>2, <2>1, NothingIsIncomplete
<1> QED BY <1>1, <1>2

(* The library's bytes go to the buffer as long as it has room, and are    *)
(* counted afterwards.                                                     *)
LEMMA InflatedOn ==
  ASSUME PayType, Extracted, \A p \in DOMAIN out : p <= at => out[p] = 256 + p,
         NEW n \in Nat, n <= Room, n <= Remaining, Inflated(n)
  PROVE  LET got == IF n = 0 THEN res
                    ELSE IF Direct THEN [res EXCEPT !.written = @ + n]
                    ELSE Truncated(res)
         IN /\ got = [status |-> IF at + n > job.cap THEN "TRUNCATED" ELSE "OK",
                      written |-> Lesser(job.cap, at + n), needed |-> res.needed]
            /\ out' \in [1 .. job.cap -> Int]
            /\ \A p \in DOMAIN out' : p <= at + n => out'[p] = 256 + p
            /\ \A p \in DOMAIN out' : p > at + n => out'[p] = Untouched
<1> DEFINE got == IF n = 0 THEN res
                  ELSE IF Direct THEN [res EXCEPT !.written = @ + n]
                  ELSE Truncated(res)
           sought == [status |-> IF at + n > job.cap THEN "TRUNCATED" ELSE "OK",
                      written |-> Lesser(job.cap, at + n), needed |-> res.needed]
<1>1. /\ job.cap \in Nat /\ job.maxOut \in Nat /\ at \in Nat /\ DOMAIN out = 1 .. job.cap
      /\ out \in [1 .. job.cap -> Int]
      /\ at <= job.maxOut /\ Remaining = job.maxOut - at /\ Scratch \in Nat
  BY CallFacts, ScratchAssumption DEF PayType, Extracted, Remaining
<1>2. res = [status |-> IF at > job.cap THEN "TRUNCATED" ELSE "OK",
             written |-> Lesser(job.cap, at), needed |-> res.needed]
  BY DEF PayType, Extracted
<1>3. res.written = IF job.cap < at THEN job.cap ELSE at
  BY DEF Extracted, Lesser
<1>4. Direct <=> at < job.cap /\ at # job.maxOut
  BY <1>1, <1>3 DEF Direct
<1>5. Direct => at + n <= job.cap /\ res.written = at
  <2> SUFFICES ASSUME Direct PROVE at + n <= job.cap /\ res.written = at
    OBVIOUS
  <2>1. Room = Lesser(job.cap - res.written, Remaining) /\ Remaining # 0
    BY DEF Room, Direct
  <2>2. res.written = at
    BY <1>1, <1>3, <1>4
  <2>3. n <= job.cap - at
    BY <1>1, <2>1, <2>2 DEF Lesser
  <2> QED BY <1>1, <2>2, <2>3
<1>6. ~Direct /\ n # 0 => at >= job.cap
  BY <1>1, <1>4
<1>7. got = sought
  <2>1. CASE n = 0
    BY <1>1, <1>2, <2>1
  <2>2. CASE n # 0 /\ Direct
    <3>1. got = [status |-> IF at > job.cap THEN "TRUNCATED" ELSE "OK",
                 written |-> at + n, needed |-> res.needed]
      BY <1>2, <1>5, <2>2
    <3>2. ~(at > job.cap) /\ ~(at + n > job.cap) /\ Lesser(job.cap, at + n) = at + n
      BY <1>1, <1>4, <1>5, <2>2 DEF Lesser
    <3> HIDE DEF got
    <3> QED BY <3>1, <3>2
  <2>3. CASE n # 0 /\ ~Direct
    <3>1. at + n > job.cap /\ Lesser(job.cap, at) = job.cap /\ Lesser(job.cap, at + n) = job.cap
      BY <1>1, <1>6, <2>3 DEF Lesser
    <3>2. got = Truncated(res)
      BY <2>3
    <3>3. Truncated(res) = [status |-> "TRUNCATED", written |-> job.cap, needed |-> res.needed]
      BY <1>2, <3>1 DEF Truncated
    <3> HIDE DEF got
    <3> QED BY <3>1, <3>2, <3>3
  <2> QED BY <2>1, <2>2, <2>3
<1>8. \A p \in 1 .. job.cap : out[p] = IF p <= at THEN 256 + p ELSE Untouched
  <2>1. \A p \in 1 .. job.cap : p <= at \/ p > at
    BY <1>1
  <2> QED BY <1>1, <2>1 DEF Extracted
<1>9. DOMAIN out' = 1 .. job.cap
      /\ \A p \in 1 .. job.cap : out'[p] = IF p <= at + n THEN 256 + p ELSE Untouched
  <2>1. CASE Direct
    <3>1. out' = [p \in 1 .. job.cap |->
                    IF p - at \in 1 .. n THEN 256 + at + p - at ELSE out[p]]
      BY <1>1, <1>5, <2>1 DEF Inflated
    <3>2. ASSUME NEW p \in 1 .. job.cap
          PROVE  (IF p - at \in 1 .. n THEN 256 + at + p - at ELSE out[p])
                 = IF p <= at + n THEN 256 + p ELSE Untouched
      <4>1. (p - at \in 1 .. n <=> ~(p <= at) /\ p <= at + n) /\ 256 + at + p - at = 256 + p
            /\ (p <= at => p <= at + n)
        BY <1>1
      <4>2. out[p] = IF p <= at THEN 256 + p ELSE Untouched
        BY <1>8
      <4> QED BY <4>1, <4>2
    <3> QED BY <3>1, <3>2
  <2>2. CASE ~Direct
    <3>1. out' = out
      BY <2>2 DEF Inflated
    <3>2. \A p \in 1 .. job.cap : p <= at + n <=> p <= at
      BY <1>1, <1>6, <2>2
    <3> QED BY <1>1, <1>8, <3>1, <3>2
  <2> QED BY <2>1, <2>2
<1>10. out' \in [1 .. job.cap -> Int]
  <2>1. out' = [p \in DOMAIN out' |-> out'[p]]
    BY <1>1 DEF Inflated
  <2>2. \A p \in 1 .. job.cap : (IF p <= at + n THEN 256 + p ELSE Untouched) \in Int
    BY DEF Untouched
  <2> QED BY <1>9, <2>1, <2>2
<1>11. \A p \in 1 .. job.cap : p > at + n <=> ~(p <= at + n)
  BY <1>1
<1> QED BY <1>7, <1>9, <1>10, <1>11

(* A call of the library keeps the invariant; the byte asked for at the    *)
(* limit only tells that there is more.                                    *)
LEMMA InflateInv ==
  ASSUME PayInv, NEW n \in 0 .. job.holds, NEW over \in BOOLEAN, Inflate(n, over)
  PROVE  PayInv'
<1>1. /\ PayType /\ pc = "inflate" /\ Inflating /\ Extracted /\ job' = job /\ chain' = chain
      /\ reached' = reached /\ readFailed' = readFailed /\ Inflated(n) /\ at' = at + n
      /\ job \in Call /\ job.cap \in Nat /\ job.maxOut \in Nat /\ job.holds \in Nat
      /\ at \in Nat /\ at <= job.maxOut /\ at <= job.holds
  BY CallFacts DEF PayInv, PayType, Inflate, Inflating, Extracted, Inflated
<1>2. n \in Nat /\ n <= Room /\ at + n <= job.holds
      /\ (over => at + n = job.holds) /\ (n > 0 \/ over)
  <2>1. n \in Nat /\ n <= Lesser(Room, job.holds - at)
    BY <1>1 DEF Inflate
  <2>2. Room \in Nat
    <3>1. Remaining \in Nat
      BY <1>1 DEF Remaining
    <3>2. Direct => job.cap - res.written \in Nat
      <4>1. res.written \in Nat
        BY <1>1 DEF PayType
      <4> QED BY <1>1, <4>1 DEF Direct
    <3>3. Scratch \in Nat
      BY ScratchAssumption
    <3> QED BY <3>1, <3>2, <3>3 DEF Room, Lesser
  <2>3. n <= Room /\ n <= job.holds - at
    BY <1>1, <2>1, <2>2 DEF Lesser
  <2> QED BY <1>1, <2>1, <2>3 DEF Inflate
<1>3. chain' \in Seq(Nat) /\ reached' \in Nat /\ at' \in Nat /\ readFailed' \in BOOLEAN
  BY <1>1, <1>2 DEF PayType
<1>4. CASE n > Remaining
  <2>1. pc' = "returned" /\ res' = [res EXCEPT !.status = "LIMIT", !.needed = at + 1]
    BY <1>4 DEF Inflate
  <2>2. Remaining = 0 /\ n = 1 /\ ~Direct
    <3>1. Remaining \in Nat
      BY <1>1 DEF Remaining
    <3>2. Remaining # 0 => Room <= Remaining
      <4> SUFFICES ASSUME Remaining # 0 PROVE Room <= Remaining
        OBVIOUS
      <4>1. Scratch \in Nat /\ (Direct => job.cap - res.written \in Int)
        BY <1>1, ScratchAssumption DEF PayType
      <4> QED BY <3>1, <4>1 DEF Room, Lesser
    <3>3. Room \in Int /\ (Remaining = 0 => Room = 1)
      <4>1. Scratch \in Nat /\ job.cap - res.written \in Int
        BY <1>1, ScratchAssumption DEF PayType
      <4> QED BY <3>1, <4>1 DEF Room, Lesser
    <3>4. Remaining = 0
      BY <1>2, <1>4, <3>1, <3>2, <3>3
    <3> QED BY <1>2, <1>4, <3>3, <3>4 DEF Direct
  <2>3. out' = out
    BY <1>1, <2>2 DEF Inflated
  <2>4. job.holds > job.maxOut
    BY <1>1, <1>2, <2>2 DEF Remaining
  <2>5. ~Complete(job) \/ Len(Payload(job)) > job.maxOut
    <3>1. job.ends = "end" => Len(Payload(job)) = job.holds
      BY <1>1, InflatedPayload
    <3>2. job.ends # "end" => ~Complete(job)
      BY <1>1, InflatedPayload
    <3> QED BY <2>4, <3>1, <3>2
  <2>6. /\ res' \in [status : Status, written : Nat, needed : Nat]
        /\ res'.written = res.written /\ res'.status = "LIMIT"
    <3>1. at + 1 \in Nat /\ res \in [status : Status, written : Nat, needed : Nat]
      BY <1>1 DEF PayType
    <3> QED BY <2>1, <3>1 DEF Status
  <2> QED BY <1>1, <1>3, <2>1, <2>3, <2>5, <2>6, Refusal
<1>5. CASE ~(n > Remaining)
  <2> DEFINE got == IF n = 0 THEN res
                    ELSE IF Direct THEN [res EXCEPT !.written = @ + n]
                    ELSE Truncated(res)
  <2>1. n <= Remaining /\ at + n <= job.maxOut
    BY <1>1, <1>2, <1>5 DEF Remaining
  <2>2. /\ got = [status |-> IF at + n > job.cap THEN "TRUNCATED" ELSE "OK",
                  written |-> Lesser(job.cap, at + n), needed |-> res.needed]
        /\ out' \in [1 .. job.cap -> Int]
        /\ \A p \in DOMAIN out' : p <= at + n => out'[p] = 256 + p
        /\ \A p \in DOMAIN out' : p > at + n => out'[p] = Untouched
    <3>1. \A p \in DOMAIN out : p <= at => out[p] = 256 + p
      BY <1>1 DEF Inflating
    <3> QED BY <1>1, <1>2, <2>1, <3>1, InflatedOn
  <2>3. IF over THEN pc' = "returned" /\ res' = Ended(got)
        ELSE pc' = "inflate" /\ res' = got
    BY <1>5 DEF Inflate
  <2>4. Lesser(job.cap, at + n) \in Nat /\ Lesser(job.cap, at + n) <= job.cap /\ res.needed \in Nat
        /\ at + n \in Nat
    BY <1>1, <1>2 DEF Lesser, PayType
  <2> HIDE DEF got
  <2>5. CASE ~over
    <3>1. pc' = "inflate" /\ res' = got
      BY <2>3, <2>5
    <3>2. res' \in [status : Status, written : Nat, needed : Nat]
      BY <2>2, <2>4, <3>1 DEF Status
    <3>3. PayType'
      BY <1>1, <1>3, <2>2, <3>1, <3>2 DEF PayType
    <3>4. Extracted'
      BY <1>1, <2>1, <2>2, <3>1 DEF Extracted
    <3>5. Inflating'
      BY <1>1, <1>2, <2>2, <3>4 DEF Inflating
    <3>6. LimitHolds' /\ AnswerIsPayload'
      BY <1>1, <1>3, <2>2, <3>1, <3>4, Going
    <3> QED BY <3>1, <3>3, <3>5, <3>6 DEF PayInv
  <2>6. CASE over
    <3>1. pc' = "returned" /\ res' = Ended(got) /\ at' = job.holds
      BY <1>1, <1>2, <2>3, <2>6
    <3>2. Ended(got) = [status |-> CASE job.ends = "end" -> got.status
                                     [] job.ends = "no memory" -> "NOMEM"
                                     [] OTHER -> "MALFORMED",
                        written |-> Lesser(job.cap, at + n), needed |-> at']
      <4> DEFINE status == CASE job.ends = "end" -> got.status
                             [] job.ends = "no memory" -> "NOMEM"
                             [] OTHER -> "MALFORMED"
      <4>1. Ended(got) = [got EXCEPT !.needed = at', !.status = status]
        BY DEF Ended
      <4> HIDE DEF status
      <4>2. Ended(got) = [status |-> status, written |-> Lesser(job.cap, at + n), needed |-> at']
        BY <2>2, <4>1
      <4> QED BY <4>2, Zenon DEF status
    <3>3. CASE job.ends = "end"
      <4>1. res' = [status |-> IF at + n > job.cap THEN "TRUNCATED" ELSE "OK",
                    written |-> Lesser(job.cap, at + n), needed |-> at']
        <5>1. got.status = IF at + n > job.cap THEN "TRUNCATED" ELSE "OK"
          BY <2>2
        <5> QED BY <3>1, <3>2, <3>3, <5>1
      <4>2. res' \in [status : Status, written : Nat, needed : Nat]
        BY <1>3, <2>4, <4>1 DEF Status
      <4>3. Extracted'
        BY <1>1, <2>1, <2>2, <4>1 DEF Extracted
      <4>4. Payload(job) = [k \in 1 .. job.holds |-> 256 + k]
            /\ Len(Payload(job)) = job.holds /\ Complete(job)
        BY <1>1, <3>3, InflatedPayload
      <4>5. Answered(Payload(job))'
        <5>1. \A p \in DOMAIN out' : p <= at + n => out'[p] = Payload(job)[p]
          <6>1. DOMAIN out' = 1 .. job.cap
            BY <2>2
          <6>2. \A p \in 1 .. job.cap : p <= at + n => p \in 1 .. job.holds
            BY <1>1, <1>2
          <6> QED BY <2>2, <4>4, <6>1, <6>2
        <5> QED BY <1>1, <5>1 DEF Answered
      <4>6. at' = Len(Payload(job)) /\ res'.needed = at'
        <5>1. res'.needed = at'
          BY <4>1
        <5>2. at' = Len(Payload(job))
          BY <3>1, <4>4, Zenon
        <5> QED BY <5>1, <5>2
      <4> QED BY <1>1, <1>3, <2>2, <3>1, <4>2, <4>3, <4>4, <4>5, <4>6, Answer
    <3>4. CASE job.ends # "end"
      <4>1. res' = [status |-> IF job.ends = "no memory" THEN "NOMEM" ELSE "MALFORMED",
                    written |-> Lesser(job.cap, at + n), needed |-> at']
        BY <3>1, <3>2, <3>4
      <4>2. /\ res' \in [status : Status, written : Nat, needed : Nat]
            /\ res'.written <= job.cap /\ res'.status \notin {"OK", "TRUNCATED"}
        BY <1>3, <2>4, <4>1 DEF Status
      <4>3. ~Complete(job)
        BY <1>1, <3>4, InflatedPayload
      <4>4. \A p \in DOMAIN out' : p > job.maxOut => out'[p] = Untouched
        <5>1. \A p \in 1 .. job.cap : p > job.maxOut => p > at + n
          BY <1>1, <2>1, <2>4
        <5> QED BY <2>2, <5>1
      <4> QED BY <1>1, <1>3, <2>2, <3>1, <4>2, <4>3, <4>4, LateRefusal
    <3> QED BY <3>3, <3>4
  <2> QED BY <2>5, <2>6
<1> QED BY <1>4, <1>5

(* Failing to feed the library keeps the invariant.                        *)
LEMMA FeedFailsInv ==
  ASSUME PayInv, FeedFails
  PROVE  PayInv'
<1>1. /\ PayType /\ Inflating /\ job' = job /\ out' = out /\ chain' = chain /\ reached' = reached
      /\ at' = at
  BY DEF PayInv, FeedFails
<1>2. chain' \in Seq(Nat) /\ reached' \in Nat /\ at' \in Nat
  BY <1>1 DEF PayType
<1>3. CASE job.buffer
  <2>1. Fail("MALFORMED") /\ readFailed' = TRUE
    BY <1>3 DEF FeedFails
  <2>2. /\ res' \in [status : Status, written : Nat, needed : Nat]
        /\ res'.written = res.written /\ res'.status = "MALFORMED" /\ pc' = "returned"
    BY <1>1, <2>1 DEF PayType, Status, Fail
  <2> QED BY <1>1, <1>2, <2>1, <2>2, Refusal
<1>4. CASE ~job.buffer
  <2>1. Fail("LIMIT") /\ readFailed' = readFailed
    BY <1>4 DEF FeedFails
  <2>2. /\ res' \in [status : Status, written : Nat, needed : Nat]
        /\ res'.written = res.written /\ res'.status = "LIMIT" /\ pc' = "returned"
    BY <1>1, <2>1 DEF PayType, Status, Fail
  <2>3. LacksRoom(job)
    BY <1>1, <1>4 DEF Inflating, LacksRoom
  <2>4. readFailed' \in BOOLEAN
    BY <1>1, <2>1 DEF PayType
  <2> QED BY <1>1, <1>2, <2>2, <2>3, <2>4, Refusal
<1> QED BY <1>3, <1>4

(* What is decided before parts are copied keeps the invariant.            *)
LEMMA AssembleInv ==
  ASSUME PayInv, pc = "begin", NEW parts, NEW status, NEW announced \in Nat,
         Verdict(job, parts, status), Assemble(parts, status, announced)
  PROVE  PayInv'
<1>1. /\ PayType /\ Begun /\ job' = job /\ out' = out /\ chain' = parts /\ reached' = reached
      /\ at' = at /\ readFailed' = readFailed
      /\ job \in Call /\ job.cap \in Nat /\ job.maxOut \in Nat /\ job.maxOut <= MaxU64 /\ MaxU64 \in Nat
  BY CallFacts DEF PayInv, PayType, Assemble
<1>2. parts \in Seq(DOMAIN job.blocks) /\ Len(parts) \in Nat /\ parts \in Seq(Nat)
  <2>1. parts \in Seq(DOMAIN job.blocks)
    BY DEF Verdict
  <2>2. DOMAIN job.blocks = 1 .. Len(job.blocks)
    <3>1. job.blocks \in Seq(Block)
      BY <1>1, CallFacts DEF PayType
    <3> DEFINE blocks == job.blocks
    <3> HIDE DEF blocks
    <3>2. blocks \in Seq(Block) => DOMAIN blocks = 1 .. Len(blocks)
      OBVIOUS
    <3> QED BY <3>1, <3>2 DEF blocks
  <2>3. \A k \in 1 .. Len(parts) : parts[k] \in Nat
    BY <2>1, <2>2
  <2>4. Len(parts) \in Nat /\ parts = [k \in 1 .. Len(parts) |-> parts[k]]
    BY <2>1
  <2> QED BY <2>1, <2>3, <2>4
<1>3. chain' \in Seq(Nat) /\ reached' \in Nat /\ at' \in Nat /\ readFailed' \in BOOLEAN
      /\ reached = 0 /\ at = 0
  BY <1>1, <1>2 DEF PayType, Begun
<1>4. CASE status # "OK"
  <2>1. pc' = "returned" /\ res' = [res EXCEPT !.status = status, !.needed = announced]
    BY <1>4 DEF Assemble
  <2>2. status \in {"MALFORMED", "LIMIT"}
    BY <1>4 DEF Verdict
  <2>3. /\ res' \in [status : Status, written : Nat, needed : Nat]
        /\ res'.written = res.written /\ res'.status = status
    BY <1>1, <2>1, <2>2 DEF PayType, Status
  <2>4. ~Complete(job) \/ LacksRoom(job) \/ Len(Payload(job)) > job.maxOut
    <3>1. status = "MALFORMED" => ~Complete(job)
      BY DEF Verdict
    <3>2. status = "LIMIT" => \/ LacksRoom(job) \/ ~Complete(job)
                              \/ Len(Payload(job)) \in Nat /\ Len(Payload(job)) > MaxU64
      BY DEF Verdict
    <3>3. Len(Payload(job)) \in Nat /\ Len(Payload(job)) > MaxU64 => Len(Payload(job)) > job.maxOut
      BY <1>1
    <3> QED BY <2>2, <3>1, <3>2, <3>3
  <2> QED BY <1>1, <1>3, <2>1, <2>2, <2>3, <2>4, Refusal
<1>5. CASE status = "OK"
  <2> DEFINE needed == Total(job, parts)
  <2>1. /\ res' = [res EXCEPT !.needed = needed,
                              !.status = IF needed > job.maxOut THEN "LIMIT" ELSE "OK"]
        /\ pc' = IF needed > job.maxOut THEN "returned" ELSE "copy"
    BY <1>5 DEF Assemble
  <2>2. Describes(job, parts)
    BY <1>5 DEF Verdict
  <2>3. needed \in Nat /\ (~Complete(job) \/ Len(Payload(job)) = needed)
    BY <1>1, <2>2, DescribedIsWhole
  <2>4. res' = [status |-> IF needed > job.maxOut THEN "LIMIT" ELSE "OK",
                written |-> 0, needed |-> needed]
    BY <1>1, <2>1 DEF Begun
  <2> HIDE DEF needed
  <2>5. res' \in [status : Status, written : Nat, needed : Nat] /\ res'.written = 0 /\ res.written = 0
    BY <1>1, <2>3, <2>4 DEF Status, Begun
  <2>6. CASE needed > job.maxOut
    <3>1. pc' = "returned" /\ res'.status = "LIMIT"
      BY <2>1, <2>4, <2>6
    <3>2. ~Complete(job) \/ Len(Payload(job)) > job.maxOut
      BY <2>3, <2>6
    <3> QED BY <1>1, <1>3, <2>5, <3>1, <3>2, Refusal
  <2>7. CASE ~(needed > job.maxOut)
    <3>1. pc' = "copy" /\ res'.status = "OK" /\ res'.needed = needed
      BY <2>1, <2>4, <2>7
    <3>2. PayType'
      BY <1>1, <1>3, <2>5, <3>1 DEF PayType
    <3>3. Extracted'
      <4>1. Lesser(job.cap, 0) = 0
        BY <1>1 DEF Lesser
      <4>2. \A p \in DOMAIN out : out[p] = Untouched
        BY <1>1 DEF Begun
      <4> QED BY <1>1, <1>3, <2>5, <3>1, <4>1, <4>2 DEF Extracted
    <3>4. Answered(Payload(job))'
      <4>1. \A p \in DOMAIN out : ~(p <= at)
        BY <1>1, <1>3 DEF PayType
      <4> QED BY <1>1, <4>1 DEF Answered
    <3>5. Copying'
      <4>1. SizeTo(job, parts, 0) = 0
        BY <1>2, SizeToStep
      <4>2. needed <= job.maxOut
        BY <1>1, <2>3, <2>7
      <4> QED BY <1>1, <1>2, <1>3, <2>2, <3>1, <3>3, <3>4, <4>1, <4>2 DEF Copying, needed
    <3>6. LimitHolds' /\ AnswerIsPayload'
      BY <1>1, <1>3, <3>1, <3>3, Going DEF PayType
    <3> QED BY <3>1, <3>2, <3>5, <3>6 DEF PayInv
  <2> QED BY <2>6, <2>7
<1> QED BY <1>4, <1>5

(* Where nothing was copied yet, nothing is wrong.                         *)
LEMMA StillNothing ==
  ASSUME PayInv, pc = "begin", job' = job, out' = out, at' = at, res'.written = res.written,
         res'.status = res.status
  PROVE  /\ Extracted' /\ at = 0
         /\ \A p \in DOMAIN out' : ~(p <= at')
<1>1. PayType /\ Begun /\ job.cap \in Nat /\ job.maxOut \in Nat
  BY CallFacts DEF PayInv, PayType
<1>2. at = 0 /\ res.written = 0 /\ res.status = "OK" /\ \A p \in DOMAIN out : out[p] = Untouched
  BY <1>1 DEF Begun
<1>3. Lesser(job.cap, 0) = 0
  BY <1>1 DEF Lesser
<1>4. Extracted'
  BY <1>1, <1>2, <1>3 DEF Extracted
<1>5. \A p \in DOMAIN out : ~(p <= 0)
  BY <1>1 DEF PayType
<1> QED BY <1>2, <1>4, <1>5

(* So does all that is decided before bytes move.                          *)
LEMMA BeginInv ==
  ASSUME PayInv, Begin
  PROVE  PayInv'
<1>1. /\ PayType /\ pc = "begin" /\ Begun
      /\ job \in Call /\ job.cap \in Nat /\ job.maxOut \in Nat
  BY CallFacts DEF PayInv, PayType, Begin
<1>2. ASSUME NEW status \in {"MALFORMED", "UNSUPPORTED"}, Fail(status),
             job' = job, out' = out, chain' = chain, at' = at, readFailed' = readFailed,
             reached' \in Nat,
             status = "MALFORMED" => Payload(job) = NoPayload
      PROVE  PayInv'
  <2>1. /\ res' \in [status : Status, written : Nat, needed : Nat]
        /\ res'.written = res.written /\ res'.status = status /\ pc' = "returned"
    BY <1>1, <1>2 DEF PayType, Status, Fail
  <2>2. chain' \in Seq(Nat) /\ at' \in Nat /\ readFailed' \in BOOLEAN
    BY <1>1, <1>2 DEF PayType
  <2>3. status = "UNSUPPORTED" \/ ~Complete(job)
    BY <1>2, NothingIsIncomplete
  <2> QED BY <1>1, <1>2, <2>1, <2>2, <2>3, Refusal
<1>3. CASE job.seed \notin DOMAIN job.blocks
  <2>1. Payload(job) = NoPayload
    BY <1>3 DEF Payload
  <2>2. Fail("MALFORMED") /\ UNCHANGED <<job, out, chain, reached, at, readFailed>>
    BY <1>3 DEF Begin
  <2>3. reached' \in Nat
    BY <1>1, <2>2 DEF PayType
  <2> QED BY <1>2, <2>1, <2>2, <2>3
<1>4. CASE job.seed \in DOMAIN job.blocks /\ Seed(job).compression # "NONE"
  <2>1. IF ~job.decompress \/ ~Single(job) \/ Seed(job).chunking # "NONE" THEN Fail("UNSUPPORTED")
        ELSE IF ~InFile(Seed(job).off, Seed(job).size) THEN Fail("MALFORMED")
        ELSE pc' = "inflate" /\ UNCHANGED res
    BY <1>4 DEF Begin
  <2>2. UNCHANGED <<job, out, chain, reached, at, readFailed>>
    BY <1>4 DEF Begin
  <2>3. reached' \in Nat
    BY <1>1, <2>2 DEF PayType
  <2>4. CASE ~job.decompress \/ ~Single(job) \/ Seed(job).chunking # "NONE"
    BY <1>2, <2>1, <2>2, <2>3, <2>4
  <2>5. CASE /\ ~(~job.decompress \/ ~Single(job) \/ Seed(job).chunking # "NONE")
             /\ ~InFile(Seed(job).off, Seed(job).size)
    <3>1. Payload(job) = NoPayload
      BY <1>4, <2>5 DEF Payload
    <3>2. Fail("MALFORMED")
      BY <2>1, <2>5
    <3> QED BY <1>2, <2>2, <2>3, <3>1, <3>2
  <2>6. CASE /\ ~(~job.decompress \/ ~Single(job) \/ Seed(job).chunking # "NONE")
             /\ InFile(Seed(job).off, Seed(job).size)
    <3>1. pc' = "inflate" /\ res' = res
      BY <2>1, <2>6
    <3>2. Extracted' /\ at = 0 /\ \A p \in DOMAIN out' : ~(p <= at')
      BY <1>1, <2>2, <3>1, StillNothing
    <3>3. PayType'
      BY <1>1, <2>2, <3>1 DEF PayType
    <3>4. Inflating'
      <4>1. job.holds \in Nat
        BY <1>1, CallFacts DEF PayType
      <4>2. 0 <= job.holds
        BY <4>1
      <4> QED BY <1>4, <2>2, <2>6, <3>2, <4>2 DEF Inflating
    <3>5. LimitHolds' /\ AnswerIsPayload'
      BY <1>1, <2>2, <3>1, <3>2, Going DEF PayType
    <3> QED BY <3>1, <3>3, <3>4, <3>5 DEF PayInv
  <2> QED BY <2>4, <2>5, <2>6
<1>5. CASE /\ job.seed \in DOMAIN job.blocks /\ Seed(job).compression = "NONE"
           /\ Seed(job).chunking = "GIF_SUB"
  <2>1. ~(Seed(job).chunking = "NONE" /\ Single(job))
    BY <1>5
  <2>2. /\ IF ~Single(job) THEN Fail("UNSUPPORTED")
           ELSE IF ~InFile(Seed(job).off, Seed(job).size) THEN Fail("MALFORMED")
           ELSE pc' = "gif" /\ UNCHANGED res
        /\ reached' = Seed(job).off
        /\ UNCHANGED <<job, out, chain, at, readFailed>>
    BY <1>5, <2>1 DEF Begin
  <2>3. reached' \in Nat
    BY <1>1, <1>5, <2>2, BlockFacts DEF Seed
  <2>4. Payload(job) = GifPayload(job)
    BY <1>5 DEF Payload
  <2>5. CASE ~Single(job)
    BY <1>2, <2>2, <2>3, <2>5
  <2>6. CASE Single(job) /\ ~InFile(Seed(job).off, Seed(job).size)
    <3>1. Payload(job) = NoPayload
      BY <2>4, <2>6 DEF GifPayload
    <3>2. Fail("MALFORMED")
      BY <2>2, <2>6
    <3> QED BY <1>2, <2>2, <2>3, <3>1, <3>2
  <2>7. CASE Single(job) /\ InFile(Seed(job).off, Seed(job).size)
    <3>1. pc' = "gif" /\ res' = res
      BY <2>2, <2>7
    <3>2. Extracted' /\ at = 0 /\ \A p \in DOMAIN out' : ~(p <= at')
      BY <1>1, <2>2, <3>1, StillNothing
    <3>3. PayType'
      BY <1>1, <2>2, <2>3, <3>1 DEF PayType
    <3>4. GifInFile(job)
      BY <1>1, <1>5, <2>7 DEF GifInFile
    <3>5. reached' \in 0 .. Len(File) /\ reached' <= GifEnd(job) /\ reached' = Seed(job).off
      BY <2>2, <3>4, GifFacts
    <3> DEFINE q == SubBlocks(job)[Seed(job).off]
    <3>6. Payload(job) = q /\ q \in Seq(Datum)
      BY <2>4, <2>7, <3>4, <3>5, SubBlocksType DEF GifPayload
    <3> HIDE DEF q
    <3>7. /\ Payload(job) \in Seq(Datum) /\ Len(Payload(job)) = 0 + Len(q)
          /\ \A k \in 1 .. Len(q) : Payload(job)[0 + k] = q[k]
          /\ \A p \in 1 .. 0 : Payload(job)[p] \in FileByte
      BY <3>6
    <3>8. SubBlocksAhead(SubBlocks(job)[reached])'
      <4>1. at' = 0 /\ job' = job /\ reached' = Seed(job).off
        BY <2>2, <3>2
      <4> QED BY <3>7, <4>1, Zenon DEF SubBlocksAhead, q
    <3>9. Answered(Payload(job))'
      BY <3>2 DEF Answered
    <3>10. Splitting'
      <4>1. res'.needed = at'
        BY <1>1, <2>2, <3>1, <3>2 DEF Begun
      <4> QED BY <2>2, <3>2, <3>4, <3>5, <3>8, <3>9, <4>1 DEF Splitting
    <3>11. LimitHolds' /\ AnswerIsPayload'
      BY <1>1, <2>2, <3>1, <3>2, Going DEF PayType
    <3> QED BY <3>1, <3>3, <3>10, <3>11 DEF PayInv
  <2> QED BY <2>5, <2>6, <2>7
<1>6. CASE ByParts(job)
  <2>1. job.seed \in DOMAIN job.blocks /\ Seed(job).compression = "NONE" /\ Seed(job).chunking # "GIF_SUB"
    BY <1>6 DEF ByParts
  <2>2. CASE Seed(job).chunking = "NONE" /\ Single(job)
    <3>1. Describes(job, <<job.seed>>)
      BY <1>1, <1>6, <2>2, SingleIsPayload
    <3>2. Verdict(job, <<job.seed>>, "OK")
      BY <3>1 DEF Verdict, Describes
    <3>3. Assemble(<<job.seed>>, "OK", 0)
      BY <2>1, <2>2 DEF Begin
    <3> QED BY <1>1, <3>2, <3>3, AssembleInv
  <2>3. CASE Seed(job).chunking = "XMP_EXT"
    <3>1. Verdict(job, ByOffset(job), ExtStatus(job))
      BY <1>1, <1>6, <2>3, PlacedVerdict DEF ByPlace
    <3>2. Assemble(ByOffset(job), ExtStatus(job), Announced(job))
      BY <2>1, <2>3 DEF Begin
    <3>3. Announced(job) \in Nat
      BY <1>1, <2>1, BlockFacts DEF Announced, Seed
    <3> QED BY <1>1, <3>1, <3>2, <3>3, AssembleInv
  <2>4. CASE Seed(job).chunking # "XMP_EXT" /\ ~(Seed(job).chunking = "NONE" /\ Single(job))
    <3>1. Verdict(job, ByIndex(job), SeqStatus(job))
      BY <1>1, <1>6, <2>4, NumberedVerdict DEF ByNumber
    <3>2. Assemble(ByIndex(job), SeqStatus(job), 0)
      BY <2>1, <2>4 DEF Begin
    <3> QED BY <1>1, <3>1, <3>2, AssembleInv
  <2> QED BY <2>2, <2>3, <2>4
<1> QED BY <1>3, <1>4, <1>5, <1>6 DEF ByParts

(* Every step of an extraction keeps the invariant.                        *)
THEOREM PayStepsKeep == PayInv /\ [PayNext]_payVars => PayInv'
<1> SUFFICES ASSUME PayInv, [PayNext]_payVars PROVE PayInv'
  OBVIOUS
<1>1. CASE Begin
  BY <1>1, BeginInv
<1>2. CASE CopyPart
  BY <1>2, CopyPartInv
<1>3. CASE GifStep
  BY <1>3, GifStepInv
<1>4. CASE \E n \in 0 .. job.holds, over \in BOOLEAN : Inflate(n, over)
  BY <1>4, InflateInv
<1>5. CASE FeedFails
  BY <1>5, FeedFailsInv
<1>6. CASE UNCHANGED payVars
  BY <1>6 DEF payVars, PayInv, PayType, LimitHolds, AnswerIsPayload, Begun, Copying, Splitting,
              Inflating, Extracted, Answered, SubBlocksAhead
<1> QED BY <1>1, <1>2, <1>3, <1>4, <1>5, <1>6 DEF PayNext

(* In every reachable state of an extraction the invariant holds.          *)
THEOREM PayInductive == PaySpec => []PayInv
<1>1. PayInit => PayInv
  BY PayStarts
<1>2. PayInv /\ [PayNext]_payVars => PayInv'
  BY PayStepsKeep
<1> QED BY <1>1, <1>2, PTL DEF PaySpec

(* An accepted call of omc_pay_ext_input answers with the payload its      *)
(* blocks describe, as far as the buffer holds it, and nothing complete    *)
(* and within the limits is refused without a reason, for every file, call *)
(* and failure.                                                            *)
THEOREM PayAnswers == PaySpec => []AnswerIsPayload
<1>1. PayInv => AnswerIsPayload
  BY DEF PayInv
<1> QED BY <1>1, PayInductive, PTL

(* Nothing beyond the client's capacity or limit is written, in no state   *)
(* of any extraction, and a limit is only reported where it was passed.    *)
THEOREM PayLimited == PaySpec => []LimitHolds
<1>1. PayInv => LimitHolds
  BY DEF PayInv
<1> QED BY <1>1, PayInductive, PTL
=============================================================================
