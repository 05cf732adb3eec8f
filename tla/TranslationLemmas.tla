------------------------- MODULE TranslationLemmas -------------------------
(***************************************************************************)
(* What a translation does to the store it is given, for any store, words, *)
(* limits and options.  An edit is committed as a whole; CommitIsRun says  *)
(* that this is to run its operations one by one.  The operations of one   *)
(* field make it hold and leave other keys alone (OperationsDo), those of  *)
(* many fields under different keys make all of them hold (FlatDoes), and  *)
(* so the calls for EXIF texts and for GPS keep what they promise          *)
(* (TextsGood, GpsGood).                                                   *)
(***************************************************************************)
EXTENDS ExifTranslation, WellFoundedInduction, SequenceTheorems, FiniteSetTheorems, TLAPS

-----------------------------------------------------------------------------
(* Induction over numbers, in the form of a least counterexample: a set of *)
(* numbers that is not empty has a least element.                          *)
LEMMA LeastNumber ==
  ASSUME NEW T, \A x \in T : x \in Nat, T # {}
  PROVE  \E x \in T : \A y \in T : x <= y
<1> DEFINE R == OpToRel(<, Nat)
<1>1. IsWellFoundedOn(R, Nat)
  BY NatLessThanWellFounded
<1>2. \A x, y \in T : y < x => <<y, x>> \in R
  BY DEF OpToRel
<1> HIDE DEF R
<1>3. PICK x \in T : \A y \in T : ~ (<<y, x>> \in R)
  BY <1>1, WFMin
<1>4. \A y \in T : ~ (y < x)
  BY <1>2, <1>3
<1>5. \A y \in T : x <= y
  BY <1>4
<1> QED BY <1>5

(* Min finds it.                                                           *)
LEMMA MinIsLeast ==
  ASSUME NEW T, \A x \in T : x \in Nat, T # {}
  PROVE  Min(T) \in T /\ \A y \in T : Min(T) <= y
  BY LeastNumber DEF Min

-----------------------------------------------------------------------------
(* Orders as sets of pairs, and the sequences that list a set in order.    *)
Orders(R, S) ==
    /\ \A a \in S : <<a, a>> \notin R
    /\ \A a, b \in S : a # b => <<a, b>> \in R \/ <<b, a>> \in R
    /\ \A a, b, c \in S : <<a, b>> \in R /\ <<b, c>> \in R => <<a, c>> \in R
Preceding(S, R, e) == {h \in S : <<h, e>> \in R}
Lists(s, S, R) ==
    /\ s \in Seq(S)
    /\ \A e \in S : \E j \in 1 .. Len(s) : s[j] = e
    /\ \A a, b \in 1 .. Len(s) : a < b => <<s[a], s[b]>> \in R

(* The rank of an element is below the size of the set, and greater        *)
(* elements have greater ranks.                                            *)
LEMMA RankGrows ==
  ASSUME NEW S, IsFiniteSet(S), NEW R, Orders(R, S), NEW a \in S, NEW b \in S
  PROVE  /\ Cardinality(Preceding(S, R, a)) \in 0 .. Cardinality(S) - 1
         /\ <<a, b>> \in R => Cardinality(Preceding(S, R, a)) < Cardinality(Preceding(S, R, b))
<1>1. \A c \in S : IsFiniteSet(Preceding(S, R, c)) /\ Cardinality(Preceding(S, R, c)) \in Nat
  BY FS_Subset, FS_CardinalityType DEF Preceding
<1>2. Cardinality(Preceding(S, R, a)) < Cardinality(S) /\ Cardinality(S) \in Nat
  <2>1. Preceding(S, R, a) \subseteq S /\ a \notin Preceding(S, R, a)
    BY DEF Preceding, Orders
  <2> QED BY <1>1, <2>1, FS_Subset, FS_CardinalityType
<1>3. ASSUME <<a, b>> \in R PROVE Cardinality(Preceding(S, R, a)) < Cardinality(Preceding(S, R, b))
  <2>1. Preceding(S, R, a) \subseteq Preceding(S, R, b)
    BY <1>3 DEF Preceding, Orders
  <2>2. a \notin Preceding(S, R, a) /\ a \in Preceding(S, R, b)
    BY <1>3 DEF Preceding, Orders
  <2> QED BY <1>1, <2>1, <2>2, FS_Subset
<1> QED BY <1>1, <1>2, <1>3

(* Every rank is taken, once.                                              *)
LEMMA RanksTaken ==
  ASSUME NEW S, IsFiniteSet(S), NEW R, Orders(R, S)
  PROVE  /\ \A n \in 0 .. Cardinality(S) - 1 : \E e \in S : Cardinality(Preceding(S, R, e)) = n
         /\ \A a, b \in S : Cardinality(Preceding(S, R, a)) = Cardinality(Preceding(S, R, b)) => a = b
<1> DEFINE N == Cardinality(S)
           rank == [e \in S |-> Cardinality(Preceding(S, R, e))]
<1>0. N \in Nat
  BY FS_CardinalityType
<1>1. \A e \in S : rank[e] \in 0 .. N - 1
  BY RankGrows
<1>2. ASSUME NEW a \in S, NEW b \in S, rank[a] = rank[b] PROVE a = b
  <2>1. <<a, b>> \notin R /\ <<b, a>> \notin R
    <3>1. rank[a] \in Nat /\ rank[b] \in Nat
      BY <1>0, <1>1
    <3>2. <<a, b>> \in R => rank[a] < rank[b]
      BY RankGrows
    <3>3. <<b, a>> \in R => rank[b] < rank[a]
      BY RankGrows
    <3> HIDE DEF rank
    <3> QED BY <1>2, <3>1, <3>2, <3>3
  <2> QED BY <2>1 DEF Orders
<1>3. IsFiniteSet(0 .. N - 1) /\ Cardinality(0 .. N - 1) = N
  <2>1. 0 \in Int /\ N - 1 \in Int /\ (IF 0 > N - 1 THEN 0 ELSE (N - 1) - 0 + 1) = N
    BY <1>0
  <2> HIDE DEF N
  <2> QED BY <2>1, FS_Interval
<1>4. rank \in Injection(S, 0 .. N - 1)
  <2>1. rank \in [S -> 0 .. N - 1]
    BY <1>1
  <2> HIDE DEF rank, N
  <2> QED BY <1>2, <2>1 DEF Injection, IsInjective
<1>5. rank \in Surjection(S, 0 .. N - 1)
  <2> HIDE DEF rank
  <2> QED BY <1>3, <1>4, FS_Injection
<1>6. \A n \in 0 .. N - 1 : \E e \in S : rank[e] = n
  <2> HIDE DEF rank
  <2> QED BY <1>5 DEF Surjection
<1> QED BY <1>2, <1>6

(* So a sequence whose elements have the ranks of their places lists them. *)
LEMMA RankedLists ==
  ASSUME NEW S, IsFiniteSet(S), NEW R, Orders(R, S),
         NEW s \in [1 .. Cardinality(S) -> S],
         \A n \in 1 .. Cardinality(S) : Cardinality(Preceding(S, R, s[n])) = n - 1
  PROVE  Lists(s, S, R) /\ Len(s) = Cardinality(S)
<1> DEFINE N == Cardinality(S)
<1>0. N \in Nat
  BY FS_CardinalityType
<1>1. \A n \in 1 .. N : s[n] \in S /\ Cardinality(Preceding(S, R, s[n])) = n - 1
  OBVIOUS
<1>2. s \in Seq(S) /\ Len(s) = N
  <2> QED BY <1>0, <1>1
<1>3. ASSUME NEW e \in S PROVE \E n \in 1 .. N : s[n] = e
  <2>1. Cardinality(Preceding(S, R, e)) \in 0 .. N - 1
    BY RankGrows
  <2>2. PICK n \in 1 .. N : Cardinality(Preceding(S, R, e)) = n - 1
    <3>1. Cardinality(Preceding(S, R, e)) + 1 \in 1 .. N
      BY <1>0, <2>1
    <3> QED BY <2>1, <3>1
  <2>3. s[n] \in S /\ Cardinality(Preceding(S, R, s[n])) = n - 1
    BY <1>1
  <2>4. s[n] = e
    BY <2>2, <2>3, RanksTaken
  <2> QED BY <2>4
<1>4. ASSUME NEW a \in 1 .. N, NEW b \in 1 .. N, a < b PROVE <<s[a], s[b]>> \in R
  <2>1. /\ s[a] \in S /\ Cardinality(Preceding(S, R, s[a])) = a - 1
        /\ s[b] \in S /\ Cardinality(Preceding(S, R, s[b])) = b - 1
    BY <1>1
  <2>2. <<s[b], s[a]>> \notin R
    <3>1. <<s[b], s[a]>> \in R => b - 1 < a - 1
      BY <2>1, RankGrows
    <3> QED BY <1>0, <1>4, <3>1
  <2>3. s[a] # s[b]
    <3>1. a - 1 # b - 1
      BY <1>0, <1>4
    <3> QED BY <2>1, <3>1
  <2> QED BY <2>1, <2>2, <2>3 DEF Orders
<1> QED BY <1>0, <1>2, <1>3, <1>4 DEF Lists

(* There is but one list.                                                  *)
LEMMA ListIsUnique ==
  ASSUME NEW S, NEW R, Orders(R, S), NEW s, NEW t, Lists(s, S, R), Lists(t, S, R)
  PROVE  s = t
<1>1. s \in Seq(S) /\ t \in Seq(S)
  BY DEF Lists
<1>2. \A a \in 1 .. Len(s) : s[a] \in S
  BY <1>1
<1>3. \A a \in 1 .. Len(t) : t[a] \in S
  BY <1>1
<1> DEFINE T == {n \in Nat \ {0} : n <= Len(s) /\ n <= Len(t) /\ s[n] # t[n]}
<1>4. T = {}
  <2> SUFFICES ASSUME T # {} PROVE FALSE
    OBVIOUS
  <2>1. PICK a \in T : \A y \in T : a <= y
    BY LeastNumber
  <2>2. a \in 1 .. Len(s) /\ a \in 1 .. Len(t) /\ s[a] # t[a]
    BY <2>1, <1>1
  <2>3. PICK b \in 1 .. Len(t) : t[b] = s[a]
    BY <1>2, <2>2 DEF Lists
  <2>4. PICK c \in 1 .. Len(s) : s[c] = t[a]
    BY <1>3, <2>2 DEF Lists
  <2>5. a < b
    <3>1. b # a
      BY <2>2, <2>3
    <3>2. ASSUME b < a PROVE FALSE
      <4>1. s[b] = t[b] /\ b \in 1 .. Len(s)
        BY <1>1, <2>1, <2>2, <3>2
      <4>2. <<s[b], s[a]>> \in R
        BY <2>2, <3>2, <4>1 DEF Lists
      <4> QED BY <1>2, <2>2, <2>3, <4>1, <4>2 DEF Orders
    <3> QED BY <2>2, <3>1, <3>2
  <2>6. a < c
    <3>1. c # a
      BY <2>2, <2>4
    <3>2. ASSUME c < a PROVE FALSE
      <4>1. s[c] = t[c] /\ c \in 1 .. Len(t)
        BY <1>1, <2>1, <2>2, <3>2
      <4>2. <<t[c], t[a]>> \in R
        BY <2>2, <3>2, <4>1 DEF Lists
      <4> QED BY <1>3, <2>2, <2>4, <4>1, <4>2 DEF Orders
    <3> QED BY <2>2, <3>1, <3>2
  <2>7. <<s[a], t[a]>> \in R
    BY <2>2, <2>4, <2>6 DEF Lists
  <2>8. <<t[a], s[a]>> \in R
    BY <2>2, <2>3, <2>5 DEF Lists
  <2>9. s[a] \in S /\ t[a] \in S
    BY <1>2, <1>3, <2>2
  <2>10. <<s[a], s[a]>> \in R
    BY <2>7, <2>8, <2>9 DEF Orders
  <2> QED BY <2>9, <2>10 DEF Orders
<1>5. ASSUME Len(s) < Len(t) PROVE FALSE
  <2>1. Len(s) + 1 \in 1 .. Len(t)
    BY <1>1, <1>5
  <2>2. PICK c \in 1 .. Len(s) : s[c] = t[Len(s) + 1]
    BY <1>3, <2>1 DEF Lists
  <2>3. s[c] = t[c] /\ c \in 1 .. Len(t) /\ c < Len(s) + 1
    BY <1>1, <1>4, <1>5
  <2>4. <<t[c], t[Len(s) + 1]>> \in R
    BY <2>1, <2>3 DEF Lists
  <2> QED BY <1>2, <2>2, <2>3, <2>4 DEF Orders
<1>6. ASSUME Len(t) < Len(s) PROVE FALSE
  <2>1. Len(t) + 1 \in 1 .. Len(s)
    BY <1>1, <1>6
  <2>2. PICK c \in 1 .. Len(t) : t[c] = s[Len(t) + 1]
    BY <1>2, <2>1 DEF Lists
  <2>3. s[c] = t[c] /\ c \in 1 .. Len(s) /\ c < Len(t) + 1
    BY <1>1, <1>4, <1>6
  <2>4. <<s[c], s[Len(t) + 1]>> \in R
    BY <2>1, <2>3 DEF Lists
  <2> QED BY <1>3, <2>2, <2>3, <2>4 DEF Orders
<1>7. Len(s) = Len(t)
  BY <1>1, <1>5, <1>6
<1>8. \A a \in 1 .. Len(s) : s[a] = t[a]
  BY <1>1, <1>4, <1>7
<1> QED BY <1>1, <1>7, <1>8

(* The orders of the model.                                                *)
LessOn(S) == {e \in S \X S : e[1] < e[2]}
AtOrder(store, S) == {e \in S \X S : Placed(store, e[1], e[2])}
BlockOrder(S) ==
    {e \in S \X S : \/ BlockOf(e[1]) < BlockOf(e[2])
                    \/ BlockOf(e[1]) = BlockOf(e[2]) /\ Placed(source, e[1], e[2])}

(* Ascending lists a finite set of numbers.                                *)
LEMMA AscendingLists ==
  ASSUME NEW S, IsFiniteSet(S), \A x \in S : x \in Nat
  PROVE  Lists(Ascending(S), S, LessOn(S)) /\ Len(Ascending(S)) = Cardinality(S)
<1> DEFINE s == Ascending(S)
<1>1. Orders(LessOn(S), S)
  BY DEF Orders, LessOn
<1>2. \A e \in S : Preceding(S, LessOn(S), e) = {h \in S : h < e}
  BY DEF Preceding, LessOn
<1>3. s = [n \in 1 .. Cardinality(S) |-> CHOOSE i \in S : Cardinality({h \in S : h < i}) = n - 1]
  BY DEF Ascending, Listed
<1>4. ASSUME NEW n \in 1 .. Cardinality(S)
      PROVE  s[n] \in S /\ Cardinality(Preceding(S, LessOn(S), s[n])) = n - 1
  <2>1. n - 1 \in 0 .. Cardinality(S) - 1
    BY FS_CardinalityType
  <2>2. \E i \in S : Cardinality(Preceding(S, LessOn(S), i)) = n - 1
    BY <1>1, <2>1, RanksTaken
  <2>3. \E i \in S : Cardinality({h \in S : h < i}) = n - 1
    BY <1>2, <2>2
  <2>4. s[n] \in S /\ Cardinality({h \in S : h < s[n]}) = n - 1
    BY <1>3, <2>3
  <2> HIDE DEF s
  <2> QED BY <1>2, <2>4
<1>5. s \in [1 .. Cardinality(S) -> S]
  BY <1>3, <1>4
<1> HIDE DEF s
<1>6. Lists(s, S, LessOn(S)) /\ Len(s) = Cardinality(S)
  BY <1>1, <1>4, <1>5, RankedLists
<1> QED BY <1>6 DEF s

(* Places are numbers.                                                     *)
PlacesIn(store, S) == \A x \in S : x \in Nat /\ store[x].key.at \in Nat

(* Places and then ids order any entries of a store.                       *)
LEMMA AtOrderOrders ==
  ASSUME NEW S, NEW store, PlacesIn(store, S)
  PROVE  Orders(AtOrder(store, S), S)
  BY DEF Orders, AtOrder, Placed, PlacesIn

(* Ordered lists any finite set of them.                                   *)
LEMMA OrderedLists ==
  ASSUME NEW S, IsFiniteSet(S), NEW store, PlacesIn(store, S)
  PROVE  /\ Lists(Ordered(store, S), S, AtOrder(store, S))
         /\ Len(Ordered(store, S)) = Cardinality(S)
<1> DEFINE s == Ordered(store, S)
           R == AtOrder(store, S)
<1>1. Orders(R, S)
  BY AtOrderOrders
<1>2. \A e \in S : Preceding(S, R, e) = {h \in S : Placed(store, h, e)}
  BY DEF Preceding, AtOrder
<1>3. s = [n \in 1 .. Cardinality(S) |->
              CHOOSE i \in S : Cardinality({h \in S : Placed(store, h, i)}) = n - 1]
  BY DEF Ordered, Listed
<1>4. ASSUME NEW n \in 1 .. Cardinality(S)
      PROVE  s[n] \in S /\ Cardinality(Preceding(S, R, s[n])) = n - 1
  <2>1. n - 1 \in 0 .. Cardinality(S) - 1
    BY FS_CardinalityType
  <2>2. \E i \in S : Cardinality(Preceding(S, R, i)) = n - 1
    BY <1>1, <2>1, RanksTaken
  <2>3. \E i \in S : Cardinality({h \in S : Placed(store, h, i)}) = n - 1
    BY <1>2, <2>2
  <2>4. s[n] \in S /\ Cardinality({h \in S : Placed(store, h, s[n])}) = n - 1
    BY <1>3, <2>3
  <2> HIDE DEF s, R
  <2> QED BY <1>2, <2>4
<1>5. s \in [1 .. Cardinality(S) -> S]
  BY <1>3, <1>4
<1> HIDE DEF s, R
<1>6. Lists(s, S, R) /\ Len(s) = Cardinality(S)
  BY <1>1, <1>4, <1>5, RankedLists
<1> QED BY <1>6 DEF s, R

(* BySource lists the live ones of ids, block by block.                    *)
LEMMA BySourceLists ==
  ASSUME NEW ids, IsFiniteSet(ids), PlacesIn(source, ids), \A i \in ids : BlockOf(i) \in Nat
  PROVE  LET S == {i \in ids : Live(i)}
         IN  /\ Lists(BySource(ids), S, BlockOrder(S))
             /\ Len(BySource(ids)) = Cardinality(S)
<1> DEFINE S == {i \in ids : Live(i)}
           s == BySource(ids)
           R == BlockOrder(S)
           Prior(a, b) == \/ BlockOf(a) < BlockOf(b)
                          \/ BlockOf(a) = BlockOf(b) /\ Placed(source, a, b)
<1>0. IsFiniteSet(S) /\ PlacesIn(source, S) /\ \A i \in S : BlockOf(i) \in Nat
  BY FS_Subset DEF PlacesIn
<1>1. Orders(R, S)
  <2> HIDE DEF S
  <2> QED BY <1>0 DEF Orders, BlockOrder, Placed, PlacesIn
<1>2. \A e \in S : Preceding(S, R, e) = {h \in S : Prior(h, e)}
  <2> HIDE DEF S
  <2> QED BY DEF Preceding, BlockOrder
<1>3. s = [n \in 1 .. Cardinality(S) |->
              CHOOSE i \in S : Cardinality({h \in S : Prior(h, i)}) = n - 1]
  BY DEF BySource, Listed
<1> HIDE DEF S, Prior
<1>4. ASSUME NEW n \in 1 .. Cardinality(S)
      PROVE  s[n] \in S /\ Cardinality(Preceding(S, R, s[n])) = n - 1
  <2>1. n - 1 \in 0 .. Cardinality(S) - 1
    BY <1>0, FS_CardinalityType
  <2>2. \E i \in S : Cardinality(Preceding(S, R, i)) = n - 1
    BY <1>0, <1>1, <2>1, RanksTaken
  <2>3. \E i \in S : Cardinality({h \in S : Prior(h, i)}) = n - 1
    BY <1>2, <2>2
  <2>4. s[n] \in S /\ Cardinality({h \in S : Prior(h, s[n])}) = n - 1
    BY <1>3, <2>3
  <2> HIDE DEF s, R
  <2> QED BY <1>2, <2>4
<1>5. s \in [1 .. Cardinality(S) -> S]
  BY <1>3, <1>4
<1> HIDE DEF s, R
<1>6. Lists(s, S, R) /\ Len(s) = Cardinality(S)
  BY <1>0, <1>1, <1>4, <1>5, RankedLists
<1> QED BY <1>6 DEF s, S, R
-----------------------------------------------------------------------------
(* FlattenSeq, defined by recursion, one sequence at a time.               *)
Chained(f, seqs, n) ==
    f = [i \in 1 .. n |-> IF i = 1 THEN seqs[i] ELSE f[i - 1] \o seqs[i]]

(* The i-th chain, by the definition.                                       *)
LEMMA ChainAt ==
  ASSUME NEW f, NEW seqs, NEW n \in Nat, Chained(f, seqs, n), NEW i \in 1 .. n
  PROVE  f[i] = IF i = 1 THEN seqs[i] ELSE f[i - 1] \o seqs[i]
  BY DEF Chained

(* The recursion FlattenSeq is defined by has a solution, of every length. *)
LEMMA ChainsExist ==
  ASSUME NEW seqs, NEW n \in Nat
  PROVE  \E f : Chained(f, seqs, n)
<1> DEFINE T == {c \in Nat : ~ \E f : Chained(f, seqs, c)}
<1> SUFFICES ASSUME T # {} PROVE FALSE
  OBVIOUS
<1>1. PICK x \in T : \A y \in T : x <= y
  BY LeastNumber
<1>2. CASE x = 0
  <2>1. Chained([i \in 1 .. 0 |-> i], seqs, 0)
    BY DEF Chained
  <2> QED BY <1>2, <2>1
<1>3. CASE x # 0
  <2>1. x - 1 \in Nat /\ x - 1 \notin T
    BY <1>1, <1>3
  <2>2. PICK g : Chained(g, seqs, x - 1)
    BY <2>1
  <2> DEFINE f == [i \in 1 .. x |-> IF i = 1 THEN seqs[i]
                                    ELSE IF i < x THEN g[i] ELSE g[x - 1] \o seqs[x]]
  <2>3. \A i \in 1 .. x - 1 : f[i] = g[i]
    BY <2>2 DEF Chained
  <2>4. \A i \in 1 .. x : f[i] = IF i = 1 THEN seqs[i] ELSE f[i - 1] \o seqs[i]
    <3>1. ASSUME NEW i \in 1 .. x, i # 1 PROVE f[i] = f[i - 1] \o seqs[i]
      <4>1. i - 1 \in 1 .. x - 1
        BY <1>1, <3>1
      <4>2. f[i - 1] = g[i - 1]
        BY <2>3, <4>1
      <4>3. CASE i = x
        <5>1. f[i] = g[x - 1] \o seqs[x]
          <6>1. ~(i < x)
            BY <1>1, <4>3
          <6> QED BY <3>1, <4>3, <6>1
        <5> QED BY <4>2, <4>3, <5>1
      <4>4. CASE i # x
        <5>1. i \in 1 .. x - 1
          BY <1>1, <3>1, <4>4
        <5>2. g[i] = g[i - 1] \o seqs[i]
          <6>1. g[i] = IF i = 1 THEN seqs[i] ELSE g[i - 1] \o seqs[i]
            BY <2>1, <2>2, <5>1, ChainAt
          <6> QED BY <3>1, <6>1
        <5> QED BY <2>3, <4>2, <5>1, <5>2
      <4> QED BY <4>3, <4>4
    <3> QED BY <3>1
  <2>5. Chained(f, seqs, x)
    BY <2>4 DEF Chained
  <2> QED BY <2>5
<1> QED BY <1>2, <1>3

(* Chained of sequences that begin alike begin alike.                        *)
LEMMA ChainsAgree ==
  ASSUME NEW s, NEW t, NEW n \in Nat, NEW k \in Nat, n <= k,
         \A i \in 1 .. n : s[i] = t[i],
         NEW f, Chained(f, s, n), NEW g, Chained(g, t, k)
  PROVE  \A i \in 1 .. n : f[i] = g[i]
<1> DEFINE T == {i \in 1 .. n : f[i] # g[i]}
<1> SUFFICES ASSUME T # {} PROVE FALSE
  OBVIOUS
<1>1. PICK x \in T : \A y \in T : x <= y
  <2>1. \A c \in T : c \in Nat
    OBVIOUS
  <2> QED BY <2>1, LeastNumber
<1>2. f[x] = IF x = 1 THEN s[x] ELSE f[x - 1] \o s[x]
  BY ChainAt
<1>3. g[x] = IF x = 1 THEN t[x] ELSE g[x - 1] \o t[x]
  BY ChainAt
<1>4. x # 1 => f[x - 1] = g[x - 1]
  BY <1>1
<1> QED BY <1>2, <1>3, <1>4

(* FlattenSeq is the last of the chains of its argument.                    *)
LEMMA FlattenIsChained ==
  ASSUME NEW S, NEW seqs \in Seq(S), Len(seqs) # 0
  PROVE  \E f : Chained(f, seqs, Len(seqs)) /\ FlattenSeq(seqs) = f[Len(seqs)]
<1> DEFINE h == CHOOSE f :
        f = [i \in 1 .. Len(seqs) |-> IF i = 1 THEN seqs[i] ELSE f[i - 1] \o seqs[i]]
<1>1. FlattenSeq(seqs) = h[Len(seqs)]
  BY DEF FlattenSeq
<1>2. \E f : f = [i \in 1 .. Len(seqs) |-> IF i = 1 THEN seqs[i] ELSE f[i - 1] \o seqs[i]]
  <2>1. Len(seqs) \in Nat
    OBVIOUS
  <2> QED BY <2>1, ChainsExist, Zenon DEF Chained
<1>3. h = [i \in 1 .. Len(seqs) |-> IF i = 1 THEN seqs[i] ELSE h[i - 1] \o seqs[i]]
  BY <1>2
<1> QED BY <1>1, <1>3 DEF Chained

(* Of no sequences it is the empty one.                                    *)
LEMMA FlatEmpty == FlattenSeq(<<>>) = <<>>
  BY DEF FlattenSeq

(* One more sequence is appended to the last chain.                         *)
LEMMA ChainStep ==
  ASSUME NEW s, NEW t, NEW n \in Nat \ {0}, \A i \in 1 .. n : s[i] = t[i],
         NEW f, Chained(f, s, n), NEW g, Chained(g, t, n + 1)
  PROVE  g[n + 1] = f[n] \o t[n + 1]
<1>1. n \in Nat /\ n + 1 \in Nat /\ n <= n + 1 /\ n \in 1 .. n /\ n + 1 \in 1 .. n + 1
  OBVIOUS
<1>2. \A i \in 1 .. n : f[i] = g[i]
  BY <1>1, ChainsAgree
<1>3. g[n + 1] = IF n + 1 = 1 THEN t[n + 1] ELSE g[n + 1 - 1] \o t[n + 1]
  BY <1>1, ChainAt
<1>4. n + 1 # 1 /\ n + 1 - 1 = n
  OBVIOUS
<1> QED BY <1>1, <1>2, <1>3, <1>4

(* FlattenSeq of a sequence with one more element is what it was with that *)
(* element appended: the step of every induction below.                    *)
LEMMA FlatStep ==
  ASSUME NEW S, NEW s \in Seq(Seq(S)), NEW t \in Seq(Seq(S)), Len(t) = Len(s) + 1,
         \A i \in 1 .. Len(s) : t[i] = s[i]
  PROVE  FlattenSeq(t) = FlattenSeq(s) \o t[Len(t)]
<1>1. PICK g : Chained(g, t, Len(t)) /\ FlattenSeq(t) = g[Len(t)]
  <2>1. Len(t) # 0
    OBVIOUS
  <2> QED BY <2>1, FlattenIsChained
<1>2. CASE Len(s) = 0
  <2>1. FlattenSeq(t) = t[1] /\ FlattenSeq(s) = <<>> /\ t[1] \in Seq(S)
    <3>1. s = <<>>
      BY <1>2
    <3> QED BY <1>1, <1>2, <3>1, FlatEmpty DEF Chained
  <2> QED BY <1>2, <2>1
<1>3. CASE Len(s) # 0
  <2>1. PICK f : Chained(f, s, Len(s)) /\ FlattenSeq(s) = f[Len(s)]
    BY <1>3, FlattenIsChained
  <2>2. Len(s) \in Nat \ {0} /\ \A i \in 1 .. Len(s) : s[i] = t[i]
    BY <1>3
  <2>3. Chained(g, t, Len(s) + 1)
    BY <1>1
  <2>4. g[Len(s) + 1] = f[Len(s)] \o t[Len(s) + 1]
    BY <2>1, <2>2, <2>3, ChainStep
  <2> QED BY <1>1, <2>1, <2>4
<1> QED BY <1>2, <1>3

(* By induction over the number of sequences.                              *)
LEMMA FlatType ==
  ASSUME NEW S, NEW s \in Seq(Seq(S))
  PROVE  FlattenSeq(s) \in Seq(S)
<1> DEFINE T == {c \in Nat : \E t \in Seq(Seq(S)) : Len(t) = c /\ FlattenSeq(t) \notin Seq(S)}
<1> SUFFICES ASSUME T # {} PROVE FALSE
  OBVIOUS
<1>1. PICK x \in T : \A y \in T : x <= y
  BY LeastNumber
<1>2. PICK t \in Seq(Seq(S)) : Len(t) = x /\ FlattenSeq(t) \notin Seq(S)
  BY <1>1
<1>3. x # 0
  BY <1>2, FlatEmpty
<1> DEFINE u == SubSeq(t, 1, x - 1)
<1>4. u \in Seq(Seq(S)) /\ Len(u) = x - 1 /\ \A i \in 1 .. x - 1 : u[i] = t[i]
  BY <1>1, <1>2, <1>3
<1>5. FlattenSeq(u) \in Seq(S)
  <2>1. x - 1 \in Nat /\ x - 1 \notin T
    BY <1>1, <1>3
  <2> HIDE DEF u
  <2> QED BY <1>4, <2>1
<1>6. FlattenSeq(t) = FlattenSeq(u) \o t[x]
  <2>1. Len(t) = Len(u) + 1
    BY <1>1, <1>2, <1>3, <1>4
  <2> HIDE DEF u
  <2> QED BY <1>2, <1>4, <2>1, FlatStep
<1>7. t[x] \in Seq(S)
  BY <1>2, <1>3
<1> QED BY <1>2, <1>5, <1>6, <1>7

-----------------------------------------------------------------------------

(* Induction from 0 up to N.                                               *)
LEMMA Climb ==
  ASSUME NEW N \in Nat, NEW T, 0 \in T, \A n \in 0 .. N : n \in T /\ n < N => n + 1 \in T
  PROVE  \A n \in 0 .. N : n \in T
<1> DEFINE B == {n \in 0 .. N : n \notin T}
<1> SUFFICES ASSUME B # {} PROVE FALSE
  OBVIOUS
<1>1. PICK x \in B : \A y \in B : x <= y
  <2>1. \A y \in B : y \in Nat
    OBVIOUS
  <2> QED BY <2>1, LeastNumber
<1>2. x # 0 /\ x \in 0 .. N
  BY <1>1
<1>3. x - 1 \in 0 .. N /\ x - 1 < N /\ x - 1 + 1 = x
  BY <1>2
<1>4. x - 1 \in T
  BY <1>1, <1>3
<1>5. x \in T
  BY <1>3, <1>4
<1> QED BY <1>1, <1>5

(* What is in order has each element once.                                 *)
LEMMA ListFacts ==
  ASSUME NEW S, NEW R, Orders(R, S), NEW s, Lists(s, S, R)
  PROVE  /\ s \in Seq(S) /\ Len(s) \in Nat /\ DOMAIN s = 1 .. Len(s)
         /\ \A a \in 1 .. Len(s) : s[a] \in S
         /\ \A a, b \in 1 .. Len(s) : s[a] = s[b] => a = b
         /\ \A e \in S : \E a \in 1 .. Len(s) : s[a] = e
<1>1. s \in Seq(S)
  BY DEF Lists
<1>2. Len(s) \in Nat /\ DOMAIN s = 1 .. Len(s) /\ \A a \in 1 .. Len(s) : s[a] \in S
  BY <1>1
<1>3. ASSUME NEW a \in 1 .. Len(s), NEW b \in 1 .. Len(s), s[a] = s[b], a # b PROVE FALSE
  <2>1. a < b \/ b < a
    BY <1>2, <1>3
  <2>2. <<s[a], s[b]>> \in R \/ <<s[b], s[a]>> \in R
    BY <2>1 DEF Lists
  <2> QED BY <1>2, <1>3, <2>2 DEF Orders
<1> QED BY <1>1, <1>2, <1>3 DEF Lists
-----------------------------------------------------------------------------
(* A commit, one operation after the other.  What the ledger says of the   *)
(* operations o recorded against src is said here for any o.               *)
AddsIn(o, j) == {i \in 1 .. (j - 1) : o[i].kind = "ADD_ENTRY"}
RunSize(src, o) == Len(src) + Cardinality(AddsIn(o, Len(o) + 1))
Origin(src, o, i) ==
    IF i <= Len(src) THEN src[i]
    ELSE LET j == CHOOSE k \in AddsIn(o, Len(o) + 1) :
                      Store!Cardinality(AddsIn(o, k)) = i - Len(src) - 1
         IN  o[j].entry
Hits(src, o, i, kinds) ==
    {j \in 1 .. Len(o) :
        /\ o[j].kind \in kinds
        /\ o[j].target = i - 1
        /\ i <= Len(src) + Cardinality(AddsIn(o, j))}
RunAt(src, o, i) ==
    LET sets == Hits(src, o, i, {"SET_VALUE"})
    IN  [key     |-> Origin(src, o, i).key,
         value   |-> IF sets = {} THEN Origin(src, o, i).value ELSE o[Store!Latest(sets)].value,
         dirty   |-> \/ Origin(src, o, i).dirty
                     \/ Hits(src, o, i, {"SET_VALUE", "TOMBSTONE", "MARK_DIRTY"}) # {},
         deleted |-> \/ Origin(src, o, i).deleted
                     \/ Hits(src, o, i, {"TOMBSTONE"}) # {}]
Run(src, o) == [i \in 1 .. RunSize(src, o) |-> RunAt(src, o, i)]

(* The ledger counts as this module does.                                  *)
LEMMA StoreCounts == \A S : Store!Cardinality(S) = Cardinality(S)
  BY DEF Store!Cardinality, Cardinality

(* What a commit leaves is what its operations, run in turn, leave.        *)
LEMMA CommitIsRun == [i \in 1 .. Store!Size |-> Store!Edited(i)] = Run(source, ops)
<1>1. \A j : Store!AddsBefore(j) = AddsIn(ops, j)
  BY DEF Store!AddsBefore, AddsIn
<1>2. Store!Size = RunSize(source, ops)
  BY <1>1, StoreCounts DEF Store!Size, Store!Adds, RunSize
<1>3. \A i : Store!Original(i) = Origin(source, ops, i)
  BY DEF Store!Original, Store!Adds, Store!AddsBefore, AddsIn, Origin
<1>4. \A i, kinds : Store!Reaching(i, kinds) = Hits(source, ops, i, kinds)
  BY <1>1, StoreCounts DEF Store!Reaching, Hits
<1>5. \A i : Store!Edited(i) = RunAt(source, ops, i)
  BY <1>3, <1>4 DEF Store!Edited, RunAt
<1> QED BY <1>2, <1>5 DEF Run
(* Operations that may be recorded against a store of n entries.           *)
Changing == {"SET_VALUE", "TOMBSTONE", "MARK_DIRTY"}
OkOp(op, n) ==
    \/ op.kind = "ADD_ENTRY" /\ WellMade(op.entry)
    \/ op.kind \in Changing /\ op.target \in Int /\ op.target + 1 \in 1 .. n
IsSeq(s) == \E T : s \in Seq(T)
OkOps(src, o) == IsSeq(o) /\ \A j \in 1 .. Len(o) : OkOp(o[j], Len(src))

(* What one of them does.                                                  *)
Changed(e, op) ==
    [key |-> e.key,
     value |-> IF op.kind = "SET_VALUE" THEN op.value ELSE e.value,
     dirty |-> TRUE,
     deleted |-> e.deleted \/ op.kind = "TOMBSTONE"]
Applied(st, op) ==
    IF op.kind = "ADD_ENTRY" THEN Append(st, op.entry)
    ELSE [i \in DOMAIN st |-> IF i = op.target + 1 THEN Changed(st[i], op) ELSE st[i]]

(* Additions are told apart by how many precede them.                      *)
LEMMA AddsRanked ==
  ASSUME NEW o, Len(o) \in Nat
  PROVE  LET A == AddsIn(o, Len(o) + 1)
         IN  /\ IsFiniteSet(A) /\ A \subseteq 1 .. Len(o) /\ Cardinality(A) \in Nat
             /\ \A n \in 0 .. Cardinality(A) - 1 : \E j \in A : Cardinality(AddsIn(o, j)) = n
             /\ \A j \in A : Cardinality(AddsIn(o, j)) \in 0 .. Cardinality(A) - 1
             /\ \A j, k \in A : Cardinality(AddsIn(o, j)) = Cardinality(AddsIn(o, k)) => j = k
<1> DEFINE A == AddsIn(o, Len(o) + 1)
<1>1. A \subseteq 1 .. Len(o) /\ IsFiniteSet(A)
  <2>1. A \subseteq 1 .. Len(o)
    BY DEF AddsIn
  <2>2. IsFiniteSet(1 .. Len(o))
    BY FS_Interval
  <2> QED BY <2>1, <2>2, FS_Subset
<1>2. Cardinality(A) \in Nat
  BY <1>1, FS_CardinalityType
<1>3. \A j \in A : AddsIn(o, j) = Preceding(A, LessOn(A), j)
  BY <1>1 DEF AddsIn, Preceding, LessOn
<1> HIDE DEF A
<1>4. Orders(LessOn(A), A)
  BY <1>1 DEF Orders, LessOn
<1>5. /\ \A n \in 0 .. Cardinality(A) - 1 : \E j \in A : Cardinality(AddsIn(o, j)) = n
      /\ \A j, k \in A : Cardinality(AddsIn(o, j)) = Cardinality(AddsIn(o, k)) => j = k
  <2>1. /\ \A n \in 0 .. Cardinality(A) - 1 :
              \E j \in A : Cardinality(Preceding(A, LessOn(A), j)) = n
        /\ \A j, k \in A : Cardinality(Preceding(A, LessOn(A), j))
                               = Cardinality(Preceding(A, LessOn(A), k)) => j = k
    BY <1>1, <1>4, RanksTaken
  <2> QED BY <1>3, <2>1, Zenon
<1>6. \A j \in A : Cardinality(AddsIn(o, j)) \in 0 .. Cardinality(A) - 1
  BY <1>1, <1>3, <1>4, RankGrows
<1> QED BY <1>1, <1>2, <1>5, <1>6 DEF A

(* The entry an addition makes is the one it carries.                      *)
LEMMA OriginOfAdd ==
  ASSUME NEW src, Len(src) \in Nat, NEW o, Len(o) \in Nat, NEW j \in AddsIn(o, Len(o) + 1)
  PROVE  Origin(src, o, Len(src) + Cardinality(AddsIn(o, j)) + 1) = o[j].entry
<1> DEFINE A == AddsIn(o, Len(o) + 1)
           c == Cardinality(AddsIn(o, j))
           i == Len(src) + c + 1
<1>1. c \in Nat /\ i - Len(src) - 1 = c /\ ~(i <= Len(src))
  <2>1. c \in Nat
    BY AddsRanked
  <2> HIDE DEF c
  <2> QED BY <2>1
<1>2. \A k \in A : Store!Cardinality(AddsIn(o, k)) = c => k = j
  BY AddsRanked, StoreCounts
<1>3. Store!Cardinality(AddsIn(o, j)) = c
  BY StoreCounts
<1>4. (CHOOSE k \in A : Store!Cardinality(AddsIn(o, k)) = c) = j
  BY <1>2, <1>3
<1>5. Origin(src, o, i) = o[CHOOSE k \in A : Store!Cardinality(AddsIn(o, k)) = c].entry
  <2>1. Origin(src, o, i) =
            o[CHOOSE k \in A : Store!Cardinality(AddsIn(o, k)) = i - Len(src) - 1].entry
    <3> HIDE DEF i, A
    <3>1. A = AddsIn(o, Len(o) + 1)
      BY DEF A
    <3> QED BY <1>1 DEF Origin, A
  <2> HIDE DEF i, A
  <2> QED BY <1>1, <2>1
<1> QED BY <1>4, <1>5

(* The last of some numbers is one of them.                                *)
LEMMA LatestIn ==
  ASSUME NEW n \in Nat, NEW H, H \subseteq 1 .. n, H # {}
  PROVE  Store!Latest(H) \in 1 .. n
<1> DEFINE C == {n - j : j \in H}
<1>1. PICK x \in C : \A y \in C : x <= y
  <2>1. \A j \in H : n - j \in Nat
    OBVIOUS
  <2>2. C # {} /\ \A y \in C : y \in Nat
    BY <2>1
  <2> HIDE DEF C
  <2> QED BY <2>2, LeastNumber
<1>2. PICK j \in H : x = n - j
  BY <1>1
<1>3. \A k \in H : k <= j
  <2> SUFFICES ASSUME NEW k \in H PROVE k <= j
    OBVIOUS
  <2>1. x <= n - k
    BY <1>1
  <2> QED BY <1>2, <2>1
<1>4. Store!Latest(H) \in H
  BY <1>3 DEF Store!Latest
<1> QED BY <1>4

(* One operation more changes the store that was left by what it does, and *)
(* nothing else.                                                           *)
LEMMA RunStep ==
  ASSUME NEW src, WellFormed(src), NEW o, OkOps(src, o), NEW op, OkOp(op, Len(src))
  PROVE  /\ Run(src, Append(o, op)) = Applied(Run(src, o), op)
         /\ OkOps(src, Append(o, op))
<1> DEFINE p == Append(o, op)
           n == Len(o)
           A == AddsIn(o, n + 1)
<1>0. Len(src) \in Nat
  BY DEF WellFormed
<1>1. /\ n \in Nat /\ Len(p) = n + 1 /\ p[n + 1] = op
      /\ \A j \in 1 .. n : p[j] = o[j]
      /\ IsSeq(p)
  <2>1. PICK T : o \in Seq(T)
    BY DEF OkOps, IsSeq
  <2>2. o \in Seq(T \cup {op}) /\ op \in T \cup {op}
    BY <2>1
  <2>3. p \in Seq(T \cup {op}) /\ Len(p) = n + 1 /\ p[n + 1] = op /\ n \in Nat
    BY <2>2
  <2>4. \A j \in 1 .. n : p[j] = o[j]
    BY <2>2
  <2>5. IsSeq(p)
    BY <2>3 DEF IsSeq
  <2> QED BY <2>3, <2>4, <2>5
<1> HIDE DEF p
<1>2. OkOps(src, p)
  <2>1. \A j \in 1 .. n : OkOp(p[j], Len(src))
    BY <1>1 DEF OkOps
  <2>2. \A j \in 1 .. n + 1 : j \in 1 .. n \/ j = n + 1
    BY <1>1
  <2> QED BY <1>1, <2>1, <2>2 DEF OkOps
<1>3. \A j \in 1 .. n + 1 : AddsIn(p, j) = AddsIn(o, j)
  BY <1>1 DEF AddsIn
<1>4. /\ op.kind = "ADD_ENTRY" => AddsIn(p, n + 2) = A \cup {n + 1}
      /\ op.kind # "ADD_ENTRY" => AddsIn(p, n + 2) = A
  <2>1. \A j : j \in 1 .. n + 1 <=> j \in 1 .. n \/ j = n + 1
    BY <1>1
  <2>2. n + 2 - 1 = n + 1 /\ n + 1 - 1 = n
    BY <1>1
  <2> QED BY <1>1, <2>1, <2>2 DEF AddsIn
<1>5. /\ IsFiniteSet(A) /\ Cardinality(A) \in Nat /\ A \subseteq 1 .. n
      /\ Cardinality(A \cup {n + 1}) = Cardinality(A) + 1
  <2>1. IsFiniteSet(A) /\ Cardinality(A) \in Nat /\ A \subseteq 1 .. n
    BY <1>1, AddsRanked
  <2> HIDE DEF A
  <2>2. n + 1 \notin A
    BY <1>1, <2>1
  <2> QED BY <2>1, <2>2, FS_AddElement
<1>6. /\ RunSize(src, o) = Len(src) + Cardinality(A) /\ RunSize(src, o) \in Nat
      /\ op.kind = "ADD_ENTRY" => RunSize(src, p) = RunSize(src, o) + 1
      /\ op.kind # "ADD_ENTRY" => RunSize(src, p) = RunSize(src, o)
  <2>1. RunSize(src, o) = Len(src) + Cardinality(A)
    BY DEF RunSize
  <2>2. RunSize(src, p) = Len(src) + Cardinality(AddsIn(p, n + 2))
    <3>1. n + 1 + 1 = n + 2
      BY <1>1
    <3> QED BY <1>1, <3>1 DEF RunSize
  <2>3. /\ op.kind = "ADD_ENTRY" => Cardinality(AddsIn(p, n + 2)) = Cardinality(A) + 1
        /\ op.kind # "ADD_ENTRY" => Cardinality(AddsIn(p, n + 2)) = Cardinality(A)
    BY <1>4, <1>5
  <2> HIDE DEF A
  <2> QED BY <1>0, <1>5, <2>1, <2>2, <2>3
<1>7. ASSUME NEW i \in 1 .. RunSize(src, o) PROVE Origin(src, p, i) = Origin(src, o, i)
  <2>1. CASE i <= Len(src)
    BY <2>1 DEF Origin
  <2>2. CASE ~(i <= Len(src))
    <3>1. i - Len(src) - 1 \in 0 .. Cardinality(A) - 1
      <4> HIDE DEF A
      <4> QED BY <1>0, <1>5, <1>6, <2>2
    <3>2. PICK j \in A : Cardinality(AddsIn(o, j)) = i - Len(src) - 1
      BY <1>1, <3>1, AddsRanked
    <3>3. Len(src) + Cardinality(AddsIn(o, j)) + 1 = i
      BY <1>0, <3>2
    <3>4. Origin(src, o, i) = o[j].entry
      BY <1>0, <1>1, <3>3, OriginOfAdd
    <3>5. j \in AddsIn(p, Len(p) + 1) /\ AddsIn(p, j) = AddsIn(o, j) /\ p[j] = o[j]
      <4>1. j \in 1 .. n /\ j \in 1 .. n + 1
        BY <1>1, <1>5
      <4>2. n + 1 + 1 = n + 2
        BY <1>1
      <4> QED BY <1>1, <1>3, <1>4, <4>1, <4>2
    <3>6. Origin(src, p, Len(src) + Cardinality(AddsIn(p, j)) + 1) = p[j].entry
      BY <1>0, <1>1, <3>5, OriginOfAdd
    <3> QED BY <3>3, <3>4, <3>5, <3>6
  <2> QED BY <2>1, <2>2
<1>8. ASSUME op.kind = "ADD_ENTRY" PROVE Origin(src, p, RunSize(src, o) + 1) = op.entry
  <2>1. n + 1 \in AddsIn(p, Len(p) + 1)
    <3>1. n + 1 + 1 = n + 2
      BY <1>1
    <3> QED BY <1>1, <1>4, <1>8, <3>1
  <2>2. Origin(src, p, Len(src) + Cardinality(AddsIn(p, n + 1)) + 1) = p[n + 1].entry
    BY <1>0, <1>1, <2>1, OriginOfAdd
  <2>3. AddsIn(p, n + 1) = A
    BY <1>1, <1>3
  <2> QED BY <1>1, <1>6, <2>2, <2>3
<1>9. ASSUME NEW i \in 1 .. RunSize(src, p), NEW K, K \subseteq Changing
      PROVE  /\ op.kind \in K /\ op.target = i - 1 => Hits(src, p, i, K) = Hits(src, o, i, K) \cup {n + 1}
             /\ ~(op.kind \in K /\ op.target = i - 1) => Hits(src, p, i, K) = Hits(src, o, i, K)
  <2>1. \A j : j \in 1 .. n + 1 <=> j \in 1 .. n \/ j = n + 1
    BY <1>1
  <2>2. \A j \in 1 .. n : AddsIn(p, j) = AddsIn(o, j) /\ p[j] = o[j]
    <3>1. \A j \in 1 .. n : j \in 1 .. n + 1
      BY <1>1
    <3> QED BY <1>1, <1>3, <3>1
  <2>3. AddsIn(p, n + 1) = A
    BY <1>1, <1>3
  <2>4. op.kind \in K /\ op.target = i - 1 => i <= Len(src) + Cardinality(A)
    <3>1. op.kind \in K => op.target \in Int /\ op.target + 1 \in 1 .. Len(src)
      BY <1>9 DEF OkOp, Changing
    <3>2. i \in Nat
      BY <1>0, <1>5, <1>6
    <3> HIDE DEF A
    <3> QED BY <1>0, <1>5, <3>1, <3>2
  <2>5. \A j : j \in Hits(src, p, i, K) <=>
            \/ j \in Hits(src, o, i, K)
            \/ j = n + 1 /\ op.kind \in K /\ op.target = i - 1
    <3>1. \A j : j \in Hits(src, p, i, K) <=>
              j \in 1 .. n + 1 /\ p[j].kind \in K /\ p[j].target = i - 1
                /\ i <= Len(src) + Cardinality(AddsIn(p, j))
      BY <1>1 DEF Hits
    <3>2. \A j : j \in Hits(src, o, i, K) <=>
              j \in 1 .. n /\ o[j].kind \in K /\ o[j].target = i - 1
                /\ i <= Len(src) + Cardinality(AddsIn(o, j))
      BY DEF Hits
    <3> HIDE DEF A, n
    <3> QED BY <1>1, <2>1, <2>2, <2>3, <2>4, <3>1, <3>2
  <2> QED BY <2>5
<1>10. \A i, K : Hits(src, o, i, K) \subseteq 1 .. n
  BY DEF Hits
<1>11. ASSUME NEW i \in 1 .. RunSize(src, o), op.kind = "ADD_ENTRY" \/ op.target # i - 1
       PROVE  RunAt(src, p, i) = RunAt(src, o, i)
  <2>1. i \in 1 .. RunSize(src, p)
    BY <1>6
  <2>2. \A K : K \subseteq Changing => ~(op.kind \in K /\ op.target = i - 1)
    BY <1>11 DEF Changing
  <2>3. \A K : K \subseteq Changing => Hits(src, p, i, K) = Hits(src, o, i, K)
    BY <1>9, <2>1, <2>2
  <2>4. /\ Hits(src, p, i, {"SET_VALUE"}) = Hits(src, o, i, {"SET_VALUE"})
        /\ Hits(src, p, i, {"TOMBSTONE"}) = Hits(src, o, i, {"TOMBSTONE"})
        /\ Hits(src, p, i, Changing) = Hits(src, o, i, Changing)
    BY <2>3 DEF Changing
  <2>5. Hits(src, o, i, {"SET_VALUE"}) # {} =>
            Store!Latest(Hits(src, o, i, {"SET_VALUE"})) \in 1 .. n
    BY <1>1, <1>10, LatestIn
  <2>6. Origin(src, p, i) = Origin(src, o, i)
    BY <1>7
  <2>7. RunAt(src, p, i).value = RunAt(src, o, i).value
    BY <1>1, <2>4, <2>5, <2>6 DEF RunAt
  <2>8. RunAt(src, p, i).dirty = RunAt(src, o, i).dirty
    BY <2>4, <2>6 DEF RunAt, Changing
  <2>9. RunAt(src, p, i).deleted = RunAt(src, o, i).deleted
    BY <2>4, <2>6 DEF RunAt
  <2> QED BY <2>6, <2>7, <2>8, <2>9 DEF RunAt
<1>12. ASSUME NEW i \in 1 .. RunSize(src, o), op.kind # "ADD_ENTRY", op.target = i - 1
       PROVE  RunAt(src, p, i) =
                 [key |-> RunAt(src, o, i).key,
                  value |-> IF op.kind = "SET_VALUE" THEN op.value ELSE RunAt(src, o, i).value,
                  dirty |-> TRUE,
                  deleted |-> RunAt(src, o, i).deleted \/ op.kind = "TOMBSTONE"]
  <2>1. i \in 1 .. RunSize(src, p) /\ op.kind \in Changing
    BY <1>6, <1>12 DEF OkOp
  <2>2. /\ op.kind = "SET_VALUE" => Hits(src, p, i, {"SET_VALUE"}) = Hits(src, o, i, {"SET_VALUE"}) \cup {n + 1}
        /\ op.kind # "SET_VALUE" => Hits(src, p, i, {"SET_VALUE"}) = Hits(src, o, i, {"SET_VALUE"})
        /\ op.kind = "TOMBSTONE" => Hits(src, p, i, {"TOMBSTONE"}) = Hits(src, o, i, {"TOMBSTONE"}) \cup {n + 1}
        /\ op.kind # "TOMBSTONE" => Hits(src, p, i, {"TOMBSTONE"}) = Hits(src, o, i, {"TOMBSTONE"})
        /\ Hits(src, p, i, Changing) = Hits(src, o, i, Changing) \cup {n + 1}
    <3>1. {"SET_VALUE"} \subseteq Changing /\ {"TOMBSTONE"} \subseteq Changing /\ Changing \subseteq Changing
      BY DEF Changing
    <3> QED BY <1>9, <1>12, <2>1, <3>1
  <2>3. Origin(src, p, i) = Origin(src, o, i)
    BY <1>7
  <2>4. RunAt(src, p, i).value =
            IF op.kind = "SET_VALUE" THEN op.value ELSE RunAt(src, o, i).value
    <3>1. CASE op.kind = "SET_VALUE"
      <4>1. Store!Latest(Hits(src, o, i, {"SET_VALUE"}) \cup {n + 1}) = n + 1
        <5> DEFINE H == Hits(src, o, i, {"SET_VALUE"})
        <5>1. H \subseteq 1 .. n
          BY <1>10
        <5> HIDE DEF H
        <5>2. \A k \in H \cup {n + 1} : k <= n + 1 /\ k \in Int
          BY <1>1, <5>1
        <5>3. Store!Latest(H \cup {n + 1}) = n + 1
          BY <1>1, <5>2 DEF Store!Latest
        <5> QED BY <5>3 DEF H
      <4> QED BY <1>1, <2>2, <3>1, <4>1 DEF RunAt
    <3>2. CASE op.kind # "SET_VALUE"
      <4>1. Hits(src, p, i, {"SET_VALUE"}) = Hits(src, o, i, {"SET_VALUE"})
        BY <2>2, <3>2
      <4> QED BY <1>1, <1>10, <2>3, <3>2, <4>1, LatestIn DEF RunAt
    <3> QED BY <3>1, <3>2
  <2>5. RunAt(src, p, i).dirty = TRUE
    BY <2>2 DEF RunAt, Changing
  <2>6. RunAt(src, p, i).deleted = (RunAt(src, o, i).deleted \/ op.kind = "TOMBSTONE")
    BY <2>2, <2>3 DEF RunAt
  <2>7. RunAt(src, p, i).key = RunAt(src, o, i).key
    BY <2>3 DEF RunAt
  <2> QED BY <2>4, <2>5, <2>6, <2>7 DEF RunAt
<1>13. CASE op.kind = "ADD_ENTRY"
  <2> DEFINE i == RunSize(src, o) + 1
  <2>1. i \in 1 .. RunSize(src, p) /\ ~(i <= Len(src))
    BY <1>0, <1>5, <1>6, <1>13
  <2>2. \A K : K \subseteq Changing => Hits(src, p, i, K) = {}
    <3> SUFFICES ASSUME NEW K, K \subseteq Changing, NEW j \in Hits(src, p, i, K) PROVE FALSE
      OBVIOUS
    <3>1. j \in 1 .. Len(p) /\ p[j].kind \in Changing /\ p[j].target = i - 1
      BY DEF Hits
    <3>2. OkOp(p[j], Len(src))
      BY <1>2, <3>1 DEF OkOps
    <3>3. p[j].target \in Int /\ p[j].target + 1 \in 1 .. Len(src)
      BY <3>1, <3>2 DEF OkOp, Changing
    <3>4. i \in Nat
      BY <1>6
    <3> HIDE DEF i
    <3> QED BY <1>0, <2>1, <3>1, <3>3, <3>4
  <2>3. /\ Hits(src, p, i, {"SET_VALUE"}) = {} /\ Hits(src, p, i, {"TOMBSTONE"}) = {}
        /\ Hits(src, p, i, {"SET_VALUE", "TOMBSTONE", "MARK_DIRTY"}) = {}
    BY <2>2 DEF Changing
  <2>4. Origin(src, p, i) = op.entry
    BY <1>8, <1>13
  <2>5. WellMade(op.entry)
    BY <1>13 DEF OkOp, Changing
  <2>6. RunAt(src, p, i) = op.entry
    <3>1. RunAt(src, p, i) = [key |-> op.entry.key, value |-> op.entry.value,
                              dirty |-> op.entry.dirty \/ FALSE,
                              deleted |-> op.entry.deleted \/ FALSE]
      BY <2>3, <2>4 DEF RunAt
    <3> QED BY <2>5, <3>1 DEF WellMade
  <2>7. Run(src, o) = [k \in 1 .. RunSize(src, o) |-> RunAt(src, o, k)]
    BY DEF Run
  <2>8. Append(Run(src, o), op.entry)
          = [k \in 1 .. RunSize(src, o) + 1 |->
                IF k = RunSize(src, o) + 1 THEN op.entry ELSE RunAt(src, o, k)]
    <3> DEFINE N == RunSize(src, o)
               f == [k \in 1 .. N |-> RunAt(src, o, k)]
    <3>1. N \in Nat
      BY <1>6
    <3> HIDE DEF N
    <3> DEFINE T == {RunAt(src, o, k) : k \in 1 .. N}
    <3>2. f \in Seq(T) /\ Len(f) = N
      <4>1. \A k \in 1 .. N : RunAt(src, o, k) \in T
        OBVIOUS
      <4> HIDE DEF T
      <4>2. f \in [1 .. N -> T]
        BY <4>1
      <4> HIDE DEF f
      <4>3. f \in Seq(T)
        BY <3>1, <4>2
      <4> QED BY <3>1, <4>2, <4>3
    <3>3. \A k \in 1 .. N : f[k] = RunAt(src, o, k)
      OBVIOUS
    <3> HIDE DEF f
    <3>4. Append(f, op.entry) = [k \in 1 .. Len(f) + 1 |-> IF k <= Len(f) THEN f[k] ELSE op.entry]
      BY <3>2
    <3>5. Append(f, op.entry) = [k \in 1 .. N + 1 |-> IF k = N + 1 THEN op.entry ELSE RunAt(src, o, k)]
      BY <3>1, <3>2, <3>3, <3>4
    <3> QED BY <2>7, <3>5 DEF f, N
  <2>9. \A k \in 1 .. RunSize(src, o) + 1 :
            RunAt(src, p, k) = IF k = RunSize(src, o) + 1 THEN op.entry ELSE RunAt(src, o, k)
    <3>1. \A k \in 1 .. RunSize(src, o) + 1 : k = i \/ k \in 1 .. RunSize(src, o)
      BY <1>6
    <3> QED BY <1>6, <1>11, <1>13, <2>6, <3>1
  <2>10. Run(src, p) = Append(Run(src, o), op.entry)
    BY <1>6, <1>13, <2>8, <2>9 DEF Run
  <2> QED BY <1>2, <1>13, <2>10 DEF Applied, p
<1>14. CASE op.kind # "ADD_ENTRY"
  <2>1. RunSize(src, p) = RunSize(src, o)
    BY <1>6, <1>14
  <2>2. \A i \in 1 .. RunSize(src, o) : op.target = i - 1 <=> i = op.target + 1
    <3>1. op.target \in Int
      BY <1>14 DEF OkOp
    <3> QED BY <1>6, <3>1
  <2>3. \A i \in 1 .. RunSize(src, o) : RunAt(src, p, i) = Applied(Run(src, o), op)[i]
    <3> SUFFICES ASSUME NEW i \in 1 .. RunSize(src, o)
                 PROVE  RunAt(src, p, i) = Applied(Run(src, o), op)[i]
      OBVIOUS
    <3>1. Run(src, o)[i] = RunAt(src, o, i) /\ i \in DOMAIN Run(src, o)
      BY DEF Run
    <3>2. CASE op.target = i - 1
      BY <1>12, <1>14, <2>2, <3>1, <3>2 DEF Applied, Changed
    <3>3. CASE op.target # i - 1
      BY <1>11, <1>14, <2>2, <3>1, <3>3 DEF Applied
    <3> QED BY <3>2, <3>3
  <2>4. /\ Applied(Run(src, o), op) = [i \in 1 .. RunSize(src, o) |-> Applied(Run(src, o), op)[i]]
        /\ Run(src, p) = [i \in 1 .. RunSize(src, o) |-> RunAt(src, p, i)]
    BY <1>14, <2>1 DEF Run, Applied
  <2>5. Run(src, p) = Applied(Run(src, o), op)
    BY <2>3, <2>4
  <2> QED BY <1>2, <2>5 DEF p
<1> QED BY <1>13, <1>14
-----------------------------------------------------------------------------
(* Sequences by their elements.                                            *)
LEMMA SeqFacts ==
  ASSUME NEW s, IsSeq(s)
  PROVE  /\ Len(s) \in Nat /\ DOMAIN s = 1 .. Len(s) /\ s = [j \in 1 .. Len(s) |-> s[j]]
         /\ s \in Seq(Range(s))
<1>1. PICK T : s \in Seq(T)
  BY DEF IsSeq
<1>2. Len(s) \in Nat /\ DOMAIN s = 1 .. Len(s) /\ s = [j \in 1 .. Len(s) |-> s[j]]
  BY <1>1
<1>3. \A j \in 1 .. Len(s) : s[j] \in Range(s)
  BY <1>2 DEF Range
<1>4. s \in Seq(Range(s))
  <2> DEFINE R == Range(s)
  <2> HIDE DEF R
  <2>1. s \in [1 .. Len(s) -> R]
    BY <1>2, <1>3 DEF R
  <2>2. s \in Seq(R)
    BY <1>2, <2>1
  <2> QED BY <2>2 DEF R
<1> QED BY <1>2, <1>4

(* A function over 1 .. N is a sequence.                                   *)
LEMMA SeqMade ==
  ASSUME NEW N \in Nat, NEW s, DOMAIN s = 1 .. N, s = [j \in 1 .. N |-> s[j]]
  PROVE  IsSeq(s) /\ Len(s) = N
<1> DEFINE R == Range(s)
<1>1. \A j \in 1 .. N : s[j] \in R
  BY DEF Range
<1> HIDE DEF R
<1>2. s \in [1 .. N -> R]
  BY <1>1
<1>3. s \in Seq(R) /\ Len(s) = N
  BY <1>2
<1> QED BY <1>3 DEF IsSeq

(* Two sequences joined, element by element.                               *)
LEMMA JoinFacts ==
  ASSUME NEW s, IsSeq(s), NEW t, IsSeq(t)
  PROVE  /\ IsSeq(s \o t) /\ Len(s \o t) = Len(s) + Len(t)
         /\ \A j \in 1 .. Len(s) : (s \o t)[j] = s[j]
         /\ \A j \in 1 .. Len(t) : (s \o t)[Len(s) + j] = t[j]
         /\ s \o <<>> = s /\ <<>> \o s = s
<1>1. PICK S : s \in Seq(S)
  BY DEF IsSeq
<1>2. PICK T : t \in Seq(T)
  BY DEF IsSeq
<1> DEFINE U == S \cup T
<1>3. s \in Seq(U) /\ t \in Seq(U)
  BY <1>1, <1>2
<1> HIDE DEF U
<1>4. s \o t \in Seq(U)
  BY <1>3
<1> QED BY <1>3, <1>4 DEF IsSeq

(* Joining one element appends it.                                         *)
LEMMA JoinOne ==
  ASSUME NEW s, IsSeq(s), NEW e
  PROVE  s \o <<e>> = Append(s, e) /\ IsSeq(<<e>>) /\ IsSeq(Append(s, e))
         /\ Len(Append(s, e)) = Len(s) + 1
<1>1. PICK S : s \in Seq(S)
  BY DEF IsSeq
<1> DEFINE U == S \cup {e}
<1>2. s \in Seq(U) /\ e \in U
  BY <1>1
<1> HIDE DEF U
<1>3. s \o <<e>> = Append(s, e) /\ <<e>> \in Seq(U) /\ Append(s, e) \in Seq(U) /\ Len(Append(s, e)) = Len(s) + 1
  BY <1>2
<1> QED BY <1>3 DEF IsSeq

(* Joins may be grouped in any way.                                        *)
LEMMA JoinAssoc ==
  ASSUME NEW s, IsSeq(s), NEW t, IsSeq(t), NEW u, IsSeq(u)
  PROVE  (s \o t) \o u = s \o (t \o u)
<1>1. PICK S : s \in Seq(S)
  BY DEF IsSeq
<1>2. PICK T : t \in Seq(T)
  BY DEF IsSeq
<1>3. PICK V : u \in Seq(V)
  BY DEF IsSeq
<1> DEFINE U == S \cup T \cup V
<1>4. s \in Seq(U) /\ t \in Seq(U) /\ u \in Seq(U)
  BY <1>1, <1>2, <1>3
<1> HIDE DEF U
<1> QED BY <1>4

(* The same for sequences of sequences.                                    *)
AllSeqs(c) == IsSeq(c) /\ \A n \in 1 .. Len(c) : IsSeq(c[n])

(* Sequences of anything have their elements in one set.                   *)
LEMMA SeqsShare ==
  ASSUME NEW c, AllSeqs(c)
  PROVE  \E S : c \in Seq(Seq(S))
<1> DEFINE S == UNION {Range(c[n]) : n \in 1 .. Len(c)}
<1>1. \A n \in 1 .. Len(c) : c[n] \in Seq(S)
  <2> SUFFICES ASSUME NEW n \in 1 .. Len(c) PROVE c[n] \in Seq(S)
    OBVIOUS
  <2>1. c[n] \in Seq(Range(c[n])) /\ Range(c[n]) \subseteq S
    BY SeqFacts DEF AllSeqs
  <2> HIDE DEF S
  <2> QED BY <2>1
<1> HIDE DEF S
<1>2. Len(c) \in Nat /\ c = [j \in 1 .. Len(c) |-> c[j]]
  BY SeqFacts DEF AllSeqs
<1>3. c \in [1 .. Len(c) -> Seq(S)]
  BY <1>1, <1>2
<1>4. c \in Seq(Seq(S))
  BY <1>2, <1>3
<1> QED BY <1>4

(* Flattened, a sequence with one more element ends in it.                 *)
LEMMA FlatOne ==
  ASSUME NEW c, AllSeqs(c), NEW d, AllSeqs(d), Len(d) = Len(c) + 1,
         \A n \in 1 .. Len(c) : d[n] = c[n]
  PROVE  FlattenSeq(d) = FlattenSeq(c) \o d[Len(d)]
<1>1. PICK S : c \in Seq(Seq(S))
  BY SeqsShare
<1>2. PICK T : d \in Seq(Seq(T))
  BY SeqsShare
<1> DEFINE U == S \cup T
<1>3. S \subseteq U /\ T \subseteq U
  OBVIOUS
<1>4. c \in Seq(Seq(U)) /\ d \in Seq(Seq(U))
  <2>1. \A s \in Seq(S) : s \in Seq(U)
    BY <1>3
  <2>2. \A s \in Seq(T) : s \in Seq(U)
    BY <1>3
  <2> HIDE DEF U
  <2> QED BY <1>1, <1>2, <2>1, <2>2
<1> HIDE DEF U
<1> QED BY <1>4, FlatStep

(* What is flattened is a sequence.                                        *)
LEMMA FlatSeq ==
  ASSUME NEW c, AllSeqs(c)
  PROVE  IsSeq(FlattenSeq(c))
<1>1. PICK S : c \in Seq(Seq(S))
  BY SeqsShare
<1> QED BY <1>1, FlatType DEF IsSeq

(* The first n of a sequence of sequences.                                 *)
First(c, n) == [j \in 1 .. n |-> c[j]]

(* The first none are empty, the first of all are all, and the next one is *)
(* appended.                                                               *)
LEMMA FirstFacts ==
  ASSUME NEW c, AllSeqs(c), NEW n \in 0 .. Len(c)
  PROVE  /\ AllSeqs(First(c, n)) /\ Len(First(c, n)) = n
         /\ n = 0 => FlattenSeq(First(c, n)) = <<>>
         /\ n = Len(c) => First(c, n) = c
         /\ n < Len(c) => FlattenSeq(First(c, n + 1)) = FlattenSeq(First(c, n)) \o c[n + 1]
<1>0. Len(c) \in Nat /\ c = [j \in 1 .. Len(c) |-> c[j]] /\ \A j \in 1 .. Len(c) : IsSeq(c[j])
  BY SeqFacts DEF AllSeqs
<1>1. ASSUME NEW k \in 0 .. Len(c) PROVE AllSeqs(First(c, k)) /\ Len(First(c, k)) = k
  <2>1. k \in Nat /\ DOMAIN First(c, k) = 1 .. k /\ First(c, k) = [j \in 1 .. k |-> First(c, k)[j]]
    BY <1>0 DEF First
  <2>2. IsSeq(First(c, k)) /\ Len(First(c, k)) = k
    BY <2>1, SeqMade
  <2>3. \A j \in 1 .. k : First(c, k)[j] = c[j] /\ j \in 1 .. Len(c)
    BY <1>0 DEF First
  <2> QED BY <1>0, <2>2, <2>3 DEF AllSeqs
<1>2. n = 0 => FlattenSeq(First(c, n)) = <<>>
  <2>1. n = 0 => First(c, n) = <<>>
    BY DEF First
  <2> QED BY <2>1, FlatEmpty
<1>3. n = Len(c) => First(c, n) = c
  BY <1>0 DEF First
<1>4. ASSUME n < Len(c) PROVE FlattenSeq(First(c, n + 1)) = FlattenSeq(First(c, n)) \o c[n + 1]
  <2>1. n + 1 \in 0 .. Len(c) /\ n \in Nat
    BY <1>0, <1>4
  <2>2. AllSeqs(First(c, n)) /\ Len(First(c, n)) = n
        /\ AllSeqs(First(c, n + 1)) /\ Len(First(c, n + 1)) = n + 1
    BY <1>1, <2>1
  <2>3. \A j \in 1 .. n : First(c, n + 1)[j] = First(c, n)[j]
    BY <2>1 DEF First
  <2>4. First(c, n + 1)[n + 1] = c[n + 1]
    BY <2>1 DEF First
  <2> QED BY <2>2, <2>3, <2>4, FlatOne
<1> QED BY <1>1, <1>2, <1>3, <1>4
-----------------------------------------------------------------------------
(* Stores after some operations.                                           *)
LEMMA StoreFacts ==
  ASSUME NEW st, WellFormed(st)
  PROVE  /\ IsSeq(st) /\ Len(st) \in Nat /\ DOMAIN st = 1 .. Len(st)
         /\ st = [j \in 1 .. Len(st) |-> st[j]]
         /\ \A i \in 1 .. Len(st) : WellMade(st[i])
         /\ IsFiniteSet(DOMAIN st)
         /\ \A S : S \subseteq DOMAIN st => IsFiniteSet(S) /\ PlacesIn(st, S)
<1>1. IsSeq(st)
  BY DEF WellFormed, IsSeq
<1>2. Len(st) \in Nat /\ DOMAIN st = 1 .. Len(st) /\ st = [j \in 1 .. Len(st) |-> st[j]]
  BY <1>1, SeqFacts
<1>3. \A i \in 1 .. Len(st) : WellMade(st[i])
  BY <1>2 DEF WellFormed
<1>4. IsFiniteSet(DOMAIN st)
  BY <1>2, FS_Interval
<1>5. ASSUME NEW S, S \subseteq DOMAIN st PROVE IsFiniteSet(S) /\ PlacesIn(st, S)
  <2>1. IsFiniteSet(S)
    BY <1>4, <1>5, FS_Subset
  <2>2. PlacesIn(st, S)
    BY <1>2, <1>3, <1>5 DEF PlacesIn, WellMade
  <2> QED BY <2>1, <2>2
<1> QED BY <1>1, <1>2, <1>3, <1>4, <1>5

(* Entries that are made well form a store.                                *)
LEMMA StoreMade ==
  ASSUME NEW st, IsSeq(st), \A i \in 1 .. Len(st) : WellMade(st[i])
  PROVE  WellFormed(st)
  BY SeqFacts DEF WellFormed

(* No operation, no change.                                                *)
LEMMA RunEmpty ==
  ASSUME NEW src, WellFormed(src)
  PROVE  Run(src, <<>>) = src /\ OkOps(src, <<>>)
<1>1. Len(src) \in Nat /\ src = [j \in 1 .. Len(src) |-> src[j]] /\ \A i \in 1 .. Len(src) : WellMade(src[i])
  BY StoreFacts
<1>2. \A j \in {1} : AddsIn(<<>>, j) = {}
  BY DEF AddsIn
<1>3. RunSize(src, <<>>) = Len(src)
  BY <1>1, <1>2, FS_EmptySet DEF RunSize
<1>4. \A i, K : Hits(src, <<>>, i, K) = {}
  BY DEF Hits
<1>5. \A i \in 1 .. Len(src) : RunAt(src, <<>>, i) = src[i]
  <2> SUFFICES ASSUME NEW i \in 1 .. Len(src) PROVE RunAt(src, <<>>, i) = src[i]
    OBVIOUS
  <2>1. Origin(src, <<>>, i) = src[i]
    BY <1>1 DEF Origin
  <2>2. RunAt(src, <<>>, i) = [key |-> src[i].key, value |-> src[i].value,
                               dirty |-> src[i].dirty \/ FALSE, deleted |-> src[i].deleted \/ FALSE]
    BY <1>4, <2>1 DEF RunAt
  <2> QED BY <1>1, <2>2 DEF WellMade
<1>6. Run(src, <<>>) = src
  BY <1>1, <1>3, <1>5 DEF Run
<1>7. OkOps(src, <<>>)
  <2>1. IsSeq(<<>>) /\ Len(<<>>) = 0
    BY DEF IsSeq
  <2> QED BY <2>1 DEF OkOps
<1> QED BY <1>6, <1>7

(* One operation changes one entry, or adds one.                           *)
LEMMA AppliedFacts ==
  ASSUME NEW st, WellFormed(st), NEW op, NEW n, n \in 0 .. Len(st), OkOp(op, n)
  PROVE  /\ WellFormed(Applied(st, op))
         /\ op.kind = "ADD_ENTRY" =>
               /\ Len(Applied(st, op)) = Len(st) + 1
               /\ Applied(st, op)[Len(st) + 1] = op.entry
               /\ \A i \in 1 .. Len(st) : Applied(st, op)[i] = st[i]
         /\ op.kind # "ADD_ENTRY" =>
               /\ op.target + 1 \in 1 .. Len(st)
               /\ Len(Applied(st, op)) = Len(st)
               /\ \A i \in 1 .. Len(st) : i # op.target + 1 => Applied(st, op)[i] = st[i]
               /\ Applied(st, op)[op.target + 1] = Changed(st[op.target + 1], op)
<1>1. /\ IsSeq(st) /\ Len(st) \in Nat /\ DOMAIN st = 1 .. Len(st)
      /\ \A i \in 1 .. Len(st) : WellMade(st[i])
  BY StoreFacts
<1>2. CASE op.kind = "ADD_ENTRY"
  <2>1. Applied(st, op) = st \o <<op.entry>>
    BY <1>1, <1>2, JoinOne DEF Applied
  <2>2. IsSeq(<<op.entry>>) /\ Len(<<op.entry>>) = 1 /\ <<op.entry>>[1] = op.entry
    BY <1>1, JoinOne
  <2> DEFINE t == Applied(st, op)
  <2>3. /\ IsSeq(t) /\ Len(t) = Len(st) + 1 /\ t[Len(st) + 1] = op.entry
        /\ \A i \in 1 .. Len(st) : t[i] = st[i]
    <3> DEFINE u == <<op.entry>>
    <3>1. IsSeq(u) /\ Len(u) = 1 /\ u[1] = op.entry
      BY <2>2
    <3> HIDE DEF u
    <3>2. t = st \o u
      BY <2>1 DEF u
    <3> HIDE DEF t
    <3>3. /\ IsSeq(st \o u) /\ Len(st \o u) = Len(st) + Len(u)
          /\ \A j \in 1 .. Len(st) : (st \o u)[j] = st[j]
      BY <1>1, <3>1, JoinFacts
    <3>4. \A j \in 1 .. Len(u) : (st \o u)[Len(st) + j] = u[j]
      <4>1. IsSeq(st) /\ IsSeq(u)
        BY <1>1, <3>1
      <4> QED BY <4>1, JoinFacts
    <3> QED BY <3>1, <3>2, <3>3, <3>4
  <2> HIDE DEF t
  <2>4. WellMade(op.entry)
    BY <1>2 DEF OkOp, Changing
  <2>5. \A i \in 1 .. Len(t) : i \in 1 .. Len(st) \/ i = Len(st) + 1
    BY <1>1, <2>3
  <2>6. WellFormed(t)
    BY <1>1, <2>3, <2>4, <2>5, StoreMade
  <2> QED BY <1>2, <2>3, <2>6 DEF t
<1>3. CASE op.kind # "ADD_ENTRY"
  <2> DEFINE t == Applied(st, op)
  <2>1. op.target \in Int /\ op.target + 1 \in 1 .. Len(st)
    BY <1>1, <1>3 DEF OkOp
  <2>2. t = [i \in 1 .. Len(st) |-> IF i = op.target + 1 THEN Changed(st[i], op) ELSE st[i]]
    BY <1>1, <1>3 DEF Applied
  <2>3. IsSeq(t) /\ Len(t) = Len(st)
    <3>1. DOMAIN t = 1 .. Len(st) /\ t = [i \in 1 .. Len(st) |-> t[i]]
      BY <2>2
    <3> QED BY <1>1, <3>1, SeqMade
  <2>4. \A i \in 1 .. Len(st) : t[i] = IF i = op.target + 1 THEN Changed(st[i], op) ELSE st[i]
    BY <2>2
  <2> HIDE DEF t
  <2>5. \A e : WellMade(e) => WellMade(Changed(e, op))
    BY DEF WellMade, Changed
  <2>6. WellFormed(t)
    BY <1>1, <2>3, <2>4, <2>5, StoreMade
  <2> QED BY <1>3, <2>1, <2>3, <2>4, <2>6 DEF t
<1> QED BY <1>2, <1>3

(* So a store stays well formed, only grows, and its entries keep their    *)
(* names and places.                                                       *)
LEMMA OkFirst ==
  ASSUME NEW src, NEW o, OkOps(src, o), NEW n \in 0 .. Len(o)
  PROVE  /\ OkOps(src, First(o, n)) /\ Len(First(o, n)) = n
         /\ n = 0 => First(o, n) = <<>>
         /\ n = Len(o) => First(o, n) = o
         /\ n < Len(o) => First(o, n + 1) = Append(First(o, n), o[n + 1]) /\ OkOp(o[n + 1], Len(src))
<1>0. Len(o) \in Nat /\ o = [j \in 1 .. Len(o) |-> o[j]]
  BY SeqFacts DEF OkOps
<1>1. IsSeq(First(o, n)) /\ Len(First(o, n)) = n
  <2>1. n \in Nat /\ DOMAIN First(o, n) = 1 .. n /\ First(o, n) = [j \in 1 .. n |-> First(o, n)[j]]
    BY <1>0 DEF First
  <2> QED BY <2>1, SeqMade
<1>2. \A j \in 1 .. n : First(o, n)[j] = o[j] /\ j \in 1 .. Len(o)
  BY <1>0 DEF First
<1>3. OkOps(src, First(o, n))
  BY <1>1, <1>2 DEF OkOps
<1>4. ASSUME n < Len(o) PROVE First(o, n + 1) = Append(First(o, n), o[n + 1]) /\ OkOp(o[n + 1], Len(src))
  <2>1. n + 1 \in 1 .. Len(o)
    BY <1>0, <1>4
  <2>2. PICK T : First(o, n) \in Seq(T) /\ o[n + 1] \in T
    <3>1. PICK T : First(o, n) \in Seq(T)
      BY <1>1 DEF IsSeq
    <3>2. First(o, n) \in Seq(T \cup {o[n + 1]})
      BY <3>1
    <3> QED BY <3>2
  <2>3. Append(First(o, n), o[n + 1])
          = [j \in 1 .. n + 1 |-> IF j = n + 1 THEN o[n + 1] ELSE First(o, n)[j]]
    BY <1>1, <2>2
  <2>4. \A j \in 1 .. n + 1 : j \in 1 .. n \/ j = n + 1
    OBVIOUS
  <2>5. First(o, n + 1) = Append(First(o, n), o[n + 1])
    BY <2>3, <2>4 DEF First
  <2> QED BY <2>1, <2>5 DEF OkOps
<1>5. n = 0 => First(o, n) = <<>>
  BY DEF First
<1>6. n = Len(o) => First(o, n) = o
  BY <1>0 DEF First
<1> QED BY <1>1, <1>3, <1>4, <1>5, <1>6

(* A store only grows, stays well formed and keeps its keys.               *)
LEMMA RunShape ==
  ASSUME NEW src, WellFormed(src), NEW o, OkOps(src, o)
  PROVE  /\ WellFormed(Run(src, o)) /\ Len(src) <= Len(Run(src, o))
         /\ \A i \in 1 .. Len(src) : Run(src, o)[i].key = src[i].key
<1> DEFINE Good(n) == LET r == Run(src, First(o, n))
                      IN  /\ WellFormed(r) /\ Len(src) <= Len(r)
                          /\ \A i \in 1 .. Len(src) : r[i].key = src[i].key
           T == {n \in 0 .. Len(o) : Good(n)}
<1>0. Len(o) \in Nat /\ Len(src) \in Nat
  BY SeqFacts, StoreFacts DEF OkOps
<1>1. 0 \in T
  <2>1. 0 \in 0 .. Len(o)
    BY <1>0
  <2>2. Run(src, First(o, 0)) = src
    BY <2>1, OkFirst, RunEmpty
  <2> QED BY <1>0, <2>1, <2>2
<1>2. ASSUME NEW n \in 0 .. Len(o), n \in T, n < Len(o) PROVE n + 1 \in T
  <2> DEFINE r == Run(src, First(o, n))
             q == Run(src, First(o, n + 1))
  <2>1. WellFormed(r) /\ Len(src) <= Len(r) /\ \A i \in 1 .. Len(src) : r[i].key = src[i].key
    BY <1>2
  <2>2. OkOp(o[n + 1], Len(src)) /\ q = Applied(r, o[n + 1])
    <3>1. /\ OkOps(src, First(o, n)) /\ OkOp(o[n + 1], Len(src))
          /\ First(o, n + 1) = Append(First(o, n), o[n + 1])
      BY <1>2, OkFirst
    <3>2. Run(src, Append(First(o, n), o[n + 1])) = Applied(Run(src, First(o, n)), o[n + 1])
      BY <3>1, RunStep
    <3> QED BY <3>1, <3>2
  <2> HIDE DEF r, q
  <2>3. Len(src) \in 0 .. Len(r) /\ Len(r) \in Nat
    BY <1>0, <2>1, StoreFacts
  <2>4. WellFormed(q)
    BY <2>1, <2>2, <2>3, AppliedFacts
  <2>5. Len(src) <= Len(q) /\ \A i \in 1 .. Len(src) : i \in 1 .. Len(r) /\ q[i].key = r[i].key
    <3>1. \A i \in 1 .. Len(src) : i \in 1 .. Len(r)
      BY <1>0, <2>3
    <3>2. CASE o[n + 1].kind = "ADD_ENTRY"
      BY <1>0, <2>1, <2>2, <2>3, <3>1, <3>2, AppliedFacts
    <3>3. CASE o[n + 1].kind # "ADD_ENTRY"
      <4>1. /\ Len(q) = Len(r)
            /\ \A i \in 1 .. Len(r) : i # o[n + 1].target + 1 => q[i] = r[i]
            /\ q[o[n + 1].target + 1] = Changed(r[o[n + 1].target + 1], o[n + 1])
        BY <2>1, <2>2, <2>3, <3>3, AppliedFacts
      <4>2. \A e : Changed(e, o[n + 1]).key = e.key
        BY DEF Changed
      <4> QED BY <1>0, <2>1, <2>3, <3>1, <4>1, <4>2
    <3> QED BY <3>2, <3>3
  <2>6. Good(n + 1)
    BY <2>1, <2>4, <2>5 DEF q
  <2>7. n + 1 \in 0 .. Len(o)
    BY <1>0, <1>2
  <2> QED BY <2>6, <2>7
<1>3. \A n \in 0 .. Len(o) : n \in T
  <2> HIDE DEF T
  <2> QED BY <1>0, <1>1, <1>2, Climb
<1>4. Good(Len(o)) /\ Len(o) \in 0 .. Len(o)
  BY <1>0, <1>3
<1> QED BY <1>4, OkFirst

(* Operations that may be recorded may be recorded one after the other.    *)
LEMMA OkJoin ==
  ASSUME NEW src, NEW o, OkOps(src, o), NEW d, OkOps(src, d)
  PROVE  OkOps(src, o \o d)
<1> DEFINE t == o \o d
<1>1. /\ IsSeq(o) /\ IsSeq(d) /\ Len(o) \in Nat /\ Len(d) \in Nat
      /\ \A j \in 1 .. Len(o) : OkOp(o[j], Len(src))
      /\ \A j \in 1 .. Len(d) : OkOp(d[j], Len(src))
  BY SeqFacts DEF OkOps
<1>2. /\ IsSeq(t) /\ Len(t) = Len(o) + Len(d)
      /\ \A j \in 1 .. Len(o) : t[j] = o[j] /\ \A k \in 1 .. Len(d) : t[Len(o) + k] = d[k]
  BY <1>1, JoinFacts
<1>3. \A k \in 1 .. Len(d) : t[Len(o) + k] = d[k]
  BY <1>1, JoinFacts
<1> HIDE DEF t
<1>4. ASSUME NEW j \in 1 .. Len(t) PROVE OkOp(t[j], Len(src))
  <2>1. CASE j <= Len(o)
    <3>1. j \in 1 .. Len(o)
      BY <1>1, <1>2, <2>1
    <3> QED BY <1>1, <1>2, <3>1
  <2>2. CASE ~(j <= Len(o))
    <3>1. j - Len(o) \in 1 .. Len(d) /\ Len(o) + (j - Len(o)) = j
      BY <1>1, <1>2, <2>2
    <3> QED BY <1>1, <1>3, <3>1
  <2> QED BY <2>1, <2>2
<1> QED BY <1>2, <1>4 DEF OkOps, t
-----------------------------------------------------------------------------
(* Entries that are added come after those that are there, in order.       *)
LEMMA JoinNext ==
  ASSUME NEW src, NEW o, OkOps(src, o), NEW d, OkOps(src, d), NEW n \in 0 .. Len(d), n < Len(d)
  PROVE  /\ OkOps(src, o \o First(d, n)) /\ OkOp(d[n + 1], Len(src))
         /\ o \o First(d, n + 1) = Append(o \o First(d, n), d[n + 1])
<1>1. /\ OkOps(src, First(d, n)) /\ OkOp(d[n + 1], Len(src))
      /\ First(d, n + 1) = Append(First(d, n), d[n + 1])
  BY OkFirst
<1>2. IsSeq(o) /\ IsSeq(First(d, n)) /\ OkOps(src, o \o First(d, n))
  BY <1>1, OkJoin DEF OkOps
<1>3. IsSeq(o \o First(d, n))
  BY <1>2 DEF OkOps
<1>4. First(d, n + 1) = First(d, n) \o <<d[n + 1]>> /\ IsSeq(<<d[n + 1]>>)
  BY <1>1, <1>2, JoinOne
<1>5. (o \o First(d, n)) \o <<d[n + 1]>> = o \o (First(d, n) \o <<d[n + 1]>>)
  <2> DEFINE s == First(d, n)
             u == <<d[n + 1]>>
  <2>1. IsSeq(o) /\ IsSeq(s) /\ IsSeq(u)
    BY <1>2, <1>4
  <2> HIDE DEF s, u
  <2>2. (o \o s) \o u = o \o (s \o u)
    BY <2>1, JoinAssoc
  <2> QED BY <2>2 DEF s, u
<1>6. (o \o First(d, n)) \o <<d[n + 1]>> = Append(o \o First(d, n), d[n + 1])
  BY <1>3, JoinOne
<1> QED BY <1>1, <1>2, <1>4, <1>5, <1>6

(* Additions append their entries in order and change nothing that was     *)
(* there.                                                                  *)
LEMMA AddAll ==
  ASSUME NEW src, WellFormed(src), NEW o, OkOps(src, o), NEW d, OkOps(src, d),
         \A j \in 1 .. Len(d) : d[j].kind = "ADD_ENTRY"
  PROVE  LET a == Run(src, o)
             b == Run(src, o \o d)
         IN  /\ Len(a) \in Nat /\ Len(b) = Len(a) + Len(d)
             /\ \A i \in 1 .. Len(a) : b[i] = a[i]
             /\ \A j \in 1 .. Len(d) : b[Len(a) + j] = d[j].entry
<1> DEFINE a == Run(src, o)
           b(n) == Run(src, o \o First(d, n))
           Good(n) == /\ Len(b(n)) = Len(a) + n
                      /\ \A i \in 1 .. Len(a) : b(n)[i] = a[i]
                      /\ \A j \in 1 .. n : b(n)[Len(a) + j] = d[j].entry
           T == {n \in 0 .. Len(d) : Good(n)}
<1>0. Len(d) \in Nat /\ WellFormed(a) /\ Len(a) \in Nat /\ IsSeq(o)
  <2>1. WellFormed(Run(src, o)) /\ Len(d) \in Nat /\ IsSeq(o)
    BY RunShape, SeqFacts DEF OkOps
  <2> QED BY <2>1, StoreFacts
<1>1. 0 \in T
  <2>1. First(d, 0) = <<>> /\ 0 \in 0 .. Len(d)
    BY <1>0, OkFirst
  <2>2. o \o <<>> = o
    BY <1>0, JoinFacts
  <2>3. b(0) = a
    BY <2>1, <2>2
  <2> HIDE DEF a, b
  <2> QED BY <1>0, <2>1, <2>3
<1>2. ASSUME NEW n \in 0 .. Len(d), n \in T, n < Len(d) PROVE n + 1 \in T
  <2>1. /\ OkOps(src, o \o First(d, n)) /\ OkOp(d[n + 1], Len(src))
        /\ o \o First(d, n + 1) = Append(o \o First(d, n), d[n + 1])
    BY <1>2, JoinNext
  <2>2. b(n + 1) = Applied(b(n), d[n + 1])
    <3>1. Run(src, Append(o \o First(d, n), d[n + 1])) = Applied(Run(src, o \o First(d, n)), d[n + 1])
      BY <2>1, RunStep
    <3> QED BY <2>1, <3>1
  <2>3. WellFormed(b(n)) /\ Len(src) \in 0 .. Len(b(n))
    <3>1. WellFormed(Run(src, o \o First(d, n))) /\ Len(src) <= Len(Run(src, o \o First(d, n)))
      BY <2>1, RunShape
    <3>2. Len(src) \in Nat /\ Len(Run(src, o \o First(d, n))) \in Nat
      BY <3>1, StoreFacts
    <3> QED BY <3>1, <3>2
  <2>4. Good(n) /\ n + 1 \in 1 .. Len(d) /\ d[n + 1].kind = "ADD_ENTRY"
    BY <1>0, <1>2
  <2> HIDE DEF a, b
  <2>5. /\ Len(b(n + 1)) = Len(b(n)) + 1
        /\ b(n + 1)[Len(b(n)) + 1] = d[n + 1].entry
        /\ \A i \in 1 .. Len(b(n)) : b(n + 1)[i] = b(n)[i]
    <3> DEFINE q == b(n)
               e == d[n + 1]
    <3>1. b(n + 1) = Applied(q, e) /\ OkOp(e, Len(src)) /\ WellFormed(q)
          /\ Len(src) \in 0 .. Len(q) /\ e.kind = "ADD_ENTRY"
      BY <2>1, <2>2, <2>3, <2>4
    <3> HIDE DEF q, e
    <3>2. /\ Len(Applied(q, e)) = Len(q) + 1 /\ Applied(q, e)[Len(q) + 1] = e.entry
          /\ \A i \in 1 .. Len(q) : Applied(q, e)[i] = q[i]
      BY <3>1, AppliedFacts
    <3> QED BY <3>1, <3>2 DEF q, e
  <2>6. \A i \in 1 .. Len(a) : i \in 1 .. Len(b(n))
    BY <1>0, <2>4
  <2>7. \A j \in 1 .. n : Len(a) + j \in 1 .. Len(b(n))
    BY <1>0, <2>4
  <2>8. Len(b(n + 1)) = Len(a) + (n + 1)
    BY <1>0, <2>4, <2>5
  <2>9. \A j \in 1 .. n + 1 : b(n + 1)[Len(a) + j] = d[j].entry
    <3>1. \A j \in 1 .. n + 1 : j \in 1 .. n \/ j = n + 1
      OBVIOUS
    <3>2. Len(a) + (n + 1) = Len(b(n)) + 1
      BY <1>0, <2>4
    <3> QED BY <2>4, <2>5, <2>7, <3>1, <3>2
  <2>10. Good(n + 1)
    BY <2>4, <2>5, <2>6, <2>8, <2>9
  <2>11. n + 1 \in 0 .. Len(d)
    BY <2>4
  <2> QED BY <2>10, <2>11
<1>3. \A n \in 0 .. Len(d) : n \in T
  <2> HIDE DEF T
  <2> QED BY <1>0, <1>1, <1>2, Climb
<1>4. Good(Len(d)) /\ Len(d) \in 0 .. Len(d)
  BY <1>0, <1>3
<1>5. First(d, Len(d)) = d
  BY <1>4, OkFirst
<1> QED BY <1>0, <1>4, <1>5

(* Changes to entries, at most one for each.                               *)
LEMMA EachOnce ==
  ASSUME NEW src, WellFormed(src), NEW o, OkOps(src, o), NEW c, AllSeqs(c), NEW ids,
         \A j \in 1 .. Len(c) : ids[j] \in 1 .. Len(src),
         \A j, k \in 1 .. Len(c) : ids[j] = ids[k] => j = k,
         \A j \in 1 .. Len(c) : c[j] = <<>> \/ (/\ c[j] = <<c[j][1]>>
                                             /\ c[j][1].kind \in Changing
                                             /\ c[j][1].target = ids[j] - 1)
  PROVE  LET p == o \o FlattenSeq(c)
             a == Run(src, o)
             b == Run(src, p)
         IN  /\ OkOps(src, p) /\ Len(a) \in Nat /\ Len(b) = Len(a)
             /\ \A i \in 1 .. Len(a) : (\A j \in 1 .. Len(c) : ids[j] # i) => b[i] = a[i]
             /\ \A j \in 1 .. Len(c) :
                   /\ c[j] = <<>> => b[ids[j]] = a[ids[j]]
                   /\ c[j] # <<>> => b[ids[j]] = Changed(a[ids[j]], c[j][1])
<1> DEFINE a == Run(src, o)
           p(n) == o \o FlattenSeq(First(c, n))
           b(n) == Run(src, p(n))
           Good(n) == /\ OkOps(src, p(n)) /\ Len(b(n)) = Len(a)
                      /\ \A i \in 1 .. Len(a) : (\A j \in 1 .. n : ids[j] # i) => b(n)[i] = a[i]
                      /\ \A j \in 1 .. n :
                            /\ c[j] = <<>> => b(n)[ids[j]] = a[ids[j]]
                            /\ c[j] # <<>> => b(n)[ids[j]] = Changed(a[ids[j]], c[j][1])
           T == {n \in 0 .. Len(c) : Good(n)}
<1>0. /\ Len(c) \in Nat /\ WellFormed(a) /\ Len(a) \in Nat /\ IsSeq(o) /\ Len(src) \in Nat
      /\ Len(src) <= Len(a)
  <2>1. WellFormed(Run(src, o)) /\ Len(c) \in Nat /\ IsSeq(o) /\ Len(src) <= Len(Run(src, o))
    BY RunShape, SeqFacts DEF OkOps, AllSeqs
  <2> QED BY <2>1, StoreFacts
<1>1. 0 \in T
  <2>1. FlattenSeq(First(c, 0)) = <<>> /\ 0 \in 0 .. Len(c)
    BY <1>0, FirstFacts
  <2>2. o \o <<>> = o
    BY <1>0, JoinFacts
  <2>3. b(0) = a /\ p(0) = o
    BY <2>1, <2>2
  <2> HIDE DEF a, b, p
  <2> QED BY <1>0, <2>1, <2>3
<1>2. ASSUME NEW n \in 0 .. Len(c), n \in T, n < Len(c) PROVE n + 1 \in T
  <2>1. Good(n) /\ n + 1 \in 1 .. Len(c) /\ n + 1 \in 0 .. Len(c)
    BY <1>0, <1>2
  <2>2. /\ AllSeqs(First(c, n)) /\ IsSeq(FlattenSeq(First(c, n))) /\ IsSeq(c[n + 1])
        /\ FlattenSeq(First(c, n + 1)) = FlattenSeq(First(c, n)) \o c[n + 1]
    BY <1>2, <2>1, FirstFacts, FlatSeq DEF AllSeqs
  <2>3. p(n + 1) = p(n) \o c[n + 1]
    <3>1. (o \o FlattenSeq(First(c, n))) \o c[n + 1] = o \o (FlattenSeq(First(c, n)) \o c[n + 1])
      <4> DEFINE s == FlattenSeq(First(c, n))
                 u == c[n + 1]
      <4>1. IsSeq(o) /\ IsSeq(s) /\ IsSeq(u)
        BY <1>0, <2>2
      <4> HIDE DEF s, u
      <4>2. (o \o s) \o u = o \o (s \o u)
        BY <4>1, JoinAssoc
      <4> QED BY <4>2 DEF s, u
    <3> QED BY <2>2, <3>1
  <2>4. IsSeq(p(n))
    BY <2>1 DEF OkOps
  <2>5. \A j \in 1 .. n + 1 : j \in 1 .. n \/ j = n + 1
    OBVIOUS
  <2>6. \A j \in 1 .. n : j \in 1 .. Len(c) /\ j # n + 1 /\ j \in 1 .. n + 1
    BY <2>1
  <2> DEFINE i == ids[n + 1]
  <2>7. /\ i \in 1 .. Len(src) /\ i \in 1 .. Len(a)
        /\ \A j \in 1 .. n : ids[j] # i
    BY <1>0, <2>1, <2>6
  <2>8. b(n)[i] = a[i]
    BY <2>1, <2>7
  <2>9. CASE c[n + 1] = <<>>
    <3>1. p(n + 1) = p(n)
      BY <2>3, <2>4, <2>9, JoinFacts
    <3>2. b(n + 1) = b(n)
      BY <3>1
    <3> HIDE DEF a, b, p
    <3>3. \A j \in 1 .. n + 1 :
              /\ c[j] = <<>> => b(n + 1)[ids[j]] = a[ids[j]]
              /\ c[j] # <<>> => b(n + 1)[ids[j]] = Changed(a[ids[j]], c[j][1])
      BY <2>1, <2>5, <2>8, <2>9, <3>2
    <3>4. \A k \in 1 .. Len(a) : (\A j \in 1 .. n + 1 : ids[j] # k) => b(n + 1)[k] = a[k]
      BY <2>1, <2>6, <3>2
    <3>5. Good(n + 1)
      BY <2>1, <3>1, <3>2, <3>3, <3>4
    <3> QED BY <2>1, <3>5
  <2>10. CASE c[n + 1] # <<>>
    <3> DEFINE op == c[n + 1][1]
    <3>1. c[n + 1] = <<op>> /\ op.kind \in Changing /\ op.target = i - 1
      BY <2>1, <2>10
    <3>2. OkOp(op, Len(src)) /\ op.target + 1 = i /\ op.kind # "ADD_ENTRY"
      <4> HIDE DEF op, i
      <4> QED BY <1>0, <2>7, <3>1 DEF OkOp, Changing
    <3>3. p(n + 1) = Append(p(n), op)
      <4>1. p(n) \o <<op>> = Append(p(n), op)
        BY <2>4, JoinOne
      <4> QED BY <2>3, <3>1, <4>1
    <3>4. b(n + 1) = Applied(b(n), op) /\ OkOps(src, p(n + 1))
      <4>1. Run(src, Append(p(n), op)) = Applied(Run(src, p(n)), op) /\ OkOps(src, Append(p(n), op))
        BY <2>1, <3>2, RunStep
      <4> QED BY <3>3, <4>1
    <3>5. WellFormed(b(n)) /\ Len(src) \in 0 .. Len(b(n))
      <4>1. WellFormed(Run(src, p(n)))
        BY <2>1, RunShape
      <4> QED BY <1>0, <2>1, <4>1
    <3> HIDE DEF a, b, p, op, i
    <3>6. /\ Len(b(n + 1)) = Len(b(n))
          /\ \A k \in 1 .. Len(b(n)) : k # i => b(n + 1)[k] = b(n)[k]
          /\ b(n + 1)[i] = Changed(b(n)[i], op)
      BY <3>2, <3>4, <3>5, AppliedFacts
    <3>7. \A j \in 1 .. n : ids[j] \in 1 .. Len(b(n)) /\ ids[j] # i
      BY <1>0, <2>1, <2>6, <2>7
    <3>8. \A j \in 1 .. n + 1 :
              /\ c[j] = <<>> => b(n + 1)[ids[j]] = a[ids[j]]
              /\ c[j] # <<>> => b(n + 1)[ids[j]] = Changed(a[ids[j]], c[j][1])
      <4> SUFFICES ASSUME NEW j \in 1 .. n + 1
                   PROVE  /\ c[j] = <<>> => b(n + 1)[ids[j]] = a[ids[j]]
                          /\ c[j] # <<>> => b(n + 1)[ids[j]] = Changed(a[ids[j]], c[j][1])
        OBVIOUS
      <4>1. CASE j \in 1 .. n
        BY <2>1, <3>6, <3>7, <4>1
      <4>2. CASE j = n + 1
        BY <2>8, <2>10, <3>6, <4>2 DEF i, op
      <4> QED BY <2>5, <4>1, <4>2
    <3>9. \A k \in 1 .. Len(a) : (\A j \in 1 .. n + 1 : ids[j] # k) => b(n + 1)[k] = a[k]
      <4> SUFFICES ASSUME NEW k \in 1 .. Len(a), \A j \in 1 .. n + 1 : ids[j] # k
                   PROVE  b(n + 1)[k] = a[k]
        OBVIOUS
      <4>1. k # i /\ \A j \in 1 .. n : ids[j] # k
        BY <2>6 DEF i
      <4>2. b(n)[k] = a[k] /\ k \in 1 .. Len(b(n))
        BY <2>1, <4>1
      <4> QED BY <3>6, <4>1, <4>2
    <3>10. Good(n + 1)
      BY <2>1, <3>4, <3>6, <3>8, <3>9
    <3> QED BY <2>1, <3>10
  <2> QED BY <2>9, <2>10
<1>3. \A n \in 0 .. Len(c) : n \in T
  <2> HIDE DEF T
  <2> QED BY <1>0, <1>1, <1>2, Climb
<1>4. Good(Len(c)) /\ Len(c) \in 0 .. Len(c)
  BY <1>0, <1>3
<1>5. First(c, Len(c)) = c
  BY <1>4, FirstFacts
<1> QED BY <1>0, <1>4, <1>5
-----------------------------------------------------------------------------
(* What is live under a key, in order.                                     *)
LiveOf(st, key) == {i \in DOMAIN st : ~st[i].deleted /\ st[i].key.name = key}

(* LiveIn lists the live entries of a key by their places.                 *)
LEMMA LiveInLists ==
  ASSUME NEW st, WellFormed(st), NEW key
  PROVE  /\ Lists(LiveIn(st, key), LiveOf(st, key), AtOrder(st, LiveOf(st, key)))
         /\ Orders(AtOrder(st, LiveOf(st, key)), LiveOf(st, key))
         /\ Len(LiveIn(st, key)) = Cardinality(LiveOf(st, key))
         /\ IsFiniteSet(LiveOf(st, key)) /\ LiveOf(st, key) \subseteq 1 .. Len(st)
<1> DEFINE S == LiveOf(st, key)
<1>1. S \subseteq DOMAIN st /\ IsFiniteSet(S) /\ PlacesIn(st, S) /\ DOMAIN st = 1 .. Len(st)
  BY StoreFacts DEF LiveOf
<1>2. LiveIn(st, key) = Ordered(st, S)
  BY DEF LiveIn, LiveOf
<1> HIDE DEF S
<1>3. /\ Lists(Ordered(st, S), S, AtOrder(st, S)) /\ Orders(AtOrder(st, S), S)
      /\ Len(Ordered(st, S)) = Cardinality(S)
  BY <1>1, OrderedLists, AtOrderOrders
<1> QED BY <1>1, <1>2, <1>3 DEF S

(* It has each of them once.                                               *)
LEMMA LiveInFacts ==
  ASSUME NEW st, WellFormed(st), NEW key
  PROVE  LET s == LiveIn(st, key)
         IN  /\ IsSeq(s) /\ Len(s) \in Nat /\ DOMAIN s = 1 .. Len(s)
             /\ \A j \in 1 .. Len(s) : s[j] \in LiveOf(st, key) /\ s[j] \in 1 .. Len(st)
             /\ \A j, k \in 1 .. Len(s) : s[j] = s[k] => j = k
             /\ \A i \in LiveOf(st, key) : \E j \in 1 .. Len(s) : s[j] = i
<1>1. Lists(LiveIn(st, key), LiveOf(st, key), AtOrder(st, LiveOf(st, key)))
      /\ Orders(AtOrder(st, LiveOf(st, key)), LiveOf(st, key)) /\ LiveOf(st, key) \subseteq 1 .. Len(st)
  BY LiveInLists
<1> DEFINE s == LiveIn(st, key)
           S == LiveOf(st, key)
           R == AtOrder(st, S)
<1> HIDE DEF s, S, R
<1>2. Lists(s, S, R) /\ Orders(R, S) /\ S \subseteq 1 .. Len(st)
  BY <1>1 DEF s, S, R
<1>3. /\ s \in Seq(S) /\ Len(s) \in Nat /\ DOMAIN s = 1 .. Len(s)
      /\ \A a \in 1 .. Len(s) : s[a] \in S
      /\ \A a, b \in 1 .. Len(s) : s[a] = s[b] => a = b
      /\ \A i \in S : \E a \in 1 .. Len(s) : s[a] = i
  BY <1>2, ListFacts
<1>4. IsSeq(s)
  BY <1>3 DEF IsSeq
<1> QED BY <1>2, <1>3, <1>4 DEF s, S

(* It is the only sequence that does so in order.                          *)
LEMMA LiveInIs ==
  ASSUME NEW st, WellFormed(st), NEW key, NEW s, IsSeq(s),
         \A j \in 1 .. Len(s) : s[j] \in LiveOf(st, key),
         \A i \in LiveOf(st, key) : \E j \in 1 .. Len(s) : s[j] = i,
         \A j, k \in 1 .. Len(s) : j < k => Placed(st, s[j], s[k])
  PROVE  LiveIn(st, key) = s
<1> DEFINE S == LiveOf(st, key)
           R == AtOrder(st, S)
<1>1. Lists(LiveIn(st, key), S, R) /\ Orders(R, S)
  BY LiveInLists
<1>2. Lists(s, S, R)
  <2> HIDE DEF S
  <2>1. s \in Seq(S)
    <3>1. Len(s) \in Nat /\ s = [j \in 1 .. Len(s) |-> s[j]] /\ \A j \in 1 .. Len(s) : s[j] \in S
      BY SeqFacts DEF S
    <3>2. s \in [1 .. Len(s) -> S]
      BY <3>1
    <3> QED BY <3>1, <3>2
  <2>2. \A j, k \in 1 .. Len(s) : j < k => <<s[j], s[k]>> \in R
    BY DEF AtOrder, S
  <2>3. \A i \in S : \E j \in 1 .. Len(s) : s[j] = i
    BY DEF S
  <2> HIDE DEF R
  <2> QED BY <2>1, <2>2, <2>3 DEF Lists
<1> HIDE DEF S, R
<1> QED BY <1>1, <1>2, ListIsUnique

(* b is a, but for entries under some names, changed or added.             *)
Keeps(a, b, names) ==
    /\ WellFormed(a) /\ WellFormed(b) /\ Len(a) <= Len(b)
    /\ \A i \in 1 .. Len(a) : /\ b[i].key = a[i].key
                              /\ a[i].key.name \notin names => b[i] = a[i]
    /\ \A i \in 1 .. Len(b) : i > Len(a) => b[i].key.name \in names

(* A store keeps itself.                                                   *)
LEMMA KeepsItself ==
  ASSUME NEW a, WellFormed(a)
  PROVE  Keeps(a, a, {})
  BY StoreFacts DEF Keeps

(* What is kept twice is kept.                                             *)
LEMMA KeepsOn ==
  ASSUME NEW a, NEW b, NEW c, NEW K, NEW L, NEW M, Keeps(a, b, K), Keeps(b, c, L), K \cup L \subseteq M
  PROVE  Keeps(a, c, M)
<1>1. Len(a) \in Nat /\ Len(b) \in Nat /\ Len(c) \in Nat /\ Len(a) <= Len(b) /\ Len(b) <= Len(c)
  BY StoreFacts DEF Keeps
<1>2. ASSUME NEW i \in 1 .. Len(a)
      PROVE  c[i].key = a[i].key /\ (a[i].key.name \notin M => c[i] = a[i])
  <2>1. i \in 1 .. Len(b)
    BY <1>1
  <2> QED BY <2>1 DEF Keeps
<1>3. ASSUME NEW i \in 1 .. Len(c), i > Len(a) PROVE c[i].key.name \in M
  <2>1. CASE i > Len(b)
    BY <2>1 DEF Keeps
  <2>2. CASE ~(i > Len(b))
    <3>1. i \in 1 .. Len(b)
      BY <1>1, <2>2
    <3> QED BY <1>3, <3>1 DEF Keeps
  <2> QED BY <2>1, <2>2
<1> QED BY <1>1, <1>2, <1>3 DEF Keeps

(* What is live under another key is as it was.                            *)
LEMMA KeepsOthers ==
  ASSUME NEW a, NEW b, NEW K, Keeps(a, b, K), NEW key, key \notin K
  PROVE  /\ LiveOf(b, key) = LiveOf(a, key) /\ LiveIn(b, key) = LiveIn(a, key)
         /\ \A i \in LiveOf(a, key) : i \in 1 .. Len(a) /\ b[i] = a[i]
         /\ Stored(b, key) = Stored(a, key) /\ Values(b, key) = Values(a, key)
<1>0. /\ WellFormed(a) /\ WellFormed(b) /\ Len(a) \in Nat /\ Len(b) \in Nat /\ Len(a) <= Len(b)
      /\ DOMAIN a = 1 .. Len(a) /\ DOMAIN b = 1 .. Len(b)
  BY StoreFacts DEF Keeps
<1>1. \A i \in 1 .. Len(b) : b[i].key.name = key => i \in 1 .. Len(a) /\ b[i] = a[i]
  <2> SUFFICES ASSUME NEW i \in 1 .. Len(b), b[i].key.name = key PROVE i \in 1 .. Len(a) /\ b[i] = a[i]
    OBVIOUS
  <2>1. ~(i > Len(a))
    BY DEF Keeps
  <2>2. i \in 1 .. Len(a)
    BY <1>0, <2>1
  <2> QED BY <2>2 DEF Keeps
<1>2. \A i \in 1 .. Len(a) : i \in 1 .. Len(b) /\ (a[i].key.name = key => b[i] = a[i])
  BY <1>0 DEF Keeps
<1>3. LiveOf(b, key) = LiveOf(a, key)
  BY <1>0, <1>1, <1>2 DEF LiveOf
<1>4. \A i \in LiveOf(a, key) : i \in 1 .. Len(a) /\ b[i] = a[i]
  BY <1>0, <1>2 DEF LiveOf
<1> DEFINE s == LiveIn(a, key)
           S == LiveOf(a, key)
<1>5. /\ Lists(s, S, AtOrder(a, S)) /\ IsSeq(s) /\ DOMAIN s = 1 .. Len(s)
      /\ \A j \in 1 .. Len(s) : s[j] \in S
      /\ \A i \in S : \E j \in 1 .. Len(s) : s[j] = i
  BY <1>0, LiveInLists, LiveInFacts
<1> HIDE DEF s, S
<1>6. \A j, k \in 1 .. Len(s) : j < k => Placed(b, s[j], s[k])
  <2> SUFFICES ASSUME NEW j \in 1 .. Len(s), NEW k \in 1 .. Len(s), j < k PROVE Placed(b, s[j], s[k])
    OBVIOUS
  <2>1. Placed(a, s[j], s[k])
    BY <1>5 DEF Lists, AtOrder
  <2>2. b[s[j]] = a[s[j]] /\ b[s[k]] = a[s[k]]
    BY <1>4, <1>5 DEF S
  <2> QED BY <2>1, <2>2 DEF Placed
<1>7. LiveIn(b, key) = s
  <2>1. \A j \in 1 .. Len(s) : s[j] \in LiveOf(b, key)
    BY <1>3, <1>5 DEF S
  <2>2. \A i \in LiveOf(b, key) : \E j \in 1 .. Len(s) : s[j] = i
    BY <1>3, <1>5 DEF S
  <2> QED BY <1>0, <1>5, <1>6, <2>1, <2>2, LiveInIs
<1>8. Stored(b, key) = Stored(a, key)
  <2>1. \A j \in 1 .. Len(s) : b[s[j]].value = a[s[j]].value
    BY <1>4, <1>5 DEF S
  <2>2. LiveIn(a, key) = s
    BY DEF s
  <2> QED BY <1>5, <1>7, <2>1, <2>2 DEF Stored
<1> QED BY <1>3, <1>4, <1>7, <1>8 DEF s, Values

(* The values under a key, by their places in the list.                    *)
LEMMA StoredIs ==
  ASSUME NEW st, WellFormed(st), NEW key, NEW vs, IsSeq(vs), Len(LiveIn(st, key)) = Len(vs)
  PROVE  /\ (\A j \in 1 .. Len(vs) : st[LiveIn(st, key)[j]].value = vs[j]) <=> Stored(st, key) = vs
         /\ (\A j \in 1 .. Len(vs) : Unpadded(st[LiveIn(st, key)[j]].value) = Unpadded(vs[j]))
               <=> Values(st, key) = [j \in DOMAIN vs |-> Unpadded(vs[j])]
<1> DEFINE s == LiveIn(st, key)
<1>1. DOMAIN s = 1 .. Len(vs) /\ DOMAIN vs = 1 .. Len(vs) /\ vs = [j \in 1 .. Len(vs) |-> vs[j]]
  BY LiveInFacts, SeqFacts
<1>2. Stored(st, key) = [j \in 1 .. Len(vs) |-> st[s[j]].value]
  BY <1>1 DEF Stored
<1>3. Values(st, key) = [j \in 1 .. Len(vs) |-> Unpadded(st[s[j]].value)]
  <2>1. DOMAIN Stored(st, key) = 1 .. Len(vs) /\ \A j \in 1 .. Len(vs) : Stored(st, key)[j] = st[s[j]].value
    BY <1>2
  <2> QED BY <2>1 DEF Values
<1> HIDE DEF s
<1> QED BY <1>1, <1>2, <1>3 DEF s
-----------------------------------------------------------------------------
(* The operations of one field.                                            *)
OpAt(f, ids, lifecycle, j) ==
    IF j > Len(f.values) THEN <<[kind |-> "TOMBSTONE", target |-> ids[j] - 1]>>
    ELSE IF ~Same(ids[j], f.values[j], lifecycle)
    THEN <<[kind |-> "SET_VALUE", target |-> ids[j] - 1, value |-> f.values[j]]>>
    ELSE IF lifecycle /\ ~source[ids[j]].dirty
    THEN <<[kind |-> "MARK_DIRTY", target |-> ids[j] - 1]>>
    ELSE <<>>
OpAdd(f, places, v, j, gone) ==
    [kind |-> "ADD_ENTRY",
     entry |-> [key |-> [name |-> f.key, at |-> places[j], block |-> source[f.from[j]].key.block],
                value |-> v, dirty |-> TRUE, deleted |-> gone]]
OpIntent(f, ids, lifecycle, places) ==
    IF ~lifecycle \/ ids # <<>> \/ f.values # <<>> \/ HasDeleteIntent(f.key)
    THEN <<>>
    ELSE IF CleanIntents(f.key) = {} THEN <<OpAdd(f, places, <<>>, 1, TRUE)>>
    ELSE <<[kind |-> "TOMBSTONE",
            target |-> (CHOOSE i \in CleanIntents(f.key) :
                            \A j \in CleanIntents(f.key) : i <= j) - 1]>>

KeptOf(f, ids) == Lesser(Len(ids), Len(f.values))
Changes(f, ids, lifecycle) == [j \in DOMAIN ids |-> OpAt(f, ids, lifecycle, j)]
Additions(f, ids, places) ==
    [j \in 1 .. (Len(f.values) - KeptOf(f, ids)) |->
        OpAdd(f, places, f.values[KeptOf(f, ids) + j], KeptOf(f, ids) + j, FALSE)]

(* The operations of a field are its changes, its additions and its        *)
(* intent.                                                                 *)
LEMMA OperationsAre ==
  \A f, ids, lifecycle, places :
     Operations(f, ids, lifecycle, places)
       = FlattenSeq(Changes(f, ids, lifecycle)) \o Additions(f, ids, places)
         \o OpIntent(f, ids, lifecycle, places)
  BY DEF Operations, Changes, Additions, OpIntent, OpAt, OpAdd, KeptOf

(* The place of value j: that of the entry that keeps it, or its own.      *)
PlaceOf(ids, places, j) == IF j <= Len(ids) THEN source[ids[j]].key.at ELSE places[j]

(* The entries are those of the key, and the values fit between them.      *)
Lies(f, ids, places) ==
    /\ IsSeq(f.values) /\ IsSeq(ids)
    /\ \A j \in 1 .. Len(ids) : ids[j] \in LiveOf(source, f.key)
    /\ \A i \in LiveOf(source, f.key) : \E j \in 1 .. Len(ids) : ids[j] = i
    /\ \A j, k \in 1 .. Len(ids) : ids[j] = ids[k] => j = k
    /\ \A j, k \in 1 .. Len(f.values) : j < k =>
          /\ PlaceOf(ids, places, j) <= PlaceOf(ids, places, k)
          /\ k <= Len(ids) => Placed(source, ids[j], ids[k])

(* What is added has a place and a source.                                 *)
Fits(f, ids, lifecycle, places) ==
    /\ Lies(f, ids, places)
    /\ \A j \in 1 .. Len(f.values) : j > Len(ids) => places[j] \in Nat /\ f.from[j] \in Id
    /\ lifecycle /\ ids = <<>> /\ f.values = <<>> => places[1] \in Nat /\ f.from[1] \in Id

(* The values stand under the key, in order and each in its place; where   *)
(* the edits are kept on record, there is one.                             *)
Holds(st, f, lifecycle, ids, places) ==
    /\ Len(LiveIn(st, f.key)) = Len(f.values)
    /\ \A j \in 1 .. Len(f.values) :
          /\ st[LiveIn(st, f.key)[j]].key.at = PlaceOf(ids, places, j)
          /\ IF lifecycle THEN Unpadded(st[LiveIn(st, f.key)[j]].value) = Unpadded(f.values[j])
             ELSE st[LiveIn(st, f.key)[j]].value = f.values[j]
    /\ lifecycle => \E i \in DOMAIN st : /\ st[i].key.name = f.key /\ st[i].dirty
                                         /\ st[i].deleted <=> f.values = <<>>

(* Operations that make a field hold, whatever was done under other keys.  *)
Does(p, f, lifecycle, ids, places) ==
    /\ IsSeq(p)
    /\ \A o, K : LET a == Run(source, o)
                     b == Run(source, o \o p)
                 IN  OkOps(source, o) /\ Keeps(source, a, K) /\ f.key \notin K
                     => /\ OkOps(source, o \o p) /\ Keeps(a, b, {f.key})
                        /\ Holds(b, f, lifecycle, ids, places)

(* Entries are kept for as many values as have one.                        *)
LEMMA KeptFacts ==
  ASSUME NEW f, NEW ids, Len(ids) \in Nat, Len(f.values) \in Nat
  PROVE  /\ KeptOf(f, ids) \in Nat /\ KeptOf(f, ids) <= Len(ids) /\ KeptOf(f, ids) <= Len(f.values)
         /\ KeptOf(f, ids) = Len(ids) \/ KeptOf(f, ids) = Len(f.values)
  BY DEF KeptOf, Lesser

(* One change at most for each entry, and of that entry.                   *)
LEMMA ChangesAre ==
  ASSUME NEW f, NEW ids, NEW lifecycle \in BOOLEAN, IsSeq(ids), IsSeq(f.values),
         \A j \in 1 .. Len(ids) : ids[j] \in 1 .. Len(source)
  PROVE  LET c == Changes(f, ids, lifecycle)
         IN  /\ AllSeqs(c) /\ Len(c) = Len(ids)
             /\ \A j \in 1 .. Len(ids) :
                   /\ c[j] = OpAt(f, ids, lifecycle, j)
                   /\ c[j] = <<>> \/ (/\ c[j] = <<c[j][1]>> /\ c[j][1].kind \in Changing
                                      /\ c[j][1].target = ids[j] - 1)
<1> DEFINE c == Changes(f, ids, lifecycle)
<1>1. Len(ids) \in Nat /\ DOMAIN ids = 1 .. Len(ids)
  BY SeqFacts
<1>2. \A j \in 1 .. Len(ids) : c[j] = OpAt(f, ids, lifecycle, j)
  BY <1>1 DEF Changes
<1>3. IsSeq(c) /\ Len(c) = Len(ids)
  <2>1. DOMAIN c = 1 .. Len(ids) /\ c = [j \in 1 .. Len(ids) |-> c[j]]
    BY <1>1 DEF Changes
  <2> HIDE DEF c
  <2> QED BY <1>1, <2>1, SeqMade
<1>4. \A j \in 1 .. Len(ids) :
         c[j] = <<>> \/ (c[j] = <<c[j][1]>> /\ c[j][1].kind \in Changing /\ c[j][1].target = ids[j] - 1)
  <2> SUFFICES ASSUME NEW j \in 1 .. Len(ids), c[j] # <<>>
               PROVE  c[j] = <<c[j][1]>> /\ c[j][1].kind \in Changing /\ c[j][1].target = ids[j] - 1
    OBVIOUS
  <2>1. c[j] = OpAt(f, ids, lifecycle, j)
    BY <1>2
  <2> HIDE DEF c
  <2>2. CASE j > Len(f.values)
    <3>1. c[j] = <<[kind |-> "TOMBSTONE", target |-> ids[j] - 1]>>
      BY <2>1, <2>2 DEF OpAt
    <3> QED BY <3>1 DEF Changing
  <2>3. CASE ~(j > Len(f.values)) /\ ~Same(ids[j], f.values[j], lifecycle)
    <3>1. c[j] = <<[kind |-> "SET_VALUE", target |-> ids[j] - 1, value |-> f.values[j]]>>
      BY <2>1, <2>3 DEF OpAt
    <3> QED BY <3>1 DEF Changing
  <2>4. CASE ~(j > Len(f.values)) /\ Same(ids[j], f.values[j], lifecycle)
    <3>1. c[j] = <<[kind |-> "MARK_DIRTY", target |-> ids[j] - 1]>>
      BY <2>1, <2>4 DEF OpAt
    <3> QED BY <3>1 DEF Changing
  <2> QED BY <2>2, <2>3, <2>4
<1>5. \A j \in 1 .. Len(ids) : IsSeq(c[j])
  <2> SUFFICES ASSUME NEW j \in 1 .. Len(ids) PROVE IsSeq(c[j])
    OBVIOUS
  <2> DEFINE x == c[j][1]
  <2>1. c[j] = <<>> \/ c[j] = <<x>>
    BY <1>4
  <2> HIDE DEF c, x
  <2>2. <<>> \in Seq({}) /\ <<x>> \in Seq({x})
    OBVIOUS
  <2> QED BY <2>1, <2>2 DEF IsSeq
<1> QED BY <1>2, <1>3, <1>4, <1>5 DEF AllSeqs

(* One addition for each value that no entry is kept for.                  *)
LEMMA AdditionsAre ==
  ASSUME WellFormed(source), NEW f, NEW ids, NEW places, IsSeq(ids), IsSeq(f.values),
         \A j \in 1 .. Len(f.values) : j > Len(ids) => places[j] \in Nat /\ f.from[j] \in Id
  PROVE  LET d == Additions(f, ids, places)
         IN  /\ OkOps(source, d) /\ Len(d) = Len(f.values) - KeptOf(f, ids)
             /\ \A j \in 1 .. Len(d) :
                   /\ d[j] = OpAdd(f, places, f.values[KeptOf(f, ids) + j], KeptOf(f, ids) + j, FALSE)
                   /\ KeptOf(f, ids) + j \in 1 .. Len(f.values) /\ KeptOf(f, ids) + j > Len(ids)
<1> DEFINE d == Additions(f, ids, places)
           k == KeptOf(f, ids)
           N == Len(f.values) - k
<1>1. /\ Len(ids) \in Nat /\ Len(f.values) \in Nat /\ k \in Nat /\ k <= Len(ids) /\ k <= Len(f.values)
      /\ k = Len(ids) \/ k = Len(f.values)
  BY SeqFacts, KeptFacts
<1>2. N \in Nat
  BY <1>1
<1>3. d = [j \in 1 .. N |-> OpAdd(f, places, f.values[k + j], k + j, FALSE)]
  BY DEF Additions
<1> HIDE DEF d, k
<1>4. IsSeq(d) /\ Len(d) = N
  <2>1. DOMAIN d = 1 .. N /\ d = [j \in 1 .. N |-> d[j]]
    BY <1>3
  <2> QED BY <1>2, <2>1, SeqMade
<1>5. \A j \in 1 .. N : k + j \in 1 .. Len(f.values) /\ k + j > Len(ids)
  BY <1>1
<1>6. \A j \in 1 .. N : OkOp(d[j], Len(source))
  <2> SUFFICES ASSUME NEW j \in 1 .. N PROVE OkOp(d[j], Len(source))
    OBVIOUS
  <2>1. d[j] = OpAdd(f, places, f.values[k + j], k + j, FALSE)
    BY <1>3
  <2>2. places[k + j] \in Nat /\ f.from[k + j] \in Id
    BY <1>5
  <2>3. WellMade(source[f.from[k + j]])
    <3>1. DOMAIN source = 1 .. Len(source) /\ \A i \in 1 .. Len(source) : WellMade(source[i])
      BY StoreFacts
    <3> QED BY <2>2, <3>1 DEF Id
  <2>4. d[j].kind = "ADD_ENTRY" /\ WellMade(d[j].entry)
    <3> DEFINE b == source[f.from[k + j]].key.block
               v == f.values[k + j]
               at == places[k + j]
               key == f.key
    <3>1. b \in Nat /\ at \in Nat
      BY <2>2, <2>3 DEF WellMade
    <3>2. d[j] = [kind |-> "ADD_ENTRY",
                  entry |-> [key |-> [name |-> key, at |-> at, block |-> b],
                             value |-> v, dirty |-> TRUE, deleted |-> FALSE]]
      BY <2>1 DEF OpAdd
    <3> DEFINE e == [key |-> [name |-> key, at |-> at, block |-> b],
                     value |-> v, dirty |-> TRUE, deleted |-> FALSE]
    <3>3. d[j].kind = "ADD_ENTRY" /\ d[j].entry = e
      BY <3>2
    <3> HIDE DEF b, v, at, key
    <3>4. /\ e.key = [name |-> key, at |-> at, block |-> b] /\ e.value = v /\ e.dirty = TRUE /\ e.deleted = FALSE
          /\ e.key.at = at /\ e.key.block = b
      OBVIOUS
    <3>5. e = [key |-> e.key, value |-> e.value, dirty |-> e.dirty, deleted |-> e.deleted]
      BY <3>4
    <3> HIDE DEF e
    <3>6. WellMade(e)
      BY <3>1, <3>4, <3>5 DEF WellMade
    <3> QED BY <3>3, <3>6
  <2> QED BY <2>4 DEF OkOp
<1>7. \A j \in 1 .. N : d[j] = OpAdd(f, places, f.values[k + j], k + j, FALSE)
  BY <1>3
<1> QED BY <1>4, <1>5, <1>6, <1>7 DEF OkOps, d, k

(* An entry after the change that is made to it, and what it is to be.     *)
ChangedBy(e, x) == IF x = <<>> THEN e ELSE Changed(e, x[1])
BecomesValue(f, lifecycle, j, y) ==
    /\ j > Len(f.values) => y.deleted /\ y.dirty
    /\ ~(j > Len(f.values)) =>
          /\ ~y.deleted /\ (lifecycle => y.dirty)
          /\ IF lifecycle THEN Unpadded(y.value) = Unpadded(f.values[j]) ELSE y.value = f.values[j]
IsAddition(f, lifecycle, places, j, op) ==
    /\ op.kind = "ADD_ENTRY" /\ op.entry.key.name = f.key /\ op.entry.key.at = places[j]
    /\ op.entry.value = f.values[j] /\ op.entry.dirty = TRUE /\ op.entry.deleted = FALSE

(* What becomes of each entry of the key.                                  *)
LEMMA OneChange ==
  ASSUME NEW f, NEW ids, NEW lifecycle \in BOOLEAN, NEW j, NEW e, WellMade(e), ~e.deleted,
         source[ids[j]] = e
  PROVE  BecomesValue(f, lifecycle, j, ChangedBy(e, OpAt(f, ids, lifecycle, j)))
<1> DEFINE x == OpAt(f, ids, lifecycle, j)
           y == ChangedBy(e, x)
<1>1. CASE j > Len(f.values)
  <2>1. x = <<[kind |-> "TOMBSTONE", target |-> ids[j] - 1]>>
    BY <1>1 DEF OpAt
  <2>2. x # <<>> /\ x[1].kind = "TOMBSTONE"
    BY <2>1
  <2> HIDE DEF x
  <2>3. y.key = e.key /\ y.deleted /\ y.dirty
    BY <2>2 DEF ChangedBy, Changed
  <2> QED BY <1>1, <2>3 DEF x, BecomesValue
<1>2. CASE ~(j > Len(f.values)) /\ ~Same(ids[j], f.values[j], lifecycle)
  <2>1. x = <<[kind |-> "SET_VALUE", target |-> ids[j] - 1, value |-> f.values[j]]>>
    BY <1>2 DEF OpAt
  <2>2. x # <<>> /\ x[1].kind = "SET_VALUE" /\ x[1].value = f.values[j]
    BY <2>1
  <2> HIDE DEF x
  <2>3. y.key = e.key /\ ~y.deleted /\ y.dirty /\ y.value = f.values[j]
    BY <2>2 DEF ChangedBy, Changed
  <2> QED BY <1>2, <2>3 DEF x, BecomesValue
<1>3. CASE ~(j > Len(f.values)) /\ Same(ids[j], f.values[j], lifecycle)
  <2>1. x = IF lifecycle /\ ~e.dirty THEN <<[kind |-> "MARK_DIRTY", target |-> ids[j] - 1]>> ELSE <<>>
    BY <1>3 DEF OpAt
  <2>2. IF lifecycle THEN Unpadded(e.value) = Unpadded(f.values[j]) ELSE e.value = f.values[j]
    BY <1>3 DEF Same
  <2>3. \/ x = <<>> /\ (lifecycle => e.dirty)
        \/ x # <<>> /\ x[1].kind = "MARK_DIRTY"
    BY <2>1
  <2> HIDE DEF x
  <2>4. y.key = e.key /\ ~y.deleted /\ y.value = e.value /\ (lifecycle => y.dirty)
    BY <2>3 DEF ChangedBy, Changed
  <2> QED BY <1>3, <2>2, <2>4 DEF x, BecomesValue
<1> QED BY <1>1, <1>2, <1>3

(* Changes and additions together make the field hold and leave all other  *)
(* keys alone.                                                             *)
LEMMA MainDoes ==
  ASSUME WellFormed(source), NEW f, NEW ids, NEW lifecycle \in BOOLEAN, NEW places,
         Lies(f, ids, places), ~(lifecycle /\ ids = <<>> /\ f.values = <<>>),
         NEW c, AllSeqs(c), Len(c) = Len(ids),
         \A j \in 1 .. Len(ids) :
            /\ c[j] = <<>> \/ (/\ c[j] = <<c[j][1]>> /\ c[j][1].kind \in Changing
                               /\ c[j][1].target = ids[j] - 1)
            /\ BecomesValue(f, lifecycle, j, ChangedBy(source[ids[j]], c[j])),
         NEW d, OkOps(source, d), Len(d) = Len(f.values) - KeptOf(f, ids),
         \A j \in 1 .. Len(d) : IsAddition(f, lifecycle, places, KeptOf(f, ids) + j, d[j]),
         NEW o, OkOps(source, o), NEW K, Keeps(source, Run(source, o), K), f.key \notin K
  PROVE  LET a == Run(source, o)
             p == (o \o FlattenSeq(c)) \o d
             b == Run(source, p)
         IN  OkOps(source, p) /\ Keeps(a, b, {f.key}) /\ Holds(b, f, lifecycle, ids, places)
<1> DEFINE key == f.key
           vs == f.values
           k == KeptOf(f, ids)
           a == Run(source, o)
           q == o \o FlattenSeq(c)
           a1 == Run(source, q)
           p == q \o d
           b == Run(source, p)
<1>1. /\ Len(ids) \in Nat /\ Len(vs) \in Nat /\ k \in Nat /\ k <= Len(ids) /\ k <= Len(vs)
      /\ k = Len(ids) \/ k = Len(vs)
      /\ IsSeq(ids) /\ IsSeq(vs)
  BY SeqFacts, KeptFacts DEF Lies
<1>2. /\ \A j \in 1 .. Len(ids) : ids[j] \in 1 .. Len(source) /\ ids[j] \in LiveOf(source, key)
      /\ Len(source) \in Nat /\ DOMAIN source = 1 .. Len(source)
      /\ \A i \in 1 .. Len(source) : WellMade(source[i])
  BY StoreFacts DEF Lies, LiveOf
<1>3. /\ WellFormed(a) /\ Len(a) \in Nat /\ Len(source) <= Len(a)
      /\ LiveOf(a, key) = LiveOf(source, key)
      /\ \A i \in LiveOf(source, key) : i \in 1 .. Len(source) /\ a[i] = source[i]
      /\ DOMAIN a = 1 .. Len(a) /\ \A i \in 1 .. Len(a) : WellMade(a[i])
  <2>1. WellFormed(a) /\ Len(source) <= Len(a)
    BY DEF Keeps
  <2>2. LiveOf(a, key) = LiveOf(source, key) /\ \A i \in LiveOf(source, key) : i \in 1 .. Len(source) /\ a[i] = source[i]
    BY KeepsOthers
  <2> QED BY <2>1, <2>2, StoreFacts
<1>4. /\ AllSeqs(c) /\ Len(c) = Len(ids)
      /\ \A j \in 1 .. Len(ids) :
            /\ c[j] = <<>> \/ (/\ c[j] = <<c[j][1]>> /\ c[j][1].kind \in Changing
                               /\ c[j][1].target = ids[j] - 1)
            /\ BecomesValue(f, lifecycle, j, ChangedBy(source[ids[j]], c[j]))
  OBVIOUS
<1>5. /\ OkOps(source, d) /\ Len(d) = Len(vs) - k
      /\ \A j \in 1 .. Len(d) :
            /\ IsAddition(f, lifecycle, places, k + j, d[j])
            /\ k + j \in 1 .. Len(vs) /\ k + j > Len(ids)
  <2>1. \A j \in 1 .. Len(vs) - k : k + j \in 1 .. Len(vs) /\ k + j > Len(ids)
    <3> HIDE DEF k
    <3> QED BY <1>1
  <2> QED BY <2>1
<1>6. /\ OkOps(source, q) /\ Len(a1) = Len(a)
      /\ \A i \in 1 .. Len(a) : (\A j \in 1 .. Len(ids) : ids[j] # i) => a1[i] = a[i]
      /\ \A j \in 1 .. Len(ids) :
            /\ c[j] = <<>> => a1[ids[j]] = a[ids[j]]
            /\ c[j] # <<>> => a1[ids[j]] = Changed(a[ids[j]], c[j][1])
  <2>1. /\ \A j \in 1 .. Len(c) : ids[j] \in 1 .. Len(source)
        /\ \A j, h \in 1 .. Len(c) : ids[j] = ids[h] => j = h
        /\ \A j \in 1 .. Len(c) : c[j] = <<>> \/ (/\ c[j] = <<c[j][1]>> /\ c[j][1].kind \in Changing
                                                /\ c[j][1].target = ids[j] - 1)
    BY <1>2, <1>4 DEF Lies
  <2>2. AllSeqs(c) /\ OkOps(source, o) /\ Len(c) = Len(ids)
    BY <1>4
  <2>3. /\ OkOps(source, o \o FlattenSeq(c))
        /\ Len(Run(source, o \o FlattenSeq(c))) = Len(Run(source, o))
        /\ \A i \in 1 .. Len(Run(source, o)) :
              (\A j \in 1 .. Len(c) : ids[j] # i) => Run(source, o \o FlattenSeq(c))[i] = Run(source, o)[i]
        /\ \A j \in 1 .. Len(c) :
              /\ c[j] = <<>> => Run(source, o \o FlattenSeq(c))[ids[j]] = Run(source, o)[ids[j]]
              /\ c[j] # <<>> => Run(source, o \o FlattenSeq(c))[ids[j]] = Changed(Run(source, o)[ids[j]], c[j][1])
    BY <2>1, <2>2, EachOnce, SMTT(60)
  <2> QED BY <2>2, <2>3
<1>7. /\ OkOps(source, p) /\ Len(b) = Len(a) + Len(d)
      /\ \A i \in 1 .. Len(a) : b[i] = a1[i]
      /\ \A j \in 1 .. Len(d) : b[Len(a) + j] = d[j].entry
  <2>1. \A j \in 1 .. Len(d) : d[j].kind = "ADD_ENTRY"
    BY <1>5 DEF IsAddition
  <2> HIDE DEF q
  <2>2. OkOps(source, q \o d)
    BY <1>5, <1>6, OkJoin
  <2>4. OkOps(source, q) /\ OkOps(source, d)
    BY <1>5, <1>6
  <2>3. /\ Len(Run(source, q \o d)) = Len(Run(source, q)) + Len(d)
        /\ \A i \in 1 .. Len(Run(source, q)) : Run(source, q \o d)[i] = Run(source, q)[i]
        /\ \A j \in 1 .. Len(d) : Run(source, q \o d)[Len(Run(source, q)) + j] = d[j].entry
    BY <2>1, <2>4, AddAll
  <2> HIDE DEF a
  <2> QED BY <1>6, <2>2, <2>3
<1>8. WellFormed(b) /\ DOMAIN b = 1 .. Len(b) /\ Len(b) \in Nat
  <2> HIDE DEF p
  <2>1. WellFormed(b)
    BY <1>7, RunShape
  <2> QED BY <2>1, StoreFacts
<1>9. ASSUME NEW j \in 1 .. Len(ids)
      PROVE  /\ ids[j] \in 1 .. Len(a) /\ b[ids[j]].key = source[ids[j]].key
             /\ b[ids[j]].key.name = key
             /\ j > Len(vs) => b[ids[j]].deleted /\ b[ids[j]].dirty
             /\ ~(j > Len(vs)) =>
                   /\ ~b[ids[j]].deleted /\ (lifecycle => b[ids[j]].dirty)
                   /\ IF lifecycle THEN Unpadded(b[ids[j]].value) = Unpadded(vs[j])
                      ELSE b[ids[j]].value = vs[j]
  <2> DEFINE i == ids[j]
  <2>1. i \in 1 .. Len(source) /\ i \in LiveOf(source, key) /\ i \in 1 .. Len(a)
    BY <1>2, <1>3
  <2>2. source[i] = a[i] /\ WellMade(source[i]) /\ ~source[i].deleted /\ source[i].key.name = key
    BY <1>2, <1>3, <2>1 DEF LiveOf
  <2>3. b[i] = ChangedBy(source[i], c[j])
    <3> HIDE DEF a, a1, b
    <3> QED BY <1>4, <1>6, <1>7, <2>1, <2>2 DEF ChangedBy
  <2> HIDE DEF b
  <2>4. BecomesValue(f, lifecycle, j, b[i])
    BY <1>4, <2>3
  <2>5. b[i].key = source[i].key
    BY <2>3 DEF ChangedBy, Changed
  <2> QED BY <2>1, <2>2, <2>4, <2>5 DEF BecomesValue
<1>10. ASSUME NEW i \in 1 .. Len(a), \A j \in 1 .. Len(ids) : ids[j] # i
       PROVE  b[i] = a[i]
  BY <1>6, <1>7, <1>10
<1>11. ASSUME NEW j \in 1 .. Len(d)
       PROVE  /\ Len(a) + j \in 1 .. Len(b)
              /\ b[Len(a) + j].key.name = key /\ b[Len(a) + j].key.at = places[k + j]
              /\ b[Len(a) + j].value = vs[k + j]
              /\ b[Len(a) + j].dirty = TRUE /\ b[Len(a) + j].deleted = FALSE
  <2>1. b[Len(a) + j] = d[j].entry /\ IsAddition(f, lifecycle, places, k + j, d[j])
    BY <1>5, <1>7
  <2>2. Len(a) + j \in 1 .. Len(b)
    <3>1. Len(d) \in Nat /\ j \in 1 .. Len(d)
      BY <1>1, <1>5
    <3> HIDE DEF a, b
    <3> QED BY <1>3, <1>7, <3>1
  <2> HIDE DEF b, a
  <2> QED BY <2>1, <2>2 DEF IsAddition
<1> DEFINE s == [j \in 1 .. Len(vs) |-> IF j <= Len(ids) THEN ids[j] ELSE Len(a) + (j - k)]
<1>12. IsSeq(s) /\ Len(s) = Len(vs)
  <2>1. DOMAIN s = 1 .. Len(vs) /\ s = [j \in 1 .. Len(vs) |-> s[j]]
    OBVIOUS
  <2> HIDE DEF s
  <2> QED BY <1>1, <2>1, SeqMade
<1>13. \A j \in 1 .. Len(vs) : s[j] = IF j <= Len(ids) THEN ids[j] ELSE Len(a) + (j - k)
  OBVIOUS
<1>14. \A j \in 1 .. Len(vs) : ~(j <= Len(ids)) => j - k \in 1 .. Len(d) /\ k + (j - k) = j
  <2> HIDE DEF k
  <2> QED BY <1>1, <1>5
<1>15. Keeps(a, b, {key})
  <2>1. \A i \in 1 .. Len(a) : b[i].key = a[i].key /\ (a[i].key.name # key => b[i] = a[i])
    <3> SUFFICES ASSUME NEW i \in 1 .. Len(a)
                 PROVE  b[i].key = a[i].key /\ (a[i].key.name # key => b[i] = a[i])
      OBVIOUS
    <3>1. CASE \E j \in 1 .. Len(ids) : ids[j] = i
      <4>1. PICK j \in 1 .. Len(ids) : ids[j] = i
        BY <3>1
      <4>2. a[i] = source[i] /\ source[i].key.name = key
        BY <1>2, <1>3, <4>1 DEF LiveOf
      <4> HIDE DEF a, b
      <4> QED BY <1>9, <4>1, <4>2
    <3>2. CASE ~ \E j \in 1 .. Len(ids) : ids[j] = i
      BY <1>10, <3>2
    <3> QED BY <3>1, <3>2
  <2>2. \A i \in 1 .. Len(b) : i > Len(a) => b[i].key.name \in {key}
    <3> SUFFICES ASSUME NEW i \in 1 .. Len(b), i > Len(a) PROVE b[i].key.name = key
      OBVIOUS
    <3>1. i - Len(a) \in 1 .. Len(d) /\ Len(a) + (i - Len(a)) = i
      <4>1. Len(d) \in Nat
        BY <1>1, <1>5
      <4> HIDE DEF a, b
      <4> QED BY <1>3, <1>7, <4>1
    <3> HIDE DEF a, b
    <3> QED BY <1>11, <3>1
  <2>3. Len(a) <= Len(b)
    <3>1. Len(d) \in Nat
      BY <1>1, <1>5
    <3> HIDE DEF a, b
    <3> QED BY <1>3, <1>7, <3>1
  <2> HIDE DEF a, b
  <2> QED BY <1>3, <1>8, <2>1, <2>2, <2>3 DEF Keeps
<1>16. ASSUME NEW j \in 1 .. Len(vs)
       PROVE  /\ s[j] \in LiveOf(b, key) /\ b[s[j]].key.at = PlaceOf(ids, places, j)
              /\ IF lifecycle THEN Unpadded(b[s[j]].value) = Unpadded(vs[j]) ELSE b[s[j]].value = vs[j]
              /\ lifecycle => b[s[j]].dirty
              /\ j <= Len(ids) => s[j] = ids[j] /\ b[s[j]].key.at = source[ids[j]].key.at
  <2>1. CASE j <= Len(ids)
    <3>1. j \in 1 .. Len(ids) /\ s[j] = ids[j] /\ ~(j > Len(vs))
      BY <1>1, <1>13, <2>1
    <3>2. ids[j] \in 1 .. Len(b)
      <4>1. Len(a) <= Len(b)
        BY <1>15 DEF Keeps
      <4> HIDE DEF a, b
      <4> QED BY <1>3, <1>8, <1>9, <3>1, <4>1
    <3> HIDE DEF a, b, s
    <3> QED BY <1>8, <1>9, <2>1, <3>1, <3>2 DEF LiveOf, PlaceOf
  <2>2. CASE ~(j <= Len(ids))
    <3>1. j - k \in 1 .. Len(d) /\ k + (j - k) = j /\ s[j] = Len(a) + (j - k)
      BY <1>13, <1>14, <2>2
    <3> HIDE DEF a, b, s, k
    <3>2. /\ s[j] \in 1 .. Len(b) /\ b[s[j]].key.name = key /\ b[s[j]].key.at = places[j]
          /\ b[s[j]].value = vs[j] /\ b[s[j]].dirty = TRUE /\ b[s[j]].deleted = FALSE
      BY <1>11, <3>1
    <3> QED BY <1>8, <2>2, <3>2 DEF LiveOf, PlaceOf
  <2> QED BY <2>1, <2>2
<1>17. ASSUME NEW i \in LiveOf(b, key) PROVE \E j \in 1 .. Len(vs) : s[j] = i
  <2>1. i \in 1 .. Len(b) /\ b[i].key.name = key /\ ~b[i].deleted
    BY <1>8 DEF LiveOf
  <2>2. CASE i \in 1 .. Len(a)
    <3>1. PICK j \in 1 .. Len(ids) : ids[j] = i
      <4> SUFFICES ASSUME \A j \in 1 .. Len(ids) : ids[j] # i PROVE FALSE
        OBVIOUS
      <4>1. b[i] = a[i]
        BY <1>10, <2>2
      <4>2. i \in LiveOf(a, key)
        BY <1>3, <2>1, <2>2, <4>1 DEF LiveOf
      <4> QED BY <1>3, <4>2 DEF Lies
    <3>2. ~(j > Len(vs))
      BY <1>9, <2>1, <3>1
    <3>3. j \in 1 .. Len(vs) /\ j <= Len(ids)
      BY <1>1, <3>2
    <3>4. s[j] = i
      BY <1>13, <3>1, <3>3
    <3> QED BY <3>3, <3>4
  <2>3. CASE i \notin 1 .. Len(a)
    <3>1. \E h \in 1 .. Len(d) : Len(a) + h = i
      <4>1. Len(d) \in Nat
        BY <1>1, <1>5
      <4> HIDE DEF a, b
      <4>2. i - Len(a) \in 1 .. Len(d) /\ Len(a) + (i - Len(a)) = i
        BY <1>3, <1>7, <2>1, <2>3, <4>1
      <4> QED BY <4>2
    <3>2. PICK h \in 1 .. Len(d) : Len(a) + h = i
      BY <3>1
    <3>3. k + h \in 1 .. Len(vs) /\ ~(k + h <= Len(ids)) /\ k + h - k = h
      <4> HIDE DEF k
      <4> QED BY <1>1, <1>5, <3>2
    <3>4. s[k + h] = Len(a) + h
      <4>1. h \in Nat /\ k \in Nat /\ Len(a) \in Nat /\ Len(vs) \in Nat
        BY <1>1, <1>3, <1>5
      <4> HIDE DEF s, a, k
      <4>2. k + h \in Int /\ Len(a) + (k + h - k) = Len(a) + h
        BY <4>1
      <4>3. s[k + h] = Len(a) + (k + h - k)
        BY <1>13, <3>3, <4>1
      <4> QED BY <4>2, <4>3
    <3> HIDE DEF s, a, k
    <3> QED BY <3>2, <3>3, <3>4
  <2> QED BY <2>2, <2>3
<1>18. ASSUME NEW j \in 1 .. Len(vs), NEW h \in 1 .. Len(vs), j < h
       PROVE  Placed(b, s[j], s[h])
  <2>1. /\ b[s[j]].key.at = PlaceOf(ids, places, j) /\ b[s[h]].key.at = PlaceOf(ids, places, h)
        /\ PlaceOf(ids, places, j) <= PlaceOf(ids, places, h)
    BY <1>16, <1>18 DEF Lies
  <2>2. b[s[j]].key.at \in Nat /\ b[s[h]].key.at \in Nat
    <3>1. s[j] \in 1 .. Len(b) /\ s[h] \in 1 .. Len(b)
      BY <1>8, <1>16 DEF LiveOf
    <3>2. \A i \in 1 .. Len(b) : WellMade(b[i])
      BY <1>8, StoreFacts
    <3> HIDE DEF b, s
    <3> QED BY <3>1, <3>2 DEF WellMade
  <2>3. CASE h <= Len(ids)
    <3>1. j <= Len(ids)
      BY <1>1, <1>18, <2>3
    <3>2. Placed(source, ids[j], ids[h])
      BY <1>18, <2>3 DEF Lies
    <3>3. s[j] = ids[j] /\ s[h] = ids[h]
          /\ b[s[j]].key.at = source[ids[j]].key.at /\ b[s[h]].key.at = source[ids[h]].key.at
      BY <1>16, <2>3, <3>1
    <3> HIDE DEF b, s
    <3> QED BY <3>2, <3>3 DEF Placed
  <2>4. CASE ~(h <= Len(ids))
    <3>1. s[h] = Len(a) + (h - k) /\ h - k \in 1 .. Len(d)
      BY <1>13, <1>14, <2>4
    <3>2. s[j] < s[h]
      <4>1. CASE j <= Len(ids)
        <5>1. s[j] = ids[j] /\ ids[j] \in 1 .. Len(a)
          BY <1>1, <1>9, <1>13, <4>1
        <5> HIDE DEF s, a, k
        <5> QED BY <1>3, <3>1, <5>1
      <4>2. CASE ~(j <= Len(ids))
        <5>1. s[j] = Len(a) + (j - k)
          BY <1>13, <4>2
        <5> HIDE DEF s, a, k
        <5> QED BY <1>1, <1>3, <1>18, <3>1, <5>1
      <4> QED BY <4>1, <4>2
    <3> HIDE DEF b, s
    <3> QED BY <2>1, <2>2, <3>2 DEF Placed
  <2> QED BY <2>3, <2>4
<1>19. LiveIn(b, key) = s
  <2> HIDE DEF b, s, key
  <2>1. \A j \in 1 .. Len(s) : s[j] \in LiveOf(b, key)
    BY <1>12, <1>16
  <2>2. \A i \in LiveOf(b, key) : \E j \in 1 .. Len(s) : s[j] = i
    BY <1>12, <1>17
  <2>3. \A j, h \in 1 .. Len(s) : j < h => Placed(b, s[j], s[h])
    BY <1>12, <1>18
  <2> QED BY <1>8, <1>12, <2>1, <2>2, <2>3, LiveInIs
<1>20. lifecycle => \E i \in DOMAIN b : b[i].key.name = key /\ b[i].dirty /\ (b[i].deleted <=> vs = <<>>)
  <2> SUFFICES ASSUME lifecycle
               PROVE  \E i \in 1 .. Len(b) : b[i].key.name = key /\ b[i].dirty /\ (b[i].deleted <=> vs = <<>>)
    BY <1>8
  <2>1. CASE vs = <<>>
    <3>1. ids # <<>> /\ Len(vs) = 0
      BY <2>1
    <3>2. 1 \in 1 .. Len(ids) /\ 1 > Len(vs)
      <4>1. Len(ids) # 0
        <5>1. ids = [j \in 1 .. Len(ids) |-> ids[j]]
          BY <1>1, SeqFacts
        <5>2. Len(ids) = 0 => ids = <<>>
          BY <5>1
        <5> QED BY <3>1, <5>2
      <4> QED BY <1>1, <3>1, <4>1
    <3>3. ids[1] \in 1 .. Len(b) /\ b[ids[1]].key.name = key /\ b[ids[1]].deleted /\ b[ids[1]].dirty
      <4>1. Len(a) <= Len(b)
        BY <1>15 DEF Keeps
      <4> HIDE DEF a, b
      <4> QED BY <1>3, <1>8, <1>9, <3>2, <4>1
    <3> QED BY <2>1, <3>3
  <2>2. CASE vs # <<>>
    <3>1. 1 \in 1 .. Len(vs)
      <4>1. vs = [j \in 1 .. Len(vs) |-> vs[j]]
        BY <1>1, SeqFacts
      <4>2. Len(vs) = 0 => vs = <<>>
        BY <4>1
      <4> QED BY <1>1, <2>2, <4>2
    <3>2. s[1] \in LiveOf(b, key) /\ b[s[1]].dirty
      BY <1>16, <3>1
    <3> HIDE DEF b, s
    <3> QED BY <1>8, <2>2, <3>2 DEF LiveOf
  <2> QED BY <2>1, <2>2
<1>21. Holds(b, f, lifecycle, ids, places)
  <2> HIDE DEF b, s
  <2> QED BY <1>12, <1>16, <1>19, <1>20 DEF Holds
<1> QED BY <1>7, <1>15, <1>21

(* A deletion of what is not there is put on record.                       *)
LEMMA NothingLive ==
  ASSUME NEW st, WellFormed(st), NEW f, f.values = <<>>, LiveOf(st, f.key) = {}, NEW ids, NEW places,
         NEW i \in 1 .. Len(st), st[i].key.name = f.key, st[i].dirty, st[i].deleted
  PROVE  Holds(st, f, TRUE, ids, places)
<1>1. Len(LiveIn(st, f.key)) = Cardinality(LiveOf(st, f.key)) /\ DOMAIN st = 1 .. Len(st)
  BY LiveInLists, StoreFacts
<1>2. Len(LiveIn(st, f.key)) = 0 /\ Len(f.values) = 0
  BY <1>1, FS_EmptySet
<1> QED BY <1>1, <1>2 DEF Holds

(* So does the intent alone, for a field that neither has nor gets a       *)
(* value.                                                                  *)
LEMMA IntentDoes ==
  ASSUME WellFormed(source), NEW f, NEW ids, NEW places,
         Fits(f, ids, TRUE, places), ids = <<>>, f.values = <<>>,
         NEW o, OkOps(source, o), NEW K, Keeps(source, Run(source, o), K), f.key \notin K
  PROVE  LET a == Run(source, o)
             p == o \o OpIntent(f, ids, TRUE, places)
             b == Run(source, p)
         IN  OkOps(source, p) /\ Keeps(a, b, {f.key}) /\ Holds(b, f, TRUE, ids, places)
<1> DEFINE a == Run(source, o)
           e == OpIntent(f, ids, TRUE, places)
           key == f.key
<1>1. /\ Len(source) \in Nat /\ DOMAIN source = 1 .. Len(source) /\ IsFiniteSet(DOMAIN source)
      /\ \A i \in 1 .. Len(source) : WellMade(source[i])
      /\ WellFormed(a) /\ Len(a) \in Nat /\ DOMAIN a = 1 .. Len(a) /\ Len(source) <= Len(a)
      /\ \A i \in 1 .. Len(a) : WellMade(a[i])
      /\ IsSeq(o)
  BY StoreFacts DEF Keeps, OkOps
<1>2. LiveOf(a, key) = {}
  <2>1. LiveOf(source, key) = {}
    <3>1. Len(ids) = 0
      OBVIOUS
    <3> QED BY <3>1 DEF Fits, Lies
  <2> QED BY <2>1, KeepsOthers
<1>3. \A i \in 1 .. Len(source) : source[i].key.name = key => i \in 1 .. Len(a) /\ a[i] = source[i]
  BY <1>1 DEF Keeps
<1>4. CASE HasDeleteIntent(key)
  <2>1. e = <<>>
    BY <1>4 DEF OpIntent
  <2>2. o \o e = o
    BY <1>1, <2>1, JoinFacts
  <2>3. PICK i \in 1 .. Len(source) : source[i].deleted /\ source[i].dirty /\ source[i].key.name = key
    BY <1>1, <1>4 DEF HasDeleteIntent, Live, Id
  <2>4. Holds(a, f, TRUE, ids, places)
    <3>1. i \in 1 .. Len(a) /\ a[i].key.name = key /\ a[i].dirty /\ a[i].deleted
      BY <1>3, <2>3
    <3> HIDE DEF a
    <3> QED BY <1>1, <1>2, <3>1, NothingLive
  <2>5. Keeps(a, a, {key})
    <3> HIDE DEF a
    <3> QED BY <1>1 DEF Keeps
  <2> QED BY <2>2, <2>4, <2>5
<1>5. CASE ~HasDeleteIntent(key) /\ CleanIntents(key) = {}
  <2> DEFINE op == OpAdd(f, places, <<>>, 1, TRUE)
  <2>1. e = <<op>>
    BY <1>5 DEF OpIntent
  <2>2. /\ op.kind = "ADD_ENTRY" /\ WellMade(op.entry) /\ op.entry.key.name = key
        /\ op.entry.dirty = TRUE /\ op.entry.deleted = TRUE
    <3>1. places[1] \in Nat /\ f.from[1] \in 1 .. Len(source)
      BY <1>1 DEF Fits, Id
    <3> DEFINE b == source[f.from[1]].key.block
               at == places[1]
               x == [key |-> [name |-> key, at |-> at, block |-> b],
                     value |-> <<>>, dirty |-> TRUE, deleted |-> TRUE]
    <3>2. at \in Nat /\ b \in Nat
      BY <1>1, <3>1 DEF WellMade
    <3>3. op.kind = "ADD_ENTRY" /\ op.entry = x
      BY DEF OpAdd
    <3> HIDE DEF b, at, key
    <3>4. /\ x.key = [name |-> key, at |-> at, block |-> b] /\ x.value = <<>> /\ x.dirty = TRUE /\ x.deleted = TRUE
          /\ x.key.at = at /\ x.key.block = b /\ x.key.name = key
      OBVIOUS
    <3>5. x = [key |-> x.key, value |-> x.value, dirty |-> x.dirty, deleted |-> x.deleted]
      BY <3>4
    <3> HIDE DEF x, op
    <3>6. WellMade(x)
      BY <3>2, <3>4, <3>5 DEF WellMade
    <3> QED BY <3>3, <3>4, <3>6
  <2>3. OkOp(op, Len(source))
    BY <2>2 DEF OkOp
  <2>4. o \o e = Append(o, op)
    BY <1>1, <2>1, JoinOne
  <2> DEFINE b == Applied(a, op)
  <2>5. Run(source, o \o e) = b /\ OkOps(source, o \o e)
    <3> HIDE DEF op, e
    <3>1. Run(source, Append(o, op)) = Applied(Run(source, o), op) /\ OkOps(source, Append(o, op))
      BY <2>3, RunStep
    <3> QED BY <2>4, <3>1
  <2>6. /\ WellFormed(b) /\ Len(b) = Len(a) + 1 /\ b[Len(a) + 1] = op.entry
        /\ \A i \in 1 .. Len(a) : b[i] = a[i]
    <3>1. Len(source) \in 0 .. Len(a)
      BY <1>1
    <3> HIDE DEF a, op
    <3> QED BY <1>1, <2>2, <2>3, <3>1, AppliedFacts
  <2> HIDE DEF a, b, op
  <2>7. DOMAIN b = 1 .. Len(b) /\ \A i \in 1 .. Len(b) : i \in 1 .. Len(a) \/ i = Len(a) + 1
    BY <1>1, <2>6, StoreFacts
  <2>8. LiveOf(b, key) = {}
    <3> SUFFICES ASSUME NEW i \in 1 .. Len(b), ~b[i].deleted, b[i].key.name = key PROVE FALSE
      BY <2>7 DEF LiveOf
    <3>1. i \in 1 .. Len(a)
      BY <2>2, <2>6, <2>7
    <3> QED BY <1>1, <1>2, <2>6, <3>1 DEF LiveOf
  <2>9. Holds(b, f, TRUE, ids, places)
    <3>1. Len(a) + 1 \in 1 .. Len(b)
      BY <1>1, <2>6
    <3> QED BY <2>2, <2>6, <2>8, <3>1, NothingLive
  <2>10. Keeps(a, b, {key})
    BY <1>1, <2>2, <2>6, <2>7 DEF Keeps
  <2> QED BY <2>5, <2>9, <2>10 DEF a
<1>6. CASE ~HasDeleteIntent(key) /\ CleanIntents(key) # {}
  <2> DEFINE i == CHOOSE i \in CleanIntents(key) : \A j \in CleanIntents(key) : i <= j
             op == [kind |-> "TOMBSTONE", target |-> i - 1]
  <2>1. e = <<op>>
    BY <1>6 DEF OpIntent
  <2>2. i \in CleanIntents(key)
    <3>1. \A x \in CleanIntents(key) : x \in Nat
      BY <1>1 DEF CleanIntents, Id
    <3> QED BY <1>6, <3>1, LeastNumber
  <2> HIDE DEF i
  <2>3. i \in 1 .. Len(source) /\ i \in 1 .. Len(a) /\ a[i].deleted /\ a[i].key.name = key
    BY <1>1, <1>3, <2>2 DEF CleanIntents, Id, Live
  <2>4. op.kind = "TOMBSTONE" /\ op.target + 1 = i /\ OkOp(op, Len(source)) /\ op.kind # "ADD_ENTRY"
    BY <2>3 DEF OkOp, Changing
  <2>5. o \o e = Append(o, op)
    BY <1>1, <2>1, JoinOne
  <2> DEFINE b == Applied(a, op)
  <2>6. Run(source, o \o e) = b /\ OkOps(source, o \o e)
    <3> HIDE DEF op, e
    <3>1. Run(source, Append(o, op)) = Applied(Run(source, o), op) /\ OkOps(source, Append(o, op))
      BY <2>4, RunStep
    <3> QED BY <2>5, <3>1
  <2>7. /\ WellFormed(b) /\ Len(b) = Len(a) /\ b[i] = Changed(a[i], op)
        /\ \A j \in 1 .. Len(a) : j # i => b[j] = a[j]
    <3>1. Len(source) \in 0 .. Len(a)
      BY <1>1
    <3> HIDE DEF a, op
    <3> QED BY <1>1, <2>4, <3>1, AppliedFacts
  <2>8. b[i].key = a[i].key /\ b[i].dirty = TRUE /\ b[i].deleted
    <3>1. op.kind = "TOMBSTONE"
      OBVIOUS
    <3> HIDE DEF a, op, b
    <3>2. b[i] = Changed(a[i], op)
      BY <2>7
    <3>3. \A x : Changed(x, op).key = x.key /\ Changed(x, op).dirty = TRUE /\ Changed(x, op).deleted
      BY <3>1 DEF Changed
    <3> QED BY <3>2, <3>3
  <2> HIDE DEF a, b, op
  <2>9. DOMAIN b = 1 .. Len(b)
    BY <2>7, StoreFacts
  <2>10. LiveOf(b, key) = {}
    <3> SUFFICES ASSUME NEW j \in 1 .. Len(b), ~b[j].deleted, b[j].key.name = key PROVE FALSE
      BY <2>9 DEF LiveOf
    <3>1. j # i /\ j \in 1 .. Len(a)
      BY <2>7, <2>8
    <3> QED BY <1>1, <1>2, <2>7, <3>1 DEF LiveOf
  <2>11. Holds(b, f, TRUE, ids, places)
    BY <2>3, <2>7, <2>8, <2>10, NothingLive
  <2>12. Keeps(a, b, {key})
    BY <1>1, <2>3, <2>7, <2>8 DEF Keeps
  <2> QED BY <2>6, <2>11, <2>12 DEF a
<1> QED BY <1>4, <1>5, <1>6

(* What the operations of a field do.                                      *)
LEMMA OperationsDo ==
  ASSUME WellFormed(source), NEW f, NEW ids, NEW lifecycle \in BOOLEAN, NEW places,
         Fits(f, ids, lifecycle, places)
  PROVE  Does(Operations(f, ids, lifecycle, places), f, lifecycle, ids, places)
<1> DEFINE t == FlattenSeq(Changes(f, ids, lifecycle))
           d == Additions(f, ids, places)
           e == OpIntent(f, ids, lifecycle, places)
           p == Operations(f, ids, lifecycle, places)
<1>1. p = (t \o d) \o e
  BY OperationsAre
<1>2. IsSeq(t) /\ IsSeq(d) /\ IsSeq(ids) /\ IsSeq(f.values)
  <2>1. IsSeq(ids) /\ IsSeq(f.values)
        /\ \A j \in 1 .. Len(ids) : ids[j] \in 1 .. Len(source)
    BY StoreFacts DEF Fits, Lies, LiveOf
  <2>2. AllSeqs(Changes(f, ids, lifecycle))
    BY <2>1, ChangesAre
  <2>3. OkOps(source, d)
    BY <2>1, AdditionsAre DEF Fits
  <2> QED BY <2>1, <2>2, <2>3, FlatSeq DEF OkOps
<1>3. CASE ~(lifecycle /\ ids = <<>> /\ f.values = <<>>)
  <2>1. e = <<>>
    BY <1>3 DEF OpIntent
  <2> HIDE DEF t, d, e, p
  <2>2. IsSeq(t \o d)
    BY <1>2, JoinFacts
  <2>3. p = t \o d
    BY <1>1, <2>1, <2>2, JoinFacts
  <2>6. \A j \in 1 .. Len(ids) :
           ids[j] \in 1 .. Len(source) /\ WellMade(source[ids[j]]) /\ ~source[ids[j]].deleted
    BY StoreFacts DEF Fits, Lies, LiveOf
  <2>4. ASSUME NEW o, NEW K, OkOps(source, o), Keeps(source, Run(source, o), K), f.key \notin K
        PROVE  /\ OkOps(source, o \o p) /\ Keeps(Run(source, o), Run(source, o \o p), {f.key})
               /\ Holds(Run(source, o \o p), f, lifecycle, ids, places)
    <3>1. IsSeq(o)
      BY <2>4 DEF OkOps
    <3>2. o \o p = (o \o t) \o d
      <4>1. IsSeq(o) /\ IsSeq(t) /\ IsSeq(d)
        BY <1>2, <3>1
      <4>2. (o \o t) \o d = o \o (t \o d)
        BY <4>1, JoinAssoc
      <4> QED BY <2>3, <4>2
    <3>3. /\ OkOps(source, (o \o t) \o d) /\ Keeps(Run(source, o), Run(source, (o \o t) \o d), {f.key})
          /\ Holds(Run(source, (o \o t) \o d), f, lifecycle, ids, places)
      <4> DEFINE c == Changes(f, ids, lifecycle)
      <4>1. /\ AllSeqs(c) /\ Len(c) = Len(ids)
            /\ \A j \in 1 .. Len(ids) :
                  /\ c[j] = OpAt(f, ids, lifecycle, j)
                  /\ c[j] = <<>> \/ (/\ c[j] = <<c[j][1]>> /\ c[j][1].kind \in Changing
                                     /\ c[j][1].target = ids[j] - 1)
        BY <1>2, <2>6, ChangesAre
      <4>2. \A j \in 1 .. Len(ids) : BecomesValue(f, lifecycle, j, ChangedBy(source[ids[j]], c[j]))
        <5> SUFFICES ASSUME NEW j \in 1 .. Len(ids)
                     PROVE  BecomesValue(f, lifecycle, j, ChangedBy(source[ids[j]], c[j]))
          OBVIOUS
        <5>1. WellMade(source[ids[j]]) /\ ~source[ids[j]].deleted
          BY <2>6
        <5>2. c[j] = OpAt(f, ids, lifecycle, j)
          BY <4>1
        <5>3. BecomesValue(f, lifecycle, j, ChangedBy(source[ids[j]], OpAt(f, ids, lifecycle, j)))
          BY <5>1, OneChange
        <5> HIDE DEF c
        <5> QED BY <5>2, <5>3
      <4>3. /\ OkOps(source, d) /\ Len(d) = Len(f.values) - KeptOf(f, ids)
            /\ \A j \in 1 .. Len(d) : IsAddition(f, lifecycle, places, KeptOf(f, ids) + j, d[j])
        <5>1. /\ OkOps(source, d) /\ Len(d) = Len(f.values) - KeptOf(f, ids)
              /\ \A j \in 1 .. Len(d) : d[j] = OpAdd(f, places, f.values[KeptOf(f, ids) + j],
                                                     KeptOf(f, ids) + j, FALSE)
          BY <1>2, AdditionsAre DEF Fits, d
        <5>2. \A h : IsAddition(f, lifecycle, places, h, OpAdd(f, places, f.values[h], h, FALSE))
          BY DEF IsAddition, OpAdd
        <5> QED BY <5>1, <5>2
      <4>4. t = FlattenSeq(c)
        BY DEF t
      <4> HIDE DEF c
      <4>5. Lies(f, ids, places)
        BY DEF Fits
      <4> QED BY <1>3, <2>4, <4>1, <4>2, <4>3, <4>4, <4>5, MainDoes
    <3> QED BY <3>2, <3>3
  <2>5. IsSeq(p)
    BY <2>2, <2>3
  <2> QED BY <2>4, <2>5 DEF Does, p
<1>4. CASE lifecycle /\ ids = <<>> /\ f.values = <<>>
  <2>1. t = <<>> /\ d = <<>>
    <3>1. Changes(f, ids, lifecycle) = <<>>
      BY <1>4 DEF Changes
    <3>2. Len(f.values) = 0 /\ Len(ids) = 0
      BY <1>4
    <3>3. Len(f.values) - KeptOf(f, ids) = 0
      BY <3>2 DEF KeptOf, Lesser
    <3>4. d = <<>>
      <4> DEFINE N == Len(f.values) - KeptOf(f, ids)
                 F(j) == OpAdd(f, places, f.values[KeptOf(f, ids) + j], KeptOf(f, ids) + j, FALSE)
      <4>1. d = [j \in 1 .. N |-> F(j)]
        BY DEF Additions
      <4>2. N = 0
        BY <3>3
      <4> HIDE DEF N, F, d
      <4>3. 1 .. N = {}
        BY <4>2
      <4> QED BY <4>1, <4>3
    <3> QED BY <3>1, <3>4, FlatEmpty
  <2>2. IsSeq(e)
    <3> DEFINE x == e[1]
    <3>1. e = <<>> \/ e = <<x>>
      BY DEF OpIntent
    <3> HIDE DEF e, x
    <3>2. <<>> \in Seq({}) /\ <<x>> \in Seq({x})
      OBVIOUS
    <3> QED BY <3>1, <3>2 DEF IsSeq
  <2> HIDE DEF t, d, e, p
  <2>3. p = e
    BY <1>1, <1>2, <2>1, <2>2, JoinFacts
  <2>4. \A o, K : OkOps(source, o) /\ Keeps(source, Run(source, o), K) /\ f.key \notin K
                  => /\ OkOps(source, o \o e) /\ Keeps(Run(source, o), Run(source, o \o e), {f.key})
                     /\ Holds(Run(source, o \o e), f, TRUE, ids, places)
    <3> SUFFICES ASSUME NEW o, NEW K, OkOps(source, o), Keeps(source, Run(source, o), K), f.key \notin K
                 PROVE  /\ OkOps(source, o \o e) /\ Keeps(Run(source, o), Run(source, o \o e), {f.key})
                        /\ Holds(Run(source, o \o e), f, TRUE, ids, places)
      OBVIOUS
    <3>1. lifecycle = TRUE
      BY <1>4
    <3>2. Fits(f, ids, TRUE, places) /\ e = OpIntent(f, ids, TRUE, places)
      BY <3>1 DEF e
    <3> QED BY <1>4, <3>2, IntentDoes
  <2>5. lifecycle = TRUE
    BY <1>4
  <2> QED BY <2>2, <2>3, <2>4, <2>5 DEF Does, p
<1> QED BY <1>3, <1>4

-----------------------------------------------------------------------------
(* Many fields, one after the other.                                       *)
Task(f, lifecycle, ids, places) ==
    [field |-> f, lifecycle |-> lifecycle, ids |-> ids, places |-> places]
Met(st, t) == Holds(st, t.field, t.lifecycle, t.ids, t.places)
KeysIn(S) == {t.field.key : t \in S}
DoesAll(p, S) ==
    /\ IsSeq(p)
    /\ \A o, K : LET a == Run(source, o)
                     b == Run(source, o \o p)
                 IN  OkOps(source, o) /\ Keeps(source, a, K) /\ KeysIn(S) \cap K = {}
                     => /\ OkOps(source, o \o p) /\ Keeps(a, b, KeysIn(S))
                        /\ \A t \in S : Met(b, t)

(* What does one task does all tasks of a set of one.                      *)
LEMMA OneDoes ==
  ASSUME NEW p, NEW f, NEW lifecycle, NEW ids, NEW places, Does(p, f, lifecycle, ids, places)
  PROVE  DoesAll(p, {Task(f, lifecycle, ids, places)})
<1> DEFINE t == Task(f, lifecycle, ids, places)
<1>1. t.field = f /\ t.lifecycle = lifecycle /\ t.ids = ids /\ t.places = places
  BY DEF Task
<1> HIDE DEF t
<1>2. KeysIn({t}) = {f.key}
  BY <1>1 DEF KeysIn
<1>3. DoesAll(p, {t})
  BY <1>1, <1>2 DEF DoesAll, Does, Met
<1> QED BY <1>3 DEF t

(* A task that is met stays met while its key is left alone.               *)
LEMMA HoldsOn ==
  ASSUME NEW a, NEW b, NEW K, Keeps(a, b, K), NEW t, t.field.key \notin K, Met(a, t)
  PROVE  Met(b, t)
<1> DEFINE key == t.field.key
<1>1. /\ LiveOf(b, key) = LiveOf(a, key) /\ LiveIn(b, key) = LiveIn(a, key)
      /\ \A i \in LiveOf(a, key) : i \in 1 .. Len(a) /\ b[i] = a[i]
  BY KeepsOthers
<1>2. /\ DOMAIN a = 1 .. Len(a) /\ DOMAIN b = 1 .. Len(b) /\ Len(a) \in Nat /\ Len(b) \in Nat /\ Len(a) <= Len(b)
      /\ \A i \in 1 .. Len(a) : a[i].key.name = key => i \in 1 .. Len(b) /\ b[i] = a[i]
  BY StoreFacts DEF Keeps
<1>3. \A j \in 1 .. Len(LiveIn(a, key)) : LiveIn(a, key)[j] \in LiveOf(a, key)
  BY LiveInFacts DEF Keeps
<1>4. \A j \in 1 .. Len(LiveIn(a, key)) : b[LiveIn(b, key)[j]] = a[LiveIn(a, key)[j]]
  BY <1>1, <1>3
<1>5. /\ Len(LiveIn(b, key)) = Len(t.field.values)
      /\ \A j \in 1 .. Len(t.field.values) :
            /\ b[LiveIn(b, key)[j]].key.at = PlaceOf(t.ids, t.places, j)
            /\ IF t.lifecycle THEN Unpadded(b[LiveIn(b, key)[j]].value) = Unpadded(t.field.values[j])
               ELSE b[LiveIn(b, key)[j]].value = t.field.values[j]
  <2>1. Len(LiveIn(a, key)) = Len(t.field.values)
    BY DEF Met, Holds
  <2> QED BY <1>1, <1>4, <2>1 DEF Met, Holds
<1>6. t.lifecycle => \E i \in DOMAIN b : b[i].key.name = key /\ b[i].dirty
                                         /\ (b[i].deleted <=> t.field.values = <<>>)
  <2> SUFFICES ASSUME t.lifecycle
               PROVE  \E i \in DOMAIN b : b[i].key.name = key /\ b[i].dirty
                                          /\ (b[i].deleted <=> t.field.values = <<>>)
    OBVIOUS
  <2>0. Holds(a, t.field, t.lifecycle, t.ids, t.places)
    BY DEF Met
  <2>1. PICK i \in DOMAIN a : a[i].key.name = key /\ a[i].dirty /\ (a[i].deleted <=> t.field.values = <<>>)
    BY <2>0 DEF Holds
  <2>2. i \in DOMAIN b /\ b[i] = a[i]
    BY <1>2, <2>1
  <2> QED BY <2>1, <2>2
<1> QED BY <1>5, <1>6 DEF Met, Holds

(* Operations under different keys do both their tasks, one after the      *)
(* other.                                                                  *)
LEMMA JoinDoes ==
  ASSUME NEW p, NEW S, DoesAll(p, S), NEW q, NEW U, DoesAll(q, U), KeysIn(S) \cap KeysIn(U) = {}
  PROVE  DoesAll(p \o q, S \cup U)
<1>1. IsSeq(p) /\ IsSeq(q)
  BY DEF DoesAll
<1>2. IsSeq(p \o q)
  BY <1>1, JoinFacts
<1>3. KeysIn(S \cup U) = KeysIn(S) \cup KeysIn(U)
  BY DEF KeysIn
<1>4. ASSUME NEW o, NEW K, OkOps(source, o), Keeps(source, Run(source, o), K), KeysIn(S \cup U) \cap K = {}
      PROVE  /\ OkOps(source, o \o (p \o q)) /\ Keeps(Run(source, o), Run(source, o \o (p \o q)), KeysIn(S \cup U))
             /\ \A t \in S \cup U : Met(Run(source, o \o (p \o q)), t)
  <2> DEFINE a == Run(source, o)
             o1 == o \o p
             a1 == Run(source, o1)
             b == Run(source, o1 \o q)
  <2>1. o \o (p \o q) = o1 \o q
    <3>1. IsSeq(o) /\ IsSeq(p) /\ IsSeq(q)
      BY <1>1, <1>4 DEF OkOps
    <3> QED BY <3>1, JoinAssoc
  <2>2. KeysIn(S) \cap K = {}
    BY <1>3, <1>4
  <2>3. OkOps(source, o1) /\ Keeps(a, a1, KeysIn(S)) /\ \A t \in S : Met(a1, t)
    BY <1>4, <2>2 DEF DoesAll
  <2> DEFINE K1 == K \cup KeysIn(S)
  <2>4. Keeps(source, a1, K1)
    <3> HIDE DEF a, a1
    <3>1. Keeps(source, a, K) /\ Keeps(a, a1, KeysIn(S)) /\ K \cup KeysIn(S) \subseteq K1
      BY <1>4, <2>3 DEF a
    <3> QED BY <3>1, KeepsOn
  <2>5. KeysIn(U) \cap K1 = {}
    BY <1>3, <1>4
  <2> HIDE DEF o1, K1
  <2>6. OkOps(source, o1 \o q) /\ Keeps(a1, b, KeysIn(U)) /\ \A t \in U : Met(b, t)
    BY <2>3, <2>4, <2>5 DEF DoesAll
  <2> HIDE DEF a, a1, b
  <2>7. Keeps(a, b, KeysIn(S \cup U))
    <3>1. KeysIn(S) \cup KeysIn(U) \subseteq KeysIn(S \cup U)
      BY <1>3
    <3> QED BY <2>3, <2>6, <3>1, KeepsOn
  <2>8. \A t \in S : Met(b, t)
    <3> SUFFICES ASSUME NEW t \in S PROVE Met(b, t)
      OBVIOUS
    <3>1. t.field.key \notin KeysIn(U)
      BY DEF KeysIn
    <3> QED BY <2>3, <2>6, <3>1, HoldsOn
  <2> QED BY <2>1, <2>6, <2>7, <2>8 DEF a, b
<1> QED BY <1>2, <1>4 DEF DoesAll

(* No operation does no task.                                              *)
LEMMA NoneDoes ==
  ASSUME WellFormed(source)
  PROVE  DoesAll(<<>>, {})
<1>1. IsSeq(<<>>) /\ KeysIn({}) = {}
  BY DEF IsSeq, KeysIn
<1>2. ASSUME NEW o, NEW K, OkOps(source, o), Keeps(source, Run(source, o), K)
      PROVE  OkOps(source, o \o <<>>) /\ Keeps(Run(source, o), Run(source, o \o <<>>), {})
  <2>1. o \o <<>> = o
    <3>1. IsSeq(o)
      BY <1>2 DEF OkOps
    <3> QED BY <3>1, JoinFacts
  <2>2. WellFormed(Run(source, o))
    BY <1>2 DEF Keeps
  <2> QED BY <1>2, <2>1, <2>2, KeepsItself
<1> QED BY <1>1, <1>2 DEF DoesAll

(* Any number of them, under keys that differ from each other, do all      *)
(* their tasks.                                                            *)
LEMMA FlatDoes ==
  ASSUME WellFormed(source), NEW c, AllSeqs(c), NEW T,
         \A n \in 1 .. Len(c) : DoesAll(c[n], T[n]),
         \A n, k \in 1 .. Len(c) : n # k => KeysIn(T[n]) \cap KeysIn(T[k]) = {}
  PROVE  DoesAll(FlattenSeq(c), UNION {T[n] : n \in 1 .. Len(c)})
<1> DEFINE S(n) == UNION {T[k] : k \in 1 .. n}
           G == {n \in 0 .. Len(c) : DoesAll(FlattenSeq(First(c, n)), S(n))}
<1>0. Len(c) \in Nat
  BY SeqFacts DEF AllSeqs
<1>1. 0 \in G
  <2>1. 0 \in 0 .. Len(c) /\ S(0) = {}
    BY <1>0
  <2>2. FlattenSeq(First(c, 0)) = <<>>
    BY <2>1, FirstFacts
  <2> QED BY <2>1, <2>2, NoneDoes
<1>2. ASSUME NEW n \in 0 .. Len(c), n \in G, n < Len(c) PROVE n + 1 \in G
  <2>1. n + 1 \in 1 .. Len(c) /\ n + 1 \in 0 .. Len(c)
    BY <1>0, <1>2
  <2>2. FlattenSeq(First(c, n + 1)) = FlattenSeq(First(c, n)) \o c[n + 1]
    BY <1>2, FirstFacts
  <2>3. S(n + 1) = S(n) \cup T[n + 1]
    <3>1. \A k : k \in 1 .. n + 1 <=> k \in 1 .. n \/ k = n + 1
      BY <1>0
    <3> QED BY <3>1
  <2>4. KeysIn(S(n)) \cap KeysIn(T[n + 1]) = {}
    <3> SUFFICES ASSUME NEW k \in 1 .. n, NEW t \in T[k], t.field.key \in KeysIn(T[n + 1]) PROVE FALSE
      BY DEF KeysIn
    <3>1. k \in 1 .. Len(c) /\ k # n + 1
      BY <1>0, <2>1
    <3>2. KeysIn(T[k]) \cap KeysIn(T[n + 1]) = {}
      BY <2>1, <3>1
    <3>3. t.field.key \in KeysIn(T[k])
      BY DEF KeysIn
    <3> QED BY <3>2, <3>3
  <2>5. DoesAll(FlattenSeq(First(c, n)), S(n)) /\ DoesAll(c[n + 1], T[n + 1])
    BY <1>2, <2>1
  <2> HIDE DEF S
  <2>6. DoesAll(FlattenSeq(First(c, n)) \o c[n + 1], S(n) \cup T[n + 1])
    BY <2>4, <2>5, JoinDoes
  <2> QED BY <2>1, <2>2, <2>3, <2>6
<1>3. \A n \in 0 .. Len(c) : n \in G
  <2> HIDE DEF G
  <2> QED BY <1>0, <1>1, <1>2, Climb
<1>4. Len(c) \in 0 .. Len(c) /\ First(c, Len(c)) = c
  BY <1>0, FirstFacts
<1>5. DoesAll(FlattenSeq(c), S(Len(c)))
  BY <1>3, <1>4
<1> QED BY <1>5

(* From the source itself.                                                 *)
LEMMA DoneFromNothing ==
  ASSUME WellFormed(source), NEW p, NEW S, DoesAll(p, S)
  PROVE  /\ OkOps(source, p) /\ Keeps(source, Run(source, p), KeysIn(S))
         /\ \A t \in S : Met(Run(source, p), t)
<1>1. Run(source, <<>>) = source /\ OkOps(source, <<>>) /\ Keeps(source, source, {})
  BY RunEmpty, KeepsItself
<1>2. <<>> \o p = p
  BY JoinFacts DEF DoesAll
<1>3. /\ OkOps(source, <<>> \o p) /\ Keeps(Run(source, <<>>), Run(source, <<>> \o p), KeysIn(S))
      /\ \A t \in S : Met(Run(source, <<>> \o p), t)
  <2>1. ASSUME NEW o, NEW K, OkOps(source, o), Keeps(source, Run(source, o), K), KeysIn(S) \cap K = {}
        PROVE  /\ OkOps(source, o \o p) /\ Keeps(Run(source, o), Run(source, o \o p), KeysIn(S))
               /\ \A t \in S : Met(Run(source, o \o p), t)
    BY <2>1 DEF DoesAll
  <2>2. Keeps(source, Run(source, <<>>), {}) /\ KeysIn(S) \cap {} = {}
    BY <1>1
  <2> QED BY <1>1, <2>1, <2>2
<1> QED BY <1>1, <1>2, <1>3

-----------------------------------------------------------------------------
(* Verdicts, and groups in the order of their numbers.                     *)
LEMMA FirstBadOk ==
  ASSUME NEW v, IsSeq(v), FirstBad(v) = "OK"
  PROVE  \A j \in 1 .. Len(v) : v[j] = "OK"
<1> DEFINE bad == {j \in 1 .. Len(v) : v[j] # "OK"}
<1>1. DOMAIN v = 1 .. Len(v) /\ Len(v) \in Nat
  BY SeqFacts
<1>2. FirstBad(v) = IF bad = {} THEN "OK" ELSE v[Min(bad)]
  BY <1>1 DEF FirstBad
<1>3. bad # {} => Min(bad) \in bad
  <2>1. \A x \in bad : x \in Nat
    BY <1>1
  <2> HIDE DEF bad
  <2> QED BY <2>1, MinIsLeast
<1>4. bad = {}
  BY <1>2, <1>3
<1> QED BY <1>4

(* Verdicts that are all good are good together.                           *)
LEMMA FirstBadIsOk ==
  ASSUME NEW v, IsSeq(v), \A j \in 1 .. Len(v) : v[j] = "OK"
  PROVE  FirstBad(v) = "OK"
<1>1. DOMAIN v = 1 .. Len(v)
  BY SeqFacts
<1> QED BY <1>1 DEF FirstBad

(* When two lists of verdicts are good in turn, each is.                   *)
LEMMA JoinedOk ==
  ASSUME NEW v, IsSeq(v), NEW w, IsSeq(w), FirstBad(v \o w) = "OK"
  PROVE  FirstBad(v) = "OK" /\ FirstBad(w) = "OK"
<1>0. /\ IsSeq(v \o w) /\ Len(v \o w) = Len(v) + Len(w)
      /\ \A j \in 1 .. Len(v) : (v \o w)[j] = v[j]
      /\ \A j \in 1 .. Len(w) : (v \o w)[Len(v) + j] = w[j]
  <2>1. IsSeq(v) /\ IsSeq(w)
    OBVIOUS
  <2> QED BY <2>1, JoinFacts
<1>1. /\ IsSeq(v \o w) /\ Len(v \o w) = Len(v) + Len(w) /\ Len(v) \in Nat /\ Len(w) \in Nat
      /\ \A j \in 1 .. Len(v) : (v \o w)[j] = v[j]
      /\ \A j \in 1 .. Len(w) : (v \o w)[Len(v) + j] = w[j]
  BY <1>0, SeqFacts
<1>2. \A j \in 1 .. Len(v \o w) : (v \o w)[j] = "OK"
  BY <1>1, FirstBadOk
<1>3. \A j \in 1 .. Len(v) : v[j] = "OK"
  <2> SUFFICES ASSUME NEW j \in 1 .. Len(v) PROVE v[j] = "OK"
    OBVIOUS
  <2>1. j \in 1 .. Len(v \o w)
    BY <1>1
  <2> QED BY <1>1, <1>2, <2>1
<1>4. \A j \in 1 .. Len(w) : w[j] = "OK"
  <2> SUFFICES ASSUME NEW j \in 1 .. Len(w) PROVE w[j] = "OK"
    OBVIOUS
  <2>1. Len(v) + j \in 1 .. Len(v \o w)
    BY <1>1
  <2> QED BY <1>1, <1>2, <2>1
<1> QED BY <1>3, <1>4, FirstBadIsOk

(* The same where the second list is looked at only after the first.       *)
LEMMA ThenOk ==
  ASSUME NEW v, IsSeq(v), NEW w, IsSeq(w), FirstBad(Then(v, w)) = "OK"
  PROVE  FirstBad(v) = "OK" /\ FirstBad(w) = "OK"
<1>1. FirstBad(v) = "OK"
  BY DEF Then
<1>2. FirstBad(v \o w) = "OK"
  BY <1>1 DEF Then
<1> QED BY <1>2, JoinedOk

(* That is a list too.                                                     *)
LEMMA ThenIsSeq ==
  ASSUME NEW v, IsSeq(v), NEW w, IsSeq(w)
  PROVE  IsSeq(Then(v, w))
<1>1. IsSeq(v \o w)
  BY JoinFacts
<1> QED BY <1>1 DEF Then

(* Lists of verdicts that are good in turn are good each.                  *)
LEMMA FlatOk ==
  ASSUME NEW c, AllSeqs(c), FirstBad(FlattenSeq(c)) = "OK"
  PROVE  \A n \in 1 .. Len(c) : FirstBad(c[n]) = "OK"
<1> DEFINE G == {n \in 0 .. Len(c) : FirstBad(FlattenSeq(First(c, n))) = "OK" =>
                                        \A k \in 1 .. n : FirstBad(c[k]) = "OK"}
<1>0. Len(c) \in Nat /\ \A n \in 1 .. Len(c) : IsSeq(c[n])
  BY SeqFacts DEF AllSeqs
<1>1. 0 \in G
  BY <1>0
<1>2. ASSUME NEW n \in 0 .. Len(c), n \in G, n < Len(c) PROVE n + 1 \in G
  <2>1. n + 1 \in 0 .. Len(c) /\ n + 1 \in 1 .. Len(c) /\ \A k \in 1 .. n + 1 : k \in 1 .. n \/ k = n + 1
    BY <1>0, <1>2
  <2>2. /\ AllSeqs(First(c, n))
        /\ FlattenSeq(First(c, n + 1)) = FlattenSeq(First(c, n)) \o c[n + 1]
    BY <1>2, FirstFacts
  <2>3. IsSeq(FlattenSeq(First(c, n))) /\ IsSeq(c[n + 1])
    BY <1>0, <2>1, <2>2, FlatSeq
  <2>4. ASSUME FirstBad(FlattenSeq(First(c, n + 1))) = "OK"
        PROVE  \A k \in 1 .. n + 1 : FirstBad(c[k]) = "OK"
    <3>1. FirstBad(FlattenSeq(First(c, n)) \o c[n + 1]) = "OK"
      BY <2>2, <2>4
    <3>2. FirstBad(FlattenSeq(First(c, n))) = "OK" /\ FirstBad(c[n + 1]) = "OK"
      BY <2>3, <3>1, JoinedOk
    <3>3. \A k \in 1 .. n : FirstBad(c[k]) = "OK"
      BY <1>2, <3>2
    <3> QED BY <2>1, <3>2, <3>3
  <2> QED BY <2>1, <2>4
<1>3. \A n \in 0 .. Len(c) : n \in G
  <2> HIDE DEF G
  <2> QED BY <1>0, <1>1, <1>2, Climb
<1>4. Len(c) \in G
  BY <1>0, <1>3
<1>5. First(c, Len(c)) = c
  <2>1. Len(c) \in 0 .. Len(c)
    BY <1>0
  <2> QED BY <2>1, FirstFacts
<1> QED BY <1>4, <1>5

(* One element is a sequence.                                              *)
LEMMA OneIsSeq ==
  ASSUME NEW e
  PROVE  IsSeq(<<e>>) /\ Len(<<e>>) = 1
<1>1. <<e>> \in Seq({e})
  OBVIOUS
<1> QED BY <1>1 DEF IsSeq

(* A refusal that does not apply is a good verdict.                        *)
LEMMA WhenOk ==
  ASSUME NEW a, NEW s, s # "OK"
  PROVE  When(a, s) = "OK" <=> ~a
  BY DEF When

(* Sequences of one element each flatten into their elements.              *)
LEMMA FlatSingles ==
  ASSUME NEW s, IsSeq(s)
  PROVE  LET c == [j \in 1 .. Len(s) |-> <<s[j]>>]
         IN  AllSeqs(c) /\ Len(c) = Len(s) /\ FlattenSeq(c) = s
<1> DEFINE c == [j \in 1 .. Len(s) |-> <<s[j]>>]
           G == {n \in 0 .. Len(s) : FlattenSeq(First(c, n)) = First(s, n)}
<1>0. Len(s) \in Nat /\ s = [j \in 1 .. Len(s) |-> s[j]] /\ DOMAIN s = 1 .. Len(s)
  BY SeqFacts
<1>a. IsSeq(c) /\ Len(c) = Len(s)
  <2>1. DOMAIN c = 1 .. Len(s) /\ c = [j \in 1 .. Len(s) |-> c[j]]
    OBVIOUS
  <2> HIDE DEF c
  <2> QED BY <1>0, <2>1, SeqMade
<1>b. \A n \in 1 .. Len(s) : c[n] = <<s[n]>>
  OBVIOUS
<1>c. \A e : IsSeq(<<e>>)
  BY OneIsSeq
<1>d. AllSeqs(c)
  <2> HIDE DEF c
  <2> QED BY <1>a, <1>b, <1>c DEF AllSeqs
<1>1. 0 \in G
  <2>1. 0 \in 0 .. Len(c)
    BY <1>0, <1>a
  <2>2. FlattenSeq(First(c, 0)) = <<>>
    <3> HIDE DEF c
    <3> QED BY <1>d, <2>1, FirstFacts
  <2>3. First(s, 0) = <<>>
    <3>1. 1 .. 0 = {}
      OBVIOUS
    <3> QED BY <3>1 DEF First
  <2> QED BY <1>0, <2>2, <2>3
<1>2. ASSUME NEW n \in 0 .. Len(s), n \in G, n < Len(s) PROVE n + 1 \in G
  <2>0. n \in 0 .. Len(c) /\ n < Len(c) /\ n + 1 \in 1 .. Len(s) /\ n \in Nat
    BY <1>0, <1>2, <1>a
  <2>1. FlattenSeq(First(c, n + 1)) = FlattenSeq(First(c, n)) \o c[n + 1]
    <3> HIDE DEF c
    <3> QED BY <1>d, <2>0, FirstFacts
  <2>2. IsSeq(First(s, n)) /\ Len(First(s, n)) = n
    <3>1. DOMAIN First(s, n) = 1 .. n /\ First(s, n) = [j \in 1 .. n |-> First(s, n)[j]]
      BY DEF First
    <3> QED BY <2>0, <3>1, SeqMade
  <2>3. First(s, n) \o <<s[n + 1]>> = Append(First(s, n), s[n + 1])
    BY <2>2, JoinOne
  <2>4. Append(First(s, n), s[n + 1]) = First(s, n + 1)
    <3>1. \A j \in 1 .. n + 1 : j \in 1 .. n \/ j = n + 1
      BY <2>0
    <3>2. First(s, n) \in Seq(Range(First(s, n)))
      BY <2>2, SeqFacts
    <3>3. Append(First(s, n), s[n + 1]) = [j \in 1 .. n + 1 |-> IF j <= n THEN First(s, n)[j] ELSE s[n + 1]]
      BY <2>2, <3>2, <2>0
    <3>4. \A j \in 1 .. n + 1 : (IF j <= n THEN First(s, n)[j] ELSE s[n + 1]) = s[j]
      BY <2>0, <3>1 DEF First
    <3> QED BY <3>3, <3>4 DEF First
  <2>5. FlattenSeq(First(c, n)) = First(s, n)
    BY <1>2
  <2>6. n + 1 \in 0 .. Len(s)
    BY <2>0
  <2> HIDE DEF c
  <2>7. FlattenSeq(First(c, n + 1)) = First(s, n + 1)
    BY <1>b, <2>0, <2>1, <2>3, <2>4, <2>5
  <2> QED BY <2>6, <2>7
<1>3. Len(s) \in G
  <2> HIDE DEF G
  <2>1. \A n \in 0 .. Len(s) : n \in G
    BY <1>0, <1>1, <1>2, Climb
  <2> QED BY <1>0, <2>1
<1>4. First(c, Len(s)) = c /\ First(s, Len(s)) = s
  BY <1>0 DEF First
<1>5. FlattenSeq(c) = s
  BY <1>3, <1>4
<1> QED BY <1>a, <1>d, <1>5

(* Ascending has each number of a set once, in order.                      *)
LEMMA AscendingFacts ==
  ASSUME NEW S, IsFiniteSet(S), \A x \in S : x \in Nat
  PROVE  LET s == Ascending(S)
         IN  /\ IsSeq(s) /\ Len(s) \in Nat /\ DOMAIN s = 1 .. Len(s) /\ Range(s) = S
             /\ Len(s) = Cardinality(S)
             /\ \A j \in 1 .. Len(s) : s[j] \in S
             /\ \A i \in S : \E j \in 1 .. Len(s) : s[j] = i
             /\ \A j, k \in 1 .. Len(s) : s[j] = s[k] => j = k
             /\ \A j, k \in 1 .. Len(s) : j < k => s[j] < s[k]
<1> DEFINE s == Ascending(S)
<1>1. Lists(s, S, LessOn(S)) /\ Len(s) = Cardinality(S)
  BY AscendingLists
<1>2. s \in Seq(S) /\ Len(s) \in Nat
  BY <1>1 DEF Lists
<1>3. IsSeq(s) /\ DOMAIN s = 1 .. Len(s) /\ \A j \in 1 .. Len(s) : s[j] \in S
  BY <1>2 DEF IsSeq
<1>4. \A i \in S : \E j \in 1 .. Len(s) : s[j] = i
  BY <1>1 DEF Lists
<1>5. \A j, k \in 1 .. Len(s) : j < k => s[j] < s[k]
  BY <1>1 DEF Lists, LessOn
<1>6. \A j, k \in 1 .. Len(s) : s[j] = s[k] => j = k
  <2> SUFFICES ASSUME NEW j \in 1 .. Len(s), NEW k \in 1 .. Len(s), j # k PROVE s[j] # s[k]
    OBVIOUS
  <2>1. s[j] \in Nat /\ s[k] \in Nat /\ (j < k \/ k < j)
    BY <1>2, <1>3
  <2> QED BY <1>5, <2>1
<1>7. Range(s) = S
  BY <1>3, <1>4 DEF Range
<1> QED BY <1>1, <1>2, <1>3, <1>4, <1>5, <1>6, <1>7

(* The live native entries of a key.                                       *)
LEMMA NativesFacts ==
  ASSUME WellFormed(source), NEW key, NEW ordered \in BOOLEAN
  PROVE  LET s == Natives(key, ordered)
         IN  /\ IsSeq(s) /\ Len(s) \in Nat /\ DOMAIN s = 1 .. Len(s) /\ Range(s) = LiveOf(source, key)
             /\ \A j \in 1 .. Len(s) : s[j] \in LiveOf(source, key) /\ s[j] \in 1 .. Len(source)
             /\ \A i \in LiveOf(source, key) : \E j \in 1 .. Len(s) : s[j] = i
             /\ \A j, k \in 1 .. Len(s) : s[j] = s[k] => j = k
             /\ ordered => s = LiveIn(source, key)
             /\ ~ordered => s = Ascending(LiveOf(source, key))
             /\ s # <<>> <=> LiveOf(source, key) # {}
             /\ Len(s) = Len(LiveIn(source, key))
<1> DEFINE s == Natives(key, ordered)
           S == LiveOf(source, key)
<1>1. s = IF ordered THEN LiveIn(source, key) ELSE Ascending(S)
  BY DEF Natives, LiveIn, Sorted, LiveOf, Live, Id
<1>2. /\ IsFiniteSet(S) /\ S \subseteq 1 .. Len(source) /\ \A x \in S : x \in Nat
      /\ Len(LiveIn(source, key)) = Cardinality(S)
  BY LiveInLists
<1>3. /\ IsSeq(s) /\ Len(s) \in Nat /\ DOMAIN s = 1 .. Len(s) /\ Len(s) = Cardinality(S)
      /\ \A j \in 1 .. Len(s) : s[j] \in S
      /\ \A i \in S : \E j \in 1 .. Len(s) : s[j] = i
      /\ \A j, k \in 1 .. Len(s) : s[j] = s[k] => j = k
  <2>1. CASE ordered
    BY <1>1, <1>2, <2>1, LiveInFacts
  <2>2. CASE ~ordered
    <3>1. IsFiniteSet(S) /\ \A x \in S : x \in Nat
      BY <1>2
    <3> HIDE DEF S
    <3>2. /\ IsSeq(Ascending(S)) /\ Len(Ascending(S)) \in Nat
          /\ DOMAIN Ascending(S) = 1 .. Len(Ascending(S)) /\ Len(Ascending(S)) = Cardinality(S)
          /\ \A j \in 1 .. Len(Ascending(S)) : Ascending(S)[j] \in S
          /\ \A i \in S : \E j \in 1 .. Len(Ascending(S)) : Ascending(S)[j] = i
          /\ \A j, k \in 1 .. Len(Ascending(S)) : Ascending(S)[j] = Ascending(S)[k] => j = k
      BY <3>1, AscendingFacts
    <3>3. s = Ascending(S)
      BY <1>1, <2>2
    <3> HIDE DEF s
    <3> QED BY <3>2, <3>3
  <2> QED BY <2>1, <2>2
<1>4. Range(s) = S
  BY <1>3 DEF Range
<1>5. s # <<>> <=> S # {}
  <2>1. s = <<>> => S = {}
    BY <1>3
  <2>2. S = {} => s = <<>>
    <3>1. s = [j \in 1 .. Len(s) |-> s[j]]
      BY <1>3, SeqFacts
    <3>2. S = {} => Len(s) = 0
      BY <1>3
    <3>3. Len(s) = 0 => s = <<>>
      BY <3>1
    <3> QED BY <3>2, <3>3
  <2> QED BY <2>1, <2>2
<1> QED BY <1>1, <1>2, <1>3, <1>4, <1>5

(* A store with one live entry of a key.                                   *)
LEMMA OneLive ==
  ASSUME WellFormed(source), NEW key, Len(Natives(key, FALSE)) = 1
  PROVE  LET i == Natives(key, FALSE)[1]
         IN  /\ i \in LiveOf(source, key)
             /\ Stored(source, key) = <<source[i].value>>
             /\ Values(source, key) = <<Unpadded(source[i].value)>>
<1> DEFINE n == Natives(key, FALSE)
           s == LiveIn(source, key)
           vs == <<source[n[1]].value>>
<1>1. /\ \A j \in 1 .. Len(n) : n[j] \in LiveOf(source, key)
      /\ \A h \in LiveOf(source, key) : \E j \in 1 .. Len(n) : n[j] = h
      /\ Len(n) = Len(s)
  BY NativesFacts
<1>2. IsSeq(s) /\ \A j \in 1 .. Len(s) : s[j] \in LiveOf(source, key)
  BY LiveInFacts
<1>3. Len(n) = 1 /\ \A j \in 1 .. 1 : j = 1
  <2>1. Len(n) = 1
    OBVIOUS
  <2>2. \A j \in 1 .. 1 : j = 1
    OBVIOUS
  <2> QED BY <2>1, <2>2
<1>4. n[1] \in LiveOf(source, key) /\ s[1] = n[1]
  <2> HIDE DEF n, s
  <2> QED BY <1>1, <1>2, <1>3
<1>5. IsSeq(vs) /\ Len(vs) = 1 /\ vs[1] = source[n[1]].value
  BY OneIsSeq
<1>6. \A j \in 1 .. Len(vs) : source[s[j]].value = vs[j] /\ Unpadded(source[s[j]].value) = Unpadded(vs[j])
  <2> HIDE DEF s, n, vs
  <2> QED BY <1>3, <1>4, <1>5
<1>7. Stored(source, key) = vs /\ Values(source, key) = [j \in DOMAIN vs |-> Unpadded(vs[j])]
  <2>1. Len(s) = Len(vs)
    BY <1>1, <1>3, <1>5
  <2> HIDE DEF vs
  <2> QED BY <1>5, <1>6, <2>1, StoredIs
<1>8. [j \in DOMAIN vs |-> Unpadded(vs[j])] = <<Unpadded(vs[1])>>
  <2>1. DOMAIN vs = 1 .. 1
    OBVIOUS
  <2> HIDE DEF vs
  <2>2. [j \in 1 .. 1 |-> Unpadded(vs[j])] = <<Unpadded(vs[1])>>
    OBVIOUS
  <2> QED BY <2>1, <2>2
<1> QED BY <1>4, <1>5, <1>7, <1>8

-----------------------------------------------------------------------------
(* The texts of EXIF.                                                      *)
TextField(k) == Field(ExifTexts[k].key, IF Live(TextSource(k)) THEN <<Encoded(k)>> ELSE <<>>, <<>>)
TextPlaces(k) == <<WireType(k)>>
TextOps(k) ==
    [j \in DOMAIN TextNatives(k) |->
        IF j = 1 /\ Live(TextSource(k))
        THEN [kind |-> "SET_VALUE", target |-> TextNatives(k)[1] - 1, value |-> Encoded(k)]
        ELSE [kind |-> "TOMBSTONE", target |-> TextNatives(k)[j] - 1]]
TextAdded(k) ==
    [kind |-> "ADD_ENTRY",
     entry |-> [key |-> [name |-> ExifTexts[k].key, at |-> WireType(k), block |-> NoBlock],
                value |-> Encoded(k), dirty |-> TRUE, deleted |-> FALSE]]
TextAdds(k) == IF Live(TextSource(k)) /\ TextNatives(k) = <<>> THEN <<TextAdded(k)>> ELSE <<>>

(* The entry of a text that was not there carries the text, under its key. *)
LEMMA TextAddedFacts ==
  ASSUME NEW k
  PROVE  /\ OkOp(TextAdded(k), Len(source))
         /\ \A f : f.key = ExifTexts[k].key /\ f.values[1] = Encoded(k)
                   => IsAddition(f, FALSE, TextPlaces(k), 1, TextAdded(k))
<1> DEFINE e == TextAdded(k).entry
           at == WireType(k)
<1>1. at \in Nat
  BY DEF WireType
<1>2. TextAdded(k).kind = "ADD_ENTRY"
  BY DEF TextAdded
<1>3. /\ e = [key |-> e.key, value |-> e.value, dirty |-> e.dirty, deleted |-> e.deleted]
      /\ e.key.name = ExifTexts[k].key /\ e.key.at = at /\ e.key.block = NoBlock
      /\ e.value = Encoded(k) /\ e.dirty = TRUE /\ e.deleted = FALSE
  <2> HIDE DEF at
  <2> QED BY DEF TextAdded, at
<1>4. TextPlaces(k)[1] = at
  BY DEF TextPlaces
<1> HIDE DEF e, at
<1>5. WellMade(e)
  BY <1>1, <1>3, NoBlockIsNatural DEF WellMade
<1>6. TextAdded(k).entry = e
  BY DEF e
<1> QED BY <1>2, <1>3, <1>4, <1>5, <1>6 DEF OkOp, IsAddition

(* The operations on a text make its field hold.                           *)
LEMMA TextChangesDo ==
  ASSUME WellFormed(source), NEW k
  PROVE  Does(TextChanges(k), TextField(k), FALSE, TextNatives(k), TextPlaces(k))
<1> DEFINE f == TextField(k)
           ids == TextNatives(k)
           t == TextOps(k)
           c == [j \in 1 .. Len(t) |-> <<t[j]>>]
           d == TextAdds(k)
           said == Live(TextSource(k))
<1>1. f.key = ExifTexts[k].key /\ f.values = IF said THEN <<Encoded(k)>> ELSE <<>>
  BY DEF TextField, Field
<1>2. /\ IsSeq(f.values) /\ Len(f.values) = (IF said THEN 1 ELSE 0)
      /\ said => f.values[1] = Encoded(k)
  <2>1. IsSeq(<<Encoded(k)>>) /\ Len(<<Encoded(k)>>) = 1 /\ <<Encoded(k)>>[1] = Encoded(k)
    BY OneIsSeq
  <2>2. IsSeq(<<>>) /\ Len(<<>>) = 0
    BY DEF IsSeq
  <2> HIDE DEF f
  <2> QED BY <1>1, <2>1, <2>2
<1>3. /\ IsSeq(ids) /\ Len(ids) \in Nat /\ DOMAIN ids = 1 .. Len(ids)
      /\ \A j \in 1 .. Len(ids) : ids[j] \in LiveOf(source, f.key) /\ ids[j] \in 1 .. Len(source)
      /\ \A i \in LiveOf(source, f.key) : \E j \in 1 .. Len(ids) : ids[j] = i
      /\ \A j, h \in 1 .. Len(ids) : ids[j] = ids[h] => j = h
  <2>1. ids = Natives(f.key, FALSE)
    BY <1>1 DEF TextNatives
  <2> HIDE DEF ids, f
  <2> QED BY <2>1, NativesFacts
<1> HIDE DEF f
<1>4. Lies(f, ids, TextPlaces(k))
  <2>1. \A j, h \in 1 .. Len(f.values) : ~(j < h)
    BY <1>2
  <2> HIDE DEF ids
  <2> QED BY <1>2, <1>3, <2>1 DEF Lies
<1>5. IsSeq(t) /\ Len(t) = Len(ids)
  <2>1. DOMAIN t = 1 .. Len(ids) /\ t = [j \in 1 .. Len(ids) |-> t[j]]
    BY <1>3 DEF TextOps
  <2> HIDE DEF t, ids
  <2> QED BY <1>3, <2>1, SeqMade
<1>6. AllSeqs(c) /\ Len(c) = Len(ids) /\ FlattenSeq(c) = t
  <2> HIDE DEF t, ids
  <2> QED BY <1>5, FlatSingles
<1>7. ASSUME NEW j \in 1 .. Len(ids)
      PROVE  /\ c[j] = <<c[j][1]>> /\ c[j][1].kind \in Changing /\ c[j][1].target = ids[j] - 1
             /\ BecomesValue(f, FALSE, j, ChangedBy(source[ids[j]], c[j]))
  <2> DEFINE x == t[j]
             e == source[ids[j]]
  <2>1. c[j] = <<x>> /\ c[j] # <<>> /\ c[j][1] = x
    <3> HIDE DEF t, ids
    <3> QED BY <1>5
  <2>2. ~e.deleted
    BY <1>3 DEF LiveOf
  <2>3. j \in DOMAIN ids
    BY <1>3
  <2>4. CASE j = 1 /\ said
    <3>1. x = [kind |-> "SET_VALUE", target |-> ids[1] - 1, value |-> Encoded(k)]
      BY <2>3, <2>4 DEF TextOps
    <3>2. x.kind = "SET_VALUE" /\ x.target = ids[j] - 1 /\ x.value = Encoded(k)
      BY <2>4, <3>1
    <3> HIDE DEF x, c, e, ids
    <3>3. x.kind \in Changing /\ ~(j > Len(f.values)) /\ x.value = f.values[j]
      BY <1>2, <2>4, <3>2 DEF Changing
    <3>4. ChangedBy(e, c[j]).value = x.value /\ ~ChangedBy(e, c[j]).deleted
      BY <2>1, <2>2, <3>2 DEF ChangedBy, Changed
    <3>5. BecomesValue(f, FALSE, j, ChangedBy(e, c[j]))
      BY <3>3, <3>4 DEF BecomesValue
    <3> QED BY <2>1, <3>2, <3>3, <3>5 DEF e
  <2>5. CASE ~(j = 1 /\ said)
    <3>1. x = [kind |-> "TOMBSTONE", target |-> ids[j] - 1]
      BY <2>3, <2>5 DEF TextOps
    <3>2. x.kind = "TOMBSTONE" /\ x.target = ids[j] - 1
      BY <3>1
    <3>3. j > Len(f.values)
      <4> HIDE DEF ids
      <4> QED BY <1>2, <1>3, <2>5
    <3> HIDE DEF x, c, e, ids
    <3>4. ChangedBy(e, c[j]).dirty /\ ChangedBy(e, c[j]).deleted
      BY <2>1, <3>2 DEF ChangedBy, Changed
    <3>5. BecomesValue(f, FALSE, j, ChangedBy(e, c[j])) /\ x.kind \in Changing
      BY <3>2, <3>3, <3>4 DEF BecomesValue, Changing
    <3> QED BY <2>1, <3>2, <3>5 DEF e
  <2> QED BY <2>4, <2>5
<1>8. /\ OkOps(source, d) /\ Len(d) = Len(f.values) - KeptOf(f, ids)
      /\ \A j \in 1 .. Len(d) : IsAddition(f, FALSE, TextPlaces(k), KeptOf(f, ids) + j, d[j])
  <2>1. KeptOf(f, ids) = IF Len(ids) < Len(f.values) THEN Len(ids) ELSE Len(f.values)
    BY DEF KeptOf, Lesser
  <2>2. ids = <<>> <=> Len(ids) = 0
    <3>1. ids = [j \in 1 .. Len(ids) |-> ids[j]]
      BY <1>3, SeqFacts
    <3> HIDE DEF ids
    <3>2. Len(ids) = 0 => ids = <<>>
      BY <3>1
    <3> QED BY <3>2
  <2>3. CASE said /\ ids = <<>>
    <3>1. d = <<TextAdded(k)>>
      BY <2>3 DEF TextAdds
    <3>2. KeptOf(f, ids) = 0 /\ Len(f.values) = 1
      BY <1>2, <2>1, <2>2, <2>3
    <3>3. IsAddition(f, FALSE, TextPlaces(k), 1, TextAdded(k)) /\ OkOp(TextAdded(k), Len(source))
      BY <1>1, <1>2, <2>3, TextAddedFacts
    <3>4. IsSeq(d) /\ Len(d) = 1 /\ d[1] = TextAdded(k)
      BY <3>1, OneIsSeq
    <3>5. KeptOf(f, ids) + 1 = 1 /\ Len(f.values) - KeptOf(f, ids) = 1 /\ \A j \in 1 .. 1 : j = 1
      BY <3>2
    <3>6. OkOps(source, d)
      BY <3>3, <3>4 DEF OkOps
    <3> HIDE DEF d, ids
    <3> QED BY <3>3, <3>4, <3>5, <3>6
  <2>4. CASE ~(said /\ ids = <<>>)
    <3>1. d = <<>>
      BY <2>4 DEF TextAdds
    <3>2. KeptOf(f, ids) = Len(f.values)
      <4> HIDE DEF ids
      <4> QED BY <1>2, <1>3, <2>1, <2>2, <2>4
    <3>3. IsSeq(d) /\ Len(d) = 0
      BY <3>1 DEF IsSeq
    <3> HIDE DEF d, ids
    <3> QED BY <1>2, <3>2, <3>3 DEF OkOps
  <2> QED BY <2>3, <2>4
<1>9. TextChanges(k) = t \o d
  BY DEF TextChanges, TextOps, TextAdds, TextAdded
<1>10. IsSeq(d)
  BY <1>8 DEF OkOps
<1> HIDE DEF t, c, d, ids
<1>11. ASSUME NEW o, OkOps(source, o), NEW K, Keeps(source, Run(source, o), K), f.key \notin K
       PROVE  LET a == Run(source, o)
                  b == Run(source, o \o TextChanges(k))
              IN  OkOps(source, o \o TextChanges(k)) /\ Keeps(a, b, {f.key})
                  /\ Holds(b, f, FALSE, ids, TextPlaces(k))
  <2>1. (o \o FlattenSeq(c)) \o d = o \o TextChanges(k)
    <3>1. IsSeq(o)
      BY <1>11 DEF OkOps
    <3> QED BY <1>5, <1>6, <1>9, <1>10, <3>1, JoinAssoc
  <2>2. /\ Lies(f, ids, TextPlaces(k)) /\ FALSE \in BOOLEAN /\ AllSeqs(c) /\ Len(c) = Len(ids)
        /\ \A j \in 1 .. Len(ids) :
            /\ c[j] = <<>> \/ (/\ c[j] = <<c[j][1]>> /\ c[j][1].kind \in Changing
                               /\ c[j][1].target = ids[j] - 1)
            /\ BecomesValue(f, FALSE, j, ChangedBy(source[ids[j]], c[j]))
        /\ OkOps(source, d) /\ Len(d) = Len(f.values) - KeptOf(f, ids)
        /\ \A j \in 1 .. Len(d) : IsAddition(f, FALSE, TextPlaces(k), KeptOf(f, ids) + j, d[j])
    BY <1>4, <1>6, <1>7, <1>8
  <2> DEFINE p == (o \o FlattenSeq(c)) \o d
  <2>3. OkOps(source, p) /\ Keeps(Run(source, o), Run(source, p), {f.key})
        /\ Holds(Run(source, p), f, FALSE, ids, TextPlaces(k))
    BY <1>11, <2>2, MainDoes
  <2> QED BY <2>1, <2>3
<1>12. IsSeq(TextChanges(k))
  BY <1>5, <1>9, <1>10, JoinFacts
<1> QED BY <1>11, <1>12 DEF Does, f, ids

(* What lies in 1 .. N is finite and made of numbers.                      *)
LEMMA SmallSets ==
  ASSUME NEW N \in Nat, NEW S, S \subseteq 1 .. N
  PROVE  IsFiniteSet(S) /\ \A x \in S : x \in Nat
<1>1. IsFiniteSet(1 .. N)
  BY FS_Interval
<1>2. S \in SUBSET (1 .. N)
  OBVIOUS
<1>3. IsFiniteSet(S)
  BY <1>1, <1>2, FS_Subset
<1>4. \A x \in S : x \in Nat
  OBVIOUS
<1> QED BY <1>3, <1>4

(* A function over the places of a sequence is a sequence.                 *)
LEMMA MadeOf ==
  ASSUME NEW s, IsSeq(s), NEW c, DOMAIN c = DOMAIN s, c = [n \in DOMAIN s |-> c[n]]
  PROVE  IsSeq(c) /\ Len(c) = Len(s)
<1>1. Len(s) \in Nat /\ DOMAIN s = 1 .. Len(s)
  BY SeqFacts
<1>2. DOMAIN c = 1 .. Len(s) /\ c = [n \in 1 .. Len(s) |-> c[n]]
  BY <1>1
<1> QED BY <1>1, <1>2, SeqMade

(* What a field that holds is to a reader of the store.                    *)
LEMMA HeldStands ==
  ASSUME NEW st, WellFormed(st), NEW f, IsSeq(f.values), NEW lifecycle \in BOOLEAN, NEW ids, NEW places,
         Holds(st, f, lifecycle, ids, places)
  PROVE  /\ Stands(st, f)
         /\ ~lifecycle => Stored(st, f.key) = f.values
         /\ lifecycle => \E i \in DOMAIN st : /\ st[i].key.name = f.key /\ st[i].dirty
                                              /\ st[i].deleted <=> f.values = <<>>
<1> DEFINE vs == f.values
           s == LiveIn(st, f.key)
<1>1. Len(s) = Len(vs)
  BY DEF Holds
<1>2. \A j \in 1 .. Len(vs) : IF lifecycle THEN Unpadded(st[s[j]].value) = Unpadded(vs[j])
                              ELSE st[s[j]].value = vs[j]
  BY DEF Holds
<1>3. lifecycle => \E i \in DOMAIN st : /\ st[i].key.name = f.key /\ st[i].dirty
                                        /\ st[i].deleted <=> vs = <<>>
  BY DEF Holds
<1>4. /\ (\A j \in 1 .. Len(vs) : st[s[j]].value = vs[j]) <=> Stored(st, f.key) = vs
      /\ (\A j \in 1 .. Len(vs) : Unpadded(st[s[j]].value) = Unpadded(vs[j]))
               <=> Values(st, f.key) = [j \in DOMAIN vs |-> Unpadded(vs[j])]
  <2> HIDE DEF vs
  <2>1. IsSeq(vs)
    BY DEF vs
  <2> QED BY <1>1, <2>1, StoredIs
<1>5. \A j \in 1 .. Len(vs) : Unpadded(st[s[j]].value) = Unpadded(vs[j])
  <2> HIDE DEF s, vs
  <2> QED BY <1>2
<1>6. Values(st, f.key) = [j \in DOMAIN vs |-> Unpadded(vs[j])]
  BY <1>4, <1>5
<1>7. ~lifecycle => Stored(st, f.key) = vs
  BY <1>2, <1>4
<1> QED BY <1>3, <1>6, <1>7 DEF Stands

(* A store that keeps all but K keeps the others of any larger set.        *)
LEMMA KeptOthers ==
  ASSUME NEW st, NEW K, Keeps(source, st, K), NEW changed, NEW added, K \subseteq changed, K \subseteq added
  PROVE  OthersKept(st, changed, added)
<1>1. /\ Id = 1 .. Len(source) /\ Len(source) \in Nat /\ DOMAIN st = 1 .. Len(st) /\ Len(st) \in Nat
  BY StoreFacts DEF Keeps, Id
<1>2. \A i \in 1 .. Len(source) : source[i].key.name \notin K => st[i] = source[i]
  BY DEF Keeps
<1>3. \A i \in 1 .. Len(st) : i > Len(source) => st[i].key.name \in K
  BY DEF Keeps
<1>4. \A i \in DOMAIN st \ Id : i \in 1 .. Len(st) /\ i > Len(source)
  BY <1>1
<1> QED BY <1>1, <1>2, <1>3, <1>4 DEF OthersKept

(* One word is its own text, unless it is padding.                         *)
LEMMA UnpaddedOne ==
  ASSUME NEW w
  PROVE  /\ w \notin Padded => Unpadded(<<w>>) = <<w>>
         /\ w \in Padded => Unpadded(<<w>>) = <<>>
<1>1. <<w>> # <<>> /\ Last(<<w>>) = w
  BY DEF Last
<1>2. Front(<<w>>) = <<>>
  BY DEF Front
<1> QED BY <1>1, <1>2 DEF Unpadded

-----------------------------------------------------------------------------
(* Chosen are the mappings with a source, written those of them that are   *)
(* neither kept nor the same.                                              *)
LEMMA TextCall ==
  ASSUME ValidOptions(opts), opts.api = "exif_text"
  PROVE  /\ opts.mappings \subseteq 1 .. 4
         /\ IsSeq(TextChosen) /\ DOMAIN TextChosen = 1 .. Len(TextChosen)
         /\ Range(TextChosen) = {k \in opts.mappings : TextSources(k) # {}}
         /\ IsSeq(TextWritten) /\ DOMAIN TextWritten = 1 .. Len(TextWritten)
         /\ Range(TextWritten) = {k \in Range(TextChosen) : ~TextKept(k) /\ ~TextSame(k)}
         /\ \A j, n \in 1 .. Len(TextWritten) : TextWritten[j] = TextWritten[n] => j = n
<1>1. opts.mappings \subseteq 1 .. 4
  <2>1. "exif_text" \notin GpsApis
    BY DEF GpsApis, GpsGroups
  <2>2. DOMAIN ExifTexts = 1 .. 4
    BY DEF ExifTexts
  <2> QED BY <2>1, <2>2 DEF ValidOptions
<1> DEFINE S == {k \in opts.mappings : TextSources(k) # {}}
<1>2. IsFiniteSet(S) /\ \A x \in S : x \in Nat
  BY <1>1, SmallSets
<1>3. TextChosen = Ascending(S)
  BY DEF TextChosen, Chosen
<1>4. IsSeq(TextChosen) /\ DOMAIN TextChosen = 1 .. Len(TextChosen) /\ Range(TextChosen) = S
  <2> HIDE DEF S
  <2> QED BY <1>2, <1>3, AscendingFacts
<1> DEFINE W == {k \in Range(TextChosen) : ~TextKept(k) /\ ~TextSame(k)}
<1>5. IsFiniteSet(W) /\ \A x \in W : x \in Nat
  BY <1>1, <1>4, SmallSets
<1>6. TextWritten = Ascending(W)
  BY DEF TextWritten
<1>7. /\ IsSeq(TextWritten) /\ DOMAIN TextWritten = 1 .. Len(TextWritten) /\ Range(TextWritten) = W
      /\ \A j, n \in 1 .. Len(TextWritten) : TextWritten[j] = TextWritten[n] => j = n
  <2> HIDE DEF W
  <2> QED BY <1>5, <1>6, AscendingFacts
<1> QED BY <1>1, <1>4, <1>7

TextNew == FlattenSeq([n \in DOMAIN TextWritten |-> TextChanges(TextWritten[n])])
TextTask(k) == Task(TextField(k), FALSE, TextNatives(k), TextPlaces(k))

(* The task of a text, by its parts.                                       *)
LEMMA TextTaskFacts ==
  ASSUME NEW k
  PROVE  /\ KeysIn({TextTask(k)}) = {ExifTexts[k].key}
         /\ \A st : Met(st, TextTask(k)) => Holds(st, TextField(k), FALSE, TextNatives(k), TextPlaces(k))
         /\ TextField(k).key = ExifTexts[k].key /\ IsSeq(TextField(k).values)
         /\ Live(TextSource(k)) => TextField(k).values = <<Encoded(k)>>
         /\ ~Live(TextSource(k)) => TextField(k).values = <<>>
<1> DEFINE f == TextField(k)
           t == TextTask(k)
<1>1. /\ f.key = ExifTexts[k].key
      /\ f.values = IF Live(TextSource(k)) THEN <<Encoded(k)>> ELSE <<>>
  BY DEF TextField, Field
<1>2. t.field = f /\ t.lifecycle = FALSE /\ t.ids = TextNatives(k) /\ t.places = TextPlaces(k)
  BY DEF TextTask, Task
<1> HIDE DEF t, f
<1>3. KeysIn({t}) = {f.key}
  BY <1>2 DEF KeysIn
<1>4. \A st : Met(st, t) => Holds(st, f, FALSE, TextNatives(k), TextPlaces(k))
  BY <1>2 DEF Met
<1>5. IsSeq(f.values)
  <2>1. IsSeq(<<>>) /\ IsSeq(<<Encoded(k)>>)
    BY OneIsSeq DEF IsSeq
  <2> QED BY <1>1, <2>1
<1> QED BY <1>1, <1>3, <1>4, <1>5 DEF t, f

(* After the operations of a call every text written stands and nothing    *)
(* else has changed.                                                       *)
LEMMA TextsDone ==
  ASSUME WellFormed(source), ValidOptions(opts), opts.api = "exif_text"
  PROVE  LET st == Run(source, TextNew)
         IN  /\ OkOps(source, TextNew) /\ WellFormed(st)
             /\ Keeps(source, st, {ExifTexts[k].key : k \in Range(TextWritten)})
             /\ \A k \in Range(TextWritten) :
                   /\ Stands(st, TextField(k)) /\ Stored(st, ExifTexts[k].key) = TextField(k).values
<1> DEFINE w == TextWritten
           c == [n \in DOMAIN w |-> TextChanges(w[n])]
           T == [n \in DOMAIN w |-> {TextTask(w[n])}]
           S == UNION {T[n] : n \in 1 .. Len(c)}
           st == Run(source, TextNew)
<1>1. /\ IsSeq(w) /\ DOMAIN w = 1 .. Len(w) /\ Len(w) \in Nat
      /\ \A n \in 1 .. Len(w) : w[n] \in Range(w) /\ w[n] \in 1 .. 4
      /\ \A k \in Range(w) : \E n \in 1 .. Len(w) : w[n] = k
      /\ \A j, n \in 1 .. Len(w) : w[j] = w[n] => j = n
  <2>1. /\ IsSeq(w) /\ DOMAIN w = 1 .. Len(w) /\ Range(w) \subseteq 1 .. 4
        /\ \A j, n \in 1 .. Len(w) : w[j] = w[n] => j = n
    BY TextCall
  <2> HIDE DEF w
  <2>2. \A n \in 1 .. Len(w) : w[n] \in Range(w)
    BY <2>1 DEF Range
  <2>3. \A k \in Range(w) : \E n \in 1 .. Len(w) : w[n] = k
    BY <2>1 DEF Range
  <2> QED BY <2>1, <2>2, <2>3, SeqFacts
<1>2. /\ \A n \in 1 .. Len(w) : c[n] = TextChanges(w[n]) /\ T[n] = {TextTask(w[n])}
  BY <1>1
<1>3. IsSeq(c) /\ Len(c) = Len(w)
  <2>1. DOMAIN c = DOMAIN w /\ c = [n \in DOMAIN w |-> c[n]]
    OBVIOUS
  <2> HIDE DEF c, w
  <2> QED BY <1>1, <2>1, MadeOf
<1> HIDE DEF c, T
<1>4. \A n \in 1 .. Len(w) : DoesAll(c[n], T[n]) /\ IsSeq(c[n])
  <2> SUFFICES ASSUME NEW n \in 1 .. Len(w) PROVE DoesAll(c[n], T[n]) /\ IsSeq(c[n])
    OBVIOUS
  <2> DEFINE k == w[n]
  <2>1. DoesAll(TextChanges(k), {Task(TextField(k), FALSE, TextNatives(k), TextPlaces(k))})
    <3> HIDE DEF k
    <3>1. Does(TextChanges(k), TextField(k), FALSE, TextNatives(k), TextPlaces(k))
      BY TextChangesDo
    <3> QED BY <3>1, OneDoes
  <2>2. DoesAll(c[n], T[n])
    BY <1>2, <2>1 DEF TextTask
  <2> QED BY <2>2 DEF DoesAll
<1>5. \A n, h \in 1 .. Len(w) : n # h => KeysIn(T[n]) \cap KeysIn(T[h]) = {}
  <2> SUFFICES ASSUME NEW n \in 1 .. Len(w), NEW h \in 1 .. Len(w), n # h
               PROVE  KeysIn(T[n]) \cap KeysIn(T[h]) = {}
    OBVIOUS
  <2>1. w[n] # w[h] /\ w[n] \in 1 .. 4 /\ w[h] \in 1 .. 4
    BY <1>1
  <2>2. \A j, k \in 1 .. 4 : j # k => ExifTexts[j].key # ExifTexts[k].key
    <3>1. \A j \in 1 .. 4 : j = 1 \/ j = 2 \/ j = 3 \/ j = 4
      OBVIOUS
    <3>2. ExifTexts[1].key = "exif:9000" /\ ExifTexts[2].key = "exif:A000"
          /\ ExifTexts[3].key = "exif:9286" /\ ExifTexts[4].key = "exif:A436"
      BY DEF ExifTexts
    <3> QED BY <3>1, <3>2
  <2>3. KeysIn(T[n]) = {ExifTexts[w[n]].key} /\ KeysIn(T[h]) = {ExifTexts[w[h]].key}
    BY <1>2, TextTaskFacts
  <2> HIDE DEF w
  <2> QED BY <2>1, <2>2, <2>3
<1>6. DoesAll(TextNew, S)
  <2>1. AllSeqs(c) /\ TextNew = FlattenSeq(c)
    BY <1>3, <1>4 DEF AllSeqs, TextNew, c
  <2> HIDE DEF w
  <2>2. /\ \A n \in 1 .. Len(c) : DoesAll(c[n], T[n])
        /\ \A n, h \in 1 .. Len(c) : n # h => KeysIn(T[n]) \cap KeysIn(T[h]) = {}
    BY <1>3, <1>4, <1>5
  <2>3. DoesAll(FlattenSeq(c), UNION {T[n] : n \in 1 .. Len(c)})
    BY <2>1, <2>2, FlatDoes
  <2> QED BY <2>1, <2>3
<1>7. OkOps(source, TextNew) /\ Keeps(source, st, KeysIn(S)) /\ \A t \in S : Met(st, t)
  <2> HIDE DEF S
  <2> QED BY <1>6, DoneFromNothing
<1>8. S = {TextTask(k) : k \in Range(w)}
  BY <1>1, <1>2, <1>3
<1>9. KeysIn(S) \subseteq {ExifTexts[k].key : k \in Range(w)}
  <2> SUFFICES ASSUME NEW t \in S PROVE t.field.key \in {ExifTexts[k].key : k \in Range(w)}
    BY DEF KeysIn
  <2>1. PICK k \in Range(w) : t = TextTask(k)
    BY <1>8
  <2>2. t.field.key \in KeysIn({TextTask(k)})
    BY <2>1 DEF KeysIn
  <2>3. KeysIn({TextTask(k)}) = {ExifTexts[k].key}
    BY TextTaskFacts
  <2> QED BY <2>1, <2>2, <2>3
<1>10. Keeps(source, st, {ExifTexts[k].key : k \in Range(w)})
  <2> HIDE DEF st, w, S
  <2>1. Keeps(source, source, {})
    BY KeepsItself
  <2> QED BY <1>7, <1>9, <2>1, KeepsOn
<1>11. WellFormed(st)
  BY <1>7 DEF Keeps
<1>12. ASSUME NEW k \in Range(w)
       PROVE  Stands(st, TextField(k)) /\ Stored(st, ExifTexts[k].key) = TextField(k).values
  <2>1. Met(st, TextTask(k))
    BY <1>7, <1>8
  <2> HIDE DEF st, w, S
  <2>2. Holds(st, TextField(k), FALSE, TextNatives(k), TextPlaces(k))
        /\ IsSeq(TextField(k).values) /\ TextField(k).key = ExifTexts[k].key
    BY <2>1, TextTaskFacts
  <2>3. FALSE \in BOOLEAN
    OBVIOUS
  <2>4. Stands(st, TextField(k)) /\ Stored(st, TextField(k).key) = TextField(k).values
    BY <1>11, <2>2, <2>3, HeldStands
  <2> QED BY <2>2, <2>4
<1> QED BY <1>7, <1>10, <1>11, <1>12

(* A version alone in a store says whether it is modern.                   *)
LEMMA ModernIs ==
  ASSUME NEW st, NEW w
  PROVE  /\ Stored(st, "exif:9000") = <<<<w>>>>
               => Len(Stored(st, "exif:9000")) = 1 /\ (Modern(st) <=> w \in Exif3)
         /\ Stored(st, "exif:9000") = <<>> => ~Modern(st)
<1>1. \A v : <<<<w>>>> = <<<<v>>>> <=> v = w
  OBVIOUS
<1>2. \A v : <<>> # <<<<v>>>>
  OBVIOUS
<1>3. Len(<<<<w>>>>) = 1
  BY OneIsSeq
<1> QED BY <1>1, <1>2, <1>3 DEF Modern

(* The version a call starts from is modern if it is read as one.          *)
LEMMA ModernBefore ==
  ASSUME WellFormed(source)
  PROVE  /\ Modern(source) <=> OldVersion \in Exif3
         /\ OldVersion # NoVersion => Stored(source, "exif:9000") = <<<<OldVersion>>>>
<1> DEFINE n == TextNatives(1)
           i == n[1]
           r == Stored(source, "exif:9000")
<1>1. n = Natives("exif:9000", FALSE)
  BY DEF TextNatives, ExifTexts
<1>2. Len(n) = 1 => r = <<source[i].value>>
  BY <1>1, OneLive
<1>3. Len(n) = Len(LiveIn(source, "exif:9000"))
  BY <1>1, NativesFacts
<1>4. r = <<source[i].value>> /\ Len(n) = 1 => (Modern(source) <=> \E w \in Exif3 : source[i].value = <<w>>)
  <2> SUFFICES ASSUME r = <<source[i].value>>
               PROVE  Modern(source) <=> \E w \in Exif3 : source[i].value = <<w>>
    OBVIOUS
  <2> DEFINE u == source[i].value
  <2>1. r = <<u>>
    OBVIOUS
  <2> HIDE DEF u
  <2>2. \A w : <<u>> = <<<<w>>>> <=> u = <<w>>
    OBVIOUS
  <2>3. Modern(source) <=> \E w \in Exif3 : u = <<w>>
    BY <2>1, <2>2 DEF Modern
  <2> QED BY <2>3 DEF u
<1>5. Len(n) # 1 => ~Modern(source)
  <2> SUFFICES ASSUME NEW w, r = <<<<w>>>> PROVE Len(n) = 1
    BY DEF Modern
  <2>1. DOMAIN r = DOMAIN LiveIn(source, "exif:9000")
    BY DEF Stored
  <2>2. IsSeq(LiveIn(source, "exif:9000")) /\ Len(LiveIn(source, "exif:9000")) \in Nat
        /\ DOMAIN LiveIn(source, "exif:9000") = 1 .. Len(LiveIn(source, "exif:9000"))
    BY LiveInFacts
  <2>3. DOMAIN r = 1 .. 1
    <3> HIDE DEF r
    <3>1. DOMAIN <<<<w>>>> = 1 .. 1
      OBVIOUS
    <3> QED BY <3>1
  <2> DEFINE l == Len(LiveIn(source, "exif:9000"))
  <2>4. l \in Nat /\ 1 .. l = 1 .. 1
    BY <2>1, <2>2, <2>3
  <2> HIDE DEF l
  <2>5. l = 1
    <3>1. 1 \in 1 .. l /\ (l \in 1 .. l => l \in 1 .. 1)
      BY <2>4
    <3> QED BY <2>4, <3>1
  <2> QED BY <1>3, <2>5 DEF l
<1>6. \A w : source[i].value = <<w>> => Word(i) = w
  <2> HIDE DEF i
  <2> SUFFICES ASSUME NEW w, source[i].value = <<w>> PROVE source[i].value[1] = w
    BY DEF Word
  <2> QED OBVIOUS
<1>7. \A w \in Exif3 : w \notin Unparsable /\ w # NoVersion
  BY VersionsAssumption
<1>8. OldVersion = IF Len(n) = 1 /\ FourBytes(i) THEN Word(i) ELSE NoVersion
  BY DEF OldVersion
<1> HIDE DEF r, n
<1>9. CASE Len(n) = 1 /\ FourBytes(i)
  <2>1. source[i].value = <<Word(i)>>
    BY <1>9 DEF FourBytes
  <2>2. OldVersion = Word(i) /\ r = <<<<OldVersion>>>>
    BY <1>2, <1>8, <1>9, <2>1
  <2>3. Modern(source) <=> OldVersion \in Exif3
    BY <1>2, <1>4, <1>6, <1>9, <2>1, <2>2
  <2> QED BY <2>2, <2>3 DEF r
<1>10. CASE ~(Len(n) = 1 /\ FourBytes(i))
  <2>1. OldVersion = NoVersion /\ NoVersion \notin Exif3
    BY <1>8, <1>10, VersionsAssumption
  <2>2. ~Modern(source)
    <3> SUFFICES ASSUME Len(n) = 1, NEW w \in Exif3, source[i].value = <<w>> PROVE FourBytes(i)
      BY <1>2, <1>4, <1>5, <1>10
    <3> QED BY <1>6, <1>7 DEF FourBytes
  <2> QED BY <2>1, <2>2
<1> QED BY <1>9, <1>10 DEF r

(* What is stored under the key of a text that was not written.            *)
LEMMA TextUnwritten ==
  ASSUME WellFormed(source), ValidOptions(opts), opts.api = "exif_text",
         NEW k \in 1 .. 4, k \notin Range(TextWritten)
  PROVE  Stored(Run(source, TextNew), ExifTexts[k].key) = Stored(source, ExifTexts[k].key)
<1> DEFINE st == Run(source, TextNew)
           K == {ExifTexts[h].key : h \in Range(TextWritten)}
<1>1. Keeps(source, st, K)
  BY TextsDone
<1>2. ExifTexts[k].key \notin K
  <2>1. Range(TextWritten) \subseteq 1 .. 4
    BY TextCall
  <2>2. \A h \in 1 .. 4 : h = 1 \/ h = 2 \/ h = 3 \/ h = 4
    OBVIOUS
  <2>3. /\ ExifTexts[1].key = "exif:9000" /\ ExifTexts[2].key = "exif:A000"
        /\ ExifTexts[3].key = "exif:9286" /\ ExifTexts[4].key = "exif:A436"
    BY DEF ExifTexts
  <2>4. \A h, g \in 1 .. 4 : ExifTexts[h].key = ExifTexts[g].key => h = g
    BY <2>2, <2>3
  <2> QED BY <2>1, <2>4
<1> HIDE DEF st, K
<1>3. Stored(st, ExifTexts[k].key) = Stored(source, ExifTexts[k].key)
  BY <1>1, <1>2, KeepsOthers
<1> QED BY <1>3 DEF st

(* The version in the store afterwards is the new one, if there is one,    *)
(* and is modern if the new one is.                                        *)
LEMMA VersionReads ==
  ASSUME WellFormed(source), ValidOptions(opts), opts.api = "exif_text", ~VersionKept
  PROVE  LET st == Run(source, TextNew)
         IN  /\ NewVersion # NoVersion => Len(Stored(st, "exif:9000")) = 1
             /\ Modern(st) <=> NewVersion \in Exif3
             /\ 1 \notin Range(TextWritten) => (NewVersion \in Exif3 <=> OldVersion \in Exif3)
<1> DEFINE st == Run(source, TextNew)
           v == Stored(st, "exif:9000")
           i == TextNatives(1)[1]
<1> SUFFICES /\ NewVersion # NoVersion => Len(v) = 1
             /\ Modern(st) <=> NewVersion \in Exif3
             /\ 1 \notin Range(TextWritten) => (NewVersion \in Exif3 <=> OldVersion \in Exif3)
  OBVIOUS
<1>0. ExifTexts[1].key = "exif:9000" /\ 1 # Comment /\ 1 \in 1 .. 4
  BY DEF ExifTexts, Comment
<1>1. 1 \notin Range(TextWritten) => v = Stored(source, "exif:9000")
  BY <1>0, TextUnwritten
<1>2. (v = Stored(source, "exif:9000")) => (Modern(st) <=> Modern(source))
  BY DEF Modern
<1>3. /\ v = <<<<NewVersion>>>> => Len(v) = 1 /\ (Modern(st) <=> NewVersion \in Exif3)
      /\ v = <<>> => ~Modern(st)
  <2> HIDE DEF st
  <2> QED BY ModernIs
<1>4. CASE 1 \notin Range(TextChosen)
  <2>1. NewVersion = OldVersion
    BY <1>4 DEF NewVersion
  <2>2. 1 \notin Range(TextWritten)
    BY <1>4, TextCall
  <2> HIDE DEF v, st
  <2>3. Modern(st) <=> NewVersion \in Exif3
    BY <1>1, <1>2, <2>1, <2>2, ModernBefore
  <2>4. NewVersion # NoVersion => v = <<<<NewVersion>>>>
    BY <1>1, <2>1, <2>2, ModernBefore
  <2> QED BY <1>3, <2>1, <2>3, <2>4
<1>5. CASE 1 \in Range(TextChosen) /\ 1 \notin Range(TextWritten)
  <2>1. TextSame(1)
    BY <1>5, TextCall DEF VersionKept
  <2>2. /\ Live(TextSource(1)) /\ Len(TextNatives(1)) = 1
        /\ source[i].value = Encoded(1)
    BY <1>0, <2>1 DEF TextSame
  <2>3. Encoded(1) = <<Word(TextSource(1))>> /\ NewVersion = Word(TextSource(1))
    BY <1>0, <1>5, <2>2 DEF Encoded, NewVersion
  <2>4. TextNatives(1) = Natives("exif:9000", FALSE)
    BY <1>0 DEF TextNatives
  <2>5. Stored(source, "exif:9000") = <<source[i].value>>
    BY <2>2, <2>4, OneLive
  <2>6. v = <<<<NewVersion>>>>
    <3> HIDE DEF v
    <3> QED BY <1>1, <1>5, <2>2, <2>3, <2>5
  <2> HIDE DEF v, st
  <2> QED BY <1>1, <1>2, <1>3, <1>5, <2>6, ModernBefore
<1>6. CASE 1 \in Range(TextWritten)
  <2>0. 1 \in Range(TextChosen)
    BY <1>6, TextCall
  <2>1. v = TextField(1).values
    BY <1>0, <1>6, TextsDone
  <2>2. CASE Live(TextSource(1))
    <3>1. TextField(1).values = <<Encoded(1)>> /\ Encoded(1) = <<Word(TextSource(1))>>
          /\ NewVersion = Word(TextSource(1))
      BY <1>0, <2>0, <2>2, TextTaskFacts DEF Encoded, NewVersion
    <3>2. v = <<<<NewVersion>>>>
      BY <2>1, <3>1
    <3> HIDE DEF v, st
    <3> QED BY <1>3, <1>6, <3>2
  <2>3. CASE ~Live(TextSource(1))
    <3>1. TextField(1).values = <<>> /\ NewVersion = NoVersion
      BY <2>0, <2>3, TextTaskFacts DEF NewVersion
    <3>2. v = <<>> /\ NoVersion \notin Exif3
      BY <2>1, <3>1, VersionsAssumption
    <3> HIDE DEF v, st
    <3> QED BY <1>3, <1>6, <3>1, <3>2
  <2> QED BY <2>2, <2>3
<1> QED BY <1>4, <1>5, <1>6

(* Titles are written under a modern version and comments under some       *)
(* version.                                                                *)
LEMMA WeighedOk ==
  ASSUME NEW k, FirstBad(Weighed(k)) = "OK"
  PROVE  LET said == k \in Range(TextWritten) /\ Live(TextSource(k))
         IN  /\ said /\ k = Title => NewVersion \in Exif3
             /\ said /\ k = Comment => NewVersion # NoVersion
<1> DEFINE written == k \in Range(TextWritten)
           said == written /\ Live(TextSource(k))
           a == When(written /\ opts.conflict = "FAIL" /\ TextNatives(k) # <<>>, "NATIVE_CONFLICT")
           b == When(said /\ k = Title /\ NewVersion \notin Exif3, "UNSUPPORTED_VERSION")
           c == When(said /\ k = Comment /\ NewVersion = NoVersion, "INCOMPLETE_SOURCE")
           v == <<a, b, c>>
<1>1. Weighed(k) = v
  BY DEF Weighed
<1> HIDE DEF a, b, c
<1>2. v \in Seq({a, b, c}) /\ Len(v) = 3 /\ v[2] = b /\ v[3] = c
  OBVIOUS
<1> HIDE DEF v
<1>3. IsSeq(v)
  BY <1>2 DEF IsSeq
<1>4. v[2] = "OK" /\ v[3] = "OK"
  BY <1>1, <1>2, <1>3, FirstBadOk
<1>5. b = "OK" /\ c = "OK"
  BY <1>2, <1>4
<1> QED BY <1>5 DEF b, c, When

(* A version is not moved across EXIF 3 beside a comment that stays.       *)
LEMMA CrossedOk ==
  ASSUME FirstBad(Crossed) = "OK", 1 \in Range(TextWritten), OldVersion # NoVersion,
         TextNatives(Comment) # <<>>, Comment \notin Range(TextChosen)
  PROVE  OldVersion \in Exif3 <=> NewVersion \in Exif3
<1> DEFINE bad == /\ 1 \in Range(TextWritten) /\ OldVersion # NoVersion
                  /\ (OldVersion \in Exif3) # (NewVersion \in Exif3)
                  /\ TextNatives(Comment) # <<>> /\ Comment \notin Range(TextChosen)
           v == When(bad, "NATIVE_CONFLICT")
<1>1. Crossed = <<v>>
  BY DEF Crossed
<1> HIDE DEF v
<1>2. <<v>>[1] = "OK"
  BY <1>1, OneIsSeq, FirstBadOk
<1>3. v = "OK"
  BY <1>2
<1>4. ~bad
  BY <1>3 DEF v, When
<1> QED BY <1>4

(* The verdicts on the groups, one after the other.                        *)
LEMMA WeighedSeqs ==
  ASSUME ValidOptions(opts), opts.api = "exif_text"
  PROVE  LET c == [n \in DOMAIN TextChosen |-> Weighed(TextChosen[n])]
         IN  /\ AllSeqs(c) /\ Len(c) = Len(TextChosen) /\ Over(TextChosen, Weighed) = FlattenSeq(c)
             /\ \A n \in 1 .. Len(TextChosen) : c[n] = Weighed(TextChosen[n])
             /\ IsSeq(FlattenSeq(c)) /\ IsSeq(Crossed)
<1> DEFINE s == TextChosen
           c == [n \in DOMAIN s |-> Weighed(s[n])]
<1>1. IsSeq(s) /\ DOMAIN s = 1 .. Len(s)
  BY TextCall
<1>2. Over(s, Weighed) = FlattenSeq(c)
  BY DEF Over
<1>3. IsSeq(c) /\ Len(c) = Len(s) /\ \A n \in 1 .. Len(s) : c[n] = Weighed(s[n])
  <2>1. DOMAIN c = DOMAIN s /\ c = [n \in DOMAIN s |-> c[n]] /\ \A n \in 1 .. Len(s) : c[n] = Weighed(s[n])
    BY <1>1
  <2> HIDE DEF c, s
  <2> QED BY <1>1, <2>1, MadeOf
<1>4. \A k : IsSeq(Weighed(k))
  <2> SUFFICES ASSUME NEW k PROVE IsSeq(Weighed(k))
    OBVIOUS
  <2>1. \A x, y, z : IsSeq(<<x, y, z>>)
    <3> SUFFICES ASSUME NEW x, NEW y, NEW z PROVE IsSeq(<<x, y, z>>)
      OBVIOUS
    <3>1. <<x, y, z>> \in Seq({x, y, z})
      OBVIOUS
    <3> QED BY <3>1 DEF IsSeq
  <2> QED BY <2>1 DEF Weighed
<1> HIDE DEF c
<1>5. AllSeqs(c)
  BY <1>3, <1>4 DEF AllSeqs
<1>6. IsSeq(Crossed) /\ IsSeq(FlattenSeq(c))
  BY <1>5, OneIsSeq, FlatSeq DEF Crossed
<1> QED BY <1>2, <1>3, <1>5, <1>6 DEF c

(* Every group that was weighed and found right.                           *)
LEMMA TextVerdicts ==
  ASSUME ValidOptions(opts), opts.api = "exif_text",
         FirstBad(Over(TextChosen, Weighed) \o Crossed) = "OK"
  PROVE  (\A k \in Range(TextChosen) : FirstBad(Weighed(k)) = "OK") /\ FirstBad(Crossed) = "OK"
<1> DEFINE s == TextChosen
           c == [n \in DOMAIN s |-> Weighed(s[n])]
<1>1. /\ AllSeqs(c) /\ Len(c) = Len(s) /\ Over(s, Weighed) = FlattenSeq(c)
      /\ \A n \in 1 .. Len(s) : c[n] = Weighed(s[n])
      /\ IsSeq(FlattenSeq(c)) /\ IsSeq(Crossed)
  BY WeighedSeqs
<1>2. DOMAIN s = 1 .. Len(s)
  BY TextCall
<1> HIDE DEF c
<1>3. FirstBad(FlattenSeq(c)) = "OK" /\ FirstBad(Crossed) = "OK"
  BY <1>1, JoinedOk
<1>4. \A n \in 1 .. Len(s) : FirstBad(c[n]) = "OK"
  BY <1>1, <1>3, FlatOk
<1>5. \A k \in Range(s) : \E n \in 1 .. Len(s) : s[n] = k
  BY <1>2 DEF Range
<1> QED BY <1>1, <1>3, <1>4, <1>5

(* A comment is written in the encoding of the new version.                *)
LEMMA CommentEncoded ==
  ASSUME Live(TextSource(Comment)), NewVersion # NoVersion
  PROVE  /\ AsUtf8(Encoded(Comment)) => NewVersion \in Exif3
         /\ AsUtf16(Encoded(Comment)) => NewVersion \notin Exif3
<1> DEFINE w == Word(TextSource(Comment))
<1>1. Encoded(Comment) = IF w \notin NonAscii THEN <<"ASCII", w>>
                         ELSE IF NewVersion \in Exif3 THEN Utf8Comment(w) ELSE Utf16(w)
  BY DEF Encoded
<1> HIDE DEF w
<1>2. ~AsUtf8(<<"ASCII", w>>) /\ ~AsUtf16(<<"ASCII", w>>)
  BY DEF AsUtf8, AsUtf16
<1>3. ~AsUtf16(Utf8Comment(w)) /\ ~AsUtf8(Utf16(w))
  <2>1. Len(Utf8Comment(w)) = 2 /\ Len(Utf16(w)) = 3
    BY DEF Utf8Comment, Utf16
  <2> QED BY <2>1 DEF AsUtf8, AsUtf16
<1> QED BY <1>1, <1>2, <1>3

(* Texts that agreed with their version agree with the one that stands     *)
(* now, unless it crossed 0300 beside one that was not written.            *)
LEMMA TextsStillAgree ==
  ASSUME WellFormed(source), ValidOptions(opts), opts.api = "exif_text",
         ~VersionKept, ~VersionCrossed, TextsAgree(source), FirstBad(Crossed) = "OK",
         \A k \in Range(TextWritten) :
            Live(TextSource(k)) => /\ k = Title => NewVersion \in Exif3
                                   /\ k = Comment => NewVersion # NoVersion
  PROVE  TextsAgree(Run(source, TextNew))
<1> DEFINE st == Run(source, TextNew)
           cs == Stored(st, "exif:9286")
           before == Stored(source, "exif:9286")
<1>1. /\ Modern(st) <=> NewVersion \in Exif3
      /\ 1 \notin Range(TextWritten) => (NewVersion \in Exif3 <=> OldVersion \in Exif3)
  BY VersionReads
<1>2. Modern(source) <=> OldVersion \in Exif3
  BY ModernBefore
<1>3. /\ ExifTexts[Comment].key = "exif:9286" /\ Comment \in 1 .. 4
      /\ ExifTexts[Title].key = "exif:A436" /\ Title \in 1 .. 4
  BY DEF ExifTexts, Comment, Title
(* Beside a text that is there and is not written, nothing has crossed.    *)
<1>4. ASSUME NEW k \in {Comment, Title}, k \notin Range(TextWritten),
             Stored(source, ExifTexts[k].key) # <<>>
      PROVE  Stored(st, ExifTexts[k].key) = Stored(source, ExifTexts[k].key)
             /\ (Modern(st) <=> Modern(source))
  <2>1. Stored(st, ExifTexts[k].key) = Stored(source, ExifTexts[k].key)
    BY <1>3, <1>4, TextUnwritten
  <2>2. TextNatives(k) # <<>>
    <3> DEFINE n == TextNatives(k)
               key == ExifTexts[k].key
    <3>1. n = Natives(key, FALSE)
      BY DEF TextNatives
    <3> HIDE DEF n
    <3>2. Len(n) = Len(LiveIn(source, key)) /\ IsSeq(n) /\ (n # <<>> <=> LiveOf(source, key) # {})
      BY <3>1, NativesFacts
    <3>3. SUFFICES ASSUME n = <<>> PROVE FALSE
      BY DEF n
    <3> DEFINE l == LiveIn(source, key)
    <3>4. IsSeq(l) /\ DOMAIN l = 1 .. Len(l) /\ Len(l) = 0
      <4>1. Len(n) = 0
        BY <3>3
      <4> QED BY <3>2, <4>1, LiveInFacts
    <3>5. DOMAIN l = {}
      <4> HIDE DEF l
      <4> QED BY <3>4
    <3>6. Stored(source, key) = <<>>
      <4>1. Stored(source, key) = [j \in DOMAIN l |-> source[l[j]].value]
        BY DEF Stored
      <4> HIDE DEF l, key
      <4>2. [j \in DOMAIN l |-> source[l[j]].value] = <<>>
        BY <3>5
      <4> QED BY <4>1, <4>2
    <3> QED BY <1>4, <3>6
  <2>3. ASSUME 1 \in Range(TextWritten) PROVE OldVersion \in Exif3 <=> NewVersion \in Exif3
    <3>1. CASE k = Comment /\ Comment \notin Range(TextChosen) /\ OldVersion # NoVersion
      BY <2>2, <2>3, <3>1, CrossedOk
    <3>2. CASE ~(k = Comment /\ Comment \notin Range(TextChosen) /\ OldVersion # NoVersion)
      BY <1>4, <2>2, <2>3, <3>2 DEF VersionCrossed
    <3> QED BY <3>1, <3>2
  <2> HIDE DEF st
  <2> QED BY <1>1, <1>2, <2>1, <2>3
<1>5. Stored(st, "exif:A436") # <<>> => Modern(st)
  <2>1. CASE Title \in Range(TextWritten)
    <3>1. Stored(st, "exif:A436") = TextField(Title).values
      BY <1>3, <2>1, TextsDone
    <3>2. ~Live(TextSource(Title)) => TextField(Title).values = <<>>
      BY TextTaskFacts
    <3> HIDE DEF st
    <3> QED BY <1>1, <2>1, <3>1, <3>2
  <2>2. CASE Title \notin Range(TextWritten)
    <3>1. Stored(st, "exif:A436") = Stored(source, "exif:A436")
      BY <1>3, <2>2, TextUnwritten
    <3>2. Stored(source, "exif:A436") # <<>> => Modern(source)
      BY DEF TextsAgree
    <3> HIDE DEF st
    <3> QED BY <1>3, <1>4, <2>2, <3>1, <3>2
  <2> QED BY <2>1, <2>2
<1>6. ASSUME NEW c \in Range(cs)
      PROVE  (AsUtf8(c) => Modern(st)) /\ (AsUtf16(c) => ~Modern(st))
  <2>1. CASE Comment \in Range(TextWritten) /\ Live(TextSource(Comment))
    <3>1. cs = <<Encoded(Comment)>>
      BY <1>3, <2>1, TextsDone, TextTaskFacts
    <3>2. c = Encoded(Comment)
      <4> HIDE DEF cs
      <4>1. \E j \in DOMAIN cs : c = cs[j]
        BY <1>6 DEF Range
      <4> QED BY <3>1, <4>1
    <3> HIDE DEF st, cs
    <3> QED BY <1>1, <2>1, <3>2, CommentEncoded
  <2>2. CASE Comment \in Range(TextWritten) /\ ~Live(TextSource(Comment))
    <3>1. cs = <<>>
      BY <1>3, <2>2, TextsDone, TextTaskFacts
    <3> HIDE DEF cs
    <3>2. Range(cs) = {}
      BY <3>1 DEF Range
    <3> QED BY <1>6, <3>2
  <2>3. CASE Comment \notin Range(TextWritten)
    <3>1. cs = before
      BY <1>3, <2>3, TextUnwritten
    <3>2. c \in Range(before) /\ before # <<>>
      <4> HIDE DEF cs, before
      <4>1. c \in Range(before)
        BY <1>6, <3>1
      <4>2. before = <<>> => Range(before) = {}
        BY DEF Range
      <4> QED BY <4>1, <4>2
    <3>3. (AsUtf8(c) => Modern(source)) /\ (AsUtf16(c) => ~Modern(source))
      BY <3>2 DEF TextsAgree
    <3>4. Modern(st) <=> Modern(source)
      BY <1>3, <1>4, <2>3, <3>2
    <3> HIDE DEF st, cs
    <3> QED BY <3>3, <3>4
  <2> QED BY <2>1, <2>2, <2>3
<1> QED BY <1>5, <1>6 DEF TextsAgree

(* A call whose verdicts are good leaves all that is promised of texts.    *)
LEMMA TextsGood ==
  ASSUME WellFormed(source), ValidOptions(opts), opts.api = "exif_text",
         FirstBad(Over(TextChosen, Weighed) \o Crossed) = "OK"
  PROVE  TextsStand(Run(source, TextNew))
<1> DEFINE st == Run(source, TextNew)
           said == {k \in Range(TextWritten) : Live(TextSource(k))}
           field(k) == Field(ExifTexts[k].key, IF k \in said THEN <<Encoded(k)>> ELSE <<>>, <<>>)
           written == {ExifTexts[k].key : k \in Range(TextWritten)}
           w == Word(TextSource(Comment))
           v == Stored(st, "exif:9000")
<1>1. Range(TextWritten) = {k \in Range(TextChosen) : ~TextKept(k) /\ ~TextSame(k)}
  BY TextCall
<1>2. \A k \in Range(TextWritten) : Stands(st, field(k))
  <2> SUFFICES ASSUME NEW k \in Range(TextWritten) PROVE Stands(st, field(k))
    OBVIOUS
  <2>1. field(k) = TextField(k)
    BY DEF TextField
  <2> QED BY <2>1, TextsDone
<1>3. OthersKept(st, written, written)
  <2>1. Keeps(source, st, written)
    BY TextsDone
  <2> HIDE DEF st, written
  <2> QED BY <2>1, KeptOthers
<1>4. \A k \in said : /\ k = Title => NewVersion \in Exif3
                      /\ k = Comment => NewVersion # NoVersion
  <2> SUFFICES ASSUME NEW k \in said PROVE /\ k = Title => NewVersion \in Exif3
                                           /\ k = Comment => NewVersion # NoVersion
    OBVIOUS
  <2>1. FirstBad(Weighed(k)) = "OK"
    BY <1>1, TextVerdicts
  <2> QED BY <2>1, WeighedOk
<1>5. FirstBad(Crossed) = "OK"
  BY TextVerdicts
<1> SUFFICES ASSUME ~VersionKept
             PROVE  /\ Title \in said => Modern(st)
                    /\ Comment \in said => Len(v) = 1
                    /\ Comment \in said /\ w \in NonAscii =>
                          (Modern(st) <=> Values(st, "exif:9286") = <<Utf8Comment(w)>>)
                    /\ Comment \notin Range(TextChosen) /\ TextNatives(Comment) # <<>>
                          /\ OldVersion # NoVersion => (Modern(st) <=> OldVersion \in Exif3)
                    /\ TextsAgree(source) /\ ~VersionCrossed => TextsAgree(st)
  BY <1>2, <1>3 DEF TextsStand
<1>6. /\ NewVersion # NoVersion => Len(v) = 1
      /\ Modern(st) <=> NewVersion \in Exif3
      /\ 1 \notin Range(TextWritten) => (NewVersion \in Exif3 <=> OldVersion \in Exif3)
  BY VersionReads
<1>7. Title \in said => Modern(st)
  <2> HIDE DEF v, st
  <2> QED BY <1>4, <1>6
<1>8. Comment \in said => Len(v) = 1
  <2> HIDE DEF v, st
  <2> QED BY <1>4, <1>6
<1>9. ASSUME Comment \in said, w \in NonAscii
      PROVE  Modern(st) <=> Values(st, "exif:9286") = <<Utf8Comment(w)>>
  <2>1. ExifTexts[Comment].key = "exif:9286"
    BY DEF ExifTexts, Comment
  <2>2. /\ TextField(Comment).values = <<Encoded(Comment)>> /\ TextField(Comment).key = "exif:9286"
        /\ Stands(st, TextField(Comment))
    BY <1>9, <2>1, TextTaskFacts, TextsDone
  <2> DEFINE u == Encoded(Comment)
  <2>3. Values(st, "exif:9286") = <<Unpadded(u)>>
    <3> HIDE DEF u, st
    <3>1. Values(st, "exif:9286") = [j \in DOMAIN <<u>> |-> Unpadded(<<u>>[j])]
      BY <2>2 DEF Stands, u
    <3>2. [j \in DOMAIN <<u>> |-> Unpadded(<<u>>[j])] = <<Unpadded(u)>>
      OBVIOUS
    <3> QED BY <3>1, <3>2
  <2>4. u = IF NewVersion \in Exif3 THEN Utf8Comment(w) ELSE Utf16(w)
    BY <1>9 DEF Encoded
  <2>5. w \notin Padded
    BY <1>9, PaddingIsNoText
  <2>6. Unpadded(Utf8Comment(w)) = Utf8Comment(w) /\ Unpadded(Utf16(w)) = Utf16(w)
    <3>1. Last(Utf8Comment(w)) = w /\ Last(Utf16(w)) = w
      BY DEF Last, Utf8Comment, Utf16
    <3> QED BY <2>5, <3>1 DEF Unpadded
  <2>7. Utf16(w) # Utf8Comment(w)
    <3>1. Len(Utf16(w)) = 3 /\ Len(Utf8Comment(w)) = 2
      BY DEF Utf16, Utf8Comment
    <3> QED BY <3>1
  <2>8. Values(st, "exif:9286") = <<u>>
    BY <2>3, <2>4, <2>6
  <2>9. <<u>> = <<Utf8Comment(w)>> <=> NewVersion \in Exif3
    <3> HIDE DEF u, w
    <3>1. <<u>> = <<Utf8Comment(w)>> <=> u = Utf8Comment(w)
      OBVIOUS
    <3> QED BY <2>4, <2>7, <3>1
  <2> HIDE DEF st, u, w
  <2> QED BY <1>6, <2>8, <2>9
<1>10. ASSUME Comment \notin Range(TextChosen), TextNatives(Comment) # <<>>, OldVersion # NoVersion
       PROVE  Modern(st) <=> OldVersion \in Exif3
  <2>1. 1 \in Range(TextWritten) => (OldVersion \in Exif3 <=> NewVersion \in Exif3)
    BY <1>5, <1>10, CrossedOk
  <2> HIDE DEF v, st
  <2> QED BY <1>6, <2>1
<1>11. TextsAgree(source) /\ ~VersionCrossed => TextsAgree(st)
  <2>1. \A k \in Range(TextWritten) :
           Live(TextSource(k)) => /\ k = Title => NewVersion \in Exif3
                                  /\ k = Comment => NewVersion # NoVersion
    BY <1>4
  <2> QED BY <1>5, <2>1, TextsStillAgree
<1> QED BY <1>7, <1>8, <1>9, <1>10, <1>11

-----------------------------------------------------------------------------
(* The groups of the GPS calls, by their members.                          *)
GroupWith(key) ==
    IF key \in {"gps:1", "gps:2", "gps:7", "gps:29", "gps:19", "gps:20", "gps:9", "gps:8"} THEN 1
    ELSE IF key \in {"gps:3", "gps:4", "gps:12", "gps:13", "gps:21", "gps:22", "gps:10", "gps:18"} THEN 2
    ELSE IF key \in {"gps:5", "gps:6", "gps:14", "gps:15", "gps:23", "gps:24", "gps:11", "gps:27"} THEN 3
    ELSE IF key \in {"gps:16", "gps:17", "gps:25", "gps:26", "gps:30", "gps:28"} THEN 4
    ELSE 5
MemberWith(key) ==
    IF key \in {"gps:2", "gps:4", "gps:6", "gps:29", "gps:13", "gps:15", "gps:17", "gps:20", "gps:22",
                "gps:24", "gps:26"} THEN 2 ELSE 1
GoodGroup(g, k) ==
    /\ IsSeq(g.keys) /\ Len(g.keys) \in {1, 2}
    /\ IsSeq(g.props) /\ Len(g.props) \in {1, 2} /\ (Len(g.props) = 2 => Len(g.keys) = 2)
    /\ \A j \in 1 .. Len(g.keys) : /\ GroupWith(g.keys[j]) = k /\ MemberWith(g.keys[j]) = j
                                   /\ g.keys[j] # VersionTag
HeightGroup == Gps(<<"GPSAltitudeRef", "GPSAltitude">>, <<"gps:5", "gps:6">>, "2.0")

(* Two elements are a sequence.                                            *)
LEMMA PairIsSeq ==
  ASSUME NEW a, NEW b
  PROVE  IsSeq(<<a, b>>) /\ Len(<<a, b>>) = 2 /\ <<a, b>>[1] = a /\ <<a, b>>[2] = b
<1>1. <<a, b>> \in Seq({a, b})
  OBVIOUS
<1> QED BY <1>1 DEF IsSeq

(* A group of one member is a good group.                                  *)
LEMMA OneMember ==
  ASSUME NEW p, NEW a, NEW since, NEW k, GroupWith(a) = k, MemberWith(a) = 1, a # VersionTag
  PROVE  LET g == Gps(<<p>>, <<a>>, since)
         IN  GoodGroup(g, k) /\ (a # "gps:5" => \A j \in 1 .. Len(g.keys) : g.keys[j] # "gps:5")
<1> DEFINE g == Gps(<<p>>, <<a>>, since)
<1>1. g.keys = <<a>> /\ g.props = <<p>>
  BY DEF Gps
<1>2. IsSeq(<<a>>) /\ Len(<<a>>) = 1 /\ IsSeq(<<p>>) /\ Len(<<p>>) = 1 /\ <<a>>[1] = a
  BY OneIsSeq
<1>3. \A j \in 1 .. 1 : j = 1
  OBVIOUS
<1> HIDE DEF g
<1> QED BY <1>1, <1>2, <1>3 DEF GoodGroup, g

(* So is one of two.                                                       *)
LEMMA TwoMembers ==
  ASSUME NEW ps, IsSeq(ps), Len(ps) \in {1, 2}, NEW a, NEW b, NEW since, NEW k,
         GroupWith(a) = k, MemberWith(a) = 1, a # VersionTag,
         GroupWith(b) = k, MemberWith(b) = 2, b # VersionTag
  PROVE  LET g == Gps(ps, <<a, b>>, since)
         IN  /\ GoodGroup(g, k)
             /\ a # "gps:5" /\ b # "gps:5" => \A j \in 1 .. Len(g.keys) : g.keys[j] # "gps:5"
<1> DEFINE g == Gps(ps, <<a, b>>, since)
<1>1. g.keys = <<a, b>> /\ g.props = ps
  BY DEF Gps
<1>2. IsSeq(<<a, b>>) /\ Len(<<a, b>>) = 2 /\ <<a, b>>[1] = a /\ <<a, b>>[2] = b
  BY PairIsSeq
<1>3. \A j \in 1 .. 2 : j = 1 \/ j = 2
  OBVIOUS
<1> HIDE DEF g
<1> QED BY <1>1, <1>2, <1>3 DEF GoodGroup, g

(* A group whose members no height is among.                                *)
Level(g, k) == GoodGroup(g, k) /\ \A j \in 1 .. Len(g.keys) : g.keys[j] # "gps:5"

(* Without a height it is on the level.                                    *)
LEMMA OnesLevel ==
  ASSUME NEW p, NEW a, NEW since, NEW k, GroupWith(a) = k, MemberWith(a) = 1, a # VersionTag, a # "gps:5"
  PROVE  Level(Gps(<<p>>, <<a>>, since), k)
BY OneMember DEF Level

(* The same for two members.                                               *)
LEMMA TwosLevel ==
  ASSUME NEW ps, IsSeq(ps), Len(ps) \in {1, 2}, NEW a, NEW b, NEW since, NEW k,
         GroupWith(a) = k, MemberWith(a) = 1, a # VersionTag, a # "gps:5",
         GroupWith(b) = k, MemberWith(b) = 2, b # VersionTag, b # "gps:5"
  PROVE  Level(Gps(ps, <<a, b>>, since), k)
BY TwoMembers DEF Level

(* The groups of gps: the third is the height.                             *)
LEMMA PositionTable ==
  /\ DOMAIN GpsPosition = 1 .. 3
  /\ Level(GpsPosition[1], 1) /\ Level(GpsPosition[2], 2)
  /\ GpsPosition[3] = HeightGroup
<1>1. Level(Gps(<<"GPSLatitude">>, <<"gps:1", "gps:2">>, "2.0"), 1)
  <2>1. /\ GroupWith("gps:1") = 1 /\ MemberWith("gps:1") = 1
        /\ "gps:1" # VersionTag
        /\ GroupWith("gps:2") = 1 /\ MemberWith("gps:2") = 2
        /\ "gps:2" # VersionTag
    BY DEF GroupWith, MemberWith, VersionTag
  <2>2. IsSeq(<<"GPSLatitude">>) /\ Len(<<"GPSLatitude">>) \in {1, 2}
    BY OneIsSeq
  <2> QED BY <2>1, <2>2, TwosLevel
<1>2. Level(Gps(<<"GPSLongitude">>, <<"gps:3", "gps:4">>, "2.0"), 2)
  <2>1. /\ GroupWith("gps:3") = 2 /\ MemberWith("gps:3") = 1
        /\ "gps:3" # VersionTag
        /\ GroupWith("gps:4") = 2 /\ MemberWith("gps:4") = 2
        /\ "gps:4" # VersionTag
    BY DEF GroupWith, MemberWith, VersionTag
  <2>2. IsSeq(<<"GPSLongitude">>) /\ Len(<<"GPSLongitude">>) \in {1, 2}
    BY OneIsSeq
  <2> QED BY <2>1, <2>2, TwosLevel
<1> DEFINE g1 == Gps(<<"GPSLatitude">>, <<"gps:1", "gps:2">>, "2.0")
<1> DEFINE g2 == Gps(<<"GPSLongitude">>, <<"gps:3", "gps:4">>, "2.0")
<1>7. GpsPosition = <<g1, g2, HeightGroup>>
  BY DEF GpsPosition, HeightGroup
<1> HIDE DEF g1, g2
<1>8. DOMAIN GpsPosition = 1 .. 3 /\ GpsPosition[1] = g1 /\ GpsPosition[2] = g2 /\ GpsPosition[3] = HeightGroup
  BY <1>7
<1> QED BY <1>8, <1>1, <1>2 DEF g1, g2

(* The groups of navigation.                                               *)
LEMMA NavigationTable ==
  /\ DOMAIN GpsNavigation = 1 .. 4
  /\ Level(GpsNavigation[1], 1) /\ Level(GpsNavigation[2], 2) /\ Level(GpsNavigation[3], 3) /\ Level(GpsNavigation[4], 4)
<1>1. Level(Gps(<<"GPSTimeStamp">>, <<"gps:7", "gps:29">>, "2.2"), 1)
  <2>1. /\ GroupWith("gps:7") = 1 /\ MemberWith("gps:7") = 1
        /\ "gps:7" # VersionTag
        /\ GroupWith("gps:29") = 1 /\ MemberWith("gps:29") = 2
        /\ "gps:29" # VersionTag
    BY DEF GroupWith, MemberWith, VersionTag
  <2>2. IsSeq(<<"GPSTimeStamp">>) /\ Len(<<"GPSTimeStamp">>) \in {1, 2}
    BY OneIsSeq
  <2> QED BY <2>1, <2>2, TwosLevel
<1>2. Level(Gps(<<"GPSSpeedRef", "GPSSpeed">>, <<"gps:12", "gps:13">>, ""), 2)
  <2>1. /\ GroupWith("gps:12") = 2 /\ MemberWith("gps:12") = 1
        /\ "gps:12" # VersionTag
        /\ GroupWith("gps:13") = 2 /\ MemberWith("gps:13") = 2
        /\ "gps:13" # VersionTag
    BY DEF GroupWith, MemberWith, VersionTag
  <2>2. IsSeq(<<"GPSSpeedRef", "GPSSpeed">>) /\ Len(<<"GPSSpeedRef", "GPSSpeed">>) \in {1, 2}
    BY PairIsSeq
  <2> QED BY <2>1, <2>2, TwosLevel
<1>3. Level(Gps(<<"GPSTrackRef", "GPSTrack">>, <<"gps:14", "gps:15">>, ""), 3)
  <2>1. /\ GroupWith("gps:14") = 3 /\ MemberWith("gps:14") = 1
        /\ "gps:14" # VersionTag
        /\ GroupWith("gps:15") = 3 /\ MemberWith("gps:15") = 2
        /\ "gps:15" # VersionTag
    BY DEF GroupWith, MemberWith, VersionTag
  <2>2. IsSeq(<<"GPSTrackRef", "GPSTrack">>) /\ Len(<<"GPSTrackRef", "GPSTrack">>) \in {1, 2}
    BY PairIsSeq
  <2> QED BY <2>1, <2>2, TwosLevel
<1>4. Level(Gps(<<"GPSImgDirectionRef", "GPSImgDirection">>, <<"gps:16", "gps:17">>, ""), 4)
  <2>1. /\ GroupWith("gps:16") = 4 /\ MemberWith("gps:16") = 1
        /\ "gps:16" # VersionTag
        /\ GroupWith("gps:17") = 4 /\ MemberWith("gps:17") = 2
        /\ "gps:17" # VersionTag
    BY DEF GroupWith, MemberWith, VersionTag
  <2>2. IsSeq(<<"GPSImgDirectionRef", "GPSImgDirection">>) /\ Len(<<"GPSImgDirectionRef", "GPSImgDirection">>) \in {1, 2}
    BY PairIsSeq
  <2> QED BY <2>1, <2>2, TwosLevel
<1> DEFINE g1 == Gps(<<"GPSTimeStamp">>, <<"gps:7", "gps:29">>, "2.2")
<1> DEFINE g2 == Gps(<<"GPSSpeedRef", "GPSSpeed">>, <<"gps:12", "gps:13">>, "")
<1> DEFINE g3 == Gps(<<"GPSTrackRef", "GPSTrack">>, <<"gps:14", "gps:15">>, "")
<1> DEFINE g4 == Gps(<<"GPSImgDirectionRef", "GPSImgDirection">>, <<"gps:16", "gps:17">>, "")
<1>7. GpsNavigation = <<g1, g2, g3, g4>>
  BY DEF GpsNavigation
<1> HIDE DEF g1, g2, g3, g4
<1>8. DOMAIN GpsNavigation = 1 .. 4 /\ GpsNavigation[1] = g1 /\ GpsNavigation[2] = g2 /\ GpsNavigation[3] = g3 /\ GpsNavigation[4] = g4
  BY <1>7
<1> QED BY <1>8, <1>1, <1>2, <1>3, <1>4 DEF g1, g2, g3, g4

(* The groups of destination.                                              *)
LEMMA DestinationTable ==
  /\ DOMAIN GpsDestination = 1 .. 4
  /\ Level(GpsDestination[1], 1) /\ Level(GpsDestination[2], 2) /\ Level(GpsDestination[3], 3) /\ Level(GpsDestination[4], 4)
<1>1. Level(Gps(<<"GPSDestLatitude">>, <<"gps:19", "gps:20">>, ""), 1)
  <2>1. /\ GroupWith("gps:19") = 1 /\ MemberWith("gps:19") = 1
        /\ "gps:19" # VersionTag
        /\ GroupWith("gps:20") = 1 /\ MemberWith("gps:20") = 2
        /\ "gps:20" # VersionTag
    BY DEF GroupWith, MemberWith, VersionTag
  <2>2. IsSeq(<<"GPSDestLatitude">>) /\ Len(<<"GPSDestLatitude">>) \in {1, 2}
    BY OneIsSeq
  <2> QED BY <2>1, <2>2, TwosLevel
<1>2. Level(Gps(<<"GPSDestLongitude">>, <<"gps:21", "gps:22">>, ""), 2)
  <2>1. /\ GroupWith("gps:21") = 2 /\ MemberWith("gps:21") = 1
        /\ "gps:21" # VersionTag
        /\ GroupWith("gps:22") = 2 /\ MemberWith("gps:22") = 2
        /\ "gps:22" # VersionTag
    BY DEF GroupWith, MemberWith, VersionTag
  <2>2. IsSeq(<<"GPSDestLongitude">>) /\ Len(<<"GPSDestLongitude">>) \in {1, 2}
    BY OneIsSeq
  <2> QED BY <2>1, <2>2, TwosLevel
<1>3. Level(Gps(<<"GPSDestBearingRef", "GPSDestBearing">>, <<"gps:23", "gps:24">>, ""), 3)
  <2>1. /\ GroupWith("gps:23") = 3 /\ MemberWith("gps:23") = 1
        /\ "gps:23" # VersionTag
        /\ GroupWith("gps:24") = 3 /\ MemberWith("gps:24") = 2
        /\ "gps:24" # VersionTag
    BY DEF GroupWith, MemberWith, VersionTag
  <2>2. IsSeq(<<"GPSDestBearingRef", "GPSDestBearing">>) /\ Len(<<"GPSDestBearingRef", "GPSDestBearing">>) \in {1, 2}
    BY PairIsSeq
  <2> QED BY <2>1, <2>2, TwosLevel
<1>4. Level(Gps(<<"GPSDestDistanceRef", "GPSDestDistance">>, <<"gps:25", "gps:26">>, ""), 4)
  <2>1. /\ GroupWith("gps:25") = 4 /\ MemberWith("gps:25") = 1
        /\ "gps:25" # VersionTag
        /\ GroupWith("gps:26") = 4 /\ MemberWith("gps:26") = 2
        /\ "gps:26" # VersionTag
    BY DEF GroupWith, MemberWith, VersionTag
  <2>2. IsSeq(<<"GPSDestDistanceRef", "GPSDestDistance">>) /\ Len(<<"GPSDestDistanceRef", "GPSDestDistance">>) \in {1, 2}
    BY PairIsSeq
  <2> QED BY <2>1, <2>2, TwosLevel
<1> DEFINE g1 == Gps(<<"GPSDestLatitude">>, <<"gps:19", "gps:20">>, "")
<1> DEFINE g2 == Gps(<<"GPSDestLongitude">>, <<"gps:21", "gps:22">>, "")
<1> DEFINE g3 == Gps(<<"GPSDestBearingRef", "GPSDestBearing">>, <<"gps:23", "gps:24">>, "")
<1> DEFINE g4 == Gps(<<"GPSDestDistanceRef", "GPSDestDistance">>, <<"gps:25", "gps:26">>, "")
<1>7. GpsDestination = <<g1, g2, g3, g4>>
  BY DEF GpsDestination
<1> HIDE DEF g1, g2, g3, g4
<1>8. DOMAIN GpsDestination = 1 .. 4 /\ GpsDestination[1] = g1 /\ GpsDestination[2] = g2 /\ GpsDestination[3] = g3 /\ GpsDestination[4] = g4
  BY <1>7
<1> QED BY <1>8, <1>1, <1>2, <1>3, <1>4 DEF g1, g2, g3, g4

(* The groups of quality.                                                  *)
LEMMA QualityTable ==
  /\ DOMAIN GpsQuality = 1 .. 5
  /\ Level(GpsQuality[1], 1) /\ Level(GpsQuality[2], 2) /\ Level(GpsQuality[3], 3) /\ Level(GpsQuality[4], 4) /\ Level(GpsQuality[5], 5)
<1>1. Level(Gps(<<"GPSStatus">>, <<"gps:9">>, ""), 1)
  <2>1. /\ GroupWith("gps:9") = 1 /\ MemberWith("gps:9") = 1
        /\ "gps:9" # VersionTag
    BY DEF GroupWith, MemberWith, VersionTag
  <2> QED BY <2>1, OnesLevel
<1>2. Level(Gps(<<"GPSMeasureMode">>, <<"gps:10">>, ""), 2)
  <2>1. /\ GroupWith("gps:10") = 2 /\ MemberWith("gps:10") = 1
        /\ "gps:10" # VersionTag
    BY DEF GroupWith, MemberWith, VersionTag
  <2> QED BY <2>1, OnesLevel
<1>3. Level(Gps(<<"GPSDOP">>, <<"gps:11">>, ""), 3)
  <2>1. /\ GroupWith("gps:11") = 3 /\ MemberWith("gps:11") = 1
        /\ "gps:11" # VersionTag
    BY DEF GroupWith, MemberWith, VersionTag
  <2> QED BY <2>1, OnesLevel
<1>4. Level(Gps(<<"GPSDifferential">>, <<"gps:30">>, "2.2"), 4)
  <2>1. /\ GroupWith("gps:30") = 4 /\ MemberWith("gps:30") = 1
        /\ "gps:30" # VersionTag
    BY DEF GroupWith, MemberWith, VersionTag
  <2> QED BY <2>1, OnesLevel
<1>5. Level(Gps(<<"GPSHPositioningError">>, <<"gps:31">>, "2.3"), 5)
  <2>1. /\ GroupWith("gps:31") = 5 /\ MemberWith("gps:31") = 1
        /\ "gps:31" # VersionTag
    BY DEF GroupWith, MemberWith, VersionTag
  <2> QED BY <2>1, OnesLevel
<1> DEFINE g1 == Gps(<<"GPSStatus">>, <<"gps:9">>, "")
<1> DEFINE g2 == Gps(<<"GPSMeasureMode">>, <<"gps:10">>, "")
<1> DEFINE g3 == Gps(<<"GPSDOP">>, <<"gps:11">>, "")
<1> DEFINE g4 == Gps(<<"GPSDifferential">>, <<"gps:30">>, "2.2")
<1> DEFINE g5 == Gps(<<"GPSHPositioningError">>, <<"gps:31">>, "2.3")
<1>7. GpsQuality = <<g1, g2, g3, g4, g5>>
  BY DEF GpsQuality
<1> HIDE DEF g1, g2, g3, g4, g5
<1>8. DOMAIN GpsQuality = 1 .. 5 /\ GpsQuality[1] = g1 /\ GpsQuality[2] = g2 /\ GpsQuality[3] = g3 /\ GpsQuality[4] = g4 /\ GpsQuality[5] = g5
  BY <1>7
<1> QED BY <1>8, <1>1, <1>2, <1>3, <1>4, <1>5 DEF g1, g2, g3, g4, g5

(* The groups of text.                                                     *)
LEMMA TextTable ==
  /\ DOMAIN GpsText = 1 .. 4
  /\ Level(GpsText[1], 1) /\ Level(GpsText[2], 2) /\ Level(GpsText[3], 3) /\ Level(GpsText[4], 4)
<1>1. Level(Gps(<<"GPSSatellites">>, <<"gps:8">>, ""), 1)
  <2>1. /\ GroupWith("gps:8") = 1 /\ MemberWith("gps:8") = 1
        /\ "gps:8" # VersionTag
    BY DEF GroupWith, MemberWith, VersionTag
  <2> QED BY <2>1, OnesLevel
<1>2. Level(Gps(<<"GPSMapDatum">>, <<"gps:18">>, ""), 2)
  <2>1. /\ GroupWith("gps:18") = 2 /\ MemberWith("gps:18") = 1
        /\ "gps:18" # VersionTag
    BY DEF GroupWith, MemberWith, VersionTag
  <2> QED BY <2>1, OnesLevel
<1>3. Level(Gps(<<"GPSProcessingMethod">>, <<"gps:27">>, "2.2"), 3)
  <2>1. /\ GroupWith("gps:27") = 3 /\ MemberWith("gps:27") = 1
        /\ "gps:27" # VersionTag
    BY DEF GroupWith, MemberWith, VersionTag
  <2> QED BY <2>1, OnesLevel
<1>4. Level(Gps(<<"GPSAreaInformation">>, <<"gps:28">>, "2.2"), 4)
  <2>1. /\ GroupWith("gps:28") = 4 /\ MemberWith("gps:28") = 1
        /\ "gps:28" # VersionTag
    BY DEF GroupWith, MemberWith, VersionTag
  <2> QED BY <2>1, OnesLevel
<1> DEFINE g1 == Gps(<<"GPSSatellites">>, <<"gps:8">>, "")
<1> DEFINE g2 == Gps(<<"GPSMapDatum">>, <<"gps:18">>, "")
<1> DEFINE g3 == Gps(<<"GPSProcessingMethod">>, <<"gps:27">>, "2.2")
<1> DEFINE g4 == Gps(<<"GPSAreaInformation">>, <<"gps:28">>, "2.2")
<1>7. GpsText = <<g1, g2, g3, g4>>
  BY DEF GpsText
<1> HIDE DEF g1, g2, g3, g4
<1>8. DOMAIN GpsText = 1 .. 4 /\ GpsText[1] = g1 /\ GpsText[2] = g2 /\ GpsText[3] = g3 /\ GpsText[4] = g4
  BY <1>7
<1> QED BY <1>8, <1>1, <1>2, <1>3, <1>4 DEF g1, g2, g3, g4

(* The height and its reference are a good group.                          *)
LEMMA HeightsTable == GoodGroup(HeightGroup, 3) /\ HeightGroup.keys = <<"gps:5", "gps:6">> /\ Len(HeightGroup.props) = 2
<1>1. /\ GroupWith("gps:5") = 3 /\ MemberWith("gps:5") = 1 /\ "gps:5" # VersionTag
      /\ GroupWith("gps:6") = 3 /\ MemberWith("gps:6") = 2 /\ "gps:6" # VersionTag
  BY DEF GroupWith, MemberWith, VersionTag
<1>2. IsSeq(<<"GPSAltitudeRef", "GPSAltitude">>) /\ Len(<<"GPSAltitudeRef", "GPSAltitude">>) = 2
  BY PairIsSeq
<1>3. HeightGroup.keys = <<"gps:5", "gps:6">> /\ HeightGroup.props = <<"GPSAltitudeRef", "GPSAltitude">>
  BY DEF HeightGroup, Gps
<1> QED BY <1>1, <1>2, <1>3, TwoMembers DEF HeightGroup

(* Every group of every GPS call is good, and one alone has a height.      *)
LEMMA AnyTable ==
  ASSUME NEW api \in GpsApis
  PROVE  /\ DOMAIN GpsGroups[api] \subseteq 1 .. 5
         /\ \A k \in DOMAIN GpsGroups[api] :
               /\ GoodGroup(GpsGroups[api][k], k)
               /\ \A j \in 1 .. Len(GpsGroups[api][k].keys) :
                     GpsGroups[api][k].keys[j] = "gps:5" =>
                        api = "gps" /\ k = 3 /\ j = 1 /\ GpsGroups[api][k] = HeightGroup
<1>1. CASE api = "gps"
  <2>1. GpsGroups[api] = GpsPosition
    BY <1>1 DEF GpsGroups
  <2>2. \A k \in 1 .. 3 : k = 1 \/ k = 2 \/ k = 3
    OBVIOUS
  <2>3. \A j \in 1 .. Len(HeightGroup.keys) : HeightGroup.keys[j] = "gps:5" => j = 1
    <3>1. Len(HeightGroup.keys) = 2 /\ HeightGroup.keys[2] = "gps:6" /\ \A j \in 1 .. 2 : j = 1 \/ j = 2
      BY HeightsTable
    <3> QED BY <3>1
  <2> QED BY <1>1, <2>1, <2>2, <2>3, HeightsTable, PositionTable DEF Level
<1>2. CASE api = "gps_navigation"
  <2>1. GpsGroups[api] = GpsNavigation
    BY <1>2 DEF GpsGroups
  <2>2. \A k \in 1 .. 4 : k = 1 \/ k = 2 \/ k = 3 \/ k = 4
    OBVIOUS
  <2>3. DOMAIN GpsNavigation \subseteq 1 .. 5 /\ \A k \in DOMAIN GpsNavigation : Level(GpsNavigation[k], k)
    BY <2>2, NavigationTable
  <2>4. DOMAIN GpsGroups[api] \subseteq 1 .. 5 /\ \A k \in DOMAIN GpsGroups[api] : Level(GpsGroups[api][k], k)
    BY <2>1, <2>3
  <2> QED BY <2>4 DEF Level
<1>3. CASE api = "gps_destination"
  <2>1. GpsGroups[api] = GpsDestination
    BY <1>3 DEF GpsGroups
  <2>2. \A k \in 1 .. 4 : k = 1 \/ k = 2 \/ k = 3 \/ k = 4
    OBVIOUS
  <2>3. DOMAIN GpsDestination \subseteq 1 .. 5 /\ \A k \in DOMAIN GpsDestination : Level(GpsDestination[k], k)
    BY <2>2, DestinationTable
  <2>4. DOMAIN GpsGroups[api] \subseteq 1 .. 5 /\ \A k \in DOMAIN GpsGroups[api] : Level(GpsGroups[api][k], k)
    BY <2>1, <2>3
  <2> QED BY <2>4 DEF Level
<1>4. CASE api = "gps_quality"
  <2>1. GpsGroups[api] = GpsQuality
    BY <1>4 DEF GpsGroups
  <2>2. \A k \in 1 .. 5 : k = 1 \/ k = 2 \/ k = 3 \/ k = 4 \/ k = 5
    OBVIOUS
  <2>3. DOMAIN GpsQuality \subseteq 1 .. 5 /\ \A k \in DOMAIN GpsQuality : Level(GpsQuality[k], k)
    BY <2>2, QualityTable
  <2>4. DOMAIN GpsGroups[api] \subseteq 1 .. 5 /\ \A k \in DOMAIN GpsGroups[api] : Level(GpsGroups[api][k], k)
    BY <2>1, <2>3
  <2> QED BY <2>4 DEF Level
<1>5. CASE api = "gps_text"
  <2>1. GpsGroups[api] = GpsText
    BY <1>5 DEF GpsGroups
  <2>2. \A k \in 1 .. 4 : k = 1 \/ k = 2 \/ k = 3 \/ k = 4
    OBVIOUS
  <2>3. DOMAIN GpsText \subseteq 1 .. 5 /\ \A k \in DOMAIN GpsText : Level(GpsText[k], k)
    BY <2>2, TextTable
  <2>4. DOMAIN GpsGroups[api] \subseteq 1 .. 5 /\ \A k \in DOMAIN GpsGroups[api] : Level(GpsGroups[api][k], k)
    BY <2>1, <2>3
  <2> QED BY <2>4 DEF Level
<1>6. api \in {"gps", "gps_navigation", "gps_destination", "gps_quality", "gps_text"}
  BY DEF GpsApis, GpsGroups
<1> QED BY <1>1, <1>2, <1>3, <1>4, <1>5, <1>6

(* The same for the call that runs.                                        *)
LEMMA GpsTable ==
  ASSUME opts.api \in GpsApis
  PROVE  /\ DOMAIN GpsGroups[opts.api] \subseteq 1 .. 5
         /\ \A k \in DOMAIN GpsGroups[opts.api] :
               /\ GoodGroup(GpsGroup(k), k)
               /\ \A j \in 1 .. Len(GpsGroup(k).keys) :
                     GpsGroup(k).keys[j] = "gps:5" =>
                        opts.api = "gps" /\ k = 3 /\ j = 1 /\ GpsGroup(k) = HeightGroup
BY AnyTable DEF GpsGroup

(* What a GPS group writes is a GPS tag.                                   *)
LEMMA GpsKeyIsTag ==
  ASSUME opts.api \in GpsApis, NEW k \in DOMAIN GpsGroups[opts.api], NEW j \in 1 .. Len(GpsGroup(k).keys)
  PROVE  GpsGroup(k).keys[j] \in GpsTags
<1>1. GpsGroup(k) \in Range(GpsGroups[opts.api])
  BY DEF Range, GpsGroup
<1>2. DOMAIN GpsGroup(k).keys = 1 .. Len(GpsGroup(k).keys)
  BY GpsTable, SeqFacts DEF GoodGroup
<1>3. GpsGroup(k).keys[j] \in Range(GpsGroup(k).keys)
  BY <1>2 DEF Range
<1> QED BY <1>1, <1>3 DEF GpsTags

-----------------------------------------------------------------------------
(* Groups in the order of their numbers, and what is done for each.        *)
LEMMA ListOf ==
  ASSUME NEW N \in Nat, NEW S, S \subseteq 1 .. N
  PROVE  LET s == Ascending(S)
         IN  /\ IsSeq(s) /\ Len(s) \in Nat /\ DOMAIN s = 1 .. Len(s) /\ Range(s) = S
             /\ \A j \in 1 .. Len(s) : s[j] \in S
             /\ \A i \in S : \E j \in 1 .. Len(s) : s[j] = i
             /\ \A j, k \in 1 .. Len(s) : s[j] = s[k] => j = k
             /\ s = <<>> <=> S = {}
<1> DEFINE s == Ascending(S)
<1>1. IsFiniteSet(S) /\ \A x \in S : x \in Nat
  BY SmallSets
<1>2. /\ IsSeq(s) /\ Len(s) \in Nat /\ DOMAIN s = 1 .. Len(s) /\ Range(s) = S
      /\ \A j \in 1 .. Len(s) : s[j] \in S
      /\ \A i \in S : \E j \in 1 .. Len(s) : s[j] = i
      /\ \A j, k \in 1 .. Len(s) : s[j] = s[k] => j = k
  BY <1>1, AscendingFacts
<1> HIDE DEF s
<1>3. s = <<>> <=> S = {}
  <2>1. s = <<>> => S = {}
    BY <1>2
  <2>2. S = {} => Len(s) = 0
    BY <1>2
  <2>3. s = [j \in 1 .. Len(s) |-> s[j]]
    BY <1>2, SeqFacts
  <2>4. Len(s) = 0 => s = <<>>
    BY <2>3
  <2> QED BY <2>1, <2>2, <2>4
<1> QED BY <1>2, <1>3 DEF s

(* Lists of verdicts, one for each element of a sequence, are lists; good  *)
(* in turn, each is good.                                                  *)
LEMMA EachOk ==
  ASSUME NEW s, IsSeq(s), NEW c, DOMAIN c = DOMAIN s, c = [n \in DOMAIN s |-> c[n]],
         \A n \in DOMAIN s : IsSeq(c[n])
  PROVE  /\ AllSeqs(c) /\ Len(c) = Len(s) /\ IsSeq(FlattenSeq(c))
         /\ FirstBad(FlattenSeq(c)) = "OK" => \A n \in DOMAIN s : FirstBad(c[n]) = "OK"
<1>1. IsSeq(c) /\ Len(c) = Len(s) /\ DOMAIN s = 1 .. Len(s)
  BY MadeOf, SeqFacts
<1>2. AllSeqs(c)
  BY <1>1 DEF AllSeqs
<1>3. IsSeq(FlattenSeq(c))
  BY <1>2, FlatSeq
<1> QED BY <1>1, <1>2, <1>3, FlatOk

(* As FlatDoes, for tasks collected in one set.                            *)
LEMMA FlatInto ==
  ASSUME WellFormed(source), NEW c, NEW U, AllSeqs(c), \A n \in 1 .. Len(c) : DoesAll(c[n], U[n]),
         \A n, k \in 1 .. Len(c) : n # k => KeysIn(U[n]) \cap KeysIn(U[k]) = {},
         NEW W, \A t : t \in W <=> \E n \in 1 .. Len(c) : t \in U[n]
  PROVE  DoesAll(FlattenSeq(c), W)
<1>1. DoesAll(FlattenSeq(c), UNION {U[n] : n \in 1 .. Len(c)})
  BY FlatDoes
<1>2. W = UNION {U[n] : n \in 1 .. Len(c)}
  OBVIOUS
<1> QED BY <1>1, <1>2

(* The same for operations listed in the order of a sequence.              *)
LEMMA EachDoes ==
  ASSUME WellFormed(source), NEW s, IsSeq(s), \A j, n \in DOMAIN s : s[j] = s[n] => j = n,
         NEW c, IsSeq(c), DOMAIN c = DOMAIN s, NEW T,
         \A n \in DOMAIN s : DoesAll(c[n], T[s[n]]),
         \A a, b \in Range(s) : a # b => KeysIn(T[a]) \cap KeysIn(T[b]) = {},
         NEW W, \A t : t \in W <=> \E k \in Range(s) : t \in T[k]
  PROVE  DoesAll(FlattenSeq(c), W)
<1> DEFINE U == [n \in 1 .. Len(c) |-> T[s[n]]]
<1>1. DOMAIN s = 1 .. Len(s) /\ DOMAIN c = 1 .. Len(c)
  BY SeqFacts
<1>2. \A n \in DOMAIN s : IsSeq(c[n])
  BY DEF DoesAll
<1>3. \A n \in 1 .. Len(c) : U[n] = T[s[n]]
  OBVIOUS
<1> HIDE DEF U
<1>4. AllSeqs(c) /\ \A n \in 1 .. Len(c) : DoesAll(c[n], U[n])
  BY <1>1, <1>2, <1>3 DEF AllSeqs
<1>5. \A n \in 1 .. Len(c) : s[n] \in Range(s)
  BY <1>1 DEF Range
<1>6. \A k \in Range(s) : \E n \in 1 .. Len(c) : s[n] = k
  BY <1>1 DEF Range
<1>7. \A n, k \in 1 .. Len(c) : n # k => KeysIn(U[n]) \cap KeysIn(U[k]) = {}
  <2> SUFFICES ASSUME NEW n \in 1 .. Len(c), NEW k \in 1 .. Len(c), n # k
               PROVE  KeysIn(U[n]) \cap KeysIn(U[k]) = {}
    OBVIOUS
  <2>1. s[n] # s[k] /\ s[n] \in Range(s) /\ s[k] \in Range(s)
    BY <1>1, <1>5
  <2> QED BY <1>3, <2>1
<1>8. \A t : t \in W <=> \E n \in 1 .. Len(c) : t \in U[n]
  BY <1>3, <1>5, <1>6
<1>9. /\ \A n \in 1 .. Len(c) : DoesAll(c[n], U[n])
      /\ \A n, k \in 1 .. Len(c) : n # k => KeysIn(U[n]) \cap KeysIn(U[k]) = {}
  BY <1>4, <1>7
<1> QED BY <1>4, <1>8, <1>9, FlatInto

(* The entries of a name, in order.                                        *)
LEMMA NamedInOrder ==
  ASSUME WellFormed(source), NEW key
  PROVE  InOrder(Named(key)) = Natives(key, FALSE)
BY DEF InOrder, Named, Natives, Live

(* The call, and its groups.                                               *)
LEMMA GpsCall ==
  ASSUME ValidOptions(opts), opts.api \in GpsApis
  PROVE  /\ opts.mappings \subseteq DOMAIN GpsGroups[opts.api] /\ DOMAIN GpsGroups[opts.api] \subseteq 1 .. 5
         /\ IsSeq(GpsChosen) /\ Range(GpsChosen) = {k \in opts.mappings : GpsSpeaks(k)}
         /\ IsSeq(GpsWritten) /\ Range(GpsWritten) = {k \in Range(GpsChosen) : ~GpsKept(k)}
         /\ \A j, n \in DOMAIN GpsWritten : GpsWritten[j] = GpsWritten[n] => j = n
         /\ IsSeq(GpsPresent(GpsChosen)) /\ Range(GpsPresent(GpsChosen)) = {k \in Range(GpsChosen) : Present(k)}
         /\ IsSeq(GpsPresent(GpsWritten)) /\ Range(GpsPresent(GpsWritten)) = {k \in Range(GpsWritten) : Present(k)}
         /\ NeedVersion <=> \E k \in Range(GpsWritten) : Present(k)
<1>1. DOMAIN GpsGroups[opts.api] \subseteq 1 .. 5
  BY GpsTable
<1>2. opts.mappings \subseteq DOMAIN GpsGroups[opts.api]
  <2>1. opts.api \notin {"xmp", "xmp_iptc", "iptc_to_xmp", "iptc_dates_to_xmp", "exif_text"}
    BY DEF GpsApis, GpsGroups
  <2> QED BY <2>1 DEF ValidOptions
<1> DEFINE C == {k \in opts.mappings : GpsSpeaks(k)}
           W == {k \in Range(GpsChosen) : ~GpsKept(k)}
           P == {k \in Range(GpsChosen) : Present(k)}
           Q == {k \in Range(GpsWritten) : Present(k)}
<1>3. GpsChosen = Ascending(C) /\ GpsWritten = Ascending(W)
      /\ GpsPresent(GpsChosen) = Ascending(P) /\ GpsPresent(GpsWritten) = Ascending(Q)
  BY DEF GpsChosen, Chosen, GpsWritten, GpsPresent
<1>4. IsSeq(GpsChosen) /\ Range(GpsChosen) = C /\ C \subseteq 1 .. 5
  <2>1. C \subseteq 1 .. 5
    BY <1>1, <1>2
  <2> HIDE DEF C
  <2>2. 5 \in Nat
    OBVIOUS
  <2>3. /\ IsSeq(Ascending(C)) /\ Range(Ascending(C)) = C /\ DOMAIN Ascending(C) = 1 .. Len(Ascending(C))
        /\ \A j, n \in 1 .. Len(Ascending(C)) : Ascending(C)[j] = Ascending(C)[n] => j = n
        /\ Ascending(C) = <<>> <=> C = {}
    BY <2>1, <2>2, ListOf
  <2> QED BY <1>3, <2>1, <2>3
<1>5. /\ IsSeq(GpsWritten) /\ Range(GpsWritten) = W /\ W \subseteq 1 .. 5
      /\ \A j, n \in DOMAIN GpsWritten : GpsWritten[j] = GpsWritten[n] => j = n
  <2>1. W \subseteq 1 .. 5
    BY <1>4
  <2> HIDE DEF W
  <2>2. 5 \in Nat
    OBVIOUS
  <2>3. /\ IsSeq(Ascending(W)) /\ Range(Ascending(W)) = W /\ DOMAIN Ascending(W) = 1 .. Len(Ascending(W))
        /\ \A j, n \in 1 .. Len(Ascending(W)) : Ascending(W)[j] = Ascending(W)[n] => j = n
        /\ Ascending(W) = <<>> <=> W = {}
    BY <2>1, <2>2, ListOf
  <2> QED BY <1>3, <2>1, <2>3
<1>6. IsSeq(GpsPresent(GpsChosen)) /\ Range(GpsPresent(GpsChosen)) = P
  <2>1. P \subseteq 1 .. 5
    BY <1>4
  <2> HIDE DEF P
  <2>2. 5 \in Nat
    OBVIOUS
  <2>3. /\ IsSeq(Ascending(P)) /\ Range(Ascending(P)) = P /\ DOMAIN Ascending(P) = 1 .. Len(Ascending(P))
        /\ \A j, n \in 1 .. Len(Ascending(P)) : Ascending(P)[j] = Ascending(P)[n] => j = n
        /\ Ascending(P) = <<>> <=> P = {}
    BY <2>1, <2>2, ListOf
  <2> QED BY <1>3, <2>1, <2>3
<1>7. /\ IsSeq(GpsPresent(GpsWritten)) /\ Range(GpsPresent(GpsWritten)) = Q
      /\ GpsPresent(GpsWritten) = <<>> <=> Q = {}
  <2>1. Q \subseteq 1 .. 5
    BY <1>5
  <2> HIDE DEF Q
  <2>2. 5 \in Nat
    OBVIOUS
  <2>3. /\ IsSeq(Ascending(Q)) /\ Range(Ascending(Q)) = Q /\ DOMAIN Ascending(Q) = 1 .. Len(Ascending(Q))
        /\ \A j, n \in 1 .. Len(Ascending(Q)) : Ascending(Q)[j] = Ascending(Q)[n] => j = n
        /\ Ascending(Q) = <<>> <=> Q = {}
    BY <2>1, <2>2, ListOf
  <2> QED BY <1>3, <2>1, <2>3
<1>8. NeedVersion <=> \E k \in Range(GpsWritten) : Present(k)
  BY <1>7 DEF NeedVersion
<1> QED BY <1>1, <1>2, <1>4, <1>5, <1>6, <1>7, <1>8

(* A group asks for every property it has.                                 *)
LEMMA AskedFacts ==
  ASSUME opts.api \in GpsApis, NEW k \in DOMAIN GpsGroups[opts.api]
  PROVE  /\ IsSeq(AskedFor(k)) /\ DOMAIN AskedFor(k) = 1 .. Len(AskedFor(k))
         /\ \A j \in 1 .. Len(GpsGroup(k).props) : \E n \in DOMAIN AskedFor(k) : AskedFor(k)[n] = GpsGroup(k).props[j]
<1> DEFINE s == GpsGroup(k).props
<1>1. IsSeq(s)
  BY GpsTable DEF GoodGroup
<1>2. DOMAIN s = 1 .. Len(s) /\ Len(s) \in Nat
  BY <1>1, SeqFacts
<1> HIDE DEF s
<1>3. IsSeq(Reverse(s)) /\ Len(Reverse(s)) = Len(s) /\ \A j \in 1 .. Len(s) : Reverse(s)[j] = s[Len(s) - j + 1]
  <2>1. DOMAIN Reverse(s) = 1 .. Len(s) /\ Reverse(s) = [j \in 1 .. Len(s) |-> Reverse(s)[j]]
        /\ \A j \in 1 .. Len(s) : Reverse(s)[j] = s[Len(s) - j + 1]
    BY <1>2 DEF Reverse
  <2> QED BY <1>2, <2>1, SeqMade
<1>4. ASSUME NEW j \in 1 .. Len(s) PROVE \E n \in 1 .. Len(s) : Reverse(s)[n] = s[j]
  <2>1. Len(s) - j + 1 \in 1 .. Len(s) /\ Len(s) - (Len(s) - j + 1) + 1 = j
    BY <1>2
  <2> QED BY <1>3, <2>1
<1>5. AskedFor(k) = IF opts.api = "gps" THEN Reverse(s) ELSE s
  BY DEF AskedFor, s
<1>6. DOMAIN Reverse(s) = 1 .. Len(s)
  BY <1>3, SeqFacts
<1>7. CASE opts.api = "gps"
  BY <1>3, <1>4, <1>5, <1>6, <1>7 DEF s
<1>8. CASE opts.api # "gps"
  BY <1>1, <1>2, <1>5, <1>8 DEF s
<1> QED BY <1>7, <1>8

(* What the verdicts on a group say when all are good.                     *)
LEMMA SoughtOk ==
  ASSUME opts.api \in GpsApis, NEW k \in DOMAIN GpsGroups[opts.api]
  PROVE  /\ IsSeq(Sought(k))
         /\ FirstBad(Sought(k)) = "OK" =>
               /\ \A j \in 1 .. Len(GpsGroup(k).props) : /\ Heard(GpsGroup(k).props[j]) # {}
                                                         /\ ~(Cardinality(Heard(GpsGroup(k).props[j])) > 1)
                                                         /\ Refusal(GpsGroup(k).props[j]) = "OK"
               /\ \A j, n \in 1 .. Len(GpsGroup(k).props) :
                     LiveHeard(GpsGroup(k).props[j]) = {} => LiveHeard(GpsGroup(k).props[n]) = {}
<1> DEFINE s == AskedFor(k)
           ps == GpsGroup(k).props
           before == PropsOf(Before(GpsChosen, k))
           a(p) == When(Cardinality(Heard(p)) > 1, "AMBIGUOUS_SOURCE")
           b(p) == When(Heard(p) = {}, "INCOMPLETE_SOURCE")
           x(p, j) == When(before + j > opts.maxSources, "LIMIT")
           y(p, j) == When(Long(p) \/ before + j > opts.maxTexts, "VALUE_TOO_LONG")
           t(p, j) == IF opts.api = "gps" THEN <<>> ELSE <<x(p, j), y(p, j)>>
           one(p, j) == FirstBad(<<a(p), b(p)>> \o t(p, j))
           apart == \E p, q \in Range(s) : LiveHeard(p) = {} /\ LiveHeard(q) # {}
           u == [j \in DOMAIN s |-> one(s[j], j)]
           v == <<When(apart, "INCOMPLETE_SOURCE")>>
           w == [j \in DOMAIN s |-> Refusal(s[j])]
<1>1. Sought(k) = u \o v \o w
  BY DEF Sought, ForEach
<1>2. /\ IsSeq(s) /\ DOMAIN s = 1 .. Len(s)
      /\ \A j \in 1 .. Len(ps) : \E n \in DOMAIN s : s[n] = ps[j]
  BY AskedFacts
<1>3. IsSeq(u) /\ Len(u) = Len(s) /\ \A j \in 1 .. Len(s) : u[j] = one(s[j], j)
  <2>1. DOMAIN u = DOMAIN s /\ u = [n \in DOMAIN s |-> u[n]] /\ \A j \in 1 .. Len(s) : u[j] = one(s[j], j)
    BY <1>2
  <2> HIDE DEF u, s
  <2> QED BY <1>2, <2>1, MadeOf
<1>4. IsSeq(w) /\ Len(w) = Len(s) /\ \A j \in 1 .. Len(s) : w[j] = Refusal(s[j])
  <2>1. DOMAIN w = DOMAIN s /\ w = [n \in DOMAIN s |-> w[n]] /\ \A j \in 1 .. Len(s) : w[j] = Refusal(s[j])
    BY <1>2
  <2> HIDE DEF w, s
  <2> QED BY <1>2, <2>1, MadeOf
<1>5. IsSeq(v) /\ Len(v) = 1
  BY OneIsSeq
<1>6. \A p, j : one(p, j) = "OK" => Heard(p) # {} /\ ~(Cardinality(Heard(p)) > 1)
  <2> SUFFICES ASSUME NEW p, NEW j, one(p, j) = "OK" PROVE Heard(p) # {} /\ ~(Cardinality(Heard(p)) > 1)
    OBVIOUS
  <2> DEFINE ab == <<a(p), b(p)>>
             tt == t(p, j)
  <2>1. IsSeq(ab) /\ Len(ab) = 2 /\ ab[1] = a(p) /\ ab[2] = b(p)
    BY PairIsSeq
  <2>2. IsSeq(tt)
    <3>1. IsSeq(<<>>)
      BY DEF IsSeq
    <3>2. \A c, d : IsSeq(<<c, d>>)
      BY PairIsSeq
    <3>3. IsSeq(<<x(p, j), y(p, j)>>)
      BY <3>2
    <3> QED BY <3>1, <3>3
  <2>3. FirstBad(ab \o tt) = "OK"
    OBVIOUS
  <2> HIDE DEF ab, tt
  <2>4. FirstBad(ab) = "OK"
    BY <2>1, <2>2, <2>3, JoinedOk
  <2>5. \A n \in 1 .. Len(ab) : ab[n] = "OK"
    BY <2>1, <2>4, FirstBadOk
  <2> QED BY <2>1, <2>5 DEF When
<1> HIDE DEF u, v, w
<1>7. IsSeq(u \o v) /\ IsSeq((u \o v) \o w)
  BY <1>3, <1>4, <1>5, JoinFacts
<1>8. ASSUME FirstBad(Sought(k)) = "OK"
      PROVE  /\ \A j \in 1 .. Len(s) : Heard(s[j]) # {} /\ ~(Cardinality(Heard(s[j])) > 1) /\ Refusal(s[j]) = "OK"
             /\ ~apart
  <2>1. FirstBad(u) = "OK" /\ FirstBad(v) = "OK" /\ FirstBad(w) = "OK"
    <3>1. FirstBad(u \o v) = "OK" /\ FirstBad(w) = "OK"
      BY <1>1, <1>4, <1>7, <1>8, JoinedOk
    <3>2. FirstBad(u) = "OK" /\ FirstBad(v) = "OK"
      BY <1>3, <1>5, <3>1, JoinedOk
    <3> QED BY <3>1, <3>2
  <2>2. \A j \in 1 .. Len(s) : u[j] = "OK" /\ w[j] = "OK"
    BY <1>3, <1>4, <2>1, FirstBadOk
  <2>3. v[1] = "OK"
    <3>1. \A n \in 1 .. Len(v) : v[n] = "OK"
      BY <1>5, <2>1, FirstBadOk
    <3> QED BY <1>5, <3>1
  <2>4. \A j \in 1 .. Len(s) : Heard(s[j]) # {} /\ ~(Cardinality(Heard(s[j])) > 1)
    <3> SUFFICES ASSUME NEW j \in 1 .. Len(s) PROVE Heard(s[j]) # {} /\ ~(Cardinality(Heard(s[j])) > 1)
      OBVIOUS
    <3>1. one(s[j], j) = "OK"
      BY <1>3, <2>2
    <3> HIDE DEF one, s
    <3> QED BY <1>6, <3>1
  <2>5. \A j \in 1 .. Len(s) : Refusal(s[j]) = "OK"
    BY <1>4, <2>2
  <2>6. ~apart
    <3> HIDE DEF apart
    <3> QED BY <2>3 DEF v, When
  <2> QED BY <2>4, <2>5, <2>6
<1>9. ASSUME FirstBad(Sought(k)) = "OK"
      PROVE  /\ \A j \in 1 .. Len(ps) : Heard(ps[j]) # {} /\ ~(Cardinality(Heard(ps[j])) > 1) /\ Refusal(ps[j]) = "OK"
             /\ \A j, n \in 1 .. Len(ps) : LiveHeard(ps[j]) = {} => LiveHeard(ps[n]) = {}
  <2>1. \A j \in 1 .. Len(ps) : ps[j] \in Range(s)
    <3> HIDE DEF ps, s
    <3> QED BY <1>2 DEF Range
  <2>2. \A j, n \in 1 .. Len(ps) : LiveHeard(ps[j]) = {} => LiveHeard(ps[n]) = {}
    <3> HIDE DEF ps, s
    <3> QED BY <1>8, <1>9, <2>1
  <2>3. \A j \in 1 .. Len(ps) : Heard(ps[j]) # {} /\ ~(Cardinality(Heard(ps[j])) > 1) /\ Refusal(ps[j]) = "OK"
    <3> HIDE DEF ps, s
    <3> QED BY <1>2, <1>8, <1>9
  <2> QED BY <2>2, <2>3
<1> QED BY <1>1, <1>7, <1>9

(* Where a group is present a GPS version is alone and has four bytes.     *)
LEMMA VersionedOk ==
  ASSUME WellFormed(source), ValidOptions(opts), opts.api \in GpsApis
  PROVE  /\ IsSeq(Versioned)
         /\ FirstBad(Versioned) = "OK" /\ (\E k \in Range(GpsChosen) : Present(k))
               => Len(Versions) <= 1 /\ \A i \in Range(Versions) : FourBytes(i)
<1> DEFINE s == GpsPresent(GpsChosen)
           known(k, n) == When(GpsGroup(k).since # "" /\ ~Meets(GpsGroup(k).since), "UNSUPPORTED_VERSION")
           bad == Len(Versions) > 1 \/ \E i \in Range(Versions) : ~FourBytes(i)
           v == When(bad, "NATIVE_CONFLICT")
           u == [j \in DOMAIN s |-> known(s[j], j)]
<1>1. Versioned = IF s = <<>> THEN <<>> ELSE <<v>> \o u
  BY DEF Versioned, ForEach
<1>2. IsSeq(s) /\ Range(s) = {k \in Range(GpsChosen) : Present(k)}
  BY GpsCall
<1>3. IsSeq(u)
  <2>1. DOMAIN u = DOMAIN s /\ u = [n \in DOMAIN s |-> u[n]]
    OBVIOUS
  <2> HIDE DEF u, s
  <2> QED BY <1>2, <2>1, MadeOf
<1>4. IsSeq(<<v>>) /\ Len(<<v>>) = 1 /\ <<v>>[1] = v
  BY OneIsSeq
<1>5. IsSeq(<<>>)
  BY DEF IsSeq
<1> HIDE DEF u, v
<1>6. IsSeq(<<v>> \o u)
  BY <1>3, <1>4, JoinFacts
<1>7. ASSUME FirstBad(Versioned) = "OK", \E k \in Range(GpsChosen) : Present(k)
      PROVE  ~bad
  <2>1. s # <<>>
    <3>1. Range(s) # {}
      BY <1>2, <1>7
    <3> HIDE DEF s
    <3> QED BY <3>1 DEF Range
  <2>2. FirstBad(<<v>>) = "OK"
    BY <1>1, <1>3, <1>4, <1>7, <2>1, JoinedOk
  <2>3. v = "OK"
    <3>1. \A n \in 1 .. Len(<<v>>) : <<v>>[n] = "OK"
      BY <1>4, <2>2, FirstBadOk
    <3> QED BY <1>4, <3>1
  <2> QED BY <2>3 DEF v, When
<1>8. IsSeq(Versioned)
  BY <1>1, <1>5, <1>6
<1>9. Len(Versions) \in Nat
  BY NamedInOrder, NativesFacts DEF Versions
<1> QED BY <1>7, <1>8, <1>9

(* Of all verdicts of a call the ones on each group and on the version are *)
(* good.                                                                   *)
LEMMA GpsVerdicts ==
  ASSUME WellFormed(source), ValidOptions(opts), opts.api \in GpsApis, NEW limits, IsSeq(limits),
         FirstBad(Then(Then(GpsSources, Over(GpsChosen, GpsCompared)), limits)) = "OK"
  PROVE  (\A k \in Range(GpsChosen) : FirstBad(Sought(k)) = "OK") /\ FirstBad(Versioned) = "OK"
<1> DEFINE s == GpsChosen
           p == GpsPresent(GpsChosen)
           a == [n \in DOMAIN s |-> Sought(s[n])]
           b == [n \in DOMAIN p |-> Measure(p[n])]
           c == [n \in DOMAIN s |-> GpsCompared(s[n])]
           x == FlattenSeq(a)
           y == IF opts.api = "gps" THEN FlattenSeq(b) ELSE <<>>
           z == FlattenSeq(c)
<1>1. GpsSources = Then(Then(x, y), Versioned) /\ Over(GpsChosen, GpsCompared) = z
  BY DEF GpsSources, Over
<1>2. IsSeq(s) /\ IsSeq(p) /\ Range(s) \subseteq DOMAIN GpsGroups[opts.api]
      /\ Range(p) \subseteq DOMAIN GpsGroups[opts.api]
  BY GpsCall
<1>3. IsSeq(x) /\ (FirstBad(x) = "OK" => \A n \in DOMAIN s : FirstBad(Sought(s[n])) = "OK")
  <2>1. DOMAIN a = DOMAIN s /\ a = [n \in DOMAIN s |-> a[n]] /\ \A n \in DOMAIN s : a[n] = Sought(s[n])
    OBVIOUS
  <2>2. \A n \in DOMAIN s : IsSeq(Sought(s[n]))
    BY <1>2, SoughtOk DEF Range
  <2> HIDE DEF a, s
  <2>3. \A n \in DOMAIN s : IsSeq(a[n])
    BY <2>1, <2>2
  <2>4. /\ IsSeq(FlattenSeq(a))
        /\ FirstBad(FlattenSeq(a)) = "OK" => \A n \in DOMAIN s : FirstBad(a[n]) = "OK"
    BY <1>2, <2>1, <2>3, EachOk
  <2> QED BY <2>1, <2>4
<1>4. IsSeq(y)
  <2>1. DOMAIN b = DOMAIN p /\ b = [n \in DOMAIN p |-> b[n]] /\ \A n \in DOMAIN p : b[n] = Measure(p[n])
    OBVIOUS
  <2>2. \A k \in Range(p) : IsSeq(Measure(k))
    <3> SUFFICES ASSUME NEW k \in Range(p) PROVE IsSeq(Measure(k))
      OBVIOUS
    <3> DEFINE ps == GpsGroup(k).props
               before == PropsOf(Before(GpsPresent(GpsChosen), k))
               one(q, j) == FirstBad(<<When(Long(q), "VALUE_TOO_LONG"), When(before + j > opts.maxTexts, "LIMIT")>>)
               u == [j \in DOMAIN ps |-> one(ps[j], j)]
    <3>1. Measure(k) = u
      BY DEF Measure, ForEach
    <3>2. IsSeq(ps)
      BY <1>2, GpsTable DEF GoodGroup
    <3>3. DOMAIN u = DOMAIN ps /\ u = [n \in DOMAIN ps |-> u[n]]
      OBVIOUS
    <3> HIDE DEF u, ps
    <3> QED BY <3>1, <3>2, <3>3, MadeOf
  <2>3. \A n \in DOMAIN p : p[n] \in Range(p)
    BY DEF Range
  <2> HIDE DEF b, p
  <2>4. \A n \in DOMAIN p : IsSeq(b[n])
    BY <2>1, <2>2, <2>3
  <2>5. IsSeq(FlattenSeq(b))
    BY <1>2, <2>1, <2>4, EachOk
  <2>6. IsSeq(<<>>)
    BY DEF IsSeq
  <2> QED BY <2>5, <2>6
<1>5. IsSeq(z)
  <2>1. DOMAIN c = DOMAIN s /\ c = [n \in DOMAIN s |-> c[n]] /\ \A n \in DOMAIN s : c[n] = GpsCompared(s[n])
    OBVIOUS
  <2>2. \A k : IsSeq(GpsCompared(k))
    BY PairIsSeq DEF GpsCompared
  <2> HIDE DEF c, s
  <2>3. \A n \in DOMAIN s : IsSeq(c[n])
    BY <2>1, <2>2
  <2> QED BY <1>2, <2>1, <2>3, EachOk
<1>6. IsSeq(Versioned)
  BY VersionedOk
<1> HIDE DEF x, y, z
<1>7. IsSeq(Then(x, y)) /\ IsSeq(Then(Then(x, y), Versioned)) /\ IsSeq(Then(GpsSources, z))
  <2>1. IsSeq(Then(x, y))
    BY <1>3, <1>4, ThenIsSeq
  <2>2. IsSeq(Then(Then(x, y), Versioned))
    BY <1>6, <2>1, ThenIsSeq
  <2>3. IsSeq(Then(GpsSources, z))
    BY <1>1, <1>5, <2>2, ThenIsSeq
  <2> QED BY <2>1, <2>2, <2>3
<1>8. FirstBad(Then(GpsSources, z)) = "OK"
  BY <1>1, <1>7, ThenOk
<1>9. FirstBad(Then(Then(x, y), Versioned)) = "OK"
  BY <1>1, <1>5, <1>7, <1>8, ThenOk
<1>10. FirstBad(Then(x, y)) = "OK" /\ FirstBad(Versioned) = "OK"
  BY <1>6, <1>7, <1>9, ThenOk
<1>11. FirstBad(x) = "OK"
  BY <1>3, <1>4, <1>10, ThenOk
<1>12. \A k \in Range(s) : \E n \in DOMAIN s : s[n] = k
  BY DEF Range
<1> QED BY <1>3, <1>10, <1>11, <1>12

(* A field with one value, or none.                                        *)
LEMMA SmallFits ==
  ASSUME WellFormed(source), NEW f, IsSeq(f.values), Len(f.values) <= 1, NEW ordered \in BOOLEAN,
         NEW lifecycle \in BOOLEAN, NEW places,
         lifecycle \/ Len(f.values) = 1 => places[1] \in Nat /\ f.from[1] \in Id
  PROVE  Fits(f, Natives(f.key, ordered), lifecycle, places)
<1> DEFINE ids == Natives(f.key, ordered)
<1>1. /\ IsSeq(ids) /\ Len(ids) \in Nat
      /\ \A j \in 1 .. Len(ids) : ids[j] \in LiveOf(source, f.key)
      /\ \A i \in LiveOf(source, f.key) : \E j \in 1 .. Len(ids) : ids[j] = i
      /\ \A j, k \in 1 .. Len(ids) : ids[j] = ids[k] => j = k
  BY NativesFacts
<1>2. Len(f.values) \in Nat
  BY SeqFacts
<1> HIDE DEF ids
<1>3. \A j, k \in 1 .. Len(f.values) : ~(j < k)
  BY <1>2
<1>4. Lies(f, ids, places)
  BY <1>1, <1>3 DEF Lies
<1>5. \A j \in 1 .. Len(f.values) : j = 1 /\ Len(f.values) = 1
  <2> DEFINE n == Len(f.values)
  <2>1. n \in Nat /\ n <= 1
    BY <1>2
  <2> HIDE DEF n
  <2>2. \A j \in 1 .. n : j = 1 /\ n = 1
    BY <2>1
  <2> QED BY <2>2 DEF n
<1>6. \A j \in 1 .. Len(f.values) : j > Len(ids) => places[j] \in Nat /\ f.from[j] \in Id
  BY <1>5
<1>7. Fits(f, ids, lifecycle, places)
  BY <1>4, <1>6 DEF Fits
<1> QED BY <1>7 DEF ids

(* Where the value of a member comes from.                                 *)
PropFor(k, j) == IF Len(GpsGroup(k).props) = 1 THEN 1 ELSE j

(* The source of a member is an entry that was heard and not refused, live *)
(* exactly if the group is present.                                        *)
LEMMA GpsSourceFacts ==
  ASSUME WellFormed(source), opts.api \in GpsApis, NEW k \in DOMAIN GpsGroups[opts.api],
         NEW j \in 1 .. Len(GpsGroup(k).keys), FirstBad(Sought(k)) = "OK"
  PROVE  LET i == SourceOf(k, j)
             p == GpsGroup(k).props[PropFor(k, j)]
         IN  /\ i \in Id /\ i \in Heard(p) /\ Refusal(p) = "OK"
             /\ Live(i) <=> Present(k)
<1> DEFINE ps == GpsGroup(k).props
           p == ps[PropFor(k, j)]
           i == SourceOf(k, j)
<1>1. /\ Len(ps) \in {1, 2} /\ (Len(ps) = 2 => Len(GpsGroup(k).keys) = 2)
      /\ Len(GpsGroup(k).keys) \in {1, 2}
  BY GpsTable DEF GoodGroup
<1>2. PropFor(k, j) \in 1 .. Len(ps) /\ 1 \in 1 .. Len(ps)
  <2>1. Len(ps) = 1 \/ Len(ps) = 2
    BY <1>1
  <2>2. Len(ps) = 1 => PropFor(k, j) = 1
    BY DEF PropFor
  <2>3. Len(ps) = 2 => PropFor(k, j) = j /\ j \in 1 .. 2
    <3>1. Len(ps) = 2 => PropFor(k, j) = j
      BY DEF PropFor
    <3>2. Len(ps) = 2 => Len(GpsGroup(k).keys) = 2
      BY <1>1
    <3>3. Len(GpsGroup(k).keys) = 2 => j \in 1 .. 2
      OBVIOUS
    <3> HIDE DEF ps
    <3> QED BY <3>1, <3>2, <3>3
  <2> HIDE DEF ps
  <2>4. CASE Len(ps) = 1
    BY <2>2, <2>4
  <2>5. CASE Len(ps) = 2
    BY <2>3, <2>5
  <2> QED BY <2>1, <2>4, <2>5
<1>3. /\ \A n \in 1 .. Len(ps) : Heard(ps[n]) # {} /\ ~(Cardinality(Heard(ps[n])) > 1) /\ Refusal(ps[n]) = "OK"
      /\ \A n, h \in 1 .. Len(ps) : LiveHeard(ps[n]) = {} => LiveHeard(ps[h]) = {}
  BY SoughtOk
<1>4. i = Min(Heard(p))
  BY DEF SourceOf, PropFor
<1> HIDE DEF ps
<1>5. Heard(p) # {} /\ ~(Cardinality(Heard(p)) > 1) /\ Refusal(p) = "OK"
  BY <1>2, <1>3
<1>6. LiveHeard(p) # {} <=> Present(k)
  <2>1. Present(k) <=> LiveHeard(ps[1]) # {}
    BY DEF Present, ps
  <2> QED BY <1>2, <1>3, <2>1
<1> HIDE DEF p, i
<1>7. Heard(p) \subseteq 1 .. Len(source) /\ Id = 1 .. Len(source) /\ Len(source) \in Nat
  BY StoreFacts DEF Heard, Noted, Named, Id
<1>8. i \in Heard(p)
  <2>1. \A x \in Heard(p) : x \in Nat
    BY <1>7
  <2> QED BY <1>4, <1>5, <2>1, MinIsLeast
<1>9. \A x \in Heard(p) : x = i
  <2>1. IsFiniteSet(Heard(p))
    BY <1>7, SmallSets
  <2>2. Cardinality(Heard(p)) \in Nat /\ Cardinality(Heard(p)) # 0
    BY <1>5, <2>1, FS_CardinalityType, FS_EmptySet
  <2>3. Cardinality(Heard(p)) = 1
    BY <1>5, <2>2
  <2>4. \E x : Heard(p) = {x}
    BY <2>1, <2>3, FS_Singleton
  <2> QED BY <1>8, <2>4
<1>10. Live(i) <=> LiveHeard(p) # {}
  BY <1>8, <1>9 DEF LiveHeard
<1> QED BY <1>5, <1>6, <1>7, <1>8, <1>10 DEF p, i, ps

GpsTask(k, j) == Task(GpsField(k, j), TRUE, MembersOf(k)[j], <<0>>)
GpsTasks(k) == {GpsTask(k, j) : j \in 1 .. Len(GpsGroup(k).keys)}
GpsPart(k, j) ==
    LET v == Plainly(source[SourceOf(k, j)].value)
    IN  IF Len(GpsGroup(k).props) = 1 THEN v[j] ELSE v[1]

(* The field of a member: its key, its source and its one value or none.   *)
LEMMA GpsFieldFacts ==
  ASSUME WellFormed(source), opts.api \in GpsApis, NEW k \in DOMAIN GpsGroups[opts.api],
         NEW j \in 1 .. Len(GpsGroup(k).keys)
  PROVE  LET f == GpsField(k, j)
             i == SourceOf(k, j)
         IN  /\ f.key = GpsGroup(k).keys[j] /\ f.from[1] = i
             /\ IsSeq(f.values) /\ Len(f.values) = (IF Live(i) THEN 1 ELSE 0)
             /\ f.values = IF Live(i) THEN <<<<Raised(f.key, GpsPart(k, j))>>>> ELSE <<>>
             /\ MembersOf(k)[j] = Natives(f.key, FALSE) /\ GpsMembers(k) = 1 .. Len(GpsGroup(k).keys)
             /\ KeysIn({GpsTask(k, j)}) = {f.key}
             /\ \A st : Met(st, GpsTask(k, j)) <=> Holds(st, f, TRUE, MembersOf(k)[j], <<0>>)
<1> DEFINE f == GpsField(k, j)
           i == SourceOf(k, j)
           x == <<<<Raised(GpsGroup(k).keys[j], GpsPart(k, j))>>>>
<1>1. /\ f.key = GpsGroup(k).keys[j] /\ f.from = <<i>>
      /\ f.values = IF Live(i) THEN x ELSE <<>>
  BY DEF GpsField, Field, GpsPart
<1>2. IsSeq(x) /\ Len(x) = 1
  BY OneIsSeq
<1>3. IsSeq(<<>>) /\ Len(<<>>) = 0
  BY DEF IsSeq
<1>4. GpsMembers(k) = 1 .. Len(GpsGroup(k).keys)
  BY GpsTable, SeqFacts DEF GoodGroup, GpsMembers
<1>5. MembersOf(k)[j] = Natives(GpsGroup(k).keys[j], FALSE)
  BY <1>4 DEF MembersOf
<1> DEFINE t == GpsTask(k, j)
<1>6. t.field = f /\ t.lifecycle = TRUE /\ t.ids = MembersOf(k)[j] /\ t.places = <<0>>
  BY DEF GpsTask, Task
<1> HIDE DEF f, i, x, t
<1>7. IsSeq(f.values) /\ Len(f.values) = (IF Live(i) THEN 1 ELSE 0)
  BY <1>1, <1>2, <1>3
<1>8. KeysIn({t}) = {f.key}
  BY <1>6 DEF KeysIn
<1>9. \A st : Met(st, t) <=> Holds(st, f, TRUE, MembersOf(k)[j], <<0>>)
  BY <1>6 DEF Met
<1>10. f.from[1] = i
  BY <1>1
<1>11. f.values = IF Live(i) THEN <<<<Raised(f.key, GpsPart(k, j))>>>> ELSE <<>>
  BY <1>1 DEF x
<1> QED BY <1>1, <1>4, <1>5, <1>7, <1>8, <1>9, <1>10, <1>11 DEF f, i, x, t

(* The operations on a group do the tasks of all its members.              *)
LEMMA GpsChangesDo ==
  ASSUME WellFormed(source), opts.api \in GpsApis, NEW k \in DOMAIN GpsGroups[opts.api],
         FirstBad(Sought(k)) = "OK"
  PROVE  DoesAll(GpsChanges(k), GpsTasks(k)) /\ IsSeq(GpsChanges(k))
<1> DEFINE N == Len(GpsGroup(k).keys)
           c == [j \in GpsMembers(k) |-> Operations(GpsField(k, j), MembersOf(k)[j], TRUE, <<0>>)]
           U == [j \in 1 .. N |-> {GpsTask(k, j)}]
<1>1. N \in Nat /\ \A j \in 1 .. N : MemberWith(GpsGroup(k).keys[j]) = j
  BY GpsTable, SeqFacts DEF GoodGroup
<1>2. GpsMembers(k) = 1 .. N
  BY GpsTable, SeqFacts DEF GoodGroup, GpsMembers
<1>3. IsSeq(c) /\ Len(c) = N /\ \A j \in 1 .. N : c[j] = Operations(GpsField(k, j), MembersOf(k)[j], TRUE, <<0>>)
  <2>1. DOMAIN c = 1 .. N /\ c = [j \in 1 .. N |-> c[j]]
        /\ \A j \in 1 .. N : c[j] = Operations(GpsField(k, j), MembersOf(k)[j], TRUE, <<0>>)
    BY <1>2
  <2> HIDE DEF c, N
  <2> QED BY <1>1, <2>1, SeqMade
<1>4. GpsChanges(k) = FlattenSeq(c)
  BY DEF GpsChanges
<1>5. \A j \in 1 .. N : U[j] = {GpsTask(k, j)}
  OBVIOUS
<1> HIDE DEF c, U
<1>6. ASSUME NEW j \in 1 .. N
      PROVE  DoesAll(c[j], U[j])
  <2> DEFINE f == GpsField(k, j)
  <2>1. /\ IsSeq(f.values) /\ Len(f.values) <= 1 /\ f.from[1] \in Id
        /\ MembersOf(k)[j] = Natives(f.key, FALSE)
    <3>1. /\ IsSeq(f.values) /\ Len(f.values) = (IF Live(SourceOf(k, j)) THEN 1 ELSE 0)
          /\ f.from[1] = SourceOf(k, j) /\ MembersOf(k)[j] = Natives(f.key, FALSE)
      BY GpsFieldFacts
    <3>2. SourceOf(k, j) \in Id
      BY GpsSourceFacts
    <3> HIDE DEF f
    <3> QED BY <3>1, <3>2
  <2>2. <<0>>[1] \in Nat /\ TRUE \in BOOLEAN /\ FALSE \in BOOLEAN
    OBVIOUS
  <2>3. Fits(f, MembersOf(k)[j], TRUE, <<0>>)
    <3> HIDE DEF f
    <3>1. Fits(f, Natives(f.key, FALSE), TRUE, <<0>>)
      BY <2>1, <2>2, SmallFits
    <3> QED BY <2>1, <3>1
  <2>4. Does(c[j], f, TRUE, MembersOf(k)[j], <<0>>)
    BY <1>3, <2>2, <2>3, OperationsDo
  <2>5. DoesAll(c[j], {Task(f, TRUE, MembersOf(k)[j], <<0>>)})
    <3> HIDE DEF f
    <3> QED BY <2>4, OneDoes
  <2> QED BY <1>5, <2>5 DEF GpsTask
<1>7. AllSeqs(c)
  BY <1>3, <1>6 DEF AllSeqs, DoesAll
<1>8. ASSUME NEW n \in 1 .. N, NEW h \in 1 .. N, n # h
      PROVE  KeysIn(U[n]) \cap KeysIn(U[h]) = {}
  <2>1. KeysIn(U[n]) = {GpsGroup(k).keys[n]} /\ KeysIn(U[h]) = {GpsGroup(k).keys[h]}
    BY <1>5, GpsFieldFacts
  <2>2. GpsGroup(k).keys[n] # GpsGroup(k).keys[h]
    BY <1>1, <1>8
  <2> QED BY <2>1, <2>2
<1>9. \A t : t \in GpsTasks(k) <=> \E n \in 1 .. N : t \in U[n]
  BY <1>5 DEF GpsTasks
<1>10. DoesAll(FlattenSeq(c), GpsTasks(k))
  <2> HIDE DEF N
  <2>1. /\ \A n \in 1 .. Len(c) : DoesAll(c[n], U[n])
        /\ \A n, h \in 1 .. Len(c) : n # h => KeysIn(U[n]) \cap KeysIn(U[h]) = {}
    BY <1>3, <1>6, <1>8
  <2>2. \A t : t \in GpsTasks(k) <=> \E n \in 1 .. Len(c) : t \in U[n]
    BY <1>3, <1>9
  <2> QED BY <1>7, <2>1, <2>2, FlatInto
<1> QED BY <1>4, <1>7, <1>10, FlatSeq

(* The version, and all of a call.                                         *)
VersionDue == NeedVersion /\ Versions = <<>>
VersionMade == Field(VersionTag, <<<<Version>>>>, <<SourceOf(Last(GpsPresent(GpsWritten)), 1)>>)
VersionGone == Field(VersionTag, <<>>, <<>>)
VersionTasks ==
    IF VersionDue THEN {Task(VersionMade, FALSE, <<>>, <<0>>)}
    ELSE IF VersionGoes THEN {Task(VersionGone, FALSE, Versions, <<>>)} ELSE {}

(* A field, by its parts.                                                  *)
LEMMA FieldParts ==
  ASSUME NEW key, NEW values, NEW from
  PROVE  LET f == Field(key, values, from)
         IN  f.key = key /\ f.values = values /\ f.from = from
BY DEF Field

(* A task, by its parts.                                                   *)
LEMMA TaskParts ==
  ASSUME NEW f, NEW lifecycle, NEW ids, NEW places
  PROVE  /\ KeysIn({Task(f, lifecycle, ids, places)}) = {f.key}
         /\ \A st : Met(st, Task(f, lifecycle, ids, places)) <=> Holds(st, f, lifecycle, ids, places)
<1> DEFINE t == Task(f, lifecycle, ids, places)
<1>1. t.field = f /\ t.lifecycle = lifecycle /\ t.ids = ids /\ t.places = places
  BY DEF Task
<1> HIDE DEF t
<1>2. KeysIn({t}) = {f.key}
  BY <1>1 DEF KeysIn
<1>3. \A st : Met(st, t) <=> Holds(st, f, lifecycle, ids, places)
  BY <1>1 DEF Met
<1> QED BY <1>2, <1>3 DEF t

(* The operations on the version do what is to be done with it.            *)
LEMMA VersionDoes ==
  ASSUME WellFormed(source), ValidOptions(opts), opts.api \in GpsApis,
         \A k \in Range(GpsChosen) : FirstBad(Sought(k)) = "OK"
  PROVE  DoesAll(VersionChanges, VersionTasks) /\ KeysIn(VersionTasks) \subseteq {VersionTag}
<1>1. Versions = Natives(VersionTag, FALSE)
  BY NamedInOrder DEF Versions
<1>2. TRUE \in BOOLEAN /\ FALSE \in BOOLEAN
  OBVIOUS
<1>3. CASE VersionDue
  <2> DEFINE f == VersionMade
             from == SourceOf(Last(GpsPresent(GpsWritten)), 1)
             value == <<Version>>
  <2>1. f.key = VersionTag /\ f.values = <<value>> /\ f.from = <<from>>
    BY FieldParts DEF VersionMade
  <2>2. VersionChanges = Operations(f, <<>>, FALSE, <<0>>)
    BY <1>3 DEF VersionChanges, VersionDue, VersionMade
  <2>3. from \in Id
    <3> DEFINE s == GpsPresent(GpsWritten)
               k == Last(s)
    <3>1. IsSeq(s) /\ s # <<>> /\ Range(s) \subseteq Range(GpsChosen)
      BY <1>3, GpsCall DEF VersionDue, NeedVersion
    <3>2. k \in Range(s)
      <4> HIDE DEF s
      <4>1. DOMAIN s = 1 .. Len(s) /\ Len(s) \in Nat /\ s = [j \in 1 .. Len(s) |-> s[j]]
        BY <3>1, SeqFacts
      <4>2. Len(s) # 0
        BY <3>1, <4>1
      <4>3. Len(s) \in DOMAIN s
        BY <4>1, <4>2
      <4> QED BY <4>3 DEF Last, Range
    <3>3. k \in Range(GpsChosen)
      BY <3>1, <3>2
    <3>4. k \in DOMAIN GpsGroups[opts.api]
      BY <3>3, GpsCall
    <3> HIDE DEF k
    <3>5. 1 \in 1 .. Len(GpsGroup(k).keys)
      <4>1. Len(GpsGroup(k).keys) \in {1, 2}
        BY <3>4, GpsTable DEF GoodGroup
      <4>2. \A n \in {1, 2} : 1 \in 1 .. n
        OBVIOUS
      <4> QED BY <4>1, <4>2
    <3>6. SourceOf(k, 1) \in Id
      BY <3>3, <3>4, <3>5, GpsSourceFacts
    <3> QED BY <3>6 DEF k
  <2> HIDE DEF f, from, value
  <2>4. IsSeq(f.values) /\ Len(f.values) = 1 /\ f.from[1] \in Id
    <3>1. IsSeq(<<value>>) /\ Len(<<value>>) = 1
      BY OneIsSeq
    <3> QED BY <2>1, <2>3, <3>1
  <2>5. Natives(f.key, FALSE) = <<>>
    BY <1>1, <1>3, <2>1 DEF VersionDue
  <2>6. Fits(f, <<>>, FALSE, <<0>>)
    <3>1. <<0>>[1] \in Nat /\ Len(f.values) <= 1
      BY <2>4
    <3>2. Fits(f, Natives(f.key, FALSE), FALSE, <<0>>)
      BY <1>2, <2>4, <3>1, SmallFits
    <3> QED BY <2>5, <3>2
  <2>7. Does(VersionChanges, f, FALSE, <<>>, <<0>>)
    BY <1>2, <2>2, <2>6, OperationsDo
  <2>8. VersionTasks = {Task(f, FALSE, <<>>, <<0>>)}
    BY <1>3 DEF VersionTasks, f
  <2> QED BY <2>1, <2>7, <2>8, OneDoes, TaskParts
<1>4. CASE ~VersionDue /\ VersionGoes
  <2> DEFINE f == VersionGone
  <2>1. f.key = VersionTag /\ f.values = <<>>
    BY FieldParts DEF VersionGone
  <2>2. VersionChanges = Operations(f, Versions, FALSE, <<>>)
    BY <1>4 DEF VersionChanges, VersionDue, VersionGone
  <2> HIDE DEF f
  <2>3. IsSeq(f.values) /\ Len(f.values) = 0
    <3>1. IsSeq(<<>>)
      BY DEF IsSeq
    <3> QED BY <2>1, <3>1
  <2>4. Fits(f, Versions, FALSE, <<>>)
    <3>1. Len(f.values) <= 1 /\ ~(FALSE \/ Len(f.values) = 1)
      BY <2>3
    <3>2. Fits(f, Natives(f.key, FALSE), FALSE, <<>>)
      BY <1>2, <2>3, <3>1, SmallFits
    <3> QED BY <1>1, <2>1, <3>2
  <2>5. Does(VersionChanges, f, FALSE, Versions, <<>>)
    BY <1>2, <2>2, <2>4, OperationsDo
  <2>6. VersionTasks = {Task(f, FALSE, Versions, <<>>)}
    BY <1>4 DEF VersionTasks, f
  <2> QED BY <2>1, <2>5, <2>6, OneDoes, TaskParts
<1>5. CASE ~VersionDue /\ ~VersionGoes
  <2>1. VersionChanges = <<>> /\ VersionTasks = {}
    BY <1>5 DEF VersionChanges, VersionTasks, VersionDue
  <2>2. KeysIn({}) = {}
    BY DEF KeysIn
  <2> QED BY <2>1, <2>2, NoneDoes
<1> QED BY <1>3, <1>4, <1>5

GpsNew == FlattenSeq([n \in DOMAIN GpsWritten |-> GpsChanges(GpsWritten[n])]) \o VersionChanges
GpsKeys == UNION {Range(GpsGroup(k).keys) : k \in Range(GpsWritten)}

(* The keys a call writes: those of its groups, never that of the version. *)
LEMMA GpsKeysFacts ==
  ASSUME ValidOptions(opts), opts.api \in GpsApis
  PROVE  /\ VersionTag \notin GpsKeys /\ VersionTag \notin GpsTags
         /\ \A x : x \in GpsKeys <=> \E k \in Range(GpsWritten) : \E j \in 1 .. Len(GpsGroup(k).keys) : x = GpsGroup(k).keys[j]
         /\ GpsKeys \subseteq GpsTags
         /\ \A k \in DOMAIN GpsGroups[opts.api] :
               \A j \in 1 .. Len(GpsGroup(k).keys) :
                  /\ GroupWith(GpsGroup(k).keys[j]) = k /\ MemberWith(GpsGroup(k).keys[j]) = j
                  /\ GpsGroup(k).keys[j] # VersionTag
<1>1. Range(GpsWritten) \subseteq DOMAIN GpsGroups[opts.api]
  BY GpsCall
<1>2. \A k \in DOMAIN GpsGroups[opts.api] : GoodGroup(GpsGroup(k), k)
  BY GpsTable
<1>3. \A k \in DOMAIN GpsGroups[opts.api] : DOMAIN GpsGroup(k).keys = 1 .. Len(GpsGroup(k).keys)
  BY <1>2, SeqFacts DEF GoodGroup
<1>4. \A x : x \in GpsKeys <=> \E k \in Range(GpsWritten) : \E j \in 1 .. Len(GpsGroup(k).keys) : x = GpsGroup(k).keys[j]
  BY <1>1, <1>3 DEF GpsKeys, Range
<1>5. \A k \in DOMAIN GpsGroups[opts.api] : \A j \in 1 .. Len(GpsGroup(k).keys) :
         /\ GroupWith(GpsGroup(k).keys[j]) = k /\ MemberWith(GpsGroup(k).keys[j]) = j
         /\ GpsGroup(k).keys[j] # VersionTag
  BY <1>2 DEF GoodGroup
<1>6. GpsKeys \subseteq GpsTags
  BY <1>1, <1>4, GpsKeyIsTag
<1>7. VersionTag \notin GpsTags
  <2>1. ASSUME NEW api \in GpsApis, NEW k \in DOMAIN GpsGroups[api], NEW j \in 1 .. Len(GpsGroups[api][k].keys)
        PROVE  GpsGroups[api][k].keys[j] # VersionTag
    <3>1. GoodGroup(GpsGroups[api][k], k)
      BY AnyTable
    <3> QED BY <3>1 DEF GoodGroup
  <2>2. ASSUME NEW api \in GpsApis, NEW k \in DOMAIN GpsGroups[api]
        PROVE  VersionTag \notin Range(GpsGroups[api][k].keys)
    <3>1. DOMAIN GpsGroups[api][k].keys = 1 .. Len(GpsGroups[api][k].keys)
      BY AnyTable, SeqFacts DEF GoodGroup
    <3> QED BY <2>1, <3>1 DEF Range
  <2> QED BY <2>2 DEF GpsTags, Range
<1> QED BY <1>1, <1>4, <1>5, <1>6, <1>7

(* The tasks of a group are under the keys of its members.                 *)
LEMMA GpsTaskKeys ==
  ASSUME WellFormed(source), opts.api \in GpsApis, NEW k \in DOMAIN GpsGroups[opts.api]
  PROVE  /\ \A x : x \in KeysIn(GpsTasks(k)) <=> \E j \in 1 .. Len(GpsGroup(k).keys) : x = GpsGroup(k).keys[j]
         /\ \A j \in 1 .. Len(GpsGroup(k).keys) : GpsTask(k, j) \in GpsTasks(k)
<1>1. ASSUME NEW j \in 1 .. Len(GpsGroup(k).keys)
      PROVE  GpsTask(k, j).field.key = GpsGroup(k).keys[j]
  <2>1. KeysIn({GpsTask(k, j)}) = {GpsGroup(k).keys[j]}
    BY GpsFieldFacts
  <2>2. GpsTask(k, j).field.key \in KeysIn({GpsTask(k, j)})
    BY DEF KeysIn
  <2> QED BY <2>1, <2>2
<1>2. \A x : x \in KeysIn(GpsTasks(k)) <=> \E j \in 1 .. Len(GpsGroup(k).keys) : x = GpsTask(k, j).field.key
  BY DEF KeysIn, GpsTasks
<1>3. \A j \in 1 .. Len(GpsGroup(k).keys) : GpsTask(k, j) \in GpsTasks(k)
  BY DEF GpsTasks
<1> QED BY <1>1, <1>2, <1>3

(* After the operations of a call every field holds, and only its keys and *)
(* the version have changed.                                               *)
LEMMA GpsDone ==
  ASSUME WellFormed(source), ValidOptions(opts), opts.api \in GpsApis,
         \A k \in Range(GpsChosen) : FirstBad(Sought(k)) = "OK"
  PROVE  LET st == Run(source, GpsNew)
         IN  /\ OkOps(source, GpsNew) /\ WellFormed(st) /\ Keeps(source, st, GpsKeys \cup {VersionTag})
             /\ VersionTasks = {} => Keeps(source, st, GpsKeys)
             /\ \A k \in Range(GpsWritten) : \A j \in 1 .. Len(GpsGroup(k).keys) :
                   Holds(st, GpsField(k, j), TRUE, MembersOf(k)[j], <<0>>)
             /\ \A t \in VersionTasks : Met(st, t)
<1> DEFINE s == GpsWritten
           c == [n \in DOMAIN s |-> GpsChanges(s[n])]
           T == [k \in Range(s) |-> GpsTasks(k)]
           W == UNION {GpsTasks(k) : k \in Range(s)}
           st == Run(source, GpsNew)
<1>1. /\ IsSeq(s) /\ \A j, n \in DOMAIN s : s[j] = s[n] => j = n
      /\ Range(s) \subseteq Range(GpsChosen) /\ Range(s) \subseteq DOMAIN GpsGroups[opts.api]
  BY GpsCall
<1>2. DOMAIN c = DOMAIN s /\ c = [n \in DOMAIN s |-> c[n]] /\ \A n \in DOMAIN s : c[n] = GpsChanges(s[n])
  OBVIOUS
<1>3. \A k \in Range(s) : T[k] = GpsTasks(k)
  OBVIOUS
<1>4. \A t : t \in W <=> \E k \in Range(s) : t \in T[k]
  OBVIOUS
<1>5. GpsNew = FlattenSeq(c) \o VersionChanges
  BY DEF GpsNew
<1>6. \A n \in DOMAIN s : s[n] \in Range(s)
  BY DEF Range
<1>7. \A k \in Range(s) : /\ DoesAll(GpsChanges(k), GpsTasks(k)) /\ IsSeq(GpsChanges(k))
                          /\ \A x : x \in KeysIn(GpsTasks(k)) <=> \E j \in 1 .. Len(GpsGroup(k).keys) : x = GpsGroup(k).keys[j]
                          /\ \A j \in 1 .. Len(GpsGroup(k).keys) : GpsTask(k, j) \in GpsTasks(k)
  BY <1>1, GpsChangesDo, GpsTaskKeys
<1>8. \A k \in Range(s) : \A j \in 1 .. Len(GpsGroup(k).keys) : GroupWith(GpsGroup(k).keys[j]) = k
  BY <1>1, GpsKeysFacts
<1>9. \A x : x \in GpsKeys <=> \E k \in Range(s) : \E j \in 1 .. Len(GpsGroup(k).keys) : x = GpsGroup(k).keys[j]
  BY GpsKeysFacts
<1> HIDE DEF c, T, W, s
<1>10. \A a, b \in Range(s) : a # b => KeysIn(T[a]) \cap KeysIn(T[b]) = {}
  <2> SUFFICES ASSUME NEW a \in Range(s), NEW b \in Range(s), a # b, NEW x, x \in KeysIn(T[a]), x \in KeysIn(T[b])
               PROVE  FALSE
    OBVIOUS
  <2>1. GroupWith(x) = a
    BY <1>3, <1>7, <1>8
  <2>2. GroupWith(x) = b
    BY <1>3, <1>7, <1>8
  <2> QED BY <2>1, <2>2
<1>11. \A n \in DOMAIN s : DoesAll(c[n], T[s[n]])
  BY <1>2, <1>3, <1>6, <1>7
<1>12. IsSeq(c) /\ DOMAIN c = DOMAIN s
  BY <1>1, <1>2, MadeOf
<1>13. DoesAll(FlattenSeq(c), W)
  BY <1>1, <1>4, <1>10, <1>11, <1>12, EachDoes
<1>14. KeysIn(W) \subseteq GpsKeys
  <2> SUFFICES ASSUME NEW t \in W PROVE t.field.key \in GpsKeys
    BY DEF KeysIn
  <2>1. PICK k \in Range(s) : t \in GpsTasks(k)
    BY <1>3, <1>4
  <2>2. t.field.key \in KeysIn(GpsTasks(k))
    BY <2>1 DEF KeysIn
  <2> QED BY <1>7, <1>9, <2>2
<1>15. DoesAll(VersionChanges, VersionTasks) /\ KeysIn(VersionTasks) \subseteq {VersionTag} /\ VersionTag \notin GpsKeys
  BY VersionDoes, GpsKeysFacts
<1>16. DoesAll(GpsNew, W \cup VersionTasks)
  <2>1. KeysIn(W) \cap KeysIn(VersionTasks) = {}
    BY <1>14, <1>15
  <2> QED BY <1>5, <1>13, <1>15, <2>1, JoinDoes
<1>17. OkOps(source, GpsNew) /\ Keeps(source, st, KeysIn(W \cup VersionTasks)) /\ \A t \in W \cup VersionTasks : Met(st, t)
  BY <1>16, DoneFromNothing
<1> HIDE DEF st
<1>18. KeysIn(W \cup VersionTasks) = KeysIn(W) \cup KeysIn(VersionTasks)
  BY DEF KeysIn
<1>19. Keeps(source, source, {})
  BY KeepsItself
<1>20. Keeps(source, st, GpsKeys \cup {VersionTag})
  BY <1>14, <1>15, <1>17, <1>18, <1>19, KeepsOn
<1>21. VersionTasks = {} => Keeps(source, st, GpsKeys)
  <2> SUFFICES ASSUME VersionTasks = {} PROVE Keeps(source, st, GpsKeys)
    OBVIOUS
  <2>1. KeysIn(W \cup VersionTasks) \subseteq GpsKeys
    BY <1>14 DEF KeysIn
  <2> QED BY <1>17, <1>19, <2>1, KeepsOn
<1>22. ASSUME NEW k \in Range(s), NEW j \in 1 .. Len(GpsGroup(k).keys)
       PROVE  Holds(st, GpsField(k, j), TRUE, MembersOf(k)[j], <<0>>)
  <2>1. GpsTask(k, j) \in W
    BY <1>3, <1>4, <1>7
  <2>2. Met(st, GpsTask(k, j))
    BY <1>17, <2>1
  <2>3. k \in DOMAIN GpsGroups[opts.api]
    BY <1>1
  <2> QED BY <2>2, <2>3, GpsFieldFacts
<1>23. WellFormed(st)
  BY <1>20 DEF Keeps
<1> QED BY <1>17, <1>20, <1>21, <1>22, <1>23 DEF st, s

(* What is live under the key of a field that holds.                       *)
LEMMA HoldsLive ==
  ASSUME NEW st, WellFormed(st), NEW f, Len(f.values) \in Nat, Len(f.values) <= 1, NEW ids, NEW places,
         Holds(st, f, TRUE, ids, places)
  PROVE  /\ Len(f.values) = 0 <=> LiveOf(st, f.key) = {}
         /\ Len(f.values) = 1 =>
               \A i \in LiveOf(st, f.key) : Unpadded(st[i].value) = Unpadded(f.values[1])
<1> DEFINE s == LiveIn(st, f.key)
<1>1. Len(s) = Len(f.values)
  BY DEF Holds
<1>2. \A j \in 1 .. Len(f.values) : Unpadded(st[s[j]].value) = Unpadded(f.values[j])
  BY DEF Holds
<1>3. /\ Len(s) \in Nat
      /\ \A j \in 1 .. Len(s) : s[j] \in LiveOf(st, f.key)
      /\ \A i \in LiveOf(st, f.key) : \E j \in 1 .. Len(s) : s[j] = i
  BY LiveInFacts
<1> HIDE DEF s
<1>4. Len(f.values) = 0 => LiveOf(st, f.key) = {}
  BY <1>1, <1>3
<1>5. ASSUME Len(f.values) # 0 PROVE Len(f.values) = 1 /\ LiveOf(st, f.key) # {}
  <2>1. Len(f.values) = 1
    <3> DEFINE n == Len(f.values)
    <3>1. n \in Nat /\ n <= 1 /\ n # 0
      BY <1>5
    <3> HIDE DEF n
    <3>2. n = 1
      BY <3>1
    <3> QED BY <3>2 DEF n
  <2>2. 1 \in 1 .. Len(s)
    BY <1>1, <2>1
  <2> QED BY <1>3, <2>1, <2>2
<1>6. ASSUME Len(f.values) = 1, NEW i \in LiveOf(st, f.key)
      PROVE  Unpadded(st[i].value) = Unpadded(f.values[1])
  <2>1. PICK j \in 1 .. Len(s) : s[j] = i
    BY <1>3
  <2>2. j = 1 /\ j \in 1 .. Len(f.values)
    BY <1>1, <1>6
  <2> QED BY <1>2, <2>1, <2>2
<1> QED BY <1>4, <1>5, <1>6

(* The version in the store afterwards: 2.3 where it is due, none where it *)
(* goes, else as it was.                                                   *)
LEMMA GpsVersionReads ==
  ASSUME WellFormed(source), ValidOptions(opts), opts.api \in GpsApis,
         \A k \in Range(GpsChosen) : FirstBad(Sought(k)) = "OK", FirstBad(Versioned) = "OK"
  PROVE  LET st == Run(source, GpsNew)
             before == Values(source, VersionTag)
             after == Values(st, VersionTag)
         IN  /\ before = <<>> <=> Versions = <<>>
             /\ VersionDue => Version = "2.3" /\ after = <<<<"2.3">>>>
             /\ ~VersionDue /\ VersionGoes => after = <<>>
             /\ ~VersionDue /\ ~VersionGoes => after = before
             /\ NeedVersion /\ ~VersionDue => Len(before) = 1 /\ before = <<Unpadded(<<Version>>)>>
<1> DEFINE st == Run(source, GpsNew)
           before == Values(source, VersionTag)
           after == Values(st, VersionTag)
<1>1. Versions = Natives(VersionTag, FALSE)
  BY NamedInOrder DEF Versions
<1>2. /\ IsSeq(Versions) /\ Len(Versions) \in Nat /\ DOMAIN Versions = 1 .. Len(Versions)
      /\ Len(Versions) = Len(LiveIn(source, VersionTag))
  BY <1>1, NativesFacts
<1>3. DOMAIN before = 1 .. Len(Versions) /\ before = [j \in 1 .. Len(Versions) |-> before[j]]
  <2>1. DOMAIN LiveIn(source, VersionTag) = 1 .. Len(Versions)
    BY <1>2, LiveInFacts
  <2> QED BY <2>1 DEF Values, Stored
<1>4. IsSeq(before) /\ Len(before) = Len(Versions)
  <2> HIDE DEF before
  <2> QED BY <1>2, <1>3, SeqMade
<1>5. \A s : IsSeq(s) => (s = <<>> <=> Len(s) = 0)
  <2> SUFFICES ASSUME NEW s, IsSeq(s) PROVE s = <<>> <=> Len(s) = 0
    OBVIOUS
  <2>1. s = [j \in 1 .. Len(s) |-> s[j]]
    BY SeqFacts
  <2>2. Len(s) = 0 => s = <<>>
    BY <2>1
  <2> QED BY <2>2
<1>6. before = <<>> <=> Versions = <<>>
  <2> HIDE DEF before
  <2> QED BY <1>2, <1>4, <1>5
<1>7. /\ WellFormed(st) /\ (VersionTasks = {} => Keeps(source, st, GpsKeys))
      /\ \A t \in VersionTasks : Met(st, t)
  BY GpsDone
<1> HIDE DEF st
<1>8. ASSUME VersionDue PROVE Version = "2.3" /\ after = <<<<"2.3">>>>
  <2>1. Version = "2.3"
    BY <1>8 DEF VersionDue, Version
  <2> DEFINE f == VersionMade
  <2>2. f.key = VersionTag /\ f.values = <<<<"2.3">>>>
    BY <2>1, FieldParts DEF VersionMade
  <2> HIDE DEF f
  <2>3. VersionTasks = {Task(f, FALSE, <<>>, <<0>>)}
    BY <1>8 DEF VersionTasks, f
  <2>4. Holds(st, f, FALSE, <<>>, <<0>>)
    BY <1>7, <2>3, TaskParts
  <2>5. IsSeq(f.values) /\ FALSE \in BOOLEAN
    BY <2>2, OneIsSeq
  <2>6. Stands(st, f)
    BY <1>7, <2>4, <2>5, HeldStands
  <2>7. after = <<Unpadded(<<"2.3">>)>>
    <3> DEFINE u == <<"2.3">>
    <3>1. f.values = <<u>>
      BY <2>2
    <3> HIDE DEF u
    <3>2. after = [j \in DOMAIN <<u>> |-> Unpadded(<<u>>[j])]
      BY <2>2, <2>6, <3>1 DEF Stands
    <3>3. [j \in DOMAIN <<u>> |-> Unpadded(<<u>>[j])] = <<Unpadded(u)>>
      OBVIOUS
    <3> HIDE DEF after
    <3>4. after = <<Unpadded(u)>>
      BY <3>2, <3>3
    <3> QED BY <3>4 DEF u
  <2>8. Unpadded(<<"2.3">>) = <<"2.3">>
    BY SpellingAssumption, UnpaddedOne
  <2> QED BY <2>1, <2>7, <2>8
<1>9. ASSUME ~VersionDue, VersionGoes PROVE after = <<>>
  <2> DEFINE f == VersionGone
  <2>1. f.key = VersionTag /\ f.values = <<>>
    BY FieldParts DEF VersionGone
  <2> HIDE DEF f
  <2>2. VersionTasks = {Task(f, FALSE, Versions, <<>>)}
    BY <1>9 DEF VersionTasks, f
  <2>3. Holds(st, f, FALSE, Versions, <<>>)
    BY <1>7, <2>2, TaskParts
  <2>4. IsSeq(<<>>)
    BY DEF IsSeq
  <2>5. IsSeq(f.values) /\ FALSE \in BOOLEAN
    BY <2>1, <2>4
  <2>6. Stands(st, f)
    BY <1>7, <2>3, <2>5, HeldStands
  <2> QED BY <2>1, <2>6 DEF Stands
<1>10. ASSUME ~VersionDue, ~VersionGoes PROVE after = before
  <2>1. VersionTasks = {} /\ VersionTag \notin GpsKeys
    BY <1>10, GpsKeysFacts DEF VersionTasks
  <2> QED BY <1>7, <2>1, KeepsOthers
<1>11. ASSUME NeedVersion, ~VersionDue PROVE Len(before) = 1 /\ before = <<Unpadded(<<Version>>)>>
  <2>1. \E k \in Range(GpsChosen) : Present(k)
    BY <1>11, GpsCall
  <2>2. Len(Versions) <= 1 /\ \A i \in Range(Versions) : FourBytes(i)
    BY <2>1, VersionedOk
  <2>3. Len(Versions) = 1 /\ Versions # <<>>
    BY <1>2, <1>5, <1>11, <2>2 DEF VersionDue
  <2> DEFINE i == Versions[1]
  <2>4. before = <<Unpadded(source[i].value)>>
    BY <1>1, <2>3, OneLive
  <2>5. FourBytes(i)
    BY <1>2, <2>2, <2>3 DEF Range
  <2>6. Version = Word(i) /\ source[i].value = <<Word(i)>>
    BY <2>3, <2>5 DEF Version, FourBytes, Last
  <2> QED BY <1>4, <2>3, <2>4, <2>6
<1> QED BY <1>6, <1>8, <1>9, <1>10, <1>11 DEF st

(* What is left of a member.                                               *)
LEMMA MemberLeft ==
  ASSUME WellFormed(source), ValidOptions(opts), opts.api \in GpsApis,
         \A k \in Range(GpsChosen) : FirstBad(Sought(k)) = "OK",
         NEW k \in Range(GpsWritten), NEW j \in 1 .. Len(GpsGroup(k).keys)
  PROVE  LET st == Run(source, GpsNew)
             key == GpsGroup(k).keys[j]
         IN  /\ Present(k) <=> LiveOf(st, key) # {}
             /\ Present(k) => \A i \in LiveOf(st, key) :
                   Unpadded(st[i].value) = Unpadded(<<Raised(key, GpsPart(k, j))>>)
             /\ Stands(st, GpsField(k, j))
             /\ \E i \in DOMAIN st : /\ st[i].key.name = key /\ st[i].dirty
                                     /\ st[i].deleted <=> GpsField(k, j).values = <<>>
             /\ ~Present(k) /\ GpsChanges(k) = <<>> => LiveOf(source, key) = {}
             /\ key \in GpsTags /\ key # VersionTag
<1> DEFINE st == Run(source, GpsNew)
           f == GpsField(k, j)
<1>1. k \in DOMAIN GpsGroups[opts.api] /\ FirstBad(Sought(k)) = "OK"
  BY GpsCall
<1>2. Live(SourceOf(k, j)) <=> Present(k)
  BY <1>1, GpsSourceFacts
<1>3. /\ f.key = GpsGroup(k).keys[j]
      /\ IsSeq(f.values) /\ Len(f.values) = (IF Live(SourceOf(k, j)) THEN 1 ELSE 0)
      /\ f.values = IF Live(SourceOf(k, j)) THEN <<<<Raised(f.key, GpsPart(k, j))>>>> ELSE <<>>
      /\ \A x : Met(x, GpsTask(k, j)) <=> Holds(x, f, TRUE, MembersOf(k)[j], <<0>>)
  BY <1>1, GpsFieldFacts
<1>4. WellFormed(st) /\ Holds(st, f, TRUE, MembersOf(k)[j], <<0>>)
  BY GpsDone
<1> HIDE DEF f, st
<1>5. Stands(st, f) /\ \E i \in DOMAIN st : /\ st[i].key.name = f.key /\ st[i].dirty
                                            /\ st[i].deleted <=> f.values = <<>>
  <2>1. TRUE \in BOOLEAN
    OBVIOUS
  <2> QED BY <1>3, <1>4, <2>1, HeldStands
<1>6. Len(f.values) \in Nat /\ Len(f.values) <= 1 /\ (Len(f.values) = 1 <=> Present(k)) /\ (Len(f.values) = 0 <=> ~Present(k))
  BY <1>2, <1>3
<1>7. /\ Len(f.values) = 0 <=> LiveOf(st, f.key) = {}
      /\ Len(f.values) = 1 => \A i \in LiveOf(st, f.key) : Unpadded(st[i].value) = Unpadded(f.values[1])
  BY <1>4, <1>6, HoldsLive
<1>8. Present(k) => f.values[1] = <<Raised(f.key, GpsPart(k, j))>>
  BY <1>2, <1>3
<1>9. ASSUME ~Present(k), GpsChanges(k) = <<>> PROVE LiveOf(source, f.key) = {}
  <2>1. DoesAll(<<>>, GpsTasks(k)) /\ GpsTask(k, j) \in GpsTasks(k)
    BY <1>1, <1>9, GpsChangesDo, GpsTaskKeys
  <2>2. Met(Run(source, <<>>), GpsTask(k, j))
    BY <2>1, DoneFromNothing
  <2>3. Run(source, <<>>) = source
    BY RunEmpty
  <2>4. Holds(source, f, TRUE, MembersOf(k)[j], <<0>>)
    BY <1>3, <2>2, <2>3
  <2>5. Len(f.values) = 0 <=> LiveOf(source, f.key) = {}
    BY <1>6, <2>4, HoldsLive
  <2> QED BY <1>6, <1>9, <2>5
<1>10. f.key \in GpsTags /\ f.key # VersionTag
  BY <1>1, <1>3, GpsKeyIsTag, GpsKeysFacts
<1>11. Present(k) <=> LiveOf(st, f.key) # {}
  BY <1>6, <1>7
<1>12. Present(k) => \A i \in LiveOf(st, f.key) : Unpadded(st[i].value) = Unpadded(<<Raised(f.key, GpsPart(k, j))>>)
  BY <1>6, <1>7, <1>8
<1> QED BY <1>3, <1>5, <1>9, <1>10, <1>11, <1>12 DEF f, st

(* What a call does not write stays as it was.                             *)
LEMMA TagKept ==
  ASSUME WellFormed(source), ValidOptions(opts), opts.api \in GpsApis,
         \A k \in Range(GpsChosen) : FirstBad(Sought(k)) = "OK",
         NEW key \in GpsTags, key \notin GpsKeys
  PROVE  LiveOf(Run(source, GpsNew), key) = LiveOf(source, key)
<1>1. Keeps(source, Run(source, GpsNew), GpsKeys \cup {VersionTag})
  BY GpsDone
<1>2. key \notin GpsKeys \cup {VersionTag}
  BY GpsKeysFacts
<1> QED BY <1>1, <1>2, KeepsOthers

(* The version goes only when no other tag is left.                        *)
LEMMA NoneLeft ==
  ASSUME WellFormed(source), ValidOptions(opts), opts.api \in GpsApis,
         \A k \in Range(GpsChosen) : FirstBad(Sought(k)) = "OK", VersionGoes, ~NeedVersion,
         NEW key \in GpsTags
  PROVE  LiveOf(Run(source, GpsNew), key) = {}
<1> DEFINE st == Run(source, GpsNew)
<1>1. CASE key \in GpsKeys
  <2>1. PICK k \in Range(GpsWritten) : \E j \in 1 .. Len(GpsGroup(k).keys) : key = GpsGroup(k).keys[j]
    BY <1>1, GpsKeysFacts
  <2>2. PICK j \in 1 .. Len(GpsGroup(k).keys) : key = GpsGroup(k).keys[j]
    BY <2>1
  <2>3. ~Present(k)
    BY GpsCall
  <2> QED BY <2>2, <2>3, MemberLeft
<1>2. CASE key \notin GpsKeys
  <2>1. LiveOf(st, key) = LiveOf(source, key)
    BY <1>2, TagKept
  <2>2. ASSUME NEW i \in LiveOf(source, key) PROVE FALSE
    <3>1. \A k \in GpsRemoved : k \in Range(GpsWritten)
      BY DEF GpsRemoved
    <3>2. \A k \in GpsRemoved : source[i].key.name \notin Range(GpsGroup(k).keys)
      BY <1>2, <2>2, <3>1 DEF GpsKeys, LiveOf
    <3>3. i \in Id /\ Live(i) /\ source[i].key.name \in GpsTags
      BY <2>2 DEF LiveOf, Live, Id
    <3>4. i \in GpsRest
      BY <3>2, <3>3 DEF GpsRest
    <3> QED BY <3>4 DEF VersionGoes
  <2> QED BY <2>1, <2>2
<1> QED BY <1>1, <1>2

(* When none is left after a removal, it goes.                             *)
LEMMA LastGoes ==
  ASSUME WellFormed(source), ValidOptions(opts), opts.api \in GpsApis,
         \A k \in Range(GpsChosen) : FirstBad(Sought(k)) = "OK", GpsRemoved # {},
         \A key \in GpsTags : LiveOf(Run(source, GpsNew), key) = {}
  PROVE  VersionGoes /\ ~NeedVersion
<1> DEFINE st == Run(source, GpsNew)
<1>1. ~NeedVersion
  <2> SUFFICES ASSUME NeedVersion PROVE FALSE
    OBVIOUS
  <2>1. PICK k \in Range(GpsWritten) : Present(k)
    BY GpsCall
  <2>2. 1 \in 1 .. Len(GpsGroup(k).keys)
    <3>1. k \in DOMAIN GpsGroups[opts.api]
      BY GpsCall
    <3>2. Len(GpsGroup(k).keys) \in {1, 2}
      BY <3>1, GpsTable DEF GoodGroup
    <3>3. \A n \in {1, 2} : 1 \in 1 .. n
      OBVIOUS
    <3> QED BY <3>2, <3>3
  <2> DEFINE key == GpsGroup(k).keys[1]
  <2>3. LiveOf(st, key) # {} /\ key \in GpsTags
    BY <2>1, <2>2, MemberLeft
  <2> QED BY <2>3
<1>2. GpsRest = {}
  <2> SUFFICES ASSUME NEW i \in GpsRest PROVE FALSE
    OBVIOUS
  <2> DEFINE key == source[i].key.name
  <2>1. key \in GpsTags /\ i \in LiveOf(source, key) /\ \A k \in GpsRemoved : key \notin Range(GpsGroup(k).keys)
    BY DEF GpsRest, LiveOf, Live, Id
  <2> HIDE DEF key
  <2>2. CASE key \notin GpsKeys
    BY <2>1, <2>2, TagKept
  <2>3. CASE key \in GpsKeys
    <3>0. PICK k \in Range(GpsWritten) : \E j \in 1 .. Len(GpsGroup(k).keys) : key = GpsGroup(k).keys[j]
      BY <2>3, GpsKeysFacts
    <3>1. PICK j \in 1 .. Len(GpsGroup(k).keys) : key = GpsGroup(k).keys[j]
      BY <3>0
    <3>2. ~Present(k)
      BY <1>1, GpsCall
    <3>3. key \in Range(GpsGroup(k).keys)
      <4>1. k \in DOMAIN GpsGroups[opts.api]
        BY GpsCall
      <4>2. DOMAIN GpsGroup(k).keys = 1 .. Len(GpsGroup(k).keys)
        BY <4>1, GpsTable, SeqFacts DEF GoodGroup
      <4> QED BY <3>1, <4>2 DEF Range
    <3>4. GpsChanges(k) = <<>>
      BY <2>1, <3>2, <3>3 DEF GpsRemoved
    <3>5. LiveOf(source, key) = {}
      BY <3>1, <3>2, <3>4, MemberLeft
    <3> QED BY <2>1, <3>5
  <2> QED BY <2>2, <2>3
<1> QED BY <1>1, <1>2 DEF VersionGoes

(* A height under its version.                                             *)
LEMMA HeightReads ==
  ASSUME WellFormed(source), ValidOptions(opts), opts.api \in GpsApis,
         \A k \in Range(GpsChosen) : FirstBad(Sought(k)) = "OK", FirstBad(Versioned) = "OK",
         "gps:5" \in GpsKeys, NEW i \in LiveOf(Run(source, GpsNew), "gps:5")
  PROVE  LET st == Run(source, GpsNew)
         IN  Unpadded(st[i].value)[1] \in {"2", "3"} <=> Values(st, VersionTag) = <<<<"2.4">>>>
<1> DEFINE st == Run(source, GpsNew)
           after == Values(st, VersionTag)
           src == SourceOf(3, 1)
           part == GpsPart(3, 1)
           r == Raised("gps:5", part)
<1>1. /\ opts.api = "gps" /\ 3 \in Range(GpsWritten) /\ GpsGroup(3) = HeightGroup /\ 3 \in DOMAIN GpsGroups[opts.api]
      /\ 1 \in 1 .. Len(GpsGroup(3).keys) /\ GpsGroup(3).keys[1] = "gps:5"
  <2>0. PICK k \in Range(GpsWritten) : \E j \in 1 .. Len(GpsGroup(k).keys) : "gps:5" = GpsGroup(k).keys[j]
    BY GpsKeysFacts
  <2>1. PICK j \in 1 .. Len(GpsGroup(k).keys) : "gps:5" = GpsGroup(k).keys[j]
    BY <2>0
  <2>2. k \in DOMAIN GpsGroups[opts.api]
    BY GpsCall
  <2>3. opts.api = "gps" /\ k = 3 /\ j = 1 /\ GpsGroup(k) = HeightGroup
    BY <2>1, <2>2, GpsTable
  <2> QED BY <2>1, <2>2, <2>3
<1>2. /\ Present(3) <=> LiveOf(st, "gps:5") # {}
      /\ Present(3) => \A h \in LiveOf(st, "gps:5") : Unpadded(st[h].value) = Unpadded(<<r>>)
  <2>1. LET key == GpsGroup(3).keys[1]
        IN  /\ Present(3) <=> LiveOf(Run(source, GpsNew), key) # {}
            /\ Present(3) => \A h \in LiveOf(Run(source, GpsNew), key) :
                  Unpadded(Run(source, GpsNew)[h].value) = Unpadded(<<Raised(key, GpsPart(3, 1))>>)
    BY <1>1, MemberLeft
  <2> QED BY <1>1, <2>1
<1>3. Present(3) /\ Unpadded(st[i].value) = Unpadded(<<r>>)
  <2> HIDE DEF st, r
  <2>1. i \in LiveOf(st, "gps:5")
    BY DEF st
  <2> QED BY <1>2, <2>1
<1>4. 3 \in Range(GpsChosen) /\ FirstBad(Sought(3)) = "OK"
  BY <1>1, GpsCall
<1> DEFINE p == GpsGroup(3).props[PropFor(3, 1)]
<1>5. Live(src) /\ src \in Heard(p) /\ Refusal(p) = "OK"
  BY <1>1, <1>3, <1>4, GpsSourceFacts
<1>6. GpsGroup(3).props = <<"GPSAltitudeRef", "GPSAltitude">>
  BY <1>1 DEF HeightGroup, Gps
<1>7. p = "GPSAltitudeRef" /\ Len(GpsGroup(3).props) = 2
  BY <1>6 DEF PropFor
<1> HIDE DEF p, src, st, r, part, after
<1>8. source[src].value \in {<<"0">>, <<"1">>}
  <2> DEFINE says(words) == \E h \in LiveHeard(p) : Range(source[h].value) \cap words # {}
             noRef == p = "GPSAltitudeRef" /\ \E h \in LiveHeard(p) : source[h].value \notin AboveOrBelow
             a == When(says(Unparsable) \/ noRef, "INVALID_SOURCE")
             b == When(says(TooFine), "UNSUPPORTED_PRECISION")
             c == When(says(OutOfRange), "VALUE_OUT_OF_RANGE")
             v == <<a, b, c>>
  <2>1. Refusal(p) = FirstBad(v)
    BY DEF Refusal
  <2> HIDE DEF a, b, c
  <2>2. v \in Seq({a, b, c}) /\ Len(v) = 3 /\ v[1] = a
    OBVIOUS
  <2> HIDE DEF v
  <2>3. \A n \in 1 .. Len(v) : v[n] = "OK"
    <3>1. IsSeq(v) /\ FirstBad(v) = "OK"
      BY <1>5, <2>1, <2>2 DEF IsSeq
    <3> QED BY <3>1, FirstBadOk
  <2>4. a = "OK"
    BY <2>2, <2>3
  <2>5. ~noRef
    <3> HIDE DEF says, noRef
    <3> QED BY <2>4 DEF a, When
  <2>6. src \in LiveHeard(p)
    BY <1>5 DEF LiveHeard
  <2> QED BY <1>7, <2>5, <2>6 DEF AboveOrBelow
<1>9. part \in {"0", "1"}
  <2> DEFINE v == source[src].value
  <2>1. Plainly(v) = v
    <3> HIDE DEF v
    <3>1. \A s \in Spelling : s[1] # v
      BY <1>8, SpellingAssumption DEF v
    <3> QED BY <3>1 DEF Plainly
  <2>2. part = v[1]
    BY <1>7, <2>1 DEF part, GpsPart, src
  <2> QED BY <1>8, <2>2
<1>10. r = IF Version = "2.4" THEN (IF part = "0" THEN "2" ELSE "3") ELSE part
  BY DEF r, Raised, part
<1>11. r \in {"0", "1", "2", "3"} /\ (r \in {"2", "3"} <=> Version = "2.4")
  BY <1>9, <1>10
<1>12. Unpadded(st[i].value)[1] = r
  <2>1. r \notin Padded
    BY <1>11, SpellingAssumption
  <2>2. Unpadded(<<r>>) = <<r>>
    BY <2>1, UnpaddedOne
  <2> QED BY <1>3, <2>2
<1>13. NeedVersion
  BY <1>1, <1>3, GpsCall
<1>14. ~VersionGoes
  BY <1>1, <1>13 DEF VersionGoes
<1>15. after = <<<<"2.4">>>> <=> Version = "2.4"
  <2>1. /\ VersionDue => Version = "2.3" /\ after = <<<<"2.3">>>>
        /\ ~VersionDue => after = <<Unpadded(<<Version>>)>>
    BY <1>13, <1>14, GpsVersionReads DEF after, st
  <2>2. CASE VersionDue
    BY <2>1, <2>2
  <2>3. CASE ~VersionDue
    <3> DEFINE u == Unpadded(<<Version>>)
    <3>1. Version \in Padded => u = <<>> /\ Version # "2.4"
      BY SpellingAssumption, UnpaddedOne
    <3>2. Version \notin Padded => u = <<Version>>
      BY UnpaddedOne
    <3>3. after = <<u>>
      BY <2>1, <2>3
    <3> HIDE DEF u
    <3>4. <<u>> = <<<<"2.4">>>> <=> u = <<"2.4">>
      OBVIOUS
    <3>5. CASE Version \in Padded
      <4>1. u # <<"2.4">>
        BY <3>1, <3>5
      <4> QED BY <3>1, <3>3, <3>4, <3>5, <4>1
    <3>6. CASE Version \notin Padded
      <4>1. u = <<"2.4">> <=> Version = "2.4"
        BY <3>2, <3>6
      <4> QED BY <3>3, <3>4, <4>1
    <3> QED BY <3>5, <3>6
  <2> QED BY <2>2, <2>3
<1>16. Unpadded(st[i].value)[1] \in {"2", "3"} <=> after = <<<<"2.4">>>>
  BY <1>11, <1>12, <1>15
<1> QED BY <1>16 DEF st, after

(* A call whose verdicts are good leaves all that is promised of GPS.      *)
LEMMA GpsGood ==
  ASSUME WellFormed(source), ValidOptions(opts), opts.api \in GpsApis, NEW limits, IsSeq(limits),
         FirstBad(Then(Then(GpsSources, Over(GpsChosen, GpsCompared)), limits)) = "OK"
  PROVE  OkOps(source, GpsNew) /\ GpsStands(Run(source, GpsNew))
<1> DEFINE st == Run(source, GpsNew)
           fields == UNION {{GpsField(k, j) : j \in GpsMembers(k)} : k \in Range(GpsWritten)}
           keys == {f.key : f \in fields}
           left == {i \in DOMAIN st : ~st[i].deleted /\ st[i].key.name \in GpsTags}
           before == Values(source, VersionTag)
           after == Values(st, VersionTag)
<1>1. (\A k \in Range(GpsChosen) : FirstBad(Sought(k)) = "OK") /\ FirstBad(Versioned) = "OK"
  BY GpsVerdicts
<1>2. Range(GpsWritten) \subseteq DOMAIN GpsGroups[opts.api]
  BY GpsCall
<1>3. OkOps(source, GpsNew) /\ Keeps(source, st, GpsKeys \cup {VersionTag})
  BY <1>1, GpsDone
<1>4. \A f : f \in fields <=> \E k \in Range(GpsWritten) : \E j \in 1 .. Len(GpsGroup(k).keys) : f = GpsField(k, j)
  <2>1. \A k \in Range(GpsWritten) : GpsMembers(k) = 1 .. Len(GpsGroup(k).keys)
    BY <1>2, GpsTable, SeqFacts DEF GpsMembers, GoodGroup
  <2> QED BY <2>1
<1>5. keys = GpsKeys
  <2>1. \A x : x \in GpsKeys <=> \E k \in Range(GpsWritten) : \E j \in 1 .. Len(GpsGroup(k).keys) : x = GpsGroup(k).keys[j]
    BY GpsKeysFacts
  <2>2. \A k \in Range(GpsWritten) : \A j \in 1 .. Len(GpsGroup(k).keys) : GpsField(k, j).key = GpsGroup(k).keys[j]
    BY <1>2, GpsFieldFacts
  <2> HIDE DEF fields
  <2>3. \A x : x \in keys <=> \E k \in Range(GpsWritten) : \E j \in 1 .. Len(GpsGroup(k).keys) : x = GpsField(k, j).key
    BY <1>4
  <2> HIDE DEF keys
  <2> QED BY <2>1, <2>2, <2>3
<1>6. \A f \in fields : /\ Stands(st, f)
                        /\ \E i \in DOMAIN st : /\ st[i].key.name = f.key /\ st[i].dirty
                                                /\ st[i].deleted <=> f.values = <<>>
  <2> SUFFICES ASSUME NEW f \in fields
               PROVE  /\ Stands(st, f)
                      /\ \E i \in DOMAIN st : /\ st[i].key.name = f.key /\ st[i].dirty
                                              /\ st[i].deleted <=> f.values = <<>>
    OBVIOUS
  <2>0. PICK k \in Range(GpsWritten) : \E j \in 1 .. Len(GpsGroup(k).keys) : f = GpsField(k, j)
    BY <1>4
  <2>1. PICK j \in 1 .. Len(GpsGroup(k).keys) : f = GpsField(k, j)
    BY <2>0
  <2>2. f.key = GpsGroup(k).keys[j]
    BY <1>2, <2>1, GpsFieldFacts
  <2>3. /\ Stands(st, GpsField(k, j))
        /\ \E i \in DOMAIN st : /\ st[i].key.name = GpsGroup(k).keys[j] /\ st[i].dirty
                                /\ st[i].deleted <=> GpsField(k, j).values = <<>>
    BY <1>1, MemberLeft
  <2> HIDE DEF st, fields
  <2> QED BY <2>1, <2>2, <2>3
<1>7. OthersKept(st, GpsKeys \cup {VersionTag}, GpsKeys \cup {VersionTag})
  <2> HIDE DEF st
  <2> QED BY <1>3, KeptOthers
<1>8. \A i \in left : st[i].key.name \in GpsTags /\ i \in LiveOf(st, st[i].key.name)
  BY DEF LiveOf
<1>9. left = {} => \A key \in GpsTags : LiveOf(st, key) = {}
  BY DEF LiveOf
<1>10. VersionGoes /\ ~NeedVersion => left = {}
  <2> SUFFICES ASSUME VersionGoes, ~NeedVersion PROVE left = {}
    OBVIOUS
  <2>1. \A key \in GpsTags : LiveOf(st, key) = {}
    BY <1>1, NoneLeft
  <2> HIDE DEF st, left
  <2> QED BY <1>8, <2>1
<1>11. left = {} /\ GpsRemoved # {} => VersionGoes /\ ~NeedVersion
  <2> SUFFICES ASSUME left = {}, GpsRemoved # {} PROVE VersionGoes /\ ~NeedVersion
    OBVIOUS
  <2>1. \A key \in GpsTags : LiveOf(st, key) = {}
    BY <1>9
  <2> QED BY <1>1, <2>1, LastGoes
<1>12. /\ before = <<>> <=> Versions = <<>>
       /\ VersionDue => after = <<<<"2.3">>>>
       /\ ~VersionDue /\ VersionGoes => after = <<>>
       /\ ~VersionDue /\ ~VersionGoes => after = before
       /\ NeedVersion /\ ~VersionDue => Len(before) = 1
  BY <1>1, GpsVersionReads
<1>13. VersionDue <=> NeedVersion /\ before = <<>>
  BY <1>12 DEF VersionDue
<1>14. ~VersionDropped => ~(VersionGoes /\ NeedVersion)
  BY DEF VersionDropped, Grouped, VersionGoes
<1>15. \A i \in left : st[i].key.name \in GpsKeys \cap {"gps:5"} =>
          (Unpadded(st[i].value)[1] \in {"2", "3"} <=> after = <<<<"2.4">>>>)
  <2> SUFFICES ASSUME NEW i \in left, st[i].key.name = "gps:5", "gps:5" \in GpsKeys
               PROVE  Unpadded(st[i].value)[1] \in {"2", "3"} <=> after = <<<<"2.4">>>>
    OBVIOUS
  <2>1. i \in LiveOf(st, "gps:5")
    BY <1>8
  <2> QED BY <1>1, <2>1, HeightReads
<1>16. ~VersionDropped =>
          /\ NeedVersion => Len(after) = 1
          /\ left # {} => after = IF before = <<>> /\ NeedVersion THEN <<<<"2.3">>>> ELSE before
          /\ left = {} /\ GpsRemoved # {} => after = <<>>
  <2>1. Len(<<<<"2.3">>>>) = 1
    OBVIOUS
  <2> HIDE DEF before, after, left, st
  <2> QED BY <1>10, <1>11, <1>12, <1>13, <1>14, <2>1
<1>17. GpsStands(st)
  <2>1. OthersKept(st, keys \cup {VersionTag}, keys \cup {VersionTag})
    <3> HIDE DEF keys, st
    <3> QED BY <1>5, <1>7
  <2>2. \A i \in left : st[i].key.name \in keys \cap {"gps:5"} =>
          (Unpadded(st[i].value)[1] \in {"2", "3"} <=> after = <<<<"2.4">>>>)
    <3> HIDE DEF keys, st, left, after
    <3> QED BY <1>5, <1>15
  <2> QED BY <1>6, <1>16, <2>1, <2>2 DEF GpsStands
<1> QED BY <1>3, <1>17

-----------------------------------------------------------------------------
(* What is promised depends on the store the call started from and on its  *)
(* options alone: a step that keeps both keeps every promise.              *)
LEMMA BaseFrame ==
  ASSUME source' = source, opts' = opts
  PROVE  /\ Id' = Id
         /\ \A i : (Live(i)' <=> Live(i)) /\ Word(i)' = Word(i) /\ BlockOf(i)' = BlockOf(i)
         /\ \A i : FourBytes(i)' <=> FourBytes(i)
         /\ \A name : Named(name)' = Named(name)
         /\ \A ids : Noted(ids)' = Noted(ids) /\ InOrder(ids)' = InOrder(ids) /\ Sorted(ids)' = Sorted(ids)
         /\ \A ids : SomeEdited(ids)' <=> SomeEdited(ids)
         /\ \A key, o : Natives(key, o)' = Natives(key, o)
<1>1. Id' = Id /\ \A i : (Live(i)' <=> Live(i)) /\ Word(i)' = Word(i) /\ BlockOf(i)' = BlockOf(i)
  BY DEF Id, Live, Word, BlockOf
<1>2. \A i : FourBytes(i)' <=> FourBytes(i)
  BY <1>1 DEF FourBytes
<1>3. \A name : Named(name)' = Named(name)
  BY <1>1 DEF Named
<1>4. \A ids : Noted(ids)' = Noted(ids) /\ InOrder(ids)' = InOrder(ids) /\ Sorted(ids)' = Sorted(ids)
  BY <1>1 DEF Noted, InOrder, Sorted
<1>5. \A ids : SomeEdited(ids)' <=> SomeEdited(ids)
  BY DEF SomeEdited
<1>6. \A key, o : Natives(key, o)' = Natives(key, o)
  BY <1>1, <1>4 DEF Natives
<1> QED BY <1>1, <1>2, <1>3, <1>4, <1>5, <1>6

(* What is said of a store depends on the source alone.                    *)
LEMMA StandsFrame ==
  ASSUME source' = source
  PROVE  /\ \A st, f : Stands(st, f)' <=> Stands(st, f)
         /\ \A st, a, b : OthersKept(st, a, b)' <=> OthersKept(st, a, b)
<1>1. Id' = Id
  BY DEF Id
<1>2. \A st, f : Stands(st, f)' <=> Stands(st, f)
  BY DEF Stands
<1>3. \A st, a, b : OthersKept(st, a, b)' <=> OthersKept(st, a, b)
  BY <1>1 DEF OthersKept
<1> QED BY <1>2, <1>3

(* The promises on texts.                                                  *)
LEMMA TextsFrame ==
  ASSUME source' = source, opts' = opts
  PROVE  \A st : TextsStand(st)' <=> TextsStand(st)
<1>1. \A k : TextSources(k)' = TextSources(k)
  BY BaseFrame DEF TextSources
<1>2. TextChosen' = TextChosen
  <2>1. {k \in opts.mappings : TextSources(k) # {}}' = {k \in opts.mappings : TextSources(k) # {}}
    BY <1>1
  <2> QED BY <2>1 DEF TextChosen, Chosen
<1>3. \A k : TextSource(k)' = TextSource(k) /\ TextNatives(k)' = TextNatives(k)
  BY <1>1, BaseFrame DEF TextSource, TextNatives
<1>4. OldVersion' = OldVersion /\ NewVersion' = NewVersion
  BY <1>2, <1>3, BaseFrame DEF OldVersion, NewVersion
<1>5. \A k : (TextKept(k)' <=> TextKept(k)) /\ Encoded(k)' = Encoded(k) /\ WireType(k)' = WireType(k)
  BY <1>3, <1>4, BaseFrame DEF TextKept, Encoded, WireType
<1>6. \A k : TextSame(k)' <=> TextSame(k)
  BY <1>3, <1>5, BaseFrame DEF TextSame
<1>7. TextWritten' = TextWritten
  <2>1. {k \in Range(TextChosen) : ~TextKept(k) /\ ~TextSame(k)}'
           = {k \in Range(TextChosen) : ~TextKept(k) /\ ~TextSame(k)}
    BY <1>2, <1>5, <1>6
  <2> QED BY <2>1 DEF TextWritten
<1>8. (VersionKept' <=> VersionKept) /\ (VersionCrossed' <=> VersionCrossed)
  BY <1>2, <1>3, <1>4, <1>5, <1>7 DEF VersionKept, VersionCrossed
<1>9. TextsAgree(source)' <=> TextsAgree(source)
  OBVIOUS
<1> QED BY <1>2, <1>3, <1>4, <1>5, <1>7, <1>8, <1>9, BaseFrame, StandsFrame DEF TextsStand

(* OperationsAre, in the next state.                                       *)
LEMMA OperationsAreThen ==
  (\A f, ids, lifecycle, places :
     Operations(f, ids, lifecycle, places)
       = FlattenSeq(Changes(f, ids, lifecycle)) \o Additions(f, ids, places)
         \o OpIntent(f, ids, lifecycle, places))'
BY OperationsAre, PTL

(* The promises on GPS.                                                    *)
LEMMA GpsFrame ==
  ASSUME source' = source, opts' = opts
  PROVE  \A st : GpsStands(st)' <=> GpsStands(st)
<1>1. \A k : GpsGroup(k)' = GpsGroup(k) /\ GpsMembers(k)' = GpsMembers(k)
  BY DEF GpsGroup, GpsMembers
<1>2. \A p : Heard(p)' = Heard(p) /\ LiveHeard(p)' = LiveHeard(p)
  BY BaseFrame DEF Heard, LiveHeard
<1>3. \A k : (GpsSpeaks(k)' <=> GpsSpeaks(k)) /\ (Present(k)' <=> Present(k))
  BY <1>1, <1>2, BaseFrame DEF GpsSpeaks, Present
<1>4. GpsChosen' = GpsChosen
  <2>1. {k \in opts.mappings : GpsSpeaks(k)}' = {k \in opts.mappings : GpsSpeaks(k)}
    BY <1>3
  <2> QED BY <2>1 DEF GpsChosen, Chosen
<1>5. Versions' = Versions /\ Version' = Version
  BY BaseFrame DEF Versions, Version
<1>6. \A k, j : SourceOf(k, j)' = SourceOf(k, j)
  BY <1>1, <1>2 DEF SourceOf
<1>7. \A key, s : Raised(key, s)' = Raised(key, s)
  BY <1>5 DEF Raised
<1>8. \A k, j : GpsField(k, j)' = GpsField(k, j)
  BY <1>1, <1>6, <1>7, BaseFrame DEF GpsField
<1>9. \A k : MembersOf(k)' = MembersOf(k)
  BY <1>1, BaseFrame DEF MembersOf
<1>10. \A k : (GpsExisting(k)' <=> GpsExisting(k)) /\ (GpsKept(k)' <=> GpsKept(k))
  BY <1>1, <1>9 DEF GpsExisting, GpsKept
<1>11. GpsWritten' = GpsWritten
  <2>1. {k \in Range(GpsChosen) : ~GpsKept(k)}' = {k \in Range(GpsChosen) : ~GpsKept(k)}
    BY <1>4, <1>10
  <2> QED BY <2>1 DEF GpsWritten
<1>12. \A key : (HasDeleteIntent(key)' <=> HasDeleteIntent(key)) /\ CleanIntents(key)' = CleanIntents(key)
  BY BaseFrame DEF HasDeleteIntent, CleanIntents
<1>13. \A i, v, lc : Same(i, v, lc)' <=> Same(i, v, lc)
  BY DEF Same
<1>14. \A f, ids, lc, places : Operations(f, ids, lc, places)' = Operations(f, ids, lc, places)
  <2>1. \A f, ids, lc, j : OpAt(f, ids, lc, j)' = OpAt(f, ids, lc, j)
    BY <1>13 DEF OpAt
  <2>2. \A f, places, v, j, gone : OpAdd(f, places, v, j, gone)' = OpAdd(f, places, v, j, gone)
    BY DEF OpAdd
  <2>3. \A f, ids, lc, places : OpIntent(f, ids, lc, places)' = OpIntent(f, ids, lc, places)
    <3> DEFINE first(key) == CHOOSE i \in CleanIntents(key) : \A j \in CleanIntents(key) : i <= j
    <3>1. \A key : first(key)' = first(key)
      BY <1>12
    <3>2. \A f, ids, lc, places : OpIntent(f, ids, lc, places)
             = IF ~lc \/ ids # <<>> \/ f.values # <<>> \/ HasDeleteIntent(f.key) THEN <<>>
               ELSE IF CleanIntents(f.key) = {} THEN <<OpAdd(f, places, <<>>, 1, TRUE)>>
               ELSE <<[kind |-> "TOMBSTONE", target |-> first(f.key) - 1]>>
      BY DEF OpIntent
    <3>3. \A f, ids, lc, places : OpIntent(f, ids, lc, places)'
             = IF ~lc \/ ids # <<>> \/ f.values # <<>> \/ HasDeleteIntent(f.key)' THEN <<>>
               ELSE IF CleanIntents(f.key)' = {} THEN <<OpAdd(f, places, <<>>, 1, TRUE)'>>
               ELSE <<[kind |-> "TOMBSTONE", target |-> first(f.key)' - 1]>>
      BY DEF OpIntent
    <3> HIDE DEF first
    <3> QED BY <1>12, <2>2, <3>1, <3>2, <3>3
  <2>4. \A f, ids, lc : Changes(f, ids, lc)' = Changes(f, ids, lc)
    BY <2>1 DEF Changes
  <2>5. \A f, ids, places : Additions(f, ids, places)' = Additions(f, ids, places)
    BY <2>2 DEF Additions
  <2> QED BY <2>3, <2>4, <2>5, OperationsAre, OperationsAreThen
<1>15. \A k : GpsChanges(k)' = GpsChanges(k)
  BY <1>1, <1>8, <1>9, <1>14 DEF GpsChanges
<1>16. GpsRemoved' = GpsRemoved
  BY <1>3, <1>11, <1>15 DEF GpsRemoved
<1>17. GpsRest' = GpsRest
  BY <1>1, <1>16, BaseFrame DEF GpsRest
<1>18. \A ks : GpsPresent(ks)' = GpsPresent(ks)
  <2>1. \A ks : {k \in Range(ks) : Present(k)}' = {k \in Range(ks) : Present(k)}
    BY <1>3
  <2> QED BY <2>1 DEF GpsPresent
<1>19. (NeedVersion' <=> NeedVersion) /\ (VersionGoes' <=> VersionGoes)
  BY <1>11, <1>16, <1>17, <1>18 DEF NeedVersion, VersionGoes
<1>20. VersionDropped' <=> VersionDropped
  BY <1>19 DEF VersionDropped, Grouped
<1>21. \A k : {GpsField(k, j) : j \in GpsMembers(k)}' = {GpsField(k, j) : j \in GpsMembers(k)}
  BY <1>1, <1>8
<1> DEFINE fields == UNION {{GpsField(k, j) : j \in GpsMembers(k)} : k \in Range(GpsWritten)}
           kept(st) == OthersKept(st, {f.key : f \in fields} \cup {VersionTag},
                                  {f.key : f \in fields} \cup {VersionTag})
           firm(st) == \A f \in fields :
                          /\ Stands(st, f)
                          /\ \E i \in DOMAIN st : /\ st[i].key.name = f.key /\ st[i].dirty
                                                  /\ st[i].deleted <=> f.values = <<>>
           left(st) == {i \in DOMAIN st : ~st[i].deleted /\ st[i].key.name \in GpsTags}
           versioned(st) ==
              ~VersionDropped =>
                /\ NeedVersion => Len(Values(st, VersionTag)) = 1
                /\ left(st) # {} => Values(st, VersionTag)
                                      = IF Values(source, VersionTag) = <<>> /\ NeedVersion
                                        THEN <<<<"2.3">>>> ELSE Values(source, VersionTag)
                /\ left(st) = {} /\ GpsRemoved # {} => Values(st, VersionTag) = <<>>
           raised(st) ==
              \A i \in left(st) : st[i].key.name \in {f.key : f \in fields} \cap {"gps:5"} =>
                (Unpadded(st[i].value)[1] \in {"2", "3"} <=> Values(st, VersionTag) = <<<<"2.4">>>>)
<1>22. fields' = fields
  BY <1>11, <1>21
<1>23. \A st : GpsStands(st) <=> firm(st) /\ kept(st) /\ versioned(st) /\ raised(st)
  BY DEF GpsStands
<1>24. \A st : GpsStands(st)' <=> firm(st)' /\ kept(st)' /\ versioned(st)' /\ raised(st)'
  BY DEF GpsStands
<1> HIDE DEF fields
<1>25. \A st : kept(st)' <=> kept(st)
  BY <1>22, StandsFrame
<1>26. \A st : firm(st)' <=> firm(st)
  BY <1>22, StandsFrame
<1>27. \A st : versioned(st)' <=> versioned(st)
  BY <1>16, <1>19, <1>20
<1>28. \A st : raised(st)' <=> raised(st)
  BY <1>22
<1> HIDE DEF kept, firm, versioned, raised
<1> QED BY <1>23, <1>24, <1>25, <1>26, <1>27, <1>28
=============================================================================
