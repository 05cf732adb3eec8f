------------------------- MODULE TranslationProofs -------------------------
(***************************************************************************)
(* Translations are whole: for any store, words, limits and options a call *)
(* that succeeds leaves a store in which everything it promises stands,    *)
(* and a call that fails leaves none.  The exchanges of IPTC and XMP come  *)
(* first (PairsGood, FilledGood, WrittenGood), then the groups of a call   *)
(* from XMP to EXIF, written one by one (XmpDone), then the machine that   *)
(* runs them (TranslateInv).                                               *)
(***************************************************************************)
EXTENDS TranslationLemmas

-----------------------------------------------------------------------------
(* The groups of XMP and IPTC, by the name on either side.                 *)
StdWith(name) ==
    IF name \in {"title", "2:5"} THEN 1
    ELSE IF name \in {"description", "2:120"} THEN 2
    ELSE IF name \in {"creator", "2:80"} THEN 3
    ELSE IF name \in {"subject", "2:25"} THEN 4
    ELSE IF name \in {"rights", "2:116"} THEN 5
    ELSE IF name \in {"Credit", "2:110"} THEN 6
    ELSE IF name \in {"Source", "2:115"} THEN 7
    ELSE IF name \in {"City", "2:90"} THEN 8
    ELSE IF name \in {"Location", "2:92"} THEN 9
    ELSE IF name \in {"State", "2:95"} THEN 10
    ELSE IF name \in {"Country", "2:101"} THEN 11
    ELSE IF name \in {"CountryCode", "2:100"} THEN 12
    ELSE IF name \in {"Headline", "2:105"} THEN 13
    ELSE IF name \in {"Instructions", "2:40"} THEN 14
    ELSE IF name \in {"TransmissionReference", "2:103"} THEN 15
    ELSE IF name \in {"AuthorsPosition", "2:85"} THEN 16
    ELSE IF name \in {"CaptionWriter", "2:122"} THEN 17
    ELSE IF name \in {"Category", "2:15"} THEN 18
    ELSE IF name \in {"SupplementalCategories", "2:20"} THEN 19
    ELSE 20
Numbers ==
    {"2:5", "2:120", "2:80", "2:25", "2:116", "2:110", "2:115", "2:90", "2:92", "2:95", "2:101", "2:100", "2:105", "2:40", "2:103", "2:85", "2:122", "2:15", "2:20", "2:10"}
GoodStd(g, k) ==
    /\ StdWith(g.prop) = k /\ StdWith(g.key) = k /\ g.items \in BOOLEAN
    /\ g.prop # Marker /\ g.key # Marker
    /\ g.prop \notin Numbers /\ g.key \in Numbers
    /\ g.items => g.prop \notin {"DateCreated", "CreateDate"}

(* An entry of the standard table is good, as a text and as a bag.         *)
LEMMA StdOne ==
  ASSUME NEW p, NEW key, NEW k, StdWith(p) = k, StdWith(key) = k, p # Marker, key # Marker,
         p \notin Numbers, key \in Numbers, p \notin {"DateCreated", "CreateDate"}
  PROVE  GoodStd(One(p, key), k) /\ GoodStd(Bag(p, key), k)
BY DEF GoodStd, One, Bag

(* All twenty are.                                                         *)
LEMMA StdTable ==
  /\ DOMAIN Std = 1 .. 20
  /\ \A k \in 1 .. 20 : GoodStd(Std[k], k)
<1>1. DOMAIN Std = 1 .. 20
  BY DEF Std
<1>2. GoodStd(Std[1], 1)
  <2>1. Std[1] = One("title", "2:5")
    BY DEF Std
  <2> QED BY <2>1, StdOne DEF StdWith, Numbers, Marker
<1>3. GoodStd(Std[2], 2)
  <2>1. Std[2] = One("description", "2:120")
    BY DEF Std
  <2> QED BY <2>1, StdOne DEF StdWith, Numbers, Marker
<1>4. GoodStd(Std[3], 3)
  <2>1. Std[3] = Bag("creator", "2:80")
    BY DEF Std
  <2> QED BY <2>1, StdOne DEF StdWith, Numbers, Marker
<1>5. GoodStd(Std[4], 4)
  <2>1. Std[4] = Bag("subject", "2:25")
    BY DEF Std
  <2> QED BY <2>1, StdOne DEF StdWith, Numbers, Marker
<1>6. GoodStd(Std[5], 5)
  <2>1. Std[5] = One("rights", "2:116")
    BY DEF Std
  <2> QED BY <2>1, StdOne DEF StdWith, Numbers, Marker
<1>7. GoodStd(Std[6], 6)
  <2>1. Std[6] = One("Credit", "2:110")
    BY DEF Std
  <2> QED BY <2>1, StdOne DEF StdWith, Numbers, Marker
<1>8. GoodStd(Std[7], 7)
  <2>1. Std[7] = One("Source", "2:115")
    BY DEF Std
  <2> QED BY <2>1, StdOne DEF StdWith, Numbers, Marker
<1>9. GoodStd(Std[8], 8)
  <2>1. Std[8] = One("City", "2:90")
    BY DEF Std
  <2> QED BY <2>1, StdOne DEF StdWith, Numbers, Marker
<1>10. GoodStd(Std[9], 9)
  <2>1. Std[9] = One("Location", "2:92")
    BY DEF Std
  <2> QED BY <2>1, StdOne DEF StdWith, Numbers, Marker
<1>11. GoodStd(Std[10], 10)
  <2>1. Std[10] = One("State", "2:95")
    BY DEF Std
  <2> QED BY <2>1, StdOne DEF StdWith, Numbers, Marker
<1>12. GoodStd(Std[11], 11)
  <2>1. Std[11] = One("Country", "2:101")
    BY DEF Std
  <2> QED BY <2>1, StdOne DEF StdWith, Numbers, Marker
<1>13. GoodStd(Std[12], 12)
  <2>1. Std[12] = One("CountryCode", "2:100")
    BY DEF Std
  <2> QED BY <2>1, StdOne DEF StdWith, Numbers, Marker
<1>14. GoodStd(Std[13], 13)
  <2>1. Std[13] = One("Headline", "2:105")
    BY DEF Std
  <2> QED BY <2>1, StdOne DEF StdWith, Numbers, Marker
<1>15. GoodStd(Std[14], 14)
  <2>1. Std[14] = One("Instructions", "2:40")
    BY DEF Std
  <2> QED BY <2>1, StdOne DEF StdWith, Numbers, Marker
<1>16. GoodStd(Std[15], 15)
  <2>1. Std[15] = One("TransmissionReference", "2:103")
    BY DEF Std
  <2> QED BY <2>1, StdOne DEF StdWith, Numbers, Marker
<1>17. GoodStd(Std[16], 16)
  <2>1. Std[16] = One("AuthorsPosition", "2:85")
    BY DEF Std
  <2> QED BY <2>1, StdOne DEF StdWith, Numbers, Marker
<1>18. GoodStd(Std[17], 17)
  <2>1. Std[17] = One("CaptionWriter", "2:122")
    BY DEF Std
  <2> QED BY <2>1, StdOne DEF StdWith, Numbers, Marker
<1>19. GoodStd(Std[18], 18)
  <2>1. Std[18] = One("Category", "2:15")
    BY DEF Std
  <2> QED BY <2>1, StdOne DEF StdWith, Numbers, Marker
<1>20. GoodStd(Std[19], 19)
  <2>1. Std[19] = Bag("SupplementalCategories", "2:20")
    BY DEF Std
  <2> QED BY <2>1, StdOne DEF StdWith, Numbers, Marker
<1>21. GoodStd(Std[20], 20)
  <2>1. Std[20] = One("Urgency", "2:10")
    BY DEF Std
  <2> QED BY <2>1, StdOne DEF StdWith, Numbers, Marker
<1>30. \A k \in 1 .. 20 : k \in {1, 2, 3, 4, 5, 6, 7, 8, 9, 10, 11, 12, 13, 14, 15, 16, 17, 18, 19, 20}
  OBVIOUS
<1> HIDE DEF Std
<1> QED BY <1>1, <1>30, <1>2, <1>3, <1>4, <1>5, <1>6, <1>7, <1>8, <1>9, <1>10, <1>11, <1>12, <1>13, <1>14, <1>15, <1>16, <1>17, <1>18, <1>19, <1>20, <1>21

(* Two of them share no name on either side, and none is the marker.       *)
LEMMA StdApart ==
  ASSUME NEW k \in DOMAIN Std, NEW n \in DOMAIN Std
  PROVE  /\ Std[k].prop = Std[n].prop => k = n
         /\ Std[k].key = Std[n].key => k = n
         /\ Std[k].prop # Std[n].key /\ Std[k].prop # Marker /\ Std[k].key # Marker
         /\ Std[k].items \in BOOLEAN
         /\ Std[k].items => Std[k].prop \notin {"DateCreated", "CreateDate"}
BY StdTable DEF GoodStd

(* The two dates.                                                          *)
LEMMA PairTable ==
  /\ DOMAIN Pairs = 1 .. 2
  /\ Pairs[1].prop = "DateCreated" /\ Pairs[2].prop = "CreateDate"
BY DEF Pairs

(* What a call does that carries out a task for each of some groups.       *)
Planned(S, c, F, I, P) ==
    /\ \E N \in Nat : S \subseteq 1 .. N
    /\ IsSeq(c) /\ DOMAIN c = DOMAIN Ascending(S)
    /\ \A n \in DOMAIN Ascending(S) :
          c[n] = Operations(F[Ascending(S)[n]], I[Ascending(S)[n]], FALSE, P[Ascending(S)[n]])
    /\ \A k \in S : Fits(F[k], I[k], FALSE, P[k]) /\ IsSeq(F[k].values)
    /\ \A k, n \in S : F[k].key = F[n].key => k = n
KeysFrom(S, F) == {F[k].key : k \in S}

(* The operations of a field that fits do its task.                        *)
LEMMA FieldDoes ==
  ASSUME WellFormed(source), NEW f, NEW ids, NEW places, Fits(f, ids, FALSE, places)
  PROVE  DoesAll(Operations(f, ids, FALSE, places), {Task(f, FALSE, ids, places)})
<1>1. FALSE \in BOOLEAN
  OBVIOUS
<1>2. Does(Operations(f, ids, FALSE, places), f, FALSE, ids, places)
  BY <1>1, OperationsDo
<1> QED BY <1>2, OneDoes

(* So do those of groups that are planned well, one after the other.       *)
LEMMA GroupsDone ==
  ASSUME WellFormed(source), NEW S, NEW c, NEW F, NEW I, NEW P,
         Planned(S, c, F, I, P)
  PROVE  LET st == Run(source, FlattenSeq(c))
         IN  /\ OkOps(source, FlattenSeq(c)) /\ WellFormed(st) /\ Keeps(source, st, KeysFrom(S, F))
             /\ IsSeq(FlattenSeq(c))
             /\ \A k \in S : Stored(st, F[k].key) = F[k].values /\ Holds(st, F[k], FALSE, I[k], P[k])
<1> DEFINE s == Ascending(S)
           T == [k \in S |-> {Task(F[k], FALSE, I[k], P[k])}]
           W == {Task(F[k], FALSE, I[k], P[k]) : k \in S}
           st == Run(source, FlattenSeq(c))
<1>1. /\ IsSeq(s) /\ DOMAIN s = 1 .. Len(s) /\ Range(s) = S
      /\ \A j \in 1 .. Len(s) : s[j] \in S
      /\ \A j, n \in 1 .. Len(s) : s[j] = s[n] => j = n
  <2>1. PICK N \in Nat : S \subseteq 1 .. N
    BY DEF Planned
  <2> QED BY <2>1, ListOf
<1>2. \A k \in S : T[k] = {Task(F[k], FALSE, I[k], P[k])}
  OBVIOUS
<1>3. \A t : t \in W <=> \E k \in Range(s) : t \in T[k]
  BY <1>1, <1>2
<1>4. \A k \in S : Task(F[k], FALSE, I[k], P[k]) \in W
  OBVIOUS
<1>5. \A x : x \in KeysIn(W) <=> x \in KeysFrom(S, F)
  <2>1. \A t : t \in W <=> \E k \in S : t = Task(F[k], FALSE, I[k], P[k])
    OBVIOUS
  <2>2. \A k \in S : Task(F[k], FALSE, I[k], P[k]).field.key = F[k].key
    BY DEF Task
  <2> HIDE DEF W
  <2>3. \A x : x \in KeysIn(W) <=> \E t \in W : x = t.field.key
    BY DEF KeysIn
  <2>4. \A x : x \in KeysFrom(S, F) <=> \E k \in S : x = F[k].key
    BY DEF KeysFrom
  <2>5. ASSUME NEW x, NEW t \in W, x = t.field.key
        PROVE  \E k \in S : x = F[k].key
    <3>1. PICK k \in S : t = Task(F[k], FALSE, I[k], P[k])
      BY <2>1
    <3> QED BY <2>2, <2>5, <3>1
  <2>6. ASSUME NEW x, NEW k \in S, x = F[k].key
        PROVE  \E t \in W : x = t.field.key
    <3>1. Task(F[k], FALSE, I[k], P[k]) \in W
      BY <2>1
    <3> QED BY <2>2, <2>6, <3>1
  <2> QED BY <2>3, <2>4, <2>5, <2>6
<1> HIDE DEF T, W, s
<1>6. IsSeq(c) /\ DOMAIN c = DOMAIN s
      /\ \A n \in DOMAIN s : c[n] = Operations(F[s[n]], I[s[n]], FALSE, P[s[n]])
  BY DEF s, Planned
<1>7. \A k \in S : Fits(F[k], I[k], FALSE, P[k]) /\ IsSeq(F[k].values)
  BY DEF Planned
<1>8. \A n \in DOMAIN s : DoesAll(c[n], T[s[n]])
  <2> SUFFICES ASSUME NEW n \in DOMAIN s PROVE DoesAll(c[n], T[s[n]])
    OBVIOUS
  <2>1. s[n] \in S
    BY <1>1
  <2>2. c[n] = Operations(F[s[n]], I[s[n]], FALSE, P[s[n]]) /\ T[s[n]] = {Task(F[s[n]], FALSE, I[s[n]], P[s[n]])}
        /\ Fits(F[s[n]], I[s[n]], FALSE, P[s[n]])
    BY <1>2, <1>6, <1>7, <2>1
  <2>3. DoesAll(Operations(F[s[n]], I[s[n]], FALSE, P[s[n]]), {Task(F[s[n]], FALSE, I[s[n]], P[s[n]])})
    BY <2>2, FieldDoes
  <2> QED BY <2>2, <2>3
<1>9. \A k \in S : KeysIn(T[k]) = {F[k].key}
  <2> SUFFICES ASSUME NEW k \in S PROVE KeysIn(T[k]) = {F[k].key}
    OBVIOUS
  <2>1. KeysIn({Task(F[k], FALSE, I[k], P[k])}) = {F[k].key}
    BY DEF KeysIn, Task
  <2> QED BY <1>2, <2>1
<1>10. \A a, b \in Range(s) : a # b => KeysIn(T[a]) \cap KeysIn(T[b]) = {}
  <2>1. \A a, b \in S : F[a].key = F[b].key => a = b
    BY DEF Planned
  <2> SUFFICES ASSUME NEW a \in S, NEW b \in S, a # b PROVE KeysIn(T[a]) \cap KeysIn(T[b]) = {}
    BY <1>1
  <2>2. F[a].key # F[b].key
    BY <2>1
  <2>3. KeysIn(T[a]) = {F[a].key} /\ KeysIn(T[b]) = {F[b].key}
    BY <1>9
  <2> QED BY <2>2, <2>3
<1>11. \A j, n \in DOMAIN s : s[j] = s[n] => j = n
  BY <1>1
<1>12. DoesAll(FlattenSeq(c), W)
  BY <1>1, <1>3, <1>6, <1>8, <1>10, <1>11, EachDoes
<1>13. /\ OkOps(source, FlattenSeq(c)) /\ Keeps(source, st, KeysIn(W))
       /\ \A t \in W : Met(st, t)
  BY <1>12, DoneFromNothing
<1>14. WellFormed(st) /\ IsSeq(FlattenSeq(c))
  BY <1>13, <1>12 DEF Keeps, DoesAll
<1>15. KeysIn(W) = KeysFrom(S, F)
  BY <1>5
<1> HIDE DEF st
<1>16. ASSUME NEW k \in S
       PROVE  Stored(st, F[k].key) = F[k].values /\ Holds(st, F[k], FALSE, I[k], P[k])
  <2>1. Task(F[k], FALSE, I[k], P[k]) \in W
    BY <1>4
  <2>2. Holds(st, F[k], FALSE, I[k], P[k])
    <3>1. Met(st, Task(F[k], FALSE, I[k], P[k]))
      BY <1>13, <2>1
    <3> QED BY <3>1 DEF Met, Task
  <2>3. IsSeq(F[k].values) /\ FALSE \in BOOLEAN
    BY <1>7
  <2>4. Stored(st, F[k].key) = F[k].values
    BY <1>14, <2>2, <2>3, HeldStands
  <2> QED BY <2>2, <2>4
<1> QED BY <1>13, <1>14, <1>15, <1>16 DEF st

(* Destinations are the live entries of a name.                            *)
LEMMA DestFacts ==
  ASSUME WellFormed(source), NEW prop
  PROVE  /\ Dest(prop) = LiveOf(source, prop)
         /\ InOrder(Dest(prop)) = Natives(prop, FALSE) /\ Sorted(Dest(prop)) = Natives(prop, TRUE)
<1>1. Dest(prop) = LiveOf(source, prop)
  BY DEF Dest, Named, LiveOf, Live, Id
<1>2. {i \in Dest(prop) : Live(i)} = Dest(prop)
  BY DEF Dest
<1>3. {i \in Id : Live(i) /\ source[i].key.name = prop} = Dest(prop)
  BY DEF Dest, Named
<1>4. InOrder(Dest(prop)) = Natives(prop, FALSE)
  BY <1>2, <1>3 DEF InOrder, Natives
<1>5. Sorted(Dest(prop)) = Natives(prop, TRUE)
  BY <1>3 DEF Natives
<1> QED BY <1>1, <1>4, <1>5

(* Numbers up to N, listed.                                                *)
LEMMA Chosens ==
  ASSUME NEW N \in Nat, NEW S, S \subseteq 1 .. N
  PROVE  IsSeq(Ascending(S)) /\ Range(Ascending(S)) = S
BY ListOf

-----------------------------------------------------------------------------
(* The dates of IPTC.                                                      *)
PairsNew == FlattenSeq([j \in DOMAIN Drawn |-> PairChanges(Drawn[j])])

(* The dates a call draws, and its promises.                               *)
LEMMA PairCall ==
  ASSUME ValidOptions(opts), opts.api = "iptc_dates_to_xmp"
  PROVE  /\ Range(Drawn) \subseteq 1 .. 2 /\ Drawn = Ascending(Range(Drawn))
         /\ IsSeq(Drawn) /\ Promises = {PairField(n) : n \in Range(Drawn)}
<1>1. opts.mappings \subseteq 1 .. 2
  BY PairTable DEF ValidOptions, GpsApis, GpsGroups
<1>2. {k \in opts.mappings : PairSpeaks(k)} \subseteq 1 .. 2 /\ 2 \in Nat
  BY <1>1
<1>3. Range(PairsChosen) = {k \in opts.mappings : PairSpeaks(k)}
  BY <1>2, Chosens DEF PairsChosen, Chosen
<1> DEFINE S == {n \in Range(PairsChosen) : ~PairSpared(n)}
<1>4. S \subseteq 1 .. 2 /\ Drawn = Ascending(S)
  BY <1>2, <1>3 DEF Drawn
<1> HIDE DEF S
<1>5. IsSeq(Drawn) /\ Range(Drawn) = S
  BY <1>2, <1>4, Chosens
<1> QED BY <1>4, <1>5 DEF Promises

(* The field of a date fits what is live under its name.                   *)
LEMMA PairFits ==
  ASSUME WellFormed(source), NEW n
  PROVE  LET f == PairField(n)
         IN  /\ IsSeq(f.values) /\ f.key = Pairs[n].prop
             /\ Fits(f, InOrder(Dest(f.key)), FALSE, [j \in DOMAIN f.from |-> 0])
<1> DEFINE f == PairField(n)
           places == [j \in DOMAIN f.from |-> 0]
           dates == InOrder(DateIds(n))
           v == <<Word(dates[1])>> \o (IF InOrder(TimeIds(n)) = <<>> THEN <<"", "">> ELSE source[InOrder(TimeIds(n))[1]].value) \o <<"">>
<1>1. f.key = Pairs[n].prop /\ f.from = dates /\ f.values = IF dates = <<>> THEN <<>> ELSE <<v>>
  BY DEF PairField, Field
<1>2. dates = Natives(Pairs[n].date, FALSE)
  BY NamedInOrder DEF DateIds
<1>3. /\ IsSeq(dates) /\ Len(dates) \in Nat /\ DOMAIN dates = 1 .. Len(dates)
      /\ \A j \in 1 .. Len(dates) : dates[j] \in 1 .. Len(source)
  <2> HIDE DEF dates
  <2>1. FALSE \in BOOLEAN
    OBVIOUS
  <2> QED BY <1>2, <2>1, NativesFacts
<1> HIDE DEF v, f, dates
<1>4. IsSeq(<<>>) /\ Len(<<>>) = 0
  BY DEF IsSeq
<1>5. IsSeq(<<v>>) /\ Len(<<v>>) = 1
  BY OneIsSeq
<1>6. IsSeq(f.values) /\ Len(f.values) <= 1
  BY <1>1, <1>4, <1>5
<1>7. ASSUME Len(f.values) = 1 PROVE places[1] \in Nat /\ f.from[1] \in Id
  <2>1. dates # <<>>
    BY <1>1, <1>4, <1>7
  <2>2. 1 \in DOMAIN dates
    BY <1>3, <2>1 DEF IsSeq
  <2> QED BY <1>1, <1>3, <2>2, StoreFacts DEF Id
<1>8. Fits(f, Natives(f.key, FALSE), FALSE, places)
  <2>1. FALSE \in BOOLEAN
    OBVIOUS
  <2> HIDE DEF places
  <2> QED BY <1>6, <1>7, <2>1, SmallFits
<1>9. InOrder(Dest(f.key)) = Natives(f.key, FALSE)
  BY DestFacts
<1> QED BY <1>1, <1>6, <1>8, <1>9 DEF f

(* A call from IPTC dates to XMP keeps its promises.                       *)
LEMMA PairsGood ==
  ASSUME WellFormed(source), ValidOptions(opts), opts.api = "iptc_dates_to_xmp"
  PROVE  OkOps(source, PairsNew) /\ PromisesStand(Run(source, PairsNew))
<1> DEFINE S == Range(Drawn)
           c == [j \in DOMAIN Drawn |-> PairChanges(Drawn[j])]
           F == [n \in S |-> PairField(n)]
           I == [n \in S |-> InOrder(Dest(PairField(n).key))]
           P == [n \in S |-> [j \in DOMAIN PairField(n).from |-> 0]]
           st == Run(source, PairsNew)
<1>1. S \subseteq 1 .. 2 /\ 2 \in Nat /\ Drawn = Ascending(S) /\ IsSeq(Drawn)
  BY PairCall
<1>2. /\ \A n \in S : F[n] = PairField(n) /\ I[n] = InOrder(Dest(PairField(n).key))
      /\ \A n \in S : P[n] = [j \in DOMAIN PairField(n).from |-> 0]
  OBVIOUS
<1>3. \A n \in S : F[n].key = Pairs[n].prop /\ IsSeq(F[n].values) /\ Fits(F[n], I[n], FALSE, P[n])
  <2> SUFFICES ASSUME NEW n \in S
               PROVE  F[n].key = Pairs[n].prop /\ IsSeq(F[n].values) /\ Fits(F[n], I[n], FALSE, P[n])
    OBVIOUS
  <2> HIDE DEF F, I, P
  <2> QED BY <1>2, PairFits
<1>4. \A n \in S : PairChanges(n) = Operations(F[n], I[n], FALSE, P[n])
  BY <1>2 DEF PairChanges
<1>5. \A j \in DOMAIN Drawn : Drawn[j] \in S
  BY DEF Range
<1>6. DOMAIN c = DOMAIN Drawn /\ IsSeq(c) /\ \A n \in DOMAIN Drawn : c[n] = PairChanges(Drawn[n])
  <2>1. DOMAIN c = DOMAIN Drawn /\ c = [n \in DOMAIN Drawn |-> c[n]] /\ \A n \in DOMAIN Drawn : c[n] = PairChanges(Drawn[n])
    OBVIOUS
  <2> HIDE DEF c
  <2> QED BY <1>1, <2>1, MadeOf
<1>7. PairsNew = FlattenSeq(c) /\ Promises = {PairField(n) : n \in S}
  BY PairCall DEF PairsNew
<1>8. \A k, n \in S : F[k].key = F[n].key => k = n
  <2>1. \A k \in S : k = 1 \/ k = 2
    BY <1>1
  <2>2. \A k, n \in S : Pairs[k].prop = Pairs[n].prop => k = n
    BY <2>1, PairTable
  <2> QED BY <1>3, <2>2
<1> HIDE DEF F, I, P, c, S
<1>9. Planned(S, c, F, I, P)
  BY <1>1, <1>3, <1>4, <1>5, <1>6, <1>8 DEF Planned
<1>10. /\ OkOps(source, PairsNew) /\ WellFormed(st) /\ Keeps(source, st, KeysFrom(S, F))
       /\ \A k \in S : Stored(st, F[k].key) = F[k].values
  <2> DEFINE b == Run(source, FlattenSeq(c))
  <2>2. /\ OkOps(source, FlattenSeq(c)) /\ WellFormed(b) /\ Keeps(source, b, KeysFrom(S, F))
        /\ IsSeq(FlattenSeq(c))
        /\ \A k \in S : Stored(b, F[k].key) = F[k].values /\ Holds(b, F[k], FALSE, I[k], P[k])
    BY <1>9, GroupsDone
  <2> QED BY <1>7, <2>2
<1> HIDE DEF st
<1>11. \A x : x \in Promised <=> x \in KeysFrom(S, F)
  BY <1>2, <1>7 DEF Promised, KeysFrom
<1>12. KeysFrom(S, F) = Promised /\ Promised \subseteq {"DateCreated", "CreateDate"}
  <2>1. KeysFrom(S, F) = Promised
    BY <1>11 DEF Promised, KeysFrom
  <2>2. \A k \in S : k = 1 \/ k = 2
    BY <1>1
  <2>3. \A k \in S : F[k].key \in {"DateCreated", "CreateDate"}
    BY <1>3, <2>2, PairTable
  <2> QED BY <2>1, <2>3 DEF KeysFrom
<1>13. OthersKept(st, Promised, Promised \cup {Marker})
  BY <1>10, <1>12, KeptOthers
<1>14. Values(st, Marker) = Values(source, Marker)
  <2>1. Marker \notin Promised
    BY <1>12 DEF Marker
  <2> QED BY <1>10, <1>12, <2>1, KeepsOthers
<1>15. \A f \in Promises : Stored(st, f.key) = f.values
  BY <1>2, <1>7, <1>10
<1>16. \A k \in DOMAIN Std : ~(Std[k].items /\ Std[k].prop \in Promised)
  BY <1>12, StdApart
<1>17. PromisesStand(st)
  BY <1>13, <1>14, <1>15, <1>16 DEF PromisesStand
<1> QED BY <1>10, <1>17 DEF st

-----------------------------------------------------------------------------
(* Items that are numbered without a gap are where their numbers say.      *)
ClimbsOver(a, n) ==
    /\ n \in Nat
    /\ \A j \in 1 .. n : a[j] \in 1 .. n
    /\ \A v \in 1 .. n : \E j \in 1 .. n : a[j] = v
    /\ \A j, k \in 1 .. n : j < k => a[j] <= a[k]

(* What climbs by ones from one has each number at its place.              *)
LEMMA StepByStep ==
  ASSUME NEW n, NEW a, ClimbsOver(a, n)
  PROVE  \A j \in 1 .. n : a[j] = j
<1>0. /\ n \in Nat /\ \A j \in 1 .. n : a[j] \in 1 .. n
      /\ \A v \in 1 .. n : \E j \in 1 .. n : a[j] = v
      /\ \A j, k \in 1 .. n : j < k => a[j] <= a[k]
  BY DEF ClimbsOver
<1> USE <1>0
<1>1. \A j \in 1 .. n : a[j] <= j
  <2> DEFINE T == {j \in 1 .. n : a[j] > j}
  <2> SUFFICES ASSUME T # {} PROVE FALSE
    OBVIOUS
  <2>1. \A x \in T : x \in Nat
    OBVIOUS
  <2>2. PICK k \in T : \A y \in T : k <= y
    <3> HIDE DEF T
    <3> QED BY <2>1, LeastNumber
  <2>3. k \in 1 .. n /\ a[k] > k /\ \A j \in 1 .. n : j < k => a[j] <= j
    BY <2>2
  <2>4. PICK j \in 1 .. n : a[j] = k
    BY <2>3
  <2>5. CASE j < k
    BY <2>3, <2>4, <2>5
  <2>6. CASE j >= k
    <3>1. a[k] <= a[j]
      BY <2>3, <2>6
    <3>2. a[k] \in Int /\ a[j] \in Int /\ k \in Int
      BY <2>3
    <3> QED BY <2>3, <2>4, <3>1, <3>2
  <2> QED BY <2>3, <2>5, <2>6
<1>2. \A j \in 1 .. n : a[j] >= j
  <2> DEFINE T == {x \in 0 .. n - 1 : a[n - x] < n - x}
  <2> SUFFICES ASSUME NEW g \in 1 .. n, a[g] < g PROVE FALSE
    BY <1>1
  <2>1. \A x \in T : x \in Nat
    OBVIOUS
  <2>2. n - g \in T
    <3>1. n - g \in 0 .. n - 1 /\ n - (n - g) = g
      OBVIOUS
    <3> QED BY <3>1
  <2>3. PICK x \in T : \A y \in T : x <= y
    <3> HIDE DEF T
    <3> QED BY <2>1, <2>2, LeastNumber
  <2> DEFINE k == n - x
  <2>4. k \in 1 .. n /\ a[k] < k
    BY <2>3
  <2>5. \A j \in 1 .. n : j > k => a[j] >= j
    <3> SUFFICES ASSUME NEW j \in 1 .. n, j > k, a[j] < j PROVE FALSE
      OBVIOUS
    <3>1. n - j \in 0 .. n - 1 /\ n - (n - j) = j
      OBVIOUS
    <3>2. n - j \in T
      BY <3>1
    <3>3. x <= n - j
      BY <2>3, <3>2
    <3> QED BY <2>3, <3>3
  <2> HIDE DEF k, T
  <2>6. PICK j \in 1 .. n : a[j] = k
    BY <2>4
  <2>7. CASE j > k
    BY <2>4, <2>5, <2>6, <2>7
  <2>8. CASE j = k
    BY <2>4, <2>6, <2>8
  <2>9. CASE j < k
    <3>1. a[j] <= a[k]
      BY <2>4, <2>9
    <3>2. a[k] \in Int /\ a[j] \in Int /\ k \in Int
      BY <2>4
    <3> QED BY <2>4, <2>6, <3>1, <3>2
  <2> QED BY <2>4, <2>7, <2>8, <2>9
<1> QED BY <1>1, <1>2

(* Items at the places 1 to n are listed by their places.                  *)
LEMMA NumberedPlaces ==
  ASSUME WellFormed(source), NEW key,
         {source[i].key.at : i \in LiveOf(source, key)} = 1 .. Cardinality(LiveOf(source, key))
  PROVE  LET s == Natives(key, TRUE)
         IN  \A j \in 1 .. Len(s) : source[s[j]].key.at = j
<1> DEFINE s == Natives(key, TRUE)
           S == LiveOf(source, key)
           n == Cardinality(S)
           a == [j \in 1 .. n |-> source[s[j]].key.at]
<1>1. s = LiveIn(source, key) /\ Len(s) = n /\ n \in Nat
  <2>1. s = LiveIn(source, key) /\ Len(s) \in Nat
    <3>1. TRUE \in BOOLEAN
      OBVIOUS
    <3> QED BY <3>1, NativesFacts
  <2> QED BY <2>1, LiveInLists
<1>2. /\ \A j \in 1 .. n : s[j] \in S
      /\ \A i \in S : \E j \in 1 .. n : s[j] = i
  <2> DEFINE t == LiveIn(source, key)
  <2>1. /\ \A j \in 1 .. Len(t) : t[j] \in LiveOf(source, key)
        /\ \A i \in LiveOf(source, key) : \E j \in 1 .. Len(t) : t[j] = i
    BY LiveInFacts
  <2>2. s = t /\ Len(t) = n
    BY <1>1
  <2> HIDE DEF t, s, n
  <2> QED BY <2>1, <2>2
<1>3. \A j, k \in 1 .. n : j < k => Placed(source, s[j], s[k])
  <2>1. Lists(s, S, AtOrder(source, S))
    BY <1>1, LiveInLists
  <2>2. \A j, k \in 1 .. Len(s) : j < k => <<s[j], s[k]>> \in AtOrder(source, S)
    BY <2>1 DEF Lists
  <2> HIDE DEF s, S, n
  <2> QED BY <1>1, <2>2 DEF AtOrder
<1>4. \A j \in 1 .. n : a[j] = source[s[j]].key.at
  OBVIOUS
<1>5. \A i \in S : source[i].key.at \in 1 .. n
  OBVIOUS
<1>6. \A v \in 1 .. n : \E i \in S : source[i].key.at = v
  OBVIOUS
<1> HIDE DEF a, s, S, n
<1>7. \A j \in 1 .. n : a[j] \in 1 .. n
  BY <1>2, <1>4, <1>5
<1>8. \A v \in 1 .. n : \E j \in 1 .. n : a[j] = v
  BY <1>2, <1>4, <1>6
<1>9. \A j, k \in 1 .. n : j < k => a[j] <= a[k]
  BY <1>1, <1>3, <1>4, <1>7 DEF Placed
<1>10. \A j \in 1 .. n : a[j] = j
  <2>1. ClimbsOver(a, n)
    BY <1>1, <1>7, <1>8, <1>9 DEF ClimbsOver
  <2> QED BY <2>1, StepByStep
<1> QED BY <1>1, <1>4, <1>10 DEF s

-----------------------------------------------------------------------------
(* IPTC to XMP.                                                            *)
LEMMA InOrderFacts ==
  ASSUME WellFormed(source), NEW X, X \subseteq Id
  PROVE  LET s == InOrder(X)
         IN  /\ IsSeq(s) /\ Len(s) \in Nat /\ DOMAIN s = 1 .. Len(s)
             /\ \A j \in 1 .. Len(s) : s[j] \in X /\ Live(s[j])
             /\ \A i \in X : Live(i) => \E j \in 1 .. Len(s) : s[j] = i
             /\ Len(s) = Cardinality({i \in X : Live(i)})
<1> DEFINE S == {i \in X : Live(i)}
<1>1. S \subseteq 1 .. Len(source) /\ Len(source) \in Nat
  BY StoreFacts DEF Id
<1>2. IsFiniteSet(S) /\ \A x \in S : x \in Nat
  <2> HIDE DEF S
  <2> QED BY <1>1, SmallSets
<1>3. InOrder(X) = Ascending(S)
  BY DEF InOrder
<1>4. \A i : i \in S <=> i \in X /\ Live(i)
  OBVIOUS
<1> HIDE DEF S
<1>5. LET s == Ascending(S)
      IN  /\ IsSeq(s) /\ Len(s) \in Nat /\ DOMAIN s = 1 .. Len(s)
          /\ \A j \in 1 .. Len(s) : s[j] \in S
          /\ \A i \in S : \E j \in 1 .. Len(s) : s[j] = i
          /\ Len(s) = Cardinality(S)
  BY <1>2, AscendingFacts
<1> QED BY <1>3, <1>4, <1>5 DEF S

(* BySource has each live entry of a set once.                             *)
LEMMA BySourceFacts ==
  ASSUME WellFormed(source), NEW X, X \subseteq Id
  PROVE  LET s == BySource(X)
         IN  /\ IsSeq(s) /\ Len(s) \in Nat /\ DOMAIN s = 1 .. Len(s)
             /\ \A j \in 1 .. Len(s) : s[j] \in X /\ Live(s[j])
             /\ \A i \in X : Live(i) => \E j \in 1 .. Len(s) : s[j] = i
             /\ Len(s) = Len(InOrder(X))
<1> DEFINE S == {i \in X : Live(i)}
           s == BySource(X)
<1>1. X \subseteq DOMAIN source
  BY DEF Id
<1>2. IsFiniteSet(X) /\ PlacesIn(source, X)
  BY <1>1, StoreFacts
<1>3. \A i \in X : BlockOf(i) \in Nat
  BY <1>1, StoreFacts DEF BlockOf, WellMade
<1>4. Lists(s, S, BlockOrder(S)) /\ Len(s) = Cardinality(S)
  BY <1>2, <1>3, BySourceLists
<1>5. s \in Seq(S) /\ \A m1 \in S : \E j \in 1 .. Len(s) : s[j] = m1
  BY <1>4 DEF Lists
<1>6. Len(InOrder(X)) = Cardinality(S)
  BY InOrderFacts
<1>7. \A i : i \in S <=> i \in X /\ Live(i)
  OBVIOUS
<1> HIDE DEF S, s
<1>8. IsSeq(s) /\ Len(s) \in Nat /\ DOMAIN s = 1 .. Len(s) /\ \A j \in 1 .. Len(s) : s[j] \in S
  BY <1>5 DEF IsSeq
<1> QED BY <1>4, <1>5, <1>6, <1>7, <1>8 DEF s

(* The properties a call chooses and those it fills, and its promises.     *)
LEMMA IptcCall ==
  ASSUME ValidOptions(opts), opts.api = "iptc_to_xmp"
  PROVE  /\ IsSeq(IptcChosen) /\ Range(IptcChosen) \subseteq 1 .. 20
         /\ IsSeq(Filled) /\ Filled = Ascending(Range(Filled))
         /\ Range(Filled) = {k \in Range(IptcChosen) : ~Spared(Std[k].prop)}
         /\ Promises = {IptcField(k) : k \in Range(Filled)}
<1>1. opts.mappings \subseteq 1 .. 20
  BY StdTable DEF ValidOptions, GpsApis, GpsGroups
<1>2. {k \in opts.mappings : IptcSpeaks(k)} \subseteq 1 .. 20 /\ 20 \in Nat
  BY <1>1
<1>3. Range(IptcChosen) = {k \in opts.mappings : IptcSpeaks(k)} /\ IsSeq(IptcChosen)
  BY <1>2, Chosens DEF IptcChosen, Chosen
<1> DEFINE S == {k \in Range(IptcChosen) : ~Spared(Std[k].prop)}
<1>4. S \subseteq 1 .. 20 /\ Filled = Ascending(S)
  BY <1>2, <1>3 DEF Filled
<1> HIDE DEF S
<1>5. IsSeq(Filled) /\ Range(Filled) = S
  BY <1>2, <1>4, Chosens
<1>6. Promises = {IptcField(k) : k \in Range(Filled)}
  BY DEF Promises
<1> QED BY <1>2, <1>3, <1>4, <1>5, <1>6 DEF S

(* A list of verdicts on a list, one after another or with one more.       *)
LEMMA ListedOk ==
  ASSUME NEW s, IsSeq(s), NEW u, DOMAIN u = DOMAIN s, u = [n \in DOMAIN s |-> u[n]], NEW a, NEW b
  PROVE  /\ IsSeq(u) /\ IsSeq(<<a>> \o u) /\ IsSeq(u \o <<b>>) /\ IsSeq(<<a>> \o u \o <<b>>)
         /\ FirstBad(u) = "OK" => \A n \in DOMAIN s : u[n] = "OK"
         /\ FirstBad(<<a>> \o u) = "OK" => FirstBad(u) = "OK" /\ a = "OK"
         /\ FirstBad(u \o <<b>>) = "OK" => FirstBad(u) = "OK" /\ b = "OK"
         /\ FirstBad(<<a>> \o u \o <<b>>) = "OK" => FirstBad(u) = "OK" /\ a = "OK" /\ b = "OK"
<1>1. IsSeq(u) /\ DOMAIN s = 1 .. Len(u)
  <2>1. IsSeq(u) /\ Len(u) = Len(s)
    BY MadeOf
  <2> QED BY <2>1, SeqFacts
<1>2. \A e : IsSeq(<<e>>) /\ (FirstBad(<<e>>) = "OK" => e = "OK")
  <2> SUFFICES ASSUME NEW e PROVE IsSeq(<<e>>) /\ (FirstBad(<<e>>) = "OK" => e = "OK")
    OBVIOUS
  <2> DEFINE v == <<e>>
  <2>1. IsSeq(v) /\ Len(v) = 1 /\ v[1] = e
    BY OneIsSeq
  <2> HIDE DEF v
  <2>2. FirstBad(v) = "OK" => \A n \in 1 .. Len(v) : v[n] = "OK"
    BY <2>1, FirstBadOk
  <2>3. FirstBad(v) = "OK" => e = "OK"
    BY <2>1, <2>2
  <2> QED BY <2>1, <2>3 DEF v
<1>3. IsSeq(<<a>>) /\ IsSeq(<<b>>) /\ (FirstBad(<<a>>) = "OK" => a = "OK") /\ (FirstBad(<<b>>) = "OK" => b = "OK")
  BY <1>2
<1> DEFINE v == <<a>>
           w == <<b>>
<1> HIDE DEF v, w
<1>4. IsSeq(v) /\ IsSeq(w) /\ (FirstBad(v) = "OK" => a = "OK") /\ (FirstBad(w) = "OK" => b = "OK")
  BY <1>3 DEF v, w
<1>5. IsSeq(v \o u) /\ IsSeq(u \o w) /\ IsSeq((v \o u) \o w)
  BY <1>1, <1>4, JoinFacts
<1>6. FirstBad(u) = "OK" => \A n \in DOMAIN s : u[n] = "OK"
  BY <1>1, FirstBadOk
<1>7. FirstBad(v \o u) = "OK" => FirstBad(v) = "OK" /\ FirstBad(u) = "OK"
  BY <1>1, <1>4, JoinedOk
<1>8. FirstBad(u \o w) = "OK" => FirstBad(u) = "OK" /\ FirstBad(w) = "OK"
  BY <1>1, <1>4, JoinedOk
<1>9. FirstBad((v \o u) \o w) = "OK" => FirstBad(v \o u) = "OK" /\ FirstBad(w) = "OK"
  BY <1>4, <1>5, JoinedOk
<1> QED BY <1>1, <1>4, <1>5, <1>6, <1>7, <1>8, <1>9 DEF v, w

(* A verdict for each element of a sequence is a list; good in turn, each  *)
(* is good.                                                                *)
LEMMA JustListedOk ==
  ASSUME NEW s, IsSeq(s), NEW u, DOMAIN u = DOMAIN s, u = [n \in DOMAIN s |-> u[n]]
  PROVE  /\ IsSeq(u)
         /\ FirstBad(u) = "OK" => \A n \in DOMAIN s : u[n] = "OK"
BY ListedOk

(* Sources are entries.                                                    *)
LEMMA SourcesIn ==
  ASSUME NEW k
  PROVE  SourceIds(k) \subseteq Id
BY DEF SourceIds, Noted, Named

(* The verdicts on numbers are a list.                                     *)
LEMMA EnumeratedOk ==
  ASSUME WellFormed(source), NEW k
  PROVE  IsSeq(Enumerated(k))
<1> DEFINE s == InOrder(SourceIds(k))
           block(i, j) == When(Dangling(i), "INVALID_SOURCE")
           u == [j \in DOMAIN s |-> block(s[j], j)]
           found == MapThenSumSet(LAMBDA h : Cardinality(SourceIds(h)), Upto(IptcChosen, k))
           a == When(found > opts.maxSources, "LIMIT")
<1>1. Enumerated(k) = <<a>> \o u
  BY DEF Enumerated, ForEach
<1>2. IsSeq(s)
  BY SourcesIn, InOrderFacts
<1>3. DOMAIN u = DOMAIN s /\ u = [n \in DOMAIN s |-> u[n]]
  OBVIOUS
<1> HIDE DEF u, s, a
<1> QED BY <1>1, <1>2, <1>3, ListedOk

(* The verdicts on lengths: a single property has at most one source.      *)
LEMMA MeasuredOk ==
  ASSUME WellFormed(source), NEW k
  PROVE  /\ IsSeq(Measured(k))
         /\ FirstBad(Measured(k)) = "OK" => Std[k].items \/ Len(InOrder(SourceIds(k))) <= 1
<1> DEFINE s == InOrder(SourceIds(k))
           text(i, j) ==
             FirstBad(<<When(Word(i) = "", "INVALID_SOURCE"),
                        When(Word(i) \in TooLong, "VALUE_TOO_LONG"),
                        When(TextsIn(Before(IptcChosen, k)) + j > opts.maxTexts, "LIMIT")>>)
           u == [j \in DOMAIN s |-> text(s[j], j)]
           bad == ~Std[k].items /\ Len(s) > 1
           b == When(bad, "AMBIGUOUS_SOURCE")
<1>1. Measured(k) = u \o <<b>>
  BY DEF Measured, ForEach
<1>2. IsSeq(s) /\ Len(s) \in Nat
  BY SourcesIn, InOrderFacts
<1>3. DOMAIN u = DOMAIN s /\ u = [n \in DOMAIN s |-> u[n]]
  OBVIOUS
<1>4. b = "OK" => ~bad
  <2> HIDE DEF bad
  <2> QED BY DEF When
<1>5. ~bad => Std[k].items \/ Len(s) <= 1
  <2> HIDE DEF s
  <2> QED BY <1>2
<1> HIDE DEF u, s, b, bad
<1> QED BY <1>1, <1>2, <1>3, <1>4, <1>5, ListedOk DEF s

(* The verdicts on shapes: items are at the places 1 to n, and a single    *)
(* property has one entry at most.                                         *)
LEMMA ShapedOk ==
  ASSUME WellFormed(source), NEW k
  PROVE  /\ IsSeq(Shaped(k))
         /\ FirstBad(Shaped(k)) = "OK" =>
               IF Std[k].items
               THEN {source[i].key.at : i \in Dest(Std[k].prop)} = 1 .. Cardinality(Dest(Std[k].prop))
               ELSE ~(Cardinality(Dest(Std[k].prop)) > 1)
<1> DEFINE prop == Std[k].prop
           before == MapThenSumSet(LAMBDA h : Cardinality(Dest(Std[h].prop)), Before(Filled, k))
           s == InOrder(Dest(prop) \cup Strange(prop))
           entry(i, j) ==
             FirstBad(<<When(i \in Strange(prop), "UNSUPPORTED_SHAPE"),
                        When(before + j > opts.maxOps, "LIMIT"),
                        When(TextsIn(Range(IptcChosen)) + before + j > opts.maxTexts, "LIMIT")>>)
           u == [j \in DOMAIN s |-> entry(s[j], j)]
           numbered == {source[i].key.at : i \in Dest(prop)} = 1 .. Cardinality(Dest(prop))
           bad == IF Std[k].items THEN ~numbered ELSE Cardinality(Dest(prop)) > 1
           b == When(bad, "UNSUPPORTED_SHAPE")
<1>1. Shaped(k) = u \o <<b>>
  BY DEF Shaped, ForEach
<1>2. IsSeq(s)
  <2>1. Dest(prop) \cup Strange(prop) \subseteq Id
    BY DEF Dest, Named, Strange
  <2> QED BY <2>1, InOrderFacts
<1>3. DOMAIN u = DOMAIN s /\ u = [n \in DOMAIN s |-> u[n]]
  OBVIOUS
<1>4. b = "OK" => ~bad
  <2> HIDE DEF bad
  <2> QED BY DEF When
<1> HIDE DEF u, s, b
<1>5. IsSeq(Shaped(k)) /\ (FirstBad(Shaped(k)) = "OK" => ~bad)
  <2> HIDE DEF bad
  <2> QED BY <1>1, <1>2, <1>3, <1>4, ListedOk
<1> QED BY <1>5

(* The verdicts on charsets: a word beyond ASCII is from a block marked as *)
(* UTF-8.                                                                  *)
LEMMA DecodedOk ==
  ASSUME WellFormed(source), NEW k
  PROVE  /\ IsSeq(Decoded(k))
         /\ FirstBad(Decoded(k)) = "OK" =>
               \A i \in SourceIds(k) : Live(i) /\ Word(i) \in NonAscii =>
                  \E n \in Markers : BlockOf(n) = BlockOf(i) /\ source[n].value = Utf8
<1> DEFINE s == BySource(SourceIds(k))
           a(i) == When(Word(i) \in Unparsable \/ <<Std[k].key, Word(i)>> \in Unfit, "INVALID_SOURCE")
           bad(i) == \/ ~WellMarked(BlockOf(i))
                     \/ Word(i) \in NonAscii /\ MarkersIn(BlockOf(i)) = {}
           b(i) == When(bad(i), "ENCODING_CONFLICT")
           text(i, j) == FirstBad(<<a(i), b(i)>>)
           u == [j \in DOMAIN s |-> text(s[j], j)]
<1>1. Decoded(k) = u
  BY DEF Decoded, ForEach
<1>2. /\ IsSeq(s) /\ DOMAIN s = 1 .. Len(s)
      /\ \A i \in SourceIds(k) : Live(i) => \E j \in 1 .. Len(s) : s[j] = i
  BY SourcesIn, BySourceFacts
<1>3. DOMAIN u = DOMAIN s /\ u = [n \in DOMAIN s |-> u[n]] /\ \A n \in DOMAIN s : u[n] = text(s[n], n)
  OBVIOUS
<1>4. \A i, j : text(i, j) = "OK" => ~bad(i)
  <2> SUFFICES ASSUME NEW i, NEW j, text(i, j) = "OK" PROVE ~bad(i)
    OBVIOUS
  <2> DEFINE v == <<a(i), b(i)>>
             x == b(i)
  <2>1. IsSeq(v) /\ Len(v) = 2 /\ v[2] = x
    BY PairIsSeq
  <2>2. FirstBad(v) = "OK"
    OBVIOUS
  <2> HIDE DEF v, x
  <2>3. \A n \in 1 .. Len(v) : v[n] = "OK"
    BY <2>1, <2>2, FirstBadOk
  <2>4. x = "OK"
    BY <2>1, <2>3
  <2> HIDE DEF bad
  <2> QED BY <2>4 DEF x, When
<1>5. \A i : ~bad(i) /\ Word(i) \in NonAscii => \E n \in Markers : BlockOf(n) = BlockOf(i) /\ source[n].value = Utf8
  <2> SUFFICES ASSUME NEW i, ~bad(i), Word(i) \in NonAscii
               PROVE  \E n \in Markers : BlockOf(n) = BlockOf(i) /\ source[n].value = Utf8
    OBVIOUS
  <2>1. WellMarked(BlockOf(i)) /\ MarkersIn(BlockOf(i)) # {}
    BY Zenon
  <2> QED BY <2>1 DEF WellMarked, MarkersIn
<1> HIDE DEF u, s, text, bad
<1>6. IsSeq(u) /\ (FirstBad(u) = "OK" => \A n \in DOMAIN s : u[n] = "OK")
  BY <1>2, <1>3, JustListedOk
<1>7. ASSUME FirstBad(u) = "OK", NEW i \in SourceIds(k), Live(i), Word(i) \in NonAscii
      PROVE  \E n \in Markers : BlockOf(n) = BlockOf(i) /\ source[n].value = Utf8
  <2>1. PICK j \in 1 .. Len(s) : s[j] = i
    BY <1>2, <1>7
  <2>2. text(i, j) = "OK"
    BY <1>2, <1>3, <1>6, <1>7, <2>1
  <2> QED BY <1>4, <1>5, <1>7, <2>2
<1> QED BY <1>1, <1>6, <1>7

(* Of all verdicts of a call the ones used here are good.                  *)
LEMMA IptcVerdicts ==
  ASSUME WellFormed(source), ValidOptions(opts), opts.api = "iptc_to_xmp", NEW limits, IsSeq(limits),
         FirstBad(Over(IptcChosen, Enumerated) \o Over(IptcChosen, Measured)
                      \o Over(Filled, Shaped) \o Over(IptcChosen, Decoded)
                      \o Over(Filled, Readable) \o Over(Filled, Agreed) \o limits) = "OK"
  PROVE  /\ \A k \in Range(IptcChosen) : FirstBad(Measured(k)) = "OK" /\ FirstBad(Decoded(k)) = "OK"
         /\ \A k \in Range(Filled) : FirstBad(Shaped(k)) = "OK"
<1> DEFINE A == Over(IptcChosen, Enumerated)
           B == Over(IptcChosen, Measured)
           C == Over(Filled, Shaped)
           D == Over(IptcChosen, Decoded)
           E == Over(Filled, Readable)
           G == Over(Filled, Agreed)
<1>1. IsSeq(IptcChosen) /\ IsSeq(Filled)
  BY IptcCall
<1>2. IsSeq(A)
  <2> DEFINE c == [n \in DOMAIN IptcChosen |-> Enumerated(IptcChosen[n])]
  <2>1. A = FlattenSeq(c)
    BY DEF Over
  <2>2. DOMAIN c = DOMAIN IptcChosen /\ c = [n \in DOMAIN IptcChosen |-> c[n]] /\ \A n \in DOMAIN IptcChosen : IsSeq(c[n])
    BY EnumeratedOk
  <2> HIDE DEF c
  <2> QED BY <1>1, <2>1, <2>2, EachOk
<1>3. IsSeq(B) /\ (FirstBad(B) = "OK" => \A k \in Range(IptcChosen) : FirstBad(Measured(k)) = "OK")
  <2> DEFINE c == [n \in DOMAIN IptcChosen |-> Measured(IptcChosen[n])]
  <2>1. B = FlattenSeq(c)
    BY DEF Over
  <2>2. DOMAIN c = DOMAIN IptcChosen /\ c = [n \in DOMAIN IptcChosen |-> c[n]] /\ \A n \in DOMAIN IptcChosen : IsSeq(c[n])
    BY MeasuredOk
  <2>3. \A n \in DOMAIN IptcChosen : c[n] = Measured(IptcChosen[n])
    OBVIOUS
  <2> HIDE DEF c
  <2>4. IsSeq(B) /\ (FirstBad(B) = "OK" => \A n \in DOMAIN IptcChosen : FirstBad(c[n]) = "OK")
    BY <1>1, <2>1, <2>2, EachOk
  <2> QED BY <2>3, <2>4 DEF Range
<1>4. IsSeq(C) /\ (FirstBad(C) = "OK" => \A k \in Range(Filled) : FirstBad(Shaped(k)) = "OK")
  <2> DEFINE c == [n \in DOMAIN Filled |-> Shaped(Filled[n])]
  <2>1. C = FlattenSeq(c)
    BY DEF Over
  <2>2. DOMAIN c = DOMAIN Filled /\ c = [n \in DOMAIN Filled |-> c[n]] /\ \A n \in DOMAIN Filled : IsSeq(c[n])
    BY ShapedOk
  <2>3. \A n \in DOMAIN Filled : c[n] = Shaped(Filled[n])
    OBVIOUS
  <2> HIDE DEF c
  <2>4. IsSeq(C) /\ (FirstBad(C) = "OK" => \A n \in DOMAIN Filled : FirstBad(c[n]) = "OK")
    BY <1>1, <2>1, <2>2, EachOk
  <2> QED BY <2>3, <2>4 DEF Range
<1>5. IsSeq(D) /\ (FirstBad(D) = "OK" => \A k \in Range(IptcChosen) : FirstBad(Decoded(k)) = "OK")
  <2> DEFINE c == [n \in DOMAIN IptcChosen |-> Decoded(IptcChosen[n])]
  <2>1. D = FlattenSeq(c)
    BY DEF Over
  <2>2. DOMAIN c = DOMAIN IptcChosen /\ c = [n \in DOMAIN IptcChosen |-> c[n]] /\ \A n \in DOMAIN IptcChosen : IsSeq(c[n])
    BY DecodedOk
  <2>3. \A n \in DOMAIN IptcChosen : c[n] = Decoded(IptcChosen[n])
    OBVIOUS
  <2> HIDE DEF c
  <2>4. IsSeq(D) /\ (FirstBad(D) = "OK" => \A n \in DOMAIN IptcChosen : FirstBad(c[n]) = "OK")
    BY <1>1, <2>1, <2>2, EachOk
  <2> QED BY <2>3, <2>4 DEF Range
<1>6. IsSeq(E)
  <2> DEFINE c == [n \in DOMAIN Filled |-> Readable(Filled[n])]
  <2>1. E = FlattenSeq(c)
    BY DEF Over
  <2>2. DOMAIN c = DOMAIN Filled /\ c = [n \in DOMAIN Filled |-> c[n]] /\ \A n \in DOMAIN Filled : IsSeq(c[n])
    BY OneIsSeq DEF Readable
  <2> HIDE DEF c
  <2> QED BY <1>1, <2>1, <2>2, EachOk
<1>7. IsSeq(G)
  <2> DEFINE c == [n \in DOMAIN Filled |-> Agreed(Filled[n])]
  <2>1. G = FlattenSeq(c)
    BY DEF Over
  <2>2. DOMAIN c = DOMAIN Filled /\ c = [n \in DOMAIN Filled |-> c[n]] /\ \A n \in DOMAIN Filled : IsSeq(c[n])
    BY OneIsSeq DEF Agreed
  <2> HIDE DEF c
  <2> QED BY <1>1, <2>1, <2>2, EachOk
<1> DEFINE all == (((((A \o B) \o C) \o D) \o E) \o G) \o limits
<1>8. FirstBad(all) = "OK"
  OBVIOUS
<1> HIDE DEF A, B, C, D, E, G, all
<1>9. /\ IsSeq(A \o B) /\ IsSeq((A \o B) \o C) /\ IsSeq(((A \o B) \o C) \o D)
      /\ IsSeq((((A \o B) \o C) \o D) \o E) /\ IsSeq(((((A \o B) \o C) \o D) \o E) \o G)
  BY <1>2, <1>3, <1>4, <1>5, <1>6, <1>7, JoinFacts
<1>10. FirstBad(((((A \o B) \o C) \o D) \o E) \o G) = "OK"
  BY <1>8, <1>9, JoinedOk DEF all
<1>11. FirstBad((((A \o B) \o C) \o D) \o E) = "OK"
  BY <1>7, <1>9, <1>10, JoinedOk
<1>12. FirstBad(((A \o B) \o C) \o D) = "OK"
  BY <1>6, <1>9, <1>11, JoinedOk
<1>13. FirstBad((A \o B) \o C) = "OK" /\ FirstBad(D) = "OK"
  BY <1>5, <1>9, <1>12, JoinedOk
<1>14. FirstBad(A \o B) = "OK" /\ FirstBad(C) = "OK"
  BY <1>4, <1>9, <1>13, JoinedOk
<1>15. FirstBad(B) = "OK"
  BY <1>2, <1>3, <1>14, JoinedOk
<1> QED BY <1>3, <1>4, <1>5, <1>13, <1>14, <1>15

FilledNew == FlattenSeq([n \in DOMAIN Filled |-> XmpChanges(Filled[n])])
ItemPlaces(k) == [j \in DOMAIN IptcField(k).from |-> IF Std[k].items THEN j ELSE 0]

(* The field of a property: its values, their sources and places.          *)
LEMMA IptcFieldFacts ==
  ASSUME WellFormed(source), NEW k
  PROVE  LET f == IptcField(k)
             s == BySource(SourceIds(k))
         IN  /\ f.key = Std[k].prop /\ f.from = s /\ IsSeq(s) /\ IsSeq(f.values)
             /\ Len(f.values) \in Nat /\ Len(f.values) = Len(s) /\ Len(s) = Len(InOrder(SourceIds(k)))
             /\ DOMAIN s = 1 .. Len(s)
             /\ \A j \in 1 .. Len(s) : s[j] \in SourceIds(k) /\ Live(s[j]) /\ s[j] \in Id
             /\ \A j \in 1 .. Len(s) : ItemPlaces(k)[j] = IF Std[k].items THEN j ELSE 0
<1> DEFINE f == IptcField(k)
           s == BySource(SourceIds(k))
           vs == [j \in DOMAIN s |-> source[s[j]].value]
<1>1. f.key = Std[k].prop /\ f.from = s /\ f.values = vs
  BY DEF IptcField, Field
<1>2. SourceIds(k) \subseteq Id
  BY SourcesIn
<1>3. /\ IsSeq(s) /\ Len(s) \in Nat /\ DOMAIN s = 1 .. Len(s) /\ Len(s) = Len(InOrder(SourceIds(k)))
      /\ \A j \in 1 .. Len(s) : s[j] \in SourceIds(k) /\ Live(s[j])
  BY <1>2, BySourceFacts
<1>4. DOMAIN vs = DOMAIN s /\ vs = [j \in DOMAIN s |-> vs[j]]
  OBVIOUS
<1> HIDE DEF s, vs, f
<1>5. IsSeq(vs) /\ Len(vs) = Len(s)
  BY <1>3, <1>4, MadeOf
<1>6. \A j \in 1 .. Len(s) : ItemPlaces(k)[j] = IF Std[k].items THEN j ELSE 0
  BY <1>1, <1>3 DEF ItemPlaces, f
<1> QED BY <1>1, <1>2, <1>3, <1>5, <1>6 DEF f, s

(* It fits what is live under its name.                                    *)
LEMMA IptcFits ==
  ASSUME WellFormed(source), NEW k \in DOMAIN Std,
         FirstBad(Measured(k)) = "OK", FirstBad(Shaped(k)) = "OK"
  PROVE  Fits(IptcField(k), Sorted(Dest(IptcField(k).key)), FALSE, ItemPlaces(k))
<1> DEFINE f == IptcField(k)
           s == BySource(SourceIds(k))
           ids == Natives(f.key, TRUE)
           places == ItemPlaces(k)
<1>1. /\ f.key = Std[k].prop /\ f.from = s /\ IsSeq(f.values) /\ Len(f.values) \in Nat
      /\ Len(f.values) = Len(s) /\ Len(s) = Len(InOrder(SourceIds(k)))
      /\ \A j \in 1 .. Len(s) : s[j] \in Id
      /\ \A j \in 1 .. Len(s) : places[j] = IF Std[k].items THEN j ELSE 0
  BY IptcFieldFacts
<1>2. Sorted(Dest(f.key)) = ids /\ Dest(f.key) = LiveOf(source, f.key)
  BY DestFacts
<1>3. Std[k].items \in BOOLEAN
  BY StdApart
<1>4. TRUE \in BOOLEAN /\ FALSE \in BOOLEAN
  OBVIOUS
<1> HIDE DEF f, s, places
<1>5. CASE ~Std[k].items
  <2>1. Len(f.values) <= 1
    BY <1>1, <1>5, MeasuredOk
  <2>2. ASSUME Len(f.values) = 1 PROVE places[1] \in Nat /\ f.from[1] \in Id
    <3>1. 1 \in 1 .. Len(s)
      <4>1. Len(s) = Len(f.values)
        BY <1>1
      <4>2. Len(s) = 1
        BY <2>2, <4>1
      <4>3. \A n : n = 1 => 1 \in 1 .. n
        OBVIOUS
      <4> QED BY <4>2, <4>3
    <3> QED BY <1>1, <1>5, <3>1
  <2> HIDE DEF ids
  <2>3. Fits(f, Natives(f.key, TRUE), FALSE, places)
    BY <1>1, <1>4, <2>1, <2>2, SmallFits
  <2> QED BY <1>2, <2>3 DEF ids, f, places
<1>6. CASE Std[k].items
  <2>1. {source[i].key.at : i \in LiveOf(source, f.key)} = 1 .. Cardinality(LiveOf(source, f.key))
    BY <1>1, <1>2, <1>6, ShapedOk
  <2>2. \A j \in 1 .. Len(ids) : source[ids[j]].key.at = j
    BY <2>1, NumberedPlaces
  <2>3. /\ IsSeq(ids) /\ Len(ids) \in Nat
        /\ \A j \in 1 .. Len(ids) : ids[j] \in LiveOf(source, f.key) /\ ids[j] \in 1 .. Len(source)
        /\ \A i \in LiveOf(source, f.key) : \E j \in 1 .. Len(ids) : ids[j] = i
        /\ \A j, n \in 1 .. Len(ids) : ids[j] = ids[n] => j = n
    BY <1>4, NativesFacts
  <2> HIDE DEF ids
  <2>4. \A j \in 1 .. Len(f.values) : PlaceOf(ids, places, j) = j
    BY <1>1, <1>6, <2>2, <2>3 DEF PlaceOf
  <2>5. \A j, n \in 1 .. Len(f.values) : j < n =>
          /\ PlaceOf(ids, places, j) <= PlaceOf(ids, places, n)
          /\ n <= Len(ids) => Placed(source, ids[j], ids[n])
    <3> SUFFICES ASSUME NEW j \in 1 .. Len(f.values), NEW n \in 1 .. Len(f.values), j < n
                 PROVE  /\ PlaceOf(ids, places, j) <= PlaceOf(ids, places, n)
                        /\ n <= Len(ids) => Placed(source, ids[j], ids[n])
      OBVIOUS
    <3>1. PlaceOf(ids, places, j) <= PlaceOf(ids, places, n)
      BY <1>1, <2>4
    <3>2. ASSUME n <= Len(ids) PROVE Placed(source, ids[j], ids[n])
      <4>1. j \in 1 .. Len(ids) /\ n \in 1 .. Len(ids)
        BY <1>1, <2>3, <3>2
      <4>2. source[ids[j]].key.at = j /\ source[ids[n]].key.at = n
        BY <2>2, <4>1
      <4> QED BY <4>2 DEF Placed
    <3> QED BY <3>1, <3>2
  <2>6. Lies(f, ids, places)
    BY <1>1, <2>3, <2>5 DEF Lies
  <2>7. \A j \in 1 .. Len(f.values) : j > Len(ids) => places[j] \in Nat /\ f.from[j] \in Id
    BY <1>1, <1>6
  <2>8. Fits(f, ids, FALSE, places)
    BY <2>6, <2>7 DEF Fits
  <2> QED BY <1>2, <2>8 DEF f, places
<1> QED BY <1>3, <1>5, <1>6

(* A call from IPTC to XMP whose verdicts are good keeps its promises.     *)
LEMMA FilledGood ==
  ASSUME WellFormed(source), ValidOptions(opts), opts.api = "iptc_to_xmp", NEW limits, IsSeq(limits),
         FirstBad(Over(IptcChosen, Enumerated) \o Over(IptcChosen, Measured)
                      \o Over(Filled, Shaped) \o Over(IptcChosen, Decoded)
                      \o Over(Filled, Readable) \o Over(Filled, Agreed) \o limits) = "OK"
  PROVE  OkOps(source, FilledNew) /\ PromisesStand(Run(source, FilledNew))
<1> DEFINE S == Range(Filled)
           c == [n \in DOMAIN Filled |-> XmpChanges(Filled[n])]
           F == [k \in S |-> IptcField(k)]
           I == [k \in S |-> Sorted(Dest(IptcField(k).key))]
           P == [k \in S |-> ItemPlaces(k)]
           st == Run(source, FilledNew)
<1>1. /\ \A k \in Range(IptcChosen) : FirstBad(Measured(k)) = "OK" /\ FirstBad(Decoded(k)) = "OK"
      /\ \A k \in Range(Filled) : FirstBad(Shaped(k)) = "OK"
  BY IptcVerdicts
<1>2. /\ S \subseteq DOMAIN Std /\ S \subseteq Range(IptcChosen) /\ (\E N \in Nat : S \subseteq 1 .. N)
      /\ Filled = Ascending(S) /\ IsSeq(Filled) /\ Promises = {IptcField(k) : k \in S}
  <2>1. /\ S \subseteq 1 .. 20 /\ S \subseteq Range(IptcChosen)
        /\ Filled = Ascending(S) /\ IsSeq(Filled) /\ Promises = {IptcField(k) : k \in S}
    BY IptcCall
  <2>2. DOMAIN Std = 1 .. 20 /\ 20 \in Nat
    BY StdTable
  <2> HIDE DEF S
  <2> QED BY <2>1, <2>2
<1>3. \A k \in S : F[k] = IptcField(k) /\ I[k] = Sorted(Dest(IptcField(k).key)) /\ P[k] = ItemPlaces(k)
  OBVIOUS
<1>4. \A j \in DOMAIN Filled : Filled[j] \in S
  BY DEF Range
<1>5. DOMAIN c = DOMAIN Filled /\ IsSeq(c) /\ \A n \in DOMAIN Filled : c[n] = XmpChanges(Filled[n])
  <2>1. DOMAIN c = DOMAIN Filled /\ c = [n \in DOMAIN Filled |-> c[n]] /\ \A n \in DOMAIN Filled : c[n] = XmpChanges(Filled[n])
    OBVIOUS
  <2> HIDE DEF c
  <2> QED BY <1>2, <2>1, MadeOf
<1> HIDE DEF F, I, P, c, S
<1>6. \A k \in S : F[k].key = Std[k].prop /\ IsSeq(F[k].values) /\ Fits(F[k], I[k], FALSE, P[k])
  <2> SUFFICES ASSUME NEW k \in S
               PROVE  F[k].key = Std[k].prop /\ IsSeq(F[k].values) /\ Fits(F[k], I[k], FALSE, P[k])
    OBVIOUS
  <2>1. k \in DOMAIN Std /\ FirstBad(Measured(k)) = "OK" /\ FirstBad(Shaped(k)) = "OK"
    BY <1>1, <1>2 DEF S
  <2>2. Fits(IptcField(k), Sorted(Dest(IptcField(k).key)), FALSE, ItemPlaces(k))
    BY <2>1, IptcFits
  <2>3. IptcField(k).key = Std[k].prop /\ IsSeq(IptcField(k).values)
    BY IptcFieldFacts
  <2> QED BY <1>3, <2>2, <2>3
<1>7. \A k \in S : XmpChanges(k) = Operations(F[k], I[k], FALSE, P[k])
  BY <1>3 DEF XmpChanges, ItemPlaces
<1>8. \A k, n \in S : F[k].key = F[n].key => k = n
  BY <1>2, <1>6, StdApart
<1>9. Planned(S, c, F, I, P)
  BY <1>2, <1>4, <1>5, <1>6, <1>7, <1>8 DEF Planned
<1>10. FilledNew = FlattenSeq(c)
  BY DEF FilledNew, c
<1>11. /\ OkOps(source, FilledNew) /\ WellFormed(st) /\ Keeps(source, st, KeysFrom(S, F))
       /\ \A k \in S : Stored(st, F[k].key) = F[k].values /\ Holds(st, F[k], FALSE, I[k], P[k])
  <2> DEFINE b == Run(source, FlattenSeq(c))
  <2>1. /\ OkOps(source, FlattenSeq(c)) /\ WellFormed(b) /\ Keeps(source, b, KeysFrom(S, F))
        /\ IsSeq(FlattenSeq(c))
        /\ \A k \in S : Stored(b, F[k].key) = F[k].values /\ Holds(b, F[k], FALSE, I[k], P[k])
    BY <1>9, GroupsDone
  <2> QED BY <1>10, <2>1
<1> HIDE DEF st
<1>12. KeysFrom(S, F) = Promised
  BY <1>2, <1>3 DEF Promised, KeysFrom
<1>13. \A x \in Promised : \E k \in S : x = Std[k].prop
  BY <1>6, <1>12 DEF KeysFrom
<1>14. OthersKept(st, Promised, Promised \cup {Marker})
  BY <1>11, <1>12, KeptOthers
<1>15. Values(st, Marker) = Values(source, Marker)
  <2>1. Marker \notin Promised
    BY <1>2, <1>13, StdApart
  <2> QED BY <1>11, <1>12, <2>1, KeepsOthers
<1>16. \A f \in Promises : Stored(st, f.key) = f.values
  BY <1>2, <1>3, <1>11
<1>17. \A k \in DOMAIN Std : Std[k].items /\ Std[k].prop \in Promised => Enumerates(st, Std[k].prop)
  <2> SUFFICES ASSUME NEW k \in DOMAIN Std, Std[k].items, Std[k].prop \in Promised
               PROVE  Enumerates(st, Std[k].prop)
    OBVIOUS
  <2>1. k \in S
    BY <1>2, <1>13, StdApart
  <2> DEFINE s == LiveIn(st, Std[k].prop)
             f == IptcField(k)
             ids == Natives(f.key, TRUE)
  <2>2. f.key = Std[k].prop /\ \A j \in 1 .. Len(f.values) : ItemPlaces(k)[j] = j
    BY IptcFieldFacts
  <2>3. Holds(st, f, FALSE, Sorted(Dest(f.key)), ItemPlaces(k))
    BY <1>3, <1>11, <2>1
  <2>4. Sorted(Dest(f.key)) = ids /\ Dest(f.key) = LiveOf(source, f.key)
    BY DestFacts
  <2>5. \A j \in 1 .. Len(ids) : source[ids[j]].key.at = j
    <3>1. FirstBad(Shaped(k)) = "OK"
      BY <1>1, <2>1 DEF S
    <3>2. {source[i].key.at : i \in LiveOf(source, f.key)} = 1 .. Cardinality(LiveOf(source, f.key))
      BY <2>2, <2>4, <3>1, ShapedOk
    <3> QED BY <3>2, NumberedPlaces
  <2>6. /\ Len(s) = Len(f.values)
        /\ \A j \in 1 .. Len(f.values) : st[s[j]].key.at = PlaceOf(ids, ItemPlaces(k), j)
    BY <2>2, <2>3, <2>4 DEF Holds
  <2>7. Len(ids) \in Nat
    <3>1. TRUE \in BOOLEAN
      OBVIOUS
    <3> QED BY <3>1, NativesFacts
  <2>8. DOMAIN s = 1 .. Len(s)
    BY <1>11, LiveInFacts
  <2> HIDE DEF s, f, ids
  <2>9. \A j \in 1 .. Len(f.values) : PlaceOf(ids, ItemPlaces(k), j) = j
    BY <2>2, <2>5, <2>7 DEF PlaceOf
  <2>10. \A j \in DOMAIN s : st[s[j]].key.at = j
    BY <2>6, <2>8, <2>9
  <2> QED BY <2>10 DEF Enumerates, s
<1>18. \A f \in Promises : \A i \in WideFrom(f) :
          \E n \in Markers : BlockOf(n) = BlockOf(i) /\ source[n].value = Utf8
  <2> SUFFICES ASSUME NEW k \in S, NEW i \in WideFrom(IptcField(k))
               PROVE  \E n \in Markers : BlockOf(n) = BlockOf(i) /\ source[n].value = Utf8
    BY <1>2
  <2>1. i \in Range(IptcField(k).from) /\ Word(i) \in NonAscii
    BY DEF WideFrom
  <2>2. i \in SourceIds(k) /\ Live(i)
    BY <2>1, IptcFieldFacts DEF Range
  <2>3. FirstBad(Decoded(k)) = "OK"
    BY <1>1, <1>2
  <2> QED BY <2>1, <2>2, <2>3, DecodedOk
<1>19. PromisesStand(st)
  BY <1>14, <1>15, <1>16, <1>17, <1>18 DEF PromisesStand
<1> QED BY <1>11, <1>19 DEF st

-----------------------------------------------------------------------------
(* A marker that is added stands, and changes no entry that was there.     *)
MarkerField(i) == Field(Marker, <<Utf8>>, <<i>>)
MarkerOps(i, places) == Operations(MarkerField(i), <<>>, FALSE, places)

(* The field of the marker fits a store that has none.                     *)
LEMMA MarkerFits ==
  ASSUME WellFormed(source), LiveOf(source, Marker) = {}, NEW i \in Id, NEW places, places[1] \in Nat
  PROVE  LET f == MarkerField(i)
         IN  /\ Fits(f, <<>>, FALSE, places) /\ IsSeq(f.values) /\ Len(f.values) = 1
             /\ f.key = Marker /\ f.values = <<Utf8>> /\ f.from[1] = i
<1> DEFINE f == MarkerField(i)
<1>1. f.key = Marker /\ f.values = <<Utf8>> /\ f.from[1] = i
  BY DEF MarkerField, Field
<1>2. IsSeq(<<Utf8>>) /\ Len(<<Utf8>>) = 1
  BY OneIsSeq
<1> HIDE DEF f
<1>3. IsSeq(f.values) /\ Len(f.values) = 1 /\ Len(f.values) <= 1
  BY <1>1, <1>2
<1>4. FALSE \in BOOLEAN /\ (places[1] \in Nat /\ f.from[1] \in Id)
  BY <1>1
<1>5. Fits(f, Natives(f.key, FALSE), FALSE, places)
  BY <1>3, <1>4, SmallFits
<1>6. Natives(f.key, FALSE) = <<>>
  BY <1>1, <1>4, NativesFacts
<1> QED BY <1>1, <1>3, <1>5, <1>6 DEF f

(* Its operations add one entry.                                           *)
LEMMA MarkerAdds ==
  ASSUME WellFormed(source), LiveOf(source, Marker) = {}, NEW i \in Id, NEW places, places[1] \in Nat
  PROVE  LET d == MarkerOps(i, places)
         IN  /\ OkOps(source, d) /\ Len(d) = 1
             /\ \A j \in 1 .. Len(d) : d[j].kind = "ADD_ENTRY"
<1> DEFINE f == MarkerField(i)
           d == MarkerOps(i, places)
           a == Additions(f, <<>>, places)
<1>1. /\ IsSeq(f.values) /\ Len(f.values) = 1 /\ f.key = Marker /\ f.from[1] = i /\ f.values = <<Utf8>>
  BY MarkerFits
<1> HIDE DEF f
<1>2. IsSeq(<<>>) /\ Len(<<>>) = 0
  BY DEF IsSeq
<1>3. Changes(f, <<>>, FALSE) = <<>>
  BY DEF Changes
<1>4. OpIntent(f, <<>>, FALSE, places) = <<>>
  BY DEF OpIntent
<1>5. KeptOf(f, <<>>) = 0
  BY <1>1, <1>2 DEF KeptOf, Lesser
<1>6. \A j \in 1 .. Len(f.values) : j > Len(<<>>) => places[j] \in Nat /\ f.from[j] \in Id
  <2>1. \A j \in 1 .. 1 : j = 1
    OBVIOUS
  <2> QED BY <1>1, <2>1
<1>7. /\ OkOps(source, a) /\ Len(a) = Len(f.values) - KeptOf(f, <<>>)
      /\ \A j \in 1 .. Len(a) :
            a[j] = OpAdd(f, places, f.values[KeptOf(f, <<>>) + j], KeptOf(f, <<>>) + j, FALSE)
  <2> DEFINE none == <<>>
             D == Additions(f, none, places)
  <2>1. IsSeq(none) /\ IsSeq(f.values)
    BY <1>1, <1>2
  <2>2. \A j \in 1 .. Len(f.values) : j > Len(none) => places[j] \in Nat /\ f.from[j] \in Id
    BY <1>6
  <2> HIDE DEF none
  <2>3. /\ OkOps(source, D) /\ Len(D) = Len(f.values) - KeptOf(f, none)
        /\ \A j \in 1 .. Len(D) :
              /\ D[j] = OpAdd(f, places, f.values[KeptOf(f, none) + j], KeptOf(f, none) + j, FALSE)
              /\ KeptOf(f, none) + j \in 1 .. Len(f.values) /\ KeptOf(f, none) + j > Len(none)
    BY <2>1, <2>2, AdditionsAre
  <2> HIDE DEF D
  <2>4. /\ OkOps(source, D) /\ Len(D) = Len(f.values) - KeptOf(f, none)
        /\ \A j \in 1 .. Len(D) :
              D[j] = OpAdd(f, places, f.values[KeptOf(f, none) + j], KeptOf(f, none) + j, FALSE)
    BY <2>3
  <2> QED BY <2>4 DEF none, D
<1>8. d = a
  <2>1. d = FlattenSeq(<<>>) \o a \o <<>>
    BY <1>3, <1>4, OperationsAre DEF f, MarkerOps
  <2>2. FlattenSeq(<<>>) = <<>> /\ IsSeq(a)
    BY <1>7, FlatEmpty DEF OkOps
  <2> HIDE DEF a, d
  <2>3. <<>> \o a = a /\ a \o <<>> = a
    BY <2>2, <1>2, JoinFacts
  <2> QED BY <2>1, <2>2, <2>3
<1>9. Len(a) = 1
  <2> HIDE DEF a
  <2> QED BY <1>1, <1>5, <1>7
<1>10. \A j \in 1 .. Len(a) : a[j].kind = "ADD_ENTRY"
  <2>1. \A v, j : OpAdd(f, places, v, j, FALSE).kind = "ADD_ENTRY"
    BY DEF OpAdd
  <2> HIDE DEF a
  <2> QED BY <1>7, <2>1
<1> QED BY <1>7, <1>8, <1>9, <1>10

(* There is no marker yet, and what was done so far is not about it.       *)
Unmarked(o, K, i, places) ==
    /\ LiveOf(source, Marker) = {} /\ i \in Id /\ places[1] \in Nat
    /\ OkOps(source, o) /\ Keeps(source, Run(source, o), K) /\ Marker \notin K

(* The store b is a with a marker.                                         *)
Marks(a, b) ==
    /\ WellFormed(b) /\ Keeps(a, b, {Marker}) /\ Values(b, Marker) = <<Utf8>>
    /\ \A n \in 1 .. Len(a) : b[n] = a[n]

(* So a store that had no marker has one, and all else as it was.          *)
LEMMA MarkerDoes ==
  ASSUME WellFormed(source), NEW i, NEW places, NEW o, NEW K, Unmarked(o, K, i, places)
  PROVE  LET p == o \o MarkerOps(i, places)
         IN  OkOps(source, p) /\ Marks(Run(source, o), Run(source, p))
<1> DEFINE a == Run(source, o)
           f == MarkerField(i)
           d == MarkerOps(i, places)
           b == Run(source, o \o d)
<1>0. /\ LiveOf(source, Marker) = {} /\ i \in Id /\ places[1] \in Nat
      /\ OkOps(source, o) /\ Keeps(source, a, K) /\ Marker \notin K
  BY DEF Unmarked
<1>1. /\ Fits(f, <<>>, FALSE, places) /\ IsSeq(f.values) /\ f.key = Marker /\ f.values = <<Utf8>>
  BY <1>0, MarkerFits
<1>2. FALSE \in BOOLEAN /\ d = Operations(f, <<>>, FALSE, places)
  BY DEF MarkerOps
<1> HIDE DEF f
<1>3. Does(d, f, FALSE, <<>>, places)
  BY <1>1, <1>2, OperationsDo
<1> HIDE DEF d
<1>4. f.key \notin K
  BY <1>0, <1>1
<1>5. OkOps(source, o \o d) /\ Keeps(a, b, {f.key}) /\ Holds(b, f, FALSE, <<>>, places)
  BY <1>0, <1>3, <1>4 DEF Does
<1>6. WellFormed(b)
  BY <1>5 DEF Keeps
<1>7. Stored(b, f.key) = f.values /\ Stands(b, f)
  <2> HIDE DEF b
  <2> QED BY <1>1, <1>2, <1>5, <1>6, HeldStands
<1>8. Values(b, Marker) = <<Utf8>>
  <2>1. Values(b, Marker) = [j \in DOMAIN <<Utf8>> |-> Unpadded(<<Utf8>>[j])]
    BY <1>1, <1>7 DEF Stands
  <2>2. Unpadded(Utf8) = Utf8
    <3>1. "ESC%G" \notin Padded
      BY PaddingIsNoText
    <3> QED BY <3>1, UnpaddedOne DEF Utf8
  <2>3. <<Unpadded(Utf8)>> = [j \in DOMAIN <<Utf8>> |-> Unpadded(<<Utf8>>[j])]
    OBVIOUS
  <2> QED BY <2>1, <2>2, <2>3
<1>9. \A n \in 1 .. Len(a) : b[n] = a[n]
  <2>1. OkOps(source, d) /\ \A j \in 1 .. Len(d) : d[j].kind = "ADD_ENTRY"
    BY <1>0, MarkerAdds DEF d
  <2> QED BY <1>0, <2>1, AddAll
<1> QED BY <1>1, <1>5, <1>6, <1>8, <1>9 DEF d, Marks

(* A marker that is there and right.                                       *)
LEMMA MarkersAre ==
  ASSUME WellFormed(source)
  PROVE  /\ Markers = LiveOf(source, Marker) /\ Markers \subseteq Id /\ IsFiniteSet(Markers)
         /\ Cardinality(Markers) = 1 /\ (\A i \in Markers : source[i].value = Utf8)
               => Values(source, Marker) = <<Utf8>>
<1>1. Markers = LiveOf(source, Marker) /\ Markers \subseteq Id
  BY DEF Markers, LiveOf, Id, Live
<1>2. IsFiniteSet(Markers)
  BY <1>1, StoreFacts DEF Id
<1>3. ASSUME Cardinality(Markers) = 1, \A i \in Markers : source[i].value = Utf8
      PROVE  Values(source, Marker) = <<Utf8>>
  <2> DEFINE s == Natives(Marker, FALSE)
  <2>1. Len(s) = 1 /\ \A j \in 1 .. Len(s) : s[j] \in Markers
    <3>1. FALSE \in BOOLEAN
      OBVIOUS
    <3>2. Len(s) = Len(LiveIn(source, Marker)) /\ \A j \in 1 .. Len(s) : s[j] \in LiveOf(source, Marker)
      BY <3>1, NativesFacts
    <3>3. Len(LiveIn(source, Marker)) = Cardinality(LiveOf(source, Marker))
      BY LiveInLists
    <3> HIDE DEF s
    <3> QED BY <1>1, <1>3, <3>2, <3>3
  <2>2. Values(source, Marker) = <<Unpadded(source[s[1]].value)>>
    BY <2>1, OneLive
  <2>3. s[1] \in Markers
    <3>1. \A n : n = 1 => 1 \in 1 .. n
      OBVIOUS
    <3> HIDE DEF s
    <3> QED BY <2>1, <3>1
  <2>4. Unpadded(Utf8) = Utf8
    <3>1. "ESC%G" \notin Padded
      BY PaddingIsNoText
    <3> QED BY <3>1, UnpaddedOne DEF Utf8
  <2> QED BY <1>3, <2>2, <2>3, <2>4
<1> QED BY <1>1, <1>2, <1>3

-----------------------------------------------------------------------------
(* Values that are added at the place of the last one kept.                *)
LEMMA InPlace ==
  ASSUME WellFormed(source), NEW key
  PROVE  LET s == Natives(key, TRUE)
         IN  /\ \A j \in 1 .. Len(s) : source[s[j]].key.at \in Nat
             /\ \A j, k \in 1 .. Len(s) : j < k =>
                   Placed(source, s[j], s[k]) /\ source[s[j]].key.at <= source[s[k]].key.at
<1> DEFINE s == Natives(key, TRUE)
           S == LiveOf(source, key)
<1>1. s = LiveIn(source, key)
  <2>1. TRUE \in BOOLEAN
    OBVIOUS
  <2> QED BY <2>1, NativesFacts
<1>2. Lists(s, S, AtOrder(source, S))
  BY <1>1, LiveInLists
<1>3. \A j, k \in 1 .. Len(s) : j < k => <<s[j], s[k]>> \in AtOrder(source, S)
  <2> HIDE DEF s, S
  <2> QED BY <1>2 DEF Lists
<1>4. \A j \in 1 .. Len(s) : source[s[j]].key.at \in Nat
  <2>1. \A j \in 1 .. Len(s) : s[j] \in 1 .. Len(source)
    BY <1>1, LiveInFacts
  <2> HIDE DEF s
  <2> QED BY <2>1, StoreFacts DEF WellMade
<1>5. \A j, k \in 1 .. Len(s) : j < k => Placed(source, s[j], s[k])
  <2> HIDE DEF s, S
  <2> QED BY <1>3 DEF AtOrder
<1> HIDE DEF s
<1>6. \A j, k \in 1 .. Len(s) : j < k => source[s[j]].key.at <= source[s[k]].key.at
  BY <1>4, <1>5 DEF Placed
<1> QED BY <1>4, <1>5, <1>6 DEF s

AddedLast(f, ids, places) ==
    \A j \in 1 .. Len(f.values) : j > Len(ids) =>
        places[j] = LastOrder(ids, f) /\ f.from[j] \in Id

(* A field whose new values are added last fits.                           *)
LEMMA LastFits ==
  ASSUME WellFormed(source), NEW f, IsSeq(f.values), NEW places,
         AddedLast(f, Natives(f.key, TRUE), places)
  PROVE  Fits(f, Natives(f.key, TRUE), FALSE, places)
<1> DEFINE ids == Natives(f.key, TRUE)
           N == Len(ids)
           M == Len(f.values)
<1>1. /\ IsSeq(ids) /\ N \in Nat
      /\ \A j \in 1 .. N : ids[j] \in LiveOf(source, f.key)
      /\ \A i \in LiveOf(source, f.key) : \E j \in 1 .. N : ids[j] = i
      /\ \A j, k \in 1 .. N : ids[j] = ids[k] => j = k
  <2>1. TRUE \in BOOLEAN
    OBVIOUS
  <2> QED BY <2>1, NativesFacts
<1>2. /\ \A j \in 1 .. N : source[ids[j]].key.at \in Nat
      /\ \A j, k \in 1 .. N : j < k => Placed(source, ids[j], ids[k]) /\ source[ids[j]].key.at <= source[ids[k]].key.at
  BY InPlace
<1>3. \A j \in 1 .. M : j > N => places[j] = LastOrder(ids, f) /\ f.from[j] \in Id
  BY DEF AddedLast
<1>4. M \in Nat
  BY SeqFacts
<1> HIDE DEF ids
<1>5. \A j \in 1 .. M : j > N => LastOrder(ids, f) = IF N = 0 THEN 0 ELSE source[ids[N]].key.at
  BY <1>1, <1>4 DEF LastOrder, Lesser
<1>6. ASSUME NEW j \in 1 .. M, NEW k \in 1 .. M, j < k
      PROVE  /\ PlaceOf(ids, places, j) <= PlaceOf(ids, places, k)
             /\ k <= N => Placed(source, ids[j], ids[k])
  <2>1. CASE k <= N
    <3>1. j \in 1 .. N /\ k \in 1 .. N
      BY <1>1, <1>4, <1>6, <2>1
    <3>2. Placed(source, ids[j], ids[k]) /\ source[ids[j]].key.at <= source[ids[k]].key.at
      BY <1>2, <1>6, <3>1
    <3>3. PlaceOf(ids, places, j) = source[ids[j]].key.at /\ PlaceOf(ids, places, k) = source[ids[k]].key.at
      BY <3>1 DEF PlaceOf
    <3> QED BY <3>2, <3>3
  <2>2. CASE k > N /\ j > N
    <3>1. PlaceOf(ids, places, j) = places[j] /\ PlaceOf(ids, places, k) = places[k]
      BY <1>1, <1>4, <2>2 DEF PlaceOf
    <3>2. places[j] = LastOrder(ids, f) /\ places[k] = LastOrder(ids, f)
      BY <1>3, <2>2
    <3>3. LastOrder(ids, f) \in Int
      <4>1. LastOrder(ids, f) = IF N = 0 THEN 0 ELSE source[ids[N]].key.at
        BY <1>5, <2>2
      <4>2. N # 0 => N \in 1 .. N
        BY <1>1
      <4> QED BY <1>2, <4>1, <4>2
    <3>4. ~(k <= N)
      BY <1>1, <1>4, <2>2
    <3> QED BY <3>1, <3>2, <3>3, <3>4
  <2>3. CASE k > N /\ j <= N
    <3>1. PlaceOf(ids, places, j) = source[ids[j]].key.at /\ PlaceOf(ids, places, k) = places[k]
      BY <1>1, <1>4, <2>3 DEF PlaceOf
    <3>2. j \in 1 .. N /\ N \in 1 .. N /\ N # 0
      BY <1>1, <2>3
    <3>3. places[k] = source[ids[N]].key.at
      BY <1>3, <1>5, <2>3, <3>2
    <3>4. source[ids[j]].key.at <= source[ids[N]].key.at
      <4>1. CASE j < N
        BY <1>2, <3>2, <4>1
      <4>2. CASE j = N
        BY <1>2, <3>2, <4>2
      <4> QED BY <3>2, <4>1, <4>2
    <3>5. ~(k <= N)
      BY <1>1, <1>4, <2>3
    <3> QED BY <3>1, <3>3, <3>4, <3>5
  <2> QED BY <1>1, <1>4, <2>1, <2>2, <2>3
<1>7. Lies(f, ids, places)
  BY <1>1, <1>6 DEF Lies
<1>8. \A j \in 1 .. M : j > N => places[j] \in Nat /\ f.from[j] \in Id
  <2> SUFFICES ASSUME NEW j \in 1 .. M, j > N PROVE places[j] \in Nat /\ f.from[j] \in Id
    OBVIOUS
  <2>1. LastOrder(ids, f) = IF N = 0 THEN 0 ELSE source[ids[N]].key.at
    BY <1>5
  <2>2. N # 0 => N \in 1 .. N
    BY <1>1
  <2> QED BY <1>2, <1>3, <2>1, <2>2
<1>9. Fits(f, ids, FALSE, places)
  BY <1>7, <1>8 DEF Fits
<1> QED BY <1>9 DEF ids

(* XMP to IPTC.                                                            *)
LEMMA SortedFacts ==
  ASSUME WellFormed(source), NEW X, X \subseteq Id
  PROVE  LET s == Sorted(X)
         IN  /\ IsSeq(s) /\ Len(s) \in Nat /\ DOMAIN s = 1 .. Len(s) /\ Range(s) = X
             /\ \A j \in 1 .. Len(s) : s[j] \in X /\ s[j] \in Id
             /\ \A i \in X : \E j \in 1 .. Len(s) : s[j] = i
             /\ Len(s) = Cardinality(X)
<1> DEFINE s == Sorted(X)
<1>1. IsFiniteSet(X) /\ PlacesIn(source, X)
  BY StoreFacts DEF Id
<1>2. Lists(s, X, AtOrder(source, X)) /\ Len(s) = Cardinality(X)
  BY <1>1, OrderedLists DEF Sorted
<1> HIDE DEF s
<1>3. s \in Seq(X) /\ \A i \in X : \E j \in 1 .. Len(s) : s[j] = i
  BY <1>2 DEF Lists
<1>4. IsSeq(s) /\ Len(s) \in Nat /\ DOMAIN s = 1 .. Len(s) /\ \A j \in 1 .. Len(s) : s[j] \in X
  BY <1>3 DEF IsSeq
<1>5. \A x : x \in Range(s) <=> \E j \in 1 .. Len(s) : s[j] = x
  BY <1>4 DEF Range
<1>6. Range(s) = X
  BY <1>3, <1>4, <1>5
<1> QED BY <1>2, <1>3, <1>4, <1>6 DEF s

XmpNew == FlattenSeq([n \in DOMAIN Written |-> IptcChanges(Written[n])])
LastPlaces(k) == [j \in DOMAIN XmpField(k).from |-> OrderOf(Held(k), XmpField(k))]
LiveXmp(k) == {i \in XmpIds(k) : Live(i)}

(* The field of a data set: its values and their sources.                  *)
LEMMA XmpFieldFacts ==
  ASSUME WellFormed(source), NEW k
  PROVE  LET f == XmpField(k)
             s == f.from
         IN  /\ f.key = Std[k].key /\ IsSeq(s) /\ IsSeq(f.values)
             /\ Len(f.values) = Len(s) /\ Len(s) \in Nat /\ DOMAIN s = 1 .. Len(s) /\ Range(s) = LiveXmp(k)
             /\ \A j \in 1 .. Len(s) : s[j] \in Id
             /\ Held(k) = Natives(f.key, TRUE)
<1> DEFINE f == XmpField(k)
           s == Sorted(LiveXmp(k))
           vs == [j \in DOMAIN s |-> source[s[j]].value]
<1>1. f.key = Std[k].key /\ f.from = s /\ f.values = vs
  BY DEF XmpField, Field, LiveXmp
<1>2. LiveXmp(k) \subseteq Id
  BY DEF LiveXmp, XmpIds, Noted
<1>3. /\ IsSeq(s) /\ Len(s) \in Nat /\ DOMAIN s = 1 .. Len(s) /\ Range(s) = LiveXmp(k)
      /\ \A j \in 1 .. Len(s) : s[j] \in Id
  BY <1>2, SortedFacts
<1>4. DOMAIN vs = DOMAIN s /\ vs = [j \in DOMAIN s |-> vs[j]]
  OBVIOUS
<1> HIDE DEF s, vs, f
<1>5. IsSeq(vs) /\ Len(vs) = Len(s)
  BY <1>3, <1>4, MadeOf
<1>6. Held(k) = Natives(f.key, TRUE)
  BY <1>1 DEF Held
<1> QED BY <1>1, <1>3, <1>5, <1>6 DEF f

(* It fits what is held of it.                                             *)
LEMMA XmpFits ==
  ASSUME WellFormed(source), NEW k
  PROVE  Fits(XmpField(k), Held(k), FALSE, LastPlaces(k))
<1> DEFINE f == XmpField(k)
<1>1. /\ f.key = Std[k].key /\ IsSeq(f.from) /\ IsSeq(f.values)
      /\ Len(f.values) = Len(f.from) /\ DOMAIN f.from = 1 .. Len(f.from)
      /\ \A j \in 1 .. Len(f.from) : f.from[j] \in Id
      /\ Held(k) = Natives(f.key, TRUE)
  BY XmpFieldFacts
<1>2. \A j \in DOMAIN f.from : LastPlaces(k)[j] = LastOrder(Held(k), f)
  BY DEF LastPlaces, OrderOf
<1> HIDE DEF f
<1>3. AddedLast(f, Held(k), LastPlaces(k))
  BY <1>1, <1>2 DEF AddedLast
<1>4. Fits(f, Natives(f.key, TRUE), FALSE, LastPlaces(k))
  BY <1>1, <1>3, LastFits
<1> QED BY <1>1, <1>4 DEF f

(* The properties a call selects, chooses and writes, and its promises.    *)
LEMMA XmpCall ==
  ASSUME ValidOptions(opts), opts.api = "xmp_iptc"
  PROVE  /\ Range(XmpChosen) \subseteq 1 .. 20 /\ IsSeq(XmpChosen)
         /\ opts.mappings \subseteq 1 .. 20 /\ IsSeq(Selected)
         /\ IsSeq(Written) /\ Written = Ascending(Range(Written)) /\ Range(Written) \subseteq Range(XmpChosen)
         /\ Range(Written) \subseteq 1 .. 20
         /\ Promises = {XmpField(k) : k \in Range(Written)}
<1>1. opts.mappings \subseteq 1 .. 20 /\ 20 \in Nat
  BY StdTable DEF ValidOptions, GpsApis, GpsGroups
<1>2. IsSeq(Selected)
  BY <1>1, Chosens DEF Selected
<1>3. {k \in opts.mappings : XmpSpeaks(k)} \subseteq 1 .. 20
  BY <1>1
<1>4. Range(XmpChosen) = {k \in opts.mappings : XmpSpeaks(k)} /\ IsSeq(XmpChosen)
  BY <1>1, <1>3, Chosens DEF XmpChosen, Chosen
<1> DEFINE S == {k \in Range(XmpChosen) : ~Kept(k)}
<1>5. S \subseteq 1 .. 20 /\ Written = Ascending(S) /\ S \subseteq Range(XmpChosen)
  BY <1>3, <1>4 DEF Written
<1> HIDE DEF S
<1>6. IsSeq(Written) /\ Range(Written) = S
  BY <1>1, <1>5, Chosens
<1>7. Promises = {XmpField(k) : k \in Range(Written)}
  BY DEF Promises
<1> QED BY <1>1, <1>2, <1>3, <1>4, <1>5, <1>6, <1>7

(* The first text beyond ASCII, if there is one.                           *)
LEMMA FirstWideFacts ==
  ASSUME WellFormed(source), ValidOptions(opts), opts.api = "xmp_iptc"
  PROVE  /\ FirstWide = 0 \/ FirstWide \in Id
         /\ FirstWide = 0 <=> \A k \in Range(Written) : WideFrom(XmpField(k)) = {}
<1> DEFINE wide(k) == {j \in DOMAIN XmpField(k).from : Word(XmpField(k).from[j]) \in NonAscii}
           ks == {k \in Range(Written) : wide(k) # {}}
<1>1. FirstWide = IF ks = {} THEN 0 ELSE XmpField(Min(ks)).from[Min(wide(Min(ks)))]
  BY DEF FirstWide
<1>2. \A k : wide(k) = {} <=> WideFrom(XmpField(k)) = {}
  <2> SUFFICES ASSUME NEW k PROVE wide(k) = {} <=> WideFrom(XmpField(k)) = {}
    OBVIOUS
  <2> DEFINE s == XmpField(k).from
  <2>1. \A i : i \in WideFrom(XmpField(k)) <=> \E j \in DOMAIN s : s[j] = i /\ Word(i) \in NonAscii
    BY DEF WideFrom, Range
  <2>2. \A j : j \in wide(k) <=> j \in DOMAIN s /\ Word(s[j]) \in NonAscii
    OBVIOUS
  <2> HIDE DEF s, wide
  <2>3. ASSUME wide(k) # {} PROVE WideFrom(XmpField(k)) # {}
    BY <2>1, <2>2, <2>3
  <2>4. ASSUME WideFrom(XmpField(k)) # {} PROVE wide(k) # {}
    BY <2>1, <2>2, <2>4
  <2> QED BY <2>3, <2>4
<1>3. ASSUME ks # {} PROVE FirstWide \in Id
  <2>1. \A k \in ks : k \in Nat
    BY XmpCall
  <2>2. \A k \in ks : wide(k) # {}
    OBVIOUS
  <2>3. Min(ks) \in ks
    <3> HIDE DEF ks
    <3> QED BY <1>3, <2>1, MinIsLeast
  <2> DEFINE k == Min(ks)
             W == wide(k)
             s == XmpField(k).from
  <2>4. W # {}
    BY <2>2, <2>3
  <2>5. DOMAIN s = 1 .. Len(s) /\ \A j \in 1 .. Len(s) : s[j] \in Id
    BY XmpFieldFacts
  <2>6. FirstWide = s[Min(W)] /\ \A j \in W : j \in DOMAIN s
    BY <1>1, <1>3
  <2> HIDE DEF ks, W, s, k
  <2>7. Min(W) \in W
    <3>1. \A x \in W : x \in Nat
      BY <2>5, <2>6
    <3> QED BY <2>4, <3>1, MinIsLeast
  <2> QED BY <2>5, <2>6, <2>7
<1>4. ks = {} <=> \A k \in Range(Written) : WideFrom(XmpField(k)) = {}
  <2> HIDE DEF wide
  <2> QED BY <1>2
<1>5. 0 \notin Id
  BY StoreFacts DEF Id
<1> HIDE DEF ks
<1> QED BY <1>1, <1>3, <1>4, <1>5

(* Of two verdicts that are good in turn each is good.                     *)
LEMMA PairOk ==
  ASSUME NEW a, NEW b, FirstBad(<<a, b>>) = "OK"
  PROVE  a = "OK" /\ b = "OK"
<1> DEFINE v == <<a, b>>
<1>1. IsSeq(v) /\ Len(v) = 2 /\ v[1] = a /\ v[2] = b
  BY PairIsSeq
<1>2. FirstBad(v) = "OK"
  OBVIOUS
<1> HIDE DEF v
<1>3. \A n \in 1 .. Len(v) : v[n] = "OK"
  BY <1>1, <1>2, FirstBadOk
<1>4. 1 \in 1 .. Len(v) /\ 2 \in 1 .. Len(v)
  BY <1>1
<1> QED BY <1>1, <1>3, <1>4

(* The verdicts on sources are a list.                                     *)
LEMMA CollectedOk ==
  ASSUME WellFormed(source), NEW k
  PROVE  IsSeq(Collected(k))
<1> DEFINE found == MapThenSumSet(LAMBDA h : Cardinality(XmpIds(h)), Before(XmpChosen, k))
           read == MapThenSumSet(LAMBDA h : Len(InOrder(XmpIds(h))), Before(XmpChosen, k))
           text(i, j) == TextVerdict(i, Std[k].key, read + j)
           s == InOrder(XmpIds(k))
           u == [j \in DOMAIN s |-> text(s[j], j)]
           a == When(found + Cardinality(XmpIds(k)) > opts.maxSources, "LIMIT")
           b == When(Twice(k), "AMBIGUOUS_SOURCE")
           c == When(Cardinality(XmpIds(k)) > opts.maxSources, "LIMIT")
<1>1. Collected(k) = IF XmpSpeaks(k) THEN <<a>> \o u \o <<b>> ELSE <<c>>
  BY DEF Collected, ForEach
<1>2. IsSeq(s)
  <2>1. XmpIds(k) \subseteq Id
    BY DEF XmpIds, Noted
  <2> QED BY <2>1, InOrderFacts
<1>3. DOMAIN u = DOMAIN s /\ u = [n \in DOMAIN s |-> u[n]]
  OBVIOUS
<1> HIDE DEF u, s, a, b, c
<1>4. IsSeq(<<a>> \o u \o <<b>>)
  BY <1>2, <1>3, ListedOk
<1>5. IsSeq(<<c>>)
  BY OneIsSeq
<1> QED BY <1>1, <1>4, <1>5

(* So are those on what is there already.                                  *)
LEMMA ComparedOk ==
  ASSUME NEW k
  PROVE  IsSeq(Compared(k))
BY PairIsSeq DEF Compared

(* Where the marker is due, it is there and right, or there is none and no *)
(* other text it would speak of.                                           *)
LEMMA DeclaredOk ==
  ASSUME WellFormed(source)
  PROVE  /\ IsSeq(Declared)
         /\ FirstBad(Declared) = "OK" /\ FirstWide # 0 =>
               IF Markers # {}
               THEN Cardinality(Markers) = 1 /\ \A i \in Markers : source[i].value = Utf8
               ELSE \A i \in Id : Live(i) /\ source[i].key.name \in Datasets \ Owned
                                  => Word(i) \notin NonAscii
<1> DEFINE read == MapThenSumSet(LAMBDA h : Len(InOrder(XmpIds(h))), Range(XmpChosen))
           X == {i \in Id : source[i].key.name \in Datasets}
           s == InOrder(X)
           bad(i) == source[i].key.name \notin Owned /\ Word(i) \in NonAscii
           over(j) == read + j > opts.maxTexts
           entry(i, j) == FirstBad(<<When(over(j), "LIMIT"), When(bad(i), "ENCODING_CONFLICT")>>)
           u == [j \in DOMAIN s |-> entry(s[j], j)]
           wrong == Cardinality(Markers) > 1 \/ \E i \in Markers : source[i].value # Utf8
           w == When(wrong, "ENCODING_CONFLICT")
<1>1. Declared = IF FirstWide = 0 THEN <<>> ELSE IF Markers # {} THEN <<w>> ELSE u
  BY DEF Declared, ForEach
<1>2. /\ IsSeq(s) /\ DOMAIN s = 1 .. Len(s)
      /\ \A i \in X : Live(i) => \E j \in 1 .. Len(s) : s[j] = i
  <2>1. X \subseteq Id
    OBVIOUS
  <2> HIDE DEF X
  <2> QED BY <2>1, InOrderFacts
<1>3. DOMAIN u = DOMAIN s /\ u = [n \in DOMAIN s |-> u[n]] /\ \A n \in DOMAIN s : u[n] = entry(s[n], n)
  OBVIOUS
<1>4. \A i, j : entry(i, j) = "OK" => ~bad(i)
  <2> SUFFICES ASSUME NEW i, NEW j, entry(i, j) = "OK" PROVE ~bad(i)
    OBVIOUS
  <2> DEFINE x == When(bad(i), "ENCODING_CONFLICT")
             y == When(over(j), "LIMIT")
  <2>1. FirstBad(<<y, x>>) = "OK"
    OBVIOUS
  <2> HIDE DEF x, y
  <2>2. x = "OK"
    BY <2>1, PairOk
  <2> HIDE DEF bad
  <2> QED BY <2>2 DEF x, When
<1>5. w = "OK" => ~wrong
  <2> HIDE DEF wrong
  <2> QED BY DEF When
<1>6. IsSeq(<<w>>) /\ IsSeq(<<>>) /\ (FirstBad(<<w>>) = "OK" => w = "OK")
  <2> DEFINE v == <<w>>
  <2>1. IsSeq(v) /\ Len(v) = 1 /\ v[1] = w
    BY OneIsSeq
  <2> HIDE DEF v, w
  <2>2. FirstBad(v) = "OK" => \A n \in 1 .. Len(v) : v[n] = "OK"
    BY <2>1, FirstBadOk
  <2>3. FirstBad(v) = "OK" => w = "OK"
    BY <2>1, <2>2
  <2>4. IsSeq(<<>>)
    BY DEF IsSeq
  <2> QED BY <2>1, <2>3, <2>4 DEF v
<1>7. Markers # {} /\ ~wrong => Cardinality(Markers) = 1 /\ \A i \in Markers : source[i].value = Utf8
  <2>1. IsFiniteSet(Markers)
    BY MarkersAre
  <2>2. Markers # {} => Cardinality(Markers) # 0 /\ Cardinality(Markers) \in Nat
    BY <2>1, FS_EmptySet, FS_CardinalityType
  <2> QED BY <2>2
<1> HIDE DEF u, s, entry, w, wrong
<1>8. IsSeq(u) /\ (FirstBad(u) = "OK" => \A n \in DOMAIN s : u[n] = "OK")
  BY <1>2, <1>3, JustListedOk
<1>9. ASSUME FirstBad(u) = "OK", NEW i \in Id, Live(i), source[i].key.name \in Datasets \ Owned
      PROVE  Word(i) \notin NonAscii
  <2>1. PICK j \in 1 .. Len(s) : s[j] = i
    BY <1>2, <1>9
  <2>2. entry(i, j) = "OK"
    BY <1>2, <1>3, <1>8, <1>9, <2>1
  <2>3. ~bad(i)
    BY <1>4, <2>2
  <2> QED BY <1>9, <2>3
<1>10. IsSeq(Declared)
  BY <1>1, <1>6, <1>8
<1>11. ASSUME FirstBad(Declared) = "OK", FirstWide # 0, Markers # {}
       PROVE  Cardinality(Markers) = 1 /\ \A i \in Markers : source[i].value = Utf8
  <2>1. Declared = <<w>>
    BY <1>1, <1>11
  <2> QED BY <1>5, <1>6, <1>7, <1>11, <2>1
<1>12. ASSUME FirstBad(Declared) = "OK", FirstWide # 0, ~(Markers # {})
       PROVE  \A i \in Id : Live(i) /\ source[i].key.name \in Datasets \ Owned => Word(i) \notin NonAscii
  <2>1. Declared = u
    BY <1>1, <1>12
  <2> QED BY <1>9, <1>12, <2>1
<1> QED BY <1>10, <1>11, <1>12

(* Of all verdicts of a call the one on the marker is good.                *)
LEMMA XmpVerdicts ==
  ASSUME WellFormed(source), ValidOptions(opts), opts.api = "xmp_iptc", NEW limits, IsSeq(limits),
         FirstBad(Over(Selected, Collected) \o Over(XmpChosen, Compared) \o Declared \o limits) = "OK"
  PROVE  FirstBad(Declared) = "OK"
<1> DEFINE A == Over(Selected, Collected)
           B == Over(XmpChosen, Compared)
<1>1. IsSeq(Selected) /\ IsSeq(XmpChosen)
  BY XmpCall
<1>2. IsSeq(A)
  <2> DEFINE c == [n \in DOMAIN Selected |-> Collected(Selected[n])]
  <2>1. A = FlattenSeq(c)
    BY DEF Over
  <2>2. DOMAIN c = DOMAIN Selected /\ c = [n \in DOMAIN Selected |-> c[n]] /\ \A n \in DOMAIN Selected : IsSeq(c[n])
    BY CollectedOk
  <2> HIDE DEF c
  <2> QED BY <1>1, <2>1, <2>2, EachOk
<1>3. IsSeq(B)
  <2> DEFINE c == [n \in DOMAIN XmpChosen |-> Compared(XmpChosen[n])]
  <2>1. B = FlattenSeq(c)
    BY DEF Over
  <2>2. DOMAIN c = DOMAIN XmpChosen /\ c = [n \in DOMAIN XmpChosen |-> c[n]] /\ \A n \in DOMAIN XmpChosen : IsSeq(c[n])
    BY ComparedOk
  <2> HIDE DEF c
  <2> QED BY <1>1, <2>1, <2>2, EachOk
<1> DEFINE all == ((A \o B) \o Declared) \o limits
<1>4. FirstBad(all) = "OK"
  OBVIOUS
<1> HIDE DEF A, B, all
<1>5. IsSeq(Declared)
  BY DeclaredOk
<1>6. IsSeq(A \o B) /\ IsSeq((A \o B) \o Declared)
  BY <1>2, <1>3, <1>5, JoinFacts
<1>7. FirstBad((A \o B) \o Declared) = "OK"
  BY <1>4, <1>6, JoinedOk DEF all
<1> QED BY <1>5, <1>6, <1>7, JoinedOk

(* After the operations of a call every data set written has its values,   *)
(* and only those changed.                                                 *)
LEMMA WrittenDone ==
  ASSUME WellFormed(source), ValidOptions(opts), opts.api = "xmp_iptc"
  PROVE  LET a == Run(source, XmpNew)
         IN  /\ OkOps(source, XmpNew) /\ WellFormed(a) /\ Keeps(source, a, Promised) /\ IsSeq(XmpNew)
             /\ \A f \in Promises : Stored(a, f.key) = f.values
             /\ Promised = Owned /\ Marker \notin Promised
             /\ \A k \in DOMAIN Std : Std[k].prop \notin Promised
<1> DEFINE S == Range(Written)
           c == [n \in DOMAIN Written |-> IptcChanges(Written[n])]
           F == [k \in S |-> XmpField(k)]
           I == [k \in S |-> Held(k)]
           P == [k \in S |-> LastPlaces(k)]
           a == Run(source, XmpNew)
<1>1. /\ S \subseteq DOMAIN Std /\ (\E N \in Nat : S \subseteq 1 .. N)
      /\ Written = Ascending(S) /\ IsSeq(Written) /\ Promises = {XmpField(k) : k \in S}
  <2>1. /\ S \subseteq 1 .. 20
        /\ Written = Ascending(S) /\ IsSeq(Written) /\ Promises = {XmpField(k) : k \in S}
    BY XmpCall
  <2>2. DOMAIN Std = 1 .. 20 /\ 20 \in Nat
    BY StdTable
  <2> HIDE DEF S
  <2> QED BY <2>1, <2>2
<1>2. \A k \in S : F[k] = XmpField(k) /\ I[k] = Held(k) /\ P[k] = LastPlaces(k)
  OBVIOUS
<1>3. \A j \in DOMAIN Written : Written[j] \in S
  BY DEF Range
<1>4. DOMAIN c = DOMAIN Written /\ IsSeq(c) /\ \A n \in DOMAIN Written : c[n] = IptcChanges(Written[n])
  <2>1. DOMAIN c = DOMAIN Written /\ c = [n \in DOMAIN Written |-> c[n]] /\ \A n \in DOMAIN Written : c[n] = IptcChanges(Written[n])
    OBVIOUS
  <2> HIDE DEF c
  <2> QED BY <1>1, <2>1, MadeOf
<1>5. Owned = {Std[k].key : k \in S}
  BY DEF Owned
<1> HIDE DEF F, I, P, c, S
<1>6. \A k \in S : F[k].key = Std[k].key /\ IsSeq(F[k].values) /\ Fits(F[k], I[k], FALSE, P[k])
  <2> SUFFICES ASSUME NEW k \in S
               PROVE  F[k].key = Std[k].key /\ IsSeq(F[k].values) /\ Fits(F[k], I[k], FALSE, P[k])
    OBVIOUS
  <2>1. Fits(XmpField(k), Held(k), FALSE, LastPlaces(k))
    BY XmpFits
  <2>2. XmpField(k).key = Std[k].key /\ IsSeq(XmpField(k).values)
    BY XmpFieldFacts
  <2> QED BY <1>2, <2>1, <2>2
<1>7. \A k \in S : IptcChanges(k) = Operations(F[k], I[k], FALSE, P[k])
  BY <1>2 DEF IptcChanges, LastPlaces
<1>8. \A k, n \in S : F[k].key = F[n].key => k = n
  BY <1>1, <1>6, StdApart
<1>9. Planned(S, c, F, I, P)
  BY <1>1, <1>3, <1>4, <1>6, <1>7, <1>8 DEF Planned
<1>10. XmpNew = FlattenSeq(c)
  BY DEF XmpNew, c
<1>11. /\ OkOps(source, XmpNew) /\ WellFormed(a) /\ Keeps(source, a, KeysFrom(S, F)) /\ IsSeq(XmpNew)
       /\ \A k \in S : Stored(a, F[k].key) = F[k].values
  <2> DEFINE b == Run(source, FlattenSeq(c))
  <2>1. /\ OkOps(source, FlattenSeq(c)) /\ WellFormed(b) /\ Keeps(source, b, KeysFrom(S, F))
        /\ IsSeq(FlattenSeq(c))
        /\ \A k \in S : Stored(b, F[k].key) = F[k].values /\ Holds(b, F[k], FALSE, I[k], P[k])
    BY <1>9, GroupsDone
  <2> QED BY <1>10, <2>1
<1> HIDE DEF a
<1>12. KeysFrom(S, F) = Promised
  BY <1>1, <1>2 DEF Promised, KeysFrom
<1>13. \A x : x \in Promised <=> \E k \in S : x = Std[k].key
  BY <1>6, <1>12 DEF KeysFrom
<1>14. Promised = Owned
  BY <1>5, <1>13
<1>15. Marker \notin Promised /\ \A k \in DOMAIN Std : Std[k].prop \notin Promised
  BY <1>1, <1>13, StdApart
<1>16. \A f \in Promises : Stored(a, f.key) = f.values
  BY <1>1, <1>2, <1>11
<1> QED BY <1>11, <1>12, <1>14, <1>15, <1>16 DEF a

(* A call from XMP to IPTC whose verdicts are good keeps its promises, the *)
(* marker among them.                                                      *)
LEMMA WrittenGood ==
  ASSUME WellFormed(source), ValidOptions(opts), opts.api = "xmp_iptc", NEW limits, IsSeq(limits),
         FirstBad(Over(Selected, Collected) \o Over(XmpChosen, Compared) \o Declared \o limits) = "OK"
  PROVE  LET new == XmpNew \o MarkerAdded
         IN  OkOps(source, new) /\ PromisesStand(Run(source, new))
<1> DEFINE a == Run(source, XmpNew)
           b == Run(source, XmpNew \o MarkerAdded)
           wide == \E f \in Promises : WideFrom(f) # {}
<1>1. /\ OkOps(source, XmpNew) /\ WellFormed(a) /\ Keeps(source, a, Promised) /\ IsSeq(XmpNew)
      /\ \A f \in Promises : Stored(a, f.key) = f.values
      /\ Promised = Owned /\ Marker \notin Promised
      /\ \A k \in DOMAIN Std : Std[k].prop \notin Promised
  BY WrittenDone
<1>2. FirstBad(Declared) = "OK"
  BY XmpVerdicts
<1>3. FirstWide # 0 =>
        IF Markers # {}
        THEN Cardinality(Markers) = 1 /\ \A i \in Markers : source[i].value = Utf8
        ELSE \A i \in Id : Live(i) /\ source[i].key.name \in Datasets \ Owned => Word(i) \notin NonAscii
  BY <1>2, DeclaredOk
<1>4. /\ FirstWide = 0 \/ FirstWide \in Id
      /\ wide => FirstWide # 0
  <2>1. /\ FirstWide = 0 \/ FirstWide \in Id
        /\ FirstWide = 0 <=> \A k \in Range(Written) : WideFrom(XmpField(k)) = {}
    BY FirstWideFacts
  <2>2. Promises = {XmpField(k) : k \in Range(Written)}
    BY XmpCall
  <2> QED BY <2>1, <2>2
<1>5. Markers = LiveOf(source, Marker) /\
      (Cardinality(Markers) = 1 /\ (\A i \in Markers : source[i].value = Utf8) => Values(source, Marker) = <<Utf8>>)
  BY MarkersAre
<1>6. \A k \in DOMAIN Std : ~(Std[k].items /\ Std[k].prop \in Promised)
  BY <1>1
<1> HIDE DEF wide
<1>7. CASE FirstWide = 0 \/ Markers # {}
  <2>1. MarkerAdded = <<>>
    BY <1>7 DEF MarkerAdded
  <2>2. XmpNew \o MarkerAdded = XmpNew
    BY <1>1, <2>1, JoinFacts
  <2>3. b = a
    BY <2>2
  <2> HIDE DEF a, b
  <2>4. OthersKept(b, Promised, Promised \cup {Marker})
    BY <1>1, <2>3, KeptOthers
  <2>5. Values(b, Marker) = Values(source, Marker)
    BY <1>1, <2>3, KeepsOthers
  <2>6. wide => Values(b, Marker) = <<Utf8>>
    BY <1>3, <1>4, <1>5, <1>7, <2>5
  <2>7. \A f \in Promises : Stored(b, f.key) = f.values
    BY <1>1, <2>3
  <2>8. PromisesStand(b)
    BY <1>6, <2>4, <2>5, <2>6, <2>7 DEF PromisesStand, wide
  <2> QED BY <1>1, <2>2, <2>8 DEF b
<1>8. CASE ~(FirstWide = 0 \/ Markers # {})
  <2>1. FirstWide \in Id /\ LiveOf(source, Marker) = {} /\ FirstWide # 0 /\ Markers = {}
    BY <1>4, <1>5, <1>8
  <2> DEFINE places == <<0>>
  <2>2. MarkerAdded = MarkerOps(FirstWide, places)
    BY <2>1 DEF MarkerAdded, MarkerOps, MarkerField
  <2>3. places[1] \in Nat
    OBVIOUS
  <2> HIDE DEF places
  <2> DEFINE c == Run(source, XmpNew \o MarkerOps(FirstWide, places))
  <2>4. /\ OkOps(source, XmpNew \o MarkerOps(FirstWide, places)) /\ WellFormed(c)
        /\ Keeps(a, c, {Marker}) /\ Values(c, Marker) = <<Utf8>>
        /\ \A n \in 1 .. Len(a) : c[n] = a[n]
    <3>1. Unmarked(XmpNew, Promised, FirstWide, places)
      BY <1>1, <2>1, <2>3 DEF Unmarked
    <3>2. LET p == XmpNew \o MarkerOps(FirstWide, places)
          IN  OkOps(source, p) /\ Marks(Run(source, XmpNew), Run(source, p))
      BY <3>1, MarkerDoes
    <3> QED BY <3>2 DEF Marks
  <2>5. c = b
    BY <2>2
  <2> HIDE DEF c, b, a
  <2>6. Keeps(source, b, Promised \cup {Marker})
    BY <1>1, <2>4, <2>5, KeepsOn
  <2>7. OthersKept(b, Promised, Promised \cup {Marker})
    <3>1. OthersKept(b, Promised \cup {Marker}, Promised \cup {Marker})
      BY <2>6, KeptOthers
    <3>2. \A i \in Id : source[i].key.name \notin Promised => b[i] = source[i]
      <4> SUFFICES ASSUME NEW i \in Id, source[i].key.name \notin Promised PROVE b[i] = source[i]
        OBVIOUS
      <4>1. i \in 1 .. Len(source) /\ Len(source) \in Nat
        BY StoreFacts DEF Id
      <4>2. Len(source) <= Len(a) /\ Len(a) \in Nat /\ a[i] = source[i]
        BY <1>1, <4>1, StoreFacts DEF Keeps
      <4>3. i \in 1 .. Len(a)
        BY <4>1, <4>2
      <4> QED BY <2>4, <2>5, <4>2, <4>3
    <3> QED BY <3>1, <3>2 DEF OthersKept
  <2>8. \A f \in Promises : Stored(b, f.key) = f.values
    <3> SUFFICES ASSUME NEW f \in Promises PROVE Stored(b, f.key) = f.values
      OBVIOUS
    <3>1. f.key \in Promised
      BY DEF Promised
    <3>2. f.key \notin {Marker}
      BY <1>1, <3>1
    <3>3. Stored(b, f.key) = Stored(a, f.key)
      BY <2>4, <2>5, <3>2, KeepsOthers
    <3> QED BY <1>1, <3>3
  <2>9. \A i \in Id : Live(i) /\ source[i].key.name \in Datasets \ Promised => Word(i) \notin NonAscii
    BY <1>1, <1>3, <2>1
  <2>10. PromisesStand(b)
    BY <1>6, <2>4, <2>5, <2>7, <2>8, <2>9 DEF PromisesStand
  <2> QED BY <2>2, <2>4, <2>10 DEF b
<1> QED BY <1>7, <1>8

-----------------------------------------------------------------------------
(* What an exchange promises depends on the store and the options alone.   *)
BySourceIn(store, ids) ==
    Listed({i \in ids : ~store[i].deleted}, LAMBDA a, b :
        \/ store[a].key.block < store[b].key.block
        \/ store[a].key.block = store[b].key.block /\ Placed(store, a, b))

(* BySource, with the source as an argument.                               *)
LEMMA BySourceIs ==
  \A ids : BySource(ids) = BySourceIn(source, ids)
BY Zenon DEF BySource, BySourceIn, BlockOf, Live

(* The same in the next state.                                             *)
LEMMA BySourceIsThen ==
  (\A ids : BySource(ids) = BySourceIn(source, ids))'
BY BySourceIs, PTL

(* It depends on the source alone.                                         *)
LEMMA BySourceFrame ==
  ASSUME source' = source
  PROVE  \A ids : BySource(ids)' = BySource(ids)
BY BySourceIs, BySourceIsThen

(* The promises of an exchange.                                            *)
LEMMA PromisesFrame ==
  ASSUME source' = source, opts' = opts
  PROVE  \A st : PromisesStand(st)' <=> PromisesStand(st)
<1> USE BaseFrame
<1>1. \A k : XmpIds(k)' = XmpIds(k)
  <2>1. \A k : {i \in Id : source[i].key.name = Std[k].prop \/ <<Std[k].prop, source[i].key.name>> \in ZeroLed}'
             = {i \in Id : source[i].key.name = Std[k].prop \/ <<Std[k].prop, source[i].key.name>> \in ZeroLed}
    OBVIOUS
  <2> QED BY <2>1 DEF XmpIds
<1>2. XmpChosen' = XmpChosen
  <2>1. \A k : XmpSpeaks(k)' <=> XmpSpeaks(k)
    BY <1>1 DEF XmpSpeaks
  <2>2. {k \in opts.mappings : XmpSpeaks(k)}' = {k \in opts.mappings : XmpSpeaks(k)}
    BY <2>1
  <2> QED BY <2>2 DEF XmpChosen, Chosen
<1>3. \A k : XmpField(k)' = XmpField(k)
  <2>1. \A k : {i \in XmpIds(k) : Live(i)}' = {i \in XmpIds(k) : Live(i)}
    BY <1>1
  <2>2. \A k : Sorted({i \in XmpIds(k) : Live(i)})' = Sorted({i \in XmpIds(k) : Live(i)})
    BY <2>1
  <2> QED BY <2>2 DEF XmpField
<1>4. Written' = Written
  <2>1. \A k : (Held(k)' = Held(k)) /\ (Kept(k)' <=> Kept(k))
    BY DEF Held, Kept
  <2>2. {k \in Range(XmpChosen) : ~Kept(k)}' = {k \in Range(XmpChosen) : ~Kept(k)}
    BY <1>2, <2>1
  <2> QED BY <2>2 DEF Written
<1>5. Markers' = Markers /\ \A b : MarkersIn(b)' = MarkersIn(b)
  BY DEF Markers, MarkersIn
<1>6. \A k : SourceIds(k)' = SourceIds(k)
  BY DEF SourceIds
<1>7. IptcChosen' = IptcChosen
  <2>1. \A i : Dangling(i)' <=> Dangling(i)
    BY DEF Dangling
  <2>2. \A k : IptcSpeaks(k)' <=> IptcSpeaks(k)
    BY <1>5, <1>6, <2>1 DEF IptcSpeaks
  <2>3. {k \in opts.mappings : IptcSpeaks(k)}' = {k \in opts.mappings : IptcSpeaks(k)}
    BY <2>2
  <2> QED BY <2>3 DEF IptcChosen, Chosen
<1>8. \A k : IptcField(k)' = IptcField(k)
  <2>1. \A k : BySource(SourceIds(k))' = BySource(SourceIds(k))
    BY <1>6, BySourceFrame
  <2> QED BY <2>1 DEF IptcField
<1>9. \A p : Dest(p)' = Dest(p) /\ Strange(p)' = Strange(p) /\ OtherTongues(p)' = OtherTongues(p)
  BY DEF Dest, Strange, OtherTongues
<1>10. Filled' = Filled
  <2>1. \A p : Spared(p)' <=> Spared(p)
    BY <1>9 DEF Spared
  <2>2. {k \in Range(IptcChosen) : ~Spared(Std[k].prop)}' = {k \in Range(IptcChosen) : ~Spared(Std[k].prop)}
    BY <1>7, <2>1
  <2> QED BY <2>2 DEF Filled
<1>11. \A n : DateIds(n)' = DateIds(n) /\ TimeIds(n)' = TimeIds(n)
  BY DEF DateIds, TimeIds
<1>12. PairsChosen' = PairsChosen
  <2>1. \A n : PairSpeaks(n)' <=> PairSpeaks(n)
    BY <1>11 DEF PairSpeaks
  <2>2. {n \in opts.mappings : PairSpeaks(n)}' = {n \in opts.mappings : PairSpeaks(n)}
    BY <2>1
  <2> QED BY <2>2 DEF PairsChosen, Chosen
<1>13. Drawn' = Drawn
  <2>1. \A n : PairSpared(n)' <=> PairSpared(n)
    BY <1>9 DEF PairSpared
  <2>2. {n \in Range(PairsChosen) : ~PairSpared(n)}' = {n \in Range(PairsChosen) : ~PairSpared(n)}
    BY <1>12, <2>1
  <2> QED BY <2>2 DEF Drawn
<1>14. \A n : PairField(n)' = PairField(n)
  <2> DEFINE dates(n) == InOrder(DateIds(n))
             times(n) == InOrder(TimeIds(n))
             time(n) == IF times(n) = <<>> THEN <<"", "">> ELSE source[times(n)[1]].value
  <2>1. \A n : dates(n)' = dates(n) /\ times(n)' = times(n)
    BY <1>11
  <2>2. \A n : PairField(n) =
          Field(Pairs[n].prop, IF dates(n) = <<>> THEN <<>> ELSE <<<<Word(dates(n)[1])>> \o time(n) \o <<"">>>>, dates(n))
    BY DEF PairField
  <2>3. \A n : PairField(n)' =
          Field(Pairs[n].prop,
                IF dates(n)' = <<>> THEN <<>> ELSE <<<<Word(dates(n)[1])'>> \o time(n)' \o <<"">>>>, dates(n)')
    BY DEF PairField
  <2>4. \A n : Word(dates(n)[1])' = Word(dates(n)[1]) /\ time(n)' = time(n)
    BY <2>1 DEF Word
  <2> HIDE DEF dates, times, time
  <2> QED BY <2>1, <2>2, <2>3, <2>4
<1>15. Promises' = Promises
  <2>1. {XmpField(k) : k \in Range(Written)}' = {XmpField(k) : k \in Range(Written)}
    BY <1>3, <1>4
  <2>2. {IptcField(k) : k \in Range(Filled)}' = {IptcField(k) : k \in Range(Filled)}
    BY <1>8, <1>10
  <2>3. {PairField(n) : n \in Range(Drawn)}' = {PairField(n) : n \in Range(Drawn)}
    BY <1>13, <1>14
  <2> QED BY <2>1, <2>2, <2>3 DEF Promises
<1>16. Promised' = Promised
  BY <1>15 DEF Promised
<1>17. \A f : WideFrom(f)' = WideFrom(f)
  BY DEF WideFrom
<1> QED BY <1>5, <1>15, <1>16, <1>17, StandsFrame DEF PromisesStand
(* omc_translate_xmp, one group after the other.  What is changed, if it   *)
(* was there before, has one of some names.                                *)
Touching(p, K) ==
    \A j \in 1 .. Len(p) : p[j].kind # "ADD_ENTRY" => source[p[j].target + 1].key.name \in K

(* Operations that touch K, then some that touch L, touch both.            *)
LEMMA TouchingJoin ==
  ASSUME NEW p, IsSeq(p), NEW q, IsSeq(q), NEW K, Touching(p, K), NEW L, Touching(q, L)
  PROVE  Touching(p \o q, K \cup L)
<1>1. /\ Len(p) \in Nat /\ Len(q) \in Nat /\ Len(p \o q) = Len(p) + Len(q)
      /\ \A j \in 1 .. Len(p) : (p \o q)[j] = p[j]
      /\ \A j \in 1 .. Len(q) : (p \o q)[Len(p) + j] = q[j]
  <2>1. Len(p) \in Nat /\ Len(q) \in Nat
    BY SeqFacts
  <2>2. /\ Len(p \o q) = Len(p) + Len(q)
        /\ \A j \in 1 .. Len(p) : (p \o q)[j] = p[j]
        /\ \A j \in 1 .. Len(q) : (p \o q)[Len(p) + j] = q[j]
    BY JoinFacts
  <2> QED BY <2>1, <2>2
<1> DEFINE r == p \o q
<1> SUFFICES ASSUME NEW j \in 1 .. Len(r), r[j].kind # "ADD_ENTRY"
             PROVE  source[r[j].target + 1].key.name \in K \cup L
  BY DEF Touching
<1> HIDE DEF r
<1>2. CASE j \in 1 .. Len(p)
  <2>1. r[j] = p[j]
    BY <1>1, <1>2 DEF r
  <2> QED BY <1>2, <2>1 DEF Touching
<1>3. CASE j \notin 1 .. Len(p)
  <2>1. j - Len(p) \in 1 .. Len(q) /\ Len(p) + (j - Len(p)) = j
    BY <1>1, <1>3 DEF r
  <2>2. r[j] = q[j - Len(p)]
    BY <1>1, <2>1 DEF r
  <2> QED BY <2>1, <2>2 DEF Touching
<1> QED BY <1>2, <1>3

(* The same for any number of them.                                        *)
LEMMA FlatTouching ==
  ASSUME NEW c, AllSeqs(c), NEW K, \A n \in 1 .. Len(c) : Touching(c[n], K)
  PROVE  Touching(FlattenSeq(c), K)
<1> DEFINE G == {n \in 0 .. Len(c) : Touching(FlattenSeq(First(c, n)), K)}
<1>0. Len(c) \in Nat
  BY SeqFacts DEF AllSeqs
<1>1. 0 \in G
  <2>1. 0 \in 0 .. Len(c)
    BY <1>0
  <2>2. FlattenSeq(First(c, 0)) = <<>>
    BY <2>1, FirstFacts
  <2>3. Touching(<<>>, K)
    BY DEF Touching
  <2> QED BY <2>1, <2>2, <2>3
<1>2. ASSUME NEW n \in 0 .. Len(c), n \in G, n < Len(c) PROVE n + 1 \in G
  <2>1. n + 1 \in 1 .. Len(c) /\ n + 1 \in 0 .. Len(c)
    BY <1>0, <1>2
  <2>2. FlattenSeq(First(c, n + 1)) = FlattenSeq(First(c, n)) \o c[n + 1] /\ AllSeqs(First(c, n))
    BY <1>2, FirstFacts
  <2>3. IsSeq(FlattenSeq(First(c, n))) /\ IsSeq(c[n + 1])
    BY <2>1, <2>2, FlatSeq DEF AllSeqs
  <2>4. Touching(FlattenSeq(First(c, n)), K) /\ Touching(c[n + 1], K)
    BY <1>2, <2>1
  <2>5. Touching(FlattenSeq(First(c, n)) \o c[n + 1], K \cup K)
    BY <2>3, <2>4, TouchingJoin
  <2>6. K \cup K = K
    OBVIOUS
  <2> QED BY <2>1, <2>2, <2>5, <2>6
<1>3. \A n \in 0 .. Len(c) : n \in G
  <2> HIDE DEF G
  <2> QED BY <1>0, <1>1, <1>2, Climb
<1>4. Len(c) \in 0 .. Len(c) /\ First(c, Len(c)) = c
  BY <1>0, FirstFacts
<1> QED BY <1>3, <1>4

(* Nothing after nothing is nothing.                                       *)
LEMMA FlatNone ==
  ASSUME NEW c, AllSeqs(c), \A n \in 1 .. Len(c) : c[n] = <<>>
  PROVE  FlattenSeq(c) = <<>>
<1> DEFINE G == {n \in 0 .. Len(c) : FlattenSeq(First(c, n)) = <<>>}
<1>0. Len(c) \in Nat
  BY SeqFacts DEF AllSeqs
<1>1. 0 \in G
  <2>1. 0 \in 0 .. Len(c)
    BY <1>0
  <2> QED BY <2>1, FirstFacts
<1>2. ASSUME NEW n \in 0 .. Len(c), n \in G, n < Len(c) PROVE n + 1 \in G
  <2>1. n + 1 \in 1 .. Len(c) /\ n + 1 \in 0 .. Len(c)
    BY <1>0, <1>2
  <2>2. FlattenSeq(First(c, n + 1)) = FlattenSeq(First(c, n)) \o c[n + 1]
    BY <1>2, FirstFacts
  <2>3. FlattenSeq(First(c, n)) = <<>> /\ c[n + 1] = <<>> /\ <<>> \o <<>> = <<>>
    BY <1>2, <2>1
  <2> QED BY <2>1, <2>2, <2>3
<1>3. \A n \in 0 .. Len(c) : n \in G
  <2> HIDE DEF G
  <2> QED BY <1>0, <1>1, <1>2, Climb
<1>4. Len(c) \in 0 .. Len(c) /\ First(c, Len(c)) = c
  BY <1>0, FirstFacts
<1> QED BY <1>3, <1>4

(* The operations of a field touch its key.                                *)
LEMMA OperationsTouch ==
  ASSUME WellFormed(source), NEW f, NEW ids, NEW lifecycle \in BOOLEAN, NEW places,
         Fits(f, ids, lifecycle, places)
  PROVE  Touching(Operations(f, ids, lifecycle, places), {f.key})
<1>1. /\ IsSeq(f.values) /\ IsSeq(ids)
      /\ \A j \in 1 .. Len(ids) : ids[j] \in LiveOf(source, f.key)
      /\ \A j \in 1 .. Len(f.values) : j > Len(ids) => places[j] \in Nat /\ f.from[j] \in Id
  BY DEF Fits, Lies
<1> DEFINE c == Changes(f, ids, lifecycle)
           d == Additions(f, ids, places)
           e == OpIntent(f, ids, lifecycle, places)
<1>2. \A i \in LiveOf(source, f.key) : i \in 1 .. Len(source) /\ i - 1 + 1 = i /\ source[i].key.name = f.key
  <2>1. DOMAIN source = 1 .. Len(source) /\ Len(source) \in Nat
    BY StoreFacts
  <2> QED BY <2>1 DEF LiveOf
<1>3. /\ AllSeqs(c) /\ Len(c) = Len(ids)
      /\ \A j \in 1 .. Len(ids) : c[j] = <<>> \/ (c[j] = <<c[j][1]>> /\ c[j][1].target = ids[j] - 1)
  <2>1. \A j \in 1 .. Len(ids) : ids[j] \in 1 .. Len(source)
    BY <1>1, <1>2
  <2> QED BY <1>1, <2>1, ChangesAre
<1>4. IsSeq(d) /\ \A j \in 1 .. Len(d) : d[j].kind = "ADD_ENTRY"
  <2>1. /\ OkOps(source, d)
        /\ \A j \in 1 .. Len(d) : d[j] = OpAdd(f, places, f.values[KeptOf(f, ids) + j], KeptOf(f, ids) + j, FALSE)
    BY <1>1, AdditionsAre
  <2>2. \A v, j : OpAdd(f, places, v, j, FALSE).kind = "ADD_ENTRY"
    BY DEF OpAdd
  <2>3. IsSeq(d)
    BY <2>1 DEF OkOps
  <2> HIDE DEF d
  <2> QED BY <2>1, <2>2, <2>3
<1>5. IsSeq(e) /\ Touching(e, {f.key})
  <2> DEFINE C == CleanIntents(f.key)
             i == CHOOSE i \in C : \A j \in C : i <= j
             t == [kind |-> "TOMBSTONE", target |-> i - 1]
             a == OpAdd(f, places, <<>>, 1, TRUE)
  <2>1. e = <<>> \/ e = <<a>> \/ (C # {} /\ e = <<t>>)
    BY DEF OpIntent
  <2>2. ASSUME C # {} PROVE i \in C
    <3>1. C \subseteq Nat
      BY StoreFacts DEF CleanIntents, Id
    <3>2. PICK x \in C : \A y \in C : x <= y
      <4> HIDE DEF C
      <4> QED BY <2>2, <3>1, LeastNumber
    <3> HIDE DEF C
    <3> QED BY <3>2
  <2>3. \A x \in C : source[x].key.name = f.key /\ x - 1 + 1 = x
    BY StoreFacts DEF CleanIntents, Id
  <2>4. a.kind = "ADD_ENTRY"
    BY DEF OpAdd
  <2> HIDE DEF C, i, e, a
  <2>5. ASSUME C # {} PROVE source[t.target + 1].key.name = f.key
    BY <2>2, <2>3, <2>5
  <2> HIDE DEF t
  <2>6. Touching(<<>>, {f.key}) /\ IsSeq(<<>>)
    BY SeqFacts DEF Touching, IsSeq
  <2>7. \A x : IsSeq(<<x>>) /\ Len(<<x>>) = 1 /\ <<x>>[1] = x
    BY OneIsSeq
  <2>8. Touching(<<a>>, {f.key})
    BY <2>4, <2>7 DEF Touching
  <2>9. C # {} => Touching(<<t>>, {f.key})
    BY <2>5, <2>7 DEF Touching
  <2> QED BY <2>1, <2>6, <2>7, <2>8, <2>9
<1>6. Touching(FlattenSeq(c), {f.key})
  <2> HIDE DEF c
  <2>1. ASSUME NEW n \in 1 .. Len(c) PROVE Touching(c[n], {f.key})
    <3>1. n \in 1 .. Len(ids)
      BY <1>3
    <3>2. c[n] = <<>> \/ (c[n] = <<c[n][1]>> /\ c[n][1].target = ids[n] - 1)
      BY <1>3, <3>1
    <3>3. source[ids[n] - 1 + 1].key.name = f.key
      BY <1>1, <1>2, <3>1
    <3>4. CASE c[n] = <<>>
      BY <3>4 DEF Touching
    <3>5. CASE c[n] = <<c[n][1]>> /\ c[n][1].target = ids[n] - 1
      <4>1. Len(c[n]) = 1
        BY <3>5, OneIsSeq
      <4>2. \A j \in 1 .. Len(c[n]) : c[n][j].target + 1 = ids[n] - 1 + 1
        BY <3>5, <4>1
      <4> QED BY <3>3, <4>2 DEF Touching
    <3> QED BY <3>2, <3>4, <3>5
  <2> QED BY <1>3, <2>1, FlatTouching
<1>7. Touching(d, {f.key})
  BY <1>4 DEF Touching
<1>8. Operations(f, ids, lifecycle, places) = FlattenSeq(c) \o d \o e /\ IsSeq(FlattenSeq(c))
  BY <1>3, OperationsAre, FlatSeq
<1> HIDE DEF c, d, e
<1>9. Touching(FlattenSeq(c) \o d, {f.key} \cup {f.key}) /\ IsSeq(FlattenSeq(c) \o d)
  BY <1>4, <1>6, <1>7, <1>8, TouchingJoin, JoinFacts
<1>10. Touching(FlattenSeq(c) \o d \o e, {f.key} \cup {f.key} \cup {f.key})
  BY <1>5, <1>9, TouchingJoin
<1>11. {f.key} \cup {f.key} \cup {f.key} = {f.key}
  OBVIOUS
<1> QED BY <1>8, <1>10, <1>11
(* The fields of a group, reconciled.                                      *)
NativesFor(fields, ordered, k) == Natives(fields[k].key, ordered)
PlacesFor(fields, ordered, k) ==
    [j \in DOMAIN fields[k].from |->
        IF ordered THEN LastOrder(NativesFor(fields, ordered, k), fields[k]) ELSE k]
FieldOps(fields, ordered, lifecycle) ==
    [k \in DOMAIN fields |->
        Operations(fields[k], NativesFor(fields, ordered, k), lifecycle, PlacesFor(fields, ordered, k))]
NewOps(fields, ordered, lifecycle) == FlattenSeq(FieldOps(fields, ordered, lifecycle))
FieldsFit(fields, ordered, lifecycle) ==
    /\ IsSeq(fields)
    /\ \A k \in 1 .. Len(fields) :
          /\ IsSeq(fields[k].values)
          /\ Fits(fields[k], NativesFor(fields, ordered, k), lifecycle, PlacesFor(fields, ordered, k))
    /\ \A j, k \in 1 .. Len(fields) : fields[j].key = fields[k].key => j = k
FieldKeys(fields) == {fields[k].key : k \in 1 .. Len(fields)}
FieldTask(fields, ordered, lifecycle, k) ==
    Task(fields[k], lifecycle, NativesFor(fields, ordered, k), PlacesFor(fields, ordered, k))

(* Those of several fields under different keys do all their tasks and     *)
(* touch those keys.                                                       *)
LEMMA FieldsDo ==
  ASSUME WellFormed(source), NEW fields, NEW ordered \in BOOLEAN, NEW lifecycle \in BOOLEAN,
         FieldsFit(fields, ordered, lifecycle)
  PROVE  LET new == NewOps(fields, ordered, lifecycle)
             S == {FieldTask(fields, ordered, lifecycle, k) : k \in 1 .. Len(fields)}
         IN  /\ AllSeqs(FieldOps(fields, ordered, lifecycle)) /\ IsSeq(new)
             /\ Len(FieldOps(fields, ordered, lifecycle)) = Len(fields)
             /\ DoesAll(new, S) /\ KeysIn(S) = FieldKeys(fields)
             /\ Touching(new, FieldKeys(fields))
<1> DEFINE c == FieldOps(fields, ordered, lifecycle)
           I(k) == NativesFor(fields, ordered, k)
           P(k) == PlacesFor(fields, ordered, k)
           T == [k \in 1 .. Len(fields) |-> {FieldTask(fields, ordered, lifecycle, k)}]
           S == {FieldTask(fields, ordered, lifecycle, k) : k \in 1 .. Len(fields)}
<1>1. /\ IsSeq(fields) /\ DOMAIN fields = 1 .. Len(fields) /\ Len(fields) \in Nat
      /\ \A k \in 1 .. Len(fields) : Fits(fields[k], I(k), lifecycle, P(k))
      /\ \A j, k \in 1 .. Len(fields) : fields[j].key = fields[k].key => j = k
  BY SeqFacts DEF FieldsFit
<1>2. /\ DOMAIN c = DOMAIN fields /\ c = [n \in DOMAIN fields |-> c[n]]
      /\ \A k \in DOMAIN fields : c[k] = Operations(fields[k], I(k), lifecycle, P(k))
  BY DEF FieldOps
<1>3. \A k \in 1 .. Len(fields) : T[k] = {FieldTask(fields, ordered, lifecycle, k)}
  OBVIOUS
<1> HIDE DEF c, I, P, T
<1>4. IsSeq(c) /\ Len(c) = Len(fields)
  BY <1>1, <1>2, MadeOf
<1>5. ASSUME NEW k \in 1 .. Len(fields)
      PROVE  /\ IsSeq(c[k]) /\ DoesAll(c[k], {FieldTask(fields, ordered, lifecycle, k)})
             /\ KeysIn({FieldTask(fields, ordered, lifecycle, k)}) = {fields[k].key}
             /\ Touching(c[k], {fields[k].key})
  <2>1. Fits(fields[k], I(k), lifecycle, P(k)) /\ c[k] = Operations(fields[k], I(k), lifecycle, P(k))
    BY <1>1, <1>2
  <2>2. Does(c[k], fields[k], lifecycle, I(k), P(k))
    BY <2>1, OperationsDo
  <2>3. Touching(c[k], {fields[k].key})
    BY <2>1, OperationsTouch
  <2>4. DoesAll(c[k], {Task(fields[k], lifecycle, I(k), P(k))})
    BY <2>2, OneDoes
  <2>5. FieldTask(fields, ordered, lifecycle, k) = Task(fields[k], lifecycle, I(k), P(k))
    BY DEF FieldTask, I, P
  <2>6. IsSeq(c[k])
    BY <2>2 DEF Does
  <2>7. \A t : t = Task(fields[k], lifecycle, I(k), P(k)) => t.field.key = fields[k].key
    BY DEF Task
  <2>8. KeysIn({FieldTask(fields, ordered, lifecycle, k)}) = {FieldTask(fields, ordered, lifecycle, k).field.key}
    BY DEF KeysIn
  <2> QED BY <2>3, <2>4, <2>5, <2>6, <2>7, <2>8
<1>6. AllSeqs(c)
  BY <1>4, <1>5 DEF AllSeqs
<1>7. /\ \A n \in 1 .. Len(c) : DoesAll(c[n], T[n])
      /\ \A n, k \in 1 .. Len(c) : n # k => KeysIn(T[n]) \cap KeysIn(T[k]) = {}
  <2>1. \A n \in 1 .. Len(fields) : DoesAll(c[n], T[n]) /\ KeysIn(T[n]) = {fields[n].key}
    BY <1>3, <1>5
  <2>2. \A n, k \in 1 .. Len(fields) : n # k => {fields[n].key} \cap {fields[k].key} = {}
    BY <1>1
  <2> QED BY <1>4, <2>1, <2>2
<1>8. \A t : t \in S <=> \E n \in 1 .. Len(c) : t \in T[n]
  BY <1>3, <1>4
<1> HIDE DEF S
<1>9. DoesAll(FlattenSeq(c), S)
  BY <1>6, <1>7, <1>8, FlatInto
<1>10. KeysIn(S) = FieldKeys(fields)
  <2>1. \A k \in 1 .. Len(fields) : FieldTask(fields, ordered, lifecycle, k).field.key = fields[k].key
    BY DEF FieldTask, Task
  <2> QED BY <2>1 DEF KeysIn, FieldKeys, S
<1>11. \A n \in 1 .. Len(c) : Touching(c[n], FieldKeys(fields))
  BY <1>4, <1>5 DEF Touching, FieldKeys
<1>12. Touching(FlattenSeq(c), FieldKeys(fields))
  BY <1>6, <1>11, FlatTouching
<1>13. NewOps(fields, ordered, lifecycle) = FlattenSeq(c) /\ IsSeq(FlattenSeq(c))
  BY <1>6, FlatSeq DEF NewOps, c
<1> QED BY <1>4, <1>6, <1>9, <1>10, <1>12, <1>13 DEF c, S

(* Where the values are there and the edits are on record, nothing is due. *)
ExactField(fields, ordered, lifecycle, k) ==
    /\ Len(NativesFor(fields, ordered, k)) = Len(fields[k].values)
    /\ \A j \in DOMAIN NativesFor(fields, ordered, k) :
          Same(NativesFor(fields, ordered, k)[j], fields[k].values[j], lifecycle)
DueField(fields, ordered, k) ==
    \/ NativesFor(fields, ordered, k) = <<>> /\ fields[k].values = <<>>
       /\ ~HasDeleteIntent(fields[k].key)
    \/ \E j \in DOMAIN NativesFor(fields, ordered, k) \cap DOMAIN fields[k].values :
          /\ ~source[NativesFor(fields, ordered, k)[j]].dirty
          /\ Same(NativesFor(fields, ordered, k)[j], fields[k].values[j], TRUE)

(* Nothing is done for a field that is as it should be.                    *)
LEMMA ExactNothing ==
  ASSUME WellFormed(source), NEW fields, NEW ordered \in BOOLEAN, NEW lifecycle \in BOOLEAN,
         FieldsFit(fields, ordered, lifecycle), NEW k \in 1 .. Len(fields),
         ExactField(fields, ordered, lifecycle, k), lifecycle => ~DueField(fields, ordered, k)
  PROVE  FieldOps(fields, ordered, lifecycle)[k] = <<>>
<1> DEFINE f == fields[k]
           ids == NativesFor(fields, ordered, k)
           places == PlacesFor(fields, ordered, k)
           c == Changes(f, ids, lifecycle)
           d == Additions(f, ids, places)
           e == OpIntent(f, ids, lifecycle, places)
<1>1. /\ IsSeq(f.values) /\ DOMAIN f.values = 1 .. Len(f.values) /\ Len(f.values) \in Nat
      /\ DOMAIN fields = 1 .. Len(fields)
  BY SeqFacts DEF FieldsFit
<1>2. /\ IsSeq(ids) /\ DOMAIN ids = 1 .. Len(ids)
      /\ \A j \in 1 .. Len(ids) : ids[j] \in 1 .. Len(source)
  BY NativesFacts DEF NativesFor
<1>3. Len(ids) = Len(f.values) /\ \A j \in 1 .. Len(ids) : Same(ids[j], f.values[j], lifecycle)
  BY <1>2 DEF ExactField
<1>4. lifecycle => /\ ~(ids = <<>> /\ f.values = <<>> /\ ~HasDeleteIntent(f.key))
                   /\ \A j \in 1 .. Len(ids) : source[ids[j]].dirty
  <2> SUFFICES ASSUME lifecycle
               PROVE  /\ ~(ids = <<>> /\ f.values = <<>> /\ ~HasDeleteIntent(f.key))
                      /\ \A j \in 1 .. Len(ids) : source[ids[j]].dirty
    OBVIOUS
  <2>1. ~DueField(fields, ordered, k)
    OBVIOUS
  <2>2. \A j \in 1 .. Len(ids) : j \in DOMAIN ids \cap DOMAIN f.values /\ Same(ids[j], f.values[j], TRUE)
    <3>1. \A j \in 1 .. Len(ids) : Same(ids[j], f.values[j], TRUE)
      BY <1>3 DEF Same
    <3> QED BY <1>1, <1>2, <1>3, <3>1
  <2> QED BY <2>1, <2>2 DEF DueField
<1>5. FieldOps(fields, ordered, lifecycle)[k] = FlattenSeq(c) \o d \o e
  BY <1>1, OperationsAre DEF FieldOps
<1>6. AllSeqs(c) /\ Len(c) = Len(ids) /\ \A j \in 1 .. Len(ids) : c[j] = OpAt(f, ids, lifecycle, j)
  BY <1>1, <1>2, ChangesAre
<1> HIDE DEF c, ids, places, f
<1>7. \A j \in 1 .. Len(ids) : OpAt(f, ids, lifecycle, j) = <<>>
  BY <1>1, <1>3, <1>4 DEF OpAt
<1>8. FlattenSeq(c) = <<>>
  BY <1>6, <1>7, FlatNone
<1>9. d = <<>>
  <2>1. KeptOf(f, ids) = Len(f.values)
    BY <1>1, <1>3 DEF KeptOf, Lesser
  <2> QED BY <1>1, <2>1 DEF Additions
<1>10. e = <<>>
  BY <1>4 DEF OpIntent
<1>11. <<>> \o <<>> \o <<>> = <<>>
  OBVIOUS
<1> QED BY <1>5, <1>8, <1>9, <1>10, <1>11
(* A group either fails the call, or leaves its natives alone, or records  *)
(* its operations.                                                         *)
Reports == {"translated", "added", "updated", "removed"}
Stays(next) == Goes(next) /\ UNCHANGED <<call, out, ops, owned, utf8, status>>
Records(fields, new, wide, next) ==
    /\ ops' = ops \o new /\ owned' = owned \cup Owns(fields)
    /\ utf8' = IF wide = 0 THEN utf8 ELSE wide
    /\ Goes(next) /\ UNCHANGED <<call, out, status>>
Fails == \E s : s # "OK" /\ Fail(s)

(* To reconcile some fields fails, or finds them preserved, or records     *)
(* their operations.                                                       *)
LEMMA ReconcileDoes ==
  ASSUME WellFormed(source), IsSeq(ops),
         NEW fields, NEW ordered \in BOOLEAN, NEW lifecycle \in BOOLEAN, NEW readNow, NEW wide, NEW next,
         FieldsFit(fields, ordered, lifecycle),
         Reconcile(fields, ordered, lifecycle, readNow, wide, next)
  PROVE  /\ \/ Fails
            \/ Preserves(fields) /\ Stays(next)
            \/ ~Preserves(fields) /\ Records(fields, NewOps(fields, ordered, lifecycle), wide, next)
         /\ DOMAIN count' = DOMAIN count
<1> DEFINE exact == \A k \in DOMAIN fields : ExactField(fields, ordered, lifecycle, k)
           due == lifecycle /\ \E k \in DOMAIN fields : DueField(fields, ordered, k)
           new == NewOps(fields, ordered, lifecycle)
           unchanged == exact /\ ~due /\ ~(lifecycle /\ opts.conflict = "PRESERVE")
           full == ~unchanged /\ \/ Len(ops) + Len(new) > opts.maxOps
                                 \/ Counted(new).added > opts.maxAdded
           clash == HasNatives(fields) /\ ~exact /\ opts.conflict = "FAIL"
           more == IF unchanged THEN [count EXCEPT !.unchanged = @ + 1] ELSE Counted(new)
           some == [count EXCEPT !.preserved = @ + 1]
<1>1. IF Preserves(fields)
      THEN count' = some /\ texts' = texts + readNow /\ Goes(next)
           /\ UNCHANGED <<call, out, ops, owned, utf8, status>>
      ELSE IF clash THEN Fail("NATIVE_CONFLICT")
      ELSE IF full THEN Fail("LIMIT")
      ELSE /\ ops' = IF unchanged THEN ops ELSE ops \o new
           /\ count' = more
           /\ owned' = owned \cup Owns(fields)
           /\ utf8' = IF wide = 0 THEN utf8 ELSE wide
           /\ texts' = texts + readNow /\ Goes(next)
           /\ UNCHANGED <<call, out, status>>
  BY DEF Reconcile, ExactField, DueField, NativesFor, PlacesFor, FieldOps, NewOps
<1>2. DOMAIN more = DOMAIN count /\ DOMAIN some = DOMAIN count
  BY DEF Counted
<1>3. IsSeq(new) /\ AllSeqs(FieldOps(fields, ordered, lifecycle))
      /\ Len(FieldOps(fields, ordered, lifecycle)) = Len(fields)
  BY FieldsDo
<1>4. ASSUME unchanged PROVE ops = ops \o new
  <2>1. DOMAIN fields = 1 .. Len(fields)
    BY SeqFacts DEF FieldsFit
  <2>2. \A k \in 1 .. Len(fields) : FieldOps(fields, ordered, lifecycle)[k] = <<>>
    <3> SUFFICES ASSUME NEW k \in 1 .. Len(fields) PROVE FieldOps(fields, ordered, lifecycle)[k] = <<>>
      OBVIOUS
    <3>1. ExactField(fields, ordered, lifecycle, k) /\ (lifecycle => ~DueField(fields, ordered, k))
      BY <1>4, <2>1
    <3> QED BY <3>1, ExactNothing
  <2>3. new = <<>>
    BY <1>3, <2>2, FlatNone DEF NewOps
  <2>4. ops \o <<>> = ops
    <3>1. IsSeq(<<>>)
      BY DEF IsSeq
    <3> QED BY <3>1, JoinFacts
  <2> QED BY <2>3, <2>4
<1>5. \A s : Fail(s) => count' = count
  BY DEF Fail
<1>6. (Fail("NATIVE_CONFLICT") => Fails) /\ (Fail("LIMIT") => Fails)
  <2>1. "NATIVE_CONFLICT" # "OK" /\ "LIMIT" # "OK"
    OBVIOUS
  <2> QED BY <2>1 DEF Fails
<1> HIDE DEF unchanged, full, clash, more, some, new
<1>7. CASE Preserves(fields)
  BY <1>1, <1>2, <1>7 DEF Stays
<1>8. CASE ~Preserves(fields) /\ (clash \/ full)
  BY <1>1, <1>5, <1>6, <1>8
<1>9. CASE ~Preserves(fields) /\ ~clash /\ ~full
  BY <1>1, <1>2, <1>4, <1>9 DEF Records, new
<1> QED BY <1>7, <1>8, <1>9
(* The groups of omc_translate_xmp, by their keys.                          *)
OwnerOf(key) ==
    IF key \in {"exif:Digitized", "exif:OffsetDigitized", "exif:SubSecDigitized"} THEN 1
    ELSE IF key \in {"2:62", "2:63"} THEN 2
    ELSE IF key \in {"2:55", "2:60"} THEN 3
    ELSE IF key \in {"exif:Original", "exif:OffsetOriginal", "exif:SubSecOriginal"} THEN 4
    ELSE IF key \in {"ifd0:DateTime", "exif:OffsetTime", "exif:SubSecTime"} THEN 5
    ELSE IF key \in {"exif:Make"} THEN 6
    ELSE IF key \in {"exif:Model"} THEN 7
    ELSE IF key \in {"exif:Software"} THEN 8
    ELSE IF key \in {"exif:ExposureTime"} THEN 9
    ELSE IF key \in {"exif:FNumber"} THEN 10
    ELSE IF key \in {"exif:ISO"} THEN 11
    ELSE IF key \in {"exif:FocalLength"} THEN 12
    ELSE IF key \in {"exif:ExposureBias"} THEN 13
    ELSE IF key \in {"2:5"} THEN 14
    ELSE IF key \in {"2:120"} THEN 15
    ELSE IF key \in {"2:80"} THEN 16
    ELSE IF key \in {"2:25"} THEN 17
    ELSE IF key \in {"2:116"} THEN 18
    ELSE IF key \in {"2:110"} THEN 19
    ELSE IF key \in {"2:115"} THEN 20
    ELSE IF key \in {"exif:Orientation"} THEN 21
    ELSE 22
SlotOf(key) ==
    IF key \in {"exif:OffsetDigitized", "2:63", "2:60", "exif:OffsetOriginal", "exif:OffsetTime", "ifd0:Height"} THEN 2
    ELSE IF key \in {"exif:SubSecDigitized", "exif:SubSecOriginal", "exif:SubSecTime", "exif:Width"} THEN 3
    ELSE IF key = "exif:Height" THEN 4 ELSE 1
OwnKeys(keys, n) ==
    /\ IsSeq(keys)
    /\ \A k \in 1 .. Len(keys) : OwnerOf(keys[k]) = n /\ SlotOf(keys[k]) = k /\ keys[k] # Marker
GoodMap(g, n) ==
    /\ OwnKeys(g.keys, n) /\ g.kind \in {"date", "text", "capture", "geometry"}
    /\ g.kind # "geometry" => IsSeq(g.props) /\ Len(g.props) # 0
    /\ g.kind = "date" => /\ g.exif \in BOOLEAN /\ g.lifecycle \in BOOLEAN
                          /\ Len(g.keys) = IF g.exif THEN 3 ELSE 2
    /\ g.kind = "text" => Len(g.keys) = 1 /\ g.indexed \in BOOLEAN
    /\ g.kind = "capture" => Len(g.keys) = 1
    /\ g.kind = "geometry" => IsSeq(g.sides) /\ Len(g.sides) \in {1, 2}
OwnKey(key, n, k) == OwnerOf(key) = n /\ SlotOf(key) = k /\ key # Marker

(* Three elements are a sequence.                                          *)
LEMMA ThreeIsSeq ==
  ASSUME NEW a, NEW b, NEW c
  PROVE  LET s == <<a, b, c>> IN IsSeq(s) /\ Len(s) = 3 /\ s[1] = a /\ s[2] = b /\ s[3] = c
<1>1. <<a, b, c>> \in Seq({a, b, c})
  OBVIOUS
<1> QED BY <1>1 DEF IsSeq

(* Four are, too.                                                          *)
LEMMA FourIsSeq ==
  ASSUME NEW a, NEW b, NEW c, NEW d
  PROVE  LET s == <<a, b, c, d>> IN IsSeq(s) /\ Len(s) = 4 /\ s[1] = a /\ s[2] = b /\ s[3] = c /\ s[4] = d
<1>1. <<a, b, c, d>> \in Seq({a, b, c, d})
  OBVIOUS
<1> QED BY <1>1 DEF IsSeq

(* One key of a group.                                                     *)
LEMMA OneKey ==
  ASSUME NEW n, NEW a, OwnKey(a, n, 1)
  PROVE  OwnKeys(<<a>>, n) /\ Len(<<a>>) = 1
BY OneIsSeq DEF OwnKeys, OwnKey

(* Two of them.                                                            *)
LEMMA TwoKeys ==
  ASSUME NEW n, NEW a, OwnKey(a, n, 1), NEW b, OwnKey(b, n, 2)
  PROVE  OwnKeys(<<a, b>>, n) /\ Len(<<a, b>>) = 2
<1>1. IsSeq(<<a, b>>) /\ Len(<<a, b>>) = 2 /\ \A k \in 1 .. 2 : k = 1 \/ k = 2
  BY PairIsSeq
<1> QED BY <1>1 DEF OwnKeys, OwnKey

(* Three.                                                                  *)
LEMMA ThreeKeys ==
  ASSUME NEW n, NEW a, OwnKey(a, n, 1), NEW b, OwnKey(b, n, 2), NEW c, OwnKey(c, n, 3)
  PROVE  OwnKeys(<<a, b, c>>, n) /\ Len(<<a, b, c>>) = 3
<1>1. IsSeq(<<a, b, c>>) /\ Len(<<a, b, c>>) = 3 /\ \A k \in 1 .. 3 : k = 1 \/ k = 2 \/ k = 3
  BY ThreeIsSeq
<1> QED BY <1>1 DEF OwnKeys, OwnKey

(* Four.                                                                   *)
LEMMA FourKeys ==
  ASSUME NEW n, NEW a, OwnKey(a, n, 1), NEW b, OwnKey(b, n, 2), NEW c, OwnKey(c, n, 3),
         NEW d, OwnKey(d, n, 4)
  PROVE  OwnKeys(<<a, b, c, d>>, n) /\ Len(<<a, b, c, d>>) = 4
<1>1. IsSeq(<<a, b, c, d>>) /\ Len(<<a, b, c, d>>) = 4 /\ \A k \in 1 .. 4 : k = 1 \/ k = 2 \/ k = 3 \/ k = 4
  BY FourIsSeq
<1> QED BY <1>1 DEF OwnKeys, OwnKey

(* A date has two keys or three.                                           *)
LEMMA GoodDate ==
  ASSUME NEW n, NEW keys, OwnKeys(keys, n), NEW p, NEW lifecycle \in BOOLEAN
  PROVE  /\ Len(keys) = 3 => GoodMap(Date(p, TRUE, lifecycle, keys), n)
         /\ Len(keys) = 2 => GoodMap(Date(p, FALSE, lifecycle, keys), n)
BY OneIsSeq DEF GoodMap, Date

(* A text or a list has one.                                               *)
LEMMA GoodText ==
  ASSUME NEW n, NEW a, OwnKey(a, n, 1), NEW p, NEW exif
  PROVE  GoodMap(Text(p, exif, a), n) /\ GoodMap(Items(p, a), n)
BY OneIsSeq, OneKey DEF GoodMap, Text, Items

(* So has a setting of the capture.                                        *)
LEMMA GoodCapture ==
  ASSUME NEW n, NEW a, OwnKey(a, n, 1), NEW props, IsSeq(props), Len(props) # 0
  PROVE  GoodMap(Capture(props, a), n)
BY OneIsSeq, OneKey DEF GoodMap, Capture

(* The geometry has one or two sides.                                      *)
LEMMA GoodGeometry ==
  ASSUME NEW n, NEW keys, OwnKeys(keys, n), NEW sides, IsSeq(sides), Len(sides) \in {1, 2}
  PROVE  GoodMap([kind |-> "geometry", sides |-> sides, keys |-> keys], n)
BY DEF GoodMap

(* All groups of the table are good.                                       *)
LEMMA MappingTable == DOMAIN Mapping = 1 .. 22 /\ \A n \in 1 .. 22 : GoodMap(Mapping[n], n)
<1>0. DOMAIN Mapping = 1 .. 22
  BY DEF Mapping
<1>1. GoodMap(Mapping[1], 1)
  <2>1. Mapping[1] = Date("CreateDate", TRUE, TRUE, <<"exif:Digitized", "exif:OffsetDigitized", "exif:SubSecDigitized">>)
    BY DEF Mapping
  <2>2. OwnKey("exif:Digitized", 1, 1) /\ OwnKey("exif:OffsetDigitized", 1, 2) /\ OwnKey("exif:SubSecDigitized", 1, 3)
    BY DEF OwnKey, OwnerOf, SlotOf, Marker
  <2>3. OwnKeys(<<"exif:Digitized", "exif:OffsetDigitized", "exif:SubSecDigitized">>, 1) /\ Len(<<"exif:Digitized", "exif:OffsetDigitized", "exif:SubSecDigitized">>) = 3
    BY <2>2, ThreeKeys
  <2>4. TRUE \in BOOLEAN /\ FALSE \in BOOLEAN
    OBVIOUS
  <2> QED BY <2>1, <2>3, <2>4, GoodDate
<1>2. GoodMap(Mapping[2], 2)
  <2>1. Mapping[2] = Date("CreateDate", FALSE, FALSE, <<"2:62", "2:63">>)
    BY DEF Mapping
  <2>2. OwnKey("2:62", 2, 1) /\ OwnKey("2:63", 2, 2)
    BY DEF OwnKey, OwnerOf, SlotOf, Marker
  <2>3. OwnKeys(<<"2:62", "2:63">>, 2) /\ Len(<<"2:62", "2:63">>) = 2
    BY <2>2, TwoKeys
  <2>4. TRUE \in BOOLEAN /\ FALSE \in BOOLEAN
    OBVIOUS
  <2> QED BY <2>1, <2>3, <2>4, GoodDate
<1>3. GoodMap(Mapping[3], 3)
  <2>1. Mapping[3] = Date("DateCreated", FALSE, FALSE, <<"2:55", "2:60">>)
    BY DEF Mapping
  <2>2. OwnKey("2:55", 3, 1) /\ OwnKey("2:60", 3, 2)
    BY DEF OwnKey, OwnerOf, SlotOf, Marker
  <2>3. OwnKeys(<<"2:55", "2:60">>, 3) /\ Len(<<"2:55", "2:60">>) = 2
    BY <2>2, TwoKeys
  <2>4. TRUE \in BOOLEAN /\ FALSE \in BOOLEAN
    OBVIOUS
  <2> QED BY <2>1, <2>3, <2>4, GoodDate
<1>4. GoodMap(Mapping[4], 4)
  <2>1. Mapping[4] = Date("DateTimeOriginal", TRUE, TRUE, <<"exif:Original", "exif:OffsetOriginal", "exif:SubSecOriginal">>)
    BY DEF Mapping
  <2>2. OwnKey("exif:Original", 4, 1) /\ OwnKey("exif:OffsetOriginal", 4, 2) /\ OwnKey("exif:SubSecOriginal", 4, 3)
    BY DEF OwnKey, OwnerOf, SlotOf, Marker
  <2>3. OwnKeys(<<"exif:Original", "exif:OffsetOriginal", "exif:SubSecOriginal">>, 4) /\ Len(<<"exif:Original", "exif:OffsetOriginal", "exif:SubSecOriginal">>) = 3
    BY <2>2, ThreeKeys
  <2>4. TRUE \in BOOLEAN /\ FALSE \in BOOLEAN
    OBVIOUS
  <2> QED BY <2>1, <2>3, <2>4, GoodDate
<1>5. GoodMap(Mapping[5], 5)
  <2>1. Mapping[5] = Date("ModifyDate", TRUE, FALSE, <<"ifd0:DateTime", "exif:OffsetTime", "exif:SubSecTime">>)
    BY DEF Mapping
  <2>2. OwnKey("ifd0:DateTime", 5, 1) /\ OwnKey("exif:OffsetTime", 5, 2) /\ OwnKey("exif:SubSecTime", 5, 3)
    BY DEF OwnKey, OwnerOf, SlotOf, Marker
  <2>3. OwnKeys(<<"ifd0:DateTime", "exif:OffsetTime", "exif:SubSecTime">>, 5) /\ Len(<<"ifd0:DateTime", "exif:OffsetTime", "exif:SubSecTime">>) = 3
    BY <2>2, ThreeKeys
  <2>4. TRUE \in BOOLEAN /\ FALSE \in BOOLEAN
    OBVIOUS
  <2> QED BY <2>1, <2>3, <2>4, GoodDate
<1>6. GoodMap(Mapping[6], 6)
  <2>1. Mapping[6] = Text("Make", TRUE, "exif:Make")
    BY DEF Mapping
  <2>2. OwnKey("exif:Make", 6, 1)
    BY DEF OwnKey, OwnerOf, SlotOf, Marker
  <2> QED BY <2>1, <2>2, GoodText
<1>7. GoodMap(Mapping[7], 7)
  <2>1. Mapping[7] = Text("Model", TRUE, "exif:Model")
    BY DEF Mapping
  <2>2. OwnKey("exif:Model", 7, 1)
    BY DEF OwnKey, OwnerOf, SlotOf, Marker
  <2> QED BY <2>1, <2>2, GoodText
<1>8. GoodMap(Mapping[8], 8)
  <2>1. Mapping[8] = Text("CreatorTool", TRUE, "exif:Software")
    BY DEF Mapping
  <2>2. OwnKey("exif:Software", 8, 1)
    BY DEF OwnKey, OwnerOf, SlotOf, Marker
  <2> QED BY <2>1, <2>2, GoodText
<1>9. GoodMap(Mapping[9], 9)
  <2>1. Mapping[9] = Capture(<<"ExposureTime">>, "exif:ExposureTime")
    BY DEF Mapping
  <2>2. OwnKey("exif:ExposureTime", 9, 1)
    BY DEF OwnKey, OwnerOf, SlotOf, Marker
  <2>3. IsSeq(<<"ExposureTime">>) /\ Len(<<"ExposureTime">>) # 0
    BY OneIsSeq
  <2> QED BY <2>1, <2>2, <2>3, GoodCapture
<1>10. GoodMap(Mapping[10], 10)
  <2>1. Mapping[10] = Capture(<<"FNumber">>, "exif:FNumber")
    BY DEF Mapping
  <2>2. OwnKey("exif:FNumber", 10, 1)
    BY DEF OwnKey, OwnerOf, SlotOf, Marker
  <2>3. IsSeq(<<"FNumber">>) /\ Len(<<"FNumber">>) # 0
    BY OneIsSeq
  <2> QED BY <2>1, <2>2, <2>3, GoodCapture
<1>11. GoodMap(Mapping[11], 11)
  <2>1. Mapping[11] = Capture(<<"ISO", "ISOSpeedRatings", "ISOSpeedRatings[1]">>, "exif:ISO")
    BY DEF Mapping
  <2>2. OwnKey("exif:ISO", 11, 1)
    BY DEF OwnKey, OwnerOf, SlotOf, Marker
  <2>3. IsSeq(<<"ISO", "ISOSpeedRatings", "ISOSpeedRatings[1]">>) /\ Len(<<"ISO", "ISOSpeedRatings", "ISOSpeedRatings[1]">>) # 0
    BY ThreeIsSeq
  <2> QED BY <2>1, <2>2, <2>3, GoodCapture
<1>12. GoodMap(Mapping[12], 12)
  <2>1. Mapping[12] = Capture(<<"FocalLength">>, "exif:FocalLength")
    BY DEF Mapping
  <2>2. OwnKey("exif:FocalLength", 12, 1)
    BY DEF OwnKey, OwnerOf, SlotOf, Marker
  <2>3. IsSeq(<<"FocalLength">>) /\ Len(<<"FocalLength">>) # 0
    BY OneIsSeq
  <2> QED BY <2>1, <2>2, <2>3, GoodCapture
<1>13. GoodMap(Mapping[13], 13)
  <2>1. Mapping[13] = Capture(<<"ExposureCompensation", "ExposureBiasValue">>, "exif:ExposureBias")
    BY DEF Mapping
  <2>2. OwnKey("exif:ExposureBias", 13, 1)
    BY DEF OwnKey, OwnerOf, SlotOf, Marker
  <2>3. IsSeq(<<"ExposureCompensation", "ExposureBiasValue">>) /\ Len(<<"ExposureCompensation", "ExposureBiasValue">>) # 0
    BY PairIsSeq
  <2> QED BY <2>1, <2>2, <2>3, GoodCapture
<1>14. GoodMap(Mapping[14], 14)
  <2>1. Mapping[14] = Text("title", FALSE, "2:5")
    BY DEF Mapping
  <2>2. OwnKey("2:5", 14, 1)
    BY DEF OwnKey, OwnerOf, SlotOf, Marker
  <2> QED BY <2>1, <2>2, GoodText
<1>15. GoodMap(Mapping[15], 15)
  <2>1. Mapping[15] = Text("description", FALSE, "2:120")
    BY DEF Mapping
  <2>2. OwnKey("2:120", 15, 1)
    BY DEF OwnKey, OwnerOf, SlotOf, Marker
  <2> QED BY <2>1, <2>2, GoodText
<1>16. GoodMap(Mapping[16], 16)
  <2>1. Mapping[16] = Items("creator", "2:80")
    BY DEF Mapping
  <2>2. OwnKey("2:80", 16, 1)
    BY DEF OwnKey, OwnerOf, SlotOf, Marker
  <2> QED BY <2>1, <2>2, GoodText
<1>17. GoodMap(Mapping[17], 17)
  <2>1. Mapping[17] = Items("subject", "2:25")
    BY DEF Mapping
  <2>2. OwnKey("2:25", 17, 1)
    BY DEF OwnKey, OwnerOf, SlotOf, Marker
  <2> QED BY <2>1, <2>2, GoodText
<1>18. GoodMap(Mapping[18], 18)
  <2>1. Mapping[18] = Text("rights", FALSE, "2:116")
    BY DEF Mapping
  <2>2. OwnKey("2:116", 18, 1)
    BY DEF OwnKey, OwnerOf, SlotOf, Marker
  <2> QED BY <2>1, <2>2, GoodText
<1>19. GoodMap(Mapping[19], 19)
  <2>1. Mapping[19] = Text("Credit", FALSE, "2:110")
    BY DEF Mapping
  <2>2. OwnKey("2:110", 19, 1)
    BY DEF OwnKey, OwnerOf, SlotOf, Marker
  <2> QED BY <2>1, <2>2, GoodText
<1>20. GoodMap(Mapping[20], 20)
  <2>1. Mapping[20] = Text("Source", FALSE, "2:115")
    BY DEF Mapping
  <2>2. OwnKey("2:115", 20, 1)
    BY DEF OwnKey, OwnerOf, SlotOf, Marker
  <2> QED BY <2>1, <2>2, GoodText
<1>21. GoodMap(Mapping[21], 21)
  <2>1. Mapping[21] = [kind |-> "geometry", sides |-> <<<<"Orientation">>>>, keys |-> <<"exif:Orientation">>]
    BY DEF Mapping
  <2>2. OwnKey("exif:Orientation", 21, 1)
    BY DEF OwnKey, OwnerOf, SlotOf, Marker
  <2>3. OwnKeys(<<"exif:Orientation">>, 21)
    BY <2>2, OneKey
  <2>4. IsSeq(<<<<"Orientation">>>>) /\ Len(<<<<"Orientation">>>>) \in {1, 2}
    BY OneIsSeq, PairIsSeq
  <2> QED BY <2>1, <2>3, <2>4, GoodGeometry
<1>22. GoodMap(Mapping[22], 22)
  <2>1. Mapping[22] = [kind |-> "geometry", sides |-> <<Widths, Heights>>, keys |-> <<"ifd0:Width", "ifd0:Height", "exif:Width", "exif:Height">>]
    BY DEF Mapping
  <2>2. OwnKey("ifd0:Width", 22, 1) /\ OwnKey("ifd0:Height", 22, 2) /\ OwnKey("exif:Width", 22, 3) /\ OwnKey("exif:Height", 22, 4)
    BY DEF OwnKey, OwnerOf, SlotOf, Marker
  <2>3. OwnKeys(<<"ifd0:Width", "ifd0:Height", "exif:Width", "exif:Height">>, 22)
    BY <2>2, FourKeys
  <2>4. IsSeq(<<Widths, Heights>>) /\ Len(<<Widths, Heights>>) \in {1, 2}
    BY OneIsSeq, PairIsSeq
  <2> QED BY <2>1, <2>3, <2>4, GoodGeometry
<1>30. \A n \in 1 .. 22 : n \in {1, 2, 3, 4, 5, 6, 7, 8, 9, 10, 11, 12, 13, 14, 15, 16, 17, 18, 19, 20, 21, 22}
  OBVIOUS
<1> HIDE DEF Mapping
<1> QED BY <1>0, <1>30, <1>1, <1>2, <1>3, <1>4, <1>5, <1>6, <1>7, <1>8, <1>9, <1>10, <1>11, <1>12, <1>13, <1>14, <1>15, <1>16, <1>17, <1>18, <1>19, <1>20, <1>21, <1>22

(* No key is of two groups, or twice in one.                               *)
LEMMA MappingApart ==
  ASSUME NEW g \in DOMAIN Mapping, NEW h \in DOMAIN Mapping
  PROVE  /\ g # h => KeysOf(Mapping[g]) \cap KeysOf(Mapping[h]) = {}
         /\ Marker \notin KeysOf(Mapping[g])
         /\ \A j, k \in 1 .. Len(Mapping[g].keys) : Mapping[g].keys[j] = Mapping[g].keys[k] => j = k
<1>1. OwnKeys(Mapping[g].keys, g) /\ OwnKeys(Mapping[h].keys, h)
  BY MappingTable DEF GoodMap
<1>2. DOMAIN Mapping[g].keys = 1 .. Len(Mapping[g].keys) /\ DOMAIN Mapping[h].keys = 1 .. Len(Mapping[h].keys)
  BY <1>1, SeqFacts DEF OwnKeys
<1>3. (\A x \in KeysOf(Mapping[g]) : OwnerOf(x) = g /\ x # Marker) /\ (\A x \in KeysOf(Mapping[h]) : OwnerOf(x) = h)
  BY <1>1, <1>2 DEF OwnKeys, KeysOf, Range
<1> QED BY <1>1, <1>3 DEF OwnKeys
(* Fields with no more than one value each fit.                            *)
Short(s) == IsSeq(s) /\ Len(s) <= 1
Sourced(fields, lifecycle) ==
    \A k \in 1 .. Len(fields) :
        /\ Short(fields[k].values)
        /\ lifecycle \/ Len(fields[k].values) = 1
              => 1 \in DOMAIN fields[k].from /\ fields[k].from[1] \in Id
Keyed(fields, keys) ==
    /\ IsSeq(fields) /\ Len(fields) = Len(keys)
    /\ \A k \in 1 .. Len(keys) : fields[k].key = keys[k]

(* Lists of at most one element.                                           *)
LEMMA Shorts == Short(<<>>) /\ \A x : Short(<<x>>) /\ Short(IF x = "" THEN <<>> ELSE <<x>>)
<1>1. Short(<<>>)
  BY DEF Short, IsSeq
<1>2. ASSUME NEW x PROVE Short(<<x>>)
  <2>1. IsSeq(<<x>>) /\ Len(<<x>>) = 1
    BY OneIsSeq
  <2> QED BY <2>1 DEF Short
<1> QED BY <1>1, <1>2

(* Fields under the keys of a group, each with one value or none, fit.     *)
LEMMA KeyedFit ==
  ASSUME WellFormed(source), NEW n, NEW keys, OwnKeys(keys, n), NEW fields, Keyed(fields, keys),
         NEW lifecycle \in BOOLEAN, Sourced(fields, lifecycle)
  PROVE  FieldsFit(fields, FALSE, lifecycle) /\ FieldKeys(fields) = Range(keys)
<1>1. /\ IsSeq(fields) /\ Len(fields) = Len(keys) /\ DOMAIN keys = 1 .. Len(keys) /\ Len(keys) \in Nat
      /\ \A k \in 1 .. Len(keys) : fields[k].key = keys[k]
      /\ \A j, k \in 1 .. Len(keys) : keys[j] = keys[k] => j = k
  BY SeqFacts DEF Keyed, OwnKeys
<1>2. ASSUME NEW k \in 1 .. Len(fields)
      PROVE  /\ IsSeq(fields[k].values)
             /\ Fits(fields[k], NativesFor(fields, FALSE, k), lifecycle, PlacesFor(fields, FALSE, k))
  <2> DEFINE f == fields[k]
             places == PlacesFor(fields, FALSE, k)
  <2>1. /\ IsSeq(f.values) /\ Len(f.values) <= 1
        /\ lifecycle \/ Len(f.values) = 1 => 1 \in DOMAIN f.from /\ f.from[1] \in Id
    BY DEF Sourced, Short
  <2>2. 1 \in DOMAIN f.from => places[1] \in Nat
    BY <1>1 DEF PlacesFor
  <2> HIDE DEF f, places
  <2>3. lifecycle \/ Len(f.values) = 1 => places[1] \in Nat /\ f.from[1] \in Id
    BY <2>1, <2>2
  <2>4. FALSE \in BOOLEAN
    OBVIOUS
  <2>5. Fits(f, Natives(f.key, FALSE), lifecycle, places)
    BY <2>1, <2>3, <2>4, SmallFits
  <2> QED BY <2>1, <2>5 DEF f, places, NativesFor
<1>5. \A j, k \in 1 .. Len(fields) : fields[j].key = fields[k].key => j = k
  BY <1>1
<1>3. FieldKeys(fields) = Range(keys)
  BY <1>1 DEF FieldKeys, Range
<1> QED BY <1>1, <1>2, <1>3, <1>5 DEF FieldsFit

(* A property is found once, or the call fails.                            *)
LEMMA SingleFacts ==
  ASSUME WellFormed(source), NEW g, IsSeq(g.props), Len(g.props) # 0, FindStatus(g) = "OK"
  PROVE  LET s == Single(g)
         IN  /\ IsSeq(s) /\ Len(s) \in Nat /\ Len(s) <= 1 /\ DOMAIN s = 1 .. Len(s)
             /\ \A j \in 1 .. Len(s) : s[j] \in Id
             /\ s # <<>> => Len(s) = 1 /\ s[1] \in Id
             /\ Range(s) \subseteq Id /\ IsFiniteSet(Range(s)) /\ Cardinality(Range(s)) <= 1
<1> DEFINE X == Found(Range(g.props), FALSE)
           N == Len(g.props)
           upto(k) == Found(Range(SubSeq(g.props, 1, k)), FALSE)
           many == {k \in DOMAIN g.props : Cardinality(upto(k)) > 1}
<1>1. X \subseteq Id /\ IsFiniteSet(X)
  <2>1. X \subseteq Id
    BY DEF Found
  <2> QED BY <2>1, StoreFacts DEF Id
<1>2. Cardinality(X) <= 1 /\ Cardinality(X) \in Nat
  <2>1. many = {}
    BY DEF FindStatus
  <2>2. N \in Nat /\ DOMAIN g.props = 1 .. N /\ g.props = [j \in 1 .. N |-> g.props[j]]
    BY SeqFacts
  <2>3. SubSeq(g.props, 1, N) = g.props
    BY <2>2
  <2>4. upto(N) = X
    BY <2>3
  <2>5. ~(Cardinality(upto(N)) > 1)
    <3>1. N \in DOMAIN g.props
      BY <2>2
    <3> HIDE DEF upto, N
    <3> QED BY <2>1, <3>1
  <2>6. Cardinality(X) \in Nat
    BY <1>1, FS_CardinalityType
  <2> HIDE DEF X, upto
  <2> QED BY <2>4, <2>5, <2>6
<1>3. Single(g) = Sorted(X)
  BY DEF Single
<1> HIDE DEF X
<1>4. LET s == Sorted(X)
      IN  /\ IsSeq(s) /\ Len(s) \in Nat /\ DOMAIN s = 1 .. Len(s) /\ Range(s) = X
          /\ \A j \in 1 .. Len(s) : s[j] \in X /\ s[j] \in Id
          /\ Len(s) = Cardinality(X)
  BY <1>1, SortedFacts
<1>5. \A s : IsSeq(s) /\ Len(s) = 0 => s = <<>>
  BY DEF IsSeq
<1> DEFINE s == Sorted(X)
<1> HIDE DEF s
<1>6. /\ IsSeq(s) /\ Len(s) \in Nat /\ DOMAIN s = 1 .. Len(s) /\ Len(s) <= 1
      /\ \A j \in 1 .. Len(s) : s[j] \in Id
  BY <1>2, <1>4 DEF s
<1>7. s # <<>> => Len(s) = 1 /\ s[1] \in Id
  BY <1>5, <1>6
<1>8. Range(s) = X
  BY <1>4 DEF s
<1> QED BY <1>1, <1>2, <1>3, <1>6, <1>7, <1>8 DEF s

(* The fields of a date.                                                   *)
LEMMA DateFit ==
  ASSUME WellFormed(source), NEW n \in DOMAIN Mapping, Mapping[n].kind = "date", NEW i \in Id
  PROVE  LET g == Mapping[n]
         IN  FieldsFit(DateFields(g, i), FALSE, g.lifecycle) /\ FieldKeys(DateFields(g, i)) = KeysOf(g)
<1> DEFINE g == Mapping[n]
           v == source[i].value
           parts == IF ~Live(i) THEN [k \in DOMAIN g.keys |-> <<>>]
                    ELSE IF g.exif THEN <<<<<<v[1], v[2]>>>>, Only(Offset(v[3])), Only(v[4])>>
                    ELSE <<<<<<v[1]>>>>, IF v[2] = "" THEN <<>> ELSE <<<<v[2], Offset(v[3])>>>>>>
           fields == DateFields(g, i)
<1>1. /\ OwnKeys(g.keys, n) /\ g.exif \in BOOLEAN /\ g.lifecycle \in BOOLEAN
      /\ Len(g.keys) = IF g.exif THEN 3 ELSE 2
  BY MappingTable DEF GoodMap
<1> HIDE DEF g
<1>2. IsSeq(g.keys) /\ DOMAIN g.keys = 1 .. Len(g.keys)
  BY <1>1, SeqFacts DEF OwnKeys
<1>5. \A x : Short(Only(x))
  BY Shorts DEF Only
<1>6. \A k \in 1 .. Len(g.keys) : Short(parts[k])
  <2> SUFFICES ASSUME NEW k \in 1 .. Len(g.keys) PROVE Short(parts[k])
    OBVIOUS
  <2>1. CASE ~Live(i)
    BY <1>2, <2>1, Shorts
  <2>2. CASE Live(i) /\ g.exif
    <3> DEFINE a == <<<<v[1], v[2]>>>>
               b == Only(Offset(v[3]))
               c == Only(v[4])
    <3>1. parts = <<a, b, c>> /\ (k = 1 \/ k = 2 \/ k = 3)
      BY <1>1, <2>2
    <3>2. Short(a) /\ Short(b) /\ Short(c)
      BY <1>5, Shorts
    <3> HIDE DEF parts, a, b, c
    <3> QED BY <3>1, <3>2
  <2>3. CASE Live(i) /\ ~g.exif
    <3> DEFINE a == <<<<v[1]>>>>
               t == <<v[2], Offset(v[3])>>
               b == IF v[2] = "" THEN <<>> ELSE <<t>>
    <3>1. parts = <<a, b>>
      BY <2>3
    <3>2. k = 1 \/ k = 2
      BY <1>1, <2>3
    <3> HIDE DEF t
    <3>3. Short(a) /\ Short(b)
      BY Shorts
    <3> HIDE DEF parts, a, b
    <3> QED BY <3>1, <3>2, <3>3
  <2> QED BY <2>1, <2>2, <2>3
<1>7. fields = [k \in DOMAIN g.keys |-> Field(g.keys[k], parts[k], <<i>>)]
  BY DEF DateFields
<1> HIDE DEF parts, fields
<1>8. /\ DOMAIN fields = DOMAIN g.keys /\ fields = [k \in DOMAIN g.keys |-> fields[k]]
      /\ \A k \in 1 .. Len(g.keys) :
            fields[k].key = g.keys[k] /\ fields[k].values = parts[k] /\ fields[k].from = <<i>>
  BY <1>2, <1>7 DEF Field
<1>9. Keyed(fields, g.keys)
  BY <1>2, <1>8, MadeOf DEF Keyed
<1>10. Sourced(fields, g.lifecycle)
  <2>1. Len(fields) = Len(g.keys)
    BY <1>9 DEF Keyed
  <2>2. 1 \in DOMAIN <<i>> /\ <<i>>[1] \in Id
    OBVIOUS
  <2> QED BY <1>6, <1>8, <2>1, <2>2 DEF Sourced
<1>11. FieldsFit(fields, FALSE, g.lifecycle) /\ FieldKeys(fields) = Range(g.keys)
  BY <1>1, <1>9, <1>10, KeyedFit
<1> QED BY <1>11 DEF fields, g, KeysOf

(* A group of one key.                                                     *)
LEMMA OneFit ==
  ASSUME WellFormed(source), NEW n \in DOMAIN Mapping, Len(Mapping[n].keys) = 1,
         NEW f, f.key = Mapping[n].keys[1], NEW lifecycle \in BOOLEAN, Sourced(<<f>>, lifecycle)
  PROVE  FieldsFit(<<f>>, FALSE, lifecycle) /\ FieldKeys(<<f>>) = KeysOf(Mapping[n])
<1>1. OwnKeys(Mapping[n].keys, n)
  BY MappingTable DEF GoodMap
<1>2. IsSeq(<<f>>) /\ Len(<<f>>) = 1 /\ <<f>>[1] = f
  BY OneIsSeq
<1>3. Keyed(<<f>>, Mapping[n].keys)
  BY <1>2 DEF Keyed
<1> QED BY <1>1, <1>3, KeyedFit DEF KeysOf

(* Those of a setting of the capture.                                      *)
LEMMA CaptureFit ==
  ASSUME WellFormed(source), NEW n \in DOMAIN Mapping, Mapping[n].kind = "capture", NEW i \in Id
  PROVE  LET g == Mapping[n]
         IN  FieldsFit(CaptureFields(g, i), FALSE, FALSE) /\ FieldKeys(CaptureFields(g, i)) = KeysOf(g)
<1> DEFINE g == Mapping[n]
           f == Field(g.keys[1], IF Live(i) THEN <<source[i].value>> ELSE <<>>, <<i>>)
<1>1. Len(g.keys) = 1
  BY MappingTable DEF GoodMap
<1>2. CaptureFields(g, i) = <<f>>
  BY DEF CaptureFields
<1>3. f.key = g.keys[1] /\ f.from = <<i>> /\ (f.values = <<source[i].value>> \/ f.values = <<>>)
  BY DEF Field
<1> HIDE DEF f, g
<1>4. Short(f.values)
  BY <1>3, Shorts
<1>5. Sourced(<<f>>, FALSE)
  <2>1. Len(<<f>>) = 1 /\ <<f>>[1] = f /\ 1 \in DOMAIN <<i>> /\ <<i>>[1] \in Id
    OBVIOUS
  <2> QED BY <1>3, <1>4, <2>1 DEF Sourced
<1>6. FALSE \in BOOLEAN
  OBVIOUS
<1>7. FieldsFit(<<f>>, FALSE, FALSE) /\ FieldKeys(<<f>>) = KeysOf(g)
  BY <1>1, <1>3, <1>5, <1>6, OneFit DEF g
<1> QED BY <1>2, <1>7 DEF g
(* Texts: one value, or one for each item in the order of the items.       *)
TextFound(g) ==
    /\ g.indexed \in BOOLEAN
    /\ ~g.indexed => IsSeq(g.props) /\ Len(g.props) # 0 /\ FindStatus(g) = "OK"

(* The sources of a text that was found: one live entry at most, unless it *)
(* is a list.                                                              *)
LEMMA TextIdsFacts ==
  ASSUME WellFormed(source), NEW g, TextFound(g)
  PROVE  LET s == TextIds(g)
             live == {i \in Range(s) : Live(i)}
         IN  /\ IsSeq(s) /\ Len(s) \in Nat /\ DOMAIN s = 1 .. Len(s)
             /\ \A j \in 1 .. Len(s) : s[j] \in Id
             /\ live \subseteq Id
             /\ ~g.indexed => Cardinality(live) <= 1
<1> DEFINE s == TextIds(g)
           live == {i \in Range(s) : Live(i)}
<1>1. CASE g.indexed
  <2> DEFINE X == FoundItems(Range(g.props))
  <2>1. X \subseteq Id /\ s = Sorted(X)
    BY <1>1 DEF FoundItems, Found, TextIds
  <2> HIDE DEF X, s
  <2>2. LET t == Sorted(X)
        IN  /\ IsSeq(t) /\ Len(t) \in Nat /\ DOMAIN t = 1 .. Len(t) /\ Range(t) = X
            /\ \A j \in 1 .. Len(t) : t[j] \in X /\ t[j] \in Id
    BY <2>1, SortedFacts
  <2>3. /\ IsSeq(s) /\ Len(s) \in Nat /\ DOMAIN s = 1 .. Len(s) /\ Range(s) \subseteq Id
        /\ \A j \in 1 .. Len(s) : s[j] \in Id
    BY <2>1, <2>2
  <2> QED BY <1>1, <2>3 DEF s
<1>2. CASE ~g.indexed
  <2>1. s = Single(g)
    BY <1>2 DEF TextIds
  <2>2. LET t == Single(g)
        IN  /\ IsSeq(t) /\ Len(t) \in Nat /\ DOMAIN t = 1 .. Len(t)
            /\ \A j \in 1 .. Len(t) : t[j] \in Id
            /\ Range(t) \subseteq Id /\ IsFiniteSet(Range(t)) /\ Cardinality(Range(t)) <= 1
    <3>1. IsSeq(g.props) /\ Len(g.props) # 0 /\ FindStatus(g) = "OK"
      BY <1>2 DEF TextFound
    <3> QED BY <3>1, SingleFacts
  <2> HIDE DEF s
  <2>3. /\ IsSeq(s) /\ Len(s) \in Nat /\ DOMAIN s = 1 .. Len(s) /\ Range(s) \subseteq Id
        /\ \A j \in 1 .. Len(s) : s[j] \in Id
        /\ IsFiniteSet(Range(s)) /\ Cardinality(Range(s)) <= 1
    BY <2>1, <2>2
  <2>4. live \subseteq Range(s)
    OBVIOUS
  <2> HIDE DEF live
  <2>5. Cardinality(live) <= Cardinality(Range(s)) /\ Cardinality(live) \in Nat /\ Cardinality(Range(s)) \in Nat
    BY <2>3, <2>4, FS_Subset, FS_CardinalityType
  <2>6. Cardinality(live) <= 1 /\ live \subseteq Id
    BY <2>3, <2>4, <2>5
  <2> QED BY <2>3, <2>6 DEF s, live
<1> QED BY <1>1, <1>2 DEF TextFound

(* The fields of a text or a list.                                         *)
LEMMA TextFit ==
  ASSUME WellFormed(source), NEW n \in DOMAIN Mapping, Mapping[n].kind = "text",
         ~Mapping[n].indexed => FindStatus(Mapping[n]) = "OK"
  PROVE  LET g == Mapping[n]
         IN  FieldsFit(TextFields(g), g.indexed, FALSE) /\ FieldKeys(TextFields(g)) = KeysOf(g)
<1> DEFINE g == Mapping[n]
           X == {i \in Range(TextIds(g)) : Live(i)}
           order == Sorted(X)
           vs == [j \in DOMAIN order |-> source[order[j]].value]
           f == Field(g.keys[1], vs, order)
<1>1. Len(g.keys) = 1 /\ g.indexed \in BOOLEAN /\ IsSeq(g.props) /\ Len(g.props) # 0
  BY MappingTable DEF GoodMap
<1>2. TextFields(g) = <<f>>
  BY DEF TextFields
<1>3. X \subseteq Id /\ (~g.indexed => Cardinality(X) <= 1)
  <2>1. g.indexed \in BOOLEAN /\ (~g.indexed => IsSeq(g.props) /\ Len(g.props) # 0 /\ FindStatus(g) = "OK")
    BY <1>1
  <2> HIDE DEF g
  <2>2. TextFound(g)
    BY <2>1 DEF TextFound
  <2>4. LET s == TextIds(g)
            live == {i \in Range(s) : Live(i)}
        IN  /\ IsSeq(s) /\ Len(s) \in Nat /\ DOMAIN s = 1 .. Len(s)
            /\ \A j \in 1 .. Len(s) : s[j] \in Id
            /\ live \subseteq Id
            /\ ~g.indexed => Cardinality(live) <= 1
    BY <2>2, TextIdsFacts
  <2> QED BY <2>4
<1> HIDE DEF X
<1>4. LET t == Sorted(X)
      IN  /\ IsSeq(t) /\ Len(t) \in Nat /\ DOMAIN t = 1 .. Len(t)
          /\ \A j \in 1 .. Len(t) : t[j] \in X /\ t[j] \in Id
          /\ Len(t) = Cardinality(X)
  BY <1>3, SortedFacts
<1>5. DOMAIN vs = DOMAIN order /\ vs = [j \in DOMAIN order |-> vs[j]]
  OBVIOUS
<1> HIDE DEF order
<1>6. /\ IsSeq(order) /\ Len(order) \in Nat /\ DOMAIN order = 1 .. Len(order) /\ Len(order) = Cardinality(X)
      /\ \A j \in 1 .. Len(order) : order[j] \in Id
  BY <1>4 DEF order
<1> HIDE DEF vs
<1>7. IsSeq(vs) /\ Len(vs) = Len(order)
  BY <1>5, <1>6, MadeOf
<1>8. f.key = g.keys[1] /\ f.values = vs /\ f.from = order
  BY DEF Field
<1> HIDE DEF f
<1>9. CASE ~g.indexed
  <2>1. Short(f.values)
    BY <1>3, <1>6, <1>7, <1>8, <1>9 DEF Short
  <2>2. Len(f.values) = 1 => 1 \in DOMAIN f.from /\ f.from[1] \in Id
    BY <1>6, <1>7, <1>8
  <2>3. Len(<<f>>) = 1 /\ <<f>>[1] = f /\ FALSE \in BOOLEAN
    OBVIOUS
  <2>4. Sourced(<<f>>, FALSE)
    BY <2>1, <2>2, <2>3 DEF Sourced
  <2> HIDE DEF g
  <2>5. Mapping[n] = g
    BY DEF g
  <2>6. FieldsFit(<<f>>, FALSE, FALSE) /\ FieldKeys(<<f>>) = KeysOf(g)
    BY <1>1, <1>8, <2>3, <2>4, <2>5, OneFit
  <2>7. g.indexed = FALSE
    BY <1>1, <1>9
  <2> QED BY <1>2, <2>6, <2>7 DEF g
<1>10. CASE g.indexed
  <2> DEFINE F == <<f>>
             places == PlacesFor(F, TRUE, 1)
             ids == Natives(f.key, TRUE)
  <2>1. IsSeq(F) /\ Len(F) = 1 /\ DOMAIN F = 1 .. 1 /\ F[1] = f
    BY OneIsSeq
  <2> HIDE DEF F
  <2>2. NativesFor(F, TRUE, 1) = ids
    BY <2>1 DEF NativesFor
  <2>3. \A j \in DOMAIN f.from : places[j] = LastOrder(ids, f)
    BY <2>1, <2>2 DEF PlacesFor
  <2>4. AddedLast(f, ids, places)
    BY <1>6, <1>7, <1>8, <2>3 DEF AddedLast
  <2> HIDE DEF places
  <2>5. IsSeq(f.values)
    BY <1>7, <1>8
  <2>6. Fits(f, ids, FALSE, places)
    BY <2>4, <2>5, LastFits
  <2>7. Fits(F[1], NativesFor(F, TRUE, 1), FALSE, PlacesFor(F, TRUE, 1))
    BY <2>1, <2>2, <2>6 DEF places
  <2>8. \A k \in 1 .. Len(F) : k = 1
    BY <2>1
  <2>9. FieldsFit(F, TRUE, FALSE)
    BY <2>1, <2>5, <2>7, <2>8 DEF FieldsFit
  <2>10. FieldKeys(F) = {f.key}
    BY <2>1, <2>8 DEF FieldKeys
  <2>11. KeysOf(g) = {g.keys[1]}
    <3>1. IsSeq(g.keys)
      BY MappingTable DEF GoodMap, OwnKeys
    <3>2. DOMAIN g.keys = 1 .. 1
      BY <1>1, <3>1, SeqFacts
    <3> QED BY <3>2 DEF KeysOf, Range
  <2>12. g.indexed = TRUE
    BY <1>1, <1>10
  <2> QED BY <1>2, <1>8, <2>9, <2>10, <2>11, <2>12 DEF F
<1> QED BY <1>9, <1>10

(* The last text beyond ASCII, if there is one.                            *)
LEMMA MaxIsGreatest ==
  ASSUME NEW N \in Nat, NEW T, T \subseteq 1 .. N, T # {}
  PROVE  Max(T) \in T
<1> DEFINE C == {N - j : j \in T}
<1>1. PICK x \in C : \A y \in C : x <= y
  <2>1. \A j \in T : N - j \in Nat
    OBVIOUS
  <2>2. C # {} /\ \A y \in C : y \in Nat
    BY <2>1
  <2> HIDE DEF C
  <2> QED BY <2>2, LeastNumber
<1>2. PICK j \in T : x = N - j
  BY <1>1
<1>3. \A k \in T : j >= k
  <2> SUFFICES ASSUME NEW k \in T PROVE j >= k
    OBVIOUS
  <2>1. x <= N - k
    BY <1>1
  <2> QED BY <1>2, <2>1
<1> QED BY <1>3 DEF Max

(* The last source with a wide character is an entry, and there is one if  *)
(* any has one.                                                            *)
LEMMA LastWideFacts ==
  ASSUME WellFormed(source), NEW ids, DOMAIN ids = 1 .. Len(ids), Len(ids) \in Nat,
         \A j \in 1 .. Len(ids) : ids[j] \in Id
  PROVE  /\ LastWide(ids) = 0 \/ LastWide(ids) \in Id
         /\ WideIn(ids) # {} => LastWide(ids) # 0
<1>1. WideIn(ids) \subseteq 1 .. Len(ids)
  BY DEF WideIn
<1>2. 0 \notin Id
  BY StoreFacts DEF Id
<1>3. CASE WideIn(ids) = {}
  BY <1>3 DEF LastWide
<1>4. CASE WideIn(ids) # {}
  <2>1. Max(WideIn(ids)) \in WideIn(ids)
    BY <1>1, <1>4, MaxIsGreatest
  <2>2. ids[Max(WideIn(ids))] \in Id
    BY <1>1, <2>1
  <2> QED BY <1>2, <1>4, <2>2 DEF LastWide
<1> QED BY <1>3, <1>4
(* Sides of the image: no value, or the one all spellings agree on.        *)
LEMMA SetToSeqShort ==
  ASSUME NEW S, S = {} \/ \E x : S = {x}
  PROVE  Short(SetToSeq(S))
<1>1. CASE S = {}
  <2> DEFINE f == [j \in 1 .. 0 |-> j]
  <2>1. Cardinality(S) = 0
    BY <1>1, FS_EmptySet
  <2>2. f \in [1 .. Cardinality(S) -> S] /\ IsInjective(f)
    BY <1>1, <2>1 DEF IsInjective
  <2>3. SetToSeq(S) \in [1 .. 0 -> S]
    BY <2>1, <2>2 DEF SetToSeq
  <2> DEFINE s == SetToSeq(S)
  <2> HIDE DEF s
  <2>6. s \in [1 .. 0 -> S]
    BY <2>3 DEF s
  <2>7. DOMAIN s = 1 .. 0 /\ s = [j \in 1 .. 0 |-> s[j]]
    BY <2>6, Zenon
  <2>4. 0 \in Nat /\ DOMAIN s = 1 .. 0 /\ s = [j \in 1 .. 0 |-> s[j]]
    BY <2>7
  <2>5. IsSeq(s) /\ Len(s) = 0
    BY <2>4, SeqMade
  <2> QED BY <2>5 DEF Short, s
<1>2. ASSUME NEW x, S = {x} PROVE Short(SetToSeq(S))
  <2> DEFINE f == [j \in 1 .. 1 |-> x]
  <2>1. Cardinality(S) = 1
    BY <1>2, FS_Singleton
  <2>2. f \in [1 .. Cardinality(S) -> S] /\ IsInjective(f)
    BY <1>2, <2>1 DEF IsInjective
  <2>3. SetToSeq(S) \in [1 .. 1 -> S]
    BY <2>1, <2>2 DEF SetToSeq
  <2> DEFINE s == SetToSeq(S)
  <2> HIDE DEF s
  <2>6. s \in [1 .. 1 -> S]
    BY <2>3 DEF s
  <2>7. DOMAIN s = 1 .. 1 /\ s = [j \in 1 .. 1 |-> s[j]]
    BY <2>6, Zenon
  <2>4. 1 \in Nat /\ DOMAIN s = 1 .. 1 /\ s = [j \in 1 .. 1 |-> s[j]]
    BY <2>7
  <2>5. IsSeq(s) /\ Len(s) = 1
    BY <2>4, SeqMade
  <2> QED BY <2>5 DEF Short, s
<1> QED BY <1>1, <1>2

(* The sources of the geometry are entries.                                *)
LEMMA AllIdsFacts ==
  ASSUME WellFormed(source), NEW g, IsSeq(g.sides)
  PROVE  LET s == AllIds(g)
         IN  /\ IsSeq(s) /\ Len(s) \in Nat /\ DOMAIN s = 1 .. Len(s)
             /\ \A j \in 1 .. Len(s) : s[j] \in Id
             /\ s # <<>> => s[1] \in Id
<1> DEFINE c == [k \in DOMAIN g.sides |-> SideIds(g, k)]
<1>1. DOMAIN g.sides = 1 .. Len(g.sides) /\ Len(g.sides) \in Nat
  BY SeqFacts
<1>2. \A k : SideIds(g, k) \in Seq(Id)
  <2> SUFFICES ASSUME NEW k PROVE SideIds(g, k) \in Seq(Id)
    OBVIOUS
  <2> DEFINE X == Found(Range(g.sides[k]), TRUE)
  <2>1. X \subseteq Id /\ SideIds(g, k) = Ascending(X)
    BY DEF Found, SideIds
  <2>2. IsFiniteSet(X) /\ \A x \in X : x \in Nat
    <3>1. DOMAIN source = 1 .. Len(source) /\ Len(source) \in Nat
      BY StoreFacts
    <3> HIDE DEF X
    <3> QED BY <2>1, <3>1, SmallSets DEF Id
  <2> HIDE DEF X
  <2>3. LET s == Ascending(X)
        IN  /\ IsSeq(s) /\ Len(s) \in Nat /\ DOMAIN s = 1 .. Len(s) /\ Range(s) = X
            /\ \A j \in 1 .. Len(s) : s[j] \in X
    BY <2>2, AscendingFacts
  <2>4. IsSeq(SideIds(g, k)) /\ Range(SideIds(g, k)) \subseteq Id
    BY <2>1, <2>3
  <2>5. SideIds(g, k) \in Seq(Range(SideIds(g, k)))
    BY <2>4, SeqFacts
  <2> QED BY <2>4, <2>5
<1>3. c \in Seq(Seq(Id)) /\ AllIds(g) = FlattenSeq(c)
  BY <1>1, <1>2 DEF AllIds
<1> HIDE DEF c
<1>4. AllIds(g) \in Seq(Id)
  BY <1>3, FlatType
<1> DEFINE s == AllIds(g)
<1> HIDE DEF s
<1>5. s \in Seq(Id)
  BY <1>4 DEF s
<1>6. IsSeq(s)
  BY <1>5 DEF IsSeq
<1>7. Len(s) \in Nat /\ DOMAIN s = 1 .. Len(s) /\ \A j \in 1 .. Len(s) : s[j] \in Id
  BY <1>5
<1>8. s # <<>> => 1 \in 1 .. Len(s)
  BY <1>5
<1> QED BY <1>6, <1>7, <1>8 DEF s

(* The fields of the geometry.                                             *)
LEMMA GeometryFit ==
  ASSUME WellFormed(source), NEW n \in DOMAIN Mapping, Mapping[n].kind = "geometry",
         AllIds(Mapping[n]) # <<>>, SidesStatus(Mapping[n]) = "OK"
  PROVE  LET g == Mapping[n]
         IN  FieldsFit(GeometryFields(g), FALSE, FALSE) /\ FieldKeys(GeometryFields(g)) = KeysOf(g)
<1> DEFINE g == Mapping[n]
           fields == GeometryFields(g)
<1>1. OwnKeys(g.keys, n) /\ IsSeq(g.sides) /\ Len(g.sides) \in {1, 2}
  BY MappingTable DEF GoodMap
<1> HIDE DEF g
<1>2. AllIds(g)[1] \in Id
  <2>1. AllIds(g) # <<>>
    BY DEF g
  <2>2. LET s == AllIds(g)
        IN  /\ IsSeq(s) /\ Len(s) \in Nat /\ DOMAIN s = 1 .. Len(s)
            /\ \A j \in 1 .. Len(s) : s[j] \in Id
            /\ s # <<>> => s[1] \in Id
    BY <1>1, AllIdsFacts
  <2> QED BY <2>1, <2>2
<1>3. DOMAIN g.sides = 1 .. Len(g.sides) /\ IsSeq(g.keys) /\ DOMAIN g.keys = 1 .. Len(g.keys) /\ Len(g.keys) \in Nat
  BY <1>1, SeqFacts DEF OwnKeys
<1>4. \A k \in DOMAIN g.sides : SideValues(g, k) = {} \/ \E x : SideValues(g, k) = {x}
  <2>1. SidesStatus(g) = "OK"
    BY DEF g
  <2>2. \/ \A k \in DOMAIN g.sides : SideValues(g, k) = {}
        \/ \A k \in DOMAIN g.sides : SideValues(g, k) = {Fact(g)[k]}
    BY <2>1 DEF SidesStatus
  <2> QED BY <2>2
<1> DEFINE side(k) == ((k - 1) % Len(g.sides)) + 1
<1>5. \A k \in 1 .. Len(g.keys) : side(k) \in DOMAIN g.sides
  <2>1. CASE Len(g.sides) = 1
    BY <1>3, <2>1
  <2>2. CASE Len(g.sides) = 2
    BY <1>3, <2>2
  <2> QED BY <1>1, <2>1, <2>2
<1>6. fields = [k \in DOMAIN g.keys |-> Field(g.keys[k], SetToSeq(SideValues(g, side(k))), <<AllIds(g)[1]>>)]
  BY DEF GeometryFields
<1> HIDE DEF fields, side
<1>7. /\ DOMAIN fields = DOMAIN g.keys /\ fields = [k \in DOMAIN g.keys |-> fields[k]]
      /\ \A k \in 1 .. Len(g.keys) :
            /\ fields[k].key = g.keys[k] /\ fields[k].values = SetToSeq(SideValues(g, side(k)))
            /\ fields[k].from = <<AllIds(g)[1]>>
  BY <1>3, <1>6 DEF Field
<1>8. Keyed(fields, g.keys)
  BY <1>3, <1>7, MadeOf DEF Keyed
<1>9. \A k \in 1 .. Len(g.keys) : Short(fields[k].values)
  BY <1>4, <1>5, <1>7, SetToSeqShort
<1>10. Sourced(fields, FALSE)
  <2>1. Len(fields) = Len(g.keys)
    BY <1>8 DEF Keyed
  <2>2. \A i : 1 \in DOMAIN <<i>> /\ <<i>>[1] = i
    OBVIOUS
  <2>3. \A k \in 1 .. Len(g.keys) : 1 \in DOMAIN fields[k].from /\ fields[k].from[1] \in Id
    BY <1>2, <1>7, <2>2
  <2> QED BY <1>9, <2>1, <2>3 DEF Sourced
<1>11. FALSE \in BOOLEAN
  OBVIOUS
<1>12. FieldsFit(fields, FALSE, FALSE) /\ FieldKeys(fields) = Range(g.keys)
  BY <1>1, <1>8, <1>10, <1>11, KeyedFit
<1> QED BY <1>12 DEF fields, g, KeysOf
(* What the groups of D have done, if they were the ones gone through.     *)
Wrote(D) == {k \in D : Writes(Mapping[k])}
KeysDone(D) == UNION {KeysOf(Mapping[k]) : k \in Wrote(D)}
WideGroup(g) == g.kind = "text" /\ WideIn(TextIds(g)) # {}
Stood(store, g) ==
    \A j \in DOMAIN Wants(g) : Stands(store, Wants(g)[j]) /\ Wants(g)[j].key \in KeysOf(g)
XmpDone(o, D, own, wide) ==
    /\ OkOps(source, o) /\ Keeps(source, Run(source, o), KeysDone(D))
    /\ \A k \in Wrote(D) : Stood(Run(source, o), Mapping[k])
    /\ Touching(o, KeysDone(D))
    /\ \A i \in own : i \in Id /\ source[i].key.name \in KeysDone(D)
    /\ (\E k \in Wrote(D) : WideGroup(Mapping[k])) => wide # 0
    /\ wide = 0 \/ wide \in Id

(* Nothing is done before the first group.                                 *)
LEMMA XmpStarts ==
  ASSUME WellFormed(source)
  PROVE  XmpDone(<<>>, {}, {}, 0)
<1>1. Wrote({}) = {} /\ KeysDone({}) = {}
  BY DEF Wrote, KeysDone
<1>2. OkOps(source, <<>>) /\ Run(source, <<>>) = source
  BY RunEmpty
<1>3. Keeps(source, source, {})
  BY KeepsItself
<1>4. Touching(<<>>, {})
  BY DEF Touching
<1> QED BY <1>1, <1>2, <1>3, <1>4 DEF XmpDone

(* A group that has nothing to write leaves all as it is.                  *)
LEMMA XmpPassed ==
  ASSUME NEW D, NEW n, ~Writes(Mapping[n]), NEW o, NEW own, NEW wide, XmpDone(o, D, own, wide)
  PROVE  XmpDone(o, D \cup {n}, own, wide)
<1>1. Wrote(D \cup {n}) = Wrote(D)
  BY DEF Wrote
<1>2. KeysDone(D \cup {n}) = KeysDone(D)
  BY <1>1 DEF KeysDone
<1> QED BY <1>1, <1>2 DEF XmpDone

(* A group that writes: its fields, where they fit, and its wide text.     *)
Fitting(n, ordered, lifecycle, w) ==
    /\ ordered \in BOOLEAN /\ lifecycle \in BOOLEAN
    /\ FieldsFit(Wants(Mapping[n]), ordered, lifecycle)
    /\ FieldKeys(Wants(Mapping[n])) = KeysOf(Mapping[n])
    /\ w = 0 \/ w \in Id
    /\ WideGroup(Mapping[n]) => w # 0

(* One more group that writes, done after others, is done with them.       *)
LEMMA XmpStep ==
  ASSUME WellFormed(source), NEW D, D \subseteq DOMAIN Mapping, NEW n \in DOMAIN Mapping, n \notin D,
         NEW o, NEW own, NEW wide, XmpDone(o, D, own, wide), Writes(Mapping[n]),
         NEW ordered, NEW lifecycle, NEW w, Fitting(n, ordered, lifecycle, w)
  PROVE  LET new == NewOps(Wants(Mapping[n]), ordered, lifecycle)
         IN  XmpDone(o \o new, D \cup {n}, own \cup Owns(Wants(Mapping[n])), IF w = 0 THEN wide ELSE w)
<1> DEFINE fields == Wants(Mapping[n])
           new == NewOps(fields, ordered, lifecycle)
           S == {FieldTask(fields, ordered, lifecycle, k) : k \in 1 .. Len(fields)}
           K == KeysOf(Mapping[n])
           a == Run(source, o)
           b == Run(source, o \o new)
           E == D \cup {n}
<1>1. /\ ordered \in BOOLEAN /\ lifecycle \in BOOLEAN /\ FieldsFit(fields, ordered, lifecycle)
      /\ FieldKeys(fields) = K
  BY DEF Fitting
<1>2. IsSeq(fields) /\ \A k \in 1 .. Len(fields) : IsSeq(fields[k].values)
  BY <1>1 DEF FieldsFit
<1>3. Len(fields) \in Nat /\ DOMAIN fields = 1 .. Len(fields)
  BY <1>2, SeqFacts
<1>4. IsSeq(new) /\ DoesAll(new, S) /\ KeysIn(S) = K /\ Touching(new, K)
  <2> HIDE DEF fields
  <2>1. LET p == NewOps(fields, ordered, lifecycle)
            T == {FieldTask(fields, ordered, lifecycle, k) : k \in 1 .. Len(fields)}
        IN  /\ AllSeqs(FieldOps(fields, ordered, lifecycle)) /\ IsSeq(p)
            /\ Len(FieldOps(fields, ordered, lifecycle)) = Len(fields)
            /\ DoesAll(p, T) /\ KeysIn(T) = FieldKeys(fields)
            /\ Touching(p, FieldKeys(fields))
    BY <1>1, FieldsDo
  <2> QED BY <1>1, <2>1
<1>5. Wrote(E) = Wrote(D) \cup {n}
  BY DEF Wrote
<1>6. KeysDone(E) = KeysDone(D) \cup K
  BY <1>5 DEF KeysDone
<1>7. KeysDone(D) \cap K = {}
  <2> SUFFICES ASSUME NEW k \in D PROVE KeysOf(Mapping[k]) \cap KeysOf(Mapping[n]) = {}
    BY DEF KeysDone, Wrote
  <2> QED BY MappingApart
<1>8. /\ OkOps(source, o) /\ Keeps(source, a, KeysDone(D)) /\ Touching(o, KeysDone(D)) /\ IsSeq(o)
      /\ \A k \in Wrote(D) : Stood(a, Mapping[k])
      /\ \A i \in own : i \in Id /\ source[i].key.name \in KeysDone(D)
      /\ (\E k \in Wrote(D) : WideGroup(Mapping[k])) => wide # 0
      /\ wide = 0 \/ wide \in Id
  BY DEF XmpDone, OkOps
<1> HIDE DEF new, S, K, a, b, fields
<1>9. OkOps(source, o \o new) /\ Keeps(a, b, K) /\ \A t \in S : Met(b, t)
  BY <1>4, <1>7, <1>8 DEF DoesAll, a, b
<1>10. Keeps(source, b, KeysDone(E))
  BY <1>6, <1>8, <1>9, KeepsOn
<1>11. \A k \in 1 .. Len(fields) : Stands(b, fields[k])
  <2> SUFFICES ASSUME NEW k \in 1 .. Len(fields) PROVE Stands(b, fields[k])
    OBVIOUS
  <2> DEFINE ids == NativesFor(fields, ordered, k)
             places == PlacesFor(fields, ordered, k)
  <2>1. Met(b, FieldTask(fields, ordered, lifecycle, k))
    BY <1>9 DEF S
  <2>2. Holds(b, fields[k], lifecycle, ids, places)
    BY <2>1 DEF Met, FieldTask, Task
  <2>3. WellFormed(b)
    BY <1>9 DEF Keeps
  <2> HIDE DEF ids, places
  <2> QED BY <1>1, <1>2, <2>2, <2>3, HeldStands
<1>12. \A k \in Wrote(D) : Stood(b, Mapping[k])
  <2> SUFFICES ASSUME NEW k \in Wrote(D), NEW j \in DOMAIN Wants(Mapping[k])
               PROVE  /\ Stands(b, Wants(Mapping[k])[j])
                      /\ Wants(Mapping[k])[j].key \in KeysOf(Mapping[k])
    BY DEF Stood
  <2> DEFINE f == Wants(Mapping[k])[j]
  <2>1. Stands(a, f) /\ f.key \in KeysOf(Mapping[k])
    BY <1>8 DEF Stood
  <2>3. f.key \notin K
    BY <1>7, <2>1 DEF KeysDone
  <2>4. Values(b, f.key) = Values(a, f.key)
    BY <1>9, <2>3, KeepsOthers
  <2> QED BY <2>1, <2>4 DEF Stands
<1>13. Touching(o \o new, KeysDone(E))
  <2>1. IsSeq(o) /\ IsSeq(new) /\ Touching(o, KeysDone(D)) /\ Touching(new, K)
    BY <1>4, <1>8
  <2>2. Touching(o \o new, KeysDone(D) \cup K)
    BY <2>1, TouchingJoin
  <2> QED BY <1>6, <2>2
<1>14. \A i \in own \cup Owns(fields) : i \in Id /\ source[i].key.name \in KeysDone(E)
  <2> SUFFICES ASSUME NEW i \in Owns(fields) PROVE i \in Id /\ source[i].key.name \in K
    BY <1>6, <1>8
  <2>1. i \in Id /\ \E k \in DOMAIN fields : fields[k].key = source[i].key.name
    BY DEF Owns
  <2> QED BY <1>1, <1>3, <2>1 DEF FieldKeys
<1> DEFINE x == IF w = 0 THEN wide ELSE w
<1>15. /\ (\E k \in Wrote(E) : WideGroup(Mapping[k])) => x # 0
       /\ x = 0 \/ x \in Id
  BY <1>5, <1>8 DEF Fitting
<1>16. \A k \in Wrote(E) : Stood(b, Mapping[k])
  <2>1. Stood(b, Mapping[n])
    BY <1>1, <1>3, <1>11 DEF fields, Stood, FieldKeys, K
  <2> QED BY <1>5, <1>12, <2>1
<1> HIDE DEF x, E
<1> QED BY <1>9, <1>10, <1>13, <1>14, <1>15, <1>16 DEF XmpDone, b, fields, new, x, E
(* What one step does with the group it has come to.                       *)
GroupMoves ==
    /\ \/ Fails
       \/ ~Writes(Mapping[m]) /\ Stays("group")
       \/ /\ Writes(Mapping[m])
          /\ \E ordered, lifecycle, w :
                /\ Fitting(m, ordered, lifecycle, w)
                /\ Records(Wants(Mapping[m]), NewOps(Wants(Mapping[m]), ordered, lifecycle), w, "group")
    /\ DOMAIN count' = DOMAIN count

(* A failure is one of the moves of a group.                               *)
LEMMA FailMoves ==
  ASSUME NEW s, s # "OK", Fail(s)
  PROVE  GroupMoves
  BY DEF GroupMoves, Fails, Fail

(* So is to pass a group by that says nothing.                             *)
LEMMA SkipMoves ==
  ASSUME Skip, ~Speaks(Mapping[m])
  PROVE  GroupMoves
<1>1. ~Writes(Mapping[m])
  BY DEF Writes
<1>2. Stays("group") /\ count' = count
  BY DEF Skip, Stays, Goes
<1> QED BY <1>1, <1>2 DEF GroupMoves

(* So is to reconcile what it wants.                                       *)
LEMMA ReconcileMoves ==
  ASSUME WellFormed(source), IsSeq(ops), Speaks(Mapping[m]), NEW fields, fields = Wants(Mapping[m]),
         NEW ordered, NEW lifecycle, NEW readNow, NEW w, Fitting(m, ordered, lifecycle, w),
         Reconcile(fields, ordered, lifecycle, readNow, w, "group")
  PROVE  GroupMoves
<1>1. ordered \in BOOLEAN /\ lifecycle \in BOOLEAN /\ FieldsFit(fields, ordered, lifecycle)
  BY DEF Fitting
<1>2. /\ \/ Fails
         \/ Preserves(fields) /\ Stays("group")
         \/ ~Preserves(fields) /\ Records(fields, NewOps(fields, ordered, lifecycle), w, "group")
      /\ DOMAIN count' = DOMAIN count
  BY <1>1, ReconcileDoes
<1>3. Writes(Mapping[m]) <=> ~Preserves(fields)
  BY DEF Writes
<1> QED BY <1>2, <1>3 DEF GroupMoves

(* The step on a date.                                                     *)
LEMMA DateMoves ==
  ASSUME WellFormed(source), IsSeq(ops), m \in DOMAIN Mapping, DateGroup
  PROVE  GroupMoves
<1> DEFINE g == Mapping[m]
           ids == Single(g)
           verdict == Inspected(ids, [i \in Range(ids) |-> DateStatus(g, i)])
<1>1. /\ g.kind = "date"
      /\ IF FindStatus(g) # "OK" THEN Fail(FindStatus(g))
         ELSE IF ids = <<>> THEN Skip
         ELSE IF verdict # "OK" THEN Fail(verdict)
         ELSE Reconcile(DateFields(g, ids[1]), FALSE, g.lifecycle, LiveCount(ids), 0, "group")
  BY DEF DateGroup, OnGroup, Group
<1>2. Speaks(g) <=> ids # <<>>
  BY <1>1 DEF Speaks
<1>3. Wants(g) = DateFields(g, ids[1])
  BY <1>1 DEF Wants
<1>4. GoodMap(g, m)
  BY MappingTable
<1>5. IsSeq(g.props) /\ Len(g.props) # 0 /\ g.lifecycle \in BOOLEAN
  BY <1>1, <1>4 DEF GoodMap
<1> HIDE DEF verdict
<1>6. CASE FindStatus(g) # "OK"
  BY <1>1, <1>6, FailMoves
<1>7. CASE FindStatus(g) = "OK" /\ ids = <<>>
  BY <1>1, <1>2, <1>7, SkipMoves
<1>8. CASE FindStatus(g) = "OK" /\ ids # <<>> /\ verdict # "OK"
  BY <1>1, <1>8, FailMoves
<1>9. CASE FindStatus(g) = "OK" /\ ids # <<>> /\ verdict = "OK"
  <2>1. Reconcile(DateFields(g, ids[1]), FALSE, g.lifecycle, LiveCount(ids), 0, "group")
    BY <1>1, <1>9
  <2>2. ids[1] \in Id
    <3>1. LET s == Single(g)
          IN  /\ IsSeq(s) /\ Len(s) \in Nat /\ Len(s) <= 1 /\ DOMAIN s = 1 .. Len(s)
              /\ \A j \in 1 .. Len(s) : s[j] \in Id
              /\ s # <<>> => Len(s) = 1 /\ s[1] \in Id
              /\ Range(s) \subseteq Id /\ IsFiniteSet(Range(s)) /\ Cardinality(Range(s)) <= 1
      BY <1>5, <1>9, SingleFacts
    <3> QED BY <1>9, <3>1
  <2>3. /\ FieldsFit(DateFields(g, ids[1]), FALSE, g.lifecycle)
        /\ FieldKeys(DateFields(g, ids[1])) = KeysOf(g)
    BY <1>1, <2>2, DateFit
  <2>4. FALSE \in BOOLEAN /\ ~WideGroup(g)
    BY <1>1 DEF WideGroup
  <2>5. Fitting(m, FALSE, g.lifecycle, 0)
    BY <1>3, <1>5, <2>3, <2>4 DEF Fitting
  <2>6. Speaks(g) /\ DateFields(g, ids[1]) = Wants(g)
    BY <1>2, <1>3, <1>9
  <2> HIDE DEF ids
  <2> QED BY <2>1, <2>5, <2>6, ReconcileMoves
<1> QED BY <1>6, <1>7, <1>8, <1>9

(* The step on a setting of the capture.                                   *)
LEMMA CaptureMoves ==
  ASSUME WellFormed(source), IsSeq(ops), m \in DOMAIN Mapping, CaptureGroup
  PROVE  GroupMoves
<1> DEFINE g == Mapping[m]
           ids == Single(g)
           verdict == Inspected(ids, [i \in Range(ids) |-> Parsable(i)])
<1>1. /\ g.kind = "capture"
      /\ IF FindStatus(g) # "OK" THEN Fail(FindStatus(g))
         ELSE IF ids = <<>> THEN Skip
         ELSE IF verdict # "OK" THEN Fail(verdict)
         ELSE Reconcile(CaptureFields(g, ids[1]), FALSE, FALSE, LiveCount(ids), 0, "group")
  BY DEF CaptureGroup, OnGroup, Group
<1>2. Speaks(g) <=> ids # <<>>
  BY <1>1 DEF Speaks
<1>3. Wants(g) = CaptureFields(g, ids[1])
  BY <1>1 DEF Wants
<1>4. GoodMap(g, m)
  BY MappingTable
<1>5. IsSeq(g.props) /\ Len(g.props) # 0
  BY <1>1, <1>4 DEF GoodMap
<1> HIDE DEF verdict
<1>6. CASE FindStatus(g) # "OK"
  BY <1>1, <1>6, FailMoves
<1>7. CASE FindStatus(g) = "OK" /\ ids = <<>>
  BY <1>1, <1>2, <1>7, SkipMoves
<1>8. CASE FindStatus(g) = "OK" /\ ids # <<>> /\ verdict # "OK"
  BY <1>1, <1>8, FailMoves
<1>9. CASE FindStatus(g) = "OK" /\ ids # <<>> /\ verdict = "OK"
  <2>1. Reconcile(CaptureFields(g, ids[1]), FALSE, FALSE, LiveCount(ids), 0, "group")
    BY <1>1, <1>9
  <2>2. ids[1] \in Id
    <3>1. LET s == Single(g)
          IN  /\ IsSeq(s) /\ Len(s) \in Nat /\ Len(s) <= 1 /\ DOMAIN s = 1 .. Len(s)
              /\ \A j \in 1 .. Len(s) : s[j] \in Id
              /\ s # <<>> => Len(s) = 1 /\ s[1] \in Id
              /\ Range(s) \subseteq Id /\ IsFiniteSet(Range(s)) /\ Cardinality(Range(s)) <= 1
      BY <1>5, <1>9, SingleFacts
    <3> QED BY <1>9, <3>1
  <2>3. /\ FieldsFit(CaptureFields(g, ids[1]), FALSE, FALSE)
        /\ FieldKeys(CaptureFields(g, ids[1])) = KeysOf(g)
    BY <1>1, <2>2, CaptureFit
  <2>4. FALSE \in BOOLEAN /\ ~WideGroup(g)
    BY <1>1 DEF WideGroup
  <2>5. Fitting(m, FALSE, FALSE, 0)
    BY <1>3, <2>3, <2>4 DEF Fitting
  <2>6. Speaks(g) /\ CaptureFields(g, ids[1]) = Wants(g)
    BY <1>2, <1>3, <1>9
  <2> HIDE DEF ids
  <2> QED BY <2>1, <2>5, <2>6, ReconcileMoves
<1> QED BY <1>6, <1>7, <1>8, <1>9

(* The step on a text or a list.                                           *)
LEMMA TextMoves ==
  ASSUME WellFormed(source), IsSeq(ops), m \in DOMAIN Mapping, TextGroup
  PROVE  GroupMoves
<1> DEFINE g == Mapping[m]
           ids == TextIds(g)
           found == IF g.indexed THEN FindItemsStatus(g) ELSE FindStatus(g)
           verdict == Inspected(ids, [i \in Range(ids) |-> TextStatus(g, i)])
           many == g.indexed /\ Len(Natives(g.keys[1], FALSE)) > opts.maxOps
<1>1. /\ g.kind = "text"
      /\ IF found # "OK" THEN Fail(found)
         ELSE IF ids = <<>> THEN Skip
         ELSE IF verdict # "OK" THEN Fail(verdict)
         ELSE IF many THEN Fail("LIMIT")
         ELSE Reconcile(TextFields(g), g.indexed, FALSE, LiveCount(ids), LastWide(ids), "group")
  BY DEF TextGroup, OnGroup, Group
<1>2. Speaks(g) <=> ids # <<>>
  BY <1>1 DEF Speaks
<1>3. Wants(g) = TextFields(g)
  BY <1>1 DEF Wants
<1>4. GoodMap(g, m)
  BY MappingTable
<1>5. g.indexed \in BOOLEAN /\ IsSeq(g.props) /\ Len(g.props) # 0
  BY <1>1, <1>4 DEF GoodMap
<1>0. found = "OK" /\ ~g.indexed => FindStatus(g) = "OK"
  OBVIOUS
<1> HIDE DEF verdict, many, found
<1>6. CASE found # "OK"
  BY <1>1, <1>6, FailMoves
<1>7. CASE found = "OK" /\ ids = <<>>
  BY <1>1, <1>2, <1>7, SkipMoves
<1>8. CASE found = "OK" /\ ids # <<>> /\ verdict # "OK"
  BY <1>1, <1>8, FailMoves
<1>9. CASE found = "OK" /\ ids # <<>> /\ verdict = "OK" /\ many
  <2>1. "LIMIT" # "OK" /\ Fail("LIMIT")
    BY <1>1, <1>9
  <2> QED BY <2>1, FailMoves
<1>10. CASE found = "OK" /\ ids # <<>> /\ verdict = "OK" /\ ~many
  <2>1. Reconcile(TextFields(g), g.indexed, FALSE, LiveCount(ids), LastWide(ids), "group")
    BY <1>1, <1>10
  <2>2. TextFound(g)
    BY <1>0, <1>5, <1>10 DEF TextFound
  <2>3. /\ FieldsFit(TextFields(g), g.indexed, FALSE) /\ FieldKeys(TextFields(g)) = KeysOf(g)
    BY <1>0, <1>1, <1>10, TextFit
  <2>4. /\ DOMAIN ids = 1 .. Len(ids) /\ Len(ids) \in Nat
        /\ \A j \in 1 .. Len(ids) : ids[j] \in Id
    <3>1. LET s == TextIds(g)
              live == {i \in Range(s) : Live(i)}
          IN  /\ IsSeq(s) /\ Len(s) \in Nat /\ DOMAIN s = 1 .. Len(s)
              /\ \A j \in 1 .. Len(s) : s[j] \in Id
              /\ live \subseteq Id
              /\ ~g.indexed => Cardinality(live) <= 1
      BY <2>2, TextIdsFacts
    <3> QED BY <3>1
  <2>5. FALSE \in BOOLEAN
    OBVIOUS
  <2>6. Speaks(g) /\ TextFields(g) = Wants(g)
    BY <1>2, <1>3, <1>10
  <2>7. WideGroup(g) => WideIn(ids) # {}
    BY DEF WideGroup
  <2> HIDE DEF ids
  <2>8. /\ LastWide(ids) = 0 \/ LastWide(ids) \in Id
        /\ WideIn(ids) # {} => LastWide(ids) # 0
    BY <2>4, LastWideFacts
  <2>9. Fitting(m, g.indexed, FALSE, LastWide(ids))
    BY <1>5, <2>3, <2>5, <2>6, <2>7, <2>8 DEF Fitting
  <2> QED BY <2>1, <2>6, <2>9, ReconcileMoves
<1> QED BY <1>6, <1>7, <1>8, <1>9, <1>10

(* The step on the geometry.                                               *)
LEMMA GeometryMoves ==
  ASSUME WellFormed(source), IsSeq(ops), m \in DOMAIN Mapping, GeometryGroup
  PROVE  GroupMoves
<1> DEFINE g == Mapping[m]
           ids == AllIds(g)
           verdict == Inspected(ids, [i \in Range(ids) |-> GeometryStatus(g, i)])
           quiet == ~SomeEdited(Range(ids)) \/ ids = <<>>
           many == \E k \in DOMAIN g.sides : Len(SideIds(g, k)) > opts.maxSources
<1>1. /\ g.kind = "geometry"
      /\ IF quiet THEN Skip
         ELSE IF many THEN Fail("LIMIT")
         ELSE IF verdict # "OK" THEN Fail(verdict)
         ELSE IF SidesStatus(g) # "OK" THEN Fail(SidesStatus(g))
         ELSE Reconcile(GeometryFields(g), FALSE, FALSE, LiveCount(ids), 0, "group")
  BY DEF GeometryGroup, OnGroup, Group
<1>2. Speaks(g) <=> ~quiet
  BY <1>1 DEF Speaks
<1>3. Wants(g) = GeometryFields(g)
  BY <1>1 DEF Wants
<1>4. ~quiet => ids # <<>>
  OBVIOUS
<1> HIDE DEF verdict, many, quiet
<1>5. CASE quiet
  BY <1>1, <1>2, <1>5, SkipMoves
<1>6. CASE ~quiet /\ many
  <2>1. "LIMIT" # "OK" /\ Fail("LIMIT")
    BY <1>1, <1>6
  <2> QED BY <2>1, FailMoves
<1>7. CASE ~quiet /\ ~many /\ verdict # "OK"
  BY <1>1, <1>7, FailMoves
<1>8. CASE ~quiet /\ ~many /\ verdict = "OK" /\ SidesStatus(g) # "OK"
  BY <1>1, <1>8, FailMoves
<1>9. CASE ~quiet /\ ~many /\ verdict = "OK" /\ SidesStatus(g) = "OK"
  <2>1. Reconcile(GeometryFields(g), FALSE, FALSE, LiveCount(ids), 0, "group")
    BY <1>1, <1>9
  <2>2. FieldsFit(GeometryFields(g), FALSE, FALSE) /\ FieldKeys(GeometryFields(g)) = KeysOf(g)
    BY <1>1, <1>4, <1>9, GeometryFit
  <2>3. FALSE \in BOOLEAN /\ ~WideGroup(g)
    BY <1>1 DEF WideGroup
  <2>4. Fitting(m, FALSE, FALSE, 0)
    BY <1>3, <2>2, <2>3 DEF Fitting
  <2>5. Speaks(g) /\ GeometryFields(g) = Wants(g)
    BY <1>2, <1>3, <1>9
  <2> HIDE DEF ids
  <2> QED BY <2>1, <2>4, <2>5, ReconcileMoves
<1> QED BY <1>5, <1>6, <1>7, <1>8, <1>9
(* What the groups want depends on the store and the options alone.        *)
LEMMA WantsFrame ==
  ASSUME source' = source, opts' = opts
  PROVE  \A g : /\ Wants(g)' = Wants(g) /\ (Writes(g)' <=> Writes(g))
                /\ (WideGroup(g)' <=> WideGroup(g))
                /\ WideIn(TextIds(g))' = WideIn(TextIds(g))
<1> USE BaseFrame
<1>1. \A props, whole : Found(props, whole)' = Found(props, whole)
  BY DEF Found
<1>2. \A props : FoundItems(props)' = FoundItems(props)
  BY <1>1 DEF FoundItems
<1>3. \A g : Single(g)' = Single(g)
  BY <1>1 DEF Single
<1>4. \A g : TextIds(g)' = TextIds(g)
  BY <1>2, <1>3 DEF TextIds
<1>5. \A g : TextFields(g)' = TextFields(g)
  <2> DEFINE live(g) == {i \in Range(TextIds(g)) : Live(i)}
  <2>1. \A g : live(g)' = live(g)
    BY <1>4
  <2>2. \A g : Sorted(live(g))' = Sorted(live(g))
    BY <2>1
  <2> QED BY <2>2 DEF TextFields
<1>6. \A g, i : DateFields(g, i)' = DateFields(g, i)
  BY DEF DateFields, Live
<1>7. \A g, i : CaptureFields(g, i)' = CaptureFields(g, i)
  BY DEF CaptureFields
<1>8. \A g, k : SideIds(g, k)' = SideIds(g, k)
  BY <1>1 DEF SideIds
<1>9. \A g : AllIds(g)' = AllIds(g)
  BY <1>8 DEF AllIds
<1>10. \A g, k : SideValues(g, k)' = SideValues(g, k)
  BY <1>8 DEF SideValues
<1>11. \A g : GeometryFields(g)' = GeometryFields(g)
  BY <1>9, <1>10 DEF GeometryFields
<1>12. \A g : Wants(g)' = Wants(g)
  BY <1>3, <1>5, <1>6, <1>7, <1>11 DEF Wants
<1>13. \A g : Speaks(g)' <=> Speaks(g)
  BY <1>3, <1>4, <1>9 DEF Speaks
<1>14. \A f : Preserves(f)' <=> Preserves(f)
  BY DEF Preserves, HasNatives
<1>15. \A g : Preserves(Wants(g))' <=> Preserves(Wants(g))
  BY <1>12, <1>14
<1>16. \A g : Writes(g)' <=> Writes(g)
  BY <1>13, <1>15 DEF Writes
<1>17. \A ids : WideIn(ids)' = WideIn(ids)
  BY DEF WideIn
<1>18. \A g : WideIn(TextIds(g))' = WideIn(TextIds(g))
  BY <1>4, <1>17
<1>19. \A g : WideGroup(g)' <=> WideGroup(g)
  BY <1>18 DEF WideGroup
<1> QED BY <1>12, <1>16, <1>18, <1>19

(* What a call from XMP has done, and what it promises, depend on the      *)
(* source and the options alone.                                           *)
LEMMA XmpFrame ==
  ASSUME source' = source, opts' = opts
  PROVE  /\ \A o, D, own, wide : XmpDone(o, D, own, wide)' <=> XmpDone(o, D, own, wide)
         /\ \A st : GroupsStand(st)' <=> GroupsStand(st)
<1>1. \A D : Wrote(D)' = Wrote(D)
  BY WantsFrame DEF Wrote
<1>2. \A D : KeysDone(D)' = KeysDone(D)
  BY <1>1 DEF KeysDone
<1>3. \A st, g : Stood(st, g)' <=> Stood(st, g)
  BY WantsFrame, StandsFrame DEF Stood
<1>4. \A o, K : Touching(o, K)' <=> Touching(o, K)
  BY DEF Touching
<1>5. Id' = Id /\ \A i : Live(i)' <=> Live(i)
  BY BaseFrame
<1>6. \A o : Run(source, o)' = Run(source, o)
  OBVIOUS
<1>7. \A o, D, own, wide : XmpDone(o, D, own, wide)' <=> XmpDone(o, D, own, wide)
  BY <1>1, <1>2, <1>3, <1>4, <1>5, <1>6, WantsFrame DEF XmpDone
<1>8. \A st : GroupsStand(st)' <=> GroupsStand(st)
  <2>1. Writing' = Writing
    BY WantsFrame DEF Writing
  <2> QED BY <1>5, <2>1, WantsFrame, StandsFrame DEF GroupsStand
<1> QED BY <1>7, <1>8
(* The groups the driver has passed by, in the order of their numbers.     *)
Passed(n) == {k \in opts.mappings : k < n}
XmpAt ==
    /\ pc = "run" => (m = 0 \/ m \in opts.mappings) /\ XmpDone(ops, Passed(m), owned, utf8)
    /\ pc = "charset" => XmpDone(ops, opts.mappings, owned, utf8)

(* To advance is to go on to the next group of the call, or to the marker  *)
(* after the last.                                                         *)
LEMMA AdvancePasses ==
  ASSUME opts.mappings \subseteq 1 .. 22, m = 0 \/ m \in opts.mappings, pc = "run", Advance
  PROVE  LET seen == Passed(m) \cup (IF m = 0 THEN {} ELSE {m})
         IN  \/ pc' = "run" /\ m' \in opts.mappings /\ Passed(m') = seen
             \/ pc' = "charset" /\ m' = m /\ opts.mappings = seen
<1> DEFINE seen == Passed(m) \cup (IF m = 0 THEN {} ELSE {m})
<1>1. m \in Nat /\ \A k \in opts.mappings : k \in Nat /\ k >= 1
  OBVIOUS
<1>2. seen = {k \in opts.mappings : k <= m}
  BY <1>1 DEF Passed
<1> HIDE DEF seen
<1>3. CASE Ahead = {}
  <2>1. \A k \in opts.mappings : ~(k > m)
    BY <1>3 DEF Ahead
  <2>2. opts.mappings = seen
    BY <1>1, <1>2, <2>1
  <2> QED BY <1>3, <2>2 DEF Advance, seen
<1>4. CASE Ahead # {}
  <2>1. Ahead \subseteq opts.mappings /\ (\A x \in Ahead : x \in Nat)
    BY <1>1 DEF Ahead
  <2>2. Min(Ahead) \in Ahead /\ \A y \in Ahead : Min(Ahead) <= y
    BY <1>4, <2>1, MinIsLeast
  <2>3. m' \in Ahead /\ (\A y \in Ahead : m' <= y) /\ pc' = pc
    BY <1>4, <2>2 DEF Advance
  <2>4. m' \in Nat /\ m' \in opts.mappings /\ m' > m
    BY <2>1, <2>3 DEF Ahead
  <2>5. \A k \in opts.mappings : k < m' <=> k <= m
    BY <1>1, <2>3, <2>4 DEF Ahead
  <2>6. Passed(m') = seen
    BY <1>2, <2>5 DEF Passed
  <2> QED BY <2>3, <2>4, <2>6 DEF seen
<1> QED BY <1>3, <1>4

(* A step of the driver: where it does not fail, the groups it has passed  *)
(* by are done.                                                            *)
LEMMA GroupKeeps ==
  ASSUME WellFormed(source), opts.mappings \subseteq DOMAIN Mapping, pc = "run", XmpAt,
         m \in DOMAIN Mapping, GroupMoves
  PROVE  \/ Fails
         \/ /\ pc' \in {"run", "charset"} /\ UNCHANGED <<call, out, status>>
            /\ pc' = "run" => m' \in opts.mappings /\ XmpDone(ops', Passed(m'), owned', utf8')
            /\ pc' = "charset" => XmpDone(ops', opts.mappings, owned', utf8')
<1> DEFINE D == Passed(m)
           E == D \cup {m}
<1>1. opts.mappings \subseteq 1 .. 22 /\ m \in opts.mappings /\ m # 0 /\ XmpDone(ops, D, owned, utf8)
  BY MappingTable DEF XmpAt
<1>2. D \subseteq DOMAIN Mapping /\ m \notin D
  BY <1>1 DEF Passed
<1>3. Advance => \/ pc' = "run" /\ m' \in opts.mappings /\ Passed(m') = E
                 \/ pc' = "charset" /\ m' = m /\ opts.mappings = E
  BY <1>1, AdvancePasses
<1>4. CASE Fails
  BY <1>4
<1>5. CASE ~Writes(Mapping[m]) /\ Stays("group")
  <2>1. Advance /\ UNCHANGED <<call, out, ops, owned, utf8, status>>
    BY <1>5 DEF Stays, Goes
  <2>2. XmpDone(ops, E, owned, utf8)
    BY <1>1, <1>5, XmpPassed
  <2> HIDE DEF D, E
  <2>3. XmpDone(ops', E, owned', utf8')
    BY <2>1, <2>2
  <2> QED BY <1>3, <2>1, <2>3
<1>6. CASE /\ Writes(Mapping[m])
           /\ \E ordered, lifecycle, w :
                 /\ Fitting(m, ordered, lifecycle, w)
                 /\ Records(Wants(Mapping[m]), NewOps(Wants(Mapping[m]), ordered, lifecycle), w, "group")
  <2>1. PICK ordered, lifecycle, w :
            /\ Fitting(m, ordered, lifecycle, w)
            /\ Records(Wants(Mapping[m]), NewOps(Wants(Mapping[m]), ordered, lifecycle), w, "group")
    BY <1>6
  <2> DEFINE new == NewOps(Wants(Mapping[m]), ordered, lifecycle)
  <2>2. /\ ops' = ops \o new /\ owned' = owned \cup Owns(Wants(Mapping[m]))
        /\ utf8' = IF w = 0 THEN utf8 ELSE w
        /\ Advance /\ UNCHANGED <<call, out, status>>
    BY <2>1 DEF Records, Goes
  <2>3. XmpDone(ops \o new, E, owned \cup Owns(Wants(Mapping[m])), IF w = 0 THEN utf8 ELSE w)
    <3> HIDE DEF D
    <3> QED BY <1>1, <1>2, <1>6, <2>1, XmpStep
  <2> HIDE DEF D, E, new
  <2>4. XmpDone(ops', E, owned', utf8')
    BY <2>2, <2>3
  <2> QED BY <1>3, <2>2, <2>4
<1> QED BY <1>4, <1>5, <1>6 DEF GroupMoves

(* Where a call begins nothing is done yet.                                *)
LEMMA BeginKeeps ==
  ASSUME opts.mappings \subseteq DOMAIN Mapping, XmpAt, Begin
  PROVE  /\ pc' \in {"run", "charset"} /\ UNCHANGED <<call, out, status>> /\ DOMAIN count' = DOMAIN count
         /\ pc' = "run" => m' \in opts.mappings /\ XmpDone(ops', Passed(m'), owned', utf8')
         /\ pc' = "charset" => XmpDone(ops', opts.mappings, owned', utf8')
<1>1. /\ pc = "run" /\ m = 0 /\ Advance /\ opts.mappings \subseteq 1 .. 22
      /\ UNCHANGED <<call, out, ops, count, owned, utf8, texts, status>>
  BY MappingTable DEF Begin, Skip
<1>2. XmpDone(ops, Passed(m), owned, utf8)
  BY <1>1 DEF XmpAt
<1>3. \/ pc' = "run" /\ m' \in opts.mappings /\ Passed(m') = Passed(m)
      \/ pc' = "charset" /\ m' = m /\ opts.mappings = Passed(m)
  <2>1. LET seen == Passed(m) \cup (IF m = 0 THEN {} ELSE {m})
        IN  \/ pc' = "run" /\ m' \in opts.mappings /\ Passed(m') = seen
            \/ pc' = "charset" /\ m' = m /\ opts.mappings = seen
    BY <1>1, AdvancePasses
  <2> QED BY <1>1, <2>1
<1>4. XmpDone(ops', Passed(m), owned', utf8')
  BY <1>1, <1>2
<1> QED BY <1>1, <1>3, <1>4
(* What is written once the marker has been seen to.                       *)
LEMMA WritingIs ==
  ASSUME opts.mappings \subseteq DOMAIN Mapping
  PROVE  LET K == KeysDone(opts.mappings)
         IN  /\ Writing = {Mapping[k] : k \in Wrote(opts.mappings)}
             /\ UNION {KeysOf(g) : g \in Writing} = K
             /\ Marker \notin K
<1>1. Writing = {Mapping[k] : k \in Wrote(opts.mappings)}
  BY DEF Writing, Wrote
<1>2. UNION {KeysOf(g) : g \in Writing} = KeysDone(opts.mappings)
  BY <1>1 DEF KeysDone
<1>3. Marker \notin KeysDone(opts.mappings)
  BY MappingApart DEF KeysDone, Wrote
<1> QED BY <1>1, <1>2, <1>3

(* No marker was called for, or it is there and right.                     *)
LEMMA GroupsAsTheyAre ==
  ASSUME WellFormed(source), opts.mappings \subseteq DOMAIN Mapping,
         XmpDone(ops, opts.mappings, owned, utf8),
         utf8 = 0 \/ (Cardinality(Markers) = 1 /\ \A i \in Markers : source[i].value = Utf8)
  PROVE  OkOps(source, ops) /\ GroupsStand(Run(source, ops))
<1> DEFINE K == KeysDone(opts.mappings)
           a == Run(source, ops)
           keys == UNION {KeysOf(g) : g \in Writing}
           wide == \E g \in Writing : g.kind = "text" /\ WideIn(TextIds(g)) # {}
<1>1. Writing = {Mapping[k] : k \in Wrote(opts.mappings)} /\ keys = K /\ Marker \notin K
  BY WritingIs
<1>2. /\ OkOps(source, ops) /\ Keeps(source, a, K)
      /\ \A k \in Wrote(opts.mappings) : Stood(a, Mapping[k])
      /\ (\E k \in Wrote(opts.mappings) : WideGroup(Mapping[k])) => utf8 # 0
  BY DEF XmpDone
<1>3. wide => utf8 # 0
  BY <1>1, <1>2 DEF WideGroup
<1> HIDE DEF K, a, keys, wide
<1>4. Values(a, Marker) = Values(source, Marker)
  BY <1>1, <1>2, KeepsOthers
<1>5. \A g \in Writing : \A k \in DOMAIN Wants(g) : Stands(a, Wants(g)[k])
  BY <1>1, <1>2 DEF Stood
<1>6. OthersKept(a, keys, keys \cup {Marker})
  BY <1>1, <1>2, KeptOthers
<1>7. wide => Values(a, Marker) = <<Utf8>>
  <2>1. Cardinality(Markers) = 1 /\ (\A i \in Markers : source[i].value = Utf8)
            => Values(source, Marker) = <<Utf8>>
    BY MarkersAre
  <2> QED BY <1>3, <1>4, <2>1
<1>8. GroupsStand(a)
  BY <1>4, <1>5, <1>6, <1>7 DEF GroupsStand, keys, wide
<1> QED BY <1>2, <1>8 DEF a

(* The operations of the marker.                                           *)
MarkerPlaces == [j \in {1} |-> 1]

(* Without a marker its field fits and is not preserved.                   *)
LEMMA MarkerNew ==
  ASSUME WellFormed(source), Markers = {}, NEW i \in Id
  PROVE  LET fields == <<MarkerField(i)>>
         IN  /\ FieldsFit(fields, FALSE, FALSE) /\ ~Preserves(fields)
             /\ NewOps(fields, FALSE, FALSE) = MarkerOps(i, MarkerPlaces)
<1> DEFINE f == MarkerField(i)
           fields == <<f>>
           places == MarkerPlaces
<1>1. LiveOf(source, Marker) = {}
  BY MarkersAre
<1>2. places[1] \in Nat
  BY DEF MarkerPlaces
<1>3. /\ Fits(f, <<>>, FALSE, places) /\ IsSeq(f.values) /\ f.key = Marker
  BY <1>1, <1>2, MarkerFits
<1>4. Natives(Marker, FALSE) = <<>>
  <2>1. FALSE \in BOOLEAN
    OBVIOUS
  <2>2. LET s == Natives(Marker, FALSE)
        IN  /\ IsSeq(s) /\ Len(s) \in Nat /\ DOMAIN s = 1 .. Len(s) /\ Range(s) = LiveOf(source, Marker)
            /\ \A j \in 1 .. Len(s) : s[j] \in LiveOf(source, Marker) /\ s[j] \in 1 .. Len(source)
            /\ \A e \in LiveOf(source, Marker) : \E j \in 1 .. Len(s) : s[j] = e
            /\ \A j, k \in 1 .. Len(s) : s[j] = s[k] => j = k
            /\ (FALSE => s = LiveIn(source, Marker))
            /\ (~FALSE => s = Ascending(LiveOf(source, Marker)))
            /\ (s # <<>> <=> LiveOf(source, Marker) # {})
            /\ Len(s) = Len(LiveIn(source, Marker))
    BY <2>1, NativesFacts
  <2> QED BY <1>1, <2>2
<1>5. DOMAIN f.from = {1}
  BY DEF MarkerField, Field
<1> HIDE DEF f
<1>6. IsSeq(fields) /\ Len(fields) = 1 /\ fields[1] = f
  BY OneIsSeq
<1>7. DOMAIN fields = 1 .. 1
  BY <1>6, SeqFacts
<1>8. NativesFor(fields, FALSE, 1) = <<>>
  BY <1>3, <1>4, <1>6 DEF NativesFor
<1>9. PlacesFor(fields, FALSE, 1) = places
  BY <1>5, <1>6 DEF PlacesFor, MarkerPlaces
<1> HIDE DEF fields, places
<1>10. FieldsFit(fields, FALSE, FALSE)
  <2>1. \A k : k \in 1 .. Len(fields) => k = 1
    BY <1>6
  <2> QED BY <1>3, <1>6, <1>8, <1>9, <2>1 DEF FieldsFit
<1>11. ~Preserves(fields)
  <2>1. \A k \in DOMAIN fields : k = 1
    BY <1>7
  <2>2. Natives(fields[1].key, FALSE) = <<>>
    BY <1>3, <1>4, <1>6
  <2>3. ~HasNatives(fields)
    BY <2>1, <2>2 DEF HasNatives
  <2> QED BY <2>3 DEF Preserves
<1>12. NewOps(fields, FALSE, FALSE) = MarkerOps(i, places)
  <2> DEFINE c == FieldOps(fields, FALSE, FALSE)
             o == Operations(f, <<>>, FALSE, places)
  <2>1. c = [k \in 1 .. 1 |-> Operations(fields[k], NativesFor(fields, FALSE, k), FALSE, PlacesFor(fields, FALSE, k))]
    BY <1>7 DEF FieldOps
  <2>0. Operations(fields[1], NativesFor(fields, FALSE, 1), FALSE, PlacesFor(fields, FALSE, 1)) = o
    BY <1>6, <1>8, <1>9
  <2> HIDE DEF c, o
  <2>2. DOMAIN c = 1 .. 1 /\ c = [k \in 1 .. 1 |-> c[k]] /\ c[1] = o
    <3>1. DOMAIN c = 1 .. 1 /\ c = [k \in 1 .. 1 |-> c[k]]
      BY <2>1
    <3>2. c[1] = Operations(fields[1], NativesFor(fields, FALSE, 1), FALSE, PlacesFor(fields, FALSE, 1))
      BY <2>1
    <3> QED BY <2>0, <3>1, <3>2
  <2>3. o = MarkerOps(i, places)
    BY DEF MarkerOps, f, o
  <2>4. IsSeq(o)
    <3>1. LET d == MarkerOps(i, places)
          IN  /\ OkOps(source, d) /\ Len(d) = 1
              /\ \A j \in 1 .. Len(d) : d[j].kind = "ADD_ENTRY"
      BY <1>1, <1>2, MarkerAdds
    <3> QED BY <2>3, <3>1 DEF OkOps
  <2> HIDE DEF c, o
  <2>5. IsSeq(c) /\ Len(c) = 1
    BY <2>2, SeqMade
  <2>6. AllSeqs(c)
    <3>1. \A n : n \in 1 .. Len(c) => n = 1
      BY <2>5
    <3> QED BY <2>2, <2>4, <2>5, <3>1 DEF AllSeqs
  <2>7. AllSeqs(<<>>) /\ Len(<<>>) = 0
    BY DEF AllSeqs, IsSeq
  <2>8. FlattenSeq(c) = FlattenSeq(<<>>) \o c[1]
    <3> DEFINE none == <<>>
    <3>1. AllSeqs(none) /\ Len(c) = Len(none) + 1 /\ \A n \in 1 .. Len(none) : c[n] = none[n]
      BY <2>5, <2>7
    <3> HIDE DEF none
    <3>2. FlattenSeq(c) = FlattenSeq(none) \o c[Len(c)]
      BY <2>6, <3>1, FlatOne
    <3> QED BY <2>5, <3>2 DEF none
  <2>9. FlattenSeq(c) = o
    BY <2>2, <2>4, <2>8, FlatEmpty, JoinFacts
  <2> QED BY <2>3, <2>9 DEF NewOps, c
<1> QED BY <1>10, <1>11, <1>12 DEF fields, f, places

(* The marker is added: no other text beyond ASCII is there for it to      *)
(* speak of.                                                               *)
LEMMA GroupsMarked ==
  ASSUME WellFormed(source), opts.mappings \subseteq DOMAIN Mapping,
         XmpDone(ops, opts.mappings, owned, utf8), utf8 \in Id, Markers = {}, Undeclared = {}
  PROVE  LET p == ops \o MarkerOps(utf8, MarkerPlaces)
         IN  OkOps(source, p) /\ GroupsStand(Run(source, p))
<1> DEFINE K == KeysDone(opts.mappings)
           a == Run(source, ops)
           p == ops \o MarkerOps(utf8, MarkerPlaces)
           b == Run(source, p)
           keys == UNION {KeysOf(g) : g \in Writing}
<1>1. Writing = {Mapping[k] : k \in Wrote(opts.mappings)} /\ keys = K /\ Marker \notin K
  BY WritingIs
<1>2. /\ OkOps(source, ops) /\ Keeps(source, a, K) /\ Touching(ops, K)
      /\ \A k \in Wrote(opts.mappings) : Stood(a, Mapping[k])
      /\ \A i \in owned : i \in Id /\ source[i].key.name \in K
  BY DEF XmpDone
<1>3. OkOps(source, p) /\ Marks(a, b)
  <2>1. LiveOf(source, Marker) = {} /\ MarkerPlaces[1] \in Nat
    BY MarkersAre DEF MarkerPlaces
  <2> HIDE DEF K
  <2>2. Unmarked(ops, K, utf8, MarkerPlaces)
    BY <1>1, <1>2, <2>1 DEF Unmarked
  <2> QED BY <2>2, MarkerDoes
<1> HIDE DEF K, a, p, b, keys
<1>4. /\ WellFormed(b) /\ Keeps(a, b, {Marker}) /\ Values(b, Marker) = <<Utf8>>
      /\ \A n \in 1 .. Len(a) : b[n] = a[n]
  BY <1>3 DEF Marks
<1>5. Keeps(source, b, K \cup {Marker})
  BY <1>2, <1>4, KeepsOn
<1>6. OthersKept(b, keys, keys \cup {Marker})
  <2>1. OthersKept(b, K \cup {Marker}, K \cup {Marker})
    BY <1>5, KeptOthers
  <2>2. \A i \in Id : source[i].key.name \notin K => b[i] = source[i]
    <3> SUFFICES ASSUME NEW i \in Id, source[i].key.name \notin K PROVE b[i] = source[i]
      OBVIOUS
    <3>1. i \in 1 .. Len(source) /\ Len(source) \in Nat
      BY StoreFacts DEF Id
    <3>2. Len(source) <= Len(a) /\ Len(a) \in Nat /\ a[i] = source[i]
      BY <1>2, <3>1, StoreFacts DEF Keeps
    <3>3. i \in 1 .. Len(a)
      BY <3>1, <3>2
    <3> QED BY <1>4, <3>2, <3>3
  <2> QED BY <1>1, <2>1, <2>2 DEF OthersKept
<1>7. \A g \in Writing : \A k \in DOMAIN Wants(g) : Stands(b, Wants(g)[k])
  <2> SUFFICES ASSUME NEW n \in Wrote(opts.mappings), NEW k \in DOMAIN Wants(Mapping[n])
               PROVE  Stands(b, Wants(Mapping[n])[k])
    BY <1>1
  <2> DEFINE f == Wants(Mapping[n])[k]
  <2>1. Stands(a, f) /\ f.key \in KeysOf(Mapping[n])
    BY <1>2 DEF Stood
  <2>2. f.key \notin {Marker}
    BY <1>1, <2>1 DEF K, KeysDone
  <2>3. Values(b, f.key) = Values(a, f.key)
    BY <1>4, <2>2, KeepsOthers
  <2> QED BY <2>1, <2>3 DEF Stands
<1>8. \A i \in Id : Live(i) /\ source[i].key.name \in Datasets \ K => source[i].value[1] \notin NonAscii
  <2> SUFFICES ASSUME NEW i \in Id, Live(i), source[i].key.name \in Datasets, source[i].key.name \notin K
               PROVE  source[i].value[1] \notin NonAscii
    OBVIOUS
  <2>1. i \notin owned
    BY <1>2
  <2>2. \A j \in DOMAIN ops : ops[j].kind # "ADD_ENTRY" => i # ops[j].target + 1
    <3>1. DOMAIN ops = 1 .. Len(ops)
      BY <1>2, SeqFacts DEF OkOps
    <3> QED BY <1>2, <3>1 DEF Touching
  <2>3. i \notin Touched
    BY <2>1, <2>2 DEF Touched
  <2> QED BY <2>3 DEF Undeclared
<1>9. GroupsStand(b)
  BY <1>1, <1>4, <1>6, <1>7, <1>8 DEF GroupsStand, keys
<1> QED BY <1>3, <1>9 DEF b, p

(* The step on the marker fails, or leaves operations that keep every      *)
(* promise.                                                                *)
LEMMA CharsetKeeps ==
  ASSUME WellFormed(source), opts.mappings \subseteq DOMAIN Mapping, XmpAt, Charset
  PROVE  /\ \/ Fails
            \/ /\ pc' = "commit" /\ UNCHANGED <<call, out, status>>
               /\ OkOps(source, ops') /\ GroupsStand(Run(source, ops'))
         /\ DOMAIN count' = DOMAIN count
<1> DEFINE right == utf8 = 0 \/ (Cardinality(Markers) = 1 /\ \A i \in Markers : source[i].value = Utf8)
           fields == <<MarkerField(utf8)>>
<1>1. XmpDone(ops, opts.mappings, owned, utf8)
  BY DEF XmpAt, Charset
<1>2. utf8 = 0 \/ utf8 \in Id
  BY <1>1 DEF XmpDone
<1>3. CASE right
  <2>1. pc' = "commit" /\ UNCHANGED <<call, out, ops, count, status>>
    BY <1>3 DEF Charset
  <2>2. OkOps(source, ops) /\ GroupsStand(Run(source, ops))
    BY <1>1, <1>3, GroupsAsTheyAre
  <2> QED BY <2>1, <2>2
<1>4. CASE ~right /\ (Markers # {} \/ Undeclared # {})
  <2>1. Fail("ENCODING_CONFLICT")
    BY <1>4 DEF Charset
  <2> QED BY <2>1 DEF Fails, Fail
<1>5. CASE ~right /\ Markers = {} /\ Undeclared = {}
  <2>1. Reconcile(fields, FALSE, FALSE, 0, 0, "commit")
    BY <1>5 DEF Charset, MarkerField
  <2>2. /\ FieldsFit(fields, FALSE, FALSE) /\ ~Preserves(fields)
        /\ NewOps(fields, FALSE, FALSE) = MarkerOps(utf8, MarkerPlaces)
    BY <1>2, <1>5, MarkerNew
  <2>3. FALSE \in BOOLEAN /\ IsSeq(ops)
    BY <1>1 DEF XmpDone, OkOps
  <2> HIDE DEF fields
  <2>4. /\ \/ Fails
           \/ Preserves(fields) /\ Stays("commit")
           \/ ~Preserves(fields) /\ Records(fields, NewOps(fields, FALSE, FALSE), 0, "commit")
        /\ DOMAIN count' = DOMAIN count
    BY <2>1, <2>2, <2>3, ReconcileDoes
  <2>5. CASE Fails
    BY <2>4, <2>5
  <2>6. CASE Records(fields, NewOps(fields, FALSE, FALSE), 0, "commit")
    <3>1. ops' = ops \o MarkerOps(utf8, MarkerPlaces) /\ pc' = "commit" /\ UNCHANGED <<call, out, status>>
      BY <2>2, <2>6 DEF Records, Goes
    <3>2. LET p == ops \o MarkerOps(utf8, MarkerPlaces)
          IN  OkOps(source, p) /\ GroupsStand(Run(source, p))
      BY <1>1, <1>2, <1>5, GroupsMarked
    <3> QED BY <2>4, <3>1, <3>2
  <2> QED BY <2>2, <2>4, <2>5, <2>6
<1> QED BY <1>3, <1>4, <1>5

-----------------------------------------------------------------------------
(* The calls, and what each promises of a store.                           *)
Good(store) ==
    IF opts.api \notin ExifApis
    THEN IF opts.api = "xmp" THEN GroupsStand(store) ELSE PromisesStand(store)
    ELSE IF opts.api = "exif_text" THEN TextsStand(store) ELSE GpsStands(store)

(* The calls, told apart.                                                  *)
LEMMA Apis ==
  /\ ExifApis = GpsApis \cup {"exif_text"} /\ "exif_text" \notin GpsApis
  /\ Exchanges \cap ExifApis = {} /\ "xmp" \notin Exchanges \cup ExifApis
  /\ ValidOptions(opts) =>
        /\ opts.api \in {"xmp"} \cup Exchanges \cup ExifApis
        /\ opts.api = "xmp" => opts.mappings \subseteq DOMAIN Mapping
<1>1. GpsApis = {"gps", "gps_navigation", "gps_destination", "gps_quality", "gps_text"}
  BY DEF GpsApis, GpsGroups
<1> QED BY <1>1 DEF ExifApis, Exchanges, ValidOptions

(* Whether a store is good depends on the source and the options alone.    *)
LEMMA GoodFrame ==
  ASSUME source' = source, opts' = opts
  PROVE  \A st : Good(st)' <=> Good(st)
<1>1. \A st : PromisesStand(st)' <=> PromisesStand(st)
  BY PromisesFrame
<1>2. \A st : GroupsStand(st)' <=> GroupsStand(st)
  BY XmpFrame
<1>3. \A st : (TextsStand(st)' <=> TextsStand(st)) /\ (GpsStands(st)' <=> GpsStands(st))
  BY TextsFrame, GpsFrame
<1> QED BY <1>1, <1>2, <1>3 DEF Good

(* The invariant: the call is one of the program's, on a store of the      *)
(* program's; what was recorded so far does what the groups passed by      *)
(* want; an edit that is to be committed makes the store that is promised. *)
TranslateInv ==
    /\ WellFormed(source) /\ ValidOptions(opts) /\ (trip = <<>> => opts \in Options)
    /\ pc \in {"run", "charset", "commit", "failed", "done"}
    /\ pc \in {"run", "charset", "commit"} => status = "OK"
    /\ pc = "failed" => status # "OK"
    /\ ~Succeeded => out = <<>>
    /\ Succeeded => WellFormed(out) /\ Good(out)
    /\ opts.api = "xmp" => XmpAt /\ Reports \subseteq DOMAIN count
    /\ pc = "commit" => OkOps(source, ops) /\ Good(Run(source, ops))
    /\ pc = "done" /\ status # "OK" =>
          /\ opts.api = "xmp" => count.translated + count.added + count.updated + count.removed = 0
          /\ opts.api \in Exchanges /\ opts.api # "xmp_iptc" => count = NoCount

(* A step that fails the call.                                             *)
LEMMA InvFails ==
  ASSUME TranslateInv, pc \in {"run", "charset", "commit"}, pc' = "failed", status' # "OK",
         UNCHANGED <<call, trip, out>>, opts.api = "xmp" => DOMAIN count' = DOMAIN count
  PROVE  TranslateInv'
<1>1. source' = source /\ opts' = opts /\ trip' = trip /\ out' = out
  BY DEF call
<1>2. ~Succeeded /\ out = <<>>
  BY DEF TranslateInv, Succeeded
<1>3. WellFormed(source) /\ ValidOptions(opts) /\ (trip = <<>> => opts \in Options)
  BY DEF TranslateInv
<1>4. WellFormed(source)' /\ ValidOptions(opts)' /\ (trip = <<>> => opts \in Options)'
  BY <1>1, <1>3
<1>5. ~Succeeded'
  BY DEF Succeeded
<1>6. (opts.api = "xmp" => XmpAt /\ Reports \subseteq DOMAIN count)'
  BY <1>1 DEF TranslateInv, XmpAt
<1> QED BY <1>1, <1>2, <1>4, <1>5, <1>6 DEF TranslateInv

(* A step that leaves but the commit to do.                                *)
LEMMA InvReady ==
  ASSUME TranslateInv, pc \in {"run", "charset"}, pc' = "commit",
         UNCHANGED <<call, trip, out, status>>, opts.api = "xmp" => DOMAIN count' = DOMAIN count,
         OkOps(source, ops'), Good(Run(source, ops'))
  PROVE  TranslateInv'
<1>1. source' = source /\ opts' = opts /\ trip' = trip /\ out' = out /\ status' = status
  BY DEF call
<1>2. out = <<>> /\ status = "OK"
  BY DEF TranslateInv, Succeeded
<1>3. WellFormed(source) /\ ValidOptions(opts) /\ (trip = <<>> => opts \in Options)
  BY DEF TranslateInv
<1>4. WellFormed(source)' /\ ValidOptions(opts)' /\ (trip = <<>> => opts \in Options)'
  BY <1>1, <1>3
<1>5. ~Succeeded'
  BY DEF Succeeded
<1>6. (opts.api = "xmp" => XmpAt /\ Reports \subseteq DOMAIN count)'
  BY <1>1 DEF TranslateInv, XmpAt
<1>7. (OkOps(source, ops) /\ Good(Run(source, ops)))'
  <2> DEFINE st == Run(source, ops')
  <2>1. Run(source, ops)' = st
    BY <1>1
  <2>2. Good(st)
    OBVIOUS
  <2>3. OkOps(source, ops)'
    BY <1>1
  <2> HIDE DEF st
  <2>4. Good(Run(source, ops))'
    BY <1>1, <2>1, <2>2, GoodFrame
  <2> QED BY <2>3, <2>4
<1> QED BY <1>1, <1>2, <1>4, <1>5, <1>6, <1>7 DEF TranslateInv

(* A step of the driver that goes on.                                      *)
LEMMA InvMoves ==
  ASSUME TranslateInv, opts.api = "xmp", pc \in {"run", "charset"}, pc' \in {"run", "charset"},
         UNCHANGED <<call, trip, out, status>>, DOMAIN count' = DOMAIN count,
         pc' = "run" => m' \in opts.mappings /\ XmpDone(ops', Passed(m'), owned', utf8'),
         pc' = "charset" => XmpDone(ops', opts.mappings, owned', utf8')
  PROVE  TranslateInv'
<1>1. source' = source /\ opts' = opts /\ trip' = trip /\ out' = out /\ status' = status
  BY DEF call
<1>2. out = <<>> /\ status = "OK"
  BY DEF TranslateInv, Succeeded
<1>3. WellFormed(source) /\ ValidOptions(opts) /\ (trip = <<>> => opts \in Options)
  BY DEF TranslateInv
<1>4. WellFormed(source)' /\ ValidOptions(opts)' /\ (trip = <<>> => opts \in Options)'
  BY <1>1, <1>3
<1>5. ~Succeeded'
  BY DEF Succeeded
<1>6. XmpAt'
  <2>1. \A n : Passed(n)' = Passed(n)
    BY <1>1 DEF Passed
  <2>2. Passed(m)' = Passed(m')
    BY <1>1 DEF Passed
  <2>3. pc' = "run" => XmpDone(ops, Passed(m), owned, utf8)'
    BY <1>1, <2>2, XmpFrame
  <2>4. pc' = "charset" => XmpDone(ops, opts.mappings, owned, utf8)'
    BY <1>1, XmpFrame
  <2> QED BY <1>1, <2>3, <2>4 DEF XmpAt
<1>7. (Reports \subseteq DOMAIN count)'
  BY DEF TranslateInv
<1> QED BY <1>1, <1>2, <1>4, <1>5, <1>6, <1>7 DEF TranslateInv

(* A commit keeps the invariant: what is committed is what the operations, *)
(* run in turn, leave.                                                     *)
LEMMA InvCommit ==
  ASSUME TranslateInv, Commit, UNCHANGED trip
  PROVE  TranslateInv'
<1>1. /\ pc = "commit" /\ pc' = "done" /\ status = "OK"
      /\ out' = [i \in 1 .. Store!Size |-> Store!Edited(i)]
      /\ source' = source /\ opts' = opts /\ trip' = trip /\ status' = status /\ count' = count
  BY DEF Commit, call, TranslateInv
<1> DEFINE st == Run(source, ops)
<1>2. out' = st
  BY <1>1, CommitIsRun
<1>3. WellFormed(source) /\ OkOps(source, ops) /\ Good(st)
  BY <1>1 DEF TranslateInv
<1>4. WellFormed(st)
  BY <1>3, RunShape
<1> HIDE DEF st
<1>5. Good(out)'
  BY <1>1, <1>2, <1>3, GoodFrame
<1>6. WellFormed(out)'
  BY <1>2, <1>4 DEF WellFormed, WellMade
<1>7. WellFormed(source) /\ ValidOptions(opts) /\ (trip = <<>> => opts \in Options)
  BY DEF TranslateInv
<1>8. WellFormed(source)' /\ ValidOptions(opts)' /\ (trip = <<>> => opts \in Options)'
  BY <1>1, <1>7
<1>9. Succeeded'
  BY <1>1 DEF Succeeded
<1>10. (opts.api = "xmp" => XmpAt /\ Reports \subseteq DOMAIN count)'
  BY <1>1 DEF TranslateInv, XmpAt
<1> QED BY <1>1, <1>5, <1>6, <1>8, <1>9, <1>10 DEF TranslateInv

(* A call that failed returns.                                             *)
LEMMA InvReturns ==
  ASSUME TranslateInv, pc = "failed", pc' = "done", UNCHANGED <<call, trip, out, status>>,
         opts.api = "xmp" =>
            /\ DOMAIN count' = DOMAIN count
            /\ count'.translated + count'.added + count'.updated + count'.removed = 0,
         opts.api \in Exchanges /\ opts.api # "xmp_iptc" => count' = NoCount
  PROVE  TranslateInv'
<1>1. source' = source /\ opts' = opts /\ trip' = trip /\ out' = out /\ status' = status
  BY DEF call
<1>2. ~Succeeded /\ out = <<>> /\ status # "OK"
  BY DEF TranslateInv, Succeeded
<1>3. WellFormed(source) /\ ValidOptions(opts) /\ (trip = <<>> => opts \in Options)
  BY DEF TranslateInv
<1>4. WellFormed(source)' /\ ValidOptions(opts)' /\ (trip = <<>> => opts \in Options)'
  BY <1>1, <1>3
<1>5. ~Succeeded'
  BY <1>1, <1>2 DEF Succeeded
<1>6. (opts.api = "xmp" => XmpAt /\ Reports \subseteq DOMAIN count)'
  BY <1>1 DEF TranslateInv, XmpAt
<1> QED BY <1>1, <1>2, <1>4, <1>5, <1>6 DEF TranslateInv

(* A call begins.                                                          *)
Begins == pc = "run" /\ m = 0 /\ ops = <<>> /\ owned = {} /\ utf8 = 0

(* A call from XMP that begins has done nothing.                           *)
LEMMA XmpBegins ==
  WellFormed(source) /\ opts.mappings \subseteq DOMAIN Mapping /\ Begins => XmpAt
<1> SUFFICES ASSUME WellFormed(source), opts.mappings \subseteq DOMAIN Mapping, Begins
             PROVE  XmpAt
  OBVIOUS
<1>1. Passed(0) = {}
  <2>1. \A k \in opts.mappings : k \in 1 .. 22
    BY MappingTable
  <2>2. \A k \in opts.mappings : ~(k < 0)
    BY <2>1
  <2> QED BY <2>2 DEF Passed
<1>2. XmpDone(<<>>, {}, {}, 0)
  BY XmpStarts
<1> QED BY <1>1, <1>2 DEF XmpAt, Begins

(* The invariant holds where a call begins.                                *)
LEMMA InvBegins ==
  /\ WellFormed(source) /\ ValidOptions(opts) /\ (trip = <<>> => opts \in Options)
  /\ Begins /\ status = "OK" /\ out = <<>> /\ count = NoCount
  => TranslateInv
<1> SUFFICES ASSUME /\ WellFormed(source) /\ ValidOptions(opts) /\ (trip = <<>> => opts \in Options)
                    /\ Begins /\ status = "OK" /\ out = <<>> /\ count = NoCount
             PROVE  TranslateInv
  OBVIOUS
<1>1. opts.api = "xmp" => XmpAt
  BY Apis, XmpBegins
<1>2. Reports \subseteq DOMAIN count
  BY DEF Reports, NoCount
<1>3. pc = "run" /\ ~Succeeded
  BY DEF Begins, Succeeded
<1> QED BY <1>1, <1>2, <1>3 DEF TranslateInv

(* The same in the next state.                                             *)
LEMMA InvBeginsThen ==
  (/\ WellFormed(source) /\ ValidOptions(opts) /\ (trip = <<>> => opts \in Options)
   /\ Begins /\ status = "OK" /\ out = <<>> /\ count = NoCount
   => TranslateInv)'
BY InvBegins, PTL

(* The result becomes the store of a call.                                 *)
LEMMA InvAgain ==
  ASSUME TranslateInv, pc = "done", status = "OK", source' = out, out' = <<>>, status' = status,
         m' = 0, ops' = <<>>, count' = NoCount, owned' = {}, utf8' = 0, pc' = "run",
         ValidOptions(opts'), trip' = <<>> => opts' \in Options
  PROVE  TranslateInv'
<1>1. WellFormed(out)
  BY DEF TranslateInv, Succeeded
<1>2. WellFormed(source)' /\ ValidOptions(opts)'
  BY <1>1
<1>3. Begins'
  BY DEF Begins
<1> QED BY <1>2, <1>3, InvBeginsThen

(* A plan is carried out, or fails the call.                               *)
LEMMA InvDecide ==
  ASSUME TranslateInv, opts.api # "xmp", pc = "run", NEW verdicts, NEW new, NEW all, NEW some,
         Decide(verdicts, new, all, some),
         FirstBad(verdicts) = "OK" => OkOps(source, new) /\ Good(Run(source, new))
  PROVE  TranslateInv'
<1>1. UNCHANGED <<call, trip, out>> /\ pc \in {"run", "charset"}
  BY DEF Decide
<1>2. CASE FirstBad(verdicts) = "OK"
  <2>1. ops' = new /\ pc' = "commit" /\ status' = status
    BY <1>2 DEF Decide
  <2>2. OkOps(source, ops') /\ Good(Run(source, ops'))
    BY <1>2, <2>1
  <2> QED BY <1>1, <2>1, <2>2, InvReady
<1>3. CASE FirstBad(verdicts) # "OK"
  <2>1. status' # "OK" /\ pc' = "failed"
    BY <1>3 DEF Decide
  <2> QED BY <1>1, <2>1, InvFails
<1> QED BY <1>2, <1>3

(* The step of a call from IPTC keeps the invariant.                       *)
LEMMA IptcStep ==
  ASSUME TranslateInv, ToIptc
  PROVE  TranslateInv'
<1> DEFINE c == [n \in DOMAIN Written |-> IptcChanges(Written[n])]
           new == XmpNew \o MarkerAdded
           limits == Limits(new)
           v == Over(Selected, Collected) \o Over(XmpChosen, Compared) \o Declared \o limits
           all == Tally(c, MarkerAdded, Len(XmpChosen) - Len(Written))
<1>1. opts.api = "xmp_iptc" /\ pc = "run" /\ Decide(v, new, all, Reached)
  BY DEF ToIptc, XmpNew
<1>2. WellFormed(source) /\ ValidOptions(opts)
  BY DEF TranslateInv
<1>3. IsSeq(limits)
  BY OneIsSeq DEF Limits
<1>4. ASSUME FirstBad(v) = "OK" PROVE OkOps(source, new) /\ Good(Run(source, new))
  <2> HIDE DEF limits
  <2>1. LET p == XmpNew \o MarkerAdded
        IN  OkOps(source, p) /\ PromisesStand(Run(source, p))
    BY <1>1, <1>2, <1>3, <1>4, WrittenGood
  <2> QED BY <1>1, <2>1, Apis DEF Good, Exchanges
<1> HIDE DEF v, new, all
<1> QED BY <1>1, <1>4, InvDecide

(* So does that of a call from XMP to IPTC.                                *)
LEMMA XmpTextsStep ==
  ASSUME TranslateInv, ToXmp
  PROVE  TranslateInv'
<1> DEFINE c == [n \in DOMAIN Filled |-> XmpChanges(Filled[n])]
           limits == Limits(FilledNew)
           v == Over(IptcChosen, Enumerated) \o Over(IptcChosen, Measured)
                      \o Over(Filled, Shaped) \o Over(IptcChosen, Decoded)
                      \o Over(Filled, Readable) \o Over(Filled, Agreed) \o limits
           all == Tally(c, <<>>, Len(IptcChosen) - Len(Filled))
<1>1. opts.api = "iptc_to_xmp" /\ pc = "run" /\ Decide(v, FilledNew, all, NoCount)
  BY DEF ToXmp, FilledNew
<1>2. WellFormed(source) /\ ValidOptions(opts)
  BY DEF TranslateInv
<1>3. IsSeq(limits)
  BY OneIsSeq DEF Limits
<1>4. ASSUME FirstBad(v) = "OK" PROVE OkOps(source, FilledNew) /\ Good(Run(source, FilledNew))
  <2> HIDE DEF limits
  <2>1. OkOps(source, FilledNew) /\ PromisesStand(Run(source, FilledNew))
    BY <1>1, <1>2, <1>3, <1>4, FilledGood
  <2> QED BY <1>1, <2>1, Apis DEF Good, Exchanges
<1> HIDE DEF v, all
<1> QED BY <1>1, <1>4, InvDecide

(* So does that of a call from IPTC dates to XMP.                          *)
LEMMA XmpDatesStep ==
  ASSUME TranslateInv, ToXmpDates
  PROVE  TranslateInv'
<1> DEFINE c == [j \in DOMAIN Drawn |-> PairChanges(Drawn[j])]
           v == Scanned \o Over(PairsChosen, Together) \o Inspectable
                      \o Over(PairsChosen, LAMBDA n : Prepared(n) \o Acted(n)) \o Limits(PairsNew)
           all == Tally(c, <<>>, Len(PairsChosen) - Len(Drawn))
<1>1. opts.api = "iptc_dates_to_xmp" /\ pc = "run" /\ Decide(v, PairsNew, all, NoCount)
  BY DEF ToXmpDates, PairsNew
<1>2. OkOps(source, PairsNew) /\ PromisesStand(Run(source, PairsNew))
  BY <1>1, PairsGood DEF TranslateInv
<1>3. Good(Run(source, PairsNew))
  BY <1>1, <1>2, Apis DEF Good, Exchanges
<1> HIDE DEF v, all
<1> QED BY <1>1, <1>2, <1>3, InvDecide

(* So does that of a GPS call.                                             *)
LEMMA GpsStep ==
  ASSUME TranslateInv, ToGps
  PROVE  TranslateInv'
<1> DEFINE c == [n \in DOMAIN GpsWritten |-> GpsChanges(GpsWritten[n])]
           limits == Limits(GpsNew)
           v == Then(Then(GpsSources, Over(GpsChosen, GpsCompared)), limits)
           all == [Counted(GpsNew) EXCEPT
                     !.translated = Len(SelectSeq(c, LAMBDA e : e # <<>>)),
                     !.preserved = Len(GpsChosen) - Len(GpsWritten),
                     !.unchanged = Len(SelectSeq(c, LAMBDA e : e = <<>>))]
<1>1. opts.api \in GpsApis /\ pc = "run" /\ Decide(v, GpsNew, all, GpsReached)
  BY DEF ToGps, GpsNew
<1>2. WellFormed(source) /\ ValidOptions(opts)
  BY DEF TranslateInv
<1>3. IsSeq(limits)
  BY OneIsSeq DEF Limits
<1>4. opts.api \in ExifApis /\ opts.api # "exif_text" /\ opts.api # "xmp"
  BY <1>1, Apis
<1>5. ASSUME FirstBad(v) = "OK" PROVE OkOps(source, GpsNew) /\ Good(Run(source, GpsNew))
  <2> HIDE DEF limits
  <2>1. OkOps(source, GpsNew) /\ GpsStands(Run(source, GpsNew))
    BY <1>1, <1>2, <1>3, <1>5, GpsGood
  <2> QED BY <1>4, <2>1 DEF Good
<1> HIDE DEF v, all
<1> QED BY <1>1, <1>4, <1>5, InvDecide

(* What is scanned for texts is a sequence.                                *)
LEMMA ScanIsSeq ==
  ASSUME WellFormed(source)
  PROVE  IsSeq(TextsScanned)
<1> DEFINE taken == UNION {TextSources(k) : k \in opts.mappings}
           strange == UNION {StrangeTexts(k) : k \in opts.mappings}
           s == Ascending(taken \cup strange)
           entry(i, n) ==
               LET k == CHOOSE h \in opts.mappings : i \in TextSources(h) \cup StrangeTexts(h)
                   upto == {h \in taken : h <= i}
                   content == <<When(Word(i) \in TooLong, "VALUE_TOO_LONG"),
                                When(Cardinality({h \in upto : Live(h)}) > opts.maxTexts, "LIMIT"),
                                When(\/ Word(i) \in Unparsable
                                     \/ <<ExifTexts[k].key, Word(i)>> \in Unfit, "INVALID_SOURCE")>>
               IN  FirstBad(<<When(i \in strange, "UNSUPPORTED_SHAPE"),
                              When(\E h \in TextSources(k) : h < i, "AMBIGUOUS_SOURCE"),
                              When(Cardinality(upto) > opts.maxSources, "LIMIT")>>
                            \o IF Live(i) THEN content ELSE <<>>)
<1>1. taken \cup strange \subseteq Id
  <2>1. \A k : TextSources(k) \subseteq Id /\ StrangeTexts(k) \subseteq Id
    BY DEF TextSources, StrangeTexts
  <2> SUFFICES ASSUME NEW x \in taken \cup strange PROVE x \in Id
    OBVIOUS
  <2>2. \E k \in opts.mappings : x \in TextSources(k) \/ x \in StrangeTexts(k)
    OBVIOUS
  <2> QED BY <2>1, <2>2
<1>2. TextsScanned = [j \in DOMAIN s |-> entry(s[j], j)]
  BY DEF TextsScanned, ForEach
<1> HIDE DEF entry
<1>3. IsFiniteSet(taken \cup strange) /\ \A x \in taken \cup strange : x \in Nat
  <2>1. DOMAIN source = 1 .. Len(source) /\ Len(source) \in Nat
    BY StoreFacts
  <2> HIDE DEF taken, strange
  <2> QED BY <1>1, <2>1, SmallSets DEF Id
<1> HIDE DEF taken, strange
<1>4. IsSeq(s)
  BY <1>3, AscendingFacts
<1> HIDE DEF s
<1>5. DOMAIN TextsScanned = DOMAIN s /\ TextsScanned = [j \in DOMAIN s |-> TextsScanned[j]]
  BY <1>2
<1> QED BY <1>4, <1>5, MadeOf

(* The step of a call for EXIF texts keeps the invariant.                  *)
LEMMA TextsStep ==
  ASSUME TranslateInv, ToExifText
  PROVE  TranslateInv'
<1> DEFINE c == [n \in DOMAIN TextWritten |-> TextChanges(TextWritten[n])]
           limits == Limits(TextNew)
           weighed == Over(TextChosen, Weighed) \o Crossed
           v == Then(Then(TextsScanned, weighed), limits)
           kept == Len(SelectSeq(TextChosen, TextKept))
           all == [Tally(c, <<>>, kept) EXCEPT
                     !.translated = Len(TextWritten),
                     !.unchanged = Len(TextChosen) - Len(TextWritten) - kept]
<1>1. opts.api = "exif_text" /\ pc = "run" /\ Decide(v, TextNew, all, NoCount)
  BY DEF ToExifText, TextNew
<1>2. WellFormed(source) /\ ValidOptions(opts)
  BY DEF TranslateInv
<1>3. IsSeq(limits)
  BY OneIsSeq DEF Limits
<1>4. opts.api \in ExifApis /\ opts.api # "xmp"
  BY <1>1, Apis
<1>5. IsSeq(weighed)
  <2>1. LET d == [n \in DOMAIN TextChosen |-> Weighed(TextChosen[n])]
        IN  /\ AllSeqs(d) /\ Len(d) = Len(TextChosen) /\ Over(TextChosen, Weighed) = FlattenSeq(d)
            /\ \A n \in 1 .. Len(TextChosen) : d[n] = Weighed(TextChosen[n])
            /\ IsSeq(FlattenSeq(d)) /\ IsSeq(Crossed)
    BY <1>1, <1>2, WeighedSeqs
  <2>2. IsSeq(Over(TextChosen, Weighed)) /\ IsSeq(Crossed)
    BY <2>1
  <2> QED BY <2>2, JoinFacts
<1>6. ASSUME FirstBad(v) = "OK" PROVE OkOps(source, TextNew) /\ Good(Run(source, TextNew))
  <2> HIDE DEF limits
  <2>1. IsSeq(TextsScanned)
    BY <1>2, ScanIsSeq
  <2>2. FirstBad(weighed) = "OK"
    <3> HIDE DEF weighed
    <3>1. IsSeq(Then(TextsScanned, weighed))
      BY <1>5, <2>1, ThenIsSeq
    <3>2. FirstBad(Then(TextsScanned, weighed)) = "OK"
      BY <1>3, <1>6, <3>1, ThenOk
    <3> QED BY <1>5, <2>1, <3>2, ThenOk
  <2>3. TextsStand(Run(source, TextNew))
    BY <1>1, <1>2, <2>2, TextsGood
  <2>4. OkOps(source, TextNew)
    BY <1>1, <1>2, TextsDone
  <2> QED BY <1>1, <1>4, <2>3, <2>4 DEF Good
<1> HIDE DEF v, all
<1> QED BY <1>1, <1>4, <1>6, InvDecide

(* So does the next call's taking over what this one left.                 *)
LEMMA AdoptStep ==
  ASSUME TranslateInv, Adopt, UNCHANGED trip
  PROVE  TranslateInv'
<1>1. /\ pc = "done" /\ status = "OK" /\ source' = out /\ out' = <<>> /\ status' = status /\ opts' = opts
      /\ m' = 0 /\ ops' = <<>> /\ count' = NoCount /\ owned' = {} /\ utf8' = 0 /\ pc' = "run"
  BY DEF Adopt
<1>2. ValidOptions(opts) /\ (trip = <<>> => opts \in Options)
  BY DEF TranslateInv
<1>3. ValidOptions(opts') /\ (trip' = <<>> => opts' \in Options)
  BY <1>1, <1>2
<1> QED BY <1>1, <1>3, InvAgain

(* A group of omc_translate_xmp.                                           *)
LEMMA GroupStep ==
  ASSUME TranslateInv, opts.api = "xmp", pc = "run", m > 0, GroupMoves, UNCHANGED trip
  PROVE  TranslateInv'
<1>1. /\ WellFormed(source) /\ opts.mappings \subseteq DOMAIN Mapping /\ XmpAt
      /\ m \in DOMAIN Mapping
  <2>1. WellFormed(source) /\ opts.mappings \subseteq DOMAIN Mapping /\ XmpAt
    BY Apis DEF TranslateInv
  <2> QED BY <2>1 DEF XmpAt
<1>2. DOMAIN count' = DOMAIN count
  BY DEF GroupMoves
<1>3. CASE Fails
  <2>1. status' # "OK" /\ pc' = "failed" /\ UNCHANGED <<call, out>>
    BY <1>3 DEF Fails, Fail
  <2> QED BY <1>2, <2>1, InvFails
<1>4. CASE ~Fails
  <2>1. /\ pc' \in {"run", "charset"} /\ UNCHANGED <<call, out, status>>
        /\ pc' = "run" => m' \in opts.mappings /\ XmpDone(ops', Passed(m'), owned', utf8')
        /\ pc' = "charset" => XmpDone(ops', opts.mappings, owned', utf8')
    BY <1>1, <1>4, GroupKeeps
  <2> QED BY <1>2, <2>1, InvMoves
<1> QED BY <1>3, <1>4

(* So does every step of a call from XMP to EXIF.                          *)
LEMMA XmpNext ==
  ASSUME TranslateInv, OfTranslation
  PROVE  TranslateInv'
<1>1. opts.api = "xmp" /\ Next /\ UNCHANGED trip
  BY DEF OfTranslation
<1>2. WellFormed(source) /\ opts.mappings \subseteq DOMAIN Mapping /\ XmpAt /\ Reports \subseteq DOMAIN count
  BY <1>1, Apis DEF TranslateInv
<1>3. pc \in {"run", "charset"} => IsSeq(ops)
  BY <1>2 DEF XmpAt, XmpDone, OkOps, TranslateInv
<1>4. CASE Begin
  <2>1. /\ pc' \in {"run", "charset"} /\ UNCHANGED <<call, out, status>> /\ DOMAIN count' = DOMAIN count
        /\ pc' = "run" => m' \in opts.mappings /\ XmpDone(ops', Passed(m'), owned', utf8')
        /\ pc' = "charset" => XmpDone(ops', opts.mappings, owned', utf8')
    BY <1>2, <1>4, BeginKeeps
  <2>2. pc \in {"run", "charset"}
    BY <1>4 DEF Begin
  <2> QED BY <1>1, <2>1, <2>2, InvMoves
<1>5. CASE DateGroup \/ CaptureGroup \/ TextGroup \/ GeometryGroup
  <2>1. pc = "run" /\ m > 0
    BY <1>5 DEF DateGroup, CaptureGroup, TextGroup, GeometryGroup, OnGroup
  <2>2. m \in DOMAIN Mapping /\ IsSeq(ops)
    BY <1>2, <1>3, <2>1 DEF XmpAt
  <2>3. GroupMoves
    BY <1>2, <1>5, <2>2, DateMoves, CaptureMoves, TextMoves, GeometryMoves
  <2> QED BY <1>1, <2>1, <2>3, GroupStep
<1>6. CASE Charset
  <2>1. /\ \/ Fails
           \/ /\ pc' = "commit" /\ UNCHANGED <<call, out, status>>
              /\ OkOps(source, ops') /\ GroupsStand(Run(source, ops'))
        /\ DOMAIN count' = DOMAIN count
    BY <1>2, <1>6, CharsetKeeps
  <2>2. pc \in {"run", "charset"} /\ pc \in {"run", "charset", "commit"}
    BY <1>6 DEF Charset
  <2>3. CASE Fails
    <3>1. status' # "OK" /\ pc' = "failed" /\ UNCHANGED <<call, out>>
      BY <2>3 DEF Fails, Fail
    <3> QED BY <1>1, <2>1, <2>2, <3>1, InvFails
  <2>4. CASE ~Fails
    <3>1. Good(Run(source, ops'))
      BY <1>1, <2>1, <2>4, Apis DEF Good
    <3> QED BY <1>1, <2>1, <2>2, <2>4, <3>1, InvReady
  <2> QED BY <2>3, <2>4
<1>7. CASE Commit
  BY <1>1, <1>7, InvCommit
<1>8. CASE AllocFails
  <2>1. /\ pc \in {"run", "charset", "commit"} /\ pc' = "failed" /\ status' # "OK"
        /\ UNCHANGED <<call, out>> /\ DOMAIN count' = DOMAIN count
    BY <1>8 DEF AllocFails, Fail
  <2> QED BY <1>1, <2>1, InvFails
<1>9. CASE Return
  <2>1. pc = "failed" /\ pc' = "done" /\ UNCHANGED <<call, out, status>>
    BY <1>9 DEF Return
  <2>2. count' = [count EXCEPT !.translated = 0, !.added = 0, !.updated = 0, !.removed = 0]
    BY <1>9 DEF Return
  <2>3. /\ DOMAIN count' = DOMAIN count
        /\ count'.translated = 0 /\ count'.added = 0 /\ count'.updated = 0 /\ count'.removed = 0
    BY <1>2, <2>2 DEF Reports
  <2>4. count'.translated + count'.added + count'.updated + count'.removed = 0
    BY <2>3
  <2>5. ~(opts.api \in Exchanges)
    BY <1>1 DEF Exchanges
  <2> QED BY <1>1, <2>1, <2>3, <2>4, <2>5, InvReturns
<1>10. CASE Adopt
  BY <1>1, <1>10, AdoptStep
<1> QED BY <1>1, <1>4, <1>5, <1>6, <1>7, <1>8, <1>9, <1>10 DEF Next

(* The steps the other calls share, and the client that turns back.        *)
LEMMA OthersStep ==
  ASSUME TranslateInv, Shared \/ ExchangeReturn \/ TurnBack \/ ExifFails \/ ExifReturn \/ ExifShared
  PROVE  TranslateInv'
<1>1. CASE Shared
  <2>1. opts.api # "xmp" /\ UNCHANGED trip /\ (Commit \/ AllocFails \/ Adopt)
    BY <1>1, Apis DEF Shared
  <2>2. CASE AllocFails
    <3>1. /\ pc \in {"run", "charset", "commit"} /\ pc' = "failed" /\ status' # "OK"
          /\ UNCHANGED <<call, out>>
      BY <2>2 DEF AllocFails, Fail
    <3> QED BY <2>1, <3>1, InvFails
  <2> QED BY <2>1, <2>2, InvCommit, AdoptStep
<1>2. CASE ExchangeReturn
  <2>1. /\ opts.api \in Exchanges /\ pc = "failed" /\ pc' = "done" /\ UNCHANGED <<call, trip, out, status>>
        /\ opts.api # "xmp_iptc" => count' = NoCount
    BY <1>2 DEF ExchangeReturn
  <2>2. opts.api # "xmp"
    BY <2>1 DEF Exchanges
  <2> QED BY <2>1, <2>2, InvReturns
<1>3. CASE TurnBack
  <2>1. /\ pc = "done" /\ status = "OK" /\ trip = <<>> /\ source' = out /\ out' = <<>> /\ status' = status
        /\ m' = 0 /\ ops' = <<>> /\ count' = NoCount /\ owned' = {} /\ utf8' = 0 /\ pc' = "run"
        /\ opts' \in Returns(opts)
    BY <1>3 DEF TurnBack
  <2>2. trip' # <<>>
    <3>1. \A x : <<x>> # <<>>
      OBVIOUS
    <3> QED BY <1>3, <3>1 DEF TurnBack
  <2>3. opts \in Options
    BY <2>1 DEF TranslateInv
  <2>4. ValidOptions(opts')
    BY <2>1, <2>3, OptionsAssumption
  <2> QED BY <2>1, <2>2, <2>4, InvAgain
<1>4. CASE ExifFails
  <2>1. /\ opts.api \in ExifApis /\ pc = "commit" /\ pc' = "failed" /\ status' # "OK"
        /\ UNCHANGED <<call, trip, out>>
    BY <1>4 DEF ExifFails, Fail
  <2>2. opts.api # "xmp" /\ pc \in {"run", "charset", "commit"}
    BY <2>1, Apis
  <2> QED BY <2>1, <2>2, InvFails
<1>5. CASE ExifReturn
  <2>1. /\ opts.api \in ExifApis /\ pc = "failed" /\ pc' = "done" /\ UNCHANGED <<call, trip, out, status>>
    BY <1>5 DEF ExifReturn
  <2>2. opts.api # "xmp" /\ ~(opts.api \in Exchanges)
    BY <2>1, Apis
  <2> QED BY <2>1, <2>2, InvReturns
<1>6. CASE ExifShared
  BY <1>6, InvCommit, AdoptStep DEF ExifShared
<1> QED BY <1>1, <1>2, <1>3, <1>4, <1>5, <1>6

(* So does every step.                                                     *)
LEMMA InvStep ==
  ASSUME TranslateInv, [TranslateNext]_exchangeVars
  PROVE  TranslateInv'
<1>1. CASE UNCHANGED exchangeVars
  <2>1. /\ source' = source /\ opts' = opts /\ trip' = trip /\ pc' = pc /\ status' = status /\ out' = out
        /\ m' = m /\ ops' = ops /\ owned' = owned /\ utf8' = utf8 /\ count' = count
    BY <1>1 DEF exchangeVars, vars, call
  <2>2. (WellFormed(source) /\ ValidOptions(opts) /\ (trip = <<>> => opts \in Options))'
    BY <2>1 DEF TranslateInv
  <2>3. Succeeded' <=> Succeeded
    BY <2>1 DEF Succeeded
  <2>4. Succeeded => (WellFormed(out) /\ Good(out))'
    BY <2>1, GoodFrame DEF TranslateInv
  <2>5. (opts.api = "xmp" => XmpAt)'
    <3> SUFFICES ASSUME opts.api = "xmp" PROVE XmpAt'
      BY <2>1
    <3>1. XmpAt
      BY DEF TranslateInv
    <3>2. Passed(m)' = Passed(m)
      BY <2>1 DEF Passed
    <3>3. pc = "run" => XmpDone(ops, Passed(m), owned, utf8)'
      BY <2>1, <3>1, <3>2, XmpFrame DEF XmpAt
    <3>4. pc = "charset" => XmpDone(ops, opts.mappings, owned, utf8)'
      BY <2>1, <3>1, XmpFrame DEF XmpAt
    <3> QED BY <2>1, <3>1, <3>3, <3>4 DEF XmpAt
  <2>6. pc = "commit" => (OkOps(source, ops) /\ Good(Run(source, ops)))'
    <3> DEFINE st == Run(source, ops)
    <3>1. Run(source, ops)' = st /\ (OkOps(source, ops)' <=> OkOps(source, ops))
      BY <2>1
    <3>2. pc = "commit" => OkOps(source, ops) /\ Good(st)
      BY DEF TranslateInv
    <3> HIDE DEF st
    <3> QED BY <2>1, <3>1, <3>2, GoodFrame
  <2> QED BY <2>1, <2>2, <2>3, <2>4, <2>5, <2>6 DEF TranslateInv
<1>2. CASE TranslateNext
  BY <1>2, XmpNext, OthersStep, IptcStep, XmpTextsStep, XmpDatesStep, GpsStep, TextsStep
     DEF TranslateNext, ExchangeNext
<1> QED BY <1>1, <1>2

(* The invariant holds at first.                                           *)
LEMMA InvInit ==
  ASSUME ExchangeInit
  PROVE  TranslateInv
<1>1. opts \in Options /\ source \in Sources[opts.api] /\ trip = <<>>
  BY DEF ExchangeInit, Init
<1>2. WellFormed(source) /\ ValidOptions(opts)
  BY <1>1, SourcesAssumption, OptionsAssumption
<1>3. Begins /\ status = "OK" /\ out = <<>> /\ count = NoCount
  BY DEF ExchangeInit, Init, Fresh, Begins
<1> QED BY <1>1, <1>2, <1>3, InvBegins

(* The invariant holds in every state.                                     *)
THEOREM TranslateIsInductive == TranslateSpec => []TranslateInv
<1>1. ExchangeInit => TranslateInv
  BY InvInit
<1>2. TranslateInv /\ [TranslateNext]_exchangeVars => TranslateInv'
  BY InvStep
<1> QED BY <1>1, <1>2, PTL DEF TranslateSpec

(* A translation that succeeds has carried out every group it was asked    *)
(* for, in whichever direction and by whichever of the calls, and changed  *)
(* nothing else; one that fails has no result.                             *)
THEOREM TranslationsAreWhole == TranslateSpec => []TranslatedOrNone
<1>1. TranslateInv => TranslatedOrNone
  <2> SUFFICES ASSUME TranslateInv PROVE TranslatedOrNone
    OBVIOUS
  <2>1. /\ ~Succeeded => out = <<>>
        /\ Succeeded => Good(out)
        /\ pc = "done" /\ status # "OK" =>
              /\ opts.api = "xmp" => count.translated + count.added + count.updated + count.removed = 0
              /\ opts.api \in Exchanges /\ opts.api # "xmp_iptc" => count = NoCount
        /\ opts.api \in {"xmp"} \cup Exchanges \cup ExifApis
    BY Apis DEF TranslateInv
  <2>2. CASE opts.api \in ExifApis
    BY <2>1, <2>2 DEF TranslatedOrNone, Good
  <2>3. CASE opts.api = "xmp"
    BY <2>1, <2>3, Apis DEF TranslatedOrNone, ExchangedOrNone, AllGroupsOrNone, Good, Succeeded
  <2>4. CASE opts.api \notin ExifApis /\ opts.api # "xmp"
    BY <2>1, <2>4 DEF TranslatedOrNone, ExchangedOrNone, Good, Succeeded
  <2> QED BY <2>2, <2>3, <2>4
<1> QED BY <1>1, TranslateIsInductive, PTL
=============================================================================
