---------------------------- MODULE IptcExchange ----------------------------
(***************************************************************************)
(* XMP and IPTC, in both directions: omc_translate_xmp_iptc and            *)
(* omc_translate_xmp_location (src/src/edit/omc_translation_iptc.c),       *)
(* omc_translate_iptc_to_xmp (omc_translation_iptc_to_xmp.c) and           *)
(* omc_translate_iptc_dates_to_xmp (omc_translation_iptc_dates_to_xmp.c),  *)
(* beside omc_translate_xmp of Translation.  Each plans all its groups     *)
(* before it records a single operation.  A client may take the result of  *)
(* one call and make one that goes the other way.                          *)
(*                                                                         *)
(* A plan is a sequence of verdicts in the order the code comes to them;   *)
(* the first that is not OK ends the call.                                 *)
(***************************************************************************)
EXTENDS Translation

CONSTANTS
    Returns(_), \* for the options of a call, those of calls that go the other way
    Blocks,     \* the blocks the stores have
    NoBlock,    \* the block of entries made by hand; it sorts after all others
    Sibling,    \* [property, name]: the same property in another language
    Odd,        \* [property, name]: parts of the property of some other shape
    ZeroLed,    \* those of Odd that are items with leading zeroes
    TooLong,    \* texts no dataset has room for
    Unfit       \* [dataset, text]: not in the alphabet of the dataset

ASSUME NoBlockIsNatural == NoBlock \in Nat

VARIABLE trip   \* history: the call whose result this one started from

-----------------------------------------------------------------------------
(* The mappings, in the order of their bits.                               *)
One(prop, key) == [prop |-> prop, key |-> key, items |-> FALSE]
Bag(prop, key) == [One(prop, key) EXCEPT !.items = TRUE]

Std == <<
    One("title", "2:5"), One("description", "2:120"), Bag("creator", "2:80"),
    Bag("subject", "2:25"), One("rights", "2:116"), One("Credit", "2:110"),
    One("Source", "2:115"), One("City", "2:90"), One("Location", "2:92"),
    One("State", "2:95"), One("Country", "2:101"), One("CountryCode", "2:100"),
    One("Headline", "2:105"), One("Instructions", "2:40"),
    One("TransmissionReference", "2:103"), One("AuthorsPosition", "2:85"),
    One("CaptionWriter", "2:122"), One("Category", "2:15"),
    Bag("SupplementalCategories", "2:20"), One("Urgency", "2:10")>>

Pairs == <<[prop |-> "DateCreated", date |-> "2:55", time |-> "2:60"],
           [prop |-> "CreateDate", date |-> "2:62", time |-> "2:63"]>>

ASSUME ExchangedDatasetsAssumption ==
    {Std[k].key : k \in DOMAIN Std} \cup UNION {{p.date, p.time} : p \in Range(Pairs)}
        \subseteq Datasets

-----------------------------------------------------------------------------
Word(i) == source[i].value[1]
BlockOf(i) == source[i].key.block
Named(name) == {i \in Id : source[i].key.name = name}
Noted(ids) == {i \in ids : Live(i) \/ source[i].dirty}
InOrder(ids) == Ascending({i \in ids : Live(i)})
Dangling(i) == BlockOf(i) \notin Blocks \cup {NoBlock}

When(bad, s) == IF bad THEN s ELSE "OK"
FirstBad(verdicts) ==
    LET bad == {j \in DOMAIN verdicts : verdicts[j] # "OK"}
    IN  IF bad = {} THEN "OK" ELSE verdicts[Min(bad)]
ForEach(ids, Check(_, _)) == [j \in DOMAIN ids |-> Check(ids[j], j)]
Over(ks, Verdicts(_)) == FlattenSeq([n \in DOMAIN ks |-> Verdicts(ks[n])])
Before(ks, k) == {h \in Range(ks) : h < k}
Upto(ks, k) == {h \in Range(ks) : h <= k}

(* The groups of a call that have something to say.                        *)
Selected == Ascending(opts.mappings)
Chosen(Says(_)) == Ascending({k \in opts.mappings : Says(k)})

Exact(ids, f) ==
    Len(ids) = Len(f.values) /\ \A j \in DOMAIN ids : source[ids[j]].value = f.values[j]

Limits(new) ==
    LET added == SelectSeq(new, LAMBDA o : o.kind = "ADD_ENTRY")
    IN  <<When(Len(added) > opts.maxAdded \/ Len(new) > opts.maxOps, "LIMIT")>>

(* What is reported of the operations of some groups.                      *)
Tally(changes, extra, preserved) ==
    LET new == FlattenSeq(changes) \o extra
        ofKind(kind) == Len(SelectSeq(new, LAMBDA o : o.kind = kind))
    IN  [translated |-> Cardinality({n \in DOMAIN changes : changes[n] # <<>>}),
         preserved |-> preserved,
         unchanged |-> Cardinality({n \in DOMAIN changes : changes[n] = <<>>}),
         added |-> ofKind("ADD_ENTRY"), updated |-> ofKind("SET_VALUE"),
         removed |-> ofKind("TOMBSTONE")]

Decide(verdicts, new, all, some) ==
    /\ IF FirstBad(verdicts) = "OK"
       THEN ops' = new /\ count' = all /\ pc' = "commit" /\ UNCHANGED status
       ELSE status' = FirstBad(verdicts) /\ count' = some /\ pc' = "failed" /\ UNCHANGED ops
    /\ UNCHANGED <<call, trip, out, m, owned, utf8, texts>>

-----------------------------------------------------------------------------
(* XMP to IPTC.  The location call is this one with mappings 8 to 12.      *)
XmpIds(k) ==
    Noted({i \in Id : \/ source[i].key.name = Std[k].prop
                      \/ <<Std[k].prop, source[i].key.name>> \in ZeroLed})
XmpSpeaks(k) == SomeEdited(XmpIds(k)) /\ XmpIds(k) # {}
XmpChosen == Chosen(XmpSpeaks)

TextVerdict(i, key, read) ==
    FirstBad(<<When(Word(i) = "" \/ Word(i) \in Unparsable, "INVALID_SOURCE"),
               When(Word(i) \in TooLong, "VALUE_TOO_LONG"),
               When(<<key, Word(i)>> \in Unfit, "INVALID_SOURCE"),
               When(read > opts.maxTexts, "LIMIT")>>)

Twice(k) ==
    LET live == {i \in XmpIds(k) : Live(i)}
    IN  \E i, j \in live : i # j /\ (Std[k].items => source[i].key.at = source[j].key.at)

(* omc_iptc_collect.  A group that does not speak has its sources counted  *)
(* all the same.                                                           *)
Collected(k) ==
    LET found == MapThenSumSet(LAMBDA h : Cardinality(XmpIds(h)), Before(XmpChosen, k))
        read == MapThenSumSet(LAMBDA h : Len(InOrder(XmpIds(h))), Before(XmpChosen, k))
        text(i, j) == TextVerdict(i, Std[k].key, read + j)
    IN  IF XmpSpeaks(k)
        THEN <<When(found + Cardinality(XmpIds(k)) > opts.maxSources, "LIMIT")>>
             \o ForEach(InOrder(XmpIds(k)), text) \o <<When(Twice(k), "AMBIGUOUS_SOURCE")>>
        ELSE <<When(Cardinality(XmpIds(k)) > opts.maxSources, "LIMIT")>>

XmpField(k) ==
    LET live == Sorted({i \in XmpIds(k) : Live(i)})
    IN  Field(Std[k].key, [j \in DOMAIN live |-> source[live[j]].value], live)
Held(k) == Natives(Std[k].key, TRUE)
Kept(k) == Held(k) # <<>> /\ opts.conflict = "PRESERVE"
Written == Ascending({k \in Range(XmpChosen) : ~Kept(k)})

Compared(k) ==
    LET inspected == MapThenSumSet(LAMBDA h : Len(Held(h)), Upto(XmpChosen, k))
    IN  <<When(inspected > opts.maxOps, "LIMIT"),
          When(Held(k) # <<>> /\ ~Exact(Held(k), XmpField(k)) /\ opts.conflict = "FAIL",
               "NATIVE_CONFLICT")>>

(* The first text beyond ASCII calls for the marker, even if it is there   *)
(* already.                                                                *)
FirstWide ==
    LET wide(k) == {j \in DOMAIN XmpField(k).from : Word(XmpField(k).from[j]) \in NonAscii}
        ks == {k \in Range(Written) : wide(k) # {}}
    IN  IF ks = {} THEN 0 ELSE XmpField(Min(ks)).from[Min(wide(Min(ks)))]
OwnedOrKept == {Std[k].key : k \in Range(XmpChosen)}  \* mutant: preserved groups too
Owned == {Std[k].key : k \in Range(Written)}

Declared ==
    LET read == MapThenSumSet(LAMBDA h : Len(InOrder(XmpIds(h))), Range(XmpChosen))
        entry(i, j) ==
            FirstBad(<<When(read + j > opts.maxTexts, "LIMIT"),
                       When(source[i].key.name \notin Owned /\ Word(i) \in NonAscii,
                            "ENCODING_CONFLICT")>>)
    IN  IF FirstWide = 0 THEN <<>>
        ELSE IF Markers # {}
        THEN <<When(Cardinality(Markers) > 1 \/ \E i \in Markers : source[i].value # Utf8,
                    "ENCODING_CONFLICT")>>
        ELSE ForEach(InOrder({i \in Id : source[i].key.name \in Datasets}), entry)

NoOrder(ids, f) == 0    \* mutant: added values come before those kept
OrderOf(ids, f) == LastOrder(ids, f)
IptcChanges(k) ==
    LET f == XmpField(k)
    IN  Operations(f, Held(k), FALSE, [j \in DOMAIN f.from |-> OrderOf(Held(k), f)])
MarkerAdded ==
    IF FirstWide = 0 \/ Markers # {} THEN <<>>
    ELSE Operations(Field(Marker, <<Utf8>>, <<FirstWide>>), <<>>, FALSE, <<0>>)

(* A call that fails still reports the groups it had compared.             *)
Reached ==
    LET passed(k) == \A h \in Upto(XmpChosen, k) : FirstBad(Compared(h)) = "OK"
        same(k) == Exact(Held(k), XmpField(k))
    IN  IF FirstBad(Over(Selected, Collected)) # "OK" THEN NoCount
        ELSE [NoCount EXCEPT
                !.preserved = Len(SelectSeq(XmpChosen, LAMBDA k : passed(k) /\ Kept(k))),
                !.unchanged = Len(SelectSeq(Written, LAMBDA k : passed(k) /\ same(k)))]

ToIptc ==
    /\ opts.api = "xmp_iptc" /\ pc = "run"
    /\ LET changes == [n \in DOMAIN Written |-> IptcChanges(Written[n])]
           new == FlattenSeq(changes) \o MarkerAdded
       IN  Decide(Over(Selected, Collected) \o Over(XmpChosen, Compared)
                      \o Declared \o Limits(new),
                  new, Tally(changes, MarkerAdded, Len(XmpChosen) - Len(Written)), Reached)

-----------------------------------------------------------------------------
(* IPTC to XMP.                                                            *)
SourceIds(k) == Noted(Named(Std[k].key))
MarkersIn(block) == {i \in Markers : BlockOf(i) = block}

(* An edited marker is an edit of all text of its block.                   *)
IptcSpeaks(k) ==
    LET ids == SourceIds(k)
    IN  /\ ids # {}
        /\ \/ SomeEdited(ids)
           \/ \E i \in ids : ~Dangling(i) /\ \E n \in MarkersIn(BlockOf(i)) : source[n].dirty
IptcChosen == Chosen(IptcSpeaks)

BySource(ids) ==
    Listed({i \in ids : Live(i)}, LAMBDA a, b :
        \/ BlockOf(a) < BlockOf(b)
        \/ BlockOf(a) = BlockOf(b) /\ Placed(source, a, b))
IptcField(k) ==
    LET live == BySource(SourceIds(k))
    IN  Field(Std[k].prop, [j \in DOMAIN live |-> source[live[j]].value], live)

Enumerated(k) ==
    LET found == MapThenSumSet(LAMBDA h : Cardinality(SourceIds(h)), Upto(IptcChosen, k))
        block(i, j) == When(Dangling(i), "INVALID_SOURCE")
    IN  <<When(found > opts.maxSources, "LIMIT")>> \o ForEach(InOrder(SourceIds(k)), block)

TextsIn(ks) == MapThenSumSet(LAMBDA h : Len(InOrder(SourceIds(h))), ks)
Measured(k) ==
    LET text(i, j) ==
            FirstBad(<<When(Word(i) = "", "INVALID_SOURCE"),
                       When(Word(i) \in TooLong, "VALUE_TOO_LONG"),
                       When(TextsIn(Before(IptcChosen, k)) + j > opts.maxTexts, "LIMIT")>>)
    IN  ForEach(InOrder(SourceIds(k)), text)
        \o <<When(~Std[k].items /\ Len(InOrder(SourceIds(k))) > 1, "AMBIGUOUS_SOURCE")>>

(* What the property has by way of destinations: values this call may      *)
(* replace, and shapes it does not understand.                             *)
Dest(prop) == {i \in Named(prop) : Live(i)}
Strange(prop) == {i \in Id : Live(i) /\ <<prop, source[i].key.name>> \in Odd}
OtherTongues(prop) == {i \in Id : Live(i) /\ <<prop, source[i].key.name>> \in Sibling}
Spared(prop) ==
    opts.conflict = "PRESERVE" /\ Dest(prop) \cup Strange(prop) \cup OtherTongues(prop) # {}
Filled == Ascending({k \in Range(IptcChosen) : ~Spared(Std[k].prop)})

Shaped(k) ==
    LET prop == Std[k].prop
        before == MapThenSumSet(LAMBDA h : Cardinality(Dest(Std[h].prop)), Before(Filled, k))
        entry(i, j) ==
            FirstBad(<<When(i \in Strange(prop), "UNSUPPORTED_SHAPE"),
                       When(before + j > opts.maxOps, "LIMIT"),
                       When(TextsIn(Range(IptcChosen)) + before + j > opts.maxTexts, "LIMIT")>>)
        at == {source[i].key.at : i \in Dest(prop)}
        numbered == at = 1 .. Cardinality(Dest(prop))
    IN  ForEach(InOrder(Dest(prop) \cup Strange(prop)), entry)
        \o <<When(IF Std[k].items THEN ~numbered ELSE Cardinality(Dest(prop)) > 1,
                  "UNSUPPORTED_SHAPE")>>

(* Text is what the marker of its own block says it is.                    *)
WellMarked(block) ==
    Cardinality(MarkersIn(block)) <= 1 /\ \A n \in MarkersIn(block) : source[n].value = Utf8
Decoded(k) ==
    LET text(i, j) ==
            FirstBad(<<When(Word(i) \in Unparsable \/ <<Std[k].key, Word(i)>> \in Unfit,
                            "INVALID_SOURCE"),
                       When(\/ ~WellMarked(BlockOf(i))
                            \/ Word(i) \in NonAscii /\ MarkersIn(BlockOf(i)) = {},
                            "ENCODING_CONFLICT")>>)
    IN  ForEach(BySource(SourceIds(k)), text)
Readable(k) ==
    <<When(\E i \in Dest(Std[k].prop) : Word(i) \in Unparsable, "UNSUPPORTED_SHAPE")>>

Agreed(k) ==
    LET ids == Sorted(Dest(Std[k].prop))
    IN  <<When(ids # <<>> /\ ~Exact(ids, IptcField(k)) /\ opts.conflict = "FAIL",
               "DESTINATION_CONFLICT")>>

XmpChanges(k) ==
    LET f == IptcField(k)
    IN  Operations(f, Sorted(Dest(f.key)), FALSE,
                   [j \in DOMAIN f.from |-> IF Std[k].items THEN j ELSE 0])

ToXmp ==
    /\ opts.api = "iptc_to_xmp" /\ pc = "run"
    /\ LET changes == [n \in DOMAIN Filled |-> XmpChanges(Filled[n])]
           new == FlattenSeq(changes)
       IN  Decide(Over(IptcChosen, Enumerated) \o Over(IptcChosen, Measured)
                      \o Over(Filled, Shaped) \o Over(IptcChosen, Decoded)
                      \o Over(Filled, Readable) \o Over(Filled, Agreed) \o Limits(new),
                  new, Tally(changes, <<>>, Len(IptcChosen) - Len(Filled)), NoCount)

-----------------------------------------------------------------------------
(* IPTC dates, each with its time, to XMP.                                 *)
DateIds(n) == Named(Pairs[n].date)
TimeIds(n) == Named(Pairs[n].time)
PairSpeaks(n) ==
    \E i \in DateIds(n) \cup TimeIds(n) : source[i].dirty \/ (opts.all /\ Live(i))
PairsChosen == Chosen(PairSpeaks)
Members == Noted(UNION {DateIds(n) \cup TimeIds(n) : n \in Range(PairsChosen)})

(* The members of all pairs, in the order of the store.                    *)
Scanned ==
    LET member(i, j) ==
            LET earlier == {h \in Members : Live(h) /\ h < i}
                doubled == \E h \in earlier : source[h].key.name = source[i].key.name
            IN  FirstBad(<<When(j > opts.maxSources, "LIMIT"),
                           When(Live(i) /\ doubled, "AMBIGUOUS_SOURCE"),
                           When(Live(i) /\ Dangling(i), "INVALID_SOURCE"),
                           When(Live(i) /\ Cardinality(earlier) >= opts.maxTexts, "LIMIT")>>)
    IN  ForEach(Ascending(Members), member)

Together(n) ==
    LET apart(i, j) == BlockOf(i) # BlockOf(j)
    IN  <<When(\E i \in DateIds(n), j \in TimeIds(n) : Live(i) /\ Live(j) /\ apart(i, j),
               "AMBIGUOUS_SOURCE")>>

Inspectable ==
    LET props == {Pairs[n].prop : n \in Range(PairsChosen)}
        roots == UNION {Dest(p) \cup Strange(p) : p \in props}
        read == Len(InOrder(Members))
        root(i, j) ==
            FirstBad(<<When(\E p \in props : \/ i \in Strange(p)
                                             \/ i \in Dest(p) /\ \E h \in Dest(p) : h < i,
                            "UNSUPPORTED_SHAPE"),
                       When(read + j > opts.maxTexts, "LIMIT")>>)
    IN  IF opts.conflict = "PRESERVE" THEN <<>> ELSE ForEach(InOrder(roots), root)

PairSpared(n) ==
    opts.conflict = "PRESERVE" /\ Dest(Pairs[n].prop) \cup Strange(Pairs[n].prop) # {}
Drawn == Ascending({n \in Range(PairsChosen) : ~PairSpared(n)})

(* No output if the date was deleted.                                      *)
PairField(n) ==
    LET dates == InOrder(DateIds(n))
        times == InOrder(TimeIds(n))
        time == IF times = <<>> THEN <<"", "">> ELSE source[times[1]].value
    IN  Field(Pairs[n].prop,
              IF dates = <<>> THEN <<>> ELSE <<<<Word(dates[1])>> \o time \o <<"">>>>, dates)

(* A time alone is no date.  A year or a month has no time.                *)
Prepared(n) ==
    LET dates == InOrder(DateIds(n))
        times == InOrder(TimeIds(n))
        dropped == times = <<>> /\ \E i \in DateIds(n) : source[i].dirty
    IN  IF dates = <<>> THEN <<When(~dropped, "INCOMPLETE_SOURCE")>>
        ELSE <<When(Word(dates[1]) \in Unparsable, "INVALID_DATETIME"),
               When(<<Pairs[n].date, Word(dates[1])>> \in Unfit, "UNSUPPORTED_PRECISION"),
               When(times # <<>> /\ Word(times[1]) \in Unparsable, "INVALID_DATETIME"),
               When(times # <<>> /\ Word(dates[1]) \in PartialDates, "UNSUPPORTED_PRECISION")>>

Acted(n) ==
    LET ids == InOrder(Dest(Pairs[n].prop))
    IN  IF PairSpared(n) THEN <<>>
        ELSE <<When(\E i \in Range(ids) : Word(i) \in Unparsable, "UNSUPPORTED_SHAPE"),
               When(ids # <<>> /\ ~Exact(ids, PairField(n)) /\ opts.conflict = "FAIL",
                    "DESTINATION_CONFLICT")>>

PairChanges(n) ==
    LET f == PairField(n)
    IN  Operations(f, InOrder(Dest(f.key)), FALSE, [j \in DOMAIN f.from |-> 0])

ToXmpDates ==
    /\ opts.api = "iptc_dates_to_xmp" /\ pc = "run"
    /\ LET changes == [j \in DOMAIN Drawn |-> PairChanges(Drawn[j])]
           new == FlattenSeq(changes)
       IN  Decide(Scanned \o Over(PairsChosen, Together) \o Inspectable
                      \o Over(PairsChosen, LAMBDA n : Prepared(n) \o Acted(n)) \o Limits(new),
                  new, Tally(changes, <<>>, Len(PairsChosen) - Len(Drawn)), NoCount)

-----------------------------------------------------------------------------
Exchanges == {"xmp_iptc", "iptc_to_xmp", "iptc_dates_to_xmp"}

(* What was planned, was committed or found no memory.  Only the way from  *)
(* XMP reports counts with a failure.                                      *)
ExchangeReturn ==
    /\ opts.api \in Exchanges /\ pc = "failed" /\ pc' = "done" /\ ops' = <<>>
    /\ count' = IF opts.api = "xmp_iptc" THEN count ELSE NoCount
    /\ UNCHANGED <<call, trip, out, m, owned, utf8, texts, status>>

(* What the groups of this call carried over, by its name on this side.    *)
Carried ==
    CASE opts.api = "xmp" -> {g.props[1] : g \in {h \in Writing : h.kind \in {"text", "date"}
                                                                  /\ ~h.exif}}
      [] opts.api = "xmp_iptc" -> {Std[k].prop : k \in Range(Written)}
      [] opts.api = "iptc_to_xmp" -> {Std[k].key : k \in Range(Filled)}
      [] OTHER -> UNION {{Pairs[n].date, Pairs[n].time} : n \in Range(Drawn)}

(* The client takes the result back the way it came.                       *)
TurnBack ==
    /\ opts.api \in Exchanges \cup {"xmp"}
    /\ pc = "done" /\ status = "OK" /\ ~again /\ trip = <<>>
    /\ trip' = <<[store |-> source, opts |-> opts, carried |-> Carried]>>
    /\ opts' \in Returns(opts)
    /\ source' = out /\ out' = <<>>
    /\ m' = 0 /\ ops' = <<>> /\ count' = NoCount /\ owned' = {}
    /\ utf8' = 0 /\ texts' = 0 /\ pc' = "run"
    /\ UNCHANGED <<target, again, status>>

(* Only omc_translate_xmp is told of an image.                             *)
NoTarget == [orientation |-> <<>>, dimensions |-> <<>>]
ExchangeInit == Init /\ trip = <<>> /\ (opts.api = "xmp" \/ target = NoTarget)

(* The call of Translation, and the steps the other calls share with it.   *)
OfTranslation == opts.api = "xmp" /\ Next /\ UNCHANGED trip
Shared == opts.api \in Exchanges /\ (Commit \/ AllocFails \/ Adopt) /\ UNCHANGED trip

ExchangeNext ==
    \/ OfTranslation \/ Shared
    \/ ToIptc \/ ToXmp \/ ToXmpDates \/ ExchangeReturn \/ TurnBack

exchangeVars == <<vars, trip>>

-----------------------------------------------------------------------------
(* What a call that writes promises: for each of its groups a name on the  *)
(* other side and the values that are to stand there, from these entries.  *)
Promises ==
    CASE opts.api = "xmp_iptc" -> {XmpField(k) : k \in Range(Written)}
      [] opts.api = "iptc_to_xmp" -> {IptcField(k) : k \in Range(Filled)}
      [] OTHER -> {PairField(n) : n \in Range(Drawn)}
Promised == {f.key : f \in Promises}
WideFrom(f) == {i \in Range(f.from) : Word(i) \in NonAscii}
Enumerates(store, prop) ==
    \A j \in DOMAIN LiveIn(store, prop) : store[LiveIn(store, prop)[j]].key.at = j
PromisesStand(store) ==
    /\ \A f \in Promises : Stored(store, f.key) = f.values
    /\ \A k \in DOMAIN Std : Std[k].items /\ Std[k].prop \in Promised
                             => Enumerates(store, Std[k].prop)
    /\ OthersKept(store, Promised, Promised \cup {Marker})
    /\ opts.api = "xmp_iptc" /\ (\E f \in Promises : WideFrom(f) # {})
          => Values(store, Marker) = <<Utf8>>
    /\ Values(store, Marker) # Values(source, Marker)
          => \A i \in Id : Live(i) /\ source[i].key.name \in Datasets \ Promised
                           => Word(i) \notin NonAscii
    /\ opts.api = "iptc_to_xmp"
          => \A f \in Promises : \A i \in WideFrom(f) :
                \E n \in Markers : BlockOf(n) = BlockOf(i) /\ source[n].value = Utf8

(* What one side said stands on the other, value for value in order, items *)
(* counted from 1, and everything else is as it was; a call that fails     *)
(* leaves out as it was.  Text beyond ASCII that goes to IPTC is marked,   *)
(* and a new marker speaks of no text that was there before it; text that  *)
(* comes from IPTC was marked in its own block.  The call of Translation   *)
(* keeps AllGroupsOrNone.                                                  *)
ExchangedOrNone ==
    IF opts.api = "xmp" THEN AllGroupsOrNone
    ELSE IF Succeeded THEN PromisesStand(out)
    ELSE out = <<>> /\ (pc = "done" /\ opts.api # "xmp_iptc" => count = NoCount)

-----------------------------------------------------------------------------
Spelled(v) == IF Len(v) = 4 THEN [v EXCEPT ![3] = Offset(@)] ELSE v
Said(store, name) == LET vs == Values(store, name) IN [j \in DOMAIN vs |-> Spelled(vs[j])]
SameBag(s, t) ==
    \A v \in Range(s) \cup Range(t) :
        Cardinality({j \in DOMAIN s : s[j] = v}) = Cardinality({j \in DOMAIN t : t[j] = v})

OneBlock(store) == Cardinality({store[i].key.block : i \in DOMAIN store}) = 1

(* A store both calls understand: one block, one marker, no strange        *)
(* shapes, no time without its date, no spelling of a date but our own,    *)
(* and no deletions for omc_translate_xmp, which takes an edited one for a *)
(* second source beside a value that was added later.                      *)
Plain(store) ==
    LET live == {i \in DOMAIN store : ~store[i].deleted}
        names == {store[i].key.name : i \in live}
        block == {store[i].key.block : i \in DOMAIN store}
    IN  /\ Cardinality(block) = 1 /\ block \subseteq Blocks \cup {NoBlock}
        /\ Values(store, Marker) \in {<<>>, <<Utf8>>}
        /\ names \cap {o[2] : o \in Odd} = {}
        /\ \A k \in DOMAIN Std : Std[k].items => Enumerates(store, Std[k].prop)
        /\ \A p \in Range(Pairs), i \in DOMAIN store :
              store[i].key.name = p.time => p.date \in names
        /\ \A i \in live : Spelled(store[i].value) = store[i].value
        /\ opts.api = "xmp" => live = DOMAIN store

(* Only groups that came over go back.                                     *)
Reverses ==
    CASE opts.api = "xmp" -> \A g \in opts.mappings : KeysOf(Mapping[g]) \subseteq trip[1].carried
      [] opts.api = "xmp_iptc" -> \A k \in opts.mappings : Std[k].key \in trip[1].carried
      [] opts.api = "iptc_to_xmp" -> \A k \in opts.mappings : Std[k].prop \in trip[1].carried
      [] OTHER -> \A n \in opts.mappings : Pairs[n].prop \in trip[1].carried

(* What was carried over and is taken back is what it was: no value lost,  *)
(* changed or doubled, and in the same order where all is in one block.    *)
(* From a plain store, the way back is open: what one translator writes    *)
(* the other accepts.                                                      *)
ReturnRestores ==
    trip # <<>> /\ pc = "done" =>
        /\ status = "OK" => \A name \in trip[1].carried :
              LET before == Said(trip[1].store, name)
                  after == Said(out, name)
              IN  SameBag(before, after) /\ (OneBlock(trip[1].store) => before = after)
        /\ Plain(trip[1].store) /\ Reverses => status \in {"OK", "NO_MEMORY", "LIMIT"}
=============================================================================
