---------------------------- MODULE Translation ----------------------------
(***************************************************************************)
(* Writing XMP back to native metadata: omc_translate_xmp                  *)
(* (src/src/edit/omc_translation.c).  One group of properties after the    *)
(* other is parsed, compared with the native entries it owns and turned    *)
(* into operations of one edit; IPTC text that is not ASCII calls for the  *)
(* marker of its character set.  The edit is committed at the end.  What a *)
(* commit does to a store is taken from StoreLedger.                       *)
(*                                                                         *)
(* A value is a tuple of strings: a text <<"a">>, a date by its parts      *)
(* <<date, time, offset, fraction>> ("" for what is not there).  A key is  *)
(* a name with a place, the index of an XMP item or the order_in_block of  *)
(* a native entry, and the block it came from.                             *)
(***************************************************************************)
EXTENDS Integers, Sequences, FiniteSets, SequencesExt

CONSTANTS
    Sources,    \* for each call, the stores that may be translated
    Options,    \* [api, mappings, all, conflict, maxSources, maxAdded, maxOps, maxTexts]
    Targets,    \* facts of the image: [orientation, dimensions], <<>> for unknown
    PartialDates, Padded, NonAscii, Unparsable,  \* sets of strings
    Datasets    \* the names of IPTC datasets, those no group knows included

VARIABLES
    source, out,        \* the stores
    opts, target,       \* the call
    m,                  \* the mapping the driver has come to, 0 before the first
    ops,                \* the edit
    count,              \* what is reported
    owned,              \* entries whose dataset a group has taken over
    utf8,               \* source of the last text written that is not ASCII, 0 for none
    texts,              \* texts inspected, against the budget
    status, pc,
    again               \* history: source is the result of this same call

(* An entry has its flags, and its place and its block are numbers.        *)
WellMade(e) ==
    /\ e = [key |-> e.key, value |-> e.value, dirty |-> e.dirty, deleted |-> e.deleted]
    /\ e.key.at \in Nat /\ e.key.block \in Nat
    /\ e.dirty \in BOOLEAN /\ e.deleted \in BOOLEAN
WellFormed(store) ==
    store \in Seq(Range(store)) /\ \A i \in DOMAIN store : WellMade(store[i])
ASSUME SourcesAssumption == \A o \in Options : \A s \in Sources[o.api] : WellFormed(s)

call == <<source, opts, target, again>>
vars == <<call, out, m, ops, count, owned, utf8, texts, status, pc>>

Store == INSTANCE StoreLedger
    WITH base <- source, Key <- {}, Value <- {}, Malformed <- <<"malformed">>,
         MaxEntries <- 100, MaxOps <- 100

-----------------------------------------------------------------------------
(* The mappings, in the order of their bits.                               *)
Date(prop, exif, lifecycle, keys) ==
    [kind |-> "date", props |-> <<prop>>, exif |-> exif, lifecycle |-> lifecycle,
     keys |-> keys]
Text(prop, exif, key) ==
    [kind |-> "text", props |-> <<prop>>, exif |-> exif, indexed |-> FALSE, keys |-> <<key>>]
Items(prop, key) == [Text(prop, FALSE, key) EXCEPT !.indexed = TRUE]
Capture(props, key) == [kind |-> "capture", props |-> props, keys |-> <<key>>]
Widths == <<"ImageWidth", "ExifImageWidth", "PixelXDimension">>
Heights == <<"ImageLength", "ImageHeight", "ExifImageHeight", "PixelYDimension">>

Mapping == <<
    Date("CreateDate", TRUE, TRUE, <<"exif:Digitized", "exif:OffsetDigitized", "exif:SubSecDigitized">>),
    Date("CreateDate", FALSE, FALSE, <<"2:62", "2:63">>),
    Date("DateCreated", FALSE, FALSE, <<"2:55", "2:60">>),
    Date("DateTimeOriginal", TRUE, TRUE, <<"exif:Original", "exif:OffsetOriginal", "exif:SubSecOriginal">>),
    Date("ModifyDate", TRUE, FALSE, <<"ifd0:DateTime", "exif:OffsetTime", "exif:SubSecTime">>),
    Text("Make", TRUE, "exif:Make"), Text("Model", TRUE, "exif:Model"),
    Text("CreatorTool", TRUE, "exif:Software"),
    Capture(<<"ExposureTime">>, "exif:ExposureTime"), Capture(<<"FNumber">>, "exif:FNumber"),
    Capture(<<"ISO", "ISOSpeedRatings", "ISOSpeedRatings[1]">>, "exif:ISO"),
    Capture(<<"FocalLength">>, "exif:FocalLength"),
    Capture(<<"ExposureCompensation", "ExposureBiasValue">>, "exif:ExposureBias"),
    Text("title", FALSE, "2:5"), Text("description", FALSE, "2:120"),
    Items("creator", "2:80"), Items("subject", "2:25"),
    Text("rights", FALSE, "2:116"), Text("Credit", FALSE, "2:110"),
    Text("Source", FALSE, "2:115"),
    [kind |-> "geometry", sides |-> <<<<"Orientation">>>>, keys |-> <<"exif:Orientation">>],
    [kind |-> "geometry", sides |-> <<Widths, Heights>>,
     keys |-> <<"ifd0:Width", "ifd0:Height", "exif:Width", "exif:Height">>]>>

Marker == "1:90"
Utf8 == <<"ESC%G">>
ASSUME PaddingIsNoText == Padded \cap ({"ESC%G"} \cup NonAscii) = {}
Dataset == {Marker} \cup
    UNION {Range(Mapping[g].keys) : g \in {h \in DOMAIN Mapping :
               Mapping[h].kind \in {"date", "text"} /\ ~Mapping[h].exif}}
ASSUME DatasetsAssumption == Dataset \subseteq Datasets

NoCount == [translated |-> 0, preserved |-> 0, unchanged |-> 0,
            added |-> 0, updated |-> 0, removed |-> 0]

Fresh ==
    /\ m = 0 /\ ops = <<>> /\ count = NoCount /\ owned = {}
    /\ utf8 = 0 /\ texts = 0 /\ status = "OK" /\ pc = "run"

Init ==
    /\ opts \in Options /\ source \in Sources[opts.api] /\ target \in Targets
    /\ out = <<>> /\ again = FALSE /\ Fresh

-----------------------------------------------------------------------------
(* Looking for the sources of a group.                                     *)
Id == DOMAIN source
Live(i) == ~source[i].deleted

(* Entries in an order: by their rank in it.  The order of a store, and    *)
(* the order of their places.                                              *)
Listed(ids, Precedes(_, _)) ==
    [n \in 1 .. Cardinality(ids) |->
        CHOOSE i \in ids : Cardinality({h \in ids : Precedes(h, i)}) = n - 1]
Ascending(ids) == Listed(ids, LAMBDA a, b : a < b)
Placed(store, a, b) ==
    store[a].key.at < store[b].key.at \/ (store[a].key.at = store[b].key.at /\ a < b)
Ordered(store, ids) == Listed(ids, LAMBDA a, b : Placed(store, a, b))
Sorted(ids) == Ordered(source, ids)

(* omc_translation_find.  Deletions count if they are edits; items count   *)
(* if any of them was edited.                                              *)
Found(props, whole) ==
    {i \in Id : /\ source[i].key.name \in props
                /\ Live(i) \/ source[i].dirty
                /\ whole \/ opts.all \/ source[i].dirty}
SomeEdited(ids) == opts.all \/ \E i \in ids : source[i].dirty

FoundItems(props) ==
    LET ids == Found(props, TRUE) IN IF SomeEdited(ids) THEN ids ELSE {}

(* The properties of a group are looked for one after the other; the first *)
(* too many ends the search.                                               *)
FindStatus(g) ==
    LET upto(k) == Found(Range(SubSeq(g.props, 1, k)), FALSE)
        many == {k \in DOMAIN g.props : Cardinality(upto(k)) > 1}
    IN  IF many = {} THEN "OK"
        ELSE IF \E k \in many : /\ \A l \in many : k <= l
                                /\ Cardinality(upto(k)) > opts.maxSources
             THEN "LIMIT" ELSE "AMBIGUOUS_SOURCE"

FindItemsStatus(g) ==
    LET ids == FoundItems(Range(g.props))
    IN  IF Cardinality(Found(Range(g.props), TRUE)) > opts.maxSources THEN "LIMIT"
        ELSE IF \E i, j \in ids : i # j /\ source[i].key.at = source[j].key.at
             THEN "AMBIGUOUS_SOURCE" ELSE "OK"

(* The texts of live sources are inspected in turn, within a budget; the   *)
(* first that fails decides.                                               *)
Inspected(ids, check) ==
    LET live == SelectSeq(ids, Live)
        bad == {j \in DOMAIN live : texts + j > opts.maxTexts \/ check[live[j]] # "OK"}
    IN  IF bad = {} THEN "OK"
        ELSE LET j == CHOOSE k \in bad : \A l \in bad : k <= l
             IN  IF texts + j > opts.maxTexts THEN "LIMIT" ELSE check[live[j]]

Parsable(i) == IF source[i].value[1] \in Unparsable THEN "INVALID_SOURCE" ELSE "OK"

-----------------------------------------------------------------------------
(* Reconciling the fields of a group with the native entries of its keys:  *)
(* omc_translation_reconcile.  A field has a key, the values wanted under  *)
(* it, in order, and the entries they are from; the date groups of EXIF    *)
(* also keep track of what is not there.                                   *)
Field(key, values, from) == [key |-> key, values |-> values, from |-> from]

Natives(key, ordered) ==
    LET ids == {i \in Id : Live(i) /\ source[i].key.name = key}
    IN  IF ordered THEN Sorted(ids) ELSE Ascending(ids)

(* Padding is at the end.                                                  *)
Unpadded(v) == IF v # <<>> /\ Last(v) \in Padded THEN Front(v) ELSE v
Same(i, v, lifecycle) ==
    IF lifecycle THEN Unpadded(source[i].value) = Unpadded(v) ELSE source[i].value = v

IntentForgotten(key) == FALSE    \* mutant: an edited deletion is not looked for
Lesser(a, b) == IF a < b THEN a ELSE b

HasDeleteIntent(key) ==
    \E i \in Id : ~Live(i) /\ source[i].dirty /\ source[i].key.name = key
CleanIntents(key) ==
    {i \in Id : ~Live(i) /\ ~source[i].dirty /\ source[i].key.name = key}

(* The operations that make the entries ids of a key what is wanted; the   *)
(* one added for value j takes places[j], and the block of its source.     *)
Operations(f, ids, lifecycle, places) ==
    LET kept == Lesser(Len(ids), Len(f.values))
        At(j) == LET i == ids[j]
                 IN  IF j > Len(f.values) THEN <<[kind |-> "TOMBSTONE", target |-> i - 1]>>
                     ELSE IF ~Same(i, f.values[j], lifecycle)
                     THEN <<[kind |-> "SET_VALUE", target |-> i - 1, value |-> f.values[j]]>>
                     ELSE IF lifecycle /\ ~source[i].dirty
                     THEN <<[kind |-> "MARK_DIRTY", target |-> i - 1]>>
                     ELSE <<>>
        Add(v, j, gone) == [kind |-> "ADD_ENTRY",
                   entry |-> [key |-> [name |-> f.key, at |-> places[j],
                                       block |-> source[f.from[j]].key.block],
                              value |-> v, dirty |-> TRUE, deleted |-> gone]]
        Intent == IF ~lifecycle \/ ids # <<>> \/ f.values # <<>> \/ HasDeleteIntent(f.key)
                  THEN <<>>
                  ELSE IF CleanIntents(f.key) = {} THEN <<Add(<<>>, 1, TRUE)>>
                  ELSE <<[kind |-> "TOMBSTONE",
                          target |-> (CHOOSE i \in CleanIntents(f.key) :
                                        \A j \in CleanIntents(f.key) : i <= j) - 1]>>
    IN  FlattenSeq([j \in DOMAIN ids |-> At(j)])
        \o [j \in 1 .. (Len(f.values) - kept) |-> Add(f.values[kept + j], kept + j, FALSE)]
        \o Intent

Counted(new) ==
    LET ofKind(ks) == Cardinality({j \in DOMAIN new : new[j].kind \in ks})
        promoted == Cardinality({j \in DOMAIN new : new[j].kind = "TOMBSTONE"
                                                    /\ ~Live(new[j].target + 1)})
    IN  [count EXCEPT !.translated = @ + 1,
                      !.added = @ + ofKind({"ADD_ENTRY"}),
                      !.updated = @ + ofKind({"SET_VALUE", "MARK_DIRTY"}) + promoted,
                      !.removed = @ + ofKind({"TOMBSTONE"}) - promoted]

Fail(s) ==
    /\ status' = s /\ pc' = "failed"
    /\ UNCHANGED <<call, out, m, ops, count, owned, utf8, texts>>

Ahead == {k \in opts.mappings : k > m}
Advance == IF Ahead = {} THEN pc' = "charset" /\ UNCHANGED m
           ELSE m' = Min(Ahead) /\ UNCHANGED pc
Goes(next) == IF next = "commit" THEN pc' = "commit" /\ UNCHANGED m ELSE Advance

Owns(fields) ==
    {i \in Id : source[i].key.name \in Dataset
                /\ \E k \in DOMAIN fields : fields[k].key = source[i].key.name}

HasNatives(fields) == \E k \in DOMAIN fields : Natives(fields[k].key, FALSE) # <<>>
Preserves(fields) == HasNatives(fields) /\ opts.conflict = "PRESERVE"

(* Added values of a repeated dataset share the order of the last one kept. *)
LastOrder(ids, f) ==
    LET kept == Lesser(Len(ids), Len(f.values))
    IN  IF kept = 0 THEN 0 ELSE source[ids[kept]].key.at

Reconcile(fields, ordered, lifecycle, readNow, wide, next) ==
    LET ids(f) == Natives(f.key, ordered)
        exact == \A k \in DOMAIN fields :
                    /\ Len(ids(fields[k])) = Len(fields[k].values)
                    /\ \A j \in DOMAIN ids(fields[k]) :
                          Same(ids(fields[k])[j], fields[k].values[j], lifecycle)
        due == lifecycle /\ \E k \in DOMAIN fields :
                 \/ ids(fields[k]) = <<>> /\ fields[k].values = <<>>
                    /\ ~HasDeleteIntent(fields[k].key)
                 \/ \E j \in DOMAIN ids(fields[k]) \cap DOMAIN fields[k].values :
                      /\ ~source[ids(fields[k])[j]].dirty
                      /\ Same(ids(fields[k])[j], fields[k].values[j], TRUE)
        places(k) == [j \in DOMAIN fields[k].from |->
                         IF ordered THEN LastOrder(ids(fields[k]), fields[k]) ELSE k]
        new == FlattenSeq([k \in DOMAIN fields |->
                              Operations(fields[k], ids(fields[k]), lifecycle, places(k))])
        unchanged == exact /\ ~due /\ ~(lifecycle /\ opts.conflict = "PRESERVE")
    IN  IF Preserves(fields)
        THEN /\ count' = [count EXCEPT !.preserved = @ + 1]
             /\ texts' = texts + readNow /\ Goes(next)
             /\ UNCHANGED <<call, out, ops, owned, utf8, status>>
        ELSE IF HasNatives(fields) /\ ~exact /\ opts.conflict = "FAIL" THEN Fail("NATIVE_CONFLICT")
        ELSE IF ~unchanged /\ \/ Len(ops) + Len(new) > opts.maxOps
                              \/ Counted(new).added > opts.maxAdded THEN Fail("LIMIT")
        ELSE /\ ops' = IF unchanged THEN ops ELSE ops \o new
             /\ count' = IF unchanged THEN [count EXCEPT !.unchanged = @ + 1] ELSE Counted(new)
             /\ owned' = owned \cup Owns(fields)
             /\ utf8' = IF wide = 0 THEN utf8 ELSE wide
             /\ texts' = texts + readNow /\ Goes(next)
             /\ UNCHANGED <<call, out, status>>

-----------------------------------------------------------------------------
(* The groups.                                                             *)
Group == Mapping[m]
OnGroup(kind) == pc = "run" /\ m > 0 /\ Group.kind = kind

Skip == Advance /\ UNCHANGED <<call, out, ops, count, owned, utf8, texts, status>>

Begin == pc = "run" /\ m = 0 /\ Skip

(* The parts of a date; Z is read as an offset of nothing.                 *)
Offset(s) == IF s = "Z" THEN "+00:00" ELSE s
Only(s) == IF s = "" THEN <<>> ELSE <<<<s>>>>
DateFields(g, i) ==
    LET v == source[i].value
        parts == IF ~Live(i) THEN [k \in DOMAIN g.keys |-> <<>>]
                 ELSE IF g.exif THEN <<<<<<v[1], v[2]>>>>, Only(Offset(v[3])), Only(v[4])>>
                 ELSE <<<<<<v[1]>>>>, IF v[2] = "" THEN <<>> ELSE <<<<v[2], Offset(v[3])>>>>>>
    IN  [k \in DOMAIN g.keys |-> Field(g.keys[k], parts[k], <<i>>)]

(* Only creation dates may be partial, and EXIF has no room for a partial  *)
(* date or a date without a time, IPTC none for fractions of a second.     *)
DateStatus(g, i) ==
    LET v == source[i].value
    IN  IF v[1] \in Unparsable \/ (v[1] \in PartialDates /\ g.props = <<"ModifyDate">>)
        THEN "INVALID_SOURCE"
        ELSE IF (g.exif /\ (v[1] \in PartialDates \/ v[2] = "")) \/ (~g.exif /\ v[4] # "")
        THEN "UNSUPPORTED_PRECISION" ELSE "OK"

Single(g) == Sorted(Found(Range(g.props), FALSE))
LiveCount(ids) == Len(SelectSeq(ids, Live))

DateGroup ==
    /\ OnGroup("date")
    /\ LET ids == Single(Group)
           s == Inspected(ids, [i \in Range(ids) |-> DateStatus(Group, i)])
       IN  IF FindStatus(Group) # "OK" THEN Fail(FindStatus(Group))
           ELSE IF ids = <<>> THEN Skip
           ELSE IF s # "OK" THEN Fail(s)
           ELSE Reconcile(DateFields(Group, ids[1]), FALSE, Group.lifecycle,
                          LiveCount(ids), 0, "group")

CaptureFields(g, i) ==
    <<Field(g.keys[1], IF Live(i) THEN <<source[i].value>> ELSE <<>>, <<i>>)>>

CaptureGroup ==
    /\ OnGroup("capture")
    /\ LET ids == Single(Group)
           s == Inspected(ids, [i \in Range(ids) |-> Parsable(i)])
       IN  IF FindStatus(Group) # "OK" THEN Fail(FindStatus(Group))
           ELSE IF ids = <<>> THEN Skip
           ELSE IF s # "OK" THEN Fail(s)
           ELSE Reconcile(CaptureFields(Group, ids[1]), FALSE, FALSE, LiveCount(ids), 0,
                          "group")

(* One value or one for each item.                                         *)
TextIds(g) == IF g.indexed THEN Sorted(FoundItems(Range(g.props))) ELSE Single(g)
TextStatus(g, i) ==
    IF g.exif /\ source[i].value[1] \in NonAscii THEN "INVALID_SOURCE" ELSE Parsable(i)
TextFields(g) ==
    LET live == Sorted({i \in Range(TextIds(g)) : Live(i)})
    IN  <<Field(g.keys[1], [j \in DOMAIN live |-> source[live[j]].value], live)>>
WideIn(ids) == {j \in DOMAIN ids : Live(ids[j]) /\ source[ids[j]].value[1] \in NonAscii}
LastWide(ids) == IF WideIn(ids) = {} THEN 0 ELSE ids[Max(WideIn(ids))]

TextGroup ==
    /\ OnGroup("text")
    /\ LET found == IF Group.indexed THEN FindItemsStatus(Group) ELSE FindStatus(Group)
           ids == TextIds(Group)
           s == Inspected(ids, [i \in Range(ids) |-> TextStatus(Group, i)])
       IN  IF found # "OK" THEN Fail(found)
           ELSE IF ids = <<>> THEN Skip
           ELSE IF s # "OK" THEN Fail(s)
           ELSE IF Group.indexed /\ Len(Natives(Group.keys[1], FALSE)) > opts.maxOps
           THEN Fail("LIMIT")
           ELSE Reconcile(TextFields(Group), Group.indexed, FALSE, LiveCount(ids),
                          LastWide(ids), "group")

(* Every spelling of a side is read; they must agree with each other and   *)
(* with the image.                                                         *)
SideIds(g, k) == Ascending(Found(Range(g.sides[k]), TRUE))
AllIds(g) == FlattenSeq([k \in DOMAIN g.sides |-> SideIds(g, k)])
SideValues(g, k) == {source[i].value : i \in {j \in Range(SideIds(g, k)) : Live(j)}}
SideDeleted(g, k) == \E i \in Range(SideIds(g, k)) : ~Live(i)
Fact(g) == IF Len(g.sides) = 1 THEN target.orientation ELSE target.dimensions

SidesStatus(g) ==
    LET sides == DOMAIN g.sides
        deleted == {k \in sides : SideDeleted(g, k)}
    IN  IF deleted # {}
        THEN IF deleted # sides \/ \E k \in sides : SideValues(g, k) # {}
             THEN "AMBIGUOUS_SOURCE"
             ELSE IF Fact(g) # <<>> THEN "TARGET_MISMATCH" ELSE "OK"
        ELSE IF Fact(g) = <<>> THEN "TARGET_REQUIRED"
        ELSE IF \A k \in sides : SideValues(g, k) = {Fact(g)[k]} THEN "OK"
        ELSE "TARGET_MISMATCH"

Disagree(g, i) ==
    \E k \in DOMAIN g.sides : /\ i \in Range(SideIds(g, k))
                              /\ \E j \in Range(SideIds(g, k)) :
                                    j < i /\ Live(j) /\ source[j].value # source[i].value
GeometryStatus(g, i) == IF Disagree(g, i) THEN "INVALID_SOURCE" ELSE Parsable(i)

GeometryFields(g) ==
    [k \in DOMAIN g.keys |->
        LET side == ((k - 1) % Len(g.sides)) + 1
        IN  Field(g.keys[k], SetToSeq(SideValues(g, side)), <<AllIds(g)[1]>>)]

GeometryGroup ==
    /\ OnGroup("geometry")
    /\ LET ids == AllIds(Group)
           s == Inspected(ids, [i \in Range(ids) |-> GeometryStatus(Group, i)])
       IN  IF ~SomeEdited(Range(ids)) \/ ids = <<>> THEN Skip
           ELSE IF \E k \in DOMAIN Group.sides : Len(SideIds(Group, k)) > opts.maxSources
           THEN Fail("LIMIT")
           ELSE IF s # "OK" THEN Fail(s)
           ELSE IF SidesStatus(Group) # "OK" THEN Fail(SidesStatus(Group))
           ELSE Reconcile(GeometryFields(Group), FALSE, FALSE, LiveCount(ids), 0, "group")

-----------------------------------------------------------------------------
(* The marker: omc_translation_charset.  It also speaks of what was there, *)
(* so no other text may be beyond ASCII.                                   *)
Markers == {i \in Id : Live(i) /\ source[i].key.name = Marker}
Touched == owned \cup {ops[j].target + 1 : j \in {k \in DOMAIN ops : ops[k].kind # "ADD_ENTRY"}}
UndeclaredInGroups ==        \* mutant: only datasets of selected mappings are looked at
    {i \in Id \ Touched : /\ Live(i) /\ source[i].value[1] \in NonAscii
                          /\ \E g \in opts.mappings : source[i].key.name \in Range(Mapping[g].keys)}
Undeclared ==
    {i \in Id \ Touched : /\ Live(i) /\ source[i].key.name \in Datasets
                          /\ source[i].value[1] \in NonAscii}

Charset ==
    /\ pc = "charset"
    /\ IF utf8 = 0 \/ (Cardinality(Markers) = 1 /\ \A i \in Markers : source[i].value = Utf8)
       THEN pc' = "commit"
            /\ UNCHANGED <<call, out, m, ops, count, owned, utf8, texts, status>>
       ELSE IF Markers # {} \/ Undeclared # {} THEN Fail("ENCODING_CONFLICT")
       ELSE Reconcile(<<Field(Marker, <<Utf8>>, <<utf8>>)>>, FALSE, FALSE, 0, 0, "commit")

Commit ==
    /\ pc = "commit"
    /\ out' = [i \in 1 .. Store!Size |-> Store!Edited(i)]
    /\ pc' = "done"
    /\ UNCHANGED <<call, m, ops, count, owned, utf8, texts, status>>

(* Any of the allocations.                                                 *)
AllocFails == pc \in {"run", "charset", "commit"} /\ Fail("NO_MEMORY")

(* A failed call reports no changes; its edit is freed.                    *)
Return ==
    /\ pc = "failed" /\ pc' = "done"
    /\ count' = [count EXCEPT !.translated = 0, !.added = 0, !.updated = 0, !.removed = 0]
    /\ ops' = <<>>
    /\ UNCHANGED <<call, out, m, owned, utf8, texts, status>>

(* The client goes on with the result, and makes the same call again.      *)
Adopt ==
    /\ pc = "done" /\ status = "OK" /\ ~again
    /\ source' = out /\ out' = <<>> /\ again' = TRUE
    /\ m' = 0 /\ ops' = <<>> /\ count' = NoCount /\ owned' = {}
    /\ utf8' = 0 /\ texts' = 0 /\ pc' = "run"
    /\ UNCHANGED <<opts, target, status>>

Next ==
    \/ Begin \/ DateGroup \/ CaptureGroup \/ TextGroup \/ GeometryGroup
    \/ Charset \/ Commit \/ AllocFails \/ Return \/ Adopt

Spec == Init /\ [][Next]_vars

-----------------------------------------------------------------------------
Succeeded == pc = "done" /\ status = "OK"

LiveIn(store, key) ==
    Ordered(store, {i \in DOMAIN store : ~store[i].deleted /\ store[i].key.name = key})
Stored(store, key) == [j \in DOMAIN LiveIn(store, key) |-> store[LiveIn(store, key)[j]].value]
Values(store, key) ==
    [j \in DOMAIN Stored(store, key) |-> Unpadded(Stored(store, key)[j])]

(* What a group wants, if it has anything to say.                          *)
Speaks(g) ==
    CASE g.kind = "text" -> TextIds(g) # <<>>
      [] g.kind = "geometry" -> AllIds(g) # <<>> /\ SomeEdited(Range(AllIds(g)))
      [] OTHER -> Single(g) # <<>>
Wants(g) ==
    CASE g.kind = "text" -> TextFields(g)
      [] g.kind = "geometry" -> GeometryFields(g)
      [] g.kind = "date" -> DateFields(g, Single(g)[1])
      [] OTHER -> CaptureFields(g, Single(g)[1])
Writes(g) == Speaks(g) /\ ~Preserves(Wants(g))
Writing == {Mapping[k] : k \in {j \in opts.mappings : Writes(Mapping[j])}}
KeysOf(g) == Range(g.keys)

(* A field stands in a store, and its other entries are as they were.      *)
Stands(store, f) == Values(store, f.key) = [j \in DOMAIN f.values |-> Unpadded(f.values[j])]
OthersKept(store, changed, added) ==
    /\ \A i \in Id : source[i].key.name \notin changed => store[i] = source[i]
    /\ \A i \in DOMAIN store \ Id : store[i].key.name \in added

GroupsStand(store) ==
    LET keys == UNION {KeysOf(g) : g \in Writing}
        marked == Values(store, Marker) # Values(source, Marker)
    IN  /\ \A g \in Writing : \A k \in DOMAIN Wants(g) : Stands(store, Wants(g)[k])
        /\ OthersKept(store, keys, keys \cup {Marker})
        /\ (\E g \in Writing : g.kind = "text" /\ WideIn(TextIds(g)) # {})
              => Values(store, Marker) = <<Utf8>>
        /\ marked => \A i \in Id :
              /\ Live(i) /\ source[i].key.name \in Datasets \ keys
              => source[i].value[1] \notin NonAscii

(* A translation that succeeds has carried out every selected group, or    *)
(* kept the natives it was told to preserve: under each key of a group     *)
(* that writes stand its values, in order, and nothing else; every other   *)
(* entry is as it was.  The marker is there when text beyond ASCII was     *)
(* written, and no other such text became UTF-8 by it.  One that fails     *)
(* leaves out as it was and reports no change.                             *)
AllGroupsOrNone ==
    IF Succeeded THEN GroupsStand(out)
    ELSE out = <<>> /\ (pc = "done" => count.translated + count.added + count.updated
                                        + count.removed = 0)

(* Translating the result once more, with the same options, has nothing to *)
(* do: every value, deletion intent and marker is found where it was put.  *)
AgainChangesNothing ==
    again /\ pc = "done" => ops = <<>> /\ status \in {"OK", "NO_MEMORY", "LIMIT"}
=============================================================================
