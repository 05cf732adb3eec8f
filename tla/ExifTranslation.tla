--------------------------- MODULE ExifTranslation ---------------------------
(***************************************************************************)
(* XMP to EXIF beside omc_translate_xmp: the five GPS calls                *)
(* (src/src/edit/omc_translation_gps.c and omc_translation_gps_groups.c)   *)
(* and the text call (omc_translation_exif_text.c).  Each plans all its    *)
(* groups before it records an operation.  A GPS group is some native      *)
(* members that stand or fall together, beside a version all of them       *)
(* share; the texts are written the way the EXIF version asks for.         *)
(*                                                                         *)
(* The place of a native text, key.at, is the wire type it has, 0 if it    *)
(* has none of TIFF.                                                       *)
(***************************************************************************)
EXTENDS IptcExchange

CONSTANTS
    Spelling,   \* [as written, as stored]: units, and times with an offset
    OutOfRange, TooFine,    \* parts of a value that are no GPS value
    Exif3       \* the EXIF versions from 0300 on

-----------------------------------------------------------------------------
(* The GPS groups of each call, in order: the properties and the native    *)
(* members they fill, and the first version that knows them, "" for any    *)
(* version, known or not.                                                  *)
Gps(props, keys, since) == [props |-> props, keys |-> keys, since |-> since]
GpsPosition == <<
    Gps(<<"GPSLatitude">>, <<"gps:1", "gps:2">>, "2.0"),
    Gps(<<"GPSLongitude">>, <<"gps:3", "gps:4">>, "2.0"),
    Gps(<<"GPSAltitudeRef", "GPSAltitude">>, <<"gps:5", "gps:6">>, "2.0")>>
GpsNavigation == <<
    Gps(<<"GPSTimeStamp">>, <<"gps:7", "gps:29">>, "2.2"),
    Gps(<<"GPSSpeedRef", "GPSSpeed">>, <<"gps:12", "gps:13">>, ""),
    Gps(<<"GPSTrackRef", "GPSTrack">>, <<"gps:14", "gps:15">>, ""),
    Gps(<<"GPSImgDirectionRef", "GPSImgDirection">>, <<"gps:16", "gps:17">>, "")>>
GpsDestination == <<
    Gps(<<"GPSDestLatitude">>, <<"gps:19", "gps:20">>, ""),
    Gps(<<"GPSDestLongitude">>, <<"gps:21", "gps:22">>, ""),
    Gps(<<"GPSDestBearingRef", "GPSDestBearing">>, <<"gps:23", "gps:24">>, ""),
    Gps(<<"GPSDestDistanceRef", "GPSDestDistance">>, <<"gps:25", "gps:26">>, "")>>
GpsQuality == <<
    Gps(<<"GPSStatus">>, <<"gps:9">>, ""), Gps(<<"GPSMeasureMode">>, <<"gps:10">>, ""),
    Gps(<<"GPSDOP">>, <<"gps:11">>, ""), Gps(<<"GPSDifferential">>, <<"gps:30">>, "2.2"),
    Gps(<<"GPSHPositioningError">>, <<"gps:31">>, "2.3")>>
GpsText == <<
    Gps(<<"GPSSatellites">>, <<"gps:8">>, ""), Gps(<<"GPSMapDatum">>, <<"gps:18">>, ""),
    Gps(<<"GPSProcessingMethod">>, <<"gps:27">>, "2.2"),
    Gps(<<"GPSAreaInformation">>, <<"gps:28">>, "2.2")>>
GpsGroups ==
    [gps |-> GpsPosition, gps_navigation |-> GpsNavigation, gps_destination |-> GpsDestination,
     gps_quality |-> GpsQuality, gps_text |-> GpsText]

GpsApis == DOMAIN GpsGroups
GpsTags == UNION {UNION {Range(g.keys) : g \in Range(GpsGroups[api])} : api \in GpsApis}
VersionTag == "gps:0"
GpsVersions == <<"2.0", "2.1", "2.2", "2.3", "2.4">>
GpsGroup(k) == GpsGroups[opts.api][k]
GpsMembers(k) == DOMAIN GpsGroup(k).keys

(* Nothing of a GPS value is padding, and a height has no other spelling.  *)
ASSUME SpellingAssumption ==
    /\ Padded \cap {"0", "1", "2", "3", "2.3", "2.4"} = {}
    /\ \A s \in Spelling : s[1] \notin {<<"0">>, <<"1">>}

(* a if it fails, or a and then b.                                         *)
Then(a, b) == IF FirstBad(a) = "OK" THEN a \o b ELSE a

-----------------------------------------------------------------------------
(* The sources of a group: one entry for each property, all alive or all   *)
(* deleted.  Altitude is asked for before what it refers to.               *)
Heard(prop) == Noted(Named(prop))
LiveHeard(prop) == {i \in Heard(prop) : Live(i)}
GpsSpeaks(k) ==
    LET ids == UNION {Heard(p) : p \in Range(GpsGroup(k).props)}
    IN  ids # {} /\ SomeEdited(ids)
GpsChosen == Chosen(GpsSpeaks)
AskedFor(k) == IF opts.api = "gps" THEN Reverse(GpsGroup(k).props) ELSE GpsGroup(k).props
Present(k) == LiveHeard(GpsGroup(k).props[1]) # {}
GpsPresent(ks) == Ascending({k \in Range(ks) : Present(k)})
PropsOf(ks) == MapThenSumSet(LAMBDA h : Len(GpsGroup(h).props), ks)

(* A height is above or below.                                             *)
AboveOrBelow == {<<"0">>, <<"1">>}
Refusal(prop) ==
    LET says(words) == \E i \in LiveHeard(prop) : Range(source[i].value) \cap words # {}
        noRef == prop = "GPSAltitudeRef" /\ \E i \in LiveHeard(prop) : source[i].value \notin AboveOrBelow
    IN  FirstBad(<<When(says(Unparsable) \/ noRef, "INVALID_SOURCE"),
                   When(says(TooFine), "UNSUPPORTED_PRECISION"),
                   When(says(OutOfRange), "VALUE_OUT_OF_RANGE")>>)
Long(prop) == \E i \in Heard(prop) : Word(i) \in TooLong

(* The call for position has its texts measured after all are parsed and   *)
(* counts no properties; the other calls measure first, deletions too.     *)
Sought(k) ==
    LET before == PropsOf(Before(GpsChosen, k))
        one(p, j) ==
            FirstBad(<<When(Cardinality(Heard(p)) > 1, "AMBIGUOUS_SOURCE"),
                       When(Heard(p) = {}, "INCOMPLETE_SOURCE")>>
                     \o IF opts.api = "gps" THEN <<>>
                        ELSE <<When(before + j > opts.maxSources, "LIMIT"),
                               When(Long(p) \/ before + j > opts.maxTexts, "VALUE_TOO_LONG")>>)
        apart == \E p, q \in Range(AskedFor(k)) : LiveHeard(p) = {} /\ LiveHeard(q) # {}
    IN  ForEach(AskedFor(k), one) \o <<When(apart, "INCOMPLETE_SOURCE")>>
        \o [j \in DOMAIN AskedFor(k) |-> Refusal(AskedFor(k)[j])]

Measure(k) ==
    LET before == PropsOf(Before(GpsPresent(GpsChosen), k))
        one(p, j) == FirstBad(<<When(Long(p), "VALUE_TOO_LONG"),
                                When(before + j > opts.maxTexts, "LIMIT")>>)
    IN  ForEach(GpsGroup(k).props, one)

(* The version matters if there is a value to write; 2.3 if there is none. *)
Versions == InOrder(Named(VersionTag))
FourBytes(i) == source[i].value = <<Word(i)>> /\ Word(i) \notin Unparsable
Version == IF Versions = <<>> THEN "2.3" ELSE Word(Last(Versions))
Meets(since) ==
    \E j \in DOMAIN GpsVersions :
        /\ GpsVersions[j] = since
        /\ \E n \in j .. Len(GpsVersions) : GpsVersions[n] = Version
Versioned ==
    LET present == GpsPresent(GpsChosen)
        known(k, n) == When(GpsGroup(k).since # "" /\ ~Meets(GpsGroup(k).since),
                            "UNSUPPORTED_VERSION")
    IN  IF present = <<>> THEN <<>>
        ELSE <<When(Len(Versions) > 1 \/ \E i \in Range(Versions) : ~FourBytes(i),
                    "NATIVE_CONFLICT")>> \o ForEach(present, known)

GpsSources ==
    Then(Then(Over(GpsChosen, Sought),
              IF opts.api = "gps" THEN Over(GpsPresent(GpsChosen), Measure) ELSE <<>>),
         Versioned)

-----------------------------------------------------------------------------
(* What a member is to be.  A coordinate or a time fills two members, a    *)
(* pair of properties one each; from 2.4 on heights are above or below the *)
(* ellipsoid.  A text in another byte order or that ends in NUL is the     *)
(* same text; a date that ends in NUL is another word.                     *)
Plainly(v) == IF \E s \in Spelling : s[1] = v THEN (CHOOSE s \in Spelling : s[1] = v)[2] ELSE v
Raised(key, s) ==
    IF key = "gps:5" /\ Version = "2.4" THEN IF s = "0" THEN "2" ELSE "3" ELSE s
SourceOf(k, j) ==
    LET props == GpsGroup(k).props
    IN  Min(Heard(props[IF Len(props) = 1 THEN 1 ELSE j]))
GpsField(k, j) ==
    LET i == SourceOf(k, j)
        key == GpsGroup(k).keys[j]
        v == Plainly(source[i].value)
        part == IF Len(GpsGroup(k).props) = 1 THEN v[j] ELSE v[1]
    IN  Field(key, IF Live(i) THEN <<<<Raised(key, part)>>>> ELSE <<>>, <<i>>)

MembersOf(k) == [j \in GpsMembers(k) |-> Natives(GpsGroup(k).keys[j], FALSE)]
GpsExisting(k) == \E j \in GpsMembers(k) : MembersOf(k)[j] # <<>>
GpsExact(k) ==
    \A j \in GpsMembers(k) :
        LET f == GpsField(k, j)
            ids == MembersOf(k)[j]
        IN  Len(ids) = Len(f.values) /\ \A n \in DOMAIN ids : Same(ids[n], f.values[n], TRUE)
GpsKept(k) == opts.conflict = "PRESERVE" /\ GpsExisting(k)
GpsWritten == Ascending({k \in Range(GpsChosen) : ~GpsKept(k)})
GpsCompared(k) ==
    <<When(\E j \in GpsMembers(k) : Len(MembersOf(k)[j]) > opts.maxOps, "LIMIT"),
      When(opts.conflict = "FAIL" /\ GpsExisting(k) /\ ~GpsExact(k), "NATIVE_CONFLICT")>>

GpsChanges(k) ==
    FlattenSeq([j \in GpsMembers(k) |->
                   Operations(GpsField(k, j), MembersOf(k)[j], TRUE, <<0>>)])

(* The version goes with the last member, unless a call that checks it     *)
(* writes another one: omc_translate_xmp_gps does, gg_apply does not.      *)
GpsRemoved == {k \in Range(GpsWritten) : ~Present(k) /\ GpsChanges(k) # <<>>}
GpsRest ==
    {i \in Id : /\ Live(i) /\ source[i].key.name \in GpsTags
                /\ \A k \in GpsRemoved : source[i].key.name \notin Range(GpsGroup(k).keys)}
NeedVersion == GpsPresent(GpsWritten) # <<>>
VersionStaysAlone == FALSE   \* mutant: the version is left behind
VersionGoes ==
    GpsRemoved # {} /\ GpsRest = {} /\ (opts.api = "gps" => ~NeedVersion)
VersionChanges ==
    IF NeedVersion /\ Versions = <<>>
    THEN Operations(Field(VersionTag, <<<<Version>>>>, <<SourceOf(Last(GpsPresent(GpsWritten)), 1)>>),
                    <<>>, FALSE, <<0>>)
    ELSE IF VersionGoes THEN Operations(Field(VersionTag, <<>>, <<>>), Versions, FALSE, <<>>)
    ELSE <<>>

(* A call that fails reports the groups it had compared, and what it had   *)
(* planned if memory runs out.                                             *)
GpsReached ==
    LET passed(k) == \A h \in Upto(GpsChosen, k) : FirstBad(GpsCompared(h)) = "OK"
    IN  IF FirstBad(GpsSources) # "OK" THEN NoCount
        ELSE [NoCount EXCEPT
                !.preserved = Len(SelectSeq(GpsChosen, LAMBDA k : passed(k) /\ GpsKept(k))),
                !.unchanged = Len(SelectSeq(GpsWritten,
                                            LAMBDA k : passed(k) /\ GpsChanges(k) = <<>>))]

ToGps ==
    /\ opts.api \in GpsApis /\ pc = "run"
    /\ LET changes == [n \in DOMAIN GpsWritten |-> GpsChanges(GpsWritten[n])]
           new == FlattenSeq(changes) \o VersionChanges
           all == [Counted(new) EXCEPT
                     !.translated = Len(SelectSeq(changes, LAMBDA c : c # <<>>)),
                     !.preserved = Len(GpsChosen) - Len(GpsWritten),
                     !.unchanged = Len(SelectSeq(changes, LAMBDA c : c = <<>>))]
       IN  Decide(Then(Then(GpsSources, Over(GpsChosen, GpsCompared)), Limits(new)),
                  new, all, GpsReached)

-----------------------------------------------------------------------------
(* The texts.  A comment in its default language is the comment.           *)
ExifTexts == <<
    [names |-> {"ExifVersion"}, key |-> "exif:9000"],
    [names |-> {"FlashpixVersion"}, key |-> "exif:A000"],
    [names |-> {"UserComment", "UserComment[x-default]"}, key |-> "exif:9286"],
    [names |-> {"ImageTitle"}, key |-> "exif:A436"]>>
Comment == 3
Title == 4

(* Deletions are sources like any other, and shapes no text has are        *)
(* refused even if they were deleted.                                      *)
TextSources(k) ==
    {i \in Id : source[i].key.name \in ExifTexts[k].names /\ (opts.all \/ source[i].dirty)}
StrangeTexts(k) ==
    {i \in Id : \E name \in ExifTexts[k].names : <<name, source[i].key.name>> \in Odd}
TextChosen == Chosen(LAMBDA k : TextSources(k) # {})

TextsScanned ==
    LET taken == UNION {TextSources(k) : k \in opts.mappings}
        strange == UNION {StrangeTexts(k) : k \in opts.mappings}
        entry(i, n) ==
            LET k == CHOOSE h \in opts.mappings : i \in TextSources(h) \cup StrangeTexts(h)
                upto == {h \in taken : h <= i}
                content == <<When(Word(i) \in TooLong, "VALUE_TOO_LONG"),
                             When(Cardinality({h \in upto : Live(h)}) > opts.maxTexts, "LIMIT"),
                             When(\/ Word(i) \in Unparsable
                                  \/ <<ExifTexts[k].key, Word(i)>> \in Unfit, "INVALID_SOURCE")>>
            IN  FirstBad(<<When(i \in strange, "UNSUPPORTED_SHAPE"),
                           When(\E h \in TextSources(k) : h < i, "AMBIGUOUS_SOURCE"),
                           When(Cardinality(upto) > opts.maxSources, "LIMIT")>>
                         \o IF Live(i) THEN content ELSE <<>>)
    IN  ForEach(Ascending(taken \cup strange), entry)

TextSource(k) == Min(TextSources(k))
TextNatives(k) == Natives(ExifTexts[k].key, FALSE)
NoVersion == "none"
ASSUME VersionsAssumption ==
    NoVersion \notin Exif3 /\ Padded \cap Exif3 = {} /\ Unparsable \cap Exif3 = {}
OldVersion ==
    LET ids == TextNatives(1)
    IN  IF Len(ids) = 1 /\ FourBytes(ids[1]) THEN Word(ids[1]) ELSE NoVersion
NewVersion ==
    IF 1 \notin Range(TextChosen) THEN OldVersion
    ELSE IF Live(TextSource(1)) THEN Word(TextSource(1)) ELSE NoVersion

(* A comment beyond ASCII is UTF-8 from version 0300 on, else UTF-16 with  *)
(* its byte order; either is known again.                                  *)
Utf16(w) == <<"UNICODE", "BOM", w>>
Utf8Comment(w) == <<"UNICODE", w>>
EncodedByOld(k) == Utf16(Word(TextSource(k)))    \* mutant: the version is not looked at
Encoded(k) ==
    LET w == Word(TextSource(k))
    IN  IF k # Comment THEN <<w>>
        ELSE IF w \notin NonAscii THEN <<"ASCII", w>>
        ELSE IF NewVersion \in Exif3 THEN Utf8Comment(w) ELSE Utf16(w)
WireType(k) ==
    IF k # Title THEN 7 ELSE IF Word(TextSource(k)) \in NonAscii THEN 129 ELSE 2
TextSame(k) ==
    LET ids == TextNatives(k)
        w == Word(TextSource(k))
    IN  /\ Live(TextSource(k)) /\ Len(ids) = 1
        /\ source[ids[1]].key.at \in {0, WireType(k)}
        /\ IF k = Comment /\ w \in NonAscii
           THEN source[ids[1]].value \in {Utf8Comment(w), Utf16(w)}
           ELSE source[ids[1]].value = Encoded(k)

TextKept(k) == opts.conflict = "PRESERVE" /\ TextNatives(k) # <<>>
TextWritten == Ascending({k \in Range(TextChosen) : ~TextKept(k) /\ ~TextSame(k)})

(* Titles are of version 0300; a comment needs a version to be encoded for.*)
Weighed(k) ==
    LET written == k \in Range(TextWritten)
        said == written /\ Live(TextSource(k))
    IN  <<When(written /\ opts.conflict = "FAIL" /\ TextNatives(k) # <<>>, "NATIVE_CONFLICT"),
          When(said /\ k = Title /\ NewVersion \notin Exif3, "UNSUPPORTED_VERSION"),
          When(said /\ k = Comment /\ NewVersion = NoVersion, "INCOMPLETE_SOURCE")>>

(* A comment nobody speaks of would be read another way.                   *)
Crossed ==
    <<When(/\ 1 \in Range(TextWritten) /\ OldVersion # NoVersion
           /\ (OldVersion \in Exif3) # (NewVersion \in Exif3)
           /\ TextNatives(Comment) # <<>> /\ Comment \notin Range(TextChosen),
           "NATIVE_CONFLICT")>>

TextChanges(k) ==
    LET ids == TextNatives(k)
        said == Live(TextSource(k))
        add == [kind |-> "ADD_ENTRY",
                entry |-> [key |-> [name |-> ExifTexts[k].key, at |-> WireType(k),
                                    block |-> NoBlock],
                           value |-> Encoded(k), dirty |-> TRUE, deleted |-> FALSE]]
    IN  [j \in DOMAIN ids |->
            IF j = 1 /\ said
            THEN [kind |-> "SET_VALUE", target |-> ids[1] - 1, value |-> Encoded(k)]
            ELSE [kind |-> "TOMBSTONE", target |-> ids[j] - 1]]
        \o IF said /\ ids = <<>> THEN <<add>> ELSE <<>>

ToExifText ==
    /\ opts.api = "exif_text" /\ pc = "run"
    /\ LET changes == [n \in DOMAIN TextWritten |-> TextChanges(TextWritten[n])]
           new == FlattenSeq(changes)
           kept == Len(SelectSeq(TextChosen, TextKept))
           all == [Tally(changes, <<>>, kept) EXCEPT
                     !.translated = Len(TextWritten),
                     !.unchanged = Len(TextChosen) - Len(TextWritten) - kept]
       IN  Decide(Then(Then(TextsScanned, Over(TextChosen, Weighed) \o Crossed), Limits(new)),
                  new, all, NoCount)

-----------------------------------------------------------------------------
ExifApis == GpsApis \cup {"exif_text"}

(* Each call has groups of its own to select from.                         *)
ValidOptions(o) ==
    \/ o.api = "xmp" /\ o.mappings \subseteq DOMAIN Mapping
    \/ o.api \in {"xmp_iptc", "iptc_to_xmp"} /\ o.mappings \subseteq DOMAIN Std
    \/ o.api = "iptc_dates_to_xmp" /\ o.mappings \subseteq DOMAIN Pairs
    \/ o.api \in GpsApis /\ o.mappings \subseteq DOMAIN GpsGroups[o.api]
    \/ o.api = "exif_text" /\ o.mappings \subseteq DOMAIN ExifTexts
ASSUME OptionsAssumption ==
    \A o \in Options : ValidOptions(o) /\ \A r \in Returns(o) : ValidOptions(r)

(* Nothing is allocated before the plan is made.                           *)
ExifFails ==
    /\ opts.api \in ExifApis /\ pc = "commit" /\ UNCHANGED trip
    /\ Fail("NO_MEMORY") \/ (opts.api = "exif_text" /\ Fail("INTERNAL"))

ExifReturn ==
    /\ opts.api \in ExifApis /\ pc = "failed" /\ pc' = "done" /\ ops' = <<>>
    /\ count' = IF opts.api = "exif_text" THEN NoCount ELSE count
    /\ UNCHANGED <<call, trip, out, m, owned, utf8, texts, status>>

ExifShared == opts.api \in ExifApis /\ (Commit \/ Adopt) /\ UNCHANGED trip

TranslateNext ==
    \/ ExchangeNext
    \/ ToGps \/ ToExifText \/ ExifFails \/ ExifReturn \/ ExifShared

TranslateSpec == ExchangeInit /\ [][TranslateNext]_exchangeVars

-----------------------------------------------------------------------------
(* gg_apply takes the version away with the members it removes even where  *)
(* it writes others.                                                       *)
Grouped == opts.api \in GpsApis \ {"gps"}
VersionDropped == Grouped /\ VersionGoes /\ NeedVersion

GpsStands(store) ==
    LET fields == UNION {{GpsField(k, j) : j \in GpsMembers(k)} : k \in Range(GpsWritten)}
        keys == {f.key : f \in fields}
        left == {i \in DOMAIN store : ~store[i].deleted /\ store[i].key.name \in GpsTags}
        before == Values(source, VersionTag)
        after == Values(store, VersionTag)
    IN  /\ \A f \in fields :
              /\ Stands(store, f)
              /\ \E i \in DOMAIN store : /\ store[i].key.name = f.key /\ store[i].dirty
                                         /\ store[i].deleted <=> f.values = <<>>
        /\ OthersKept(store, keys \cup {VersionTag}, keys \cup {VersionTag})
        /\ ~VersionDropped =>
              /\ NeedVersion => Len(after) = 1
              /\ left # {} => after = IF before = <<>> /\ NeedVersion THEN <<<<"2.3">>>> ELSE before
              /\ left = {} /\ GpsRemoved # {} => after = <<>>
        /\ \A i \in left : store[i].key.name \in keys \cap {"gps:5"} =>
              (Unpadded(store[i].value)[1] \in {"2", "3"} <=> after = <<<<"2.4">>>>)

(* What the version in a store asks of the texts in it: a title only under *)
(* 0300 and later, a comment beyond ASCII in the encoding of the version.  *)
Modern(store) == \E v \in Exif3 : Stored(store, "exif:9000") = <<<<v>>>>
AsUtf8(c) == Len(c) = 2 /\ c[1] = "UNICODE"
AsUtf16(c) == Len(c) = 3 /\ c[1] = "UNICODE" /\ c[2] = "BOM"
TextsAgree(store) ==
    /\ Stored(store, "exif:A436") # <<>> => Modern(store)
    /\ \A c \in Range(Stored(store, "exif:9286")) :
          /\ AsUtf8(c) => Modern(store)
          /\ AsUtf16(c) => ~Modern(store)

(* A version written across 0300 beside a text that is not: Crossed looks  *)
(* for neither titles nor comments that XMP speaks of, and for nothing if  *)
(* no version was there.                                                   *)
VersionCrossed ==
    /\ 1 \in Range(TextWritten) /\ (OldVersion \in Exif3) # (NewVersion \in Exif3)
    /\ \E k \in {Comment, Title} :
          /\ TextNatives(k) # <<>> /\ k \notin Range(TextWritten)
          /\ k = Comment => k \in Range(TextChosen) \/ OldVersion = NoVersion

VersionKept == 1 \in Range(TextChosen) /\ TextKept(1)

TextsStand(store) ==
    LET said == {k \in Range(TextWritten) : Live(TextSource(k))}
        field(k) == Field(ExifTexts[k].key, IF k \in said THEN <<Encoded(k)>> ELSE <<>>, <<>>)
        written == {ExifTexts[k].key : k \in Range(TextWritten)}
        wide == Word(TextSource(Comment)) \in NonAscii
    IN  /\ \A k \in Range(TextWritten) : Stands(store, field(k))
        /\ OthersKept(store, written, written)
        /\ ~VersionKept =>
              /\ Title \in said => Modern(store)
              /\ Comment \in said => Len(Stored(store, "exif:9000")) = 1
              /\ Comment \in said /\ wide =>
                    (Modern(store) <=> Values(store, "exif:9286")
                                         = <<Utf8Comment(Word(TextSource(Comment)))>>)
              /\ Comment \notin Range(TextChosen) /\ TextNatives(Comment) # <<>>
                    /\ OldVersion # NoVersion => (Modern(store) <=> OldVersion \in Exif3)
              /\ TextsAgree(source) /\ ~VersionCrossed => TextsAgree(store)

(* A call that succeeds has carried out every group it took up, all else   *)
(* is as it was, and one that fails leaves out as it was.  GPS members are *)
(* edits on record, values and deletions alike, so that a transfer takes   *)
(* them along; no members are without a version that had one or were       *)
(* written now (but see VersionDropped), and none is left when the last    *)
(* member has gone; a height says what its version means by it.  Unless    *)
(* the call preserves the EXIF version, a title it writes stands under a   *)
(* version that knows titles and a comment in the encoding of its version, *)
(* and titles and comments that all agreed with their version before, left *)
(* alone or not, agree with the one that stands now (but see               *)
(* VersionCrossed, where the code breaks this).                            *)
TranslatedOrNone ==
    IF opts.api \notin ExifApis THEN ExchangedOrNone
    ELSE IF ~Succeeded THEN out = <<>>
    ELSE IF opts.api = "exif_text" THEN TextsStand(out) ELSE GpsStands(out)

(* The repeated call finds members without a version, since the call whose *)
(* result it works on took the version away, and adds just that.           *)
PutsVersionBack ==
    /\ Grouped /\ again /\ pc = "done" /\ status \in {"OK", "NO_MEMORY", "LIMIT"}
    /\ Versions = <<>> /\ HasDeleteIntent(VersionTag)
    /\ \A j \in DOMAIN ops : ops[j].kind = "ADD_ENTRY" /\ ops[j].entry.key.name = VersionTag

(* The same call on its own result finds nothing to do: values, deletions  *)
(* on record, markers and versions are where it put them.  Left out are a  *)
(* version that it had taken away and puts back, with no other change      *)
(* beside it, and texts of the wrong wire type, which a new value does not *)
(* change.                                                                 *)
RepeatChangesNothing ==
    \/ AgainChangesNothing
    \/ PutsVersionBack
    \/ /\ opts.api = "exif_text"
       /\ \E k \in Range(TextWritten) : Live(TextSource(k)) /\ TextNatives(k) # <<>>
              /\ source[TextNatives(k)[1]].key.at \notin {0, WireType(k)}
    \/ status = "INTERNAL"
=============================================================================
