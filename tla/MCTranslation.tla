--------------------------- MODULE MCTranslation ----------------------------
(***************************************************************************)
(* Stores around one or two groups at a time: every way a source may have  *)
(* been edited, and every state its native entries may be in.              *)
(***************************************************************************)
EXTENDS ExifTranslation

MCPartial == {"2024"}
MCPadded == {"NUL"}
MCNonAscii == {"e'", "o'"}
MCUnparsable == {"bad"}

E(name, at, value, dirty, deleted) ==
    [key |-> [name |-> name, at |-> at, block |-> 1], value |-> value,
     dirty |-> dirty, deleted |-> deleted]
Clean(name, at, value) == E(name, at, value, FALSE, FALSE)
Dirty(name, at, value) == E(name, at, value, TRUE, FALSE)
Gone(name, at, value, dirty) == E(name, at, value, dirty, TRUE)

Full == <<"day", "noon", "", "">>
Dates == {Full, <<"day", "noon", "+01", "">>, <<"day", "noon", "", "5">>,
          <<"day", "", "", "">>, <<"2024", "", "", "">>, <<"bad", "", "", "">>}

(* A native key: absent, equal, padded, different, or a deletion.          *)
States(name, value) ==
    {<<>>, <<Clean(name, 1, value)>>, <<Dirty(name, 1, value)>>,
     <<Clean(name, 1, Append(value, "NUL"))>>, <<Clean(name, 1, <<"old">>)>>,
     <<Gone(name, 1, <<>>, FALSE)>>, <<Gone(name, 1, <<>>, TRUE)>>,
     <<Clean(name, 1, value), Clean(name, 2, <<"old">>)>>}
Fewer(name, value) ==
    {<<>>, <<Clean(name, 1, value)>>, <<Gone(name, 1, <<>>, FALSE)>>,
     <<Gone(name, 1, <<>>, TRUE)>>}

DateSources(prop) ==
    {<<Dirty(prop, 0, d)>> : d \in Dates}
    \cup {<<Clean(prop, 0, Full)>>, <<Gone(prop, 0, Full, TRUE)>>,
          <<Dirty(prop, 0, Full), Dirty(prop, 0, Full)>>}

ExifDates ==
    {s \o a \o b : s \in DateSources("CreateDate"),
                   a \in States("exif:Digitized", <<"day", "noon">>),
                   b \in Fewer("exif:SubSecDigitized", <<"5">>)}
    \cup {<<Dirty("ModifyDate", 0, d)>> \o a :
             d \in Dates, a \in States("ifd0:DateTime", <<"day", "noon">>)}
IptcDates ==
    {s \o a \o b : s \in DateSources("CreateDate"), a \in States("2:62", <<"day">>),
                   b \in Fewer("2:63", <<"noon", "">>)}

Words == {<<"a">>, <<"e'">>, <<"bad">>}
Items2 == {<<>>} \cup {<<Dirty("creator", 1, w), Clean("creator", 2, <<"b">>)>> : w \in Words}
    \cup {<<Dirty("creator", 2, <<"b">>), Clean("creator", 1, <<"o'">>)>>,
          <<Gone("creator", 1, <<"a">>, TRUE), Clean("creator", 2, <<"b">>)>>,
          <<Dirty("creator", 1, <<"a">>), Clean("creator", 1, <<"b">>)>>,
          <<Clean("creator", 1, <<"a">>)>>}
ByLines == {<<>>, <<Clean("2:80", 7, <<"b">>)>>,
            <<Clean("2:80", 7, <<"b">>), Clean("2:80", 4, <<"a">>)>>,
            <<Clean("2:80", 4, <<"o'">>), Clean("2:80", 4, <<"b">>),
              Clean("2:80", 2, <<"c">>)>>}
Others == {<<>>, <<Clean(Marker, 0, Utf8)>>, <<Clean(Marker, 0, <<"ESC-A">>)>>,
           <<Clean("2:5", 0, <<"o'">>)>>, <<Gone("2:5", 0, <<"o'">>, FALSE)>>,
           <<Clean("2:5", 0, <<"t">>)>>, <<Clean("2:7", 0, <<"o'">>)>>}
Texts ==
    {s \o n \o o : s \in Items2, n \in ByLines, o \in Others}
    \cup {<<Dirty("title", 0, w)>> \o i \o o :
             w \in Words, i \in {<<>>, <<Dirty("creator", 1, <<"e'">>)>>}, o \in Others}
    \cup {<<Dirty("Make", 0, w)>> \o n : w \in Words, n \in States("exif:Make", <<"a">>)}

Isos ==
    {a \o b \o n : a \in {<<>>, <<Dirty("ISO", 0, <<"100">>)>>, <<Gone("ISO", 0, <<"100">>, TRUE)>>},
                   b \in {<<>>, <<Dirty("ISOSpeedRatings", 0, <<"200">>)>>,
                          <<Dirty("ISOSpeedRatings[1]", 0, <<"bad">>)>>},
                   n \in States("exif:ISO", <<"100">>)}

Sides ==
    {<<Dirty("ImageWidth", 0, <<"8">>)>> \o a \o b \o n :
        a \in {<<>>, <<Clean("PixelXDimension", 0, <<"8">>)>>,
               <<Clean("PixelXDimension", 0, <<"9">>)>>,
               <<Gone("PixelXDimension", 0, <<"8">>, TRUE)>>},
        b \in {<<>>, <<Clean("ImageLength", 0, <<"6">>)>>, <<Clean("ImageLength", 0, <<"7">>)>>},
        n \in {<<>>, <<Clean("ifd0:Width", 0, <<"8">>), Clean("exif:Height", 0, <<"5">>)>>}}
    \cup {<<Gone("ImageWidth", 0, <<"8">>, TRUE), Gone("ImageHeight", 0, <<"6">>, TRUE),
            Clean("ifd0:Width", 0, <<"8">>)>>}
    \cup {o \o n : o \in {<<Dirty("Orientation", 0, <<"6">>)>>, <<Clean("Orientation", 0, <<"6">>)>>,
                          <<Gone("Orientation", 0, <<"6">>, TRUE)>>},
                   n \in States("exif:Orientation", <<"6">>)}

-----------------------------------------------------------------------------
(* Creators and a title on both sides, in blocks of their own, with markers *)
(* and without.                                                            *)
X(name, at, word) == Dirty(name, at, <<word>>)
In(block, e) == [e EXCEPT !.key.block = block]
Creators ==
    {<<>>, <<X("creator", 1, "a"), Clean("creator", 2, <<"b">>)>>, <<X("creator", 1, "e'")>>,
     <<Clean("creator", 2, <<"b">>), Clean("creator", 1, <<"a">>), In(2, X("creator", 3, "c"))>>,
     <<Gone("creator", 1, <<"a">>, TRUE)>>, <<X("creator", 2, "b")>>,
     <<X("creator", 1, "a"), Clean("creator[0]", 1, <<"b">>)>>,
     <<X("creator", 1, "a"), X("creator/x", 0, "b")>>,
     <<X("creator", 1, "bad")>>, <<X("creator", 1, "long")>>}
Natives80 ==
    {<<>>, <<Clean("2:80", 7, <<"b">>)>>,
     <<Clean("2:80", 7, <<"b">>), Clean("2:80", 4, <<"a">>)>>,
     <<In(2, Clean("2:80", 4, <<"a">>)), Dirty("2:80", 7, <<"b">>)>>,
     <<Clean("2:80", 4, <<"o'">>)>>, <<Gone("2:80", 4, <<"a">>, TRUE)>>,
     <<In(5, Clean("2:80", 4, <<"a">>))>>, <<In(9, Dirty("2:80", 4, <<"a">>))>>,
     <<X("2:80", 4, "")>>, <<X("2:80", 4, "long"), Clean("2:80", 5, <<"a">>)>>}
Marks == {<<>>, <<Clean(Marker, 0, Utf8)>>, <<Dirty(Marker, 0, <<"ESC-A">>)>>,
          <<In(2, Clean(Marker, 0, Utf8))>>,
          <<Clean(Marker, 0, Utf8), In(2, Clean(Marker, 0, Utf8))>>,
          <<Dirty(Marker, 0, Utf8)>>, <<In(9, Dirty(Marker, 0, Utf8))>>}
Beside == {<<>>, <<Clean("2:5", 0, <<"o'">>)>>, <<X("title", 0, "t"), Clean("2:5", 0, <<"o'">>)>>,
           <<X("title", 0, "e'"), Clean("title[fr]", 0, <<"a">>)>>,
           <<X("title", 0, "t"), X("title", 0, "t")>>,
           <<X("CountryCode", 0, "c"), Clean("2:100", 0, <<"a">>)>>,
           <<X("2:100", 0, "c")>>, <<Clean("2:7", 0, <<"o'">>)>>}
Exchanged ==
    {c \o n \o k : c \in Creators, n \in Natives80, k \in Marks}
    \cup {n \o k \o b : n \in {<<>>, <<X("creator", 1, "a"), Clean("2:80", 4, <<"o'">>)>>,
                             <<Clean("2:80", 4, <<"a">>)>>},
                       k \in Marks, b \in Beside}

Days == {<<>>, <<X("2:55", 0, "day")>>, <<Clean("2:55", 0, <<"2024">>)>>,
         <<X("2:55", 0, "bad")>>, <<X("2:55", 0, "never")>>, <<In(5, X("2:55", 0, "day"))>>,
         <<Gone("2:55", 0, <<"day">>, TRUE)>>, <<Gone("2:55", 0, <<"day">>, FALSE)>>,
         <<X("2:55", 0, "day"), Clean("2:55", 0, <<"day">>)>>}
Times == {<<>>, <<Dirty("2:60", 0, <<"noon", "">>)>>, <<In(2, Clean("2:60", 0, <<"noon", "+01">>))>>,
          <<Clean("2:60", 0, <<"noon", "+01">>)>>, <<Dirty("2:60", 0, <<"bad", "">>)>>,
          <<Gone("2:60", 0, <<"noon", "">>, TRUE)>>}
Created == {<<>>, <<Clean("DateCreated", 0, Full)>>,
            <<Dirty("DateCreated", 0, <<"day", "noon", "Z", "">>)>>,
            <<Gone("DateCreated", 0, Full, TRUE)>>, <<Clean("DateCreated", 0, <<"bad", "", "", "">>)>>,
            <<Clean("DateCreated/x", 0, <<"a">>)>>,
            <<Clean("DateCreated", 0, Full), Clean("DateCreated", 0, Full)>>}
SecondPair == {<<>>, <<X("2:62", 0, "day"), Clean("CreateDate", 0, <<"2024", "", "", "">>)>>}
DatedTwice ==
    {d \o t \o x : d \in Days, t \in Times, x \in Created}
    \cup {d \o s : d \in Days, s \in SecondPair}

-----------------------------------------------------------------------------
(* GPS: groups of one and of two members, beside each other, with versions. *)
Place == <<"N", "45">>
Height(a) == <<X("GPSAltitudeRef", 0, "1"), X("GPSAltitude", 0, a)>>
GpsVersion ==
    {<<>>, <<Clean(VersionTag, 0, <<"2.3">>)>>, <<Clean(VersionTag, 0, <<"2.4">>)>>,
     <<Dirty(VersionTag, 0, <<"2.1">>)>>, <<Clean(VersionTag, 0, <<"3.0">>)>>,
     <<Clean(VersionTag, 0, <<"bad">>)>>, <<Gone(VersionTag, 0, <<"2.3">>, TRUE)>>,
     <<Clean(VersionTag, 0, <<"2.3">>), Clean(VersionTag, 0, <<"2.2">>)>>}
Latitudes ==
    {<<Dirty("GPSLatitude", 0, Place)>>, <<Clean("GPSLatitude", 0, Place)>>,
     <<Gone("GPSLatitude", 0, Place, TRUE)>>, <<Gone("GPSLatitude", 0, Place, FALSE)>>}
BadPlaces ==
    {<<Dirty("GPSLatitude", 0, Place), Clean("GPSLatitude", 0, Place)>>}
    \cup {<<Dirty("GPSLatitude", 0, <<"N", d>>)>> : d \in {"91", "fine"}}
    \cup {<<Dirty("GPSLatitude", 0, <<w, "45">>)>> : w \in {"bad", "long"}}
Altitudes ==
    {<<>>, Height("7"), <<X("GPSAltitude", 0, "7")>>, <<X("GPSAltitudeRef", 0, "1")>>,
     <<Gone("GPSAltitudeRef", 0, <<"1">>, TRUE), Gone("GPSAltitude", 0, <<"7">>, TRUE)>>,
     <<Gone("GPSAltitudeRef", 0, <<"1">>, TRUE), X("GPSAltitude", 0, "7")>>}
NativeAltitudes ==
    {<<>>, <<Clean("gps:5", 0, <<"1">>), Clean("gps:6", 0, <<"7">>)>>,
     <<Dirty("gps:5", 0, <<"3">>), Clean("gps:6", 0, <<"7">>)>>}
Positions ==
    {s \o r \o d \o v : s \in Latitudes, r \in States("gps:1", <<"N">>),
                       d \in Fewer("gps:2", <<"45">>), v \in GpsVersion}
    \cup {s \o h \o n \o v : s \in {<<>>, <<Gone("GPSLatitude", 0, Place, TRUE), Clean("gps:1", 0, <<"N">>)>>},
                            h \in Altitudes, n \in NativeAltitudes, v \in GpsVersion}
    \cup {s \o h : s \in BadPlaces, h \in Altitudes}

Speeds ==
    {<<X("GPSSpeedRef", 0, "km/h"), X("GPSSpeed", 0, "9")>>, <<X("GPSSpeed", 0, "9")>>,
     <<Gone("GPSSpeedRef", 0, <<"K">>, TRUE), Gone("GPSSpeed", 0, <<"9">>, TRUE)>>,
     <<X("GPSSpeedRef", 0, "km/h"), X("GPSSpeed", 0, "9"), X("GPSSpeed", 0, "8")>>,
     <<X("GPSSpeedRef", 0, "bad"), X("GPSSpeed", 0, "9")>>,
     <<X("GPSSpeedRef", 0, "K"), X("GPSSpeed", 0, "long")>>}
NativeSpeeds ==
    {a \o b : a \in Fewer("gps:12", <<"K">>) \cup {<<Clean("gps:12", 0, <<"K", "NUL">>)>>},
              b \in Fewer("gps:13", <<"9">>)}
Stamps ==
    {<<>>, <<Dirty("GPSTimeStamp", 0, <<"noon+01", "1 Mar">>)>>,
     <<Gone("GPSTimeStamp", 0, <<"11h", "1 Mar">>, TRUE)>>,
     <<Dirty("GPSTimeStamp", 0, <<"noon+01", "1 Mar">>), Clean("gps:7", 0, <<"11h">>),
       Clean("gps:29", 0, <<"1 Mar">>)>>,
     <<Gone("GPSTimeStamp", 0, <<"11h", "1 Mar">>, TRUE), Clean("gps:29", 0, <<"1 Mar">>)>>}
Navigated ==
    {s \o n \o v : s \in Speeds, n \in NativeSpeeds, v \in GpsVersion}
    \cup {s \o n \o t \o v : s \in Speeds, n \in {<<>>, <<Clean("gps:13", 0, <<"9">>)>>},
                            t \in Stamps, v \in GpsVersion}
Quality ==
    {e \o n \o d \o v : e \in {<<X("GPSHPositioningError", 0, "5")>>,
                              <<Gone("GPSHPositioningError", 0, <<"5">>, TRUE)>>},
                       n \in Fewer("gps:31", <<"5">>),
                       d \in {<<>>, <<X("GPSDOP", 0, "2")>>, <<X("GPSDOP", 0, "fine")>>},
                       v \in GpsVersion}

Destined ==
    {s \o r \o d \o v : s \in {<<Dirty("GPSDestLatitude", 0, Place)>>,
                              <<Gone("GPSDestLatitude", 0, Place, TRUE)>>},
                       r \in Fewer("gps:19", <<"N">>), d \in Fewer("gps:20", <<"45">>),
                       v \in GpsVersion}
Worded ==
    {s \o n \o p \o v : s \in {<<X("GPSSatellites", 0, "a")>>, <<Gone("GPSSatellites", 0, <<"a">>, TRUE)>>},
                       n \in States("gps:8", <<"a">>),
                       p \in {<<>>, <<X("GPSProcessingMethod", 0, "e'")>>,
                              <<X("GPSProcessingMethod", 0, "e'"),
                                Clean("gps:27", 0, <<"e'", "NUL">>)>>},
                       v \in GpsVersion}

(* Texts of EXIF, of every wire type, under old and new versions.          *)
Wired(wire, e) == [e EXCEPT !.key.at = wire]
XVersions ==
    {<<>>, <<X("ExifVersion", 0, "0300")>>, <<X("ExifVersion", 0, "0232")>>,
     <<Gone("ExifVersion", 0, <<"0232">>, TRUE)>>, <<X("ExifVersion", 0, "v")>>}
OldVersions ==
    {<<>>, <<Wired(7, Clean("exif:9000", 0, <<"0232">>))>>,
     <<Clean("exif:9000", 0, <<"0300">>)>>, <<Clean("exif:9000", 0, <<"bad">>)>>,
     <<Clean("exif:9000", 0, <<"0232">>), Clean("exif:9000", 0, <<"0300">>)>>}
Comments ==
    {<<>>, <<X("UserComment", 0, "a")>>, <<X("UserComment[x-default]", 0, "e'")>>,
     <<Gone("UserComment", 0, <<"a">>, TRUE)>>, <<Gone("UserComment", 0, <<"a">>, FALSE)>>,
     <<X("UserComment", 0, "a"), Clean("UserComment[x-default]", 0, <<"a">>)>>,
     <<Gone("UserComment/x", 0, <<"a">>, FALSE)>>, <<X("UserComment", 0, "long")>>}
OldComments ==
    {<<>>, <<Clean("exif:9286", 0, <<"ASCII", "a">>)>>,
     <<Wired(7, Clean("exif:9286", 0, Utf16("e'")))>>, <<Clean("exif:9286", 0, Utf8Comment("e'"))>>,
     <<Clean("exif:9286", 0, Utf8Comment("o'")), Clean("exif:9286", 0, <<"ASCII", "a">>)>>}
Titles ==
    {<<>>, <<X("ImageTitle", 0, "a")>>,
     <<X("ImageTitle", 0, "e'"), Wired(2, Clean("exif:A436", 0, <<"b">>))>>,
     <<X("ImageTitle", 0, "e'"), Wired(129, Clean("exif:A436", 0, <<"e'">>))>>,
     <<Wired(2, Clean("exif:A436", 0, <<"b">>))>>}
ExifTexted ==
    {x \o v \o c \o o : x \in XVersions, v \in OldVersions, c \in Comments, o \in OldComments}
    \cup {x \o v \o c \o t : x \in XVersions, v \in OldVersions,
                            c \in {<<>>, <<X("UserComment", 0, "e'")>>}, t \in Titles}

MCSources ==
    [xmp |-> ExifDates \cup IptcDates \cup Texts \cup Isos \cup Sides,
     xmp_iptc |-> Exchanged, iptc_to_xmp |-> Exchanged, iptc_dates_to_xmp |-> DatedTwice,
     gps |-> Positions, gps_navigation |-> Navigated, gps_quality |-> Quality,
     gps_destination |-> Destined, gps_text |-> Worded, exif_text |-> ExifTexted]
MCDatasets == Dataset \cup {Std[k].key : k \in DOMAIN Std} \cup {"2:7"}
MCBlocks == {1, 2}
MCSibling == {<<"title", "title[fr]">>}
MCZeroLed == {<<"creator", "creator[0]">>}
MCOdd == MCZeroLed \cup {<<"creator", "creator/x">>, <<"DateCreated", "DateCreated/x">>,
                        <<"UserComment", "UserComment/x">>}
MCTooLong == {"long"}
MCUnfit == {<<"2:100", "c">>, <<"2:55", "never">>, <<"exif:9000", "v">>}
MCSpelling == {<<<<"km/h">>, <<"K">>>>, <<<<"noon+01", "1 Mar">>, <<"11h", "1 Mar">>>>}
MCOutOfRange == {"91"}
MCTooFine == {"fine"}
MCExif3 == {"0300"}

Roomy == [maxSources |-> 4, maxAdded |-> 8, maxOps |-> 8, maxTexts |-> 8]
Tight == {[Roomy EXCEPT !.maxSources = 1], [Roomy EXCEPT !.maxAdded = 1],
          [Roomy EXCEPT !.maxOps = 1], [Roomy EXCEPT !.maxTexts = 1]}
By(api, mappings, all, conflict, maxima) ==
    [api |-> api, mappings |-> mappings, all |-> all, conflict |-> conflict] @@ maxima
Opts(mappings, all, conflict, maxima) == By("xmp", mappings, all, conflict, maxima)
Dated == {1, 2, 5}
Rest == {6, 11, 14, 16, 21, 22}
Policy == {"PRESERVE", "FAIL", "REPLACE"}
TextMaps == {1, 3, 12}
GpsMaps == [gps |-> {1, 3}, gps_navigation |-> {1, 2}, gps_quality |-> {3, 5},
            gps_destination |-> {1}, gps_text |-> {1, 3}, exif_text |-> {1, 3, 4}]
MCOptions ==
    {Opts(g, a, c, Roomy) : g \in {Dated, Rest}, a \in BOOLEAN, c \in Policy}
    \cup {Opts(g, TRUE, "REPLACE", t) : g \in {Dated, {16}}, t \in Tight}
    \cup {Opts({16}, FALSE, "REPLACE", Roomy)}
    \cup {By(api, TextMaps, a, c, Roomy) :
             api \in {"xmp_iptc", "iptc_to_xmp"}, a \in BOOLEAN, c \in Policy}
    \cup {By(api, TextMaps, TRUE, "REPLACE", t) : api \in {"xmp_iptc", "iptc_to_xmp"}, t \in Tight}
    \cup {By("iptc_dates_to_xmp", {1, 2}, a, c, Roomy) : a \in BOOLEAN, c \in Policy}
    \cup {By("iptc_dates_to_xmp", {1, 2}, TRUE, "REPLACE", t) : t \in Tight}
    \cup {By(api, GpsMaps[api], a, c, Roomy) : api \in DOMAIN GpsMaps, a \in BOOLEAN, c \in Policy}
    \cup {By(api, GpsMaps[api], TRUE, "REPLACE", t) : api \in DOMAIN GpsMaps, t \in Tight}

(* The ways back of calls that replace.                                    *)
MCReturns(o) ==
    IF o.conflict # "REPLACE" \/ ~o.all THEN {}
    ELSE CASE o.api = "xmp" /\ o.mappings = {16} -> {By("iptc_to_xmp", {3}, TRUE, "FAIL", Roomy)}
           [] o.api = "xmp" /\ 2 \in o.mappings ->
                {By("iptc_dates_to_xmp", {2}, a, c, Roomy) : a \in BOOLEAN, c \in {"FAIL", "REPLACE"}}
           [] o.api = "xmp_iptc" ->
                {By("iptc_to_xmp", g, TRUE, c, Roomy) : g \in {{3}, TextMaps}, c \in {"FAIL", "REPLACE"}}
           [] o.api = "iptc_to_xmp" ->
                {By("xmp_iptc", g, TRUE, c, Roomy) : g \in {{3}, TextMaps}, c \in {"FAIL", "REPLACE"}}
           [] o.api = "iptc_dates_to_xmp" ->
                {By("xmp", g, TRUE, c, Roomy) : g \in {{3}, {2, 3}}, c \in {"FAIL", "REPLACE"}}
           [] OTHER -> {}

MCTargets == {[orientation |-> <<>>, dimensions |-> <<>>],
              [orientation |-> <<<<"6">>>>, dimensions |-> <<<<"8">>, <<"6">>>>]}
=============================================================================
