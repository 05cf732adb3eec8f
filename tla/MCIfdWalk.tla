----------------------------- MODULE MCIfdWalk -----------------------------
(***************************************************************************)
(* Every graph of two directories with one entry and a next link each, and *)
(* a few larger files: shared nodes, lists of sub-directories longer than  *)
(* the queue, broken directories and values, maker notes with cycles.      *)
(***************************************************************************)
EXTENDS IfdWalk

E(tag, to) == [tag |-> tag, form |-> "good", to |-> to]
Plain == E("PLAIN", <<>>)
Note == E("NOTE", <<>>)
D(entries, link) == [entries |-> entries, next |-> link, holds |-> "all"]
NoNote == [header |-> "UNSUPPORTED", first |-> 0, dir |-> <<>>]
File(dir) == [header |-> "good", first |-> 1, dir |-> dir, note |-> NoNote]

MCOffset == 1..4

Lists == {<<1>>, <<2>>, <<1, 2>>, <<0, 2>>}
SmallEntries ==
    {<<>>, <<Plain>>} \cup {<<E(tag, <<o>>)>> : tag \in Pointer, o \in {1, 2}}
    \cup {<<E("SUB", to)>> : to \in Lists}
SmallDirectory == {D(entries, link) : entries \in SmallEntries, link \in 0..2}
SmallFiles == {File(<<d1, d2>>) : d1 \in SmallDirectory, d2 \in SmallDirectory}

Bad(form) == [E("EXIF", <<2>>) EXCEPT !.form = form]
Cut(holds) == [D(<<Plain>>, 0) EXCEPT !.holds = holds]
NoteFile(dir) == [File(<<D(<<Note, E("EXIF", <<2>>)>>, 0), D(<<Plain>>, 0)>>)
                    EXCEPT !.note = File(dir)]
LargeFiles ==
    {[File(<<>>) EXCEPT !.header = h] : h \in {"MALFORMED", "UNSUPPORTED"}}
    \cup {[File(<<>>) EXCEPT !.first = 0],
          File(<<D(<<E("SUB", <<2, 3>>), E("EXIF", <<2>>), E("GPS", <<3>>)>>, 0),
                 D(<<Plain>>, 0), D(<<Plain>>, 0)>>)}
    \cup {File(<<D(<<e, E("GPS", <<2>>), E("INTEROP", <<2>>)>>, 3), D(<<Plain>>, 2),
                 D(<<E("SUB", <<4>>)>>, 0), D(<<E("EXIF", <<2>>), Bad(f)>>, 0)>>) :
              e \in {E("SUB", <<3, 4, 2>>), E("SUB", <<4, 3>>), Plain},
              f \in {"good", "mistyped", "unreadable"}}
    \cup {File(<<D(<<E("GPS", <<2>>)>>, 3), Cut(h), D(<<E("INTEROP", <<2>>)>>, 0)>>) :
              h \in {"all", "count", "none"}}
    \cup {NoteFile(<<D(<<E("EXIF", <<to>>)>>, link), D(<<Bad(f)>>, 1)>>) :
              to \in {1, 2}, link \in 0..2, f \in {"good", "mistyped"}}
MCFiles == SmallFiles \cup LargeFiles

Decode == [source |-> FALSE, single |-> FALSE, measure |-> FALSE, notes |-> TRUE,
           showPointers |-> TRUE, maxIfds |-> 5, maxEntries |-> 3, maxTotal |-> 8,
           ifdCap |-> 2, longest |-> 2]
MCJobs ==
    {Decode,
     [Decode EXCEPT !.measure = TRUE, !.showPointers = FALSE, !.ifdCap = 0, !.maxTotal = 3],
     [Decode EXCEPT !.source = TRUE, !.showPointers = FALSE],
     [Decode EXCEPT !.source = TRUE, !.maxEntries = 2, !.maxIfds = 3, !.ifdCap = 0],
     [Decode EXCEPT !.source = TRUE, !.single = TRUE, !.notes = FALSE, !.longest = 1]}
=============================================================================
