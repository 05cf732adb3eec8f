--------------------------- MODULE IfdWalkProofs ---------------------------
(* Proofs about the walk, for every graph of directories in a file and in  *)
(* its maker note, every queue and every budget.  A walk that waits for    *)
(* its child is a frame like the one under way, so the invariant is said   *)
(* of frames: fl the file, m the mode, tk the queue, vi the visited set,   *)
(* cu, nx and wk the rest, stage the step it is at, lg the longest value   *)
(* that is read.                                                           *)
EXTENDS IfdWalk, SequenceTheorems, FiniteSetTheorems, TLAPS

Places == Offset \cup {0}
Tasks == [kind : Kind, index : Nat, offset : Places]
Modes == [source : BOOLEAN, follow : BOOLEAN, single : BOOLEAN]
Cursors == [task : Tasks, i : Nat, k : Nat]
Counters == [ifd : Nat, sub : Nat]
Results == [status : Status, ifds : Nat, written : Nat, entries : Nat, lost : BOOLEAN]
Following == Pointer \cup {"SUB"}

DirIn(fl, t) == IF t.offset \in DOMAIN fl.dir THEN fl.dir[t.offset] ELSE NoDirectory

Typed(fl, m, tk, vi, cu, nx, wk) ==
    /\ IsGraph(fl) /\ m \in Modes
    /\ tk \in Seq(Tasks) /\ Len(tk) <= TaskCap
    /\ IsFiniteSet(DOMAIN vi) /\ Cardinality(DOMAIN vi) <= TaskCap
    /\ \A o \in DOMAIN vi : vi[o] # {} /\ vi[o] \subseteq Kind
    /\ cu \in Cursors /\ nx \in Counters /\ wk \in Seq(Tasks)

(* Indexes are given once, to what is decoded or queued.                   *)
Below(t, nx) ==
    /\ t.kind = "IFD" => t.index <= nx.ifd
    /\ t.kind = "SUB" => t.index < nx.sub
Apart(s, t) == s.kind = t.kind /\ s.kind \in {"IFD", "SUB"} => s.index # t.index

Indexed(tk, nx, wk) ==
    /\ \A i \in DOMAIN wk : Below(wk[i], nx)
    /\ \A i \in DOMAIN tk : Below(tk[i], nx)
    /\ \A i, j \in DOMAIN wk : i < j => Apart(wk[i], wk[j])
    /\ \A i \in DOMAIN wk, j \in DOMAIN tk : Apart(wk[i], tk[j])
    /\ \A i, j \in DOMAIN tk : i < j => Apart(tk[i], tk[j])

(* What the visited set knows of the directories decoded.                  *)
Remembers(m, vi, wk) ==
    m.source =>
        /\ \A i \in DOMAIN wk : wk[i].offset \in DOMAIN vi /\ wk[i].kind \in vi[wk[i].offset]
        /\ \A o \in DOMAIN vi : \E i \in DOMAIN wk : wk[i].offset = o
        /\ \A i, j \in DOMAIN wk : i < j /\ wk[i].offset = wk[j].offset =>
              {wk[i].kind, wk[j].kind} = {"GPS", "INTEROP"}

(* What is pointed to is decoded or queued.                                *)
Holds(m, q, kind, o) == \E i \in DOMAIN q : q[i].offset = o /\ (m.source \/ q[i].kind = kind)
Reached(m, tk, wk, kind, o) == o = 0 \/ Holds(m, wk, kind, o) \/ Holds(m, tk, kind, o)

LeftOut(lg, m, e) == m.source /\ (e.form = "unreadable" \/ Len(e.to) > lg)

Followed(lg, m, tk, wk, e) ==
    e.tag \in Following /\ ~LeftOut(lg, m, e) =>
        \A n \in DOMAIN e.to : Reached(m, tk, wk, e.tag, e.to[n])
Chained(fl, m, tk, wk, d) ==
    d.kind = "IFD" /\ ~m.single /\ DirIn(fl, d).next # 0 =>
        Reached(m, tk, wk, "IFD", DirIn(fl, d).next)
Complete(lg, fl, m, tk, wk, d) ==
    /\ Chained(fl, m, tk, wk, d)
    /\ \A l \in DOMAIN DirIn(fl, d).entries : Followed(lg, m, tk, wk, DirIn(fl, d).entries[l])

(* The directory under way is the last decoded, and followed up to where   *)
(* the decoder is in it; the others are followed in whole.                 *)
Halfway(lg, stage, fl, m, tk, cu, wk) ==
    LET entries == DirIn(fl, cu.task).entries
    IN  /\ Len(wk) > 0 /\ wk[Len(wk)] = cu.task /\ cu.i > 0
        /\ \A l \in DOMAIN entries : l < cu.i => Followed(lg, m, tk, wk, entries[l])
        /\ stage = "targets" =>
              /\ cu.i \in DOMAIN entries /\ entries[cu.i].tag \in Following /\ cu.k > 0
              /\ \A n \in DOMAIN entries[cu.i].to :
                    n < cu.k => Reached(m, tk, wk, entries[cu.i].tag, entries[cu.i].to[n])

InDirectory == {"entries", "targets"}

Closed(lg, stage, fl, m, tk, cu, wk) ==
    /\ stage = "header" => wk = <<>>
    /\ stage # "header" => Reached(m, tk, wk, "IFD", fl.first)
    /\ \A i \in DOMAIN wk :
          (stage \in InDirectory /\ i = Len(wk)) \/ Complete(lg, fl, m, tk, wk, wk[i])
    /\ stage \in InDirectory => Halfway(lg, stage, fl, m, tk, cu, wk)

Counts(r, wk) ==
    /\ r \in Results
    /\ r.ifds <= job.maxIfds /\ r.written <= job.ifdCap /\ r.written <= r.ifds
    /\ Len(wk) <= r.ifds

Running == {"header", "pop", "entries", "targets", "drained"}
Good == res.status \in {"OK", "TRUNCATED"} /\ ~res.lost

FrameInv ==
    /\ Typed(file, mode, tasks, visited, cur, next, walk)
    /\ Indexed(tasks, next, walk) /\ Remembers(mode, visited, walk)
    /\ pc \in Running => Closed(job.longest, pc, file, mode, tasks, cur, walk)
    /\ Counts(res, walk)

OuterInv ==
    outer # <<>> =>
        LET p == outer[1]
        IN  /\ Typed(p.file, p.mode, p.tasks, p.visited, p.cur, p.next, p.walk)
            /\ Indexed(p.tasks, p.next, p.walk) /\ Remembers(p.mode, p.visited, p.walk)
            /\ Closed(job.longest, "entries", p.file, p.mode, p.tasks, p.cur, p.walk)
            /\ Counts(p.res, p.walk)
            /\ p.mode.follow /\ p.cur.i > 1 /\ p.file \in Files

ControlInv ==
    /\ job \in Jobs /\ pc \in Running \cup {"stopped", "done"}
    /\ outer # <<>> => outer = <<outer[1]>>
    /\ outer = <<>> => mode.follow /\ file \in Files
    /\ pc = "drained" => tasks = <<>> \/ ~mode.follow
    /\ pc = "stopped" => ~Good
    /\ pc = "done" =>
         /\ outer = <<>>
         /\ Good => tasks = <<>> /\ Closed(job.longest, "pop", file, mode, tasks, cur, walk)
    /\ AtEntry /\ cur.i = 1 =>
          Size(cur.task) <= job.maxEntries /\ res.entries + Size(cur.task) <= job.maxTotal

IInv == FrameInv /\ OuterInv /\ ControlInv

-----------------------------------------------------------------------------
(* Queue and history, as sequences.                                        *)
LEMMA PushFacts ==
    ASSUME NEW tk \in Seq(Tasks), NEW t \in Tasks
    PROVE  /\ Push(tk, t) \in Seq(Tasks)
           /\ t.offset = 0 => Push(tk, t) = tk
           /\ t.offset # 0 => /\ Len(Push(tk, t)) = Len(tk) + 1
                              /\ Push(tk, t)[Len(tk) + 1] = t
                              /\ \A i \in DOMAIN tk : Push(tk, t)[i] = tk[i]
  BY DEF Push

LEMMA TakeFacts ==
    ASSUME NEW tk \in Seq(Tasks), tk # <<>>
    PROVE  /\ Head(tk) = tk[1] /\ Head(tk) \in Tasks /\ 1 \in DOMAIN tk
           /\ Tail(tk) \in Seq(Tasks) /\ Len(Tail(tk)) = Len(tk) - 1
           /\ \A i \in DOMAIN Tail(tk) : i + 1 \in DOMAIN tk /\ Tail(tk)[i] = tk[i + 1]
           /\ \A i \in DOMAIN tk : i # 1 => i - 1 \in DOMAIN Tail(tk) /\ Tail(tk)[i - 1] = tk[i]
  <1>1. Head(tk) \in Tasks /\ Tail(tk) \in Seq(Tasks) /\ Len(Tail(tk)) = Len(tk) - 1
        /\ \A i \in 1 .. Len(Tail(tk)) : Tail(tk)[i] = tk[i + 1]
    BY HeadTailProperties
  <1>2. Len(tk) \in Nat /\ Len(tk) > 0 /\ DOMAIN tk = 1 .. Len(tk)
        /\ DOMAIN Tail(tk) = 1 .. Len(tk) - 1
    BY <1>1, EmptySeq, LenProperties
  <1>3. Head(tk) = tk[1]
    OBVIOUS
  <1>4. QED
    BY <1>1, <1>2, <1>3

LEMMA AppendFacts ==
    ASSUME NEW wk \in Seq(Tasks), NEW t \in Tasks
    PROVE  /\ Append(wk, t) \in Seq(Tasks) /\ Len(Append(wk, t)) = Len(wk) + 1
           /\ DOMAIN Append(wk, t) = 1 .. Len(wk) + 1
           /\ DOMAIN wk = 1 .. Len(wk) /\ Len(wk) \in Nat
           /\ Append(wk, t)[Len(wk) + 1] = t
           /\ \A i \in DOMAIN wk : Append(wk, t)[i] = wk[i]
  OBVIOUS

-----------------------------------------------------------------------------
(* Indexes stay distinct when a task is queued, decoded, or skipped.       *)
LEMMA IndexedPush ==
    ASSUME NEW tk \in Seq(Tasks), NEW wk \in Seq(Tasks), NEW nx, NEW nx2, NEW t \in Tasks,
           Indexed(tk, nx, wk),
           \A s \in Tasks : Below(s, nx) => Below(s, nx2) /\ (t.offset # 0 => Apart(s, t)),
           Below(t, nx2)
    PROVE  Indexed(Push(tk, t), nx2, wk)
  <1>1. /\ \A i \in DOMAIN wk : wk[i] \in Tasks /\ Below(wk[i], nx)
        /\ \A i \in DOMAIN tk : tk[i] \in Tasks /\ Below(tk[i], nx)
    BY DEF Indexed
  <1>2. CASE t.offset = 0
    BY <1>1, <1>2, PushFacts DEF Indexed
  <1>3. CASE t.offset # 0
    <2> DEFINE q == Push(tk, t)
    <2>1. /\ q \in Seq(Tasks) /\ Len(q) = Len(tk) + 1 /\ q[Len(tk) + 1] = t
          /\ \A i \in DOMAIN tk : q[i] = tk[i]
      BY <1>3, PushFacts
    <2> HIDE DEF q
    <2>2. DOMAIN q = DOMAIN tk \cup {Len(tk) + 1} /\ \A i \in DOMAIN tk : i < Len(tk) + 1
      BY <2>1
    <2>3. \A i \in DOMAIN q : Below(q[i], nx2)
      BY <1>1, <2>1, <2>2
    <2>4. \A i \in DOMAIN wk, j \in DOMAIN q : Apart(wk[i], q[j])
      BY <1>1, <1>3, <2>1, <2>2 DEF Indexed
    <2>5. \A i, j \in DOMAIN q : i < j => Apart(q[i], q[j])
      <3>1. SUFFICES ASSUME NEW i \in DOMAIN q, NEW j \in DOMAIN q, i < j
                     PROVE  Apart(q[i], q[j])
        OBVIOUS
      <3>2. i \in DOMAIN tk
        BY <2>1, <2>2, <3>1
      <3>3. CASE j \in DOMAIN tk
        BY <2>1, <3>1, <3>2, <3>3 DEF Indexed
      <3>4. CASE j = Len(tk) + 1
        BY <1>1, <1>3, <2>1, <3>2, <3>4
      <3>5. QED
        BY <2>2, <3>3, <3>4
    <2>6. Indexed(q, nx2, wk)
      BY <1>1, <2>3, <2>4, <2>5 DEF Indexed
    <2>7. QED
      BY <2>6 DEF q
  <1>4. QED
    BY <1>2, <1>3

LEMMA IndexedSkip ==
    ASSUME NEW tk \in Seq(Tasks), NEW wk \in Seq(Tasks), NEW nx, tk # <<>>,
           Indexed(tk, nx, wk)
    PROVE  Indexed(Tail(tk), nx, wk)
  <1>1. \A i \in DOMAIN Tail(tk) : i \in Nat /\ i + 1 \in DOMAIN tk /\ Tail(tk)[i] = tk[i + 1]
    BY TakeFacts
  <1>2. QED
    BY <1>1 DEF Indexed

LEMMA IndexedEnter ==
    ASSUME NEW tk \in Seq(Tasks), NEW wk \in Seq(Tasks), NEW nx, tk # <<>>,
           Indexed(tk, nx, wk)
    PROVE  Indexed(Tail(tk), nx, Append(wk, Head(tk)))
  <1> DEFINE t == Head(tk)
             w == Append(wk, t)
             q == Tail(tk)
  <1>1. \A i \in DOMAIN q : i \in Nat /\ i + 1 \in DOMAIN tk /\ q[i] = tk[i + 1] /\ 1 < i + 1
    BY TakeFacts
  <1>2. t = tk[1] /\ t \in Tasks /\ 1 \in DOMAIN tk
    BY TakeFacts
  <1>3. /\ DOMAIN w = DOMAIN wk \cup {Len(wk) + 1} /\ w[Len(wk) + 1] = t
        /\ \A i \in DOMAIN wk : w[i] = wk[i] /\ i < Len(wk) + 1 /\ i \in Nat
    BY <1>2, AppendFacts
  <1> HIDE DEF t, w, q
  <1>4. \A i \in DOMAIN w : Below(w[i], nx)
    BY <1>2, <1>3 DEF Indexed
  <1>5. \A i \in DOMAIN q : Below(q[i], nx)
    BY <1>1 DEF Indexed
  <1>6. \A i, j \in DOMAIN w : i < j => Apart(w[i], w[j])
    <2>1. SUFFICES ASSUME NEW i \in DOMAIN w, NEW j \in DOMAIN w, i < j
                   PROVE  Apart(w[i], w[j])
      OBVIOUS
    <2>2. i \in DOMAIN wk
      BY <1>3, <2>1
    <2>3. CASE j \in DOMAIN wk
      BY <1>3, <2>1, <2>2, <2>3 DEF Indexed
    <2>4. CASE j = Len(wk) + 1
      BY <1>2, <1>3, <2>2, <2>4 DEF Indexed
    <2>5. QED
      BY <1>3, <2>3, <2>4
  <1>7. \A i \in DOMAIN w, j \in DOMAIN q : Apart(w[i], q[j])
    BY <1>1, <1>2, <1>3 DEF Indexed
  <1>8. \A i, j \in DOMAIN q : i < j => Apart(q[i], q[j])
    BY <1>1 DEF Indexed
  <1>9. QED
    BY <1>4, <1>5, <1>6, <1>7, <1>8 DEF Indexed, t, w, q

-----------------------------------------------------------------------------
(* What is reached stays reached.                                          *)
LEMMA StillFollowed ==
    ASSUME NEW lg, NEW fl, NEW m, NEW tk, NEW wk, NEW tk2, NEW wk2,
           \A kind, o : Reached(m, tk, wk, kind, o) => Reached(m, tk2, wk2, kind, o)
    PROVE  /\ \A e : Followed(lg, m, tk, wk, e) => Followed(lg, m, tk2, wk2, e)
           /\ \A d : Complete(lg, fl, m, tk, wk, d) => Complete(lg, fl, m, tk2, wk2, d)
  <1>1. \A e : Followed(lg, m, tk, wk, e) => Followed(lg, m, tk2, wk2, e)
    BY DEF Followed
  <1>2. \A d : Chained(fl, m, tk, wk, d) => Chained(fl, m, tk2, wk2, d)
    BY DEF Chained
  <1>3. QED
    BY <1>1, <1>2 DEF Complete

LEMMA PushReaches ==
    ASSUME NEW tk \in Seq(Tasks), NEW wk, NEW m, NEW t \in Tasks
    PROVE  /\ \A kind, o : Reached(m, tk, wk, kind, o) => Reached(m, Push(tk, t), wk, kind, o)
           /\ Reached(m, Push(tk, t), wk, t.kind, t.offset)
  <1>1. CASE t.offset = 0
    BY <1>1, PushFacts DEF Reached
  <1>2. CASE t.offset # 0
    <2> DEFINE q == Push(tk, t)
    <2>0. /\ q \in Seq(Tasks) /\ Len(q) = Len(tk) + 1 /\ q[Len(tk) + 1] = t
          /\ \A i \in DOMAIN tk : q[i] = tk[i]
      BY <1>2, PushFacts
    <2> HIDE DEF q
    <2>1. /\ \A i \in DOMAIN tk : i \in DOMAIN q /\ q[i] = tk[i]
          /\ Len(tk) + 1 \in DOMAIN q /\ q[Len(tk) + 1] = t
      BY <2>0
    <2>2. /\ \A kind, o : Holds(m, tk, kind, o) => Holds(m, q, kind, o)
          /\ Holds(m, q, t.kind, t.offset)
      BY <2>1 DEF Holds
    <2>3. QED
      BY <2>2 DEF Reached, q
  <1>3. QED
    BY <1>1, <1>2

LEMMA EnterReaches ==
    ASSUME NEW tk \in Seq(Tasks), NEW wk \in Seq(Tasks), NEW m, tk # <<>>
    PROVE  \A kind, o : Reached(m, tk, wk, kind, o) =>
                        Reached(m, Tail(tk), Append(wk, Head(tk)), kind, o)
  <1> DEFINE w == Append(wk, Head(tk))
             q == Tail(tk)
  <1>1. /\ \A i \in DOMAIN wk : i \in DOMAIN w /\ w[i] = wk[i]
        /\ Len(wk) + 1 \in DOMAIN w /\ w[Len(wk) + 1] = tk[1]
        /\ \A i \in DOMAIN tk : i # 1 => i - 1 \in DOMAIN q /\ q[i - 1] = tk[i]
    BY TakeFacts, AppendFacts
  <1> HIDE DEF w, q
  <1>2. \A kind, o : Holds(m, wk, kind, o) => Holds(m, w, kind, o)
    BY <1>1 DEF Holds
  <1>3. \A kind, o : Holds(m, tk, kind, o) => Holds(m, w, kind, o) \/ Holds(m, q, kind, o)
    <2>1. SUFFICES ASSUME NEW kind, NEW o, NEW i \in DOMAIN tk,
                          tk[i].offset = o, m.source \/ tk[i].kind = kind
                   PROVE  Holds(m, w, kind, o) \/ Holds(m, q, kind, o)
      BY DEF Holds
    <2>2. CASE i = 1
      BY <1>1, <2>1, <2>2 DEF Holds
    <2>3. CASE i # 1
      BY <1>1, <2>1, <2>3 DEF Holds
    <2>4. QED
      BY <2>2, <2>3
  <1>4. QED
    BY <1>2, <1>3 DEF Reached, w, q

(* What is skipped has been decoded.                                       *)
LEMMA SkipReaches ==
    ASSUME NEW tk \in Seq(Tasks), NEW wk \in Seq(Tasks), NEW m, tk # <<>>, m.source,
           \E i \in DOMAIN wk : wk[i].offset = Head(tk).offset
    PROVE  \A kind, o : Reached(m, tk, wk, kind, o) => Reached(m, Tail(tk), wk, kind, o)
  <1> DEFINE q == Tail(tk)
  <1>1. /\ Head(tk) = tk[1]
        /\ \A i \in DOMAIN tk : i # 1 => i - 1 \in DOMAIN q /\ q[i - 1] = tk[i]
    BY TakeFacts
  <1> HIDE DEF q
  <1>2. \A kind, o : Holds(m, tk, kind, o) => Holds(m, wk, kind, o) \/ Holds(m, q, kind, o)
    <2>1. SUFFICES ASSUME NEW kind, NEW o, NEW i \in DOMAIN tk,
                          tk[i].offset = o, m.source \/ tk[i].kind = kind
                   PROVE  Holds(m, wk, kind, o) \/ Holds(m, q, kind, o)
      BY DEF Holds
    <2>2. CASE i = 1
      BY <1>1, <2>1, <2>2 DEF Holds
    <2>3. CASE i # 1
      BY <1>1, <2>1, <2>3 DEF Holds
    <2>4. QED
      BY <2>2, <2>3
  <1>3. QED
    BY <1>2 DEF Reached, q

LEMMA ClosedGrows ==
    ASSUME NEW lg, NEW stage, NEW fl, NEW m, NEW tk, NEW cu, NEW wk, NEW tk2,
           Closed(lg, stage, fl, m, tk, cu, wk),
           \A kind, o : Reached(m, tk, wk, kind, o) => Reached(m, tk2, wk, kind, o)
    PROVE  Closed(lg, stage, fl, m, tk2, cu, wk)
  <1>1. /\ \A e : Followed(lg, m, tk, wk, e) => Followed(lg, m, tk2, wk, e)
        /\ \A d : Complete(lg, fl, m, tk, wk, d) => Complete(lg, fl, m, tk2, wk, d)
    BY StillFollowed
  <1>2. Halfway(lg, stage, fl, m, tk, cu, wk) => Halfway(lg, stage, fl, m, tk2, cu, wk)
    BY <1>1 DEF Halfway
  <1>3. QED
    BY <1>1, <1>2 DEF Closed

(* Going on to the next entry, when this one is followed.                  *)
LEMMA EntryDone ==
    ASSUME NEW lg, NEW stage \in InDirectory, NEW fl, NEW m, NEW tk, NEW cu \in Cursors,
           NEW wk, NEW cu2 \in Cursors, cu2.task = cu.task, cu2.i = cu.i + 1,
           Closed(lg, stage, fl, m, tk, cu, wk), IsGraph(fl),
           cu.i \in DOMAIN DirIn(fl, cu.task).entries =>
               Followed(lg, m, tk, wk, DirIn(fl, cu.task).entries[cu.i])
    PROVE  Closed(lg, "entries", fl, m, tk, cu2, wk)
  <1> DEFINE entries == DirIn(fl, cu.task).entries
  <1>1. DirIn(fl, cu.task) \in Directories
    BY DEF DirIn, IsGraph, NoDirectory, Directories
  <1>2. \A l \in DOMAIN entries : l \in Nat /\ (l < cu.i + 1 => l < cu.i \/ l = cu.i)
    BY <1>1 DEF Directories, Cursors
  <1>3. Halfway(lg, stage, fl, m, tk, cu, wk)
    BY DEF Closed
  <1>4. \A l \in DOMAIN entries : l < cu2.i => Followed(lg, m, tk, wk, entries[l])
    BY <1>2, <1>3 DEF Halfway
  <1>5. cu2.i > 0
    BY DEF Cursors
  <1>6. Halfway(lg, "entries", fl, m, tk, cu2, wk)
    BY <1>3, <1>4, <1>5 DEF Halfway
  <1>7. QED
    BY <1>6 DEF Closed, InDirectory

(* Leaving a directory of which all is followed.                           *)
LEMMA DirectoryDone ==
    ASSUME NEW lg, NEW fl, NEW m, NEW tk, NEW cu \in Cursors, NEW wk \in Seq(Tasks),
           Closed(lg, "entries", fl, m, tk, cu, wk), IsGraph(fl),
           cu.i > Len(DirIn(fl, cu.task).entries),
           Chained(fl, m, tk, wk, cu.task)
    PROVE  Closed(lg, "pop", fl, m, tk, cu, wk)
  <1> DEFINE entries == DirIn(fl, cu.task).entries
  <1>1. DirIn(fl, cu.task) \in Directories
    BY DEF DirIn, IsGraph, NoDirectory, Directories
  <1>2. \A l \in DOMAIN entries : l < cu.i
    BY <1>1 DEF Directories, Cursors
  <1>3. Halfway(lg, "entries", fl, m, tk, cu, wk)
    BY DEF Closed, InDirectory
  <1>4. Complete(lg, fl, m, tk, wk, cu.task)
    BY <1>2, <1>3 DEF Halfway, Complete
  <1>5. wk[Len(wk)] = cu.task
    BY <1>3 DEF Halfway
  <1>6. QED
    BY <1>4, <1>5 DEF Closed, InDirectory

-----------------------------------------------------------------------------
LEMMA DirectoryFacts ==
    ASSUME NEW t, IsGraph(file)
    PROVE  /\ Directory(t) = DirIn(file, t) /\ Directory(t) \in Directories
           /\ Size(t) = Len(DirIn(file, t).entries) /\ Size(t) \in Nat
           /\ DOMAIN DirIn(file, t).entries = 1 .. Size(t)
           /\ \A l \in 1 .. Size(t) : DirIn(file, t).entries[l] \in Entries
  <1>1. Directory(t) = DirIn(file, t)
    BY DEF Directory, DirIn
  <1>2. Directory(t) \in Directories
    BY DEF Directory, IsGraph, NoDirectory, Directories
  <1>3. DirIn(file, t).entries \in Seq(Entries)
    BY <1>1, <1>2 DEF Directories
  <1>4. QED
    BY <1>1, <1>2, <1>3 DEF Size

LEMMA Facts ==
    ASSUME IInv
    PROVE  /\ job \in Jobs /\ job.maxIfds \in Nat /\ job.maxEntries \in Nat
           /\ job.maxTotal \in Nat /\ job.ifdCap \in Nat /\ job.longest \in Nat
           /\ job.source \in BOOLEAN /\ TaskCap \in Nat
           /\ IsGraph(file) /\ mode \in Modes /\ tasks \in Seq(Tasks) /\ Len(tasks) \in Nat
           /\ Len(tasks) <= TaskCap
           /\ cur \in Cursors /\ next \in Counters /\ walk \in Seq(Tasks) /\ Len(walk) \in Nat
           /\ res \in Results /\ Typed(file, mode, tasks, visited, cur, next, walk)
           /\ Indexed(tasks, next, walk) /\ Remembers(mode, visited, walk)
           /\ Counts(res, walk) /\ pc \in Running \cup {"stopped", "done"}
           /\ pc \in Running => Closed(job.longest, pc, file, mode, tasks, cur, walk)
  BY JobsAssumption, CapAssumption DEF IInv, FrameInv, ControlInv, Typed, Counts

LEMMA OuterKept ==
    ASSUME OuterInv, UNCHANGED <<job, outer>>
    PROVE  OuterInv'
  BY DEF OuterInv, Counts

(* A walk that stops short is not a good one.                              *)
LEMMA StopStep ==
    ASSUME IInv, pc \in Running, NEW r \in Results, res' = r, pc' = "stopped",
           r.ifds = res.ifds, r.written = res.written,
           r.status \notin {"OK", "TRUNCATED"} \/ r.lost,
           UNCHANGED <<job, frame>>
    PROVE  IInv'
  <1>1. UNCHANGED <<job, file, mode, tasks, visited, cur, next, walk, outer>>
    BY DEF frame
  <1>2. FrameInv'
    BY <1>1 DEF IInv, FrameInv, Counts, Running
  <1>3. OuterInv'
    BY <1>1, OuterKept DEF IInv
  <1>4. ControlInv'
    BY <1>1 DEF IInv, ControlInv, Running, Good, AtEntry
  <1>5. QED
    BY <1>2, <1>3, <1>4 DEF IInv

LEMMA StopsStep ==
    ASSUME IInv, pc \in Running,
           NEW status \in {"UNSUPPORTED", "MALFORMED", "LIMIT", "NOMEM"}, Stop(status)
    PROVE  IInv'
  <1> DEFINE r == [res EXCEPT !.status = status]
  <1>1. res \in Results
    BY Facts
  <1>2. r \in Results /\ r.status = status /\ r.ifds = res.ifds /\ r.written = res.written
    BY <1>1 DEF Results, Status
  <1>3. res' = r /\ pc' = "stopped" /\ UNCHANGED <<job, frame>>
    BY DEF Stop
  <1> HIDE DEF r
  <1>4. QED
    BY <1>2, <1>3, StopStep

LEMMA InitialState == Init => IInv
  <1>1. SUFFICES ASSUME Init PROVE IInv
    OBVIOUS
  <1>2. /\ job \in Jobs /\ file \in Files /\ job.source \in BOOLEAN /\ job.single \in BOOLEAN
        /\ job.maxIfds \in Nat /\ job.ifdCap \in Nat /\ TaskCap \in Nat
        /\ tasks = <<>> /\ visited = <<>> /\ walk = <<>> /\ outer = <<>> /\ pc = "header"
        /\ res = OkRes /\ mode.follow
        /\ mode = [source |-> job.source, follow |-> TRUE, single |-> job.single]
        /\ cur = [task |-> NoTask, i |-> 0, k |-> 0] /\ next = [ifd |-> 0, sub |-> 0]
    BY <1>1, JobsAssumption, CapAssumption DEF Init
  <1>3. DOMAIN visited = {} /\ IsFiniteSet({}) /\ Cardinality({}) = 0 /\ Len(tasks) = 0
        /\ DOMAIN tasks = {} /\ DOMAIN walk = {} /\ tasks \in Seq(Tasks) /\ walk \in Seq(Tasks)
        /\ Len(walk) = 0
    BY <1>2, FS_EmptySet
  <1>4. NoTask \in Tasks
    BY DEF NoTask, Tasks, Kind, Places
  <1>5. mode \in Modes /\ cur \in Cursors /\ next \in Counters
    BY <1>2, <1>4 DEF Modes, Cursors, Counters
  <1>6. Typed(file, mode, tasks, visited, cur, next, walk)
    BY <1>2, <1>3, <1>5, FilesAssumption DEF Typed
  <1>7. Indexed(tasks, next, walk) /\ Remembers(mode, visited, walk)
    BY <1>3 DEF Indexed, Remembers
  <1>8. Closed(job.longest, pc, file, mode, tasks, cur, walk)
    BY <1>2, <1>3 DEF Closed, InDirectory
  <1>9. Counts(res, walk)
    BY <1>2, <1>3 DEF Counts, OkRes, Results, Status
  <1>10. OuterInv /\ ControlInv
    BY <1>2 DEF OuterInv, ControlInv, Running, AtEntry
  <1>11. QED
    BY <1>6, <1>7, <1>8, <1>9, <1>10 DEF IInv, FrameInv

-----------------------------------------------------------------------------
LEMMA ReadHeaderStep ==
    ASSUME IInv, ReadHeader
    PROVE  IInv'
  <1> DEFINE t == [NoTask EXCEPT !.offset = file.first]
  <1>1. pc = "header" /\ pc' = "pop" /\ tasks' = Push(<<>>, t)
        /\ UNCHANGED <<job, file, mode, visited, cur, next, res, walk, outer>>
    BY DEF ReadHeader
  <1>2. t \in Tasks /\ t.kind = "IFD" /\ t.index = 0 /\ t.offset = file.first
    BY Facts DEF NoTask, Tasks, Kind, Places, IsGraph
  <1> HIDE DEF t
  <1>3. walk = <<>> /\ <<>> \in Seq(Tasks) /\ Len(<<>>) = 0
    BY <1>1, Facts DEF Running, Closed
  <1>4. /\ tasks' \in Seq(Tasks) /\ Len(tasks') <= 1
        /\ t.offset = 0 => tasks' = <<>>
        /\ t.offset # 0 => Len(tasks') = 1 /\ tasks'[1] = t
    BY <1>1, <1>2 DEF Push
  <1>5. Typed(file, mode, tasks, visited, cur, next, walk)'
    BY <1>1, <1>4, Facts, CapAssumption DEF Typed
  <1>6. Indexed(tasks, next, walk)'
    <2>1. Indexed(<<>>, next, walk)
      BY <1>3 DEF Indexed
    <2>2. Below(t, next)
      BY <1>2, Facts DEF Below, Counters
    <2>3. CASE t.offset = 0
      BY <1>1, <1>4, <2>1, <2>3
    <2>4. CASE t.offset # 0
      <3>1. Len(tasks') = 1 /\ tasks'[1] = t
        BY <1>4, <2>4
      <3>2. DOMAIN tasks' = {1}
        BY <1>4, <3>1
      <3>3. QED
        BY <1>1, <1>3, <2>2, <3>1, <3>2 DEF Indexed
    <2>5. QED
      BY <2>3, <2>4
  <1>7. Remembers(mode, visited, walk)' /\ Counts(res, walk)'
    BY <1>1, Facts DEF Counts
  <1>8. Closed(job.longest, pc, file, mode, tasks, cur, walk)'
    <2>1. Reached(mode, Push(<<>>, t), walk, "IFD", file.first)
      BY <1>2, <1>3, PushReaches
    <2>2. QED
      BY <1>1, <1>3, <2>1 DEF Closed, InDirectory
  <1>9. OuterInv'
    BY <1>1, OuterKept DEF IInv
  <1>10. ControlInv'
    BY <1>1 DEF IInv, ControlInv, Running, AtEntry
  <1>11. QED
    BY <1>5, <1>6, <1>7, <1>8, <1>9, <1>10 DEF IInv, FrameInv

LEMMA HeaderFailsStep ==
    ASSUME IInv, HeaderFails
    PROVE  IInv'
  <1>1. pc \in Running /\ file.header \in {"UNSUPPORTED", "MALFORMED"} /\ Stop(file.header)
    BY Facts DEF HeaderFails, Running, IsGraph
  <1>2. QED
    BY <1>1, StopsStep

LEMMA SourceFailsStep ==
    ASSUME IInv, SourceFails
    PROVE  IInv'
  <1>1. PICK status \in {"LIMIT", "TRUNCATED", "MALFORMED"} :
           res' = [res EXCEPT !.status = status, !.lost = TRUE]
    BY DEF SourceFails
  <1>2. res' \in Results /\ res'.lost /\ res'.ifds = res.ifds /\ res'.written = res.written
    <2> DEFINE r1 == [res EXCEPT !.status = status]
    <2>1. r1 \in Results /\ r1.ifds = res.ifds /\ r1.written = res.written
      BY Facts DEF Results, Status
    <2>2. res' = [r1 EXCEPT !.lost = TRUE]
      BY <1>1, Facts DEF Results
    <2> HIDE DEF r1
    <2>3. QED
      BY <2>1, <2>2 DEF Results
  <1>3. pc \in Running /\ pc' = "stopped" /\ UNCHANGED <<job, frame>>
    BY DEF SourceFails, Running
  <1>4. QED
    BY <1>2, <1>3, StopStep

LEMMA RefusedStep ==
    ASSUME IInv, RefuseTask \/ EntryUnreadable \/ NoRoom
    PROVE  IInv'
  <1>1. pc \in Running
    BY DEF RefuseTask, EntryUnreadable, NoRoom, AtTask, AtEntry, Running
  <1>2. \E status \in {"MALFORMED", "LIMIT", "NOMEM"} : Stop(status)
    BY DEF RefuseTask, EntryUnreadable, NoRoom, Refusal
  <1>3. QED
    BY <1>1, <1>2, StopsStep

-----------------------------------------------------------------------------
(* Taking a directory from the queue.                                      *)
LEMMA TaskFacts ==
    ASSUME IInv, AtTask
    PROVE  /\ pc = "pop" /\ pc \in Running /\ tasks # <<>> /\ Task \in Tasks /\ Task = Head(tasks)
           /\ Tail(tasks) \in Seq(Tasks) /\ Len(Tail(tasks)) <= TaskCap
           /\ Closed(job.longest, "pop", file, mode, tasks, cur, walk)
  <1>1. pc = "pop" /\ pc \in Running /\ tasks # <<>> /\ tasks \in Seq(Tasks) /\ Len(tasks) <= TaskCap
        /\ Len(tasks) \in Nat /\ TaskCap \in Nat
    BY Facts DEF AtTask, Running
  <1>2. Head(tasks) \in Tasks /\ Tail(tasks) \in Seq(Tasks) /\ Len(Tail(tasks)) = Len(tasks) - 1
    BY <1>1, TakeFacts
  <1>3. QED
    BY <1>1, <1>2, Facts DEF Task

LEMMA SkipSeenStep ==
    ASSUME IInv, SkipSeen
    PROVE  IInv'
  <1>1. AtTask /\ Seen(Task) /\ tasks' = Tail(tasks) /\ pc' = pc
        /\ UNCHANGED <<job, file, mode, visited, cur, next, res, walk, outer>>
    BY DEF SkipSeen
  <1>2. mode.source /\ \E i \in DOMAIN walk : walk[i].offset = Head(tasks).offset
    BY <1>1, TaskFacts, Facts DEF Seen, Known, Remembers
  <1>3. Typed(file, mode, tasks, visited, cur, next, walk)'
    BY <1>1, TaskFacts, Facts DEF Typed
  <1>4. Indexed(tasks, next, walk)'
    BY <1>1, TaskFacts, Facts, IndexedSkip
  <1>5. \A kind, o : Reached(mode, tasks, walk, kind, o) => Reached(mode, Tail(tasks), walk, kind, o)
    BY <1>1, <1>2, TaskFacts, Facts, SkipReaches
  <1>6. Closed(job.longest, "pop", file, mode, Tail(tasks), cur, walk)
    BY <1>1, <1>5, TaskFacts, ClosedGrows
  <1>7. FrameInv'
    BY <1>1, <1>3, <1>4, <1>6, TaskFacts, Facts DEF FrameInv, Counts
  <1>8. OuterInv'
    BY <1>1, OuterKept DEF IInv
  <1>9. ControlInv'
    BY <1>1, TaskFacts DEF IInv, ControlInv, Running, AtEntry
  <1>10. QED
    BY <1>7, <1>8, <1>9 DEF IInv

(* The visited set after a directory that may be entered.                  *)
LEMMA RememberedFacts ==
    ASSUME IInv, AtTask, ~Seen(Task), Refusal(Task) = "OK"
    PROVE  /\ IsFiniteSet(DOMAIN Remembered(Task)) /\ Cardinality(DOMAIN Remembered(Task)) <= TaskCap
           /\ \A o \in DOMAIN Remembered(Task) :
                 Remembered(Task)[o] # {} /\ Remembered(Task)[o] \subseteq Kind
           /\ Remembers(mode, Remembered(Task), Append(walk, Task))
  <1>1. /\ Task \in Tasks /\ Task.kind \in Kind /\ TaskCap \in Nat /\ walk \in Seq(Tasks)
        /\ Typed(file, mode, tasks, visited, cur, next, walk) /\ Remembers(mode, visited, walk)
    BY TaskFacts, Facts DEF Tasks
  <1>2. ~NoRoomToRemember(Task)
    BY DEF Refusal
  <1>3. CASE ~mode.source
    BY <1>1, <1>3 DEF Remembered, Typed, Remembers
  <1>4. CASE mode.source
    <2> DEFINE vi == Remembered(Task)
               wk == Append(walk, Task)
    <2>1. DOMAIN vi = DOMAIN visited \cup {Task.offset}
      BY <1>4 DEF Remembered
    <2>2. \A o \in DOMAIN vi :
             vi[o] = (IF o \in DOMAIN visited THEN visited[o] ELSE {})
                        \cup (IF o = Task.offset THEN {Task.kind} ELSE {})
      BY <1>4 DEF Remembered
    <2>3. /\ DOMAIN wk = DOMAIN walk \cup {Len(walk) + 1} /\ wk[Len(walk) + 1] = Task
          /\ \A i \in DOMAIN walk : wk[i] = walk[i] /\ i \in Nat /\ i < Len(walk) + 1
      BY <1>1, AppendFacts
    <2> HIDE DEF vi, wk
    <2>4. IsFiniteSet(DOMAIN visited) /\ Cardinality(DOMAIN visited) <= TaskCap
      BY <1>1 DEF Typed
    <2>5. IsFiniteSet(DOMAIN vi) /\ Cardinality(DOMAIN vi) <= TaskCap
      <3>1. Cardinality(DOMAIN visited) \in Nat
        BY <2>4, FS_CardinalityType
      <3>2. CASE Task.offset \in DOMAIN visited
        BY <2>1, <2>4, <3>2
      <3>3. CASE Task.offset \notin DOMAIN visited
        <4>1. Cardinality(DOMAIN visited) # TaskCap
          BY <1>2, <1>4, <3>3 DEF NoRoomToRemember, Known
        <4>2. IsFiniteSet(DOMAIN vi) /\ Cardinality(DOMAIN vi) = Cardinality(DOMAIN visited) + 1
          BY <2>1, <2>4, <3>3, FS_AddElement
        <4>3. QED
          BY <1>1, <2>4, <3>1, <4>1, <4>2
      <3>4. QED
        BY <3>2, <3>3
    <2>6. \A o \in DOMAIN vi : vi[o] # {} /\ vi[o] \subseteq Kind
      BY <1>1, <2>1, <2>2 DEF Typed
    <2>7. \A i \in DOMAIN wk : wk[i].offset \in DOMAIN vi /\ wk[i].kind \in vi[wk[i].offset]
      BY <1>1, <1>4, <2>1, <2>2, <2>3 DEF Remembers
    <2>8. \A o \in DOMAIN vi : \E i \in DOMAIN wk : wk[i].offset = o
      BY <1>1, <1>4, <2>1, <2>3 DEF Remembers
    <2>9. \A i \in DOMAIN walk : walk[i].offset = Task.offset =>
             {walk[i].kind, Task.kind} = {"GPS", "INTEROP"}
      <3>1. SUFFICES ASSUME NEW i \in DOMAIN walk, walk[i].offset = Task.offset
                     PROVE  {walk[i].kind, Task.kind} = {"GPS", "INTEROP"}
        OBVIOUS
      <3>2. Task.offset \in DOMAIN visited /\ walk[i].kind \in visited[Task.offset]
        BY <1>1, <1>4, <3>1 DEF Remembers
      <3>3. AgainAllowed(Task)
        BY <1>4, <3>2 DEF Seen, Known
      <3>4. QED
        BY <3>2, <3>3 DEF AgainAllowed
    <2>10. \A i, j \in DOMAIN wk : i < j /\ wk[i].offset = wk[j].offset =>
              {wk[i].kind, wk[j].kind} = {"GPS", "INTEROP"}
      <3>1. SUFFICES ASSUME NEW i \in DOMAIN wk, NEW j \in DOMAIN wk, i < j,
                            wk[i].offset = wk[j].offset
                     PROVE  {wk[i].kind, wk[j].kind} = {"GPS", "INTEROP"}
        OBVIOUS
      <3>2. i \in DOMAIN walk
        BY <2>3, <3>1
      <3>3. CASE j \in DOMAIN walk
        <4>1. walk[i].offset = walk[j].offset /\ wk[i].kind = walk[i].kind
              /\ wk[j].kind = walk[j].kind
          BY <2>3, <3>1, <3>2, <3>3
        <4>2. {walk[i].kind, walk[j].kind} = {"GPS", "INTEROP"}
          BY <1>1, <1>4, <3>1, <3>2, <3>3, <4>1 DEF Remembers
        <4>3. QED
          BY <4>1, <4>2
      <3>4. CASE j = Len(walk) + 1
        BY <2>3, <2>9, <3>1, <3>2, <3>4
      <3>5. QED
        BY <2>3, <3>3, <3>4
    <2>11. Remembers(mode, vi, wk)
      BY <2>7, <2>8, <2>10 DEF Remembers
    <2>12. QED
      BY <2>5, <2>6, <2>11 DEF vi, wk
  <1>5. QED
    BY <1>3, <1>4

LEMMA CountedFacts ==
    ASSUME IInv, res.ifds < job.maxIfds
    PROVE  /\ Counted(res) \in Results /\ Counted(res).ifds = res.ifds + 1
           /\ Counted(res).entries = res.entries
           /\ Counted(res).written <= job.ifdCap /\ Counted(res).written <= res.ifds + 1
  <1>1. /\ res \in Results /\ res.ifds \in Nat /\ res.written \in Nat /\ job.ifdCap \in Nat
        /\ res.status \in Status /\ ListRoom \in Nat /\ ListRoom <= job.ifdCap
        /\ res.written <= job.ifdCap /\ res.written <= res.ifds
    BY Facts DEF Results, ListRoom, Counts
  <1> DEFINE e == [res EXCEPT !.ifds = @ + 1]
  <1>2. /\ e \in Results /\ e.ifds = res.ifds + 1 /\ e.written = res.written
        /\ e.entries = res.entries
    BY <1>1 DEF Results
  <1>3. Counted(res) =
          IF res.written < ListRoom THEN [e EXCEPT !.written = @ + 1]
          ELSE IF ListRoom # 0 /\ res.status = "OK" THEN [e EXCEPT !.status = "TRUNCATED"] ELSE e
    BY DEF Counted
  <1> HIDE DEF e
  <1>4. CASE res.written < ListRoom
    BY <1>1, <1>2, <1>3, <1>4 DEF Results
  <1>5. CASE ~(res.written < ListRoom)
    BY <1>1, <1>2, <1>3, <1>5 DEF Results, Status
  <1>6. QED
    BY <1>4, <1>5

LEMMA EnterDirectoryStep ==
    ASSUME IInv, EnterDirectory
    PROVE  IInv'
  <1> DEFINE wk == Append(walk, Task)
             cu == [task |-> Task, i |-> 1, k |-> 0]
  <1>1. /\ AtTask /\ ~Seen(Task) /\ Refusal(Task) = "OK"
        /\ tasks' = Tail(tasks) /\ visited' = Remembered(Task) /\ res' = Counted(res)
        /\ walk' = Walked(Task) /\ cur' = cu /\ pc' = "entries"
        /\ UNCHANGED <<job, file, mode, next, outer>>
    BY DEF EnterDirectory
  <1>2. /\ res.ifds < job.maxIfds /\ ~ExceedsBudget(Task)
    BY <1>1, Facts DEF Refusal, Results
  <1>3. walk' = wk
    BY <1>1, <1>2, Facts DEF Walked, Counts, Results
  <1>4. /\ wk \in Seq(Tasks) /\ Len(wk) = Len(walk) + 1 /\ wk[Len(walk) + 1] = Task
        /\ DOMAIN wk = 1 .. Len(walk) + 1 /\ DOMAIN walk = 1 .. Len(walk) /\ Len(walk) \in Nat
        /\ \A i \in DOMAIN walk : wk[i] = walk[i]
    BY <1>1, TaskFacts, Facts, AppendFacts
  <1>5. cu \in Cursors /\ cu.task = Task /\ cu.i = 1
    BY <1>1, TaskFacts DEF Cursors
  <1> HIDE DEF wk, cu
  <1>6. Typed(file, mode, tasks, visited, cur, next, walk)'
    BY <1>1, <1>3, <1>4, <1>5, TaskFacts, Facts, RememberedFacts DEF Typed
  <1>7. Indexed(tasks, next, walk)'
    BY <1>1, <1>3, TaskFacts, Facts, IndexedEnter DEF wk
  <1>8. Remembers(mode, visited, walk)'
    BY <1>1, <1>3, RememberedFacts DEF wk
  <1>9. Counts(res, walk)'
    BY SMTT(20), <1>1, <1>2, <1>3, <1>4, CountedFacts, Facts DEF Counts, Results
  <1>10. Closed(job.longest, "entries", file, mode, Tail(tasks), cu, wk)
    <2>1. \A kind, o : Reached(mode, tasks, walk, kind, o) => Reached(mode, Tail(tasks), wk, kind, o)
      BY <1>1, TaskFacts, Facts, EnterReaches DEF wk
    <2>2. \A d : Complete(job.longest, file, mode, tasks, walk, d)
                    => Complete(job.longest, file, mode, Tail(tasks), wk, d)
      BY <2>1, StillFollowed
    <2>3. /\ Reached(mode, tasks, walk, "IFD", file.first)
          /\ \A i \in DOMAIN walk : Complete(job.longest, file, mode, tasks, walk, walk[i])
      BY <1>1, TaskFacts DEF Closed, InDirectory
    <2>4. \A i \in DOMAIN wk : i = Len(wk) \/ Complete(job.longest, file, mode, Tail(tasks), wk, wk[i])
      BY <1>4, <2>2, <2>3
    <2>5. \A l \in DOMAIN DirIn(file, Task).entries : ~(l < 1)
      BY DirectoryFacts, Facts
    <2>6. Halfway(job.longest, "entries", file, mode, Tail(tasks), cu, wk)
      BY <1>4, <1>5, <2>5 DEF Halfway
    <2>7. QED
      BY <2>1, <2>3, <2>4, <2>6 DEF Closed, InDirectory
  <1>11. FrameInv'
    BY <1>1, <1>3, <1>6, <1>7, <1>8, <1>9, <1>10 DEF FrameInv
  <1>12. OuterInv'
    BY <1>1, OuterKept DEF IInv
  <1>13. ControlInv'
    <2>1. Size(cur.task)' = Size(Task)
      BY <1>1, <1>5 DEF Size, Directory
    <2>2. Size(Task) <= job.maxEntries /\ res.entries + Size(Task) <= job.maxTotal
      BY SMTT(20), <1>2, Facts, DirectoryFacts DEF ExceedsBudget, Results
    <2>3. res'.entries = res.entries
      BY <1>1, <1>2, CountedFacts
    <2>4. QED
      BY <1>1, <1>5, <2>1, <2>2, <2>3, TaskFacts DEF IInv, ControlInv, Running
  <1>14. QED
    BY <1>11, <1>12, <1>13 DEF IInv

-----------------------------------------------------------------------------
(* The entries of a directory.                                             *)
LEMMA EntryFacts ==
    ASSUME IInv, pc \in InDirectory, cur.i <= Size(cur.task)
    PROVE  /\ Entry = DirIn(file, cur.task).entries[cur.i] /\ Entry \in Entries
           /\ cur.i \in DOMAIN DirIn(file, cur.task).entries
           /\ Unread <=> LeftOut(job.longest, mode, Entry)
  <1>1. cur.i > 0 /\ cur.i \in Nat
    BY Facts DEF Closed, Halfway, InDirectory, Running, Cursors
  <1>2. cur.i \in 1 .. Size(cur.task)
    BY <1>1, Facts, DirectoryFacts
  <1>3. QED
    BY <1>2, Facts, DirectoryFacts DEF Entry, Unread, UnreadIn, LeftOut

LEMMA NextEntryFacts ==
    ASSUME IInv, pc \in InDirectory
    PROVE  /\ [cur EXCEPT !.i = @ + 1] \in Cursors
           /\ [cur EXCEPT !.i = @ + 1].task = cur.task
           /\ [cur EXCEPT !.i = @ + 1].i = cur.i + 1
           /\ cur.i > 0 /\ cur.i \in Nat
           /\ Closed(job.longest, pc, file, mode, tasks, cur, walk)
           /\ pc \in Running
  <1>1. pc \in Running
    BY DEF InDirectory, Running
  <1>2. Closed(job.longest, pc, file, mode, tasks, cur, walk) /\ cur \in Cursors
    BY <1>1, Facts
  <1>3. cur.i > 0
    BY <1>2 DEF Closed, Halfway
  <1>4. QED
    BY <1>1, <1>2, <1>3 DEF Cursors

(* The step from an entry that is followed to the next.                    *)
LEMMA NextEntryStep ==
    ASSUME IInv, pc \in InDirectory, pc' = "entries",
           cur.i <= Size(cur.task), Followed(job.longest, mode, tasks, walk, Entry),
           cur' = [cur EXCEPT !.i = @ + 1],
           res' \in Results, res'.ifds = res.ifds, res'.written = res.written,
           UNCHANGED <<job, file, mode, tasks, visited, next, walk, outer>>
    PROVE  IInv'
  <1>1. Closed(job.longest, "entries", file, mode, tasks, cur', walk)
    <2>1. /\ cur \in Cursors /\ cur' \in Cursors /\ cur'.task = cur.task /\ cur'.i = cur.i + 1
          /\ IsGraph(file) /\ Closed(job.longest, pc, file, mode, tasks, cur, walk)
      BY NextEntryFacts, Facts
    <2>2. Followed(job.longest, mode, tasks, walk, DirIn(file, cur.task).entries[cur.i])
      BY EntryFacts
    <2>3. QED
      BY <2>1, <2>2, EntryDone
  <1>2. cur' \in Cursors /\ cur'.i # 1
    BY NextEntryFacts
  <1>3. Typed(file, mode, tasks, visited, cur, next, walk)'
    BY <1>2, Facts DEF Typed
  <1>4. FrameInv'
    BY <1>1, <1>3, Facts DEF FrameInv, Counts
  <1>5. OuterInv'
    BY OuterKept DEF IInv
  <1>6. ControlInv'
    BY <1>2 DEF IInv, ControlInv, Running, InDirectory
  <1>7. QED
    BY <1>4, <1>5, <1>6 DEF IInv

LEMMA CountedEntries ==
    ASSUME IInv, NEW n \in Nat, res' = [res EXCEPT !.entries = @ + n + (IF Shown THEN 1 ELSE 0)]
    PROVE  res' \in Results /\ res'.ifds = res.ifds /\ res'.written = res.written
  <1>1. res \in Results /\ res.entries \in Nat
    BY Facts DEF Results
  <1>2. CASE Shown
    <2>1. res' = [res EXCEPT !.entries = res.entries + n + 1] /\ res.entries + n + 1 \in Nat
      BY <1>1, <1>2
    <2>2. QED
      BY <1>1, <2>1 DEF Results
  <1>3. CASE ~Shown
    <2>1. res' = [res EXCEPT !.entries = res.entries + n + 0] /\ res.entries + n + 0 \in Nat
      BY <1>1, <1>3
    <2>2. QED
      BY <1>1, <2>1 DEF Results
  <1>4. QED
    BY <1>2, <1>3

LEMMA PlainEntryStep ==
    ASSUME IInv, PlainEntry
    PROVE  IInv'
  <1>1. PICK n \in Nat : res' = [res EXCEPT !.entries = @ + n + (IF Shown THEN 1 ELSE 0)]
    BY CapAssumption DEF PlainEntry
  <1>2. res' \in Results /\ res'.ifds = res.ifds /\ res'.written = res.written
    BY <1>1, CountedEntries
  <1>3. /\ pc \in InDirectory /\ pc' = "entries" /\ cur.i <= Size(cur.task)
        /\ Entry.tag \in {"PLAIN", "NOTE"} \/ Unread
        /\ cur' = [cur EXCEPT !.i = @ + 1]
        /\ UNCHANGED <<job, file, mode, tasks, visited, next, walk, outer>>
    BY DEF PlainEntry, AtEntry, InDirectory
  <1>4. Followed(job.longest, mode, tasks, walk, Entry)
    BY <1>3, EntryFacts DEF Followed, Following, Pointer
  <1>5. QED
    BY <1>2, <1>3, <1>4, NextEntryStep

LEMMA PointerEntryStep ==
    ASSUME IInv, PointerEntry
    PROVE  IInv'
  <1>1. /\ pc = "entries" /\ pc \in InDirectory /\ pc' = "targets" /\ cur.i <= Size(cur.task)
        /\ Entry.tag \in Following
        /\ res' = [res EXCEPT !.entries = @ + (IF Shown THEN 1 ELSE 0)]
        /\ cur' = [cur EXCEPT !.k = 1]
        /\ UNCHANGED <<job, file, mode, tasks, visited, next, walk, outer>>
    BY DEF PointerEntry, AtEntry, InDirectory, Following
  <1>2. res' \in Results /\ res'.ifds = res.ifds /\ res'.written = res.written
    <2>1. res \in Results /\ res.entries \in Nat
      BY Facts DEF Results
    <2>2. CASE Shown
      BY <1>1, <2>1, <2>2 DEF Results
    <2>3. CASE ~Shown
      BY <1>1, <2>1, <2>3 DEF Results
    <2>4. QED
      BY <2>2, <2>3
  <1>3. cur' \in Cursors /\ cur'.task = cur.task /\ cur'.i = cur.i /\ cur'.k = 1
    BY <1>1, Facts DEF Cursors
  <1>4. Typed(file, mode, tasks, visited, cur, next, walk)'
    BY <1>1, <1>3, Facts DEF Typed
  <1>5. Closed(job.longest, "targets", file, mode, tasks, cur', walk)
    <2>1. Closed(job.longest, "entries", file, mode, tasks, cur, walk)
      BY <1>1, NextEntryFacts
    <2>2. Halfway(job.longest, "entries", file, mode, tasks, cur, walk)
      BY <2>1 DEF Closed, InDirectory
    <2>3. Entry = DirIn(file, cur.task).entries[cur.i] /\ Entry.to \in Seq(Places)
          /\ cur.i \in DOMAIN DirIn(file, cur.task).entries
      BY <1>1, EntryFacts DEF Entries, Places
    <2>4. \A n \in DOMAIN Entry.to : ~(n < 1)
      BY <2>3
    <2>5. Halfway(job.longest, "targets", file, mode, tasks, cur', walk)
      BY <1>1, <1>3, <2>2, <2>3, <2>4 DEF Halfway
    <2>6. QED
      BY <2>1, <2>5 DEF Closed, InDirectory
  <1>6. FrameInv'
    BY <1>1, <1>2, <1>4, <1>5, Facts DEF FrameInv, Counts
  <1>7. OuterInv'
    BY <1>1, OuterKept DEF IInv
  <1>8. ControlInv'
    BY <1>1, NextEntryFacts DEF IInv, ControlInv, Running, AtEntry
  <1>9. QED
    BY <1>6, <1>7, <1>8 DEF IInv

(* One target of the entry.                                                *)
LEMMA TargetFacts ==
    ASSUME IInv, pc = "targets"
    PROVE  /\ cur.i <= Size(cur.task) /\ Entry \in Entries /\ Entry.tag \in Following
           /\ Entry = DirIn(file, cur.task).entries[cur.i]
           /\ cur.i \in DOMAIN DirIn(file, cur.task).entries
           /\ cur.k \in Nat /\ cur.k > 0
           /\ \A n \in DOMAIN Entry.to : n < cur.k =>
                 Reached(mode, tasks, walk, Entry.tag, Entry.to[n])
           /\ DOMAIN Entry.to = 1 .. Len(Entry.to) /\ Len(Entry.to) \in Nat
           /\ cur.k <= Len(Entry.to) => Target \in Tasks
  <1>1. pc \in InDirectory
    BY DEF InDirectory
  <1>2. Halfway(job.longest, "targets", file, mode, tasks, cur, walk)
    BY <1>1, NextEntryFacts DEF Closed
  <1>3. cur.i \in 1 .. Size(cur.task)
    BY <1>2, Facts, DirectoryFacts DEF Halfway
  <1>4. cur.i <= Size(cur.task)
    BY <1>3, Facts, DirectoryFacts
  <1>5. /\ Entry \in Entries /\ Entry = DirIn(file, cur.task).entries[cur.i]
        /\ cur.i \in DOMAIN DirIn(file, cur.task).entries
    BY <1>1, <1>4, EntryFacts
  <1>6. /\ Entry.tag \in Following /\ cur.k > 0 /\ cur.k \in Nat
        /\ \A n \in DOMAIN Entry.to : n < cur.k => Reached(mode, tasks, walk, Entry.tag, Entry.to[n])
    BY <1>2, <1>5, Facts DEF Halfway, Cursors
  <1>7. Entry.to \in Seq(Places)
    BY <1>5 DEF Entries, Places
  <1>8. cur.k <= Len(Entry.to) => Target \in Tasks
    BY <1>6, <1>7, Facts DEF Target, Tasks, Following, Kind, Counters
  <1>9. QED
    BY <1>4, <1>5, <1>6, <1>7, <1>8

LEMMA PushTargetStep ==
    ASSUME IInv, PushTarget
    PROVE  IInv'
  <1>1. pc = "targets" /\ pc \in Running /\ pc \in InDirectory /\ cur.k <= Len(Entry.to)
    BY DEF PushTarget, Running, InDirectory
  <1>2. CASE Stop("MALFORMED") \/ Stop("LIMIT")
    BY <1>1, <1>2, StopsStep
  <1>3. CASE /\ ~(Len(Push(tasks, Target)) > TaskCap)
             /\ tasks' = Push(tasks, Target)
             /\ next' = IF Entry.tag = "SUB" THEN [next EXCEPT !.sub = @ + 1] ELSE next
             /\ cur' = [cur EXCEPT !.k = @ + 1]
             /\ UNCHANGED <<job, file, mode, visited, res, walk, outer, pc>>
    <2>1. /\ Target \in Tasks /\ Target.kind = Entry.tag /\ Target.offset = Entry.to[cur.k]
          /\ Target.index = IF Entry.tag = "SUB" THEN next.sub ELSE 0
      BY <1>1, TargetFacts DEF Target
    <2>2. tasks' \in Seq(Tasks) /\ Len(tasks') <= TaskCap
      BY <1>3, <2>1, Facts, PushFacts
    <2>3. cur' \in Cursors /\ cur'.task = cur.task /\ cur'.i = cur.i /\ cur'.k = cur.k + 1
      BY SMTT(20), <1>3, Facts DEF Cursors
    <2>4. /\ next' \in Counters /\ next'.ifd = next.ifd
          /\ next'.sub = IF Entry.tag = "SUB" THEN next.sub + 1 ELSE next.sub
      BY SMTT(20), <1>3, Facts DEF Counters
    <2>5. Typed(file, mode, tasks, visited, cur, next, walk)'
      BY <1>3, <2>2, <2>3, <2>4, Facts DEF Typed
    <2>6. Indexed(tasks, next, walk)'
      <3>1. Target.kind # "IFD"
        BY <1>1, <2>1, TargetFacts DEF Following, Pointer
      <3>2. \A s \in Tasks : Below(s, next) => Below(s, next') /\ Apart(s, Target)
        BY <2>1, <2>4, <3>1, Facts DEF Below, Apart, Tasks, Counters
      <3>3. Below(Target, next')
        BY <2>1, <2>4, <3>1, Facts DEF Below, Counters
      <3>4. Indexed(Push(tasks, Target), next', walk)
        BY <2>1, <3>2, <3>3, Facts, IndexedPush
      <3>5. QED
        BY <1>3, <3>4
    <2>7. Closed(job.longest, "targets", file, mode, tasks', cur', walk)
      <3>1. /\ \A kind, o : Reached(mode, tasks, walk, kind, o) => Reached(mode, tasks', walk, kind, o)
            /\ Reached(mode, tasks', walk, Entry.tag, Entry.to[cur.k])
        BY <1>3, <2>1, Facts, PushReaches
      <3>2. Closed(job.longest, "targets", file, mode, tasks', cur, walk)
        BY <1>1, <3>1, NextEntryFacts, ClosedGrows
      <3>3. Halfway(job.longest, "targets", file, mode, tasks', cur, walk)
        BY <3>2 DEF Closed, InDirectory
      <3>4. \A n \in DOMAIN Entry.to : n < cur.k + 1 => n < cur.k \/ n = cur.k
        BY <1>1, TargetFacts
      <3>5. \A n \in DOMAIN Entry.to : n < cur.k + 1 =>
               Reached(mode, tasks', walk, Entry.tag, Entry.to[n])
        BY <1>1, <3>1, <3>4, TargetFacts
      <3>6. cur'.k > 0
        BY <1>1, <2>3, TargetFacts
      <3>7. Halfway(job.longest, "targets", file, mode, tasks', cur', walk)
        BY <1>1, <2>3, <3>3, <3>5, <3>6, TargetFacts DEF Halfway
      <3>8. QED
        BY <3>2, <3>7 DEF Closed, InDirectory
    <2>8. FrameInv'
      BY <1>1, <1>3, <2>5, <2>6, <2>7, Facts DEF FrameInv, Counts
    <2>9. OuterInv'
      BY <1>3, OuterKept DEF IInv
    <2>10. ControlInv'
      BY <1>1, <1>3 DEF IInv, ControlInv, AtEntry
    <2>11. QED
      BY <2>8, <2>9, <2>10 DEF IInv
  <1>4. QED
    BY <1>2, <1>3 DEF PushTarget

LEMMA TargetsQueuedStep ==
    ASSUME IInv, TargetsQueued
    PROVE  IInv'
  <1>1. /\ pc = "targets" /\ pc \in InDirectory /\ cur.k > Len(Entry.to) /\ pc' = "entries"
        /\ cur' = [cur EXCEPT !.i = @ + 1]
        /\ UNCHANGED <<job, file, mode, tasks, visited, next, res, walk, outer>>
    BY DEF TargetsQueued, InDirectory
  <1>2. \A n \in DOMAIN Entry.to : n < cur.k
    BY <1>1, TargetFacts
  <1>3. Followed(job.longest, mode, tasks, walk, Entry)
    BY <1>1, <1>2, TargetFacts DEF Followed
  <1>4. res \in Results
    BY Facts
  <1>5. QED
    BY <1>1, <1>3, <1>4, TargetFacts, NextEntryStep

-----------------------------------------------------------------------------
(* Into a maker note, and back.                                            *)
LEMMA OneTask ==
    ASSUME NEW t \in Tasks, NEW m, NEW nx \in Counters, t.kind = "IFD", t.index = 0
    PROVE  /\ <<t>> \in Seq(Tasks) /\ Len(<<t>>) = 1 /\ <<>> \in Seq(Tasks) /\ Len(<<>>) = 0
           /\ Indexed(<<t>>, nx, <<>>) /\ Indexed(<<>>, nx, <<>>)
           /\ Reached(m, <<t>>, <<>>, "IFD", t.offset)
  <1>1. <<t>> \in Seq(Tasks) /\ Len(<<t>>) = 1 /\ DOMAIN <<t>> = {1} /\ <<t>>[1] = t
    OBVIOUS
  <1>2. DOMAIN <<>> = {} /\ <<>> \in Seq(Tasks) /\ Len(<<>>) = 0
    OBVIOUS
  <1>3. Below(t, nx)
    BY DEF Below, Counters
  <1> DEFINE q == <<t>>
             e == <<>>
  <1> HIDE DEF q, e
  <1>4. DOMAIN q = {1} /\ q[1] = t /\ DOMAIN e = {}
    BY <1>1, <1>2 DEF q, e
  <1>5. Indexed(q, nx, e) /\ Indexed(e, nx, e) /\ Reached(m, q, e, "IFD", t.offset)
    BY <1>3, <1>4 DEF Indexed, Reached, Holds
  <1>6. QED
    BY <1>1, <1>2, <1>5 DEF q, e

LEMMA NoteEntryStep ==
    ASSUME IInv, NoteEntry
    PROVE  IInv'
  <1> DEFINE t == [NoTask EXCEPT !.offset = file.note.first]
             cu == [cur EXCEPT !.i = @ + 1]
             r == [res EXCEPT !.entries = @ + 1]
             zero == [ifd |-> 0, sub |-> 0]
             p == [file |-> file, mode |-> mode, tasks |-> tasks, visited |-> visited,
                   cur |-> cu, next |-> next, walk |-> walk, res |-> r]
  <1>1. /\ pc = "entries" /\ pc \in InDirectory /\ cur.i <= Size(cur.task) /\ Entry.tag = "NOTE"
        /\ outer = <<>> /\ mode' \in ChildModes /\ file' = file.note
        /\ outer' = <<p>> /\ res' = r /\ visited' = <<>> /\ walk' = <<>> /\ next' = zero
        /\ cur' = [task |-> NoTask, i |-> 0, k |-> 0] /\ job' = job
        /\ \/ pc' = "header" /\ tasks' = <<>>
           \/ pc' = "pop" /\ tasks' = <<t>>
    BY DEF NoteEntry, AtEntry, InDirectory
  <1>2. r \in Results /\ r.ifds = res.ifds /\ r.written = res.written
    BY SMTT(20), Facts DEF Results
  <1>3. mode.follow /\ file \in Files /\ IsGraph(file.note)
    BY <1>1, FilesAssumption DEF IInv, ControlInv
  <1>4. t \in Tasks /\ t.kind = "IFD" /\ t.index = 0 /\ t.offset = file.note.first /\ NoTask \in Tasks
    BY <1>3 DEF NoTask, Tasks, Kind, Places, IsGraph
  <1>5. zero \in Counters /\ [task |-> NoTask, i |-> 0, k |-> 0] \in Cursors
    BY <1>4 DEF Counters, Cursors
  <1>6. mode' \in Modes
    <2>1. \A b \in BOOLEAN : (~b) \in BOOLEAN
      BY Zenon
    <2>2. \A b \in BOOLEAN : [source |-> TRUE, follow |-> b, single |-> ~b] \in Modes
      BY <2>1, Zenon DEF Modes
    <2>3. [source |-> FALSE, follow |-> TRUE, single |-> FALSE] \in Modes
      BY DEF Modes
    <2>4. ChildModes \subseteq Modes
      BY <2>2, <2>3, Zenon DEF ChildModes
    <2>5. QED
      BY <1>1, <2>4
  <1>7. /\ cu \in Cursors /\ cu.task = cur.task /\ cu.i = cur.i + 1 /\ cu.i > 1
        /\ Closed(job.longest, "entries", file, mode, tasks, cur, walk)
    BY <1>1, NextEntryFacts
  <1>8. Closed(job.longest, "entries", file, mode, tasks, cu, walk)
    <2>1. Followed(job.longest, mode, tasks, walk, Entry)
      BY <1>1 DEF Followed, Following, Pointer
    <2>2. Followed(job.longest, mode, tasks, walk, DirIn(file, cur.task).entries[cur.i])
      BY <1>1, <2>1, EntryFacts
    <2>3. QED
      BY <1>1, <1>7, <2>2, Facts, EntryDone
  <1>9. outer'[1] = p /\ outer' # <<>> /\ outer' = <<outer'[1]>>
    BY <1>1
  <1>10. /\ Typed(p.file, p.mode, p.tasks, p.visited, p.cur, p.next, p.walk)
         /\ Indexed(p.tasks, p.next, p.walk) /\ Remembers(p.mode, p.visited, p.walk)
         /\ Closed(job.longest, "entries", p.file, p.mode, p.tasks, p.cur, p.walk)
         /\ Counts(p.res, p.walk)
         /\ p.mode.follow /\ p.cur.i > 1 /\ p.file \in Files
    <2> HIDE DEF cu, r
    <2>1. Typed(file, mode, tasks, visited, cu, next, walk) /\ Counts(r, walk)
      BY <1>2, <1>7, Facts DEF Typed, Counts
    <2>2. QED
      BY <1>3, <1>7, <1>8, <2>1, Facts
  <1> HIDE DEF p, t, cu, r, zero
  <1>11. OuterInv'
    BY <1>1, <1>9, <1>10 DEF OuterInv, Counts
  <1>12. /\ tasks' \in Seq(Tasks) /\ Len(tasks') <= 1 /\ Indexed(tasks', next', walk')
         /\ walk' \in Seq(Tasks) /\ Len(walk') = 0
         /\ Closed(job.longest, pc', file', mode', tasks', cur', walk')
    <2>1. Indexed(tasks', next', walk')
      BY <1>1, <1>4, <1>5, OneTask
    <2>2. pc' # "header" => Reached(mode', tasks', walk', "IFD", file'.first)
      BY <1>1, <1>4, <1>5, OneTask
    <2>3. DOMAIN walk' = {}
      BY <1>1
    <2>4. Closed(job.longest, pc', file', mode', tasks', cur', walk')
      BY <1>1, <2>2, <2>3 DEF Closed, InDirectory
    <2>5. /\ <<t>> \in Seq(Tasks) /\ Len(<<t>>) = 1
          /\ <<>> \in Seq(Tasks) /\ Len(<<>>) = 0
      BY <1>4, <1>5, OneTask
    <2>6. walk' \in Seq(Tasks) /\ Len(walk') = 0
      BY <1>1, <2>5, Zenon
    <2>7. tasks' \in Seq(Tasks) /\ Len(tasks') <= 1
      <3>1. CASE tasks' = <<>>
        BY <2>5, <3>1
      <3>2. CASE tasks' = <<t>>
        BY <2>5, <3>2
      <3>3. QED
        BY <1>1, <3>1, <3>2, Zenon
    <2>8. QED
      BY <2>1, <2>4, <2>6, <2>7
  <1>13. DOMAIN visited' = {} /\ IsFiniteSet({}) /\ Cardinality({}) = 0
    BY <1>1, FS_EmptySet
  <1>14. Typed(file, mode, tasks, visited, cur, next, walk)'
    <2>1. IsFiniteSet(DOMAIN visited') /\ Cardinality(DOMAIN visited') <= TaskCap
          /\ \A o \in DOMAIN visited' : visited'[o] # {} /\ visited'[o] \subseteq Kind
      BY <1>13, CapAssumption
    <2>2. Len(tasks') <= TaskCap
      BY <1>12, CapAssumption
    <2>3. QED
      BY <1>1, <1>3, <1>5, <1>6, <1>12, <2>1, <2>2 DEF Typed
  <1>15. Remembers(mode, visited, walk)'
    BY <1>1, <1>13 DEF Remembers
  <1>16. Counts(res, walk)'
    BY <1>1, <1>2, <1>12, Facts DEF Counts, Results
  <1>17. FrameInv'
    BY <1>1, <1>12, <1>14, <1>15, <1>16 DEF FrameInv
  <1>18. ControlInv'
    BY <1>1, <1>9, Facts DEF ControlInv, Running, AtEntry
  <1>19. QED
    BY <1>11, <1>17, <1>18 DEF IInv

LEMMA LeaveChildStep ==
    ASSUME IInv, LeaveChild
    PROVE  IInv'
  <1> DEFINE p == outer[1]
  <1>1. /\ outer # <<>> /\ outer' = <<>> /\ job' = job
        /\ file' = p.file /\ mode' = p.mode /\ tasks' = p.tasks /\ visited' = p.visited
        /\ cur' = p.cur /\ next' = p.next /\ walk' = p.walk
        /\ pc' = IF Fatal THEN "stopped" ELSE "entries"
    BY DEF LeaveChild
  <1> DEFINE kept == [p.res EXCEPT !.lost = res.lost]
             ended == IF Fatal THEN [kept EXCEPT !.status = res.status] ELSE kept
  <1>2. PICK n \in Nat : res' = [ended EXCEPT !.entries = res.entries + n]
    BY CapAssumption DEF LeaveChild
  <1>3. /\ Typed(p.file, p.mode, p.tasks, p.visited, p.cur, p.next, p.walk)
        /\ Indexed(p.tasks, p.next, p.walk) /\ Remembers(p.mode, p.visited, p.walk)
        /\ Closed(job.longest, "entries", p.file, p.mode, p.tasks, p.cur, p.walk)
        /\ Counts(p.res, p.walk)
        /\ p.mode.follow /\ p.cur.i > 1 /\ p.file \in Files
    BY <1>1 DEF IInv, OuterInv
  <1> HIDE DEF p, ended
  <1>4. /\ res' \in Results /\ res'.ifds = p.res.ifds /\ res'.written = p.res.written
        /\ res'.status = (IF Fatal THEN res.status ELSE p.res.status) /\ res'.lost = res.lost
    <2> DEFINE s == IF Fatal THEN res.status ELSE p.res.status
               e == res.entries + n
    <2>1. p.res \in Results /\ res.lost \in BOOLEAN /\ e \in Nat /\ res.status \in Status
      BY SMTT(20), <1>3, Facts DEF Counts, Results
    <2>2. /\ kept \in Results /\ kept.status = p.res.status /\ kept.ifds = p.res.ifds
          /\ kept.written = p.res.written /\ kept.lost = res.lost
      BY <2>1 DEF Results
    <2> HIDE DEF kept
    <2>3. /\ ended \in Results /\ ended.status = s /\ ended.ifds = p.res.ifds
          /\ ended.written = p.res.written /\ ended.lost = res.lost
      <3>1. CASE Fatal
        <4>1. ended = [kept EXCEPT !.status = res.status]
          BY <3>1 DEF ended
        <4>2. QED
          BY <2>1, <2>2, <3>1, <4>1 DEF Results
      <3>2. CASE ~Fatal
        BY <2>2, <3>2 DEF ended
      <3>3. QED
        BY <3>1, <3>2
    <2> HIDE DEF e, s
    <2>4. /\ res' \in Results /\ res'.status = s /\ res'.ifds = p.res.ifds
          /\ res'.written = p.res.written /\ res'.lost = res.lost
      BY <1>2, <2>1, <2>3 DEF Results, e
    <2>5. QED
      BY <2>4 DEF s
  <1>5. Counts(res, walk)'
    BY <1>1, <1>3, <1>4 DEF Counts
  <1>6. pc' \in Running => Closed(job.longest, pc, file, mode, tasks, cur, walk)'
    BY <1>1, <1>3 DEF Running
  <1>7. FrameInv'
    BY <1>1, <1>3, <1>5, <1>6 DEF FrameInv
  <1>8. OuterInv'
    BY <1>1 DEF OuterInv
  <1>9. pc' = "stopped" => ~Good'
    BY <1>1, <1>4 DEF Good, Fatal
  <1>10. cur'.i # 1 /\ mode'.follow /\ file' \in Files
    BY <1>1, <1>3
  <1>11. ControlInv'
    BY <1>1, <1>9, <1>10, Facts DEF ControlInv, Running
  <1>12. QED
    BY <1>7, <1>8, <1>11 DEF IInv

-----------------------------------------------------------------------------
(* After the entries.                                                      *)
LEMMA LeaveDirectoryStep ==
    ASSUME IInv, LeaveDirectory
    PROVE  IInv'
  <1> DEFINE o == Directory(cur.task).next
             t == [kind |-> "IFD", index |-> next.ifd + 1, offset |-> o]
  <1>1. pc = "entries" /\ pc \in Running /\ pc \in InDirectory /\ cur.i > Size(cur.task)
    BY DEF LeaveDirectory, AtEnd, Running, InDirectory
  <1>2. /\ Directory(cur.task) = DirIn(file, cur.task) /\ Directory(cur.task) \in Directories
        /\ Size(cur.task) = Len(DirIn(file, cur.task).entries)
        /\ cur \in Cursors /\ walk \in Seq(Tasks) /\ IsGraph(file) /\ mode \in Modes
    BY Facts, DirectoryFacts
  <1>3. Closed(job.longest, "entries", file, mode, tasks, cur, walk)
    BY <1>1, NextEntryFacts
  <1>4. CASE ~ChainsIn(cur.task, mode)
    <2>1. pc' = "pop" /\ UNCHANGED <<job, res, frame>>
      BY <1>4 DEF LeaveDirectory
    <2>2. UNCHANGED <<job, file, mode, tasks, visited, cur, next, res, walk, outer>>
      BY <2>1 DEF frame
    <2>3. Chained(file, mode, tasks, walk, cur.task)
      BY <1>2, <1>4 DEF Chained, ChainsIn
    <2>4. Closed(job.longest, "pop", file, mode, tasks, cur, walk)
      BY <1>1, <1>2, <1>3, <2>3, DirectoryDone
    <2>5. FrameInv'
      BY <2>1, <2>2, <2>4, Facts DEF FrameInv, Counts
    <2>6. OuterInv'
      BY <2>2, OuterKept DEF IInv
    <2>7. ControlInv'
      BY <2>1, <2>2 DEF IInv, ControlInv, Running, AtEntry
    <2>8. QED
      BY <2>5, <2>6, <2>7 DEF IInv
  <1>5. CASE ChainsIn(cur.task, mode) /\ Len(Push(tasks, t)) > TaskCap
    <2>1. Stop("LIMIT")
      BY <1>5 DEF LeaveDirectory
    <2>2. QED
      BY <1>1, <2>1, StopsStep
  <1>6. CASE ChainsIn(cur.task, mode) /\ ~(Len(Push(tasks, t)) > TaskCap)
    <2>1. /\ tasks' = Push(tasks, t) /\ next' = [next EXCEPT !.ifd = @ + 1] /\ pc' = "pop"
          /\ UNCHANGED <<job, file, mode, visited, cur, res, walk, outer>>
      BY <1>6 DEF LeaveDirectory
    <2>2. /\ t \in Tasks /\ t.kind = "IFD" /\ t.index = next.ifd + 1 /\ t.offset = o
      BY <1>2, Facts DEF Tasks, Kind, Places, Directories, Counters
    <2> HIDE DEF t
    <2>3. tasks' \in Seq(Tasks) /\ Len(tasks') <= TaskCap
      BY <1>6, <2>1, <2>2, Facts, PushFacts
    <2>4. next' \in Counters /\ next'.ifd = next.ifd + 1 /\ next'.sub = next.sub
      BY SMTT(20), <2>1, Facts DEF Counters
    <2>5. Typed(file, mode, tasks, visited, cur, next, walk)'
      BY <2>1, <2>3, <2>4, Facts DEF Typed
    <2>6. Indexed(tasks, next, walk)'
      <3>1. \A s \in Tasks : Below(s, next) => Below(s, next') /\ Apart(s, t)
        BY <2>2, <2>4, Facts DEF Below, Apart, Tasks, Counters
      <3>2. Below(t, next')
        BY <2>2, <2>4, Facts DEF Below, Counters
      <3>3. Indexed(Push(tasks, t), next', walk)
        BY <2>2, <3>1, <3>2, Facts, IndexedPush
      <3>4. QED
        BY <2>1, <3>3
    <2>7. Closed(job.longest, "pop", file, mode, tasks', cur, walk)
      <3>1. /\ \A kind, p : Reached(mode, tasks, walk, kind, p) => Reached(mode, tasks', walk, kind, p)
            /\ Reached(mode, tasks', walk, "IFD", o)
        BY <2>1, <2>2, Facts, PushReaches
      <3>2. Closed(job.longest, "entries", file, mode, tasks', cur, walk)
        BY <1>3, <3>1, ClosedGrows
      <3>3. Chained(file, mode, tasks', walk, cur.task)
        BY <1>2, <3>1 DEF Chained
      <3>4. QED
        BY <1>1, <1>2, <3>2, <3>3, DirectoryDone
    <2>8. FrameInv'
      BY <2>1, <2>5, <2>6, <2>7, Facts DEF FrameInv, Counts
    <2>9. OuterInv'
      BY <2>1, OuterKept DEF IInv
    <2>10. ControlInv'
      BY <2>1 DEF IInv, ControlInv, Running, AtEntry
    <2>11. QED
      BY <2>8, <2>9, <2>10 DEF IInv
  <1>7. QED
    BY <1>4, <1>5, <1>6

LEMMA DrainStep ==
    ASSUME IInv, Drain
    PROVE  IInv'
  <1>1. /\ pc = "pop" /\ pc' = "drained" /\ (tasks = <<>> \/ ~mode.follow)
        /\ UNCHANGED <<job, file, mode, tasks, visited, cur, next, res, walk, outer>>
    BY DEF Drain, AtTask, frame
  <1>2. Closed(job.longest, "pop", file, mode, tasks, cur, walk)
    BY <1>1, Facts DEF Running
  <1>3. Closed(job.longest, "drained", file, mode, tasks, cur, walk)
    BY <1>2 DEF Closed, InDirectory
  <1>4. FrameInv'
    BY <1>1, <1>3, Facts DEF FrameInv, Counts
  <1>5. OuterInv'
    BY <1>1, OuterKept DEF IInv
  <1>6. ControlInv'
    BY <1>1 DEF IInv, ControlInv, Running, AtEntry
  <1>7. QED
    BY <1>4, <1>5, <1>6 DEF IInv

LEMMA FinishStep ==
    ASSUME IInv, Finish
    PROVE  IInv'
  <1>1. /\ pc \in {"stopped", "drained"} /\ outer = <<>> /\ pc' = "done"
        /\ UNCHANGED <<job, file, mode, tasks, visited, cur, next, walk, outer>>
    BY DEF Finish, frame
  <1>2. /\ res' \in Results /\ res'.ifds = res.ifds /\ res'.written = res.written
        /\ Good' => Good
    <2>1. CASE UNCHANGED res
      BY <2>1, Facts DEF Good
    <2>2. CASE \E n \in 1 .. NestedMax : res' = [res EXCEPT !.entries = @ + n]
      <3>1. PICK n \in Nat : res' = [res EXCEPT !.entries = @ + n]
        BY <2>2, CapAssumption
      <3>2. /\ res' \in Results /\ res'.ifds = res.ifds /\ res'.written = res.written
            /\ res'.status = res.status /\ res'.lost = res.lost
        <4>1. res \in Results /\ res.entries + n \in Nat
          BY Facts DEF Results
        <4>2. res' = [res EXCEPT !.entries = res.entries + n]
          BY <3>1
        <4>3. QED
          BY <4>1, <4>2 DEF Results
      <3>3. QED
        BY <3>2 DEF Good
    <2>3. CASE \E status \in {"NOMEM", "LIMIT"} : res' = [res EXCEPT !.status = status]
      BY <2>3, Facts DEF Results, Status, Good
    <2>4. QED
      BY <2>1, <2>2, <2>3 DEF Finish
  <1>3. FrameInv'
    BY <1>1, <1>2, Facts DEF FrameInv, Counts, Running
  <1>4. OuterInv'
    BY <1>1 DEF OuterInv
  <1>5. Good' => tasks = <<>> /\ Closed(job.longest, "pop", file, mode, tasks, cur, walk)
    <2>1. SUFFICES ASSUME Good'
                   PROVE  tasks = <<>> /\ Closed(job.longest, "pop", file, mode, tasks, cur, walk)
      OBVIOUS
    <2>2. pc = "drained" /\ tasks = <<>>
      BY <1>1, <1>2, <2>1 DEF IInv, ControlInv
    <2>3. Closed(job.longest, "drained", file, mode, tasks, cur, walk)
      BY <2>2, Facts DEF Running
    <2>4. QED
      BY <2>2, <2>3 DEF Closed, InDirectory
  <1>6. ControlInv'
    BY <1>1, <1>5 DEF IInv, ControlInv, AtEntry
  <1>7. QED
    BY <1>3, <1>4, <1>6 DEF IInv

LEMMA StutterStep ==
    ASSUME IInv, UNCHANGED vars
    PROVE  IInv'
  <1>1. UNCHANGED <<job, res, pc, file, mode, tasks, visited, cur, next, walk, outer>>
    BY DEF vars, frame
  <1>2. FrameInv'
    BY <1>1 DEF IInv, FrameInv, Counts
  <1>3. OuterInv'
    BY <1>1, OuterKept DEF IInv
  <1>4. ControlInv'
    BY <1>1 DEF IInv, ControlInv, Good, AtEntry, Size, Directory
  <1>5. QED
    BY <1>2, <1>3, <1>4 DEF IInv

-----------------------------------------------------------------------------
(* The invariant holds of every walk and of the walk that waits for it.    *)
THEOREM WalkInvariant == Spec => []IInv
  <1>1. Init => IInv
    BY InitialState
  <1>2. IInv /\ [Next]_vars => IInv'
    BY ReadHeaderStep, HeaderFailsStep, SourceFailsStep, SkipSeenStep, RefusedStep,
       EnterDirectoryStep, PlainEntryStep, PointerEntryStep, NoteEntryStep, PushTargetStep,
       TargetsQueuedStep, LeaveDirectoryStep, LeaveChildStep, DrainStep, FinishStep,
       StutterStep
    DEF Next
  <1>3. QED
    BY <1>1, <1>2, PTL DEF Spec

(* Type correctness: queue, visited set, list of directories and budgets   *)
(* stay within their bounds, whatever the file.                            *)
THEOREM WalkTypes == Spec => []TypeOK
  <1>1. IInv => TypeOK
    <2>1. SUFFICES ASSUME IInv PROVE TypeOK
      OBVIOUS
    <2>2. /\ pc \in {"header", "pop", "entries", "targets", "stopped", "drained", "done"}
          /\ Len(outer) <= 1
      <3>1. outer = <<>> \/ outer = <<outer[1]>>
        BY <2>1 DEF IInv, ControlInv
      <3>2. Len(<<>>) = 0 /\ Len(<<outer[1]>>) = 1
        OBVIOUS
      <3>3. Len(outer) <= 1
        <4>1. CASE outer = <<>>
          BY <3>2, <4>1
        <4>2. CASE outer = <<outer[1]>>
          <5>1. Len(outer) = 1
            BY <3>2, <4>2, Zenon
          <5>2. QED
            BY <5>1
        <4>3. QED
          BY <3>1, <4>1, <4>2
      <3>4. QED
        BY <2>1, <3>3, Facts DEF Running
    <2>3. \A i \in DOMAIN tasks : TaskType(tasks[i])
      <3>1. \A i \in DOMAIN tasks : tasks[i] \in Tasks
        BY <2>1, Facts
      <3>2. \A t \in Tasks : TaskType(t)
        BY DEF TaskType, Tasks, Places
      <3>3. QED
        BY <3>1, <3>2
    <2>4. Cardinality(DOMAIN visited) <= TaskCap
          /\ \A o \in DOMAIN visited : visited[o] # {} /\ visited[o] \subseteq Kind
      BY <2>1, Facts DEF Typed
    <2>5. /\ res.status \in Status /\ res.lost \in BOOLEAN /\ res.ifds <= job.maxIfds
          /\ res.written <= job.ifdCap /\ res.written <= res.ifds
      BY <2>1, Facts DEF Counts, Results
    <2>6. QED
      BY <2>1, <2>2, <2>3, <2>4, <2>5, Facts DEF TypeOK, IInv, ControlInv
  <1>2. QED
    BY <1>1, WalkInvariant, PTL

(* A walk that reports success has missed no directory, whatever the graph *)
(* of directories and whatever the queue held on the way.                  *)
THEOREM WalkIsClosed == Spec => []OkMeansClosed
  <1>1. IInv => OkMeansClosed
    <2>1. SUFFICES ASSUME IInv, pc = "done", Good
                   PROVE  OkMeansClosed
      BY DEF OkMeansClosed, Good
    <2> DEFINE Decoded(kind, offset) ==
                  \/ offset = 0
                  \/ \E i \in DOMAIN walk :
                        walk[i].offset = offset /\ (mode.source \/ walk[i].kind = kind)
    <2>2. tasks = <<>> /\ Closed(job.longest, "pop", file, mode, tasks, cur, walk)
      BY <2>1 DEF IInv, ControlInv
    <2>3. \A kind, o : Reached(mode, tasks, walk, kind, o) => Decoded(kind, o)
      BY <2>2 DEF Reached, Holds
    <2>4. Decoded("IFD", file.first)
      BY <2>2, <2>3 DEF Closed
    <2> HIDE DEF Decoded
    <2>5. ASSUME NEW d \in Range(walk)
          PROVE  /\ ChainsIn(d, mode) => Decoded("IFD", Directory(d).next)
                 /\ \A e \in Range(Directory(d).entries) :
                       e.tag \in Following /\ ~UnreadIn(e, mode) =>
                          \A n \in DOMAIN e.to : Decoded(e.tag, e.to[n])
      <3>1. PICK i \in DOMAIN walk : d = walk[i]
        BY <2>5 DEF Range
      <3>2. Complete(job.longest, file, mode, tasks, walk, d)
        BY <2>2, <3>1 DEF Closed, InDirectory
      <3>3. Directory(d) = DirIn(file, d)
        BY <2>1, Facts, DirectoryFacts
      <3>4. ChainsIn(d, mode) => Decoded("IFD", Directory(d).next)
        BY <2>3, <3>2, <3>3 DEF Complete, Chained, ChainsIn
      <3>5. ASSUME NEW e \in Range(Directory(d).entries), e.tag \in Following, ~UnreadIn(e, mode)
            PROVE  \A n \in DOMAIN e.to : Decoded(e.tag, e.to[n])
        <4>1. Followed(job.longest, mode, tasks, walk, e)
          BY <3>2, <3>3, <3>5 DEF Complete, Range
        <4>2. QED
          BY <2>3, <3>5, <4>1 DEF Followed, LeftOut, UnreadIn
      <3>6. QED
        BY <3>4, <3>5
    <2>6. QED
      BY <2>4, <2>5 DEF OkMeansClosed, Decoded, Following
  <1>2. QED
    BY <1>1, WalkInvariant, PTL

(* No directory of a source is decoded twice but as GPS and Interop, and   *)
(* no index is given twice.                                                *)
THEOREM WalkIsDistinct == Spec => []DirectoriesAreDistinct
  <1>1. IInv => DirectoriesAreDistinct
    <2>1. SUFFICES ASSUME IInv PROVE DirectoriesAreDistinct
      OBVIOUS
    <2>2. QED
      BY <2>1, Facts DEF DirectoriesAreDistinct, Remembers, Indexed, Apart
  <1>2. QED
    BY <1>1, WalkInvariant, PTL
=============================================================================
