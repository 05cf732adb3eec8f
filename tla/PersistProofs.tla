--------------------------- MODULE PersistProofs ---------------------------
(* Proofs about persisting a transfer, for any file names, any rule that   *)
(* derives the sidecar's, and any number of changes by other processes.    *)
EXTENDS Persist, TLAPS

ResType ==
    [status : Status, output : Status, sidecar : Status, cleanup : Status,
     removed : BOOLEAN]
Pcs == {"idle", "output", "open output", "write output", "sidecar", "open sidecar",
        "write sidecar", "cleanup", "remove", "finish", "returned", "no memory", "killed"}

AtOutput == {"output", "open output", "write output"}
AtSidecar == {"sidecar", "open sidecar", "write sidecar"}
AtCleanup == {"cleanup", "remove", "finish"}

Out == given.output
Side == SidecarPath(given)
Ours == Path \ foreign

(* What the call has decided, where it is.                                 *)
Progress ==
    /\ pc # "idle" => given \in Calls
    /\ pc \in AtOutput \cup AtSidecar \cup AtCleanup =>
          Side \in Path /\ (given.write => Out \in Path)
    /\ pc \in AtOutput \cup {"idle"} => res = Unanswered
    /\ pc \in AtSidecar => res.sidecar = "UNSUPPORTED"
    /\ pc \in AtSidecar \cup {"cleanup", "remove"} => ~res.removed
    /\ pc \in AtSidecar \cup AtCleanup => res.status = "UNSUPPORTED" /\ res.output = "OK"
    /\ pc \in {"open output", "write output"} => given.write /\ given.edited
    /\ pc \in {"open sidecar", "write sidecar"} =>
          Requested(given) /\ given.sidecar \in {"bytes", "stale"}
    /\ pc = "remove" => CleanupRequested(given) /\ given.remove
    /\ res.output = "OK" => Side \in Path
    /\ res.output = "OK" /\ given.write => given.edited /\ Out \in Path
    /\ res.sidecar = "OK" => Requested(given)
    /\ res.status = "OK" => Failures(res) \subseteq {"OK"}

(* A file that may be written although it was not to be overwritten was    *)
(* not seen when it was looked for.                                        *)
Unseen(p) == p \in hidden \/ before[p] = "absent"
OutAllowed == given.write /\ given.transfer = "OK" /\ (given.overwrite \/ Unseen(Out))
SideAllowed ==
    /\ given.write => given.transfer = "OK"
    /\ \/ Requested(given) /\ (given.overwriteSidecar \/ Unseen(Side))
       \/ CleanupRequested(given) /\ given.remove

(* What this call has changed, and why it was allowed to.                  *)
ChangesInv ==
    /\ pc \in {"idle", "output", "open output"} => \A p \in Ours : disk[p] = before[p]
    /\ pc \in {"write output", "sidecar"} => \A p \in Ours \ {Out} : disk[p] = before[p]
    /\ \A p \in Ours :
          disk[p] # before[p] => (p = Out /\ OutAllowed) \/ (p = Side /\ SideAllowed)
    /\ pc \in AtOutput \cup AtSidecar =>
          \A p \in Ours : disk[p] = "absent" => before[p] = "absent"
    /\ pc \in {"open output", "write output"} => given.overwrite \/ Out \in foreign \/ Unseen(Out)
    /\ pc \in {"open sidecar", "write sidecar"} =>
          given.overwriteSidecar \/ Side \in foreign \/ Unseen(Side)
    /\ Side \in Ours \ {Out} /\ disk[Side] # before[Side] => res.output = "OK"

(* What the answer so far says of the files.                               *)
AnswersInv ==
    /\ pc = "write output" /\ Out \in Ours => disk[Out] = "partial"
    /\ pc = "write sidecar" /\ Side \in Ours => disk[Side] = "partial"
    /\ res.output = "OK" /\ given.write /\ Out \in Ours \ {Side} => disk[Out] = "edited"
    /\ Side \in Ours =>
          /\ res.sidecar = "OK" /\ given.sidecar = "bytes" => disk[Side] = "xmp"
          /\ res.removed => disk[Side] = "absent"
          /\ /\ pc = "finish" \/ res.status = "OK"
             /\ res.cleanup = "OK" /\ CleanupRequested(given) /\ given.remove
             /\ Side \notin hidden
             => disk[Side] = "absent"

IInv == TypeOK /\ Progress /\ ChangesInv /\ AnswersInv

-----------------------------------------------------------------------------
LEMMA PathFacts ==
    /\ NoPath \notin Path /\ Base \subseteq Path
    /\ \A p \in Path : SidecarOf[p] \in Path
  BY PathAssumption

(* A call that goes on has a sidecar path, and an output if it writes one. *)
LEMMA CallFacts ==
    ASSUME NEW g \in Given, g.output # NoPath \/ AllowsMissingOutput(g)
    PROVE  SidecarPath(g) \in Path /\ (g.write => g.output \in Path)
  BY PathFacts DEF Given, SidecarPath, AllowsMissingOutput

(* One path is changed.                                                    *)
LEMMA DiskFacts ==
    ASSUME NEW d \in [Path -> Content], NEW p \in Path, NEW c \in Content
    PROVE  /\ [d EXCEPT ![p] = c] \in [Path -> Content]
           /\ [d EXCEPT ![p] = c][p] = c
           /\ \A q \in Path \ {p} : [d EXCEPT ![p] = c][q] = d[q]
  OBVIOUS

LEMMA ResFacts ==
    ASSUME NEW r \in ResType, NEW s \in Status
    PROVE  /\ [r EXCEPT !.output = s] \in ResType
           /\ [r EXCEPT !.sidecar = s] \in ResType
           /\ [r EXCEPT !.cleanup = s] \in ResType
           /\ [r EXCEPT !.status = s] \in ResType
  BY DEF ResType

-----------------------------------------------------------------------------
(* Within a call, the call itself stays what it is.                        *)
Steady == UNCHANGED <<given, hidden, before>>

LEMMA SteadyFacts ==
    ASSUME Steady
    PROVE  /\ Out' = Out /\ Side' = Side
           /\ OutAllowed' = OutAllowed /\ SideAllowed' = SideAllowed
           /\ \A p : Unseen(p)' = Unseen(p)
           /\ Requested(given)' = Requested(given)
           /\ CleanupRequested(given)' = CleanupRequested(given)
  BY DEF Steady, Out, Side, SidecarPath, OutAllowed, SideAllowed, Unseen, Requested,
         CleanupRequested

(* A step that leaves the files alone.                                     *)
LEMMA KeepStep ==
    ASSUME IInv, Keep, Progress', res' \in ResType, pc' \in Pcs,
           pc' \in {"idle", "output", "open output"} => pc \in {"idle", "output", "open output"},
           pc' \in {"write output", "sidecar"} =>
              pc \in {"idle", "output", "open output", "write output", "sidecar"},
           pc' \in AtOutput \cup AtSidecar => pc \in AtOutput \cup AtSidecar,
           pc' = "open output" => given.overwrite \/ Out \in foreign \/ Unseen(Out),
           pc' \in {"open sidecar", "write sidecar"} =>
              given.overwriteSidecar \/ Side \in foreign \/ Unseen(Side),
           res.output = "OK" => res'.output = "OK",
           pc' \notin {"write output", "write sidecar"},
           res'.output = "OK" /\ given.write => res.output = "OK",
           res'.sidecar = "OK" /\ given.sidecar = "bytes" => res.sidecar = "OK",
           res'.removed => res.removed,
           /\ pc' = "finish" \/ res'.status = "OK"
           /\ res'.cleanup = "OK" /\ CleanupRequested(given) /\ given.remove
           /\ Side \notin hidden /\ Side \in Ours
           => disk[Side] = "absent"
    PROVE  IInv'
  <1>1. /\ UNCHANGED <<disk, hidden, given, before, foreign>> /\ Steady
        /\ Ours' = Ours
    BY DEF Keep, Steady, Ours
  <1>2. TypeOK'
    BY <1>1 DEF IInv, TypeOK, ResType, Pcs
  <1>3. ChangesInv'
    <2>1. ChangesInv /\ Out' = Out /\ Side' = Side
          /\ OutAllowed' = OutAllowed /\ SideAllowed' = SideAllowed
      BY <1>1, SteadyFacts DEF IInv
    <2>2. (pc \in {"idle", "output", "open output"} => \A p \in Ours : disk[p] = before[p])'
      BY <1>1, <2>1 DEF ChangesInv
    <2>3. (pc \in {"write output", "sidecar"} => \A p \in Ours \ {Out} : disk[p] = before[p])'
      BY <1>1, <2>1 DEF ChangesInv
    <2>4. (\A p \in Ours :
          disk[p] # before[p] => (p = Out /\ OutAllowed) \/ (p = Side /\ SideAllowed))'
      BY <1>1, <2>1 DEF ChangesInv
    <2>5. (pc \in AtOutput \cup AtSidecar =>
          \A p \in Ours : disk[p] = "absent" => before[p] = "absent")'
      BY <1>1, <2>1 DEF ChangesInv
    <2>6. (pc \in {"open output", "write output"} => given.overwrite \/ Out \in foreign \/ Unseen(Out))'
      BY <1>1, <2>1 DEF ChangesInv, Unseen
    <2>7. (pc \in {"open sidecar", "write sidecar"} =>
          given.overwriteSidecar \/ Side \in foreign \/ Unseen(Side))'
      BY <1>1, <2>1 DEF ChangesInv, Unseen
    <2>8. (Side \in Ours \ {Out} /\ disk[Side] # before[Side] => res.output = "OK")'
      BY <1>1, <2>1 DEF ChangesInv
    <2>9. QED
      BY <2>2, <2>3, <2>4, <2>5, <2>6, <2>7, <2>8 DEF ChangesInv
  <1>4. AnswersInv'
    BY <1>1, SteadyFacts DEF IInv, AnswersInv
  <1>5. QED
    BY <1>2, <1>3, <1>4 DEF IInv

LEMMA TypeFacts ==
    ASSUME IInv
    PROVE  /\ res \in ResType /\ pc \in Pcs /\ given \in Given
           /\ {"OK", "UNSUPPORTED"} = Status /\ Unanswered \in ResType
  BY DEF IInv, TypeOK, ResType, Pcs, Status, Unanswered

(* A call that is refused ends with the answer that nothing was done.      *)
LEMMA RefuseStep ==
    ASSUME IInv, Refuse, pc \in AtOutput
    PROVE  IInv'
  <1>1. /\ Keep /\ res' = Unanswered /\ pc' \in {"returned", "no memory"}
        /\ given' = given
    BY DEF Refuse, Tell, Keep
  <1>2. /\ res'.output = "UNSUPPORTED" /\ res'.sidecar = "UNSUPPORTED"
        /\ res'.cleanup = "UNSUPPORTED" /\ res'.status = "UNSUPPORTED" /\ res'.removed = FALSE
        /\ res.output = "UNSUPPORTED"
    <2>1. res = Unanswered
      BY DEF IInv, Progress
    <2>2. QED
      BY <1>1, <2>1 DEF Unanswered
  <1>3. Progress'
    BY <1>1, <1>2 DEF IInv, Progress, AtOutput, AtSidecar, AtCleanup
  <1>4. QED
    BY <1>1, <1>2, <1>3, KeepStep, TypeFacts DEF AtOutput, AtSidecar, Pcs

LEMMA PrewrittenStep ==
    ASSUME IInv, PrewrittenOutput
    PROVE  IInv'
  <1>1. /\ pc = "output" /\ ~given.write /\ Keep /\ pc' \in {"sidecar", "no memory"}
        /\ res' = [res EXCEPT !.output = "OK"] /\ given' = given
    BY DEF PrewrittenOutput, Tell, Keep
  <1>2. res = Unanswered /\ res' \in ResType
    BY <1>1, TypeFacts, ResFacts DEF IInv, Progress, AtOutput
  <1>3. /\ res'.output = "OK" /\ res'.sidecar = "UNSUPPORTED"
        /\ res'.cleanup = "UNSUPPORTED" /\ res'.status = "UNSUPPORTED" /\ res'.removed = FALSE
    BY <1>1, <1>2 DEF Unanswered
  <1>4. Side' = Side /\ Out' = Out
    BY <1>1 DEF Side, Out, SidecarPath
  <1>5. Progress'
    BY <1>1, <1>3, <1>4 DEF IInv, Progress, AtOutput, AtSidecar, AtCleanup
  <1>6. QED
    BY <1>1, <1>2, <1>3, <1>5, KeepStep, TypeFacts DEF AtOutput, AtSidecar, Pcs

LEMMA CheckOutputStep ==
    ASSUME IInv, CheckOutput
    PROVE  IInv'
  <1>1. pc = "output" /\ given.write
    BY DEF CheckOutput
  <1>2. CASE MayWriteOutput
    <2>1. pc' = "open output" /\ Keep /\ res' = res /\ given' = given
      BY <1>2 DEF CheckOutput, Keep
    <2>2. res = Unanswered
      BY <1>1 DEF IInv, Progress, AtOutput
    <2>3. Side' = Side /\ Out' = Out
      BY <2>1 DEF Side, Out, SidecarPath
    <2>4. Progress'
      BY <1>1, <1>2, <2>1, <2>2, <2>3
      DEF IInv, Progress, AtOutput, AtSidecar, AtCleanup, MayWriteOutput, Unanswered
    <2>5. given.overwrite \/ Out \in foreign \/ Unseen(Out)
      <3>1. Out \in Path
        BY <1>1 DEF IInv, Progress, AtOutput
      <3>2. Out \in Ours => disk[Out] = before[Out]
        BY <1>1 DEF IInv, ChangesInv
      <3>3. QED
        BY <1>2, <3>1, <3>2 DEF MayWriteOutput, Visible, Unseen, Ours, Out
    <2>6. res.removed = FALSE /\ res.status = "UNSUPPORTED"
      BY <2>2 DEF Unanswered
    <2>7. QED
      BY <1>1, <2>1, <2>4, <2>5, <2>6, KeepStep, TypeFacts DEF AtOutput, AtSidecar, Pcs
  <1>3. CASE ~MayWriteOutput
    BY <1>1, <1>3, RefuseStep DEF CheckOutput, AtOutput
  <1>4. QED
    BY <1>2, <1>3

(* What a step that changes the files has to show; the histories and the   *)
(* call are those of before.                                               *)
LEMMA WriteStep ==
    ASSUME IInv, UNCHANGED <<hidden, given, before, foreign>>, Progress',
           res' \in ResType, pc' \in Pcs, disk' \in [Path -> Content],
           NEW p \in Path, \A q \in Path \ {p} : disk'[q] = disk[q],
           pc' \notin {"idle", "output", "open output", "open sidecar"},
           \/ p = Out /\ OutAllowed
           \/ p = Side /\ SideAllowed
           \/ p \in foreign \/ disk'[p] = disk[p],
           pc' = "write output" => pc = "open output" /\ p = Out /\ disk'[p] = "partial",
           pc' = "sidecar" => pc = "write output" /\ p = Out,
           pc' = "write sidecar" =>
              /\ pc = "open sidecar" /\ p = Side /\ disk'[p] = "partial",
           pc' \in AtOutput \cup AtSidecar => p \in foreign \/ disk'[p] # "absent",
           p = Side /\ p \in Ours \ {Out} => res'.output = "OK",
           res.output = "OK" => res'.output = "OK",
           /\ res'.output = "OK" /\ given.write /\ p = Out /\ p \in Ours \ {Side}
           => disk'[p] = "edited",
           res'.output = "OK" /\ given.write => res.output = "OK" \/ p = Out,
           p \in Ours => /\ p = Side /\ res'.sidecar = "OK" /\ given.sidecar = "bytes"
                            => disk'[p] = "xmp"
                         /\ p = Side /\ res'.removed => disk'[p] = "absent"
                         /\ p = Side /\ (pc' = "finish" \/ res'.status = "OK")
                            /\ CleanupRequested(given) => disk'[p] = "absent",
           p # Side => res'.sidecar # "OK" /\ ~res'.removed /\ res'.status # "OK" /\ pc' # "finish"
    PROVE  IInv'
  <1>1. /\ Steady /\ Ours' = Ours /\ Ours = Path \ foreign
    BY DEF Steady, Ours
  <1>2. TypeOK'
    BY DEF IInv, TypeOK, ResType, Pcs
  <1>3. /\ ChangesInv /\ AnswersInv /\ Out' = Out /\ Side' = Side
        /\ OutAllowed' = OutAllowed /\ SideAllowed' = SideAllowed
        /\ CleanupRequested(given)' = CleanupRequested(given)
    BY <1>1, SteadyFacts DEF IInv
  <1>4. ChangesInv'
    <2>1. (pc \in {"idle", "output", "open output"} => \A q \in Ours : disk[q] = before[q])'
      OBVIOUS
    <2>2. (pc \in {"write output", "sidecar"} => \A q \in Ours \ {Out} : disk[q] = before[q])'
      BY <1>1, <1>3 DEF ChangesInv
    <2>3. (\A q \in Ours :
          disk[q] # before[q] => (q = Out /\ OutAllowed) \/ (q = Side /\ SideAllowed))'
      BY <1>1, <1>3 DEF ChangesInv
    <2>4. (pc \in AtOutput \cup AtSidecar =>
          \A q \in Ours : disk[q] = "absent" => before[q] = "absent")'
      BY <1>1, <1>3 DEF ChangesInv, AtOutput, AtSidecar
    <2>5. (pc \in {"open output", "write output"} =>
             given.overwrite \/ Out \in foreign \/ Unseen(Out))'
      BY <1>1, <1>3 DEF ChangesInv, Unseen
    <2>6. (pc \in {"open sidecar", "write sidecar"} =>
          given.overwriteSidecar \/ Side \in foreign \/ Unseen(Side))'
      BY <1>1, <1>3 DEF ChangesInv, Unseen
    <2>7. (Side \in Ours \ {Out} /\ disk[Side] # before[Side] => res.output = "OK")'
      BY <1>1, <1>3 DEF ChangesInv
    <2>8. QED
      BY <2>1, <2>2, <2>3, <2>4, <2>5, <2>6, <2>7 DEF ChangesInv
  <1>5. AnswersInv'
    <2>1. (pc = "write output" /\ Out \in Ours => disk[Out] = "partial")'
      BY <1>1, <1>3
    <2>2. (pc = "write sidecar" /\ Side \in Ours => disk[Side] = "partial")'
      BY <1>1, <1>3
    <2>3. (res.output = "OK" /\ given.write /\ Out \in Ours \ {Side} => disk[Out] = "edited")'
      BY <1>1, <1>3 DEF AnswersInv
    <2>4. (Side \in Ours =>
          /\ res.sidecar = "OK" /\ given.sidecar = "bytes" => disk[Side] = "xmp"
          /\ res.removed => disk[Side] = "absent"
          /\ /\ pc = "finish" \/ res.status = "OK"
             /\ res.cleanup = "OK" /\ CleanupRequested(given) /\ given.remove
             /\ Side \notin hidden
             => disk[Side] = "absent")'
      BY <1>1, <1>3
    <2>5. QED
      BY <2>1, <2>2, <2>3, <2>4 DEF AnswersInv
  <1>6. QED
    BY <1>2, <1>4, <1>5 DEF IInv

(* An edited image comes from a transfer that succeeded.                   *)
LEMMA EditedFacts ==
    ASSUME IInv, pc # "idle", given.edited
    PROVE  given.transfer = "OK"
  BY DEF IInv, Progress, Calls

LEMMA OpenOutputStep ==
    ASSUME IInv, OpenOutput
    PROVE  IInv'
  <1>1. /\ pc = "open output" /\ given.write /\ given.edited /\ Out \in Path
        /\ res = Unanswered
    BY DEF OpenOutput, IInv, Progress, AtOutput
  <1>2. CASE Truncate(Out) /\ pc' = "write output"
    <2>1. /\ disk' = [disk EXCEPT ![Out] = "partial"] /\ given' = given /\ res' = res
          /\ UNCHANGED <<hidden, given, before, foreign>>
      BY <1>2 DEF Truncate
    <2>2. disk \in [Path -> Content] /\ "partial" \in Content
      BY DEF IInv, TypeOK, Content
    <2>3. /\ disk' \in [Path -> Content] /\ disk'[Out] = "partial"
          /\ \A q \in Path \ {Out} : disk'[q] = disk[q]
      BY <1>1, <2>1, <2>2, DiskFacts
    <2>4. /\ Side' = Side /\ Out' = Out
      BY <2>1 DEF Side, Out, SidecarPath
    <2>5. /\ res.output = "UNSUPPORTED" /\ res.sidecar = "UNSUPPORTED" /\ res.removed = FALSE
          /\ res.status = "UNSUPPORTED"
      BY <1>1 DEF Unanswered
    <2>6. Progress'
      BY <1>1, <1>2, <2>1, <2>4, <2>5 DEF IInv, Progress, AtOutput, AtSidecar, AtCleanup, Unanswered
    <2>7. Out \in foreign \/ OutAllowed
      BY <1>1, EditedFacts DEF IInv, ChangesInv, OutAllowed
    <2>8. Side \in Ours \ {Out} => Out # Side
      OBVIOUS
    <2>9. QED
      BY <1>1, <1>2, <2>1, <2>3, <2>5, <2>6, <2>7, WriteStep, TypeFacts
      DEF Pcs, AtOutput, AtSidecar
  <1>3. CASE Refuse
    BY <1>1, <1>3, RefuseStep DEF AtOutput
  <1>4. QED
    BY <1>2, <1>3 DEF OpenOutput, Out

LEMMA WriteOutputStep ==
    ASSUME IInv, WriteOutput
    PROVE  IInv'
  <1>1. /\ pc = "write output" /\ given.write /\ given.edited /\ Out \in Path
        /\ res = Unanswered
    BY DEF WriteOutput, IInv, Progress, AtOutput
  <1>2. CASE /\ disk' = Filled(Out, "edited")
             /\ res' = [res EXCEPT !.output = "OK"] /\ pc' = "sidecar"
             /\ UNCHANGED <<hidden, given, before, foreign>>
    <2>1. disk' = [disk EXCEPT ![Out] = IF disk[Out] = "partial" THEN "edited" ELSE disk[Out]]
      BY <1>2 DEF Filled
    <2>2. disk \in [Path -> Content] /\ "edited" \in Content /\ disk[Out] \in Content
      BY <1>1 DEF IInv, TypeOK, Content
    <2>3. /\ disk' \in [Path -> Content]
          /\ disk'[Out] = IF disk[Out] = "partial" THEN "edited" ELSE disk[Out]
          /\ \A q \in Path \ {Out} : disk'[q] = disk[q]
      BY <1>1, <2>1, <2>2, DiskFacts
    <2>4. /\ Side' = Side /\ Out' = Out
      BY <1>2 DEF Side, Out, SidecarPath
    <2>5. /\ res' \in ResType /\ res'.output = "OK" /\ res'.sidecar = "UNSUPPORTED"
          /\ res'.removed = FALSE /\ res'.status = "UNSUPPORTED"
      BY <1>1, <1>2, ResFacts, TypeFacts DEF Unanswered
    <2>6. Progress'
      BY <1>1, <1>2, <2>4, <2>5 DEF IInv, Progress, AtOutput, AtSidecar, AtCleanup
    <2>7. Out \in foreign \/ OutAllowed
      BY <1>1, EditedFacts DEF IInv, ChangesInv, OutAllowed
    <2>8. Out \in foreign \/ disk'[Out] = "edited"
      BY <1>1, <2>3 DEF IInv, AnswersInv, Ours
    <2>9. QED
      BY <1>1, <1>2, <2>3, <2>5, <2>6, <2>7, <2>8, WriteStep DEF Pcs, AtOutput, AtSidecar, Ours
  <1>3. CASE WriteFails
    BY <1>1, <1>3, RefuseStep DEF AtOutput, WriteFails
  <1>4. QED
    BY <1>2, <1>3 DEF WriteOutput, Out

-----------------------------------------------------------------------------
(* The sidecar is answered for without being written.                      *)
LEMMA AnswerSidecarStep ==
    ASSUME IInv, pc \in AtSidecar, NEW s \in Status, AnswerSidecar(s), Requested(given),
           s = "OK" => given.sidecar # "bytes"
    PROVE  IInv'
  <1>1. /\ res' = [res EXCEPT !.sidecar = s] /\ pc' \in {"cleanup", "no memory"}
        /\ Keep /\ given' = given
    BY DEF AnswerSidecar, Tell, Keep
  <1>2. /\ res \in ResType /\ res.status = "UNSUPPORTED" /\ res.output = "OK" /\ ~res.removed
        /\ pc # "idle" /\ res' \in ResType
    BY <1>1, ResFacts, TypeFacts DEF IInv, Progress, AtSidecar
  <1>3. /\ res'.status = "UNSUPPORTED" /\ res'.output = "OK" /\ res'.removed = res.removed
        /\ res'.sidecar = s
    BY <1>1, <1>2 DEF ResType
  <1>4. Side' = Side /\ Out' = Out /\ Requested(given)'
    BY <1>1 DEF Side, Out, SidecarPath, Requested
  <1>5. Progress'
    BY <1>1, <1>2, <1>3, <1>4 DEF IInv, Progress, AtOutput, AtSidecar, AtCleanup
  <1>6. QED
    BY <1>1, <1>2, <1>3, <1>5, KeepStep, TypeFacts DEF AtOutput, AtSidecar, Pcs

LEMMA CheckSidecarStep ==
    ASSUME IInv, CheckSidecar
    PROVE  IInv'
  <1>1. /\ pc = "sidecar" /\ pc \in AtSidecar /\ Side \in Path /\ given \in Calls
        /\ res.sidecar = "UNSUPPORTED" /\ res.status = "UNSUPPORTED" /\ res.output = "OK"
        /\ ~res.removed
    BY DEF CheckSidecar, IInv, Progress, AtSidecar
  <1>2. ASSUME Keep, res' = res,
               pc' \in {"cleanup", "no memory", "open sidecar"},
               pc' = "open sidecar" =>
                  /\ Requested(given) /\ given.sidecar \in {"bytes", "stale"}
                  /\ given.overwriteSidecar \/ Side \in foreign \/ Unseen(Side)
        PROVE  IInv'
    <2>1. Side' = Side /\ Out' = Out /\ Requested(given)' = Requested(given) /\ given' = given
      BY <1>2 DEF Side, Out, SidecarPath, Requested, Keep
    <2>2. Progress'
      BY <1>1, <1>2, <2>1
      DEF IInv, Progress, AtOutput, AtSidecar, AtCleanup, Requested
    <2>3. QED
      BY <1>1, <1>2, <2>1, <2>2, KeepStep, TypeFacts DEF AtOutput, AtSidecar, Pcs
  <1>3. CASE ~Requested(given) /\ pc' = "cleanup" /\ Keep /\ res' = res
    BY <1>2, <1>3
  <1>4. CASE Requested(given) /\ pc' = "no memory" /\ Keep /\ res' = res
    BY <1>2, <1>4
  <1>5. CASE Requested(given) /\ given.sidecar = "failed" /\ AnswerSidecar(Unavailable)
    <2>1. Unavailable \in Status
      BY <1>1 DEF Calls, Given, Unavailable
    <2>2. QED
      BY <1>1, <1>5, <2>1, AnswerSidecarStep
  <1>6. CASE Requested(given) /\ given.sidecar = "empty" /\ AnswerSidecar("OK")
    BY <1>1, <1>6, TypeFacts, AnswerSidecarStep
  <1>7. CASE /\ Requested(given) /\ given.sidecar \in {"bytes", "stale"}
             /\ IF ~given.overwriteSidecar /\ Visible(SidecarPath(given))
                THEN AnswerSidecar("UNSUPPORTED")
                ELSE pc' = "open sidecar" /\ Keep /\ res' = res
    <2>1. CASE ~given.overwriteSidecar /\ Visible(Side)
      <3>1. AnswerSidecar("UNSUPPORTED")
        BY <1>7, <2>1 DEF Side
      <3>2. QED
        BY <1>1, <1>7, <3>1, TypeFacts, AnswerSidecarStep
    <2>2. CASE ~(~given.overwriteSidecar /\ Visible(Side))
      <3>1. pc' = "open sidecar" /\ Keep /\ res' = res
        BY <1>7, <2>2 DEF Side
      <3>2. Side \in Ours /\ disk[Side] = "absent" => before[Side] = "absent"
        BY <1>1 DEF IInv, ChangesInv
      <3>3. given.overwriteSidecar \/ Side \in foreign \/ Unseen(Side)
        BY <1>1, <2>2, <3>2 DEF Visible, Unseen, Ours
      <3>4. QED
        BY <1>2, <1>7, <3>1, <3>3
    <2>3. QED
      BY <2>1, <2>2
  <1>8. QED
    BY <1>3, <1>4, <1>5, <1>6, <1>7 DEF CheckSidecar

LEMMA OpenSidecarStep ==
    ASSUME IInv, OpenSidecar
    PROVE  IInv'
  <1>1. /\ pc = "open sidecar" /\ pc \in AtSidecar /\ Side \in Path /\ given \in Calls
        /\ res.sidecar = "UNSUPPORTED" /\ res.status = "UNSUPPORTED" /\ res.output = "OK"
        /\ ~res.removed /\ Requested(given) /\ given.sidecar \in {"bytes", "stale"}
        /\ given.write => given.edited
    BY DEF OpenSidecar, IInv, Progress, AtSidecar
  <1>2. Side \in foreign \/ SideAllowed
    BY <1>1, EditedFacts DEF IInv, ChangesInv, SideAllowed
  <1>3. CASE Truncate(Side) /\ pc' = "write sidecar"
    <2>1. /\ disk' = [disk EXCEPT ![Side] = "partial"] /\ given' = given /\ res' = res
          /\ UNCHANGED <<hidden, given, before, foreign>>
      BY <1>3 DEF Truncate
    <2>2. disk \in [Path -> Content] /\ "partial" \in Content
      BY DEF IInv, TypeOK, Content
    <2>3. /\ disk' \in [Path -> Content] /\ disk'[Side] = "partial"
          /\ \A q \in Path \ {Side} : disk'[q] = disk[q]
      BY <1>1, <2>1, <2>2, DiskFacts
    <2>4. Side' = Side /\ Out' = Out /\ Requested(given)' = Requested(given)
      BY <2>1 DEF Side, Out, SidecarPath, Requested
    <2>5. Progress'
      BY <1>1, <1>3, <2>1, <2>4 DEF IInv, Progress, AtOutput, AtSidecar, AtCleanup
    <2>6. QED
      BY <1>1, <1>2, <1>3, <2>1, <2>3, <2>5, WriteStep, TypeFacts DEF Pcs, AtOutput, AtSidecar
  <1>4. CASE AnswerSidecar("UNSUPPORTED")
    BY <1>1, <1>4, TypeFacts, AnswerSidecarStep
  <1>5. QED
    BY <1>3, <1>4 DEF OpenSidecar, Side

LEMMA WriteSidecarStep ==
    ASSUME IInv, WriteSidecar
    PROVE  IInv'
  <1>1. /\ pc = "write sidecar" /\ pc \in AtSidecar /\ Side \in Path /\ given \in Calls
        /\ res.sidecar = "UNSUPPORTED" /\ res.status = "UNSUPPORTED" /\ res.output = "OK"
        /\ ~res.removed /\ Requested(given) /\ given.sidecar \in {"bytes", "stale"}
        /\ given.write => given.edited
    BY DEF WriteSidecar, IInv, Progress, AtSidecar
  <1>2. Side \in foreign \/ SideAllowed
    BY <1>1, EditedFacts DEF IInv, ChangesInv, SideAllowed
  <1> DEFINE content == IF given.sidecar = "stale" THEN "stale" ELSE "xmp"
  <1>3. CASE /\ disk' = Filled(Side, content) /\ res' = [res EXCEPT !.sidecar = "OK"]
             /\ pc' = "cleanup" /\ UNCHANGED <<hidden, given, before, foreign>>
    <2>1. disk' = [disk EXCEPT ![Side] = IF disk[Side] = "partial" THEN content ELSE disk[Side]]
      BY <1>3 DEF Filled
    <2>2. disk \in [Path -> Content] /\ content \in Content /\ disk[Side] \in Content
      BY <1>1 DEF IInv, TypeOK, Content
    <2>3. /\ disk' \in [Path -> Content]
          /\ disk'[Side] = IF disk[Side] = "partial" THEN content ELSE disk[Side]
          /\ \A q \in Path \ {Side} : disk'[q] = disk[q]
      BY <1>1, <2>1, <2>2, DiskFacts
    <2>4. Side' = Side /\ Out' = Out /\ Requested(given)' = Requested(given)
      BY <1>3 DEF Side, Out, SidecarPath, Requested
    <2>5. res \in ResType /\ res' \in ResType
      BY <1>3, TypeFacts, ResFacts
    <2>6. /\ res'.status = "UNSUPPORTED" /\ res'.output = "OK" /\ ~res'.removed
          /\ res'.sidecar = "OK"
      BY <1>1, <1>3, <2>5 DEF ResType
    <2>7. Progress'
      BY <1>1, <1>3, <2>4, <2>6 DEF IInv, Progress, AtOutput, AtSidecar, AtCleanup
    <2>8. Side \in foreign \/ (given.sidecar = "bytes" => disk'[Side] = "xmp")
      BY <1>1, <2>3 DEF IInv, AnswersInv, Ours
    <2>9. QED
      BY <1>1, <1>2, <1>3, <2>3, <2>5, <2>6, <2>7, <2>8, WriteStep
      DEF Pcs, AtOutput, AtSidecar, Ours
  <1>4. CASE AnswerSidecar("UNSUPPORTED")
    BY <1>1, <1>4, TypeFacts, AnswerSidecarStep
  <1>5. QED
    BY <1>3, <1>4 DEF WriteSidecar, Side

-----------------------------------------------------------------------------
(* The clean-up is answered for without a removal.                         *)
LEMMA AnswerCleanupStep ==
    ASSUME IInv, pc \in {"cleanup", "remove"}, NEW s \in Status, AnswerCleanup(s),
           s = "OK" /\ given.remove /\ Side \in Ours \ hidden => disk[Side] = "absent"
    PROVE  IInv'
  <1>1. /\ res' = [res EXCEPT !.cleanup = s] /\ pc' \in {"finish", "no memory"}
        /\ Keep /\ given' = given
    BY DEF AnswerCleanup, Tell, Keep
  <1>2. /\ res \in ResType /\ res.status = "UNSUPPORTED" /\ res.output = "OK" /\ ~res.removed
        /\ pc # "idle" /\ res' \in ResType
    BY <1>1, ResFacts, TypeFacts DEF IInv, Progress, AtCleanup
  <1>3. /\ res'.status = "UNSUPPORTED" /\ res'.output = "OK" /\ res'.removed = res.removed
        /\ res'.sidecar = res.sidecar /\ res'.cleanup = s
    BY <1>1, <1>2 DEF ResType
  <1>4. Side' = Side /\ Out' = Out /\ Requested(given)' = Requested(given)
    BY <1>1 DEF Side, Out, SidecarPath, Requested
  <1>5. Progress'
    BY <1>1, <1>2, <1>3, <1>4 DEF IInv, Progress, AtOutput, AtSidecar, AtCleanup
  <1>6. QED
    BY <1>1, <1>2, <1>3, <1>5, KeepStep, TypeFacts DEF AtOutput, AtSidecar, Pcs

LEMMA CheckCleanupStep ==
    ASSUME IInv, CheckCleanup
    PROVE  IInv'
  <1>1. /\ pc = "cleanup" /\ Side \in Path /\ res \in ResType
        /\ res.status = "UNSUPPORTED" /\ res.output = "OK" /\ ~res.removed
    BY TypeFacts DEF CheckCleanup, IInv, Progress, AtCleanup
  <1>2. ASSUME Keep, res' \in ResType, res'.status = res.status, res'.output = res.output,
               res'.removed = res.removed, res'.sidecar = res.sidecar,
               pc' \in {"finish", "remove", "no memory"},
               pc' = "remove" => CleanupRequested(given) /\ given.remove,
               pc' = "finish" => ~CleanupRequested(given)
        PROVE  IInv'
    <2>1. /\ Side' = Side /\ Out' = Out /\ Requested(given)' = Requested(given) /\ given' = given
          /\ CleanupRequested(given)' = CleanupRequested(given)
      BY <1>2 DEF Side, Out, SidecarPath, Requested, CleanupRequested, Keep
    <2>2. Progress'
      BY <1>1, <1>2, <2>1 DEF IInv, Progress, AtOutput, AtSidecar, AtCleanup
    <2>3. QED
      BY <1>1, <1>2, <2>1, <2>2, KeepStep DEF AtOutput, AtSidecar, Pcs
  <1>3. CASE ~CleanupRequested(given) /\ pc' = "finish" /\ Keep /\ res' = res
    BY <1>1, <1>2, <1>3
  <1>4. CASE CleanupRequested(given) /\ pc' = "no memory" /\ Keep /\ res' = res
    BY <1>1, <1>2, <1>4
  <1>5. CASE CleanupRequested(given) /\ given.remove /\ Visible(Side)
             /\ res' = [res EXCEPT !.cleanup = "OK"] /\ Tell("remove") /\ Keep
    <2>1. res' \in ResType
      BY <1>1, <1>5, ResFacts, TypeFacts
    <2>2. /\ res'.status = res.status /\ res'.output = res.output
          /\ res'.removed = res.removed /\ res'.sidecar = res.sidecar
      BY <1>1, <1>5 DEF ResType
    <2>3. QED
      BY <1>2, <1>5, <2>1, <2>2 DEF Tell
  <1>6. CASE CleanupRequested(given) /\ ~(given.remove /\ Visible(Side)) /\ AnswerCleanup("OK")
    <2>1. given.remove /\ Side \in Ours \ hidden => disk[Side] = "absent"
      BY <1>6 DEF Visible
    <2>2. QED
      BY <1>1, <1>6, <2>1, TypeFacts, AnswerCleanupStep
  <1>7. QED
    BY <1>3, <1>4, <1>5, <1>6 DEF CheckCleanup, Side

LEMMA RemoveSidecarStep ==
    ASSUME IInv, RemoveSidecar
    PROVE  IInv'
  <1>1. /\ pc = "remove" /\ Side \in Path /\ res \in ResType /\ pc # "idle"
        /\ res.status = "UNSUPPORTED" /\ res.output = "OK" /\ ~res.removed
        /\ CleanupRequested(given) /\ given.remove /\ given \in Calls
        /\ given.write => given.edited
    BY TypeFacts DEF RemoveSidecar, IInv, Progress, AtCleanup
  <1>2. ~Requested(given) /\ res.sidecar # "OK"
    BY <1>1 DEF IInv, Progress, CleanupRequested, Requested
  <1>3. CASE /\ disk' = [disk EXCEPT ![Side] = "absent"]
             /\ res' = [res EXCEPT !.cleanup = "OK", !.removed = TRUE]
             /\ Tell("finish") /\ UNCHANGED <<hidden, given, before, foreign>>
    <2>1. disk \in [Path -> Content] /\ "absent" \in Content
      BY DEF IInv, TypeOK, Content
    <2>2. /\ disk' \in [Path -> Content] /\ disk'[Side] = "absent"
          /\ \A q \in Path \ {Side} : disk'[q] = disk[q]
      BY <1>1, <1>3, <2>1, DiskFacts
    <2>3. /\ Side' = Side /\ Out' = Out /\ Requested(given)' = Requested(given) /\ given' = given
          /\ CleanupRequested(given)' = CleanupRequested(given)
      BY <1>3 DEF Side, Out, SidecarPath, Requested, CleanupRequested
    <2>4. res' \in ResType
      <3> DEFINE cleaned == [res EXCEPT !.cleanup = "OK"]
      <3>1. cleaned \in ResType
        BY <1>1, TypeFacts, ResFacts
      <3>2. res' = [cleaned EXCEPT !.removed = TRUE]
        BY <1>1, <1>3 DEF ResType
      <3> HIDE DEF cleaned
      <3>3. QED
        BY <3>1, <3>2 DEF ResType
    <2>5. /\ res'.status = "UNSUPPORTED" /\ res'.output = "OK" /\ res'.sidecar # "OK"
      BY <1>1, <1>2, <1>3 DEF ResType
    <2>6. pc' \in {"finish", "no memory"}
      BY <1>3 DEF Tell
    <2>7. Progress'
      BY <1>1, <2>3, <2>5, <2>6 DEF IInv, Progress, AtOutput, AtSidecar, AtCleanup
    <2>8. SideAllowed
      BY <1>1, EditedFacts DEF SideAllowed
    <2>9. QED
      BY <1>1, <1>3, <2>2, <2>4, <2>5, <2>6, <2>7, <2>8, WriteStep
      DEF Pcs, AtOutput, AtSidecar
  <1>4. CASE AnswerCleanup("UNSUPPORTED")
    BY <1>1, <1>4, TypeFacts, AnswerCleanupStep
  <1>5. QED
    BY <1>3, <1>4 DEF RemoveSidecar, Side

(* The call ends with the worst of what was asked for.                     *)
LEMMA FinishStep ==
    ASSUME IInv, Finish
    PROVE  IInv'
  <1>1. /\ pc = "finish" /\ res \in ResType /\ res.output = "OK" /\ Keep /\ given' = given
        /\ pc' \in {"returned", "no memory"}
    BY TypeFacts DEF Finish, IInv, Progress, AtCleanup, Tell, Keep
  <1>2. PICK s \in Status : /\ res' = [res EXCEPT !.status = s]
                            /\ s = "OK" => Failures(res) \subseteq {"OK"}
    BY TypeFacts DEF Finish
  <1>3. res' \in ResType
    BY <1>1, <1>2, ResFacts
  <1>4. /\ res'.output = "OK" /\ res'.sidecar = res.sidecar /\ res'.cleanup = res.cleanup
        /\ res'.removed = res.removed /\ res'.status = s
    BY <1>1, <1>2 DEF ResType
  <1>5. /\ Side' = Side /\ Out' = Out /\ Requested(given)' = Requested(given)
        /\ Failures(res)' = Failures(res)
    BY <1>1, <1>4 DEF Side, Out, SidecarPath, Requested, Failures, CleanupRequested
  <1>6. Progress'
    BY <1>1, <1>2, <1>4, <1>5 DEF IInv, Progress, AtOutput, AtSidecar, AtCleanup
  <1>7. Side \in Ours /\ Side \notin hidden /\ res.cleanup = "OK" /\ CleanupRequested(given)
           /\ given.remove => disk[Side] = "absent"
    BY <1>1 DEF IInv, AnswersInv
  <1>8. QED
    BY <1>1, <1>3, <1>4, <1>6, <1>7, KeepStep DEF AtOutput, AtSidecar, Pcs

LEMMA CrashStep ==
    ASSUME IInv, Crash
    PROVE  IInv'
  <1>1. Keep /\ pc # "idle" /\ pc' = "killed" /\ res' = res /\ given' = given
    BY DEF Crash, Keep
  <1>2. /\ Side' = Side /\ Out' = Out /\ Requested(given)' = Requested(given)
        /\ Failures(res)' = Failures(res)
    BY <1>1 DEF Side, Out, SidecarPath, Requested, Failures, CleanupRequested
  <1>3. Progress'
    BY <1>1, <1>2 DEF IInv, Progress, AtOutput, AtSidecar, AtCleanup
  <1>4. res.status = "OK" /\ res.cleanup = "OK" /\ CleanupRequested(given) /\ given.remove
           /\ Side \notin hidden /\ Side \in Ours => disk[Side] = "absent"
    BY DEF IInv, AnswersInv
  <1>5. QED
    BY <1>1, <1>3, <1>4, KeepStep, TypeFacts DEF AtOutput, AtSidecar, Pcs

-----------------------------------------------------------------------------
(* What others change is no longer ours to answer for.                     *)
LEMMA InterfereStep ==
    ASSUME IInv, NEW p \in Path, NEW content \in {"absent", "theirs"}, Interfere(p, content)
    PROVE  IInv'
  <1>1. /\ disk' = [disk EXCEPT ![p] = content] /\ foreign' = foreign \cup {p}
        /\ UNCHANGED <<hidden, given, res, pc, before>>
    BY DEF Interfere
  <1>2. disk \in [Path -> Content] /\ content \in Content
    BY DEF IInv, TypeOK, Content
  <1>3. /\ disk' \in [Path -> Content] /\ \A q \in Path \ {p} : disk'[q] = disk[q]
    BY <1>1, <1>2, DiskFacts
  <1>4. /\ Ours' = Ours \ {p} /\ \A q \in Ours' : q \in Ours /\ disk'[q] = disk[q]
        /\ Ours \subseteq Path
    BY <1>1, <1>3 DEF Ours
  <1>5. /\ Steady /\ Out' = Out /\ Side' = Side
        /\ OutAllowed' = OutAllowed /\ SideAllowed' = SideAllowed
        /\ Requested(given)' = Requested(given)
        /\ CleanupRequested(given)' = CleanupRequested(given)
    BY <1>1, SteadyFacts DEF Steady
  <1>6. TypeOK'
    BY <1>1, <1>3 DEF IInv, TypeOK
  <1>7. Progress'
    BY <1>1, <1>5 DEF IInv, Progress, Failures, Requested, CleanupRequested
  <1>8. ChangesInv'
    <2>1. (pc \in {"idle", "output", "open output"} => \A q \in Ours : disk[q] = before[q])'
      BY <1>1, <1>4 DEF IInv, ChangesInv
    <2>2. (pc \in {"write output", "sidecar"} => \A q \in Ours \ {Out} : disk[q] = before[q])'
      BY <1>1, <1>4, <1>5 DEF IInv, ChangesInv
    <2>3. (\A q \in Ours :
          disk[q] # before[q] => (q = Out /\ OutAllowed) \/ (q = Side /\ SideAllowed))'
      BY <1>1, <1>4, <1>5 DEF IInv, ChangesInv
    <2>4. (pc \in AtOutput \cup AtSidecar =>
          \A q \in Ours : disk[q] = "absent" => before[q] = "absent")'
      BY <1>1, <1>4 DEF IInv, ChangesInv, AtOutput, AtSidecar
    <2>5. (pc \in {"open output", "write output"} =>
             given.overwrite \/ Out \in foreign \/ Unseen(Out))'
      BY <1>1, <1>5 DEF IInv, ChangesInv, Unseen
    <2>6. (pc \in {"open sidecar", "write sidecar"} =>
          given.overwriteSidecar \/ Side \in foreign \/ Unseen(Side))'
      BY <1>1, <1>5 DEF IInv, ChangesInv, Unseen
    <2>7. (Side \in Ours \ {Out} /\ disk[Side] # before[Side] => res.output = "OK")'
      BY <1>1, <1>4, <1>5 DEF IInv, ChangesInv
    <2>8. QED
      BY <2>1, <2>2, <2>3, <2>4, <2>5, <2>6, <2>7 DEF ChangesInv
  <1>9. AnswersInv'
    BY <1>1, <1>4, <1>5 DEF IInv, AnswersInv
  <1>10. QED
    BY <1>6, <1>7, <1>8, <1>9 DEF IInv

(* A call begins, or is forgotten: nothing has been changed yet.           *)
Fresh ==
    /\ disk \in [Path -> Content] /\ hidden \subseteq Path /\ foreign = {} /\ before = disk
    /\ res = Unanswered /\ given \in Given /\ pc \in Pcs /\ Progress
    /\ pc \in {"idle", "output", "returned", "no memory"}

LEMMA FreshStep == Fresh => IInv
  <1> SUFFICES ASSUME Fresh PROVE IInv
    OBVIOUS
  <1> USE DEF Fresh
  <1>1. /\ res.output = "UNSUPPORTED" /\ res.sidecar = "UNSUPPORTED" /\ res.removed = FALSE
        /\ res.status = "UNSUPPORTED" /\ res \in ResType
    BY DEF Unanswered, ResType, Status
  <1>2. TypeOK
    BY <1>1 DEF TypeOK, ResType, Pcs
  <1>3. ChangesInv
    BY DEF ChangesInv, Ours, AtOutput, AtSidecar
  <1>4. AnswersInv
    BY <1>1 DEF AnswersInv
  <1>5. QED
    BY <1>2, <1>3, <1>4 DEF IInv

LEMMA NoCallFacts == NoCall \in Given
  BY DEF NoCall, Given, Status

LEMMA UnansweredFacts ==
    /\ Unanswered.output = "UNSUPPORTED" /\ Unanswered.sidecar = "UNSUPPORTED"
    /\ Unanswered.removed = FALSE /\ Unanswered.status = "UNSUPPORTED"
  BY DEF Unanswered

LEMMA InitialState ==
    ASSUME Init
    PROVE  IInv
  <1>1. /\ disk \in [Path -> Content] /\ hidden \subseteq Path /\ foreign = {} /\ before = disk
        /\ res = Unanswered /\ given \in Given /\ pc = "idle" /\ pc \in Pcs
    BY NoCallFacts DEF Init, Content, Pcs
  <1>2. Progress
    BY <1>1, UnansweredFacts DEF Progress, AtOutput, AtSidecar, AtCleanup
  <1>3. QED
    BY <1>1, <1>2, FreshStep DEF Fresh

LEMMA BeginStep ==
    ASSUME IInv, NEW g \in Calls, Begin(g)
    PROVE  IInv'
  <1>1. /\ given' = g /\ res' = Unanswered /\ before' = disk' /\ foreign' = {}
        /\ UNCHANGED <<disk, hidden>>
        /\ pc' \in {"output", "returned", "no memory"}
        /\ pc' = "output" => g.output # NoPath \/ AllowsMissingOutput(g)
    BY DEF Begin, Tell
  <1>2. pc' = "output" => Side' \in Path /\ (g.write => Out' \in Path)
    BY <1>1, CallFacts DEF Side, Out, Calls
  <1>3. Progress'
    BY <1>1, <1>2, UnansweredFacts DEF Progress, AtOutput, AtSidecar, AtCleanup
  <1>4. /\ disk' \in [Path -> Content] /\ hidden' \subseteq Path /\ given' \in Given
        /\ pc' \in Pcs
    BY <1>1 DEF IInv, TypeOK, Calls, Pcs
  <1>5. Fresh'
    BY <1>1, <1>3, <1>4 DEF Fresh
  <1>6. QED
    BY <1>5, FreshStep, PTL

LEMMA ForgetStep ==
    ASSUME IInv, Forget
    PROVE  IInv'
  <1>1. /\ given' = NoCall /\ res' = Unanswered /\ before' = disk' /\ foreign' = {}
        /\ UNCHANGED <<disk, hidden>> /\ pc' = "idle"
    BY DEF Forget
  <1>2. Progress'
    BY <1>1, UnansweredFacts DEF Progress, AtOutput, AtSidecar, AtCleanup
  <1>3. /\ disk' \in [Path -> Content] /\ hidden' \subseteq Path /\ given' \in Given
        /\ pc' \in Pcs
    BY <1>1, NoCallFacts DEF IInv, TypeOK, Pcs
  <1>4. Fresh'
    BY <1>1, <1>2, <1>3 DEF Fresh
  <1>5. QED
    BY <1>4, FreshStep, PTL

LEMMA StutterStep ==
    ASSUME IInv, UNCHANGED vars
    PROVE  IInv'
  <1>1. UNCHANGED <<disk, hidden, given, res, pc, before, foreign>>
    BY DEF vars
  <1>2. TypeOK'
    BY <1>1 DEF IInv, TypeOK
  <1>3. Progress'
    BY <1>1 DEF IInv, Progress, Side, Out, SidecarPath, Requested, CleanupRequested, Failures
  <1>4. ChangesInv'
    BY <1>1 DEF IInv, ChangesInv, Side, Out, SidecarPath, Requested, CleanupRequested, Ours,
                OutAllowed, SideAllowed, Unseen
  <1>5. AnswersInv'
    BY <1>1 DEF IInv, AnswersInv, Side, Out, SidecarPath, CleanupRequested, Ours
  <1>6. QED
    BY <1>2, <1>3, <1>4, <1>5 DEF IInv

-----------------------------------------------------------------------------
(* The inductive invariant of a call.                                      *)
THEOREM PersistInvariant == Spec => []IInv
  <1>1. Init => IInv
    BY InitialState
  <1>2. IInv /\ [Next]_vars => IInv'
    BY BeginStep, InterfereStep, PrewrittenStep, CheckOutputStep, OpenOutputStep,
       WriteOutputStep, CheckSidecarStep, OpenSidecarStep, WriteSidecarStep,
       CheckCleanupStep, RemoveSidecarStep, FinishStep, CrashStep, ForgetStep, StutterStep
    DEF Next
  <1>3. QED
    BY <1>1, <1>2, PTL DEF Spec

(* Type correctness.                                                       *)
THEOREM PersistTypes == Spec => []TypeOK
  <1>1. IInv => TypeOK
    BY DEF IInv
  <1>2. QED
    BY <1>1, PersistInvariant, PTL

(* What a returned call says of the files is so, but for what others       *)
(* changed meanwhile, at whatever step it ended.                           *)
THEOREM PersistReports == Spec => []ReportsMatchDisk
  <1>1. IInv => ReportsMatchDisk
    <2>1. SUFFICES ASSUME IInv, pc \in {"returned", "no memory"}, res.output = "OK"
                   PROVE  ReportsMatchDisk
      BY DEF ReportsMatchDisk
    <2>2. Side \in Path /\ (given.write => Out \in Path)
      BY <2>1 DEF IInv, Progress
    <2>3. given.write /\ Out \notin foreign /\ Out # Side => disk[Out] = "edited"
      BY <2>1, <2>2 DEF IInv, AnswersInv, Ours
    <2>4. Side \notin foreign =>
             /\ res.sidecar = "OK" /\ given.sidecar = "bytes" => disk[Side] = "xmp"
             /\ res.removed => disk[Side] = "absent"
      BY <2>1, <2>2 DEF IInv, AnswersInv, Ours
    <2>5. res.status = "OK" =>
             /\ Requested(given) => res.sidecar = "OK"
             /\ CleanupRequested(given) => res.cleanup = "OK"
      BY <2>1 DEF IInv, Progress, Failures
    <2>6. res.status = "OK" /\ CleanupRequested(given) /\ given.remove /\ Side \notin hidden
             /\ Side \notin foreign => disk[Side] = "absent"
      BY <2>1, <2>2, <2>5 DEF IInv, AnswersInv, Ours
    <2>7. QED
      BY <2>3, <2>4, <2>5, <2>6 DEF ReportsMatchDisk, Side, Out
  <1>2. QED
    BY <1>1, PersistInvariant, PTL

(* Nothing is overwritten or removed that the caller did not give up, and  *)
(* nothing at all after a failed transfer.                                 *)
THEOREM PersistKeeps == Spec => []KeepsUnlessTold
  <1>1. IInv => KeepsUnlessTold
    BY DEF IInv, ChangesInv, KeepsUnlessTold, Ours, OutAllowed, SideAllowed, Unseen, Out, Side
  <1>2. QED
    BY <1>1, PersistInvariant, PTL

(* The old sidecar outlives the old image, even if the process is killed.  *)
THEOREM PersistOldSidecar == Spec => []OldSidecarOutlivesOldImage
  <1>1. IInv => OldSidecarOutlivesOldImage
    <2>1. SUFFICES ASSUME IInv, given.write, Out # NoPath, Side \notin foreign \cup {Out},
                          disk[Side] # before[Side]
                   PROVE  /\ res.output = "OK"
                          /\ Out \notin foreign => disk[Out] = "edited"
      BY DEF OldSidecarOutlivesOldImage, Out, Side
    <2>2. Side \in Path /\ Out \in Path
      BY <2>1, CallFacts DEF IInv, TypeOK, Out, Side
    <2>3. res.output = "OK"
      BY <2>1, <2>2 DEF IInv, ChangesInv, Ours
    <2>4. QED
      BY <2>1, <2>2, <2>3 DEF IInv, AnswersInv, Ours
  <1>2. QED
    BY <1>1, PersistInvariant, PTL
=============================================================================
