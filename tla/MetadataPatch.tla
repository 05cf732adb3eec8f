--------------------------- MODULE MetadataPatch ---------------------------
(***************************************************************************)
(* Prepared metadata patches (src/src/edit/omc_metadata_patch.c).          *)
(* prepare serialises a store once, finds the bytes of the values it was   *)
(* asked about, and hands out one handle per request; instances are copies *)
(* of the plan for the client's workers; apply overwrites values in an     *)
(* instance, a batch of updates at a time, checked before it is written.   *)
(*                                                                         *)
(* A payload is a sequence of cells, the characters of values and what the *)
(* serialisers put between them.  The character "&" is escaped in XMP, by  *)
(* two cells.                                                              *)
(***************************************************************************)
EXTENDS Integers, Sequences, FiniteSets, SequencesExt

CONSTANTS
    ExifKey, XmpKey,    \* directory and tag; namespace and simple property name
    TagOrder,           \* the EXIF keys in the order of the serialiser
    Frame,              \* the cells it writes before the value of an EXIF key
    NamesFrom,          \* the XMP names in one namespace that begin as a name does
    Worker,             \* the client's instances
    PlanId,             \* plan ids a client uses
    Span,               \* handles of a plan: 2^16 in the code
    MaxRequests,        \* OMC_PATCH_MAX_REQUESTS
    MaxBatch,           \* bound of the model: updates in one batch
    MaxPlans,           \* bound of the model: plans prepared
    Stores,             \* the stores the client prepares
    Requests,           \* the requests it makes
    Values              \* the values it writes

(* Entries of a store, values, and what is asked for.                      *)
Shape == {"text", "bytes", "scalar"}
Entry == [key : ExifKey \cup XmpKey, shape : Shape, bytes : Seq(STRING), deleted : BOOLEAN]
Value == [shape : Shape, bytes : Seq(STRING)]
Expected == [shape : Shape, count : Nat]
Request == [key : ExifKey \cup XmpKey, occurrence : Nat, expected : Expected, escaped : Nat]

ASSUME TagAssumption ==
    /\ TagOrder \in Seq(ExifKey) /\ Range(TagOrder) = ExifKey /\ IsInjective(TagOrder)
    /\ ExifKey \cap XmpKey = {} /\ ExifKey \cup XmpKey \subseteq STRING
ASSUME FrameAssumption == Frame \in [ExifKey -> Seq(STRING) \ {<<>>}]
ASSUME WorkerAssumption == Worker # {}
ASSUME PlanAssumption == PlanId \subseteq Nat \ {0}
ASSUME LimitAssumption ==
    /\ MaxRequests \in Nat \ {0} /\ Span \in Nat /\ MaxRequests < Span
    /\ MaxBatch \in Nat \ {0} /\ MaxPlans \in Nat
ASSUME DataAssumption ==
    Stores \subseteq Seq(Entry) /\ Requests \subseteq Request /\ Values \subseteq Value

VARIABLES
    plan,       \* the client's plan, or None
    inst,       \* worker -> its instance, or None
    call,       \* the omc_metadata_patch_apply under way, or the last one
    issued,     \* history: generation, id and number of handles of every plan made
    before      \* history: the payloads of the call's instance when it began

vars == <<plan, inst, call, issued, before>>

None == [id |-> 0]
Family == {"EXIF_TIFF", "XMP"}
FamilyOf(k) == IF k \in XmpKey THEN "XMP" ELSE "EXIF_TIFF"
NotFound == -1

Escaped(bytes) ==
    FlattenSeq([i \in DOMAIN bytes |-> IF bytes[i] = "&" THEN <<"&", ";">> ELSE <<bytes[i]>>])

(* Characters XML has no place for; EXIF text may hold any.                *)
Unencodable == {"\\0"}

-----------------------------------------------------------------------------
(* The serialisers.  EXIF entries come by tag, entries of one tag in store *)
(* order; XMP has one element per property, the first live entry's.        *)
Live(st, k) == {i \in DOMAIN st : ~st[i].deleted /\ st[i].key = k}

Least(S) == CHOOSE n \in S : \A m \in S : n <= m
(* The n-th smallest of a set of numbers, counted from 0, and all of them. *)
Nth(S, n) == CHOOSE m \in S : Cardinality({l \in S : l < m}) = n
Ascending(S) == [n \in 1 .. Cardinality(S) |-> Nth(S, n - 1)]

ExifOrder(st) == FlattenSeq([t \in DOMAIN TagOrder |-> Ascending(Live(st, TagOrder[t]))])

XmpOrder(st) == Ascending({Least(Live(st, k)) : k \in {x \in XmpKey : Live(st, x) # {}}})

ExifCells(e) == Frame[e.key] \o e.bytes
XmpCells(e) == <<e.key>> \o Escaped(e.bytes) \o <<"/">>

Payloads(st) ==
    [EXIF_TIFF |-> FlattenSeq([n \in DOMAIN ExifOrder(st) |-> ExifCells(st[ExifOrder(st)[n]])]),
     XMP |-> FlattenSeq([n \in DOMAIN XmpOrder(st) |-> XmpCells(st[XmpOrder(st)[n]])])]

(* Where the value of entry i really is.                                   *)
Place(st, i) ==
    LET order == IF st[i].key \in XmpKey THEN XmpOrder(st) ELSE ExifOrder(st)
        Cells(e) == IF e.key \in XmpKey THEN XmpCells(e) ELSE ExifCells(e)
        n == CHOOSE m \in DOMAIN order : order[m] = i
        header == IF st[i].key \in XmpKey THEN 1 ELSE Len(Frame[st[i].key])
    IN header + Len(FlattenSeq([m \in 1 .. n - 1 |-> Cells(st[order[m]])]))

(* Where the values of all serialised entries of its key are.              *)
Equals(st, i) ==
    {Place(st, j) : j \in {l \in Live(st, st[i].key) :
                            l \in Range(IF st[i].key \in XmpKey THEN XmpOrder(st)
                                        ELSE ExifOrder(st))}}

-----------------------------------------------------------------------------
(* Slots are found by searching the payload for the bytes of the value.    *)
OccursAt(cells, needle) ==
    {i \in 0 .. Len(cells) - Len(needle) : SubSeq(cells, i + 1, i + Len(needle)) = needle}

ExifOffsetFirst(cells, needle, occurrence) ==   \* mutant: always the first match
    LET found == OccursAt(cells, needle)
    IN IF needle = <<>> \/ Cardinality(found) <= occurrence
       THEN NotFound ELSE Nth(found, 0)
ExifOffset(cells, needle, occurrence) ==
    LET found == OccursAt(cells, needle)
    IN IF needle = <<>> \/ Cardinality(found) <= occurrence
       THEN NotFound ELSE Nth(found, occurrence)

(* The first match after any element whose name begins as the property's. *)
XmpOffset(cells, k, needle) ==
    LET after == {p \in DOMAIN cells : cells[p] \in NamesFrom[k]}
        found == {i \in OccursAt(cells, needle) : \E p \in after : p <= i}
    IN IF found = {} THEN NotFound ELSE Least(found)

(* TIFF texts are written with a terminator, which is not in the slot.     *)
WidthWithTerminator(needle) == Len(needle) + 1      \* mutant
Width(needle) == Len(needle)

Denied == [width |-> NotFound]

FindSlot(st, payloads, r) ==
    LET matches == Live(st, r.key)
        e == st[Nth(matches, r.occurrence)]
        family == FamilyOf(r.key)
        needle == IF family = "XMP" THEN Escaped(e.bytes) ELSE e.bytes
        offset == IF family = "XMP" THEN XmpOffset(payloads.XMP, r.key, needle)
                  ELSE ExifOffset(payloads.EXIF_TIFF, needle, r.occurrence)
    IN IF \/ family = "XMP" /\ r.occurrence # 0
          \/ Cardinality(matches) <= r.occurrence
          \/ family = "XMP" /\ (e.shape # "text" \/ Unencodable \cap Range(e.bytes) # {})
          \/ [shape |-> e.shape, count |-> Len(e.bytes)] # r.expected
          \/ r.escaped # (IF family = "XMP" THEN Width(needle) ELSE 0)
          \/ offset = NotFound
       THEN Denied
       ELSE [family |-> family, offset |-> offset, width |-> Width(needle),
             expected |-> r.expected]

(* Two requests for one key and occurrence are refused.                    *)
SameTarget(r, s) == r.key = s.key /\ r.occurrence = s.occurrence

-----------------------------------------------------------------------------
NoCall == [pc |-> "idle", worker |-> CHOOSE w \in Worker : TRUE, updates |-> <<>>,
           i |-> 1, code |-> "REFUSED"]

Idle == call.pc = "idle"

Init ==
    /\ plan = None
    /\ inst = [w \in Worker |-> None]
    /\ call = NoCall
    /\ issued = {}
    /\ before = Payloads(<<>>)

(* omc_metadata_patch_prepare: a failure keeps the plan the client has.    *)
(* The second pass of the EXIF serialiser may run out of memory; its       *)
(* status is not looked at, and the plan then has no EXIF payload.         *)
Prepare(st, requests, id) ==
    /\ Idle
    /\ Cardinality(issued) < MaxPlans
    /\ Len(requests) \in 1 .. MaxRequests
    /\ \A i, j \in DOMAIN requests : i # j => ~SameTarget(requests[i], requests[j])
    /\ \E lost \in BOOLEAN :
        LET payloads == IF lost THEN [Payloads(st) EXCEPT !.EXIF_TIFF = <<>>]
                        ELSE Payloads(st)
            slots == [i \in DOMAIN requests |-> FindSlot(st, payloads, requests[i])]
            entry == [i \in DOMAIN requests |->
                        Nth(Live(st, requests[i].key), requests[i].occurrence)]
            gen == Cardinality(issued) + 1
        IN /\ Denied \notin Range(slots)
           /\ plan' = [id |-> id, payload |-> payloads, slots |-> slots, gen |-> gen,
                       places |-> [i \in DOMAIN requests |-> Place(st, entry[i])],
                       equals |-> [i \in DOMAIN requests |-> Equals(st, entry[i])]]
           /\ issued' = issued \cup {[gen |-> gen, id |-> id, count |-> Len(requests)]}
    /\ UNCHANGED <<inst, call, before>>

ResetPlan ==
    /\ Idle /\ plan # None
    /\ plan' = None
    /\ UNCHANGED <<inst, call, issued, before>>

(* omc_metadata_patch_instance_create: a copy of everything in the plan,   *)
(* in place of the instance the worker had; without memory that one stays. *)
CreateInstance(w) ==
    /\ Idle /\ plan # None
    /\ inst' = [inst EXCEPT ![w] = plan]
    /\ UNCHANGED <<plan, call, issued, before>>

ResetInstance(w) ==
    /\ Idle /\ inst[w] # None
    /\ inst' = [inst EXCEPT ![w] = None]
    /\ UNCHANGED <<plan, call, issued, before>>

-----------------------------------------------------------------------------
(* An update names a handle and a value; the bytes of a text are the       *)
(* client's own or lie in the payload of an instance.  A value of broken   *)
(* shape stands with those of a shape no slot expects.                     *)
Own == [family |-> "none"]

TheBytes(u) ==
    IF u.from = Own THEN u.bytes
    ELSE SubSeq(inst[u.from.worker].payload[u.from.family],
                u.from.offset + 1, u.from.offset + Len(u.bytes))

InPayload(u) ==
    u.from # Own =>
        /\ inst[u.from.worker] # None
        /\ u.from.offset + Len(u.bytes) <= Len(inst[u.from.worker].payload[u.from.family])

PlanIdOf(token) == token \div Span
IndexOf(token) == token % Span

Self == inst[call.worker]
SlotOf(u) == Self.slots[IndexOf(u.token)]
Encoded(u) == IF SlotOf(u).family = "XMP" THEN Escaped(TheBytes(u)) ELSE TheBytes(u)

KnowsAny(token) == IndexOf(token) \in DOMAIN Self.slots     \* mutant: plan_id is not compared
Knows(token) == PlanIdOf(token) = Self.id /\ IndexOf(token) \in DOMAIN Self.slots

FitsRaw(u) ==       \* mutant: XMP text is measured before it is escaped
    /\ u.shape = SlotOf(u).expected.shape
    /\ Len(TheBytes(u)) = SlotOf(u).width
Fits(u) ==
    /\ u.shape = SlotOf(u).expected.shape
    /\ SlotOf(u).family = "EXIF_TIFF" => Len(u.bytes) = SlotOf(u).expected.count
    /\ Len(Encoded(u)) = SlotOf(u).width

AliasesNothing(u) == FALSE          \* mutant: aliases are not looked for
Aliases(u) == u.from # Own /\ u.from.worker = call.worker /\ u.bytes # <<>>

Accepted(u, earlier) ==
    /\ u.token # 0 /\ Knows(u.token)
    /\ \A o \in earlier : o.token # u.token
    /\ ~Aliases(u)
    /\ SlotOf(u).family = "XMP" => Unencodable \cap Range(TheBytes(u)) = {}
    /\ Fits(u)

(* Of a batch, what has not been looked at makes no difference yet: the    *)
(* updates are chosen as the first loop reaches them.                      *)
BeginApply(w) ==
    /\ Idle /\ inst[w] # None
    /\ call' = [NoCall EXCEPT !.pc = "check", !.worker = w]
    /\ before' = inst[w].payload
    /\ UNCHANGED <<plan, inst, issued>>

CheckUpdate(u, isLast) ==
    /\ call.pc = "check"
    /\ Len(call.updates) + 1 = MaxBatch => isLast
    /\ InPayload(u)
    /\ call' = IF Accepted(u, Range(call.updates))
               THEN [call EXCEPT !.pc = IF isLast THEN "write" ELSE "check",
                                 !.updates = Append(@, u)]
               ELSE [call EXCEPT !.pc = "returned"]
    /\ UNCHANGED <<plan, inst, issued, before>>

Overwritten(cells, offset, bytes) ==
    [p \in 1 .. (IF offset + Len(bytes) > Len(cells) THEN offset + Len(bytes) ELSE Len(cells)) |->
        IF p - offset \in DOMAIN bytes THEN bytes[p - offset] ELSE cells[p]]

Current == call.updates[call.i]

WriteUpdate ==
    /\ call.pc = "write"
    /\ inst' = [inst EXCEPT ![call.worker].payload[SlotOf(Current).family] =
                    Overwritten(@, SlotOf(Current).offset, Encoded(Current))]
    /\ call' = IF call.i < Len(call.updates) THEN [call EXCEPT !.i = @ + 1]
               ELSE [call EXCEPT !.pc = "returned", !.code = "NONE"]
    /\ UNCHANGED <<plan, issued, before>>

(* The client goes on; nothing is kept of a call but the instance.         *)
Return ==
    /\ call.pc = "returned"
    /\ call' = NoCall /\ before' = Payloads(<<>>)
    /\ UNCHANGED <<plan, inst, issued>>

-----------------------------------------------------------------------------
Handles == {0} \cup {id * Span + n : id \in PlanId, n \in 0 .. MaxRequests + 1}

Updates ==
    {[token |-> t, shape |-> v.shape, bytes |-> v.bytes, from |-> Own] :
        t \in Handles, v \in Values}
    \cup
    UNION {{[token |-> t, shape |-> "text", bytes |-> v.bytes,
             from |-> [family |-> f, worker |-> w, offset |-> o]] :
                t \in Handles, v \in {x \in Values : x.shape = "text"},
                o \in DOMAIN inst[w].payload[f]} :
           f \in Family, w \in {x \in Worker : inst[x] # None}}

Next ==
    \/ \E st \in Stores, rs \in TupleOf(Requests, 1) \cup TupleOf(Requests, 2), id \in PlanId :
            Prepare(st, rs, id)
    \/ ResetPlan
    \/ \E w \in Worker : CreateInstance(w) \/ ResetInstance(w) \/ BeginApply(w)
    \/ \E u \in Updates, isLast \in BOOLEAN : CheckUpdate(u, isLast)
    \/ WriteUpdate
    \/ Return

Spec == Init /\ [][Next]_vars

-----------------------------------------------------------------------------
Cells == XmpKey \cup {"/", "&", ";"} \cup (UNION {Range(Frame[k]) : k \in ExifKey})
         \cup (UNION {Range(v.bytes) : v \in Values})
         \cup (UNION {Range(e.bytes) : e \in UNION {Range(st) : st \in Stores}})

Slot == [family : Family, offset : Nat, width : Nat, expected : Expected]

IsState(s) ==
    s # None =>
        /\ s.id \in PlanId
        /\ \A f \in Family : s.payload[f] \in Seq(Cells)
        /\ s.slots \in Seq(Slot) /\ Len(s.slots) \in 1 .. MaxRequests

(* A slot lies inside its payload, in the plan and in every instance, also *)
(* when the plan was prepared without its EXIF payload: apply copies bytes *)
(* to a slot's offset and never looks at the payload's size.               *)
SlotsFit ==
    \A s \in {plan} \cup Range(inst) :
        s # None =>
            \A i \in DOMAIN s.slots :
                s.slots[i].offset + s.slots[i].width <= Len(s.payload[s.slots[i].family])

(* Plans and instances have a nonzero id, payloads of cells, and a slot    *)
(* per handle that lies inside its payload, whatever was prepared, reset   *)
(* and applied before.                                                     *)
TypeOK ==
    /\ IsState(plan) /\ \A w \in Worker : IsState(inst[w])
    /\ SlotsFit
    /\ call.pc \in {"idle", "check", "write", "returned"} /\ call.code \in {"REFUSED", "NONE"}
    /\ call.worker \in Worker
    /\ call.pc = "write" => call.i \in DOMAIN call.updates

(* The payload a batch ought to leave: every cell is that of the last      *)
(* update whose slot covers it, as its value read when apply was called,   *)
(* and the cells no slot of the batch covers are what they were.           *)
BytesAtCall(u) ==
    IF u.from # Own /\ u.from.worker = call.worker
    THEN SubSeq(before[u.from.family], u.from.offset + 1, u.from.offset + Len(u.bytes))
    ELSE TheBytes(u)

PatchedBy(updates, now) ==
    \A f \in Family :
        /\ Len(now[f]) = Len(before[f])
        /\ \A p \in DOMAIN before[f] :
            LET Covers(i) ==
                    /\ SlotOf(updates[i]).family = f
                    /\ p - SlotOf(updates[i]).offset \in 1 .. SlotOf(updates[i]).width
                covering == {i \in DOMAIN updates : Covers(i)}
            IN IF covering = {} THEN now[f][p] = before[f][p]
               ELSE LET i == CHOOSE j \in covering : \A k \in covering : k <= j
                        value == BytesAtCall(updates[i])
                        cells == IF f = "XMP" THEN Escaped(value) ELSE value
                    IN /\ Len(cells) = SlotOf(updates[i]).width
                       /\ now[f][p] = cells[p - SlotOf(updates[i]).offset]

(* A batch applies as a whole or not at all (authoring.md 380-382): when   *)
(* apply returns, either it reported success and the two payloads are      *)
(* those the whole batch ought to leave, or both are untouched.            *)
BatchIsWhole ==
    call.pc = "returned" =>
        IF call.code = "NONE" THEN PatchedBy(call.updates, Self.payload)
        ELSE Self.payload = before

(* What apply is about to write goes by handles of the plan its instance   *)
(* was copied from: those of earlier plans and of plans with other ids are *)
(* refused, however long the instance outlives the plan.                   *)
ForeignHandlesRefused ==
    call.pc = "write" =>
        \A i \in DOMAIN call.updates :
            \E p \in issued :
                /\ p.gen = Self.gen
                /\ PlanIdOf(call.updates[i].token) = p.id
                /\ IndexOf(call.updates[i].token) \in 1 .. p.count

(* authoring.md 378: "Requests bind a key plus occurrence".  Where the     *)
(* bytes of the value cannot be mistaken, because the payload has them at  *)
(* the entries of that key and nowhere else, the slot is where the         *)
(* serialiser put the entry asked for and not another of them.  (Repeated  *)
(* values of other entries may be mistaken; the same document, 387-388,    *)
(* says that they are.)                                                    *)
UnmistakableIsBound ==
    plan # None =>
        \A i \in DOMAIN plan.slots :
            LET slot == plan.slots[i]
                cells == plan.payload[slot.family]
                value == SubSeq(cells, slot.offset + 1, slot.offset + slot.width)
            IN OccursAt(cells, value) = plan.equals[i] => slot.offset = plan.places[i]
=============================================================================
