----------------------------- MODULE RebaseInfo -----------------------------
(* RebaseInfoAtom::encode of ld turns the table of rebased addresses into   *)
(* opcodes, which it then compresses in place in four passes over one       *)
(* array, and ImageLoaderMachOCompressed::rebase of dyld runs the opcodes.  *)
(*                                                                          *)
(* An opcode of the array is [op, a, b] with the two operands.  A uleb128   *)
(* takes one cell of the data, whatever its length.  Addresses are those of *)
(* an image that is not slid.                                               *)
EXTENDS DyldSegments

CONSTANTS
    Layouts,    \* sequences of segments
    MaxEntries, \* addresses to rebase
    Stray       \* offsets off the pointer alignment, only in read-only segments

VARIABLES
    layout,     \* the segments
    info,       \* _rebaseInfo, sorted: a sequence of [type, address]
    n,          \* entries of info that are translated
    cur,        \* curSegStart, curSegEnd, curSegIndex
    type,       \* the type and the
    address,    \* address the opcodes so far lead to
    mid,        \* the array of opcodes
    phase,      \* where encode is; then "dyld", then "done" or "threw"
    src, dst,   \* the places of a pass in mid, from 1
    data,       \* _encodedData
    p,          \* the next cell of data for dyld
    dyld        \* dyld's variables and what it has rebased

vars == <<layout, info, n, cur, type, address, mid, phase, src, dst, data, p, dyld>>
linker == <<n, cur, type, address, mid, src, dst>>

Pointer == 1            \* REBASE_TYPE_POINTER
TextAbsolute32 == 2     \* REBASE_TYPE_TEXT_ABSOLUTE32

Codes == [DONE |-> 0, SET_TYPE_IMM |-> 1, SET_SEGMENT_AND_OFFSET_ULEB |-> 2,
          ADD_ADDR_ULEB |-> 3, ADD_ADDR_IMM_SCALED |-> 4, DO_REBASE_IMM_TIMES |-> 5,
          DO_REBASE_ULEB_TIMES |-> 6, DO_REBASE_ADD_ADDR_ULEB |-> 7,
          DO_REBASE_ULEB_TIMES_SKIPPING_ULEB |-> 8]

Op(op, a, b) == [op |-> op, a |-> a, b |-> b]
Done == Op("DONE", 0, 0)

(***************************************************************************)
(* The table.  addDyldInfo derives the type from the protection of the     *)
(* segment, so that a segment has entries of one type only.  The first     *)
(* segment begins with the mach header, which has nothing to rebase.       *)
(***************************************************************************)

Slots(seg) ==
    {a \in seg.start..(seg.end - PtrSize) :
        \/ (a - seg.start) % PtrSize = 0
        \/ ~seg.writable /\ (a - seg.start) % PtrSize \in Stray}

Entries(l) ==
    UNION {{[type |-> IF l[k].writable THEN Pointer ELSE TextAbsolute32, address |-> a] :
            a \in {a \in Slots(l[k]) : k > 1 \/ a >= l[1].start + PtrSize}} : k \in 1..(Len(l) - 1)}

Apart(S) == \A e, f \in S : e = f \/ e.address + PtrSize <= f.address \/ f.address + PtrSize <= e.address

\* RebaseInfo::operator<
Before(e, f) == e.type < f.type \/ (e.type = f.type /\ e.address < f.address)

Dyld0(l) == [address |-> segActualLoadAddress(l, 0), segEnd |-> segActualEndAddress(l, 0),
             type |-> 0, bad |-> FALSE, rebased |-> <<>>]

Init ==
    /\ layout \in Layouts
    /\ \E S \in SUBSET Entries(layout) :
         /\ Cardinality(S) \in 1..MaxEntries /\ Apart(S)
         /\ info = InOrder(S, Before)
    /\ n = 0 /\ cur = NoSegment /\ type = 0 /\ address = LdWord - 1
    /\ mid = <<>> /\ phase = "translate" /\ src = 1 /\ dst = 1
    /\ data = <<>> /\ p = 1 /\ dyld = Dyld0(layout)

(***************************************************************************)
(* What a sequence of opcodes makes dyld do: rebase's switch, an opcode at *)
(* a time.  Rebasing at or past the end of the segment throws.             *)
(***************************************************************************)

RebaseTimes(s, count, skip) ==
    LET at(i) == (s.address + i * (skip + PtrSize)) % DyldWord
    IN  [s EXCEPT !.rebased = @ \o [i \in 1..count |-> [type |-> s.type, address |-> at(i - 1)]],
                  !.bad = @ \/ \E i \in 1..count : at(i - 1) >= s.segEnd,
                  !.address = at(count)]

Run1(l, s, o) ==
    CASE o.op = "SET_TYPE_IMM" -> [s EXCEPT !.type = o.a]
      [] o.op = "SET_SEGMENT_AND_OFFSET_ULEB" ->
            IF o.a >= Len(l) THEN [s EXCEPT !.bad = TRUE]
            ELSE [s EXCEPT !.address = (segActualLoadAddress(l, o.a) + ReadUleb(o.b)) % DyldWord,
                           !.segEnd = segActualEndAddress(l, o.a)]
      [] o.op = "ADD_ADDR_ULEB" -> [s EXCEPT !.address = (@ + ReadUleb(o.a)) % DyldWord]
      [] o.op = "ADD_ADDR_IMM_SCALED" -> [s EXCEPT !.address = (@ + o.a * PtrSize) % DyldWord]
      [] o.op \in {"DO_REBASE_IMM_TIMES", "DO_REBASE_ULEB_TIMES"} -> RebaseTimes(s, o.a, 0)
      [] o.op = "DO_REBASE_ADD_ADDR_ULEB" -> RebaseTimes(s, 1, ReadUleb(o.a))
      [] o.op = "DO_REBASE_ULEB_TIMES_SKIPPING_ULEB" -> RebaseTimes(s, o.a, ReadUleb(o.b))
      [] o.op = "DONE" -> s

\* What is rebased by the opcodes up to the first DONE.
Meaning(ops) ==
    LET last == {k \in 1..Len(ops) : ops[k].op = "DONE"}
        upTo == IF last = {} THEN Len(ops) ELSE First(last)
        run[k \in 0..upTo] == IF k = 0 THEN Dyld0(layout) ELSE Run1(layout, run[k - 1], ops[k])
    IN  run[upTo]

(***************************************************************************)
(* encode: the translation of one entry.                                   *)
(***************************************************************************)

\* The address after a rebase; a segment that is used up leads nowhere.
Advance(a, seg) == LET next == (a + PtrSize) % LdWord IN IF next >= seg.end THEN 0 ELSE next

Translate ==
    /\ phase = "translate" /\ n < Len(info)
    /\ LET e == info[n + 1]
           outside == e.address < cur.start \/ e.address >= cur.end
           seg == IF address # e.address /\ outside THEN findSegment(layout, e.address) ELSE cur
           typed == IF type # e.type THEN <<Op("SET_TYPE_IMM", e.type, 0)>> ELSE <<>>
           moved == IF address = e.address THEN <<>>
                    ELSE IF outside
                    THEN <<Op("SET_SEGMENT_AND_OFFSET_ULEB", seg.index, e.address - seg.start)>>
                    ELSE <<Op("ADD_ADDR_ULEB", (e.address - address) % LdWord, 0)>>
       IN  /\ (address # e.address /\ outside) => Covered(layout, e.address)
           /\ mid' = mid \o typed \o moved \o <<Op("DO_REBASE_ULEB_TIMES", 1, 0)>>
           /\ type' = e.type /\ cur' = seg /\ n' = n + 1
           /\ address' = Advance(e.address, seg)
    /\ UNCHANGED <<layout, info, phase, src, dst, data, p, dyld>>

EndTranslate ==
    /\ phase = "translate" /\ n = Len(info)
    /\ mid' = Append(mid, Done) /\ phase' = "runs"
    /\ UNCHANGED <<layout, info, n, cur, type, address, src, dst, data, p, dyld>>

(***************************************************************************)
(* The passes.  Each reads a few opcodes at src and writes one at dst; the *)
(* number read and the opcode written are [take, put].                     *)
(***************************************************************************)

\* How many opcodes from src on are at one of the positions.
RunLength(places) == First({k \in 0..(Len(mid) - src) : src + k \notin places})

One == [take |-> 1, put |-> mid[src]]

\* Phase 1: a run of pointers becomes one opcode.
Runs ==
    IF mid[src].op = "DO_REBASE_ULEB_TIMES" /\ mid[src].a = 1
    THEN LET k == RunLength({j \in DOMAIN mid : mid[j].op = "DO_REBASE_ULEB_TIMES"})
             sum[j \in 0..k] == IF j = 0 THEN 0 ELSE sum[j - 1] + mid[src + j - 1].a
         IN  [take |-> k, put |-> Op("DO_REBASE_ULEB_TIMES", sum[k], 0)]
    ELSE One

\* Mistake: a run of several pointers is combined as if it were one.
PairsOfRuns ==
    IF mid[src].op = "DO_REBASE_ULEB_TIMES" /\ mid[src + 1].op = "ADD_ADDR_ULEB"
    THEN [take |-> 2, put |-> Op("DO_REBASE_ADD_ADDR_ULEB", mid[src + 1].a, 0)]
    ELSE One

\* Phase 2: a single rebase and the addition after it become one opcode.
Pairs ==
    IF mid[src].op = "DO_REBASE_ULEB_TIMES" /\ mid[src].a = 1 /\ mid[src + 1].op = "ADD_ADDR_ULEB"
    THEN [take |-> 2, put |-> Op("DO_REBASE_ADD_ADDR_ULEB", mid[src + 1].a, 0)]
    ELSE One

IsSkip(o, delta) == o.op = "DO_REBASE_ADD_ADDR_ULEB" /\ o.a = delta

\* Phase 3: three or more of these with one delta become one opcode.
Skips ==
    IF \A k \in 0..2 : src + k <= Len(mid) /\ IsSkip(mid[src + k], mid[src].a)
    THEN LET k == RunLength({j \in DOMAIN mid : IsSkip(mid[j], mid[src].a)})
         IN  [take |-> k, put |-> Op("DO_REBASE_ULEB_TIMES_SKIPPING_ULEB", k, mid[src].a)]
    ELSE One

\* Mistake: a count that needs one more bit.
ImmediatesToo ==
    [take |-> 1,
     put |-> IF mid[src].op = "ADD_ADDR_ULEB"
                /\ mid[src].a < (Imm - 1) * PtrSize /\ mid[src].a % PtrSize = 0
             THEN Op("ADD_ADDR_IMM_SCALED", mid[src].a \div PtrSize, 0)
             ELSE IF mid[src].op = "DO_REBASE_ULEB_TIMES" /\ mid[src].a <= Imm
             THEN [mid[src] EXCEPT !.op = "DO_REBASE_IMM_TIMES"]
             ELSE mid[src]]

\* Phase 4: small operands go into the byte of the opcode.
Immediates ==
    [take |-> 1,
     put |-> IF mid[src].op = "ADD_ADDR_ULEB"
                /\ mid[src].a < (Imm - 1) * PtrSize /\ mid[src].a % PtrSize = 0
             THEN Op("ADD_ADDR_IMM_SCALED", mid[src].a \div PtrSize, 0)
             ELSE IF mid[src].op = "DO_REBASE_ULEB_TIMES" /\ mid[src].a < Imm - 1
             THEN [mid[src] EXCEPT !.op = "DO_REBASE_IMM_TIMES"]
             ELSE mid[src]]

Passes == [runs |-> "pairs", pairs |-> "skips", skips |-> "immediates", immediates |-> "convert"]

Optimize ==
    /\ phase \in DOMAIN Passes /\ mid[src].op # "DONE"
    /\ LET r == CASE phase = "runs" -> Runs [] phase = "pairs" -> Pairs
                  [] phase = "skips" -> Skips [] phase = "immediates" -> Immediates
       IN  mid' = [mid EXCEPT ![dst] = r.put] /\ src' = src + r.take /\ dst' = dst + 1
    /\ UNCHANGED <<layout, info, n, cur, type, address, phase, data, p, dyld>>

\* The end of a pass; the array keeps its length, the opcodes end at DONE.
EndPass ==
    /\ phase \in DOMAIN Passes /\ mid[src].op = "DONE"
    /\ mid' = [mid EXCEPT ![dst].op = "DONE"]
    /\ phase' = Passes[phase] /\ src' = 1 /\ dst' = 1
    /\ UNCHANGED <<layout, info, n, cur, type, address, data, p, dyld>>

(***************************************************************************)
(* The bytes.  DONE is not written: dyld stops at the padding or the end.  *)
(***************************************************************************)

Bytes(o) ==
    LET first == Byte(Codes[o.op], IF o.op \in {"SET_TYPE_IMM", "SET_SEGMENT_AND_OFFSET_ULEB",
                                                "ADD_ADDR_IMM_SCALED", "DO_REBASE_IMM_TIMES"}
                                   THEN o.a ELSE 0)
    IN  CASE o.op = "SET_SEGMENT_AND_OFFSET_ULEB" -> <<first, o.b>>
          [] o.op \in {"ADD_ADDR_ULEB", "DO_REBASE_ULEB_TIMES", "DO_REBASE_ADD_ADDR_ULEB"} -> <<first, o.a>>
          [] o.op = "DO_REBASE_ULEB_TIMES_SKIPPING_ULEB" -> <<first, o.a, o.b>>
          [] OTHER -> <<first>>

Convert ==
    /\ phase = "convert"
    /\ LET last == First({k \in 1..Len(mid) : mid[k].op = "DONE"}) - 1
       IN  \E padding \in {<<>>, <<0>>} :
             data' = Joined([k \in 1..last |-> Bytes(mid[k])]) \o padding
    /\ phase' = "dyld"
    /\ UNCHANGED <<layout, info, linker, p, dyld>>

(***************************************************************************)
(* dyld: one opcode of rebase's loop.                                      *)
(***************************************************************************)

OpNamed(code) == CHOOSE op \in DOMAIN Codes : Codes[op] = code

Ulebs(op) ==
    CASE op = "DO_REBASE_ULEB_TIMES_SKIPPING_ULEB" -> 2
      [] op \in {"SET_SEGMENT_AND_OFFSET_ULEB", "ADD_ADDR_ULEB", "DO_REBASE_ULEB_TIMES",
                 "DO_REBASE_ADD_ADDR_ULEB"} -> 1
      [] OTHER -> 0

Readable(at) == CodeOf(data[at]) <= 8 /\ at + Ulebs(OpNamed(CodeOf(data[at]))) <= Len(data)

\* The opcode at a cell: with a uleb, the first operand is the uleb, except
\* that of the segment, which is the immediate.
OpAt(at) ==
    LET op == OpNamed(CodeOf(data[at]))
        imm == ImmediateOf(data[at])
    IN  IF op = "SET_SEGMENT_AND_OFFSET_ULEB" THEN Op(op, imm, data[at + 1])
        ELSE CASE Ulebs(op) = 0 -> Op(op, imm, 0)
               [] Ulebs(op) = 1 -> Op(op, data[at + 1], 0)
               [] Ulebs(op) = 2 -> Op(op, data[at + 1], data[at + 2])

Rebase ==
    /\ phase = "dyld" /\ p <= Len(data)
    /\ IF ~Readable(p) THEN phase' = "threw" /\ UNCHANGED <<p, dyld>>
       ELSE LET o == OpAt(p) s == Run1(layout, dyld, o)
            IN  /\ dyld' = s
                /\ p' = p + 1 + Ulebs(o.op)
                /\ phase' = IF s.bad THEN "threw" ELSE IF o.op = "DONE" THEN "done" ELSE phase
    /\ UNCHANGED <<layout, info, linker, data>>

EndOfData ==
    /\ phase = "dyld" /\ p > Len(data) /\ phase' = "done"
    /\ UNCHANGED <<layout, info, linker, data, p, dyld>>

Stopped == phase \in {"done", "threw"} /\ UNCHANGED vars

Next == Translate \/ EndTranslate \/ Optimize \/ EndPass \/ Convert \/ Rebase \/ EndOfData \/ Stopped

Spec == Init /\ [][Next]_vars

(***************************************************************************)
(* Properties                                                              *)
(***************************************************************************)

\* The variables have their types: the passes stay inside the array and never
\* write past what they have read.
TypeOK ==
    /\ n \in 0..Len(info) /\ address \in 0..(LdWord - 1)
    /\ phase \in DOMAIN Passes \cup {"translate", "convert", "dyld", "done", "threw"}
    /\ dst <= src /\ (phase # "translate" => src <= Len(mid))
    /\ \A k \in 1..Len(mid) : mid[k].op \in DOMAIN Codes
    /\ p \in 1..(Len(data) + 1)

\* At every step of the four passes, the opcodes that are written and the ones
\* still to be read rebase exactly the entries of the table, in its order and
\* inside their segments: no pass, and no part of a pass, changes the meaning.
PassesKeepMeaning ==
    phase \in DOMAIN Passes \cup {"translate", "convert"} =>
        LET m == Meaning(SubSeq(mid, 1, dst - 1) \o SubSeq(mid, src, Len(mid)))
        IN  ~m.bad /\ m.rebased = SubSeq(info, 1, n)

\* dyld rebases the entries of the table in order, never throws, and has
\* rebased all of them when it stops.
DyldRebasesTable ==
    /\ phase # "threw" /\ Begins(dyld.rebased, info)
    /\ phase = "done" => dyld.rebased = info
=============================================================================
