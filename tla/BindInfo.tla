------------------------------ MODULE BindInfo ------------------------------
(* The bind opcodes: BindingInfoAtom, WeakBindingInfoAtom and               *)
(* LazyBindingInfoAtom of ld turn a table of pointers to symbols into       *)
(* opcodes; eachBind, the weak binding's iterators, eachLazyBind and        *)
(* doBindFastLazySymbol of dyld run them.                                   *)
(*                                                                          *)
(* A symbol is a number, in strcmp order.  The name after an opcode and a   *)
(* leb128 take one cell of the data each.                                   *)
EXTENDS DyldSegments

CONSTANTS
    Kinds,      \* "bind", "weak", "lazy": the tables to try
    Layouts,    \* sequences of segments
    MaxEntries, \* pointers to bind
    Ordinal,    \* [symbols -> library ordinal], special ones not positive
    Proxies,    \* symbols that a dylib defines
    Refs,       \* what a pointer may refer to: [sym, addend, weak], weak for weak import
    Overrides,  \* symbols of this image that override a weak definition in a
                \* dylib, and are not weak themselves
    MismatchIsWeak  \* -weak_reference_mismatches weak, not non-weak

Symbols == DOMAIN Ordinal

VARIABLES
    kind,       \* which table
    layout,     \* the segments
    info,       \* the table in the order of encoding
    n,          \* its entries that are translated
    cur,        \* curSegStart, curSegEnd, curSegIndex
    col,        \* ordinal, symbolName, type, address, addend of the opcodes so far
    mid,        \* the array of opcodes
    phase,      \* where encode is; then "dyld", then "done" or "threw"
    src, dst,   \* the places of a pass in mid
    data,       \* _encodedData
    offsets,    \* lazy: where the opcodes of an entry begin in data
    p,          \* the next cell of data for dyld
    dyld        \* dyld's variables and what it has bound

vars == <<kind, layout, info, n, cur, col, mid, phase, src, dst, data, offsets, p, dyld>>
table == <<kind, layout, info>>
linker == <<n, cur, col, mid, src, dst>>

Override == 0           \* BIND_TYPE_OVERRIDE_OF_WEAKDEF_IN_DYLIB
Pointer == 1            \* BIND_TYPE_POINTER
TextAbsolute32 == 2     \* BIND_TYPE_TEXT_ABSOLUTE32
WeakImport == 1         \* BIND_SYMBOL_FLAGS_WEAK_IMPORT
NonWeakDefinition == 2  \* BIND_SYMBOL_FLAGS_NON_WEAK_DEFINITION, 8 in the format
NoOrdinal == -999       \* 0x80000000
NoSymbol == 0           \* NULL

Codes == [DONE |-> 0, SET_DYLIB_ORDINAL_IMM |-> 1, SET_DYLIB_ORDINAL_ULEB |-> 2,
          SET_DYLIB_SPECIAL_IMM |-> 3, SET_SYMBOL_TRAILING_FLAGS_IMM |-> 4, SET_TYPE_IMM |-> 5,
          SET_ADDEND_SLEB |-> 6, SET_SEGMENT_AND_OFFSET_ULEB |-> 7, ADD_ADDR_ULEB |-> 8,
          DO_BIND |-> 9, DO_BIND_ADD_ADDR_ULEB |-> 10, DO_BIND_ADD_ADDR_IMM_SCALED |-> 11,
          DO_BIND_ULEB_TIMES_SKIPPING_ULEB |-> 12]

Op(op, a, b) == [op |-> op, a |-> a, b |-> b]
Done == Op("DONE", 0, 0)

(***************************************************************************)
(* The table, as addDyldInfo and generateLinkEditInfo make it.  The weak   *)
(* table knows no library, and only weak-import flags go into the others.  *)
(***************************************************************************)

Entry(kd, type, flags, sym, address, addend) ==
    [type |-> type, flags |-> flags, ordinal |-> IF kd = "weak" THEN 0 ELSE Ordinal[sym],
     sym |-> sym, address |-> address, addend |-> addend]

\* Pointers to bind, with the type their segment gives one to a dylib's symbol;
\* the image begins with the mach header.
Places(l) ==
    UNION {{<<a, IF l[k].writable THEN Pointer ELSE TextAbsolute32>> :
            a \in {a \in l[k].start..(l[k].end - PtrSize) : (a - l[k].start) % PtrSize = 0
                                                          /\ (k > 1 \/ a > l[k].start)}}
           : k \in 1..(Len(l) - 1)}

\* Mistake: the override sorts last, after the pointers to the symbol.
BeforeLate(e, f) ==
    \/ e.ordinal < f.ordinal
    \/ e.ordinal = f.ordinal /\ e.sym < f.sym
    \/ e.ordinal = f.ordinal /\ e.sym = f.sym /\ e.type > f.type
    \/ e.ordinal = f.ordinal /\ e.sym = f.sym /\ e.type = f.type /\ e.address < f.address

\* BindingInfo::operator< and WeakBindingSorter; addresses differ.
Before(e, f) ==
    \/ e.ordinal < f.ordinal
    \/ e.ordinal = f.ordinal /\ e.sym < f.sym
    \/ e.ordinal = f.ordinal /\ e.sym = f.sym /\ e.type < f.type
    \/ e.ordinal = f.ordinal /\ e.sym = f.sym /\ e.type = f.type /\ e.address < f.address

\* The entries of pointers that are given a reference each.  One to a symbol of this
\* image has the type of a pointer in any segment.
Entries(kd, ref) ==
    {Entry(kd, IF ref[x].sym \in Proxies THEN x[2] ELSE Pointer,
           IF ref[x].weak THEN WeakImport ELSE 0, ref[x].sym, x[1], ref[x].addend) :
        x \in DOMAIN ref}
    \cup IF kd # "weak" THEN {}
         ELSE {Entry(kd, Override, NonWeakDefinition, sym, 0, 0) : sym \in Overrides}

\* Lazy pointers are writable and have no addend; they stay in the order of
\* their section.  The weak table has no weak imports.
Possible(kd, ref) ==
    /\ kd = "lazy" => \A x \in DOMAIN ref : x[2] = Pointer /\ ref[x].addend = 0
    /\ kd = "weak" => \A x \in DOMAIN ref : ~ref[x].weak

Sorted(kd, S) ==
    IF kd = "lazy" THEN InOrder(S, LAMBDA e, f : e.address < f.address)
    ELSE InOrder(S, Before)

Dyld0(kd, l) ==
    [address |-> IF kd = "weak" THEN 0 ELSE segActualLoadAddress(l, 0),
     segEnd |-> segActualEndAddress(l, 0), type |-> IF kd = "lazy" THEN Pointer ELSE 0,
     sym |-> NoSymbol, flags |-> 0, ordinal |-> 0, addend |-> 0, fast |-> 0,
     bad |-> FALSE, names |-> <<>>, bound |-> <<>>]

Init ==
    /\ kind \in Kinds /\ layout \in Layouts
    /\ \E S \in SUBSET Places(layout) :
         /\ Cardinality(S) \in 1..MaxEntries
         /\ \E ref \in [S -> Refs] :
              Possible(kind, ref) /\ info = Sorted(kind, Entries(kind, ref))
    /\ n = 0 /\ cur = NoSegment
    /\ col = [ordinal |-> NoOrdinal, sym |-> NoSymbol, type |-> 0, address |-> LdWord - 1, addend |-> 0]
    /\ mid = <<>> /\ phase = "translate" /\ src = 1 /\ dst = 1
    /\ data = <<>> /\ offsets = <<>> /\ p = 1 /\ dyld = Dyld0(kind, layout)

(***************************************************************************)
(* What opcodes make dyld do.  eachBind and eachLazyBind check the end of  *)
(* the segment, the weak binding and doBindFastLazySymbol do not; the weak *)
(* and the lazy readers know fewer opcodes.                                *)
(***************************************************************************)

Known(kd, op) ==
    CASE kd = "bind" -> TRUE
      [] kd = "weak" -> op \notin {"SET_DYLIB_ORDINAL_IMM", "SET_DYLIB_ORDINAL_ULEB", "SET_DYLIB_SPECIAL_IMM"}
      [] kd = "lazy" -> op \notin {"DO_BIND_ADD_ADDR_ULEB", "DO_BIND_ADD_ADDR_IMM_SCALED",
                                     "DO_BIND_ULEB_TIMES_SKIPPING_ULEB"}

BindTimes(kd, s, count, skip) ==
    LET at(i) == (s.address + i * (skip + PtrSize)) % DyldWord
        tuple(a) == [type |-> s.type, flags |-> s.flags, ordinal |-> s.ordinal, sym |-> s.sym,
                     address |-> a, addend |-> s.addend]
        checked == kd # "weak" /\ s.fast = 0
    IN  [s EXCEPT !.bound = @ \o [i \in 1..count |-> tuple(at(i - 1))],
                  !.bad = @ \/ (checked /\ \E i \in 1..count : at(i - 1) >= s.segEnd),
                  !.address = at(count)]

Run1(kd, l, s, o) ==
    IF ~Known(kd, o.op) THEN [s EXCEPT !.bad = TRUE]
    ELSE CASE o.op \in {"SET_DYLIB_ORDINAL_IMM", "SET_DYLIB_ORDINAL_ULEB", "SET_DYLIB_SPECIAL_IMM"} ->
            [s EXCEPT !.ordinal = o.a]
      [] o.op = "SET_SYMBOL_TRAILING_FLAGS_IMM" ->
            [s EXCEPT !.sym = o.b, !.flags = o.a, !.names = Append(@, o.b)]
      [] o.op = "SET_TYPE_IMM" -> [s EXCEPT !.type = o.a]
      [] o.op = "SET_ADDEND_SLEB" -> [s EXCEPT !.addend = o.a]
      [] o.op = "SET_SEGMENT_AND_OFFSET_ULEB" ->
            IF o.a >= Len(l) THEN [s EXCEPT !.bad = TRUE]
            ELSE [s EXCEPT !.address = (segActualLoadAddress(l, o.a) + ReadUleb(o.b)) % DyldWord,
                           !.segEnd = segActualEndAddress(l, o.a)]
      [] o.op = "ADD_ADDR_ULEB" -> [s EXCEPT !.address = (@ + ReadUleb(o.a)) % DyldWord]
      [] o.op = "DO_BIND" -> BindTimes(kd, s, 1, 0)
      [] o.op = "DO_BIND_ADD_ADDR_ULEB" -> BindTimes(kd, s, 1, ReadUleb(o.a))
      [] o.op = "DO_BIND_ADD_ADDR_IMM_SCALED" -> BindTimes(kd, s, 1, o.a * PtrSize)
      [] o.op = "DO_BIND_ULEB_TIMES_SKIPPING_ULEB" -> BindTimes(kd, s, o.a, ReadUleb(o.b))
      [] o.op = "DONE" -> s

Meaning(ops) ==
    LET last == {k \in 1..Len(ops) : ops[k].op = "DONE"}
        upTo == IF last = {} THEN Len(ops) ELSE First(last)
        run[k \in 0..upTo] == IF k = 0 THEN Dyld0(kind, layout) ELSE Run1(kind, layout, run[k - 1], ops[k])
    IN  run[upTo]

(***************************************************************************)
(* encode of the bind and the weak table: the translation of one entry.    *)
(***************************************************************************)

Ops(cond, op, a, b) == IF cond THEN <<Op(op, a, b)>> ELSE <<>>

Ordinals(e) ==
    IF kind = "weak" \/ col.ordinal = e.ordinal THEN <<>>
    ELSE <<Op(IF e.ordinal <= 0 THEN "SET_DYLIB_SPECIAL_IMM" ELSE "SET_DYLIB_ORDINAL_ULEB", e.ordinal, 0)>>

\* The opcode that leads from where the last entry left off to this one.
Moved(e, seg, outside) ==
    IF col.address = e.address THEN <<>>
    ELSE Ops(outside, "SET_SEGMENT_AND_OFFSET_ULEB", seg.index, e.address - seg.start)
         \o Ops(~outside, "ADD_ADDR_ULEB", (e.address - col.address) % LdWord, 0)

Translate ==
    /\ phase = "translate" /\ kind # "lazy" /\ n < Len(info)
    /\ LET e == info[n + 1]
           named == Ordinals(e) \o Ops(col.sym # e.sym, "SET_SYMBOL_TRAILING_FLAGS_IMM", e.flags, e.sym)
           outside == e.address < cur.start \/ e.address >= cur.end
           seg == IF col.address # e.address /\ outside THEN findSegment(layout, e.address) ELSE cur
       IN  IF kind = "weak" /\ e.type = Override
           THEN mid' = mid \o named /\ col' = [col EXCEPT !.sym = e.sym] /\ UNCHANGED cur
           ELSE /\ (col.address # e.address /\ outside) => Covered(layout, e.address)
                /\ mid' = mid \o named
                              \o Ops(col.type # e.type, "SET_TYPE_IMM", e.type, 0)
                              \o Moved(e, seg, outside)
                              \o Ops(col.addend # e.addend, "SET_ADDEND_SLEB", e.addend, 0)
                              \o <<Op("DO_BIND", 0, 0)>>
                /\ cur' = seg
                /\ col' = [ordinal |-> e.ordinal, sym |-> e.sym, type |-> e.type,
                           address |-> (e.address + PtrSize) % LdWord, addend |-> e.addend]
    /\ n' = n + 1
    /\ UNCHANGED <<table, phase, src, dst, data, offsets, p, dyld>>

EndTranslate ==
    /\ phase = "translate" /\ kind # "lazy" /\ n = Len(info)
    /\ mid' = Append(mid, Done) /\ phase' = "pairs"
    /\ UNCHANGED <<table, n, cur, col, src, dst, data, offsets, p, dyld>>

(***************************************************************************)
(* The passes, as in RebaseInfo: [take, put] of one step of the loop.      *)
(***************************************************************************)

One == [take |-> 1, put |-> mid[src]]

\* Phase 1: a bind and the addition after it become one opcode.
Pairs ==
    IF mid[src].op = "DO_BIND" /\ mid[src + 1].op = "ADD_ADDR_ULEB"
    THEN [take |-> 2, put |-> Op("DO_BIND_ADD_ADDR_ULEB", mid[src + 1].a, 0)]
    ELSE One

IsSkip(o, delta) == o.op = "DO_BIND_ADD_ADDR_ULEB" /\ o.a = delta

RunLength(delta) == First({k \in 0..(Len(mid) - src) : ~IsSkip(mid[src + k], delta)})

\* Mistake: the count begins at nothing.
SkipsFew ==
    IF IsSkip(mid[src], mid[src].a) /\ IsSkip(mid[src + 1], mid[src].a)
    THEN LET k == RunLength(mid[src].a)
         IN  [take |-> k, put |-> Op("DO_BIND_ULEB_TIMES_SKIPPING_ULEB", k - 1, mid[src].a)]
    ELSE One

\* Phase 2: two or more of these with one delta become one opcode.
Skips ==
    IF IsSkip(mid[src], mid[src].a) /\ IsSkip(mid[src + 1], mid[src].a)
    THEN LET k == RunLength(mid[src].a)
         IN  [take |-> k, put |-> Op("DO_BIND_ULEB_TIMES_SKIPPING_ULEB", k, mid[src].a)]
    ELSE One

\* Mistake: an ordinal one too large goes into the byte of the opcode.
ImmediatesToo ==
    [take |-> 1,
     put |-> IF mid[src].op = "DO_BIND_ADD_ADDR_ULEB"
                /\ mid[src].a < (Imm - 1) * PtrSize /\ mid[src].a % PtrSize = 0
             THEN Op("DO_BIND_ADD_ADDR_IMM_SCALED", mid[src].a \div PtrSize, 0)
             ELSE IF mid[src].op = "SET_DYLIB_ORDINAL_ULEB" /\ mid[src].a <= Imm
             THEN [mid[src] EXCEPT !.op = "SET_DYLIB_ORDINAL_IMM"]
             ELSE mid[src]]

\* Phase 3: small operands go into the byte of the opcode; weak tables have no
\* ordinals.
Immediates ==
    [take |-> 1,
     put |-> IF mid[src].op = "DO_BIND_ADD_ADDR_ULEB"
                /\ mid[src].a < (Imm - 1) * PtrSize /\ mid[src].a % PtrSize = 0
             THEN Op("DO_BIND_ADD_ADDR_IMM_SCALED", mid[src].a \div PtrSize, 0)
             ELSE IF mid[src].op = "SET_DYLIB_ORDINAL_ULEB" /\ mid[src].a <= Imm - 1
             THEN [mid[src] EXCEPT !.op = "SET_DYLIB_ORDINAL_IMM"]
             ELSE mid[src]]

Passes == [pairs |-> "skips", skips |-> "immediates", immediates |-> "convert"]

Optimize ==
    /\ phase \in DOMAIN Passes /\ mid[src].op # "DONE"
    /\ LET r == CASE phase = "pairs" -> Pairs [] phase = "skips" -> Skips
                  [] phase = "immediates" -> Immediates
       IN  mid' = [mid EXCEPT ![dst] = r.put] /\ src' = src + r.take /\ dst' = dst + 1
    /\ UNCHANGED <<table, n, cur, col, phase, data, offsets, p, dyld>>

EndPass ==
    /\ phase \in DOMAIN Passes /\ mid[src].op = "DONE"
    /\ mid' = [mid EXCEPT ![dst].op = "DONE"]
    /\ phase' = Passes[phase] /\ src' = 1 /\ dst' = 1
    /\ UNCHANGED <<table, n, cur, col, data, offsets, p, dyld>>

(***************************************************************************)
(* The bytes.  Only the weak table ends with a DONE of its own.            *)
(***************************************************************************)

ImmediateOps == {"SET_DYLIB_ORDINAL_IMM", "SET_DYLIB_SPECIAL_IMM", "SET_SYMBOL_TRAILING_FLAGS_IMM",
                 "SET_TYPE_IMM", "SET_SEGMENT_AND_OFFSET_ULEB", "DO_BIND_ADD_ADDR_IMM_SCALED"}

\* A special ordinal is masked, the other operands are not.
Bytes(o) ==
    LET operand == IF o.op \notin ImmediateOps THEN 0
                   ELSE IF o.op = "SET_DYLIB_SPECIAL_IMM" THEN o.a % Imm ELSE o.a
        first == Byte(Codes[o.op], operand)
    IN  CASE o.op \in {"SET_SYMBOL_TRAILING_FLAGS_IMM", "SET_SEGMENT_AND_OFFSET_ULEB"} -> <<first, o.b>>
          [] o.op \in {"SET_DYLIB_ORDINAL_ULEB", "SET_ADDEND_SLEB", "ADD_ADDR_ULEB",
                       "DO_BIND_ADD_ADDR_ULEB"} -> <<first, o.a>>
          [] o.op = "DO_BIND_ULEB_TIMES_SKIPPING_ULEB" -> <<first, o.a, o.b>>
          [] OTHER -> <<first>>

Convert ==
    /\ phase = "convert"
    /\ LET last == First({k \in 1..Len(mid) : mid[k].op = "DONE"})
       IN  \E padding \in {<<>>, <<0>>} :
             data' = Joined([k \in 1..(last - 1) |-> Bytes(mid[k])])
                     \o (IF kind = "weak" THEN Bytes(Done) ELSE <<>>) \o padding
    /\ phase' = "dyld"
    /\ UNCHANGED <<table, linker, offsets, p, dyld>>

\* LazyBindingInfoAtom::encode: an entry has its opcodes to itself, and the stub
\* helper is told where they begin.
LazyEntry ==
    /\ phase = "translate" /\ kind = "lazy" /\ n < Len(info)
    /\ LET e == info[n + 1]
           seg == findSegment(layout, e.address)
           ops == <<Op("SET_SEGMENT_AND_OFFSET_ULEB", seg.index, e.address - seg.start),
                    IF e.ordinal <= 0 THEN Op("SET_DYLIB_SPECIAL_IMM", e.ordinal, 0)
                    ELSE IF e.ordinal <= Imm - 1 THEN Op("SET_DYLIB_ORDINAL_IMM", e.ordinal, 0)
                    ELSE Op("SET_DYLIB_ORDINAL_ULEB", e.ordinal, 0),
                    Op("SET_SYMBOL_TRAILING_FLAGS_IMM", e.flags, e.sym),
                    Op("DO_BIND", 0, 0), Done>>
       IN  /\ Covered(layout, e.address)
           /\ offsets' = Append(offsets, Len(data) + 1)
           /\ data' = data \o Joined([k \in 1..Len(ops) |-> Bytes(ops[k])])
    /\ n' = n + 1
    /\ UNCHANGED <<table, cur, col, mid, phase, src, dst, p, dyld>>

EndLazy ==
    /\ phase = "translate" /\ kind = "lazy" /\ n = Len(info)
    /\ \E padding \in {<<>>, <<0>>} : data' = data \o padding
    /\ phase' = "dyld"
    /\ UNCHANGED <<table, linker, offsets, p, dyld>>

(***************************************************************************)
(* dyld                                                                    *)
(***************************************************************************)

OpNamed(code) == CHOOSE op \in DOMAIN Codes : Codes[op] = code

Cells(op) ==
    CASE op = "DO_BIND_ULEB_TIMES_SKIPPING_ULEB" -> 2
      [] op \in {"SET_SYMBOL_TRAILING_FLAGS_IMM", "SET_SEGMENT_AND_OFFSET_ULEB", "SET_ADDEND_SLEB",
                 "SET_DYLIB_ORDINAL_ULEB", "ADD_ADDR_ULEB", "DO_BIND_ADD_ADDR_ULEB"} -> 1
      [] OTHER -> 0

Readable(at) == CodeOf(data[at]) <= 12 /\ at + Cells(OpNamed(CodeOf(data[at]))) <= Len(data)

\* The opcode at a cell.  A special ordinal is sign-extended.
OpAt(at) ==
    LET op == OpNamed(CodeOf(data[at]))
        imm == ImmediateOf(data[at])
    IN  IF op \in {"SET_SYMBOL_TRAILING_FLAGS_IMM", "SET_SEGMENT_AND_OFFSET_ULEB"}
        THEN Op(op, imm, data[at + 1])
        ELSE IF op = "SET_DYLIB_SPECIAL_IMM" THEN Op(op, IF imm = 0 THEN 0 ELSE imm - Imm, 0)
        ELSE CASE Cells(op) = 0 -> Op(op, imm, 0)
               [] Cells(op) = 1 -> Op(op, data[at + 1], 0)
               [] Cells(op) = 2 -> Op(op, data[at + 1], data[at + 2])

\* The lazy pointer of an entry is called for the first time.
FastLazy ==
    /\ phase = "dyld" /\ kind = "lazy" /\ p = 1 /\ dyld.fast = 0
    /\ \E k \in 1..Len(info) :
         /\ p' = offsets[k]
         /\ dyld' = [dyld EXCEPT !.fast = k, !.address = 0]
    /\ UNCHANGED <<table, linker, phase, data, offsets>>

\* One opcode.  eachLazyBind goes on after a DONE.
Bind ==
    /\ phase = "dyld" /\ p <= Len(data)
    /\ IF ~Readable(p) THEN phase' = "threw" /\ UNCHANGED <<p, dyld>>
       ELSE LET o == OpAt(p) s == Run1(kind, layout, dyld, o)
            IN  /\ dyld' = s
                /\ p' = p + 1 + Cells(o.op)
                /\ phase' = IF s.bad THEN "threw"
                            ELSE IF o.op = "DONE" /\ (kind # "lazy" \/ dyld.fast # 0) THEN "done"
                            ELSE phase
    /\ UNCHANGED <<table, linker, data, offsets>>

EndOfData ==
    /\ phase = "dyld" /\ p > Len(data) /\ phase' = "done"
    /\ UNCHANGED <<table, linker, data, offsets, p, dyld>>

Stopped == phase \in {"done", "threw"} /\ UNCHANGED vars

Next == Translate \/ EndTranslate \/ Optimize \/ EndPass \/ Convert \/ LazyEntry \/ EndLazy
        \/ FastLazy \/ Bind \/ EndOfData \/ Stopped

Spec == Init /\ [][Next]_vars

(***************************************************************************)
(* Properties                                                              *)
(***************************************************************************)

\* The variables have their types: the passes stay inside the array and never
\* write past what they have read.
TypeOK ==
    /\ n \in 0..Len(info) /\ col.address \in 0..(LdWord - 1)
    /\ phase \in DOMAIN Passes \cup {"translate", "convert", "dyld", "done", "threw"}
    /\ dst <= src /\ (phase # "translate" /\ kind # "lazy" => src <= Len(mid))
    /\ \A k \in 1..Len(mid) : mid[k].op \in DOMAIN Codes
    /\ Len(offsets) = (IF kind = "lazy" THEN n ELSE 0) /\ p \in 1..(Len(data) + 1)

\* The columns of loader.h: everything but the flags.
Tuple(e) == <<e.type, e.ordinal, e.sym, e.address, e.addend>>
Tuples(s) == [k \in 1..Len(s) |-> Tuple(s[k])]

\* An override binds nothing.
ToBind(s) ==
    LET chosen[k \in 0..Len(s)] ==
            IF k = 0 THEN <<>>
            ELSE IF s[k].type = Override THEN chosen[k - 1] ELSE Append(chosen[k - 1], s[k])
    IN  chosen[Len(s)]

\* At every step of encode, the opcodes that are written and the ones still to
\* be read bind exactly the pointers translated so far, each to its symbol,
\* library and addend: no pass, and no part of a pass, changes the meaning.
PassesKeepMeaning ==
    kind # "lazy" /\ phase \in DOMAIN Passes \cup {"translate", "convert"} =>
        LET m == Meaning(SubSeq(mid, 1, dst - 1) \o SubSeq(mid, src, Len(mid)))
        IN  ~m.bad /\ Tuples(m.bound) = Tuples(ToBind(SubSeq(info, 1, n)))

\* dyld binds the pointers of the table in order, never throws, and has bound
\* all of them when it stops; from the offset the stub helper was given it binds
\* that pointer only.
DyldBindsTable ==
    LET all == Tuples(ToBind(info))
        want == IF dyld.fast = 0 THEN all ELSE <<all[dyld.fast]>>
    IN  /\ phase # "threw" /\ Begins(Tuples(dyld.bound), want)
        /\ phase = "done" => Tuples(dyld.bound) = want

\* The weak table names every symbol once, in ascending order, as weakBind's
\* merge of the images needs it, and says of the ones that are overridden here
\* by a definition that is not weak that they are.
WeakNamesSorted ==
    kind = "weak" =>
        /\ \A i, j \in 1..Len(dyld.names) : i < j => dyld.names[i] < dyld.names[j]
        /\ \A k \in 1..Len(dyld.bound) :
             (dyld.bound[k].flags = NonWeakDefinition) <=> (dyld.bound[k].sym \in Overrides)

\* passes::dylibs decides for every symbol whether its import is weak, from the
\* references in the order of their addresses.
WeakImportState(sym) ==
    LET refs == InOrder({e \in {info[i] : i \in 1..Len(info)} : e.sym = sym},
                        LAMBDA e, f : e.address < f.address)
        weak(e) == e.flags = WeakImport
        state[k \in 1..Len(refs)] ==
            IF k = 1 \/ state[k - 1] = weak(refs[k]) THEN weak(refs[k]) ELSE MismatchIsWeak
    IN  state[Len(refs)]

\* dyld treats the import of a symbol as weak or not as -weak_reference_mismatches
\* says.
MismatchAsTreated ==
    kind = "bind" => \A k \in 1..Len(dyld.bound) :
        (dyld.bound[k].flags = WeakImport) <=> WeakImportState(dyld.bound[k].sym)
=============================================================================
