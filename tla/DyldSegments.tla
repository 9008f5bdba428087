---------------------------- MODULE DyldSegments ----------------------------
(* What ld's encoders of rebase and bind opcodes and dyld's decoders share: *)
(* the segments of the image, the byte of an opcode with its immediate, and *)
(* the width of the integers on either side.                                *)
(*                                                                          *)
(* A segment is [start, end, limit, writable]: its sections lie in          *)
(* start..end-1, and its load command rounds the size up to a page, to      *)
(* limit.  The last one is __LINKEDIT.                                      *)
EXTENDS Integers, Sequences, FiniteSets

CONSTANTS
    PtrSize,    \* sizeof(pint_t)
    Imm,        \* values of an immediate, 16 in the format
    LdWord,     \* 2^64, the modulus of uint64_t in ld
    DyldWord    \* 2^32 or 2^64, the modulus of uintptr_t in dyld

ASSUME WidthAssumption ==
    /\ PtrSize \in Nat \ {0} /\ Imm \in Nat \ 0..2
    /\ DyldWord \in Nat \ {0} /\ LdWord \in Nat \ {0} /\ LdWord % DyldWord = 0

Segment == [start : Nat, end : Nat, limit : Nat, writable : BOOLEAN]

WellFormed(layout) ==
    /\ layout \in Seq(Segment) /\ layout # <<>>
    /\ \A k \in 1..Len(layout) :
         /\ layout[k].start < layout[k].end /\ layout[k].end <= layout[k].limit
         /\ \A j \in 1..(k - 1) : layout[j].limit <= layout[k].start
         /\ layout[k].limit < DyldWord

\* What the encoders need of the community modules (Min, FlattenSeq, IsPrefix): the
\* least of a set of places, one list after the other, and how a list begins.
First(S) == CHOOSE k \in S : \A j \in S : k <= j
Joined(ss) ==
    LET upTo[k \in 0..Len(ss)] == IF k = 0 THEN <<>> ELSE upTo[k - 1] \o ss[k]
    IN  upTo[Len(ss)]
Begins(s, t) == Len(s) <= Len(t) /\ s = SubSeq(t, 1, Len(s))

\* std::sort: the k-th of a set has k - 1 of its members before it.
InOrder(S, before(_, _)) ==
    [k \in 1..Cardinality(S) |-> CHOOSE e \in S : Cardinality({f \in S : before(f, e)}) = k - 1]

NoSegment == [start |-> 0, end |-> 0, index |-> 0]

\* The addresses findSegment knows.  A segment is tried when the next one is
\* met, so that the last one never is.
Covered(layout, a) ==
    \E k \in 1..(Len(layout) - 1) : layout[k].start <= a /\ a < layout[k].end

findSegment(layout, a) ==
    LET k == CHOOSE k \in 1..(Len(layout) - 1) : layout[k].start <= a /\ a < layout[k].end
    IN  [start |-> layout[k].start, end |-> layout[k].end, index |-> k - 1]

\* The bitwise or of two numbers, as far as the four bits of an opcode go.
Or(x, y) ==
    LET bit(w) == IF (x \div w) % 2 = 1 \/ (y \div w) % 2 = 1 THEN w ELSE 0
    IN  bit(1) + bit(2) + bit(4) + bit(8)

\* append_byte(opcode | operand): a byte has room for 16 opcodes.
Byte(code, operand) == Or(code, operand \div Imm) * Imm + (operand % Imm)

CodeOf(byte) == byte \div Imm
ImmediateOf(byte) == byte % Imm

\* read_uleb128 gives a uintptr_t, whatever append_uleb128 was given.
ReadUleb(value) == value % DyldWord

segActualLoadAddress(layout, index) == layout[index + 1].start
segActualEndAddress(layout, index) == layout[index + 1].limit
=============================================================================
