-------------------------- MODULE OutputFlushProofs --------------------------
(* Proofs about OutputFlush, for any size of a page and of the output, and *)
(* any order of the parts: its invariants, and that it implements          *)
(* PagedOutput.                                                            *)
EXTENDS OutputFlush, TLAPS

-----------------------------------------------------------------------------
(* Multiples of the page size                                              *)

\* An address where a page begins.
Aligned(x) == \E q \in Int : x = q * PageSize

LEMMA PageSizeType == PageSize \in Int /\ PageSize > 0
BY ToolsAssumption

\* Multiples of the page size can be added and subtracted.
LEMMA AlignedSum ==
    ASSUME NEW x \in Int, NEW y \in Int, Aligned(x), Aligned(y)
    PROVE  Aligned(x + y) /\ Aligned(x - y)
<1>1. PICK p \in Int : x = p * PageSize
    BY DEF Aligned
<1>2. PICK q \in Int : y = q * PageSize
    BY DEF Aligned
<1>3. x + y = (p + q) * PageSize /\ x - y = (p - q) * PageSize
    BY <1>1, <1>2, PageSizeType
<1>4. p + q \in Int /\ p - q \in Int
    OBVIOUS
<1> QED BY <1>3, <1>4 DEF Aligned

LEMMA AlignedZero == Aligned(0)
<1>1. 0 = 0 * PageSize
    BY PageSizeType
<1> QED BY <1>1 DEF Aligned

\* Two different ones are at least a page apart.
LEMMA AlignedApart ==
    ASSUME NEW x \in Int, NEW y \in Int, Aligned(x), Aligned(y), x < y
    PROVE  x + PageSize <= y
<1>1. PICK p \in Int : x = p * PageSize
    BY DEF Aligned
<1>2. PICK q \in Int : y = q * PageSize
    BY DEF Aligned
<1>3. p < q
    <2>1. CASE q <= p
        <3>1. (p - q) * PageSize >= 0
            BY <2>1, PageSizeType
        <3> QED BY <1>1, <1>2, <3>1, PageSizeType
    <2> QED BY <2>1
<1>4. (q - p - 1) * PageSize >= 0
    BY <1>3, PageSizeType
<1> QED BY <1>1, <1>2, <1>4, PageSizeType

\* The quotient and the remainder.
LEMMA Division ==
    ASSUME NEW v \in Int, NEW d \in Int, d > 0
    PROVE  /\ v \div d \in Int /\ v % d \in Int
           /\ v = (v \div d) * d + (v % d)
           /\ 0 <= v % d /\ v % d < d
OBVIOUS

\* Rounding down.
LEMMA FloorType ==
    ASSUME NEW v \in Int
    PROVE  /\ v - (v % PageSize) \in Int /\ Aligned(v - (v % PageSize))
           /\ v - (v % PageSize) <= v /\ v < v - (v % PageSize) + PageSize
<1>1. v - (v % PageSize) = (v \div PageSize) * PageSize
    BY Division, PageSizeType
<1> QED BY <1>1, Division, PageSizeType DEF Aligned

\* Rounding up.
LEMMA RndType ==
    ASSUME NEW v \in Int
    PROVE  rnd(v) \in Int /\ Aligned(rnd(v)) /\ v <= rnd(v) /\ rnd(v) < v + PageSize
<1> DEFINE w == v + PageSize - 1
<1>1. w \in Int
    BY PageSizeType
<1>2. rnd(v) = (w \div PageSize) * PageSize
    BY DEF rnd
<1> HIDE DEF w
<1>3. /\ w \div PageSize \in Int /\ w % PageSize \in Int
      /\ w = (w \div PageSize) * PageSize + (w % PageSize)
      /\ 0 <= w % PageSize /\ w % PageSize < PageSize
    BY <1>1, Division, PageSizeType
<1>4. w = rnd(v) + (w % PageSize)
    BY <1>2, <1>3
<1>5. rnd(v) \in Int /\ Aligned(rnd(v))
    <2>1. \A q \in Int : q * PageSize \in Int
        BY PageSizeType
    <2> QED BY <1>2, <1>3, <2>1, Zenon DEF Aligned
<1> QED BY <1>3, <1>4, <1>5, PageSizeType DEF w

\* Bytes of one page lie on the same side of a place where a page begins.
LEMMA SamePage ==
    ASSUME NEW b \in Int, NEW c \in Int, b \div PageSize = c \div PageSize,
           NEW x \in Int, Aligned(x)
    PROVE  x <= c <=> x <= b
<1> DEFINE start == (b \div PageSize) * PageSize
<1>1. /\ start \in Int /\ Aligned(start)
      /\ start <= b /\ b < start + PageSize
      /\ start <= c /\ c < start + PageSize
    BY Division, PageSizeType DEF Aligned
<1> HIDE DEF start
<1>2. CASE x <= start
    BY <1>1, <1>2, PageSizeType
<1>3. CASE start < x
    BY <1>1, <1>3, AlignedApart, PageSizeType
<1> QED BY <1>1, <1>2, <1>3
-----------------------------------------------------------------------------
(* trnc                                                                    *)

\* Sizes and differences of offsets fit into the signed integers of trnc.
Wide == tool.size < tool.word \div 2

LEMMA ToolType ==
    ASSUME tool \in Tools
    PROVE  /\ tool.size \in Int /\ tool.size > 0
           /\ tool.word \in Int /\ tool.word > 0
           /\ tool.inOrder \/ Wide
BY ToolsAssumption DEF Wide

\* trnc gives whole pages, no more than there is room for; it gives all of
\* them, and none for a difference that is negative, where sizes fit.
LEMMA TrncType ==
    ASSUME tool \in Tools, NEW v \in Int
    PROVE  /\ trnc(v) \in Int /\ trnc(v) >= 0 /\ Aligned(trnc(v))
           /\ v >= 0 => trnc(v) <= v
           /\ Wide /\ v >= 0 /\ v <= tool.size => v < trnc(v) + PageSize
           /\ Wide /\ v < 0 /\ v + PageSize > 0 => trnc(v) = 0
<1> DEFINE W == tool.word
           u == v % W
<1>w. W \in Int /\ W > 0 /\ PageSize \in Int /\ PageSize > 0
    BY ToolType, PageSizeType
<1>1. /\ u \in Int /\ 0 <= u /\ u < W
      /\ v >= 0 => u <= v
      /\ v >= 0 /\ v < W => u = v
      /\ v < 0 => v <= u - W
    <2> HIDE DEF W
    <2>1. /\ v \div W \in Int /\ u \in Int /\ 0 <= u /\ u < W
          /\ v = (v \div W) * W + u
        BY <1>w, Division
    <2> DEFINE q == v \div W
    <2> HIDE DEF q
    <2>2. q \in Int /\ v = q * W + u
        BY <2>1 DEF q
    <2> HIDE DEF u
    <2>3. CASE v >= 0
        <3>1. q >= 0
            <4>1. CASE q <= -1
                <5>1. (-1 - q) * W >= 0
                    BY <1>w, <2>2, <4>1
                <5>2. q * W <= -W
                    BY <1>w, <2>2, <5>1
                <5> QED BY <1>w, <2>1, <2>2, <2>3, <5>2
            <4> QED BY <2>2, <4>1
        <3>2. q * W >= 0 /\ (q >= 1 => q * W >= W)
            <4>1. q * W >= 0
                BY <1>w, <2>2, <3>1
            <4>2. q >= 1 => (q - 1) * W >= 0
                BY <1>w, <2>2
            <4> QED BY <1>w, <2>2, <4>1, <4>2
        <3>3. q = 0 => q * W = 0
            BY <1>w
        <3> QED BY <1>w, <2>1, <2>2, <2>3, <3>1, <3>2, <3>3
    <2>4. CASE v < 0
        <3>1. q <= -1
            <4>1. CASE q >= 0
                <5>1. q * W >= 0
                    BY <1>w, <2>2, <4>1
                <5> QED BY <1>w, <2>1, <2>2, <2>4, <5>1
            <4> QED BY <2>2, <4>1
        <3>2. (-1 - q) * W >= 0
            BY <1>w, <2>2, <3>1
        <3>3. q * W <= -W
            BY <1>w, <2>2, <3>2
        <3> QED BY <1>w, <2>1, <2>2, <2>4, <3>3
    <2> QED BY <2>1, <2>3, <2>4
<1>2. trnc(v) = IF u >= W \div 2 THEN 0 ELSE u - (u % PageSize)
    BY DEF trnc
<1>3. /\ W \div 2 \in Int /\ 2 * (W \div 2) <= W /\ W < 2 * (W \div 2) + 2
    BY <1>w
<1>4. /\ u - (u % PageSize) \in Int /\ Aligned(u - (u % PageSize))
      /\ u - (u % PageSize) <= u /\ u < u - (u % PageSize) + PageSize
      /\ u - (u % PageSize) >= 0 /\ (u < PageSize => u - (u % PageSize) = 0)
    <2> HIDE DEF u
    <2> DEFINE f == u - (u % PageSize)
    <2>1. /\ f \in Int /\ Aligned(f) /\ f <= u /\ u < f + PageSize
        BY <1>1, FloorType
    <2> HIDE DEF f
    <2>2. f >= 0
        <3>1. f < 0 => f + PageSize <= 0
            BY <2>1, AlignedApart, AlignedZero
        <3> QED BY <1>1, <1>w, <2>1, <3>1
    <2>3. u < PageSize => f = 0
        <3>1. f > 0 => PageSize <= f
            BY <2>1, AlignedApart, AlignedZero, PageSizeType
        <3> QED BY <1>1, <1>w, <2>1, <2>2, <3>1
    <2> QED BY <2>1, <2>2, <2>3 DEF f
<1> HIDE DEF W, u
<1>5. trnc(v) \in Int /\ trnc(v) >= 0 /\ Aligned(trnc(v)) /\ (v >= 0 => trnc(v) <= v)
    BY <1>1, <1>2, <1>4, AlignedZero
<1>6. ASSUME Wide, v >= 0, v <= tool.size PROVE v < trnc(v) + PageSize
    <2>0. tool.size \in Int /\ tool.size < W \div 2
        BY <1>6, ToolType DEF Wide, W
    <2>1. v < W /\ u < W \div 2
        BY <1>1, <1>3, <1>6, <1>w, <2>0
    <2>2. u = v /\ ~(u >= W \div 2)
        BY <1>1, <1>3, <1>6, <2>1
    <2>3. trnc(v) = u - (u % PageSize)
        BY <1>2, <2>2
    <2> QED BY <1>4, <2>2, <2>3
<1>7. ASSUME Wide, v < 0, v + PageSize > 0 PROVE trnc(v) = 0
    <2>1. u >= W \div 2 \/ u < PageSize
        BY <1>1, <1>3, <1>7, <1>w
    <2> QED BY <1>2, <1>4, <2>1
<1> QED BY <1>5, <1>6, <1>7
-----------------------------------------------------------------------------
(* The inductive invariant                                                 *)

Block == [offset : Int, size : Int, written_offset : Int, written_size : Int]

\* A byte of a block, and one that has been written.
In(x, b) == b.offset <= x /\ x < Ends(b)
InWritten(x, b) == b.written_offset <= x /\ x < b.written_offset + b.written_size

\* The pages of a block that are written begin with the first whole one, and
\* are all of them where sizes fit.
BlockOK(b) ==
    /\ b \in Block
    /\ 0 <= b.offset /\ 0 < b.size /\ Ends(b) <= tool.size
    /\ Aligned(b.written_offset)
    /\ b.offset <= b.written_offset /\ b.written_offset < b.offset + PageSize
    /\ Aligned(b.written_size) /\ 0 <= b.written_size
    /\ b.written_size > 0 => b.written_offset + b.written_size <= Ends(b)
    /\ Wide => Ends(b) < b.written_offset + b.written_size + PageSize

\* Two blocks do not overlap or touch.
Apart(b, c) == Ends(b) < c.offset \/ Ends(c) < b.offset

\* output_blocks has what was flushed, in blocks that would have been joined if
\* they touched, and the file has what they say was written.
OpenInv ==
    /\ \A b \in blocks : BlockOK(b)
    /\ \A b, c \in blocks : b = c \/ Apart(b, c)
    /\ tool.inOrder => \A b \in blocks : b.offset = 0
    /\ \A x \in Bytes : x \in flushed <=> \E b \in blocks : In(x, b)
    /\ \A x \in Bytes : file[x] = IF \E b \in blocks : InWritten(x, b) THEN 1 ELSE 0
    /\ freed = {x \in Bytes : file[x] = 1}

\* Whatever has failed, what is on disk was final and was written once.
FileInv ==
    /\ tool \in Tools /\ flushed \subseteq Bytes
    /\ file \in [Bytes -> {0, 1}]
    /\ \A x \in Bytes : file[x] = 1 => x \in flushed
    /\ freed \subseteq flushed
    /\ status \in {"open", "done", "failed"}

IInv == FileInv /\ (status = "open" => OpenInv)
-----------------------------------------------------------------------------
(* What a flush makes of the blocks                                        *)

\* The blocks in old and the area of s bytes at o become the block n, when the
\* pages in the len bytes at at are written.
Grows(old, n, at, len, o, s) ==
    /\ BlockOK(n)
    /\ at \in Int /\ len \in Int /\ len >= 0 /\ Aligned(at) /\ Aligned(len)
    /\ \A x \in Int : In(x, n) <=> (o <= x /\ x < o + s) \/ \E b \in old : In(x, b)
    /\ \A x \in Int : InWritten(x, n) <=>
           (at <= x /\ x < at + len) \/ \E b \in old : InWritten(x, b)
    /\ \A x \in Int : at <= x /\ x < at + len => In(x, n) /\ \A b \in old : ~InWritten(x, b)
    /\ \A c \in blocks \ old : Apart(n, c)
    /\ tool.inOrder => n.offset = 0

\* An area of the output that has not been flushed.
NewArea(o, s) ==
    /\ o \in Int /\ s \in Int /\ 0 <= o /\ 0 < s /\ o + s <= tool.size
    /\ Range(o, s) \cap flushed = {}

\* Every block ends before a new area or begins after it.
LEMMA AreaBetween ==
    ASSUME FileInv, OpenInv, NEW o, NEW s, NewArea(o, s), NEW c \in blocks
    PROVE  Ends(c) <= o \/ o + s <= c.offset
<1> SUFFICES ASSUME o < Ends(c), c.offset < o + s
             PROVE  FALSE
    BY DEF NewArea, OpenInv, BlockOK, Block, Ends
<1>1. /\ c \in Block /\ 0 <= c.offset /\ 0 < c.size /\ Ends(c) <= tool.size
    BY DEF OpenInv, BlockOK
<1>2. c.offset \in Int /\ c.size \in Int /\ Ends(c) \in Int /\ tool.size \in Int
    BY <1>1, ToolType DEF Block, Ends, FileInv
<1> DEFINE x == IF o <= c.offset THEN c.offset ELSE o
<1>3. /\ x \in Int /\ o <= x /\ x < o + s /\ c.offset <= x /\ x < Ends(c)
      /\ 0 <= x /\ x < tool.size
    BY <1>1, <1>2 DEF NewArea, Ends
<1> HIDE DEF x
<1>4. x \in Bytes /\ x \in Range(o, s) /\ In(x, c)
    BY <1>2, <1>3 DEF Bytes, Range, In, NewArea
<1> QED BY <1>4 DEF OpenInv, NewArea

\* The numbers of a block.
LEMMA BlockNumbers ==
    ASSUME NEW b, BlockOK(b)
    PROVE  /\ b.offset \in Int /\ b.size \in Int /\ Ends(b) \in Int
           /\ b.written_offset \in Int /\ b.written_size \in Int
           /\ 0 <= b.offset /\ b.offset < Ends(b) /\ Ends(b) <= tool.size
           /\ Aligned(b.written_offset) /\ Aligned(b.written_size)
           /\ b.offset <= b.written_offset /\ b.written_offset < b.offset + PageSize
           /\ 0 <= b.written_size
           /\ b.written_size > 0 => b.written_offset + b.written_size <= Ends(b)
           /\ Wide => Ends(b) < b.written_offset + b.written_size + PageSize
           /\ b.offset = 0 => b.written_offset = 0
<1>1. b.offset = 0 => b.written_offset = 0
    <2>1. 0 < b.written_offset => PageSize <= b.written_offset
        BY AlignedApart, AlignedZero, PageSizeType DEF BlockOK, Block
    <2> QED BY <2>1, PageSizeType DEF BlockOK, Block
<1> QED BY <1>1 DEF BlockOK, Block, Ends

\* What is written of it ends where a page does.
LEMMA WrittenEnd ==
    ASSUME NEW b, BlockOK(b)
    PROVE  /\ b.written_offset + b.written_size \in Int
           /\ Aligned(b.written_offset + b.written_size)
<1>1. \A x, y \in Int : Aligned(x) /\ Aligned(y) => x + y \in Int /\ Aligned(x + y)
    BY AlignedSum
<1>2. /\ b.written_offset \in Int /\ b.written_size \in Int
      /\ Aligned(b.written_offset) /\ Aligned(b.written_size)
    BY BlockNumbers
<1> QED BY <1>1, <1>2, Zenon

\* The area is a block of its own.
LEMMA AloneGrows ==
    ASSUME FileInv, OpenInv, NEW o, NEW s, NewArea(o, s),
           tool.inOrder => o = 0,
           \A c \in blocks : Ends(c) # o /\ c.offset # o + s
    PROVE  LET at == rnd(o)
               len == trnc(o + s - at)
           IN  Grows({}, [offset |-> o, size |-> s, written_offset |-> at, written_size |-> len],
                     at, len, o, s)
<1> DEFINE at == rnd(o)
           len == trnc(o + s - at)
           n == [offset |-> o, size |-> s, written_offset |-> at, written_size |-> len]
<1>o. o \in Int /\ s \in Int /\ 0 <= o /\ 0 < s /\ o + s <= tool.size
      /\ tool.size \in Int /\ PageSize \in Int /\ PageSize > 0
    BY ToolType, PageSizeType DEF NewArea, FileInv
<1>1. at \in Int /\ Aligned(at) /\ o <= at /\ at < o + PageSize
    BY <1>o, RndType
<1> HIDE DEF at
<1>2. o = 0 => at = 0
    <2>1. 0 < at => PageSize <= at
        BY <1>1, <1>o, AlignedApart, AlignedZero
    <2> QED BY <1>1, <1>o, <2>1
<1>3. o + s - at \in Int /\ o + s - at + PageSize > 0 /\ o + s - at <= tool.size
    BY <1>1, <1>o
<1>4. o + s - at < 0 => Wide
    BY <1>o, <1>1, <1>2, ToolType DEF FileInv
<1>5. /\ len \in Int /\ len >= 0 /\ Aligned(len)
      /\ o + s - at >= 0 => len <= o + s - at
      /\ Wide /\ o + s - at >= 0 => o + s - at < len + PageSize
      /\ o + s - at < 0 => len = 0
    BY <1>3, <1>4, TrncType DEF FileInv
<1> HIDE DEF len
<1>6. /\ n \in Block /\ n.offset = o /\ n.size = s /\ Ends(n) = o + s
      /\ n.written_offset = at /\ n.written_size = len
    BY <1>o, <1>1, <1>5 DEF Block, Ends
<1> HIDE DEF n
<1>7. BlockOK(n)
    BY <1>o, <1>1, <1>5, <1>6 DEF BlockOK
<1>8. \A c \in blocks : Apart(n, c)
    <2> SUFFICES ASSUME NEW c \in blocks PROVE Apart(n, c)
        OBVIOUS
    <2>1. Ends(c) <= o \/ o + s <= c.offset
        BY AreaBetween
    <2>2. c.offset \in Int /\ Ends(c) \in Int
        BY BlockNumbers DEF OpenInv
    <2> QED BY <1>o, <1>6, <2>1, <2>2 DEF Apart
<1>9. \A x \in Int : at <= x /\ x < at + len => In(x, n)
    BY <1>o, <1>1, <1>5, <1>6 DEF In
<1>10. /\ \A x \in Int : In(x, n) <=> (o <= x /\ x < o + s) \/ \E b \in {} : In(x, b)
       /\ \A x \in Int : InWritten(x, n) <=>
              (at <= x /\ x < at + len) \/ \E b \in {} : InWritten(x, b)
    BY <1>6 DEF In, InWritten
<1>11. Grows({}, n, at, len, o, s)
    BY <1>1, <1>5, <1>6, <1>7, <1>8, <1>9, <1>10 DEF Grows
<1> QED BY <1>11 DEF n, len, at

\* The area follows a block.
LEMMA FollowsGrows ==
    ASSUME FileInv, OpenInv, NEW o, NEW s, NewArea(o, s), NEW b \in blocks, Ends(b) = o,
           \A c \in blocks : c.offset # o + s
    PROVE  LET at == b.written_offset + b.written_size
               len == trnc(o + s - at)
           IN  Grows({b}, [b EXCEPT !.written_size = @ + len, !.size = @ + s], at, len, o, s)
<1> DEFINE bo == b.offset
           bs == b.size
           wo == b.written_offset
           ws == b.written_size
           at == wo + ws
           len == trnc(o + s - at)
           n == [b EXCEPT !.written_size = @ + len, !.size = @ + s]
<1>o. o \in Int /\ s \in Int /\ 0 <= o /\ 0 < s /\ o + s <= tool.size
      /\ tool.size \in Int /\ PageSize \in Int /\ PageSize > 0
    BY ToolType, PageSizeType DEF NewArea, FileInv
<1>ok. BlockOK(b)
    BY DEF OpenInv
<1>t. b \in Block /\ bo \in Int /\ bs \in Int /\ wo \in Int /\ ws \in Int
    BY <1>ok, BlockNumbers DEF BlockOK
<1>e. o = bo + bs
    BY DEF Ends
<1>b. /\ 0 <= bo /\ bo < o /\ bo <= wo /\ wo < bo + PageSize
      /\ 0 <= ws /\ (ws > 0 => wo + ws <= o)
      /\ Wide => o < wo + ws + PageSize
      /\ bo = 0 => wo = 0
    BY <1>ok, BlockNumbers
<1>a. Aligned(wo) /\ Aligned(ws)
    BY <1>ok, BlockNumbers
<1>w. \A x : /\ In(x, b) <=> bo <= x /\ x < o
             /\ InWritten(x, b) <=> wo <= x /\ x < wo + ws
    BY DEF In, InWritten
<1>i. tool.inOrder => bo = 0
    BY DEF OpenInv
<1>n. /\ n.offset = bo /\ n.size = bs + s
      /\ n.written_offset = wo /\ n.written_size = ws + len
    <2> HIDE DEF len
    <2> QED BY <1>t DEF Block
<1>c. \A c \in blocks \ {b} : o < c.offset \/ Ends(c) < bo
    BY DEF OpenInv, Apart
<1> HIDE DEF bo, bs, wo, ws
<1>1. at \in Int /\ Aligned(at)
    BY <1>t, <1>a, AlignedSum
<1>2. at = wo + ws
    OBVIOUS
<1> HIDE DEF at
<1>3. o + s - at \in Int /\ o + s - at + PageSize > 0 /\ o + s - at <= tool.size
    BY <1>1, <1>2, <1>t, <1>o, <1>b
<1>4. o + s - at < 0 => Wide /\ ws = 0
    BY <1>o, <1>1, <1>2, <1>t, <1>b, <1>i, ToolType DEF FileInv
<1>5. /\ len \in Int /\ len >= 0 /\ Aligned(len)
      /\ o + s - at >= 0 => len <= o + s - at
      /\ Wide /\ o + s - at >= 0 => o + s - at < len + PageSize
      /\ o + s - at < 0 => len = 0
    BY <1>3, <1>4, TrncType DEF FileInv
<1> HIDE DEF len
<1>m. n \in Block
    <2>1. b.written_size + len \in Int /\ b.size + s \in Int
        BY <1>o, <1>t, <1>5 DEF ws, bs
    <2> QED BY <1>t, <2>1 DEF Block
<1> HIDE DEF n
<1>6. Ends(n) = o + s
    BY <1>o, <1>t, <1>e, <1>n DEF Ends
<1>7. BlockOK(n)
    <2>1. Aligned(ws + len)
        BY <1>t, <1>a, <1>5, AlignedSum
    <2>2. 0 <= bo /\ 0 < bs + s /\ o + s <= tool.size
        BY <1>o, <1>t, <1>e, <1>b
    <2>3. 0 <= ws + len
        BY <1>t, <1>b, <1>5
    <2>4. ws + len > 0 => wo + (ws + len) <= o + s
        BY <1>o, <1>t, <1>b, <1>2, <1>3, <1>4, <1>5
    <2>5. Wide => o + s < wo + (ws + len) + PageSize
        BY <1>o, <1>t, <1>b, <1>2, <1>3, <1>4, <1>5
    <2> QED BY <1>a, <1>b, <1>m, <1>6, <1>n, <2>1, <2>2, <2>3, <2>4, <2>5 DEF BlockOK
<1>8. ASSUME NEW c \in blocks \ {b} PROVE Apart(n, c)
    <2>1. Ends(c) <= o \/ o + s <= c.offset
        BY AreaBetween
    <2>2. c.offset \in Int /\ Ends(c) \in Int /\ c.offset < Ends(c)
        BY BlockNumbers DEF OpenInv
    <2>3. c.offset # o + s /\ (o < c.offset \/ Ends(c) < bo)
        BY <1>c
    <2> QED BY <1>o, <1>t, <1>6, <1>n, <2>1, <2>2, <2>3 DEF Apart
<1>9. \A x \in Int : at <= x /\ x < at + len => In(x, n) /\ ~InWritten(x, b)
    BY <1>o, <1>t, <1>b, <1>w, <1>1, <1>2, <1>3, <1>4, <1>5, <1>6, <1>n DEF In
<1>10. \A x \in Int : In(x, n) <=> (o <= x /\ x < o + s) \/ In(x, b)
    BY <1>o, <1>t, <1>b, <1>w, <1>6, <1>n DEF In
<1>11. \A x \in Int : InWritten(x, n) <=> (at <= x /\ x < at + len) \/ InWritten(x, b)
    BY <1>t, <1>b, <1>w, <1>2, <1>5, <1>n DEF InWritten
<1>12. tool.inOrder => n.offset = 0
    BY <1>i, <1>n
<1>13. Grows({b}, n, at, len, o, s)
    BY <1>1, <1>5, <1>7, <1>8, <1>9, <1>10, <1>11, <1>12 DEF Grows
<1> QED BY <1>13 DEF n, len, at, wo, ws

\* What is left to write of a block up to the pages that are written already.
LEMMA UpToBlock ==
    ASSUME FileInv, Wide, NEW a, BlockOK(a), NEW at \in Int, Aligned(at), 0 <= at,
           at < a.offset + PageSize
    PROVE  LET to == IF a.written_size = 0 THEN Ends(a) ELSE a.written_offset
               len == trnc(to - at)
           IN  /\ len \in Int /\ len >= 0 /\ Aligned(len)
               /\ a.written_size # 0 => at + len = a.written_offset
               /\ a.written_size = 0 => Ends(a) < at + len + PageSize
               /\ a.written_size = 0 /\ len > 0 => at + len <= Ends(a)
<1> DEFINE to == IF a.written_size = 0 THEN Ends(a) ELSE a.written_offset
           len == trnc(to - at)
<1>a. /\ a.offset \in Int /\ a.size \in Int /\ Ends(a) \in Int
      /\ a.written_offset \in Int /\ a.written_size \in Int
      /\ 0 <= a.offset /\ a.offset < Ends(a) /\ Ends(a) <= tool.size
      /\ Aligned(a.written_offset)
      /\ a.offset <= a.written_offset
      /\ 0 <= a.written_size
      /\ a.written_size > 0 => a.written_offset + a.written_size <= Ends(a)
      /\ PageSize \in Int /\ PageSize > 0 /\ tool.size \in Int
    BY BlockNumbers, PageSizeType, ToolType DEF FileInv
<1>1. to \in Int /\ a.offset <= to /\ to <= tool.size
    BY <1>a
<1>2. a.written_size # 0 => to = a.written_offset /\ at <= to
    <2>1. a.written_offset < at => a.written_offset + PageSize <= at
        BY <1>a, AlignedApart
    <2> QED BY <1>a, <2>1
<1>3. a.written_size = 0 => to = Ends(a)
    OBVIOUS
<1> HIDE DEF to
<1>4. to - at \in Int /\ to - at <= tool.size /\ to - at + PageSize > 0
    BY <1>a, <1>1
<1>5. /\ len \in Int /\ len >= 0 /\ Aligned(len)
      /\ to - at >= 0 => len <= to - at /\ to - at < len + PageSize
      /\ to - at < 0 => len = 0
    BY <1>4, TrncType DEF FileInv
<1> HIDE DEF len
<1>6. a.written_size # 0 => at + len = a.written_offset
    <2> SUFFICES ASSUME a.written_size # 0 PROVE at + len = a.written_offset
        OBVIOUS
    <2>1. at + len \in Int /\ Aligned(at + len)
        BY <1>5, AlignedSum
    <2>2. at + len <= a.written_offset /\ a.written_offset < at + len + PageSize
        BY <1>2, <1>4, <1>5, <1>a
    <2>3. at + len < a.written_offset => at + len + PageSize <= a.written_offset
        BY <1>a, <2>1, AlignedApart
    <2> QED BY <1>a, <1>5, <2>2, <2>3
<1>7. a.written_size = 0 => /\ Ends(a) < at + len + PageSize
                            /\ len > 0 => at + len <= Ends(a)
    BY <1>3, <1>4, <1>5, <1>a
<1> QED BY <1>5, <1>6, <1>7 DEF len, to

\* The area comes just before a block.  Not in a tool that flushes in order.
LEMMA PrecedesGrows ==
    ASSUME FileInv, OpenInv, NEW o, NEW s, NewArea(o, s), NEW a \in blocks, o + s = a.offset,
           \A c \in blocks : Ends(c) # o
    PROVE  LET at == rnd(o)
               len == trnc((IF a.written_size = 0 THEN Ends(a) ELSE a.written_offset) - at)
           IN  Grows({a}, [offset |-> o, size |-> a.size + s, written_offset |-> at,
                           written_size |-> a.written_size + len], at, len, o, s)
<1> DEFINE sa == a.size
           wo == a.written_offset
           ws == a.written_size
           E == Ends(a)
           at == rnd(o)
           len == trnc((IF ws = 0 THEN E ELSE wo) - at)
           n == [offset |-> o, size |-> sa + s, written_offset |-> at, written_size |-> ws + len]
<1>o. o \in Int /\ s \in Int /\ 0 <= o /\ 0 < s /\ o + s <= tool.size
      /\ tool.size \in Int /\ PageSize \in Int /\ PageSize > 0
    BY ToolType, PageSizeType DEF NewArea, FileInv
<1>ok. BlockOK(a)
    BY DEF OpenInv
<1>t. sa \in Int /\ wo \in Int /\ ws \in Int /\ E \in Int
    BY <1>ok, BlockNumbers
<1>b. /\ o + s < E /\ E <= tool.size /\ o + s <= wo
      /\ 0 <= ws /\ (ws > 0 => wo + ws <= E)
      /\ Wide => E < wo + ws + PageSize
    BY <1>ok, BlockNumbers
<1>e. E = o + s + sa
    BY DEF Ends
<1>a. Aligned(wo) /\ Aligned(ws)
    BY <1>ok, BlockNumbers
<1>i. ~tool.inOrder /\ Wide
    <2>1. ~tool.inOrder
        BY <1>o DEF OpenInv
    <2> QED BY <2>1, ToolType DEF FileInv
<1>w. \A x : /\ In(x, a) <=> o + s <= x /\ x < E
             /\ InWritten(x, a) <=> wo <= x /\ x < wo + ws
    BY DEF In, InWritten
<1>c. \A c \in blocks \ {a} : E < c.offset \/ Ends(c) < o + s
    BY DEF OpenInv, Apart
<1>1. at \in Int /\ Aligned(at) /\ o <= at /\ at < o + PageSize
    BY <1>o, RndType
<1>2. 0 <= at /\ at < a.offset + PageSize
    BY <1>o, <1>1
<1>3. /\ len \in Int /\ len >= 0 /\ Aligned(len)
      /\ ws # 0 => at + len = wo
      /\ ws = 0 => E < at + len + PageSize
      /\ ws = 0 /\ len > 0 => at + len <= E
    BY <1>i, <1>ok, <1>1, <1>2, UpToBlock
<1> HIDE DEF sa, wo, ws, E, at, len
<1>4. /\ n \in Block /\ n.offset = o /\ n.size = sa + s
      /\ n.written_offset = at /\ n.written_size = ws + len
    BY <1>o, <1>t, <1>1, <1>3 DEF Block
<1> HIDE DEF n
<1>5. Ends(n) = E
    BY <1>o, <1>t, <1>e, <1>4 DEF Ends
<1>6. BlockOK(n)
    <2>1. Aligned(ws + len)
        BY <1>t, <1>a, <1>3, AlignedSum
    <2>2. 0 < sa + s /\ 0 <= ws + len
        BY <1>o, <1>t, <1>e, <1>b, <1>3
    <2>3. ws + len > 0 => at + (ws + len) <= E
        BY <1>t, <1>b, <1>1, <1>3
    <2>4. E < at + (ws + len) + PageSize
        BY <1>o, <1>t, <1>b, <1>i, <1>1, <1>3
    <2> QED BY <1>o, <1>b, <1>1, <1>4, <1>5, <2>1, <2>2, <2>3, <2>4 DEF BlockOK
<1>7. ASSUME NEW c \in blocks \ {a} PROVE Apart(n, c)
    <2>1. Ends(c) <= o \/ o + s <= c.offset
        BY AreaBetween
    <2>2. c.offset \in Int /\ Ends(c) \in Int /\ c.offset < Ends(c)
        BY BlockNumbers DEF OpenInv
    <2>3. Ends(c) # o /\ (E < c.offset \/ Ends(c) < o + s)
        BY <1>c
    <2> QED BY <1>o, <1>t, <1>4, <1>5, <2>1, <2>2, <2>3 DEF Apart
<1>8. \A x \in Int : at <= x /\ x < at + len => In(x, n) /\ ~InWritten(x, a)
    BY <1>o, <1>t, <1>b, <1>w, <1>1, <1>3, <1>4, <1>5 DEF In
<1>9. \A x \in Int : In(x, n) <=> (o <= x /\ x < o + s) \/ In(x, a)
    BY <1>o, <1>t, <1>b, <1>w, <1>4, <1>5 DEF In
<1>10. \A x \in Int : InWritten(x, n) <=> (at <= x /\ x < at + len) \/ InWritten(x, a)
    BY <1>t, <1>b, <1>w, <1>1, <1>3, <1>4 DEF InWritten
<1>11. Grows({a}, n, at, len, o, s)
    BY <1>i, <1>1, <1>3, <1>6, <1>7, <1>8, <1>9, <1>10 DEF Grows
<1> QED BY <1>11 DEF n, len, at, E, wo, ws, sa

\* The area fills the gap between two blocks.  What is written of the first of
\* them begins with it if it begins with the output.
LEMMA JoinsGrows ==
    ASSUME FileInv, OpenInv, NEW o, NEW s, NewArea(o, s),
           NEW b \in blocks, Ends(b) = o, NEW a \in blocks, o + s = a.offset
    PROVE  LET first == b.offset = 0 /\ b.written_size = 0
               at == IF first THEN 0 ELSE b.written_offset + b.written_size
               len == trnc((IF a.written_size = 0 THEN Ends(a) ELSE a.written_offset) - at)
           IN  Grows({a, b}, [b EXCEPT !.written_offset = IF first THEN 0 ELSE @,
                                       !.written_size = @ + len + a.written_size,
                                       !.size = @ + s + a.size], at, len, o, s)
<1> DEFINE bo == b.offset
           bs == b.size
           bwo == b.written_offset
           bws == b.written_size
           sa == a.size
           wo == a.written_offset
           ws == a.written_size
           E == Ends(a)
           first == bo = 0 /\ bws = 0
           at == IF first THEN 0 ELSE bwo + bws
           len == trnc((IF ws = 0 THEN E ELSE wo) - at)
           n == [b EXCEPT !.written_offset = IF first THEN 0 ELSE @,
                          !.written_size = @ + len + ws, !.size = @ + s + sa]
<1>o. o \in Int /\ s \in Int /\ 0 <= o /\ 0 < s /\ o + s <= tool.size
      /\ tool.size \in Int /\ PageSize \in Int /\ PageSize > 0
    BY ToolType, PageSizeType DEF NewArea, FileInv
<1>ok. BlockOK(a) /\ BlockOK(b)
    BY DEF OpenInv
<1>t. /\ b \in Block /\ bo \in Int /\ bs \in Int /\ bwo \in Int /\ bws \in Int
      /\ sa \in Int /\ wo \in Int /\ ws \in Int /\ E \in Int
    BY <1>ok, BlockNumbers DEF BlockOK
<1>b. /\ o + s < E /\ E <= tool.size /\ o + s <= wo
      /\ 0 <= ws /\ (ws > 0 => wo + ws <= E)
      /\ Wide => E < wo + ws + PageSize
    BY <1>ok, BlockNumbers
<1>f. /\ 0 <= bo /\ bo < o /\ bo <= bwo /\ bwo < bo + PageSize
      /\ 0 <= bws /\ (bws > 0 => bwo + bws <= o)
      /\ bo = 0 => bwo = 0
    BY <1>ok, BlockNumbers
<1>e. E = o + s + sa /\ o = bo + bs
    BY DEF Ends
<1>a. Aligned(ws) /\ Aligned(bwo) /\ Aligned(bws)
    BY <1>ok, BlockNumbers
<1>i. ~tool.inOrder /\ Wide
    <2>1. ~tool.inOrder
        BY <1>o DEF OpenInv
    <2> QED BY <2>1, ToolType DEF FileInv
<1>w. \A x : /\ In(x, a) <=> o + s <= x /\ x < E
             /\ In(x, b) <=> bo <= x /\ x < o
             /\ InWritten(x, a) <=> wo <= x /\ x < wo + ws
             /\ InWritten(x, b) <=> bwo <= x /\ x < bwo + bws
    BY DEF In, InWritten
<1>c. \A c \in blocks \ {a, b} : /\ E < c.offset \/ Ends(c) < o + s
                                 /\ o < c.offset \/ Ends(c) < bo
    BY DEF OpenInv, Apart
<1>1. at = bwo + bws /\ (IF first THEN 0 ELSE bwo) = bwo
    BY <1>t, <1>f
<1>2. /\ n.offset = bo /\ n.size = bs + s + sa
      /\ n.written_offset = (IF first THEN 0 ELSE bwo) /\ n.written_size = bws + len + ws
    <2> HIDE DEF len, at, ws, sa, first
    <2> QED BY <1>t DEF Block
<1> HIDE DEF bo, bwo, bws, at
<1>3. at \in Int /\ Aligned(at)
    BY <1>t, <1>a, <1>1, AlignedSum
<1>4. 0 <= at /\ at < a.offset + PageSize
    BY <1>o, <1>t, <1>f, <1>1
<1>5. /\ len \in Int /\ len >= 0 /\ Aligned(len)
      /\ ws # 0 => at + len = wo
      /\ ws = 0 => E < at + len + PageSize
      /\ ws = 0 /\ len > 0 => at + len <= E
    BY <1>i, <1>ok, <1>3, <1>4, UpToBlock
<1> HIDE DEF sa, wo, ws, E, len
<1>m. n \in Block
    <2>1. /\ b.written_size + len + ws \in Int /\ b.size + s + sa \in Int
          /\ (IF first THEN 0 ELSE b.written_offset) \in Int
        BY <1>o, <1>t, <1>5 DEF bws, bs, bwo
    <2> HIDE DEF first
    <2> QED BY <1>t, <2>1 DEF Block
<1> HIDE DEF n, bs, first
<1>n. /\ n.offset = bo /\ n.size = bs + s + sa
      /\ n.written_offset = bwo /\ n.written_size = bws + len + ws
    BY <1>1, <1>2
<1>6. Ends(n) = E
    BY <1>o, <1>t, <1>e, <1>n DEF Ends
<1>7. BlockOK(n)
    <2>1. Aligned(bws + len + ws)
        <3>1. Aligned(bws + len) /\ bws + len \in Int
            BY <1>t, <1>a, <1>5, AlignedSum
        <3> QED BY <1>t, <1>a, <3>1, AlignedSum
    <2>2. 0 < bs + s + sa /\ 0 <= bws + len + ws
        BY <1>o, <1>t, <1>e, <1>b, <1>f, <1>5
    <2>3. bws + len + ws > 0 => bwo + (bws + len + ws) <= E
        BY <1>o, <1>t, <1>b, <1>f, <1>1, <1>5
    <2>4. E < bwo + (bws + len + ws) + PageSize
        BY <1>o, <1>t, <1>b, <1>f, <1>i, <1>1, <1>5
    <2> QED BY <1>a, <1>b, <1>f, <1>m, <1>n, <1>6, <2>1, <2>2, <2>3, <2>4 DEF BlockOK
<1>8. ASSUME NEW c \in blocks \ {a, b} PROVE Apart(n, c)
    <2>1. Ends(c) <= o \/ o + s <= c.offset
        BY AreaBetween
    <2>2. c.offset \in Int /\ Ends(c) \in Int /\ c.offset < Ends(c)
        BY BlockNumbers DEF OpenInv
    <2>3. (E < c.offset \/ Ends(c) < o + s) /\ (o < c.offset \/ Ends(c) < bo)
        BY <1>c
    <2> QED BY <1>o, <1>t, <1>n, <1>6, <2>1, <2>2, <2>3 DEF Apart
<1>9. \A x \in Int : at <= x /\ x < at + len => In(x, n) /\ ~InWritten(x, a) /\ ~InWritten(x, b)
    BY <1>o, <1>t, <1>b, <1>f, <1>w, <1>1, <1>3, <1>5, <1>n, <1>6 DEF In
<1>10. \A x \in Int : In(x, n) <=> (o <= x /\ x < o + s) \/ In(x, a) \/ In(x, b)
    BY <1>o, <1>t, <1>b, <1>f, <1>w, <1>n, <1>6 DEF In
<1>11. \A x \in Int : InWritten(x, n) <=>
           (at <= x /\ x < at + len) \/ InWritten(x, a) \/ InWritten(x, b)
    BY <1>t, <1>b, <1>f, <1>w, <1>1, <1>5, <1>n DEF InWritten
<1>12. Grows({a, b}, n, at, len, o, s)
    BY <1>i, <1>3, <1>5, <1>7, <1>8, <1>9, <1>10, <1>11 DEF Grows
<1> QED BY <1>12 DEF n, len, at, first, E, wo, ws, sa, bwo, bws, bo
-----------------------------------------------------------------------------
(* A flush keeps the invariant                                             *)

\* The blocks next to a new area are the ones output_flush finds from its offset.
LEMMA Neighbours ==
    ASSUME FileInv, OpenInv, NEW o, NEW s, NewArea(o, s)
    PROVE  /\ ~Overlaps(o, s)
           /\ {b \in BlockBefore(o) : Ends(b) = o} = {b \in blocks : Ends(b) = o}
           /\ {a \in BlockAfter(o) : o + s = a.offset} = {a \in blocks : o + s = a.offset}
<1>o. o \in Int /\ s \in Int /\ 0 < s
    BY DEF NewArea
<1>1. ASSUME NEW c \in blocks
      PROVE  /\ c.offset \in Int /\ Ends(c) \in Int /\ c.offset < Ends(c)
             /\ Ends(c) <= o \/ o + s <= c.offset
    BY AreaBetween, BlockNumbers DEF OpenInv
<1>2. ~Overlaps(o, s)
    <2>1. ASSUME NEW b \in BlockBefore(o) PROVE ~(Ends(b) > o)
        <3>1. b \in blocks /\ b.offset <= o
            BY DEF BlockBefore
        <3> QED BY <1>o, <1>1, <3>1
    <2>2. ASSUME NEW a \in BlockAfter(o) PROVE ~(o + s > a.offset)
        <3>1. a \in blocks /\ o < a.offset
            BY DEF BlockAfter
        <3> QED BY <1>o, <1>1, <3>1
    <2> QED BY <2>1, <2>2 DEF Overlaps
<1>3. ASSUME NEW b \in blocks, Ends(b) = o PROVE b \in BlockBefore(o)
    <2>1. b.offset <= o
        BY <1>o, <1>1, <1>3
    <2>2. ASSUME NEW c \in blocks, c.offset <= o PROVE c.offset <= b.offset
        <3>1. b = c \/ o < c.offset \/ Ends(c) < b.offset
            BY <1>3 DEF OpenInv, Apart
        <3>2. b.offset \in Int /\ c.offset \in Int /\ Ends(c) \in Int /\ c.offset < Ends(c)
            BY <1>1
        <3> QED BY <1>o, <2>2, <3>1, <3>2
    <2> QED BY <2>1, <2>2 DEF BlockBefore
<1>4. ASSUME NEW a \in blocks, o + s = a.offset PROVE a \in BlockAfter(o)
    <2>1. o < a.offset
        BY <1>o, <1>4
    <2>2. ASSUME NEW c \in blocks, o < c.offset PROVE a.offset <= c.offset
        <3>1. /\ c.offset \in Int /\ Ends(c) \in Int /\ c.offset < Ends(c)
              /\ Ends(c) <= o \/ a.offset <= c.offset
            BY <1>1, <1>4
        <3> QED BY <1>o, <2>2, <3>1
    <2> QED BY <2>1, <2>2 DEF BlockAfter
<1> QED BY <1>2, <1>3, <1>4 DEF BlockBefore, BlockAfter

\* A flush writes the len bytes at at, which are final and not on disk, or fails.
Writes(at, len) ==
    /\ at \in Int /\ len \in Int /\ len >= 0 /\ Aligned(at) /\ Aligned(len)
    /\ \A x \in Int : at <= x /\ x < at + len => x \in Bytes /\ x \in flushed' /\ file[x] = 0
    /\ \/ status' = "failed" /\ file' = file
       \/ status' = "open" /\ file' = [x \in Bytes |-> IF at <= x /\ x < at + len THEN 1 ELSE file[x]]

\* vm_deallocate gives back what was written and no more, as it is whole pages.
LEMMA WriteEffect ==
    ASSUME FileInv, status = "open", NEW at \in Int, NEW len \in Int, len >= 0,
           Aligned(at), Aligned(len),
           \A x \in Int : at <= x /\ x < at + len => file[x] = 0,
           WritePages(at, len)
    PROVE  \/ status' = "failed" /\ file' = file /\ freed' = freed
           \/ /\ status' = "open"
              /\ file' = [x \in Bytes |-> IF at <= x /\ x < at + len THEN 1 ELSE file[x]]
              /\ freed' = freed \cup {x \in Bytes : at <= x /\ x < at + len}
<1>f. file \in [Bytes -> {0, 1}] /\ (\A x \in Bytes : x \in Int)
    BY ToolType DEF FileInv, Bytes
<1>1. CASE len = 0
    <2>1. file' = file /\ freed' = freed /\ status' = "open"
        BY <1>1 DEF WritePages
    <2>2. \A x \in Int : ~(at <= x /\ x < at + len)
        BY <1>1
    <2>3. file = [x \in Bytes |-> IF at <= x /\ x < at + len THEN 1 ELSE file[x]]
        BY <1>f, <2>2
    <2> QED BY <1>f, <2>1, <2>2, <2>3
<1>2. CASE len # 0 /\ ~(status' = "failed" /\ file' = file /\ freed' = freed)
    <2>1. /\ file' = [b \in Bytes |-> IF b \in Range(at, len) THEN file[b] + 1 ELSE file[b]]
          /\ freed' = freed \cup {b \in Bytes : \E c \in Range(at, len) :
                                                  b \div PageSize = c \div PageSize}
          /\ status' = "open"
        BY <1>2 DEF WritePages
    <2>2. \A x \in Int : x \in Range(at, len) <=> at <= x /\ x < at + len
        BY DEF Range
    <2>3. file' = [x \in Bytes |-> IF at <= x /\ x < at + len THEN 1 ELSE file[x]]
        <3>1. \A x \in Bytes : (IF x \in Range(at, len) THEN file[x] + 1 ELSE file[x])
                                 = IF at <= x /\ x < at + len THEN 1 ELSE file[x]
            BY <1>f, <2>2
        <3> QED BY <2>1, <3>1, Zenon
    <2>4. at + len \in Int /\ Aligned(at + len)
        BY AlignedSum
    <2>5. ASSUME NEW x \in Bytes
          PROVE  (\E c \in Range(at, len) : x \div PageSize = c \div PageSize)
                   <=> at <= x /\ x < at + len
        <3>1. x \in Int
            BY <1>f
        <3>2. ASSUME NEW c \in Range(at, len), x \div PageSize = c \div PageSize
              PROVE  at <= x /\ x < at + len
            <4>1. c \in Int /\ at <= c /\ c < at + len
                BY DEF Range
            <4>2. at <= c <=> at <= x
                BY <3>1, <3>2, <4>1, SamePage
            <4>3. at + len <= c <=> at + len <= x
                BY <2>4, <3>1, <3>2, <4>1, SamePage
            <4> QED BY <3>1, <4>1, <4>2, <4>3
        <3> QED BY <2>2, <3>1, <3>2
    <2> QED BY <2>1, <2>3, <2>5
<1> QED BY <1>1, <1>2

\* A byte of a block that is written is one of its bytes, and of the output.
LEMMA WrittenIn ==
    ASSUME NEW b, BlockOK(b), NEW x \in Int
    PROVE  /\ InWritten(x, b) => In(x, b)
           /\ tool \in Tools /\ In(x, b) => x \in Bytes
<1>1. InWritten(x, b) => In(x, b)
    BY BlockNumbers DEF In, InWritten
<1>2. tool \in Tools /\ In(x, b) => x \in Bytes
    BY BlockNumbers, ToolType DEF In, Bytes
<1> QED BY <1>1, <1>2

\* When the blocks change as Grows says, and the pages are written, the invariant
\* is kept.
LEMMA GrowsKeeps ==
    ASSUME FileInv, OpenInv, status = "open", NEW o, NEW s, NewArea(o, s),
           NEW old \in SUBSET blocks, NEW n, NEW at, NEW len,
           Grows(old, n, at, len, o, s),
           blocks' = (blocks \ old) \cup {n},
           flushed' = flushed \cup Range(o, s), tool' = tool,
           WritePages(at, len)
    PROVE  IInv' /\ Writes(at, len)
<1>t. /\ Bytes' = Bytes /\ (\A x \in Bytes : x \in Int) /\ (\A b : BlockOK(b) <=> BlockOK(b)')
      /\ \A x \in Int : x \in Bytes <=> 0 <= x /\ x < tool.size
    BY ToolType DEF FileInv, Bytes, BlockOK, Wide
<1>g. /\ at \in Int /\ len \in Int /\ len >= 0 /\ Aligned(at) /\ Aligned(len)
      /\ BlockOK(n)
    BY DEF Grows
<1>r. Range(o, s) \subseteq Bytes /\ \A x \in Bytes : x \in Range(o, s) <=> o <= x /\ x < o + s
    BY <1>t, ToolType DEF NewArea, Range, FileInv
<1>b. \A c \in blocks : BlockOK(c)
    BY DEF OpenInv
<1>1. \A x \in Bytes : x \in flushed' <=> \E b \in blocks' : In(x, b)
    <2>1. \A x \in Bytes : x \in flushed <=> \E b \in blocks : In(x, b)
        BY DEF OpenInv
    <2>2. \A x \in Bytes : In(x, n) <=> x \in Range(o, s) \/ \E b \in old : In(x, b)
        BY <1>t, <1>r DEF Grows
    <2> QED BY <2>1, <2>2
<1>2. ASSUME NEW x \in Int, at <= x, x < at + len
      PROVE  x \in Bytes /\ x \in flushed' /\ file[x] = 0
    <2>1. In(x, n) /\ \A b \in old : ~InWritten(x, b)
        BY <1>2 DEF Grows
    <2>2. x \in Bytes
        BY <1>g, <2>1, WrittenIn DEF FileInv
    <2>3. ASSUME NEW c \in blocks \ old, InWritten(x, c) PROVE FALSE
        <3>1. In(x, c) /\ Apart(n, c)
            BY <1>b, <2>3, WrittenIn DEF Grows
        <3>2. Ends(n) \in Int /\ Ends(c) \in Int /\ n.offset \in Int /\ c.offset \in Int
            BY <1>b, <1>g, BlockNumbers
        <3> QED BY <2>1, <3>1, <3>2 DEF In, Apart
    <2>4. file[x] = 0
        BY <2>1, <2>2, <2>3 DEF OpenInv
    <2> QED BY <1>1, <2>1, <2>2, <2>4
<1>3. \/ status' = "failed" /\ file' = file /\ freed' = freed
      \/ /\ status' = "open"
         /\ file' = [x \in Bytes |-> IF at <= x /\ x < at + len THEN 1 ELSE file[x]]
         /\ freed' = freed \cup {x \in Bytes : at <= x /\ x < at + len}
    BY <1>g, <1>2, WriteEffect
<1>4. Writes(at, len)
    BY <1>g, <1>2, <1>3 DEF Writes
<1>5. FileInv'
    <2>1. tool' \in Tools /\ flushed' \subseteq Bytes
        BY <1>r DEF FileInv
    <2>2. file' \in [Bytes -> {0, 1}] /\ (\A x \in Bytes : file'[x] = 1 => x \in flushed')
        BY <1>2, <1>3, <1>t DEF FileInv
    <2>3. freed' \subseteq flushed' /\ status' \in {"open", "done", "failed"}
        BY <1>2, <1>3, <1>t DEF FileInv
    <2> QED BY <1>t, <2>1, <2>2, <2>3 DEF FileInv
<1>6. ASSUME status' = "open" PROVE OpenInv'
    <2>1. \A b \in blocks' : BlockOK(b)'
        BY <1>b, <1>g, <1>t
    <2>2. \A b, c \in blocks' : b = c \/ Apart(b, c)
        <3>1. \A b, c \in blocks : b = c \/ Apart(b, c)
            BY DEF OpenInv
        <3>2. \A c \in blocks \ old : Apart(n, c)
            BY DEF Grows
        <3>3. \A c \in blocks \ old : Apart(c, n)
            BY <3>2 DEF Apart
        <3> QED BY <3>1, <3>2, <3>3
    <2>3. tool'.inOrder => \A b \in blocks' : b.offset = 0
        BY DEF OpenInv, Grows
    <2>4. /\ file' = [x \in Bytes |-> IF at <= x /\ x < at + len THEN 1 ELSE file[x]]
          /\ freed' = freed \cup {x \in Bytes : at <= x /\ x < at + len}
        BY <1>3, <1>6
    <2>5. \A x \in Bytes : file'[x] = IF \E b \in blocks' : InWritten(x, b) THEN 1 ELSE 0
        <3>1. \A x \in Bytes : file[x] = IF \E b \in blocks : InWritten(x, b) THEN 1 ELSE 0
            BY DEF OpenInv
        <3>2. \A x \in Bytes : InWritten(x, n) <=>
                  (at <= x /\ x < at + len) \/ \E b \in old : InWritten(x, b)
            BY <1>t DEF Grows
        <3>3. \A x \in Bytes : file'[x] = IF at <= x /\ x < at + len THEN 1 ELSE file[x]
            BY <2>4
        <3>4. ASSUME NEW x \in Bytes
              PROVE  (\E b \in blocks' : InWritten(x, b)) <=>
                        (at <= x /\ x < at + len) \/ \E b \in blocks : InWritten(x, b)
            BY <3>2
        <3> QED BY <3>1, <3>3, <3>4
    <2>6. freed' = {x \in Bytes : file'[x] = 1}
        <3>1. freed = {x \in Bytes : file[x] = 1}
            BY DEF OpenInv
        <3> QED BY <2>4, <3>1
    <2> QED BY <1>1, <1>t, <2>1, <2>2, <2>3, <2>5, <2>6 DEF OpenInv, Apart, In, InWritten, Ends
<1> QED BY <1>4, <1>5, <1>6 DEF IInv

\* Where the tool flushes in order, an area that follows no block is the first.
LEMMA FirstInOrder ==
    ASSUME FileInv, OpenInv, NEW o, NEW s, NewArea(o, s),
           tool.inOrder, flushed = 0..(o - 1), \A c \in blocks : Ends(c) # o
    PROVE  o = 0
<1> SUFFICES ASSUME o # 0 PROVE FALSE
    OBVIOUS
<1>1. o \in Int /\ s \in Int /\ 0 <= o /\ 0 < s /\ o + s <= tool.size /\ tool.size \in Int
    BY ToolType DEF NewArea, FileInv
<1>2. o - 1 \in flushed /\ o - 1 \in Bytes /\ o - 1 \in Int
    BY <1>1 DEF Bytes
<1>3. PICK c \in blocks : In(o - 1, c)
    BY <1>2 DEF OpenInv
<1>4. c.offset \in Int /\ Ends(c) \in Int /\ (Ends(c) <= o \/ o + s <= c.offset) /\ Ends(c) # o
    BY AreaBetween, BlockNumbers DEF OpenInv
<1> QED BY <1>1, <1>3, <1>4 DEF In

\* output_flush keeps the invariant, and writes whole pages.
LEMMA FlushStep ==
    ASSUME IInv, NEW o \in Bytes, NEW s \in 1..(tool.size - o), Flush(o, s)
    PROVE  IInv' /\ \E at, len : Writes(at, len)
<1>1. FileInv /\ OpenInv /\ status = "open"
    BY DEF IInv, Flush
<1>2. NewArea(o, s)
    BY <1>1, ToolType DEF NewArea, Flush, Bytes, FileInv
<1>3. /\ flushed' = flushed \cup Range(o, s) /\ tool' = tool
      /\ tool.inOrder => flushed = 0..(o - 1)
    BY DEF Flush
<1> DEFINE before == {b \in blocks : Ends(b) = o}
           after == {a \in blocks : o + s = a.offset}
<1>4. \/ \E b \in before, a \in after : Joins(o, s, b, a)
      \/ after = {} /\ \E b \in before : Follows(o, s, b)
      \/ before = {} /\ \E a \in after : Precedes(o, s, a)
      \/ before = {} /\ after = {} /\ StandsAlone(o, s)
    <2>1. /\ ~Overlaps(o, s)
          /\ {b \in BlockBefore(o) : Ends(b) = o} = before
          /\ {a \in BlockAfter(o) : o + s = a.offset} = after
        BY <1>1, <1>2, Neighbours
    <2> HIDE DEF before, after
    <2> QED BY <2>1 DEF Flush
<1>5. ASSUME NEW b \in before, NEW a \in after, Joins(o, s, b, a)
      PROVE  IInv' /\ \E at, len : Writes(at, len)
    <2> DEFINE first == b.offset = 0 /\ b.written_size = 0
               at == IF first THEN 0 ELSE b.written_offset + b.written_size
               len == trnc((IF a.written_size = 0 THEN Ends(a) ELSE a.written_offset) - at)
               n == [b EXCEPT !.written_offset = IF first THEN 0 ELSE @,
                              !.written_size = @ + len + a.written_size, !.size = @ + s + a.size]
    <2>1. Grows({a, b}, n, at, len, o, s)
        BY <1>1, <1>2, JoinsGrows
    <2>2. blocks' = (blocks \ {a, b}) \cup {n} /\ WritePages(at, len)
        BY <1>5 DEF Joins
    <2>3. {a, b} \in SUBSET blocks
        OBVIOUS
    <2> HIDE DEF n, len, at
    <2> QED BY <1>1, <1>2, <1>3, <2>1, <2>2, <2>3, GrowsKeeps
<1>6. ASSUME after = {}, NEW b \in before, Follows(o, s, b)
      PROVE  IInv' /\ \E at, len : Writes(at, len)
    <2> DEFINE at == b.written_offset + b.written_size
               len == trnc(o + s - at)
               n == [b EXCEPT !.written_size = @ + len, !.size = @ + s]
    <2>1. Grows({b}, n, at, len, o, s)
        BY <1>1, <1>2, <1>6, FollowsGrows
    <2>2. blocks' = (blocks \ {b}) \cup {n} /\ WritePages(at, len)
        BY <1>6 DEF Follows
    <2>3. {b} \in SUBSET blocks
        OBVIOUS
    <2> HIDE DEF n, len, at
    <2> QED BY <1>1, <1>2, <1>3, <2>1, <2>2, <2>3, GrowsKeeps
<1>7. ASSUME before = {}, NEW a \in after, Precedes(o, s, a)
      PROVE  IInv' /\ \E at, len : Writes(at, len)
    <2> DEFINE at == rnd(o)
               len == trnc((IF a.written_size = 0 THEN Ends(a) ELSE a.written_offset) - at)
               n == [offset |-> o, size |-> a.size + s, written_offset |-> at,
                     written_size |-> a.written_size + len]
    <2>1. Grows({a}, n, at, len, o, s)
        BY <1>1, <1>2, <1>7, PrecedesGrows
    <2>2. blocks' = (blocks \ {a}) \cup {n} /\ WritePages(at, len)
        BY <1>7 DEF Precedes
    <2>3. {a} \in SUBSET blocks
        OBVIOUS
    <2> HIDE DEF n, len, at
    <2> QED BY <1>1, <1>2, <1>3, <2>1, <2>2, <2>3, GrowsKeeps
<1>8. ASSUME before = {}, after = {}, StandsAlone(o, s)
      PROVE  IInv' /\ \E at, len : Writes(at, len)
    <2> DEFINE at == rnd(o)
               len == trnc(o + s - at)
               n == [offset |-> o, size |-> s, written_offset |-> at, written_size |-> len]
    <2>1. tool.inOrder => o = 0
        BY <1>1, <1>2, <1>3, <1>8, FirstInOrder
    <2>2. Grows({}, n, at, len, o, s)
        BY <1>1, <1>2, <1>8, <2>1, AloneGrows
    <2>3. blocks' = (blocks \ {}) \cup {n} /\ WritePages(at, len)
        BY <1>8 DEF StandsAlone
    <2> HIDE DEF n, len, at
    <2> QED BY <1>1, <1>2, <1>3, <2>2, <2>3, GrowsKeeps
<1> QED BY <1>4, <1>5, <1>6, <1>7, <1>8
-----------------------------------------------------------------------------
(* final_output_flush                                                      *)

\* When all of the output has been flushed, it is one block.
LEMMA OneBlock ==
    ASSUME FileInv, OpenInv, flushed = Bytes
    PROVE  \E b \in blocks : blocks = {b} /\ b.offset = 0 /\ b.size = tool.size
<1>t. tool.size \in Int /\ tool.size > 0
    BY ToolType DEF FileInv
<1>1. 0 \in Bytes
    BY <1>t DEF Bytes
<1>2. PICK b \in blocks : In(0, b)
    BY <1>1 DEF OpenInv
<1>3. /\ b.offset \in Int /\ b.size \in Int /\ Ends(b) \in Int /\ Ends(b) = b.offset + b.size
      /\ b.offset = 0 /\ 0 < Ends(b) /\ Ends(b) <= tool.size
    BY <1>2, BlockNumbers DEF OpenInv, In, Ends
<1>4. ASSUME NEW c \in blocks, c # b
      PROVE  /\ c.offset \in Int /\ Ends(c) \in Int
             /\ 0 <= c.offset /\ c.offset < Ends(c) /\ Ends(c) <= tool.size
             /\ Ends(b) < c.offset \/ Ends(c) < b.offset
    BY <1>4, BlockNumbers DEF OpenInv, Apart
<1>5. Ends(b) = tool.size
    <2> SUFFICES ASSUME Ends(b) < tool.size PROVE FALSE
        BY <1>3, <1>t
    <2>1. Ends(b) \in Bytes
        BY <1>3, <1>t DEF Bytes
    <2>2. PICK c \in blocks : In(Ends(b), c)
        BY <2>1 DEF OpenInv
    <2>3. c # b
        BY <1>3, <2>2 DEF In
    <2> QED BY <1>3, <1>4, <2>2, <2>3 DEF In
<1>6. \A c \in blocks : c = b
    BY <1>3, <1>4, <1>5, <1>t
<1> QED BY <1>3, <1>5, <1>6, <1>t

\* final_output_flush finds that block, and writes what is not on disk of it.
LEMMA FinalStep ==
    ASSUME IInv, FinalFlush
    PROVE  /\ IInv' /\ tool' = tool
           /\ \/ status' = "done" /\ file' = [x \in Bytes |-> 1]
              \/ status' = "failed"
<1>1. FileInv /\ OpenInv /\ status = "open" /\ flushed = Bytes
    BY DEF IInv, FinalFlush
<1>2. PICK b \in blocks : blocks = {b} /\ b.offset = 0 /\ b.size = tool.size
    BY <1>1, OneBlock
<1>t. tool.size \in Int /\ tool.size > 0 /\ \A x \in Bytes : x \in Int /\ 0 <= x /\ x < tool.size
    BY <1>1, ToolType DEF FileInv, Bytes
<1>3. /\ b.written_size \in Int /\ b.written_offset = 0 /\ 0 <= b.written_size
      /\ b.written_size > 0 => b.written_size <= tool.size
    <2>1. Ends(b) = tool.size
        BY <1>2, <1>t DEF Ends
    <2>2. BlockOK(b)
        BY <1>1 DEF OpenInv
    <2>3. /\ b.written_size \in Int /\ b.written_offset = 0 /\ 0 <= b.written_size
          /\ b.written_size > 0 => b.written_offset + b.written_size <= tool.size
        BY <1>2, <2>1, <2>2, BlockNumbers
    <2> QED BY <1>t, <2>3
<1>4. b = CHOOSE d \in blocks : \A c \in blocks : d.offset <= c.offset
    <2>1. \A c \in blocks : b.offset <= c.offset
        BY <1>2
    <2> QED BY <1>2, <2>1
<1> DEFINE w == FinalWrite(b)
<1>5. \/ /\ file' = [c \in Bytes |-> IF c \in Range(w.at, w.len) THEN file[c] + 1 ELSE file[c]]
         /\ freed' = Bytes
         /\ status' \in {"failed", "done"}
      \/ status' = "failed" /\ UNCHANGED <<file, freed>>
    <2> HIDE DEF w
    <2>1. w = FinalWrite(b)
        BY DEF w
    <2> QED BY <1>2, <1>3, <1>4, <2>1 DEF FinalFlush
<1>6. w.at = b.written_size /\ w.len = tool.size - b.written_size
    BY <1>2, <1>3, <1>t DEF FinalWrite
<1> HIDE DEF w
<1>7. UNCHANGED <<tool, blocks, flushed>>
    BY DEF FinalFlush
<1>8. \A x \in Bytes : file[x] = IF x < b.written_size THEN 1 ELSE 0
    BY <1>1, <1>2, <1>3, <1>t DEF OpenInv, InWritten
<1>9. \A x \in Bytes : x \in Range(w.at, w.len) <=> ~(x < b.written_size)
    BY <1>3, <1>6, <1>t DEF Range
<1>10. \A x \in Bytes : (IF x \in Range(w.at, w.len) THEN file[x] + 1 ELSE file[x]) = 1
    BY <1>8, <1>9
<1>11. CASE /\ file' = [c \in Bytes |-> IF c \in Range(w.at, w.len) THEN file[c] + 1 ELSE file[c]]
            /\ freed' = Bytes
            /\ status' \in {"failed", "done"}
    <2>1. file' = [x \in Bytes |-> 1]
        BY <1>10, <1>11, Zenon
    <2>2. FileInv' /\ status' # "open"
        BY <1>1, <1>7, <1>11, <2>1 DEF FileInv, Bytes
    <2> QED BY <1>7, <1>11, <2>1, <2>2 DEF IInv
<1>12. CASE status' = "failed" /\ UNCHANGED <<file, freed>>
    <2>1. FileInv' /\ status' # "open"
        BY <1>1, <1>7, <1>12 DEF FileInv, Bytes
    <2> QED BY <1>7, <1>12, <2>1 DEF IInv
<1> QED BY <1>5, <1>11, <1>12
-----------------------------------------------------------------------------
(* The theorems                                                            *)

LEMMA InitInv == Init => IInv
<1> SUFFICES ASSUME Init PROVE IInv
    OBVIOUS
<1>1. FileInv
    BY DEF Init, FileInv
<1>2. OpenInv
    BY DEF Init, OpenInv
<1> QED BY <1>1, <1>2 DEF IInv

LEMMA NextInv == IInv /\ [Next]_vars => IInv'
<1> SUFFICES ASSUME IInv, [Next]_vars PROVE IInv'
    OBVIOUS
<1>1. ASSUME NEW o \in Bytes, NEW s \in 1..(tool.size - o), Flush(o, s) PROVE IInv'
    BY <1>1, FlushStep
<1>2. CASE FinalFlush
    BY <1>2, FinalStep
<1>3. CASE UNCHANGED vars
    BY <1>3 DEF vars, IInv, FileInv, OpenInv, BlockOK, Wide, Bytes, Apart, In, InWritten, Ends
<1> QED BY <1>1, <1>2, <1>3 DEF Next, Stopped

LEMMA Invariant == Spec => []IInv
BY InitInv, NextInv, PTL DEF Spec

\* output_flush of ld_classic and of libtool, whatever the page, the size and the
\* order of the parts: nothing goes to disk before it is final or twice, and no
\* memory is given back that has still to be filled.
THEOREM WrittenOnce == Spec => []WrittenOnceAndFinal
<1>1. IInv => WrittenOnceAndFinal
    BY DEF IInv, FileInv, WrittenOnceAndFinal
<1> QED BY <1>1, Invariant, PTL

\* A page with all of its bytes flushed is on disk, as the comment on output_flush
\* says: the page lies in one block, between written_offset and written_size.
THEOREM FullPages == Spec => []FullPagesWritten
<1>1. IInv => FullPagesWritten
    <2> SUFFICES ASSUME IInv, status = "open", tool.size < tool.word \div 2, NEW x \in Bytes,
                        Range((x \div PageSize) * PageSize, PageSize) \subseteq flushed
                 PROVE  file[x] = 1
        BY DEF FullPagesWritten
    <2>1. FileInv /\ OpenInv /\ Wide
        BY DEF IInv, Wide
    <2> DEFINE p == (x \div PageSize) * PageSize
    <2>2. x \in Int /\ p \in Int /\ Aligned(p) /\ p <= x /\ x < p + PageSize /\ PageSize \in Int
        BY <2>1, Division, PageSizeType, ToolType DEF Bytes, Aligned, FileInv
    <2>3. Range(p, PageSize) \subseteq flushed
        OBVIOUS
    <2> HIDE DEF p
    <2>4. ASSUME NEW y \in Int, p <= y, y < p + PageSize
          PROVE  y \in Bytes /\ \E b \in blocks : In(y, b)
        <3>1. y \in flushed /\ flushed \subseteq Bytes
            BY <2>1, <2>2, <2>3, <2>4 DEF Range, FileInv
        <3> QED BY <2>1, <3>1 DEF OpenInv
    <2>5. PICK b \in blocks : In(p, b)
        BY <2>2, <2>4
    <2>6. BlockOK(b)
        BY <2>1 DEF OpenInv
    <2>b. /\ b.offset \in Int /\ Ends(b) \in Int
          /\ b.written_offset \in Int /\ b.written_size \in Int
          /\ b.written_offset < b.offset + PageSize
          /\ Ends(b) < b.written_offset + b.written_size + PageSize
        BY <2>1, <2>6, BlockNumbers
    <2>c. Aligned(b.written_offset) /\ Aligned(b.written_size)
        BY <2>6, BlockNumbers
    <2>7. p + PageSize <= Ends(b)
        <3> SUFFICES ASSUME Ends(b) < p + PageSize PROVE FALSE
            BY <2>2, <2>b
        <3>1. p <= Ends(b) /\ b.offset < Ends(b)
            BY <2>2, <2>5, <2>b DEF In
        <3>2. PICK c \in blocks : In(Ends(b), c)
            BY <2>4, <2>b, <3>1
        <3>3. c # b
            BY <2>b, <3>2 DEF In
        <3>4. Apart(b, c) /\ c.offset \in Int /\ Ends(c) \in Int
            BY <2>1, <3>3, BlockNumbers DEF OpenInv
        <3> QED BY <2>b, <3>1, <3>2, <3>4 DEF In, Apart
    <2>8. b.written_offset <= p
        <3>1. p < b.written_offset => p + PageSize <= b.written_offset
            <4>1. b.written_offset \in Int
                BY <2>b
            <4> QED BY <2>2, <2>c, <4>1, AlignedApart
        <3>2. b.offset <= p
            BY <2>5 DEF In
        <3> QED BY <2>2, <2>b, <3>1, <3>2
    <2>9. p + PageSize <= b.written_offset + b.written_size
        <3>1. /\ b.written_offset + b.written_size \in Int
              /\ Aligned(b.written_offset + b.written_size)
            BY <2>6, WrittenEnd
        <3>2. b.written_offset + b.written_size <= p =>
                  b.written_offset + b.written_size + PageSize <= Ends(b)
            BY <2>2, <2>7, <2>b
        <3>3. p < b.written_offset + b.written_size =>
                  p + PageSize <= b.written_offset + b.written_size
            BY <2>2, <3>1, AlignedApart
        <3> QED BY <2>2, <2>b, <3>1, <3>2, <3>3
    <2>10. InWritten(x, b)
        BY <2>2, <2>8, <2>9, <2>b DEF InWritten
    <2> QED BY <2>1, <2>10 DEF OpenInv
<1> QED BY <1>1, Invariant, PTL
-----------------------------------------------------------------------------
(* OutputFlush implements PagedOutput                                      *)

\* The bytes on disk, as PagedOutput sees them.
Disk == {b \in Bytes : file[b] > 0}

\* On disk there are whole pages while flushes go on.
LEMMA PagesWhole == FileInv /\ OpenInv => \A d \in Disk : Paged!PageOf(d) \subseteq Disk
<1> SUFFICES ASSUME FileInv, OpenInv, NEW b \in Disk
             PROVE  Paged!PageOf(b) \subseteq Disk
    OBVIOUS
<1>1. b \in Bytes /\ file[b] = 1 /\ (\A x \in Bytes : x \in Int) /\ file \in [Bytes -> {0, 1}]
    BY ToolType DEF Disk, FileInv, Bytes
<1>2. PICK c \in blocks : InWritten(b, c)
    BY <1>1 DEF OpenInv
<1>3. /\ c.written_offset \in Int /\ c.written_size \in Int
      /\ Aligned(c.written_offset)
    BY BlockNumbers DEF OpenInv
<1>4. /\ c.written_offset + c.written_size \in Int
      /\ Aligned(c.written_offset + c.written_size)
    BY WrittenEnd DEF OpenInv
<1>5. ASSUME NEW d \in Bytes, d \div PageSize = b \div PageSize PROVE d \in Disk
    <2>1. c.written_offset <= b <=> c.written_offset <= d
        BY <1>1, <1>3, <1>5, SamePage
    <2>2. c.written_offset + c.written_size <= b <=> c.written_offset + c.written_size <= d
        BY <1>1, <1>4, <1>5, SamePage
    <2>3. InWritten(d, c)
        BY <1>1, <1>2, <1>3, <2>1, <2>2 DEF InWritten
    <2>4. file[d] = 1
        BY <2>3 DEF OpenInv
    <2> QED BY <2>4 DEF Disk
<1> QED BY <1>5 DEF Paged!PageOf, Paged!Bytes, Bytes

\* A flush is a step of PagedOutput: the pages it writes are all final, and none
\* of them was on disk, or the tool fails.
LEMMA FlushImplements ==
    ASSUME IInv, NEW o \in Bytes, NEW s \in 1..(tool.size - o), Flush(o, s)
    PROVE  Paged!Next
<1>1. FileInv /\ OpenInv /\ status = "open" /\ IInv'
    BY FlushStep DEF IInv, Flush
<1>2. PICK at, len : Writes(at, len)
    BY FlushStep
<1>3. tool' = tool /\ Bytes' = Bytes /\ flushed' = flushed \cup Range(o, s)
    BY DEF Flush, Bytes
<1>t. /\ \A x \in Bytes : x \in Int
      /\ file \in [Bytes -> {0, 1}] /\ file' \in [Bytes -> {0, 1}]
      /\ flushed' \subseteq Bytes
      /\ \A x \in Bytes : file'[x] = 1 => x \in flushed'
    BY <1>1, <1>3, ToolType DEF FileInv, IInv, Bytes
<1>4. CASE status' = "failed"
    <2>1. Disk' \subseteq flushed'
        BY <1>t, <1>3 DEF Disk
    <2> QED BY <1>1, <1>3, <1>4, <1>t, <2>1 DEF Paged!Next, Paged!Fail, Paged!Bytes, Bytes, Disk
<1>5. CASE status' # "failed"
    <2>1. status' = "open" /\ file' = [x \in Bytes |-> IF at <= x /\ x < at + len THEN 1 ELSE file[x]]
        BY <1>2, <1>5 DEF Writes
    <2>2. OpenInv' /\ FileInv'
        BY <1>1, <2>1 DEF IInv
    <2>3. flushed' # flushed /\ flushed \subseteq flushed'
        <3>1. o \in Int /\ o \in Range(o, s) /\ o \notin flushed
            BY <1>t, ToolType, <1>1 DEF Range, Flush, FileInv
        <3> QED BY <1>3, <3>1
    <2>4. Disk \subseteq Disk'
        BY <1>3, <1>t, <2>1 DEF Disk
    <2>5. ASSUME NEW b \in Disk' PROVE Paged!PageOf(b) \subseteq Disk'
        <3>1. (\A d \in Disk : Paged!PageOf(d) \subseteq Disk)'
            BY <2>2, PagesWhole, PTL
        <3>2. Paged!PageOf(b)' = Paged!PageOf(b)
            BY <1>3 DEF Paged!PageOf, Paged!Bytes
        <3> QED BY <3>1, <3>2
    <2>6. ASSUME NEW b \in Disk' \ Disk
          PROVE  Paged!PageOf(b) \subseteq flushed' /\ Paged!PageOf(b) \cap Disk = {}
        <3>1. Disk' \subseteq flushed'
            BY <1>3, <1>t DEF Disk
        <3>2. ASSUME NEW d \in Paged!PageOf(b), d \in Disk PROVE FALSE
            <4>1. b \in Bytes /\ d \in Bytes /\ d \div PageSize = b \div PageSize
                BY <1>3 DEF Paged!PageOf, Paged!Bytes, Disk, Bytes
            <4>2. b \in Paged!PageOf(d)
                BY <4>1 DEF Paged!PageOf, Paged!Bytes, Bytes
            <4> QED BY <1>1, <3>2, <4>2, PagesWhole
        <3> QED BY <2>5, <3>1, <3>2
    <2> QED BY <1>1, <1>3, <1>t, <2>1, <2>3, <2>4, <2>5, <2>6
        DEF Paged!Next, Paged!Flush, Paged!Bytes, Bytes, Disk
<1> QED BY <1>4, <1>5

\* final_output_flush closes the output with all of it on disk, or fails.
LEMMA FinalImplements ==
    ASSUME IInv, FinalFlush
    PROVE  Paged!Next
<1>1. /\ FileInv /\ status = "open" /\ flushed = Bytes /\ flushed' = flushed
      /\ FileInv' /\ tool' = tool /\ Bytes' = Bytes
    BY FinalStep DEF IInv, FinalFlush, Bytes
<1>2. CASE status' = "done" /\ file' = [x \in Bytes |-> 1]
    <2>1. Disk' = Bytes
        BY <1>1, <1>2 DEF Disk
    <2> QED BY <1>1, <1>2, <2>1 DEF Paged!Next, Paged!Close, Paged!Bytes, Bytes, Disk
<1>3. CASE status' = "failed"
    <2>1. Disk' \subseteq flushed'
        BY <1>1 DEF Disk, FileInv
    <2> QED BY <1>1, <1>3, <2>1 DEF Paged!Next, Paged!Fail, Paged!Bytes, Bytes, Disk
<1> QED BY <1>2, <1>3, FinalStep

\* Both copies of output_flush implement PagedOutput.  As PagedOutput knows
\* neither of these ends, output_flush does not call abort for a part that was not
\* flushed before, and final_output_flush reports no internal error.
THEOREM Refinement == Spec => ImplementsPaged
<1>1. Init => Paged!Init
    <2> SUFFICES ASSUME Init PROVE Paged!Init
        OBVIOUS
    <2>1. tool.size \in Nat /\ \A b \in Bytes : ~(file[b] > 0)
        BY ToolsAssumption DEF Init
    <2> QED BY <2>1 DEF Init, Paged!Init
<1>2. IInv /\ [Next]_vars => [Paged!Next]_(Paged!vars)
    <2> SUFFICES ASSUME IInv, [Next]_vars PROVE [Paged!Next]_(Paged!vars)
        OBVIOUS
    <2>1. ASSUME NEW o \in Bytes, NEW s \in 1..(tool.size - o), Flush(o, s) PROVE Paged!Next
        BY <2>1, FlushImplements
    <2>2. CASE FinalFlush
        BY <2>2, FinalImplements
    <2>3. CASE UNCHANGED vars
        BY <2>3 DEF vars, Paged!vars, Bytes
    <2> QED BY <2>1, <2>2, <2>3 DEF Next, Stopped
<1> QED BY <1>1, <1>2, Invariant, PTL DEF Spec, ImplementsPaged, Paged!Spec
=============================================================================
