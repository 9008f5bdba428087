---------------------------- MODULE OutputFlush ----------------------------
(* output_flush and final_output_flush, which ld_classic (cctools/ld/       *)
(* pass2.c) and libtool (cctools/misc/libtool.c) have in two copies: as     *)
(* parts of the output are completed in memory, the pages that are complete *)
(* are written and their memory is given back.                              *)
(*                                                                          *)
(* ld_classic completes the parts in any order.  libtool goes through the   *)
(* library from its start, and its trnc takes 32 bits of a 64 bit size.     *)
(* output_blocks is a list in the order of the offsets; here it is a set.   *)
EXTENDS Integers

CONSTANTS
    PageSize,       \* host_pagesize
    Tools           \* records [inOrder, size, word] of the tools considered

ASSUME ToolsAssumption ==
    /\ PageSize \in Nat \ {0}
    /\ \A t \in Tools :
        /\ t.inOrder \in BOOLEAN    \* does the tool flush from the start on?
        /\ t.size \in Nat \ {0}     \* output_size or library_size
        /\ t.word \in Nat \ {0}     \* the modulus of the integers of trnc
        /\ t.inOrder \/ t.size < t.word \div 2

VARIABLES
    tool,       \* the tool at work
    blocks,     \* output_blocks: [offset, size, written_offset, written_size]
    flushed,    \* the bytes that have been flushed
    file,       \* [bytes -> how often they were written to the file]
    freed,      \* the bytes of the buffer that are deallocated
    status      \* "open", "done", "failed" (a write), or an internal error

vars == <<tool, blocks, flushed, file, freed, status>>

Bytes == 0..(tool.size - 1)
Range(offset, size) == offset..(offset + size - 1)

Init ==
    /\ tool \in Tools
    /\ blocks = {} /\ flushed = {} /\ freed = {} /\ status = "open"
    /\ file = [b \in Bytes |-> 0]

rnd(v) == ((v + PageSize - 1) \div PageSize) * PageSize

\* Mistake: a difference that is negative is not zero.
trncUnsigned(v) == LET u == v % tool.word IN u - (u % PageSize)

\* The difference is taken modulo the word, and one that is negative as a
\* signed number counts as zero.
trnc(v) == LET u == v % tool.word IN IF u >= tool.word \div 2 THEN 0 ELSE u - (u % PageSize)

\* The block before and the block after an offset, if there is one.
BlockBefore(o) ==
    {b \in blocks : b.offset <= o /\ \A c \in blocks : c.offset <= o => c.offset <= b.offset}
BlockAfter(o) ==
    {b \in blocks : o < b.offset /\ \A c \in blocks : o < c.offset => b.offset <= c.offset}
Ends(b) == b.offset + b.size

Overlaps(o, s) == \/ \E b \in BlockBefore(o) : Ends(b) > o
                  \/ \E a \in BlockAfter(o) : o + s > a.offset

\* write and vm_deallocate, which gives back every page it touches.
WritePages(at, len) ==
    IF len = 0 THEN UNCHANGED <<file, freed, status>>
    ELSE \/ /\ file' = [b \in Bytes |-> IF b \in Range(at, len) THEN file[b] + 1 ELSE file[b]]
            /\ freed' = freed \cup {b \in Bytes : \E c \in Range(at, len) :
                                                    b \div PageSize = c \div PageSize}
            /\ UNCHANGED status
         \/ status' = "failed" /\ UNCHANGED <<file, freed>>

\* Mistake: what is written of the block after the area is forgotten.
JoinsForgetting(o, s, b, a) ==
    LET first == b.offset = 0 /\ b.written_size = 0
        at == IF first THEN 0 ELSE b.written_offset + b.written_size
        len == trnc((IF a.written_size = 0 THEN Ends(a) ELSE a.written_offset) - at)
    IN  /\ blocks' = (blocks \ {a, b}) \cup
              {[b EXCEPT !.written_offset = IF first THEN 0 ELSE @,
                         !.written_size = @ + len, !.size = @ + s + a.size]}
        /\ WritePages(at, len)

\* The area fills the gap between two blocks, which become one.
Joins(o, s, b, a) ==
    LET first == b.offset = 0 /\ b.written_size = 0
        at == IF first THEN 0 ELSE b.written_offset + b.written_size
        len == trnc((IF a.written_size = 0 THEN Ends(a) ELSE a.written_offset) - at)
    IN  /\ blocks' = (blocks \ {a, b}) \cup
              {[b EXCEPT !.written_offset = IF first THEN 0 ELSE @,
                         !.written_size = @ + len + a.written_size, !.size = @ + s + a.size]}
        /\ WritePages(at, len)

\* The area follows a block, which grows.
Follows(o, s, b) ==
    LET at == b.written_offset + b.written_size
        len == trnc(o + s - at)
    IN  /\ blocks' = (blocks \ {b}) \cup {[b EXCEPT !.written_size = @ + len, !.size = @ + s]}
        /\ WritePages(at, len)

\* Mistake: without a page to write the block keeps its written_offset.
PrecedesKeeping(o, s, a) ==
    LET at == rnd(o)
        len == trnc((IF a.written_size = 0 THEN Ends(a) ELSE a.written_offset) - at)
    IN  /\ blocks' = (blocks \ {a}) \cup
              {[offset |-> o, size |-> a.size + s, written_size |-> a.written_size + len,
                written_offset |-> IF len # 0 THEN at ELSE a.written_offset]}
        /\ WritePages(at, len)

\* The area comes just before a block, which begins with it then.
Precedes(o, s, a) ==
    LET at == rnd(o)
        len == trnc((IF a.written_size = 0 THEN Ends(a) ELSE a.written_offset) - at)
    IN  /\ blocks' = (blocks \ {a}) \cup
              {[offset |-> o, size |-> a.size + s, written_offset |-> at,
                written_size |-> a.written_size + len]}
        /\ WritePages(at, len)

\* The area touches no block and becomes one.
StandsAlone(o, s) ==
    LET at == rnd(o)
        len == trnc(o + s - at)
    IN  /\ blocks' = blocks \cup {[offset |-> o, size |-> s, written_offset |-> at, written_size |-> len]}
        /\ WritePages(at, len)

\* output_flush of an area that is complete and was not flushed before.
Flush(o, s) ==
    /\ status = "open" /\ s > 0
    /\ Range(o, s) \cap flushed = {}
    /\ tool.inOrder => flushed = 0..(o - 1)
    /\ flushed' = flushed \cup Range(o, s)
    /\ LET before == {b \in BlockBefore(o) : Ends(b) = o}
           after == {a \in BlockAfter(o) : o + s = a.offset}
       IN  IF Overlaps(o, s) THEN status' = "abort" /\ UNCHANGED <<blocks, file, freed>>
           ELSE \/ \E b \in before, a \in after : Joins(o, s, b, a)
                \/ after = {} /\ \E b \in before : Follows(o, s, b)
                \/ before = {} /\ \E a \in after : Precedes(o, s, a)
                \/ before = {} /\ after = {} /\ StandsAlone(o, s)
    /\ UNCHANGED tool

\* What final_output_flush writes, the end of the one block that is left.
FinalWrite(b) ==
    [at |-> IF b.written_size # 0 THEN b.written_size ELSE b.offset,
     len |-> IF b.written_size # 0 THEN b.size - b.written_size ELSE b.size]

\* final_output_flush.  The result of write is compared with (int)write_size.
FinalFlush ==
    /\ status = "open" /\ flushed = Bytes
    /\ LET b == CHOOSE b \in blocks : \A c \in blocks : b.offset <= c.offset
           w == FinalWrite(b)
       IN  IF \/ b.offset # 0
              \/ b.written_size # 0 /\ b.written_offset # 0
              \/ blocks # {b}
           THEN status' = "internal error" /\ UNCHANGED <<file, freed>>
           ELSE \/ /\ file' = [c \in Bytes |-> IF c \in Range(w.at, w.len) THEN file[c] + 1 ELSE file[c]]
                   /\ freed' = Bytes
                   /\ status' = IF w.len >= tool.word \div 2 THEN "failed" ELSE "done"
                \/ w.len > 0 /\ status' = "failed" /\ UNCHANGED <<file, freed>>
    /\ UNCHANGED <<tool, blocks, flushed>>

Stopped == status # "open" /\ UNCHANGED vars

Next ==
    \/ \E o \in Bytes : \E s \in 1..(tool.size - o) : Flush(o, s)
    \/ FinalFlush
    \/ Stopped

Spec == Init /\ [][Next]_vars

(***************************************************************************)
(* Properties                                                              *)
(***************************************************************************)

\* The blocks lie in the output, one after the other, with whole pages written.
TypeOK ==
    /\ tool \in Tools /\ flushed \subseteq Bytes /\ freed \subseteq Bytes
    /\ DOMAIN file = Bytes
    /\ status \in {"open", "done", "failed", "abort", "internal error"}
    /\ \A b \in blocks : /\ b.size > 0 /\ Range(b.offset, b.size) \subseteq Bytes
                         /\ b.written_offset % PageSize = 0 /\ b.written_size % PageSize = 0

\* No byte is written before it is final or written a second time, when its
\* memory has been given back; and no memory is given back that a caller has
\* still to fill.
WrittenOnceAndFinal ==
    /\ \A b \in Bytes : file[b] <= 1 /\ (file[b] = 1 => b \in flushed)
    /\ freed \subseteq flushed

\* The comment on output_flush, "causes any fully flushed pages to be written":
\* as long as sizes fit into the integers of trnc, a page that is complete is on
\* disk.
FullPagesWritten ==
    status = "open" /\ tool.size < tool.word \div 2 =>
        \A b \in Bytes :
            LET page == Range((b \div PageSize) * PageSize, PageSize)
            IN  page \subseteq flushed => file[b] = 1

Paged == INSTANCE PagedOutput WITH
    outputSize <- tool.size, written <- {b \in Bytes : file[b] > 0}

\* Both tools, on every order of the parts, implement PagedOutput: pages go to
\* disk whole, once all of them is final, and the tool ends with the whole file on
\* disk or after a write that failed.  So output_flush never takes a new part for
\* one it had (abort), and final_output_flush finds a single block that begins
\* with the file (no internal error).
ImplementsPaged == Paged!Spec
=============================================================================
