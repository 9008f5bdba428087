----------------------------- MODULE MCLinkEdit -----------------------------
(* Small images and tables for LinkEdit.  Pointers have 2 units, pages 4.   *)
EXTENDS LinkEdit

Seg(start, end, limit, writable) ==
    [start |-> start, end |-> end, limit |-> limit, writable |-> writable]

MCNone == {}

\* Read-only text; a data segment that fills its page, with the next data
\* segment right after it; and one that leaves room in its page.
MCRebaseLayouts ==
    {<<Seg(0, 5, 8, FALSE), Seg(8, 26, 28, TRUE), Seg(28, 30, 32, TRUE), Seg(32, 34, 36, FALSE)>>,
     <<Seg(0, 4, 4, FALSE), Seg(4, 12, 12, TRUE), Seg(12, 20, 20, TRUE), Seg(20, 22, 24, FALSE)>>,
     <<Seg(4, 24, 24, TRUE), Seg(24, 28, 32, FALSE), Seg(32, 36, 36, FALSE)>>}

\* More segments than an immediate can count.
MCManySegments ==
    {<<Seg(0, 4, 4, FALSE), Seg(4, 8, 8, TRUE), Seg(8, 12, 12, TRUE), Seg(12, 16, 16, TRUE),
       Seg(16, 20, 20, TRUE), Seg(20, 24, 24, TRUE), Seg(24, 28, 28, FALSE)>>}

\* Sections leave room in the last page of a segment.
MCBindLayouts ==
    {<<Seg(0, 6, 8, TRUE), Seg(8, 12, 16, TRUE), Seg(16, 18, 20, FALSE)>>,
     <<Seg(0, 4, 8, FALSE), Seg(8, 18, 20, TRUE), Seg(20, 22, 24, FALSE)>>}

\* The sections of one segment end where those of the next begin.
MCAdjacent == {<<Seg(0, 8, 8, TRUE), Seg(8, 12, 12, TRUE), Seg(12, 14, 16, FALSE)>>}

\* Library 2, one that is too large for an immediate, and the flat lookup of a
\* symbol that this image defines.
MCOrdinal == <<2, 4, -2>>

Ref(sym, addend, weak) == [sym |-> sym, addend |-> addend, weak |-> weak]

MCRefs == {Ref(1, 0, FALSE), Ref(1, 1, FALSE), Ref(2, 0, FALSE), Ref(3, 0, FALSE)}
MCMixedRefs == {Ref(1, 0, FALSE), Ref(1, 0, TRUE)}
=============================================================================
