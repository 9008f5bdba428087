--------------------------- MODULE MCOutputFlush ---------------------------
(* Small outputs for OutputFlush: pages of 4 bytes.                         *)
EXTENDS OutputFlush

\* ld_classic with a file that ends within a page and one that ends with it;
\* libtool with libraries that do and do not fit into the integers of trnc.
MCTools ==
    [inOrder : {FALSE}, size : {12, 15}, word : {64}]
    \cup [inOrder : {TRUE}, size : {14, 23}, word : {16, 64}]
=============================================================================
