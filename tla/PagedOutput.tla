---------------------------- MODULE PagedOutput ----------------------------
(* What output_flush promises its callers: the parts of an output file come *)
(* in any order and go to disk in whole pages, a page no sooner than all of *)
(* it has come and only once; in the end the whole file is on disk.         *)
EXTENDS Naturals

CONSTANT PageSize   \* bytes of a page

VARIABLES
    outputSize, \* bytes of the output
    flushed,    \* the bytes that are final
    written,    \* the bytes on disk
    status      \* "open", "done" or, after a write that failed, "failed"

vars == <<outputSize, flushed, written, status>>

Bytes == 0..(outputSize - 1)
PageOf(b) == {c \in Bytes : c \div PageSize = b \div PageSize}

Init == outputSize \in Nat /\ flushed = {} /\ written = {} /\ status = "open"

\* More bytes are final; some of the pages that are complete by now are written.
Flush ==
    /\ status = "open" /\ UNCHANGED status
    /\ flushed \subseteq flushed' /\ flushed' \subseteq Bytes /\ flushed' # flushed
    /\ written \subseteq written'
    /\ \A b \in written' \ written : PageOf(b) \subseteq flushed' /\ PageOf(b) \cap written = {}
    /\ \A b \in written' : PageOf(b) \subseteq written'

\* The rest of the file is written.
Close ==
    /\ status = "open" /\ flushed = Bytes
    /\ status' = "done" /\ written' = Bytes
    /\ UNCHANGED flushed

\* A write fails and the tool exits; what of the final bytes is on disk is unspecified.
Fail ==
    /\ status = "open" /\ status' = "failed"
    /\ written' \subseteq flushed' /\ flushed' \subseteq Bytes

Next == (Flush \/ Close \/ Fail) /\ UNCHANGED outputSize

Spec == Init /\ [][Next]_vars
=============================================================================
