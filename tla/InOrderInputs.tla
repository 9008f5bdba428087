---------------------------- MODULE InOrderInputs ----------------------------
(***************************************************************************)
(* What the loading of the input files promises to the rest of the linker: *)
(* the files are taken one by one in command line order, whatever order    *)
(* the parsers finish in; a file once taken never changes; after an error  *)
(* is known no further file is taken; and the loop ends with every file    *)
(* consumed or with the error thrown.                                      *)
(***************************************************************************)
EXTENDS Naturals, Sequences

CONSTANTS NFiles, Files

VARIABLES
    consumed,   \* the files handed to the resolver, in order
    taken,      \* a file has been taken and is being handed over
    failed,     \* an error has been reported by another thread
    status      \* "running", "done" or "threw"

vars == <<consumed, taken, failed, status>>

Init ==
    /\ consumed = <<>>
    /\ taken = FALSE
    /\ failed = FALSE
    /\ status = "running"

\* A parse error or a pipeline error is reported.
Fail ==
    /\ failed' = TRUE
    /\ UNCHANGED <<consumed, taken, status>>

Take ==
    /\ status = "running"
    /\ ~taken /\ ~failed
    /\ taken' = TRUE
    /\ UNCHANGED <<consumed, failed, status>>

Consume ==
    /\ taken
    /\ \E f \in Files : consumed' = Append(consumed, f)
    /\ taken' = FALSE
    /\ status' = IF Len(consumed) + 1 = NFiles THEN "done" ELSE "running"
    /\ UNCHANGED failed

Throw ==
    /\ status = "running"
    /\ ~taken /\ failed
    /\ status' = "threw"
    /\ UNCHANGED <<consumed, taken, failed>>

Next == Fail \/ Take \/ Consume \/ Throw

Spec == Init /\ [][Next]_vars

\* The consumer never stops half way.
FairSpec == Spec /\ WF_vars(Take \/ Consume \/ Throw)

=============================================================================
