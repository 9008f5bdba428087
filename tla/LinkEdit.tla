------------------------------ MODULE LinkEdit ------------------------------
(* The tables of __LINKEDIT that ld writes and dyld reads: rebase, bind,    *)
(* weak bind and lazy bind.  Each is encoded by its own atom from the same  *)
(* segments, and dyld reads each with its own loop; they share nothing      *)
(* else, so a behaviour is about one table.                                 *)
EXTENDS DyldSegments

CONSTANTS
    RebaseLayouts, BindLayouts,     \* the segments of the images considered
    MaxRebases, MaxBinds,           \* bounds: entries of a table
    Stray,                          \* see RebaseInfo
    Kinds, Ordinal, Proxies, Refs, Overrides, MismatchIsWeak     \* see BindInfo

ASSUME LayoutAssumption == \A l \in RebaseLayouts \cup BindLayouts : WellFormed(l)
VARIABLES
    kind,                                       \* "rebase" or one of Kinds
    layout, info, n, cur, mid, phase, src, dst, data, p, dyld,  \* both encoders
    type, address,                              \* RebaseInfo
    col, offsets                                \* BindInfo

Rebasing == INSTANCE RebaseInfo WITH Layouts <- RebaseLayouts, MaxEntries <- MaxRebases
Binding == INSTANCE BindInfo WITH Layouts <- BindLayouts, MaxEntries <- MaxBinds

ASSUME TablesAssumption ==
    /\ Kinds \subseteq {"bind", "weak", "lazy"}
    /\ DOMAIN Ordinal \subseteq Nat \ {0}
    /\ \A sym \in DOMAIN Ordinal :
          Ordinal[sym] \in Int /\ Ordinal[sym] > -Imm /\ Ordinal[sym] # Binding!NoOrdinal
    /\ Refs \subseteq [sym : DOMAIN Ordinal, addend : Int, weak : BOOLEAN]
    /\ Overrides \subseteq DOMAIN Ordinal /\ IsFiniteSet(Overrides)

IsRebase == kind = "rebase"

\* The images ld encodes faithfully.  The index of every segment with something
\* to rebase or bind fits the immediate of its opcode;
FewSegments == \A l \in RebaseLayouts \cup BindLayouts : Len(l) <= Imm + 1

\* and the sections of one segment do not end where those of the next begin.
Gaps == \A l \in BindLayouts : \A j, k \in 1..Len(l) : j < k => l[j].end < l[k].start

Init ==
    \/ IsRebase /\ Rebasing!Init /\ col = <<>> /\ offsets = <<>>
    \/ Binding!Init /\ type = 0 /\ address = 0

Next ==
    \/ IsRebase /\ Rebasing!Next /\ UNCHANGED <<kind, col, offsets>>
    \/ ~IsRebase /\ Binding!Next /\ UNCHANGED <<type, address>>

vars == <<Binding!vars, type, address>>
Spec == Init /\ [][Next]_vars

(***************************************************************************)
(* Properties                                                              *)
(***************************************************************************)

\* The variables of both encoders have their types: the passes of encode stay
\* inside the array and never write past what they have read.
TypeOK == IF IsRebase THEN Rebasing!TypeOK ELSE Binding!TypeOK

\* At every step of encode of the rebase, the bind and the weak table, the
\* opcodes that are written and the ones still to be read stand for exactly the
\* entries translated so far, in their order, each with its address, symbol,
\* library and addend: no pass, or part of one, changes the meaning.
PassesKeepMeaning == IF IsRebase THEN Rebasing!PassesKeepMeaning ELSE Binding!PassesKeepMeaning

\* dyld's rebase, eachBind, the weak binding's iterator and eachLazyBind visit the
\* entries of their table in order, never throw, and have visited all of them when
\* they stop; doBindFastLazySymbol binds the one pointer whose stub was called.
DyldReadsTable == IF IsRebase THEN Rebasing!DyldRebasesTable ELSE Binding!DyldBindsTable

\* The weak table names every symbol once, in ascending order, as the merge of
\* the images in weakBind needs it, and flags the definitions that are not weak.
WeakNamesSorted == ~IsRebase => Binding!WeakNamesSorted

\* dyld treats the import of a symbol as weak or not as -weak_reference_mismatches
\* says.
MismatchAsTreated == ~IsRebase => Binding!MismatchAsTreated
=============================================================================
