---------------------------- MODULE NameCollision ----------------------------
(***************************************************************************)
(* Which of two atoms with the same name the linker keeps: the class       *)
(* NameCollisionResolution of ld64/src/ld/SymbolTable.cpp.  The new atom   *)
(* is A, the one that is in the symbol table already is B.                 *)
(*                                                                         *)
(* An atom is a record of what the decision looks at:                      *)
(*   definition  regular, tentative, absolute or proxy (from a dylib)      *)
(*   weak        its combine() is combineByName, not combineNever          *)
(*   bitcode     its content type is typeLTOtemporary                      *)
(*   autoHide, global (scopeGlobal, not scopeLinkageUnit), machHeader,     *)
(*   size, alignment (trailing zeros), and the ordinal of its file.        *)
(***************************************************************************)
EXTENDS Integers

Definitions == {"regular", "tentative", "absolute", "proxy"}

\* -commons ignore_dylibs, use_dylibs, error
CommonsModes == {"ignoreDylibs", "overriddenByDylibs", "conflictsDylibsError"}

IsAttributed(a) ==
    /\ a.definition \in Definitions
    /\ a.weak \in BOOLEAN
    /\ a.bitcode \in BOOLEAN
    /\ a.autoHide \in BOOLEAN
    /\ a.global \in BOOLEAN
    /\ a.machHeader \in BOOLEAN
    /\ a.size \in Nat
    /\ a.alignment \in Nat
    /\ a.ordinal \in Nat

-----------------------------------------------------------------------------
(* The picker.  A choice is "A", "B" or "throw"; an operator whose result  *)
(* the code leaves open returns the set of the possible choices.           *)

PickAOrB(pickA) == IF pickA THEN "A" ELSE "B"

\* A lower number has the higher precedence, so the "higher" ordinal is the
\* file that comes first and the "lower" ordinal the file that comes last.
PickHigherOrdinal(a, b) == PickAOrB(a.ordinal < b.ordinal)
PickLowerOrdinal(a, b) == PickAOrB(a.ordinal > b.ordinal)

\* Mistake: the sizes are compared the wrong way round.
PickSmallerSize(a, b) ==
    IF a.size = b.size THEN PickLowerOrdinal(a, b)
                       ELSE PickAOrB(a.size < b.size)

PickLargerSize(a, b) ==
    IF a.size = b.size THEN PickLowerOrdinal(a, b)
                       ELSE PickAOrB(a.size > b.size)

PickGreaterAlignment(a, b) == PickAOrB(a.alignment > b.alignment)

\* Two weak definitions: real code over bitcode, then the one that may not be
\* auto-hidden, then (if neither may) the more visible one, then alignment.
PickWeak(a, b) ==
    IF a.bitcode # b.bitcode THEN PickAOrB(~a.bitcode)
    ELSE IF a.autoHide # b.autoHide THEN PickAOrB(~a.autoHide)
    ELSE IF ~a.autoHide /\ a.global # b.global THEN PickAOrB(a.global)
    ELSE PickGreaterAlignment(a, b)

\* Two strong definitions that nothing lets the linker ignore: the code then
\* reports a duplicate and leaves _chosen uninitialised.
StrongClash(a, b, ignoreDuplicates) ==
    /\ ~a.weak /\ ~b.weak
    /\ ~a.machHeader /\ ~b.machHeader
    /\ ~ignoreDuplicates

PickBetweenRegularAtoms(a, b, ignoreDuplicates) ==
    IF a.weak /\ b.weak THEN {PickWeak(a, b)}
    ELSE IF a.weak THEN {"B"}
    ELSE IF b.weak \/ a.machHeader THEN {"A"}
    ELSE IF b.machHeader THEN {"B"}
    ELSE IF ignoreDuplicates THEN {PickLowerOrdinal(a, b)}
    ELSE {"A", "B"}

\* A tentative definition against a definition in a dylib.
PickCommonsMode(commonsMode, tentative, proxy) ==
    CASE commonsMode = "ignoreDylibs" -> tentative
      [] commonsMode = "overriddenByDylibs" -> proxy
      [] commonsMode = "conflictsDylibsError" -> "throw"

\* A weak definition in a dylib loses; two strong ones are an error.
PickProxyAtom(a, b) == IF a.weak THEN "B" ELSE IF b.weak THEN "A" ELSE "throw"

\* The possible choices between a new atom a and an existing atom b.
PickAtom(a, b, ignoreDuplicates, commonsMode) ==
    CASE a.definition = "regular" /\ b.definition = "regular" ->
            PickBetweenRegularAtoms(a, b, ignoreDuplicates)
      [] a.definition = "regular" /\ b.definition = "absolute" ->
            {PickHigherOrdinal(a, b)}
      [] a.definition = "regular" /\ b.definition \in {"tentative", "proxy"} ->
            {"A"}
      [] a.definition = "tentative" /\ b.definition = "regular" -> {"B"}
      [] a.definition = "tentative" /\ b.definition = "tentative" ->
            {PickLargerSize(a, b)}
      [] a.definition = "tentative" /\ b.definition = "absolute" ->
            {PickHigherOrdinal(a, b)}
      [] a.definition = "tentative" /\ b.definition = "proxy" ->
            {PickCommonsMode(commonsMode, "A", "B")}
      [] a.definition = "absolute" /\ b.definition \in {"regular", "absolute"} ->
            {PickHigherOrdinal(a, b)}
      [] a.definition = "absolute" /\ b.definition \in {"tentative", "proxy"} ->
            {"A"}
      [] a.definition = "proxy" /\ b.definition \in {"regular", "absolute"} ->
            {"B"}
      [] a.definition = "proxy" /\ b.definition = "tentative" ->
            {PickCommonsMode(commonsMode, "B", "A")}
      [] a.definition = "proxy" /\ b.definition = "proxy" ->
            {PickProxyAtom(a, b)}

\* _reportDuplicate: two strong definitions, or an absolute one and another
\* one that is neither tentative nor in a dylib.
ReportDuplicate(a, b, ignoreDuplicates) ==
    \/ /\ a.definition = "regular" /\ b.definition = "regular"
       /\ StrongClash(a, b, ignoreDuplicates)
    \/ a.definition = "regular" /\ b.definition = "absolute"
    \/ a.definition = "absolute" /\ b.definition \in {"regular", "absolute"}

-----------------------------------------------------------------------------
(* The reference: a ranking of definitions by what they are, of which the  *)
(* picker must always keep a greatest one.                                 *)

\* What kind of definition it is, the higher the stronger.
Class(a, commonsMode) ==
    CASE a.definition \in {"regular", "absolute"} /\ ~a.weak ->
            IF a.machHeader THEN 21 ELSE 20
      [] a.definition \in {"regular", "absolute"} /\ a.weak ->
            (IF a.bitcode THEN 10 ELSE 13)
                + (IF a.autoHide THEN 0 ELSE IF a.global THEN 2 ELSE 1)
      [] a.definition = "tentative" ->
            IF commonsMode = "overriddenByDylibs" THEN 1 ELSE 4
      [] a.definition = "proxy" -> IF a.weak THEN 2 ELSE 3

\* Within a class: the size of a tentative definition, the alignment of a weak
\* one; then the ordinal of the file, the last file first (not for weak and
\* dylib definitions, where the first one found stays, and for the header of
\* the image, of which there is one).
Extent(a) ==
    IF a.definition = "tentative" THEN a.size
    ELSE IF a.definition # "proxy" /\ a.weak THEN a.alignment
    ELSE 0

Recency(a) ==
    IF \/ a.definition = "tentative"
       \/ a.definition # "proxy" /\ ~a.weak /\ ~a.machHeader
    THEN a.ordinal ELSE 0

\* a ranks at least as high as b
AtLeast(a, b, commonsMode) ==
    \/ Class(a, commonsMode) > Class(b, commonsMode)
    \/ /\ Class(a, commonsMode) = Class(b, commonsMode)
       /\ \/ Extent(a) > Extent(b)
          \/ Extent(a) = Extent(b) /\ Recency(a) >= Recency(b)
=============================================================================
