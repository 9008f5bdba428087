---------------------------- MODULE MCSymbolTable ----------------------------
(* Small instances of SymbolTable for TLC. *)
EXTENDS SymbolTable, TLC

CONSTANTS foo, cstring, classref, fde, lsda

\* A strong regular definition of foo; the pools vary its attributes.
Plain == [entry |-> foo, definition |-> "regular", weak |-> FALSE,
          bitcode |-> FALSE, autoHide |-> FALSE, global |-> TRUE,
          machHeader |-> FALSE, size |-> 1, alignment |-> 0,
          ordinal |-> 1, path |-> 1]

From(atom, file) == [atom EXCEPT !.ordinal = file, !.path = file]
Weak(atom) == [atom EXCEPT !.weak = TRUE]
Hidden(atom) == [atom EXCEPT !.global = FALSE]
AutoHide(atom) == [atom EXCEPT !.autoHide = TRUE]
Aligned(atom, power) == [atom EXCEPT !.alignment = power]
Tentative(size) == [Plain EXCEPT !.definition = "tentative", !.size = size]
Proxy == [Plain EXCEPT !.definition = "proxy", !.size = 0]
Absolute == [Plain EXCEPT !.definition = "absolute", !.size = 0]
Bitcode(atom) == [atom EXCEPT !.bitcode = TRUE]
MachHeader(atom) == [atom EXCEPT !.machHeader = TRUE]

\* Two members of an archive may have the same name, so the same path.
SamePath(atom, file) == [atom EXCEPT !.path = file]

MCNamedAtoms == {
    From(Plain, 1), From(Plain, 2), SamePath(From(Plain, 3), 2),
    MachHeader(From(Plain, 4)),
    Weak(From(Plain, 2)), Weak(Aligned(From(Plain, 3), 1)),
    Weak(Hidden(Aligned(From(Plain, 1), 2))),
    Weak(AutoHide(Aligned(From(Plain, 4), 2))), Weak(AutoHide(From(Plain, 5))),
    Weak(Bitcode(Aligned(From(Plain, 5), 3))),
    From(Tentative(1), 2), From(Tentative(1), 3), From(Tentative(2), 1),
    From(Absolute, 2), From(Absolute, 3),
    From(Proxy, 6), Weak(From(Proxy, 7)), From(Proxy, 8)}

\* A literal, or another pointer that is coalesced by its content.
Literal(content, power, file) ==
    Aligned(Hidden(From([Plain EXCEPT !.entry = content], file)), power)

\* A weak function of foo with its unwind information, in two files.
WeakFunction(file) == Weak(From(Plain, file))

MCMixedAtoms == {
    Literal(cstring, 0, 1), Literal(cstring, 0, 2), Literal(cstring, 1, 3),
    Literal(classref, 0, 1), Literal(classref, 1, 2),
    WeakFunction(1), Aligned(WeakFunction(2), 1), From(Plain, 3)}

\* The first weak function has an FDE, which has an LSDA.
MCSubordinates ==
    [a \in MCMixedAtoms \cup {fde, lsda} |->
        CASE a = WeakFunction(1) -> {fde}
          [] a = fde -> {lsda}
          [] OTHER -> {}]

Options(commonsMode, strip, allowDead, bitcode) ==
    [commonsMode |-> commonsMode, deadCodeStrip |-> strip,
     allowDeadDuplicates |-> allowDead, bitcode |-> bitcode]

\* Dead stripping does not look at commons, so the two are not combined.
MCStripping == {
    Options("ignoreDylibs", FALSE, FALSE, TRUE),
    Options("ignoreDylibs", TRUE, FALSE, FALSE),
    Options("ignoreDylibs", TRUE, FALSE, TRUE),
    Options("ignoreDylibs", TRUE, TRUE, FALSE)}
MCBitcodeStrip == {Options("ignoreDylibs", TRUE, FALSE, TRUE)}

MCOptions == MCStripping \cup {Options(mode, FALSE, FALSE, FALSE) : mode \in CommonsModes}

MCAtoms == MCNamedAtoms \cup MCMixedAtoms
MCGroups == [a \in MCAtoms \cup {fde, lsda} |-> IF a \in DOMAIN MCSubordinates THEN MCSubordinates[a] ELSE {}]

\* A link offers the definitions of one pool: those of foo, without the sweep of
\* link time optimisation, or literals and weak functions.
OnePool ==
    \/ offered \subseteq MCNamedAtoms /\ options \notin MCBitcodeStrip
          /\ \A c \in Contents : slotOf[c] = 0
    \/ offered \subseteq MCMixedAtoms /\ options \in MCStripping
MCSpec == Init /\ [][Next /\ OnePool']_vars
=============================================================================
