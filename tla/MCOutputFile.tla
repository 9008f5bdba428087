---------------------------- MODULE MCOutputFile ----------------------------
(* Instances of OutputFile for TLC.                                        *)
EXTENDS OutputFile, TLC

CONSTANTS A, B
MCSize == A :> 2 @@ B :> 1

MCKinds == {None, "regular", "device"}

Setup(volume, long, path, kinds, sizes, together) ==
    [hfs : volume, tooLong : long, slash : path, oldKind : kinds, oldSize : sizes,
     overlap : together]

\* One after the other on every volume; together where the output is renamed.
MCInTurn == Setup(BOOLEAN, BOOLEAN, BOOLEAN, MCKinds, {1, 3}, {FALSE})
MCTogether == Setup({TRUE}, {FALSE}, BOOLEAN, MCKinds, {1}, {TRUE})
MCSetups == MCInTurn \cup MCTogether

\* With a path that leaves room for the temporary name.
MCShortPaths == {s \in MCInTurn : ~s.tooLong}
MCSockets == Setup(BOOLEAN, {FALSE}, BOOLEAN, {"socket"}, {1}, {FALSE})
=============================================================================
