---------------------------- MODULE MCInputFiles ----------------------------
(* Instances of InputFiles for TLC.                                        *)
EXTENDS InputFiles

\* Files of the kinds that the main thread treats differently.
Lib == [type |-> "Dylib", installPath |-> "libA"]
Stub == [type |-> "Dylib", installPath |-> NULL]
Arch == [type |-> "Archive", installPath |-> NULL]

MCFiles == {IgnoredFile, Lib, Stub}
MCTwoFiles == {IgnoredFile, Arch}

\* Every slot has a path of its own.
MCPath == [s \in Slots |-> s]

\* The first and the last slot have the same path.
MCSamePath == [s \in Slots |-> IF s = NFiles - 1 THEN 0 ELSE s]

MCNoSlots == {}

\* A file between two file lists.
MCMiddleSlot == {1}
MCOuterSlots == Slots \ {1}

MCAllSlots == Slots
=============================================================================
