---------------------------- MODULE MCDyldImages ----------------------------
(* Four images: a plugin and the library it needs, and one more that stands *)
(* alone and binds by flat lookup.                                          *)
EXTENDS DyldImages

MCDeps == [i \in {"main", "plugin", "lib", "other"} |-> IF i = "plugin" THEN {"lib"} ELSE {}]
=============================================================================
