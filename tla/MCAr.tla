-------------------------------- MODULE MCAr --------------------------------
(* Instances of Ar for TLC.                                                *)
EXTENDS Ar, TLC

CONSTANTS P1, P2

Job(cmd, files) == [cmd |-> cmd, files |-> files, where |-> "end", pos |-> "", u |-> FALSE,
                    ranlib |-> FALSE]
At(j, where, pos) == [j EXCEPT !.where = where, !.pos = pos]
Updating(j) == [j EXCEPT !.u = TRUE]
Ranlibbed(j) == [j EXCEPT !.ranlib = TRUE]
Old(name) == [name |-> name, by |-> "start"]

MCBodySize == "a" :> 1 @@ "b" :> 0 @@ "c" :> 1 @@ "d" :> 0

\* A table of contents and two members, one of them twice, or no archive.
MCArchives == {NoArchive, <<Old("toc"), Old("a"), Old("b"), Old("a")>>}

MCJobs ==
    {Job("q", <<"d", "c">>), Job("d", <<"a">>), Updating(Job("x", <<"b", "a">>)), Ranlibbed(Job("q", <<"a">>)),
     Job("r", <<"b", "c">>), At(Job("r", <<"c", "a">>), "b", "a"), Updating(Job("r", <<"b", "a">>)),
     At(Job("m", <<"a">>), "a", "b"), Job("m", <<"d", "b">>)}

MCRanlibJobs == {Ranlibbed(Job("q", <<"c">>)), Ranlibbed(Job("q", <<"b">>))}
MCExtractJobs == {Updating(Job("x", <<>>))}
=============================================================================
