----------------------------- MODULE MCResolver -----------------------------
(* Small instances of Resolver for TLC: main.o, archives and a dylib. *)
EXTENDS Resolver, TLC

MCNames == 1 .. 6
MCLibraries == {"a", "b", "c", "d"}

\* A strong global function of a file; main is 1.
Def(n, refs, file) ==
    [name |-> n, refs |-> refs, definition |-> "regular", weak |-> FALSE,
     bitcode |-> FALSE, autoHide |-> FALSE, global |-> TRUE,
     machHeader |-> FALSE, size |-> 1, alignment |-> 0, ordinal |-> file,
     dontDeadStrip |-> FALSE, liveSupport |-> FALSE, data |-> FALSE]
Weak(atom) == [atom EXCEPT !.weak = TRUE]
Data(atom) == [atom EXCEPT !.data = TRUE]
Tentative(n, file) == [Data(Def(n, <<>>, file)) EXCEPT !.definition = "tentative"]
Absolute(n, file) == [Def(n, <<>>, file) EXCEPT !.definition = "absolute"]
Kept(atom) == [atom EXCEPT !.dontDeadStrip = TRUE]
Support(atom) == [atom EXCEPT !.liveSupport = TRUE]

Object(defs) == [atoms |-> defs, linkerOptions |-> {}]
AutoLink(object, libs) == [object EXCEPT !.linkerOptions = libs]

\* buildHashTable: the first member in the list that defines a name has it.
Defines(object, n) ==
    \E a \in AtomsOf(object) : a.name = n /\ a.definition # "tentative"
Archive(members) ==
    [archive |-> TRUE, exports |-> {}, weakExports |-> {},
     toc |-> [n \in {m \in MCNames : \E i \in DOMAIN members : Defines(members[i], m)} |->
                 members[CHOOSE i \in DOMAIN members :
                     /\ Defines(members[i], n)
                     /\ \A j \in 1 .. i - 1 : ~Defines(members[j], n)]]]
Dylib(strong, weak) ==
    [archive |-> FALSE, exports |-> strong \cup weak, weakExports |-> weak,
     toc |-> <<>>]

Link(objects, libraries, a, b, d) ==
    [objects |-> objects, libraries |-> libraries,
     library |-> [a |-> a, b |-> b, c |-> Archive(<<>>), d |-> d],
     undefines |-> {1}, boundaries |-> {}, allowed |-> {},
     undefinedError |-> TRUE, deadCodeStrip |-> FALSE,
     allowDeadDuplicates |-> FALSE, allGlobalsAreRoots |-> FALSE,
     commonsMode |-> "ignoreDylibs"]

Elements(f) == {f[x] : x \in DOMAIN f}

MembersOf(archives) == UNION {Elements(lib.toc) : lib \in archives}
AtomsIn(files) == UNION {AtomsOf(f) : f \in files}

-----------------------------------------------------------------------------
\* main.o refers to 2 and perhaps 3, and may have a definition of 2 that others
\* override.
Mains ==
    {Object(<<Def(1, refs, 1)>> \o extra) :
        refs \in {<<2>>, <<3, 2>>},
        extra \in {<<>>, <<Tentative(2, 1)>>, <<Weak(Def(2, <<3>>, 1))>>}}

\* The first archive defines 2 and 4, in one member or in two; the member with
\* 2 may ask for the second archive.
FirstArchives ==
    {Archive(<<AutoLink(Object(<<Data(Def(2, refs, 2))>>), libs),
               Object(<<Def(4, <<3>>, 3)>>)>>) :
        refs \in {<<>>, <<3>>, <<4>>}, libs \in {{}, {"b"}}}
    \cup {Archive(<<Object(<<Def(2, <<3>>, 2), Def(4, <<2>>, 2)>>)>>)}

\* The second archive defines 3 (which may need what the first has) and may
\* have another definition of 2 with it.
SecondArchives ==
    {Archive(<<Object(<<Def(3, refs, 4)>> \o more)>>) :
        refs \in {<<>>, <<2>>, <<4>>}, more \in {<<>>, <<Def(2, <<>>, 4)>>}}

Orders ==
    {[order |-> order, d |-> Dylib({}, {})] :
        order \in {<<"a">>, <<"a", "b">>, <<"b", "a">>}}
    \cup {[order |-> order, d |-> dylib] :
        order \in {<<"d", "a", "b">>, <<"b", "d", "a">>},
        dylib \in {Dylib({2}, {}), Dylib({3}, {2})}}

SearchInputs ==
    {Link(<<main>>, o.order, a, b, o.d) :
        main \in Mains, o \in Orders, a \in FirstArchives, b \in SecondArchives}
MCSearchInputs ==
    {[link EXCEPT !.deadCodeStrip = strip] :
        link \in SearchInputs, strip \in BOOLEAN}
MCSearchFiles == Mains \cup MembersOf(FirstArchives \cup SecondArchives)
MCSearchAtoms == AtomsIn(MCSearchFiles)

-----------------------------------------------------------------------------
\* The member with 3 asks for the second archive when 2 has been searched for
\* already, so 2 is found in the last pass and 4 only while marking; the member
\* with 4 then brings more.
LateMains == {
    Object(<<Def(1, <<3, 2>>, 1)>>),
    Object(<<Def(1, <<3>>, 1), Def(6, <<2>>, 1)>>),
    Object(<<Def(1, <<3>>, 1), Def(6, <<3>>, 1), Support(Def(5, <<6>>, 1))>>),
    Object(<<Def(1, <<3, 2>>, 1), Tentative(4, 1)>>),
    Object(<<Def(1, <<3>>, 1), Support(Def(5, <<1, 2>>, 1))>>),
    Object(<<Def(1, <<3>>, 1), Support(Def(5, <<6>>, 1)), Support(Def(6, <<1>>, 1))>>)}

Asking(atom) == Archive(<<AutoLink(Object(<<atom>>), {"b"})>>)
AskingArchives == {Asking(Def(3, <<>>, 2)), Asking(Weak(Def(3, <<>>, 2)))}

Bringing(more) ==
    Archive(<<Object(<<Def(2, <<4>>, 4)>>),
              Object(<<Data(Def(4, <<>>, 5))>> \o more)>>)
BringingArchives ==
    {Bringing(more) : more \in {
        <<>>, <<Def(3, <<>>, 5)>>, <<Support(Def(5, <<4>>, 5))>>,
        <<Kept(Def(5, <<6>>, 5)), Def(6, <<>>, 5)>>}}

LateLinks ==
    {Link(<<main>>, <<"a">>, a, b, Dylib({}, {})) :
        main \in LateMains, a \in AskingArchives, b \in BringingArchives}

\* Command-line options: what may be undefined, section boundaries, commons
\* against dylibs, exports as roots, -u.
Commons ==
    Link(<<Object(<<Def(1, <<2, 3>>, 1), Tentative(2, 1), Tentative(4, 1)>>)>>,
         <<"d", "a">>, Archive(<<Object(<<Data(Def(4, <<2>>, 2))>>)>>),
         Archive(<<>>), Dylib({2, 4}, {}))
OptionLinks ==
    {[Commons EXCEPT !.commonsMode = mode, !.undefines = {1} \cup named,
                     !.boundaries = boundaries, !.allowed = allowed,
                     !.undefinedError = error, !.allGlobalsAreRoots = all] :
        mode \in CommonsModes, named \in {{}, {5}}, boundaries \in {{}, {3}},
        allowed \in {{}, {3}}, error \in BOOLEAN, all \in BOOLEAN}

\* liba.a comes before main.o, so that its tentative definition of 2 gets the
\* better of main's absolute one, and gives way to the data in libb.a.
AbsoluteLink ==
    Link(<<Object(<<Def(1, <<3>>, 5), Absolute(2, 5)>>)>>, <<"a", "b">>,
         Archive(<<Object(<<Def(3, <<>>, 2), Tentative(2, 2)>>)>>),
         Archive(<<Object(<<Data(Def(2, <<>>, 6))>>)>>), Dylib({}, {}))

\* -u 1, which is in the libraries that the member with 2 asks for, when the
\* last pass is past it: only the search for roots finds it, in the archive.
UndefineLink ==
    [Link(<<Object(<<Def(5, <<3, 2>>, 1)>>)>>, <<"a">>, Asking(Def(3, <<>>, 2)),
          Archive(<<AutoLink(Object(<<Def(2, <<>>, 4)>>), {"c", "d"})>>),
          Dylib({1}, {}))
     EXCEPT !.undefines = {1, 5},
            !.library["c"] = Archive(<<Object(<<Def(1, <<>>, 6)>>)>>)]

\* Both object files define 4, which nobody uses unless main does.
DuplicateLinks ==
    {Link(<<Object(<<Def(1, refs, 1), Def(4, <<>>, 1)>>),
            Object(<<Def(3, <<>>, 2), Def(4, <<5>>, 2)>>)>>,
          <<"a">>, Archive(<<Object(<<Def(5, <<>>, 3)>>)>>), Archive(<<>>), Dylib({}, {})) :
        refs \in {<<3>>, <<3, 4>>}}

OtherLinks == {Commons, AbsoluteLink, UndefineLink} \cup DuplicateLinks

MCStripInputs ==
    {[link EXCEPT !.deadCodeStrip = strip] :
        link \in LateLinks \cup OptionLinks \cup OtherLinks, strip \in BOOLEAN}
MCStripFiles ==
    LateMains \cup MembersOf(AskingArchives \cup BringingArchives)
        \cup UNION {Elements(link.objects) : link \in OtherLinks}
        \cup MembersOf(UNION {Elements(link.library) : link \in OtherLinks})
MCStripAtoms == AtomsIn(MCStripFiles)

MCInputs == MCSearchInputs \cup MCStripInputs
MCFiles == MCSearchFiles \cup MCStripFiles
MCAtoms == MCSearchAtoms \cup MCStripAtoms
=============================================================================
