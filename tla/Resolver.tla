------------------------------ MODULE Resolver ------------------------------
(***************************************************************************)
(* How the linker decides what goes into the image (ld64's Resolver with   *)
(* InputFiles::searchLibraries and the archive parser's member loading):   *)
(* it takes the atoms of all object files, searches the libraries for what *)
(* is undefined until nothing new turns up, and with -dead_strip marks     *)
(* what is reachable and drops the rest.  Archive members are pulled in on *)
(* demand, by the search for undefined names and again while marking; a    *)
(* member brings references of its own, may override weak and tentative    *)
(* definitions and may ask for further libraries (auto-linking).           *)
(*                                                                         *)
(* The code is sequential, with calls: a step of resolve calls search      *)
(* Libraries, which loads a member, whose atoms go to doAtom one by one.   *)
(* A pending call is a variable (queue, search, stack), and a step of the  *)
(* caller waits until the calls it made have returned.                     *)
(*                                                                         *)
(* An atom has a name and the names its fixups refer to; an atom that is   *)
(* local to its file is part of those that refer to it.  Left out: literals*)
(* that are coalesced by content (module SymbolTable has them), indirect   *)
(* dylibs, forced loads, aliases, -r, helper symbols of the linker and     *)
(* link time optimisation.                                                 *)
(***************************************************************************)
EXTENDS NameCollision, Sequences, FiniteSets, SequencesExt

CONSTANTS
    Names,      \* symbol names: numbers, in the order that strcmp gives
    Atoms,      \* the atoms of all files
    Files,      \* object files and archive members
    Libraries,  \* paths of archives and dylibs
    Inputs,     \* the command lines that are considered, with the files
    NULL        \* the null pointer

\* What the linker itself makes: the definition of a name in a dylib (weak or
\* not), one for a name that may stay undefined, and one for a name such as
\* section$start$__DATA$__data.
Made(n, definition, weak, ordinal) ==
    [name |-> n, refs |-> <<>>, definition |-> definition, weak |-> weak,
     bitcode |-> FALSE, autoHide |-> FALSE, global |-> FALSE,
     machHeader |-> FALSE, size |-> 0, alignment |-> 0, ordinal |-> ordinal,
     dontDeadStrip |-> FALSE, liveSupport |-> FALSE, data |-> FALSE]
ExportAtom(n, weak, library) == Made(n, "proxy", weak, library)
UndefinedProxyAtom(n) == Made(n, "proxy", FALSE, 0)
BoundaryAtom(n) == Made(n, "regular", FALSE, 0)

\* The atoms that the linker can make.
MadeAtoms ==
    [name : Names, refs : {<<>>}, definition : {"proxy", "regular"},
     weak : BOOLEAN, bitcode : {FALSE}, autoHide : {FALSE}, global : {FALSE},
     machHeader : {FALSE}, size : {0}, alignment : {0}, ordinal : Nat,
     dontDeadStrip : {FALSE}, liveSupport : {FALSE}, data : {FALSE}]

AllAtoms == Atoms \cup MadeAtoms

AtomsOf(f) == {f.atoms[i] : i \in DOMAIN f.atoms}

\* The names in the table of contents of an archive with this member.
ListedNames(f) ==
    {a.name : a \in {b \in AtomsOf(f) : b.definition # "tentative"}}
RefsOf(a) == {a.refs[i] : i \in DOMAIN a.refs}

\* The file of a library has a definition of a name.  The table of contents
\* of an archive maps names to members; it has no tentative definitions.
Provides(lib, n) ==
    IF lib.archive THEN n \in DOMAIN lib.toc ELSE n \in lib.exports

IsLibrary(lib) ==
    IF lib.archive
    THEN /\ DOMAIN lib.toc \subseteq Names
         /\ \A n \in DOMAIN lib.toc :
             /\ lib.toc[n] \in Files
             /\ n \in ListedNames(lib.toc[n])
             /\ ListedNames(lib.toc[n]) \subseteq DOMAIN lib.toc
    ELSE lib.exports \subseteq Names /\ lib.weakExports \subseteq lib.exports

\* The calls of searchLibraries: what is looked for, where, and how far it got.
Searches ==
    [name : Names, dylibs : BOOLEAN, archives : BOOLEAN, dataOnly : BOOLEAN,
     next : Nat \ {0}]

ASSUME NamesAssumption == Names \subseteq Nat /\ IsFiniteSet(Names)
ASSUME AtomsAssumption ==
    /\ NULL \notin Names /\ NULL \notin AllAtoms
    /\ \A a \in Atoms :
        /\ IsAttributed(a)
        /\ a.definition # "proxy"
        /\ a.name \in Names
        /\ a.refs \in Seq(Names)
        /\ a.dontDeadStrip \in BOOLEAN
        /\ a.liveSupport \in BOOLEAN
        /\ a.data \in BOOLEAN
ASSUME FilesAssumption ==
    /\ IsFiniteSet(Libraries)
    /\ \A f \in Files :
        f.atoms \in Seq(Atoms) /\ f.linkerOptions \subseteq Libraries
ASSUME CallsAssumption == NULL \notin Searches

\* The members of the archives of a link.
Members(link) ==
    UNION {{link.library[path].toc[n] : n \in DOMAIN link.library[path].toc} :
               path \in {p \in Libraries : link.library[p].archive}}

Apart(f, g) == AtomsOf(f) \cap AtomsOf(g) = {}

\* An atom belongs to one file of a link, and nothing the linker makes is in one.
ASSUME OwnersAssumption ==
    /\ Atoms \cap MadeAtoms = {}
    /\ \A f \in Files : \A j, k \in DOMAIN f.atoms : f.atoms[j] = f.atoms[k] => j = k
    /\ \A i \in Inputs :
        /\ \A j, k \in DOMAIN i.objects : j # k => Apart(i.objects[j], i.objects[k])
        /\ \A f \in Members(i) :
            /\ \A j \in DOMAIN i.objects : Apart(i.objects[j], f)
            /\ \A g \in Members(i) : f = g \/ Apart(f, g)
ASSUME InputsAssumption ==
    \A i \in Inputs :
        /\ i.objects \in Seq(Files)
        /\ i.libraries \in Seq(Libraries)
        /\ DOMAIN i.library = Libraries
        /\ \A path \in Libraries : IsLibrary(i.library[path])
        /\ i.undefines \subseteq Names      \* the entry point, -u, -init, ...
        /\ i.boundaries \subseteq Names     \* section$start$... and the like
        /\ i.allowed \subseteq Names        \* -U
        /\ i.undefinedError \in BOOLEAN     \* -undefined error
        /\ i.deadCodeStrip \in BOOLEAN
        /\ i.allowDeadDuplicates \in BOOLEAN
        /\ i.allGlobalsAreRoots \in BOOLEAN
        /\ i.commonsMode \in CommonsModes

VARIABLES
    input,              \* the command line and the files it names
    slots,              \* the names in the symbol table
    bound,              \* name -> the atom in its slot, or NULL
    coalesced,          \* the atoms marked coalesced away
    duplicates,         \* _duplicateSymbols: name -> atoms
    atoms,              \* _atoms
    externalTentative,  \* _hasExternalTentativeDefinitions
    completed,          \* _completedInitialObjectFiles
    searchList,         \* _searchLibraries
    unprocessed,        \* unprocessedLinkerOptionLibraries
    linkerOptions,      \* linkerOptionLibraries: those processed
    loaded,             \* the archive members that are loaded
    queue,              \* the atoms of a file on their way to doAtom
    search,             \* the call of searchLibraries, or NULL
    pc,                 \* where resolve is
    todo,               \* the names a loop of it has still to look at
    current,            \* the name the loop is at
    genCount,           \* undefineGenCount, or -1
    roots,              \* _deadStripRoots
    toMark,             \* the roots that the loop over them has still to reach
    liveSupport,        \* _dontDeadStripIfReferencesLive
    live,               \* the atoms that are marked live
    stack,              \* the calls of markLive: atom and index of its fixup
    stage,              \* how far the fixup of the last call is
    pulled,             \* history: the members pulled in, and for which name
    round,              \* history: length of searchList when the round began
    late                \* history: a member was loaded while marking

tableVars ==
    <<slots, bound, coalesced, duplicates, atoms, externalTentative>>
libraryVars == <<searchList, unprocessed, linkerOptions, loaded>>
loopVars == <<todo, current, genCount>>
stripVars == <<roots, toMark, liveSupport, live, stack, stage>>
historyVars == <<pulled, round, late>>
vars == <<input, tableVars, completed, libraryVars, queue, search, pc,
          loopVars, stripVars, historyVars>>

Init ==
    /\ input \in Inputs
    /\ slots = {} /\ bound = [n \in Names |-> NULL] /\ coalesced = {}
    /\ duplicates = [n \in Names |-> {}] /\ atoms = {} /\ externalTentative = FALSE /\ completed = FALSE
    /\ searchList = input.libraries
    /\ unprocessed = {} /\ linkerOptions = {} /\ loaded = {}
    /\ queue = <<>> /\ search = NULL
    /\ pc = "initial" /\ todo = {} /\ current = 1 /\ genCount = -1
    /\ roots = {} /\ toMark = {} /\ liveSupport = <<>> /\ live = {}
    /\ stack = <<>> /\ stage = "look"
    /\ pulled = <<>> /\ round = 0 /\ late = FALSE

-----------------------------------------------------------------------------
(* doAtom                                                                  *)

UndefinedNames == {n \in slots : bound[n] = NULL}

IsTentative(n) == bound[n] # NULL /\ bound[n].definition = "tentative"

\* doAtom's argument for ignoreDuplicates
IgnoreDuplicates ==
    input.deadCodeStrip /\ (completed \/ input.allowDeadDuplicates)

\* The atom goes to an empty slot; or the picker chooses between the two.
Picks(a) ==
    IF bound[a.name] = NULL THEN {"A"}
    ELSE PickAtom(a, bound[a.name], IgnoreDuplicates, input.commonsMode)

\* _symbolTable.add(atom).  The atom is new, even if a dylib has made one like
\* it before that was coalesced away.
AddAtom(a) ==
    \/ /\ "A" \in Picks(a)
       /\ bound' = [bound EXCEPT ![a.name] = a]
       /\ coalesced' = (coalesced \cup {bound[a.name]}) \ {a, NULL}
       /\ externalTentative' =
              (externalTentative \/ (a.definition = "tentative" /\ a.global))
    \/ /\ "B" \in Picks(a)
       /\ coalesced' = coalesced \cup {a}
       /\ UNCHANGED <<bound, externalTentative>>

Reports(a) ==
    /\ bound[a.name] # NULL
    /\ ReportDuplicate(a, bound[a.name], IgnoreDuplicates)

\* addDuplicateSymbol, of the existing atom and of the new one.  It lists a
\* path once, and here a file defines a name once.
Listed(a) ==
    IF Reports(a) THEN [duplicates EXCEPT ![a.name] = @ \cup {bound[a.name], a}]
                  ELSE duplicates

\* With -dead_strip the compiler can mark an atom as one that stays, or that
\* stays if it refers to something live, and exports can be roots.
IsRoot(a) ==
    /\ input.deadCodeStrip
    /\ a.dontDeadStrip \/ (a.global /\ input.allGlobalsAreRoots)

IsLiveSupport(a) ==
    input.deadCodeStrip /\ a.liveSupport /\ ~a.dontDeadStrip

\* A set of pointers is iterated by address: a root that comes in while the
\* roots are marked lies before or after the one that the loop is at.
AddRoot(a) ==
    IF IsRoot(a)
    THEN /\ roots' = roots \cup {a}
         /\ toMark' \in (IF pc = "mark" THEN {toMark, toMark \cup {a}} ELSE {toMark})
    ELSE UNCHANGED <<roots, toMark>>

\* Mistake: only references make slots.
ReferredNames(a) == RefsOf(a)

\* Its own name, in addByName, and the names in its fixups.
NamesOf(a) == {a.name} \cup RefsOf(a)

\* doAtom, of the next atom of a file: it enters the symbol table, and so do
\* the names it refers to.
DoAtom ==
    /\ queue # <<>>
    /\ LET a == Head(queue) IN
        /\ atoms' = atoms \cup {a}
        /\ slots' = slots \cup NamesOf(a)
        /\ AddAtom(a)
        /\ duplicates' = Listed(a)
        /\ AddRoot(a)
        /\ liveSupport' = IF IsLiveSupport(a) THEN Append(liveSupport, a)
                                              ELSE liveSupport
    /\ queue' = Tail(queue)
    /\ UNCHANGED <<input, completed, libraryVars, search, pc, loopVars, live,
                   stack, stage, historyVars>>

\* The picker throws, and nobody catches it; or the vector of the live-support
\* atoms moves while deadStripOptimize goes through it, and the linker crashes.
DoAtomFails ==
    /\ queue # <<>>
    /\ LET a == Head(queue) IN
        \/ "throw" \in Picks(a)
        \/ pc = "support" /\ IsLiveSupport(a)
    /\ pc' = "error"
    /\ queue' = <<>> /\ search' = NULL /\ stack' = <<>>
    /\ UNCHANGED <<input, tableVars, completed, libraryVars, loopVars, roots,
                   toMark, liveSupport, live, stage, historyVars>>

-----------------------------------------------------------------------------
(* searchLibraries                                                         *)

Idle == queue = <<>> /\ search = NULL

SearchLibraries(n, dylibs, archives, dataOnly) ==
    search' = [name |-> n, dylibs |-> dylibs, archives |-> archives,
               dataOnly |-> dataOnly, next |-> 1]

\* symbolIsDataDefinition
IsData(f, n) == \E a \in AtomsOf(f) : a.name = n /\ a.data

\* Library i has what is searched for: a dylib exports it, or an archive has
\* it in a member that is not loaded yet.
Responds(i) ==
    LET lib == input.library[searchList[i]] IN
    /\ Provides(lib, search.name)
    /\ IF lib.archive
       THEN /\ search.archives
            /\ lib.toc[search.name] \notin loaded
            /\ search.dataOnly => IsData(lib.toc[search.name], search.name)
       ELSE search.dylibs

Responses == {i \in search.next .. Len(searchList) : Responds(i)}

\* Mistake: the library that comes last is taken.
LastResponse(i) == i \in Responses /\ \A j \in Responses : j <= i

FirstResponse(i) == i \in Responses /\ \A j \in Responses : i <= j

\* A dylib has it: done, unless it is a weak definition, in which case the
\* search goes on for one that is not.
SearchDylib(i) ==
    LET lib == input.library[searchList[i]]
        weak == search.name \in lib.weakExports
    IN  /\ ~lib.archive
        /\ queue' = <<ExportAtom(search.name, weak, i)>>
        /\ search' = IF weak THEN [search EXCEPT !.next = i + 1] ELSE NULL
        /\ UNCHANGED <<libraryVars, historyVars>>

\* addLinkerOptionLibraries: a library that is not loaded already goes to the
\* end of the list; the options are a hash set, so they come in any order.
AddLinkerOptionLibraries(options) ==
    LET new == (options \ linkerOptions) \ Range(searchList) IN
    /\ \E order \in SetToSeqs(new) : searchList' = searchList \o order
    /\ linkerOptions' = linkerOptions \cup options

\* An archive has it: loadMember, which starts with doFile.
SearchArchive(i) ==
    LET lib == input.library[searchList[i]]
        member == lib.toc[search.name]
    IN  /\ lib.archive
        /\ loaded' = loaded \cup {member}
        /\ queue' = member.atoms
        /\ AddLinkerOptionLibraries(member.linkerOptions)
        /\ search' = NULL
        /\ pulled' = Append(pulled, [member |-> member, name |-> search.name,
                                     library |-> i, dylibs |-> search.dylibs,
                                     dataOnly |-> search.dataOnly])
        /\ late' = (late \/ pc \in {"mark", "support"})
        /\ UNCHANGED <<unprocessed, round>>

SearchHit ==
    /\ queue = <<>> /\ search # NULL
    /\ \E i \in Responses :
        /\ FirstResponse(i)
        /\ SearchDylib(i) \/ SearchArchive(i)
    /\ UNCHANGED <<input, tableVars, completed, pc, loopVars, stripVars>>

SearchMiss ==
    /\ queue = <<>> /\ search # NULL
    /\ Responses = {}
    /\ search' = NULL
    /\ UNCHANGED <<input, tableVars, completed, libraryVars, queue, pc,
                   loopVars, stripVars, historyVars>>

-----------------------------------------------------------------------------
(* buildAtomList and addInitialUndefines                                   *)

\* forEachInitialAtom: the next object file of the command line.
InitialFile ==
    /\ pc = "initial" /\ Idle
    /\ current <= Len(input.objects)
    /\ queue' = input.objects[current].atoms
    /\ unprocessed' = unprocessed \cup input.objects[current].linkerOptions
    /\ current' = current + 1
    /\ UNCHANGED <<input, tableVars, completed, searchList, linkerOptions,
                   loaded, search, pc, todo, genCount, stripVars, historyVars>>

\* The libraries that the object files ask for, and the -u options.
InitialFilesDone ==
    /\ pc = "initial" /\ Idle
    /\ current > Len(input.objects)
    /\ AddLinkerOptionLibraries(unprocessed)
    /\ unprocessed' = {}
    /\ completed' = TRUE
    /\ slots' = slots \cup input.undefines
    /\ pc' = "round"
    /\ UNCHANGED <<input, bound, coalesced, duplicates, atoms, externalTentative, loaded,
                   queue, search, loopVars, stripVars, historyVars>>

-----------------------------------------------------------------------------
(* resolveUndefines                                                        *)

\* What a loop of resolve leaves alone.
loopFrame == <<input, tableVars, completed, libraryVars, stripVars, pulled, late>>

\* Mistake: one round is taken to be enough.
EndsAfterOne == genCount # -1

\* Mistake: the rounds go on as long as something is undefined.
EndsWhenDefined == UndefinedNames = {}

\* The last round made no more slots.
RoundsEnd == genCount = Cardinality(slots)

StartRound ==
    /\ pc = "round" /\ Idle
    /\ ~RoundsEnd
    /\ genCount' = Cardinality(slots)
    /\ todo' = UndefinedNames
    /\ round' = Len(searchList)
    /\ pc' = "undefines"
    /\ UNCHANGED <<loopFrame, queue, search, current>>

\* Mistake: a name that an earlier load has defined is searched for again.
SearchAnyway(n) == SearchLibraries(n, TRUE, TRUE, FALSE)

\* The load for an earlier name may also have defined this one.
SearchUndefined(n) ==
    IF bound[n] = NULL THEN SearchLibraries(n, TRUE, TRUE, FALSE)
                       ELSE UNCHANGED search

\* The names are sorted with strcmp.
NextUndefine ==
    /\ pc \in {"undefines", "options"} /\ Idle
    /\ \E n \in todo :
        /\ \A m \in todo : n <= m
        /\ current' = n
        /\ todo' = todo \ {n}
        /\ SearchUndefined(n)
    /\ pc' = IF pc = "undefines" THEN "boundary" ELSE pc
    /\ UNCHANGED <<loopFrame, queue, genCount, round>>

\* What is not found may be the start or the end of a section or a segment.
MakeBoundary ==
    /\ pc = "boundary" /\ Idle
    /\ queue' = IF bound[current] = NULL /\ current \in input.boundaries
                THEN <<BoundaryAtom(current)>> ELSE <<>>
    /\ pc' = "undefines"
    /\ UNCHANGED <<loopFrame, search, loopVars, round>>

\* Archives are searched for overrides of tentative definitions.
UndefinesDone ==
    /\ pc = "undefines" /\ Idle
    /\ todo = {}
    /\ IF externalTentative
       THEN pc' = "tentatives" /\ todo' = {n \in slots : IsTentative(n)}
       ELSE pc' = "round" /\ UNCHANGED todo
    /\ UNCHANGED <<loopFrame, queue, search, current, genCount, round>>

\* A search for a definition of data that overrides a tentative one.
SearchOverride(n) ==
    IF IsTentative(n)
    THEN SearchLibraries(n, input.commonsMode = "overriddenByDylibs", TRUE, TRUE)
    ELSE UNCHANGED search

\* These names are sorted by address.
NextTentative ==
    /\ pc = "tentatives" /\ Idle
    /\ \E n \in todo :
        /\ todo' = todo \ {n}
        /\ SearchOverride(n)
    /\ UNCHANGED <<loopFrame, queue, pc, current, genCount, round>>

TentativesDone ==
    /\ pc = "tentatives" /\ Idle
    /\ todo = {}
    /\ pc' = "round"
    /\ UNCHANGED <<loopFrame, queue, search, loopVars, round>>

\* One more pass if there were linker options in object files.
RoundsDone ==
    /\ pc = "round" /\ Idle
    /\ RoundsEnd
    /\ pc' = "options"
    /\ todo' = IF linkerOptions # {} THEN UndefinedNames ELSE {}
    /\ UNCHANGED <<loopFrame, queue, search, current, genCount, round>>

\* -undefined dynamic_lookup and the like, and -U
ToProxy ==
    IF input.undefinedError THEN UndefinedNames \cap input.allowed
                            ELSE UndefinedNames

MakeProxies ==
    /\ pc = "options" /\ Idle
    /\ todo = {}
    /\ \E names \in SetToSeqs(ToProxy) :
        /\ \A i, j \in DOMAIN names : i < j => names[i] < names[j]
        /\ queue' = [i \in DOMAIN names |-> UndefinedProxyAtom(names[i])]
    /\ pc' = "strip"
    /\ todo' = IF input.deadCodeStrip THEN input.undefines ELSE {}
    /\ UNCHANGED <<loopFrame, search, current, genCount, round>>

-----------------------------------------------------------------------------
(* deadStripOptimize and markLive                                          *)

\* An initial undefine may still be in an archive.
StripUndefine ==
    /\ pc = "strip" /\ Idle
    /\ \E n \in todo :
        /\ current' = n
        /\ todo' = todo \ {n}
        /\ IF bound[n] = NULL THEN SearchLibraries(n, FALSE, TRUE, FALSE)
                              ELSE UNCHANGED search
    /\ pc' = "stripRoot"
    /\ UNCHANGED <<loopFrame, queue, genCount, round>>

StripRoot ==
    /\ pc = "stripRoot" /\ Idle
    /\ roots' = roots \cup ({bound[current]} \ {NULL})
    /\ pc' = "strip"
    /\ UNCHANGED <<input, tableVars, completed, libraryVars, queue, search,
                   loopVars, toMark, liveSupport, live, stack, stage, historyVars>>

\* What the compiler marks is a root too; then the roots are gone through.
StripRooted ==
    /\ pc = "strip" /\ Idle
    /\ input.deadCodeStrip
    /\ todo = {}
    /\ roots' = roots \cup {a \in atoms : a.dontDeadStrip}
    /\ toMark' = roots'
    /\ pc' = "mark"
    /\ UNCHANGED <<input, tableVars, completed, libraryVars, queue, search,
                   loopVars, liveSupport, live, stack, stage, historyVars>>

\* Mistake: the fixups of the atom are not followed.
MarkLiveAlone(a, callers) == stack' = callers /\ live' = live \cup {a}

\* markLive(a), which returns at once if a is live.
MarkLive(a, callers) ==
    IF a \in live
    THEN stack' = callers /\ UNCHANGED live
    ELSE /\ live' = live \cup {a}
         /\ stack' = Append(callers, [atom |-> a, fixup |-> 1])

markFrame ==
    <<input, tableVars, completed, libraryVars, queue, genCount, todo, roots,
      liveSupport, historyVars>>

MarkRoot ==
    /\ pc = "mark" /\ Idle /\ stack = <<>>
    /\ \E r \in toMark :
        /\ toMark' = toMark \ {r}
        /\ MarkLive(r, <<>>)
    /\ UNCHANGED <<markFrame, search, pc, current, stage>>

\* The name the current fixup of markLive refers to.
Target == Last(stack).atom.refs[Last(stack).fixup]

AtFixup == Last(stack).fixup <= Len(Last(stack).atom.refs)

\* A fixup whose name is unbound: the libraries are searched once more.
MarkLook ==
    /\ Idle /\ stack # <<>> /\ AtFixup
    /\ stage = "look"
    /\ SearchUndefined(Target)
    /\ stage' = "found"
    /\ UNCHANGED <<markFrame, pc, current, toMark, live, stack>>

\* So they are when it is bound to a tentative definition.
MarkFound ==
    /\ Idle /\ stack # <<>> /\ AtFixup
    /\ stage = "found"
    /\ SearchOverride(Target)
    /\ stage' = "settled"
    /\ UNCHANGED <<markFrame, pc, current, toMark, live, stack>>

\* The target of the fixup is marked live, in a call of its own.
MarkSettled ==
    /\ Idle /\ stack # <<>> /\ AtFixup
    /\ stage = "settled"
    /\ LET callers == [stack EXCEPT ![Len(stack)].fixup = @ + 1] IN
        IF bound[Target] = NULL
        THEN stack' = callers /\ UNCHANGED live
        ELSE MarkLive(bound[Target], callers)
    /\ stage' = "look"
    /\ UNCHANGED <<markFrame, search, pc, current, toMark>>

MarkReturn ==
    /\ Idle /\ stack # <<>> /\ ~AtFixup
    /\ stack' = Front(stack)
    /\ UNCHANGED <<markFrame, search, pc, current, toMark, live, stage>>

MarkDone ==
    /\ pc = "mark" /\ Idle /\ stack = <<>>
    /\ toMark = {}
    /\ pc' = "support"
    /\ current' = 1
    /\ UNCHANGED <<markFrame, search, toMark, live, stack, stage>>

\* Mistake: it is enough that the target is bound.
RefersToBound(a) == \E n \in RefsOf(a) : bound[n] # NULL

RefersToLive(a) == \E n \in RefsOf(a) : bound[n] \in live

\* Live-support atoms, in the order they came in: live if they refer to
\* something live.
NextSupport ==
    /\ pc = "support" /\ Idle /\ stack = <<>>
    /\ current <= Len(liveSupport)
    /\ current' = current + 1
    /\ LET a == liveSupport[current] IN
        IF a \notin live /\ RefersToLive(a)
        THEN MarkLive(a, <<>>)
        ELSE UNCHANGED <<live, stack>>
    /\ UNCHANGED <<markFrame, search, pc, toMark, stage>>

\* What NotLive removes.
NotLive(a) == ~(a \in live \/ a.dontDeadStrip)

Sweep ==
    /\ pc = "support" /\ Idle /\ stack = <<>>
    /\ current > Len(liveSupport)
    /\ atoms' = {a \in atoms : ~NotLive(a)}
    /\ pc' = "check"
    /\ UNCHANGED <<input, slots, bound, coalesced, duplicates,
                   externalTentative, completed, libraryVars, queue, search,
                   loopVars, stripVars, historyVars>>

NoStrip ==
    /\ pc = "strip" /\ Idle
    /\ ~input.deadCodeStrip
    /\ pc' = "check"
    /\ UNCHANGED <<loopFrame, queue, search, loopVars, round>>

-----------------------------------------------------------------------------
(* The end of resolve                                                      *)

\* liveUndefines
LiveUndefines ==
    {n \in slots :
        /\ bound[n] = NULL
        /\ \/ n \in input.undefines
           \/ \E a \in atoms \cap live : n \in RefsOf(a)}

Unresolvable == IF input.deadCodeStrip THEN LiveUndefines ELSE UndefinedNames

\* checkUndefines: "symbol(s) not found"
CheckUndefines ==
    /\ pc = "check" /\ Idle
    /\ IF Unresolvable # {} /\ input.undefinedError
       THEN pc' = "error" /\ UNCHANGED todo
       ELSE /\ pc' = "collisions"
            /\ todo' = {n \in slots : IsTentative(n) /\ bound[n].global}
    /\ UNCHANGED <<loopFrame, queue, search, current, genCount, round>>

\* checkDylibSymbolCollisions: tentative definitions against dylibs
NextCollision ==
    /\ pc = "collisions" /\ Idle
    /\ \E n \in todo :
        /\ todo' = todo \ {n}
        /\ SearchLibraries(n, TRUE, FALSE, FALSE)
    /\ UNCHANGED <<loopFrame, queue, pc, current, genCount, round>>

\* With -dead_strip a duplicate that nobody uses is forgiven.
Reported(n) ==
    /\ duplicates[n] # {}
    /\ input.deadCodeStrip => duplicates[n] \cap live # {}

\* removeCoalescedAwayAtoms, and checkDuplicateSymbols at the very end
Finish ==
    /\ pc = "collisions" /\ Idle
    /\ todo = {}
    /\ atoms' = atoms \ coalesced
    /\ pc' = IF \E n \in Names : Reported(n) THEN "error" ELSE "done"
    /\ UNCHANGED <<input, slots, bound, coalesced, duplicates,
                   externalTentative, completed, libraryVars, queue, search,
                   loopVars, stripVars, historyVars>>

Resolved == pc \in {"done", "error"} /\ UNCHANGED vars

Next ==
    \/ DoAtom \/ DoAtomFails \/ SearchHit \/ SearchMiss
    \/ InitialFile \/ InitialFilesDone
    \/ StartRound \/ NextUndefine \/ MakeBoundary \/ UndefinesDone
    \/ NextTentative \/ TentativesDone \/ RoundsDone \/ MakeProxies
    \/ StripUndefine \/ StripRoot \/ StripRooted \/ NoStrip
    \/ MarkRoot \/ MarkLook \/ MarkFound \/ MarkSettled \/ MarkReturn \/ MarkDone
    \/ NextSupport \/ Sweep
    \/ CheckUndefines \/ NextCollision \/ Finish
    \/ Resolved

Spec == Init /\ [][Next]_vars

\* One thread runs resolve to its end.
FairSpec == Spec /\ WF_vars(Next)

-----------------------------------------------------------------------------
(* Properties                                                              *)

Phases ==
    {"initial", "round", "undefines", "boundary", "tentatives", "options",
     "strip", "stripRoot", "mark", "support", "check", "collisions", "done",
     "error"}

\* The calls of markLive, and the members pulled in.
MarkLiveCalls == [atom : AllAtoms, fixup : Nat \ {0}]
Pulls ==
    [member : Files, name : Names, library : Nat \ {0}, dylibs : BOOLEAN,
     dataOnly : BOOLEAN]

\* The state of a link is well formed: what is in a slot is an atom of that
\* name, what is marked is an atom that doAtom has seen, a loop goes through
\* names that have a slot, pending calls are calls that the code makes.
TypeOK ==
    /\ input \in Inputs
    /\ slots \subseteq Names
    /\ bound \in [Names -> AllAtoms \cup {NULL}]
    /\ \A n \in Names : bound[n] # NULL => n \in slots /\ bound[n].name = n
    /\ coalesced \subseteq AllAtoms /\ atoms \subseteq AllAtoms
    /\ duplicates \in [Names -> SUBSET AllAtoms]
    /\ externalTentative \in BOOLEAN
    /\ completed \in BOOLEAN
    /\ searchList \in Seq(Libraries)
    /\ unprocessed \subseteq Libraries /\ linkerOptions \subseteq Libraries
    /\ loaded \subseteq Files
    /\ queue \in Seq(AllAtoms)
    /\ search \in Searches \cup {NULL}
    /\ search # NULL => search.name \in slots /\ search.next <= Len(searchList) + 1
    /\ pc \in Phases
    /\ todo \subseteq slots
    /\ current \in Nat
    /\ genCount \in -1 .. Cardinality(slots)
    /\ roots \subseteq AllAtoms
    /\ toMark \subseteq roots
    /\ liveSupport \in Seq(Atoms)
    /\ live \subseteq atoms \cup coalesced
    /\ stack \in Seq(MarkLiveCalls)
    /\ \A k \in DOMAIN stack : stack[k].atom \in live
    /\ stage \in {"look", "found", "settled"}
    /\ pulled \in Seq(Pulls)
    /\ round \in 0 .. Len(searchList)
    /\ late \in BOOLEAN

\* The file of the i-th library of the search list.
LibraryFile(i) == input.library[searchList[i]]

\* "ld will continually search a static library while linking": when the
\* rounds of resolveUndefines end, no name is undefined that a library defines
\* which was there when the last round began.  A member found late in a round
\* must not refer to names that nobody looks for any more.
RoundsExhaustLibraries ==
    [][pc = "round" /\ pc' = "options" =>
        \A n \in UndefinedNames, i \in 1 .. round :
            ~Provides(LibraryFile(i), n)]_vars

\* The same of the whole of resolveUndefines, linker options included.  It
\* does not hold: the pass that searches the auto-linked libraries is not
\* repeated for the names that the members it loads refer to.
LibrariesExhausted ==
    pc = "check" /\ Idle /\ ~input.deadCodeStrip =>
        \A n \in UndefinedNames, i \in DOMAIN searchList :
            ~Provides(LibraryFile(i), n)

\* The definitions of a name in a set of files.
DefinitionsIn(files, n) == {a \in UNION {AtomsOf(f) : f \in files} : a.name = n}

\* The object files that were there before the i-th member was pulled in.
FilesBefore(i) ==
    Range(input.objects) \cup {pulled[j].member : j \in 1 .. i - 1}

HasAbsolute(defs) == \E a \in defs : a.definition = "absolute"

\* Definitions that the linker may override with data: tentative ones.  (With
\* an absolute one among them any may have lost to a tentative one: pickAtom
\* lets the ordinals decide.)
Overridable(defs) ==
    HasAbsolute(defs) \/ \A a \in defs : a.definition = "tentative"

\* "ld will only pull .o files out of a static library if needed to resolve
\* some symbol reference": no file that was there already defines the name for
\* which a member is pulled in, unless the member overrides a tentative
\* definition with data.
NeededWhenPulled ==
    \A i \in DOMAIN pulled :
        LET defs == DefinitionsIn(FilesBefore(i), pulled[i].name)
        IN  defs # {} => pulled[i].dataOnly /\ Overridable(defs)

\* A library that a search, made when there were the definitions defs, comes to
\* and goes past: it does not have the name, except for a weak definition in a
\* dylib; or for a dylib, if the search is in archives only; or for code, if
\* data is searched for that overrides a tentative definition.
GoesPast(lib, s, defs) ==
    Provides(lib, s.name) =>
        IF lib.archive
        THEN s.dataOnly /\ (IsData(lib.toc[s.name], s.name) => HasAbsolute(defs))
        ELSE s.name \in lib.weakExports \/ ~s.dylibs

\* "Both dynamic and static libraries are searched as they appear on the
\* command line": a member is pulled in for a name only if the search can go
\* past all the libraries before.
SearchedInOrder ==
    \A i \in DOMAIN pulled : \A j \in 1 .. pulled[i].library - 1 :
        GoesPast(LibraryFile(j), pulled[i],
                 DefinitionsIn(FilesBefore(i), pulled[i].name))

\* "mark all roots as live, and all atoms they reference": what is linked is
\* closed under references, with dead stripping or without.  It does not hold:
\* a member that is loaded while atoms are marked can override a weak atom
\* that is marked already, or can bring a root that the loop is past.
KeptClosed ==
    pc = "done" =>
        \A a \in atoms : \A n \in RefsOf(a) : bound[n] \in atoms

\* It holds if no member was loaded so late.
KeptClosedUnlessLate == late \/ KeptClosed

\* S holds the roots, what its atoms refer to by one of the names, and the
\* live-support atoms that were found to refer to it.
KeepsAlive(S, names) ==
    /\ roots \subseteq S
    /\ \A a \in S, n \in names :
        n \in RefsOf(a) /\ bound[n] # NULL => bound[n] \in S
    /\ \A a \in Range(liveSupport) \cap live :
        (\E n \in RefsOf(a) \cap names : bound[n] \in S) => a \in S

\* Dead stripping removes all that is not needed: what is live is in every set
\* that keeps the roots alive.  (With -commons use_dylibs a live-support atom can
\* be kept for a tentative definition that the search made for its own fixup
\* then replaces with that of a dylib.)
NothingUnreachable ==
    (/\ pc = "check" /\ input.deadCodeStrip /\ ~late
     /\ input.commonsMode # "overriddenByDylibs") =>
        \A S \in SUBSET live : KeepsAlive(S, Names) => S = live

\* "atoms that need to be live if they reference something live": every
\* live-support atom that refers to a live atom is live.  It does not hold:
\* they are gone through once, so one that refers to a later one is dropped.
LiveSupportIsLive ==
    pc = "check" =>
        \A a \in Range(liveSupport) : RefersToLive(a) => a \in live

\* The rounds, the searches and the recursion of markLive all end.
Termination == <>(pc \in {"done", "error"})
-----------------------------------------------------------------------------
(* The inductive invariant                                                 *)

BoundAtoms == {bound[n] : n \in Names} \ {NULL}

Swept == {"check", "collisions", "done", "error"}

\* What holds at a point of resolve.
PhaseInv ==
    /\ pc = "initial" =>
        /\ search = NULL /\ pulled = <<>> /\ genCount = -1
        /\ current \in 1 .. Len(input.objects) + 1
    /\ pc \notin {"initial", "error"} => input.undefines \subseteq slots
    /\ pc \in {"boundary", "stripRoot"} => current \in slots
    /\ pc = "support" => current # 0
    /\ stack # <<>> => pc \in {"mark", "support"}

\* What an atom refers to has a slot; and before atoms are swept away, all
\* that is bound, is a root or supports others is an atom doAtom has seen.
SeenInv ==
    /\ \A a \in atoms \cup coalesced \cup BoundAtoms : RefsOf(a) \subseteq slots
    /\ pc \notin Swept =>
        BoundAtoms \cup roots \cup Range(liveSupport) \subseteq atoms \cup coalesced

\* The object files and members whose atoms went to doAtom.
ObjectsRead ==
    IF pc = "initial" THEN {input.objects[k] : k \in 1 .. current - 1}
                      ELSE Range(input.objects)
Pulled == {pulled[i].member : i \in DOMAIN pulled}
FilesIn == ObjectsRead \cup Pulled

\* An atom that doAtom has seen left its name bound, and not to something that
\* gives way to data, unless the atom itself does.
Settled(a) ==
    /\ bound[a.name] # NULL
    /\ bound[a.name].definition \in {"tentative", "proxy"} =>
        a.definition = "tentative" \/ HasAbsolute(DefinitionsIn(FilesIn, a.name))

FilesInv ==
    /\ loaded = Pulled
    /\ pc # "error" =>
        /\ \A f \in FilesIn : \A a \in AtomsOf(f) : a \in Range(queue) \/ Settled(a)
        /\ \A a \in BoundAtoms \cup Range(queue) :
            a.definition = "absolute" => HasAbsolute(DefinitionsIn(FilesIn, a.name))

\* A search that may pull in a member is for a name that no file has defined;
\* it can go past the libraries it has left behind; and if it left one behind,
\* that one had a definition.
SearchInv ==
    search # NULL =>
        /\ search.archives =>
            LET defs == DefinitionsIn(FilesIn, search.name)
            IN  /\ defs # {} => search.dataOnly /\ Overridable(defs)
                /\ \A j \in 1 .. search.next - 1 :
                    GoesPast(LibraryFile(j), search, defs)
        /\ search.next > 1 =>
            \/ bound[search.name] # NULL
            \/ \E a \in Range(queue) : a.name = search.name

Rounds == {"round", "undefines", "boundary", "tentatives"}

\* As long as a round has made no slot, a name that is still undefined is one
\* that the round has yet to look at, or looks at now, or that none of the
\* libraries has.
RoundInv ==
    pc \in Rounds =>
        /\ search # NULL /\ bound[search.name] = NULL =>
            search.dylibs /\ search.archives /\ ~search.dataOnly
        /\ RoundsEnd => \A n \in UndefinedNames :
            \/ pc \in {"undefines", "boundary"} /\ n \in todo
            \/ search # NULL /\ search.name = n
            \/ \E a \in Range(queue) : a.name = n
            \/ \A i \in 1 .. round : ~Provides(LibraryFile(i), n)

IInv ==
    /\ TypeOK
    /\ PhaseInv
    /\ SeenInv
    /\ FilesInv
    /\ SearchInv
    /\ RoundInv

-----------------------------------------------------------------------------
(* What dead stripping keeps: a second invariant, on top of the first      *)

\* What is bound is not coalesced away, because what goes to doAtom is new:
\* atoms of a file come once, and a search that goes on after a weak definition
\* in a dylib is in the libraries after it.
FreshInv ==
    /\ BoundAtoms \cap coalesced = {}
    /\ \A j, k \in DOMAIN queue : queue[j] = queue[k] => j = k
    /\ Range(queue) \cap BoundAtoms = {}
    /\ Pulled \subseteq Members(input)
    /\ \A a \in (BoundAtoms \cup Range(queue)) \cap Atoms :
        \E f \in FilesIn : a \in AtomsOf(f)
    /\ search # NULL =>
        /\ \A a \in Range(queue) : a.ordinal < search.next
        /\ bound[search.name] # NULL =>
            \/ bound[search.name].definition = "tentative"
            \/ bound[search.name].ordinal < search.next

\* checkDylibSymbolCollisions is the last to look for definitions, in dylibs.
CollisionInv ==
    pc = "collisions" =>
        /\ \A n \in todo : IsTentative(n)
        /\ search # NULL => search.name \notin todo /\ ~search.archives
        /\ \A a \in Range(queue) : a \in MadeAtoms /\ a.name \notin todo

Marking == pc \in {"mark", "support"}

\* markLive has followed the k-th fixup of a, or it will: a call of it has the
\* fixup before it, or the name is the one that the last call looks at.
Followed(a, k) ==
    \/ bound[a.refs[k]] \in live \cup {NULL}
    \/ \E j \in DOMAIN stack : stack[j].atom = a /\ stack[j].fixup <= k
    \/ stack # <<>> /\ AtFixup /\ a.refs[k] = Target

\* As long as no member is loaded, a search is for the fixup of the last call
\* and brings what a dylib has, and what is marked is followed up.
MarkingInv ==
    /\ ~Marking /\ pc \notin Swept => live = {}
    /\ Marking /\ ~late =>
        /\ ~Idle => stack # <<>> /\ AtFixup /\ stage # "look"
        /\ search # NULL => search.name = Target
        /\ \A a \in Range(queue) : a \in MadeAtoms /\ a.name = Target
        /\ {a \in atoms : a.dontDeadStrip} \subseteq roots
        /\ roots \subseteq live \cup toMark
        /\ pc = "support" => roots \subseteq live
        /\ \A a \in live : \A k \in DOMAIN a.refs : Followed(a, k)

Proxied == {"strip", "stripRoot", "mark", "support", "check"}

\* If names may be undefined, none is left without a proxy.
ProxiesInv ==
    pc \in Proxied /\ ~late /\ ~input.undefinedError =>
        /\ Range(queue) \subseteq MadeAtoms
        /\ UndefinedNames \subseteq {a.name : a \in Range(queue)}
        /\ ~Marking => search = NULL

\* What is left after the sweep, or without one, is closed.
KeptInv ==
    pc \in {"check", "collisions", "done"} /\ ~late =>
        /\ \A a \in atoms : \A n \in RefsOf(a) : bound[n] \in atoms \cup {NULL}
        /\ pc # "collisions" => Idle
        /\ pc = "check" /\ input.deadCodeStrip => atoms \subseteq live
        /\ pc # "check" => \A a \in atoms : \A n \in RefsOf(a) : bound[n] # NULL

\* The name for which markLive searches a definition: dylibs can have several.
Moving == IF Marking /\ stage = "found" /\ ~Idle THEN {Target} ELSE {}

\* What is live is needed, by what is bound already.
ReachInv ==
    ~late /\ input.commonsMode # "overriddenByDylibs" =>
        /\ Marking /\ stage = "settled" =>
            queue = <<>> /\ (search # NULL => ~search.dylibs)
        /\ Marking \/ pc = "check" =>
            \A S \in SUBSET AllAtoms : KeepsAlive(S, Names \ Moving) => live \subseteq S

SInv == FreshInv /\ CollisionInv /\ MarkingInv /\ ProxiesInv /\ KeptInv /\ ReachInv
=============================================================================
