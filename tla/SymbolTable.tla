----------------------------- MODULE SymbolTable -----------------------------
(***************************************************************************)
(* The linker's symbol table (ld64/src/ld/SymbolTable.cpp): one growing    *)
(* table of binding slots, a map from names to slots, and maps from the    *)
(* content of literals to slots.  Every reference of the linked program is *)
(* bound to a slot, so what the slot holds in the end is what the program  *)
(* gets.                                                                   *)
(*                                                                         *)
(* The resolver offers atoms one by one, in any order, and refers to names *)
(* and literals that may not be offered yet.  With -dead_strip it computes *)
(* which atoms are live and, if there is bitcode, sweeps the dead ones out *)
(* of the table before link time optimisation offers more atoms.           *)
(*                                                                         *)
(* An atom is a record with the attributes NameCollision reads, its entry  *)
(* (the name, or for a literal the content it is coalesced by: the table   *)
(* and what the table's hash and equality functions look at) and the path  *)
(* of its file.                                                            *)
(***************************************************************************)
EXTENDS NameCollision, Sequences, FiniteSets

CONSTANTS
    Names,          \* symbol names
    Contents,       \* contents that literals are coalesced by
    Swept,          \* the contents of tables removeDeadAtoms goes through
    Atoms,          \* the atoms that may be offered
    Locals,         \* atoms of group comdats that no table knows
    Subordinates,   \* atom -> the locals its group-subordinate fixups target
    OptionSets,     \* the command lines that are considered
    NULL,           \* the null pointer
    MaxAtoms        \* bound on the number of atoms offered in a behaviour

Entries == Names \cup Contents

ASSUME EntriesAssumption ==
    /\ Names \cap Contents = {}
    /\ Swept \subseteq Contents
ASSUME AtomsAssumption ==
    /\ \A a \in Atoms : IsAttributed(a) /\ a.entry \in Entries
    /\ NULL \notin Atoms
ASSUME GroupsAssumption ==
    /\ Locals \cap Atoms = {}
    /\ Subordinates \in [Atoms \cup Locals -> SUBSET Locals]
ASSUME OptionsAssumption ==
    \A o \in OptionSets :
        /\ o.commonsMode \in CommonsModes
        /\ o.deadCodeStrip \in BOOLEAN
        /\ o.allowDeadDuplicates \in BOOLEAN
        /\ o.bitcode \in BOOLEAN    \* some input file holds bitcode

VARIABLES
    options,            \* the command line of this link
    bindingTable,       \* _indirectBindingTable
    slotOf,             \* entry -> its slot, 0 when no table has the entry
    keyAtom,            \* content -> the atom that is the key of its entry
    coalesced,          \* the atoms marked coalesced away
    duplicates,         \* _duplicateSymbols: name -> atoms
    externalTentative,  \* _hasExternalTentativeDefinitions
    completed,          \* the resolver's _completedInitialObjectFiles
    live,               \* the atoms marked live by the last dead strip
    phase,              \* how far the link is
    offered,            \* history: the atoms add has been called with
    rivals,             \* history: those offered since their entry was made
    strict              \* history: those offered when duplicates count

tableVars == <<bindingTable, slotOf, keyAtom>>
historyVars == <<offered, rivals, strict>>
vars == <<options, tableVars, coalesced, duplicates, externalTentative,
          completed, live, phase, historyVars>>

Phases == {"initial", "stripped", "lto", "relinked", "ok", "error"}

TypeOK ==
    /\ options \in OptionSets
    /\ bindingTable \in Seq(Atoms \cup {NULL})
    /\ slotOf \in [Entries -> 0 .. Len(bindingTable)]
    /\ keyAtom \in [Contents -> Atoms \cup {NULL}]
    /\ coalesced \subseteq Atoms \cup Locals
    /\ duplicates \in [Names -> SUBSET Atoms]
    /\ externalTentative \in BOOLEAN
    /\ completed \in BOOLEAN
    /\ live \subseteq Atoms
    /\ phase \in Phases
    /\ offered \subseteq Atoms
    /\ rivals \subseteq offered
    /\ strict \subseteq offered

Init ==
    /\ options \in OptionSets
    /\ bindingTable = <<>>
    /\ slotOf = [e \in Entries |-> 0]
    /\ keyAtom = [k \in Contents |-> NULL]
    /\ coalesced = {}
    /\ duplicates = [n \in Names |-> {}]
    /\ externalTentative = FALSE
    /\ completed = FALSE
    /\ live = {}
    /\ phase = "initial"
    /\ offered = {} /\ rivals = {} /\ strict = {}

-----------------------------------------------------------------------------
(* Slots                                                                   *)

\* The atom an entry is bound to, NULL when there is none.
Bound(e) == IF slotOf[e] = 0 THEN NULL ELSE bindingTable[slotOf[e]]

BoundAtoms == {Bound(e) : e \in Entries} \ {NULL}

\* Mistake: the size of the table is read after the new slot was pushed.
BindPastEnd(e, x) ==
    IF slotOf[e] = 0
    THEN /\ bindingTable' = Append(bindingTable, x)
         /\ slotOf' = [slotOf EXCEPT ![e] = Len(bindingTable) + 2]
    ELSE /\ bindingTable' = [bindingTable EXCEPT ![slotOf[e]] = x]
         /\ UNCHANGED slotOf

\* findSlotForName and findSlotForContent find or make a slot; the caller then
\* puts atom x into it.
BindEntry(e, x) ==
    IF slotOf[e] = 0
    THEN /\ bindingTable' = Append(bindingTable, x)
         /\ slotOf' = [slotOf EXCEPT ![e] = Len(bindingTable) + 1]
    ELSE /\ bindingTable' = [bindingTable EXCEPT ![slotOf[e]] = x]
         /\ UNCHANGED slotOf

\* Mistake: only the atoms the signature atom itself names are removed.
DirectGroup(a) == Subordinates[a]

\* The locals that go away with an atom: what markCoalescedAway recurses into.
Group(a) ==
    {x \in Locals :
        \A S \in SUBSET Locals :
            /\ Subordinates[a] \subseteq S
            /\ \A y \in S : Subordinates[y] \subseteq S
            => x \in S}

MarkCoalescedAway(a) == coalesced' = coalesced \cup {a} \cup Group(a)

-----------------------------------------------------------------------------
(* add: the resolver's doAtom offers an atom that is not local to its file *)

Adding == phase \in {"initial", "lto"}

\* doAtom's argument for ignoreDuplicates
IgnoreDuplicates ==
    options.deadCodeStrip /\ (completed \/ options.allowDeadDuplicates)

\* The atoms offered or referred to so far.
KnownAtoms == offered \cup ((BoundAtoms \cup coalesced) \cap Atoms)

\* An atom is offered once.
Offer(a) ==
    /\ Adding
    /\ a \notin offered
    /\ Cardinality(KnownAtoms \cup {a}) <= MaxAtoms
    /\ offered' = offered \cup {a}
    /\ UNCHANGED <<options, completed, live>>

\* The history of the entry it is added to.
Contend(a) ==
    /\ rivals' = rivals \cup {a}
    /\ strict' = IF IgnoreDuplicates THEN strict ELSE strict \cup {a}

Choices(a) ==
    PickAtom(a, Bound(a.entry), IgnoreDuplicates, options.commonsMode)

\* Mistake: only the existing atom is entered into the list of duplicates.
AddExistingDuplicate(a, b) == duplicates[a.entry] \cup {b}

\* addDuplicateSymbol, of the existing atom b and then of the new atom a: a
\* file that is listed already is not listed again.
AddDuplicateSymbol(a, b) ==
    LET atoms == duplicates[a.entry]
        Listed(S, x) == \E y \in S : y.path = x.path
        Add(S, x) == IF Listed(S, x) THEN S ELSE S \cup {x}
    IN  Add(Add(atoms, b), a)

NoteDuplicate(a) ==
    duplicates' =
        IF ReportDuplicate(a, Bound(a.entry), IgnoreDuplicates)
        THEN [duplicates EXCEPT ![a.entry] = AddDuplicateSymbol(a, Bound(a.entry))]
        ELSE duplicates

NoteTentative(a) ==
    externalTentative' =
        (externalTentative \/ (a.global /\ a.definition = "tentative"))

\* addByName, the name has no atom yet.
AddFirst(a) ==
    /\ a.entry \in Names
    /\ Bound(a.entry) = NULL
    /\ Offer(a) /\ Contend(a)
    /\ BindEntry(a.entry, a)
    /\ NoteTentative(a)
    /\ UNCHANGED <<keyAtom, coalesced, duplicates, phase>>

\* addByName, the new atom replaces the existing one.
AddReplacing(a) ==
    /\ a.entry \in Names
    /\ Bound(a.entry) # NULL
    /\ Offer(a) /\ Contend(a)
    /\ "A" \in Choices(a)
    /\ NoteDuplicate(a)
    /\ BindEntry(a.entry, a)
    /\ MarkCoalescedAway(Bound(a.entry))
    /\ NoteTentative(a)
    /\ UNCHANGED <<keyAtom, phase>>

\* addByName, the existing atom stays.
AddKeeping(a) ==
    /\ a.entry \in Names
    /\ Bound(a.entry) # NULL
    /\ Offer(a) /\ Contend(a)
    /\ "B" \in Choices(a)
    /\ NoteDuplicate(a)
    /\ MarkCoalescedAway(a)
    /\ UNCHANGED <<tableVars, externalTentative, phase>>

\* addByName, the picker throws: a definition in a dylib conflicts with a
\* tentative one or with one in another dylib.
AddThrowing(a) ==
    /\ a.entry \in Names
    /\ Bound(a.entry) # NULL
    /\ Offer(a)
    /\ "throw" \in Choices(a)
    /\ phase' = "error"
    /\ UNCHANGED <<tableVars, coalesced, duplicates, externalTentative,
                   rivals, strict>>

\* addByContent and addByReferences, no atom has the content yet.
AddContentFirst(a) ==
    /\ a.entry \in Contents
    /\ slotOf[a.entry] = 0
    /\ Offer(a) /\ Contend(a)
    /\ BindEntry(a.entry, a)
    /\ keyAtom' = [keyAtom EXCEPT ![a.entry] = a]
    /\ UNCHANGED <<coalesced, duplicates, externalTentative, phase>>

\* Mistake: an atom of the same alignment replaces the existing one.
NoLessAligned(a, b) == a.alignment >= b.alignment

\* Mistake: the existing atom always stays.
NeverMoreAligned(a, b) == FALSE

\* addByContent and addByReferences use the existing atom unless the new one
\* has greater alignment requirements.
MoreAligned(a, b) == a.alignment > b.alignment

\* The new atom takes over the slot, but not the key of the entry.
AddContentReplacing(a) ==
    /\ a.entry \in Contents
    /\ slotOf[a.entry] # 0
    /\ MoreAligned(a, Bound(a.entry))
    /\ Offer(a) /\ Contend(a)
    /\ BindEntry(a.entry, a)
    /\ MarkCoalescedAway(Bound(a.entry))
    /\ UNCHANGED <<keyAtom, duplicates, externalTentative, phase>>

\* The existing atom stays; it is the new atom itself when a reference made
\* the entry before the atom was offered.
AddContentKeeping(a) ==
    /\ a.entry \in Contents
    /\ slotOf[a.entry] # 0
    /\ ~MoreAligned(a, Bound(a.entry))
    /\ Offer(a) /\ Contend(a)
    /\ IF Bound(a.entry) = a THEN UNCHANGED coalesced ELSE MarkCoalescedAway(a)
    /\ UNCHANGED <<tableVars, duplicates, externalTentative, phase>>

Add(a) ==
    \/ AddFirst(a) \/ AddReplacing(a) \/ AddKeeping(a) \/ AddThrowing(a)
    \/ AddContentFirst(a) \/ AddContentReplacing(a) \/ AddContentKeeping(a)

-----------------------------------------------------------------------------
(* References                                                              *)

\* findSlotForName, from a reference or an initial undefine: a new slot is
\* empty.
FindSlotForName(n) ==
    /\ Adding
    /\ slotOf[n] = 0
    /\ BindEntry(n, NULL)
    /\ UNCHANGED <<options, keyAtom, coalesced, duplicates, externalTentative,
                   completed, live, phase, historyVars>>

\* findSlotForContent and findSlotForReferences, from a reference to an atom
\* of the same file: a new slot holds the atom, offered or not.
FindSlotForContent(a) ==
    /\ Adding
    /\ a.entry \in Contents
    /\ a \notin offered
    /\ slotOf[a.entry] = 0
    /\ Cardinality(KnownAtoms \cup {a}) <= MaxAtoms
    /\ BindEntry(a.entry, a)
    /\ keyAtom' = [keyAtom EXCEPT ![a.entry] = a]
    /\ UNCHANGED <<options, coalesced, duplicates, externalTentative,
                   completed, live, phase, historyVars>>

-----------------------------------------------------------------------------
(* The rest of the link, as far as it concerns the table                   *)

\* A file's atoms are all offered: none that was referred to is left out.
AllOffered == KnownAtoms = offered

\* buildAtomList is done: from now on atoms come from libraries.
CompleteInitialObjectFiles ==
    /\ phase = "initial" /\ ~completed
    /\ AllOffered
    /\ completed' = TRUE
    /\ UNCHANGED <<options, tableVars, coalesced, duplicates,
                   externalTentative, live, phase, historyVars>>

\* The entries removeDeadAtoms erases: a name when its atom is dead, a content
\* of a table it goes through when the key of the entry is dead.
DeadEntries(alive) ==
    {n \in Names : Bound(n) # NULL /\ Bound(n) \notin alive}
        \cup {k \in Swept : slotOf[k] # 0 /\ keyAtom[k] \notin alive}

\* removeDeadAtoms; the slot of an erased name is emptied, that of an erased
\* content is not.
RemoveDeadAtoms(alive) ==
    LET dead == DeadEntries(alive)
        emptied == {slotOf[n] : n \in dead \cap Names}
    IN  /\ bindingTable' = [s \in DOMAIN bindingTable |->
                               IF s \in emptied THEN NULL ELSE bindingTable[s]]
        /\ slotOf' = [e \in Entries |-> IF e \in dead THEN 0 ELSE slotOf[e]]
        /\ keyAtom' = [k \in Contents |->
                          IF k \in dead THEN NULL ELSE keyAtom[k]]
        /\ rivals' = {a \in rivals : a.entry \notin dead}

\* deadStripOptimize: any atoms may turn out live, those that were coalesced
\* away too, because a root stays a root.  With bitcode the first dead strip
\* ends with removeDeadAtoms.
DeadStripOptimize ==
    /\ phase = "initial" /\ completed /\ AllOffered
    /\ phase' = "stripped"
    /\ IF options.deadCodeStrip
       THEN \E alive \in SUBSET offered :
                /\ live' = alive
                /\ IF options.bitcode
                   THEN RemoveDeadAtoms(alive)
                   ELSE UNCHANGED <<tableVars, rivals>>
       ELSE UNCHANGED <<live, tableVars, rivals>>
    /\ UNCHANGED <<options, coalesced, duplicates, externalTentative,
                   completed, offered, strict>>

\* linkTimeOptimize has offered its atoms and strips again, without a sweep.
\* An atom can be live that was live before or whose entry was not erased.
DeadStripAgain ==
    /\ phase = "lto" /\ AllOffered
    /\ phase' = "relinked"
    /\ IF options.deadCodeStrip
       THEN \E alive \in SUBSET (live \cup rivals) : live' = alive
       ELSE UNCHANGED live
    /\ UNCHANGED <<options, tableVars, coalesced, duplicates,
                   externalTentative, completed, historyVars>>

\* The duplicates checkDuplicateSymbols reports: with -dead_strip those with a
\* live atom in the list.
Reported(n) ==
    /\ duplicates[n] # {}
    /\ options.deadCodeStrip => duplicates[n] \cap live # {}

\* checkDuplicateSymbols throws if it reports anything.  It runs before link
\* time optimisation, if there is bitcode, and at the end of resolve.
CheckDuplicateSymbols ==
    /\ phase \in {"stripped", "relinked"}
    /\ phase' = IF \E n \in Names : Reported(n) THEN "error"
                ELSE IF phase = "stripped" /\ options.bitcode THEN "lto"
                ELSE "ok"
    /\ UNCHANGED <<options, tableVars, coalesced, duplicates,
                   externalTentative, completed, live, historyVars>>

\* The link is over.
Linked ==
    /\ phase \in {"ok", "error"}
    /\ UNCHANGED vars

Next ==
    \/ \E a \in Atoms : Add(a) \/ FindSlotForContent(a)
    \/ \E n \in Names : FindSlotForName(n)
    \/ CompleteInitialObjectFiles
    \/ DeadStripOptimize
    \/ DeadStripAgain
    \/ CheckDuplicateSymbols
    \/ Linked

Spec == Init /\ [][Next]_vars

-----------------------------------------------------------------------------
(* Properties                                                              *)

\* Every atom offered for an entry that still exists is either bound to the
\* entry or coalesced away, and an atom that was coalesced away is never bound
\* again: neither by a later add (addByName, addByContent) nor by the add of
\* an atom that a reference had put into its slot before it was offered.
BoundOrCoalesced ==
    /\ \A a \in rivals : a \in coalesced \/ a = Bound(a.entry)
    /\ BoundAtoms \cap coalesced = {}

\* A group comdat goes as a whole (markCoalescedAway): what an atom has as its
\* subordinates is removed when the atom is, at any depth, and never while the
\* atom is in use.
GroupsStayWhole ==
    \A x \in Atoms \cup Locals :
        IF x \in coalesced THEN Subordinates[x] \subseteq coalesced
                           ELSE Subordinates[x] \cap coalesced = {}

\* The definitions a name has been offered, and their kinds.
DefinitionsOf(n) == {a \in rivals : a.entry = n}
KindsOf(n) == {a.definition : a \in DefinitionsOf(n)}

\* Whatever the order in which definitions of a name are offered, the name is
\* bound to one that ranks at least as high as all the others, unless there
\* are duplicates.  (A tentative definition of a name that also has an
\* absolute one is the case where pickAtom depends on the order.)
StrongestBound ==
    \A n \in Names :
        /\ duplicates[n] = {}
        /\ ~({"tentative", "absolute"} \subseteq KindsOf(n))
        => \A a \in DefinitionsOf(n) :
               AtLeast(Bound(n), a, options.commonsMode)

\* Every reference to a literal gets its strictest alignment: the atom bound
\* to a content (addByContent, addByReferences) is no less aligned than any
\* atom offered with that content.
StrictestAlignment ==
    \A a \in rivals :
        a.entry \in Contents => Bound(a.entry).alignment >= a.alignment

Strong(a) == a.definition = "regular" /\ ~a.weak /\ ~a.machHeader

\* The strong definitions of a name offered while duplicates count.
StrongDefinitionsOf(n) == {a \in DefinitionsOf(n) \cap strict : Strong(a)}

\* A name is bound to one of several strong definitions from different files.
UsesDuplicate(n) ==
    LET definitions == StrongDefinitionsOf(n)
    IN  /\ "absolute" \notin KindsOf(n)
        /\ \A a, b \in definitions : a # b => a.path # b.path
        /\ Bound(n) \in definitions
        /\ \E a \in definitions : a # Bound(n)

\* A link does not end well if a name has several strong definitions, all from
\* different files and offered while duplicates count, and the program uses
\* one of them: checkDuplicateSymbols reports them even if -dead_strip forgives
\* duplicates that nobody uses.  (Not for a name with an absolute definition:
\* pickAtom may replace that one by a weak or tentative definition, which then
\* gives way to a strong one.)
NoSilentDuplicate ==
    phase = "ok" =>
        \A n \in Names :
            UsesDuplicate(n) => options.deadCodeStrip /\ Bound(n) \notin live

\* No two slots that the program uses hold atoms with the same content: "If
\* there already is a matching atom in that table, that means the current
\* atom needs to be coalesced with the found atom" (doc/design/linker.html).
ContentsAreCoalesced ==
    phase = "ok" =>
        \A s, t \in DOMAIN bindingTable :
            LET a == bindingTable[s]
                b == bindingTable[t]
            IN  /\ s # t /\ a # NULL /\ b # NULL
                /\ options.deadCodeStrip => {a, b} \subseteq live
                => ~(a.entry = b.entry /\ a.entry \in Contents)

-----------------------------------------------------------------------------
(* The inductive invariant                                                 *)

\* No two entries share a slot.
SlotsDistinct ==
    \A e, f \in Entries : slotOf[e] = slotOf[f] /\ slotOf[e] # 0 => e = f

\* An entry is bound to an atom of its own, and a content never to NULL.
EntryInv ==
    /\ \A e \in Entries : Bound(e) # NULL => Bound(e).entry = e
    /\ \A k \in Contents : slotOf[k] # 0 => Bound(k) # NULL

\* What a name is bound to was offered for it, and an entry that was offered
\* an atom is bound.
RivalInv ==
    /\ \A n \in Names : Bound(n) # NULL => Bound(n) \in rivals
    /\ \A a \in rivals : Bound(a.entry) # NULL

\* An atom that is coalesced away before it is offered lost its slot to one
\* that is more aligned, so it will not get it back.
PendingInv ==
    \A a \in (coalesced \cap Atoms) \ offered :
        /\ a.entry \in Contents
        /\ slotOf[a.entry] # 0
        /\ Bound(a.entry).alignment > a.alignment

IInv ==
    /\ TypeOK
    /\ SlotsDistinct
    /\ EntryInv
    /\ RivalInv
    /\ PendingInv
    /\ BoundOrCoalesced
    /\ StrictestAlignment
    /\ StrongestBound

\* Once an atom was offered while duplicates are ignored, they always are.
StrictInv == rivals \subseteq strict \/ IgnoreDuplicates

\* As long as duplicates count, the list of a name has only strong definitions
\* that were offered for it; the atom a name is bound to is on the list, if it
\* is one of several strong definitions; and a strong definition is only ever
\* replaced by another one.
DuplicateInv ==
    \A n \in Names :
        "absolute" \notin KindsOf(n) =>
            /\ ~IgnoreDuplicates => duplicates[n] \subseteq StrongDefinitionsOf(n)
            /\ UsesDuplicate(n) => Bound(n) \in duplicates[n]
            /\ StrongDefinitionsOf(n) # {}
                   => Bound(n).definition = "regular" /\ ~Bound(n).weak

\* When the link has ended well, what checkDuplicateSymbols did not report
\* still is nothing to report.
CheckedInv == phase = "ok" => \A n \in Names : ~Reported(n)
=============================================================================
