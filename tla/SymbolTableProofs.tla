-------------------------- MODULE SymbolTableProofs --------------------------
(* Proofs about SymbolTable, for any atoms, names, options and bounds. *)
EXTENDS SymbolTable, TLAPS

-----------------------------------------------------------------------------
(* The ranking of definitions                                              *)

\* Classes, extents and recencies are integers, so that they compare.
LEMMA RankType ==
    ASSUME NEW a, IsAttributed(a), NEW mode \in CommonsModes
    PROVE  /\ Class(a, mode) \in Int
           /\ Extent(a) \in Int
           /\ Recency(a) \in Int
<1>1. Class(a, mode) \in Int
    <2>1. CASE a.definition \in {"regular", "absolute"}
        BY <2>1 DEF IsAttributed, Class
    <2>2. CASE a.definition = "tentative"
        BY <2>2 DEF IsAttributed, Class
    <2>3. CASE a.definition = "proxy"
        BY <2>3 DEF IsAttributed, Class
    <2> QED BY <2>1, <2>2, <2>3 DEF IsAttributed, Definitions
<1>2. Extent(a) \in Int /\ Recency(a) \in Int
    BY DEF IsAttributed, Extent, Recency
<1> QED BY <1>1, <1>2

\* Ranking at least as high as another atom is reflexive and transitive.
LEMMA AtLeastPreorder ==
    ASSUME NEW mode \in CommonsModes,
           NEW a, IsAttributed(a), NEW b, IsAttributed(b), NEW c, IsAttributed(c)
    PROVE  /\ AtLeast(a, a, mode)
           /\ AtLeast(a, b, mode) /\ AtLeast(b, c, mode) => AtLeast(a, c, mode)
BY RankType DEF AtLeast

\* The picker never prefers an atom of lower rank, unless it reports a
\* duplicate or has to choose between a tentative and an absolute definition.
LEMMA PickKeepsStrongest ==
    ASSUME NEW a, IsAttributed(a), NEW b, IsAttributed(b),
           NEW ignore \in BOOLEAN, NEW mode \in CommonsModes,
           ~ReportDuplicate(a, b, ignore),
           {a.definition, b.definition} # {"tentative", "absolute"}
    PROVE  /\ "A" \in PickAtom(a, b, ignore, mode) => AtLeast(a, b, mode)
           /\ "B" \in PickAtom(a, b, ignore, mode) => AtLeast(b, a, mode)
<1> USE DEF IsAttributed, AtLeast, Class, Extent, Recency
<1>1. CASE a.definition = "regular" /\ b.definition = "regular"
    BY <1>1 DEF PickAtom, PickBetweenRegularAtoms, PickWeak,
        PickGreaterAlignment, PickLowerOrdinal, PickAOrB, ReportDuplicate,
        StrongClash
<1>2. CASE /\ a.definition \in {"regular", "absolute"}
           /\ b.definition \in {"regular", "absolute"}
           /\ ~(a.definition = "regular" /\ b.definition = "regular")
    BY <1>2 DEF ReportDuplicate
<1>3. CASE /\ a.definition \in {"regular", "absolute"}
           /\ b.definition = "proxy"
    BY <1>3 DEF PickAtom
<1>4. CASE a.definition = "regular" /\ b.definition = "tentative"
    BY <1>4 DEF PickAtom
<1>5. CASE a.definition = "tentative" /\ b.definition = "regular"
    BY <1>5 DEF PickAtom
<1>6. CASE a.definition = "tentative" /\ b.definition = "tentative"
    BY <1>6 DEF PickAtom, PickLargerSize, PickLowerOrdinal, PickAOrB
<1>7. CASE a.definition = "tentative" /\ b.definition = "proxy"
    BY <1>7 DEF PickAtom, PickCommonsMode, CommonsModes
<1>8. CASE a.definition = "proxy" /\ b.definition \in {"regular", "absolute"}
    BY <1>8 DEF PickAtom
<1>9. CASE a.definition = "proxy" /\ b.definition = "tentative"
    BY <1>9 DEF PickAtom, PickCommonsMode, CommonsModes
<1>10. CASE a.definition = "proxy" /\ b.definition = "proxy"
    BY <1>10 DEF PickAtom, PickProxyAtom
<1> QED
    BY <1>1, <1>2, <1>3, <1>4, <1>5, <1>6, <1>7, <1>8, <1>9, <1>10
    DEF Definitions

-----------------------------------------------------------------------------
(* Slots                                                                   *)

LEMMA BoundType ==
    ASSUME TypeOK
    PROVE  /\ \A e \in Entries : Bound(e) \in Atoms \cup {NULL}
           /\ BoundAtoms \subseteq Atoms
           /\ \A e \in Entries : Bound(e) # NULL => Bound(e) \in BoundAtoms
BY DEF TypeOK, Bound, BoundAtoms

\* What BindEntry does: the entry has a slot that holds x, all other entries
\* keep what they had, and no two entries come to share a slot.
LEMMA BindEntryEffect ==
    ASSUME TypeOK, SlotsDistinct,
           NEW e \in Entries, NEW x \in Atoms \cup {NULL}, BindEntry(e, x)
    PROVE  /\ bindingTable' \in Seq(Atoms \cup {NULL})
           /\ slotOf' \in [Entries -> 0 .. Len(bindingTable')]
           /\ SlotsDistinct'
           /\ slotOf'[e] # 0
           /\ Bound(e)' = x
           /\ \A f \in Entries \ {e} :
                  slotOf'[f] = slotOf[f] /\ Bound(f)' = Bound(f)
<1> DEFINE table == bindingTable
<1>0. /\ table \in Seq(Atoms \cup {NULL})
      /\ slotOf \in [Entries -> 0 .. Len(table)]
    BY DEF TypeOK
<1>1. CASE slotOf[e] = 0
    <2>1. /\ bindingTable' = Append(table, x)
          /\ slotOf' = [slotOf EXCEPT ![e] = Len(table) + 1]
        BY <1>1 DEF BindEntry
    <2>2. /\ bindingTable' \in Seq(Atoms \cup {NULL})
          /\ Len(bindingTable') = Len(table) + 1
          /\ bindingTable'[Len(table) + 1] = x
          /\ \A s \in 1 .. Len(table) : bindingTable'[s] = table[s]
        BY <1>0, <2>1
    <2>3. /\ slotOf'[e] = Len(table) + 1
          /\ \A f \in Entries \ {e} : slotOf'[f] = slotOf[f]
          /\ slotOf' \in [Entries -> 0 .. Len(table) + 1]
        BY <1>0, <2>1
    <2>4. SlotsDistinct'
        BY <1>0, <2>3 DEF SlotsDistinct
    <2>5. Bound(e)' = x
        BY <1>0, <2>2, <2>3 DEF Bound
    <2>6. ASSUME NEW f \in Entries \ {e}
          PROVE  Bound(f)' = Bound(f)
        BY <1>0, <2>2, <2>3 DEF Bound
    <2> QED BY <1>0, <2>2, <2>3, <2>4, <2>5, <2>6
<1>2. CASE slotOf[e] # 0
    <2>1. /\ bindingTable' = [table EXCEPT ![slotOf[e]] = x]
          /\ slotOf' = slotOf
        BY <1>2 DEF BindEntry
    <2>2. slotOf[e] \in 1 .. Len(table)
        BY <1>0, <1>2
    <2>3. /\ bindingTable' \in Seq(Atoms \cup {NULL})
          /\ Len(bindingTable') = Len(table)
          /\ bindingTable'[slotOf[e]] = x
          /\ \A s \in 1 .. Len(table) :
                 s # slotOf[e] => bindingTable'[s] = table[s]
        BY <1>0, <2>1, <2>2
    <2>4. SlotsDistinct'
        BY <2>1 DEF SlotsDistinct
    <2>5. Bound(e)' = x
        BY <1>2, <2>1, <2>3 DEF Bound
    <2>6. ASSUME NEW f \in Entries \ {e}
          PROVE  Bound(f)' = Bound(f)
        <3>1. slotOf[f] # slotOf[e]
            BY <1>2 DEF SlotsDistinct
        <3>2. slotOf[f] \in 0 .. Len(table)
            BY <1>0
        <3> QED BY <2>1, <2>3, <3>1, <3>2 DEF Bound
    <2> QED BY <1>0, <1>2, <2>1, <2>3, <2>4, <2>5, <2>6
<1> QED BY <1>1, <1>2

LEMMA TableUnchanged ==
    ASSUME UNCHANGED tableVars
    PROVE  /\ \A e : Bound(e)' = Bound(e)
           /\ BoundAtoms' = BoundAtoms
           /\ SlotsDistinct => SlotsDistinct'
BY DEF tableVars, Bound, BoundAtoms, SlotsDistinct

\* The locals of a group are no atoms of the table.
LEMMA CoalescedAtoms ==
    ASSUME NEW a \in Atoms, MarkCoalescedAway(a), coalesced \subseteq Atoms \cup Locals
    PROVE  /\ coalesced' \subseteq Atoms \cup Locals
           /\ coalesced' \cap Atoms = (coalesced \cap Atoms) \cup {a}
           /\ a \in coalesced'
BY GroupsAssumption DEF MarkCoalescedAway, Group

LEMMA DuplicatesListed ==
    ASSUME TypeOK, NEW a \in Atoms, NEW b \in Atoms, a.entry \in Names
    PROVE  /\ AddDuplicateSymbol(a, b) \subseteq Atoms
           /\ AddDuplicateSymbol(a, b) # {}
BY DEF TypeOK, AddDuplicateSymbol

-----------------------------------------------------------------------------
(* Every action preserves the invariant                                    *)

LEMMA InitInv == Init => IInv
<1> SUFFICES ASSUME Init PROVE IInv
    OBVIOUS
<1>1. /\ \A e \in Entries : slotOf[e] = 0 /\ Bound(e) = NULL
      /\ BoundAtoms = {}
    BY DEF Init, Bound, BoundAtoms
<1>2. bindingTable \in Seq(Atoms \cup {NULL}) /\ Len(bindingTable) = 0
    BY DEF Init
<1>3. TypeOK
    <2>1. slotOf \in [Entries -> 0 .. Len(bindingTable)]
        BY <1>2 DEF Init
    <2>2. keyAtom \in [Contents -> Atoms \cup {NULL}]
        BY DEF Init
    <2>3. duplicates \in [Names -> SUBSET Atoms]
        BY DEF Init
    <2> QED BY <1>2, <2>1, <2>2, <2>3 DEF Init, TypeOK, Phases
<1> QED
    BY <1>1, <1>3 DEF Init, IInv, SlotsDistinct, EntryInv, RivalInv, PendingInv,
        BoundOrCoalesced, StrictestAlignment, StrongestBound, DefinitionsOf,
        Entries

\* What holds of an atom that is offered.
LEMMA OfferFacts ==
    ASSUME IInv, NEW a \in Atoms, a \notin offered
    PROVE  /\ a.entry \in Entries
           /\ IsAttributed(a)
           /\ a \notin rivals
           /\ a.entry \in Names => a \notin coalesced /\ Bound(a.entry) # a
           /\ slotOf[a.entry] = 0 => a \notin coalesced
<1>1. a.entry \in Entries /\ IsAttributed(a)
    BY AtomsAssumption
<1>2. rivals \subseteq offered
    BY DEF IInv, TypeOK
<1>3. a \in coalesced => a.entry \in Contents /\ slotOf[a.entry] # 0
    BY DEF IInv, PendingInv
<1>4. a.entry \in Names => a.entry \notin Contents
    BY EntriesAssumption
<1>5. a.entry \in Names => Bound(a.entry) # a
    BY <1>2, AtomsAssumption DEF IInv, RivalInv
<1> QED BY <1>1, <1>2, <1>3, <1>4, <1>5

\* A new atom takes the slot of its entry, from nobody or from a less aligned
\* literal or from another definition of its name.
LEMMA TakeSlot ==
    ASSUME IInv, NEW a \in Atoms, a \notin offered, a \notin coalesced,
           BindEntry(a.entry, a),
           offered' = offered \cup {a},
           rivals' = rivals \cup {a},
           coalesced \subseteq coalesced',
           coalesced' \cap Atoms
               = (coalesced \cap Atoms) \cup ({Bound(a.entry)} \ {NULL}),
           Bound(a.entry) # a,
           a.entry \in Contents /\ Bound(a.entry) # NULL
               => a.alignment > Bound(a.entry).alignment
    PROVE  /\ bindingTable' \in Seq(Atoms \cup {NULL})
           /\ slotOf' \in [Entries -> 0 .. Len(bindingTable')]
           /\ Bound(a.entry)' = a
           /\ \A f \in Entries \ {a.entry} : Bound(f)' = Bound(f)
           /\ SlotsDistinct' /\ EntryInv' /\ RivalInv' /\ PendingInv'
           /\ BoundOrCoalesced' /\ StrictestAlignment'
<1> DEFINE e == a.entry
           old == Bound(e)
<1>1. /\ e \in Entries /\ a # NULL
      /\ \A c \in Atoms : c.entry \in Entries /\ c.alignment \in Nat
    BY AtomsAssumption DEF IsAttributed
<1>2. TypeOK /\ SlotsDistinct /\ rivals \subseteq offered /\ offered \subseteq Atoms
    BY DEF IInv, TypeOK
<1>3. /\ bindingTable' \in Seq(Atoms \cup {NULL})
      /\ slotOf' \in [Entries -> 0 .. Len(bindingTable')]
      /\ SlotsDistinct'
      /\ slotOf'[e] # 0
      /\ Bound(e)' = a
      /\ \A f \in Entries \ {e} :
             slotOf'[f] = slotOf[f] /\ Bound(f)' = Bound(f)
    BY <1>1, <1>2, BindEntryEffect
<1>4. /\ \A f \in Entries : Bound(f) \in Atoms \cup {NULL}
      /\ \A f \in Entries : Bound(f) # NULL => Bound(f) \in BoundAtoms
    BY <1>2, BoundType
<1>5. old # NULL => old.entry = e
    BY <1>1 DEF IInv, EntryInv
<1>6. \A f \in Entries \ {e} : Bound(f) # NULL => Bound(f) # old
    BY <1>5 DEF IInv, EntryInv
<1>7. Contents \subseteq Entries /\ Names \subseteq Entries
    BY DEF Entries
<1>8. EntryInv'
    BY <1>1, <1>3, <1>7 DEF IInv, EntryInv
<1>9. RivalInv'
    BY <1>1, <1>2, <1>3, <1>7 DEF IInv, RivalInv
<1>10. PendingInv'
    <2> SUFFICES ASSUME NEW c \in coalesced' \cap Atoms, c \notin offered'
                 PROVE  /\ c.entry \in Contents
                        /\ slotOf'[c.entry] # 0
                        /\ Bound(c.entry)'.alignment > c.alignment
        BY DEF PendingInv
    <2>1. CASE c = old
        <3>1. old # NULL /\ e \notin Names
            BY <1>2, <1>1, <2>1, AtomsAssumption DEF IInv, RivalInv
        <3> QED BY <1>1, <1>3, <1>5, <2>1, <3>1 DEF Entries
    <2>2. CASE c \in coalesced
        <3>1. /\ c.entry \in Contents /\ slotOf[c.entry] # 0
              /\ Bound(c.entry).alignment > c.alignment
            BY <2>2 DEF IInv, PendingInv
        <3>2. CASE c.entry = e
            <4>1. old # NULL /\ old \in Atoms
                BY <1>1, <1>4, <3>1, <3>2 DEF IInv, EntryInv
            <4> QED BY <1>1, <1>3, <3>1, <3>2, <4>1
        <3>3. CASE c.entry # e
            BY <1>3, <1>7, <3>1, <3>3
        <3> QED BY <3>2, <3>3
    <2> QED BY <2>1, <2>2
<1>11. BoundOrCoalesced'
    <2>1. ASSUME NEW c \in rivals'
          PROVE  c \in coalesced' \/ c = Bound(c.entry)'
        <3>1. CASE c = a
            BY <1>3, <3>1
        <3>2. CASE c \in rivals /\ c.entry # e
            BY <1>1, <1>2, <1>3, <3>2 DEF IInv, BoundOrCoalesced
        <3>3. CASE c \in rivals /\ c.entry = e
            BY <1>2, <3>3, AtomsAssumption DEF IInv, BoundOrCoalesced
        <3> QED BY <3>1, <3>2, <3>3
    <2>2. ASSUME NEW f \in Entries, Bound(f)' # NULL
          PROVE  Bound(f)' \notin coalesced'
        BY <1>3, <1>4, <1>6, <2>2 DEF IInv, BoundOrCoalesced
    <2> QED BY <2>1, <2>2 DEF BoundOrCoalesced, BoundAtoms
<1>12. StrictestAlignment'
    <2> SUFFICES ASSUME NEW c \in rivals', c.entry \in Contents
                 PROVE  Bound(c.entry)'.alignment >= c.alignment
        BY DEF StrictestAlignment
    <2>1. CASE c = a
        BY <1>1, <1>3, <2>1
    <2>2. CASE c \in rivals /\ c.entry # e
        BY <1>3, <1>7, <2>2 DEF IInv, StrictestAlignment
    <2>3. CASE c \in rivals /\ c.entry = e
        <3>1. old # NULL /\ old \in Atoms /\ c \in Atoms
            BY <1>1, <1>2, <1>4, <2>3 DEF IInv, RivalInv
        <3>2. old.alignment >= c.alignment
            BY <2>3 DEF IInv, StrictestAlignment
        <3> QED BY <1>1, <1>3, <2>3, <3>1, <3>2
    <2> QED BY <2>1, <2>2, <2>3
<1> QED BY <1>3, <1>8, <1>9, <1>10, <1>11, <1>12

\* A new atom leaves the slot of its entry to the atom that is there.
LEMMA KeepSlot ==
    ASSUME IInv, NEW a \in Atoms, a \notin offered,
           UNCHANGED tableVars,
           offered' = offered \cup {a},
           rivals' = rivals \cup {a},
           Bound(a.entry) # NULL,
           coalesced \subseteq coalesced',
           coalesced' \cap Atoms
               = (coalesced \cap Atoms) \cup ({a} \ {Bound(a.entry)}),
           a.entry \in Contents => Bound(a.entry).alignment >= a.alignment
    PROVE  /\ SlotsDistinct' /\ EntryInv' /\ RivalInv' /\ PendingInv'
           /\ BoundOrCoalesced' /\ StrictestAlignment'
<1>1. /\ a.entry \in Entries /\ a # NULL
      /\ \A c \in Atoms : c.entry \in Entries /\ c.alignment \in Nat
    BY AtomsAssumption DEF IsAttributed
<1>2. TypeOK /\ SlotsDistinct /\ rivals \subseteq offered /\ offered \subseteq Atoms
    BY DEF IInv, TypeOK
<1>3. /\ \A f : Bound(f)' = Bound(f)
      /\ BoundAtoms' = BoundAtoms
      /\ SlotsDistinct'
      /\ slotOf' = slotOf
    BY <1>2, TableUnchanged DEF tableVars
<1>4. BoundAtoms \subseteq Atoms
    BY <1>2, BoundType
<1>5. EntryInv' /\ RivalInv' /\ PendingInv' /\ StrictestAlignment'
    BY <1>1, <1>3 DEF IInv, EntryInv, RivalInv, PendingInv, StrictestAlignment
<1>6. BoundOrCoalesced'
    <2>1. \A c \in rivals' : c \in coalesced' \/ c = Bound(c.entry)'
        BY <1>3 DEF IInv, BoundOrCoalesced
    <2>2. ASSUME NEW f \in Entries, Bound(f) # NULL
          PROVE  Bound(f) \notin coalesced'
        <3>1. Bound(f) \notin coalesced /\ Bound(f) \in Atoms
            BY <1>4, <2>2 DEF IInv, BoundOrCoalesced, BoundAtoms
        <3>2. Bound(f) = a => f = a.entry
            BY <2>2 DEF IInv, EntryInv
        <3> QED BY <3>1, <3>2
    <2> QED BY <1>3, <2>1, <2>2 DEF BoundOrCoalesced, BoundAtoms
<1> QED BY <1>3, <1>5, <1>6

\* A name that is bound as before, with the same definitions, stays bound to a
\* strongest one.
LEMMA StrongestUnchanged ==
    ASSUME IInv, NEW m \in Names,
           Bound(m)' = Bound(m), DefinitionsOf(m)' = DefinitionsOf(m),
           duplicates'[m] = duplicates[m], options' = options
    PROVE  /\ duplicates'[m] = {}
           /\ ~({"tentative", "absolute"} \subseteq KindsOf(m)')
           => \A c \in DefinitionsOf(m)' :
                  AtLeast(Bound(m)', c, options'.commonsMode)
<1>1. KindsOf(m)' = KindsOf(m)
    BY DEF KindsOf
<1> QED BY <1>1 DEF IInv, StrongestBound

\* The picker keeps a strongest definition of the name.
LEMMA StrongestChosen ==
    ASSUME IInv, NEW a \in Atoms, a \notin offered, a.entry \in Names,
           Bound(a.entry) # NULL, NoteDuplicate(a),
           NEW choice \in {"A", "B"}, choice \in Choices(a),
           Bound(a.entry)' = (IF choice = "A" THEN a ELSE Bound(a.entry)),
           \A f \in Entries \ {a.entry} : Bound(f)' = Bound(f),
           rivals' = rivals \cup {a},
           options' = options
    PROVE  StrongestBound'
<1> DEFINE n == a.entry
           b == Bound(n)
           mode == options.commonsMode
<1>1. TypeOK
    BY DEF IInv
<1>2. /\ mode \in CommonsModes
      /\ options.deadCodeStrip \in BOOLEAN /\ options.allowDeadDuplicates \in BOOLEAN
      /\ completed \in BOOLEAN
    BY <1>1, OptionsAssumption DEF TypeOK
<1>3. n \in Entries /\ b \in Atoms /\ b \in rivals /\ b.entry = n
    BY <1>1, BoundType DEF Entries, IInv, EntryInv, RivalInv
<1>4. \A c \in Atoms : IsAttributed(c)
    BY AtomsAssumption
<1>5. rivals \subseteq Atoms
    BY <1>1 DEF TypeOK
<1> SUFFICES ASSUME NEW m \in Names, duplicates'[m] = {},
                    ~({"tentative", "absolute"} \subseteq KindsOf(m)'),
                    NEW c \in DefinitionsOf(m)'
             PROVE  AtLeast(Bound(m)', c, options'.commonsMode)
    BY DEF StrongestBound
<1>6. CASE m # n
    <2>1. DefinitionsOf(m)' = DefinitionsOf(m)
        BY <1>6 DEF DefinitionsOf
    <2>2. duplicates'[m] = duplicates[m]
        BY <1>1, <1>6 DEF NoteDuplicate, TypeOK
    <2>3. Bound(m)' = Bound(m)
        BY <1>6 DEF Entries
    <2> QED BY <2>1, <2>2, <2>3, StrongestUnchanged
<1>7. CASE m = n
    <2>1. /\ ~ReportDuplicate(a, b, IgnoreDuplicates)
          /\ duplicates' = duplicates
        <3>1. AddDuplicateSymbol(a, b) # {}
            BY <1>1, <1>3, DuplicatesListed
        <3>2. n \in DOMAIN duplicates
            BY <1>1 DEF TypeOK
        <3> QED BY <1>7, <3>1, <3>2 DEF NoteDuplicate
    <2>2. /\ DefinitionsOf(n)' = DefinitionsOf(n) \cup {a}
          /\ b \in DefinitionsOf(n)
        BY <1>3 DEF DefinitionsOf
    <2>3. KindsOf(n)' = KindsOf(n) \cup {a.definition} /\ b.definition \in KindsOf(n)
        BY <2>2 DEF KindsOf
    <2>4. {a.definition, b.definition} # {"tentative", "absolute"}
        BY <1>7, <2>3
    <2>5. IgnoreDuplicates \in BOOLEAN
        BY <1>2 DEF IgnoreDuplicates
    <2>6. /\ choice = "A" => AtLeast(a, b, mode)
          /\ choice = "B" => AtLeast(b, a, mode)
        BY <1>2, <1>3, <1>4, <2>1, <2>4, <2>5, PickKeepsStrongest DEF Choices
    <2>7. \A d \in DefinitionsOf(n) : d \in Atoms /\ AtLeast(b, d, mode)
        BY <1>5, <1>7, <2>1, <2>3 DEF IInv, StrongestBound, DefinitionsOf
    <2>8. AtLeast(a, a, mode) /\ AtLeast(b, b, mode)
        BY <1>2, <1>3, <1>4, AtLeastPreorder
    <2>9. c = a \/ c \in DefinitionsOf(n)
        BY <1>7, <2>2
    <2>10. CASE choice = "A"
        <3>1. Bound(m)' = a
            BY <1>7, <2>10
        <3>2. c \in DefinitionsOf(n) => AtLeast(a, c, mode)
            BY <1>2, <1>3, <1>4, <2>6, <2>7, <2>10, AtLeastPreorder
        <3> QED BY <2>8, <2>9, <3>1, <3>2
    <2>11. CASE choice = "B"
        BY <1>7, <2>6, <2>7, <2>9, <2>11
    <2> QED BY <2>10, <2>11
<1> QED BY <1>6, <1>7

LEMMA AddFirstInv ==
    ASSUME IInv, NEW a \in Atoms, AddFirst(a)
    PROVE  IInv'
<1>1. /\ a \notin offered /\ a.entry \in Names
      /\ BindEntry(a.entry, a) /\ Bound(a.entry) = NULL
      /\ offered' = offered \cup {a} /\ rivals' = rivals \cup {a}
      /\ strict' \subseteq strict \cup {a}
      /\ UNCHANGED <<options, keyAtom, coalesced, duplicates, completed, live, phase>>
    BY DEF AddFirst, Offer, Contend
<1>2. a.entry \in Entries /\ IsAttributed(a) /\ a \notin coalesced /\ a # NULL
    BY <1>1, OfferFacts, AtomsAssumption
<1>3. /\ bindingTable' \in Seq(Atoms \cup {NULL})
      /\ slotOf' \in [Entries -> 0 .. Len(bindingTable')]
      /\ Bound(a.entry)' = a
      /\ \A f \in Entries \ {a.entry} : Bound(f)' = Bound(f)
      /\ SlotsDistinct' /\ EntryInv' /\ RivalInv' /\ PendingInv'
      /\ BoundOrCoalesced' /\ StrictestAlignment'
    BY <1>1, <1>2, TakeSlot
<1>4. TypeOK'
    BY <1>1, <1>3 DEF IInv, TypeOK, AddFirst, NoteTentative
<1>5. StrongestBound'
    <2>1. ASSUME NEW m \in Names, m # a.entry
          PROVE  Bound(m)' = Bound(m) /\ DefinitionsOf(m)' = DefinitionsOf(m)
        BY <1>1, <1>3, <2>1 DEF DefinitionsOf, Entries
    <2>2. DefinitionsOf(a.entry)' = {a}
        BY <1>1 DEF DefinitionsOf, IInv, RivalInv
    <2>3. AtLeast(a, a, options.commonsMode)
        BY <1>2, AtLeastPreorder, OptionsAssumption DEF IInv, TypeOK
    <2> QED BY <1>1, <1>3, <2>1, <2>2, <2>3, StrongestUnchanged DEF StrongestBound
<1> QED BY <1>3, <1>4, <1>5 DEF IInv

LEMMA AddReplacingInv ==
    ASSUME IInv, NEW a \in Atoms, AddReplacing(a)
    PROVE  IInv'
<1> DEFINE b == Bound(a.entry)
<1>1. /\ a \notin offered /\ a.entry \in Names /\ "A" \in Choices(a)
      /\ BindEntry(a.entry, a) /\ b # NULL
      /\ offered' = offered \cup {a} /\ rivals' = rivals \cup {a}
      /\ strict' \subseteq strict \cup {a}
      /\ NoteDuplicate(a) /\ MarkCoalescedAway(b)
      /\ UNCHANGED <<options, keyAtom, completed, live, phase>>
    BY DEF AddReplacing, Offer, Contend
<1>2. /\ a.entry \in Entries /\ a \notin coalesced /\ a # NULL /\ b # a
      /\ a.entry \notin Contents
    BY <1>1, OfferFacts, AtomsAssumption, EntriesAssumption
<1>3. b \in Atoms
    BY <1>1, <1>2, BoundType DEF IInv
<1>4. /\ coalesced \subseteq coalesced' /\ coalesced' \subseteq Atoms \cup Locals
      /\ coalesced' \cap Atoms = (coalesced \cap Atoms) \cup {b}
    BY <1>1, <1>3, CoalescedAtoms DEF IInv, TypeOK, MarkCoalescedAway
<1>5. /\ bindingTable' \in Seq(Atoms \cup {NULL})
      /\ slotOf' \in [Entries -> 0 .. Len(bindingTable')]
      /\ Bound(a.entry)' = a
      /\ \A f \in Entries \ {a.entry} : Bound(f)' = Bound(f)
      /\ SlotsDistinct' /\ EntryInv' /\ RivalInv' /\ PendingInv'
      /\ BoundOrCoalesced' /\ StrictestAlignment'
    BY <1>1, <1>2, <1>4, TakeSlot
<1>6. duplicates' \in [Names -> SUBSET Atoms]
    BY <1>1, <1>3, DuplicatesListed DEF IInv, TypeOK, NoteDuplicate
<1>7. TypeOK'
    BY <1>1, <1>4, <1>5, <1>6 DEF IInv, TypeOK, AddReplacing, NoteTentative
<1>8. StrongestBound'
    BY <1>1, <1>5, StrongestChosen
<1> QED BY <1>5, <1>7, <1>8 DEF IInv

LEMMA AddKeepingInv ==
    ASSUME IInv, NEW a \in Atoms, AddKeeping(a)
    PROVE  IInv'
<1> DEFINE b == Bound(a.entry)
<1>1. /\ a \notin offered /\ a.entry \in Names /\ "B" \in Choices(a)
      /\ b # NULL
      /\ offered' = offered \cup {a} /\ rivals' = rivals \cup {a}
      /\ strict' \subseteq strict \cup {a}
      /\ NoteDuplicate(a) /\ MarkCoalescedAway(a)
      /\ UNCHANGED <<options, completed, live, phase, externalTentative>>
      /\ UNCHANGED tableVars
    BY DEF AddKeeping, Offer, Contend
<1>2. /\ a.entry \in Entries /\ b # a /\ a.entry \notin Contents
    BY <1>1, OfferFacts, EntriesAssumption
<1>3. b \in Atoms
    BY <1>1, <1>2, BoundType DEF IInv
<1>4. /\ coalesced \subseteq coalesced' /\ coalesced' \subseteq Atoms \cup Locals
      /\ coalesced' \cap Atoms = (coalesced \cap Atoms) \cup {a}
    BY <1>1, CoalescedAtoms DEF IInv, TypeOK, MarkCoalescedAway
<1>5. /\ SlotsDistinct' /\ EntryInv' /\ RivalInv' /\ PendingInv'
      /\ BoundOrCoalesced' /\ StrictestAlignment'
    BY <1>1, <1>2, <1>4, KeepSlot
<1>6. duplicates' \in [Names -> SUBSET Atoms]
    BY <1>1, <1>3, DuplicatesListed DEF IInv, TypeOK, NoteDuplicate
<1>7. TypeOK'
    BY <1>1, <1>4, <1>6 DEF IInv, TypeOK, tableVars
<1>8. \A f : Bound(f)' = Bound(f)
    BY <1>1, TableUnchanged
<1>9. StrongestBound'
    BY <1>1, <1>8, StrongestChosen
<1> QED BY <1>5, <1>7, <1>9 DEF IInv

\* A step that changes neither the table nor what was offered and coalesced.
LEMMA FrameInv ==
    ASSUME IInv, UNCHANGED <<options, tableVars, coalesced, duplicates, rivals>>,
           offered \subseteq offered', offered' \subseteq Atoms,
           UNCHANGED <<externalTentative, strict>>,
           completed' \in BOOLEAN, live' \subseteq Atoms, phase' \in Phases
    PROVE  IInv'
<1>1. /\ \A f : Bound(f)' = Bound(f)
      /\ BoundAtoms' = BoundAtoms /\ SlotsDistinct'
      /\ slotOf' = slotOf
    BY TableUnchanged DEF IInv, tableVars
<1>2. TypeOK'
    BY DEF IInv, TypeOK, tableVars
<1>3. EntryInv' /\ RivalInv' /\ PendingInv' /\ BoundOrCoalesced' /\ StrictestAlignment'
    BY <1>1 DEF IInv, EntryInv, RivalInv, PendingInv, BoundOrCoalesced, StrictestAlignment
<1>4. StrongestBound'
    BY <1>1, StrongestUnchanged DEF StrongestBound, DefinitionsOf
<1> QED BY <1>1, <1>2, <1>3, <1>4 DEF IInv

LEMMA AddThrowingInv ==
    ASSUME IInv, NEW a \in Atoms, AddThrowing(a)
    PROVE  IInv'
<1>1. /\ UNCHANGED <<options, tableVars, coalesced, duplicates, rivals>>
      /\ UNCHANGED <<externalTentative, strict, completed, live>>
      /\ offered' = offered \cup {a} /\ phase' = "error"
    BY DEF AddThrowing, Offer
<1> QED BY <1>1, FrameInv DEF IInv, TypeOK, Phases

\* The names do not notice what happens to a literal.
LEMMA NamesUndisturbed ==
    ASSUME IInv, NEW a \in Atoms, a.entry \in Contents,
           \A f \in Entries \ {a.entry} : Bound(f)' = Bound(f),
           rivals' \subseteq rivals \cup {a}, rivals \subseteq rivals',
           UNCHANGED <<duplicates, options>>
    PROVE  StrongestBound'
<1>1. a.entry \notin Names
    BY EntriesAssumption
<1>2. \A m \in Names :
          Bound(m)' = Bound(m) /\ DefinitionsOf(m)' = DefinitionsOf(m)
    BY <1>1 DEF DefinitionsOf, Entries
<1> QED BY <1>2, StrongestUnchanged DEF StrongestBound

LEMMA AddContentFirstInv ==
    ASSUME IInv, NEW a \in Atoms, AddContentFirst(a)
    PROVE  IInv'
<1>1. /\ a \notin offered /\ a.entry \in Contents /\ slotOf[a.entry] = 0
      /\ BindEntry(a.entry, a) /\ Bound(a.entry) = NULL
      /\ offered' = offered \cup {a} /\ rivals' = rivals \cup {a}
      /\ strict' \subseteq strict \cup {a}
      /\ keyAtom' = [keyAtom EXCEPT ![a.entry] = a]
      /\ UNCHANGED <<options, coalesced, duplicates, completed, live, phase>>
      /\ UNCHANGED externalTentative
    BY DEF AddContentFirst, Offer, Contend, Bound
<1>2. a.entry \in Entries /\ a \notin coalesced /\ a # NULL
    BY <1>1, OfferFacts, AtomsAssumption
<1>3. /\ bindingTable' \in Seq(Atoms \cup {NULL})
      /\ slotOf' \in [Entries -> 0 .. Len(bindingTable')]
      /\ \A f \in Entries \ {a.entry} : Bound(f)' = Bound(f)
      /\ SlotsDistinct' /\ EntryInv' /\ RivalInv' /\ PendingInv'
      /\ BoundOrCoalesced' /\ StrictestAlignment'
    BY <1>1, <1>2, TakeSlot
<1>4. TypeOK'
    BY <1>1, <1>3 DEF IInv, TypeOK
<1>5. StrongestBound'
    BY <1>1, <1>3, NamesUndisturbed
<1> QED BY <1>3, <1>4, <1>5 DEF IInv

LEMMA AddContentReplacingInv ==
    ASSUME IInv, NEW a \in Atoms, AddContentReplacing(a)
    PROVE  IInv'
<1> DEFINE b == Bound(a.entry)
<1>1. /\ a \notin offered /\ a.entry \in Contents /\ slotOf[a.entry] # 0
      /\ BindEntry(a.entry, a) /\ a.alignment > b.alignment
      /\ offered' = offered \cup {a} /\ rivals' = rivals \cup {a}
      /\ strict' \subseteq strict \cup {a}
      /\ MarkCoalescedAway(b)
      /\ UNCHANGED <<options, duplicates, completed, live, phase, keyAtom>>
      /\ UNCHANGED externalTentative
    BY DEF AddContentReplacing, Offer, Contend, MoreAligned
<1>2. a.entry \in Entries /\ b # NULL
    BY <1>1 DEF IInv, EntryInv, Entries
<1>3. b \in Atoms /\ \A c \in Atoms : c.alignment \in Nat
    BY <1>2, BoundType, AtomsAssumption DEF IInv, IsAttributed
<1>4. b # a /\ a \notin coalesced
    BY <1>1, <1>3 DEF IInv, PendingInv
<1>5. /\ coalesced \subseteq coalesced' /\ coalesced' \subseteq Atoms \cup Locals
      /\ coalesced' \cap Atoms = (coalesced \cap Atoms) \cup {b}
    BY <1>1, <1>3, CoalescedAtoms DEF IInv, TypeOK, MarkCoalescedAway
<1>6. /\ bindingTable' \in Seq(Atoms \cup {NULL})
      /\ slotOf' \in [Entries -> 0 .. Len(bindingTable')]
      /\ \A f \in Entries \ {a.entry} : Bound(f)' = Bound(f)
      /\ SlotsDistinct' /\ EntryInv' /\ RivalInv' /\ PendingInv'
      /\ BoundOrCoalesced' /\ StrictestAlignment'
    BY <1>1, <1>2, <1>4, <1>5, TakeSlot
<1>7. TypeOK'
    BY <1>1, <1>5, <1>6 DEF IInv, TypeOK
<1>8. StrongestBound'
    BY <1>1, <1>6, NamesUndisturbed
<1> QED BY <1>6, <1>7, <1>8 DEF IInv

LEMMA AddContentKeepingInv ==
    ASSUME IInv, NEW a \in Atoms, AddContentKeeping(a)
    PROVE  IInv'
<1> DEFINE b == Bound(a.entry)
<1>1. /\ a \notin offered /\ a.entry \in Contents /\ slotOf[a.entry] # 0
      /\ ~(a.alignment > b.alignment)
      /\ offered' = offered \cup {a} /\ rivals' = rivals \cup {a}
      /\ strict' \subseteq strict \cup {a}
      /\ IF b = a THEN coalesced' = coalesced ELSE MarkCoalescedAway(a)
      /\ UNCHANGED <<options, duplicates, completed, live, phase>>
      /\ UNCHANGED externalTentative
      /\ UNCHANGED tableVars
    BY DEF AddContentKeeping, Offer, Contend, MoreAligned
<1>2. a.entry \in Entries /\ b # NULL
    BY <1>1 DEF IInv, EntryInv, Entries
<1>3. b \in Atoms /\ \A c \in Atoms : c.alignment \in Nat
    BY <1>2, BoundType, AtomsAssumption DEF IInv, IsAttributed
<1>4. /\ coalesced \subseteq coalesced' /\ coalesced' \subseteq Atoms \cup Locals
      /\ coalesced' \cap Atoms = (coalesced \cap Atoms) \cup ({a} \ {b})
    BY <1>1, CoalescedAtoms DEF IInv, TypeOK, MarkCoalescedAway
<1>5. /\ SlotsDistinct' /\ EntryInv' /\ RivalInv' /\ PendingInv'
      /\ BoundOrCoalesced' /\ StrictestAlignment'
    BY <1>1, <1>2, <1>3, <1>4, KeepSlot
<1>6. TypeOK'
    BY <1>1, <1>4 DEF IInv, TypeOK, tableVars
<1>7. \A f : Bound(f)' = Bound(f)
    BY <1>1, TableUnchanged
<1>8. StrongestBound'
    BY <1>1, <1>7, NamesUndisturbed
<1> QED BY <1>5, <1>6, <1>8 DEF IInv

LEMMA FindSlotForNameInv ==
    ASSUME IInv, NEW n \in Names, FindSlotForName(n)
    PROVE  IInv'
<1>1. /\ n \in Entries /\ n \notin Contents /\ Bound(n) = NULL
      /\ BindEntry(n, NULL)
      /\ UNCHANGED <<options, keyAtom, coalesced, duplicates, externalTentative,
                     completed, live, phase, historyVars>>
    BY EntriesAssumption DEF FindSlotForName, Bound, Entries
<1>2. /\ bindingTable' \in Seq(Atoms \cup {NULL})
      /\ slotOf' \in [Entries -> 0 .. Len(bindingTable')]
      /\ SlotsDistinct'
      /\ Bound(n)' = NULL
      /\ \A f \in Entries \ {n} :
             slotOf'[f] = slotOf[f] /\ Bound(f)' = Bound(f)
    BY <1>1, BindEntryEffect DEF IInv
<1>3. \A f \in Entries : Bound(f)' = Bound(f)
    BY <1>1, <1>2
<1>4. /\ \A a \in Atoms : a.entry \in Entries
      /\ Contents \subseteq Entries /\ Names \subseteq Entries
      /\ rivals \subseteq Atoms
    BY AtomsAssumption DEF Entries, IInv, TypeOK
<1>5. TypeOK'
    BY <1>1, <1>2 DEF IInv, TypeOK, historyVars
<1>6. EntryInv' /\ RivalInv' /\ PendingInv' /\ BoundOrCoalesced' /\ StrictestAlignment'
    BY <1>1, <1>2, <1>3, <1>4
    DEF IInv, EntryInv, RivalInv, PendingInv, BoundOrCoalesced, BoundAtoms,
        StrictestAlignment, historyVars
<1>7. StrongestBound'
    BY <1>1, <1>3, <1>4, StrongestUnchanged
    DEF StrongestBound, DefinitionsOf, historyVars
<1> QED BY <1>2, <1>5, <1>6, <1>7 DEF IInv

LEMMA FindSlotForContentInv ==
    ASSUME IInv, NEW a \in Atoms, FindSlotForContent(a)
    PROVE  IInv'
<1>1. /\ a \notin offered /\ a.entry \in Contents /\ slotOf[a.entry] = 0
      /\ Bound(a.entry) = NULL
      /\ BindEntry(a.entry, a)
      /\ keyAtom' = [keyAtom EXCEPT ![a.entry] = a]
      /\ UNCHANGED <<options, coalesced, duplicates, externalTentative,
                     completed, live, phase, historyVars>>
    BY DEF FindSlotForContent, Bound
<1>2. a.entry \in Entries /\ a \notin coalesced /\ a # NULL
    BY <1>1, OfferFacts, AtomsAssumption
<1>3. /\ bindingTable' \in Seq(Atoms \cup {NULL})
      /\ slotOf' \in [Entries -> 0 .. Len(bindingTable')]
      /\ SlotsDistinct'
      /\ Bound(a.entry)' = a
      /\ \A f \in Entries \ {a.entry} :
             slotOf'[f] = slotOf[f] /\ Bound(f)' = Bound(f)
    BY <1>1, <1>2, BindEntryEffect DEF IInv
<1>4. /\ \A c \in Atoms : c.entry \in Entries
      /\ Contents \subseteq Entries /\ Names \subseteq Entries
      /\ rivals \subseteq Atoms
      /\ a.entry \notin Names
    BY <1>1, AtomsAssumption, EntriesAssumption DEF Entries, IInv, TypeOK
<1>5. \A c \in rivals : c.entry # a.entry
    BY <1>1 DEF IInv, RivalInv
<1>6. TypeOK'
    BY <1>1, <1>3 DEF IInv, TypeOK, historyVars
<1>7. EntryInv' /\ RivalInv' /\ PendingInv' /\ StrictestAlignment'
    <2>1. EntryInv' /\ RivalInv'
        BY <1>1, <1>2, <1>3, <1>4, <1>5 DEF IInv, EntryInv, RivalInv, historyVars
    <2>2. PendingInv' /\ StrictestAlignment'
        BY <1>1, <1>2, <1>3, <1>4, <1>5
        DEF IInv, EntryInv, RivalInv, PendingInv, StrictestAlignment, historyVars
    <2> QED BY <2>1, <2>2
<1>8. BoundOrCoalesced'
    <2>1. \A c \in rivals' : c \in coalesced' \/ c = Bound(c.entry)'
        BY <1>1, <1>3, <1>4, <1>5 DEF IInv, BoundOrCoalesced, historyVars
    <2>2. ASSUME NEW f \in Entries, Bound(f)' # NULL
          PROVE  Bound(f)' \notin coalesced'
        BY <1>1, <1>2, <1>3, <2>2 DEF IInv, BoundOrCoalesced, BoundAtoms
    <2> QED BY <2>1, <2>2 DEF BoundOrCoalesced, BoundAtoms
<1>9. StrongestBound'
    BY <1>1, <1>3, NamesUndisturbed DEF historyVars
<1> QED BY <1>3, <1>6, <1>7, <1>8, <1>9 DEF IInv

\* What removeDeadAtoms does: an erased entry has no slot, and the slots of
\* the others are as they were.
LEMMA RemoveDeadAtomsEffect ==
    ASSUME TypeOK, SlotsDistinct, NEW alive, RemoveDeadAtoms(alive)
    PROVE  /\ bindingTable' \in Seq(Atoms \cup {NULL})
           /\ slotOf' \in [Entries -> 0 .. Len(bindingTable')]
           /\ keyAtom' \in [Contents -> Atoms \cup {NULL}]
           /\ SlotsDistinct'
           /\ \A e \in DeadEntries(alive) : slotOf'[e] = 0 /\ Bound(e)' = NULL
           /\ \A e \in Entries \ DeadEntries(alive) :
                  slotOf'[e] = slotOf[e] /\ Bound(e)' = Bound(e)
           /\ rivals' = {a \in rivals : a.entry \notin DeadEntries(alive)}
<1> DEFINE dead == DeadEntries(alive)
           emptied == {slotOf[n] : n \in dead \cap Names}
<1>1. /\ bindingTable \in Seq(Atoms \cup {NULL})
      /\ slotOf \in [Entries -> 0 .. Len(bindingTable)]
      /\ DOMAIN bindingTable = 1 .. Len(bindingTable)
    BY DEF TypeOK
<1>2. dead \subseteq Entries
    BY EntriesAssumption DEF DeadEntries, Entries
<1>3. /\ bindingTable' = [s \in 1 .. Len(bindingTable) |->
                             IF s \in emptied THEN NULL ELSE bindingTable[s]]
      /\ slotOf' = [e \in Entries |-> IF e \in dead THEN 0 ELSE slotOf[e]]
      /\ keyAtom' = [k \in Contents |-> IF k \in dead THEN NULL ELSE keyAtom[k]]
      /\ rivals' = {a \in rivals : a.entry \notin dead}
    BY <1>1 DEF RemoveDeadAtoms
<1>4. bindingTable' \in Seq(Atoms \cup {NULL}) /\ Len(bindingTable') = Len(bindingTable)
    <2>1. \A s \in 1 .. Len(bindingTable) : bindingTable[s] \in Atoms \cup {NULL}
        BY <1>1
    <2>2. Len(bindingTable) \in Nat
        BY <1>1
    <2>3. bindingTable' \in [1 .. Len(bindingTable) -> Atoms \cup {NULL}]
        BY <1>3, <2>1
    <2> QED BY <2>2, <2>3
<1>5. /\ slotOf' \in [Entries -> 0 .. Len(bindingTable')]
      /\ keyAtom' \in [Contents -> Atoms \cup {NULL}]
    BY <1>1, <1>3, <1>4 DEF TypeOK
<1>6. /\ \A e \in dead : slotOf'[e] = 0
      /\ \A e \in Entries \ dead : slotOf'[e] = slotOf[e]
    BY <1>2, <1>3
<1>7. SlotsDistinct'
    BY <1>6 DEF SlotsDistinct
<1>8. \A e \in dead : Bound(e)' = NULL
    BY <1>6 DEF Bound
<1>9. ASSUME NEW e \in Entries \ dead
      PROVE  Bound(e)' = Bound(e)
    <2>1. CASE slotOf[e] = 0
        BY <1>6, <2>1 DEF Bound
    <2>2. CASE slotOf[e] # 0
        <3>1. slotOf[e] \notin emptied
            BY <1>2, <2>2 DEF SlotsDistinct
        <3>2. slotOf[e] \in 1 .. Len(bindingTable)
            BY <1>1, <2>2
        <3> QED BY <1>3, <1>6, <2>2, <3>1, <3>2 DEF Bound
    <2> QED BY <2>1, <2>2
<1> QED BY <1>3, <1>4, <1>5, <1>6, <1>7, <1>8, <1>9

LEMMA DeadStripOptimizeInv ==
    ASSUME IInv, DeadStripOptimize
    PROVE  IInv'
<1>1. /\ AllOffered
      /\ phase' \in Phases /\ live' \subseteq Atoms
      /\ UNCHANGED <<options, coalesced, duplicates, externalTentative,
                     completed, offered, strict>>
    BY DEF DeadStripOptimize, Phases, IInv, TypeOK
<1>2. CASE UNCHANGED <<tableVars, rivals>>
    BY <1>1, <1>2, FrameInv DEF IInv, TypeOK
<1>3. CASE \E alive \in SUBSET offered : RemoveDeadAtoms(alive)
    <2> PICK alive \in SUBSET offered : RemoveDeadAtoms(alive)
        BY <1>3
    <2> DEFINE dead == DeadEntries(alive)
    <2>1. /\ bindingTable' \in Seq(Atoms \cup {NULL})
          /\ slotOf' \in [Entries -> 0 .. Len(bindingTable')]
          /\ keyAtom' \in [Contents -> Atoms \cup {NULL}]
          /\ SlotsDistinct'
          /\ \A e \in dead : slotOf'[e] = 0 /\ Bound(e)' = NULL
          /\ \A e \in Entries \ dead :
                 slotOf'[e] = slotOf[e] /\ Bound(e)' = Bound(e)
          /\ rivals' = {a \in rivals : a.entry \notin dead}
        BY RemoveDeadAtomsEffect DEF IInv
    <2>2. /\ \A a \in Atoms : a.entry \in Entries
          /\ Contents \subseteq Entries /\ Names \subseteq Entries
          /\ rivals \subseteq Atoms
        BY AtomsAssumption DEF Entries, IInv, TypeOK
    <2>3. TypeOK'
        BY <1>1, <2>1 DEF IInv, TypeOK
    <2>4. EntryInv'
        BY <2>1, <2>2 DEF IInv, EntryInv
    <2>5. RivalInv'
        <3>1. \A n \in Names : Bound(n)' # NULL => Bound(n)' \in rivals'
            BY <2>1, <2>2 DEF IInv, RivalInv, EntryInv
        <3>2. \A a \in rivals' : Bound(a.entry)' # NULL
            BY <2>1, <2>2 DEF IInv, RivalInv
        <3> QED BY <3>1, <3>2 DEF RivalInv
    <2>6. PendingInv'
        BY <1>1 DEF PendingInv, AllOffered, KnownAtoms
    <2>7. BoundOrCoalesced'
        <3>1. \A a \in rivals' : a \in coalesced' \/ a = Bound(a.entry)'
            BY <1>1, <2>1, <2>2 DEF IInv, BoundOrCoalesced
        <3>2. ASSUME NEW f \in Entries, Bound(f)' # NULL
              PROVE  Bound(f)' \notin coalesced'
            BY <1>1, <2>1, <3>2 DEF IInv, BoundOrCoalesced, BoundAtoms
        <3> QED BY <3>1, <3>2 DEF BoundOrCoalesced, BoundAtoms
    <2>8. StrictestAlignment'
        BY <2>1, <2>2 DEF IInv, StrictestAlignment
    <2>9. StrongestBound'
        <3>1. \A m \in Names \cap dead : DefinitionsOf(m)' = {}
            BY <2>1 DEF DefinitionsOf
        <3>2. \A m \in Names \ dead :
                  Bound(m)' = Bound(m) /\ DefinitionsOf(m)' = DefinitionsOf(m)
            BY <2>1, <2>2 DEF DefinitionsOf
        <3> QED BY <1>1, <3>1, <3>2, StrongestUnchanged DEF StrongestBound
    <2> QED
        BY <2>1, <2>3, <2>4, <2>5, <2>6, <2>7, <2>8, <2>9 DEF IInv
<1> QED
    <2>1. \/ UNCHANGED <<tableVars, rivals>>
          \/ \E alive \in SUBSET offered : RemoveDeadAtoms(alive)
        BY DEF DeadStripOptimize
    <2> QED BY <1>2, <1>3, <2>1

\* Every step preserves the invariant.
THEOREM StepInv == IInv /\ [Next]_vars => IInv'
<1> SUFFICES ASSUME IInv, [Next]_vars
             PROVE  IInv'
    OBVIOUS
<1>1. ASSUME NEW a \in Atoms, Add(a)
      PROVE  IInv'
    BY <1>1, AddFirstInv, AddReplacingInv, AddKeepingInv, AddThrowingInv,
       AddContentFirstInv, AddContentReplacingInv, AddContentKeepingInv DEF Add
<1>2. ASSUME NEW a \in Atoms, FindSlotForContent(a)
      PROVE  IInv'
    BY <1>2, FindSlotForContentInv
<1>3. ASSUME NEW n \in Names, FindSlotForName(n)
      PROVE  IInv'
    BY <1>3, FindSlotForNameInv
<1>4. CASE CompleteInitialObjectFiles
    BY <1>4, FrameInv DEF CompleteInitialObjectFiles, IInv, TypeOK, historyVars
<1>5. CASE DeadStripOptimize
    BY <1>5, DeadStripOptimizeInv
<1>6. CASE DeadStripAgain
    <2>1. live' \subseteq Atoms /\ phase' \in Phases
        BY <1>6 DEF DeadStripAgain, IInv, TypeOK, Phases
    <2> QED BY <1>6, <2>1, FrameInv DEF DeadStripAgain, IInv, TypeOK, historyVars
<1>7. CASE CheckDuplicateSymbols
    BY <1>7, FrameInv DEF CheckDuplicateSymbols, IInv, TypeOK, Phases, historyVars
<1>8. CASE UNCHANGED vars
    BY <1>8, FrameInv DEF vars, IInv, TypeOK, historyVars
<1> QED
    BY <1>1, <1>2, <1>3, <1>4, <1>5, <1>6, <1>7, <1>8 DEF Next, Linked

-----------------------------------------------------------------------------
(* Duplicates                                                              *)

DuplicateStep(m) ==
    "absolute" \notin KindsOf(m)' =>
        /\ ~IgnoreDuplicates' => duplicates'[m] \subseteq StrongDefinitionsOf(m)'
        /\ UsesDuplicate(m)' => Bound(m)' \in duplicates'[m]
        /\ StrongDefinitionsOf(m)' # {}
               => Bound(m)'.definition = "regular" /\ ~Bound(m)'.weak

\* A name that no step touches.
LEMMA DuplicateUnchanged ==
    ASSUME DuplicateInv, NEW m \in Names,
           Bound(m)' = Bound(m), DefinitionsOf(m)' = DefinitionsOf(m),
           StrongDefinitionsOf(m)' = StrongDefinitionsOf(m),
           duplicates'[m] = duplicates[m],
           IgnoreDuplicates => IgnoreDuplicates'
    PROVE  DuplicateStep(m)
<1>1. KindsOf(m)' = KindsOf(m)
    BY DEF KindsOf
<1>2. UsesDuplicate(m)' = UsesDuplicate(m)
    BY <1>1 DEF UsesDuplicate
<1> QED BY <1>1, <1>2 DEF DuplicateInv, DuplicateStep

\* The name whose definition is chosen.
LEMMA DuplicateChosen ==
    ASSUME IInv, StrictInv, DuplicateInv,
           NEW a \in Atoms, a \notin offered, a.entry \in Names,
           Bound(a.entry) # NULL, NoteDuplicate(a), Contend(a),
           NEW choice \in {"A", "B"}, choice \in Choices(a),
           Bound(a.entry)' = (IF choice = "A" THEN a ELSE Bound(a.entry)),
           UNCHANGED <<options, completed>>
    PROVE  DuplicateStep(a.entry)
<1> DEFINE n == a.entry
           b == Bound(n)
           D == StrongDefinitionsOf(n)
<1> SUFFICES ASSUME "absolute" \notin KindsOf(n)'
             PROVE  /\ ~IgnoreDuplicates => duplicates'[n] \subseteq D'
                    /\ UsesDuplicate(n)' => Bound(n)' \in duplicates'[n]
                    /\ D' # {} => Bound(n)'.definition = "regular" /\ ~Bound(n)'.weak
    BY DEF DuplicateStep, IgnoreDuplicates
<1>1. TypeOK
    BY DEF IInv
<1>2. /\ rivals' = rivals \cup {a}
      /\ strict' = (IF IgnoreDuplicates THEN strict ELSE strict \cup {a})
      /\ a \notin rivals /\ a \notin strict
    BY <1>1 DEF Contend, TypeOK
<1>3. n \in Entries /\ b \in Atoms /\ b \in rivals /\ b.entry = n
    BY <1>1, BoundType DEF Entries, IInv, EntryInv, RivalInv
<1>4. IsAttributed(a) /\ IsAttributed(b)
    BY <1>3, AtomsAssumption
<1>5. /\ KindsOf(n)' = KindsOf(n) \cup {a.definition}
      /\ b.definition \in KindsOf(n)
    BY <1>2, <1>3 DEF KindsOf, DefinitionsOf
<1>6. a.definition # "absolute" /\ b.definition # "absolute" /\ "absolute" \notin KindsOf(n)
    BY <1>5
<1>7. D' = (IF Strong(a) /\ ~IgnoreDuplicates THEN D \cup {a} ELSE D)
    BY <1>2 DEF StrongDefinitionsOf, DefinitionsOf
<1>8. /\ ~IgnoreDuplicates => duplicates[n] \subseteq D
      /\ UsesDuplicate(n) => b \in duplicates[n]
      /\ D # {} => b.definition = "regular" /\ ~b.weak
    BY <1>6 DEF DuplicateInv
<1>9. n \in DOMAIN duplicates /\ duplicates[n] \subseteq Atoms
    BY <1>1 DEF TypeOK
<1>10. CASE ReportDuplicate(a, b, IgnoreDuplicates)
    <2>1. /\ ~IgnoreDuplicates /\ Strong(a) /\ Strong(b)
          /\ duplicates'[n] = AddDuplicateSymbol(a, b)
        BY <1>4, <1>6, <1>9, <1>10
        DEF ReportDuplicate, StrongClash, Strong, NoteDuplicate, IsAttributed
    <2>2. b \in D /\ D' = D \cup {a}
        BY <1>3, <1>7, <2>1 DEF StrictInv, StrongDefinitionsOf, DefinitionsOf
    <2>3. AddDuplicateSymbol(a, b) \subseteq duplicates[n] \cup {a, b}
        BY DEF AddDuplicateSymbol
    <2>4. ASSUME UsesDuplicate(n)'
          PROVE  {a, b} \subseteq AddDuplicateSymbol(a, b)
        <3>1. \A x, y \in D \cup {a} : x # y => x.path # y.path
            BY <2>2, <2>4 DEF UsesDuplicate
        <3>2. duplicates[n] \subseteq D /\ a \notin D /\ a # b
            BY <1>2, <1>3, <1>8, <2>1 DEF StrongDefinitionsOf
        <3>3. \A y \in duplicates[n] : y.path = b.path => y = b
            BY <2>2, <3>1, <3>2
        <3>4. \A y \in duplicates[n] \cup {b} : y.path # a.path
            BY <2>2, <3>1, <3>2
        <3> QED BY <3>3, <3>4 DEF AddDuplicateSymbol
    <2> QED
        BY <1>8, <2>1, <2>2, <2>3, <2>4 DEF Strong
<1>11. CASE ~ReportDuplicate(a, b, IgnoreDuplicates)
    <2>1. duplicates' = duplicates
        BY <1>11 DEF NoteDuplicate
    <2>2. ~(Strong(a) /\ ~IgnoreDuplicates /\ Strong(b))
        BY <1>11 DEF Strong, ReportDuplicate, StrongClash
    <2>3. ~IgnoreDuplicates => (Strong(b) <=> b \in D)
        BY <1>3 DEF StrictInv, StrongDefinitionsOf, DefinitionsOf
    <2>4. ASSUME b.definition = "regular", ~b.weak, choice = "A"
          PROVE  a.definition = "regular" /\ ~a.weak
        <3>1. "A" \in PickAtom(a, b, IgnoreDuplicates, options.commonsMode)
            BY <2>4 DEF Choices
        <3> QED
            BY <1>4, <1>6, <2>4, <3>1
            DEF PickAtom, PickBetweenRegularAtoms, IsAttributed, Definitions
    <2>5. ASSUME Strong(a), ~IgnoreDuplicates, choice = "B"
          PROVE  b.definition = "regular" /\ ~b.weak
        <3>1. "B" \in PickAtom(a, b, IgnoreDuplicates, options.commonsMode)
            BY <2>5 DEF Choices
        <3> QED
            BY <1>4, <1>6, <2>5, <3>1
            DEF PickAtom, PickBetweenRegularAtoms, IsAttributed, Definitions, Strong
    <2>6. D' # {} => Bound(n)'.definition = "regular" /\ ~Bound(n)'.weak
        <3>1. CASE choice = "A"
            BY <1>7, <1>8, <2>4, <3>1 DEF Strong
        <3>2. CASE choice = "B"
            BY <1>7, <1>8, <2>5, <3>2
        <3> QED BY <3>1, <3>2
    <2>7. ASSUME UsesDuplicate(n)'
          PROVE  Bound(n)' \in duplicates'[n]
        <3>1. /\ Bound(n)' \in D'
              /\ \E c \in D' : c # Bound(n)'
              /\ \A c, d \in D' : c # d => c.path # d.path
            BY <2>7 DEF UsesDuplicate
        <3>2. a \notin D
            BY <1>2 DEF StrongDefinitionsOf
        <3>3. CASE choice = "A"
            <4>1. Strong(a) /\ ~IgnoreDuplicates /\ D # {}
                BY <1>7, <3>1, <3>2, <3>3
            <4>2. b.definition = "regular" /\ ~b.weak /\ b.machHeader
                BY <1>4, <1>8, <2>2, <4>1 DEF Strong, IsAttributed
            <4>3. "A" \notin PickAtom(a, b, IgnoreDuplicates, options.commonsMode)
                BY <1>4, <4>1, <4>2
                DEF PickAtom, PickBetweenRegularAtoms, IsAttributed, Strong
            <4> QED BY <3>3, <4>3 DEF Choices
        <3>4. CASE choice = "B"
            <4>1. b # a
                BY <1>2, <1>3
            <4>2. b \in D
                BY <1>7, <3>1, <3>4, <4>1
            <4>3. \E c \in D : c # b
                <5>1. CASE IgnoreDuplicates \/ ~Strong(a)
                    BY <1>7, <3>1, <3>4, <5>1
                <5>2. CASE ~IgnoreDuplicates /\ Strong(a)
                    BY <2>2, <2>3, <4>2, <5>2
                <5> QED BY <5>1, <5>2
            <4>4. UsesDuplicate(n)
                BY <1>6, <1>7, <3>1, <4>2, <4>3 DEF UsesDuplicate
            <4> QED BY <1>8, <2>1, <3>4, <4>4
        <3> QED BY <3>3, <3>4
    <2> QED
        BY <1>7, <1>8, <2>1, <2>6, <2>7
<1> QED BY <1>10, <1>11

\* The names other than that of an atom that is added.
LEMMA DuplicateElsewhere ==
    ASSUME DuplicateInv, NEW a \in Atoms, Contend(a),
           NEW m \in Names, m # a.entry,
           Bound(m)' = Bound(m), duplicates'[m] = duplicates[m],
           UNCHANGED <<options, completed>>
    PROVE  DuplicateStep(m)
<1>1. DefinitionsOf(m)' = DefinitionsOf(m)
    BY DEF DefinitionsOf, Contend
<1>2. StrongDefinitionsOf(m)' = StrongDefinitionsOf(m)
    <2>1. \A c \in DefinitionsOf(m) : c \in strict' <=> c \in strict
        BY DEF Contend, DefinitionsOf
    <2> QED BY <1>1, <2>1 DEF StrongDefinitionsOf
<1> QED BY <1>1, <1>2, DuplicateUnchanged DEF IgnoreDuplicates

\* A step that changes neither names nor the atoms offered for them.
LEMMA DuplicateFrame ==
    ASSUME DuplicateInv, StrictInv,
           \A m \in Names : Bound(m)' = Bound(m),
           UNCHANGED <<duplicates, rivals, strict, options>>,
           completed => completed',
           completed \in BOOLEAN, completed' \in BOOLEAN
    PROVE  DuplicateInv' /\ StrictInv'
<1>1. IgnoreDuplicates => IgnoreDuplicates'
    BY DEF IgnoreDuplicates
<1>2. \A m \in Names : /\ DefinitionsOf(m)' = DefinitionsOf(m)
                       /\ StrongDefinitionsOf(m)' = StrongDefinitionsOf(m)
    BY DEF DefinitionsOf, StrongDefinitionsOf
<1>3. \A m \in Names : DuplicateStep(m)
    BY <1>1, <1>2, DuplicateUnchanged
<1> QED BY <1>1, <1>3 DEF DuplicateInv, DuplicateStep, StrictInv

DInv == StrictInv /\ DuplicateInv /\ CheckedInv

LEMMA AddDInv ==
    ASSUME IInv, IInv', DInv, NEW a \in Atoms, Add(a)
    PROVE  DInv'
<1>1. /\ Adding /\ a \notin offered
      /\ UNCHANGED <<options, completed>>
    BY DEF Add, AddFirst, AddReplacing, AddKeeping, AddThrowing,
           AddContentFirst, AddContentReplacing, AddContentKeeping, Offer
<1>2. CheckedInv'
    <2>1. phase' = phase \/ phase' = "error"
        BY DEF Add, AddFirst, AddReplacing, AddKeeping, AddThrowing,
               AddContentFirst, AddContentReplacing, AddContentKeeping
    <2> QED BY <1>1, <2>1 DEF CheckedInv, Adding
<1>3. TypeOK /\ SlotsDistinct /\ a.entry \in Entries
    BY AtomsAssumption DEF IInv
<1>4. Contend(a) => StrictInv'
    BY <1>1 DEF Contend, DInv, StrictInv, IgnoreDuplicates
<1>5. BindEntry(a.entry, a) =>
          Bound(a.entry)' = a /\ \A f \in Entries \ {a.entry} : Bound(f)' = Bound(f)
    BY <1>3, BindEntryEffect
<1>6. ASSUME Contend(a), DuplicateStep(a.entry),
             \A m \in Names \ {a.entry} :
                 Bound(m)' = Bound(m) /\ duplicates'[m] = duplicates[m]
      PROVE  DInv'
    <2>1. \A m \in Names : DuplicateStep(m)
        BY <1>1, <1>6, DuplicateElsewhere DEF DInv
    <2> QED BY <1>2, <1>4, <1>6, <2>1 DEF DInv, DuplicateInv, DuplicateStep
<1>7. ASSUME NoteDuplicate(a), a.entry \in Names
      PROVE  \A m \in Names \ {a.entry} : duplicates'[m] = duplicates[m]
    BY <1>3, <1>7 DEF NoteDuplicate, TypeOK
<1>8. Names \subseteq Entries /\ Contents \cap Names = {}
    BY EntriesAssumption DEF Entries
<1>9. CASE AddFirst(a)
    <2>1. /\ Contend(a) /\ BindEntry(a.entry, a) /\ duplicates' = duplicates
          /\ a.entry \in Names /\ Bound(a.entry) = NULL
        BY <1>9 DEF AddFirst
    <2>2. DefinitionsOf(a.entry) = {}
        BY <2>1 DEF IInv, RivalInv, DefinitionsOf
    <2>3. /\ StrongDefinitionsOf(a.entry) = {} /\ KindsOf(a.entry) = {}
          /\ StrongDefinitionsOf(a.entry)' \subseteq {a}
        BY <2>1, <2>2
        DEF StrongDefinitionsOf, KindsOf, DefinitionsOf, Contend
    <2>4. StrongDefinitionsOf(a.entry)' # {} => Strong(a)
        BY <2>3 DEF StrongDefinitionsOf
    <2>5. ~UsesDuplicate(a.entry)'
        BY <1>5, <2>1, <2>3 DEF UsesDuplicate
    <2>6. ~IgnoreDuplicates => duplicates[a.entry] = {}
        BY <2>1, <2>3 DEF DInv, DuplicateInv
    <2>7. DuplicateStep(a.entry)
        BY <1>1, <1>5, <2>1, <2>4, <2>5, <2>6
        DEF DuplicateStep, IgnoreDuplicates, Strong
    <2> QED BY <1>5, <1>6, <1>8, <2>1, <2>7
<1>10. CASE AddReplacing(a)
    <2>1. /\ Contend(a) /\ BindEntry(a.entry, a) /\ NoteDuplicate(a)
          /\ a.entry \in Names /\ Bound(a.entry) # NULL /\ "A" \in Choices(a)
        BY <1>10 DEF AddReplacing
    <2>2. DuplicateStep(a.entry)
        BY <1>1, <1>5, <2>1, DuplicateChosen DEF DInv
    <2> QED BY <1>5, <1>6, <1>7, <1>8, <2>1, <2>2
<1>11. CASE AddKeeping(a)
    <2>1. /\ Contend(a) /\ UNCHANGED tableVars /\ NoteDuplicate(a)
          /\ a.entry \in Names /\ Bound(a.entry) # NULL /\ "B" \in Choices(a)
        BY <1>11 DEF AddKeeping
    <2>2. \A e : Bound(e)' = Bound(e)
        BY <2>1, TableUnchanged
    <2>3. DuplicateStep(a.entry)
        BY <1>1, <2>1, <2>2, DuplicateChosen DEF DInv
    <2> QED BY <1>6, <1>7, <2>1, <2>2, <2>3
<1>12. CASE AddThrowing(a)
    <2>1. UNCHANGED <<tableVars, duplicates, rivals, strict>>
        BY <1>12 DEF AddThrowing
    <2>2. \A e : Bound(e)' = Bound(e)
        BY <2>1, TableUnchanged
    <2> QED BY <1>1, <1>2, <1>3, <2>1, <2>2, DuplicateFrame DEF DInv, TypeOK
<1>13. CASE AddContentFirst(a) \/ AddContentReplacing(a) \/ AddContentKeeping(a)
    <2>1. /\ Contend(a) /\ duplicates' = duplicates /\ a.entry \in Contents
          /\ BindEntry(a.entry, a) \/ UNCHANGED tableVars
        BY <1>13 DEF AddContentFirst, AddContentReplacing, AddContentKeeping
    <2>2. \A m \in Names : Bound(m)' = Bound(m)
        BY <1>5, <1>8, <2>1, TableUnchanged
    <2>3. \A m \in Names : DuplicateStep(m)
        BY <1>1, <1>8, <2>1, <2>2, DuplicateElsewhere DEF DInv
    <2> QED BY <1>2, <1>4, <2>1, <2>3 DEF DInv, DuplicateInv, DuplicateStep
<1> QED BY <1>9, <1>10, <1>11, <1>12, <1>13 DEF Add

LEMMA DeadStripOptimizeDInv ==
    ASSUME IInv, IInv', DInv, DeadStripOptimize
    PROVE  DInv'
<1>1. /\ phase' = "stripped" /\ completed = TRUE
      /\ UNCHANGED <<options, duplicates, completed, strict>>
    BY DEF DeadStripOptimize, IInv, TypeOK
<1>2. CheckedInv'
    BY <1>1 DEF CheckedInv
<1>3. CASE UNCHANGED <<tableVars, rivals>>
    <2>1. \A e : Bound(e)' = Bound(e)
        BY <1>3, TableUnchanged
    <2> QED BY <1>1, <1>2, <1>3, <2>1, DuplicateFrame DEF DInv, IInv, TypeOK
<1>4. CASE options.deadCodeStrip /\ \E alive : RemoveDeadAtoms(alive)
    <2> PICK alive : RemoveDeadAtoms(alive)
        BY <1>4
    <2>1. /\ \A e \in DeadEntries(alive) : Bound(e)' = NULL
          /\ \A e \in Entries \ DeadEntries(alive) : Bound(e)' = Bound(e)
          /\ rivals' = {c \in rivals : c.entry \notin DeadEntries(alive)}
        BY RemoveDeadAtomsEffect DEF IInv
    <2>2. IgnoreDuplicates /\ IgnoreDuplicates'
        BY <1>1, <1>4 DEF IgnoreDuplicates
    <2>3. ASSUME NEW m \in Names
          PROVE  DuplicateStep(m)
        <3>1. CASE m \in DeadEntries(alive)
            <4>1. StrongDefinitionsOf(m)' = {}
                BY <2>1, <3>1 DEF StrongDefinitionsOf, DefinitionsOf
            <4> QED BY <2>2, <4>1 DEF DuplicateStep, UsesDuplicate
        <3>2. CASE m \notin DeadEntries(alive)
            <4>1. /\ DefinitionsOf(m)' = DefinitionsOf(m)
                  /\ Bound(m)' = Bound(m)
                BY <2>1, <3>2 DEF DefinitionsOf, Entries
            <4>2. StrongDefinitionsOf(m)' = StrongDefinitionsOf(m)
                BY <1>1, <4>1 DEF StrongDefinitionsOf
            <4> QED BY <1>1, <2>2, <4>1, <4>2, DuplicateUnchanged DEF DInv
        <3> QED BY <3>1, <3>2
    <2> QED BY <1>2, <2>2, <2>3 DEF DInv, StrictInv, DuplicateInv, DuplicateStep
<1> QED
    <2>1. \/ UNCHANGED <<tableVars, rivals>>
          \/ options.deadCodeStrip /\ \E alive : RemoveDeadAtoms(alive)
        BY DEF DeadStripOptimize
    <2> QED BY <1>3, <1>4, <2>1

\* Every step preserves what is known of the list of duplicates.
THEOREM StepDInv == IInv /\ DInv /\ [Next]_vars => DInv'
<1> SUFFICES ASSUME IInv, DInv, [Next]_vars
             PROVE  DInv'
    OBVIOUS
<1>1. IInv'
    BY StepInv
<1>2. TypeOK /\ TypeOK' /\ SlotsDistinct
    BY <1>1 DEF IInv
<1>3. Names \subseteq Entries /\ Contents \cap Names = {}
    BY EntriesAssumption DEF Entries
<1>4. ASSUME \A m \in Names : Bound(m)' = Bound(m),
             UNCHANGED <<options, duplicates, rivals, strict>>,
             completed => completed',
             CheckedInv'
      PROVE  DInv'
    BY <1>2, <1>4, DuplicateFrame DEF DInv, TypeOK
<1>5. ASSUME NEW a \in Atoms, Add(a)
      PROVE  DInv'
    BY <1>1, <1>5, AddDInv
<1>6. ASSUME NEW a \in Atoms, FindSlotForContent(a)
      PROVE  DInv'
    <2>1. /\ a.entry \in Contents /\ BindEntry(a.entry, a) /\ a.entry \in Entries
          /\ UNCHANGED <<options, duplicates, rivals, strict, completed, phase>>
          /\ phase # "ok"
        BY <1>6 DEF FindSlotForContent, historyVars, Entries, Adding
    <2>2. \A m \in Names : Bound(m)' = Bound(m)
        BY <1>2, <1>3, <2>1, BindEntryEffect
    <2> QED BY <1>4, <2>1, <2>2 DEF CheckedInv
<1>7. ASSUME NEW n \in Names, FindSlotForName(n)
      PROVE  DInv'
    <2>1. /\ BindEntry(n, NULL) /\ slotOf[n] = 0 /\ n \in Entries
          /\ UNCHANGED <<options, duplicates, rivals, strict, completed, phase>>
          /\ phase # "ok"
        BY <1>7 DEF FindSlotForName, historyVars, Entries, Adding
    <2>2. /\ Bound(n)' = NULL
          /\ \A f \in Entries \ {n} : Bound(f)' = Bound(f)
        BY <1>2, <2>1, BindEntryEffect
    <2>3. \A m \in Names : Bound(m)' = Bound(m)
        BY <1>3, <2>1, <2>2 DEF Bound
    <2> QED BY <1>4, <2>1, <2>3 DEF CheckedInv
<1>8. CASE DeadStripOptimize
    BY <1>1, <1>8, DeadStripOptimizeDInv
<1>9. CASE CompleteInitialObjectFiles \/ DeadStripAgain
    <2>1. /\ UNCHANGED <<tableVars, options, duplicates, rivals, strict>>
          /\ completed => completed'
          /\ phase' # "ok"
        BY <1>9 DEF CompleteInitialObjectFiles, DeadStripAgain, historyVars
    <2> QED BY <1>4, <2>1, TableUnchanged DEF CheckedInv
<1>10. CASE CheckDuplicateSymbols
    <2>1. /\ UNCHANGED <<tableVars, options, duplicates, rivals, strict, completed, live>>
          /\ phase' = "ok" => \A n \in Names : ~Reported(n)
        BY <1>10 DEF CheckDuplicateSymbols, historyVars
    <2>2. CheckedInv'
        BY <2>1 DEF CheckedInv, Reported
    <2> QED BY <1>4, <2>1, <2>2, TableUnchanged
<1>11. CASE UNCHANGED vars
    <2>1. /\ UNCHANGED <<tableVars, options, duplicates, rivals, strict, completed>>
          /\ CheckedInv'
        BY <1>11 DEF vars, historyVars, DInv, CheckedInv, Reported
    <2> QED BY <1>4, <2>1, TableUnchanged
<1> QED
    BY <1>5, <1>6, <1>7, <1>8, <1>9, <1>10, <1>11 DEF Next, Linked

-----------------------------------------------------------------------------
(* Group comdats                                                           *)

\* Every subordinate belongs to one atom: the parser makes one FDE for a
\* function and one LSDA for an FDE, and adds the group-subordinate fixups from
\* the one to the other.
OwnSubordinates ==
    \A x, y \in Atoms \cup Locals :
        x # y => Subordinates[x] \cap Subordinates[y] = {}

\* markCoalescedAway follows the subordinates of an atom to the end, and marks
\* nothing that is not a subordinate of what it marks.
LEMMA GroupClosed ==
    ASSUME NEW a \in Atoms
    PROVE  /\ Group(a) \subseteq Locals
           /\ Subordinates[a] \subseteq Group(a)
           /\ \A y \in Group(a) : Subordinates[y] \subseteq Group(a)
           /\ \A z \in Group(a) :
                  \E w \in {a} \cup Group(a) : z \in Subordinates[w]
<1> DEFINE Closed(S) == /\ Subordinates[a] \subseteq S
                        /\ \A y \in S : Subordinates[y] \subseteq S
<1>1. \A x : x \in Group(a)
                <=> x \in Locals /\ \A S \in SUBSET Locals : Closed(S) => x \in S
    BY DEF Group
<1>2. \A x \in Atoms \cup Locals : Subordinates[x] \subseteq Locals
    BY GroupsAssumption
<1> HIDE DEF Closed
<1>3. Group(a) \subseteq Locals
    BY <1>1
<1>4. Subordinates[a] \subseteq Group(a)
    BY <1>1, <1>2 DEF Closed
<1>5. ASSUME NEW y \in Group(a)
      PROVE  Subordinates[y] \subseteq Group(a)
    BY <1>1, <1>2, <1>3 DEF Closed
<1>6. ASSUME NEW z \in Group(a),
             \A w \in {a} \cup Group(a) : z \notin Subordinates[w]
      PROVE  FALSE
    <2>1. Closed(Group(a) \ {z})
        BY <1>4, <1>5, <1>6 DEF Closed
    <2>2. Group(a) \ {z} \in SUBSET Locals
        BY <1>3
    <2> QED BY <1>1, <1>6, <2>1, <2>2
<1> QED BY <1>3, <1>4, <1>5, <1>6

\* A step marks nothing, or one atom with its group.
LEMMA StepMarks ==
    ASSUME IInv, [Next]_vars
    PROVE  \/ UNCHANGED coalesced
           \/ \E a \in Atoms : MarkCoalescedAway(a)
<1>1. ASSUME NEW a \in Atoms, Add(a)
      PROVE  \/ UNCHANGED coalesced
             \/ \E b \in Atoms : MarkCoalescedAway(b)
    <2>0. a.entry \in Entries
        BY AtomsAssumption
    <2>1. CASE AddReplacing(a)
        <3>1. Bound(a.entry) \in Atoms
            BY <2>0, <2>1, BoundType DEF IInv, AddReplacing
        <3> QED BY <2>1, <3>1 DEF AddReplacing
    <2>2. CASE AddContentReplacing(a)
        <3>1. Bound(a.entry) \in Atoms
            BY <2>0, <2>2, BoundType DEF IInv, EntryInv, AddContentReplacing
        <3> QED BY <2>2, <3>1 DEF AddContentReplacing
    <2>3. CASE AddKeeping(a)
        BY <2>3 DEF AddKeeping
    <2>4. CASE AddContentKeeping(a)
        BY <2>4 DEF AddContentKeeping
    <2>5. CASE AddFirst(a) \/ AddThrowing(a) \/ AddContentFirst(a)
        BY <2>5 DEF AddFirst, AddThrowing, AddContentFirst
    <2> QED BY <1>1, <2>1, <2>2, <2>3, <2>4, <2>5 DEF Add
<1>2. ASSUME NEW a \in Atoms, FindSlotForContent(a)
      PROVE  UNCHANGED coalesced
    BY <1>2 DEF FindSlotForContent
<1>3. ASSUME NEW n \in Names, FindSlotForName(n)
      PROVE  UNCHANGED coalesced
    BY <1>3 DEF FindSlotForName
<1>4. CASE \/ CompleteInitialObjectFiles \/ DeadStripOptimize
           \/ DeadStripAgain \/ CheckDuplicateSymbols
    BY <1>4 DEF CompleteInitialObjectFiles, DeadStripOptimize,
        DeadStripAgain, CheckDuplicateSymbols
<1>5. CASE Linked \/ UNCHANGED vars
    BY <1>5 DEF Linked, vars
<1> QED BY <1>1, <1>2, <1>3, <1>4, <1>5 DEF Next

\* Marking an atom with its group leaves every group whole.
LEMMA StepGroups ==
    ASSUME OwnSubordinates, IInv, GroupsStayWhole, [Next]_vars
    PROVE  GroupsStayWhole'
<1>1. CASE UNCHANGED coalesced
    BY <1>1 DEF GroupsStayWhole
<1>2. ASSUME NEW a \in Atoms, MarkCoalescedAway(a)
      PROVE  GroupsStayWhole'
    <2>1. coalesced' = coalesced \cup {a} \cup Group(a)
        BY <1>2 DEF MarkCoalescedAway
    <2>2. ASSUME NEW x \in Atoms \cup Locals, x \in coalesced'
          PROVE  Subordinates[x] \subseteq coalesced'
        BY <2>1, <2>2, GroupClosed DEF GroupsStayWhole
    <2>3. ASSUME NEW x \in Atoms \cup Locals, x \notin coalesced',
                 NEW z \in Subordinates[x], z \in coalesced'
          PROVE  FALSE
        <3>1. z \notin coalesced
            BY <2>1, <2>3 DEF GroupsStayWhole
        <3>2. z \in Group(a)
            BY <2>1, <2>3, <3>1, GroupsAssumption
        <3>3. PICK w \in {a} \cup Group(a) : z \in Subordinates[w]
            BY <3>2, GroupClosed
        <3>4. w \in Atoms \cup Locals /\ w # x
            BY <2>1, <2>3, GroupClosed
        <3> QED BY <2>3, <3>3, <3>4 DEF OwnSubordinates
    <2> QED BY <2>2, <2>3 DEF GroupsStayWhole
<1> QED BY <1>1, <1>2, StepMarks

-----------------------------------------------------------------------------
(* The theorems                                                            *)

\* Both invariants hold in every reachable state.
THEOREM Invariance == Spec => [](IInv /\ DInv)
<1>1. Init => IInv /\ DInv
    <2>1. Init => DInv
        BY DEF Init, DInv, StrictInv, DuplicateInv, CheckedInv, KindsOf,
               StrongDefinitionsOf, DefinitionsOf, UsesDuplicate
    <2> QED BY <2>1, InitInv
<1>2. IInv /\ DInv /\ [Next]_vars => (IInv /\ DInv)'
    BY StepInv, StepDInv
<1> QED BY <1>1, <1>2, PTL DEF Spec

\* The state of the symbol table always has its type: in particular a slot
\* number handed out by findSlotForName or findSlotForContent never lies past
\* the end of the binding table, whatever is added, replaced or swept.
THEOREM TypeCorrect == Spec => []TypeOK
<1>1. IInv => TypeOK
    BY DEF IInv
<1> QED BY <1>1, Invariance, PTL

\* For every number of atoms and every order of adds, references and sweeps,
\* an atom offered for a living entry is bound or coalesced away and never
\* both (addByName, addByContent, addByReferences, markCoalescedAway).
THEOREM NeitherLostNorRevived == Spec => []BoundOrCoalesced
<1>1. IInv => BoundOrCoalesced
    BY DEF IInv
<1> QED BY <1>1, Invariance, PTL

\* The atom that is bound to a literal's content is as strictly aligned as any
\* atom offered with that content (addByContent, addByReferences).
THEOREM AlignmentKept == Spec => []StrictestAlignment
<1>1. IInv => StrictestAlignment
    BY DEF IInv
<1> QED BY <1>1, Invariance, PTL

\* Whatever the order in which its definitions are offered, a name without
\* duplicates is bound to a definition of the highest rank (pickAtom).
THEOREM OrderIndependent == Spec => []StrongestBound
<1>1. IInv => StrongestBound
    BY DEF IInv
<1> QED BY <1>1, Invariance, PTL

\* A link that ends well uses no name that had several strong definitions, all
\* from different files and offered while duplicates count
\* (addDuplicateSymbol, checkDuplicateSymbols).
THEOREM DuplicatesReported == Spec => []NoSilentDuplicate
<1>1. IInv /\ DInv => NoSilentDuplicate
    <2> SUFFICES ASSUME DInv, phase = "ok",
                        NEW n \in Names, UsesDuplicate(n)
                 PROVE  options.deadCodeStrip /\ Bound(n) \notin live
        BY DEF NoSilentDuplicate
    <2>1. Bound(n) \in duplicates[n]
        BY DEF DInv, DuplicateInv, UsesDuplicate
    <2>2. ~Reported(n)
        BY DEF DInv, CheckedInv
    <2> QED BY <2>1, <2>2 DEF Reported
<1> QED BY <1>1, Invariance, PTL

\* A function that is coalesced away takes its FDE and its LSDA with it, and an
\* FDE or LSDA goes only with its function, whatever is offered, in whatever
\* order, if every subordinate belongs to one atom (markCoalescedAway).
THEOREM GroupsWhole ==
    ASSUME OwnSubordinates
    PROVE  Spec => []GroupsStayWhole
<1>1. Init => GroupsStayWhole
    BY DEF Init, GroupsStayWhole
<1>2. IInv /\ GroupsStayWhole /\ [Next]_vars => GroupsStayWhole'
    BY StepGroups
<1> QED BY <1>1, <1>2, Invariance, PTL DEF Spec
=============================================================================
