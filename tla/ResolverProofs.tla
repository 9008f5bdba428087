--------------------------- MODULE ResolverProofs ---------------------------
(***************************************************************************)
(* Proofs about Resolver, for any names, files, libraries and command      *)
(* lines.                                                                  *)
(*                                                                         *)
(* The first part is about the searches: the invariant IInv, and from it   *)
(* when members are pulled in and that rounds exhaust the libraries.  The  *)
(* second part, from "What goes to doAtom is new" on, is about dead        *)
(* stripping: what is linked is closed under references, and nothing is    *)
(* kept that is not needed.  Its invariant SInv is shown to be kept on top *)
(* of IInv, part by part.                                                  *)
(***************************************************************************)
EXTENDS Resolver, TLAPS, FiniteSetTheorems

-----------------------------------------------------------------------------
(* Atoms and files                                                         *)

LEMMA AtomFacts ==
    ASSUME NEW a \in AllAtoms
    PROVE  /\ IsAttributed(a)
           /\ a.name \in Names
           /\ a.refs \in Seq(Names)
           /\ RefsOf(a) \subseteq Names
           /\ a # NULL
           /\ a.definition \in {"tentative", "absolute"} => a \in Atoms
           /\ a \in Atoms => a.definition # "proxy"
           /\ a.liveSupport => a \in Atoms
<1>1. CASE a \in Atoms
    BY <1>1, AtomsAssumption DEF RefsOf
<1>2. CASE a \in MadeAtoms
    <2>1. a.refs = <<>>
        BY <1>2 DEF MadeAtoms
    <2>2. a.refs \in Seq(Names) /\ RefsOf(a) = {}
        BY <2>1 DEF RefsOf
    <2>3. a.name \in Names /\ ~a.liveSupport
        BY <1>2 DEF MadeAtoms
    <2>4. a # NULL
        BY AtomsAssumption
    <2>5. a.definition \in {"proxy", "regular"} /\ a.ordinal \in Nat
        BY <1>2 DEF MadeAtoms
    <2>6. /\ a.weak \in BOOLEAN
          /\ a.bitcode = FALSE /\ a.autoHide = FALSE
          /\ a.global = FALSE /\ a.machHeader = FALSE
          /\ a.size = 0 /\ a.alignment = 0
        BY <1>2 DEF MadeAtoms
    <2>7. IsAttributed(a)
        <3>1. /\ a.bitcode \in BOOLEAN /\ a.autoHide \in BOOLEAN
              /\ a.global \in BOOLEAN /\ a.machHeader \in BOOLEAN
            BY <2>6, Zenon
        <3>2. a.size \in Nat /\ a.alignment \in Nat /\ a.definition \in Definitions
            BY <2>5, <2>6 DEF Definitions
        <3> QED BY <2>5, <2>6, <3>1, <3>2, Zenon DEF IsAttributed
    <2>8. a \in Atoms => a.definition # "proxy"
        BY AtomsAssumption
    <2> QED BY <2>2, <2>3, <2>4, <2>5, <2>7, <2>8
<1> QED BY <1>1, <1>2 DEF AllAtoms

LEMMA MadeFacts ==
    ASSUME NEW n \in Names, NEW definition \in {"proxy", "regular"},
           NEW weak \in BOOLEAN, NEW ordinal \in Nat
    PROVE  /\ Made(n, definition, weak, ordinal) \in MadeAtoms
           /\ Made(n, definition, weak, ordinal).name = n
           /\ Made(n, definition, weak, ordinal).definition = definition
BY DEF Made, MadeAtoms

LEMMA ExportFacts ==
    ASSUME NEW n \in Names, NEW weak \in BOOLEAN, NEW i \in Nat
    PROVE  /\ ExportAtom(n, weak, i) \in AllAtoms
           /\ ExportAtom(n, weak, i).name = n
           /\ ExportAtom(n, weak, i).definition = "proxy"
BY MadeFacts DEF ExportAtom, AllAtoms

\* What the picker can replace by a tentative definition or one of a dylib, and
\* what it can drop for one.
LEMMA PickFacts ==
    ASSUME NEW a, IsAttributed(a), NEW b, IsAttributed(b),
           NEW ignore \in BOOLEAN, NEW mode \in CommonsModes
    PROVE  /\ "A" \in PickAtom(a, b, ignore, mode)
                  /\ a.definition \in {"tentative", "proxy"}
                  => b.definition # "regular"
           /\ "B" \in PickAtom(a, b, ignore, mode)
                  /\ b.definition \in {"tentative", "proxy"}
                  => a.definition \in {"tentative", "proxy"}
<1>1. CASE a.definition \in {"tentative", "proxy"}
    BY <1>1 DEF IsAttributed, Definitions, PickAtom
<1>2. CASE a.definition \in {"regular", "absolute"}
    BY <1>2 DEF IsAttributed, Definitions, PickAtom
<1> QED BY <1>1, <1>2 DEF IsAttributed, Definitions

LEMMA TailRange ==
    ASSUME NEW S, NEW q \in Seq(S), q # <<>>
    PROVE  /\ Head(q) \in S /\ Head(q) \in Range(q)
           /\ Tail(q) \in Seq(S)
           /\ Range(q) = {Head(q)} \cup Range(Tail(q))
<1>1. Head(q) \in S /\ Head(q) = q[1] /\ 1 \in DOMAIN q /\ Tail(q) \in Seq(S)
    OBVIOUS
<1>2. ASSUME NEW x \in Range(q) PROVE x = Head(q) \/ x \in Range(Tail(q))
    <2>1. PICK k \in 1 .. Len(q) : x = q[k]
        BY DEF Range
    <2>2. CASE k # 1
        <3>1. k - 1 \in DOMAIN Tail(q) /\ Tail(q)[k - 1] = q[k]
            BY <2>2
        <3> QED BY <2>1, <3>1 DEF Range
    <2> QED BY <1>1, <2>1, <2>2
<1>3. ASSUME NEW x \in Range(Tail(q)) PROVE x \in Range(q)
    <2>1. PICK k \in DOMAIN Tail(q) : x = Tail(q)[k]
        BY DEF Range
    <2>2. k + 1 \in DOMAIN q /\ Tail(q)[k] = q[k + 1]
        OBVIOUS
    <2> QED BY <2>1, <2>2 DEF Range
<1> QED BY <1>1, <1>2, <1>3 DEF Range

LEMMA SeqRange ==
    ASSUME NEW S, NEW q \in Seq(S)
    PROVE  Range(q) \subseteq S
BY DEF Range

\* Only atoms of files are in files, and the files of a link are files.
LEMMA FileFacts ==
    ASSUME TypeOK, PhaseInv
    PROVE  /\ FilesIn \subseteq Files
           /\ \A f \in Files : AtomsOf(f) \subseteq Atoms
<1>1. \A f \in Files : AtomsOf(f) \subseteq Atoms
    BY FilesAssumption DEF AtomsOf
<1>2. input.objects \in Seq(Files)
    BY InputsAssumption DEF TypeOK
<1>3. ObjectsRead \subseteq Files
    <2>1. \A k \in 1 .. Len(input.objects) : input.objects[k] \in Files
        BY <1>2
    <2>2. CASE pc = "initial"
        <3>1. \A k \in 1 .. current - 1 : k \in 1 .. Len(input.objects)
            BY <1>2, <2>2 DEF PhaseInv
        <3> QED BY <2>1, <2>2, <3>1 DEF ObjectsRead
    <2>3. CASE pc # "initial"
        BY <1>2, <2>1, <2>3 DEF ObjectsRead, Range
    <2> QED BY <2>2, <2>3
<1>4. Pulled \subseteq Files
    <2>1. \A p \in Pulls : p.member \in Files
        BY DEF Pulls
    <2>2. \A k \in DOMAIN pulled : pulled[k] \in Pulls
        BY DEF TypeOK
    <2> QED BY <2>1, <2>2 DEF Pulled
<1> QED BY <1>1, <1>3, <1>4 DEF FilesIn

LEMMA LibraryFacts ==
    ASSUME TypeOK, NEW i \in 1 .. Len(searchList)
    PROVE  IsLibrary(LibraryFile(i))
BY InputsAssumption DEF TypeOK, LibraryFile

LEMMA SlotsFinite ==
    ASSUME NEW S \in SUBSET Names
    PROVE  IsFiniteSet(S) /\ Cardinality(S) \in Nat
BY NamesAssumption, FS_Subset, FS_CardinalityType

\* A table that gets no larger gets no new names.
LEMMA SlotsGrow ==
    ASSUME NEW S \in SUBSET Names, NEW T \in SUBSET S
    PROVE  /\ Cardinality(T) <= Cardinality(S)
           /\ Cardinality(S) = Cardinality(T) => S = T
BY SlotsFinite, FS_Subset

-----------------------------------------------------------------------------
(* doAtom                                                                  *)

LEMMA ModeType ==
    ASSUME TypeOK
    PROVE  IgnoreDuplicates \in BOOLEAN /\ input.commonsMode \in CommonsModes
<1>1. /\ input.commonsMode \in CommonsModes
      /\ input.deadCodeStrip \in BOOLEAN
      /\ input.allowDeadDuplicates \in BOOLEAN
    BY InputsAssumption DEF TypeOK
<1>2. completed \in BOOLEAN
    BY DEF TypeOK
<1> QED BY <1>1, <1>2, Zenon DEF IgnoreDuplicates

\* The symbol table after an atom was added: the name of the atom is bound, and
\* if to a definition that gives way to data, then the atom is of that kind and
\* so was what the name was bound to, unless it was absolute.
LEMMA AddAtomFacts ==
    ASSUME TypeOK, NEW a \in AllAtoms, AddAtom(a)
    PROVE  /\ bound' \in [Names -> AllAtoms \cup {NULL}]
           /\ \A n \in Names \ {a.name} : bound'[n] = bound[n]
           /\ bound'[a.name] # NULL
           /\ bound'[a.name] \in {a, bound[a.name]}
           /\ bound'[a.name].definition \in {"tentative", "proxy"} =>
                  /\ a.definition \in {"tentative", "proxy"}
                  /\ bound[a.name] # NULL => bound[a.name].definition # "regular"
           /\ coalesced \subseteq coalesced' \cup {a}
           /\ coalesced' \subseteq coalesced \cup {a} \cup BoundAtoms
<1> DEFINE b == bound[a.name]
<1>1. /\ a.name \in Names /\ IsAttributed(a) /\ a # NULL
      /\ bound \in [Names -> AllAtoms \cup {NULL}]
    BY AtomFacts DEF TypeOK
<1>2. b # NULL => b \in AllAtoms /\ IsAttributed(b) /\ b \in BoundAtoms
    BY <1>1, AtomFacts DEF BoundAtoms
<1>3. CASE /\ "A" \in Picks(a)
           /\ bound' = [bound EXCEPT ![a.name] = a]
           /\ coalesced' = (coalesced \cup {b}) \ {a, NULL}
    <2>1. a.definition \in {"tentative", "proxy"} /\ b # NULL
              => b.definition # "regular"
        BY <1>1, <1>2, <1>3, PickFacts, ModeType DEF Picks
    <2>2. bound'[a.name] = a
        BY <1>1, <1>3
    <2>3. NULL \notin coalesced
        BY AtomsAssumption DEF TypeOK
    <2> QED BY <1>1, <1>2, <1>3, <2>1, <2>2, <2>3
<1>4. CASE "B" \in Picks(a) /\ bound' = bound /\ coalesced' = coalesced \cup {a}
    <2>1. b # NULL
        BY <1>4 DEF Picks
    <2>2. b.definition \in {"tentative", "proxy"}
              => a.definition \in {"tentative", "proxy"}
        BY <1>1, <1>2, <1>4, <2>1, PickFacts, ModeType DEF Picks
    <2> QED BY <1>1, <1>4, <2>1, <2>2
<1> QED BY <1>3, <1>4 DEF AddAtom

\* DoAtom, in terms of the above.
LEMMA DoAtomFacts ==
    ASSUME TypeOK, DoAtom
    PROVE  /\ Head(queue) \in AllAtoms
           /\ AddAtom(Head(queue))
           /\ queue' = Tail(queue) /\ queue' \in Seq(AllAtoms)
           /\ Range(queue) = {Head(queue)} \cup Range(queue')
           /\ slots' = slots \cup NamesOf(Head(queue))
           /\ slots' \subseteq Names
           /\ RefsOf(Head(queue)) \subseteq slots'
<1>1. queue \in Seq(AllAtoms) /\ queue # <<>> /\ slots \subseteq Names
    BY DEF DoAtom, TypeOK
<1>2. /\ AddAtom(Head(queue))
      /\ queue' = Tail(queue)
      /\ slots' = slots \cup NamesOf(Head(queue))
    BY DEF DoAtom
<1> QED BY <1>1, <1>2, TailRange, AtomFacts DEF NamesOf

LEMMA DoAtomType ==
    ASSUME TypeOK, DoAtom
    PROVE  TypeOK'
<1> DEFINE a == Head(queue)
<1>1. /\ a \in AllAtoms /\ AddAtom(a)
      /\ queue' \in Seq(AllAtoms)
      /\ slots' \subseteq Names
      /\ slots' = slots \cup NamesOf(a)
    BY DoAtomFacts
<1>2. /\ input' = input /\ completed' = completed /\ searchList' = searchList
      /\ unprocessed' = unprocessed /\ linkerOptions' = linkerOptions
      /\ loaded' = loaded /\ search' = search /\ pc' = pc /\ todo' = todo
      /\ current' = current /\ genCount' = genCount /\ live' = live
      /\ stack' = stack /\ stage' = stage /\ pulled' = pulled
      /\ round' = round /\ late' = late
    BY DEF DoAtom, libraryVars, loopVars, historyVars
<1>3. /\ atoms' = atoms \cup {a}
      /\ duplicates' = Listed(a)
      /\ AddRoot(a)
      /\ liveSupport' = IF IsLiveSupport(a) THEN Append(liveSupport, a)
                                            ELSE liveSupport
    BY DEF DoAtom
<1>4. /\ bound' \in [Names -> AllAtoms \cup {NULL}]
      /\ \A n \in Names \ {a.name} : bound'[n] = bound[n]
      /\ bound'[a.name] \in {a, bound[a.name]}
      /\ coalesced \subseteq coalesced' \cup {a}
      /\ coalesced' \subseteq coalesced \cup {a} \cup BoundAtoms
    BY <1>1, AddAtomFacts
<1>5. a.name \in Names /\ a.name \in slots'
    BY <1>1, AtomFacts DEF NamesOf
<1> HIDE DEF a
<1>6. \A n \in Names : bound'[n] # NULL => n \in slots' /\ bound'[n].name = n
    BY <1>1, <1>4, <1>5 DEF TypeOK
<1>7. coalesced' \subseteq AllAtoms /\ atoms' \subseteq AllAtoms
    <2>1. BoundAtoms \subseteq AllAtoms
        BY DEF BoundAtoms, TypeOK
    <2> QED BY <1>1, <1>3, <1>4, <2>1 DEF TypeOK
<1>8. duplicates' \in [Names -> SUBSET AllAtoms] /\ externalTentative' \in BOOLEAN
    <2>1. duplicates' \in [Names -> SUBSET AllAtoms]
        <3>1. Reports(a) => bound[a.name] \in AllAtoms
            BY <1>5 DEF Reports, TypeOK
        <3> QED BY <1>1, <1>3, <1>5, <3>1 DEF Listed, TypeOK
    <2>2. externalTentative' = externalTentative
              \/ externalTentative' \in BOOLEAN
        <3>1. CASE externalTentative' = (externalTentative \/ (a.definition = "tentative" /\ a.global))
            BY <3>1, Zenon
        <3> QED BY <1>1, <3>1 DEF AddAtom
    <2> QED BY <2>1, <2>2 DEF TypeOK
<1>9. genCount \in -1 .. Cardinality(slots')
    <2>1. /\ Cardinality(slots) <= Cardinality(slots')
          /\ Cardinality(slots) \in Nat /\ Cardinality(slots') \in Nat
        BY <1>1, SlotsGrow, SlotsFinite
    <2> QED BY <2>1 DEF TypeOK
<1>10. roots' \subseteq AllAtoms /\ toMark' \subseteq roots'
    BY <1>1, <1>3 DEF AddRoot, TypeOK
<1>11. liveSupport' \in Seq(Atoms)
    <2>1. IsLiveSupport(a) => a \in Atoms
        BY <1>1, AtomFacts DEF IsLiveSupport
    <2> QED BY <1>3, <2>1 DEF TypeOK
<1>12. live \subseteq atoms' \cup coalesced'
    BY <1>3, <1>4 DEF TypeOK
<1>13. /\ search \in Searches \cup {NULL}
       /\ search # NULL => search.name \in slots' /\ search.next <= Len(searchList) + 1
       /\ todo \subseteq slots'
    BY <1>1 DEF TypeOK
<1> QED
    BY <1>1, <1>2, <1>4, <1>6, <1>7, <1>8, <1>9, <1>10, <1>11, <1>12, <1>13
    DEF TypeOK

\* What doAtom leaves alone and the other parts of the invariant look at.
LEMMA DoAtomFrame ==
    ASSUME DoAtom
    PROVE  /\ UNCHANGED <<input, loaded, search, pc, todo, current, genCount,
                          searchList, pulled, round, stack>>
           /\ FilesIn' = FilesIn
           /\ \A n : DefinitionsIn(FilesIn, n)' = DefinitionsIn(FilesIn, n)
           /\ \A i : LibraryFile(i)' = LibraryFile(i)
           /\ atoms' = atoms \cup {Head(queue)}
           /\ AddRoot(Head(queue))
           /\ liveSupport' = IF IsLiveSupport(Head(queue))
                             THEN Append(liveSupport, Head(queue))
                             ELSE liveSupport
<1>1. UNCHANGED <<input, loaded, search, pc, todo, current, genCount,
                  searchList, pulled, round, stack>>
    BY DEF DoAtom, libraryVars, loopVars, historyVars
<1>2. FilesIn' = FilesIn
    BY <1>1 DEF FilesIn, ObjectsRead, Pulled
<1>3. \A n : DefinitionsIn(FilesIn, n)' = DefinitionsIn(FilesIn, n)
    BY <1>2 DEF DefinitionsIn
<1>4. \A i : LibraryFile(i)' = LibraryFile(i)
    BY <1>1 DEF LibraryFile
<1> QED BY <1>1, <1>2, <1>3, <1>4 DEF DoAtom

LEMMA DoAtomPhase ==
    ASSUME TypeOK, PhaseInv, DoAtom
    PROVE  PhaseInv'
BY DoAtomFrame, DoAtomFacts DEF PhaseInv

LEMMA DoAtomSeen ==
    ASSUME TypeOK, SeenInv, DoAtom
    PROVE  SeenInv'
<1> DEFINE a == Head(queue)
<1>1. /\ a \in AllAtoms /\ AddAtom(a) /\ a.name \in Names
      /\ slots \subseteq slots' /\ RefsOf(a) \subseteq slots'
    BY DoAtomFacts, AtomFacts
<1>2. /\ atoms' = atoms \cup {a}
      /\ AddRoot(a)
      /\ liveSupport' = IF IsLiveSupport(a) THEN Append(liveSupport, a)
                                            ELSE liveSupport
      /\ pc' = pc
    BY DoAtomFrame
<1>3. /\ \A n \in Names \ {a.name} : bound'[n] = bound[n]
      /\ bound'[a.name] \in {a, bound[a.name]}
      /\ bound'[a.name] # NULL
      /\ coalesced \subseteq coalesced' \cup {a}
      /\ coalesced' \subseteq coalesced \cup {a} \cup BoundAtoms
    BY <1>1, AddAtomFacts
<1> HIDE DEF a
<1>4. BoundAtoms' \subseteq BoundAtoms \cup {a}
    BY <1>1, <1>3 DEF BoundAtoms
<1>5. \A x \in (atoms \cup coalesced \cup BoundAtoms)' : RefsOf(x) \subseteq slots'
    BY <1>1, <1>2, <1>3, <1>4 DEF SeenInv
<1>6. roots' \subseteq roots \cup {a}
    BY <1>2 DEF AddRoot
<1>7. Range(liveSupport') \subseteq Range(liveSupport) \cup {a}
    <2>1. liveSupport \in Seq(Atoms)
        BY DEF TypeOK
    <2> QED BY <1>2, <2>1 DEF Range
<1> QED BY <1>2, <1>3, <1>4, <1>5, <1>6, <1>7 DEF SeenInv

LEMMA DoAtomFiles ==
    ASSUME TypeOK, PhaseInv, FilesInv, DoAtom
    PROVE  FilesInv'
<1> DEFINE a == Head(queue)
           Defs(n) == DefinitionsIn(FilesIn, n)
<1>1. /\ a \in AllAtoms /\ AddAtom(a) /\ a.name \in Names
      /\ Range(queue) = {a} \cup Range(queue')
    BY DoAtomFacts, AtomFacts
<1>2. /\ FilesIn' = FilesIn /\ loaded' = loaded /\ pulled' = pulled /\ pc' = pc
      /\ \A n : DefinitionsIn(FilesIn, n)' = DefinitionsIn(FilesIn, n)
    BY DoAtomFrame
<1>3. /\ \A n \in Names \ {a.name} : bound'[n] = bound[n]
      /\ bound'[a.name] \in {a, bound[a.name]}
      /\ bound'[a.name] # NULL
      /\ bound'[a.name].definition \in {"tentative", "proxy"} =>
             /\ a.definition \in {"tentative", "proxy"}
             /\ bound[a.name] # NULL => bound[a.name].definition # "regular"
    BY <1>1, AddAtomFacts
<1>4. \A f \in FilesIn : AtomsOf(f) \subseteq Atoms
    BY FileFacts
<1>5. /\ \A x \in Atoms : x \in AllAtoms /\ x.name \in Names /\ x.definition # "proxy"
    BY AtomFacts DEF AllAtoms
<1> HIDE DEF a
<1>6. loaded' = Pulled'
    BY <1>2 DEF FilesInv, Pulled
<1>7. ASSUME pc # "error", NEW f \in FilesIn, NEW c \in AtomsOf(f),
             c \notin Range(queue')
      PROVE  Settled(c)'
    <2>0. c \in Atoms /\ c.name \in Names
        BY <1>4, <1>5
    <2>1. CASE c = a
        <3>1. bound'[c.name].definition \in {"tentative", "proxy"}
                  => c.definition = "tentative"
            BY <1>3, <1>5, <2>0, <2>1
        <3> QED BY <1>3, <2>1, <3>1 DEF Settled
    <2>2. CASE c # a
        <3>1. Settled(c)
            BY <1>1, <1>7, <2>2 DEF FilesInv
        <3>2. CASE c.name # a.name
            <4>1. bound'[c.name] = bound[c.name]
                BY <1>3, <2>0, <3>2
            <4> QED BY <1>2, <3>1, <4>1 DEF Settled
        <3>3. CASE c.name = a.name
            <4>1. bound[a.name] # NULL
                BY <3>1, <3>3 DEF Settled
            <4>2. bound[a.name] \in AllAtoms /\ IsAttributed(bound[a.name])
                      /\ bound[a.name].name = a.name
                      /\ bound[a.name] \in BoundAtoms
                BY <1>1, <4>1, AtomFacts DEF TypeOK, BoundAtoms
            <4>3. bound[a.name].definition = "absolute" => HasAbsolute(Defs(a.name))
                BY <1>7, <4>2 DEF FilesInv
            <4>4. ASSUME bound'[c.name].definition \in {"tentative", "proxy"}
                  PROVE  c.definition = "tentative" \/ HasAbsolute(Defs(c.name))
                BY <1>3, <3>1, <3>3, <4>1, <4>2, <4>3, <4>4
                DEF Settled, IsAttributed, Definitions
            <4>5. bound'[c.name] # NULL
                BY <1>3, <3>3
            <4> QED BY <1>2, <4>4, <4>5 DEF Settled
        <3> QED BY <3>2, <3>3
    <2> QED BY <2>1, <2>2
<1>8. ASSUME pc # "error", NEW x \in BoundAtoms' \cup Range(queue'),
             x.definition = "absolute"
      PROVE  HasAbsolute(Defs(x.name))
    <2>1. BoundAtoms' \subseteq BoundAtoms \cup {a}
        BY <1>1, <1>3 DEF BoundAtoms
    <2>2. x \in BoundAtoms \cup Range(queue)
        BY <1>1, <2>1
    <2> QED BY <1>8, <2>2 DEF FilesInv
<1> QED BY <1>2, <1>6, <1>7, <1>8 DEF FilesInv

LEMMA DoAtomSearch ==
    ASSUME TypeOK, SearchInv, DoAtom
    PROVE  SearchInv'
<1> DEFINE a == Head(queue)
<1>1. /\ a \in AllAtoms /\ AddAtom(a) /\ a.name \in Names
      /\ Range(queue) = {a} \cup Range(queue')
    BY DoAtomFacts, AtomFacts
<1>2. /\ \A n \in Names \ {a.name} : bound'[n] = bound[n]
      /\ bound'[a.name] # NULL
    BY <1>1, AddAtomFacts
<1>3. /\ search' = search
      /\ \A n : DefinitionsIn(FilesIn, n)' = DefinitionsIn(FilesIn, n)
      /\ \A i : LibraryFile(i)' = LibraryFile(i)
    BY DoAtomFrame
<1> HIDE DEF a
<1>4. search # NULL => search.name \in Names
    BY DEF TypeOK
<1>5. ASSUME search # NULL, search.next > 1
      PROVE  \/ bound'[search.name] # NULL
             \/ \E x \in Range(queue') : x.name = search.name
    BY <1>1, <1>2, <1>4, <1>5 DEF SearchInv
<1>6. ASSUME search # NULL, search.archives
      PROVE  LET defs == DefinitionsIn(FilesIn, search.name)'
             IN  /\ defs # {} => search.dataOnly /\ Overridable(defs)
                 /\ \A j \in 1 .. search.next - 1 :
                        GoesPast(LibraryFile(j)', search, defs)
    BY <1>3, <1>6 DEF SearchInv
<1> QED BY <1>3, <1>5, <1>6 DEF SearchInv

LEMMA DoAtomRound ==
    ASSUME TypeOK, RoundInv, DoAtom
    PROVE  RoundInv'
<1> DEFINE a == Head(queue)
<1>1. /\ a \in AllAtoms /\ AddAtom(a) /\ a.name \in Names
      /\ Range(queue) = {a} \cup Range(queue')
      /\ slots \subseteq slots' /\ slots' \subseteq Names
    BY DoAtomFacts, AtomFacts
<1>2. /\ \A n \in Names \ {a.name} : bound'[n] = bound[n]
      /\ bound'[a.name] # NULL
    BY <1>1, AddAtomFacts
<1>3. /\ UNCHANGED <<search, pc, todo, genCount, round>>
      /\ \A i : LibraryFile(i)' = LibraryFile(i)
    BY DoAtomFrame
<1> HIDE DEF a
<1>4. search # NULL => search.name \in Names
    BY DEF TypeOK
<1>5. RoundsEnd' => slots' = slots /\ RoundsEnd
    <2>1. /\ Cardinality(slots) <= Cardinality(slots')
          /\ Cardinality(slots') = Cardinality(slots) => slots' = slots
          /\ Cardinality(slots) \in Nat /\ Cardinality(slots') \in Nat
        BY <1>1, SlotsGrow, SlotsFinite
    <2>2. genCount \in -1 .. Cardinality(slots)
        BY DEF TypeOK
    <2> QED BY <1>3, <2>1, <2>2 DEF RoundsEnd
<1>6. ASSUME RoundsEnd', pc \in Rounds, NEW n \in UndefinedNames'
      PROVE  \/ pc \in {"undefines", "boundary"} /\ n \in todo
             \/ search # NULL /\ search.name = n
             \/ \E x \in Range(queue') : x.name = n
             \/ \A i \in 1 .. round : ~Provides(LibraryFile(i), n)
    <2>1. n \in Names /\ n # a.name
        BY <1>1, <1>2 DEF UndefinedNames
    <2>2. n \in UndefinedNames
        BY <1>2, <1>5, <1>6, <2>1 DEF UndefinedNames
    <2> QED BY <1>1, <1>5, <1>6, <2>1, <2>2 DEF RoundInv
<1>7. ASSUME pc \in Rounds, search # NULL, bound'[search.name] = NULL
      PROVE  search.dylibs /\ search.archives /\ ~search.dataOnly
    BY <1>2, <1>4, <1>7 DEF RoundInv
<1> QED BY <1>3, <1>6, <1>7 DEF RoundInv

LEMMA DoAtomInv ==
    ASSUME IInv, DoAtom
    PROVE  IInv'
BY DoAtomType, DoAtomPhase, DoAtomSeen, DoAtomFiles, DoAtomSearch, DoAtomRound
DEF IInv

\* A definition that the picker refuses, or the crash, ends the link.
LEMMA DoAtomFailsInv ==
    ASSUME IInv, DoAtomFails
    PROVE  IInv'
<1>1. /\ UNCHANGED <<input, slots, bound, coalesced, duplicates, atoms,
                     externalTentative, completed, searchList, unprocessed,
                     linkerOptions, loaded, todo, current, genCount, roots,
                     toMark, liveSupport, live, stage, pulled, round, late>>
      /\ pc' = "error" /\ queue' = <<>> /\ search' = NULL /\ stack' = <<>>
    BY DEF DoAtomFails, tableVars, libraryVars, loopVars, historyVars
<1>2. TypeOK'
    BY <1>1 DEF IInv, TypeOK, Phases
<1>3. PhaseInv'
    BY <1>1 DEF IInv, PhaseInv
<1>4. SeenInv'
    BY <1>1 DEF IInv, SeenInv, BoundAtoms, Swept
<1>5. FilesInv'
    BY <1>1 DEF IInv, FilesInv, Pulled
<1>6. SearchInv' /\ RoundInv'
    BY <1>1 DEF SearchInv, RoundInv, Rounds
<1> QED BY <1>2, <1>3, <1>4, <1>5, <1>6 DEF IInv

-----------------------------------------------------------------------------
(* Frames                                                                  *)

\* The files stay as they are, if all of their atoms were seen and what is
\* handed to doAtom next is nothing absolute.
LEMMA FilesFrame ==
    ASSUME FilesInv, UNCHANGED <<input, loaded, pulled, bound>>,
           pc \notin {"initial", "error"}, pc' # "initial",
           queue = <<>>, \A a \in Range(queue') : a.definition # "absolute"
    PROVE  /\ FilesIn' = FilesIn
           /\ \A n : DefinitionsIn(FilesIn, n)' = DefinitionsIn(FilesIn, n)
           /\ FilesInv'
<1>1. FilesIn' = FilesIn
    BY DEF FilesIn, ObjectsRead, Pulled
<1>2. \A n : DefinitionsIn(FilesIn, n)' = DefinitionsIn(FilesIn, n)
    BY <1>1 DEF DefinitionsIn
<1>3. loaded' = Pulled' /\ BoundAtoms' = BoundAtoms
    BY DEF FilesInv, Pulled, BoundAtoms
<1>4. Range(queue) = {}
    BY DEF Range
<1>5. ASSUME NEW f \in FilesIn', NEW a \in AtomsOf(f)
      PROVE  Settled(a)'
    <2>1. Settled(a)
        BY <1>1, <1>4, <1>5 DEF FilesInv
    <2> QED BY <1>2, <2>1 DEF Settled
<1>6. ASSUME NEW a \in BoundAtoms' \cup Range(queue'), a.definition = "absolute"
      PROVE  HasAbsolute(DefinitionsIn(FilesIn, a.name))'
    <2>1. HasAbsolute(DefinitionsIn(FilesIn, a.name))
        BY <1>3, <1>6 DEF FilesInv
    <2> QED BY <1>2, <2>1
<1> QED BY <1>1, <1>2, <1>3, <1>5, <1>6 DEF FilesInv

\* What the other parts of the invariant say of the symbol table stays true, as
\* long as the table does.
LEMMA SeenFrame ==
    ASSUME SeenInv, UNCHANGED <<slots, bound, coalesced, liveSupport>>,
           pc' \notin Swept => pc \notin Swept /\ atoms' = atoms
                                /\ roots' \subseteq roots \cup BoundAtoms \cup atoms,
           atoms' \subseteq atoms
    PROVE  SeenInv'
<1>1. BoundAtoms' = BoundAtoms
    BY DEF BoundAtoms
<1> QED BY <1>1 DEF SeenInv

\* A call of searchLibraries for name n, or none: a search that may load members
\* is for a name that is unbound, or for data if it is tentative.
Called(n) ==
    \/ search' = NULL
    \/ /\ search' \in Searches /\ search'.name = n /\ search'.next = 1
       /\ search'.archives =>
            bound[n] = NULL \/ (IsTentative(n) /\ search'.dataOnly)

LEMMA SearchLibrariesCalled ==
    ASSUME NEW n \in Names, NEW dylibs \in BOOLEAN, NEW archives \in BOOLEAN,
           NEW dataOnly \in BOOLEAN, SearchLibraries(n, dylibs, archives, dataOnly),
           archives => bound[n] = NULL \/ (IsTentative(n) /\ dataOnly)
    PROVE  Called(n)
<1>1. search' \in Searches /\ search'.name = n /\ search'.next = 1
    BY DEF SearchLibraries, Searches
<1>2. search'.archives = archives /\ search'.dataOnly = dataOnly
    BY DEF SearchLibraries
<1> QED BY <1>1, <1>2 DEF Called

LEMMA SearchUndefinedCalled ==
    ASSUME NEW n \in Names, search = NULL, SearchUndefined(n)
    PROVE  Called(n) /\ (search' # NULL => search'.dylibs /\ search'.archives
                                           /\ ~search'.dataOnly)
<1>1. CASE bound[n] = NULL /\ SearchLibraries(n, TRUE, TRUE, FALSE)
    BY <1>1, SearchLibrariesCalled DEF SearchLibraries
<1>2. CASE search' = search
    BY <1>2 DEF Called
<1> QED BY <1>1, <1>2 DEF SearchUndefined

LEMMA SearchOverrideCalled ==
    ASSUME NEW n \in Names, search = NULL, SearchOverride(n)
    PROVE  Called(n) /\ (search' # NULL => bound[n] # NULL)
<1>1. CASE /\ IsTentative(n)
           /\ SearchLibraries(n, input.commonsMode = "overriddenByDylibs", TRUE, TRUE)
    <2>1. (input.commonsMode = "overriddenByDylibs") \in BOOLEAN
        OBVIOUS
    <2> QED BY <1>1, <2>1, SearchLibrariesCalled DEF IsTentative
<1>2. CASE search' = search
    BY <1>2 DEF Called
<1> QED BY <1>1, <1>2 DEF SearchOverride

\* Such a call is one that the invariant allows.
LEMMA CalledInv ==
    ASSUME TypeOK, PhaseInv, FilesInv, NEW n \in Names, Called(n), queue = <<>>,
           UNCHANGED <<input, pulled>>,
           pc \notin {"initial", "error"}, pc' # "initial"
    PROVE  SearchInv'
<1>1. FilesIn' = FilesIn
    BY DEF FilesIn, ObjectsRead, Pulled
<1> DEFINE defs == DefinitionsIn(FilesIn, n)
<1>2. DefinitionsIn(FilesIn, n)' = defs
    BY <1>1 DEF DefinitionsIn
<1>3. ASSUME NEW a \in defs
      PROVE  /\ bound[n] # NULL
             /\ IsTentative(n) => a.definition = "tentative" \/ HasAbsolute(defs)
    <2>1. PICK f \in FilesIn : a \in AtomsOf(f) /\ a.name = n
        BY DEF DefinitionsIn
    <2>2. Range(queue) = {}
        BY DEF Range
    <2>3. Settled(a)
        BY <2>1, <2>2 DEF FilesInv
    <2> QED BY <2>1, <2>3 DEF Settled, IsTentative
<1> HIDE DEF defs
<1>4. ASSUME search' # NULL, search'.archives, defs # {}
      PROVE  search'.dataOnly /\ Overridable(defs)
    <2>1. IsTentative(n) /\ search'.dataOnly
        BY <1>3, <1>4 DEF Called
    <2> QED BY <1>3, <2>1 DEF Overridable
<1>5. search' # NULL => search'.name = n /\ search'.next = 1
    BY DEF Called
<1> QED BY <1>2, <1>4, <1>5 DEF SearchInv

-----------------------------------------------------------------------------
(* searchLibraries                                                         *)

\* A library that does not respond is one that the search can go past.
LEMMA NotResponding ==
    ASSUME TypeOK, FilesInv, SearchInv, search # NULL, search.archives,
           NEW j \in 1 .. Len(searchList), ~Responds(j)
    PROVE  GoesPast(LibraryFile(j), search, DefinitionsIn(FilesIn, search.name))
<1> DEFINE lib == LibraryFile(j)
           n == search.name
           defs == DefinitionsIn(FilesIn, n)
<1>1. IsLibrary(lib)
    BY LibraryFacts
<1>2. /\ Responds(j) <=>
            /\ Provides(lib, n)
            /\ IF lib.archive
               THEN /\ search.archives
                    /\ lib.toc[n] \notin loaded
                    /\ search.dataOnly => IsData(lib.toc[n], n)
               ELSE search.dylibs
    BY DEF Responds, LibraryFile
<1> SUFFICES GoesPast(lib, search, defs)
    OBVIOUS
<1> HIDE DEF lib
<1>3. CASE ~lib.archive
    BY <1>2, <1>3 DEF GoesPast
<1>4. CASE lib.archive /\ Provides(lib, n)
    <2>1. n \in ListedNames(lib.toc[n])
        BY <1>1, <1>4 DEF IsLibrary, Provides
    <2>2. PICK a \in AtomsOf(lib.toc[n]) : a.name = n /\ a.definition # "tentative"
        BY <2>1 DEF ListedNames
    <2>3. CASE lib.toc[n] \in loaded
        <3>1. lib.toc[n] \in FilesIn
            BY <2>3 DEF FilesInv, FilesIn
        <3>2. a \in defs
            BY <2>2, <3>1 DEF DefinitionsIn
        <3>3. search.dataOnly /\ Overridable(defs)
            BY <3>2 DEF SearchInv
        <3> QED BY <1>4, <2>2, <3>2, <3>3 DEF GoesPast, Overridable
    <2>4. CASE lib.toc[n] \notin loaded
        <3>1. search.dataOnly /\ ~IsData(lib.toc[n], n)
            BY <1>2, <1>4, <2>4
        <3> QED BY <1>4, <3>1 DEF GoesPast
    <2> QED BY <2>3, <2>4
<1> QED BY <1>3, <1>4 DEF GoesPast

\* So are all libraries before the first that responds.
LEMMA FirstGoesPast ==
    ASSUME TypeOK, FilesInv, SearchInv, search # NULL, search.archives,
           NEW i \in Responses, FirstResponse(i), NEW j \in 1 .. i - 1
    PROVE  GoesPast(LibraryFile(j), search, DefinitionsIn(FilesIn, search.name))
<1>1. /\ search.next \in Nat \ {0} /\ Len(searchList) \in Nat
      /\ i \in search.next .. Len(searchList)
    BY DEF TypeOK, Searches, Responses
<1>2. CASE j < search.next
    BY <1>1, <1>2 DEF SearchInv
<1>3. CASE j >= search.next
    <2>1. j \in 1 .. Len(searchList) /\ j \in search.next .. Len(searchList)
        BY <1>1, <1>3
    <2>2. ~Responds(j)
        BY <1>1, <2>1 DEF FirstResponse, Responses
    <2> QED BY <2>1, <2>2, NotResponding
<1> QED BY <1>1, <1>2, <1>3

\* The loops look at no library and at no file while one of these steps is made.
LEMMA RoundFrame ==
    ASSUME RoundInv, UNCHANGED <<slots, bound, genCount, todo, round, pc>>,
           TypeOK, Len(searchList') >= Len(searchList),
           \A i \in 1 .. Len(searchList) : LibraryFile(i)' = LibraryFile(i),
           queue = <<>>, search # NULL,
           \/ /\ search' # NULL /\ search'.name = search.name
              /\ search'.dylibs = search.dylibs
              /\ search'.archives = search.archives
              /\ search'.dataOnly = search.dataOnly
           \/ /\ search' = NULL
              /\ pc \in Rounds /\ bound[search.name] = NULL =>
                    \/ \E a \in Range(queue') : a.name = search.name
                    \/ \A i \in 1 .. Len(searchList) :
                            ~Provides(LibraryFile(i), search.name)
    PROVE  RoundInv'
<1>1. round \in 0 .. Len(searchList)
    BY DEF TypeOK
<1>2. UndefinedNames' = UndefinedNames /\ RoundsEnd' = RoundsEnd
    BY DEF UndefinedNames, RoundsEnd
<1>3. Range(queue) = {}
    BY DEF Range
<1>4. ASSUME pc \in Rounds, RoundsEnd, NEW n \in UndefinedNames
      PROVE  \/ pc \in {"undefines", "boundary"} /\ n \in todo
             \/ search' # NULL /\ search'.name = n
             \/ \E a \in Range(queue') : a.name = n
             \/ \A i \in 1 .. round : ~Provides(LibraryFile(i)', n)
    <2>1. \/ pc \in {"undefines", "boundary"} /\ n \in todo
          \/ search.name = n
          \/ \A i \in 1 .. round : ~Provides(LibraryFile(i), n)
        BY <1>3, <1>4 DEF RoundInv
    <2>2. bound[n] = NULL
        BY DEF UndefinedNames
    <2> QED BY <1>1, <1>4, <2>1, <2>2
<1> QED BY <1>2, <1>4 DEF RoundInv

\* What a step of a search leaves alone.
LEMMA SearchFrame ==
    ASSUME SearchHit \/ SearchMiss
    PROVE  /\ UNCHANGED <<input, slots, bound, coalesced, duplicates, atoms,
                          externalTentative, completed, pc, todo, current,
                          genCount, roots, toMark, liveSupport, live, stack,
                          stage, unprocessed, round>>
           /\ queue = <<>> /\ search # NULL
<1>1. CASE SearchHit
    <2>1. UNCHANGED <<unprocessed, round>>
        BY <1>1 DEF SearchHit, SearchDylib, SearchArchive, libraryVars, historyVars
    <2> QED BY <1>1, <2>1 DEF SearchHit, tableVars, loopVars, stripVars
<1>2. CASE SearchMiss
    BY <1>2 DEF SearchMiss, tableVars, loopVars, stripVars, libraryVars, historyVars
<1> QED BY <1>1, <1>2

LEMMA SearchMissInv ==
    ASSUME IInv, SearchMiss
    PROVE  IInv'
<1>1. /\ UNCHANGED <<input, slots, bound, coalesced, duplicates, atoms,
                     externalTentative, completed, pc, todo, current,
                     genCount, roots, toMark, liveSupport, live, stack,
                     stage, unprocessed, round>>
      /\ queue = <<>> /\ search # NULL
    BY SearchFrame
<1>2. /\ UNCHANGED <<searchList, linkerOptions, loaded, queue, pulled, late>>
      /\ search' = NULL /\ Responses = {}
    BY DEF SearchMiss, libraryVars, historyVars
<1>3. TypeOK'
    BY <1>1, <1>2 DEF IInv, TypeOK
<1>4. PhaseInv'
    BY <1>1, <1>2 DEF IInv, PhaseInv
<1>5. SeenInv'
    BY <1>1, <1>2 DEF IInv, SeenInv, BoundAtoms
<1>6. FilesInv'
    <2>1. Range(queue') = {}
        BY <1>1, <1>2 DEF Range
    <2>2. CASE pc # "error"
        <3>1. pc # "initial"
            BY <1>1 DEF IInv, PhaseInv
        <3> QED BY <1>1, <1>2, <2>1, <2>2, <3>1, FilesFrame DEF IInv
    <2>3. CASE pc = "error"
        BY <1>1, <1>2, <2>3 DEF IInv, FilesInv, Pulled
    <2> QED BY <2>2, <2>3
<1>7. SearchInv'
    BY <1>2 DEF SearchInv
<1>8. RoundInv'
    <2>1. ASSUME pc \in Rounds, bound[search.name] = NULL,
                 NEW i \in 1 .. Len(searchList)
          PROVE  ~Provides(LibraryFile(i), search.name)
        <3>1. search.dylibs /\ search.archives /\ ~search.dataOnly
            BY <1>1, <2>1 DEF IInv, RoundInv
        <3>2. Range(queue) = {}
            BY <1>1 DEF Range
        <3>3. search.next \in Nat \ {0}
            BY <1>1 DEF IInv, TypeOK, Searches
        <3>4. search.next = 1
            BY <1>1, <2>1, <3>2, <3>3 DEF IInv, SearchInv
        <3>5. ~Responds(i)
            BY <1>2, <3>4 DEF Responses
        <3>6. GoesPast(LibraryFile(i), search, DefinitionsIn(FilesIn, search.name))
            BY <1>1, <3>1, <3>5, NotResponding DEF IInv
        <3>7. CASE LibraryFile(i).archive
            BY <3>1, <3>6, <3>7 DEF GoesPast
        <3>8. CASE ~LibraryFile(i).archive
            BY <3>1, <3>5, <3>8 DEF Responds, LibraryFile
        <3> QED BY <3>7, <3>8
    <2>2. \A i \in 1 .. Len(searchList) : LibraryFile(i)' = LibraryFile(i)
        BY <1>1, <1>2 DEF LibraryFile
    <2>3. Len(searchList') >= Len(searchList)
        BY <1>2 DEF IInv, TypeOK
    <2> QED BY <1>1, <1>2, <2>1, <2>2, <2>3, RoundFrame DEF IInv
<1> QED BY <1>3, <1>4, <1>5, <1>6, <1>7, <1>8 DEF IInv

LEMMA SearchDylibInv ==
    ASSUME IInv, SearchHit, NEW i \in Responses, FirstResponse(i), SearchDylib(i)
    PROVE  IInv'
<1> DEFINE lib == LibraryFile(i)
           n == search.name
           weak == n \in lib.weakExports
           a == ExportAtom(n, weak, i)
<1>1. /\ UNCHANGED <<input, slots, bound, coalesced, duplicates, atoms,
                     externalTentative, completed, pc, todo, current,
                     genCount, roots, toMark, liveSupport, live, stack,
                     stage, unprocessed, round>>
      /\ queue = <<>> /\ search # NULL
    BY SearchFrame
<1>2. /\ UNCHANGED <<searchList, linkerOptions, loaded, pulled, late>>
      /\ ~lib.archive
      /\ queue' = <<a>>
      /\ search' = IF weak THEN [search EXCEPT !.next = i + 1] ELSE NULL
    BY DEF SearchDylib, libraryVars, historyVars, LibraryFile
<1>3. /\ search \in Searches /\ n \in Names /\ n \in slots
      /\ search.next \in Nat \ {0} /\ Len(searchList) \in Nat
      /\ i \in search.next .. Len(searchList)
    BY <1>1 DEF IInv, TypeOK, Searches, Responses
<1>4. a \in AllAtoms /\ a.name = n /\ a.definition = "proxy"
    <2>1. weak \in BOOLEAN
        OBVIOUS
    <2>2. i \in Nat
        BY <1>3
    <2> QED BY <1>3, <2>1, <2>2, ExportFacts, ZenonT(60)
<1> HIDE DEF a
<1>5. /\ queue' \in Seq(AllAtoms) /\ Range(queue') = {a}
    BY <1>2, <1>4 DEF Range
<1>6. search' # NULL =>
        /\ weak
        /\ search' \in Searches /\ search'.name = n /\ search'.next = i + 1
        /\ search'.dylibs = search.dylibs /\ search'.archives = search.archives
        /\ search'.dataOnly = search.dataOnly
    BY <1>2, <1>3 DEF Searches
<1> HIDE DEF weak
<1>7. TypeOK'
    <2>1. search' \in Searches \cup {NULL}
        BY <1>6
    <2>2. search' # NULL => search'.name \in slots' /\ search'.next <= Len(searchList') + 1
        BY <1>1, <1>2, <1>3, <1>6
    <2> QED BY <1>1, <1>2, <1>5, <2>1, <2>2 DEF IInv, TypeOK
<1>8. pc \notin {"initial", "error"} \/ pc = "error"
    BY <1>1 DEF IInv, PhaseInv
<1>9. PhaseInv'
    BY <1>1, <1>2 DEF IInv, PhaseInv
<1>10. SeenInv'
    BY <1>1 DEF IInv, SeenInv, BoundAtoms
<1>11. /\ FilesInv'
       /\ \A m : DefinitionsIn(FilesIn, m)' = DefinitionsIn(FilesIn, m)
    <2>1. CASE pc # "error"
        BY <1>1, <1>2, <1>4, <1>5, <1>8, <2>1, FilesFrame DEF IInv
    <2>2. CASE pc = "error"
        BY <1>1, <1>2, <2>2
        DEF IInv, FilesInv, DefinitionsIn, FilesIn, ObjectsRead, Pulled
    <2> QED BY <2>1, <2>2
<1>12. \A j : LibraryFile(j)' = LibraryFile(j)
    BY <1>1, <1>2 DEF LibraryFile
<1>13. SearchInv'
    <2> DEFINE defs == DefinitionsIn(FilesIn, n)
    <2>1. ASSUME search' # NULL
          PROVE  \E x \in Range(queue') : x.name = n
        BY <1>4, <1>5
    <2>2. ASSUME search' # NULL, search'.archives
          PROVE  /\ defs # {} => search'.dataOnly /\ Overridable(defs)
                 /\ \A j \in 1 .. search'.next - 1 :
                        GoesPast(LibraryFile(j), search', defs)
        <3>1. defs # {} => search'.dataOnly /\ Overridable(defs)
            BY <1>1, <1>6, <2>2 DEF IInv, SearchInv
        <3>2. ASSUME NEW j \in 1 .. i - 1
              PROVE  GoesPast(LibraryFile(j), search, defs)
            BY <1>1, <1>6, <2>2, FirstGoesPast DEF IInv
        <3>3. GoesPast(LibraryFile(i), search, defs)
            BY <1>2, <1>6, <2>2 DEF GoesPast, weak
        <3>4. \A j \in 1 .. search'.next - 1 : GoesPast(LibraryFile(j), search, defs)
            BY <1>3, <1>6, <2>2, <3>2, <3>3
        <3>5. \A j : GoesPast(LibraryFile(j), search, defs)
                        => GoesPast(LibraryFile(j), search', defs)
            BY <1>6, <2>2 DEF GoesPast
        <3> QED BY <3>1, <3>4, <3>5
    <2>3. search' # NULL => search'.name = n
        BY <1>6
    <2> HIDE DEF defs
    <2>4. search' # NULL => DefinitionsIn(FilesIn, search.name)' = defs
        BY <1>6, <1>11 DEF defs
    <2> QED BY <1>12, <2>1, <2>2, <2>3, <2>4 DEF SearchInv
<1>14. RoundInv'
    <2>1. Len(searchList') >= Len(searchList)
        BY <1>2, <1>3
    <2>2. \E x \in Range(queue') : x.name = search.name
        BY <1>4, <1>5
    <2> QED BY <1>1, <1>6, <1>12, <2>1, <2>2, RoundFrame DEF IInv
<1> QED BY <1>7, <1>9, <1>10, <1>11, <1>13, <1>14 DEF IInv

\* Auto-linked libraries go to the end of the list.
LEMMA LinkerOptionFacts ==
    ASSUME TypeOK, NEW options \in SUBSET Libraries,
           AddLinkerOptionLibraries(options)
    PROVE  /\ searchList' \in Seq(Libraries)
           /\ linkerOptions' \subseteq Libraries
           /\ Len(searchList') >= Len(searchList)
           /\ \A i \in 1 .. Len(searchList) : searchList'[i] = searchList[i]
<1> DEFINE new == (options \ linkerOptions) \ Range(searchList)
<1>1. PICK order \in SetToSeqs(new) : searchList' = searchList \o order
    BY DEF AddLinkerOptionLibraries
<1>2. new \in SUBSET Libraries
    OBVIOUS
<1> HIDE DEF new
<1>3. IsFiniteSet(new) /\ Cardinality(new) \in Nat
    BY <1>2, FilesAssumption, FS_Subset, FS_CardinalityType
<1>4. order \in Seq(Libraries)
    <2>1. order \in [1 .. Cardinality(new) -> new]
        BY <1>1 DEF SetToSeqs
    <2>2. order \in [1 .. Cardinality(new) -> Libraries]
        BY <1>2, <2>1
    <2> QED BY <1>3, <2>2
<1>5. searchList \in Seq(Libraries)
    BY DEF TypeOK
<1>6. linkerOptions' \subseteq Libraries
    BY DEF AddLinkerOptionLibraries, TypeOK
<1> QED BY <1>1, <1>4, <1>5, <1>6

\* The member that an archive responds with.
LEMMA MemberFacts ==
    ASSUME TypeOK, search # NULL, NEW i \in Responses, LibraryFile(i).archive
    PROVE  /\ i \in 1 .. Len(searchList)
           /\ search.archives
           /\ LET member == LibraryFile(i).toc[search.name]
              IN  /\ member \in Files
                  /\ member.atoms \in Seq(Atoms)
                  /\ member.linkerOptions \subseteq Libraries
                  /\ \E a \in AtomsOf(member) : a.name = search.name
<1> DEFINE lib == LibraryFile(i)
           n == search.name
<1>1. i \in 1 .. Len(searchList)
    BY DEF TypeOK, Searches, Responses
<1>2. IsLibrary(lib)
    BY <1>1, LibraryFacts
<1>3. search.archives /\ Provides(lib, n)
    BY DEF Responses, Responds, LibraryFile
<1> HIDE DEF lib
<1>4. lib.archive
    BY DEF lib
<1>5. lib.toc[n] \in Files /\ n \in ListedNames(lib.toc[n])
    BY <1>2, <1>3, <1>4 DEF IsLibrary, Provides
<1>6. /\ lib.toc[n].atoms \in Seq(Atoms)
      /\ lib.toc[n].linkerOptions \subseteq Libraries
    BY <1>5, FilesAssumption
<1>7. \E a \in AtomsOf(lib.toc[n]) : a.name = n
    BY <1>5 DEF ListedNames
<1> QED BY <1>1, <1>3, <1>5, <1>6, <1>7 DEF lib

\* What pulling in a member does.
LEMMA SearchArchiveFacts ==
    ASSUME TypeOK, PhaseInv, SearchHit, NEW i \in Responses, SearchArchive(i)
    PROVE  LET member == LibraryFile(i).toc[search.name]
           IN  /\ loaded' = loaded \cup {member}
               /\ queue' = member.atoms /\ Range(queue') = AtomsOf(member)
               /\ search' = NULL
               /\ searchList' \in Seq(Libraries)
               /\ linkerOptions' \subseteq Libraries
               /\ Len(searchList') >= Len(searchList)
               /\ \A j \in 1 .. Len(searchList) : LibraryFile(j)' = LibraryFile(j)
               /\ pulled' = Append(pulled, [member |-> member, name |-> search.name,
                                            library |-> i, dylibs |-> search.dylibs,
                                            dataOnly |-> search.dataOnly])
               /\ pulled' \in Seq(Pulls)
               /\ late' \in BOOLEAN
               /\ member \in Files /\ member.atoms \in Seq(Atoms)
               /\ \E a \in AtomsOf(member) : a.name = search.name
               /\ search.archives
               /\ Pulled' = Pulled \cup {member}
               /\ pc # "initial"
               /\ FilesIn' = FilesIn \cup {member}
<1> DEFINE member == LibraryFile(i).toc[search.name]
           new == [member |-> member, name |-> search.name, library |-> i,
                   dylibs |-> search.dylibs, dataOnly |-> search.dataOnly]
<1>0. UNCHANGED <<input, pc, current>> /\ queue = <<>> /\ search # NULL
    BY SearchFrame
<1>1. /\ LibraryFile(i).archive
      /\ loaded' = loaded \cup {member}
      /\ queue' = member.atoms
      /\ AddLinkerOptionLibraries(member.linkerOptions)
      /\ search' = NULL
      /\ pulled' = Append(pulled, new)
      /\ late' = (late \/ pc \in {"mark", "support"})
    BY DEF SearchArchive, LibraryFile
<1>2. /\ i \in 1 .. Len(searchList) /\ search.archives
      /\ member \in Files /\ member.atoms \in Seq(Atoms)
      /\ member.linkerOptions \subseteq Libraries
      /\ \E a \in AtomsOf(member) : a.name = search.name
    BY <1>0, <1>1, MemberFacts
<1> HIDE DEF member
<1>3. /\ searchList' \in Seq(Libraries)
      /\ linkerOptions' \subseteq Libraries
      /\ Len(searchList') >= Len(searchList)
      /\ \A j \in 1 .. Len(searchList) : searchList'[j] = searchList[j]
    BY <1>1, <1>2, LinkerOptionFacts
<1>4. \A j \in 1 .. Len(searchList) : LibraryFile(j)' = LibraryFile(j)
    BY <1>0, <1>3 DEF LibraryFile
<1>5. new \in Pulls /\ new.member = member
    <2>1. search \in Searches /\ search.name \in Names
        BY <1>0 DEF TypeOK, Searches
    <2>2. i \in Nat \ {0}
        BY <1>2
    <2> QED BY <1>2, <2>1, <2>2 DEF Pulls, Searches
<1> HIDE DEF new
<1>6. pulled \in Seq(Pulls)
    BY DEF TypeOK
<1>7. pulled' \in Seq(Pulls)
    BY <1>1, <1>5, <1>6
<1>8. late' \in BOOLEAN
    BY <1>1, Zenon
<1>9. Range(queue') = AtomsOf(member)
    BY <1>1 DEF Range, AtomsOf
<1>10. Pulled' = Pulled \cup {member}
    <2>1. DOMAIN pulled' = DOMAIN pulled \cup {Len(pulled) + 1}
        BY <1>1, <1>6
    <2>2. \A k \in DOMAIN pulled : pulled'[k] = pulled[k]
        BY <1>1, <1>6
    <2>3. pulled'[Len(pulled) + 1] = new
        BY <1>1, <1>6
    <2> QED BY <1>5, <2>1, <2>2, <2>3 DEF Pulled
<1>11. pc # "initial"
    BY <1>0 DEF PhaseInv
<1>12. FilesIn' = FilesIn \cup {member}
    BY <1>0, <1>10, <1>11 DEF FilesIn, ObjectsRead
<1> QED
    BY <1>1, <1>2, <1>3, <1>4, <1>7, <1>8, <1>9, <1>10, <1>11, <1>12
    DEF member, new

\* A definition stays when a file is added.
LEMMA MoreDefinitions ==
    ASSUME NEW F, NEW G, F \subseteq G, NEW n
    PROVE  /\ DefinitionsIn(F, n) \subseteq DefinitionsIn(G, n)
           /\ HasAbsolute(DefinitionsIn(F, n)) => HasAbsolute(DefinitionsIn(G, n))
BY DEF DefinitionsIn, HasAbsolute

LEMMA SearchArchiveInv ==
    ASSUME IInv, SearchHit, NEW i \in Responses, SearchArchive(i)
    PROVE  IInv'
<1> DEFINE member == LibraryFile(i).toc[search.name]
<1>1. /\ UNCHANGED <<input, slots, bound, coalesced, duplicates, atoms,
                     externalTentative, completed, pc, todo, current,
                     genCount, roots, toMark, liveSupport, live, stack,
                     stage, unprocessed, round>>
      /\ queue = <<>> /\ search # NULL
    BY SearchFrame
<1>2. /\ loaded' = loaded \cup {member}
      /\ queue' = member.atoms /\ Range(queue') = AtomsOf(member)
      /\ search' = NULL
      /\ searchList' \in Seq(Libraries)
      /\ linkerOptions' \subseteq Libraries
      /\ Len(searchList') >= Len(searchList)
      /\ \A j \in 1 .. Len(searchList) : LibraryFile(j)' = LibraryFile(j)
      /\ pulled' \in Seq(Pulls)
      /\ late' \in BOOLEAN
      /\ member \in Files /\ member.atoms \in Seq(Atoms)
      /\ \E a \in AtomsOf(member) : a.name = search.name
      /\ Pulled' = Pulled \cup {member}
      /\ pc # "initial"
      /\ FilesIn' = FilesIn \cup {member}
    BY SearchArchiveFacts DEF IInv
<1> HIDE DEF member
<1>3. TypeOK'
    <2>1. queue' \in Seq(AllAtoms)
        BY <1>2 DEF AllAtoms
    <2>2. loaded' \subseteq Files
        BY <1>2 DEF IInv, TypeOK
    <2>3. round \in 0 .. Len(searchList')
        BY <1>2 DEF IInv, TypeOK
    <2> QED BY <1>1, <1>2, <2>1, <2>2, <2>3 DEF IInv, TypeOK
<1>4. PhaseInv'
    BY <1>1, <1>2 DEF IInv, PhaseInv
<1>5. SeenInv'
    BY <1>1 DEF IInv, SeenInv, BoundAtoms
<1>6. FilesInv'
    <2>1. loaded' = Pulled' /\ BoundAtoms' = BoundAtoms
        BY <1>1, <1>2 DEF IInv, FilesInv, BoundAtoms
    <2>2. Range(queue) = {}
        BY <1>1 DEF Range
    <2>3. \A n : HasAbsolute(DefinitionsIn(FilesIn, n))
                    => HasAbsolute(DefinitionsIn(FilesIn, n))'
        BY <1>2, MoreDefinitions
    <2>4. ASSUME pc # "error", NEW f \in FilesIn', NEW a \in AtomsOf(f)
          PROVE  a \in Range(queue') \/ Settled(a)'
        <3>1. CASE f \in FilesIn
            <4>1. Settled(a)
                BY <2>2, <2>4, <3>1 DEF IInv, FilesInv
            <4> QED BY <1>1, <2>3, <4>1 DEF Settled
        <3>2. CASE f = member
            BY <1>2, <2>4, <3>2
        <3> QED BY <1>2, <3>1, <3>2
    <2>5. ASSUME pc # "error", NEW a \in BoundAtoms' \cup Range(queue'),
                 a.definition = "absolute"
          PROVE  HasAbsolute(DefinitionsIn(FilesIn, a.name))'
        <3>1. CASE a \in BoundAtoms
            BY <2>3, <2>5, <3>1 DEF IInv, FilesInv
        <3>2. CASE a \in AtomsOf(member)
            BY <1>2, <2>5, <3>2 DEF HasAbsolute, DefinitionsIn
        <3> QED BY <1>2, <2>1, <3>1, <3>2
    <2> QED BY <1>1, <2>1, <2>4, <2>5 DEF FilesInv
<1>7. SearchInv'
    BY <1>2 DEF SearchInv
<1>8. RoundInv'
    <2>1. \E a \in Range(queue') : a.name = search.name
        BY <1>2
    <2> QED BY <1>1, <1>2, <2>1, RoundFrame DEF IInv
<1> QED BY <1>3, <1>4, <1>5, <1>6, <1>7, <1>8 DEF IInv

LEMMA SearchHitInv ==
    ASSUME IInv, SearchHit
    PROVE  IInv'
BY SearchDylibInv, SearchArchiveInv DEF SearchHit

-----------------------------------------------------------------------------
(* buildAtomList and addInitialUndefines                                   *)

LEMMA InitInv == Init => IInv
<1> SUFFICES ASSUME Init PROVE IInv
    OBVIOUS
<1>1. /\ input \in Inputs
      /\ slots = {} /\ bound = [n \in Names |-> NULL] /\ coalesced = {}
      /\ atoms = {} /\ searchList = input.libraries
      /\ loaded = {} /\ queue = <<>> /\ search = NULL /\ pc = "initial"
      /\ todo = {} /\ current = 1 /\ genCount = -1 /\ roots = {} /\ toMark = {}
      /\ liveSupport = <<>> /\ live = {} /\ stack = <<>> /\ pulled = <<>>
      /\ round = 0
    BY DEF Init
<1>2. TypeOK
    <2>1. Cardinality(slots) \in Nat
        BY <1>1, SlotsFinite
    <2>2. searchList \in Seq(Libraries)
        BY <1>1, InputsAssumption
    <2>3. bound \in [Names -> AllAtoms \cup {NULL}]
        BY <1>1
    <2>4. \A n \in Names : bound[n] = NULL
        BY <1>1
    <2>5. /\ externalTentative \in BOOLEAN
          /\ completed \in BOOLEAN /\ late \in BOOLEAN
        BY Zenon DEF Init
    <2>6. /\ unprocessed \subseteq Libraries /\ linkerOptions \subseteq Libraries
          /\ stage \in {"look", "found", "settled"}
        BY DEF Init
    <2>7. genCount \in -1 .. Cardinality(slots) /\ round \in 0 .. Len(searchList)
        BY <1>1, <2>1, <2>2
    <2>8. duplicates \in [Names -> SUBSET AllAtoms]
        BY DEF Init
    <2> QED BY <1>1, <2>2, <2>3, <2>4, <2>5, <2>6, <2>7, <2>8 DEF TypeOK, Phases
<1>3. PhaseInv
    <2>1. Len(input.objects) \in Nat
        BY <1>1, InputsAssumption
    <2> QED BY <1>1, <2>1 DEF PhaseInv
<1>4. BoundAtoms = {} /\ Range(queue) = {} /\ Range(liveSupport) = {}
    BY <1>1 DEF BoundAtoms, Range
<1>5. SeenInv
    BY <1>1, <1>4 DEF SeenInv
<1>6. FilesInv
    <2>1. FilesIn = {} /\ Pulled = {}
        BY <1>1 DEF FilesIn, ObjectsRead, Pulled
    <2> QED BY <1>1, <1>4, <2>1 DEF FilesInv
<1>7. SearchInv /\ RoundInv
    BY <1>1 DEF SearchInv, RoundInv, Rounds
<1> QED BY <1>2, <1>3, <1>5, <1>6, <1>7 DEF IInv

LEMMA InitialFileInv ==
    ASSUME IInv, InitialFile
    PROVE  IInv'
<1> DEFINE file == input.objects[current]
<1>1. /\ UNCHANGED <<input, slots, bound, coalesced, duplicates, atoms,
                     externalTentative, completed, searchList, linkerOptions,
                     loaded, search, pc, todo, genCount, roots, toMark,
                     liveSupport, live, stack, stage, pulled, round, late>>
      /\ pc = "initial" /\ queue = <<>> /\ search = NULL
      /\ current <= Len(input.objects)
      /\ queue' = file.atoms
      /\ unprocessed' = unprocessed \cup file.linkerOptions
      /\ current' = current + 1
    BY DEF InitialFile, Idle, tableVars, stripVars, historyVars
<1>2. input.objects \in Seq(Files) /\ current \in 1 .. Len(input.objects)
    BY <1>1, InputsAssumption DEF IInv, TypeOK, PhaseInv
<1>3. /\ file \in Files /\ file.atoms \in Seq(Atoms)
      /\ file.linkerOptions \subseteq Libraries
    BY <1>2, FilesAssumption
<1>4. Range(queue') = AtomsOf(file) /\ Range(queue) = {}
    BY <1>1 DEF Range, AtomsOf
<1>5. FilesIn' = FilesIn \cup {file}
    <2>1. 1 .. current' - 1 = (1 .. current - 1) \cup {current}
        BY <1>1, <1>2
    <2> QED BY <1>1, <2>1 DEF FilesIn, ObjectsRead, Pulled
<1> HIDE DEF file
<1>6. TypeOK'
    <2>1. queue' \in Seq(AllAtoms)
        BY <1>1, <1>3 DEF AllAtoms
    <2>2. unprocessed' \subseteq Libraries /\ current' \in Nat
        BY <1>1, <1>2, <1>3 DEF IInv, TypeOK
    <2> QED BY <1>1, <2>1, <2>2 DEF IInv, TypeOK
<1>7. PhaseInv'
    BY <1>1, <1>2 DEF IInv, PhaseInv
<1>8. SeenInv'
    BY <1>1 DEF IInv, SeenInv, BoundAtoms
<1>9. FilesInv'
    <2>1. loaded' = Pulled' /\ BoundAtoms' = BoundAtoms
        BY <1>1 DEF IInv, FilesInv, BoundAtoms, Pulled
    <2>2. \A n : HasAbsolute(DefinitionsIn(FilesIn, n))
                    => HasAbsolute(DefinitionsIn(FilesIn, n))'
        BY <1>5, MoreDefinitions
    <2>3. ASSUME NEW f \in FilesIn', NEW a \in AtomsOf(f)
          PROVE  a \in Range(queue') \/ Settled(a)'
        <3>1. CASE f \in FilesIn
            <4>1. Settled(a)
                BY <1>1, <1>4, <2>3, <3>1 DEF IInv, FilesInv
            <4> QED BY <1>1, <2>2, <4>1 DEF Settled
        <3>2. CASE f = file
            BY <1>4, <2>3, <3>2
        <3> QED BY <1>5, <3>1, <3>2
    <2>4. ASSUME NEW a \in BoundAtoms' \cup Range(queue'),
                 a.definition = "absolute"
          PROVE  HasAbsolute(DefinitionsIn(FilesIn, a.name))'
        <3>1. CASE a \in BoundAtoms
            BY <1>1, <2>2, <2>4, <3>1 DEF IInv, FilesInv
        <3>2. CASE a \in AtomsOf(file)
            BY <1>5, <2>4, <3>2 DEF HasAbsolute, DefinitionsIn
        <3> QED BY <1>4, <2>1, <3>1, <3>2
    <2> QED BY <1>1, <2>1, <2>3, <2>4 DEF FilesInv
<1>10. SearchInv' /\ RoundInv'
    BY <1>1 DEF SearchInv, RoundInv, Rounds
<1> QED BY <1>6, <1>7, <1>8, <1>9, <1>10 DEF IInv

LEMMA InitialFilesDoneInv ==
    ASSUME IInv, InitialFilesDone
    PROVE  IInv'
<1>1. /\ UNCHANGED <<input, bound, coalesced, duplicates, atoms,
                     externalTentative, loaded, queue, search, todo, current,
                     genCount, roots, toMark, liveSupport, live, stack, stage,
                     pulled, round, late>>
      /\ pc = "initial" /\ pc' = "round" /\ queue = <<>> /\ search = NULL
      /\ current > Len(input.objects)
      /\ AddLinkerOptionLibraries(unprocessed)
      /\ unprocessed' = {} /\ completed' = TRUE
      /\ slots' = slots \cup input.undefines
    BY DEF InitialFilesDone, Idle, loopVars, stripVars, historyVars
<1>2. /\ searchList' \in Seq(Libraries)
      /\ linkerOptions' \subseteq Libraries
      /\ Len(searchList') >= Len(searchList)
    BY <1>1, LinkerOptionFacts DEF IInv, TypeOK
<1>3. input.objects \in Seq(Files) /\ input.undefines \subseteq Names
    BY InputsAssumption DEF IInv, TypeOK
<1>4. /\ slots' \subseteq Names /\ slots \subseteq slots'
      /\ Cardinality(slots') \in Nat /\ genCount = -1
    BY <1>1, <1>3, SlotsFinite DEF IInv, TypeOK, PhaseInv
<1>5. TypeOK'
    <2>1. round \in 0 .. Len(searchList') /\ genCount \in -1 .. Cardinality(slots')
        BY <1>2, <1>4 DEF IInv, TypeOK
    <2>2. completed' \in BOOLEAN
        BY <1>1, Zenon
    <2>3. \A n \in Names : bound[n] # NULL => n \in slots' /\ bound[n].name = n
        BY <1>4 DEF IInv, TypeOK
    <2>4. todo \subseteq slots'
        BY <1>4 DEF IInv, TypeOK
    <2> QED BY <1>1, <1>2, <1>4, <2>1, <2>2, <2>3, <2>4 DEF IInv, TypeOK, Phases
<1>6. PhaseInv'
    BY <1>1 DEF IInv, PhaseInv
<1>7. SeenInv'
    BY <1>1, <1>4 DEF IInv, SeenInv, BoundAtoms, Swept
<1>8. FilesIn' = FilesIn
    <2>1. 1 .. current - 1 = DOMAIN input.objects
        BY <1>1, <1>3 DEF IInv, PhaseInv
    <2> QED BY <1>1, <2>1 DEF FilesIn, ObjectsRead, Pulled, Range
<1>9. FilesInv'
    <2>1. loaded' = Pulled' /\ BoundAtoms' = BoundAtoms
        BY <1>1 DEF IInv, FilesInv, BoundAtoms, Pulled
    <2>2. \A n : DefinitionsIn(FilesIn, n)' = DefinitionsIn(FilesIn, n)
        BY <1>8 DEF DefinitionsIn
    <2>3. \A a : Settled(a) => Settled(a)'
        BY <1>1, <2>2 DEF Settled
    <2> QED BY <1>1, <1>8, <2>1, <2>2, <2>3 DEF IInv, FilesInv
<1>10. SearchInv' /\ RoundInv'
    BY <1>1, <1>4 DEF SearchInv, RoundInv, RoundsEnd
<1> QED BY <1>5, <1>6, <1>7, <1>9, <1>10 DEF IInv

-----------------------------------------------------------------------------
(* The loops of resolve                                                    *)

\* A loop waits until its calls have returned; it may make a call for a name
\* that has a slot, and hand made atoms to doAtom.
LEMMA LoopInv ==
    ASSUME IInv, UNCHANGED loopFrame, Idle,
           pc \notin {"initial", "error", "mark", "support"},
           pc' \in Phases \ {"initial", "mark", "support"},
           pc' \notin Swept => pc \notin Swept,
           queue' \in Seq(MadeAtoms),
           search' = NULL \/ \E n \in slots : Called(n),
           todo' \subseteq slots, current' \in Nat,
           genCount' \in -1 .. Cardinality(slots),
           round' \in 0 .. Len(searchList),
           pc' \in {"boundary", "stripRoot"} => current' \in slots,
           RoundInv'
    PROVE  IInv'
<1>1. UNCHANGED <<input, slots, bound, coalesced, duplicates, atoms,
                  externalTentative, completed, searchList, unprocessed,
                  linkerOptions, loaded, roots, toMark, liveSupport, live,
                  stack, stage, pulled, late>>
    BY DEF loopFrame, tableVars, libraryVars, stripVars
<1>2. queue = <<>> /\ search = NULL
    BY DEF Idle
<1>3. \A a \in Range(queue') : a.definition # "absolute"
    <2>1. \A a \in MadeAtoms : a.definition # "absolute"
        BY DEF MadeAtoms
    <2> QED BY <2>1, SeqRange
<1>4. slots \subseteq Names
    BY DEF IInv, TypeOK
<1>5. TypeOK'
    <2>1. queue' \in Seq(AllAtoms)
        BY DEF AllAtoms
    <2>2. /\ search' \in Searches \cup {NULL}
          /\ search' # NULL => search'.name \in slots
                               /\ search'.next <= Len(searchList) + 1
        <3>1. CASE search' = NULL
            BY <3>1
        <3>2. ASSUME NEW n \in slots, Called(n), search' # NULL
              PROVE  /\ search' \in Searches /\ search'.name \in slots
                     /\ search'.next <= Len(searchList) + 1
            <4>1. search' \in Searches /\ search'.name = n /\ search'.next = 1
                BY <3>2 DEF Called
            <4>2. Len(searchList) \in Nat
                BY DEF IInv, TypeOK
            <4> QED BY <4>1, <4>2
        <3> QED BY <3>1, <3>2
    <2> QED BY <1>1, <2>1, <2>2 DEF IInv, TypeOK
<1>6. PhaseInv'
    BY <1>1 DEF IInv, PhaseInv
<1>7. SeenInv'
    BY <1>1, SeenFrame DEF IInv
<1>8. FilesInv'
    BY <1>1, <1>2, <1>3, FilesFrame DEF IInv
<1>9. SearchInv'
    <2>1. CASE search' = NULL
        BY <2>1 DEF SearchInv
    <2>2. ASSUME NEW n \in slots, Called(n)
          PROVE  SearchInv'
        BY <1>1, <1>2, <1>4, <2>2, CalledInv DEF IInv
    <2> QED BY <2>1, <2>2
<1> QED BY <1>5, <1>6, <1>7, <1>8, <1>9 DEF IInv

\* A round leaves the names it has yet to look at, and what it found out about
\* the others, as they are.
LEMMA RoundStep ==
    ASSUME RoundInv, UNCHANGED loopFrame, Idle, UNCHANGED <<genCount, round>>,
           pc \in Rounds, pc' \in Rounds,
           search' # NULL /\ bound[search'.name] = NULL =>
                search'.dylibs /\ search'.archives /\ ~search'.dataOnly,
           \A n \in UndefinedNames :
                pc \in {"undefines", "boundary"} /\ n \in todo =>
                    \/ pc' \in {"undefines", "boundary"} /\ n \in todo'
                    \/ search' # NULL /\ search'.name = n
    PROVE  RoundInv'
<1>1. UNCHANGED <<input, slots, bound, searchList>>
    BY DEF loopFrame, tableVars, libraryVars
<1>2. /\ UndefinedNames' = UndefinedNames /\ RoundsEnd' = RoundsEnd
      /\ \A i : LibraryFile(i)' = LibraryFile(i)
    BY <1>1 DEF UndefinedNames, RoundsEnd, LibraryFile
<1>3. Range(queue) = {} /\ search = NULL
    BY DEF Idle, Range
<1>4. ASSUME RoundsEnd, NEW n \in UndefinedNames
      PROVE  \/ pc' \in {"undefines", "boundary"} /\ n \in todo'
             \/ search' # NULL /\ search'.name = n
             \/ \A i \in 1 .. round : ~Provides(LibraryFile(i), n)
    BY <1>3, <1>4 DEF RoundInv
<1> QED BY <1>1, <1>2, <1>4 DEF RoundInv

LEMMA StartRoundInv ==
    ASSUME IInv, StartRound
    PROVE  IInv'
<1>1. /\ UNCHANGED loopFrame /\ UNCHANGED <<queue, search, current>>
      /\ pc = "round" /\ Idle /\ pc' = "undefines"
      /\ genCount' = Cardinality(slots)
      /\ todo' = UndefinedNames
      /\ round' = Len(searchList)
    BY DEF StartRound
<1>2. UndefinedNames \subseteq slots /\ slots \subseteq Names
    BY DEF UndefinedNames, IInv, TypeOK
<1>3. Cardinality(slots) \in Nat /\ Len(searchList) \in Nat /\ current \in Nat
    BY <1>2, SlotsFinite DEF IInv, TypeOK
<1>4. queue' \in Seq(MadeAtoms) /\ search' = NULL
    BY <1>1 DEF Idle
<1>5. RoundInv'
    <2>1. UNCHANGED <<slots, bound>>
        BY <1>1 DEF loopFrame, tableVars
    <2>2. UndefinedNames' = UndefinedNames
        BY <2>1 DEF UndefinedNames
    <2> QED BY <1>1, <1>4, <2>2 DEF RoundInv
<1>6. genCount' \in -1 .. Cardinality(slots) /\ round' \in 0 .. Len(searchList)
    BY <1>1, <1>3
<1> QED BY <1>1, <1>2, <1>3, <1>4, <1>5, <1>6, LoopInv DEF Phases, Swept

LEMMA NextUndefineInv ==
    ASSUME IInv, NextUndefine
    PROVE  IInv'
<1>1. PICK n \in todo :
        /\ current' = n
        /\ todo' = todo \ {n}
        /\ SearchUndefined(n)
    BY DEF NextUndefine
<1>2. /\ UNCHANGED loopFrame /\ UNCHANGED <<queue, genCount, round>>
      /\ pc \in {"undefines", "options"} /\ Idle
      /\ pc' = IF pc = "undefines" THEN "boundary" ELSE pc
    BY DEF NextUndefine
<1>3. /\ n \in slots /\ n \in Names /\ n \in Nat /\ todo' \subseteq slots
    BY <1>1, NamesAssumption DEF IInv, TypeOK
<1>4. search = NULL /\ queue' \in Seq(MadeAtoms)
    BY <1>2 DEF Idle
<1>5. /\ Called(n)
      /\ search' # NULL => search'.dylibs /\ search'.archives /\ ~search'.dataOnly
    BY <1>1, <1>3, <1>4, SearchUndefinedCalled
<1>6. RoundInv'
    <2>1. CASE pc = "undefines"
        <3>1. pc' = "boundary" /\ pc \in Rounds /\ pc' \in Rounds
            BY <1>2, <2>1 DEF Rounds
        <3>2. ASSUME NEW m \in UndefinedNames, m \in todo
              PROVE  m \in todo' \/ (search' # NULL /\ search'.name = m)
            <4>1. CASE m = n
                <5>1. SearchLibraries(n, TRUE, TRUE, FALSE)
                    BY <1>1, <3>2, <4>1 DEF SearchUndefined, UndefinedNames
                <5>2. search' \in Searches /\ search'.name = n
                    BY <1>3, <5>1 DEF SearchLibraries, Searches
                <5>3. search' # NULL
                    BY <5>2, CallsAssumption
                <5> QED BY <4>1, <5>2, <5>3
            <4>2. CASE m # n
                BY <1>1, <3>2, <4>2
            <4> QED BY <4>1, <4>2
        <3> QED BY <1>2, <1>5, <2>1, <3>1, <3>2, RoundStep DEF IInv
    <2>2. CASE pc = "options"
        BY <1>2, <2>2 DEF RoundInv, Rounds
    <2> QED BY <1>2, <2>1, <2>2
<1>7. genCount' \in -1 .. Cardinality(slots) /\ round' \in 0 .. Len(searchList)
    BY <1>2 DEF IInv, TypeOK
<1>8. pc' \in {"boundary", "options"}
    BY <1>2
<1> QED
    BY <1>1, <1>2, <1>3, <1>4, <1>5, <1>6, <1>7, <1>8, LoopInv DEF Phases, Swept

LEMMA MakeBoundaryInv ==
    ASSUME IInv, MakeBoundary
    PROVE  IInv'
<1>1. /\ UNCHANGED loopFrame
      /\ UNCHANGED <<search, todo, current, genCount, round>>
      /\ pc = "boundary" /\ Idle /\ pc' = "undefines"
      /\ queue' = IF bound[current] = NULL /\ current \in input.boundaries
                  THEN <<BoundaryAtom(current)>> ELSE <<>>
    BY DEF MakeBoundary, loopVars
<1>2. current \in Names
    BY <1>1 DEF IInv, PhaseInv, TypeOK
<1>3. BoundaryAtom(current) \in MadeAtoms
    BY <1>2, MadeFacts DEF BoundaryAtom
<1>4. queue' \in Seq(MadeAtoms) /\ search' = NULL
    BY <1>1, <1>3 DEF Idle
<1>5. RoundInv'
    BY <1>1, <1>4, RoundStep DEF IInv, Rounds
<1>6. /\ todo' \subseteq slots /\ current' \in Nat
      /\ genCount' \in -1 .. Cardinality(slots) /\ round' \in 0 .. Len(searchList)
    BY <1>1 DEF IInv, TypeOK
<1> QED BY <1>1, <1>4, <1>5, <1>6, LoopInv DEF Phases, Swept

LEMMA UndefinesDoneInv ==
    ASSUME IInv, UndefinesDone
    PROVE  IInv'
<1>1. /\ UNCHANGED loopFrame
      /\ UNCHANGED <<queue, search, current, genCount, round>>
      /\ pc = "undefines" /\ Idle /\ todo = {}
      /\ \/ pc' = "tentatives" /\ todo' = {n \in slots : IsTentative(n)}
         \/ pc' = "round" /\ todo' = todo
    BY DEF UndefinesDone
<1>2. queue' \in Seq(MadeAtoms) /\ search' = NULL
    BY <1>1 DEF Idle
<1>3. RoundInv'
    BY <1>1, <1>2, RoundStep DEF IInv, Rounds
<1>4. /\ todo' \subseteq slots /\ current' \in Nat
      /\ genCount' \in -1 .. Cardinality(slots) /\ round' \in 0 .. Len(searchList)
    BY <1>1 DEF IInv, TypeOK
<1> QED BY <1>1, <1>2, <1>3, <1>4, LoopInv DEF Phases, Swept

LEMMA NextTentativeInv ==
    ASSUME IInv, NextTentative
    PROVE  IInv'
<1>1. PICK n \in todo : todo' = todo \ {n} /\ SearchOverride(n)
    BY DEF NextTentative
<1>2. /\ UNCHANGED loopFrame
      /\ UNCHANGED <<queue, pc, current, genCount, round>>
      /\ pc = "tentatives" /\ Idle
    BY DEF NextTentative
<1>3. n \in slots /\ n \in Names /\ todo' \subseteq slots
    BY <1>1 DEF IInv, TypeOK
<1>4. queue' \in Seq(MadeAtoms) /\ search = NULL
    BY <1>2 DEF Idle
<1>5. Called(n) /\ (search' # NULL => bound[n] # NULL /\ search'.name = n)
    BY <1>1, <1>3, <1>4, SearchOverrideCalled DEF Called
<1>6. RoundInv'
    BY <1>2, <1>5, RoundStep DEF IInv, Rounds
<1>7. /\ current' \in Nat
      /\ genCount' \in -1 .. Cardinality(slots) /\ round' \in 0 .. Len(searchList)
    BY <1>2 DEF IInv, TypeOK
<1> QED BY <1>2, <1>3, <1>4, <1>5, <1>6, <1>7, LoopInv DEF Phases, Swept

LEMMA TentativesDoneInv ==
    ASSUME IInv, TentativesDone
    PROVE  IInv'
<1>1. /\ UNCHANGED loopFrame
      /\ UNCHANGED <<queue, search, todo, current, genCount, round>>
      /\ pc = "tentatives" /\ Idle /\ pc' = "round"
    BY DEF TentativesDone, loopVars
<1>2. queue' \in Seq(MadeAtoms) /\ search' = NULL
    BY <1>1 DEF Idle
<1>3. RoundInv'
    BY <1>1, <1>2, RoundStep DEF IInv, Rounds
<1>4. /\ todo' \subseteq slots /\ current' \in Nat
      /\ genCount' \in -1 .. Cardinality(slots) /\ round' \in 0 .. Len(searchList)
    BY <1>1 DEF IInv, TypeOK
<1> QED BY <1>1, <1>2, <1>3, <1>4, LoopInv DEF Phases, Swept

LEMMA RoundsDoneInv ==
    ASSUME IInv, RoundsDone
    PROVE  IInv'
<1>1. /\ UNCHANGED loopFrame
      /\ UNCHANGED <<queue, search, current, genCount, round>>
      /\ pc = "round" /\ Idle /\ pc' = "options"
      /\ todo' = IF linkerOptions # {} THEN UndefinedNames ELSE {}
    BY DEF RoundsDone
<1>2. queue' \in Seq(MadeAtoms) /\ search' = NULL
    BY <1>1 DEF Idle
<1>3. RoundInv'
    BY <1>1 DEF RoundInv, Rounds
<1>4. /\ todo' \subseteq slots /\ current' \in Nat
      /\ genCount' \in -1 .. Cardinality(slots) /\ round' \in 0 .. Len(searchList)
    BY <1>1 DEF IInv, TypeOK, UndefinedNames
<1> QED BY <1>1, <1>2, <1>3, <1>4, LoopInv DEF Phases, Swept

LEMMA MakeProxiesInv ==
    ASSUME IInv, MakeProxies
    PROVE  IInv'
<1>1. PICK names \in SetToSeqs(ToProxy) :
        queue' = [i \in DOMAIN names |-> UndefinedProxyAtom(names[i])]
    BY DEF MakeProxies
<1>2. /\ UNCHANGED loopFrame /\ UNCHANGED <<search, current, genCount, round>>
      /\ pc = "options" /\ Idle /\ pc' = "strip"
      /\ todo' = IF input.deadCodeStrip THEN input.undefines ELSE {}
    BY DEF MakeProxies
<1>3. ToProxy \in SUBSET Names
    BY DEF ToProxy, UndefinedNames, IInv, TypeOK
<1>4. Cardinality(ToProxy) \in Nat
    BY <1>3, SlotsFinite
<1>5. names \in [1 .. Cardinality(ToProxy) -> ToProxy]
    BY <1>1 DEF SetToSeqs
<1>6. queue' \in Seq(MadeAtoms)
    <2>1. \A n \in Names : UndefinedProxyAtom(n) \in MadeAtoms
        BY MadeFacts DEF UndefinedProxyAtom
    <2>2. queue' \in [1 .. Cardinality(ToProxy) -> MadeAtoms]
        BY <1>1, <1>3, <1>5, <2>1
    <2> QED BY <1>4, <2>2
<1>7. RoundInv'
    BY <1>2 DEF RoundInv, Rounds
<1>8. search' = NULL
    BY <1>2 DEF Idle
<1>9. /\ todo' \subseteq slots /\ current' \in Nat
      /\ genCount' \in -1 .. Cardinality(slots) /\ round' \in 0 .. Len(searchList)
    BY <1>2 DEF IInv, TypeOK, PhaseInv
<1> QED BY <1>2, <1>6, <1>7, <1>8, <1>9, LoopInv DEF Phases, Swept

LEMMA StripUndefineInv ==
    ASSUME IInv, StripUndefine
    PROVE  IInv'
<1>1. PICK n \in todo :
        /\ current' = n
        /\ todo' = todo \ {n}
        /\ \/ bound[n] = NULL /\ SearchLibraries(n, FALSE, TRUE, FALSE)
           \/ search' = search
    BY DEF StripUndefine
<1>2. /\ UNCHANGED loopFrame /\ UNCHANGED <<queue, genCount, round>>
      /\ pc = "strip" /\ Idle /\ pc' = "stripRoot"
    BY DEF StripUndefine
<1>3. /\ n \in slots /\ n \in Names /\ n \in Nat /\ todo' \subseteq slots
    BY <1>1, NamesAssumption DEF IInv, TypeOK
<1>4. queue' \in Seq(MadeAtoms) /\ search = NULL
    BY <1>2 DEF Idle
<1>5. Called(n)
    <2>1. CASE search' = search
        BY <1>4, <2>1 DEF Called
    <2>2. CASE bound[n] = NULL /\ SearchLibraries(n, FALSE, TRUE, FALSE)
        BY <1>3, <2>2, SearchLibrariesCalled
    <2> QED BY <1>1, <2>1, <2>2
<1>6. RoundInv'
    BY <1>2 DEF RoundInv, Rounds
<1>7. genCount' \in -1 .. Cardinality(slots) /\ round' \in 0 .. Len(searchList)
    BY <1>2 DEF IInv, TypeOK
<1> QED BY <1>1, <1>2, <1>3, <1>4, <1>5, <1>6, <1>7, LoopInv DEF Phases, Swept

LEMMA EndInv ==
    ASSUME IInv, NoStrip \/ CheckUndefines \/ NextCollision
    PROVE  IInv'
<1>1. /\ UNCHANGED loopFrame /\ UNCHANGED <<queue, current, genCount, round>>
      /\ pc \in {"strip", "check", "collisions"} /\ Idle
      /\ pc' \in {"check", "error", "collisions"}
    BY DEF NoStrip, CheckUndefines, NextCollision, loopVars
<1>2. queue' \in Seq(MadeAtoms) /\ search = NULL
    BY <1>1 DEF Idle
<1>3. todo' \subseteq slots
    BY DEF NoStrip, CheckUndefines, NextCollision, loopVars, IInv, TypeOK
<1>4. search' = NULL \/ \E n \in slots : Called(n)
    <2>1. CASE NoStrip \/ CheckUndefines
        BY <1>2, <2>1 DEF NoStrip, CheckUndefines
    <2>2. CASE NextCollision
        <3>1. PICK n \in todo : SearchLibraries(n, TRUE, FALSE, FALSE)
            BY <2>2 DEF NextCollision
        <3>2. n \in slots /\ n \in Names
            BY DEF IInv, TypeOK
        <3> QED BY <3>1, <3>2, SearchLibrariesCalled
    <2> QED BY <2>1, <2>2
<1>5. RoundInv'
    BY <1>1 DEF RoundInv, Rounds
<1>6. /\ current' \in Nat
      /\ genCount' \in -1 .. Cardinality(slots) /\ round' \in 0 .. Len(searchList)
    BY <1>1 DEF IInv, TypeOK
<1> QED BY <1>1, <1>2, <1>3, <1>4, <1>5, <1>6, LoopInv DEF Phases, Swept

-----------------------------------------------------------------------------
(* deadStripOptimize and markLive                                          *)

\* Roots are bound atoms, or atoms that doAtom has seen.
LEMMA RootsInv ==
    ASSUME IInv, StripRoot \/ StripRooted
    PROVE  IInv'
<1>1. /\ UNCHANGED <<input, slots, bound, coalesced, duplicates, atoms,
                     externalTentative, completed, searchList, unprocessed,
                     linkerOptions, loaded, queue, search, todo, current,
                     genCount, liveSupport, live, stack, stage, pulled, round,
                     late>>
      /\ pc \in {"strip", "stripRoot"} /\ pc' \in {"strip", "mark"}
      /\ queue = <<>> /\ search = NULL
    BY DEF StripRoot, StripRooted, Idle, tableVars, libraryVars, loopVars, historyVars
<1>2. /\ roots' \subseteq roots \cup BoundAtoms \cup atoms
      /\ toMark' \subseteq roots'
    <2>1. CASE StripRoot
        <3>1. current \in Names /\ roots' = roots \cup ({bound[current]} \ {NULL})
              /\ toMark' = toMark
            BY <2>1 DEF StripRoot, IInv, PhaseInv, TypeOK
        <3> QED BY <3>1 DEF BoundAtoms, IInv, TypeOK
    <2>2. CASE StripRooted
        BY <2>2 DEF StripRooted
    <2> QED BY <2>1, <2>2
<1>3. TypeOK'
    <2>1. BoundAtoms \subseteq AllAtoms
        BY DEF BoundAtoms, IInv, TypeOK
    <2>2. roots' \subseteq AllAtoms /\ pc' \in Phases
        BY <1>1, <1>2, <2>1 DEF IInv, TypeOK, Phases
    <2> QED BY <1>1, <1>2, <2>2 DEF IInv, TypeOK
<1>4. PhaseInv'
    BY <1>1 DEF IInv, PhaseInv
<1>5. SeenInv'
    BY <1>1, <1>2, SeenFrame DEF IInv, Swept
<1>6. FilesInv'
    <2>1. Range(queue') = {}
        BY <1>1 DEF Range
    <2> QED BY <1>1, <2>1, FilesFrame DEF IInv
<1>7. SearchInv' /\ RoundInv'
    BY <1>1 DEF SearchInv, RoundInv, Rounds
<1> QED BY <1>3, <1>4, <1>5, <1>6, <1>7 DEF IInv

\* While atoms are marked: what is marked is an atom doAtom has seen, and so is
\* the atom of every call of markLive that has not returned.
LEMMA MarkInv ==
    ASSUME IInv, UNCHANGED markFrame, Idle,
           pc \in {"mark", "support"}, pc' \in {"mark", "support"},
           search' = NULL \/ \E n \in slots : Called(n),
           toMark' \subseteq roots, live' \subseteq atoms \cup coalesced,
           stack' \in Seq(MarkLiveCalls),
           \A k \in DOMAIN stack' : stack'[k].atom \in live',
           stage' \in {"look", "found", "settled"},
           current' \in Nat, pc' = "support" => current' # 0
    PROVE  IInv'
<1>1. UNCHANGED <<input, slots, bound, coalesced, duplicates, atoms,
                  externalTentative, completed, searchList, unprocessed,
                  linkerOptions, loaded, queue, genCount, todo, roots,
                  liveSupport, pulled, round, late>>
    BY DEF markFrame, tableVars, libraryVars, historyVars
<1>2. queue = <<>> /\ search = NULL /\ slots \subseteq Names
    BY DEF Idle, IInv, TypeOK
<1>3. TypeOK'
    <2>1. /\ search' \in Searches \cup {NULL}
          /\ search' # NULL => search'.name \in slots
                               /\ search'.next <= Len(searchList) + 1
        <3>1. CASE search' = NULL
            BY <3>1
        <3>2. ASSUME NEW n \in slots, Called(n), search' # NULL
              PROVE  /\ search' \in Searches /\ search'.name \in slots
                     /\ search'.next <= Len(searchList) + 1
            <4>1. search' \in Searches /\ search'.name = n /\ search'.next = 1
                BY <3>2 DEF Called
            <4>2. Len(searchList) \in Nat
                BY DEF IInv, TypeOK
            <4> QED BY <4>1, <4>2
        <3> QED BY <3>1, <3>2
    <2>2. pc' \in Phases
        BY DEF Phases
    <2> QED BY <1>1, <2>1, <2>2 DEF IInv, TypeOK
<1>4. PhaseInv'
    BY <1>1 DEF IInv, PhaseInv
<1>5. SeenInv'
    BY <1>1, SeenFrame DEF IInv, Swept
<1>6. FilesInv'
    <2>1. Range(queue') = {}
        BY <1>1, <1>2 DEF Range
    <2> QED BY <1>1, <1>2, <2>1, FilesFrame DEF IInv
<1>7. SearchInv'
    <2>1. CASE search' = NULL
        BY <2>1 DEF SearchInv
    <2>2. ASSUME NEW n \in slots, Called(n)
          PROVE  SearchInv'
        BY <1>1, <1>2, <2>2, CalledInv DEF IInv
    <2> QED BY <2>1, <2>2
<1>8. RoundInv'
    BY DEF RoundInv, Rounds
<1> QED BY <1>3, <1>4, <1>5, <1>6, <1>7, <1>8 DEF IInv

\* What a call of markLive adds to the stack.
LEMMA MarkLiveFacts ==
    ASSUME IInv, NEW a \in atoms \cup coalesced, NEW callers \in Seq(MarkLiveCalls),
           \A k \in DOMAIN callers : callers[k].atom \in live, MarkLive(a, callers)
    PROVE  /\ live' \subseteq atoms \cup coalesced
           /\ stack' \in Seq(MarkLiveCalls)
           /\ \A k \in DOMAIN stack' : stack'[k].atom \in live'
<1>1. live \subseteq atoms \cup coalesced /\ a \in AllAtoms
    BY DEF IInv, TypeOK
<1>2. CASE a \in live
    BY <1>1, <1>2 DEF MarkLive
<1>3. CASE a \notin live
    <2> DEFINE new == [atom |-> a, fixup |-> 1]
    <2>1. new \in MarkLiveCalls /\ new.atom = a
        BY <1>1 DEF MarkLiveCalls
    <2>2. live' = live \cup {a} /\ stack' = Append(callers, new)
        BY <1>3 DEF MarkLive
    <2> HIDE DEF new
    <2>3. /\ stack' \in Seq(MarkLiveCalls)
          /\ \A k \in DOMAIN stack' :
                stack'[k] = new \/ (k \in DOMAIN callers /\ stack'[k] = callers[k])
        BY <2>1, <2>2
    <2> QED BY <1>1, <2>1, <2>2, <2>3
<1> QED BY <1>2, <1>3

\* The call of markLive that is at work, and the fixup it is at.
LEMMA TargetFacts ==
    ASSUME IInv, stack # <<>>
    PROVE  /\ stack \in Seq(MarkLiveCalls)
           /\ \A k \in DOMAIN stack : stack[k].atom \in live
           /\ Len(stack) \in DOMAIN stack
           /\ AtFixup => Target \in slots /\ Target \in Names
           /\ pc \in {"mark", "support"}
<1>1. /\ stack \in Seq(MarkLiveCalls)
      /\ \A k \in DOMAIN stack : stack[k].atom \in live
      /\ pc \in {"mark", "support"}
    BY DEF IInv, TypeOK, PhaseInv
<1>2. Len(stack) \in DOMAIN stack
    BY <1>1
<1> DEFINE call == stack[Len(stack)]
<1>3. call \in MarkLiveCalls /\ call.atom \in live
    BY <1>1, <1>2
<1>4. call.atom \in atoms \cup coalesced /\ call.atom \in AllAtoms
    BY <1>3 DEF IInv, TypeOK
<1>5. RefsOf(call.atom) \subseteq slots /\ call.atom.refs \in Seq(Names)
    BY <1>4, AtomFacts DEF IInv, SeenInv
<1>6. call.fixup \in Nat \ {0}
    BY <1>3 DEF MarkLiveCalls
<1>7. /\ AtFixup <=> call.fixup <= Len(call.atom.refs)
      /\ Target = call.atom.refs[call.fixup]
    BY DEF AtFixup, Target, Last
<1> HIDE DEF call
<1>8. AtFixup => Target \in slots
    BY <1>5, <1>6, <1>7 DEF RefsOf
<1> QED BY <1>1, <1>2, <1>8 DEF IInv, TypeOK

LEMMA MarkRootInv ==
    ASSUME IInv, MarkRoot
    PROVE  IInv'
<1>1. PICK r \in toMark : toMark' = toMark \ {r} /\ MarkLive(r, <<>>)
    BY DEF MarkRoot
<1>2. /\ UNCHANGED markFrame /\ UNCHANGED <<search, pc, current, stage>>
      /\ pc = "mark" /\ Idle
    BY DEF MarkRoot
<1>3. toMark' \subseteq roots /\ r \in atoms \cup coalesced
    BY <1>1, <1>2 DEF IInv, TypeOK, SeenInv, Swept
<1>4. /\ live' \subseteq atoms \cup coalesced
      /\ stack' \in Seq(MarkLiveCalls)
      /\ \A k \in DOMAIN stack' : stack'[k].atom \in live'
    <2>1. <<>> \in Seq(MarkLiveCalls) /\ DOMAIN <<>> = {}
        OBVIOUS
    <2> QED BY <1>1, <1>3, <2>1, MarkLiveFacts
<1>5. search' = NULL /\ stage' \in {"look", "found", "settled"} /\ current' \in Nat
    BY <1>2 DEF Idle, IInv, TypeOK
<1> QED BY <1>2, <1>3, <1>4, <1>5, MarkInv

\* The two searches that a fixup can start.
LEMMA MarkSearchInv ==
    ASSUME IInv, MarkLook \/ MarkFound
    PROVE  IInv'
<1>1. /\ UNCHANGED markFrame /\ UNCHANGED <<pc, current, toMark, live, stack>>
      /\ Idle /\ stack # <<>> /\ AtFixup
      /\ stage' \in {"found", "settled"}
      /\ SearchUndefined(Target) \/ SearchOverride(Target)
    BY DEF MarkLook, MarkFound
<1>2. Target \in slots /\ Target \in Names /\ pc \in {"mark", "support"}
    BY <1>1, TargetFacts
<1>3. Called(Target)
    BY <1>1, <1>2, SearchUndefinedCalled, SearchOverrideCalled DEF Idle
<1>4. /\ toMark' \subseteq roots /\ live' \subseteq atoms \cup coalesced
      /\ stack' \in Seq(MarkLiveCalls)
      /\ \A k \in DOMAIN stack' : stack'[k].atom \in live'
      /\ current' \in Nat /\ (pc' = "support" => current' # 0)
    BY <1>1 DEF IInv, TypeOK, PhaseInv
<1> QED BY <1>1, <1>2, <1>3, <1>4, MarkInv

LEMMA MarkSettledInv ==
    ASSUME IInv, MarkSettled
    PROVE  IInv'
<1> DEFINE callers == [stack EXCEPT ![Len(stack)].fixup = @ + 1]
<1>1. /\ UNCHANGED markFrame /\ UNCHANGED <<search, pc, current, toMark>>
      /\ Idle /\ stack # <<>> /\ AtFixup
      /\ stage' = "look"
      /\ \/ stack' = callers /\ live' = live
         \/ bound[Target] # NULL /\ MarkLive(bound[Target], callers)
    BY DEF MarkSettled
<1>2. /\ stack \in Seq(MarkLiveCalls)
      /\ \A k \in DOMAIN stack : stack[k].atom \in live
      /\ Len(stack) \in DOMAIN stack
      /\ Target \in slots /\ Target \in Names /\ pc \in {"mark", "support"}
    BY <1>1, TargetFacts
<1>3. /\ callers \in Seq(MarkLiveCalls)
      /\ \A k \in DOMAIN callers : callers[k].atom \in live
    <2> DEFINE call == stack[Len(stack)]
               next == [call EXCEPT !.fixup = @ + 1]
    <2>1. call \in MarkLiveCalls
        BY <1>2
    <2>2. next \in MarkLiveCalls /\ next.atom = call.atom
        BY <2>1 DEF MarkLiveCalls
    <2>3. callers = [stack EXCEPT ![Len(stack)] = next]
        OBVIOUS
    <2> HIDE DEF next, callers
    <2>4. /\ callers \in Seq(MarkLiveCalls)
          /\ \A k \in DOMAIN callers :
                k \in DOMAIN stack /\ (callers[k] = stack[k] \/ callers[k] = next)
        BY <1>2, <2>2, <2>3
    <2> QED BY <1>2, <2>2, <2>4
<1> HIDE DEF callers
<1>4. /\ live' \subseteq atoms \cup coalesced
      /\ stack' \in Seq(MarkLiveCalls)
      /\ \A k \in DOMAIN stack' : stack'[k].atom \in live'
    <2>1. CASE stack' = callers /\ live' = live
        BY <1>3, <2>1 DEF IInv, TypeOK
    <2>2. CASE bound[Target] # NULL /\ MarkLive(bound[Target], callers)
        <3>1. bound[Target] \in BoundAtoms
            BY <1>2, <2>2 DEF BoundAtoms
        <3>2. bound[Target] \in atoms \cup coalesced
            BY <1>2, <3>1 DEF IInv, SeenInv, Swept
        <3> QED BY <1>3, <2>2, <3>2, MarkLiveFacts
    <2> QED BY <1>1, <2>1, <2>2
<1>5. /\ search' = NULL /\ stage' \in {"look", "found", "settled"}
      /\ current' \in Nat /\ (pc' = "support" => current' # 0)
      /\ toMark' \subseteq roots
    BY <1>1 DEF Idle, IInv, TypeOK, PhaseInv
<1> QED BY <1>1, <1>2, <1>4, <1>5, MarkInv

LEMMA MarkReturnInv ==
    ASSUME IInv, MarkReturn
    PROVE  IInv'
<1>1. /\ UNCHANGED markFrame
      /\ UNCHANGED <<search, pc, current, toMark, live, stage>>
      /\ Idle /\ stack # <<>>
      /\ stack' = SubSeq(stack, 1, Len(stack) - 1)
    BY DEF MarkReturn, Front
<1>2. /\ stack \in Seq(MarkLiveCalls)
      /\ \A k \in DOMAIN stack : stack[k].atom \in live
      /\ Len(stack) \in DOMAIN stack
      /\ pc \in {"mark", "support"}
    BY <1>1, TargetFacts
<1>3. /\ stack' \in Seq(MarkLiveCalls)
      /\ \A k \in DOMAIN stack' : k \in DOMAIN stack /\ stack'[k] = stack[k]
    BY <1>1, <1>2
<1>4. /\ search' = NULL /\ stage' \in {"look", "found", "settled"}
      /\ current' \in Nat /\ (pc' = "support" => current' # 0)
      /\ toMark' \subseteq roots /\ live' \subseteq atoms \cup coalesced
    BY <1>1 DEF Idle, IInv, TypeOK, PhaseInv
<1> QED BY <1>1, <1>2, <1>3, <1>4, MarkInv

LEMMA MarkDoneInv ==
    ASSUME IInv, MarkDone
    PROVE  IInv'
<1>1. /\ UNCHANGED markFrame /\ UNCHANGED <<search, toMark, live, stack, stage>>
      /\ pc = "mark" /\ Idle /\ pc' = "support" /\ current' = 1
    BY DEF MarkDone
<1>2. /\ search' = NULL /\ stage' \in {"look", "found", "settled"}
      /\ toMark' \subseteq roots /\ live' \subseteq atoms \cup coalesced
      /\ stack' \in Seq(MarkLiveCalls)
      /\ \A k \in DOMAIN stack' : stack'[k].atom \in live'
    BY <1>1 DEF Idle, IInv, TypeOK
<1> QED BY <1>1, <1>2, MarkInv

LEMMA NextSupportInv ==
    ASSUME IInv, NextSupport
    PROVE  IInv'
<1> DEFINE a == liveSupport[current]
<1>1. /\ UNCHANGED markFrame /\ UNCHANGED <<search, pc, toMark, stage>>
      /\ pc = "support" /\ Idle /\ stack = <<>>
      /\ current <= Len(liveSupport) /\ current' = current + 1
      /\ MarkLive(a, <<>>) \/ UNCHANGED <<live, stack>>
    BY DEF NextSupport
<1>2. current \in Nat \ {0} /\ liveSupport \in Seq(Atoms)
    BY <1>1 DEF IInv, TypeOK, PhaseInv
<1>3. a \in Range(liveSupport)
    BY <1>1, <1>2 DEF Range
<1>4. a \in atoms \cup coalesced
    BY <1>1, <1>3 DEF IInv, SeenInv, Swept
<1> HIDE DEF a
<1>5. /\ live' \subseteq atoms \cup coalesced
      /\ stack' \in Seq(MarkLiveCalls)
      /\ \A k \in DOMAIN stack' : stack'[k].atom \in live'
    <2>1. CASE MarkLive(a, <<>>)
        <3>1. <<>> \in Seq(MarkLiveCalls) /\ DOMAIN <<>> = {}
            OBVIOUS
        <3> QED BY <1>4, <2>1, <3>1, MarkLiveFacts
    <2>2. CASE UNCHANGED <<live, stack>>
        BY <2>2 DEF IInv, TypeOK
    <2> QED BY <1>1, <2>1, <2>2
<1>6. /\ search' = NULL /\ stage' \in {"look", "found", "settled"}
      /\ toMark' \subseteq roots
      /\ current' \in Nat /\ current' # 0
    BY <1>1, <1>2 DEF Idle, IInv, TypeOK
<1> QED BY <1>1, <1>5, <1>6, MarkInv

\* Atoms are removed: those that are not live, and those coalesced away.
LEMMA RemoveInv ==
    ASSUME IInv, Sweep \/ Finish
    PROVE  IInv'
<1>1. /\ UNCHANGED <<input, slots, bound, coalesced, duplicates,
                     externalTentative, completed, searchList, unprocessed,
                     linkerOptions, loaded, queue, search, todo, current,
                     genCount, roots, toMark, liveSupport, live, stack, stage,
                     pulled, round, late>>
      /\ pc \in {"support", "collisions"} /\ pc' \in {"check", "done", "error"}
      /\ queue = <<>> /\ search = NULL
      /\ atoms' \subseteq atoms
    BY DEF Sweep, Finish, Idle, libraryVars, loopVars, stripVars, historyVars
<1>2. stack = <<>>
    BY <1>1 DEF Sweep, Finish, IInv, PhaseInv
<1>3. live \subseteq atoms' \cup coalesced
    BY DEF Sweep, Finish, NotLive, IInv, TypeOK
<1>4. TypeOK'
    <2>1. atoms' \subseteq AllAtoms /\ pc' \in Phases
        BY <1>1 DEF IInv, TypeOK, Phases
    <2> QED BY <1>1, <1>3, <2>1 DEF IInv, TypeOK
<1>5. PhaseInv'
    BY <1>1, <1>2 DEF IInv, PhaseInv
<1>6. SeenInv'
    BY <1>1, SeenFrame DEF IInv, Swept
<1>7. FilesInv'
    <2>1. Range(queue') = {}
        BY <1>1 DEF Range
    <2> QED BY <1>1, <2>1, FilesFrame DEF IInv
<1>8. SearchInv' /\ RoundInv'
    BY <1>1 DEF SearchInv, RoundInv, Rounds
<1> QED BY <1>4, <1>5, <1>6, <1>7, <1>8 DEF IInv

\* Every step of a link keeps the invariant.
LEMMA StepInv == IInv /\ [Next]_vars => IInv'
<1> SUFFICES ASSUME IInv, [Next]_vars PROVE IInv'
    OBVIOUS
<1>1. CASE DoAtom \/ DoAtomFails \/ SearchHit \/ SearchMiss
    BY <1>1, DoAtomInv, DoAtomFailsInv, SearchHitInv, SearchMissInv
<1>2. CASE InitialFile \/ InitialFilesDone
    BY <1>2, InitialFileInv, InitialFilesDoneInv
<1>3. CASE \/ StartRound \/ NextUndefine \/ MakeBoundary \/ UndefinesDone
           \/ NextTentative \/ TentativesDone \/ RoundsDone \/ MakeProxies
    BY <1>3, StartRoundInv, NextUndefineInv, MakeBoundaryInv, UndefinesDoneInv,
       NextTentativeInv, TentativesDoneInv, RoundsDoneInv, MakeProxiesInv
<1>4. CASE \/ StripUndefine \/ StripRoot \/ StripRooted \/ NoStrip
           \/ CheckUndefines \/ NextCollision
    BY <1>4, StripUndefineInv, RootsInv, EndInv
<1>5. CASE \/ MarkRoot \/ MarkLook \/ MarkFound \/ MarkSettled \/ MarkReturn
           \/ MarkDone
    BY <1>5, MarkRootInv, MarkSearchInv, MarkSettledInv, MarkReturnInv, MarkDoneInv
<1>6. CASE NextSupport \/ Sweep \/ Finish
    BY <1>6, NextSupportInv, RemoveInv
<1>7. CASE Resolved \/ UNCHANGED vars
    <2>1. UNCHANGED <<input, slots, bound, coalesced, duplicates, atoms,
                      externalTentative, completed, searchList, unprocessed,
                      linkerOptions, loaded, queue, search, pc, todo, current,
                      genCount, roots, toMark, liveSupport, live, stack, stage,
                      pulled, round, late>>
        BY <1>7 DEF Resolved, vars, tableVars, libraryVars, loopVars, stripVars,
            historyVars
    <2>2. TypeOK' /\ PhaseInv'
        BY <2>1 DEF IInv, TypeOK, PhaseInv
    <2>3. SeenInv' /\ BoundAtoms' = BoundAtoms
        BY <2>1 DEF IInv, SeenInv, BoundAtoms
    <2>4. FilesIn' = FilesIn /\ Pulled' = Pulled
        BY <2>1 DEF FilesIn, ObjectsRead, Pulled
    <2>5. /\ \A n : DefinitionsIn(FilesIn, n)' = DefinitionsIn(FilesIn, n)
          /\ \A i : LibraryFile(i)' = LibraryFile(i)
          /\ UndefinedNames' = UndefinedNames /\ RoundsEnd' = RoundsEnd
        BY <2>1, <2>4 DEF DefinitionsIn, LibraryFile, UndefinedNames, RoundsEnd
    <2>6. \A a : Settled(a)' = Settled(a)
        BY <2>1, <2>5 DEF Settled
    <2>7. FilesInv'
        BY <2>1, <2>3, <2>4, <2>5, <2>6 DEF IInv, FilesInv
    <2>8. SearchInv' /\ RoundInv'
        BY <2>1, <2>5 DEF IInv, SearchInv, RoundInv
    <2> QED BY <2>2, <2>3, <2>7, <2>8 DEF IInv
<1> QED BY <1>1, <1>2, <1>3, <1>4, <1>5, <1>6, <1>7 DEF Next

\* The invariant holds throughout a link.
THEOREM Invariance == Spec => []IInv
BY InitInv, StepInv, PTL DEF Spec

\* What is bound, marked, queued or searched for is what the code can have
\* there (Resolver::doAtom, markLive and InputFiles::searchLibraries).
THEOREM TypeCorrect == Spec => []TypeOK
<1>1. IInv => TypeOK
    BY DEF IInv
<1> QED BY <1>1, Invariance, PTL

-----------------------------------------------------------------------------
(* Members are pulled in when they are needed, from the first library that *)
(* has them                                                                *)

\* The members that were pulled in, and the libraries they came from, stay.
LEMMA PulledGrows ==
    ASSUME IInv, [Next]_vars
    PROVE  \/ /\ UNCHANGED <<input, pulled>>
              /\ Len(searchList') >= Len(searchList)
              /\ \A j \in 1 .. Len(searchList) : LibraryFile(j)' = LibraryFile(j)
           \/ \E i \in Responses :
                SearchHit /\ FirstResponse(i) /\ SearchArchive(i)
<1> DEFINE Same == /\ UNCHANGED <<input, pulled>>
                   /\ Len(searchList') >= Len(searchList)
                   /\ \A j \in 1 .. Len(searchList) : LibraryFile(j)' = LibraryFile(j)
<1>0. Len(searchList) \in Nat
    BY DEF IInv, TypeOK
<1>1. UNCHANGED <<input, pulled, searchList>> => Same
    BY <1>0 DEF LibraryFile
<1>2. CASE SearchHit
    <2>1. PICK i \in Responses : FirstResponse(i) /\ (SearchDylib(i) \/ SearchArchive(i))
        BY <1>2 DEF SearchHit
    <2>2. SearchDylib(i) => UNCHANGED <<input, pulled, searchList>>
        BY <1>2 DEF SearchHit, SearchDylib, libraryVars, historyVars
    <2> HIDE DEF Same
    <2>3. CASE SearchDylib(i)
        BY <1>1, <2>2, <2>3 DEF Same
    <2> QED BY <1>2, <2>1, <2>3
<1>3. CASE InitialFilesDone
    <2>1. UNCHANGED <<input, pulled>> /\ AddLinkerOptionLibraries(unprocessed)
        BY <1>3 DEF InitialFilesDone, historyVars
    <2>2. /\ Len(searchList') >= Len(searchList)
          /\ \A j \in 1 .. Len(searchList) : searchList'[j] = searchList[j]
        BY <2>1, LinkerOptionFacts DEF IInv, TypeOK
    <2> QED BY <2>1, <2>2 DEF LibraryFile
<1>4. CASE DoAtom \/ DoAtomFails \/ SearchMiss \/ InitialFile
    BY <1>1, <1>4 DEF DoAtom, DoAtomFails, SearchMiss, InitialFile, libraryVars,
        historyVars
<1>5. CASE \/ StartRound \/ NextUndefine \/ MakeBoundary \/ UndefinesDone
           \/ NextTentative \/ TentativesDone \/ RoundsDone \/ MakeProxies
           \/ StripUndefine \/ NoStrip \/ CheckUndefines \/ NextCollision
    <2>1. UNCHANGED loopFrame
        BY <1>5 DEF StartRound, NextUndefine, MakeBoundary, UndefinesDone,
            NextTentative, TentativesDone, RoundsDone, MakeProxies,
            StripUndefine, NoStrip, CheckUndefines, NextCollision
    <2> QED BY <1>1, <2>1 DEF loopFrame, libraryVars
<1>6. CASE StripRoot \/ StripRooted \/ Sweep \/ Finish
    BY <1>1, <1>6 DEF StripRoot, StripRooted, Sweep, Finish, libraryVars, historyVars
<1>7. CASE \/ MarkRoot \/ MarkLook \/ MarkFound \/ MarkSettled \/ MarkReturn
           \/ MarkDone \/ NextSupport
    <2>1. UNCHANGED markFrame
        BY <1>7 DEF MarkRoot, MarkLook, MarkFound, MarkSettled, MarkReturn,
            MarkDone, NextSupport
    <2> QED BY <1>1, <2>1 DEF markFrame, libraryVars, historyVars
<1>8. CASE Resolved \/ UNCHANGED vars
    BY <1>1, <1>8 DEF Resolved, vars, libraryVars, historyVars
<1> QED BY <1>2, <1>3, <1>4, <1>5, <1>6, <1>7, <1>8 DEF Next

\* Where the members pulled in so far came from is in the list.
PulledInv == \A i \in DOMAIN pulled : pulled[i].library <= Len(searchList)

LEMMA StepNeeded ==
    ASSUME IInv, PulledInv, NeededWhenPulled, SearchedInOrder, [Next]_vars
    PROVE  PulledInv' /\ NeededWhenPulled' /\ SearchedInOrder'
<1>0. pulled \in Seq(Pulls) /\ Len(searchList) \in Nat
    BY DEF IInv, TypeOK
<1>1. \A i \in DOMAIN pulled : pulled[i].library \in Nat \ {0}
    <2>1. \A p \in Pulls : p.library \in Nat \ {0}
        BY DEF Pulls
    <2> QED BY <1>0, <2>1
<1>2. CASE /\ UNCHANGED <<input, pulled>>
           /\ Len(searchList') >= Len(searchList)
           /\ \A j \in 1 .. Len(searchList) : LibraryFile(j)' = LibraryFile(j)
    <2>0. Len(searchList') \in Nat
        BY StepInv DEF IInv, TypeOK
    <2>1. \A i : FilesBefore(i)' = FilesBefore(i)
        BY <1>2 DEF FilesBefore
    <2>2. PulledInv'
        BY <1>0, <1>1, <1>2, <2>0 DEF PulledInv
    <2>3. NeededWhenPulled'
        BY <1>2, <2>1 DEF NeededWhenPulled
    <2>4. ASSUME NEW i \in DOMAIN pulled, NEW j \in 1 .. pulled[i].library - 1
          PROVE  j \in 1 .. Len(searchList)
        BY <1>0, <1>1 DEF PulledInv
    <2>5. SearchedInOrder'
        BY <1>2, <2>1, <2>4 DEF SearchedInOrder
    <2> QED BY <2>2, <2>3, <2>5
<1>3. ASSUME NEW i \in Responses, SearchHit, FirstResponse(i), SearchArchive(i)
      PROVE  PulledInv' /\ NeededWhenPulled' /\ SearchedInOrder'
    <2> DEFINE member == LibraryFile(i).toc[search.name]
               new == [member |-> member, name |-> search.name, library |-> i,
                       dylibs |-> search.dylibs, dataOnly |-> search.dataOnly]
               defs == DefinitionsIn(FilesIn, search.name)
    <2>0. PICK last : last = Len(pulled) + 1
        OBVIOUS
    <2>1. /\ UNCHANGED <<input, pc>> /\ search # NULL
        BY <1>3, SearchFrame
    <2>2. /\ pulled' = Append(pulled, new)
          /\ pc # "initial" /\ search.archives
          /\ Len(searchList') >= Len(searchList)
          /\ \A j \in 1 .. Len(searchList) : LibraryFile(j)' = LibraryFile(j)
        BY <1>3, SearchArchiveFacts DEF IInv
    <2>3. /\ new.name = search.name /\ new.library = i
          /\ new.dylibs = search.dylibs /\ new.dataOnly = search.dataOnly
        OBVIOUS
    <2>4. i \in 1 .. Len(searchList) /\ Len(searchList') \in Nat
        <3>1. Len(searchList') \in Nat
            BY StepInv DEF IInv, TypeOK
        <3> QED BY <2>1, <3>1 DEF IInv, TypeOK, Searches, Responses
    <2> HIDE DEF new, member
    <2>5. /\ last \in Nat /\ DOMAIN pulled' = DOMAIN pulled \cup {last}
          /\ \A k \in DOMAIN pulled : pulled'[k] = pulled[k]
          /\ pulled'[last] = new
          /\ \A k \in DOMAIN pulled : k \in 1 .. Len(pulled)
          /\ 1 .. last - 1 = DOMAIN pulled
        BY <1>0, <2>0, <2>2
    <2>6. ASSUME NEW k \in DOMAIN pulled
          PROVE  FilesBefore(k)' = FilesBefore(k)
        <3>1. \A j \in 1 .. k - 1 : j \in DOMAIN pulled
            BY <1>0
        <3> QED BY <2>1, <2>5, <3>1 DEF FilesBefore
    <2>7. FilesBefore(last)' = FilesIn
        BY <2>1, <2>2, <2>5 DEF FilesBefore, FilesIn, ObjectsRead, Pulled
    <2>8. /\ defs # {} => search.dataOnly /\ Overridable(defs)
          /\ \A j \in 1 .. i - 1 : GoesPast(LibraryFile(j), search, defs)
        <3>1. defs # {} => search.dataOnly /\ Overridable(defs)
            BY <2>1, <2>2 DEF IInv, SearchInv
        <3>2. ASSUME NEW j \in 1 .. i - 1
              PROVE  GoesPast(LibraryFile(j), search, defs)
            BY <1>3, <2>1, <2>2, FirstGoesPast DEF IInv
        <3> QED BY <3>1, <3>2
    <2>9. PulledInv'
        BY <1>0, <1>1, <2>2, <2>3, <2>4, <2>5 DEF PulledInv
    <2>10. NeededWhenPulled'
        <3>1. ASSUME NEW k \in DOMAIN pulled',
                     DefinitionsIn(FilesBefore(k)', pulled'[k].name) # {}
              PROVE  /\ pulled'[k].dataOnly
                     /\ Overridable(DefinitionsIn(FilesBefore(k)', pulled'[k].name))
            <4>1. CASE k \in DOMAIN pulled
                BY <2>5, <2>6, <3>1, <4>1 DEF NeededWhenPulled
            <4>2. CASE k = last
                BY <2>3, <2>5, <2>7, <2>8, <3>1, <4>2
            <4> QED BY <2>5, <4>1, <4>2
        <3> QED BY <3>1 DEF NeededWhenPulled
    <2>11. SearchedInOrder'
        <3>1. ASSUME NEW k \in DOMAIN pulled', NEW j \in 1 .. pulled'[k].library - 1
              PROVE  GoesPast(LibraryFile(j)', pulled'[k],
                              DefinitionsIn(FilesBefore(k)', pulled'[k].name))
            <4>1. CASE k \in DOMAIN pulled
                <5>1. pulled'[k] = pulled[k] /\ FilesBefore(k)' = FilesBefore(k)
                    BY <2>5, <2>6, <4>1
                <5>2. j \in 1 .. Len(searchList)
                    BY <1>0, <1>1, <4>1, <5>1 DEF PulledInv
                <5> QED BY <2>2, <4>1, <5>1, <5>2 DEF SearchedInOrder
            <4>2. CASE k = last
                <5>1. j \in 1 .. i - 1 /\ j \in 1 .. Len(searchList)
                    BY <2>3, <2>4, <2>5, <4>2
                <5>2. GoesPast(LibraryFile(j), search, defs)
                    BY <2>8, <5>1
                <5>3. GoesPast(LibraryFile(j), new, defs)
                    BY <2>3, <5>2 DEF GoesPast
                <5>4. DefinitionsIn(FilesBefore(last)', new.name) = defs
                    BY <2>3, <2>7
                <5> QED BY <2>2, <2>5, <4>2, <5>1, <5>3, <5>4
            <4> QED BY <2>5, <4>1, <4>2
        <3> QED BY <3>1 DEF SearchedInOrder
    <2> QED BY <2>9, <2>10, <2>11
<1> QED BY <1>2, <1>3, PulledGrows

LEMMA NeededInOrder == Spec => [](PulledInv /\ NeededWhenPulled /\ SearchedInOrder)
<1>1. Init => PulledInv /\ NeededWhenPulled /\ SearchedInOrder
    BY DEF Init, PulledInv, NeededWhenPulled, SearchedInOrder
<1>2. IInv /\ (PulledInv /\ NeededWhenPulled /\ SearchedInOrder) /\ [Next]_vars
        => (PulledInv /\ NeededWhenPulled /\ SearchedInOrder)'
    BY StepNeeded
<1> QED BY <1>1, <1>2, Invariance, PTL DEF Spec

\* No member of an archive is pulled in for a name that a file of the link
\* defines already, unless to override a tentative definition, for any files,
\* libraries and options (Resolver::resolveUndefines and markLive with
\* InputFiles::searchLibraries).
THEOREM PulledWhenNeeded == Spec => []NeededWhenPulled
BY NeededInOrder, PTL

\* A member is pulled in only if the libraries before its own do not have the
\* name, in whatever order libraries were added while linking
\* (InputFiles::searchLibraries, addLinkerOptionLibraries).
THEOREM LibrariesInOrder == Spec => []SearchedInOrder
BY NeededInOrder, PTL

\* When the rounds of resolveUndefines end, no undefined name is defined by a
\* library that was there when the last round began.
THEOREM RoundsExhaust == Spec => RoundsExhaustLibraries
<1> DEFINE Exhausts ==
        pc = "round" /\ pc' = "options" =>
            \A n \in UndefinedNames, i \in 1 .. round : ~Provides(LibraryFile(i), n)
<1>1. ASSUME IInv, [Next]_vars, pc = "round", pc' = "options",
             NEW n \in UndefinedNames, NEW i \in 1 .. round
      PROVE  ~Provides(LibraryFile(i), n)
    <2>1. RoundsDone
        BY <1>1 DEF Next, vars, DoAtom, DoAtomFails, SearchHit, SearchMiss,
            InitialFile, InitialFilesDone, StartRound, NextUndefine, MakeBoundary,
            UndefinesDone, NextTentative, TentativesDone, MakeProxies,
            StripUndefine, StripRoot, StripRooted, NoStrip, MarkRoot, MarkLook,
            MarkFound, MarkSettled, MarkReturn, MarkDone, NextSupport, Sweep,
            CheckUndefines, NextCollision, Finish, Resolved
    <2>2. RoundsEnd /\ search = NULL /\ queue = <<>>
        BY <2>1 DEF RoundsDone, Idle
    <2>3. Range(queue) = {}
        BY <2>2 DEF Range
    <2> QED BY <1>1, <2>2, <2>3 DEF IInv, RoundInv, Rounds
<1>2. IInv /\ [Next]_vars => [Exhausts]_vars
    BY <1>1
<1> QED BY <1>2, Invariance, PTL DEF Spec, RoundsExhaustLibraries

-----------------------------------------------------------------------------
(* What goes to doAtom is new                                              *)

LEMMA BoundFacts ==
    ASSUME TypeOK
    PROVE  /\ \A n \in Names : bound[n] # NULL => bound[n] \in BoundAtoms /\ bound[n].name = n
           /\ \A a \in BoundAtoms : a \in AllAtoms /\ a.name \in Names /\ bound[a.name] = a
<1>1. \A n \in Names : bound[n] # NULL =>
          bound[n] \in BoundAtoms /\ bound[n].name = n /\ bound[n] \in AllAtoms
    BY DEF TypeOK, BoundAtoms
<1>2. \A a \in BoundAtoms : \E n \in Names : a = bound[n] /\ a # NULL
    BY DEF BoundAtoms
<1> QED BY <1>1, <1>2

\* A step that binds nothing.
LEMMA FreshFrame ==
    ASSUME FreshInv, UNCHANGED <<bound, coalesced, input>>,
           Pulled' \subseteq Members(input), FilesIn \subseteq FilesIn',
           \A j, k \in DOMAIN queue' : queue'[j] = queue'[k] => j = k,
           Range(queue') \cap BoundAtoms = {},
           \A a \in Range(queue') \cap Atoms : \E f \in FilesIn' : a \in AtomsOf(f),
           search' # NULL =>
               /\ \A a \in Range(queue') : a.ordinal < search'.next
               /\ bound[search'.name] # NULL =>
                    \/ bound[search'.name].definition = "tentative"
                    \/ bound[search'.name].ordinal < search'.next
    PROVE  FreshInv'
<1>1. BoundAtoms' = BoundAtoms
    BY DEF BoundAtoms
<1>2. \A a \in BoundAtoms \cap Atoms : \E f \in FilesIn' : a \in AtomsOf(f)
    BY DEF FreshInv
<1> QED BY <1>1, <1>2 DEF FreshInv

\* The names that a search, if there is one, may be made for: without a
\* definition, or with a tentative one.
Open(n) == bound[n] = NULL \/ bound[n].definition = "tentative"

\* A step that binds nothing and brings no atoms, and may start a search.
LEMMA FreshQuiet ==
    ASSUME FreshInv, UNCHANGED <<bound, coalesced, input, pulled>>,
           FilesIn \subseteq FilesIn', queue' = <<>>,
           search' # NULL => Open(search'.name)
    PROVE  FreshInv'
<1>1. Pulled' = Pulled /\ Pulled \subseteq Members(input)
    BY DEF Pulled, FreshInv
<1>2. Range(queue') = {} /\ DOMAIN queue' = {}
    BY DEF Range
<1> QED BY <1>1, <1>2, FreshFrame DEF Open

\* The linker makes atoms for names that are not bound.
LEMMA FreshMade ==
    ASSUME TypeOK, FreshInv, UNCHANGED <<bound, coalesced, input, pulled>>,
           FilesIn' = FilesIn, search' = NULL,
           \A j, k \in DOMAIN queue' : queue'[j] = queue'[k] => j = k,
           \A a \in Range(queue') : a \in MadeAtoms /\ bound[a.name] = NULL
    PROVE  FreshInv'
<1>1. Pulled' = Pulled /\ Pulled \subseteq Members(input)
    BY DEF Pulled, FreshInv
<1>2. Range(queue') \cap BoundAtoms = {}
    <2>1. \A a \in BoundAtoms : bound[a.name] # NULL
        BY BoundFacts DEF BoundAtoms
    <2> QED BY <2>1
<1>3. Range(queue') \cap Atoms = {}
    BY OwnersAssumption
<1> QED BY <1>1, <1>2, <1>3, FreshFrame

LEMMA DoAtomFresh ==
    ASSUME TypeOK, FreshInv, DoAtom
    PROVE  FreshInv'
<1> DEFINE a == Head(queue)
<1>1. /\ a \in AllAtoms /\ AddAtom(a) /\ a.name \in Names
      /\ Range(queue) = {a} \cup Range(queue')
      /\ queue' = Tail(queue)
    BY DoAtomFacts, AtomFacts
<1>2. queue \in Seq(AllAtoms) /\ queue # <<>> /\ a = queue[1]
    BY DEF DoAtom, TypeOK
<1>3. /\ UNCHANGED <<input, search, pulled>> /\ FilesIn' = FilesIn
    BY DoAtomFrame
<1>4. /\ \A n \in Names \ {a.name} : bound'[n] = bound[n]
      /\ bound'[a.name] \in {a, bound[a.name]}
    BY <1>1, AddAtomFacts
<1>5. a \notin BoundAtoms
    BY <1>1 DEF FreshInv
<1>6. \A j \in DOMAIN queue' : j + 1 \in DOMAIN queue /\ queue'[j] = queue[j + 1] /\ j \in Nat \ {0}
    BY <1>1, <1>2
<1> HIDE DEF a
<1>7. /\ \A j, k \in DOMAIN queue' : queue'[j] = queue'[k] => j = k
      /\ a \notin Range(queue')
    <2>1. 1 \in DOMAIN queue
        BY <1>2
    <2>2. \A j, k \in DOMAIN queue : queue[j] = queue[k] => j = k
        BY DEF FreshInv
    <2>3. ASSUME NEW j \in DOMAIN queue', NEW k \in DOMAIN queue', queue'[j] = queue'[k]
          PROVE  j = k
        <3>1. j + 1 = k + 1
            BY <1>6, <2>2, <2>3
        <3> QED BY <1>6, <3>1
    <2>4. ASSUME NEW j \in DOMAIN queue', queue'[j] = a
          PROVE  FALSE
        <3>1. j + 1 = 1
            BY <1>2, <1>6, <2>1, <2>2, <2>4
        <3> QED BY <1>6, <3>1
    <2> QED BY <2>3, <2>4 DEF Range
<1>8. BoundAtoms' \subseteq BoundAtoms \cup {a}
    BY <1>1, <1>4 DEF BoundAtoms
<1>9. BoundAtoms' \cap coalesced' = {}
    <2> SUFFICES ASSUME NEW n \in Names, bound'[n] # NULL
                 PROVE  bound'[n] \notin coalesced'
        BY DEF BoundAtoms
    <2>0. bound \in [Names -> AllAtoms \cup {NULL}]
        BY DEF TypeOK
    <2>1. CASE /\ bound' = [bound EXCEPT ![a.name] = a]
               /\ coalesced' = (coalesced \cup {bound[a.name]}) \ {a, NULL}
        <3>1. CASE n = a.name
            BY <1>1, <2>0, <2>1, <3>1
        <3>2. CASE n # a.name
            <4>1. bound'[n] = bound[n] /\ bound[n] \in BoundAtoms /\ bound[n].name = n
                BY <1>4, <3>2, BoundFacts
            <4>2. bound[n] \notin coalesced
                BY <4>1 DEF FreshInv
            <4>3. bound[n] # bound[a.name]
                BY <1>1, <3>2, <4>1, BoundFacts
            <4> QED BY <2>1, <4>1, <4>2, <4>3
        <3> QED BY <3>1, <3>2
    <2>2. CASE bound' = bound /\ coalesced' = coalesced \cup {a}
        <3>1. bound[n] \in BoundAtoms
            BY <2>2, BoundFacts
        <3> QED BY <1>5, <2>2, <3>1 DEF FreshInv
    <2> QED BY <1>1, <2>1, <2>2 DEF AddAtom
<1>10. Range(queue') \cap BoundAtoms' = {}
    BY <1>1, <1>7, <1>8 DEF FreshInv
<1>11. Pulled' \subseteq Members(input')
    BY <1>3 DEF Pulled, FreshInv
<1>12. \A x \in (BoundAtoms' \cup Range(queue')) \cap Atoms : \E f \in FilesIn' : x \in AtomsOf(f)
    BY <1>1, <1>3, <1>8 DEF FreshInv
<1>13. search' # NULL =>
        /\ \A x \in Range(queue') : x.ordinal < search'.next
        /\ bound'[search'.name] # NULL =>
            \/ bound'[search'.name].definition = "tentative"
            \/ bound'[search'.name].ordinal < search'.next
    <2>1. search # NULL => search.name \in Names
        BY DEF TypeOK, Searches
    <2> QED BY <1>1, <1>3, <1>4, <2>1 DEF FreshInv
<1> QED BY <1>7, <1>9, <1>10, <1>11, <1>12, <1>13 DEF FreshInv

\* What the linker makes refers to nothing and keeps nothing alive.
LEMMA MadeAtomFacts ==
    ASSUME NEW a \in MadeAtoms
    PROVE  /\ a \in AllAtoms /\ a \notin Atoms /\ a.ordinal \in Nat
           /\ a.refs = <<>> /\ RefsOf(a) = {}
           /\ ~a.dontDeadStrip /\ ~a.global /\ ~a.liveSupport
           /\ ~IsRoot(a) /\ ~IsLiveSupport(a)
<1>1. /\ a.refs = <<>> /\ a.ordinal \in Nat
      /\ a.dontDeadStrip = FALSE /\ a.global = FALSE /\ a.liveSupport = FALSE
    BY DEF MadeAtoms
<1>2. RefsOf(a) = {}
    BY <1>1 DEF RefsOf
<1>3. a \in AllAtoms /\ a \notin Atoms
    BY OwnersAssumption DEF AllAtoms
<1> QED BY <1>1, <1>2, <1>3 DEF IsRoot, IsLiveSupport

\* What a dylib responds with.
LEMMA SearchDylibFacts ==
    ASSUME TypeOK, SearchHit, NEW i \in Responses, SearchDylib(i)
    PROVE  /\ UNCHANGED <<searchList, linkerOptions, loaded, pulled, late>>
           /\ search.dylibs /\ search.next <= i /\ i \in Nat /\ search.next \in Nat
           /\ \E a \in MadeAtoms :
                /\ queue' = <<a>> /\ Range(queue') = {a}
                /\ a.name = search.name /\ a.definition = "proxy" /\ a.ordinal = i
           /\ search' # NULL =>
                /\ search'.name = search.name /\ search'.next = i + 1
                /\ search'.dylibs = search.dylibs /\ search'.archives = search.archives
<1> DEFINE n == search.name
           weak == n \in LibraryFile(i).weakExports
           a == ExportAtom(n, weak, i)
<1>1. search # NULL
    BY SearchFrame
<1>2. /\ UNCHANGED <<searchList, linkerOptions, loaded, pulled, late>>
      /\ ~LibraryFile(i).archive
      /\ queue' = <<a>>
      /\ search' = IF weak THEN [search EXCEPT !.next = i + 1] ELSE NULL
    BY DEF SearchDylib, libraryVars, historyVars, LibraryFile
<1>3. /\ search \in Searches /\ n \in Names
      /\ search.next \in Nat \ {0} /\ Len(searchList) \in Nat
      /\ i \in search.next .. Len(searchList)
    BY <1>1 DEF TypeOK, Searches, Responses
<1>4. a \in MadeAtoms /\ a.name = n /\ a.definition = "proxy" /\ a.ordinal = i
    <2>1. weak \in BOOLEAN /\ i \in Nat /\ n \in Names
        BY <1>3
    <2> HIDE DEF weak
    <2>2. a = Made(n, "proxy", weak, i)
        BY DEF ExportAtom
    <2>3. a \in MadeAtoms /\ a.name = n /\ a.definition = "proxy"
        BY <2>1, <2>2, MadeFacts
    <2>4. a.ordinal = i
        BY <2>2 DEF Made
    <2> QED BY <2>3, <2>4
<1>5. search.dylibs
    BY <1>2 DEF Responses, Responds, LibraryFile
<1> HIDE DEF a
<1>6. Range(queue') = {a}
    BY <1>2 DEF Range
<1>7. search' # NULL =>
        /\ search'.name = n /\ search'.next = i + 1
        /\ search'.dylibs = search.dylibs /\ search'.archives = search.archives
    BY <1>2, <1>3 DEF Searches
<1>8. search.next <= i /\ i \in Nat /\ search.next \in Nat
    BY <1>3
<1>9. \E x \in MadeAtoms :
        /\ queue' = <<x>> /\ Range(queue') = {x}
        /\ x.name = search.name /\ x.definition = "proxy" /\ x.ordinal = i
    BY <1>2, <1>4, <1>6, Zenon
<1> QED BY <1>2, <1>5, <1>7, <1>8, <1>9

LEMMA SearchDylibFresh ==
    ASSUME TypeOK, FreshInv, SearchHit, NEW i \in Responses, SearchDylib(i)
    PROVE  FreshInv'
<1>1. /\ UNCHANGED <<input, bound, coalesced, pc, current>>
      /\ search # NULL
    BY SearchFrame
<1>2. PICK a \in MadeAtoms :
        /\ queue' = <<a>> /\ Range(queue') = {a}
        /\ a.name = search.name /\ a.definition = "proxy" /\ a.ordinal = i
    BY SearchDylibFacts
<1>3. /\ pulled' = pulled
      /\ i \in Nat /\ search.next \in Nat /\ search.next <= i
      /\ search' # NULL => search'.name = search.name /\ search'.next = i + 1
    BY SearchDylibFacts
<1>4. \A j, k \in DOMAIN queue' : queue'[j] = queue'[k] => j = k
    BY <1>2
<1>5. Pulled' = Pulled /\ FilesIn' = FilesIn
    BY <1>1, <1>3 DEF FilesIn, ObjectsRead, Pulled
<1>6. search.name \in Names
    BY <1>1 DEF TypeOK, Searches
<1>7. a \notin BoundAtoms
    <2>1. SUFFICES ASSUME a \in BoundAtoms PROVE FALSE
        OBVIOUS
    <2>2. bound[search.name] = a /\ a # NULL
        BY <1>2, <2>1, BoundFacts DEF BoundAtoms
    <2>3. a.definition = "tentative" \/ a.ordinal < search.next
        BY <1>1, <2>2 DEF FreshInv
    <2> QED BY <1>2, <1>3, <2>3
<1>8. ASSUME search' # NULL
      PROVE  /\ \A x \in Range(queue') : x.ordinal < search'.next
             /\ bound[search'.name] # NULL =>
                    \/ bound[search'.name].definition = "tentative"
                    \/ bound[search'.name].ordinal < search'.next
    <2>1. \A x \in Range(queue') : x.ordinal < search'.next
        BY <1>2, <1>3, <1>8
    <2>2. ASSUME bound[search.name] # NULL, bound[search.name].definition # "tentative"
          PROVE  bound[search.name].ordinal < i + 1
        <3>1. bound[search.name].ordinal < search.next
            BY <1>1, <2>2 DEF FreshInv
        <3>2. bound[search.name].ordinal \in Nat
            BY <1>6, <2>2, AtomFacts DEF TypeOK, IsAttributed
        <3> QED BY <1>3, <3>1, <3>2
    <2> QED BY <1>3, <1>8, <2>1, <2>2
<1>9. a \notin Atoms
    BY MadeAtomFacts
<1> QED
    BY <1>1, <1>2, <1>4, <1>5, <1>7, <1>8, <1>9, FreshFrame DEF FreshInv

LEMMA SearchArchiveFresh ==
    ASSUME IInv, FreshInv, SearchHit, NEW i \in Responses, SearchArchive(i)
    PROVE  FreshInv'
<1> DEFINE member == LibraryFile(i).toc[search.name]
<1>1. UNCHANGED <<input, bound, coalesced>> /\ search # NULL
    BY SearchFrame
<1>2. /\ queue' = member.atoms /\ Range(queue') = AtomsOf(member)
      /\ search' = NULL
      /\ member \in Files
      /\ Pulled' = Pulled \cup {member}
      /\ FilesIn' = FilesIn \cup {member}
      /\ pc # "initial"
    BY SearchArchiveFacts DEF IInv
<1>3. LibraryFile(i).archive
    BY DEF SearchArchive, LibraryFile
<1>4. i \in 1 .. Len(searchList)
    BY <1>1, <1>3, MemberFacts DEF IInv
<1>5. /\ search.name \in DOMAIN LibraryFile(i).toc
      /\ member \notin loaded
    BY <1>3 DEF Responses, Responds, Provides, LibraryFile
<1>6. member \in Members(input)
    <2>1. searchList[i] \in Libraries
        BY <1>4 DEF IInv, TypeOK
    <2> QED BY <1>3, <1>5, <2>1 DEF Members, LibraryFile
<1> HIDE DEF member
<1>7. \A j, k \in DOMAIN queue' : queue'[j] = queue'[k] => j = k
    BY <1>2, OwnersAssumption
<1>8. \A f \in FilesIn : Apart(f, member)
    <2>1. input \in Inputs
        BY DEF IInv, TypeOK
    <2>2. \A f \in Pulled : f # member /\ f \in Members(input)
        BY <1>5 DEF IInv, FilesInv, FreshInv
    <2>3. \A f \in Pulled : Apart(f, member)
        BY <1>6, <2>1, <2>2, OwnersAssumption
    <2>4. \A j \in DOMAIN input.objects : Apart(input.objects[j], member)
        BY <1>6, <2>1, OwnersAssumption
    <2> QED BY <1>2, <2>3, <2>4 DEF FilesIn, ObjectsRead, Range
<1>9. Range(queue') \cap BoundAtoms = {}
    <2>1. AtomsOf(member) \subseteq Atoms
        BY <1>2, FilesAssumption DEF AtomsOf
    <2>2. \A a \in BoundAtoms \cap Atoms : \E f \in FilesIn : a \in AtomsOf(f)
        BY DEF FreshInv
    <2> QED BY <1>2, <1>8, <2>1, <2>2 DEF Apart
<1>10. Pulled' \subseteq Members(input)
    BY <1>2, <1>6 DEF FreshInv
<1> QED BY <1>1, <1>2, <1>7, <1>9, <1>10, FreshFrame

LEMMA InitialFileFresh ==
    ASSUME IInv, FreshInv, InitialFile
    PROVE  FreshInv'
<1> DEFINE file == input.objects[current]
<1>1. /\ UNCHANGED <<input, bound, coalesced, search, pc, pulled>>
      /\ pc = "initial" /\ search = NULL
      /\ current <= Len(input.objects)
      /\ queue' = file.atoms
      /\ current' = current + 1
    BY DEF InitialFile, Idle, tableVars, stripVars, historyVars
<1>2. input \in Inputs /\ input.objects \in Seq(Files) /\ current \in 1 .. Len(input.objects)
    BY <1>1, InputsAssumption DEF IInv, TypeOK, PhaseInv
<1>3. file \in Files /\ Range(queue') = AtomsOf(file)
    BY <1>1, <1>2 DEF Range, AtomsOf
<1>4. FilesIn' = FilesIn \cup {file} /\ Pulled' = Pulled /\ Pulled = {}
    <2>1. 1 .. current' - 1 = (1 .. current - 1) \cup {current}
        BY <1>1, <1>2
    <2>2. pulled = <<>>
        BY <1>1 DEF IInv, PhaseInv
    <2> QED BY <1>1, <2>1, <2>2 DEF FilesIn, ObjectsRead, Pulled
<1>5. \A f \in FilesIn : Apart(f, file)
    <2>1. ASSUME NEW j \in 1 .. current - 1
          PROVE  Apart(input.objects[j], file)
        <3>1. j \in DOMAIN input.objects /\ current \in DOMAIN input.objects /\ j # current
            BY <1>2
        <3> QED BY <1>2, <3>1, OwnersAssumption
    <2> QED BY <1>1, <1>4, <2>1 DEF FilesIn, ObjectsRead
<1> HIDE DEF file
<1>6. \A j, k \in DOMAIN queue' : queue'[j] = queue'[k] => j = k
    BY <1>1, <1>3, OwnersAssumption
<1>7. Range(queue') \cap BoundAtoms = {}
    <2>1. AtomsOf(file) \subseteq Atoms
        BY <1>3, FilesAssumption DEF AtomsOf
    <2>2. \A a \in BoundAtoms \cap Atoms : \E f \in FilesIn : a \in AtomsOf(f)
        BY DEF FreshInv
    <2> QED BY <1>3, <1>5, <2>1, <2>2 DEF Apart
<1> QED BY <1>1, <1>3, <1>4, <1>6, <1>7, FreshFrame DEF FreshInv

\* The files whose atoms were taken stay.
LEMMA FilesStay ==
    ASSUME IInv, UNCHANGED <<input, pulled>>,
           pc' # "initial" \/ UNCHANGED <<pc, current>>
    PROVE  FilesIn \subseteq FilesIn'
<1>1. input.objects \in Seq(Files)
    BY InputsAssumption DEF IInv, TypeOK
<1>2. pc = "initial" => 1 .. current - 1 \subseteq DOMAIN input.objects
    BY <1>1 DEF IInv, PhaseInv
<1> QED BY <1>2 DEF FilesIn, ObjectsRead, Pulled, Range

\* What the loops search for, and what is searched for while marking.
LEMMA SearchOpen ==
    ASSUME NEW n \in Names, search = NULL,
           SearchUndefined(n) \/ SearchOverride(n)
    PROVE  search' # NULL => search'.name = n /\ Open(n)
<1>1. CASE search' = search
    BY <1>1
<1>2. ASSUME NEW d, NEW o, bound[n] = NULL \/ IsTentative(n),
             SearchLibraries(n, d, TRUE, o)
      PROVE  search'.name = n /\ Open(n)
    BY <1>2 DEF SearchLibraries, IsTentative, Open
<1> QED BY <1>1, <1>2 DEF SearchUndefined, SearchOverride

LEMMA LoopFresh ==
    ASSUME IInv, FreshInv, CollisionInv,
           \/ StartRound \/ NextUndefine \/ UndefinesDone
           \/ NextTentative \/ TentativesDone \/ RoundsDone
           \/ StripUndefine \/ NoStrip \/ CheckUndefines \/ NextCollision
    PROVE  FreshInv'
<1>1. UNCHANGED loopFrame /\ Idle /\ queue' = queue
    BY DEF StartRound, NextUndefine, UndefinesDone, NextTentative,
        TentativesDone, RoundsDone, StripUndefine, NoStrip, CheckUndefines,
        NextCollision
<1>2. /\ UNCHANGED <<bound, coalesced, input, pulled>>
      /\ queue' = <<>> /\ search = NULL
    BY <1>1 DEF loopFrame, tableVars, Idle
<1>3. pc' # "initial"
    BY DEF StartRound, NextUndefine, UndefinesDone, NextTentative,
        TentativesDone, RoundsDone, StripUndefine, NoStrip, CheckUndefines,
        NextCollision
<1>4. todo \subseteq Names
    BY DEF IInv, TypeOK
<1>5. search' # NULL => Open(search'.name)
    <2>1. CASE \/ StartRound \/ UndefinesDone \/ TentativesDone \/ RoundsDone
               \/ NoStrip \/ CheckUndefines
        BY <1>2, <2>1 DEF StartRound, UndefinesDone, TentativesDone, RoundsDone,
            NoStrip, CheckUndefines
    <2>2. CASE NextUndefine \/ NextTentative
        <3>1. PICK n \in todo : SearchUndefined(n) \/ SearchOverride(n)
            BY <2>2 DEF NextUndefine, NextTentative
        <3> QED BY <1>2, <1>4, <3>1, SearchOpen
    <2>3. CASE StripUndefine
        <3>1. PICK n \in todo : \/ bound[n] = NULL /\ SearchLibraries(n, FALSE, TRUE, FALSE)
                                \/ search' = search
            BY <2>3 DEF StripUndefine
        <3>2. search' = search \/ (search'.name = n /\ bound[n] = NULL)
            BY <3>1 DEF SearchLibraries
        <3> QED BY <1>2, <3>2 DEF Open
    <2>4. CASE NextCollision
        <3>1. PICK n \in todo : SearchLibraries(n, TRUE, FALSE, FALSE)
            BY <2>4 DEF NextCollision
        <3>2. search'.name = n
            BY <3>1 DEF SearchLibraries
        <3>3. IsTentative(n)
            BY <2>4 DEF NextCollision, CollisionInv
        <3> QED BY <3>2, <3>3 DEF Open, IsTentative
    <2> QED BY <2>1, <2>2, <2>3, <2>4
<1> QED BY <1>2, <1>3, <1>5, FilesStay, FreshQuiet

LEMMA MakeFresh ==
    ASSUME IInv, FreshInv, MakeBoundary \/ MakeProxies
    PROVE  FreshInv'
<1>1. /\ UNCHANGED loopFrame /\ Idle /\ search' = search
      /\ pc \in {"boundary", "options"} /\ pc' \in {"undefines", "strip"}
    BY DEF MakeBoundary, MakeProxies
<1>2. UNCHANGED <<bound, coalesced, input, pulled>> /\ search' = NULL
    BY <1>1 DEF loopFrame, tableVars, Idle
<1>3. FilesIn' = FilesIn
    BY <1>1, <1>2 DEF FilesIn, ObjectsRead, Pulled
<1>4. CASE MakeBoundary
    <2>1. current \in Names
        BY <1>4 DEF MakeBoundary, IInv, PhaseInv, TypeOK
    <2> DEFINE a == BoundaryAtom(current)
    <2>2. a \in MadeAtoms /\ a.name = current
        BY <2>1, MadeFacts DEF BoundaryAtom
    <2> HIDE DEF a
    <2>3. queue' = <<>> \/ (queue' = <<a>> /\ bound[current] = NULL)
        BY <1>4 DEF MakeBoundary, a
    <2>4. /\ \A j, k \in DOMAIN queue' : queue'[j] = queue'[k] => j = k
          /\ \A x \in Range(queue') : x = a /\ bound[current] = NULL
        BY <2>3 DEF Range
    <2> QED BY <1>2, <1>3, <2>2, <2>4, FreshMade DEF IInv
<1>5. CASE MakeProxies
    <2>1. PICK names \in SetToSeqs(ToProxy) :
            queue' = [i \in DOMAIN names |-> UndefinedProxyAtom(names[i])]
        BY <1>5 DEF MakeProxies
    <2>2. /\ names \in [1 .. Cardinality(ToProxy) -> ToProxy]
          /\ \A j, k \in DOMAIN names : names[j] = names[k] => j = k
        BY <2>1 DEF SetToSeqs, IsInjective
    <2>3. ToProxy \subseteq Names /\ \A n \in ToProxy : bound[n] = NULL
        BY DEF ToProxy, UndefinedNames, IInv, TypeOK
    <2>4. \A n \in Names : UndefinedProxyAtom(n) \in MadeAtoms /\ UndefinedProxyAtom(n).name = n
        BY MadeFacts DEF UndefinedProxyAtom
    <2>5. /\ DOMAIN queue' = DOMAIN names
          /\ \A j \in DOMAIN queue' :
                /\ queue'[j] \in MadeAtoms /\ queue'[j].name = names[j]
                /\ bound[queue'[j].name] = NULL
        BY <2>1, <2>2, <2>3, <2>4
    <2>6. \A j, k \in DOMAIN queue' : queue'[j] = queue'[k] => j = k
        BY <2>2, <2>5
    <2>7. \A x \in Range(queue') : x \in MadeAtoms /\ bound[x.name] = NULL
        BY <2>5 DEF Range
    <2> QED BY <1>2, <1>3, <2>6, <2>7, FreshMade DEF IInv
<1> QED BY <1>4, <1>5

LEMMA MarkFresh ==
    ASSUME IInv, FreshInv,
           \/ StripRoot \/ StripRooted \/ Sweep \/ Finish
           \/ MarkRoot \/ MarkLook \/ MarkFound \/ MarkSettled \/ MarkReturn
           \/ MarkDone \/ NextSupport
    PROVE  FreshInv'
<1>1. CASE StripRoot \/ StripRooted \/ Sweep \/ Finish
    <2>1. /\ UNCHANGED <<bound, coalesced, input, pulled>>
          /\ queue' = <<>> /\ search' = NULL /\ pc' # "initial"
        BY <1>1 DEF StripRoot, StripRooted, Sweep, Finish, Idle, tableVars, historyVars
    <2> QED BY <2>1, FilesStay, FreshQuiet
<1>2. CASE \/ MarkRoot \/ MarkLook \/ MarkFound \/ MarkSettled \/ MarkReturn
           \/ MarkDone \/ NextSupport
    <2>1. UNCHANGED markFrame /\ Idle
        BY <1>2 DEF MarkRoot, MarkLook, MarkFound, MarkSettled, MarkReturn,
            MarkDone, NextSupport
    <2>2. /\ UNCHANGED <<bound, coalesced, input, pulled>>
          /\ queue' = <<>> /\ search = NULL
        BY <2>1 DEF markFrame, tableVars, historyVars, Idle
    <2>3. pc' # "initial"
        BY <1>2, TargetFacts DEF MarkRoot, MarkLook, MarkFound, MarkSettled, MarkReturn,
            MarkDone, NextSupport
    <2>4. search' # NULL => Open(search'.name)
        <3>1. CASE MarkLook \/ MarkFound
            <4>1. Target \in Names /\ (SearchUndefined(Target) \/ SearchOverride(Target))
                BY <3>1, TargetFacts DEF MarkLook, MarkFound
            <4> QED BY <2>2, <4>1, SearchOpen
        <3>2. CASE MarkRoot \/ MarkSettled \/ MarkReturn \/ MarkDone \/ NextSupport
            BY <2>2, <3>2 DEF MarkRoot, MarkSettled, MarkReturn, MarkDone, NextSupport
        <3> QED BY <1>2, <3>1, <3>2
    <2> QED BY <2>2, <2>3, <2>4, FilesStay, FreshQuiet
<1> QED BY <1>1, <1>2

LEMMA StepFresh ==
    ASSUME IInv, FreshInv, CollisionInv, [Next]_vars
    PROVE  FreshInv'
<1>1. CASE DoAtom
    BY <1>1, DoAtomFresh DEF IInv
<1>2. CASE SearchHit
    BY <1>2, SearchDylibFresh, SearchArchiveFresh DEF SearchHit, IInv
<1>3. CASE DoAtomFails \/ SearchMiss \/ InitialFilesDone
    <2>1. /\ UNCHANGED <<bound, coalesced, input, pulled>>
          /\ queue' = <<>> /\ search' = NULL
          /\ pc' # "initial" \/ UNCHANGED <<pc, current>>
        BY <1>3 DEF DoAtomFails, SearchMiss, InitialFilesDone, Idle, tableVars,
            loopVars, historyVars
    <2> QED BY <2>1, FilesStay, FreshQuiet
<1>4. CASE InitialFile
    BY <1>4, InitialFileFresh
<1>5. CASE \/ StartRound \/ NextUndefine \/ UndefinesDone
           \/ NextTentative \/ TentativesDone \/ RoundsDone
           \/ StripUndefine \/ NoStrip \/ CheckUndefines \/ NextCollision
    BY <1>5, LoopFresh
<1>6. CASE MakeBoundary \/ MakeProxies
    BY <1>6, MakeFresh
<1>7. CASE \/ StripRoot \/ StripRooted \/ Sweep \/ Finish
           \/ MarkRoot \/ MarkLook \/ MarkFound \/ MarkSettled \/ MarkReturn
           \/ MarkDone \/ NextSupport
    BY <1>7, MarkFresh
<1>8. CASE Resolved \/ UNCHANGED vars
    BY <1>8 DEF Resolved, vars, tableVars, loopVars, historyVars, FreshInv,
        BoundAtoms, Pulled, FilesIn, ObjectsRead
<1> QED BY <1>1, <1>2, <1>3, <1>4, <1>5, <1>6, <1>7, <1>8 DEF Next

-----------------------------------------------------------------------------
(* checkDylibSymbolCollisions                                              *)

\* The steps that end in one of the last phases.
LEMMA LastSteps ==
    ASSUME IInv, [Next]_vars, pc' \in {"check", "collisions", "done"}
    PROVE  \/ NoStrip \/ Sweep \/ CheckUndefines \/ NextCollision \/ Finish
           \/ pc' = pc /\ (DoAtom \/ SearchHit \/ SearchMiss)
           \/ UNCHANGED vars
<1>1. stack # <<>> => pc \in {"mark", "support"}
    BY DEF IInv, PhaseInv
<1>2. CASE MarkLook \/ MarkFound \/ MarkSettled \/ MarkReturn
    BY <1>1, <1>2 DEF MarkLook, MarkFound, MarkSettled, MarkReturn
<1>3. CASE DoAtom \/ SearchHit \/ SearchMiss
    BY <1>3 DEF DoAtom, SearchHit, SearchMiss
<1>4. ~(\/ DoAtomFails \/ InitialFile \/ InitialFilesDone \/ StartRound
        \/ NextUndefine \/ MakeBoundary \/ UndefinesDone \/ NextTentative
        \/ TentativesDone \/ RoundsDone \/ MakeProxies \/ StripUndefine
        \/ StripRoot \/ StripRooted \/ MarkRoot \/ MarkDone \/ NextSupport)
    BY DEF DoAtomFails, InitialFile, InitialFilesDone, StartRound,
        NextUndefine, MakeBoundary, UndefinesDone, NextTentative,
        TentativesDone, RoundsDone, MakeProxies, StripUndefine,
        StripRoot, StripRooted, MarkRoot, MarkDone, NextSupport
<1>5. Resolved => UNCHANGED vars
    BY DEF Resolved
<1> QED BY <1>2, <1>3, <1>4, <1>5 DEF Next

LEMMA StepCollision ==
    ASSUME IInv, CollisionInv, [Next]_vars
    PROVE  CollisionInv'
<1> SUFFICES ASSUME pc' = "collisions" PROVE CollisionInv'
    BY DEF CollisionInv
<1>1. CASE NoStrip \/ Sweep \/ Finish
    BY <1>1 DEF NoStrip, Sweep, Finish
<1>2. CASE CheckUndefines
    <2>1. /\ bound' = bound /\ queue' = <<>> /\ search' = NULL
          /\ todo' \subseteq {n \in slots : IsTentative(n)}
        BY <1>2 DEF CheckUndefines, Idle, loopFrame, tableVars
    <2>2. Range(queue') = {}
        BY <2>1 DEF Range
    <2> QED BY <2>1, <2>2 DEF CollisionInv, IsTentative
<1>3. CASE NextCollision
    <2>1. PICK n \in todo : todo' = todo \ {n} /\ SearchLibraries(n, TRUE, FALSE, FALSE)
        BY <1>3 DEF NextCollision
    <2>2. bound' = bound /\ queue' = <<>> /\ pc = "collisions"
        BY <1>3 DEF NextCollision, Idle, loopFrame, tableVars
    <2>3. search'.name = n /\ ~search'.archives
        BY <2>1 DEF SearchLibraries
    <2>4. Range(queue') = {}
        BY <2>2 DEF Range
    <2> QED BY <2>1, <2>2, <2>3, <2>4 DEF CollisionInv, IsTentative
<1>4. CASE pc' = pc /\ DoAtom
    <2> DEFINE a == Head(queue)
    <2>1. /\ a \in AllAtoms /\ AddAtom(a) /\ Range(queue) = {a} \cup Range(queue')
        BY <1>4, DoAtomFacts DEF IInv
    <2>2. UNCHANGED <<search, todo, pc>>
        BY <1>4, DoAtomFrame
    <2>3. \A n \in Names \ {a.name} : bound'[n] = bound[n]
        BY <2>1, AddAtomFacts DEF IInv
    <2> HIDE DEF a
    <2>4. todo \subseteq Names
        BY DEF IInv, TypeOK
    <2> QED BY <2>1, <2>2, <2>3, <2>4 DEF CollisionInv, IsTentative
<1>5. CASE pc' = pc /\ SearchHit
    <2>1. PICK i \in Responses : SearchDylib(i) \/ SearchArchive(i)
        BY <1>5 DEF SearchHit
    <2>2. UNCHANGED <<bound, todo, pc>> /\ search # NULL
        BY <1>5, SearchFrame
    <2>3. search.name \notin todo /\ ~search.archives
        BY <2>2 DEF CollisionInv
    <2>4. SearchDylib(i)
        BY <1>5, <2>1, <2>3, SearchArchiveFacts DEF IInv
    <2>5. /\ \A a \in Range(queue') : a \in MadeAtoms /\ a.name = search.name
          /\ search' # NULL => search'.name = search.name /\ search'.archives = search.archives
        BY <1>5, <2>4, SearchDylibFacts DEF IInv
    <2> QED BY <2>2, <2>3, <2>5 DEF CollisionInv, IsTentative
<1>6. CASE pc' = pc /\ SearchMiss
    BY <1>6 DEF SearchMiss, tableVars, loopVars, CollisionInv, IsTentative
<1>7. CASE UNCHANGED vars
    BY <1>7 DEF vars, tableVars, loopVars, CollisionInv, IsTentative
<1> QED BY <1>1, <1>2, <1>3, <1>4, <1>5, <1>6, <1>7, LastSteps

-----------------------------------------------------------------------------
(* What may be undefined has a proxy                                       *)

LEMMA ProxiedSteps ==
    ASSUME IInv, [Next]_vars, pc' \in Proxied
    PROVE  \/ MakeProxies \/ NoStrip \/ Sweep
           \/ StripUndefine \/ StripRoot \/ StripRooted
           \/ MarkRoot \/ MarkLook \/ MarkFound \/ MarkSettled \/ MarkReturn
           \/ MarkDone \/ NextSupport
           \/ pc' = pc /\ (DoAtom \/ SearchHit \/ SearchMiss)
           \/ UNCHANGED vars
<1>1. CASE DoAtom \/ SearchHit \/ SearchMiss
    BY <1>1 DEF DoAtom, SearchHit, SearchMiss
<1>2. ~(\/ DoAtomFails \/ InitialFile \/ InitialFilesDone \/ StartRound
        \/ NextUndefine \/ MakeBoundary \/ UndefinesDone \/ NextTentative
        \/ TentativesDone \/ RoundsDone \/ CheckUndefines \/ NextCollision
        \/ Finish)
    BY DEF DoAtomFails, InitialFile, InitialFilesDone, StartRound,
        NextUndefine, MakeBoundary, UndefinesDone, NextTentative,
        TentativesDone, RoundsDone, CheckUndefines, NextCollision, Finish, Proxied
<1>3. Resolved => UNCHANGED vars
    BY DEF Resolved
<1> QED BY <1>1, <1>2, <1>3 DEF Next

\* A sequence of a set has all its elements.
LEMMA SeqsOnto ==
    ASSUME NEW S, IsFiniteSet(S), NEW s \in SetToSeqs(S)
    PROVE  /\ s \in [1 .. Cardinality(S) -> S]
           /\ \A x \in S : \E j \in DOMAIN s : s[j] = x
<1> DEFINE n == Cardinality(S)
<1>1. s \in [1 .. n -> S] /\ \A i, j \in 1 .. n : i # j => s[i] # s[j]
    BY DEF SetToSeqs
<1>2. n \in Nat
    BY FS_CardinalityType
<1> HIDE DEF n
<1>3. s \in Injection(1 .. n, S)
    BY <1>1 DEF Injection, IsInjective
<1>4. Cardinality(1 .. n) = n
    BY <1>2, FS_Interval
<1>5. s \in Surjection(1 .. n, S)
    BY <1>3, <1>4, FS_Injection DEF n
<1> QED BY <1>1, <1>5 DEF Surjection, n

LEMMA ProxyFacts ==
    ASSUME NEW n \in Names
    PROVE  UndefinedProxyAtom(n) \in MadeAtoms /\ UndefinedProxyAtom(n).name = n
BY MadeFacts DEF UndefinedProxyAtom

\* A made atom makes no slot but that of its own name, which it leaves bound.
LEMMA DoMadeAtom ==
    ASSUME TypeOK, DoAtom, Head(queue) \in MadeAtoms
    PROVE  /\ slots' = slots \cup {Head(queue).name}
           /\ bound'[Head(queue).name] # NULL
           /\ \A n \in Names \ {Head(queue).name} : bound'[n] = bound[n]
           /\ UNCHANGED <<roots, toMark, liveSupport>>
<1> DEFINE a == Head(queue)
<1>1. a \in AllAtoms /\ AddAtom(a) /\ slots' = slots \cup NamesOf(a)
    BY DoAtomFacts
<1>2. RefsOf(a) = {} /\ ~IsRoot(a) /\ ~IsLiveSupport(a)
    BY MadeAtomFacts
<1>3. AddRoot(a) /\ liveSupport' = IF IsLiveSupport(a) THEN Append(liveSupport, a)
                                                       ELSE liveSupport
    BY DoAtomFrame
<1> HIDE DEF a
<1>4. bound'[a.name] # NULL /\ \A n \in Names \ {a.name} : bound'[n] = bound[n]
    BY <1>1, AddAtomFacts
<1> QED BY <1>1, <1>2, <1>3, <1>4 DEF AddRoot, NamesOf, a

\* As long as no member is loaded while marking, all that goes to doAtom then
\* is made by the linker.
LEMMA StepProxies ==
    ASSUME IInv, ProxiesInv, [Next]_vars
    PROVE  ProxiesInv'
<1> SUFFICES ASSUME pc' \in Proxied, ~late', ~input'.undefinedError
             PROVE  /\ Range(queue') \subseteq MadeAtoms
                    /\ UndefinedNames' \subseteq {a.name : a \in Range(queue')}
                    /\ ~Marking' => search' = NULL
    BY DEF ProxiesInv
<1>1. CASE MakeProxies
    <2>1. /\ UNCHANGED <<input, slots, bound>> /\ search' = NULL
        BY <1>1 DEF MakeProxies, Idle, loopFrame, tableVars
    <2>2. PICK names \in SetToSeqs(ToProxy) :
            queue' = [i \in DOMAIN names |-> UndefinedProxyAtom(names[i])]
        BY <1>1 DEF MakeProxies
    <2>3. ToProxy = UndefinedNames /\ ToProxy \subseteq Names
        BY <2>1 DEF ToProxy, UndefinedNames, IInv, TypeOK
    <2>4. /\ names \in [1 .. Cardinality(ToProxy) -> ToProxy]
          /\ \A n \in ToProxy : \E j \in DOMAIN names : names[j] = n
        BY <2>2, <2>3, SlotsFinite, SeqsOnto
    <2>5. /\ DOMAIN queue' = DOMAIN names
          /\ \A j \in DOMAIN queue' : queue'[j] \in MadeAtoms /\ queue'[j].name = names[j]
        BY <2>2, <2>3, <2>4, ProxyFacts
    <2>6. UndefinedNames' = UndefinedNames
        BY <2>1 DEF UndefinedNames
    <2> QED BY <2>1, <2>3, <2>4, <2>5, <2>6 DEF Range
<1>2. CASE pc' = pc /\ DoAtom
    <2> DEFINE a == Head(queue)
    <2>1. Range(queue) = {a} \cup Range(queue') /\ a \in AllAtoms
        BY <1>2, DoAtomFacts DEF IInv
    <2>2. UNCHANGED <<input, late, search, pc>>
        BY <1>2 DEF DoAtom, historyVars
    <2>3. /\ Range(queue) \subseteq MadeAtoms
          /\ UndefinedNames \subseteq {x.name : x \in Range(queue)}
          /\ ~Marking => search = NULL
        BY <2>2 DEF ProxiesInv
    <2>4. /\ slots' = slots \cup {a.name}
          /\ bound'[a.name] # NULL
          /\ \A n \in Names \ {a.name} : bound'[n] = bound[n]
        BY <1>2, <2>1, <2>3, DoMadeAtom DEF IInv
    <2> HIDE DEF a
    <2>5. slots \subseteq Names
        BY DEF IInv, TypeOK
    <2>6. ASSUME NEW n \in UndefinedNames'
          PROVE  \E x \in Range(queue') : x.name = n
        <3>1. n # a.name /\ n \in UndefinedNames
            BY <2>4, <2>5 DEF UndefinedNames
        <3> QED BY <2>1, <2>3, <3>1
    <2> QED BY <2>1, <2>2, <2>3, <2>6 DEF Marking
\* Every other step finds the queue empty, and so nothing undefined.
<1>3. ASSUME pc \in Proxied, UNCHANGED <<input, slots, bound>>, late' = late,
             queue = <<>>
      PROVE  UndefinedNames = {} /\ UndefinedNames' = {} /\ (~Marking => search = NULL)
    <2>1. Range(queue) = {}
        BY <1>3 DEF Range
    <2>2. UndefinedNames = {}
        BY <1>3, <2>1 DEF ProxiesInv
    <2> QED BY <1>3, <2>2 DEF UndefinedNames, ProxiesInv
<1>4. CASE pc' = pc /\ SearchHit
    <2>1. PICK i \in Responses : SearchDylib(i) \/ SearchArchive(i)
        BY <1>4 DEF SearchHit
    <2>2. UNCHANGED <<input, slots, bound, pc>> /\ search # NULL /\ queue = <<>>
        BY <1>4, SearchFrame
    <2>3. ~late
        BY <1>4, <2>1 DEF SearchArchive, SearchDylib, historyVars
    <2>4. Marking
        BY <2>2, <2>3 DEF ProxiesInv
    <2>5. SearchDylib(i)
        BY <2>1, <2>4 DEF SearchArchive, Marking
    <2>6. late' = late /\ Range(queue') \subseteq MadeAtoms
        BY <1>4, <2>5, SearchDylibFacts DEF IInv
    <2> QED BY <1>3, <1>4, <2>2, <2>4, <2>6 DEF Marking
<1>5. CASE pc' = pc /\ SearchMiss
    <2>1. UNCHANGED <<input, slots, bound, late, queue>> /\ queue = <<>> /\ search' = NULL
        BY <1>5 DEF SearchMiss, tableVars, historyVars
    <2>2. Range(queue') = {}
        BY <2>1 DEF Range
    <2> QED BY <1>3, <1>5, <2>1, <2>2
<1>6. CASE NoStrip \/ Sweep \/ StripRoot \/ StripRooted
    <2>1. /\ UNCHANGED <<input, slots, bound, late, queue>> /\ queue = <<>>
          /\ search' = NULL /\ pc \in Proxied
        BY <1>6 DEF NoStrip, Sweep, StripRoot, StripRooted, Idle, tableVars,
            historyVars, loopFrame, Proxied
    <2>2. Range(queue') = {}
        BY <2>1 DEF Range
    <2> QED BY <1>3, <2>1, <2>2
<1>7. CASE StripUndefine
    <2>1. /\ UNCHANGED <<input, slots, bound, late, queue>> /\ queue = <<>>
          /\ search = NULL /\ pc \in Proxied
        BY <1>7 DEF StripUndefine, Idle, tableVars, loopFrame, Proxied
    <2>2. Range(queue') = {}
        BY <2>1 DEF Range
    <2>3. PICK n \in todo : bound[n] # NULL => search' = search
        BY <1>7 DEF StripUndefine
    <2>4. n \in slots
        BY DEF IInv, TypeOK
    <2>5. UndefinedNames = {} /\ UndefinedNames' = {}
        BY <1>3, <2>1
    <2>6. search' = NULL
        BY <2>1, <2>3, <2>4, <2>5 DEF UndefinedNames
    <2> QED BY <2>2, <2>5, <2>6
<1>8. CASE \/ MarkRoot \/ MarkLook \/ MarkFound \/ MarkSettled \/ MarkReturn
           \/ MarkDone \/ NextSupport
    <2>1. UNCHANGED markFrame /\ Idle
        BY <1>8 DEF MarkRoot, MarkLook, MarkFound, MarkSettled, MarkReturn,
            MarkDone, NextSupport
    <2>2. UNCHANGED <<input, slots, bound, late, queue>> /\ queue = <<>>
        BY <2>1 DEF markFrame, tableVars, historyVars, Idle
    <2>3. Marking /\ Marking'
        BY <1>8, TargetFacts DEF MarkRoot, MarkLook, MarkFound, MarkSettled,
            MarkReturn, MarkDone, NextSupport, Marking
    <2>4. Range(queue') = {} /\ pc \in Proxied
        BY <2>2, <2>3 DEF Range, Marking, Proxied
    <2> QED BY <1>3, <2>2, <2>3, <2>4
<1>9. CASE UNCHANGED vars
    BY <1>9 DEF vars, tableVars, historyVars, ProxiesInv, UndefinedNames, Marking
<1> QED
    BY <1>1, <1>2, <1>4, <1>5, <1>6, <1>7, <1>8, <1>9, ProxiedSteps

-----------------------------------------------------------------------------
(* markLive follows the fixups of what it marks                            *)

LEMMA MarkingSteps ==
    ASSUME IInv, [Next]_vars, Marking'
    PROVE  \/ StripRooted
           \/ MarkRoot \/ MarkLook \/ MarkFound \/ MarkSettled \/ MarkReturn
           \/ MarkDone \/ NextSupport
           \/ pc' = pc /\ (DoAtom \/ SearchHit \/ SearchMiss)
           \/ UNCHANGED vars
<1>1. pc' \in Proxied /\ pc' \notin {"strip", "stripRoot", "check"}
    BY DEF Marking, Proxied
<1> QED
    BY <1>1, ProxiedSteps
    DEF MakeProxies, NoStrip, Sweep, StripUndefine, StripRoot

\* A call of markLive is at a fixup of its atom.
LEMMA CallFacts ==
    ASSUME IInv
    PROVE  /\ stack \in Seq(MarkLiveCalls)
           /\ \A j \in DOMAIN stack :
                /\ stack[j].atom \in live /\ stack[j].atom \in AllAtoms
                /\ stack[j].fixup \in Nat \ {0}
           /\ \A a \in live : a \in AllAtoms /\ a.refs \in Seq(Names)
           /\ stack # <<>> =>
                LET n == Len(stack)
                IN  /\ n \in DOMAIN stack
                    /\ \A j \in DOMAIN stack : j <= n /\ j \in Nat
                    /\ Target = stack[n].atom.refs[stack[n].fixup]
                    /\ AtFixup <=> stack[n].fixup <= Len(stack[n].atom.refs)
<1>1. /\ stack \in Seq(MarkLiveCalls)
      /\ \A j \in DOMAIN stack : stack[j].atom \in live
      /\ live \subseteq AllAtoms
    BY DEF IInv, TypeOK
<1>2. \A j \in DOMAIN stack : stack[j] \in MarkLiveCalls
    BY <1>1
<1>3. \A j \in DOMAIN stack : stack[j].fixup \in Nat \ {0}
    BY <1>2 DEF MarkLiveCalls
<1>4. \A a \in live : a \in AllAtoms /\ a.refs \in Seq(Names)
    BY <1>1, AtomFacts
<1>5. stack # <<>> =>
        /\ Len(stack) \in DOMAIN stack
        /\ \A j \in DOMAIN stack : j <= Len(stack) /\ j \in Nat
    BY <1>1
<1> QED BY <1>1, <1>3, <1>4, <1>5 DEF Target, AtFixup, Last

\* A fixup of a, with calls of markLive and marked atoms as given.
Follows(a, k, calls, marked) ==
    \/ bound[a.refs[k]] \in marked \cup {NULL}
    \/ \E j \in DOMAIN calls : calls[j].atom = a /\ calls[j].fixup <= k

\* The new call has all the fixups of its atom before it.
LEMMA FollowedCall ==
    ASSUME IInv, bound' = bound, NEW x \in AllAtoms, NEW callers \in Seq(MarkLiveCalls),
           MarkLive(x, callers),
           \A a \in live : \A k \in DOMAIN a.refs : Follows(a, k, callers, live')
    PROVE  \A a \in live' : \A k \in DOMAIN a.refs : Followed(a, k)'
<1>1. CASE x \in live
    <2>1. live' = live /\ stack' = callers
        BY <1>1 DEF MarkLive
    <2> QED BY <2>1 DEF Followed, Follows
<1>2. CASE x \notin live
    <2> DEFINE new == [atom |-> x, fixup |-> 1]
    <2>1. new \in MarkLiveCalls /\ new.atom = x /\ new.fixup = 1
        BY DEF MarkLiveCalls
    <2>2. live' = live \cup {x} /\ stack' = Append(callers, new)
        BY <1>2 DEF MarkLive
    <2> HIDE DEF new
    <2>3. /\ \A j \in DOMAIN callers : j \in DOMAIN stack' /\ stack'[j] = callers[j]
          /\ \E j \in DOMAIN stack' : stack'[j] = new
        <3>1. Len(callers) + 1 \in DOMAIN stack' /\ stack'[Len(callers) + 1] = new
            BY <2>1, <2>2
        <3>2. \A j \in DOMAIN callers : j \in DOMAIN stack' /\ stack'[j] = callers[j]
            BY <2>1, <2>2
        <3> QED BY <3>1, <3>2
    <2>4. ASSUME NEW a \in live, NEW k \in DOMAIN a.refs
          PROVE  Followed(a, k)'
        BY <2>3 DEF Followed, Follows
    <2>5. ASSUME NEW k \in DOMAIN x.refs
          PROVE  Followed(x, k)'
        <3>1. 1 <= k
            BY AtomFacts
        <3> QED BY <2>1, <2>3, <3>1 DEF Followed
    <2> QED BY <2>2, <2>4, <2>5
<1> QED BY <1>1, <1>2

\* Between two roots, or two live-support atoms, everything is followed up.
LEMMA FollowedFirstCall ==
    ASSUME IInv, bound' = bound, stack = <<>>,
           \A a \in live : \A k \in DOMAIN a.refs : Followed(a, k),
           NEW x \in AllAtoms, MarkLive(x, <<>>)
    PROVE  /\ \A a \in live' : \A k \in DOMAIN a.refs : Followed(a, k)'
           /\ live' = live \cup {x}
<1>1. live' = live \cup {x}
    BY DEF MarkLive
<1>2. \A a \in live : \A k \in DOMAIN a.refs : Follows(a, k, <<>>, live')
    BY <1>1 DEF Followed, Follows
<1>3. <<>> \in Seq(MarkLiveCalls)
    OBVIOUS
<1> QED BY <1>1, <1>2, <1>3, FollowedCall

\* The fixup that the last call was at is followed, the next one is next.
LEMMA MarkSettledFollowed ==
    ASSUME IInv, MarkSettled, \A a \in live : \A k \in DOMAIN a.refs : Followed(a, k)
    PROVE  /\ \A a \in live' : \A k \in DOMAIN a.refs : Followed(a, k)'
           /\ live \subseteq live'
<1> DEFINE callers == [stack EXCEPT ![Len(stack)].fixup = @ + 1]
           last == Len(stack)
<1>1. /\ UNCHANGED markFrame /\ stack # <<>> /\ AtFixup
      /\ IF bound[Target] = NULL THEN stack' = callers /\ live' = live
                                 ELSE MarkLive(bound[Target], callers)
    BY DEF MarkSettled
<1>2. bound' = bound
    BY <1>1 DEF markFrame, tableVars
<1>3. /\ stack \in Seq(MarkLiveCalls)
      /\ last \in DOMAIN stack
      /\ \A j \in DOMAIN stack : stack[j].fixup \in Nat \ {0}
      /\ Target = stack[last].atom.refs[stack[last].fixup]
      /\ Target \in Names
    BY <1>1, CallFacts, TargetFacts
<1>4. /\ callers \in Seq(MarkLiveCalls)
      /\ DOMAIN callers = DOMAIN stack
      /\ \A j \in DOMAIN stack : callers[j].atom = stack[j].atom
      /\ \A j \in DOMAIN stack \ {last} : callers[j] = stack[j]
      /\ callers[last].fixup = stack[last].fixup + 1
    <2> DEFINE next == [stack[last] EXCEPT !.fixup = @ + 1]
    <2>1. stack[last] \in MarkLiveCalls
        BY <1>3
    <2>2. /\ next \in MarkLiveCalls /\ next.atom = stack[last].atom
          /\ next.fixup = stack[last].fixup + 1
        BY <2>1 DEF MarkLiveCalls
    <2>3. callers = [stack EXCEPT ![last] = next]
        OBVIOUS
    <2> HIDE DEF next, callers
    <2>4. callers \in Seq(MarkLiveCalls)
        BY <1>3, <2>2, <2>3
    <2>5. /\ DOMAIN callers = DOMAIN stack
          /\ callers[last] = next
          /\ \A j \in DOMAIN stack \ {last} : callers[j] = stack[j]
        BY <1>3, <2>3
    <2> QED BY <2>2, <2>4, <2>5
<1> HIDE DEF callers
<1>5. live \subseteq live' /\ bound[Target] \in live' \cup {NULL}
    BY <1>1 DEF MarkLive
<1>6. ASSUME NEW a \in live, NEW k \in DOMAIN a.refs
      PROVE  Follows(a, k, callers, live')
    <2>0. k \in Nat
        BY CallFacts
    <2>1. CASE bound[a.refs[k]] \in live \cup {NULL} \/ a.refs[k] = Target
        BY <1>5, <2>1 DEF Follows
    <2>2. ASSUME NEW j \in DOMAIN stack, stack[j].atom = a, stack[j].fixup <= k
          PROVE  Follows(a, k, callers, live')
        <3>1. CASE j # last
            BY <1>4, <2>2, <3>1 DEF Follows
        <3>2. CASE j = last /\ stack[j].fixup = k
            BY <1>3, <1>5, <2>2, <3>2 DEF Follows
        <3>3. CASE j = last /\ stack[j].fixup # k
            <4>1. callers[j].fixup <= k
                BY <1>3, <1>4, <2>0, <2>2, <3>3
            <4> QED BY <1>4, <2>2, <4>1 DEF Follows
        <3> QED BY <3>1, <3>2, <3>3
    <2>3. Followed(a, k)
        OBVIOUS
    <2> QED BY <2>1, <2>2, <2>3 DEF Followed
<1>7. CASE bound[Target] = NULL
    <2>1. stack' = callers /\ live' = live
        BY <1>1, <1>7
    <2> QED BY <1>2, <1>5, <1>6, <2>1 DEF Followed, Follows
<1>8. CASE bound[Target] # NULL
    <2>1. bound[Target] \in AllAtoms
        BY <1>3, <1>8 DEF IInv, TypeOK
    <2> QED BY <1>1, <1>2, <1>4, <1>5, <1>6, <1>8, <2>1, FollowedCall
<1> QED BY <1>7, <1>8

LEMMA MarkReturnFollowed ==
    ASSUME IInv, MarkReturn, \A a \in live : \A k \in DOMAIN a.refs : Followed(a, k)
    PROVE  \A a \in live : \A k \in DOMAIN a.refs : Followed(a, k)'
<1>1. /\ UNCHANGED markFrame /\ live' = live /\ stack # <<>> /\ ~AtFixup
      /\ stack' = SubSeq(stack, 1, Len(stack) - 1)
    BY DEF MarkReturn, Front
<1>2. bound' = bound
    BY <1>1 DEF markFrame, tableVars
<1>3. /\ stack \in Seq(MarkLiveCalls)
      /\ Len(stack) \in DOMAIN stack
      /\ \A j \in DOMAIN stack : stack[j].fixup \in Nat \ {0}
      /\ stack[Len(stack)].fixup > Len(stack[Len(stack)].atom.refs)
    <2>1. /\ stack \in Seq(MarkLiveCalls) /\ Len(stack) \in DOMAIN stack
          /\ \A j \in DOMAIN stack : stack[j].fixup \in Nat \ {0} /\ stack[j].atom \in live
          /\ ~(stack[Len(stack)].fixup <= Len(stack[Len(stack)].atom.refs))
        BY <1>1, CallFacts
    <2>2. Len(stack[Len(stack)].atom.refs) \in Nat
        BY <2>1, CallFacts
    <2> QED BY <2>1, <2>2
<1>4. \A j \in DOMAIN stack : j # Len(stack) => j \in DOMAIN stack' /\ stack'[j] = stack[j]
    BY <1>1, <1>3
<1>5. ASSUME NEW a \in live, NEW k \in DOMAIN a.refs
      PROVE  Followed(a, k)'
    <2>1. k \in Nat /\ Len(a.refs) \in Nat /\ k <= Len(a.refs)
        BY CallFacts
    <2>2. CASE bound[a.refs[k]] \in live \cup {NULL}
        BY <1>1, <1>2, <2>2 DEF Followed
    <2>3. ASSUME NEW j \in DOMAIN stack, stack[j].atom = a, stack[j].fixup <= k
          PROVE  Followed(a, k)'
        <3>1. j # Len(stack)
            BY <1>3, <2>1, <2>3
        <3> QED BY <1>4, <2>3, <3>1 DEF Followed
    <2>4. Followed(a, k)
        OBVIOUS
    <2> QED BY <1>1, <2>2, <2>3, <2>4 DEF Followed
<1> QED BY <1>5

\* The searches made for a fixup bring what a dylib has, unless a member is
\* loaded; doAtom then binds the name that the last call looks at.
LEMMA MarkCallsStep ==
    ASSUME IInv, MarkingInv, Marking, ~late', pc' = pc,
           DoAtom \/ SearchHit \/ SearchMiss
    PROVE  MarkingInv'
<1>1. UNCHANGED <<live, stack, stage, pc, roots, toMark>> /\ ~late
    <2>1. CASE DoAtom
        <3>1. UNCHANGED <<live, stack, stage, pc, late>>
            BY <2>1 DEF DoAtom, historyVars
        <3>2. Head(queue) \in MadeAtoms
            BY <2>1, <3>1, DoAtomFacts DEF MarkingInv, IInv
        <3> QED BY <2>1, <3>1, <3>2, DoMadeAtom DEF IInv
    <2>2. CASE SearchHit \/ SearchMiss
        <3>1. UNCHANGED <<live, stack, stage, pc, roots, toMark>>
            BY <2>2, SearchFrame
        <3>2. ~late
            BY <2>2 DEF SearchHit, SearchArchive, SearchDylib, SearchMiss, historyVars
        <3> QED BY <3>1, <3>2
    <2> QED BY <2>1, <2>2
<1>2. /\ ~Idle => stack # <<>> /\ AtFixup /\ stage # "look"
      /\ search # NULL => search.name = Target
      /\ \A a \in Range(queue) : a \in MadeAtoms /\ a.name = Target
      /\ {a \in atoms : a.dontDeadStrip} \subseteq roots
      /\ roots \subseteq live \cup toMark
      /\ pc = "support" => roots \subseteq live
      /\ \A a \in live : \A k \in DOMAIN a.refs : Followed(a, k)
    BY <1>1 DEF MarkingInv
<1>3. ~Idle
    BY DEF DoAtom, SearchHit, SearchMiss, Idle
<1>4. Target' = Target /\ AtFixup' = AtFixup
    BY <1>1 DEF Target, AtFixup
<1>5. CASE DoAtom
    <2> DEFINE a == Head(queue)
    <2>1. /\ a \in AllAtoms /\ Range(queue) = {a} \cup Range(queue')
        BY <1>5, DoAtomFacts DEF IInv
    <2>2. a \in MadeAtoms /\ a.name = Target
        BY <1>2, <2>1
    <2>3. /\ \A n \in Names \ {a.name} : bound'[n] = bound[n]
          /\ atoms' = atoms \cup {a} /\ search' = search
        BY <1>5, <2>2, DoMadeAtom, DoAtomFrame DEF IInv
    <2>4. ~a.dontDeadStrip
        BY <2>2, MadeAtomFacts
    <2> HIDE DEF a
    <2>5. ASSUME NEW x \in live, NEW k \in DOMAIN x.refs
          PROVE  Followed(x, k)'
        <3>1. x.refs[k] \in Names
            BY CallFacts
        <3>2. Followed(x, k)
            BY <1>2
        <3>3. CASE x.refs[k] = Target
            BY <1>1, <1>2, <1>3, <1>4, <3>3 DEF Followed
        <3>4. CASE x.refs[k] # Target
            <4>1. bound'[x.refs[k]] = bound[x.refs[k]]
                BY <2>2, <2>3, <3>1, <3>4
            <4> QED BY <1>1, <3>2, <3>4, <4>1 DEF Followed
        <3> QED BY <3>3, <3>4
    <2>6. {x \in atoms' : x.dontDeadStrip} \subseteq roots'
        BY <1>1, <1>2, <2>3, <2>4
    <2> QED BY <1>1, <1>2, <1>3, <1>4, <2>1, <2>3, <2>5, <2>6 DEF MarkingInv, Marking
<1>6. CASE SearchHit \/ SearchMiss
    <2>1. bound' = bound /\ atoms' = atoms
        BY <1>6, SearchFrame
    <2>2. \A x \in live : \A k \in DOMAIN x.refs : Followed(x, k)'
        BY <1>1, <1>2, <1>4, <2>1 DEF Followed
    <2>3. /\ search' # NULL => search'.name = Target
          /\ \A a \in Range(queue') : a \in MadeAtoms /\ a.name = Target
        <3>1. CASE SearchMiss
            <4>1. search' = NULL /\ queue' = queue
                BY <3>1 DEF SearchMiss
            <4> QED BY <1>2, <4>1
        <3>2. CASE SearchHit
            <4>1. PICK i \in Responses : SearchDylib(i) \/ SearchArchive(i)
                BY <3>2 DEF SearchHit
            <4>2. ~SearchArchive(i)
                BY DEF SearchArchive, Marking
            <4>3. search # NULL
                BY <3>2, SearchFrame
            <4>4. /\ \A a \in Range(queue') : a \in MadeAtoms /\ a.name = search.name
                  /\ search' # NULL => search'.name = search.name
                BY <3>2, <4>1, <4>2, SearchDylibFacts DEF IInv
            <4> QED BY <1>2, <4>3, <4>4
        <3> QED BY <1>6, <3>1, <3>2
    <2> QED BY <1>1, <1>2, <1>3, <1>4, <2>1, <2>2, <2>3 DEF MarkingInv, Marking
<1> QED BY <1>5, <1>6

LEMMA MarkSteps ==
    ASSUME IInv, MarkingInv, ~late',
           \/ MarkRoot \/ MarkLook \/ MarkFound \/ MarkSettled \/ MarkReturn
           \/ MarkDone \/ NextSupport
    PROVE  MarkingInv'
<1>1. UNCHANGED markFrame /\ Idle
    BY DEF MarkRoot, MarkLook, MarkFound, MarkSettled, MarkReturn, MarkDone, NextSupport
<1>2. UNCHANGED <<bound, atoms, late, queue, roots>> /\ queue = <<>> /\ search = NULL
    BY <1>1 DEF markFrame, tableVars, historyVars, Idle
<1>3. Marking /\ Marking'
    BY TargetFacts DEF MarkRoot, MarkLook, MarkFound, MarkSettled,
        MarkReturn, MarkDone, NextSupport, Marking
<1>4. /\ {a \in atoms : a.dontDeadStrip} \subseteq roots
      /\ roots \subseteq live \cup toMark
      /\ pc = "support" => roots \subseteq live
      /\ \A a \in live : \A k \in DOMAIN a.refs : Followed(a, k)
    BY <1>2, <1>3 DEF MarkingInv
<1>5. Range(queue') = {}
    BY <1>2 DEF Range
<1> SUFFICES /\ ~Idle' => stack' # <<>> /\ AtFixup' /\ stage' # "look"
             /\ search' # NULL => search'.name = Target'
             /\ roots \subseteq live' \cup toMark'
             /\ pc' = "support" => roots \subseteq live'
             /\ \A a \in live' : \A k \in DOMAIN a.refs : Followed(a, k)'
    BY <1>2, <1>3, <1>4, <1>5 DEF MarkingInv
<1>6. search' = NULL => Idle'
    BY <1>2 DEF Idle
<1>7. CASE MarkRoot
    <2>1. PICK r \in toMark : toMark' = toMark \ {r} /\ MarkLive(r, <<>>)
        BY <1>7 DEF MarkRoot
    <2>2. r \in AllAtoms
        BY DEF IInv, TypeOK
    <2>3. stack = <<>> /\ search' = search /\ pc' = pc /\ pc = "mark"
        BY <1>7 DEF MarkRoot
    <2>4. /\ \A a \in live' : \A k \in DOMAIN a.refs : Followed(a, k)'
          /\ live' = live \cup {r}
        BY <1>2, <1>4, <2>1, <2>2, <2>3, FollowedFirstCall
    <2> QED BY <1>2, <1>4, <1>6, <2>1, <2>3, <2>4
<1>8. CASE NextSupport
    <2> DEFINE s == liveSupport[current]
    <2>1. /\ stack = <<>> /\ search' = search /\ pc' = pc /\ toMark' = toMark
          /\ pc = "support" /\ current <= Len(liveSupport)
          /\ MarkLive(s, <<>>) \/ UNCHANGED <<live, stack>>
        BY <1>8 DEF NextSupport
    <2>2. s \in AllAtoms
        <3>1. current \in Nat \ {0} /\ liveSupport \in Seq(Atoms)
            BY <2>1 DEF IInv, TypeOK, PhaseInv
        <3> QED BY <2>1, <3>1 DEF AllAtoms
    <2> HIDE DEF s
    <2>3. CASE MarkLive(s, <<>>)
        <3>1. /\ \A a \in live' : \A k \in DOMAIN a.refs : Followed(a, k)'
              /\ live' = live \cup {s}
            BY <1>2, <1>4, <2>1, <2>2, <2>3, FollowedFirstCall
        <3> QED BY <1>2, <1>4, <1>6, <2>1, <3>1
    <2>4. CASE UNCHANGED <<live, stack>>
        BY <1>2, <1>4, <1>6, <2>1, <2>4 DEF Followed
    <2> QED BY <2>1, <2>3, <2>4
<1>9. CASE MarkLook \/ MarkFound
    <2>1. /\ UNCHANGED <<pc, toMark, live, stack>> /\ stack # <<>> /\ AtFixup
          /\ stage' \in {"found", "settled"}
          /\ SearchUndefined(Target) \/ SearchOverride(Target)
        BY <1>9 DEF MarkLook, MarkFound
    <2>2. Target' = Target /\ AtFixup' = AtFixup
        BY <2>1 DEF Target, AtFixup
    <2>3. search' # NULL => search'.name = Target
        BY <1>2, <2>1, TargetFacts, SearchOpen
    <2>4. \A a \in live' : \A k \in DOMAIN a.refs : Followed(a, k)'
        BY <1>2, <1>4, <2>1, <2>2 DEF Followed
    <2> QED BY <1>4, <2>1, <2>2, <2>3, <2>4
<1>10. CASE MarkSettled
    <2>1. UNCHANGED <<search, pc, toMark>>
        BY <1>10 DEF MarkSettled
    <2> QED BY <1>2, <1>4, <1>6, <1>10, <2>1, MarkSettledFollowed
<1>11. CASE MarkReturn
    <2>1. UNCHANGED <<search, pc, toMark, live>>
        BY <1>11 DEF MarkReturn
    <2> QED BY <1>2, <1>4, <1>6, <1>11, <2>1, MarkReturnFollowed
<1>12. CASE MarkDone
    <2>1. UNCHANGED <<search, toMark, live, stack>> /\ toMark = {}
        BY <1>12 DEF MarkDone
    <2> QED BY <1>2, <1>4, <1>6, <2>1 DEF Followed, Target, AtFixup
<1> QED BY <1>7, <1>8, <1>9, <1>10, <1>11, <1>12

LEMMA StepMarking ==
    ASSUME IInv, MarkingInv, [Next]_vars
    PROVE  MarkingInv'
<1>1. CASE ~Marking'
    <2> SUFFICES ASSUME pc' \notin Swept PROVE live' = {}
        BY <1>1 DEF MarkingInv
    <2>1. ~Marking /\ pc \notin Swept => live = {}
        BY DEF MarkingInv
    <2>2. CASE \/ MarkRoot \/ MarkLook \/ MarkFound \/ MarkSettled \/ MarkReturn
               \/ MarkDone \/ NextSupport
        BY <1>1, <2>2, TargetFacts DEF MarkRoot, MarkLook, MarkFound, MarkSettled,
            MarkReturn, MarkDone, NextSupport, Marking
    <2>3. CASE Sweep \/ Finish \/ NoStrip \/ CheckUndefines \/ NextCollision \/ DoAtomFails
        BY <2>3 DEF Sweep, Finish, NoStrip, CheckUndefines, NextCollision, DoAtomFails, Swept
    <2>4. CASE DoAtom \/ SearchHit \/ SearchMiss
        BY <1>1, <2>1, <2>4 DEF DoAtom, SearchHit, SearchMiss, stripVars, Marking
    <2>5. CASE InitialFile \/ InitialFilesDone \/ StripRoot \/ StripRooted
        BY <2>1, <2>5 DEF InitialFile, InitialFilesDone, StripRoot, StripRooted,
            stripVars, Marking, Swept
    <2>6. CASE \/ StartRound \/ NextUndefine \/ MakeBoundary \/ UndefinesDone
               \/ NextTentative \/ TentativesDone \/ RoundsDone \/ MakeProxies
               \/ StripUndefine
        BY <2>1, <2>6 DEF StartRound, NextUndefine, MakeBoundary, UndefinesDone,
            NextTentative, TentativesDone, RoundsDone, MakeProxies,
            StripUndefine, loopFrame, stripVars, Marking, Swept
    <2>7. CASE Resolved \/ UNCHANGED vars
        BY <1>1, <2>1, <2>7 DEF Resolved, vars, stripVars, Marking
    <2> QED BY <2>2, <2>3, <2>4, <2>5, <2>6, <2>7 DEF Next
<1>2. CASE Marking' /\ ~late'
    <2>1. CASE StripRooted
        <3>1. /\ UNCHANGED <<atoms, queue, search, live, stack>> /\ pc = "strip" /\ pc' = "mark"
              /\ queue = <<>> /\ search = NULL
              /\ roots' = roots \cup {a \in atoms : a.dontDeadStrip}
              /\ toMark' = roots'
            BY <2>1 DEF StripRooted, Idle, tableVars
        <3>2. live' = {} /\ Range(queue') = {} /\ Idle'
            BY <3>1 DEF MarkingInv, Marking, Swept, Range, Idle
        <3> QED BY <3>1, <3>2 DEF MarkingInv, Marking, Idle
    <2>2. CASE pc' = pc /\ (DoAtom \/ SearchHit \/ SearchMiss)
        BY <1>2, <2>2, MarkCallsStep DEF Marking
    <2>3. CASE UNCHANGED vars
        <3>1. UNCHANGED <<pc, late, queue, search, stack, stage, atoms, roots, live,
                          toMark, bound>>
            BY <2>3 DEF vars, tableVars, stripVars, historyVars
        <3>2. /\ Target' = Target /\ AtFixup' = AtFixup /\ Idle' = Idle
              /\ \A a, k : Followed(a, k)' = Followed(a, k)
            BY <3>1 DEF Target, AtFixup, Idle, Followed
        <3> QED BY <3>1, <3>2 DEF MarkingInv, Marking
    <2> QED BY <1>2, <2>1, <2>2, <2>3, MarkSteps, MarkingSteps
<1>3. CASE Marking' /\ late'
    BY <1>3 DEF MarkingInv
<1> QED BY <1>1, <1>2, <1>3

-----------------------------------------------------------------------------
(* What is kept is closed                                                  *)

\* The names of the fixups, one by one.
LEMMA RefFacts ==
    ASSUME NEW a \in AllAtoms
    PROVE  \A n \in RefsOf(a) : n \in Names /\ \E k \in DOMAIN a.refs : n = a.refs[k]
BY AtomFacts DEF RefsOf

LEMMA SweepKept ==
    ASSUME IInv, FreshInv, MarkingInv, Sweep, ~late
    PROVE  /\ atoms' \subseteq live
           /\ \A a \in atoms' : \A n \in RefsOf(a) : bound[n] \in atoms' \cup {NULL}
<1>1. /\ pc = "support" /\ stack = <<>>
      /\ atoms' = {a \in atoms : a \in live \/ a.dontDeadStrip}
    BY DEF Sweep, NotLive
<1>2. /\ {a \in atoms : a.dontDeadStrip} \subseteq live
      /\ \A a \in live : \A k \in DOMAIN a.refs : Followed(a, k)
    BY <1>1 DEF MarkingInv, Marking
<1>3. atoms' = atoms \cap live
    BY <1>1, <1>2
<1>4. live \subseteq atoms \cup coalesced /\ atoms \subseteq AllAtoms
    BY DEF IInv, TypeOK
<1>5. ASSUME NEW a \in atoms', NEW n \in RefsOf(a), bound[n] # NULL
      PROVE  bound[n] \in atoms'
    <2>1. PICK k \in DOMAIN a.refs : n = a.refs[k]
        BY <1>3, <1>4, RefFacts
    <2>2. n \in Names
        BY <1>3, <1>4, RefFacts
    <2>3. bound[n] \in live
        BY <1>1, <1>2, <1>3, <1>5, <2>1 DEF Followed
    <2>4. bound[n] \in BoundAtoms
        BY <1>5, <2>2, BoundFacts DEF IInv
    <2>5. bound[n] \notin coalesced
        BY <2>4 DEF FreshInv
    <2> QED BY <1>3, <1>4, <2>3, <2>5
<1> QED BY <1>3, <1>5

LEMMA NoStripKept ==
    ASSUME IInv, FreshInv, NoStrip
    PROVE  \A a \in atoms : \A n \in RefsOf(a) : bound[n] \in atoms \cup {NULL}
<1>1. pc \notin Swept
    BY DEF NoStrip, Swept
<1>2. BoundAtoms \subseteq atoms
    BY <1>1 DEF IInv, SeenInv, FreshInv
<1>3. \A a \in atoms : \A n \in RefsOf(a) : n \in Names
    BY RefFacts DEF IInv, TypeOK
<1> QED BY <1>2, <1>3, BoundFacts DEF IInv

\* Without an error, all that is kept refers to is bound.
LEMMA CheckedKept ==
    ASSUME IInv, ProxiesInv, KeptInv, CheckUndefines, pc' = "collisions", ~late
    PROVE  \A a \in atoms : \A n \in RefsOf(a) : bound[n] # NULL
<1>1. pc = "check" /\ queue = <<>> /\ (Unresolvable = {} \/ ~input.undefinedError)
    BY DEF CheckUndefines, Idle
<1>2. \A a \in atoms : RefsOf(a) \subseteq slots
    BY DEF IInv, SeenInv
<1>3. CASE ~input.undefinedError
    <2>1. Range(queue) = {}
        BY <1>1 DEF Range
    <2>2. UndefinedNames = {}
        BY <1>1, <1>3, <2>1 DEF ProxiesInv, Proxied
    <2> QED BY <1>2, <2>2 DEF UndefinedNames
<1>4. CASE Unresolvable = {} /\ ~input.deadCodeStrip
    <2>1. UndefinedNames = {}
        BY <1>4 DEF Unresolvable
    <2> QED BY <1>2, <2>1 DEF UndefinedNames
<1>5. CASE Unresolvable = {} /\ input.deadCodeStrip
    <2>1. LiveUndefines = {}
        BY <1>5 DEF Unresolvable
    <2>2. atoms \subseteq live
        BY <1>1, <1>5 DEF KeptInv
    <2> QED BY <1>2, <2>1, <2>2 DEF LiveUndefines
<1> QED BY <1>1, <1>3, <1>4, <1>5

LEMMA StepKept ==
    ASSUME IInv, SInv, [Next]_vars
    PROVE  KeptInv'
<1> SUFFICES ASSUME pc' \in {"check", "collisions", "done"}, ~late'
             PROVE  KeptInv'
    BY DEF KeptInv
<1> USE DEF SInv
<1>1. CASE NoStrip
    <2>1. /\ UNCHANGED <<input, bound, atoms>> /\ pc' = "check" /\ Idle'
          /\ ~input.deadCodeStrip
        BY <1>1 DEF NoStrip, Idle, loopFrame, tableVars
    <2> QED BY <1>1, <2>1, NoStripKept DEF KeptInv
<1>2. CASE Sweep
    <2>1. /\ UNCHANGED <<input, bound, live, late>> /\ pc' = "check" /\ Idle'
        BY <1>2 DEF Sweep, Idle, stripVars, historyVars
    <2> QED BY <1>2, <2>1, SweepKept DEF KeptInv
<1>3. CASE CheckUndefines
    <2>1. /\ UNCHANGED <<input, bound, atoms, late>> /\ pc = "check" /\ pc' = "collisions"
        BY <1>3 DEF CheckUndefines, loopFrame, tableVars
    <2>2. \A a \in atoms : \A n \in RefsOf(a) : bound[n] # NULL
        BY <1>3, <2>1, CheckedKept
    <2> QED BY <2>1, <2>2 DEF KeptInv
<1>4. CASE NextCollision
    <2>1. /\ UNCHANGED <<input, bound, atoms, late, pc>> /\ pc = "collisions"
        BY <1>4 DEF NextCollision, loopFrame, tableVars
    <2> QED BY <2>1 DEF KeptInv
<1>5. CASE Finish
    <2>1. /\ UNCHANGED <<input, bound, late>> /\ pc = "collisions" /\ pc' = "done"
          /\ atoms' = atoms \ coalesced /\ Idle'
        BY <1>5 DEF Finish, Idle, historyVars
    <2>2. \A a \in atoms : \A n \in RefsOf(a) : n \in Names
        BY RefFacts DEF IInv, TypeOK
    <2>3. \A a \in atoms : \A n \in RefsOf(a) : bound[n] \in atoms /\ bound[n] # NULL
        BY <2>1 DEF KeptInv
    <2>4. \A a \in atoms : \A n \in RefsOf(a) : bound[n] \notin coalesced
        BY <2>2, <2>3, BoundFacts DEF IInv, FreshInv
    <2> QED BY <2>1, <2>3, <2>4 DEF KeptInv
<1>6. CASE pc' = pc /\ DoAtom
    <2> DEFINE a == Head(queue)
    <2>1. /\ a \in AllAtoms /\ AddAtom(a) /\ Range(queue) = {a} \cup Range(queue')
        BY <1>6, DoAtomFacts DEF IInv
    <2>2. /\ atoms' = atoms \cup {a} /\ input' = input /\ late' = late /\ ~Idle
        BY <1>6 DEF DoAtom, historyVars, Idle
    <2>3. pc = "collisions"
        BY <1>6, <2>2 DEF KeptInv
    <2>4. /\ \A n \in Names \ {a.name} : bound'[n] = bound[n]
          /\ bound'[a.name] \in {a, bound[a.name]} /\ bound'[a.name] # NULL
        BY <2>1, AddAtomFacts DEF IInv
    <2>5. RefsOf(a) = {}
        BY <2>1, <2>3, MadeAtomFacts DEF CollisionInv
    <2> HIDE DEF a
    <2>6. \A x \in atoms : \A n \in RefsOf(x) : n \in Names
        BY RefFacts DEF IInv, TypeOK
    <2>7. \A x \in atoms : \A n \in RefsOf(x) : bound[n] \in atoms /\ bound[n] # NULL
        BY <2>2, <2>3 DEF KeptInv
    <2>8. \A x \in atoms : \A n \in RefsOf(x) : bound'[n] \in atoms' /\ bound'[n] # NULL
        BY <2>2, <2>4, <2>6, <2>7
    <2> QED BY <1>6, <2>2, <2>3, <2>5, <2>8 DEF KeptInv
<1>7. CASE pc' = pc /\ (SearchHit \/ SearchMiss)
    <2>1. UNCHANGED <<input, bound, atoms>> /\ search # NULL
        BY <1>7, SearchFrame
    <2>2. ~late
        BY <1>7 DEF SearchHit, SearchArchive, SearchDylib, SearchMiss, historyVars
    <2>3. pc = "collisions"
        BY <1>7, <2>1, <2>2 DEF KeptInv, Idle
    <2> QED BY <1>7, <2>1, <2>2, <2>3 DEF KeptInv
<1>8. CASE UNCHANGED vars
    BY <1>8 DEF vars, tableVars, stripVars, historyVars, KeptInv, Idle
<1> QED BY <1>1, <1>2, <1>3, <1>4, <1>5, <1>6, <1>7, <1>8, LastSteps

-----------------------------------------------------------------------------
(* What is live is needed                                                  *)

\* A set that keeps the roots alive after a step does so before it, if the
\* step binds no name but the one that a search was made for.
LEMMA KeepsBefore ==
    ASSUME NEW S \in SUBSET AllAtoms, KeepsAlive(S, Names \ Moving)',
           UNCHANGED <<roots, liveSupport>>, live \subseteq live',
           \A n \in Names \ Moving :
               bound[n] = NULL \/ (n \notin Moving' /\ bound'[n] = bound[n])
    PROVE  KeepsAlive(S, Names \ Moving)
<1> DEFINE before == Names \ Moving
<1>1. /\ roots' \subseteq S
      /\ \A a \in S, n \in Names \ Moving' :
            n \in RefsOf(a) /\ bound'[n] # NULL => bound'[n] \in S
      /\ \A a \in Range(liveSupport') \cap live' :
            (\E n \in RefsOf(a) \cap (Names \ Moving') : bound'[n] \in S) => a \in S
    BY DEF KeepsAlive
<1>2. NULL \notin S
    BY AtomsAssumption
<1>3. \A a \in S, n \in before : n \in RefsOf(a) /\ bound[n] # NULL => bound[n] \in S
    BY <1>1
<1>4. ASSUME NEW a \in Range(liveSupport) \cap live,
             NEW n \in RefsOf(a) \cap before, bound[n] \in S
      PROVE  a \in S
    <2>1. n \notin Moving' /\ bound'[n] = bound[n]
        BY <1>2, <1>4
    <2> QED BY <1>1, <1>4, <2>1
<1> QED BY <1>1, <1>3, <1>4 DEF KeepsAlive

\* What a call of markLive marks is in every such set.
LEMMA MarkLiveReach ==
    ASSUME NEW x, NEW callers, NEW S, MarkLive(x, callers), live \subseteq S, x \in S
    PROVE  live' \subseteq S
BY DEF MarkLive

LEMMA LastAtom ==
    ASSUME IInv, stack # <<>>, AtFixup
    PROVE  \E a \in live : Target \in RefsOf(a)
<1> DEFINE call == stack[Len(stack)]
<1>1. /\ Len(stack) \in DOMAIN stack
      /\ Target = call.atom.refs[call.fixup]
      /\ call.fixup <= Len(call.atom.refs)
    BY CallFacts
<1>2. call.atom \in live /\ call.fixup \in Nat \ {0}
    BY <1>1, CallFacts
<1>3. call.atom.refs \in Seq(Names)
    BY <1>2, CallFacts
<1> HIDE DEF call
<1>4. call.fixup \in DOMAIN call.atom.refs
    BY <1>1, <1>2, <1>3
<1> QED BY <1>1, <1>2, <1>4 DEF RefsOf

\* The steps of markLive and of its caller.
LEMMA MarkReach ==
    ASSUME IInv, ReachInv, ~late', input.commonsMode # "overriddenByDylibs",
           \/ MarkRoot \/ MarkLook \/ MarkFound \/ MarkSettled \/ MarkReturn
           \/ MarkDone \/ NextSupport \/ Sweep,
           NEW S \in SUBSET AllAtoms, KeepsAlive(S, Names \ Moving)'
    PROVE  live' \subseteq S
<1>1. /\ UNCHANGED <<bound, late, queue, roots, liveSupport>>
      /\ queue = <<>> /\ search = NULL /\ Idle
    BY DEF MarkRoot, MarkLook, MarkFound, MarkSettled, MarkReturn, MarkDone,
        NextSupport, Sweep, markFrame, tableVars, historyVars, Idle, stripVars
<1>2. Marking
    BY TargetFacts DEF MarkRoot, MarkLook, MarkFound, MarkSettled,
        MarkReturn, MarkDone, NextSupport, Sweep, Marking
<1>3. Moving = {}
    BY <1>1 DEF Moving
<1>4. live \subseteq live'
    BY DEF MarkRoot, MarkLook, MarkFound, MarkSettled, MarkReturn, MarkDone,
        NextSupport, Sweep, MarkLive, stripVars
<1>5. \A n \in Names : bound[n] = NULL \/ n \notin Moving'
    <2>1. CASE MarkLook
        <3>1. SearchUndefined(Target) /\ UNCHANGED stack
            BY <2>1 DEF MarkLook
        <3>2. Target' = Target
            BY <3>1 DEF Target
        <3>3. bound[Target] = NULL \/ Idle'
            BY <1>1, <3>1 DEF SearchUndefined, Idle
        <3> QED BY <3>2, <3>3 DEF Moving
    <2>2. CASE MarkFound \/ MarkSettled
        BY <2>2 DEF MarkFound, MarkSettled, Moving
    <2>3. CASE MarkRoot \/ MarkReturn \/ MarkDone \/ NextSupport \/ Sweep
        BY <1>1, <2>3
        DEF MarkRoot, MarkReturn, MarkDone, NextSupport, Sweep, Moving, Idle
    <2> QED BY <2>1, <2>2, <2>3
<1>6. KeepsAlive(S, Names \ Moving)
    BY <1>1, <1>3, <1>4, <1>5, KeepsBefore
<1>7. live \subseteq S
    BY <1>1, <1>2, <1>6 DEF ReachInv
<1>8. /\ roots \subseteq S
      /\ \A a \in S, n \in Names : n \in RefsOf(a) /\ bound[n] # NULL => bound[n] \in S
    BY <1>3, <1>6 DEF KeepsAlive
<1>9. CASE live' = live
    BY <1>7, <1>9
<1>10. CASE MarkRoot
    <2>1. PICK r \in toMark : MarkLive(r, <<>>)
        BY <1>10 DEF MarkRoot
    <2>2. r \in S
        BY <1>8 DEF IInv, TypeOK
    <2> QED BY <1>7, <2>1, <2>2, MarkLiveReach
<1>11. CASE MarkSettled
    <2>1. /\ stack # <<>> /\ AtFixup
          /\ live' = live \/ (bound[Target] # NULL /\ \E callers : MarkLive(bound[Target], callers))
        BY <1>11 DEF MarkSettled
    <2>2. Target \in Names /\ \E a \in live : Target \in RefsOf(a)
        BY <2>1, TargetFacts, LastAtom
    <2>3. bound[Target] # NULL => bound[Target] \in S
        BY <1>7, <1>8, <2>2
    <2> QED BY <1>7, <2>1, <2>3, MarkLiveReach
<1>12. CASE NextSupport /\ live' # live
    <2> DEFINE s == liveSupport[current]
    <2>1. /\ RefersToLive(s) /\ MarkLive(s, <<>>) /\ current <= Len(liveSupport)
          /\ pc = "support"
        BY <1>12 DEF NextSupport
    <2>2. s \in Range(liveSupport) /\ s \in AllAtoms
        <3>1. current \in Nat \ {0} /\ liveSupport \in Seq(Atoms)
            BY <2>1 DEF IInv, TypeOK, PhaseInv
        <3>2. current \in DOMAIN liveSupport
            BY <2>1, <3>1
        <3> QED BY <3>1, <3>2 DEF AllAtoms, Range
    <2> HIDE DEF s
    <2>3. s \in live'
        BY <2>1 DEF MarkLive
    <2>4. PICK n \in RefsOf(s) : bound[n] \in live
        BY <2>1 DEF RefersToLive
    <2>5. n \in Names /\ n \notin Moving'
        <3>1. Moving' = {}
            BY <1>1, <1>12 DEF NextSupport, Moving, Idle
        <3> QED BY <2>2, <3>1, RefFacts
    <2>6. \A a \in Range(liveSupport') \cap live' :
            (\E m \in RefsOf(a) \cap (Names \ Moving') : bound'[m] \in S) => a \in S
        BY DEF KeepsAlive
    <2>7. s \in S
        BY <1>1, <1>7, <2>2, <2>3, <2>4, <2>5, <2>6
    <2> QED BY <1>7, <2>1, <2>7, MarkLiveReach
<1>13. CASE MarkLook \/ MarkFound \/ MarkReturn \/ MarkDone \/ Sweep
    <2>1. live' = live
        BY <1>13 DEF MarkLook, MarkFound, MarkReturn, MarkDone, Sweep, stripVars
    <2> QED BY <1>9, <2>1
<1> QED BY <1>9, <1>10, <1>11, <1>12, <1>13

\* While a search is made for a fixup, only its name is bound.
LEMMA MarkCallsReach ==
    ASSUME IInv, MarkingInv, ReachInv, Marking, ~late', pc' = pc,
           input.commonsMode # "overriddenByDylibs",
           DoAtom \/ SearchHit \/ SearchMiss
    PROVE  /\ stage = "settled" => queue' = <<>> /\ search' = NULL
           /\ \A S \in SUBSET AllAtoms :
                KeepsAlive(S, Names \ Moving)' => live' \subseteq S
<1>1. ~late
    BY DEF DoAtom, SearchHit, SearchArchive, SearchDylib, SearchMiss, historyVars
<1>2. /\ ~Idle => stack # <<>> /\ AtFixup /\ stage # "look"
      /\ \A a \in Range(queue) : a \in MadeAtoms /\ a.name = Target
      /\ stage = "settled" => queue = <<>> /\ (search # NULL => ~search.dylibs)
    BY <1>1 DEF MarkingInv, ReachInv
<1>3. ~Idle
    BY DEF DoAtom, SearchHit, SearchMiss, Idle
<1>4. UNCHANGED <<live, stack, stage, roots, liveSupport>>
    <2>1. CASE DoAtom
        <3>1. UNCHANGED <<live, stack, stage>>
            BY <2>1 DEF DoAtom
        <3>2. Head(queue) \in MadeAtoms
            BY <1>2, <2>1, DoAtomFacts DEF IInv
        <3> QED BY <2>1, <3>1, <3>2, DoMadeAtom DEF IInv
    <2>2. CASE SearchHit \/ SearchMiss
        BY <2>2, SearchFrame
    <2> QED BY <2>1, <2>2
<1>5. Target' = Target
    BY <1>4 DEF Target
<1>6. stage = "settled" => queue' = <<>> /\ search' = NULL
    <2>1. CASE SearchHit
        <3>1. PICK i \in Responses : SearchDylib(i) \/ SearchArchive(i)
            BY <2>1 DEF SearchHit
        <3>2. SearchDylib(i)
            BY <3>1 DEF SearchArchive, Marking
        <3>3. search.dylibs
            BY <2>1, <3>2, SearchDylibFacts DEF IInv
        <3> QED BY <1>2, <2>1, <3>3, SearchFrame
    <2>2. CASE DoAtom \/ SearchMiss
        BY <1>2, <2>2 DEF DoAtom, SearchMiss
    <2> QED BY <2>1, <2>2
<1>7. ASSUME NEW n \in Names \ Moving
      PROVE  n \notin Moving' /\ bound'[n] = bound[n]
    <2>1. CASE stage = "settled"
        <3>1. ~DoAtom
            BY <1>2, <2>1 DEF DoAtom
        <3> QED BY <1>4, <2>1, <3>1, SearchFrame DEF Moving
    <2>2. CASE stage = "found"
        <3>1. n # Target
            BY <1>3, <2>2 DEF Moving
        <3>2. n \notin Moving'
            BY <1>5, <3>1 DEF Moving
        <3>3. CASE DoAtom
            <4>1. Head(queue) \in MadeAtoms /\ Head(queue).name = Target
                BY <1>2, <3>3, DoAtomFacts DEF IInv
            <4> QED BY <3>1, <3>2, <3>3, <4>1, DoMadeAtom DEF IInv
        <3>4. CASE SearchHit \/ SearchMiss
            BY <3>2, <3>4, SearchFrame
        <3> QED BY <3>3, <3>4
    <2>3. stage \in {"found", "settled"}
        BY <1>2, <1>3 DEF IInv, TypeOK
    <2> QED BY <2>1, <2>2, <2>3
<1>8. ASSUME NEW S \in SUBSET AllAtoms, KeepsAlive(S, Names \ Moving)'
      PROVE  live' \subseteq S
    <2>1. KeepsAlive(S, Names \ Moving)
        BY <1>4, <1>7, <1>8, KeepsBefore
    <2> QED BY <1>1, <1>4, <2>1 DEF ReachInv
<1> QED BY <1>6, <1>8

LEMMA StepReach ==
    ASSUME IInv, SInv, [Next]_vars
    PROVE  ReachInv'
<1> SUFFICES ASSUME ~late', input'.commonsMode # "overriddenByDylibs",
                    Marking' \/ pc' = "check"
             PROVE  /\ Marking' /\ stage' = "settled" =>
                        queue' = <<>> /\ (search' # NULL => ~search'.dylibs)
                    /\ \A S \in SUBSET AllAtoms :
                        KeepsAlive(S, Names \ Moving)' => live' \subseteq S
    BY DEF ReachInv
<1> USE DEF SInv
<1>1. CASE StripRooted \/ NoStrip
    <2>1. /\ UNCHANGED <<live, queue, search>> /\ queue = <<>> /\ search = NULL
          /\ pc = "strip"
        BY <1>1 DEF StripRooted, NoStrip, Idle, loopFrame, stripVars
    <2>2. live' = {}
        BY <2>1 DEF MarkingInv, Marking, Swept
    <2> QED BY <2>1, <2>2
<1>2. CASE \/ MarkRoot \/ MarkLook \/ MarkFound \/ MarkSettled \/ MarkReturn
           \/ MarkDone \/ NextSupport \/ Sweep
    <2>1. input' = input /\ queue' = <<>> /\ search = NULL
        BY <1>2 DEF MarkRoot, MarkLook, MarkFound, MarkSettled, MarkReturn, MarkDone,
            NextSupport, Sweep, markFrame, Idle
    <2>2. stage' = "settled" /\ search' # NULL => ~search'.dylibs
        <3>1. CASE MarkFound
            <4>1. input.commonsMode # "overriddenByDylibs"
                BY <2>1
            <4>2. search' = NULL \/ SearchLibraries(Target, FALSE, TRUE, TRUE)
                BY <2>1, <3>1, <4>1 DEF MarkFound, SearchOverride
            <4> QED BY <4>2 DEF SearchLibraries
        <3>2. CASE MarkLook \/ MarkSettled
            BY <3>2 DEF MarkLook, MarkSettled
        <3>3. CASE MarkRoot \/ MarkReturn \/ MarkDone \/ NextSupport \/ Sweep
            BY <2>1, <3>3 DEF MarkRoot, MarkReturn, MarkDone, NextSupport, Sweep
        <3> QED BY <1>2, <3>1, <3>2, <3>3
    <2> QED BY <1>2, <2>1, <2>2, MarkReach
<1>3. CASE pc' = pc /\ (DoAtom \/ SearchHit \/ SearchMiss)
    <2>1. ~Idle /\ ~late
        <3>1. ~Idle
            BY <1>3 DEF DoAtom, SearchHit, SearchMiss, Idle
        <3>2. ~late
            BY <1>3 DEF DoAtom, SearchHit, SearchArchive, SearchDylib, SearchMiss,
                historyVars
        <3> QED BY <3>1, <3>2
    <2>2. input' = input /\ stage' = stage
        BY <1>3, SearchFrame DEF DoAtom
    <2>3. Marking
        BY <1>3, <2>1 DEF KeptInv, Marking
    <2> QED BY <1>3, <2>1, <2>2, <2>3, MarkCallsReach
<1>4. CASE UNCHANGED vars
    <2>1. UNCHANGED <<input, pc, late, queue, search, stack, stage, roots, live,
                      liveSupport, bound>>
        BY <1>4 DEF vars, tableVars, stripVars, historyVars
    <2>2. Moving' = Moving /\ Marking' = Marking
        BY <2>1 DEF Moving, Marking, Idle, Target
    <2>3. ASSUME NEW S \in SUBSET AllAtoms, KeepsAlive(S, Names \ Moving)'
          PROVE  live' \subseteq S
        <3>1. KeepsAlive(S, Names \ Moving)
            BY <2>1, <2>2, <2>3, KeepsBefore
        <3> QED BY <2>1, <2>2, <3>1 DEF ReachInv
    <2> QED BY <2>1, <2>2, <2>3 DEF ReachInv
<1>5. \/ StripRooted \/ NoStrip \/ Sweep
      \/ MarkRoot \/ MarkLook \/ MarkFound \/ MarkSettled \/ MarkReturn
      \/ MarkDone \/ NextSupport
      \/ pc' = pc /\ (DoAtom \/ SearchHit \/ SearchMiss)
      \/ UNCHANGED vars
    <2>1. CASE Marking'
        BY <2>1, MarkingSteps
    <2>2. CASE pc' = "check"
        <3>1. ~(CheckUndefines \/ NextCollision \/ Finish)
            BY <2>2 DEF CheckUndefines, NextCollision, Finish
        <3> QED BY <2>2, <3>1, LastSteps
    <2> QED BY <2>1, <2>2
<1> QED BY <1>1, <1>2, <1>3, <1>4, <1>5

-----------------------------------------------------------------------------
(* The second invariant holds throughout a link                            *)

LEMMA InitKept == Init => SInv
<1> SUFFICES ASSUME Init PROVE SInv
    OBVIOUS
<1>1. /\ bound = [n \in Names |-> NULL] /\ coalesced = {} /\ queue = <<>>
      /\ search = NULL /\ pc = "initial" /\ live = {} /\ pulled = <<>>
    BY DEF Init
<1>2. BoundAtoms = {} /\ Range(queue) = {} /\ DOMAIN queue = {} /\ Pulled = {}
    BY <1>1 DEF BoundAtoms, Range, Pulled
<1>3. FreshInv
    BY <1>1, <1>2 DEF FreshInv
<1>4. CollisionInv /\ MarkingInv /\ ProxiesInv /\ KeptInv /\ ReachInv
    BY <1>1 DEF CollisionInv, MarkingInv, ProxiesInv, KeptInv, ReachInv, Marking, Proxied
<1> QED BY <1>3, <1>4 DEF SInv

LEMMA StepSecond == IInv /\ SInv /\ [Next]_vars => SInv'
BY StepFresh, StepCollision, StepMarking, StepProxies, StepKept, StepReach DEF SInv

LEMMA SecondInvariance == Spec => []SInv
BY InitKept, StepSecond, Invariance, PTL DEF Spec

\* What is linked is closed under references, if no archive member was loaded
\* while atoms were marked: every name that an atom of the image refers to is
\* bound to an atom that Resolver::deadStripOptimize and
\* removeCoalescedAwayAtoms have left in the image.
THEOREM KeptIsClosed == Spec => []KeptClosedUnlessLate
<1>1. SInv => KeptClosedUnlessLate
    <2> SUFFICES ASSUME KeptInv, ~late, pc = "done",
                        NEW a \in atoms, NEW n \in RefsOf(a)
                 PROVE  bound[n] \in atoms
        BY DEF SInv, KeptClosedUnlessLate, KeptClosed
    <2> QED BY DEF KeptInv
<1> QED BY <1>1, SecondInvariance, PTL

\* Resolver::markLive marks nothing that is not needed: when the sweep of
\* deadStripOptimize is over, what is live is the least set that keeps the
\* roots alive.
THEOREM NothingKeptUnneeded == Spec => []NothingUnreachable
<1>1. IInv /\ SInv => NothingUnreachable
    <2> SUFFICES ASSUME IInv, ReachInv, pc = "check", ~late,
                        input.commonsMode # "overriddenByDylibs",
                        NEW S \in SUBSET live, KeepsAlive(S, Names)
                 PROVE  S = live
        BY DEF SInv, NothingUnreachable
    <2>1. live \subseteq AllAtoms
        BY DEF IInv, TypeOK
    <2>2. Names \ Moving = Names
        BY DEF Moving, Marking
    <2>3. KeepsAlive(S, Names \ Moving)
        BY <2>2
    <2> QED BY <2>1, <2>3 DEF ReachInv
<1> QED BY <1>1, Invariance, SecondInvariance, PTL
=============================================================================
