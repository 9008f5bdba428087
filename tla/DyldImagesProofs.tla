-------------------------- MODULE DyldImagesProofs --------------------------
(* Proofs about DyldImages, for any images, dependencies and binders, when *)
(* termination routines call nothing of dyld but dlclose.                  *)
EXTENDS DyldImages, TLAPS

-----------------------------------------------------------------------------
(* The inductive invariant                                                 *)

\* What markedUsedRecursive goes to from an image.
Succ(i) == (leads[i] \cap Deps[i]) \cup {j \in Images : <<i, j>> \in refs}

\* A set with all that is open and what it leads to.
Closed(S) == Roots \subseteq S /\ \A i \in S : Succ(i) \subseteq S

\* The images that were linked, whose load has not failed.
Linked == {i \in loaded : Deps[i] \subseteq leads[i]}

\* A mark phase has passed and the deletion is still to come.
Collecting == gc \in {"terminate", "in terminator", "finalize"}

\* dyld counts the handles that clients hold, of loaded images only.
Counted == \A i \in Images : count[i] = handles[i] /\ (count[i] # 0 => i \in loaded)

\* Pointers and references are of loaded images and lead to loaded images, and
\* the mark phase can follow every pointer.
Followed ==
    /\ Main \in loaded
    /\ refs \subseteq loaded \X loaded
    /\ \A i \in Images \ loaded : leads[i] = {}
    /\ \A i \in loaded : leads[i] \subseteq loaded
    /\ \A i \in loaded : \A j \in leads[i] : j = i \/ j \in Deps[i] \/ <<i, j>> \in refs

\* Between collections everything is linked and in use.
Settled == gc = "none" => loaded \subseteq Linked /\ loaded \subseteq InUse

\* What a failed dlopen has left is not reached from what is open.
Separate == gc = "mark" => Closed(Linked)

\* The marks of a collection stay closed; they are those of a new mark phase
\* unless the collection will run again.
Marks ==
    Collecting =>
        /\ marked \subseteq Linked /\ Closed(marked)
        /\ redo \/ marked \subseteq InUse

\* A dead image that still needs termination has its turn to come.
Terminators ==
    /\ ending \subseteq loaded
    /\ Collecting => ending \subseteq marked \cup dead
    /\ ~(gc \in {"terminate", "in terminator"}) => dead = {}

IInv == /\ TypeOK /\ Counted /\ Followed
        /\ Settled /\ Separate /\ Marks /\ Terminators

-----------------------------------------------------------------------------
(* Reachability                                                            *)

\* What is in use is closed, and is the least such set.
LEMMA InUseClosed ==
    ASSUME TypeOK
    PROVE  InUse \subseteq Images /\ Closed(InUse)
BY DEF InUse, Closure, Closed, Succ, Roots, TypeOK

LEMMA InUseLeast ==
    ASSUME NEW S \in SUBSET Images, Closed(S)
    PROVE  InUse \subseteq S
BY DEF InUse, Closure, Closed, Succ

\* Needs(i) has i and the dependents of its members, and nothing more.
LEMMA NeedsClosed ==
    ASSUME NEW i \in Images
    PROVE  /\ Needs(i) \subseteq Images /\ i \in Needs(i)
           /\ \A j \in Needs(i) : Deps[j] \subseteq Needs(i)
BY ImagesAssumption DEF Needs, Closure

LEMMA NeedsLeast ==
    ASSUME NEW i \in Images, NEW S \in SUBSET Images, i \in S, \A j \in S : Deps[j] \subseteq S
    PROVE  Needs(i) \subseteq S
BY DEF Needs, Closure

-----------------------------------------------------------------------------
(* Counts                                                                  *)

LEMMA CountType ==
    ASSUME TypeOK, NEW i \in Images
    PROVE  /\ count[i] \in Nat /\ count[i] <= MaxHandles
           /\ handles[i] \in Nat /\ handles[i] <= MaxHandles
<1>1. count[i] \in 0..MaxHandles /\ handles[i] \in 0..MaxHandles
    BY DEF TypeOK
<1>2. MaxHandles \in Nat
    BY ImagesAssumption
<1> QED BY <1>1, <1>2

-----------------------------------------------------------------------------
(* The initial state                                                       *)

LEMMA InitInv == Init => IInv
<1> SUFFICES ASSUME Init PROVE IInv
    OBVIOUS
<1> USE ImagesAssumption
<1>n. /\ Needs(Main) \subseteq Images /\ Main \in Needs(Main)
      /\ \A j \in Needs(Main) : Deps[j] \subseteq Needs(Main)
    BY NeedsClosed
<1>l. \A i \in Needs(Main) : leads[i] = Deps[i]
    BY <1>n DEF Init
<1>1. TypeOK
    <2>1. leads \in [Images -> SUBSET Images]
        BY DEF Init
    <2>2. count \in [Images -> 0..MaxHandles] /\ handles \in [Images -> 0..MaxHandles]
        BY DEF Init
    <2> QED BY <1>n, <2>1, <2>2 DEF Init, TypeOK
<1>2. Counted
    BY DEF Init, Counted
<1>3. Followed
    BY <1>n DEF Init, Followed
<1>4. loaded \subseteq Linked
    BY <1>n, <1>l DEF Init, Linked
<1>5. loaded \subseteq InUse
    <2> SUFFICES ASSUME NEW S \in SUBSET Images, Closed(S)
                 PROVE  Needs(Main) \subseteq S
        BY <1>n DEF Init, InUse, Closure, Closed, Succ
    <2> DEFINE T == S \cap Needs(Main)
    <2>1. Main \in T
        BY <1>n DEF Closed, Roots, Init
    <2>2. \A j \in T : Deps[j] \subseteq T
        BY <1>n, <1>l DEF Closed, Succ
    <2>3. T \in SUBSET Images
        OBVIOUS
    <2> HIDE DEF T
    <2>4. Needs(Main) \subseteq T
        BY <2>1, <2>2, <2>3, NeedsLeast
    <2> QED BY <2>4 DEF T
<1>6. Separate /\ Marks /\ Terminators
    BY <1>n DEF Init, Separate, Marks, Terminators, Collecting
<1> QED BY <1>1, <1>2, <1>3, <1>4, <1>5, <1>6 DEF IInv, Settled
-----------------------------------------------------------------------------
(* The collector                                                           *)

LEMMA MarkStep ==
    ASSUME IInv, Mark
    PROVE  IInv'
<1> USE DEF IInv
<1>1. InUse \subseteq Images /\ Closed(InUse)
    BY InUseClosed
<1>2. InUse \subseteq Linked
    BY InUseLeast DEF Mark, Separate, Linked, TypeOK
<1>3. Linked' = Linked /\ InUse' = InUse /\ (Closed(InUse) => Closed(marked)')
    BY DEF Mark, Linked, InUse, Closure, Roots, Closed, Succ
<1>4. TypeOK'
    BY <1>1 DEF Mark, TypeOK
<1>5. Counted' /\ Followed'
    BY DEF Mark, Counted, Followed
<1>6. Marks' /\ Settled' /\ Separate'
    BY <1>1, <1>2, <1>3 DEF Mark, Marks, Settled, Separate
<1>7. Terminators'
    BY DEF Mark, Terminators
<1> QED BY <1>4, <1>5, <1>6, <1>7

LEMMA TerminatorsStep ==
    ASSUME IInv, Terminate \/ Return \/ Finalize
    PROVE  IInv'
<1> USE DEF IInv, Terminate, Return, Finalize
<1>1. Linked' = Linked /\ InUse' = InUse /\ (Closed(marked) => Closed(marked)')
    BY DEF Linked, InUse, Closure, Roots, Closed, Succ
<1>2. Collecting /\ Collecting'
    BY DEF Collecting
<1>3. TypeOK'
    BY DEF TypeOK
<1>4. Counted' /\ Followed'
    BY DEF Counted, Followed
<1>5. Marks' /\ Settled' /\ Separate'
    BY <1>1, <1>2 DEF Marks, Settled, Separate, Collecting
<1>6. Terminators'
    BY <1>2 DEF Terminators
<1> QED BY <1>3, <1>4, <1>5, <1>6

LEMMA DeleteStep ==
    ASSUME IInv, Delete
    PROVE  IInv'
<1> USE DEF IInv
<1> DEFINE gone == loaded \ marked
<1>0. Collecting /\ marked \subseteq loaded /\ Closed(marked) /\ marked \subseteq Linked
    BY DEF Delete, Collecting, Marks, Linked
<1>1. /\ loaded' = marked /\ dead' = dead /\ ending' = ending /\ handles' = handles
      /\ refs' = {r \in refs : r[1] \notin gone /\ r[2] \notin gone}
      /\ \A i \in Images : leads'[i] = IF i \in gone THEN {} ELSE leads[i]
      /\ \A i \in Images : count'[i] = IF i \in gone THEN 0 ELSE count[i]
      /\ gc' = IF redo THEN "mark" ELSE "none"
      /\ redo' = redo /\ marked' = {}
    BY <1>0 DEF Delete
<1>t. marked \subseteq Images
    BY <1>0 DEF TypeOK
\* Nothing that is deleted is open, or led to by what stays.
<1>2. \A i \in gone : count[i] = 0 /\ i # Main
    BY <1>0 DEF Closed, Roots
<1>3. \A i \in marked : leads[i] \subseteq marked /\ \A j : <<i, j>> \in refs => j \in marked
    BY <1>0, <1>t DEF Closed, Succ, Followed, TypeOK
<1>4. ending \subseteq marked
    BY <1>0 DEF Delete, Terminators, Collecting
<1>5. TypeOK'
    <2>1. leads' \in [Images -> SUBSET Images] /\ count' \in [Images -> 0..MaxHandles]
        BY ImagesAssumption DEF Delete, TypeOK
    <2> QED BY <1>1, <1>4, <1>t, <2>1 DEF TypeOK, Terminators, Delete
<1>6. Counted'
    BY <1>1, <1>2 DEF Counted
<1>7. Followed'
    <2>1. Main \in loaded' /\ refs' \subseteq loaded' \X loaded'
        BY <1>1, <1>2, <1>3 DEF Followed
    <2>2. \A i \in Images \ loaded' : leads'[i] = {}
        BY <1>1 DEF Followed
    <2>3. \A i \in loaded' : leads'[i] = leads[i] /\ leads[i] \subseteq loaded'
        BY <1>1, <1>3, <1>t
    <2>4. \A i \in loaded' : \A j \in loaded' : <<i, j>> \in refs => <<i, j>> \in refs'
        BY <1>1
    <2> QED BY <1>0, <1>1, <2>1, <2>2, <2>3, <2>4 DEF Followed
<1>8. loaded' \subseteq Linked'
    BY <1>0, <1>1, <1>t DEF Linked
\* The new images in use are those of the mark phase, unless it runs again.
<1>9. ASSUME ~redo PROVE loaded' \subseteq InUse'
    <2> SUFFICES ASSUME NEW S \in SUBSET Images, Closed(S)'
                 PROVE  marked \subseteq S
        BY <1>1, <1>t DEF InUse, Closure, Closed, Succ
    <2> DEFINE T == S \cap marked
    <2>1. T \in SUBSET Images
        OBVIOUS
    <2>2. Roots \subseteq T
        BY <1>0, <1>1, <1>t DEF Closed, Roots
    <2>3. ASSUME NEW i \in T PROVE Succ(i) \subseteq T
        <3>1. leads'[i] = leads[i] /\ \A j : <<i, j>> \in refs => <<i, j>> \in refs'
            BY <1>1, <1>3, <1>t
        <3>2. Succ(i) \subseteq Succ(i)'
            BY <3>1 DEF Succ
        <3> QED BY <1>0, <3>2 DEF Closed
    <2>4. InUse \subseteq T
        BY <2>1, <2>2, <2>3, InUseLeast DEF Closed
    <2> QED BY <1>0, <1>9, <2>4 DEF Marks
<1>10. Settled' /\ Separate'
    <2>1. Closed(Linked)'
        BY <1>0, <1>1, <1>8, <1>t, <1>7 DEF Closed, Linked, Roots, Succ, Followed
    <2> QED BY <1>1, <1>8, <1>9, <2>1 DEF Settled, Separate
<1>11. Marks' /\ Terminators'
    BY <1>1, <1>4 DEF Marks, Terminators, Collecting, Delete
<1> QED BY <1>5, <1>6, <1>7, <1>10, <1>11
-----------------------------------------------------------------------------
(* The calls of clients                                                    *)

LEMMA DlcloseStep ==
    ASSUME IInv, NEW i \in Images, Dlclose(i)
    PROVE  IInv'
<1> USE DEF IInv
<1>0. i \in loaded /\ count[i] > 0 /\ count[i] = handles[i] /\ count[i] \in Nat
    <2>1. handles[i] > 0 /\ handles[i] \in Nat
        BY CountType DEF Dlclose
    <2> QED BY <2>1 DEF Counted
<1>1. /\ count' = [count EXCEPT ![i] = @ - 1] /\ handles' = [handles EXCEPT ![i] = @ - 1]
      /\ IF count[i] = 1 THEN Collect ELSE UNCHANGED <<gc, redo>>
      /\ UNCHANGED <<loaded, leads, refs, ending, marked, dead>>
    BY <1>0 DEF Dlclose
<1>2. \/ gc = "none" /\ gc' = "mark" /\ redo' = redo /\ count[i] = 1
      \/ gc # "none" /\ gc' = gc /\ redo' = TRUE /\ count[i] = 1
      \/ gc' = gc /\ redo' = redo /\ count[i] # 1
    BY <1>0, <1>1 DEF Collect
<1>3. gc \in {"none", "in terminator", "finalize"}
    BY DEF Dlclose, MayCall
<1>4. TypeOK'
    <2>1. count' \in [Images -> 0..MaxHandles] /\ handles' \in [Images -> 0..MaxHandles]
        <3>1. count[i] - 1 \in 0..MaxHandles /\ handles[i] - 1 \in 0..MaxHandles
            <4>1. MaxHandles \in Nat
                BY ImagesAssumption
            <4> QED BY <1>0, <4>1, CountType
        <3> QED BY <1>1, <3>1 DEF TypeOK
    <2> QED BY <1>1, <1>2, <2>1 DEF TypeOK
<1>5. Counted' /\ Followed'
    BY <1>0, <1>1 DEF Counted, Followed, TypeOK
\* Nothing becomes a root, and what was one stays one unless it is closed for good.
<1>6. /\ Roots' \subseteq Roots /\ (count[i] # 1 => Roots' = Roots)
      /\ Linked' = Linked
      /\ \A S : Closed(S) => Closed(S)'
    <2>1. \A j \in Images : count'[j] = IF j = i THEN count[j] - 1 ELSE count[j]
        BY <1>1 DEF TypeOK
    <2>2. Roots' \subseteq Roots /\ (count[i] # 1 => Roots' = Roots)
        <3>1. \A j \in Images : /\ count'[j] # 0 => count[j] # 0
                                /\ count[i] # 1 => (count'[j] # 0 <=> count[j] # 0)
            BY <1>0, <2>1
        <3>2. loaded \subseteq Images
            BY DEF TypeOK
        <3> QED BY <1>1, <3>1, <3>2 DEF Roots
    <2>3. \A j : Succ(j)' = Succ(j)
        BY <1>1 DEF Succ
    <2>4. \A S : Closed(S) => Closed(S)'
        BY <2>2, <2>3 DEF Closed
    <2> QED BY <1>1, <2>2, <2>4 DEF Linked
<1>7. count[i] # 1 => InUse' = InUse
    BY <1>1, <1>6 DEF InUse, Closure
<1>8. Settled'
    BY <1>1, <1>2, <1>6, <1>7 DEF Settled
<1>9. Separate'
    <2>1. gc = "none" => Closed(Linked)
        BY DEF Settled, Linked, Closed, Roots, Succ, Followed
    <2> QED BY <1>2, <1>3, <1>6, <2>1 DEF Separate
<1>10. Marks'
    BY <1>1, <1>2, <1>3, <1>6, <1>7 DEF Marks, Collecting
<1>11. Terminators'
    BY <1>1, <1>2, <1>3 DEF Terminators, Collecting
<1> QED BY <1>4, <1>5, <1>8, <1>9, <1>10, <1>11

LEMMA LazyBindStep ==
    ASSUME InTerminators \subseteq {"dlclose"}, IInv, NEW i \in Images, LazyBind(i)
    PROVE  IInv'
<1> USE DEF IInv
<1>1. PICK j \in loaded : /\ leads' = [leads EXCEPT ![i] = @ \cup {j}]
                          /\ refs' = refs \cup DynamicReferences(i, {j})
    BY DEF LazyBind
<1>2. /\ gc = "none" /\ i \in loaded
      /\ UNCHANGED <<loaded, count, handles, ending, marked, gc, dead, redo>>
    BY DEF LazyBind, MayCall, collector
<1>3. /\ refs \subseteq refs' /\ refs' \subseteq refs \cup {<<i, j>>}
      /\ j = i \/ j \in Deps[i] \/ <<i, j>> \in refs'
    BY <1>1 DEF DynamicReferences
<1>4. \A m \in Images : leads'[m] = IF m = i THEN leads[m] \cup {j} ELSE leads[m]
    BY <1>1 DEF TypeOK
<1>5. TypeOK'
    <2>1. j \in Images
        BY DEF TypeOK
    <2>2. leads' \in [Images -> SUBSET Images] /\ refs' \subseteq Images \X Images
        <3>1. leads' \in [Images -> SUBSET Images]
            BY <1>1, <2>1 DEF TypeOK
        <3>2. <<i, j>> \in Images \X Images /\ refs \subseteq Images \X Images
            BY <2>1 DEF TypeOK
        <3> QED BY <1>3, <3>1, <3>2
    <2> QED BY <1>2, <2>2 DEF TypeOK
<1>6. Counted'
    BY <1>2 DEF Counted
<1>7. Followed'
    <2>1. refs' \subseteq loaded' \X loaded' /\ Main \in loaded'
        <3>1. <<i, j>> \in loaded \X loaded
            BY <1>2
        <3> QED BY <1>2, <1>3, <3>1 DEF Followed
    <2>2. \A m \in Images \ loaded' : leads'[m] = {}
        BY <1>2, <1>4 DEF Followed
    <2>3. \A m \in loaded' : leads'[m] \subseteq loaded'
        BY <1>2, <1>4 DEF Followed, TypeOK
    <2>4. \A m \in loaded' : \A n \in leads'[m] : n = m \/ n \in Deps[m] \/ <<m, n>> \in refs'
        <3> SUFFICES ASSUME NEW m \in loaded, NEW n \in leads'[m]
                     PROVE  n = m \/ n \in Deps[m] \/ <<m, n>> \in refs'
            BY <1>2
        <3>1. n \in leads[m] \/ (m = i /\ n = j)
            BY <1>4 DEF TypeOK
        <3>2. ASSUME n \in leads[m] PROVE n = m \/ n \in Deps[m] \/ <<m, n>> \in refs
            BY <3>2 DEF Followed
        <3> QED BY <1>3, <3>1, <3>2
    <2> QED BY <2>1, <2>2, <2>3, <2>4 DEF Followed
<1>8. Settled'
    <2>1. loaded \subseteq Linked'
        BY <1>2, <1>4 DEF Settled, Linked, TypeOK
    <2>2. \A S \in SUBSET Images : Closed(S)' => Closed(S)
        BY <1>2, <1>3, <1>4 DEF Closed, Roots, Succ, TypeOK
    <2>3. InUse \subseteq InUse'
        BY <2>2 DEF InUse, Closure, Closed, Succ
    <2> QED BY <1>2, <2>1, <2>3 DEF Settled
<1>9. Separate' /\ Marks' /\ Terminators'
    BY <1>2 DEF Separate, Marks, Terminators, Collecting
<1> QED BY <1>5, <1>6, <1>7, <1>8, <1>9

\* What recursiveBind leaves of images that were missing: they are linked, and
\* every pointer is followed.
LEMMA BindStep ==
    ASSUME IInv, gc = "none", NEW i \in Images, AddImages(Missing(i)), Bind(Missing(i))
    PROVE  /\ loaded' = loaded \cup Missing(i) /\ marked' = marked
           /\ leads' \in [Images -> SUBSET Images] /\ refs' \subseteq Images \X Images
           /\ Followed' /\ loaded' \subseteq Linked'
           /\ refs \subseteq refs' /\ \A j \in loaded : leads'[j] = leads[j]
           /\ \A j \in Missing(i) : Deps[j] \subseteq leads'[j]
<1> USE DEF IInv
<1> DEFINE new == Missing(i)
<1>n. /\ \A j \in Needs(i) : Deps[j] \subseteq Needs(i)
      /\ new \subseteq Images /\ new \cap loaded = {}
    BY NeedsClosed DEF Missing
<1>1. loaded' = loaded \cup new /\ marked' = marked
    BY DEF AddImages
<1>2. PICK targets \in [new \cap Binders -> SUBSET (loaded \cup new)] :
          /\ leads' = [j \in Images |-> IF j \in new
                           THEN Deps[j] \cup (IF j \in Binders THEN targets[j] ELSE {}) ELSE leads[j]]
          /\ refs' = refs \cup UNION {DynamicReferences(j, IF j \in Binders THEN targets[j] ELSE {}) :
                                        j \in new}
    BY DEF Bind
<1>3. \A j \in loaded : leads'[j] = leads[j]
    BY <1>2, <1>n DEF TypeOK
<1>4. ASSUME NEW j \in new
      PROVE  /\ Deps[j] \subseteq leads'[j] /\ leads'[j] \subseteq loaded \cup new
             /\ \A m \in leads'[j] : m = j \/ m \in Deps[j] \/ <<j, m>> \in refs'
    <2>1. leads'[j] = Deps[j] \cup (IF j \in Binders THEN targets[j] ELSE {})
        BY <1>2, <1>n
    <2>2. Deps[j] \subseteq loaded \cup new
        BY <1>n DEF Missing
    <2>3. \A m \in leads'[j] : m = j \/ m \in Deps[j] \/ <<j, m>> \in refs'
        BY <1>2, <2>1 DEF DynamicReferences
    <2> QED BY <1>2, <2>1, <2>2, <2>3
<1>5. \A r \in refs' : r \in refs \/ \E j \in new, m \in loaded \cup new : r = <<j, m>>
    BY <1>2 DEF DynamicReferences
<1>6. leads' \in [Images -> SUBSET Images]
    <2>1. \A j \in Images : leads'[j] \subseteq Images
        BY <1>2, <1>4, <1>n DEF TypeOK
    <2> QED BY <1>2, <2>1
<1>7. refs' \subseteq Images \X Images
    <2>1. \A j \in new, m \in loaded \cup new : <<j, m>> \in Images \X Images
        BY <1>n DEF TypeOK
    <2>2. refs \subseteq Images \X Images
        BY DEF TypeOK
    <2> QED BY <1>5, <2>1, <2>2
<1>8. Followed'
    <2>1. refs \subseteq refs'
        BY <1>2
    <2>2. refs' \subseteq loaded' \X loaded'
        BY <1>1, <1>5 DEF Followed
    <2>3. \A j \in Images \ loaded' : leads'[j] = {}
        BY <1>1, <1>2 DEF Followed
    <2> QED BY <1>1, <1>3, <1>4, <2>1, <2>2, <2>3 DEF Followed
<1>9. loaded' \subseteq Linked'
    BY <1>1, <1>3, <1>4 DEF Settled, Linked
<1> QED BY <1>1, <1>2, <1>3, <1>4, <1>6, <1>7, <1>8, <1>9

\* dlopen links what it adds with what was there: all that is missing is reached
\* from the image that is opened.
LEMMA DlopenStep ==
    ASSUME InTerminators \subseteq {"dlclose"}, IInv, NEW i \in Images, Dlopen(i)
    PROVE  IInv'
<1> USE DEF IInv
<1> DEFINE new == Missing(i)
<1>n. /\ Needs(i) \subseteq Images /\ i \in Needs(i)
      /\ \A j \in Needs(i) : Deps[j] \subseteq Needs(i)
      /\ new \subseteq Images /\ new \cap loaded = {}
    BY NeedsClosed DEF Missing
<1>0. gc = "none" /\ AddImages(new) /\ Bind(new)
    BY DEF Dlopen, MayCall, Load
<1>1. /\ gc = "none" /\ handles[i] < MaxHandles
      /\ loaded' = loaded \cup new /\ ending' = ending \cup new
      /\ count' = [count EXCEPT ![i] = @ + 1] /\ handles' = [handles EXCEPT ![i] = @ + 1]
      /\ UNCHANGED <<marked, gc, dead, redo>>
    BY <1>0 DEF Dlopen, Load, AddImages, collector
<1>2. /\ leads' \in [Images -> SUBSET Images] /\ refs' \subseteq Images \X Images
      /\ Followed' /\ loaded' \subseteq Linked'
      /\ refs \subseteq refs' /\ \A j \in loaded : leads'[j] = leads[j]
      /\ \A j \in new : Deps[j] \subseteq leads'[j]
    BY <1>0, BindStep
<1>6. TypeOK'
    <2>1. count' \in [Images -> 0..MaxHandles] /\ handles' \in [Images -> 0..MaxHandles]
        BY <1>1, ImagesAssumption DEF TypeOK, Counted
    <2> QED BY <1>1, <1>2, <1>n, <2>1 DEF TypeOK
<1>7. Counted'
    BY <1>1, <1>n DEF Counted, TypeOK, Missing
<1>10. loaded' \subseteq InUse'
    <2> SUFFICES ASSUME NEW S \in SUBSET Images, Closed(S)'
                 PROVE  loaded \cup new \subseteq S
        BY <1>1, <1>n DEF InUse, Closure, Closed, Succ, TypeOK
    <2>1. refs \subseteq refs' /\ \A j \in Images : leads[j] \subseteq leads'[j]
        BY <1>2 DEF Followed
    <2>2. Closed(S)
        <3>1. Roots \subseteq Roots'
            BY <1>1 DEF Roots, TypeOK
        <3>2. \A j \in S : Succ(j) \subseteq Succ(j)'
            BY <2>1 DEF Succ
        <3> QED BY <3>1, <3>2 DEF Closed
    <2>3. loaded \subseteq S
        BY <1>1, <2>2, InUseLeast DEF Settled
    <2>4. i \in S
        BY <1>1, <1>n DEF Closed, Roots, Missing, TypeOK
    <2> DEFINE T == S \cap (loaded \cup Needs(i))
    <2>5. T \in SUBSET Images /\ i \in T
        BY <1>n, <2>4
    <2>6. ASSUME NEW j \in T PROVE Deps[j] \subseteq T
        <3>1. CASE j \in loaded
            BY <1>1, <2>3, <3>1 DEF Settled, Linked, Followed
        <3>2. CASE j \in new
            <4>1. Deps[j] \subseteq Needs(i)
                BY <1>n, <3>2 DEF Missing
            <4>2. Deps[j] \subseteq Succ(j)'
                BY <1>2, <3>2 DEF Succ
            <4> QED BY <4>1, <4>2 DEF Closed
        <3> QED BY <3>1, <3>2 DEF Missing
    <2> HIDE DEF T
    <2>7. Needs(i) \subseteq T
        BY <2>5, <2>6, NeedsLeast
    <2> QED BY <2>3, <2>7 DEF T, Missing
<1>11. Settled' /\ Separate' /\ Marks' /\ Terminators'
    BY <1>1, <1>2, <1>10 DEF Settled, Separate, Marks, Terminators, Collecting
<1> QED BY <1>1, <1>2, <1>6, <1>7, <1>11

\* A failed dlopen leaves images that nothing leads to: without pointers, or
\* linked with what was there.
LEMMA DlopenFailsStep ==
    ASSUME IInv, NEW i \in Images, DlopenFails(i)
    PROVE  IInv'
<1> USE DEF IInv
<1>1. /\ gc = "none" /\ gc' = "mark" /\ redo' = redo
      /\ UNCHANGED <<count, handles, ending, dead>>
    BY DEF DlopenFails, Collect
<1>2. /\ loaded \subseteq loaded' /\ loaded' \subseteq Images /\ marked' = marked
      /\ leads' \in [Images -> SUBSET Images] /\ refs' \subseteq Images \X Images
      /\ Followed' /\ Closed(Linked)'
    <2>1. CASE NotBound(i)
        <3>1. /\ loaded' = loaded \cup Missing(i) /\ marked' = marked
              /\ leads' \in [Images -> SUBSET Images] /\ refs' \subseteq Images \X Images
              /\ Followed' /\ loaded' \subseteq Linked'
            BY <1>1, <2>1, BindStep DEF NotBound
        <3>2. loaded' \subseteq Images
            BY <3>1, NeedsClosed DEF Missing, TypeOK
        <3>3. Closed(Linked)'
            BY <3>1 DEF Closed, Linked, Roots, Succ, Followed
        <3> QED BY <3>1, <3>2, <3>3
    <2>2. CASE NotFound(i)
        <3>1. PICK new \in SUBSET Missing(i) : AddImages(new)
            BY <2>2 DEF NotFound
        <3>2. /\ loaded' = loaded \cup new /\ marked' = marked
              /\ UNCHANGED <<count, leads, refs>>
            BY <1>1, <2>2, <3>1 DEF NotFound, AddImages
        <3>3. new \subseteq Images /\ new \cap loaded = {}
            BY NeedsClosed DEF Missing
        <3>4. Followed'
            BY <3>2, <3>3 DEF Followed
        <3>5. loaded \subseteq Linked' /\ \A j \in Linked' \ loaded : Succ(j)' = {}
            BY <1>1, <3>2, <3>3 DEF Settled, Linked, Succ, Followed, TypeOK
        <3>6. Roots' \subseteq loaded
            BY <3>2, <3>3 DEF Roots, Counted, Followed
        <3>7. \A j \in loaded : Succ(j)' \subseteq loaded
            BY <3>2 DEF Succ, Followed
        <3> QED BY <3>2, <3>3, <3>4, <3>5, <3>6, <3>7 DEF Closed, TypeOK
    <2> QED BY <2>1, <2>2 DEF DlopenFails
<1>3. TypeOK'
    BY <1>1, <1>2 DEF TypeOK, Terminators
<1>4. Counted'
    BY <1>1, <1>2 DEF Counted
<1>5. Settled' /\ Separate' /\ Marks' /\ Terminators'
    BY <1>1, <1>2 DEF Settled, Separate, Marks, Terminators, Collecting
<1> QED BY <1>2, <1>3, <1>4, <1>5

-----------------------------------------------------------------------------
(* The theorems                                                            *)

LEMMA IInvHolds ==
    ASSUME InTerminators \subseteq {"dlclose"}
    PROVE  Spec => []IInv
<1>1. ASSUME IInv, [Next]_vars PROVE IInv'
    <2>1. CASE UNCHANGED vars
        <3>1. /\ Linked' = Linked /\ InUse' = InUse /\ Collecting' = Collecting
              /\ \A S : Closed(S)' <=> Closed(S)
            BY <2>1 DEF vars, Collecting, Linked, Closed, Succ, InUse, Closure, Roots
        <3>2. TypeOK' /\ Counted' /\ Followed'
            BY <1>1, <2>1 DEF vars, IInv, TypeOK, Counted, Followed
        <3>3. UNCHANGED <<loaded, ending, marked, gc, dead, redo>>
            BY <2>1 DEF vars
        <3>4. Settled' /\ Separate' /\ Marks' /\ Terminators'
            BY <1>1, <3>1, <3>3 DEF IInv, Settled, Separate, Marks, Terminators
        <3> QED BY <3>2, <3>4 DEF IInv
    <2>2. CASE Next
        BY <1>1, <2>2, MarkStep, TerminatorsStep, DeleteStep, DlcloseStep, LazyBindStep,
           DlopenStep, DlopenFailsStep DEF Next
    <2> QED BY <1>1, <2>1, <2>2
<1> QED BY <1>1, InitInv, PTL DEF Spec

(* Only what is loaded is collected, and dyld's counts stay in their range. *)
THEOREM TypeCorrect ==
    ASSUME InTerminators \subseteq {"dlclose"}
    PROVE  Spec => []TypeOK
<1>1. IInv => TypeOK
    BY DEF IInv
<1> QED BY <1>1, IInvHolds, PTL

(* An image that a client has open is loaded and counted right: a          *)
(* collection, and what terminators close meanwhile, never unloads it,     *)
(* whatever the images depend on and bind to.                              *)
THEOREM HandlesHold ==
    ASSUME InTerminators \subseteq {"dlclose"}
    PROVE  Spec => []HandleMeansLoaded
<1>1. IInv => HandleMeansLoaded
    <2> SUFFICES ASSUME IInv, NEW i \in Images, handles[i] > 0
                 PROVE  i \in loaded /\ count[i] = handles[i]
        BY DEF HandleMeansLoaded
    <2>1. handles[i] # 0
        BY CountType DEF IInv
    <2> QED BY <2>1 DEF IInv, Counted
<1> QED BY <1>1, IInvHolds, PTL

(* No pointer is left to an image that was deleted: markedUsedRecursive,   *)
(* with the references that binding has noted, follows every pointer.      *)
THEOREM PointersHold ==
    ASSUME InTerminators \subseteq {"dlclose"}
    PROVE  Spec => []NothingDangles
<1>1. IInv => NothingDangles
    BY DEF IInv, Followed, NothingDangles
<1> QED BY <1>1, IInvHolds, PTL

(* When no collection is under way, each image is open or reached from one *)
(* that is: garbageCollectImages runs again for what terminators close.    *)
THEOREM CollectedAll ==
    ASSUME InTerminators \subseteq {"dlclose"}
    PROVE  Spec => []NoGarbage
<1>1. IInv => NoGarbage
    BY DEF IInv, Settled, NoGarbage
<1> QED BY <1>1, IInvHolds, PTL

(* An image whose terminator has still to run is not deleted.              *)
THEOREM TerminatorRunsFirst ==
    ASSUME InTerminators \subseteq {"dlclose"}
    PROVE  Spec => []TerminatedFirst
<1>1. IInv => TerminatedFirst
    BY DEF IInv, Terminators, TerminatedFirst
<1> QED BY <1>1, IInvHolds, PTL
=============================================================================
