----------------------------- MODULE DyldImages -----------------------------
(* The images of a process in dyld: dlopen, dlclose, the references that   *)
(* binding adds, and garbageCollectImages, whose termination routines call *)
(* back into dyld while the collection is under way.                       *)
(*                                                                         *)
(* Everything here runs under dyld's global lock, so the only interleaving *)
(* is that of a collection with the calls its terminators make.  Loading   *)
(* and linking of one dlopen are one step.  Its initializers run after     *)
(* dlopen has released the lock; they are taken as part of that step, since *)
(* the image counts as open from before its linking on.  sAllImages and    *)
(* deadImages are sets here: their order is that of loading, no property   *)
(* depends on it, and a collection runs its terminators in any order.      *)
EXTENDS Naturals

CONSTANTS
    Images,         \* the main executable and the dylibs
    Main,           \* the main executable, which is never unloaded
    Deps,           \* [Images -> SUBSET Images], the dylibs an image links with
    Binders,        \* images that bind by flat lookup or to weak definitions
    InTerminators,  \* the calls terminators make: "dlclose", "dlopen", "bind"
    MaxHandles      \* bound: handles of one image at a time

ASSUME ImagesAssumption ==
    /\ Main \in Images /\ Binders \subseteq Images
    /\ Deps \in [Images -> SUBSET Images] /\ MaxHandles \in Nat
    /\ InTerminators \subseteq {"dlclose", "dlopen", "bind"}

VARIABLES
    loaded,     \* sAllImages
    count,      \* fDlopenReferenceCount
    handles,    \* the handles clients hold, dlopen less dlclose
    leads,      \* [Images -> the images its pointers lead to]
    refs,       \* sDynamicReferences, a set of pairs
    ending,     \* sImageFilesNeedingTermination
    marked,     \* the images whose fMarkedInUse is set
    gc,         \* "none", or where garbageCollectImages is
    dead,       \* the deadImages that the loop over them has not come to
    redo        \* sRedo

vars == <<loaded, count, handles, leads, refs, ending, marked, gc, dead, redo>>
collector == <<gc, dead, redo>>

\* The least set that has the images of R and what Step leads to.
Closure(R, Step(_)) ==
    {i \in Images : \A S \in SUBSET Images :
        (R \subseteq S /\ \A j \in S : Step(j) \subseteq S) => i \in S}

\* Every image recursiveLoadLibraries loads for a root.
Needs(i) == Closure({i}, LAMBDA j : Deps[j])

Init ==
    /\ loaded = Needs(Main)
    /\ count = [i \in Images |-> 0] /\ handles = [i \in Images |-> 0]
    /\ leads = [i \in Images |-> IF i \in Needs(Main) THEN Deps[i] ELSE {}]
    /\ refs = {} /\ ending = Needs(Main) /\ marked = {}
    /\ gc = "none" /\ dead = {} /\ redo = FALSE

\* A client calls dyld outside a collection, in a terminator the collection runs,
\* or in a destructor __cxa_finalize_ranges runs.
MayCall(call) ==
    gc = "none" \/ (gc \in {"in terminator", "finalize"} /\ call \in InTerminators)

\* Mistake: a terminator's dlclose does not have the collection run again.
CollectOnce == gc' = (IF gc = "none" THEN "mark" ELSE gc) /\ UNCHANGED redo

\* garbageCollectImages is called; it does not nest.
Collect == IF gc = "none" THEN gc' = "mark" /\ UNCHANGED redo ELSE redo' = TRUE /\ UNCHANGED gc

(***************************************************************************)
(* Binding.  A pointer bound by flat lookup or coalesced with a weak       *)
(* definition leads to an image that need not be a dependent one, and      *)
(* addDynamicReference notes it unless it is.                              *)
(***************************************************************************)

DynamicReferences(i, targets) == {<<i, j>> : j \in targets \ (Deps[i] \cup {i})}

\* A lazy pointer is bound on its first use.
LazyBind(i) ==
    /\ MayCall("bind") /\ i \in Binders \cap loaded
    /\ \E j \in loaded :
         /\ leads' = [leads EXCEPT ![i] = @ \cup {j}]
         /\ refs' = refs \cup DynamicReferences(i, {j})
    /\ UNCHANGED <<loaded, count, handles, ending, marked, collector>>

(***************************************************************************)
(* dlopen and dlclose                                                      *)
(***************************************************************************)

Missing(i) == Needs(i) \ loaded

\* addImage of what is missing.  The constructor leaves fMarkedInUse as the
\* memory had it, so that a collection under way may find the new image marked
\* or not.
AddImages(new) ==
    /\ loaded' = loaded \cup new
    /\ IF gc = "none" THEN UNCHANGED marked
       ELSE \E m \in SUBSET new : marked' = marked \cup m

\* recursiveBind of the images that were added, with what they depend on; a target
\* set that is small is that of an image whose binding has gone only so far.
Bind(new) ==
    \E targets \in [new \cap Binders -> SUBSET (loaded \cup new)] :
        LET of(j) == IF j \in Binders THEN targets[j] ELSE {}
        IN  /\ leads' = [j \in Images |-> IF j \in new THEN Deps[j] \cup of(j) ELSE leads[j]]
            /\ refs' = refs \cup UNION {DynamicReferences(j, of(j)) : j \in new}

\* load and link: what is missing is added and bound, and then initialized.
Load(new) == AddImages(new) /\ Bind(new) /\ ending' = ending \cup new

Dlopen(i) ==
    /\ MayCall("dlopen") /\ i # Main /\ handles[i] < MaxHandles
    /\ Load(Missing(i))
    /\ count' = [count EXCEPT ![i] = @ + 1]
    /\ handles' = [handles EXCEPT ![i] = @ + 1]
    /\ UNCHANGED collector

\* A library is not found: what is added so far stays, unbound.
NotFound(i) ==
    /\ \E new \in SUBSET Missing(i) : i \in new /\ new # Missing(i) /\ AddImages(new)
    /\ UNCHANGED <<leads, refs>>

\* A symbol is not found: all is added, and bound as far as it went, with the
\* references that were noted.
NotBound(i) == AddImages(Missing(i)) /\ Bind(Missing(i))

\* Nothing of it is initialized.  link and dlopen both have it collected, the first
\* while the image still counts as open; the second collection is the one that
\* finds it.
DlopenFails(i) ==
    /\ gc = "none" /\ i \notin loaded
    /\ NotFound(i) \/ NotBound(i)
    /\ Collect
    /\ UNCHANGED <<count, handles, ending, dead>>

\* A client closes a handle it holds; an image that is gone, or not open, gives an
\* error.
Dlclose(i) ==
    /\ MayCall("dlclose") /\ handles[i] > 0
    /\ handles' = [handles EXCEPT ![i] = @ - 1]
    /\ IF i \in loaded /\ count[i] > 0
       THEN /\ count' = [count EXCEPT ![i] = @ - 1]
            /\ IF count[i] = 1 THEN Collect ELSE UNCHANGED <<gc, redo>>
       ELSE UNCHANGED <<count, gc, redo>>
    /\ UNCHANGED <<loaded, leads, refs, ending, marked, dead>>

(***************************************************************************)
(* garbageCollectImages                                                    *)
(***************************************************************************)

\* Mistake: an image that was opened twice is not held.
OpenedOnce == {i \in loaded : count[i] = 1 \/ i = Main}

\* Of the images marked never-unload, only the main executable is here: those that
\* it needs are reached from it; inserted libraries, those of the shared cache and
\* those of NSAddImage, never deleted either, are not modelled.
Roots == {i \in loaded : count[i] # 0 \/ i = Main}

\* Mistake: the references found while binding do not count.
StaticOnly == Closure(Roots, LAMBDA i : leads[i] \cap Deps[i])

\* markedUsedRecursive from every root: over the dependents that are set, and the
\* dynamic references.
InUse == Closure(Roots, LAMBDA i : (leads[i] \cap Deps[i]) \cup {j \in Images : <<i, j>> \in refs})

\* Mistake: a collection that runs again never forgets that it was asked to.
MarkAgain ==
    /\ gc = "mark"
    /\ marked' = InUse
    /\ dead' = loaded \ marked'
    /\ gc' = "terminate"
    /\ UNCHANGED <<loaded, count, handles, leads, refs, ending, redo>>

Mark ==
    /\ gc = "mark"
    /\ marked' = InUse
    /\ dead' = loaded \ marked'
    /\ gc' = "terminate" /\ redo' = FALSE
    /\ UNCHANGED <<loaded, count, handles, leads, refs, ending>>

\* runImageStaticTerminators: a dead image leaves the list of images that need
\* termination, if it is there, and its terminator runs.
Terminate ==
    /\ gc = "terminate"
    /\ \E i \in dead :
         /\ dead' = dead \ {i}
         /\ ending' = ending \ {i}
         /\ gc' = IF i \in ending THEN "in terminator" ELSE "terminate"
    /\ UNCHANGED <<loaded, count, handles, leads, refs, marked, redo>>

\* The terminator returns, to the loop over the dead images.
Return ==
    /\ gc = "in terminator"
    /\ gc' = "terminate"
    /\ UNCHANGED <<loaded, count, handles, leads, refs, ending, marked, dead, redo>>

\* Mistake: an image is deleted with its terminator still to run.
FinalizeEarly ==
    /\ gc = "terminate" /\ \A i, j \in dead : i = j
    /\ gc' = "finalize"
    /\ UNCHANGED <<loaded, count, handles, leads, refs, ending, marked, dead, redo>>

\* __cxa_finalize_ranges runs the destructors of the dead images.
Finalize ==
    /\ gc = "terminate" /\ dead = {}
    /\ gc' = "finalize"
    /\ UNCHANGED <<loaded, count, handles, leads, refs, ending, marked, dead, redo>>

\* removeImage and deleteImage of every image that is not marked.  The marks are
\* not read again before Mark has set them.
Delete ==
    /\ gc = "finalize"
    /\ LET gone == loaded \ marked
       IN  /\ loaded' = loaded \ gone
           /\ refs' = {r \in refs : r[1] \notin gone /\ r[2] \notin gone}
           /\ leads' = [i \in Images |-> IF i \in gone THEN {} ELSE leads[i]]
           /\ count' = [i \in Images |-> IF i \in gone THEN 0 ELSE count[i]]
    /\ marked' = {}
    /\ gc' = IF redo THEN "mark" ELSE "none"
    /\ UNCHANGED <<handles, ending, dead, redo>>

Next ==
    \/ Mark \/ Terminate \/ Return \/ Finalize \/ Delete
    \/ \E i \in Images : LazyBind(i) \/ Dlopen(i) \/ DlopenFails(i) \/ Dlclose(i)

\* Terminators and destructors return, and the collector goes on.
Fairness ==
    WF_vars(Mark) /\ WF_vars(Terminate) /\ WF_vars(Return) /\ WF_vars(Finalize) /\ WF_vars(Delete)

Spec == Init /\ [][Next]_vars /\ Fairness

(***************************************************************************)
(* Properties                                                              *)
(***************************************************************************)

\* The variables have their types, and only what is loaded is collected.
TypeOK ==
    /\ loaded \subseteq Images /\ ending \subseteq Images /\ marked \subseteq Images
    /\ count \in [Images -> 0..MaxHandles] /\ handles \in [Images -> 0..MaxHandles]
    /\ leads \in [Images -> SUBSET Images] /\ refs \subseteq Images \X Images
    /\ gc \in {"none", "mark", "terminate", "in terminator", "finalize"} /\ redo \in BOOLEAN
    /\ dead \subseteq loaded

\* An image that a client opened and has not closed is loaded, and dyld counts
\* its handles: dlclose, a collection or a terminator never unloads it.
HandleMeansLoaded == \A i \in Images : handles[i] > 0 => i \in loaded /\ count[i] = handles[i]

\* No pointer of an image that is loaded leads to one that is not, through any
\* sequence of dlopen, dlclose and binding.
NothingDangles == \A i \in loaded : leads[i] \subseteq loaded

\* After a collection only what is open, or needed by what is open, is left:
\* also what a terminator closed during the collection is gone.
NoGarbage == gc = "none" => \A i \in loaded : i \in InUse

\* An image is not deleted before its terminator has run.
TerminatedFirst == ending \subseteq loaded

\* A collection ends, however often its terminators have it run again.
CollectionEnds == gc # "none" ~> gc = "none"
=============================================================================
