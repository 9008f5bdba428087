-------------------------- MODULE OutputFileProofs --------------------------
(* Proofs about OutputFile, for any linkers, image sizes and setups.       *)
EXTENDS OutputFile, TLAPS

-----------------------------------------------------------------------------
(* Contents                                                                *)

\* A function on an initial segment of the naturals is a sequence.
LEMMA SegmentIsSeq ==
    ASSUME NEW S, NEW n \in Nat, NEW f \in [1..n -> S]
    PROVE  f \in Seq(S) /\ Len(f) = n
OBVIOUS

\* ftruncate and truncate: as many blocks as asked for, kept or zero.
LEMMA ResizedType ==
    ASSUME NEW s \in Seq(Blocks), NEW n \in Nat
    PROVE  /\ Resized(s, n) \in Seq(Blocks)
           /\ Len(Resized(s, n)) = n
           /\ \A b \in 1..n :
                  Resized(s, n)[b] = IF b <= Len(s) THEN s[b] ELSE "zero"
<1>1. Resized(s, n) \in [1..n -> Blocks]
    BY DEF Resized, Blocks
<1> QED BY <1>1, SegmentIsSeq DEF Resized

\* write: the blocks of the image, then what was there.
LEMMA OverwrittenType ==
    ASSUME NEW s \in Seq(Blocks), NEW l \in Linkers, NEW k \in Nat
    PROVE  /\ Overwritten(s, l, k) \in Seq(Blocks)
           /\ Len(Overwritten(s, l, k)) >= k
           /\ Len(Overwritten(s, l, k)) \in Nat
           /\ \A b \in 1..Len(Overwritten(s, l, k)) :
                  Overwritten(s, l, k)[b] =
                      IF b <= k THEN l ELSE s[b]
           /\ \A b \in 1..Len(Overwritten(s, l, k)) : b > k => b \in 1..Len(s)
<1> DEFINE n == IF Len(s) > k THEN Len(s) ELSE k
<1>1. n \in Nat /\ n >= k /\ \A b \in 1..n : b > k => b \in 1..Len(s)
    OBVIOUS
<1>2. Overwritten(s, l, k) = [b \in 1..n |-> IF b <= k THEN l ELSE s[b]]
    BY DEF Overwritten
<1> HIDE DEF n
<1>3. Overwritten(s, l, k) \in [1..n -> Blocks]
    BY <1>1, <1>2 DEF Blocks
<1>4. Overwritten(s, l, k) \in Seq(Blocks) /\ Len(Overwritten(s, l, k)) = n
    BY <1>1, <1>3, SegmentIsSeq
<1> QED BY <1>1, <1>2, <1>4

\* One block of a mapped file is written.
LEMMA BlockType ==
    ASSUME NEW s \in Seq(Blocks), NEW l \in Linkers, NEW b \in 1..Len(s)
    PROVE  /\ [s EXCEPT ![b] = l] \in Seq(Blocks)
           /\ Len([s EXCEPT ![b] = l]) = Len(s)
           /\ \A a \in 1..Len(s) : [s EXCEPT ![b] = l][a] = IF a = b THEN l ELSE s[a]
<1>1. [s EXCEPT ![b] = l] \in [1..Len(s) -> Blocks]
    BY DEF Blocks
<1> QED BY <1>1, SegmentIsSeq

\* The image of a linker.
LEMMA WholeType ==
    ASSUME NEW l \in Linkers
    PROVE  Whole(l) \in Seq(Blocks) /\ Len(Whole(l)) = Size[l]
<1>1. Whole(l) \in [1..Size[l] -> Blocks] /\ Size[l] \in Nat
    BY SizeAssumption DEF Whole, Blocks
<1> QED BY <1>1, SegmentIsSeq

\* A file that begins with the image of l is that image once it is cut.
LEMMA CutToWhole ==
    ASSUME NEW l \in Linkers, NEW s \in Seq(Blocks), Len(s) >= Size[l],
           \A b \in 1..Size[l] : s[b] = l
    PROVE  Resized(s, Size[l]) = Whole(l)
BY SizeAssumption DEF Resized, Whole
-----------------------------------------------------------------------------
(* The inductive invariants                                                *)

\* TypeOK does not say that content is a function; its updates need that.
Typed ==
    /\ TypeOK
    /\ content \in [Inodes -> Seq(Blocks)]

\* Temporary paths: only l's file is ever at l's path, never while it is at
\* the output path too, and not before mkstemp.  A recorded descriptor is that
\* of the temporary file, with the handler in place.
Temporary(l) ==
    /\ dir[l] \in {None, l}
    /\ dir[l] = l => dir["out"] # l
    /\ pc[l] \in {"idle", "stat", "unlink", "temp", "open"} =>
           dir["out"] # l /\ dir[l] = None
    /\ pc[l] = "record" => fd[l] = l /\ l \in handler
    /\ toRemove[l] # None => toRemove[l] = l /\ l \in handler
    /\ pc[l] = "remove" /\ toRemove[l] # None => caught[l] = l \/ dir[l] = None
    /\ pc[l] = "interrupted" /\ toRemove[l] # None => dir[l] = None

TemporaryInv == \A l \in Linkers : Temporary(l)

\* The volume and the path let every linker map a temporary file.
Renames == hfs /\ slash /\ ~tooLong

\* The output is a device: it stays, and nobody maps, removes or fills it.
Passes(l) ==
    /\ pc[l] \in Ended \cup {"idle", "stat", "open", "atoms", "write", "close", "truncate",
                             "symbolmap"}
    /\ pc[l] = "open" => ~regular[l]
    /\ pc[l] \in {"open", "atoms"} => ~mappable[l]
    /\ pc[l] \in {"atoms", "write"} => fd[l] = "old"

DeviceInv ==
    /\ dir["out"] = "old" /\ oldKind \notin {"regular", "socket"}
    /\ content["old"] = <<>>
    /\ handler = {}
    /\ \A l \in Linkers : Passes(l)

\* The output is a file or absent: everybody maps a temporary file, which is
\* not the output until it has been written and has its permissions.
Replaces(l) ==
    /\ dir["out"] = l => content[l] = Whole(l) /\ l \in final
    /\ pc[l] \in Ended \cup {"idle", "stat", "unlink", "temp", "record", "grow", "map",
                             "atoms", "chmod", "rename", "symbolmap", "getpath", "remove"}
    /\ pc[l] \in {"record", "grow", "map", "atoms", "chmod", "rename"} =>
           fd[l] = l /\ dir["out"] # l
    /\ pc[l] \in {"unlink", "temp", "record", "grow", "map", "atoms"} => mappable[l]
    /\ pc[l] \in {"chmod", "rename"} => content[l] = Whole(l)
    /\ pc[l] = "rename" /\ dir[l] # None => l \in final

FileInv ==
    /\ dir["out"] = "old" => oldKind \in {"regular", "socket"}
    /\ \A b \in 1..Len(content["old"]) : content["old"][b] = "old"
    /\ \A l \in Linkers : Replaces(l)

WholeInv ==
    /\ "old" \in final
    /\ Renames => DeviceInv \/ FileInv

\* No block of l's image is in a file, or in any.
Free(s, l) == \A b \in 1..Len(s) : s[b] # l
Fresh(l) == \A i \in Inodes : Free(content[i], l)

\* l has a file to map, or it has the output open and the image in memory.
Mapping(l) == \/ pc[l] \in {"record", "grow", "map", "chmod", "rename"}
              \/ pc[l] = "atoms" /\ mappable[l]
Buffered(l) == \/ pc[l] = "write"
               \/ pc[l] = "atoms" /\ ~mappable[l]

\* The output is a file that truncate and write have no effect on.
Unsized == dir["out"] = "old" /\ oldKind # "regular"

\* What write() and truncate have no effect on is empty.
EmptyOld == oldKind # "regular" => content["old"] = <<>>

\* The image is the output.
InPlace(l) == content[dir["out"]] = Whole(l) /\ dir["out"] \in final

\* The image is at the beginning of a file.
BeginsWith(s, l) == Len(s) >= Size[l] /\ \A b \in 1..Size[l] : s[b] = l

\* What the linker that was started last has done when it has the output to
\* itself.
LastInv(l) ==
    /\ pc[l] # "idle"
    /\ pc[l] \in {"stat", "unlink", "temp", "open"} => Fresh(l)
    /\ pc[l] \in {"unlink", "temp"} =>
           hfs /\ (dir["out"] = "old" => oldKind \in {"regular", "socket"})
    /\ pc[l] \in {"unlink", "temp", "record", "grow", "map"} => mappable[l]
    /\ pc[l] = "open" => ~mappable[l] /\ (~regular[l] => Unsized)
    /\ Mapping(l) =>
           /\ hfs
           /\ ~tooLong => /\ fd[l] = l /\ dir["out"] # l
                          /\ \A i \in Inodes \ {l} : Free(content[i], l)
                          /\ pc[l] = "rename" /\ dir[l] # None => l \in final
           /\ tooLong => fd[l] = dir["out"] /\ dir["out"] \in final /\ ~Unsized
           /\ pc[l] \in {"chmod", "rename"} => content[fd[l]] = Whole(l)
    /\ Buffered(l) => Fresh(l) /\ fd[l] = dir["out"] /\ dir["out"] \in final
    /\ pc[l] \in {"close", "truncate"} => dir["out"] \in final
    /\ pc[l] \in {"close", "truncate"} /\ l \notin cut /\ ~Unsized =>
           BeginsWith(content[dir["out"]], l)
    /\ pc[l] \in {"symbolmap", "done"} =>
           dir["out"] # None /\ (l \notin cut => Unsized \/ InPlace(l))
    /\ pc[l] = "failed" /\ l \notin cut /\ ~(hfs /\ tooLong) /\ dir["out"] # None =>
           Free(content[dir["out"]], l) \/ InPlace(l)

\* One linker at a time: the others have ended or leave no trace yet.
AloneInv ==
    ~overlap =>
        /\ EmptyOld
        /\ \A l \in Linkers :
               /\ pc[l] \in Ended \cup {"idle"} \/ last = l
               /\ pc[l] = "idle" => Fresh(l)
               /\ last = l => LastInv(l)

IInv == Typed /\ TemporaryInv /\ WholeInv /\ AloneInv
-----------------------------------------------------------------------------
(* Types                                                                   *)

LEMMA Names ==
    /\ None \notin Inodes /\ None \notin Paths
    /\ "out" \in Paths /\ Linkers \subseteq Paths /\ "out" \notin Linkers
    /\ "old" \in Inodes /\ Linkers \subseteq Inodes /\ "old" \notin Linkers
    /\ "zero" \notin Linkers
BY NamesAssumption DEF Paths, Inodes

LEMMA InitTyped == Init => Typed
<1> SUFFICES ASSUME Init PROVE Typed
    OBVIOUS
<1>1. content \in [Inodes -> Seq(Blocks)]
    <2>1. PICK s \in Setups : content = [i \in Inodes |->
              IF i = "old" /\ s.oldKind = "regular" THEN [b \in 1..s.oldSize |-> "old"] ELSE <<>>]
        BY DEF Init
    <2>2. [b \in 1..s.oldSize |-> "old"] \in Seq(Blocks)
        <3>1. [b \in 1..s.oldSize |-> "old"] \in [1..s.oldSize -> Blocks] /\ s.oldSize \in Nat
            BY SetupsAssumption DEF Blocks
        <3> QED BY <3>1, SegmentIsSeq
    <2> QED BY <2>1, <2>2
<1>2. dir \in [Paths -> Inodes \cup {None}]
    BY Names DEF Init
<1> QED BY <1>1, <1>2, Names DEF Typed, TypeOK, Init, Ended

\* Where a linker can be.
Locations ==
    Ended \cup {"idle", "stat", "unlink", "temp", "record", "grow", "map", "open", "atoms",
                "chmod", "rename", "write", "close", "truncate", "symbolmap", "getpath",
                "remove"}

\* Jumps, changes of a file and changes of the directory keep the types.
LEMMA TypedChange ==
    ASSUME Typed, NEW l \in Linkers
    PROVE  /\ \A p \in Locations : Goto(l, p) => pc' \in [Linkers -> Locations]
           /\ \A i : \A s : (i \in Inodes => s \in Seq(Blocks)) =>
                  [content EXCEPT ![i] = s] \in [Inodes -> Seq(Blocks)]
           /\ \A p : Unlinked(p) \in [Paths -> Inodes \cup {None}]
           /\ OpenOutput(l) =>
                  /\ dir' \in [Paths -> Inodes \cup {None}]
                  /\ fd' \in [Linkers -> Inodes \cup {None}]
                  /\ final' \subseteq Inodes
<1>1. pc \in [Linkers -> Locations]
    BY DEF Typed, TypeOK, Locations
<1>2. \A p \in Locations : Goto(l, p) => pc' \in [Linkers -> Locations]
    BY <1>1 DEF Goto
<1>3. \A p : Unlinked(p) \in [Paths -> Inodes \cup {None}]
    BY DEF Typed, TypeOK, Unlinked
<1>4. ASSUME OpenOutput(l)
      PROVE  /\ dir' \in [Paths -> Inodes \cup {None}]
             /\ fd' \in [Linkers -> Inodes \cup {None}]
             /\ final' \subseteq Inodes
    <2>1. Opened(l) \in Inodes
        BY Names DEF Opened, Typed, TypeOK
    <2> QED BY <1>4, <2>1 DEF OpenOutput, Typed, TypeOK
<1> QED BY <1>2, <1>3, <1>4 DEF Typed

\* Each system call keeps the types.
LEMMA TypedStep ==
    ASSUME Typed, [Next]_vars
    PROVE  Typed'
<1>0. CASE UNCHANGED vars
    BY <1>0 DEF Typed, TypeOK, vars, files, flags
<1>1. ASSUME NEW l \in Linkers, Step(l)
      PROVE  Typed'
    <2> DEFINE Kept == /\ dir' \in [Paths -> Inodes \cup {None}]
                       /\ content' \in [Inodes -> Seq(Blocks)]
                       /\ final' \subseteq Inodes
                       /\ pc' \in [Linkers -> Locations]
                       /\ fd' \in [Linkers -> Inodes \cup {None}]
                       /\ toRemove' \in [Linkers -> Inodes \cup {None}]
                       /\ caught' \in [Linkers -> Paths \cup {None}]
                       /\ handler' \subseteq Linkers /\ cut' \subseteq Linkers
                       /\ regular' \in [Linkers -> BOOLEAN]
                       /\ mappable' \in [Linkers -> BOOLEAN]
                       /\ last' \in Linkers \cup {None}
    <2> SUFFICES Kept
        BY DEF Typed, TypeOK, Locations
    <2>0. /\ Size[l] \in Nat
          /\ \A i \in Inodes : content[i] \in Seq(Blocks)
        BY SizeAssumption DEF Typed
    <2>t. /\ dir \in [Paths -> Inodes \cup {None}]
          /\ content \in [Inodes -> Seq(Blocks)]
          /\ final \subseteq Inodes
          /\ pc \in [Linkers -> Locations]
          /\ fd \in [Linkers -> Inodes \cup {None}]
          /\ toRemove \in [Linkers -> Inodes \cup {None}]
          /\ caught \in [Linkers -> Paths \cup {None}]
          /\ handler \subseteq Linkers /\ cut \subseteq Linkers
          /\ regular \in [Linkers -> BOOLEAN] /\ mappable \in [Linkers -> BOOLEAN]
          /\ last \in Linkers \cup {None}
        BY DEF Typed, TypeOK, Locations
    <2>l. {"stat", "unlink", "temp", "record", "grow", "map", "open", "atoms", "chmod", "rename",
           "write", "close", "truncate", "symbolmap", "getpath", "remove", "done", "failed",
           "interrupted", "killed"} \subseteq Locations
        BY DEF Locations, Ended
    <2> USE <2>t, <2>l, TypedChange DEF setup, files, flags, Throw
    <2>1. CASE Access(l)
        BY <2>1 DEF Access
    <2>2. CASE Stat(l)
        <3>1. regular' \in [Linkers -> BOOLEAN] /\ mappable' \in [Linkers -> BOOLEAN]
            BY <2>2 DEF Stat
        <3> QED BY <2>2, <3>1 DEF Stat
    <2>3. CASE UnlinkOld(l)
        BY <2>3 DEF UnlinkOld
    <2>4. CASE MakeTemp(l)
        <3>1. CASE ~tooLong /\ dir' = [dir EXCEPT ![l] = l] /\ fd' = [fd EXCEPT ![l] = l]
            BY <2>4, <3>1, Names DEF MakeTemp, OpenFails, OpenOutput
        <3> QED BY <2>4, <3>1 DEF MakeTemp, OpenFails
    <2>5. CASE Record(l)
        BY <2>5 DEF Record
    <2>6. CASE Grow(l)
        <3>1. content' \in [Inodes -> Seq(Blocks)]
            <4>1. fd[l] \in Inodes => Resized(content[fd[l]], Size[l]) \in Seq(Blocks)
                BY <2>0, ResizedType
            <4>2. [content EXCEPT ![fd[l]] = Resized(content[fd[l]], Size[l])]
                      \in [Inodes -> Seq(Blocks)]
                BY <4>1
            <4> QED BY <2>6, <4>2 DEF Grow
        <3> QED BY <2>6, <3>1 DEF Grow
    <2>7. CASE Map(l)
        BY <2>7 DEF Map
    <2>8. CASE Open(l)
        <3>1. CASE OpenOutput(l)
            BY <2>8, <3>1 DEF Open, OpenFails
        <3> QED BY <2>8, <3>1 DEF Open, OpenFails
    <2>9. CASE WriteAtoms(l)
        <3>1. ASSUME NEW b \in 1..Len(content[fd[l]]),
                     content' = [content EXCEPT ![fd[l]][b] = l]
              PROVE  content' \in [Inodes -> Seq(Blocks)]
            <4>1. fd[l] \in Inodes => [content[fd[l]] EXCEPT ![b] = l] \in Seq(Blocks)
                BY <2>0, BlockType
            <4> QED BY <3>1, <4>1
        <3>2. content' \in [Inodes -> Seq(Blocks)]
            BY <2>9, <3>1 DEF WriteAtoms
        <3> QED BY <2>9, <3>2 DEF WriteAtoms
    <2>10. CASE Chmod(l)
        <3>1. TmpOutput(l) \in Paths
            BY Names DEF TmpOutput
        <3> QED BY <2>10, <3>1 DEF Chmod
    <2>11. CASE Rename(l)
        <3>1. CASE dir' = [dir EXCEPT !["out"] = dir[l], ![l] = None]
            BY <2>11, <3>1, Names DEF Rename
        <3> QED BY <2>11, <3>1 DEF Rename
    <2>12. CASE Write(l)
        <3>1. ASSUME NEW k \in 0..Size[l],
                     content' = [content EXCEPT ![fd[l]] = Overwritten(@, l, k)]
              PROVE  content' \in [Inodes -> Seq(Blocks)]
            <4>1. fd[l] \in Inodes => Overwritten(content[fd[l]], l, k) \in Seq(Blocks)
                BY <2>0, OverwrittenType
            <4> QED BY <3>1, <4>1
        <3>2. content' \in [Inodes -> Seq(Blocks)]
            BY <2>12, <3>1 DEF Write
        <3> QED BY <2>12, <3>2 DEF Write
    <2>13. CASE Close(l)
        BY <2>13 DEF Close
    <2>14. CASE Truncate(l)
        <3>1. content' \in [Inodes -> Seq(Blocks)]
            <4>1. dir["out"] \in Inodes => Resized(content[dir["out"]], Size[l]) \in Seq(Blocks)
                BY <2>0, ResizedType
            <4> QED BY <2>14, <4>1 DEF Truncate
        <3> QED BY <2>14, <3>1 DEF Truncate
    <2>15. CASE Finish(l)
        BY <2>15 DEF Finish
    <2>16. CASE Interrupt(l)
        BY <2>16 DEF Interrupt
    <2>17. CASE GetPath(l)
        BY <2>17 DEF GetPath
    <2>18. CASE RemovePath(l)
        BY <2>18 DEF RemovePath
    <2>19. CASE Kill(l)
        BY <2>19 DEF Kill
    <2> QED
        BY <1>1, <2>1, <2>2, <2>3, <2>4, <2>5, <2>6, <2>7, <2>8, <2>9, <2>10, <2>11, <2>12,
           <2>13, <2>14, <2>15, <2>16, <2>17, <2>18, <2>19 DEF Step
<1> QED BY <1>0, <1>1 DEF Next
-----------------------------------------------------------------------------
(* Temporary paths                                                         *)

LEMMA InitTemporary == Init => TemporaryInv
<1> SUFFICES ASSUME Init, NEW l \in Linkers PROVE Temporary(l)
    BY DEF TemporaryInv
<1>1. dir[l] = None /\ dir["out"] # l /\ pc[l] = "idle" /\ toRemove[l] = None
    BY Names DEF Init
<1> QED BY <1>1, Names DEF Temporary

LEMMA TemporaryStep ==
    ASSUME Typed, TemporaryInv, [Next]_vars
    PROVE  TemporaryInv'
<1>0. CASE UNCHANGED vars
    BY <1>0 DEF TemporaryInv, Temporary, vars, files, flags
<1>1. ASSUME NEW l \in Linkers, Step(l), NEW m \in Linkers
      PROVE  Temporary(m)'
    <2>t. /\ dir \in [Paths -> Inodes \cup {None}]
          /\ pc \in [Linkers -> Locations]
          /\ fd \in [Linkers -> Inodes \cup {None}]
          /\ toRemove \in [Linkers -> Inodes \cup {None}]
          /\ caught \in [Linkers -> Paths \cup {None}]
        BY DEF Typed, TypeOK, Locations
    <2>i. Temporary(m) /\ Temporary(l)
        BY DEF TemporaryInv
    <2> USE <2>t, <2>i, Names DEF Temporary, setup, files, flags, Goto, Throw
    <2>1. CASE Access(l)
        BY <2>1 DEF Access
    <2>2. CASE Stat(l)
        BY <2>2 DEF Stat
    <2>3. CASE UnlinkOld(l)
        BY <2>3 DEF UnlinkOld, Unlinked
    <2>4. CASE MakeTemp(l)
        BY <2>4 DEF MakeTemp, OpenOutput, OpenFails, Opened
    <2>5. CASE Record(l)
        BY <2>5 DEF Record
    <2>6. CASE Grow(l)
        BY <2>6 DEF Grow, Unlinked
    <2>7. CASE Map(l)
        BY <2>7 DEF Map
    <2>8. CASE Open(l)
        BY <2>8 DEF Open, OpenOutput, OpenFails, Opened
    <2>9. CASE WriteAtoms(l)
        BY <2>9 DEF WriteAtoms
    <2>10. CASE Chmod(l)
        BY <2>10 DEF Chmod, Unlinked
    <2>11. CASE Rename(l)
        BY <2>11 DEF Rename, Unlinked
    <2>12. CASE Write(l)
        BY <2>12 DEF Write
    <2>13. CASE Close(l)
        BY <2>13 DEF Close
    <2>14. CASE Truncate(l)
        BY <2>14 DEF Truncate
    <2>15. CASE Finish(l)
        BY <2>15 DEF Finish
    <2>16. CASE Interrupt(l)
        BY <2>16 DEF Interrupt
    <2>17. CASE GetPath(l)
        <3>1. ASSUME dir[l] = l, NEW p \in Paths, dir[p] = l
              PROVE  p = l
            BY <3>1 DEF TemporaryInv, Paths
        <3>2. ASSUME toRemove[l] # None, dir[l] # None
              PROVE  caught' = [caught EXCEPT ![l] = l]
            <4>1. {p \in Paths : toRemove[l] # None /\ dir[p] = toRemove[l]} = {l}
                BY <3>1, <3>2
            <4> QED BY <2>17, <4>1 DEF GetPath
        <3>3. \A q \in Linkers \ {l} : caught'[q] = caught[q]
            BY <2>17 DEF GetPath
        <3> QED BY <2>17, <3>2, <3>3 DEF GetPath
    <2>18. CASE RemovePath(l)
        <3>1. \A p \in Paths : dir'[p] = IF p = caught[l] THEN None ELSE dir[p]
            BY <2>18 DEF RemovePath, Unlinked
        <3> QED BY <2>18, <3>1 DEF RemovePath
    <2>19. CASE Kill(l)
        BY <2>19 DEF Kill
    <2> QED
        BY <1>1, <2>1, <2>2, <2>3, <2>4, <2>5, <2>6, <2>7, <2>8, <2>9, <2>10, <2>11, <2>12,
           <2>13, <2>14, <2>15, <2>16, <2>17, <2>18, <2>19 DEF Step
<1> QED BY <1>0, <1>1 DEF Next, TemporaryInv
-----------------------------------------------------------------------------
(* The output is whole or absent                                           *)

LEMMA InitWhole == Init => WholeInv
<1> SUFFICES ASSUME Init PROVE WholeInv
    OBVIOUS
<1>0. "old" \in final
    BY DEF Init
<1>1. PICK s \in Setups :
          /\ oldKind = s.oldKind
          /\ content = [i \in Inodes |->
                IF i = "old" /\ s.oldKind = "regular" THEN [b \in 1..s.oldSize |-> "old"] ELSE <<>>]
    BY DEF Init
<1>2. /\ dir["out"] = IF oldKind # None THEN "old" ELSE None
      /\ handler = {}
      /\ \A l \in Linkers : pc[l] = "idle" /\ dir["out"] # l
    BY Names DEF Init
<1>3. CASE dir["out"] = "old" /\ oldKind \notin {"regular", "socket"}
    <2>1. content["old"] = <<>>
        BY <1>1, <1>3, Names
    <2> QED BY <1>0, <1>2, <1>3, <2>1 DEF WholeInv, DeviceInv, Passes
<1>4. CASE ~(dir["out"] = "old" /\ oldKind \notin {"regular", "socket"})
    <2>1. \A b \in 1..Len(content["old"]) : content["old"][b] = "old"
        <3>1. CASE s.oldKind = "regular"
            <4>1. content["old"] = [b \in 1..s.oldSize |-> "old"] /\ s.oldSize \in Nat
                BY <1>1, <3>1, Names, SetupsAssumption
            <4>2. Len(content["old"]) = s.oldSize
                BY <4>1, SegmentIsSeq
            <4> QED BY <4>1, <4>2
        <3>2. CASE s.oldKind # "regular"
            <4>1. content["old"] = <<>>
                BY <1>1, <3>2, Names
            <4> QED BY <4>1
        <3> QED BY <3>1, <3>2
    <2> QED BY <1>0, <1>2, <1>4, <2>1 DEF WholeInv, FileInv, Replaces
<1> QED BY <1>3, <1>4

\* No file loses its permissions.
LEMMA FinalGrows ==
    ASSUME NEW l \in Linkers, Step(l)
    PROVE  final \subseteq final' /\ UNCHANGED setup
BY DEF Step, setup, files, flags, Access, Stat, UnlinkOld, MakeTemp, Record, Grow, Map, Open,
       WriteAtoms, Chmod, Rename, Write, Close, Truncate, Finish, Interrupt, GetPath,
       RemovePath, Kill, OpenOutput, OpenFails

LEMMA DeviceStep ==
    ASSUME Typed, DeviceInv, NEW l \in Linkers, Step(l)
    PROVE  DeviceInv'
<1>t. /\ dir \in [Paths -> Inodes \cup {None}]
      /\ pc \in [Linkers -> Locations]
      /\ fd \in [Linkers -> Inodes \cup {None}]
      /\ regular \in [Linkers -> BOOLEAN] /\ mappable \in [Linkers -> BOOLEAN]
    BY DEF Typed, TypeOK, Locations
<1>d. /\ dir["out"] = "old" /\ oldKind \notin {"regular", "socket"}
      /\ content["old"] = <<>>
      /\ handler = {}
      /\ \A m \in Linkers : Passes(m)
    BY DEF DeviceInv
<1>s. oldKind' = oldKind
    BY FinalGrows DEF setup
<1> SUFFICES /\ dir'["out"] = "old"
             /\ content'["old"] = <<>>
             /\ handler' = {}
             /\ \A m \in Linkers : Passes(m)'
    BY <1>d, <1>s DEF DeviceInv
<1> USE <1>t, <1>d, <1>s, Names DEF Passes, Ended, setup, files, flags, Goto, Throw
<1>1. CASE Access(l)
    BY <1>1 DEF Access
<1>2. CASE Stat(l)
    BY <1>2 DEF Stat, IsRegular
<1>3. CASE Open(l)
    <2>1. ~regular[l] /\ ~mappable[l]
        BY <1>3 DEF Open
    <2>2. \/ fd' = [fd EXCEPT ![l] = "old"] /\ (Goto(l, "atoms") \/ Throw(l))
          \/ UNCHANGED fd /\ Throw(l)
        BY <1>3, <2>1 DEF Open, OpenFails
    <2>3. pc[l] = "open" /\ UNCHANGED <<dir, content, handler, regular, mappable>>
        BY <1>3, <2>1 DEF Open, OpenFails
    <2> QED BY <2>2, <2>3
<1>4. CASE WriteAtoms(l)
    BY <1>4 DEF WriteAtoms
<1>5. CASE Write(l)
    BY <1>5 DEF Write
<1>6. CASE Close(l)
    BY <1>6 DEF Close
<1>7. CASE Truncate(l)
    BY <1>7 DEF Truncate
<1>8. CASE Finish(l)
    BY <1>8 DEF Finish
<1>9. CASE Interrupt(l)
    BY <1>9 DEF Interrupt
<1>10. CASE Kill(l)
    BY <1>10 DEF Kill
<1>11. CASE \/ UnlinkOld(l) \/ MakeTemp(l) \/ Record(l) \/ Grow(l) \/ Map(l) \/ Chmod(l)
            \/ Rename(l) \/ GetPath(l) \/ RemovePath(l)
    BY <1>11 DEF UnlinkOld, MakeTemp, Record, Grow, Map, Chmod, Rename, GetPath, RemovePath
<1> QED
    BY <1>1, <1>2, <1>3, <1>4, <1>5, <1>6, <1>7, <1>8, <1>9, <1>10, <1>11 DEF Step
LEMMA FileStep ==
    ASSUME Typed, TemporaryInv, Renames, FileInv, NEW l \in Linkers, Step(l)
    PROVE  FileInv'
<1>t. /\ dir \in [Paths -> Inodes \cup {None}]
      /\ content \in [Inodes -> Seq(Blocks)]
      /\ pc \in [Linkers -> Locations]
      /\ fd \in [Linkers -> Inodes \cup {None}]
      /\ regular \in [Linkers -> BOOLEAN] /\ mappable \in [Linkers -> BOOLEAN]
    BY DEF Typed, TypeOK, Locations
<1>d. /\ dir["out"] = "old" => oldKind \in {"regular", "socket"}
      /\ \A b \in 1..Len(content["old"]) : content["old"][b] = "old"
      /\ \A m \in Linkers : Replaces(m)
      /\ hfs /\ slash /\ ~tooLong
    BY DEF FileInv, Renames
<1>e. \A m \in Linkers : /\ dir[m] \in {None, m}
                         /\ pc[m] = "temp" => dir["out"] # m
    BY DEF TemporaryInv, Temporary
<1>s. oldKind' = oldKind
    BY FinalGrows DEF setup
<1> SUFFICES /\ dir'["out"] = "old" => dir["out"] = "old"
             /\ content'["old"] = content["old"]
             /\ \A m \in Linkers : Replaces(m)'
    BY <1>d, <1>s DEF FileInv
<1> USE <1>t, <1>d, <1>e, Names DEF Replaces, Ended, setup, files, flags, Goto, Throw
<1>1. CASE Access(l)
    BY <1>1 DEF Access
<1>2. CASE Stat(l)
    <2>1. dir["out"] # None => IsRegular(dir["out"])
        BY DEF IsRegular
    <2>2. /\ mappable' = [mappable EXCEPT ![l] = TRUE]
          /\ pc' \in {[pc EXCEPT ![l] = "unlink"], [pc EXCEPT ![l] = "temp"]}
        BY <1>2, <2>1 DEF Stat
    <2>3. pc[l] = "stat" /\ UNCHANGED <<dir, content, final, fd>>
        BY <1>2 DEF Stat
    <2> QED BY <2>2, <2>3
<1>3. CASE UnlinkOld(l)
    BY <1>3 DEF UnlinkOld, Unlinked
<1>4. CASE MakeTemp(l)
    BY <1>4 DEF MakeTemp, OpenFails
<1>5. CASE Record(l)
    BY <1>5 DEF Record
<1>6. CASE Grow(l)
    <2>1. fd[l] = l /\ dir["out"] # l
        BY <1>6 DEF Grow
    <2> QED BY <1>6, <2>1 DEF Grow, Unlinked, TmpOutput
<1>7. CASE Map(l)
    BY <1>7 DEF Map
<1>8. CASE WriteAtoms(l)
    <2>1. fd[l] = l /\ dir["out"] # l /\ mappable[l]
        BY <1>8 DEF WriteAtoms
    <2>2. CASE UNCHANGED content
        BY <1>8, <2>1, <2>2 DEF WriteAtoms
    <2>3. CASE UNCHANGED pc /\ \E b \in 1..Len(content[l]) : content' = [content EXCEPT ![l][b] = l]
        <3>1. \A i \in Inodes \ {l} : content'[i] = content[i]
            BY <2>3
        <3> QED BY <1>8, <2>1, <2>3, <3>1 DEF WriteAtoms
    <2> QED BY <1>8, <2>1, <2>2, <2>3 DEF WriteAtoms
<1>9. CASE Chmod(l)
    BY <1>9 DEF Chmod, Unlinked, TmpOutput
<1>10. CASE Rename(l)
    BY <1>10 DEF Rename, Unlinked
<1>11. CASE Finish(l)
    BY <1>11 DEF Finish
<1>12. CASE Interrupt(l)
    BY <1>12 DEF Interrupt
<1>13. CASE GetPath(l)
    BY <1>13 DEF GetPath
<1>14. CASE RemovePath(l)
    BY <1>14 DEF RemovePath, Unlinked
<1>15. CASE Kill(l)
    BY <1>15 DEF Kill
<1>16. CASE Open(l) \/ Write(l) \/ Close(l) \/ Truncate(l)
    <2>1. CASE Open(l) \/ Write(l)
        BY <2>1 DEF Open, Write
    <2>2. CASE Close(l) \/ Truncate(l)
        BY <2>2 DEF Close, Truncate
    <2> QED BY <1>16, <2>1, <2>2
<1> QED
    BY <1>1, <1>2, <1>3, <1>4, <1>5, <1>6, <1>7, <1>8, <1>9, <1>10, <1>11, <1>12, <1>13, <1>14,
       <1>15, <1>16 DEF Step

LEMMA WholeStep ==
    ASSUME Typed, TemporaryInv, WholeInv, [Next]_vars
    PROVE  WholeInv'
<1>1. CASE UNCHANGED vars
    BY <1>1 DEF WholeInv, Renames, DeviceInv, FileInv, Passes, Replaces, vars, files, flags
<1>2. ASSUME NEW l \in Linkers, Step(l)
      PROVE  WholeInv'
    <2>1. "old" \in final' /\ (Renames' => Renames)
        BY <1>2, FinalGrows DEF WholeInv, Renames, setup
    <2> QED BY <1>2, <2>1, DeviceStep, FileStep DEF WholeInv
<1> QED BY <1>1, <1>2 DEF Next

-----------------------------------------------------------------------------
(* The exit status                                                         *)

\* No call of a linker puts a block of another linker in a file.
LEMMA FreeKept ==
    ASSUME NEW s \in Seq(Blocks), NEW m \in Linkers, Free(s, m)
    PROVE  /\ \A n \in Nat : Free(Resized(s, n), m)
           /\ \A l \in Linkers \ {m} : \A k \in Nat : Free(Overwritten(s, l, k), m)
           /\ \A l \in Linkers \ {m} : \A b \in 1..Len(s) : Free([s EXCEPT ![b] = l], m)
<1>1. ASSUME NEW n \in Nat PROVE Free(Resized(s, n), m)
    <2>1. \A b \in 1..n : b <= Len(s) => b \in 1..Len(s)
        OBVIOUS
    <2>2. \A b \in 1..n : Resized(s, n)[b] # m
        BY <2>1, ResizedType, Names DEF Free
    <2> QED BY <2>2, ResizedType DEF Free
<1>2. ASSUME NEW l \in Linkers \ {m}, NEW k \in Nat PROVE Free(Overwritten(s, l, k), m)
    BY OverwrittenType DEF Free
<1>3. ASSUME NEW l \in Linkers \ {m}, NEW b \in 1..Len(s) PROVE Free([s EXCEPT ![b] = l], m)
    <2>1. \A a \in 1..Len(s) : [s EXCEPT ![b] = l][a] # m
        BY BlockType DEF Free
    <2> QED BY <2>1, BlockType DEF Free
<1> QED BY <1>1, <1>2, <1>3

\* A step of l changes one file, if any, and leaves it free of other linkers.
LEMMA FreshStep ==
    ASSUME Typed, NEW l \in Linkers, Step(l), NEW m \in Linkers \ {l}, Fresh(m)
    PROVE  Fresh(m)'
<1> SUFFICES ASSUME NEW i \in Inodes PROVE Free(content'[i], m)
    BY DEF Fresh
<1>0. /\ content \in [Inodes -> Seq(Blocks)] /\ content[i] \in Seq(Blocks)
      /\ Free(content[i], m)
      /\ Size[l] \in Nat
    BY SizeAssumption DEF Typed, Fresh
<1>1. CASE UNCHANGED content
    BY <1>0, <1>1
<1>2. CASE \E j : content' = [content EXCEPT ![j] = Resized(@, Size[l])]
    <2>1. content'[i] \in {content[i], Resized(content[i], Size[l])}
        BY <1>0, <1>2
    <2> QED BY <1>0, <2>1, FreeKept
<1>3. CASE \E j : \E k \in 0..Size[l] : content' = [content EXCEPT ![j] = Overwritten(@, l, k)]
    <2>1. \E k \in Nat : content'[i] \in {content[i], Overwritten(content[i], l, k)}
        BY <1>0, <1>3
    <2> QED BY <1>0, <2>1, FreeKept
<1>4. CASE \E j : \E b \in 1..Len(content[j]) : content' = [content EXCEPT ![j][b] = l]
    <2>1. \/ content'[i] = content[i]
          \/ \E b \in 1..Len(content[i]) : content'[i] = [content[i] EXCEPT ![b] = l]
        BY <1>0, <1>4
    <2>2. ASSUME NEW b \in 1..Len(content[i]), content'[i] = [content[i] EXCEPT ![b] = l]
          PROVE  Free(content'[i], m)
        BY <1>0, <2>2, FreeKept
    <2> QED BY <1>0, <2>1, <2>2
<1>5. \/ UNCHANGED content
      \/ \E j : content' = [content EXCEPT ![j] = Resized(@, Size[l])]
      \/ \E j : \E k \in 0..Size[l] : content' = [content EXCEPT ![j] = Overwritten(@, l, k)]
      \/ \E j : \E b \in 1..Len(content[j]) : content' = [content EXCEPT ![j][b] = l]
    <2>1. CASE Grow(l)
        BY <2>1 DEF Grow
    <2>2. CASE WriteAtoms(l)
        BY <2>2 DEF WriteAtoms
    <2>3. CASE Write(l)
        BY <2>3 DEF Write
    <2>4. CASE Truncate(l)
        BY <2>4 DEF Truncate
    <2>5. CASE \/ Access(l) \/ Stat(l) \/ UnlinkOld(l) \/ MakeTemp(l) \/ Record(l) \/ Map(l)
               \/ Open(l) \/ Chmod(l) \/ Rename(l) \/ Close(l) \/ Finish(l) \/ Interrupt(l)
               \/ GetPath(l) \/ RemovePath(l) \/ Kill(l)
        BY <2>5 DEF Access, Stat, UnlinkOld, MakeTemp, Record, Map, Open, Chmod, Rename, Close,
            Finish, Interrupt, GetPath, RemovePath, Kill, files
    <2> QED BY <2>1, <2>2, <2>3, <2>4, <2>5 DEF Step
<1> QED BY <1>1, <1>2, <1>3, <1>4, <1>5

\* A linker that is alone, from its start to its exit.
LEMMA LastStep ==
    ASSUME Typed, TemporaryInv, "old" \in final, EmptyOld,
           NEW l \in Linkers, LastInv(l), Step(l)
    PROVE  LastInv(l)' /\ EmptyOld'
<1>t. /\ dir \in [Paths -> Inodes \cup {None}]
      /\ content \in [Inodes -> Seq(Blocks)]
      /\ pc \in [Linkers -> Locations]
      /\ fd \in [Linkers -> Inodes \cup {None}]
      /\ regular \in [Linkers -> BOOLEAN] /\ mappable \in [Linkers -> BOOLEAN]
      /\ final \subseteq Inodes
      /\ cut \subseteq Linkers
      /\ Size[l] \in Nat
    BY SizeAssumption DEF Typed, TypeOK, Locations
<1>e. Temporary(l)
    BY DEF TemporaryInv
<1>s. /\ oldKind' = oldKind /\ hfs' = hfs /\ tooLong' = tooLong
      /\ final \subseteq final'
    BY FinalGrows DEF setup
<1> USE <1>t, <1>e, <1>s, Names DEF Ended, setup, files, flags, Goto, Throw
<1>1. CASE Access(l)
    BY <1>1 DEF Access, LastInv
<1>2. CASE Stat(l)
    <2>1. Fresh(l) /\ Fresh(l)' /\ pc[l] = "stat" /\ UNCHANGED <<dir, content>>
        BY <1>2 DEF Stat, LastInv, Fresh
    <2>2. \/ pc'[l] = "open" /\ ~mappable'[l] /\ (~regular'[l] => Unsized')
          \/ /\ pc'[l] \in {"unlink", "temp"} /\ mappable'[l] /\ hfs
             /\ dir["out"] = "old" => oldKind \in {"regular", "socket"}
        BY <1>2 DEF Stat, IsRegular, Unsized
    <2> QED BY <2>1, <2>2 DEF LastInv, Mapping, Buffered, EmptyOld
<1>3. CASE UnlinkOld(l)
    <2>1. Fresh(l) /\ Fresh(l)' /\ UNCHANGED content
        BY <1>3 DEF UnlinkOld, LastInv, Fresh
    <2> QED BY <1>3, <2>1 DEF UnlinkOld, Unlinked, LastInv, Mapping, Buffered, EmptyOld
<1>4. CASE MakeTemp(l)
    <2>1. Fresh(l) /\ Fresh(l)' /\ UNCHANGED content
        BY <1>4 DEF MakeTemp, LastInv, Fresh
    <2>2. CASE ~tooLong
        BY <1>4, <2>1, <2>2 DEF MakeTemp, OpenFails, LastInv, Mapping, Buffered, EmptyOld,
           Fresh, Temporary
    <2>3. CASE tooLong
        BY <1>4, <2>1, <2>3 DEF MakeTemp, OpenFails, OpenOutput, Opened, CanOpen, LastInv,
           Mapping, Buffered, EmptyOld, Unsized
    <2> QED BY <2>2, <2>3
<1>5. CASE Record(l)
    BY <1>5 DEF Record, LastInv, Mapping, Buffered, Unsized, EmptyOld
<1>6. CASE Grow(l)
    <2>0. Mapping(l) /\ fd[l] \in Inodes
        BY <1>6 DEF Grow, Mapping, LastInv
    <2>1. CASE UNCHANGED dir /\ Goto(l, "map")
                  /\ content' = [content EXCEPT ![fd[l]] = Resized(@, Size[l])]
        <3>1. \A i \in Inodes \ {fd[l]} : content'[i] = content[i]
            BY <2>1
        <3>2. EmptyOld'
            BY <2>0, <2>1, <3>1 DEF EmptyOld, LastInv, Unsized
        <3> QED BY <1>6, <2>0, <2>1, <3>1, <3>2 DEF Grow, LastInv, Mapping, Buffered, Unsized
    <2>2. CASE UNCHANGED content /\ dir' = Unlinked(TmpOutput(l)) /\ Throw(l)
        BY <1>6, <2>0, <2>2 DEF Grow, LastInv, Mapping, Buffered, EmptyOld, Unlinked, TmpOutput
    <2> QED BY <1>6, <2>1, <2>2 DEF Grow
<1>7. CASE Map(l)
    BY <1>7 DEF Map, LastInv, Mapping, Buffered, Unsized, EmptyOld
<1>8. CASE Open(l)
    <2>1. Fresh(l) /\ Fresh(l)' /\ UNCHANGED content
        BY <1>8 DEF Open, LastInv, Fresh
    <2>2. CASE regular[l]
        BY <1>8, <2>1, <2>2 DEF Open, OpenFails, OpenOutput, Opened, LastInv, Mapping, Buffered,
           EmptyOld, Fresh
    <2>3. CASE ~regular[l]
        BY <1>8, <2>1, <2>3 DEF Open, OpenFails, LastInv, Mapping, Buffered, EmptyOld, Fresh,
           Unsized
    <2> QED BY <2>2, <2>3
<1>9. CASE WriteAtoms(l)
    <2>1. CASE UNCHANGED content
        BY <1>9, <2>1 DEF WriteAtoms, LastInv, Mapping, Buffered, EmptyOld, Unsized, Fresh
    <2>2. CASE UNCHANGED pc /\ mappable[l] /\ \E b \in 1..Len(content[fd[l]]) :
                  content' = [content EXCEPT ![fd[l]][b] = l]
        <3>0. Mapping(l) /\ fd[l] \in Inodes
            BY <1>9, <2>2 DEF WriteAtoms, Mapping, LastInv
        <3>1. \A i \in Inodes \ {fd[l]} : content'[i] = content[i]
            BY <2>2
        <3>2. EmptyOld'
            BY <3>0, <3>1 DEF EmptyOld, LastInv, Unsized
        <3> QED BY <1>9, <2>2, <3>0, <3>1, <3>2
                DEF WriteAtoms, LastInv, Mapping, Buffered, Unsized
    <2> QED BY <1>9, <2>1, <2>2 DEF WriteAtoms
<1>10. CASE Chmod(l)
    <2>0. Mapping(l)
        BY <1>10 DEF Chmod, Mapping
    <2>1. CASE ~tooLong
        <3>1. /\ hfs /\ fd[l] = l /\ dir["out"] # l /\ content[l] = Whole(l)
              /\ \A i \in Inodes \ {l} : Free(content[i], l)
              /\ UNCHANGED <<content, fd, mappable>> /\ dir'["out"] = dir["out"]
            BY <1>10, <2>0, <2>1 DEF Chmod, Unlinked, TmpOutput, LastInv
        <3>2. \/ pc'[l] = "rename" /\ (dir'[l] # None => l \in final')
              \/ pc'[l] = "failed"
            BY <1>10, <2>1 DEF Chmod, TmpOutput, Temporary
        <3> QED BY <2>1, <3>1, <3>2 DEF LastInv, Mapping, Buffered, EmptyOld
    <2>2. CASE tooLong
        BY <1>10, <2>0, <2>2 DEF Chmod, Unlinked, TmpOutput, LastInv, Mapping, Buffered,
           EmptyOld, Temporary, Unsized
    <2> QED BY <2>1, <2>2
<1>11. CASE Rename(l)
    <2>0. Mapping(l)
        BY <1>11 DEF Rename, Mapping
    <2> QED BY <1>11, <2>0 DEF Rename, Unlinked, LastInv, Mapping, Buffered, EmptyOld, Temporary,
               InPlace
<1>12. CASE Write(l)
    <2>0. /\ Buffered(l) /\ Fresh(l) /\ fd[l] = dir["out"] /\ dir["out"] \in final
          /\ pc[l] = "write"
          /\ UNCHANGED <<dir, final, fd>>
        BY <1>12 DEF Write, LastInv, Buffered
    <2>1. CASE Throw(l) /\ UNCHANGED <<content, cut>>
        BY <2>0, <2>1 DEF LastInv, Mapping, Buffered, EmptyOld, Fresh
    <2>2. ASSUME NEW k \in 0..Size[l],
                 IF Unsized THEN UNCHANGED content
                 ELSE content' = [content EXCEPT ![fd[l]] = Overwritten(@, l, k)],
                 cut' = IF k < Size[l] THEN cut \cup {l} ELSE cut,
                 Goto(l, "close")
          PROVE  LastInv(l)' /\ EmptyOld'
        <3>1. l \notin cut' /\ ~Unsized => BeginsWith(content'[dir["out"]], l)
            BY <2>0, <2>2, OverwrittenType DEF BeginsWith
        <3>2. EmptyOld'
            BY <2>0, <2>2 DEF EmptyOld, Unsized
        <3> QED BY <2>0, <2>2, <3>1, <3>2 DEF LastInv, Mapping, Buffered, Unsized
    <2> QED BY <1>12, <2>0, <2>1, <2>2 DEF Write, Unsized
<1>13. CASE Close(l)
    BY <1>13 DEF Close, LastInv, Mapping, Buffered, Unsized, EmptyOld
<1>14. CASE Truncate(l)
    <2>0. /\ dir["out"] \in final
          /\ pc[l] = "truncate"
          /\ pc'[l] = "symbolmap"
          /\ UNCHANGED <<dir, final, cut>>
          /\ l \notin cut /\ ~Unsized => BeginsWith(content[dir["out"]], l)
        BY <1>14 DEF Truncate, LastInv
    <2>1. CASE Unsized
        BY <1>14, <2>0, <2>1 DEF Truncate, Unsized, LastInv, Mapping, Buffered, EmptyOld
    <2>2. CASE ~Unsized
        <3>1. content' = [content EXCEPT ![dir["out"]] = Resized(@, Size[l])]
            BY <1>14, <2>0, <2>2 DEF Truncate, Unsized
        <3>2. l \notin cut => content'[dir["out"]] = Whole(l)
            BY <2>0, <2>2, <3>1, CutToWhole DEF BeginsWith
        <3>3. EmptyOld'
            BY <2>0, <2>2, <3>1 DEF EmptyOld, Unsized
        <3> QED BY <2>0, <2>2, <3>2, <3>3 DEF LastInv, Mapping, Buffered, InPlace
    <2> QED BY <2>1, <2>2
<1>15. CASE Finish(l)
    BY <1>15 DEF Finish, LastInv, Mapping, Buffered, Unsized, InPlace, EmptyOld, Free
<1>16. CASE Interrupt(l) \/ Kill(l) \/ GetPath(l) \/ RemovePath(l)
    <2>1. /\ pc'[l] \in {"getpath", "remove", "interrupted", "killed"}
          /\ UNCHANGED content
        BY <1>16 DEF Interrupt, Kill, GetPath, RemovePath
    <2> QED BY <2>1 DEF LastInv, Mapping, Buffered, EmptyOld
<1> QED
    BY <1>1, <1>2, <1>3, <1>4, <1>5, <1>6, <1>7, <1>8, <1>9, <1>10, <1>11, <1>12, <1>13, <1>14,
       <1>15, <1>16 DEF Step

LEMMA InitAlone == Init => AloneInv
<1> SUFFICES ASSUME Init PROVE AloneInv
    OBVIOUS
<1>1. PICK s \in Setups :
          /\ oldKind = s.oldKind
          /\ content = [i \in Inodes |->
                IF i = "old" /\ s.oldKind = "regular" THEN [b \in 1..s.oldSize |-> "old"] ELSE <<>>]
    BY DEF Init
<1>2. EmptyOld
    BY <1>1, Names DEF EmptyOld
<1>3. ASSUME NEW l \in Linkers, NEW i \in Inodes
      PROVE  Free(content[i], l)
    <2>1. CASE content[i] = <<>>
        BY <2>1 DEF Free
    <2>2. CASE content[i] = [b \in 1..s.oldSize |-> "old"]
        <3>1. Len(content[i]) = s.oldSize
            BY <2>2, SegmentIsSeq, SetupsAssumption
        <3> QED BY <2>2, <3>1, Names DEF Free
    <2> QED BY <1>1, <2>1, <2>2
<1>4. \A l \in Linkers : pc[l] = "idle" /\ last # l
    BY NamesAssumption DEF Init
<1> QED BY <1>2, <1>3, <1>4 DEF AloneInv, Fresh

LEMMA AloneStep ==
    ASSUME Typed, TemporaryInv, WholeInv, AloneInv, [Next]_vars
    PROVE  AloneInv'
<1>0. CASE UNCHANGED vars
    BY <1>0 DEF AloneInv, EmptyOld, Fresh, LastInv, Mapping, Buffered, Unsized, InPlace, vars,
       files, flags
<1>1. ASSUME NEW l \in Linkers, Step(l), ~overlap'
      PROVE  /\ EmptyOld'
             /\ \A m \in Linkers : /\ pc'[m] \in Ended \cup {"idle"} \/ last' = m
                                   /\ pc'[m] = "idle" => Fresh(m)'
                                   /\ last' = m => LastInv(m)'
    <2>0. /\ ~overlap /\ EmptyOld
          /\ pc \in [Linkers -> Locations]
          /\ \A m \in Linkers : /\ pc[m] \in Ended \cup {"idle"} \/ last = m
                                /\ pc[m] = "idle" => Fresh(m)
                                /\ last = m => LastInv(m)
        BY <1>1, FinalGrows DEF AloneInv, setup, Typed, TypeOK, Locations
    <2>1. \A m \in Linkers \ {l} : pc'[m] = pc[m]
        BY <1>1, <2>0 DEF Step, Access, Stat, UnlinkOld, MakeTemp, Record, Grow, Map, Open,
           OpenFails, WriteAtoms, Chmod, Rename, Write, Close, Truncate, Finish, Interrupt,
           GetPath, RemovePath, Kill, Goto, Throw
    <2>2. \A m \in Linkers \ {l} : pc'[m] = "idle" => Fresh(m)'
        BY <1>1, <2>0, <2>1, FreshStep
    <2>3. CASE Access(l)
        <3>1. /\ \A m \in Linkers : pc[m] \in Ended \cup {"idle"}
              /\ last' = l
              /\ pc'[l] \in {"stat", "failed"}
              /\ pc[l] = "idle"
              /\ UNCHANGED <<dir, content, oldKind>>
            BY <2>0, <2>3 DEF Access, files, setup, Goto, Throw
        <3>2. Fresh(l) /\ Fresh(l)'
            BY <2>0, <3>1 DEF Fresh
        <3>3. dir["out"] \in Inodes \cup {None}
            BY Names DEF Typed, TypeOK
        <3>4. LastInv(l)'
            BY <3>1, <3>2, <3>3 DEF LastInv, Mapping, Buffered, Fresh
        <3> QED BY <2>0, <2>1, <2>2, <3>1, <3>4 DEF EmptyOld
    <2>4. CASE ~Access(l)
        <3>1. last' = last /\ pc[l] \notin Ended \cup {"idle"} /\ pc'[l] # "idle"
            BY <1>1, <2>0, <2>4 DEF Step, Stat, UnlinkOld, MakeTemp, Record, Grow, Map, Open,
               OpenFails, WriteAtoms, Chmod, Rename, Write, Close, Truncate, Finish, Interrupt,
               GetPath, RemovePath, Kill, Running, Goto, Throw, Ended
        <3>2. last = l /\ LastInv(l)
            BY <2>0, <3>1
        <3>3. LastInv(l)' /\ EmptyOld'
            BY <1>1, <2>0, <3>2, LastStep DEF WholeInv
        <3> QED BY <2>0, <2>1, <2>2, <3>1, <3>2, <3>3
    <2> QED BY <2>3, <2>4
<1> QED BY <1>0, <1>1 DEF Next, AloneInv

-----------------------------------------------------------------------------
(* The theorems                                                            *)

LEMMA IInvHolds == Spec => []IInv
<1>1. Init => IInv
    BY InitTyped, InitTemporary, InitWhole, InitAlone DEF IInv
<1>2. IInv /\ [Next]_vars => IInv'
    BY TypedStep, TemporaryStep, WholeStep, AloneStep DEF IInv
<1> QED BY <1>1, <1>2, PTL DEF Spec

(* Every path leads to a file the model knows, and every file is a         *)
(* sequence of blocks, whatever the system calls of any linkers do to them *)
(* and wherever the linkers stop.                                          *)
THEOREM TypeCorrect == Spec => []TypeOK
<1>1. IInv => TypeOK
    BY DEF IInv, Typed
<1> QED BY <1>1, IInvHolds, PTL

(* writeOutputFile replaces the output by a whole image or leaves it: on   *)
(* an hfs volume, with room for the temporary name, for any number of      *)
(* linkers on the same path, images and old outputs of any size, and any   *)
(* failures, signals and kills.                                            *)
THEOREM OutputReplacedWhole == Spec => []OutputWholeOrAbsent
<1>1. IInv => OutputWholeOrAbsent
    <2> SUFFICES ASSUME IInv, Renames, dir["out"] # None
                 PROVE  Complete(content[dir["out"]]) /\ dir["out"] \in final
        BY DEF OutputWholeOrAbsent, Renames
    <2>1. dir["out"] \in {"old"} \cup Linkers
        BY Names DEF IInv, Typed, TypeOK, Inodes
    <2>2. CASE DeviceInv
        <3>1. dir["out"] = "old" /\ content["old"] = <<>> /\ "old" \in final
            BY <2>2 DEF DeviceInv, IInv, WholeInv
        <3> QED BY <3>1 DEF Complete
    <2>3. CASE FileInv
        BY <2>1, <2>3 DEF FileInv, Replaces, IInv, WholeInv, Complete
    <2> QED BY <2>2, <2>3 DEF IInv, WholeInv
<1> QED BY <1>1, IInvHolds, PTL

(* removePathAndExit: once the descriptor of the temporary file is         *)
(* recorded, an interrupted linker leaves no such file, on every volume    *)
(* and whatever other linkers rename and remove meanwhile.                 *)
THEOREM InterruptCleans == Spec => []InterruptRemovesTemporary
<1>1. IInv => InterruptRemovesTemporary
    BY DEF IInv, TemporaryInv, Temporary, InterruptRemovesTemporary
<1> QED BY <1>1, IInvHolds, PTL

(* The exit status of an ld that is alone on its output: 0 means that the  *)
(* output is its image, unless write() was cut short, and a failure never  *)
(* leaves a part of it, unless the output itself was mapped.               *)
THEOREM ExitStatusTells == Spec => []ExitTellsOutput
<1>1. IInv => ExitTellsOutput
    <2> SUFFICES ASSUME IInv, ~overlap, NEW l \in Linkers, last = l, l \notin cut
                 PROVE  /\ pc[l] = "done" =>
                              /\ dir["out"] # None
                              /\ (dir["out"] = "old" => oldKind = "regular") =>
                                     content[dir["out"]] = Whole(l) /\ dir["out"] \in final
                        /\ pc[l] = "failed" /\ ~(hfs /\ tooLong) /\ dir["out"] # None =>
                              ((\E b \in 1..Len(content[dir["out"]]) : content[dir["out"]][b] = l)
                                  => content[dir["out"]] = Whole(l))
        BY DEF ExitTellsOutput
    <2>1. LastInv(l)
        BY DEF IInv, AloneInv
    <2> QED BY <2>1 DEF LastInv, Unsized, InPlace, Free
<1> QED BY <1>1, IInvHolds, PTL
=============================================================================
