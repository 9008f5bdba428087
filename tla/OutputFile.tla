----------------------------- MODULE OutputFile -----------------------------
(* How ld puts the linked image in place: OutputFile::writeOutputFile, the *)
(* SIGINT handler removePathAndExit and the exits of main.  Several ld     *)
(* processes write the same output path, one after the other or at the     *)
(* same time; each system call is a step, any of them can fail, and a      *)
(* process can be interrupted or killed between any two of them.           *)
(*                                                                         *)
(* A file is an inode whose content is a sequence of blocks; a block is    *)
(* the name of the linker that wrote it, "old" or "zero".  The directory   *)
(* maps paths to inodes: unlink and rename change it, and the handler asks *)
(* it for the path of an open file.  What reaches the disk when the        *)
(* machine itself stops is not modelled: all processes see every write.    *)
EXTENDS Naturals, Sequences

CONSTANTS
    Linkers,        \* the ld processes, each started at most once
    Size,           \* blocks in the image that each of them writes
    Setups,         \* where they run: a set of records of the fields below
    None            \* no inode, no path, no descriptor

ASSUME SizeAssumption == Size \in [Linkers -> Nat \ {0}]
ASSUME SetupsAssumption ==
    \A s \in Setups :
        /\ s.hfs \in BOOLEAN         \* is the output on an hfs volume?
        /\ s.tooLong \in BOOLEAN     \* no room to add ".ld_XXXXXX" to the path?
        /\ s.slash \in BOOLEAN       \* does the path name a directory?
        /\ s.oldKind \in {None, "regular", "device", "socket"}    \* what is there
        /\ s.oldSize \in Nat         \* and how many blocks it has
        /\ s.overlap \in BOOLEAN     \* may two linkers run at the same time?
ASSUME NamesAssumption == /\ None \notin Linkers \cup {"out", "old"}
                          /\ Linkers \cap {"out", "old", "zero"} = {}

\* The output path, and the temporary path mkstemp makes for each linker.
Paths == {"out"} \cup Linkers
\* The file found at the output path, and the file each linker may create.
Inodes == {"old"} \cup Linkers

VARIABLES
    hfs, tooLong, slash, oldKind, overlap,  \* the setup of this behaviour
    dir,        \* [Paths -> Inodes or None]
    content,    \* [Inodes -> sequence of blocks]
    final,      \* the inodes with the permissions of a linked image
    pc,         \* [Linkers -> where in writeOutputFile]
    regular, mappable,  \* outputIsRegularFile, outputIsMappableFile
    handler,    \* the linkers with removePathAndExit installed
    fd,         \* [Linkers -> inode the local fd refers to, or None]
    toRemove,   \* [Linkers -> inode of sDescriptorOfPathToRemove, or None]
    caught,     \* [Linkers -> path the handler got from F_GETPATH, or None]
    cut,        \* the linkers whose write() took less than the whole image
    last        \* the linker that was started last, or None

files == <<dir, content, final>>
flags == <<regular, mappable, handler, fd, toRemove, caught>>
vars == <<hfs, tooLong, slash, oldKind, overlap, files, pc, flags, cut, last>>
setup == <<hfs, tooLong, slash, oldKind, overlap>>

Ended == {"done", "failed", "interrupted", "killed"}
Blocks == {"old", "zero"} \cup Linkers
Whole(l) == [b \in 1..Size[l] |-> l]

\* ftruncate and truncate: cut, or pad with zeros.
Resized(s, n) == [b \in 1..n |-> IF b <= Len(s) THEN s[b] ELSE "zero"]

\* The first k blocks of l's image written over s.
Overwritten(s, l, k) ==
    [b \in 1..(IF Len(s) > k THEN Len(s) ELSE k) |-> IF b <= k THEN l ELSE s[b]]

Init ==
    /\ \E s \in Setups :
         /\ hfs = s.hfs /\ tooLong = s.tooLong /\ slash = s.slash
         /\ oldKind = s.oldKind /\ overlap = s.overlap
         /\ content = [i \in Inodes |->
                IF i = "old" /\ s.oldKind = "regular" THEN [b \in 1..s.oldSize |-> "old"] ELSE <<>>]
    /\ dir = [p \in Paths |-> IF p = "out" /\ oldKind # None THEN "old" ELSE None]
    /\ final = {"old"}
    /\ pc = [l \in Linkers |-> "idle"]
    /\ regular = [l \in Linkers |-> FALSE]
    /\ mappable = [l \in Linkers |-> FALSE]
    /\ handler = {}
    /\ fd = [l \in Linkers |-> None]
    /\ toRemove = [l \in Linkers |-> None]
    /\ caught = [l \in Linkers |-> None]
    /\ cut = {}
    /\ last = None

Goto(l, p) == pc' = [pc EXCEPT ![l] = p]
\* throwf: the exception is caught in main, which returns 1.
Throw(l) == Goto(l, "failed")
Unlinked(p) == [dir EXCEPT ![p] = None]

\* st_mode & S_IFREG: the bit is also set in the mode of a socket.
IsRegular(i) == i # "old" \/ oldKind \in {"regular", "socket"}

\* Where the mapped image is: the temporary file, or the output itself.
TmpOutput(l) == IF tooLong THEN "out" ELSE l

\* A new ld gets to writeOutputFile; it gives up if it may not write the output.
Access(l) ==
    /\ pc[l] = "idle"
    /\ overlap \/ \A m \in Linkers : pc[m] \in Ended \cup {"idle"}
    /\ last' = l
    /\ \/ Goto(l, "stat")
       \/ dir["out"] # None /\ Throw(l)
    /\ UNCHANGED <<setup, files, flags, cut>>

\* stat of the output, statfs of it or of its directory; a path without a
\* directory is not looked up, and a new file there is not mapped.
Stat(l) ==
    /\ pc[l] = "stat"
    /\ LET exists == dir["out"] # None
           reg == exists => IsRegular(dir["out"])
           map == reg /\ hfs /\ (exists \/ slash)
       IN  /\ regular' = [regular EXCEPT ![l] = reg]
           /\ mappable' = [mappable EXCEPT ![l] = map]
           /\ Goto(l, IF ~map THEN "open" ELSE IF exists THEN "unlink" ELSE "temp")
    /\ UNCHANGED <<setup, files, handler, fd, toRemove, caught, cut, last>>

\* The old output goes away before the new one is made; failure is ignored.
UnlinkOld(l) ==
    /\ pc[l] = "unlink"
    /\ dir' \in {dir, Unlinked("out")}
    /\ Goto(l, "temp")
    /\ UNCHANGED <<setup, content, final, flags, cut, last>>

\* open with O_CREAT: the file at the path, or a new one.
Opened(l) == IF dir["out"] = None THEN l ELSE dir["out"]
OpenOutput(l) ==
    /\ fd' = [fd EXCEPT ![l] = Opened(l)]
    /\ dir' = [dir EXCEPT !["out"] = Opened(l)]
    /\ final' = final \cup {Opened(l)}
OpenFails(l) == Throw(l) /\ UNCHANGED <<fd, dir, final>>
CanOpen == dir["out"] = "old" => oldKind # "socket"

\* Mistake: the fallback for long paths is used for every path.
MakeTempInPlace(l) ==
    /\ pc[l] = "temp"
    /\ handler' = handler \cup {l}
    /\ \/ CanOpen /\ OpenOutput(l) /\ Goto(l, "grow")
       \/ OpenFails(l)
    /\ UNCHANGED <<setup, content, regular, mappable, toRemove, caught, cut, last>>

\* Mistake: the handler for SIGINT is not installed.
MakeTempNoHandler(l) ==
    /\ pc[l] = "temp"
    /\ \/ /\ ~tooLong
          /\ dir' = [dir EXCEPT ![l] = l]
          /\ fd' = [fd EXCEPT ![l] = l]
          /\ Goto(l, "record")
          /\ UNCHANGED final
       \/ tooLong /\ CanOpen /\ OpenOutput(l) /\ Goto(l, "grow")
       \/ OpenFails(l)
    /\ UNCHANGED <<setup, content, regular, mappable, handler, toRemove, caught, cut, last>>

\* The handler is installed, then the file to map is made.
MakeTemp(l) ==
    /\ pc[l] = "temp"
    /\ handler' = handler \cup {l}
    /\ \/ /\ ~tooLong
          /\ dir' = [dir EXCEPT ![l] = l]
          /\ fd' = [fd EXCEPT ![l] = l]
          /\ Goto(l, "record")
          /\ UNCHANGED final
       \/ tooLong /\ CanOpen /\ OpenOutput(l) /\ Goto(l, "grow")
       \/ OpenFails(l)
    /\ UNCHANGED <<setup, content, regular, mappable, toRemove, caught, cut, last>>

\* sDescriptorOfPathToRemove = fd, a step after mkstemp has returned.
Record(l) ==
    /\ pc[l] = "record"
    /\ toRemove' = [toRemove EXCEPT ![l] = fd[l]]
    /\ Goto(l, "grow")
    /\ UNCHANGED <<setup, files, regular, mappable, handler, fd, caught, cut, last>>

\* ftruncate to the size of the image; on failure the file is removed again.
Grow(l) ==
    /\ pc[l] = "grow"
    /\ \/ /\ content' = [content EXCEPT ![fd[l]] = Resized(@, Size[l])]
          /\ Goto(l, "map")
          /\ UNCHANGED dir
       \/ /\ dir' = Unlinked(TmpOutput(l))
          /\ Throw(l)
          /\ UNCHANGED content
    /\ UNCHANGED <<setup, final, flags, cut, last>>

\* mmap; when it fails nobody removes the temporary file.
Map(l) ==
    /\ pc[l] = "map"
    /\ Goto(l, "atoms") \/ Throw(l)
    /\ UNCHANGED <<setup, files, flags, cut, last>>

\* The branch without mmap: open the output itself, allocate the buffer.
Open(l) ==
    /\ pc[l] = "open"
    /\ \/ /\ regular[l] /\ CanOpen
          /\ OpenOutput(l)
          /\ Goto(l, "atoms") \/ Throw(l)   \* calloc
       \/ /\ ~regular[l] /\ dir["out"] # None
          /\ fd' = [fd EXCEPT ![l] = dir["out"]]
          /\ Goto(l, "atoms") \/ Throw(l)
          /\ UNCHANGED <<dir, final>>
       \/ OpenFails(l)
    /\ UNCHANGED <<setup, content, regular, mappable, handler, toRemove, caught, cut, last>>

\* writeAtoms and the UUID: into the mapped file, block by block, or into
\* memory.  A fixup that does not fit throws, wherever it is met.
WriteAtoms(l) ==
    /\ pc[l] = "atoms"
    /\ \/ /\ mappable[l] /\ content[fd[l]] # Whole(l)
          /\ \E b \in 1..Len(content[fd[l]]) :
                 /\ content[fd[l]][b] # l
                 /\ \A a \in 1..(b - 1) : content[fd[l]][a] = l
                 /\ content' = [content EXCEPT ![fd[l]][b] = l]
          /\ UNCHANGED pc
       \/ /\ mappable[l] => content[fd[l]] = Whole(l)
          /\ Goto(l, IF mappable[l] THEN "chmod" ELSE "write")
          /\ UNCHANGED content
       \/ Throw(l) /\ UNCHANGED content
    /\ UNCHANGED <<setup, dir, final, flags, cut, last>>

\* chmod works on the path; it fails if the path is gone.
Chmod(l) ==
    /\ pc[l] = "chmod"
    /\ \/ /\ dir[TmpOutput(l)] # None
          /\ final' = final \cup {dir[TmpOutput(l)]}
          /\ Goto(l, "rename")
          /\ UNCHANGED dir
       \/ /\ dir' = Unlinked(TmpOutput(l))
          /\ Throw(l)
          /\ UNCHANGED final
    /\ UNCHANGED <<setup, content, flags, cut, last>>

\* rename over the output; the failure of a rename to itself is ignored.
Rename(l) ==
    /\ pc[l] = "rename"
    /\ \/ /\ ~tooLong
          /\ dir[l] # None
          /\ dir' = [dir EXCEPT !["out"] = dir[l], ![l] = None]
          /\ Goto(l, "symbolmap")
       \/ /\ ~tooLong
          /\ dir' = Unlinked(l)
          /\ Throw(l)
       \/ tooLong /\ Goto(l, "symbolmap") /\ UNCHANGED dir
    /\ UNCHANGED <<setup, content, final, flags, cut, last>>

\* write() of the buffer: only -1 is taken for an error.
Write(l) ==
    /\ pc[l] = "write"
    /\ \/ \E k \in 0..Size[l] :
              /\ IF fd[l] = "old" /\ oldKind # "regular" THEN UNCHANGED content
                 ELSE content' = [content EXCEPT ![fd[l]] = Overwritten(@, l, k)]
              /\ cut' = IF k < Size[l] THEN cut \cup {l} ELSE cut
              /\ Goto(l, "close")
       \/ Throw(l) /\ UNCHANGED <<content, cut>>
    /\ UNCHANGED <<setup, dir, final, flags, last>>

\* The descriptor is forgotten and closed.
Close(l) ==
    /\ pc[l] = "close"
    /\ toRemove' = [toRemove EXCEPT ![l] = None]
    /\ fd' = [fd EXCEPT ![l] = None]
    /\ Goto(l, "truncate")
    /\ UNCHANGED <<setup, files, regular, mappable, handler, caught, cut, last>>

\* Mistake: the file is not truncated.
NoTruncate(l) ==
    /\ pc[l] = "truncate"
    /\ Goto(l, "symbolmap")
    /\ UNCHANGED <<setup, files, flags, cut, last>>

\* truncate of the path to the size of the image, not of the open file.
Truncate(l) ==
    /\ pc[l] = "truncate"
    /\ LET i == dir["out"]
       IN  IF i = None \/ (i = "old" /\ oldKind # "regular") THEN UNCHANGED content
           ELSE content' = [content EXCEPT ![i] = Resized(@, Size[l])]
    /\ Goto(l, "symbolmap")
    /\ UNCHANGED <<setup, dir, final, flags, cut, last>>

\* The rename of the symbol map, the link map and the end of main: each may
\* still throw.
Finish(l) ==
    /\ pc[l] = "symbolmap"
    /\ Goto(l, "done") \/ Throw(l)
    /\ UNCHANGED <<setup, files, flags, cut, last>>

Running(l) == pc[l] \notin Ended \cup {"idle", "getpath", "remove"}

\* SIGINT: the handler, or death where it is not installed.
Interrupt(l) ==
    /\ Running(l)
    /\ Goto(l, IF l \in handler THEN "getpath" ELSE "interrupted")
    /\ UNCHANGED <<setup, files, flags, cut, last>>

\* F_GETPATH on sDescriptorOfPathToRemove: the path the open file has now.
GetPath(l) ==
    /\ pc[l] = "getpath"
    /\ LET paths == {p \in Paths : toRemove[l] # None /\ dir[p] = toRemove[l]}
       IN  IF paths = {} THEN UNCHANGED caught
           ELSE \E p \in paths : caught' = [caught EXCEPT ![l] = p]
    /\ Goto(l, "remove")
    /\ UNCHANGED <<setup, files, regular, mappable, handler, fd, toRemove, cut, last>>

\* unlink of that path, whatever is there by now, and exit.
RemovePath(l) ==
    /\ pc[l] = "remove"
    /\ dir' = IF caught[l] = None THEN dir ELSE Unlinked(caught[l])
    /\ Goto(l, "interrupted")
    /\ UNCHANGED <<setup, content, final, flags, cut, last>>

\* SIGKILL, or a fault while writing to the mapping.
Kill(l) ==
    /\ Running(l) \/ pc[l] \in {"getpath", "remove"}
    /\ Goto(l, "killed")
    /\ UNCHANGED <<setup, files, flags, cut, last>>

Step(l) ==
    \/ Access(l) \/ Stat(l) \/ UnlinkOld(l)
    \/ MakeTemp(l) \/ Record(l) \/ Grow(l) \/ Map(l) \/ Open(l)
    \/ WriteAtoms(l) \/ Chmod(l) \/ Rename(l)
    \/ Write(l) \/ Close(l) \/ Truncate(l) \/ Finish(l)
    \/ Interrupt(l) \/ GetPath(l) \/ RemovePath(l) \/ Kill(l)

Next == \E l \in Linkers : Step(l)

Spec == Init /\ [][Next]_vars
----------------------------------------------------------------------------
\* Paths lead to files, descriptors to files, and contents are blocks.
TypeOK ==
    /\ dir \in [Paths -> Inodes \cup {None}]
    /\ \A i \in Inodes : content[i] \in Seq(Blocks)
    /\ final \subseteq Inodes
    /\ pc \in [Linkers -> Ended \cup {"idle", "stat", "unlink", "temp", "record", "grow",
                  "map", "open", "atoms", "chmod", "rename", "write", "close", "truncate",
                  "symbolmap", "getpath", "remove"}]
    /\ fd \in [Linkers -> Inodes \cup {None}]
    /\ toRemove \in [Linkers -> Inodes \cup {None}]
    /\ caught \in [Linkers -> Paths \cup {None}]
    /\ handler \subseteq Linkers /\ cut \subseteq Linkers
    /\ regular \in [Linkers -> BOOLEAN] /\ mappable \in [Linkers -> BOOLEAN]
    /\ last \in Linkers \cup {None}

Complete(s) == \/ \A b \in 1..Len(s) : s[b] = "old"
               \/ \E l \in Linkers : s = Whole(l)

(* writeOutputFile maps a temporary file and renames it: on an hfs volume, *)
(* for a path with a directory and with room for the temporary name,       *)
(* nobody ever finds a partly written image, or one with the permissions   *)
(* of mkstemp, at the output path, whichever linkers run together and      *)
(* wherever they fail or are killed.                                       *)
OutputWholeOrAbsent ==
    hfs /\ slash /\ ~tooLong /\ dir["out"] # None =>
        Complete(content[dir["out"]]) /\ dir["out"] \in final

(* removePathAndExit: a linker that is interrupted once its descriptor is  *)
(* recorded leaves no temporary file.                                      *)
InterruptRemovesTemporary ==
    \A l \in Linkers : pc[l] = "interrupted" /\ toRemove[l] # None => dir[l] = None

(* The exit status of an ld that is alone on its output tells what is      *)
(* there.  With 0, if write() took the whole image, the output is that     *)
(* image: on every volume, for every path and whatever longer or shorter   *)
(* file a link that died before left there.  After a failure the output    *)
(* is no mixture: if there is a block of the image in it, the image is     *)
(* whole.  Where the path is too long for a temporary one, ld maps the     *)
(* output itself, and a failure promises nothing.                          *)
ExitTellsOutput ==
    ~overlap => \A l \in Linkers : last = l /\ l \notin cut =>
        /\ pc[l] = "done" =>
              /\ dir["out"] # None
              /\ (dir["out"] = "old" => oldKind = "regular") =>
                     content[dir["out"]] = Whole(l) /\ dir["out"] \in final
        /\ pc[l] = "failed" /\ ~(hfs /\ tooLong) /\ dir["out"] # None =>
              LET s == content[dir["out"]]
              IN  (\E b \in 1..Len(s) : s[b] = l) => s = Whole(l)

(* The comment on the handler: "ld64 should clean up temporary files on    *)
(* SIGINT".  What it removes is a temporary file.                          *)
InterruptRemovesOnlyTemporaries ==
    \A l \in Linkers : pc[l] = "remove" /\ ~tooLong => caught[l] # "out"

(* The same comment, for the temporary file of any interrupted linker.     *)
InterruptCleansUp ==
    \A l \in Linkers : pc[l] = "interrupted" => dir[l] = None

(* The comment on unlink: "only delete existing file if it is a normal     *)
(* file (e.g. not /dev/null)".                                             *)
OnlyNormalFilesDeleted ==
    [][dir["out"] = "old" /\ dir'["out"] # "old" => oldKind = "regular"]_vars
=============================================================================
