-------------------------------- MODULE Ar ----------------------------------
(* ar(1): several processes work on one archive, which replace, append,    *)
(* delete and move rewrite in place under flock, which extract reads       *)
(* without a lock, and which the ranlib that ar runs at the end replaces   *)
(* by a new file.                                                          *)
(*                                                                         *)
(* A member is a name and who put it there; it takes one cell for its      *)
(* header and one for each block of its body.  An archive is the magic     *)
(* string and a sequence of cells, so that a file that is half rewritten   *)
(* can be read as the code would read it: a header wherever one is         *)
(* expected, a body of the length the header gives.  Long names, padding,  *)
(* modes and the date of the table of contents are left out.               *)
EXTENDS Integers, Sequences, SequencesExt, FiniteSets

CONSTANTS
    Procs,          \* the ar processes
    Jobs,           \* what one of them may be asked to do
    Archives,       \* sequences of members that may be there at first
    NoArchive,      \* "there is no archive", a possible member of Archives
    Missing,        \* names of files that cannot be opened
    Newer,          \* names whose file is newer than the member of the start
    BodySize,       \* [names -> blocks in the body]
    MaxTries        \* flock attempts, 10 in the code

ASSUME ProcsAssumption == IsFiniteSet(Procs) /\ 0 \notin Procs

Names == DOMAIN BodySize
Members == [name : Names, by : Procs \cup {"start"}]
Tocs == [name : {"toc"}, by : Procs \cup {"start"}]

\* Bodies have a size, and no file has the name of a table of contents.
ASSUME NamesAssumption == "toc" \notin Names /\ \A n \in Names : BodySize[n] \in Nat

\* A job: cmd "r", "q", "d", "m" or "x"; files, the arguments; where, "a", "b"
\* or "end", and pos, the position member; u, the option -u; ranlib, whether
\* ranlib is run at the end.
ASSUME JobsAssumption ==
    \A j \in Jobs :
        /\ j.cmd \in {"r", "q", "d", "m", "x"} /\ j.files \in Seq(Names)
        /\ j.where \in {"a", "b", "end"} /\ (j.where # "end" => j.pos \in Names)
        /\ j.u \in BOOLEAN /\ j.ranlib \in BOOLEAN

\* A table of contents comes before the members.
ASSUME ArchivesAssumption ==
    \A a \in Archives \ {NoArchive} :
        a \in Seq(Members) \/ (a # <<>> /\ Head(a) \in Tocs /\ Tail(a) \in Seq(Members))

Inodes == 1..(2 * Cardinality(Procs) + 1)

VARIABLES
    path,       \* the inode that the path of the archive leads to, or 0
    used,       \* inodes in use so far
    file,       \* [Inodes -> [magic : BOOLEAN, cells : Seq(cell)]]
    lock,       \* [Inodes -> the process that holds the flock, or 0]
    job,        \* [Procs -> Jobs]
    st,         \* [Procs -> the variables of the process]
    abs,        \* the members, as if the jobs had run one after the other
    exposed     \* the lock did not protect the archive, see below

vars == <<path, used, file, lock, job, st, abs, exposed>>
disk == <<path, used, file, lock>>

Hdr(m) == [hdr |-> TRUE, m |-> m]
Body(m) == [hdr |-> FALSE, m |-> m]
SizeOf(m) == IF m.name = "toc" THEN 0 ELSE BodySize[m.name]
CellsOf(m) == <<Hdr(m)>> \o [b \in 1..SizeOf(m) |-> Body(m)]
Cells(ms) == FlattenSeq([i \in 1..Len(ms) |-> CellsOf(ms[i])])
Made(p, name) == [name |-> name, by |-> p]

\* The elements of s at the places S.
Pick(s, S) == FlattenSeq([i \in 1..Len(s) |-> IF i \in S THEN <<s[i]>> ELSE <<>>])

\* The members made of the files that can be opened.
AllMade(p, names) ==
    FlattenSeq([i \in 1..Len(names) |-> IF names[i] \in Missing THEN <<>> ELSE <<Made(p, names[i])>>])

IsToc(c) == c.m.name = "toc"
NoToc(cells) == Pick(cells, {i \in 1..Len(cells) : ~IsToc(cells[i])})

Idle == [pc |-> "start", fd |-> 0, exists |-> FALSE, created |-> FALSE, tries |-> 0,
         at |-> 0, args |-> <<>>, t1 |-> <<>>, t2 |-> <<>>, t3 |-> <<>>,
         mods |-> FALSE, after |-> FALSE, err |-> FALSE, out |-> <<>>]

Init ==
    /\ job \in [Procs -> Jobs]
    /\ \E a \in Archives :
          /\ path = IF a = NoArchive THEN 0 ELSE 1
          /\ abs = IF a = NoArchive THEN <<>> ELSE Pick(a, {i \in 1..Len(a) : a[i].name # "toc"})
          /\ file = [i \in Inodes |-> [magic |-> i = path,
                                       cells |-> IF i = path THEN Cells(a) ELSE <<>>]]
    /\ used = {i \in Inodes : i = path}
    /\ lock = [i \in Inodes |-> 0]
    /\ st = [p \in Procs |-> Idle]
    /\ exposed = FALSE

Set(p, r) == st' = [st EXCEPT ![p] = r]
NewInode == CHOOSE i \in Inodes : i \notin used
Content(p) == file[st[p].fd].cells

\* The end of a process: its descriptor is closed and its lock released.
Unlock(p) == lock' = [i \in Inodes |-> IF lock[i] = p THEN 0 ELSE lock[i]]
\* error, badfmt and the returns of 1 after close_archive.
Fail(p) == Set(p, [st[p] EXCEPT !.pc = "failed"]) /\ Unlock(p)

Ended == {"done", "failed", "killed"}
InRanlib(p) == st[p].pc \in {"ranlib", "inplace", "unlink", "create", "library"}
\* ranlib takes no lock: whoever runs at the same time is not protected.
RanlibOverlaps(p) ==
    \E q \in Procs \ {p} : st[q].pc \notin Ended \cup {"start"}

\* replace asks whether the archive exists before it opens it.
Start(p) ==
    /\ st[p].pc = "start"
    /\ Set(p, [Idle EXCEPT !.pc = "open", !.args = job[p].files,
                           !.exists = path # 0, !.mods = job[p].where # "end"])
    /\ exposed' = (exposed \/ \E q \in Procs : InRanlib(q))
    /\ UNCHANGED <<disk, job, abs>>

\* open_archive makes a new archive for the commands that may, with
\* O_CREAT|O_EXCL; when there is one they open it by a second call.
Creates(p) == job[p].cmd \in {"q", "r"}
OpenNew(p, isCreated) ==
    /\ path' = NewInode
    /\ used' = used \cup {NewInode}
    /\ file' = [file EXCEPT ![NewInode] = [magic |-> FALSE, cells |-> <<>>]]
    /\ Set(p, [st[p] EXCEPT !.fd = NewInode, !.created = isCreated, !.pc = "lock"])
    /\ UNCHANGED <<lock, exposed>>

\* The first call; a reader skips the lock.
Open(p) ==
    /\ st[p].pc = "open"
    /\ \/ /\ path # 0 /\ Creates(p)
          /\ Set(p, [st[p] EXCEPT !.pc = "reopen"])
          /\ UNCHANGED <<disk, exposed>>
       \/ /\ path # 0 /\ ~Creates(p)
          /\ Set(p, [st[p] EXCEPT !.fd = path,
                                  !.pc = IF job[p].cmd = "x" THEN "magic" ELSE "lock"])
          /\ UNCHANGED <<disk, exposed>>
       \/ path = 0 /\ Creates(p) /\ OpenNew(p, TRUE)
       \/ /\ path = 0 /\ ~Creates(p)
          /\ Fail(p)
          /\ UNCHANGED <<path, used, file, exposed>>
    /\ UNCHANGED <<job, abs>>

\* The second call, still with O_CREAT: what ranlib has unlinked meanwhile is
\* made again, and not taken for created.
Reopen(p) ==
    /\ st[p].pc = "reopen"
    /\ \/ /\ path # 0
          /\ Set(p, [st[p] EXCEPT !.fd = path, !.pc = "lock"])
          /\ exposed' = (exposed \/ (job[p].cmd = "r" /\ ~st[p].exists))
          /\ UNCHANGED <<disk>>
       \/ path = 0 /\ OpenNew(p, FALSE)
    /\ UNCHANGED <<job, abs>>

\* Mistake: the answer that another process has the lock is not looked at.
FlockIgnored(p) ==
    /\ st[p].pc = "lock"
    /\ lock' = [lock EXCEPT ![st[p].fd] = IF @ = 0 THEN p ELSE @]
    /\ Set(p, [st[p] EXCEPT !.pc = "magic"])
    /\ UNCHANGED <<path, used, file, job, abs, exposed>>

\* flock with LOCK_NB, tried again after a second, MaxTries times in all.  It
\* may fail for another reason too, at any time: ar gives up (EINTR, EBADF,
\* ESTALE, ...), or takes it that the file system has no locks (ENOLCK,
\* ENOTSUP, EHOSTUNREACH, EBADRPC and all that are not listed) and goes on
\* without one.
Flock(p) ==
    /\ st[p].pc = "lock"
    /\ \/ /\ lock[st[p].fd] = 0
          /\ lock' = [lock EXCEPT ![st[p].fd] = p]
          /\ Set(p, [st[p] EXCEPT !.pc = "magic"])
          /\ UNCHANGED exposed
       \/ /\ lock[st[p].fd] # 0 /\ st[p].tries + 1 < MaxTries
          /\ Set(p, [st[p] EXCEPT !.tries = @ + 1])
          /\ UNCHANGED <<lock, exposed>>
       \/ Fail(p) /\ UNCHANGED exposed
       \/ /\ Set(p, [st[p] EXCEPT !.pc = "magic"])
          /\ exposed' = TRUE
          /\ UNCHANGED lock
    /\ UNCHANGED <<path, used, file, job, abs>>

\* The magic string is written to a new archive and expected in another.
\* replace of an archive that was not there goes on with the arguments, with
\* no temporary file for the members before the position.
Magic(p) ==
    /\ st[p].pc = "magic"
    /\ LET cmd == job[p].cmd
           next == IF cmd = "q" THEN "append" ELSE IF cmd = "r" /\ ~st[p].exists THEN "rest" ELSE "read"
           at == IF cmd = "q" THEN Len(Content(p)) ELSE 0
       IN  \/ /\ st[p].created
              /\ file' = [file EXCEPT ![st[p].fd].magic = TRUE]
              /\ Set(p, [st[p] EXCEPT !.pc = next, !.at = at])
              /\ UNCHANGED lock
           \/ /\ ~st[p].created /\ file[st[p].fd].magic
              /\ Set(p, [st[p] EXCEPT !.pc = next, !.at = at])
              /\ UNCHANGED <<file, lock>>
           \/ /\ ~st[p].created /\ ~file[st[p].fd].magic
              /\ Fail(p)
              /\ UNCHANGED file
    /\ UNCHANGED <<path, used, job, abs, exposed>>
----------------------------------------------------------------------------
\* files(argv): the first argument that names the member is taken out.
ArgFor(p, m) == SelectInSeq(st[p].args, LAMBDA n : n = m.name)

\* get_arobj: the header at the offset, and whether its body is all there.
AtEnd(p) == st[p].at >= Len(Content(p))
Header(p) == Content(p)[st[p].at + 1]
BodyThere(p) == st[p].at + 1 + SizeOf(Header(p).m) <= Len(Content(p))
MemberCells(p) == SubSeq(Content(p), st[p].at + 1, st[p].at + 1 + SizeOf(Header(p).m))
Skipped(p) == st[p].at + 1 + SizeOf(Header(p).m)

\* The temporary file that curfd stands for.
ToCurrent(s, cells, last) ==
    IF ~s.after THEN [s EXCEPT !.t1 = @ \o cells]
    ELSE IF last = 2 THEN [s EXCEPT !.t2 = @ \o cells] ELSE [s EXCEPT !.t3 = @ \o cells]

\* The member at the offset is kept; the position member moves curfd on.
Kept(p, lastTmp) ==
    LET isKey == st[p].mods /\ Header(p).m.name = job[p].pos
        s0 == IF isKey /\ job[p].where = "b" THEN [st[p] EXCEPT !.after = TRUE] ELSE st[p]
        s1 == ToCurrent(s0, MemberCells(p), lastTmp)
        s2 == IF isKey THEN [s1 EXCEPT !.mods = FALSE, !.after = TRUE] ELSE s1
    IN  [s2 EXCEPT !.at = Skipped(p)]

\* The same without a look at the position: label useold.
KeptOld(p) == [ToCurrent(st[p], MemberCells(p), 2) EXCEPT !.at = Skipped(p)]

\* -u: the file on disk is newer than the member.
DiskNewer(m) == m.by = "start" /\ m.name \in Newer

\* Does the turn of the loop read the body of the member, or skip it?
Selects(p, m) == ArgFor(p, m) # 0 \/ (job[p].cmd = "x" /\ job[p].files = <<>>)
WantsBody(p, m) ==
    CASE job[p].cmd = "r" -> ~Selects(p, m) \/ m.name \in Missing \/ (job[p].u /\ ~DiskNewer(m))
      [] job[p].cmd = "d" -> ~Selects(p, m)
      [] job[p].cmd = "m" -> TRUE
      [] job[p].cmd = "x" -> Selects(p, m) /\ ~(job[p].u /\ DiskNewer(m))

\* One turn of the loop of replace.
ReplaceMember(p, m) ==
    LET rest == RemoveAt(st[p].args, ArgFor(p, m))
    IN  /\ job[p].cmd = "r"
        /\ \/ ~Selects(p, m) /\ Set(p, Kept(p, 2))
           \/ /\ Selects(p, m) /\ WantsBody(p, m)
              /\ Set(p, [KeptOld(p) EXCEPT !.args = rest, !.err = @ \/ m.name \in Missing])
           \/ /\ Selects(p, m) /\ ~WantsBody(p, m)
              /\ Set(p, [ToCurrent(st[p], CellsOf(Made(p, m.name)), 2)
                             EXCEPT !.args = rest, !.at = Skipped(p)])

\* One turn of the loop of delete.
DeleteMember(p, m) ==
    /\ job[p].cmd = "d"
    /\ \/ ~Selects(p, m) /\ Set(p, [st[p] EXCEPT !.t1 = @ \o MemberCells(p), !.at = Skipped(p)])
       \/ Selects(p, m) /\ Set(p, [st[p] EXCEPT !.args = RemoveAt(@, ArgFor(p, m)), !.at = Skipped(p)])

\* One turn of the loop of move: members before the key, the selected ones,
\* members after the key.
MoveMember(p, m) ==
    /\ job[p].cmd = "m"
    /\ \/ ~Selects(p, m) /\ Set(p, Kept(p, 3))
       \/ Selects(p, m) /\ Set(p, [st[p] EXCEPT !.t2 = @ \o MemberCells(p),
                                   !.args = RemoveAt(@, ArgFor(p, m)), !.at = Skipped(p)])

\* One turn of the loop of extract.  A member older than the file on disk is
\* left where it is: the next header is looked for in its body.
ExtractMember(p, m) ==
    LET all == job[p].files = <<>>
        rest == IF all THEN <<>> ELSE RemoveAt(st[p].args, ArgFor(p, m))
    IN  /\ job[p].cmd = "x"
        /\ \/ ~Selects(p, m) /\ Set(p, [st[p] EXCEPT !.at = Skipped(p)])
           \/ /\ Selects(p, m) /\ ~WantsBody(p, m)
              /\ Set(p, [st[p] EXCEPT !.args = rest, !.at = @ + 1])
           \/ /\ WantsBody(p, m)
              /\ Set(p, [st[p] EXCEPT !.args = rest, !.at = Skipped(p),
                         !.out = Append(@, MemberCells(p)),
                         !.pc = IF ~all /\ rest = <<>> THEN "close" ELSE "read"])

\* get_arobj and the loop that uses it; badfmt when there is no header where
\* one should be, or the file ends in a body that is read.
ReadMember(p) ==
    /\ st[p].pc = "read" /\ ~AtEnd(p)
    /\ LET m == Header(p).m
           good == Header(p).hdr /\ (WantsBody(p, m) => BodyThere(p))
       IN  \/ /\ good
              /\ ReplaceMember(p, m) \/ DeleteMember(p, m) \/ MoveMember(p, m) \/ ExtractMember(p, m)
              /\ UNCHANGED lock
           \/ ~good /\ Fail(p)
    /\ UNCHANGED <<path, used, file, job, abs, exposed>>

\* The archive is read; a position member that was not met is an error.
EndOfArchive(p) ==
    /\ st[p].pc = "read" /\ AtEnd(p)
    /\ \/ st[p].mods /\ Fail(p)
       \/ /\ ~st[p].mods
          /\ Set(p, [st[p] EXCEPT !.pc = CASE job[p].cmd = "r" -> "rest"
                                           [] job[p].cmd = "x" -> "close"
                                           [] OTHER -> "rewrite",
                                  !.at = 0,
                                  !.err = @ \/ (job[p].cmd \in {"d", "m", "x"} /\ st[p].args # <<>>)])
          /\ UNCHANGED lock
    /\ UNCHANGED <<path, used, file, job, abs, exposed>>

\* label append of replace: arguments that are not in the archive go to the
\* end, or with a position to the end of the members before it.
NewMembers(p) == Cells(AllMade(p, st[p].args))
LeftOver(p) ==
    /\ st[p].pc = "rest"
    /\ \/ /\ ~st[p].exists /\ job[p].where # "end" /\ NewMembers(p) # <<>>
          /\ Fail(p)                        \* write to descriptor -1
       \/ /\ st[p].exists \/ job[p].where = "end" \/ NewMembers(p) = <<>>
          /\ Set(p, [(IF job[p].where = "end" THEN [st[p] EXCEPT !.t2 = @ \o NewMembers(p)]
                      ELSE [st[p] EXCEPT !.t1 = @ \o NewMembers(p)])
                     EXCEPT !.pc = "rewrite", !.at = 0, !.args = <<>>,
                            !.err = @ \/ \E i \in 1..Len(st[p].args) : st[p].args[i] \in Missing])
          /\ UNCHANGED lock
    /\ UNCHANGED <<path, used, file, job, abs, exposed>>
----------------------------------------------------------------------------
\* A write at an offset of the open archive, a cell at a time; a gap left by
\* someone who has cut the file meanwhile is filled with zeros.
Hole == Body([name |-> "zeros", by |-> "start"])
Written(s, n, c) ==
    [i \in 1..(IF Len(s) > n THEN Len(s) ELSE n) |->
        IF i = n THEN c ELSE IF i <= Len(s) THEN s[i] ELSE Hole]
Resized(s, n) == [i \in 1..n |-> IF i <= Len(s) THEN s[i] ELSE Hole]
Image(p) == st[p].t1 \o st[p].t2 \o st[p].t3

\* Mistake: the archive is emptied before the temporary files are copied back.
RewriteEmptied(p) ==
    /\ st[p].pc = "rewrite" /\ st[p].at < Len(Image(p))
    /\ file' = [file EXCEPT ![st[p].fd].cells =
                   Written(IF st[p].at = 0 THEN <<>> ELSE @, st[p].at + 1, Image(p)[st[p].at + 1])]
    /\ Set(p, [st[p] EXCEPT !.at = @ + 1])
    /\ UNCHANGED <<path, used, lock, job, abs, exposed>>

\* The temporary files are copied back over the archive.
Rewrite(p) ==
    /\ st[p].pc = "rewrite" /\ st[p].at < Len(Image(p))
    /\ file' = [file EXCEPT ![st[p].fd].cells = Written(@, st[p].at + 1, Image(p)[st[p].at + 1])]
    /\ Set(p, [st[p] EXCEPT !.at = @ + 1])
    /\ UNCHANGED <<path, used, lock, job, abs, exposed>>

Cut(p) ==
    /\ st[p].pc = "rewrite" /\ st[p].at = Len(Image(p))
    /\ file' = [file EXCEPT ![st[p].fd].cells = Resized(@, Len(Image(p)))]
    /\ Set(p, [st[p] EXCEPT !.pc = "close"])
    /\ UNCHANGED <<path, used, lock, job, abs, exposed>>

\* append writes the members to the archive itself, from its end on.
AppendCell(p) ==
    /\ st[p].pc = "append" /\ st[p].args # <<>> /\ Head(st[p].args) \notin Missing
    /\ LET cells == CellsOf(Made(p, Head(st[p].args)))
           k == Len(st[p].t1) + 1                 \* cells of the member written so far
       IN  /\ file' = [file EXCEPT ![st[p].fd].cells = Written(@, st[p].at + 1, cells[k])]
           /\ Set(p, IF k = Len(cells)
                     THEN [st[p] EXCEPT !.at = @ + 1, !.t1 = <<>>, !.args = Tail(@)]
                     ELSE [st[p] EXCEPT !.at = @ + 1, !.t1 = Append(@, cells[k])])
    /\ UNCHANGED <<path, used, lock, job, abs, exposed>>
AppendMissing(p) ==
    /\ st[p].pc = "append" /\ st[p].args # <<>> /\ Head(st[p].args) \in Missing
    /\ Set(p, [st[p] EXCEPT !.args = Tail(@), !.err = TRUE])
    /\ UNCHANGED <<disk, job, abs, exposed>>
AppendEnd(p) ==
    /\ st[p].pc = "append" /\ st[p].args = <<>>
    /\ Set(p, [st[p] EXCEPT !.pc = "close"])
    /\ UNCHANGED <<disk, job, abs, exposed>>
----------------------------------------------------------------------------
(* What the commands promise, in terms of the sequence of members.  An     *)
(* argument stands for one member: the n-th argument with a name for the   *)
(* n-th member with that name.                                             *)
Nth(s, i, Same(_, _)) == Cardinality({j \in 1..i : Same(s[j], s[i])})
Count(s, Test(_)) == Cardinality({j \in 1..Len(s) : Test(s[j])})
SameName(a, b) == a.name = b.name
SameArg(a, b) == a = b

Selected(ms, args) ==
    {i \in 1..Len(ms) : Nth(ms, i, SameName) <= Count(args, LAMBDA n : n = ms[i].name)}
Unmatched(ms, args) ==
    {j \in 1..Len(args) : Nth(args, j, SameArg) > Count(ms, LAMBDA m : m.name = args[j])}

\* Where new members go: the end of ms, or next to the first of the members
\* keep that has the name of the position.
Keys(ms, keep, j) == {i \in keep : ms[i].name = j.pos}
Place(ms, keep, j) ==
    LET keys == Keys(ms, keep, j)
        key == CHOOSE i \in keys : \A k \in keys : i <= k
    IN  IF j.where = "end" \/ keys = {} THEN Len(ms) ELSE IF j.where = "a" THEN key ELSE key - 1
Insert(ms, keep, new, j) ==
    LET cut == Place(ms, keep, j) IN SubSeq(ms, 1, cut) \o new \o SubSeq(ms, cut + 1, Len(ms))

\* The members after those that are selected have been replaced.
Replaced(p, ms, j) ==
    [i \in 1..Len(ms) |-> IF /\ i \in Selected(ms, j.files) /\ ms[i].name \notin Missing
                             /\ j.u => DiskNewer(ms[i])
                          THEN Made(p, ms[i].name) ELSE ms[i]]

ApplyReplace(p, ms, j) ==
    Insert(Replaced(p, ms, j), (1..Len(ms)) \ Selected(ms, j.files),
           AllMade(p, Pick(j.files, Unmatched(ms, j.files))), j)

ApplyMove(ms, j) ==
    LET sel == Selected(ms, j.files)
        stay == Pick(ms, (1..Len(ms)) \ sel)
    IN  Insert(stay, 1..Len(stay), Pick(ms, sel), j)

Apply(p, ms) ==
    LET j == job[p]
    IN  CASE j.cmd = "r" -> ApplyReplace(p, ms, j)
          [] j.cmd = "q" -> ms \o AllMade(p, j.files)
          [] j.cmd = "d" -> Pick(ms, (1..Len(ms)) \ Selected(ms, j.files))
          [] j.cmd = "m" -> ApplyMove(ms, j)
          [] j.cmd = "x" -> ms
----------------------------------------------------------------------------
\* close_archive releases the lock; main runs ranlib only on success.
Close(p) ==
    /\ st[p].pc = "close"
    /\ Unlock(p)
    /\ abs' = IF exposed THEN abs ELSE Apply(p, abs)
    /\ Set(p, [st[p] EXCEPT !.pc = IF st[p].err THEN "failed"
                                   ELSE IF job[p].ranlib THEN "ranlib" ELSE "done", !.at = 0])
    /\ exposed' = (exposed \/ (job[p].ranlib /\ RanlibOverlaps(p)))
    /\ UNCHANGED <<path, used, file, job>>

\* ranlib can walk the headers: they are where those of the members would be.
WellFormed(cells) ==
    LET heads == SelectSeq(cells, LAMBDA c : c.hdr)
        ideal == Cells([i \in 1..Len(heads) |-> heads[i].m])
    IN  /\ Len(ideal) = Len(cells)
        /\ \A i \in 1..Len(cells) : ideal[i].hdr = cells[i].hdr

\* ranlib maps the archive and makes the table of contents.  One of the same
\* size is written over the old one, else a new file is made.
Ranlib(p) ==
    /\ st[p].pc = "ranlib"
    /\ \/ path = 0 /\ Fail(p)
       \/ /\ path # 0
          /\ LET cells == file[path].cells
                 members == NoToc(cells)
             IN  \/ ~WellFormed(cells) /\ Fail(p)
                 \/ /\ WellFormed(cells)
                    /\ \/ /\ members = <<>>
                          /\ Set(p, [st[p] EXCEPT !.pc = "done"])
                       \/ /\ members # <<>> /\ IsToc(cells[1])
                          /\ Set(p, [st[p] EXCEPT !.pc = "inplace"])
                       \/ /\ members # <<>>
                          /\ Set(p, [st[p] EXCEPT !.pc = "unlink", !.at = 0,
                                     !.t1 = <<Hdr(Made(p, "toc"))>> \o members,
                                     !.t2 = <<>>, !.t3 = <<>>])
                    /\ UNCHANGED lock
    /\ UNCHANGED <<path, used, file, job, abs, exposed>>

\* The magic and the table of contents are written over what is there now.
RanlibInPlace(p) ==
    /\ st[p].pc = "inplace"
    /\ \/ path = 0 /\ Fail(p) /\ UNCHANGED file
       \/ /\ path # 0
          /\ file' = [file EXCEPT ![path] =
                          [magic |-> TRUE, cells |-> Written(@.cells, 1, Hdr(Made(p, "toc")))]]
          /\ Set(p, [st[p] EXCEPT !.pc = "done"])
          /\ UNCHANGED lock
    /\ UNCHANGED <<path, used, job, abs, exposed>>

RanlibUnlink(p) ==
    /\ st[p].pc = "unlink"
    /\ path' = 0
    /\ Set(p, [st[p] EXCEPT !.pc = "create"])
    /\ UNCHANGED <<used, file, lock, job, abs, exposed>>

\* O_CREAT|O_TRUNC: a new file, or what another process has made meanwhile.
RanlibCreate(p) ==
    /\ st[p].pc = "create"
    /\ LET i == IF path = 0 THEN NewInode ELSE path
       IN  /\ path' = i
           /\ used' = used \cup {i}
           /\ file' = [file EXCEPT ![i] = [magic |-> FALSE, cells |-> <<>>]]
           /\ Set(p, [st[p] EXCEPT !.pc = "library", !.fd = i])
    /\ UNCHANGED <<lock, job, abs, exposed>>

\* The table of contents with the magic, then the members, are flushed.
RanlibWrite(p) ==
    /\ st[p].pc = "library"
    /\ \/ /\ st[p].at < Len(st[p].t1)
          /\ file' = [file EXCEPT ![st[p].fd] =
                 [magic |-> TRUE, cells |-> Written(@.cells, st[p].at + 1, st[p].t1[st[p].at + 1])]]
          /\ Set(p, [st[p] EXCEPT !.at = @ + 1])
       \/ /\ st[p].at = Len(st[p].t1)
          /\ Set(p, [st[p] EXCEPT !.pc = "done"])
          /\ UNCHANGED file
    /\ UNCHANGED <<path, used, lock, job, abs, exposed>>

\* A process dies, or a write fails.  Its lock goes with it.  The archive
\* suffers only if that is while it is written to.
Kill(p) ==
    /\ st[p].pc \notin Ended \cup {"start"}
    /\ Unlock(p)
    /\ Set(p, [st[p] EXCEPT !.pc = "killed"])
    /\ exposed' = (exposed \/ st[p].pc \in {"append", "rewrite", "close", "create", "library"})
    /\ UNCHANGED <<path, used, file, job, abs>>

Next == \E p \in Procs :
    \/ Start(p) \/ Open(p) \/ Reopen(p) \/ Flock(p) \/ Magic(p)
    \/ ReadMember(p) \/ EndOfArchive(p) \/ LeftOver(p) \/ Rewrite(p) \/ Cut(p)
    \/ AppendCell(p) \/ AppendMissing(p) \/ AppendEnd(p) \/ Close(p)
    \/ Ranlib(p) \/ RanlibInPlace(p) \/ RanlibUnlink(p) \/ RanlibCreate(p) \/ RanlibWrite(p)
    \/ Kill(p)

Spec == Init /\ [][Next]_vars
----------------------------------------------------------------------------
\* Locks are held by processes, the path and descriptors lead to files in use.
TypeOK ==
    /\ path \in Inodes \cup {0} /\ (path # 0 => path \in used)
    /\ \A i \in Inodes : /\ file[i].magic \in BOOLEAN
                         /\ \A c \in Range(file[i].cells) : c.hdr \in BOOLEAN
                         /\ lock[i] \in Procs \cup {0}
                         /\ i \notin used => file[i] = [magic |-> FALSE, cells |-> <<>>]
    /\ \A p \in Procs : st[p].fd \in used \cup {0} /\ st[p].tries \in 0..(MaxTries - 1)

Writing(p) == st[p].pc \in {"append", "rewrite", "close", "unlink", "create", "library"}

(* flock makes the jobs of all processes happen one after the other: when  *)
(* nobody is writing, the archive holds the members that the commands, as  *)
(* ar(1) describes them, produce in the order in which they closed it,     *)
(* each in place and whole, and it has its magic string.  Excepted are     *)
(* four things the code leaves open: an archive on a file system without   *)
(* locks, where open_archive goes on with none; the race that replace      *)
(* admits to; an overlap with ranlib, which takes no lock; and a death     *)
(* while writing.  A death at any other point changes nothing.             *)
Serialised ==
    ~exposed /\ (\A p \in Procs : ~Writing(p)) /\ path # 0 =>
        /\ NoToc(file[path].cells) = Cells(abs)
        /\ abs # <<>> => file[path].magic

(* The archive is rewritten in place.  At every step of that, and so when  *)
(* the process dies there, the members before the first one the command    *)
(* changes are still in the archive: for append, all of them.              *)
DeathSparesUnchanged ==
    \A p \in Procs : ~exposed /\ st[p].pc \in {"append", "rewrite"} =>
        IsPrefix(LongestCommonPrefix({Cells(abs), Cells(Apply(p, abs))}),
                 NoToc(Content(p)))

(* ar(1): "append the specified files to the archive", "exits 0 on         *)
(* success": when all is over the files an ar -q that exited with 0 put in *)
(* are in the archive (no job of the run removes any).                     *)
AppendedIsThere ==
    (\A q \in Procs : st[q].pc \in {"start", "done", "failed"}) =>
        \A p \in Procs : st[p].pc = "done" /\ job[p].cmd = "q" =>
            path # 0 /\ \A m \in Range(AllMade(p, job[p].files)) : Hdr(m) \in Range(file[path].cells)

(* ar(1) on -u with -x: "files in the archive will be extracted only if    *)
(* the archive file has a newer modification time than the file on disk":  *)
(* the other members are extracted.                                        *)
NewerAreExtracted ==
    \A p \in Procs : st[p].pc \in {"done", "failed"} /\ job[p].cmd = "x" /\ job[p].files = <<>> =>
        \A m \in Range(abs) : ~DiskNewer(m) => CellsOf(m) \in Range(st[p].out)
=============================================================================
