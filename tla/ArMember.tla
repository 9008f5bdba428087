------------------------------ MODULE ArMember ------------------------------
(* How ar moves one member: get_arobj, put_arobj, copy_ar and skip_arobj   *)
(* of ar/archive.c, byte by byte, from an archive or from a file on disk   *)
(* to an archive.  read() may return less than was asked for, and write()  *)
(* may take less than it was given.                                        *)
(*                                                                         *)
(* A header is one byte here: the length of the name that follows it (0 if *)
(* the name fits in the header) and the size field, which counts that name *)
(* too.  The bytes of the name, of the body and the padding are told apart.*)
EXTENDS Integers, Sequences

CONSTANTS
    DiskNames,      \* lengths of names that do not fit the header; 0: it fits
    StoredNames,    \* the same in the headers of the archive that is read
    BodySizes,      \* sizes of a member
    BufSize,        \* of copy_ar, 8K in the code
    PartialWrites   \* may write() take less than it was given?

ASSUME BufSizeAssumption == BufSize \in Nat \ {0}
ASSUME SizesAssumption == DiskNames \cup StoredNames \cup BodySizes \subseteq Nat

VARIABLES
    fromDisk,   \* was put_arobj given a stat buffer?
    member,     \* [lname, size] of the member
    src, at,    \* the file that is read, and the offset in it
    chdr,       \* lname and size as get_arobj leaves them
    out,        \* what is written
    buf, sz, nr, off,   \* of copy_ar
    written,    \* already_written
    pc

vars == <<fromDisk, member, src, at, chdr, out, buf, sz, nr, off, written, pc>>

Times(n, b) == [i \in 1..n |-> b]
BodyOf(n) == [i \in 1..n |-> <<"body", i>>]
Header(lname, size) == <<"header", lname, size>>
Odd(n) == n % 2 = 1
RoundedTo4(n) == ((n + 3) \div 4) * 4

\* A member as it stands in an archive, followed by the next one.
Stored(m) ==
    <<Header(m.lname, m.lname + m.size)>> \o Times(m.lname, "name") \o BodyOf(m.size)
        \o Times(IF Odd(m.lname + m.size) THEN 1 ELSE 0, "pad")

Init ==
    /\ fromDisk \in BOOLEAN
    /\ member \in [lname : IF fromDisk THEN DiskNames ELSE StoredNames, size : BodySizes]
    /\ src = IF fromDisk THEN BodyOf(member.size) ELSE Stored(member) \o <<"next">>
    /\ at = 0
    /\ chdr = [lname |-> 0, size |-> 0]
    /\ out = <<>> /\ buf = <<>> /\ sz = 0 /\ nr = 0 /\ off = 0 /\ written = 0
    /\ pc = IF fromDisk THEN "put" ELSE "get"

copying == <<buf, sz, nr, off>>

\* The size of the object is the field less the name.
GetArobj ==
    /\ pc = "get"
    /\ chdr' = [lname |-> src[1][2], size |-> src[1][3] - src[1][2]]
    /\ at' = 1 + src[1][2]
    /\ pc' = "put"
    /\ UNCHANGED <<fromDisk, member, src, out, copying, written>>

\* Mistake: the length in the header is not rounded up as the name is.
PutArobjUnrounded ==
    /\ pc = "put"
    /\ LET lname == IF fromDisk THEN member.lname ELSE chdr.lname
           size == IF fromDisk THEN member.size ELSE chdr.size
           header == IF fromDisk THEN Header(lname, size + lname) ELSE src[1]
           name == Times(lname, "name") \o Times(RoundedTo4(lname) - lname, "zero")
       IN  /\ out' = <<header>> \o name
           /\ written' = Len(name)
           /\ sz' = size
           /\ pc' = IF size = 0 THEN "done" ELSE "read"
    /\ UNCHANGED <<fromDisk, member, src, at, chdr, buf, nr, off>>

\* The header: a new one for a file from disk, else the last one read.  The
\* name is padded to four bytes.  copy_ar returns at once if there is nothing
\* to copy.
PutArobj ==
    /\ pc = "put"
    /\ LET lname == IF fromDisk THEN member.lname ELSE chdr.lname
           size == IF fromDisk THEN member.size ELSE chdr.size
           header == IF fromDisk THEN Header(RoundedTo4(lname), size + RoundedTo4(lname)) ELSE src[1]
           name == Times(lname, "name") \o Times(RoundedTo4(lname) - lname, "zero")
       IN  /\ out' = <<header>> \o name
           /\ written' = Len(name)
           /\ sz' = size
           /\ pc' = IF size = 0 THEN "done" ELSE "read"
    /\ UNCHANGED <<fromDisk, member, src, at, chdr, buf, nr, off>>

\* read(): some of what is left, at most a buffer full.
CopyRead ==
    /\ pc = "read" /\ sz > 0
    /\ \E k \in 1..(IF sz < BufSize THEN sz ELSE BufSize) :
          /\ at + k <= Len(src)
          /\ buf' = SubSeq(src, at + 1, at + k)
          /\ nr' = k /\ off' = 0 /\ sz' = sz - k /\ at' = at + k
    /\ pc' = "write"
    /\ UNCHANGED <<fromDisk, member, src, chdr, out, written>>

\* write() of nr bytes from off on; what is behind the bytes read is junk.
\* Then nr -= off and off += nw, in that order.
CopyWrite ==
    /\ pc = "write"
    /\ \E nw \in (IF PartialWrites THEN 1..nr ELSE {nr}) :
          /\ out' = out \o [i \in 1..nw |-> IF off + i <= Len(buf) THEN buf[off + i] ELSE "junk"]
          /\ nr' = nr - off
          /\ off' = off + nw
    /\ pc' = IF off' < nr' THEN "write" ELSE "read"
    /\ UNCHANGED <<fromDisk, member, src, at, chdr, buf, sz, written>>

\* The odd byte: read from an archive, written to one.
CopyPad ==
    /\ pc = "read" /\ sz = 0
    /\ at' = IF ~fromDisk /\ Odd(chdr.size + chdr.lname) THEN at + 1 ELSE at
    /\ out' = IF Odd((IF fromDisk THEN member.size ELSE chdr.size) + written)
              THEN Append(out, "pad") ELSE out
    /\ pc' = "done"
    /\ UNCHANGED <<fromDisk, member, src, chdr, copying, written>>

Next == GetArobj \/ PutArobj \/ CopyRead \/ CopyWrite \/ CopyPad
Spec == Init /\ [][Next]_vars
----------------------------------------------------------------------------
\* Offsets stay in the file and the counts of copy_ar are not negative.
TypeOK ==
    /\ at \in 0..Len(src)
    /\ chdr \in [lname : Nat, size : Nat]
    /\ sz \in 0..member.size /\ nr \in Nat /\ off \in Nat /\ written \in Nat
    /\ pc \in {"get", "put", "read", "write", "done"}

(* What is written is a member: get_arobj finds the header, a name of the  *)
(* length the header gives and the bytes of the body in order, and         *)
(* skip_arobj then stands at the end, where the next member goes; and the  *)
(* archive that was read is at its next member.                            *)
MemberSurvives ==
    pc = "done" =>
        /\ fromDisk \/ src[at + 1] = "next"
        /\ LET lname == out[1][2]
               size == out[1][3] - lname
           IN  /\ Len(out) = 1 + lname + size + (IF Odd(lname + size) THEN 1 ELSE 0)
               /\ SubSeq(out, 2 + lname, 1 + lname + size) = BodyOf(member.size)
               /\ \A i \in 2..(1 + lname) : out[i] \in {"name", "zero"}
----------------------------------------------------------------------------
(* The inductive invariant                                                 *)

\* Where the body starts in what is read; the header and the name that are
\* written.
Start == IF fromDisk THEN 0 ELSE 1 + member.lname
Named == RoundedTo4(member.lname)
Before ==
    <<Header(Named, Named + member.size)>>
        \o (Times(member.lname, "name") \o Times(Named - member.lname, "zero"))

\* The first k bytes of the body are written, after the header and the name.
WrittenUpTo(k) == out = Before \o BodyOf(k)

\* The size of the whole is what get_arobj took from the header, if there is
\* one; the reads are at the offset that sz leaves; what is read and what is
\* written make up the body as far as that.
CopyInv ==
    /\ pc = "get" => ~fromDisk
    /\ pc \in {"put", "read", "write"} /\ ~fromDisk =>
        chdr = [lname |-> member.lname, size |-> member.size]
    /\ pc = "put" => at = Start
    /\ pc \in {"read", "write"} =>
        /\ sz \in 0..member.size
        /\ at = Start + member.size - sz
        /\ written = Named
    /\ pc = "read" => WrittenUpTo(member.size - sz)
    /\ pc = "write" =>
        /\ off = 0 /\ nr \in 1..(member.size - sz)
        /\ buf = [i \in 1..nr |-> <<"body", member.size - sz - nr + i>>]
        /\ WrittenUpTo(member.size - sz - nr)

\* What is read stays what it was at the start.
SourceInv ==
    /\ fromDisk \in BOOLEAN
    /\ member \in [lname : IF fromDisk THEN DiskNames ELSE StoredNames, size : BodySizes]
    /\ src = IF fromDisk THEN BodyOf(member.size) ELSE Stored(member) \o <<"next">>

IInv == SourceInv /\ CopyInv /\ MemberSurvives
=============================================================================
