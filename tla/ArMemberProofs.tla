--------------------------- MODULE ArMemberProofs ---------------------------
(* A member that ar copies is the member that went in, for members, names  *)
(* and buffers of every size and every split of the reads.  Two hypotheses *)
(* are the ones without which it does not hold: write() takes all that it  *)
(* is given (a short write in copy_ar counts wrongly), and the names in    *)
(* the archive that is read are padded to four bytes, as ar writes them    *)
(* (put_arobj pads the name that it copies, but keeps the header).         *)
EXTENDS ArMember, SequenceTheorems, TLAPS

\* The lengths of names that ar itself stores.
NamesPadded == \A l \in StoredNames : l % 4 = 0

\* The bytes that the model tells apart.
Bytes ==
    {"name", "zero", "pad", "next"} \cup ({"header"} \X Nat \X Nat)
        \cup ({"body"} \X Nat)

\* What rounding to four does: nothing to what is rounded, and the result is
\* no less and even.
LEMMA Rounding ==
    ASSUME NEW n \in Nat
    PROVE  /\ RoundedTo4(n) \in Nat
           /\ RoundedTo4(n) >= n
           /\ ~Odd(RoundedTo4(n))
           /\ n % 4 = 0 => RoundedTo4(n) = n
<1>1. PICK m \in Nat : m = n + 3
  OBVIOUS
<1>2. PICK q \in Int : q = m \div 4
  OBVIOUS
<1>3. PICK r \in Int : r = n % 4 /\ 0 <= r /\ r < 4
  OBVIOUS
<1>4. PICK p \in Int : p = n \div 4 /\ n = 4 * p + r
  BY <1>3
<1>5. 4 * q <= m /\ m < 4 * q + 4
  BY <1>2
<1>6. RoundedTo4(n) = q * 4
  BY <1>1, <1>2 DEF RoundedTo4
<1>7. q * 4 \in Nat /\ q * 4 >= n /\ q * 4 = 2 * (q * 2)
  BY <1>1, <1>5
<1>8. (2 * (q * 2)) % 2 = 0
  OBVIOUS
<1>9. r = 0 => q = p
  BY <1>1, <1>4, <1>5
<1> QED
  BY <1>3, <1>4, <1>6, <1>7, <1>8, <1>9 DEF Odd

\* Runs of bytes, and bodies: sequences of the length they say.
LEMMA Runs ==
    ASSUME NEW n \in Nat
    PROVE  /\ \A b \in Bytes : Times(n, b) \in Seq(Bytes) /\ Len(Times(n, b)) = n
           /\ BodyOf(n) \in Seq(Bytes) /\ Len(BodyOf(n)) = n
<1>1. \A i \in 1..n : <<"body", i>> \in Bytes
  BY DEF Bytes
<1>2. BodyOf(n) \in [1..n -> Bytes]
  BY <1>1 DEF BodyOf
<1>3. \A b \in Bytes : Times(n, b) \in [1..n -> Bytes]
  BY DEF Times
<1>4. \A f \in [1..n -> Bytes] : f \in Seq(Bytes) /\ Len(f) = n
  OBVIOUS
<1> QED
  BY <1>2, <1>3, <1>4

\* Two sequences one after the other: where the elements of each are.
LEMMA JoinedLen ==
    ASSUME NEW S, NEW s \in Seq(S), NEW t \in Seq(S)
    PROVE  s \o t \in Seq(S) /\ Len(s \o t) = Len(s) + Len(t)
OBVIOUS

LEMMA JoinedFirst ==
    ASSUME NEW S, NEW s \in Seq(S), NEW t \in Seq(S), NEW i \in 1..Len(s)
    PROVE  (s \o t)[i] = s[i]
OBVIOUS

LEMMA JoinedSecond ==
    ASSUME NEW S, NEW s \in Seq(S), NEW t \in Seq(S), NEW i \in 1..Len(t)
    PROVE  (s \o t)[Len(s) + i] = t[i]
<1>1. Len(s) \in Nat /\ Len(t) \in Nat
  OBVIOUS
<1>2. Len(s) + i \in 1..(Len(s) + Len(t)) /\ Len(s) + i > Len(s) /\ (Len(s) + i) - Len(s) = i
  BY <1>1
<1> QED
  BY <1>2

\* A member as it is laid out: where the header, the body and what follows
\* are.
IsLaidOut(s, H, n, B, p, E, h, b, e) ==
    /\ s \in Seq(Bytes) /\ Len(s) = h + n + b + p + e
    /\ \A i \in 1..h : s[i] = H[i]
    /\ \A i \in 1..b : s[h + n + i] = B[i]
    /\ \A i \in 1..e : s[h + n + b + p + i] = E[i]

LEMMA LaidOut ==
    ASSUME NEW H \in Seq(Bytes), NEW N \in Seq(Bytes), NEW B \in Seq(Bytes),
           NEW P \in Seq(Bytes), NEW E \in Seq(Bytes),
           NEW h \in Nat, NEW n \in Nat, NEW b \in Nat, NEW p \in Nat, NEW e \in Nat,
           Len(H) = h, Len(N) = n, Len(B) = b, Len(P) = p, Len(E) = e
    PROVE  IsLaidOut((((H \o N) \o B) \o P) \o E, H, n, B, p, E, h, b, e)
<1>0. PICK s : s = (((H \o N) \o B) \o P) \o E
  OBVIOUS
<1>1. PICK c : c = H \o N
  OBVIOUS
<1>2. c \in Seq(Bytes) /\ Len(c) = h + n
  BY <1>1, JoinedLen, Zenon
<1>3. PICK d : d = c \o B
  OBVIOUS
<1>4. d \in Seq(Bytes) /\ Len(d) = h + n + b
  <2>1. d \in Seq(Bytes) /\ Len(d) = Len(c) + Len(B)
    BY <1>2, <1>3, JoinedLen, Zenon
  <2> QED
    BY <1>2, <2>1, Zenon
<1>5. PICK f : f = d \o P
  OBVIOUS
<1>6. f \in Seq(Bytes) /\ Len(f) = h + n + b + p
  BY <1>4, <1>5, JoinedLen, ZenonT(60)
<1>7. s = f \o E
  BY <1>0, <1>1, <1>3, <1>5, Zenon
<1>8. s \in Seq(Bytes) /\ Len(s) = h + n + b + p + e
  <2>1. s \in Seq(Bytes) /\ Len(s) = Len(f) + Len(E)
    BY <1>6, <1>7, JoinedLen, Zenon
  <2> QED
    BY <1>6, <2>1, Zenon
<1>9. \A i \in 1..(h + n + b) : s[i] = d[i]
  <2>1. \A i \in 1..(h + n + b) : i \in 1..(h + n + b + p)
    OBVIOUS
  <2>2. \A i \in 1..(h + n + b) : f[i] = d[i]
    BY <1>4, <1>5, JoinedFirst, Zenon
  <2>3. \A i \in 1..(h + n + b + p) : s[i] = f[i]
    <3>1. \A i \in 1..Len(f) : (f \o E)[i] = f[i]
      BY <1>6, JoinedFirst, Zenon
    <3> QED
      BY <1>6, <1>7, <3>1, Zenon
  <2> QED
    BY <2>1, <2>2, <2>3, Zenon
<1>10. \A i \in 1..h : s[i] = H[i]
  <2>1. \A i \in 1..h : i \in 1..(h + n) /\ i \in 1..(h + n + b)
    OBVIOUS
  <2>2. \A i \in 1..h : c[i] = H[i]
    BY <1>1, JoinedFirst, Zenon
  <2>3. \A i \in 1..(h + n) : d[i] = c[i]
    BY <1>2, <1>3, JoinedFirst, Zenon
  <2> QED
    BY <1>9, <2>1, <2>2, <2>3, Zenon
<1>11. \A i \in 1..b : s[h + n + i] = B[i]
  <2>1. \A i \in 1..b : h + n + i \in 1..(h + n + b)
    OBVIOUS
  <2>2. \A i \in 1..b : d[h + n + i] = B[i]
    <3>1. \A i \in 1..Len(B) : d[Len(c) + i] = B[i]
      BY <1>2, <1>3, JoinedSecond, Zenon
    <3> QED
      BY <1>2, <3>1, Zenon
  <2> QED
    BY <1>9, <2>1, <2>2, Zenon
<1>12. \A i \in 1..e : s[h + n + b + p + i] = E[i]
  <2>1. \A i \in 1..Len(E) : (f \o E)[Len(f) + i] = E[i]
    BY <1>6, JoinedSecond, Zenon
  <2> QED
    BY <1>6, <1>7, <2>1, Zenon
<1> QED
  BY <1>0, <1>8, <1>10, <1>11, <1>12, Zenon DEF IsLaidOut

\* A header and a name.
IsNamed(s, H, h, n, S) ==
    /\ s \in Seq(Bytes) /\ Len(s) = h + n
    /\ \A i \in 1..h : s[i] = H[i]
    /\ \A i \in (h + 1)..(h + n) : s[i] \in S

LEMMA LaidBefore ==
    ASSUME NEW H \in Seq(Bytes), NEW N \in Seq(Bytes), NEW h \in Nat, NEW n \in Nat,
           Len(H) = h, Len(N) = n, NEW S, \A i \in 1..n : N[i] \in S
    PROVE  IsNamed(H \o N, H, h, n, S)
<1>1. H \o N \in Seq(Bytes) /\ Len(H \o N) = h + n
  BY JoinedLen, Zenon
<1>2. \A i \in 1..h : (H \o N)[i] = H[i]
  BY JoinedFirst, Zenon
<1>3. \A i \in 1..n : (H \o N)[h + i] = N[i]
  BY JoinedSecond, ZenonT(60)
<1>4. ASSUME NEW i \in (h + 1)..(h + n)
      PROVE  (H \o N)[i] \in S
  <2>1. i - h \in 1..n /\ h + (i - h) = i
    OBVIOUS
  <2>2. (H \o N)[h + (i - h)] \in S
    BY <1>3, <2>1, Zenon
  <2> QED
    BY <2>1, <2>2, Zenon
<1> QED
  BY <1>1, <1>2, <1>4, Zenon DEF IsNamed

\* A body behind them, and a padding byte or none.
HasBody(o, c, m, B, b) ==
    /\ o = c \o B => Len(o) = m + b
    /\ o = Append(c \o B, "pad") => Len(o) = m + b + 1
    /\ \A i \in 1..m : o[i] = c[i]
    /\ SubSeq(o, m + 1, m + b) = B

LEMMA LaidBody ==
    ASSUME NEW c \in Seq(Bytes), NEW B \in Seq(Bytes), NEW m \in Nat, NEW b \in Nat,
           Len(c) = m, Len(B) = b, NEW o, o = c \o B \/ o = Append(c \o B, "pad")
    PROVE  HasBody(o, c, m, B, b)
<1>1. "pad" \in Bytes
  BY DEF Bytes
<1>2. PICK d : d = c \o B
  OBVIOUS
<1>3. d \in Seq(Bytes) /\ Len(d) = m + b
  BY <1>2, JoinedLen, Zenon
<1>4. \A i \in 1..m : d[i] = c[i]
  BY <1>2, JoinedFirst, Zenon
<1>5. \A i \in 1..b : d[m + i] = B[i]
  BY <1>2, JoinedSecond, ZenonT(60)
<1>6. Append(d, "pad") \in Seq(Bytes) /\ Len(Append(d, "pad")) = m + b + 1
  <2>1. Append(d, "pad") \in Seq(Bytes) /\ Len(Append(d, "pad")) = Len(d) + 1
    BY <1>1, <1>3
  <2> QED
    BY <1>3, <2>1, Zenon
<1>7. \A i \in 1..(m + b) : Append(d, "pad")[i] = d[i]
  <2>1. \A i \in 1..Len(d) : Append(d, "pad")[i] = d[i]
    BY <1>1, <1>3
  <2> QED
    BY <1>3, <2>1, Zenon
<1>8. o = d \/ o = Append(d, "pad")
  BY <1>2, Zenon
<1>9. o \in Seq(Bytes)
  BY <1>3, <1>6, <1>8, Zenon
<1>10. \A i \in 1..(m + b) : o[i] = d[i]
  BY <1>7, <1>8, Zenon
<1>11. SubSeq(o, m + 1, m + b) = B
  <2>1. SubSeq(o, m + 1, m + b) = [i \in 1..((m + b) - (m + 1) + 1) |-> o[(m + 1) + i - 1]]
    BY <1>9
  <2>2. (m + b) - (m + 1) + 1 = b /\ \A i \in 1..b : (m + 1) + i - 1 = m + i /\ m + i \in 1..(m + b)
    OBVIOUS
  <2>3. SubSeq(o, m + 1, m + b) = [i \in 1..b |-> o[m + i]]
    BY <2>1, <2>2
  <2>4. \A i \in 1..b : o[m + i] = B[i]
    BY <1>5, <1>10, <2>2, Zenon
  <2>5. B = [i \in 1..b |-> B[i]]
    OBVIOUS
  <2> QED
    BY <2>3, <2>4, <2>5
<1>12. \A i \in 1..m : o[i] = c[i]
  <2>1. \A i \in 1..m : i \in 1..(m + b)
    OBVIOUS
  <2> QED
    BY <1>4, <1>10, <2>1, Zenon
<1>13. o = c \o B => Len(o) = m + b
  BY <1>2, <1>3, Zenon
<1>14. o = Append(c \o B, "pad") => Len(o) = m + b + 1
  BY <1>2, <1>6, Zenon
<1> QED
  BY <1>11, <1>12, <1>13, <1>14, Zenon DEF HasBody

\* A body is its first bytes and the rest.
LEMMA BodyGrows ==
    ASSUME NEW k \in Nat, NEW n \in Nat
    PROVE  BodyOf(k) \o [i \in 1..n |-> <<"body", k + i>>] = BodyOf(k + n)
<1> DEFINE rest == [i \in 1..n |-> <<"body", k + i>>]
<1>1. rest \in Seq(Bytes) /\ Len(rest) = n
  <2>1. \A i \in 1..n : <<"body", k + i>> \in Bytes
    BY DEF Bytes
  <2>2. rest \in [1..n -> Bytes]
    BY <2>1
  <2>3. \A f \in [1..n -> Bytes] : f \in Seq(Bytes) /\ Len(f) = n
    OBVIOUS
  <2> QED
    BY <2>2, <2>3
<1>2. BodyOf(k) \in Seq(Bytes) /\ Len(BodyOf(k)) = k
  BY Runs
<1>3. BodyOf(k + n) \in Seq(Bytes) /\ Len(BodyOf(k + n)) = k + n
  BY Runs
<1>4. \A i \in 1..n : rest[i] = <<"body", k + i>>
  OBVIOUS
<1> HIDE DEF rest
<1>5. BodyOf(k) \o rest \in Seq(Bytes) /\ Len(BodyOf(k) \o rest) = k + n
  BY <1>1, <1>2
<1>6. ASSUME NEW i \in 1..(k + n)
      PROVE  (BodyOf(k) \o rest)[i] = BodyOf(k + n)[i]
  <2>1. BodyOf(k + n)[i] = <<"body", i>>
    BY DEF BodyOf
  <2>2. CASE i <= k
    <3>1. (BodyOf(k) \o rest)[i] = BodyOf(k)[i]
      BY <1>1, <1>2, <2>2
    <3> QED
      BY <3>1, <2>1, <2>2 DEF BodyOf
  <2>3. CASE i > k
    <3>1. (BodyOf(k) \o rest)[i] = rest[i - k]
      BY <1>1, <1>2, <2>3
    <3>2. rest[i - k] = <<"body", k + (i - k)>>
      BY <1>4, <2>3
    <3>3. k + (i - k) = i
      OBVIOUS
    <3> QED
      BY <3>1, <3>2, <3>3, <2>1
  <2>4. i <= k \/ i > k
    OBVIOUS
  <2> QED
    BY <2>2, <2>3, <2>4
<1> QED
  BY <1>3, <1>5, <1>6, SeqEqual DEF rest
\* The sizes of the member.
LEMMA MemberType ==
    ASSUME SourceInv
    PROVE  /\ member.lname \in Nat /\ member.size \in Nat
           /\ ~fromDisk => member.lname \in StoredNames
           /\ Named \in Nat /\ Named >= member.lname /\ Start \in Nat
<1>1. member.lname \in (IF fromDisk THEN DiskNames ELSE StoredNames)
      /\ member.size \in BodySizes
  BY DEF SourceInv
<1>2. member.lname \in Nat /\ member.size \in Nat
  BY <1>1, SizesAssumption
<1> QED
  BY <1>1, <1>2, Rounding DEF Named, Start

\* The padding byte of an archive.
PadOf(n) == IF Odd(n) THEN 1 ELSE 0

\* What is read: the body from Start on, and in an archive the header before
\* it and the next member behind it.
LEMMA SourceFacts ==
    ASSUME SourceInv
    PROVE  /\ src \in Seq(Bytes)
           /\ \A i \in 1..member.size : Start + i \in 1..Len(src) /\ src[Start + i] = <<"body", i>>
           /\ ~fromDisk =>
                /\ src[1] = Header(member.lname, member.lname + member.size)
                /\ src[Start + member.size + PadOf(member.lname + member.size) + 1] = "next"
<1> DEFINE l == member.lname
           z == member.size
           H == <<Header(l, l + z)>>
           N == Times(l, "name")
           B == BodyOf(z)
           P == Times(PadOf(l + z), "pad")
           E == <<"next">>
<1>1. l \in Nat /\ z \in Nat /\ l + z \in Nat
  BY MemberType
<1>2. PadOf(l + z) \in Nat
  BY DEF PadOf
<1>3. H \in Seq(Bytes) /\ Len(H) = 1 /\ H[1] = Header(l, l + z)
  <2>1. Header(l, l + z) \in Bytes
    BY <1>1 DEF Header, Bytes
  <2> QED
    BY <2>1
<1>4. E \in Seq(Bytes) /\ Len(E) = 1 /\ E[1] = "next"
  <2>1. "next" \in Bytes
    BY DEF Bytes
  <2> QED
    BY <2>1
<1>5. N \in Seq(Bytes) /\ Len(N) = l
  <2>1. "name" \in Bytes
    BY DEF Bytes
  <2> QED
    BY <2>1, <1>1, Runs
<1>6. P \in Seq(Bytes) /\ Len(P) = PadOf(l + z)
  <2>1. "pad" \in Bytes
    BY DEF Bytes
  <2> QED
    BY <2>1, <1>2, Runs
<1>7. B \in Seq(Bytes) /\ Len(B) = z /\ \A i \in 1..z : B[i] = <<"body", i>>
  <2>1. B \in Seq(Bytes) /\ Len(B) = z
    BY <1>1, Runs
  <2>2. \A i \in 1..z : B[i] = <<"body", i>>
    BY DEF BodyOf
  <2> QED
    BY <2>1, <2>2
<1>8. CASE fromDisk
  <2>1. src = B /\ Start = 0
    BY <1>8 DEF SourceInv, Start
  <2> HIDE DEF B, z
  <2>2. /\ src \in Seq(Bytes)
        /\ \A i \in 1..z : Start + i \in 1..Len(src) /\ src[Start + i] = <<"body", i>>
    BY <1>1, <1>7, <2>1
  <2> QED
    BY <1>8, <2>2 DEF z
<1>9. CASE ~fromDisk
  <2>1. src = (((H \o N) \o B) \o P) \o E /\ Start = 1 + l
    BY <1>9 DEF SourceInv, Start, Stored, PadOf
  <2>g. SUFFICES /\ src \in Seq(Bytes)
                 /\ \A i \in 1..z : 1 + l + i \in 1..Len(src) /\ src[1 + l + i] = <<"body", i>>
                 /\ src[1] = Header(l, l + z)
                 /\ src[1 + l + z + PadOf(l + z) + 1] = "next"
    BY <1>9, <2>1
  <2> HIDE DEF H, N, B, P, E, l, z
  <2>2. 1 \in Nat /\ 1 \in 1..1
    OBVIOUS
  <2>l. IsLaidOut((((H \o N) \o B) \o P) \o E, H, l, B, PadOf(l + z), E, 1, z, 1)
    BY <1>1, <1>2, <1>3, <1>4, <1>5, <1>6, <1>7, <2>2, LaidOut, Zenon
  <2>3. /\ src \in Seq(Bytes) /\ Len(src) = 1 + l + z + PadOf(l + z) + 1
        /\ \A i \in 1..1 : src[i] = H[i]
        /\ \A i \in 1..z : src[1 + l + i] = B[i]
        /\ \A i \in 1..1 : src[1 + l + z + PadOf(l + z) + i] = E[i]
    BY <2>1, <2>l, Zenon DEF IsLaidOut
  <2>4. \A i \in 1..z : 1 + l + i \in 1..(1 + l + z + PadOf(l + z) + 1)
    BY <1>1, <1>2
  <2> QED
    BY <1>3, <1>4, <1>7, <2>2, <2>3, <2>4, Zenon
<1> QED
  BY <1>8, <1>9

\* What precedes the body that is written.
LEMMA BeforeType ==
    ASSUME SourceInv
    PROVE  /\ Before \in Seq(Bytes) /\ Len(Before) = 1 + Named
           /\ Before[1] = Header(Named, Named + member.size)
           /\ \A i \in 2..(1 + Named) : Before[i] \in {"name", "zero"}
<1> DEFINE l == member.lname
           H == <<Header(Named, Named + member.size)>>
           N == Times(l, "name")
           Z == Times(Named - l, "zero")
<1>1. l \in Nat /\ member.size \in Nat /\ Named \in Nat /\ Named - l \in Nat
  BY MemberType
<1>2. {"name", "zero"} \subseteq Bytes
  BY DEF Bytes
<1>3. H \in Seq(Bytes) /\ Len(H) = 1 /\ H[1] = Header(Named, Named + member.size)
  <2>1. Header(Named, Named + member.size) \in Bytes
    BY <1>1 DEF Header, Bytes
  <2> QED
    BY <2>1
<1>4. N \in Seq(Bytes) /\ Len(N) = l /\ \A i \in 1..l : N[i] = "name"
  <2>1. \A i \in 1..l : N[i] = "name"
    BY DEF Times
  <2> QED
    BY <2>1, <1>1, <1>2, Runs
<1>5. Z \in Seq(Bytes) /\ Len(Z) = Named - l /\ \A i \in 1..(Named - l) : Z[i] = "zero"
  <2>1. \A i \in 1..(Named - l) : Z[i] = "zero"
    BY DEF Times
  <2> QED
    BY <2>1, <1>1, <1>2, Runs
<1>6. Before = H \o (N \o Z)
  BY DEF Before
<1> HIDE DEF H, N, Z, l
<1>7. PICK c : c = N \o Z
  OBVIOUS
<1>n. 1 \in Nat /\ 1 \in 1..1 /\ 1 + 1 = 2
  OBVIOUS
<1>8. /\ c \in Seq(Bytes) /\ Len(c) = Named
      /\ \A i \in 1..Named : c[i] \in {"name", "zero"}
  BY <1>1, <1>4, <1>5, <1>7
<1>9. /\ H \o c \in Seq(Bytes) /\ Len(H \o c) = 1 + Named
      /\ \A i \in 1..1 : (H \o c)[i] = H[i]
      /\ \A i \in (1 + 1)..(1 + Named) : (H \o c)[i] \in {"name", "zero"}
  <2>1. IsNamed(H \o c, H, 1, Named, {"name", "zero"})
    BY <1>1, <1>3, <1>8, <1>n, LaidBefore, Zenon
  <2> QED
    BY <2>1, Zenon DEF IsNamed
<1> QED
  BY <1>3, <1>6, <1>7, <1>9, <1>n, Zenon

\* What is written when copy_ar is done is a member.
LEMMA WholeSurvives ==
    ASSUME SourceInv, NEW o,
           o = IF Odd(Named + member.size) THEN Append(Before \o BodyOf(member.size), "pad")
                                           ELSE Before \o BodyOf(member.size)
    PROVE  LET lname == o[1][2]
               size == o[1][3] - lname
           IN  /\ Len(o) = 1 + lname + size + (IF Odd(lname + size) THEN 1 ELSE 0)
               /\ SubSeq(o, 2 + lname, 1 + lname + size) = BodyOf(member.size)
               /\ \A i \in 2..(1 + lname) : o[i] \in {"name", "zero"}
<1> DEFINE z == member.size
           B == BodyOf(z)
           c == Before \o B
<1>1. z \in Nat /\ Named \in Nat
  BY MemberType
<1>2. B \in Seq(Bytes) /\ Len(B) = z
  BY <1>1, Runs
<1>3. /\ Before \in Seq(Bytes) /\ Len(Before) = 1 + Named
      /\ Before[1] = Header(Named, Named + z)
      /\ \A i \in 2..(1 + Named) : Before[i] \in {"name", "zero"}
  BY BeforeType
<1>4. o = IF Odd(Named + z) THEN Append(c, "pad") ELSE c
  OBVIOUS
<1>g. SUFFICES /\ o[1] = Header(Named, Named + z)
               /\ Len(o) = 1 + Named + z + (IF Odd(Named + z) THEN 1 ELSE 0)
               /\ SubSeq(o, 2 + Named, 1 + Named + z) = B
               /\ \A i \in 2..(1 + Named) : o[i] \in {"name", "zero"}
  <2>1. Header(Named, Named + z)[2] = Named /\ Header(Named, Named + z)[3] = Named + z
    BY DEF Header
  <2>2. (Named + z) - Named = z
    BY <1>1
  <2> QED
    BY <1>g, <2>1, <2>2
<1> HIDE DEF c, B, z
<1>5. 1 + Named \in Nat /\ (1 + Named) + 1 = 2 + Named /\ 1 \in 1..(1 + Named)
      /\ \A i \in 2..(1 + Named) : i \in 1..(1 + Named)
  BY <1>1
<1>6. o = Before \o B \/ o = Append(Before \o B, "pad")
  BY <1>4, Zenon DEF c
<1>7. /\ o = Before \o B => Len(o) = 1 + Named + z
      /\ o = Append(Before \o B, "pad") => Len(o) = 1 + Named + z + 1
      /\ \A i \in 1..(1 + Named) : o[i] = Before[i]
      /\ SubSeq(o, (1 + Named) + 1, 1 + Named + z) = B
  <2>1. HasBody(o, Before, 1 + Named, B, z)
    BY <1>1, <1>2, <1>3, <1>5, <1>6, LaidBody, Zenon
  <2> QED
    BY <2>1, Zenon DEF HasBody
<1>8. Len(o) = 1 + Named + z + (IF Odd(Named + z) THEN 1 ELSE 0)
  <2>1. CASE Odd(Named + z)
    BY <1>4, <1>7, <2>1, Zenon DEF c
  <2>2. CASE ~Odd(Named + z)
    <3>1. o = Before \o B
      BY <1>4, <2>2, Zenon DEF c
    <3>2. Len(o) = 1 + Named + z
      BY <1>7, <3>1, Zenon
    <3>3. 1 + Named + z = 1 + Named + z + 0
      BY <1>1
    <3> QED
      BY <2>2, <3>2, <3>3, Zenon
  <2> QED
    BY <2>1, <2>2
<1> QED
  BY <1>3, <1>5, <1>7, <1>8, Zenon

-----------------------------------------------------------------------------

LEMMA GetStep ==
    ASSUME IInv, GetArobj
    PROVE  CopyInv' /\ MemberSurvives'
<1>1. ~fromDisk /\ pc = "get" /\ pc' = "put"
  BY DEF IInv, CopyInv, GetArobj
<1>2. member.lname \in Nat /\ member.size \in Nat
  BY MemberType DEF IInv
<1>3. src[1] = Header(member.lname, member.lname + member.size)
  BY <1>1, SourceFacts DEF IInv
<1>4. src[1][2] = member.lname /\ src[1][3] - src[1][2] = member.size
  BY <1>2, <1>3 DEF Header
<1>5. chdr' = [lname |-> member.lname, size |-> member.size] /\ at' = Start
  BY <1>1, <1>4 DEF GetArobj, Start
<1> QED
  BY <1>1, <1>5 DEF CopyInv, MemberSurvives, GetArobj, Start

LEMMA PutStep ==
    ASSUME NamesPadded, IInv, PutArobj
    PROVE  CopyInv' /\ MemberSurvives'
<1> DEFINE l == member.lname
           z == member.size
           H == <<Header(Named, Named + z)>>
           N == Times(l, "name") \o Times(Named - l, "zero")
<1>1. l \in Nat /\ z \in Nat /\ Named \in Nat /\ Named >= l /\ Start \in Nat
      /\ (~fromDisk => Named = l) /\ ~Odd(Named)
  BY MemberType, Rounding DEF IInv, NamesPadded, Named
<1>2. pc = "put" /\ at = Start /\ (~fromDisk => chdr = [lname |-> l, size |-> z])
  BY DEF IInv, CopyInv, PutArobj
<1>3. /\ (IF fromDisk THEN l ELSE chdr.lname) = l
      /\ (IF fromDisk THEN z ELSE chdr.size) = z
  BY <1>2
<1>4. (IF fromDisk THEN Header(RoundedTo4(l), z + RoundedTo4(l)) ELSE src[1])
        = Header(Named, Named + z)
  <2>1. CASE fromDisk
    BY <1>1, <2>1 DEF Named
  <2>2. CASE ~fromDisk
    BY <1>1, <2>2, SourceFacts DEF IInv
  <2> QED
    BY <2>1, <2>2
<1>5. Before = H \o N
  BY DEF Before
<1>6. out' = H \o N /\ written' = Len(N) /\ sz' = z
      /\ pc' = (IF z = 0 THEN "done" ELSE "read")
  BY <1>3, <1>4 DEF PutArobj, Named
<1>7. Before \in Seq(Bytes) /\ Len(Before) = 1 + Named
  BY BeforeType DEF IInv
<1>8. Len(N) = Named
  <2>1. {"name", "zero"} \subseteq Bytes
    BY DEF Bytes
  <2>2. Named - l \in Nat
    BY <1>1
  <2>3. Times(l, "name") \in Seq(Bytes) /\ Len(Times(l, "name")) = l
    BY <1>1, <2>1, Runs
  <2>4. Times(Named - l, "zero") \in Seq(Bytes) /\ Len(Times(Named - l, "zero")) = Named - l
    BY <2>1, <2>2, Runs
  <2> QED
    <3>1. Len(N) = l + (Named - l)
      BY <2>3, <2>4, JoinedLen, Zenon
    <3> QED
      BY <1>1, <3>1
<1>9. BodyOf(0) = <<>>
  BY DEF BodyOf
<1>10. out' = Before \o BodyOf(0)
  BY <1>5, <1>6, <1>7, <1>9, ConcatEmptySeq
<1>11. UNCHANGED <<member, src, fromDisk, at, chdr>>
  BY DEF PutArobj
<1> HIDE DEF H, N
<1>12. CASE z = 0
  <2>1. pc' = "done"
    BY <1>6, <1>12
  <2>2. ~fromDisk => src[at + 1] = "next"
    <3>1. SUFFICES ASSUME ~fromDisk PROVE src[at + 1] = "next"
      OBVIOUS
    <3>2. l + z = Named /\ PadOf(l + z) = 0 /\ Start + z + PadOf(l + z) + 1 = at + 1
      BY <1>1, <1>2, <1>12, <3>1 DEF PadOf
    <3> QED
      BY <3>1, <3>2, SourceFacts DEF IInv
  <2>3. out' = IF Odd(Named + z) THEN Append(Before \o BodyOf(z), "pad")
                                 ELSE Before \o BodyOf(z)
    BY <1>1, <1>10, <1>12
  <2>4. MemberSurvives'
    BY <1>11, <2>2, <2>3, WholeSurvives DEF MemberSurvives, IInv
  <2> QED
    BY <2>1, <2>4 DEF CopyInv
<1>13. CASE z # 0
  <2>1. pc' = "read"
    BY <1>6, <1>13
  <2>2. z - z = 0 /\ Start + z - z = Start /\ z \in 0..z
    BY <1>1
  <2>3. (Before \o BodyOf(0))' = Before \o BodyOf(0)
    BY <1>11 DEF Before, Named, BodyOf
  <2>4. WrittenUpTo(member.size - sz)'
    BY <1>6, <1>10, <1>11, <2>2, <2>3 DEF WrittenUpTo, Before, Named
  <2> QED
    BY <1>2, <1>6, <1>8, <1>11, <2>1, <2>2, <2>4 DEF CopyInv, MemberSurvives, Start, Named
<1> QED
  BY <1>12, <1>13
LEMMA ReadStep ==
    ASSUME IInv, CopyRead
    PROVE  CopyInv' /\ MemberSurvives'
<1> DEFINE z == member.size
<1>1. PICK k \in 1..(IF sz < BufSize THEN sz ELSE BufSize) :
        /\ at + k <= Len(src)
        /\ buf' = SubSeq(src, at + 1, at + k)
        /\ nr' = k /\ off' = 0 /\ sz' = sz - k /\ at' = at + k
  BY DEF CopyRead
<1>2. pc = "read" /\ pc' = "write" /\ UNCHANGED <<fromDisk, member, src, chdr, out, written>>
  BY DEF CopyRead
<1>3. z \in Nat /\ Start \in Nat
  BY MemberType DEF IInv
<1>4. /\ sz \in 0..z /\ at = Start + z - sz /\ written = Named
      /\ ~fromDisk => chdr = [lname |-> member.lname, size |-> z]
      /\ WrittenUpTo(z - sz)
  BY <1>2 DEF IInv, CopyInv
<1>5. k \in 1..sz
  BY <1>1, <1>4, BufSizeAssumption
<1>6. /\ sz' \in 0..z /\ at' = Start + z - sz' /\ nr' \in 1..(z - sz')
      /\ z - sz' - nr' = z - sz
  <2>1. nr' = k /\ sz' = sz - k /\ at' = at + k /\ at = Start + z - sz /\ sz \in 0..z
    BY <1>1, <1>4
  <2>2. k \in Nat /\ sz \in Nat
    BY <1>4, <1>5
  <2> HIDE DEF z
  <2>3. sz - k \in 0..z /\ (Start + z - sz) + k = Start + z - (sz - k) /\ k \in 1..(z - (sz - k))
        /\ z - (sz - k) - k = z - sz
    BY <1>3, <1>5, <2>1, <2>2
  <2> QED
    BY <2>1, <2>3
<1>7. buf' = [i \in 1..nr' |-> <<"body", z - sz' - nr' + i>>]
  <2>1. src \in Seq(Bytes) /\ \A i \in 1..z : src[Start + i] = <<"body", i>>
    BY SourceFacts DEF IInv
  <2>2. SubSeq(src, at + 1, at + k) = [i \in 1..((at + k) - (at + 1) + 1) |-> src[(at + 1) + i - 1]]
    <3>1. at \in Int /\ k \in Int
      BY <1>3, <1>4, <1>5
    <3> QED
      BY <2>1, <3>1
  <2>3. (at + k) - (at + 1) + 1 = k
    BY <1>3, <1>4, <1>5
  <2>4. \A i \in 1..k : (at + 1) + i - 1 = Start + (z - sz + i) /\ z - sz + i \in 1..z
    BY <1>3, <1>4, <1>5
  <2>5. \A i \in 1..k : src[(at + 1) + i - 1] = <<"body", z - sz + i>>
    BY <2>1, <2>4, Zenon
  <2>6. buf' = [i \in 1..k |-> <<"body", z - sz + i>>]
    BY <1>1, <2>2, <2>3, <2>5
  <2> QED
    BY <1>1, <1>6, <2>6
<1>8. WrittenUpTo(member.size - sz - nr)'
  BY <1>2, <1>4, <1>6 DEF WrittenUpTo, Before, Named
<1> QED
  BY <1>1, <1>2, <1>4, <1>6, <1>7, <1>8 DEF CopyInv, MemberSurvives, Start, Named

LEMMA WriteStep ==
    ASSUME ~PartialWrites, IInv, CopyWrite
    PROVE  CopyInv' /\ MemberSurvives'
<1> DEFINE z == member.size
           w == [i \in 1..nr |-> <<"body", z - sz - nr + i>>]
<1>1. /\ pc = "write" /\ UNCHANGED <<fromDisk, member, src, at, chdr, buf, sz, written>>
      /\ out' = out \o [i \in 1..nr |-> IF off + i <= Len(buf) THEN buf[off + i] ELSE "junk"]
      /\ nr' = nr - off /\ off' = off + nr
      /\ pc' = IF off' < nr' THEN "write" ELSE "read"
  BY DEF CopyWrite
<1>2. z \in Nat /\ Start \in Nat
  BY MemberType DEF IInv
<1>3. /\ sz \in 0..z /\ at = Start + z - sz /\ written = Named
      /\ ~fromDisk => chdr = [lname |-> member.lname, size |-> z]
      /\ off = 0 /\ nr \in 1..(z - sz) /\ buf = w
      /\ WrittenUpTo(z - sz - nr)
  BY <1>1 DEF IInv, CopyInv
<1>4. nr \in Nat /\ z - sz - nr \in Nat /\ (z - sz - nr) + nr = z - sz
  BY <1>2, <1>3
<1>5. pc' = "read"
  BY <1>1, <1>3
<1>6. Len(buf) = nr
  <2>1. w \in Seq({<<"body", z - sz - nr + i>> : i \in 1..nr})
    BY <1>4
  <2> QED
    BY <1>3, <1>4, <2>1
<1>7. [i \in 1..nr |-> IF off + i <= Len(buf) THEN buf[off + i] ELSE "junk"] = w
  <2>1. \A i \in 1..nr : off + i = i /\ off + i <= Len(buf)
    BY <1>3, <1>4, <1>6
  <2> QED
    BY <1>3, <2>1
<1>8. out' = (Before \o BodyOf(z - sz - nr)) \o w
  BY <1>1, <1>3, <1>7 DEF WrittenUpTo
<1>9. BodyOf(z - sz - nr) \o w = BodyOf(z - sz)
  <2>1. BodyOf(z - sz - nr) \o w = BodyOf((z - sz - nr) + nr)
    BY <1>4, BodyGrows
  <2> QED
    BY <1>4, <2>1
<1>10. (Before \o BodyOf(z - sz - nr)) \o w = Before \o (BodyOf(z - sz - nr) \o w)
  <2>1. w \in Seq(Bytes)
    <3>1. \A i \in 1..nr : <<"body", z - sz - nr + i>> \in Bytes
      BY <1>4 DEF Bytes
    <3> QED
      BY <1>4, <3>1
  <2>2. Before \in Seq(Bytes) /\ BodyOf(z - sz - nr) \in Seq(Bytes)
    BY <1>4, BeforeType, Runs DEF IInv
  <2> HIDE DEF w
  <2> QED
    BY <2>1, <2>2, ConcatAssociative
<1>11. WrittenUpTo(member.size - sz)'
  BY <1>1, <1>8, <1>9, <1>10 DEF WrittenUpTo, Before, Named
<1> QED
  BY <1>1, <1>3, <1>5, <1>11 DEF CopyInv, MemberSurvives, Start, Named

LEMMA PadStep ==
    ASSUME NamesPadded, IInv, CopyPad
    PROVE  CopyInv' /\ MemberSurvives'
<1> DEFINE l == member.lname
           z == member.size
<1>1. /\ pc = "read" /\ sz = 0 /\ pc' = "done"
      /\ UNCHANGED <<fromDisk, member, src, chdr>>
      /\ at' = IF ~fromDisk /\ Odd(chdr.size + chdr.lname) THEN at + 1 ELSE at
      /\ out' = IF Odd((IF fromDisk THEN z ELSE chdr.size) + written)
                THEN Append(out, "pad") ELSE out
  BY DEF CopyPad
<1>2. l \in Nat /\ z \in Nat /\ Start \in Nat /\ Named \in Nat
      /\ (~fromDisk => Named = l)
  BY MemberType, Rounding DEF IInv, NamesPadded, Named
<1>3. /\ at = Start + z /\ written = Named
      /\ ~fromDisk => chdr = [lname |-> l, size |-> z]
      /\ out = Before \o BodyOf(z)
  <2>1. z - sz = z /\ Start + z - sz = Start + z
    BY <1>1, <1>2
  <2> QED
    BY <1>1, <2>1 DEF IInv, CopyInv, WrittenUpTo
<1>4. (IF fromDisk THEN z ELSE chdr.size) + written = Named + z
  BY <1>2, <1>3
<1>5. out' = IF Odd(Named + z) THEN Append(Before \o BodyOf(z), "pad")
                               ELSE Before \o BodyOf(z)
  BY <1>1, <1>3, <1>4
<1>6. ~fromDisk => src[at' + 1] = "next"
  <2>1. SUFFICES ASSUME ~fromDisk PROVE src[at' + 1] = "next"
    OBVIOUS
  <2>2. chdr.size + chdr.lname = l + z
    BY <1>2, <1>3, <2>1
  <2>3. at' = Start + z + PadOf(l + z)
    <3>1. CASE Odd(l + z)
      BY <1>1, <1>2, <1>3, <2>1, <2>2, <3>1 DEF PadOf
    <3>2. CASE ~Odd(l + z)
      BY <1>1, <1>2, <1>3, <2>1, <2>2, <3>2 DEF PadOf
    <3> QED
      BY <3>1, <3>2
  <2> QED
    BY <2>1, <2>3, SourceFacts DEF IInv
<1>7. MemberSurvives'
  BY <1>1, <1>5, <1>6, WholeSurvives DEF MemberSurvives, IInv
<1> QED
  BY <1>1, <1>7 DEF CopyInv

\* What is copied is a member again, and the archive that was read is at its
\* next member: put_arobj and copy_ar agree with get_arobj and skip_arobj on
\* how long a name, a body and its padding are, whatever the sizes and however
\* read() splits the body.
THEOREM MemberCopied ==
    ASSUME ~PartialWrites, NamesPadded
    PROVE  Spec => []MemberSurvives
<1>1. Init => IInv
  <2>1. SUFFICES ASSUME Init PROVE IInv
    OBVIOUS
  <2>2. SourceInv
    BY <2>1 DEF Init, SourceInv
  <2>3. fromDisk => Start = 0
    BY DEF Start
  <2> QED
    BY <2>1, <2>2, <2>3 DEF Init, IInv, CopyInv, MemberSurvives
<1>2. IInv /\ [Next]_vars => IInv'
  <2>1. SUFFICES ASSUME IInv, [Next]_vars PROVE IInv'
    OBVIOUS
  <2>2. SourceInv'
    <3>1. CASE GetArobj \/ PutArobj
      BY <2>1, <3>1 DEF IInv, SourceInv, GetArobj, PutArobj
    <3>2. CASE CopyRead \/ CopyWrite \/ CopyPad
      BY <2>1, <3>2 DEF IInv, SourceInv, CopyRead, CopyWrite, CopyPad
    <3>3. CASE UNCHANGED vars
      BY <2>1, <3>3 DEF IInv, SourceInv, vars
    <3> QED BY <2>1, <3>1, <3>2, <3>3 DEF Next
  <2>3. CASE UNCHANGED vars
    BY <2>1, <2>2, <2>3 DEF IInv, CopyInv, MemberSurvives, Start, Named, Before, WrittenUpTo, vars
  <2>4. CASE Next
    BY <2>1, <2>2, <2>4, GetStep, PutStep, ReadStep, WriteStep, PadStep DEF IInv, Next
  <2> QED
    BY <2>1, <2>3, <2>4
<1>3. IInv => MemberSurvives
  BY DEF IInv
<1> QED
  BY <1>1, <1>2, <1>3, PTL DEF Spec

=============================================================================
