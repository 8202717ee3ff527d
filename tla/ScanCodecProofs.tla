-------------------------- MODULE ScanCodecProofs --------------------------
(***************************************************************************)
(* What is proved of ScanCodec, for scans of any content and any length.   *)
(*                                                                         *)
(* First the compressor: it never runs out of the buffer it is given, and  *)
(* at every step what it has written expands to what it has read (LzfInv). *)
(*                                                                         *)
(* Then the encoder: packing, markers, offsets over gates and triggers and *)
(* run lengths undo each other, so a scan reads as what the card saw, by   *)
(* induction over samples, gates and triggers (FrameIs), and its columns   *)
(* are tallied over the same samples; and readers agree on it.  With a lag *)
(* the first scan that is not empty opens on baseline, which the check of  *)
(* the subscriber notices.                                                 *)
(*                                                                         *)
(* Then the sum: it follows a reader of each scan entry by entry, so that  *)
(* a bin has what all triggers have there (BatchSums), which fits the      *)
(* message and is parsed from it as it was sent.                           *)
(***************************************************************************)
EXTENDS ScanCodec, FiniteSetTheorems, SequenceTheorems, WellFoundedInduction, TLAPS

\* Induction, for the set of the numbers that have the property.
LEMMA Induction ==
    ASSUME NEW S, 0 \in S, \A n \in Nat : n \in S => n + 1 \in S
    PROVE  Nat \subseteq S
<1> DEFINE R == OpToRel(<, Nat)
           T == Nat \ S
<1>1. IsWellFoundedOn(R, Nat)
    BY NatLessThanWellFounded
<1>2. SUFFICES ASSUME T # {} PROVE FALSE
    OBVIOUS
<1>3. T \subseteq Nat
    OBVIOUS
<1>4. \A i, j \in Nat : i < j => <<i, j>> \in R
    BY DEF OpToRel
<1> HIDE DEF R, T
<1>5. PICK m \in T : \A j \in T : ~(<<j, m>> \in R)
    BY <1>1, <1>2, <1>3, WFMin
<1> USE DEF T
<1>6. m \in Nat /\ m # 0
    BY <1>5
<1>7. m - 1 \in Nat /\ m - 1 < m /\ (m - 1) + 1 = m
    BY <1>6
<1>8. m - 1 \in T
    BY <1>5, <1>7
<1> QED
    BY <1>4, <1>5, <1>6, <1>7, <1>8

\* A set of numbers that is not empty has a least one.
LEMMA Least ==
    ASSUME NEW T, T \subseteq Nat, T # {}
    PROVE  \E m \in T : \A j \in T : m <= j
<1> DEFINE R == OpToRel(<, Nat)
<1>1. IsWellFoundedOn(R, Nat)
    BY NatLessThanWellFounded
<1>2. \A i, j \in Nat : i < j => <<i, j>> \in R
    BY DEF OpToRel
<1> HIDE DEF R
<1>3. PICK m \in T : \A j \in T : ~(<<j, m>> \in R)
    BY <1>1, WFMin
<1>4. ASSUME NEW j \in T PROVE m <= j
    <2>1. j \in Nat /\ m \in Nat /\ ~(<<j, m>> \in R)
        BY <1>3
    <2>2. ~(j < m)
        BY <1>2, <2>1
    <2> QED
        BY <2>1, <2>2
<1> QED
    BY <1>4

-----------------------------------------------------------------------------
(* The decompressor, round by round *)

\* The decompressor before its first round.
Start == [at |-> 0, data |-> <<>>, ok |-> TRUE]

\* The round from s to t reads a whole token of bytes.
Sound(bytes, room, s, t) ==
    /\ s.at \in 0..(Len(bytes) - 1)
    /\ bytes[s.at + 1] \in 0..255
    /\ t = Round(bytes, room, s)
    /\ t.ok
    /\ t.at \in (s.at + 1)..Len(bytes)

\* f holds the states of m sound rounds.
Path(bytes, room, f, m) ==
    /\ f[0] = Start
    /\ \A k \in 1..m : Sound(bytes, room, f[k - 1], f[k])

\* Sound rounds read all of bytes and make data of it.
Expands(bytes, room, data) ==
    \E m \in Nat : \E f :
        /\ Path(bytes, room, f, m)
        /\ f[m] = [at |-> Len(bytes), data |-> data, ok |-> TRUE]

\* No bytes expand to no bytes.
LEMMA NothingExpands ==
    ASSUME NEW room
    PROVE  Expands(<<>>, room, <<>>)
<1> DEFINE f == [k \in {0} |-> Start]
<1>1. Path(<<>>, room, f, 0)
    BY DEF Path
<1>2. f[0] = [at |-> Len(<<>>), data |-> <<>>, ok |-> TRUE]
    BY DEF Start
<1> QED
    BY <1>1, <1>2 DEF Expands

\* The position grows with every round.
LEMMA PathGrows ==
    ASSUME NEW bytes, NEW room, NEW f, NEW m \in Nat, Path(bytes, room, f, m),
           Len(bytes) \in Nat
    PROVE  \A k \in 0..m : f[k].at \in k..Len(bytes)
<1> DEFINE S == {k \in Nat : k <= m => f[k].at \in k..Len(bytes)}
<1>1. 0 \in S
    BY DEF Path, Start
<1>2. ASSUME NEW k \in Nat, k \in S PROVE k + 1 \in S
    <2>1. SUFFICES ASSUME k + 1 <= m PROVE f[k + 1].at \in (k + 1)..Len(bytes)
        OBVIOUS
    <2>2. f[k].at \in k..Len(bytes)
        BY <1>2, <2>1
    <2>3. k + 1 \in 1..m /\ (k + 1) - 1 = k
        BY <2>1
    <2>4. Sound(bytes, room, f[k], f[k + 1])
        BY <2>3 DEF Path
    <2>5. f[k + 1].at \in (f[k].at + 1)..Len(bytes)
        BY <2>4 DEF Sound
    <2> QED
        BY <2>2, <2>5
<1> HIDE DEF S
<1>3. Nat \subseteq S
    BY <1>1, <1>2, Induction
<1> QED
    BY <1>3 DEF S

\* The decompressor makes what the sound rounds make.
LEMMA ExpandsIsDecompressed ==
    ASSUME NEW bytes, Len(bytes) \in Nat, NEW room, NEW data,
           Expands(bytes, room, data)
    PROVE  LET read == Decompress(bytes, room) IN read.ok /\ read.data = data
<1> DEFINE n == Len(bytes)
           end == [at |-> n, data |-> data, ok |-> TRUE]
<1>0. PICK m \in Nat : \E f : Path(bytes, room, f, m) /\ f[m] = end
    BY DEF Expands
<1>1. PICK f : Path(bytes, room, f, m) /\ f[m] = end
    BY <1>0
<1>2. m <= n
    <2>1. f[m].at \in m..Len(bytes)
        BY <1>1, PathGrows
    <2> QED
        BY <1>1, <2>1
<1>3. end = Round(bytes, room, end)
    BY DEF Round
<1> DEFINE after(h) == [k \in 0..n |-> IF k = 0 THEN Start ELSE Round(bytes, room, h[k - 1])]
           g == [k \in 0..n |-> IF k <= m THEN f[k] ELSE end]
           d == CHOOSE h : h = after(h)
<1> HIDE DEF end
<1>4. g = after(g)
    <2>1. ASSUME NEW k \in 0..n PROVE g[k] = after(g)[k]
        <3>1. CASE k = 0
            BY <1>1, <3>1 DEF Path
        <3>2. CASE k \in 1..m
            <4>1. k - 1 \in 0..n /\ k - 1 <= m
                BY <3>2
            <4>2. g[k] = f[k] /\ g[k - 1] = f[k - 1]
                BY <3>2, <4>1
            <4>3. f[k] = Round(bytes, room, f[k - 1])
                BY <1>1, <3>2 DEF Path, Sound
            <4> QED
                BY <3>2, <4>2, <4>3
        <3>3. CASE k > m /\ k # 0
            <4>1. k - 1 \in 0..n /\ (k - 1 <= m => k - 1 = m)
                BY <3>3
            <4>2. g[k] = end /\ g[k - 1] = end
                BY <1>1, <3>3, <4>1
            <4> QED
                BY <1>3, <3>3, <4>2
        <3> QED
            BY <3>1, <3>2, <3>3
    <2> QED
        BY <2>1
<1>5. d = after(d)
    BY <1>4
<1> HIDE DEF d
<1> DEFINE S == {k \in Nat : k <= n => d[k] = g[k]}
<1>6. 0 \in S
    <2>1. 0 \in 0..n
        OBVIOUS
    <2>2. d[0] = Start
        BY <1>5, <2>1
    <2>3. g[0] = Start
        <3> HIDE DEF g
        <3> QED
            BY <1>4, <2>1
    <2> QED
        BY <2>2, <2>3
<1>7. ASSUME NEW k \in Nat, k \in S PROVE k + 1 \in S
    <2>1. SUFFICES ASSUME k + 1 <= n PROVE d[k + 1] = g[k + 1]
        OBVIOUS
    <2>2. k + 1 \in 0..n /\ k + 1 # 0 /\ (k + 1) - 1 = k
        BY <2>1
    <2>3. d[k + 1] = Round(bytes, room, d[k])
        BY <1>5, <2>2
    <2>4. g[k + 1] = Round(bytes, room, g[k])
        <3> HIDE DEF g
        <3> QED
            BY <1>4, <2>2
    <2> QED
        BY <1>7, <2>1, <2>3, <2>4
<1>8. Nat \subseteq S
    <2> HIDE DEF S
    <2> QED
        BY <1>6, <1>7, Induction
<1>9. d[n] = end
    <2>1. n \in 0..n /\ n \in Nat /\ n <= n
        OBVIOUS
    <2>2. n \in S
        BY <1>8, <2>1
    <2>3. d[n] = g[n]
        <3> HIDE DEF g
        <3> QED
            BY <2>1, <2>2
    <2> QED
        BY <1>1, <1>2, <2>1, <2>3
<1>10. Decompress(bytes, room) = d[n]
    BY DEF Decompress, d, Start
<1> QED
    BY <1>9, <1>10 DEF end

\* More bytes behind do not change a sound round.
LEMMA SoundBefore ==
    ASSUME NEW D, NEW bytes \in Seq(D), NEW more \in Seq(D), NEW room, NEW s, NEW t,
           Sound(bytes, room, s, t)
    PROVE  Sound(bytes \o more, room, s, t)
<1> DEFINE all == bytes \o more
           n == Len(bytes)
<1>1. /\ n \in Nat /\ Len(all) \in Nat /\ n <= Len(all)
      /\ \A i \in 1..n : all[i] = bytes[i]
    <2>1. Len(more) \in Nat /\ n \in Nat
        OBVIOUS
    <2>2. Len(all) = n + Len(more) /\ \A i \in 1..(n + Len(more)) :
              all[i] = IF i <= n THEN bytes[i] ELSE more[i - n]
        BY ConcatProperties
    <2> QED
        BY <2>1, <2>2
<1> DEFINE a == s.at
           c == bytes[a + 1]
<1>2. /\ a \in 0..(n - 1) /\ c \in 0..255 /\ all[a + 1] = c
      /\ t = Round(bytes, room, s) /\ t.ok /\ t.at \in (a + 1)..n
    BY <1>1 DEF Sound
<1>3. a # n /\ a # Len(all)
    BY <1>1, <1>2
<1>4. SUFFICES Round(all, room, s) = t
    BY <1>1, <1>2, SMTT(60) DEF Sound
<1>5. CASE c < 32
    <2> DEFINE k == c + 1
    <2>1. t = Literals(bytes, room, s) /\ Round(all, room, s) = Literals(all, room, s)
        BY <1>2, <1>3, <1>5 DEF Round
    <2>2. ~(Len(s.data) + k > room) /\ ~(a + 1 + k > n)
        <3>1. (Len(s.data) + k > room \/ a + 1 + k > n) => t = Fails(bytes)
            BY <2>1 DEF Literals
        <3>2. t.ok /\ ~Fails(bytes).ok
            BY <1>2 DEF Fails
        <3> HIDE DEF a, k, n
        <3> QED
            BY <3>1, <3>2
    <2>k. k \in 1..256
        <3> HIDE DEF c
        <3> QED
            BY <1>2
    <2>3. ~(a + 1 + k > Len(all))
        <3> HIDE DEF a, k, n, all
        <3> QED
            BY <1>1, <1>2, <2>2, <2>k
    <2>4. SubSeq(all, a + 2, a + 1 + k) = SubSeq(bytes, a + 2, a + 1 + k)
        <3>1. a + 2 \in 1..n /\ a + 1 + k \in 1..n
            <4> HIDE DEF a, k, n, all
            <4> QED
                BY <1>1, <1>2, <2>2, <2>k
        <3> QED
            BY <3>1, SubSeqOfConcat1
    <2>5. t = [at |-> a + 1 + k, data |-> s.data \o SubSeq(bytes, a + 2, a + 1 + k), ok |-> TRUE]
        BY <2>1, <2>2 DEF Literals
    <2>6. Literals(all, room, s) =
              [at |-> a + 1 + k, data |-> s.data \o SubSeq(all, a + 2, a + 1 + k), ok |-> TRUE]
        BY <1>2, <2>2, <2>3 DEF Literals
    <2> QED
        BY <2>1, <2>4, <2>5, <2>6
<1>6. CASE ~(c < 32)
    <2> DEFINE size == IF c \div 32 = 7 THEN 3 ELSE 2
    <2>1. t = BackReference(bytes, room, s) /\ Round(all, room, s) = BackReference(all, room, s)
        BY <1>2, <1>3, <1>6 DEF Round
    <2>2. ~(a + size > n)
        <3>1. CASE a + size > n
            <4>1. t = Fails(bytes)
                BY <2>1, <3>1 DEF BackReference
            <4> QED
                BY <1>2, <4>1, SMTT(60) DEF Fails
        <3> QED
            BY <3>1
    <2>3. size \in {2, 3}
        OBVIOUS
    <2>4. /\ ~(a + size > Len(all)) /\ a + 2 \in 1..n /\ a + size \in 1..n
        <3> HIDE DEF size, a, c
        <3> QED
            BY <1>1, <1>2, <2>2, <2>3, SMTT(60)
    <2>5. all[a + 2] = bytes[a + 2] /\ all[a + size] = bytes[a + size]
        BY <1>1, <2>4
    <2> DEFINE long == c \div 32 = 7
               len(l) == (IF long THEN 7 + l ELSE c \div 32) + 2
               dist(x) == 256 * (c % 32) + x + 1
               Made(l, x) == [at |-> a + size, data |-> CopyBack(s.data, dist(x), len(l)), ok |-> TRUE]
               Bad(l, x) == Len(s.data) + len(l) > room \/ dist(x) > Len(s.data)
    <2>6. /\ BackReference(all, room, s) =
                 IF a + size > Len(all) \/ Bad(all[a + 2], all[a + size])
                 THEN Fails(all) ELSE Made(all[a + 2], all[a + size])
          /\ BackReference(bytes, room, s) =
                 IF a + size > n \/ Bad(bytes[a + 2], bytes[a + size])
                 THEN Fails(bytes) ELSE Made(bytes[a + 2], bytes[a + size])
        <3>1. all[a + 1] = c
            BY <1>2
        <3> HIDE DEF all
        <3> QED
            BY <3>1 DEF BackReference
    <2> HIDE DEF Made, Bad
    <2>7. ~Bad(bytes[a + 2], bytes[a + size])
        <3>1. CASE Bad(bytes[a + 2], bytes[a + size])
            <4>1. t = Fails(bytes)
                BY <2>1, <2>6, <3>1
            <4> QED
                BY <1>2, <4>1 DEF Fails
        <3> QED
            BY <3>1
    <2> QED
        BY <2>1, <2>2, <2>4, <2>5, <2>6, <2>7
<1> QED
    BY <1>5, <1>6

\* A sound round more.
LEMMA OneMoreToken ==
    ASSUME NEW D, NEW bytes \in Seq(D), NEW token \in Seq(D), NEW room, NEW data, NEW new,
           Expands(bytes, room, data),
           Sound(bytes \o token, room, [at |-> Len(bytes), data |-> data, ok |-> TRUE],
                 [at |-> Len(bytes \o token), data |-> new, ok |-> TRUE])
    PROVE  Expands(bytes \o token, room, new)
<1> DEFINE all == bytes \o token
           end == [at |-> Len(all), data |-> new, ok |-> TRUE]
<1>0. PICK m \in Nat : \E f : Path(bytes, room, f, m)
                           /\ f[m] = [at |-> Len(bytes), data |-> data, ok |-> TRUE]
    BY DEF Expands
<1>1. PICK f : Path(bytes, room, f, m)
               /\ f[m] = [at |-> Len(bytes), data |-> data, ok |-> TRUE]
    BY <1>0
<1> DEFINE g == [k \in 0..(m + 1) |-> IF k = m + 1 THEN end ELSE f[k]]
<1>2. m + 1 \in Nat /\ g[m + 1] = end
    BY <1>1
<1>3. g[0] = Start
    BY <1>1 DEF Path
<1> HIDE DEF end
<1>4. ASSUME NEW k \in 1..(m + 1) PROVE Sound(all, room, g[k - 1], g[k])
    <2>1. CASE k = m + 1
        <3>1. k - 1 = m /\ m \in 0..(m + 1) /\ m # m + 1
            BY <2>1
        <3>2. g[k - 1] = f[m] /\ g[k] = end
            BY <2>1, <3>1
        <3> QED
            BY <1>1, <3>2 DEF end
    <2>2. CASE k # m + 1
        <3>1. k \in 1..m /\ k - 1 \in 0..(m + 1) /\ k - 1 # m + 1
            BY <2>2
        <3>2. g[k - 1] = f[k - 1] /\ g[k] = f[k]
            BY <2>2, <3>1
        <3>3. Sound(bytes, room, f[k - 1], f[k])
            BY <1>1, <3>1 DEF Path
        <3> QED
            BY <3>2, <3>3, SoundBefore
    <2> QED
        BY <2>1, <2>2
<1> HIDE DEF g, all
<1>5. Path(all, room, g, m + 1)
    BY <1>3, <1>4 DEF Path
<1> QED
    BY <1>2, <1>5 DEF Expands, end, all

\* The values an output is made of include all bytes.
HasBytes(D) == 0..255 \subseteq D

\* A byte is one of the values.
LEMMA ByteIsIn ==
    ASSUME NEW D, HasBytes(D), NEW i \in Int, 0 <= i, i <= 255
    PROVE  i \in D
<1>1. i \in 0..255
    OBVIOUS
<1> QED
    BY <1>1, Zenon DEF HasBytes

\* A run of literals behind its control byte.
LEMMA LiteralsExpand ==
    ASSUME NEW D, HasBytes(D), NEW bytes \in Seq(D), NEW r \in Seq(D),
           Len(r) \in 1..32, NEW room \in Nat, NEW data, Len(data) \in Nat,
           Len(data) + Len(r) <= room, Expands(bytes, room, data)
    PROVE  Expands(StopRun(bytes, r), room, data \o r)
<1> DEFINE k == Len(r)
           n == Len(bytes)
           token == <<k - 1>> \o r
           all == bytes \o token
           s == [at |-> n, data |-> data, ok |-> TRUE]
           t == [at |-> Len(all), data |-> data \o r, ok |-> TRUE]
<1>1. <<k - 1>> \in Seq(D) /\ Len(<<k - 1>>) = 1 /\ <<k - 1>>[1] = k - 1
    <2>1. k - 1 \in D
        <3>1. k - 1 \in 0..255
            OBVIOUS
        <3> HIDE DEF k
        <3> QED
            BY <3>1 DEF HasBytes
    <2> HIDE DEF k
    <2> QED
        BY <2>1
<1> HIDE DEF k
<1>2. /\ token \in Seq(D) /\ Len(token) = k + 1 /\ token[1] = k - 1
      /\ \A i \in 1..k : token[i + 1] = r[i]
    <2> DEFINE c == <<k - 1>>
    <2> HIDE DEF c
    <2>1. /\ c \o r \in Seq(D) /\ Len(c \o r) = Len(c) + Len(r)
          /\ \A i \in 1..(Len(c) + Len(r)) :
                 (c \o r)[i] = IF i <= Len(c) THEN c[i] ELSE r[i - Len(c)]
        BY <1>1, ConcatProperties DEF c
    <2>2. k \in 1..32 /\ Len(r) = k /\ Len(c) = 1 /\ c[1] = k - 1 /\ token = c \o r
        BY <1>1 DEF k, c
    <2> HIDE DEF token
    <2> QED
        BY <2>1, <2>2, SMTT(60)
<1> HIDE DEF token
<1>3. /\ n \in Nat /\ k \in 1..32 /\ all \in Seq(D) /\ Len(all) = n + k + 1
      /\ all[n + 1] = k - 1
      /\ \A i \in 1..k : all[n + 1 + i] = r[i]
    <2>1. k \in 1..32 /\ n \in Nat
        BY DEF k
    <2>2. /\ all \in Seq(D) /\ Len(all) = n + Len(token)
          /\ \A i \in 1..(n + Len(token)) :
                 all[i] = IF i <= n THEN bytes[i] ELSE token[i - n]
        BY <1>2, ConcatProperties
    <2>3. all[n + 1] = token[(n + 1) - n]
        BY <1>2, <2>1, <2>2
    <2>4. ASSUME NEW i \in 1..k PROVE all[n + 1 + i] = token[i + 1]
        <3>1. (n + 1 + i) \in 1..(n + Len(token)) /\ ~(n + 1 + i <= n)
              /\ (n + 1 + i) - n = i + 1
            BY <1>2, <2>1
        <3> HIDE DEF all, n
        <3> QED
            BY <2>2, <3>1
    <2> HIDE DEF all, n
    <2> QED
        BY <1>2, <2>1, <2>2, <2>3, <2>4, SMTT(60)
<1>4. SubSeq(all, n + 2, n + 1 + k) = r
    <2> DEFINE u == SubSeq(all, n + 2, n + 1 + k)
    <2> HIDE DEF all, n
    <2>1. \A i \in (n + 2)..(n + 1 + k) : all[i] \in D
        BY <1>3, ElementOfSeq
    <2>2. n + 2 \in Int /\ n + 1 + k \in Int /\ n + 2 <= n + 1 + k
          /\ (n + 1 + k) - (n + 2) + 1 = k
        BY <1>3
    <2>3. /\ u \in Seq(D)
          /\ Len(u) = k
          /\ \A i \in 1..k : u[i] = all[n + 2 + i - 1]
        BY <2>1, <2>2, SubSeqProperties, SMTT(60)
    <2>4. \A i \in 1..k : n + 2 + i - 1 = n + 1 + i
        BY <1>3
    <2> HIDE DEF u
    <2>5. \A i \in 1..Len(u) : u[i] = r[i]
        BY <1>3, <2>3, <2>4
    <2> QED
        BY <2>3, <2>5, SeqEqual DEF k, u
<1>5. Literals(all, room, s) = t
    <2>1. ~(Len(data) + k > room) /\ ~(n + 1 + k > Len(all)) /\ n + 1 + k = Len(all)
        BY <1>3 DEF k
    <2>2. all[s.at + 1] + 1 = k
        <3> HIDE DEF all, n
        <3> QED
            BY <1>3
    <2> HIDE DEF all, n
    <2> QED
        BY <1>4, <2>1, <2>2 DEF Literals
<1>6. Sound(all, room, s, t)
    <2>1. s.at = n /\ t.at = n + k + 1 /\ t.ok /\ n # Len(all)
        BY <1>3, SMTT(60)
    <2>2. all[n + 1] \in 0..255 /\ all[n + 1] < 32
        BY <1>3
    <2>3. Round(all, room, s) = Literals(all, room, s)
        BY <2>1, <2>2 DEF Round
    <2>4. t.at \in (n + 1)..Len(all) /\ n \in 0..(Len(all) - 1)
        <3> HIDE DEF all, n
        <3> QED
            BY <1>3, <2>1
    <2> HIDE DEF all, n, s, t
    <2> QED
        BY <1>5, <2>1, <2>2, <2>3, <2>4 DEF Sound
<1>7. Expands(all, room, data \o r)
    BY <1>2, <1>6, OneMoreToken
<1>8. StopRun(bytes, r) = all
    <2>1. r # <<>>
        <3>1. CASE r = <<>>
            <4>1. Len(r) = 0
                BY <3>1
            <4> QED
                BY <1>3, <4>1 DEF k
        <3> QED
            BY <3>1
    <2>2. (bytes \o <<k - 1>>) \o r = bytes \o (<<k - 1>> \o r)
        BY <1>1, ConcatAssociative, SMTT(60)
    <2> QED
        BY <2>1, <2>2 DEF StopRun, token, k
<1> QED
    BY <1>7, <1>8

\* The bytes of a reference to dist bytes back, for len bytes.
Token(dist, len) ==
    LET off == dist - 1
    IN  IF len - 2 < 7 THEN <<off \div 256 + 32 * (len - 2), off % 256>>
        ELSE <<off \div 256 + 224, ((len - 2) - 7) % 256, off % 256>>

\* A back reference expands to a copy of what is before it.
LEMMA ReferenceExpands ==
    ASSUME NEW D, HasBytes(D), NEW bytes \in Seq(D),
           NEW dist \in Nat, 1 <= dist, dist <= 8192,
           NEW len \in Nat, 3 <= len, len <= 264,
           NEW room \in Nat, NEW data, Len(data) \in Nat,
           dist <= Len(data), Len(data) + len <= room, Expands(bytes, room, data)
    PROVE  /\ Token(dist, len) \in Seq(D)
           /\ Len(Token(dist, len)) = IF len < 9 THEN 2 ELSE 3
           /\ Expands(bytes \o Token(dist, len), room, CopyBack(data, dist, len))
<1> DEFINE n == Len(bytes)
           token == Token(dist, len)
           all == bytes \o token
           size == IF len < 9 THEN 2 ELSE 3
           high == (dist - 1) \div 256
           low == (dist - 1) % 256
           code == IF len < 9 THEN len - 2 ELSE 7
           s == [at |-> n, data |-> data, ok |-> TRUE]
           new == CopyBack(data, dist, len)
           t == [at |-> Len(all), data |-> new, ok |-> TRUE]
<1>1. /\ high \in 0..31 /\ low \in 0..255 /\ 256 * high + low + 1 = dist
      /\ code \in 1..7 /\ high + 32 * code \in 32..255
      /\ (high + 32 * code) \div 32 = code /\ (high + 32 * code) % 32 = high
    <2>1. /\ high \in 0..31 /\ low \in 0..255 /\ 256 * high + low + 1 = dist
        <3> DEFINE off == dist - 1
        <3>1. off \in 0..8191 /\ dist = off + 1
            BY SMTT(60)
        <3> HIDE DEF off
        <3>2. off \div 256 \in 0..31 /\ off % 256 \in 0..255
              /\ 256 * (off \div 256) + (off % 256) = off
            BY <3>1
        <3>3. high = off \div 256 /\ low = off % 256
            BY DEF off
        <3> HIDE DEF high, low
        <3> QED
            BY <3>1, <3>2, <3>3
    <2>2. code \in 1..7
        OBVIOUS
    <2> HIDE DEF high, low, code
    <2> QED
        BY <2>1, <2>2
<1>2. len >= 9 => (len - 9) \in 0..255 /\ (len - 9) % 256 = len - 9
    OBVIOUS
<1>3. token = IF len < 9 THEN <<high + 32 * code, low>> ELSE <<high + 32 * code, len - 9, low>>
    <2>1. CASE len < 9
        BY <2>1 DEF Token
    <2>2. CASE ~(len < 9)
        <3>1. ~(len - 2 < 7) /\ (len - 2) - 7 = len - 9 /\ high + 32 * code = high + 224
            BY <2>2
        <3> HIDE DEF high, code, low
        <3> QED
            BY <1>2, <2>2, <3>1 DEF Token, high, low
    <2> QED
        BY <2>1, <2>2
<1> HIDE DEF high, low, code, token
<1>4. /\ token \in Seq(D) /\ Len(token) = size
      /\ token[1] = high + 32 * code /\ token[size] = low
      /\ len >= 9 => token[2] = len - 9
    <2> DEFINE c == high + 32 * code
               m == len - 9
    <2>1. c \in D /\ low \in D /\ (len >= 9 => m \in D)
        <3>1. /\ c \in Int /\ 0 <= c /\ c <= 255
              /\ low \in Int /\ 0 <= low /\ low <= 255
            BY <1>1
        <3>5. len >= 9 => m \in Int /\ 0 <= m /\ m <= 255
            BY <1>2
        <3> HIDE DEF c, m
        <3>2. c \in D
            BY <3>1, ByteIsIn
        <3>4. low \in D
            BY <3>1, ByteIsIn
        <3>3. ASSUME len >= 9 PROVE m \in D
            <4>1. m \in Int /\ 0 <= m /\ m <= 255
                BY <3>5, <3>3
            <4> QED
                BY <4>1, ByteIsIn
        <3> QED
            BY <3>2, <3>3, <3>4
    <2> HIDE DEF c, m
    <2>2. CASE len < 9
        <3>1. token = <<c, low>>
            BY <1>3, <2>2 DEF c
        <3> QED
            BY <2>1, <2>2, <3>1 DEF c
    <2>3. CASE ~(len < 9)
        <3>1. token = <<c, m, low>>
            BY <1>3, <2>3 DEF c, m
        <3>2. m \in D
            BY <2>1, <2>3
        <3> QED
            BY <2>1, <2>3, <3>1, <3>2 DEF c, m
    <2> QED
        BY <2>2, <2>3
<1>5. /\ n \in Nat /\ size \in {2, 3} /\ all \in Seq(D) /\ Len(all) = n + size
      /\ all[n + 1] = high + 32 * code /\ all[n + size] = low
      /\ len >= 9 => all[n + 2] = len - 9
    <2>1. n \in Nat /\ size \in {2, 3}
        OBVIOUS
    <2>2. /\ all \in Seq(D) /\ Len(all) = n + Len(token)
          /\ \A i \in 1..(n + Len(token)) :
                 all[i] = IF i <= n THEN bytes[i] ELSE token[i - n]
        <3>1. token \in Seq(D)
            BY <1>4
        <3> HIDE DEF size
        <3> QED
            BY <3>1, ConcatProperties
    <2> HIDE DEF n, size, all
    <2>3. ASSUME NEW i \in 1..size PROVE all[n + i] = token[i]
        <3>1. (n + i) \in 1..(n + size) /\ ~(n + i <= n) /\ (n + i) - n = i
            BY <2>1
        <3>2. (n + i) \in 1..(n + Len(token))
            BY <1>4, <3>1
        <3> QED
            BY <2>2, <3>1, <3>2
    <2>4. 1 \in 1..size /\ 2 \in 1..size /\ size \in 1..size
        BY <2>1
    <2> QED
        BY <1>4, <2>1, <2>2, <2>3, <2>4
<1>6. BackReference(all, room, s) = t
    <2> HIDE DEF all, n
    <2> DEFINE c == all[n + 1]
    <2>1. /\ c \div 32 = code /\ c % 32 = high /\ ((c \div 32 = 7) <=> ~(len < 9))
          /\ (IF c \div 32 = 7 THEN 3 ELSE 2) = size
        <3>1. c \div 32 = code /\ c % 32 = high
            BY <1>1, <1>5
        <3>2. code = 7 <=> ~(len < 9)
            BY DEF code
        <3> HIDE DEF c
        <3> QED
            BY <3>1, <3>2
    <2>2. (IF c \div 32 = 7 THEN 7 + all[n + 2] ELSE c \div 32) + 2 = len
        <3>1. CASE len < 9
            <4>1. code + 2 = len
                BY <3>1 DEF code
            <4> HIDE DEF c
            <4> QED
                BY <2>1, <3>1, <4>1
        <3>2. CASE ~(len < 9)
            <4>1. all[n + 2] = len - 9
                BY <1>5, <3>2
            <4>2. 7 + (len - 9) + 2 = len
                OBVIOUS
            <4> HIDE DEF c
            <4> QED
                BY <2>1, <3>2, <4>1, <4>2
        <3> QED
            BY <3>1, <3>2
    <2>3. 256 * (c % 32) + all[n + size] + 1 = dist
        <3> HIDE DEF c, size
        <3>1. c % 32 = high /\ all[n + size] = low
            BY <1>5, <2>1
        <3>2. 256 * high + low + 1 = dist
            BY <1>1
        <3> QED
            BY <3>1, <3>2
    <2>4. /\ ~(n + size > Len(all)) /\ n + size = Len(all)
          /\ ~(Len(data) + len > room) /\ ~(dist > Len(data))
        BY <1>5
    <2> DEFINE sz == IF c \div 32 = 7 THEN 3 ELSE 2
               ln == (IF c \div 32 = 7 THEN 7 + all[n + 2] ELSE c \div 32) + 2
               ds == 256 * (c % 32) + all[n + sz] + 1
               Bad(z, l, d) == n + z > Len(all) \/ Len(data) + l > room \/ d > Len(data)
               Made(z, l, d) == [at |-> n + z, data |-> CopyBack(data, d, l), ok |-> TRUE]
    <2>5. BackReference(all, room, s) = IF Bad(sz, ln, ds) THEN Fails(all) ELSE Made(sz, ln, ds)
        BY DEF BackReference
    <2>6. sz = size
        BY <2>1
    <2>7. ln = len
        BY <2>2
    <2> HIDE DEF sz, ln
    <2>8. ds = dist
        BY <2>3, <2>6
    <2> HIDE DEF ds, size
    <2>9. ~Bad(size, len, dist)
        BY <2>4
    <2>10. Made(size, len, dist) = t
        <3>1. n + size = Len(all) /\ n \in Int /\ size \in Int
            BY <1>5
        <3> DEFINE e == Len(all)
        <3>2. e = n + size
            BY <3>1
        <3>3. t = [at |-> e, data |-> CopyBack(data, dist, len), ok |-> TRUE]
            OBVIOUS
        <3>4. Made(size, len, dist) = [at |-> n + size, data |-> CopyBack(data, dist, len), ok |-> TRUE]
            OBVIOUS
        <3> HIDE DEF e, t, Made
        <3> QED
            BY <3>2, <3>3, <3>4
    <2> HIDE DEF Bad, Made, s, t, c
    <2> QED
        BY <2>5, <2>6, <2>7, <2>8, <2>9, <2>10
<1>7. Sound(all, room, s, t)
    <2>1. s.at = n /\ t.at = n + size /\ t.ok /\ n # Len(all)
        BY <1>5
    <2>2. all[n + 1] \in 0..255 /\ ~(all[n + 1] < 32)
        BY <1>1, <1>5, SMTT(60)
    <2>3. Round(all, room, s) = BackReference(all, room, s)
        <3> HIDE DEF all, n, s
        <3> QED
            BY <2>1, <2>2 DEF Round
    <2>4. t.at \in (n + 1)..Len(all) /\ n \in 0..(Len(all) - 1)
        <3> HIDE DEF all, n, size
        <3> QED
            BY <1>5, <2>1
    <2> HIDE DEF all, n, s, t
    <2> QED
        BY <1>6, <2>1, <2>2, <2>3, <2>4 DEF Sound
<1>8. Expands(all, room, new)
    BY <1>4, <1>7, OneMoreToken
<1> QED
    BY <1>4, <1>8 DEF token

-----------------------------------------------------------------------------
(* A match and the copy it stands for *)

\* Quotient and remainder.
LEMMA Division ==
    ASSUME NEW a \in Nat, NEW h \in Nat \ {0}
    PROVE  /\ a \div h \in Nat /\ a % h \in Nat /\ a % h < h
           /\ a = h * (a \div h) + (a % h)
BY SMT

\* Below the divisor a number is its own rest, and dropping the divisor once
\* leaves the rest as it is.
LEMMA Rest ==
    ASSUME NEW a \in Nat, NEW h \in Nat \ {0}
    PROVE  /\ a < h => a % h = a
           /\ a >= h => (a - h) % h = a % h
<1>1. a < h => a % h = a
    BY SMT
<1>2. ASSUME a >= h PROVE (a - h) % h = a % h
    <2> DEFINE b == a - h
               q == a \div h
               r == a % h
               p == b \div h
               s == b % h
    <2>1. b \in Nat /\ a = b + h
        BY <1>2
    <2>2. q \in Nat /\ r \in Nat /\ r < h /\ a = h * q + r
        BY Division
    <2> HIDE DEF b
    <2>3. p \in Nat /\ s \in Nat /\ s < h /\ b = h * p + s
        BY <2>1, Division
    <2> HIDE DEF q, r, p, s
    <2>4. h * q + r = h * (p + 1) + s
        BY <2>1, <2>2, <2>3, SMT
    <2>5. q = p + 1
        BY <2>2, <2>3, <2>4, SMT
    <2>6. r = s
        BY <2>2, <2>3, <2>4, <2>5, SMT
    <2> QED
        BY <2>6 DEF r, s, b
<1> QED
    BY <1>1, <1>2

\* Where x repeats itself i - ref bytes later, the copy is what x goes on with,
\* also when it is longer than the distance.
LEMMA CopyIsInput ==
    ASSUME NEW B, NEW x \in Seq(B), NEW i \in Nat, NEW ref \in Nat, ref < i,
           NEW len \in Nat, i + len <= Len(x),
           \A k \in Nat : k < len => x[ref + k + 1] = x[i + k + 1]
    PROVE  CopyBack(SubSeq(x, 1, i), i - ref, len) = SubSeq(x, 1, i + len)
<1> DEFINE d == i - ref
           S == {m \in Nat : \A k \in Nat : k < m /\ k < len => x[i + k + 1] = x[ref + (k % d) + 1]}
<1>1. d \in Nat \ {0} /\ i - d = ref /\ i = ref + d
    OBVIOUS
<1> HIDE DEF d
<1>2. 0 \in S
    OBVIOUS
<1>3. ASSUME NEW m \in Nat, m \in S PROVE m + 1 \in S
    <2>1. SUFFICES ASSUME NEW k \in Nat, k < m + 1, k < len
                   PROVE  x[i + k + 1] = x[ref + (k % d) + 1]
        OBVIOUS
    <2>2. x[i + k + 1] = x[ref + k + 1]
        BY <2>1
    <2>3. CASE k < d
        <3>1. k % d = k
            BY <1>1, <2>3, Rest
        <3> QED
            BY <2>2, <3>1
    <2>4. CASE ~(k < d)
        <3> DEFINE j == k - d
        <3>1. j \in Nat /\ j < m /\ j < len /\ i + j + 1 = ref + k + 1
            BY <1>1, <2>1, <2>4
        <3>2. j % d = k % d
            <4>1. k >= d
                BY <1>1, <2>4
            <4> HIDE DEF j
            <4>2. (k - d) % d = k % d
                BY <1>1, <4>1, Rest
            <4> QED
                BY <4>2 DEF j
        <3> HIDE DEF j
        <3>3. x[i + j + 1] = x[ref + (j % d) + 1]
            BY <1>3, <3>1
        <3> QED
            BY <2>2, <3>1, <3>2, <3>3
    <2> QED
        BY <2>3, <2>4
<1>4. Nat \subseteq S
    <2> HIDE DEF S
    <2> QED
        BY <1>2, <1>3, Induction
<1>5. \A k \in Nat : k < len => x[i + k + 1] = x[ref + (k % d) + 1]
    <2>1. SUFFICES ASSUME NEW k \in Nat, k < len PROVE x[i + k + 1] = x[ref + (k % d) + 1]
        OBVIOUS
    <2>2. k + 1 \in S /\ k < k + 1
        BY <1>4
    <2> QED
        BY <2>1, <2>2
<1> HIDE DEF S
<1> DEFINE head == SubSeq(x, 1, i)
           copy == [k \in 1..len |-> head[Len(head) - d + 1 + ((k - 1) % d)]]
           all == SubSeq(x, 1, i + len)
<1>6. head \in Seq(B) /\ Len(head) = i /\ \A k \in 1..i : head[k] = x[k]
    <2>1. \A k \in 1..i : x[k] \in B
        BY ElementOfSeq
    <2> QED
        BY <2>1, SubSeqProperties
<1>7. all \in Seq(B) /\ Len(all) = i + len /\ \A k \in 1..(i + len) : all[k] = x[k]
    <2>1. \A k \in 1..(i + len) : x[k] \in B
        BY ElementOfSeq
    <2> QED
        BY <2>1, SubSeqProperties
<1> HIDE DEF head, all
<1>8. \A k \in 1..len : copy[k] = x[i + k] /\ copy[k] \in B
    <2>1. SUFFICES ASSUME NEW k \in 1..len PROVE copy[k] = x[i + k] /\ x[i + k] \in B
        OBVIOUS
    <2> DEFINE j == k - 1
    <2>2. j \in Nat /\ j < len /\ k = j + 1
        OBVIOUS
    <2> HIDE DEF j
    <2>3. j % d \in Nat /\ j % d < d
        BY <1>1, <2>2, Division
    <2>4. Len(head) - d + 1 + (j % d) = ref + (j % d) + 1 /\ ref + (j % d) + 1 \in 1..i
        BY <1>1, <1>6, <2>3
    <2>5. copy[k] = x[ref + (j % d) + 1]
        BY <1>6, <2>4 DEF j
    <2>6. x[i + j + 1] = x[ref + (j % d) + 1]
        BY <1>5, <2>2
    <2>7. i + k = i + j + 1 /\ i + k \in 1..Len(x)
        BY <2>2
    <2>8. x[i + k] \in B
        BY <2>7, ElementOfSeq
    <2> QED
        BY <2>5, <2>6, <2>7, <2>8
<1>9. copy \in Seq(B) /\ Len(copy) = len
    <2>1. copy \in [1..len -> B]
        BY <1>8
    <2> HIDE DEF copy
    <2> QED
        BY <2>1
<1> HIDE DEF copy
<1>10. head \o copy = all
    <2>1. /\ head \o copy \in Seq(B) /\ Len(head \o copy) = i + len
          /\ \A k \in 1..(i + len) :
                 (head \o copy)[k] = IF k <= i THEN head[k] ELSE copy[k - i]
        BY <1>6, <1>9, ConcatProperties, ZenonT(60)
    <2>2. ASSUME NEW k \in 1..(i + len) PROVE (head \o copy)[k] = all[k]
        <3>1. CASE k <= i
            BY <1>6, <1>7, <2>1, <3>1
        <3>2. CASE ~(k <= i)
            <4>1. k - i \in 1..len /\ i + (k - i) = k
                BY <3>2
            <4> QED
                BY <1>7, <1>8, <2>1, <3>2, <4>1
        <3> QED
            BY <3>1, <3>2
    <2> QED
        BY <1>7, <2>1, <2>2, SeqEqual
<1> QED
    BY <1>10 DEF CopyBack, copy, head, all, d

\* The greater of two numbers.
LEMMA TheGreater ==
    ASSUME NEW a \in Int, NEW b \in Int
    PROVE  /\ Max({a, b}) \in {a, b} /\ Max({a, b}) >= a /\ Max({a, b}) >= b
<1> DEFINE m == IF a >= b THEN a ELSE b
<1>1. m \in {a, b} /\ \A y \in {a, b} : m >= y
    OBVIOUS
<1> HIDE DEF m
<1> QED
    BY <1>1 DEF Max

\* The less of two numbers.
LEMMA TheLess ==
    ASSUME NEW a \in Int, NEW b \in Int
    PROVE  /\ Min({a, b}) \in {a, b} /\ Min({a, b}) <= a /\ Min({a, b}) <= b
<1> DEFINE m == IF a <= b THEN a ELSE b
<1>1. m \in {a, b} /\ \A y \in {a, b} : m <= y
    OBVIOUS
<1> HIDE DEF m
<1> QED
    BY <1>1 DEF Min

\* The three bytes a match begins with.
SameThree(ref) == \A k \in 1..3 : in[ref + k] = in[ip + k]

\* The length of a match: within the input and what a reference can say, and
\* equal bytes all along, the rounds included that do not look at the limit.
LEMMA MatchGoes ==
    ASSUME NEW ref, Len(in) \in Nat, ip \in Nat, ip < in_len - 2,
           SameThree(ref), ref \in Nat
    PROVE  /\ MatchLen(ref) \in Nat /\ 3 <= MatchLen(ref) /\ MatchLen(ref) <= 264
           /\ ip + MatchLen(ref) <= in_len
           /\ \A k \in Nat : k < MatchLen(ref) => in[ref + k + 1] = in[ip + k + 1]
<1> DEFINE left == in_len - ip - 2
           mx == MaxLen
           top == Max({19, mx})
           Differs(l) == in[ref + l + 1] # in[ip + l + 1]
           Ends(l) == IF mx > 16 /\ l <= 18 THEN Differs(l) ELSE l >= mx \/ Differs(l)
           T == {l \in 3..top : Ends(l)}
           First(l) == Ends(l) /\ \A k \in 3..(l - 1) : ~Ends(k)
<1>1. left \in Nat /\ left >= 1 /\ in_len = ip + left + 2
    BY DEF in_len
<1> HIDE DEF left
<1>2. mx \in {left, 264} /\ mx <= left /\ mx <= 264 /\ mx \in Nat /\ mx >= 1
    <2> DEFINE m == Min({left, 264})
    <2>1. m \in {left, 264} /\ m <= left /\ m <= 264
        <3>1. left \in Int /\ 264 \in Int
            BY <1>1
        <3> QED
            BY <3>1, TheLess, ZenonT(60)
    <2>2. mx = m
        BY DEF MaxLen, MAX_REF, left
    <2> HIDE DEF m, mx
    <2> QED
        BY <1>1, <2>1, <2>2
<1> HIDE DEF mx
<1>3. top \in {19, mx} /\ top >= 19 /\ top >= mx /\ top \in Nat
    <2>1. 19 \in Int /\ mx \in Int
        BY <1>2
    <2>2. top \in {19, mx} /\ top >= 19 /\ top >= mx
        BY <2>1, TheGreater
    <2> HIDE DEF top
    <2> QED
        BY <1>2, <2>2
<1> HIDE DEF top
<1>4. T \subseteq Nat /\ T # {}
    <2>1. top \in T
        BY <1>2, <1>3
    <2> QED
        BY <1>3, <2>1
<1>5. PICK l \in T : \A j \in T : l <= j
    BY <1>4, Least
<1>6. l \in 3..top /\ First(l)
    <2>1. l \in 3..top /\ Ends(l)
        BY <1>5
    <2>2. ASSUME NEW k \in 3..(l - 1) PROVE ~Ends(k)
        <3>1. k \in 3..top /\ ~(l <= k)
            BY <1>3, <2>1
        <3> HIDE DEF Ends
        <3> QED
            BY <1>5, <3>1
    <2> HIDE DEF Ends
    <2> QED
        BY <2>1, <2>2
<1> DEFINE len == CHOOSE i \in 3..top : First(i)
<1>7. len \in 3..top /\ First(len)
    <2> HIDE DEF First
    <2> QED
        BY <1>6
<1>8. MatchLen(ref) = len
    BY DEF MatchLen, mx, top
<1> HIDE DEF len
<1>9. len \in Nat /\ 3 <= len /\ len <= top /\ First(len)
    <2> HIDE DEF First
    <2> QED
        BY <1>3, <1>7
<1>10. \A k \in Nat : 3 <= k /\ k < len => ~Ends(k)
    <2>1. \A k \in Nat : 3 <= k /\ k < len => k \in 3..(len - 1)
        BY <1>9
    <2> HIDE DEF Ends
    <2> QED
        BY <1>9, <2>1
\* Where the first of these comes, the match ends.
<1>11. len <= 264 /\ len <= left + 2
    <2>1. CASE mx > 16
        <3>1. len <= 19 \/ len <= mx
            BY <1>2, <1>3, <1>9
        <3> QED
            BY <1>1, <1>2, <1>9, <2>1, <3>1
    <2>2. CASE ~(mx > 16)
        <3>1. len <= 3 \/ len <= mx
            <4>1. CASE len > 3 /\ len > mx
                <5> DEFINE k == len - 1
                <5>1. k \in Nat /\ 3 <= k /\ k < len /\ k >= mx
                    BY <1>2, <1>9, <4>1
                <5> HIDE DEF k
                <5>2. Ends(k)
                    BY <2>2, <5>1
                <5> HIDE DEF Ends
                <5> QED
                    BY <1>10, <5>1, <5>2
            <4> QED
                BY <1>2, <1>9, <4>1
        <3> QED
            BY <1>1, <1>2, <1>9, <2>2, <3>1
    <2> QED
        BY <2>1, <2>2
<1>12. ASSUME NEW k \in Nat, k < len PROVE in[ref + k + 1] = in[ip + k + 1]
    <2>1. CASE k >= 3
        <3>1. ~Ends(k)
            <4> HIDE DEF Ends
            <4> QED
                BY <1>10, <1>12, <2>1
        <3> QED
            BY <3>1
    <2>2. CASE k < 3
        <3>1. k + 1 \in 1..3 /\ ref + k + 1 = ref + (k + 1) /\ ip + k + 1 = ip + (k + 1)
            BY <2>2
        <3> QED
            BY <3>1 DEF SameThree
    <2> QED
        BY <2>1, <2>2
<1> QED
    BY <1>1, <1>8, <1>9, <1>11, <1>12

-----------------------------------------------------------------------------
(* The compressor *)

\* Bytes, and the values of the input.
Values(x) == 0..255 \cup Range(x)

\* o and the open run r stand for the first p bytes of x; what a run costs is
\* one byte in 32.
Written(x, o, r, p) ==
    /\ o \in Seq(Values(x))
    /\ Len(r) \in Nat /\ Len(r) <= p
    /\ r = SubSeq(x, p - Len(r) + 1, p)
    /\ 32 * Len(o) <= 33 * (p - Len(r))
    /\ Expands(o, Len(x), SubSeq(x, 1, p - Len(r)))

\* The input is made of its values.
LEMMA ValuesAre ==
    ASSUME NEW x, x \in Seq(Range(x))
    PROVE  HasBytes(Values(x)) /\ x \in Seq(Values(x))
<1>1. Range(x) \subseteq Values(x)
    BY DEF Values
<1>2. x \in Seq(Values(x))
    BY <1>1, SeqMonotonic
<1>3. HasBytes(Values(x))
    BY DEF HasBytes, Values
<1> QED
    BY <1>2, <1>3

\* A part of a sequence.
LEMMA PartIs ==
    ASSUME NEW B, NEW x \in Seq(B), NEW a \in Nat, NEW b \in Nat, a <= b, b <= Len(x)
    PROVE  /\ SubSeq(x, a + 1, b) \in Seq(B)
           /\ Len(SubSeq(x, a + 1, b)) = b - a
           /\ \A i \in 1..(b - a) : SubSeq(x, a + 1, b)[i] = x[a + i]
<1>1. \A i \in (a + 1)..b : x[i] \in B
    <2>1. \A i \in (a + 1)..b : i \in 1..Len(x)
        OBVIOUS
    <2> QED
        BY <2>1, ElementOfSeq
<1>2. a + 1 \in Int /\ b \in Int /\ b - (a + 1) + 1 = b - a
    OBVIOUS
<1>3. /\ SubSeq(x, a + 1, b) \in Seq(B)
      /\ Len(SubSeq(x, a + 1, b)) = IF a + 1 <= b THEN b - (a + 1) + 1 ELSE 0
      /\ \A i \in 1..(b - (a + 1) + 1) : SubSeq(x, a + 1, b)[i] = x[a + 1 + i - 1]
    BY <1>1, <1>2, SubSeqProperties
<1>4. \A i \in 1..(b - a) : a + 1 + i - 1 = a + i
    OBVIOUS
<1>5. (IF a + 1 <= b THEN b - (a + 1) + 1 ELSE 0) = b - a
    OBVIOUS
<1> QED
    BY <1>2, <1>3, <1>4, <1>5

\* Two parts, one after the other.
LEMMA PartsJoin ==
    ASSUME NEW B, NEW x \in Seq(B), NEW a \in Nat, NEW b \in Nat, NEW c \in Nat,
           a <= b, b <= c, c <= Len(x)
    PROVE  SubSeq(x, a + 1, b) \o SubSeq(x, b + 1, c) = SubSeq(x, a + 1, c)
<1>1. a + 1 \in 1..(Len(x) + 1) /\ b \in ((a + 1) - 1)..Len(x) /\ c \in b..Len(x)
    OBVIOUS
<1> QED
    BY <1>1, ConcatAdjacentSubSeq

\* The first b elements.
LEMMA PrefixIs ==
    ASSUME NEW B, NEW x \in Seq(B), NEW b \in Nat, b <= Len(x)
    PROVE  /\ SubSeq(x, 1, b) \in Seq(B)
           /\ Len(SubSeq(x, 1, b)) = b
           /\ \A i \in 1..b : SubSeq(x, 1, b)[i] = x[i]
<1>1. 0 \in Nat /\ 0 <= b
    OBVIOUS
<1>2. /\ SubSeq(x, 0 + 1, b) \in Seq(B)
      /\ Len(SubSeq(x, 0 + 1, b)) = b - 0
      /\ \A i \in 1..(b - 0) : SubSeq(x, 0 + 1, b)[i] = x[0 + i]
    BY <1>1, PartIs
<1>3. 0 + 1 = 1 /\ b - 0 = b /\ \A i \in 1..b : 0 + i = i
    OBVIOUS
<1> QED
    BY <1>2, <1>3

\* A prefix and what follows it.
LEMMA PrefixGrows ==
    ASSUME NEW B, NEW x \in Seq(B), NEW b \in Nat, NEW c \in Nat, b <= c, c <= Len(x)
    PROVE  SubSeq(x, 1, b) \o SubSeq(x, b + 1, c) = SubSeq(x, 1, c)
<1>1. 0 \in Nat /\ 0 <= b
    OBVIOUS
<1>2. SubSeq(x, 0 + 1, b) \o SubSeq(x, b + 1, c) = SubSeq(x, 0 + 1, c)
    BY <1>1, PartsJoin
<1>3. 0 + 1 = 1
    OBVIOUS
<1> QED
    BY <1>2, <1>3

\* A run of at most 32 literals is closed.
LEMMA RunCloses ==
    ASSUME NEW x, x \in Seq(Range(x)), NEW o, NEW r, NEW p \in Nat, p <= Len(x),
           Written(x, o, r, p), Len(r) <= 32
    PROVE  /\ StopRun(o, r) \in Seq(Values(x))
           /\ Len(StopRun(o, r)) = Len(o) + (IF Len(r) = 0 THEN 0 ELSE Len(r) + 1)
           /\ Expands(StopRun(o, r), Len(x), SubSeq(x, 1, p))
<1> DEFINE D == Values(x)
           k == Len(r)
           q == p - k
<1>1. HasBytes(D) /\ x \in Seq(D) /\ o \in Seq(D) /\ Len(x) \in Nat
    BY ValuesAre DEF Written
<1>2. /\ k \in Nat /\ k <= p /\ k <= 32 /\ r = SubSeq(x, p - k + 1, p)
      /\ Expands(o, Len(x), SubSeq(x, 1, q))
    BY DEF Written
<1> HIDE DEF D
<1>3. CASE k = 0
    <2>1. r = <<>>
        <3>1. p - k + 1 \in Int /\ p < p - k + 1
            BY <1>2, <1>3
        <3> QED
            BY <1>2, <3>1, SubSeqEmpty
    <2>2. q = p /\ Len(o) + 0 = Len(o)
        BY <1>1, <1>3
    <2> QED
        BY <1>1, <1>2, <1>3, <2>1, <2>2 DEF StopRun, D
<1>4. CASE k # 0
    <2>1. q \in Nat /\ q <= p /\ p - q = k
        BY <1>2
    <2> HIDE DEF q
    <2>2. r = SubSeq(x, q + 1, p)
        BY <1>2 DEF q
    <2>3. r \in Seq(D) /\ 0 + 1 = 1
        BY <1>1, <2>1, <2>2, PartIs
    <2> DEFINE data == SubSeq(x, 1, q)
    <2>4. data \in Seq(D) /\ Len(data) = q
        <3>1. q <= Len(x)
            BY <1>1, <2>1
        <3> QED
            BY <1>1, <2>1, <3>1, PrefixIs
    <2>5. data \o r = SubSeq(x, 1, p)
        BY <1>1, <2>1, <2>2, PrefixGrows
    <2> HIDE DEF data
    <2>6. Len(data) \in Nat /\ Len(data) + Len(r) <= Len(x) /\ Len(r) \in 1..32
        <3> HIDE DEF k
        <3>1. Len(r) = k
            BY DEF k
        <3>2. k \in 1..32 /\ q + k <= Len(x)
            BY <1>1, <1>2, <1>4, <2>1
        <3> QED
            BY <2>1, <2>4, <3>1, <3>2
    <2>7. Expands(StopRun(o, r), Len(x), data \o r)
        BY <1>1, <1>2, <2>3, <2>6, LiteralsExpand DEF data
    <2>8. r # <<>>
        BY <1>4
    <2>9. StopRun(o, r) = (o \o <<k - 1>>) \o r
        BY <2>8 DEF StopRun
    <2>10. <<k - 1>> \in Seq(D) /\ Len(<<k - 1>>) = 1
        <3> DEFINE c == k - 1
        <3>1. c \in Int /\ 0 <= c /\ c <= 255
            BY <1>2, <1>4
        <3> HIDE DEF c
        <3>2. c \in D
            BY <1>1, <3>1, ByteIsIn
        <3>3. <<c>> \in Seq(D) /\ Len(<<c>>) = 1
            BY <3>2
        <3> QED
            BY <3>3 DEF c
    <2> DEFINE s == o \o <<k - 1>>
    <2>11. s \in Seq(D) /\ Len(s) = Len(o) + 1
        BY <1>1, <2>10, ConcatProperties
    <2> HIDE DEF s
    <2>12. s \o r \in Seq(D) /\ Len(s \o r) = Len(s) + Len(r)
        BY <2>3, <2>11, ConcatProperties
    <2>13. Len(o) \in Nat
        BY <1>1
    <2>14. Len(s \o r) = Len(o) + (Len(r) + 1)
        BY <1>2, <2>11, <2>12, <2>13
    <2> QED
        BY <1>4, <2>5, <2>7, <2>9, <2>12, <2>14 DEF s, data, D
<1> QED
    BY <1>3, <1>4

\* A part of a part.
LEMMA PartOfPart ==
    ASSUME NEW B, NEW x \in Seq(B), NEW a \in Nat, NEW b \in Nat, a <= b, b <= Len(x),
           NEW i \in Nat, NEW j \in Nat, i <= j, j <= b - a
    PROVE  SubSeq(SubSeq(x, a + 1, b), i + 1, j) = SubSeq(x, (a + i) + 1, a + j)
<1> DEFINE y == SubSeq(x, a + 1, b)
           s == SubSeq(y, i + 1, j)
           c == a + i
           d == a + j
           t == SubSeq(x, c + 1, d)
<1>1. y \in Seq(B) /\ Len(y) = b - a /\ \A n \in 1..(b - a) : y[n] = x[a + n]
    BY PartIs
<1> HIDE DEF y
<1>2. s \in Seq(B) /\ Len(s) = j - i /\ \A n \in 1..(j - i) : s[n] = y[i + n]
    <2>1. j <= Len(y)
        BY <1>1
    <2> QED
        BY <1>1, <2>1, PartIs
<1>3. c \in Nat /\ d \in Nat /\ c <= d /\ d <= Len(x) /\ d - c = j - i
    OBVIOUS
<1>4. c = a + i
    OBVIOUS
<1> HIDE DEF s, c, d
<1>5. t \in Seq(B) /\ Len(t) = d - c /\ \A n \in 1..(d - c) : t[n] = x[c + n]
    BY <1>3, PartIs
<1> HIDE DEF t
<1>6. ASSUME NEW n \in 1..(j - i) PROVE s[n] = t[n]
    <2>1. i + n \in 1..(b - a) /\ a + (i + n) = c + n
        BY <1>4
    <2> QED
        BY <1>1, <1>2, <1>3, <1>5, <2>1
<1>7. s = t
    BY <1>2, <1>3, <1>5, <1>6, SeqEqual
<1> QED
    BY <1>7 DEF s, t, y, c, d

\* What the open run becomes with at most two literals more.
LEMMA LiteralsAreWritten ==
    ASSUME in \in Seq(Range(in)), NEW p \in Nat, NEW q \in Nat,
           Written(in, out, run, p), Len(run) < 32,
           p <= q, q <= p + 2, q <= Len(in)
    PROVE  LET w == AddLiterals(SubSeq(in, p + 1, q))
           IN  Written(in, w[1], w[2], q) /\ Len(w[2]) < 32
<1> DEFINE D == Values(in)
           k == Len(run)
           a == p - k
           all == run \o SubSeq(in, p + 1, q)
           w == AddLiterals(SubSeq(in, p + 1, q))
<1>1. HasBytes(D) /\ in \in Seq(D) /\ out \in Seq(D) /\ Len(in) \in Nat /\ Len(out) \in Nat
    BY ValuesAre DEF Written
<1>2. /\ k \in Nat /\ k <= p /\ k < 32 /\ run = SubSeq(in, a + 1, p)
      /\ 32 * Len(out) <= 33 * a
      /\ Expands(out, Len(in), SubSeq(in, 1, a))
      /\ a \in Nat /\ a <= p
    BY DEF Written
<1> HIDE DEF D
<1>3. k = p - a
    BY <1>2
<1> HIDE DEF k, a
<1>4. all = SubSeq(in, a + 1, q)
    BY <1>1, <1>2, PartsJoin, SMTT(60)
<1>5. all \in Seq(D) /\ Len(all) = q - a
    BY <1>1, <1>2, <1>4, PartIs, SMTT(60)
<1>6. w = IF Len(all) < 32 THEN <<out, all>>
          ELSE <<StopRun(out, SubSeq(all, 1, 32)), SubSeq(all, 33, Len(all))>>
    BY DEF AddLiterals, MAX_LIT
<1> HIDE DEF w, all
<1>7. CASE Len(all) < 32
    <2>1. w[1] = out /\ w[2] = all
        BY <1>6, <1>7
    <2>2. q - Len(all) = a /\ Len(all) \in Nat /\ Len(all) <= q
        BY <1>2, <1>5
    <2>3. Written(in, out, all, q)
        BY <1>1, <1>2, <1>4, <2>2 DEF Written, D
    <2> QED
        BY <1>7, <2>1, <2>3 DEF w
<1>8. CASE ~(Len(all) < 32)
    <2> DEFINE full == SubSeq(all, 1, 32)
               b == a + 32
               rest == SubSeq(all, 33, Len(all))
               o == StopRun(out, full)
    <2>1. b \in Nat /\ b <= q /\ q - b <= 1 /\ b - 32 = a /\ b = a + 32
        BY <1>2, <1>3, <1>5, <1>8
    <2>2. full = SubSeq(in, a + 1, b)
        <3>1. /\ 0 \in Nat /\ 32 \in Nat /\ 0 <= 32 /\ 32 <= q - a
              /\ a <= q /\ 0 + 1 = 1 /\ a + 0 = a
            BY <1>2, <1>5, <1>8
        <3>2. SubSeq(SubSeq(in, a + 1, q), 0 + 1, 32) = SubSeq(in, (a + 0) + 1, a + 32)
            BY <1>1, <1>2, <3>1, PartOfPart
        <3> QED
            BY <1>4, <3>1, <3>2
    <2>3. rest = SubSeq(in, b + 1, q)
        <3> DEFINE n == q - a
        <3>1. /\ n \in Nat /\ 32 \in Nat /\ 32 <= n /\ n <= q - a
              /\ a <= q /\ 32 + 1 = 33 /\ a + n = q
            BY <1>2, <1>5, <1>8
        <3> HIDE DEF n
        <3>2. SubSeq(SubSeq(in, a + 1, q), 32 + 1, n) = SubSeq(in, (a + 32) + 1, a + n)
            BY <1>1, <1>2, <3>1, PartOfPart
        <3>3. n = Len(all)
            BY <1>5 DEF n
        <3> QED
            BY <1>4, <3>1, <3>2, <3>3
    <2> HIDE DEF b
    <2>4. Len(full) = 32
        <3>1. a <= b /\ b <= Len(in) /\ b - a = 32
            BY <1>1, <1>2, <2>1
        <3>2. Len(SubSeq(in, a + 1, b)) = b - a
            BY <1>1, <1>2, <2>1, <3>1, PartIs
        <3> QED
            BY <2>2, <3>1, <3>2
    <2>5. Len(rest) = q - b
        BY <1>1, <2>1, <2>3, PartIs, SMTT(60)
    <2> HIDE DEF full, rest
    <2>6. Written(in, out, full, b)
        <3>1. b - Len(full) = a /\ Len(full) \in Nat /\ Len(full) <= b
            BY <1>2, <2>1, <2>4
        <3> QED
            BY <1>1, <1>2, <2>2, <3>1 DEF Written, D
    <2>7. /\ o \in Seq(D) /\ Len(o) = Len(out) + 33
          /\ Expands(o, Len(in), SubSeq(in, 1, b))
        <3>1. b <= Len(in) /\ Len(full) <= 32 /\ Len(full) # 0 /\ Len(full) + 1 = 33
            BY <1>1, <2>1, <2>4
        <3> QED
            BY <2>1, <2>6, <3>1, RunCloses DEF D
    <2> HIDE DEF o
    <2>8. Written(in, o, rest, q)
        <3>1. q - Len(rest) = b /\ Len(rest) \in Nat /\ Len(rest) <= q
            BY <2>1, <2>5
        <3>2. 32 * Len(o) <= 33 * b
            BY <1>1, <1>2, <2>1, <2>7
        <3> QED
            BY <2>3, <2>7, <3>1, <3>2 DEF Written, D
    <2>9. w[1] = o /\ w[2] = rest
        BY <1>6, <1>8 DEF o, full, rest
    <2>10. Len(rest) < 32
        BY <2>1, <2>5
    <2> QED
        BY <2>8, <2>9, <2>10 DEF w
<1> QED
    BY <1>7, <1>8

\* The compressor in the middle of its work, and at the end of it.
AtWork ==
    /\ ip \in Nat /\ ip <= Len(in)
    /\ Written(in, out, run, ip) /\ Len(run) < 32
    /\ \A h \in DOMAIN htab : htab[h] \in Nat /\ htab[h] < ip

\* lzf_compress has returned: all is read, and what is written expands to it.
Finished ==
    /\ ip = Len(in) /\ run = <<>>
    /\ out \in Seq(Values(in)) /\ Len(out) < out_len
    /\ Expands(out, Len(in), in)

\* What holds of the compressor at all times: its buffer is twice its input.
LzfInv ==
    /\ in \in Seq(Range(in))
    /\ lzf \in {"idle", "running", "done", "refused"}
    /\ lzf \in {"idle", "refused"} => in = <<>>
    /\ lzf \in {"running", "done"} => Len(in) >= 4 /\ out_len = 2 * Len(in)
    /\ lzf = "running" => AtWork
    /\ lzf = "done" => Finished

\* What is written leaves room.
LEMMA RoomIsLeft ==
    ASSUME NEW n \in Nat, n >= 4, NEW p \in Nat, p <= n, NEW k \in Nat, k <= p,
           NEW len \in Nat, 32 * len <= 33 * (p - k)
    PROVE  /\ len + 1 + k + 3 <= 2 * n
           /\ p + 3 <= n => len + 1 + k + 4 < 2 * n
           /\ len + k + 1 < 2 * n
BY SMT

\* The table holds positions that are behind.
LEMMA StoreBehind ==
    ASSUME NEW tab, NEW i \in Nat, NEW p \in Nat, i < p,
           \A h \in DOMAIN tab : tab[h] \in Nat /\ tab[h] < p
    PROVE  \A h \in DOMAIN Store(tab, i) : Store(tab, i)[h] \in Nat /\ Store(tab, i)[h] < p
BY DEF Store

\* A match: the closed run and the reference expand to what is read, and there
\* was room.
LEMMA MatchKeeps ==
    ASSUME LzfInv, CompressMatch PROVE LzfInv'
<1> DEFINE ref == Slot(ip)
           n == Len(in)
           len == MatchLen(ref)
           o == StopRun(out, run)
           token == Token(ip - ref, len)
           next == ip + len
           tab == Store(htab, ip)
           D == Values(in)
<1>1. /\ in \in Seq(Range(in)) /\ lzf = "running" /\ ip < in_len - 2 /\ Match
      /\ n >= 4 /\ out_len = 2 * n /\ AtWork /\ n \in Nat /\ in_len = n
    BY DEF LzfInv, CompressMatch, Running, in_len
<1>2. /\ ip \in Nat /\ ip + 3 <= n /\ Written(in, out, run, ip) /\ Len(run) < 32
      /\ \A h \in DOMAIN htab : htab[h] \in Nat /\ htab[h] < ip
    BY <1>1 DEF AtWork
<1>3. /\ out \in Seq(D) /\ Len(out) \in Nat /\ Len(run) \in Nat /\ Len(run) <= ip
      /\ 32 * Len(out) <= 33 * (ip - Len(run))
    BY <1>2 DEF Written
<1>4. ref \in Nat /\ ref < ip /\ ip - ref <= 8192 /\ \A k \in 1..3 : in[ref + k] = in[ip + k]
    <2>1. ref > 0 /\ ip - ref - 1 < 8192 /\ \A k \in 1..3 : in[ref + k] = in[ip + k]
        BY <1>1 DEF Match, MAX_OFF
    <2>2. ref \in Nat
        BY <1>2 DEF Slot
    <2>3. ref # 0 => ref < ip
        BY <1>2 DEF Slot
    <2> HIDE DEF ref
    <2> QED
        BY <1>2, <2>1, <2>2, <2>3
<1> HIDE DEF ref
<1>5. ~NoRoomForReference
    <2>1. Len(out) + 1 + Len(run) + 4 < 2 * n
        BY <1>1, <1>2, <1>3, RoomIsLeft
    <2> QED
        BY <1>1, <1>3, <2>1 DEF NoRoomForReference, op
<1>6. /\ len \in Nat /\ 3 <= len /\ len <= 264 /\ next <= n
      /\ \A k \in Nat : k < len => in[ref + k + 1] = in[ip + k + 1]
    <2>1. ip < in_len - 2 /\ Len(in) \in Nat
        BY <1>1
    <2>2. ip \in Nat /\ ref \in Nat /\ SameThree(ref)
        BY <1>2, <1>4 DEF SameThree
    <2>3. /\ len \in Nat /\ 3 <= len /\ len <= 264 /\ ip + len <= in_len
          /\ \A k \in Nat : k < len => in[ref + k + 1] = in[ip + k + 1]
        BY <2>1, <2>2, MatchGoes, SMTT(60)
    <2> HIDE DEF len
    <2> QED
        BY <1>1, <2>3
<1>7. /\ out' = o \o Reference(ref, len - 2) /\ run' = <<>> /\ ip' = next
      /\ htab' = (IF next >= in_len - 2 THEN tab ELSE Store(Store(tab, next - 2), next - 1))
      /\ in' = in /\ out_len' = out_len /\ lzf' = lzf
    BY <1>5 DEF CompressMatch, ref
<1>8. Reference(ref, len - 2) = token
    <2>1. ip - ref - 1 = (ip - ref) - 1
        OBVIOUS
    <2> QED
        BY <2>1 DEF Reference, Token
<1> HIDE DEF len, tab
<1>9. /\ o \in Seq(D) /\ Expands(o, n, SubSeq(in, 1, ip))
      /\ Len(o) = Len(out) + (IF Len(run) = 0 THEN 0 ELSE Len(run) + 1)
    <2>1. ip <= Len(in) /\ Len(run) <= 32
        BY <1>1, <1>2, <1>3
    <2> QED
        BY <1>1, <1>2, <2>1, RunCloses
<1> HIDE DEF o
<1>10. SubSeq(in, 1, ip) \in Seq(D) /\ Len(SubSeq(in, 1, ip)) = ip /\ HasBytes(D) /\ in \in Seq(D)
    <2>1. HasBytes(D) /\ in \in Seq(D) /\ ip <= Len(in)
        BY <1>1, <1>2, ValuesAre
    <2> HIDE DEF D
    <2> QED
        BY <1>2, <2>1, PrefixIs
<1> HIDE DEF D
<1>11. CopyBack(SubSeq(in, 1, ip), ip - ref, len) = SubSeq(in, 1, next)
    <2>1. ip + len <= Len(in) /\ ip \in Nat /\ ref \in Nat /\ ref < ip /\ len \in Nat
        BY <1>2, <1>4, <1>6
    <2> QED
        BY <1>6, <1>10, <2>1, CopyIsInput
<1> DEFINE dist == ip - ref
<1>12. /\ token \in Seq(D) /\ Len(token) = (IF len < 9 THEN 2 ELSE 3)
       /\ Expands(o \o token, n, SubSeq(in, 1, next))
    <2>1. dist \in Nat /\ 1 <= dist /\ dist <= 8192 /\ dist <= ip
        BY <1>2, <1>4
    <2> DEFINE data == SubSeq(in, 1, ip)
    <2>2. Len(data) \in Nat /\ dist <= Len(data) /\ Len(data) + len <= n
        BY <1>2, <1>6, <1>10, <2>1
    <2> HIDE DEF dist, data
    <2>3. /\ Token(dist, len) \in Seq(D)
          /\ Len(Token(dist, len)) = (IF len < 9 THEN 2 ELSE 3)
          /\ Expands(o \o Token(dist, len), n, CopyBack(data, dist, len))
        <3>1. HasBytes(D) /\ o \in Seq(D) /\ n \in Nat /\ Expands(o, n, data)
            BY <1>1, <1>9, <1>10 DEF data
        <3>2. len \in Nat /\ 3 <= len /\ len <= 264
            BY <1>6
        <3> HIDE DEF n
        <3> QED
            BY <2>1, <2>2, <3>1, <3>2, ReferenceExpands
    <2> QED
        BY <1>11, <2>3 DEF dist, data
<1> HIDE DEF token, dist
<1>13. /\ out' = o \o token /\ out' \in Seq(D) /\ Len(out') = Len(o) + Len(token)
    BY <1>7, <1>8, <1>9, <1>12, ConcatProperties
<1>14. 32 * Len(out') <= 33 * next
    <2>1. Len(out') <= Len(out) + Len(run) + 1 + (IF len < 9 THEN 2 ELSE 3) /\ Len(out') \in Nat
        <3> DEFINE c == IF Len(run) = 0 THEN 0 ELSE Len(run) + 1
                   t == IF len < 9 THEN 2 ELSE 3
        <3>1. c \in Nat /\ c <= Len(run) + 1
            BY <1>3
        <3>2. t \in Nat
            OBVIOUS
        <3> HIDE DEF c
        <3>3. Len(o) = Len(out) + c
            BY <1>9 DEF c
        <3> HIDE DEF t
        <3>4. Len(out') = Len(out) + c + t
            BY <1>3, <1>12, <1>13, <3>1, <3>2, <3>3 DEF t
        <3>5. Len(out') <= Len(out) + Len(run) + 1 + t /\ Len(out') \in Nat
            BY <1>3, <3>1, <3>2, <3>4
        <3> QED
            BY <3>5 DEF t
    <2> QED
        BY <1>2, <1>3, <1>6, <2>1, SMTT(60)
<1>15. next \in Nat /\ next - 0 = next /\ 0 <= next
    BY <1>2, <1>6
<1>16. Written(in, out', <<>>, next)
    <2>1. Len(<<>>) = 0 /\ Len(<<>>) \in Nat
        OBVIOUS
    <2>2. <<>> = SubSeq(in, next + 1, next)
        <3>1. next + 1 \in Int /\ next \in Int /\ next < next + 1
            BY <1>15
        <3> QED
            BY <3>1, SubSeqEmpty
    <2>3. next - 0 + 1 = next + 1
        BY <1>15
    <2> HIDE DEF next
    <2> QED
        BY <1>12, <1>13, <1>14, <1>15, <2>1, <2>2, <2>3 DEF Written, D
<1>17. \A h \in DOMAIN htab' : htab'[h] \in Nat /\ htab'[h] < next
    <2>1. \A h \in DOMAIN htab : htab[h] \in Nat /\ htab[h] < next
        BY <1>2, <1>6
    <2>2. /\ ip \in Nat /\ ip < next /\ next - 2 \in Nat /\ next - 2 < next
          /\ next - 1 \in Nat /\ next - 1 < next
        BY <1>2, <1>6
    <2> HIDE DEF next
    <2>3. \A h \in DOMAIN tab : tab[h] \in Nat /\ tab[h] < next
        BY <1>15, <2>1, <2>2, StoreBehind DEF tab
    <2> DEFINE tab2 == Store(tab, next - 2)
    <2>4. \A h \in DOMAIN tab2 : tab2[h] \in Nat /\ tab2[h] < next
        BY <1>15, <2>2, <2>3, StoreBehind
    <2> HIDE DEF tab2
    <2> DEFINE tab3 == Store(tab2, next - 1)
    <2>5. \A h \in DOMAIN tab3 : tab3[h] \in Nat /\ tab3[h] < next
        BY <1>15, <2>2, <2>4, StoreBehind
    <2> HIDE DEF tab3
    <2>6. htab' = tab \/ htab' = tab3
        BY <1>7 DEF tab3, tab2
    <2> QED
        BY <2>3, <2>5, <2>6
<1>18. AtWork'
    BY <1>6, <1>7, <1>15, <1>16, <1>17 DEF AtWork
<1> QED
    BY <1>1, <1>7, <1>18 DEF LzfInv

\* A literal goes to the open run, or closes it.
LEMMA LiteralKeeps ==
    ASSUME LzfInv, CompressLiteral PROVE LzfInv'
<1> DEFINE n == Len(in)
           q == ip + 1
           w == AddLiterals(SubSeq(in, ip + 1, q))
<1>1. /\ in \in Seq(Range(in)) /\ lzf = "running" /\ ip < in_len - 2
      /\ n >= 4 /\ out_len = 2 * n /\ AtWork /\ n \in Nat /\ in_len = n
    BY DEF LzfInv, CompressLiteral, Running, in_len
<1>2. /\ ip \in Nat /\ ip + 3 <= n /\ Written(in, out, run, ip) /\ Len(run) < 32
      /\ \A h \in DOMAIN htab : htab[h] \in Nat /\ htab[h] < ip
    BY <1>1 DEF AtWork
<1>3. /\ Len(out) \in Nat /\ Len(run) \in Nat /\ Len(run) <= ip
      /\ 32 * Len(out) <= 33 * (ip - Len(run))
    BY <1>2 DEF Written
<1>4. ~(op >= out_len)
    <2>1. Len(out) + 1 + Len(run) + 4 < 2 * n
        BY <1>1, <1>2, <1>3, RoomIsLeft
    <2> QED
        BY <1>1, <1>3, <2>1 DEF op
<1>5. SubSeq(in, ip + 1, q) = <<in[ip + 1]>>
    <2>1. ip <= q /\ q <= Len(in) /\ q \in Nat /\ q - ip = 1
        BY <1>2
    <2> HIDE DEF q
    <2>2. /\ SubSeq(in, ip + 1, q) \in Seq(Range(in)) /\ Len(SubSeq(in, ip + 1, q)) = 1
          /\ \A i \in 1..1 : SubSeq(in, ip + 1, q)[i] = in[ip + i]
        BY <1>1, <1>2, <2>1, PartIs, SMTT(60)
    <2>3. SubSeq(in, ip + 1, q)[1] = in[ip + 1]
        BY <2>2
    <2> DEFINE e == in[ip + 1]
               s == SubSeq(in, ip + 1, q)
               t == <<e>>
    <2>4. s \in Seq(Range(in)) /\ Len(s) = 1 /\ s[1] = e
        BY <2>2, <2>3
    <2>5. e \in Range(in)
        BY <2>4, SMTT(60)
    <2> HIDE DEF s, e
    <2>6. t \in Seq(Range(in)) /\ Len(t) = 1 /\ t[1] = e
        BY <2>5
    <2> HIDE DEF t
    <2>7. \A i \in 1..Len(s) : s[i] = t[i]
        BY <2>4, <2>6
    <2>8. s = t
        BY <2>4, <2>6, <2>7, SeqEqual
    <2> QED
        BY <2>8 DEF s, t, e
<1>6. q \in Nat /\ ip <= q /\ q <= ip + 2 /\ q <= Len(in) /\ ip < q
    BY <1>2
<1> HIDE DEF q
<1>7. Written(in, w[1], w[2], q) /\ Len(w[2]) < 32
    BY <1>1, <1>2, <1>6, LiteralsAreWritten
<1>8. /\ out' = w[1] /\ run' = w[2] /\ ip' = q /\ htab' = Store(htab, ip)
      /\ in' = in /\ out_len' = out_len /\ lzf' = lzf
    BY <1>4, <1>5 DEF CompressLiteral, q
<1> HIDE DEF w
<1>9. \A h \in DOMAIN htab' : htab'[h] \in Nat /\ htab'[h] < q
    <2>1. \A h \in DOMAIN htab : htab[h] \in Nat /\ htab[h] < q
        BY <1>2, <1>6
    <2> DEFINE tab == Store(htab, ip)
    <2>2. \A h \in DOMAIN tab : tab[h] \in Nat /\ tab[h] < q
        BY <1>2, <1>6, <2>1, StoreBehind
    <2> HIDE DEF tab
    <2>3. htab' = tab
        BY <1>8 DEF tab
    <2> QED
        BY <2>2, <2>3
<1>10. AtWork'
    BY <1>6, <1>7, <1>8, <1>9 DEF AtWork
<1> QED
    BY <1>1, <1>8, <1>10 DEF LzfInv

\* The bytes that are left go to the last run.
LEMMA EndKeeps ==
    ASSUME LzfInv, CompressEnd PROVE LzfInv'
<1> DEFINE n == Len(in)
           w == AddLiterals(SubSeq(in, ip + 1, n))
           o == StopRun(w[1], w[2])
<1>1. /\ in \in Seq(Range(in)) /\ lzf = "running" /\ ip >= in_len - 2
      /\ n >= 4 /\ out_len = 2 * n /\ AtWork /\ n \in Nat /\ in_len = n
    BY DEF LzfInv, CompressEnd, in_len
<1>2. ip \in Nat /\ ip <= n /\ n <= ip + 2 /\ Written(in, out, run, ip) /\ Len(run) < 32
    BY <1>1 DEF AtWork
<1>3. /\ Len(out) \in Nat /\ Len(run) \in Nat /\ Len(run) <= ip
      /\ 32 * Len(out) <= 33 * (ip - Len(run))
    BY <1>2 DEF Written
<1>4. ~(op + 3 > out_len)
    <2>1. Len(out) + 1 + Len(run) + 3 <= 2 * n
        BY <1>1, <1>2, <1>3, RoomIsLeft
    <2> QED
        BY <1>1, <1>3, <2>1 DEF op
<1>5. Written(in, w[1], w[2], n) /\ Len(w[2]) < 32
    BY <1>1, <1>2, LiteralsAreWritten
<1>6. out' = o /\ run' = <<>> /\ ip' = n /\ lzf' = "done" /\ in' = in /\ out_len' = out_len
    BY <1>1, <1>4 DEF CompressEnd
<1> HIDE DEF w
<1>7. /\ w[1] \in Seq(Values(in)) /\ Len(w[1]) \in Nat
      /\ Len(w[2]) \in Nat /\ Len(w[2]) <= n /\ 32 * Len(w[1]) <= 33 * (n - Len(w[2]))
    BY <1>5 DEF Written
<1>8. /\ o \in Seq(Values(in)) /\ Expands(o, n, SubSeq(in, 1, n))
      /\ Len(o) = Len(w[1]) + (IF Len(w[2]) = 0 THEN 0 ELSE Len(w[2]) + 1)
    <2>1. n <= Len(in) /\ Len(w[2]) <= 32
        BY <1>1, <1>5, <1>7
    <2> QED
        BY <1>1, <1>5, <2>1, RunCloses, ZenonT(60)
<1> HIDE DEF o
<1>9. Len(o) < 2 * n
    <2> DEFINE m == Len(in)
               a == Len(w[1])
               k == Len(w[2])
    <2>1. m \in Nat /\ m >= 4 /\ m <= m
        BY <1>1
    <2>2. a \in Nat /\ k \in Nat /\ k <= m /\ 32 * a <= 33 * (m - k)
        BY <1>7
    <2>3. Len(o) = a + (IF k = 0 THEN 0 ELSE k + 1)
        BY <1>8
    <2> HIDE DEF m, a, k
    <2>4. a + k + 1 < 2 * m
        BY <2>1, <2>2, RoomIsLeft
    <2>5. Len(o) < 2 * m
        BY <2>1, <2>2, <2>3, <2>4
    <2> QED
        BY <2>5 DEF m
<1>10. SubSeq(in, 1, n) = in
    BY <1>1, SubSeqFull
<1>11. Finished'
    BY <1>1, <1>6, <1>8, <1>9, <1>10 DEF Finished
<1> QED
    BY <1>1, <1>6, <1>11 DEF LzfInv

\* lzf_compress is called with twice the room of its input.
LEMMA CallStarts ==
    ASSUME NEW data, data \in Seq(Range(data)), Len(data) = 0 \/ Len(data) >= 4,
           Call(data, 2 * Len(data))
    PROVE  LzfInv'
<1>1. /\ in' = data /\ out_len' = 2 * Len(data) /\ ip' = 0 /\ out' = <<>> /\ run' = <<>>
      /\ htab' = <<>>
      /\ lzf' = IF Len(data) = 0 \/ 2 * Len(data) = 0 THEN "refused" ELSE "running"
    BY DEF Call
<1>2. Len(data) \in Nat
    OBVIOUS
<1>3. CASE Len(data) = 0
    <2>1. data = <<>> /\ lzf' = "refused"
        BY <1>1, <1>3
    <2> QED
        BY <1>1, <2>1 DEF LzfInv
<1>4. CASE Len(data) # 0
    <2>1. lzf' = "running" /\ Len(data) >= 4
        BY <1>1, <1>2, <1>4
    <2>2. Written(data, <<>>, <<>>, 0)
        <3>1. <<>> = SubSeq(data, 1, 0)
            BY SubSeqEmpty
        <3>2. Len(<<>>) = 0 /\ 0 - 0 = 0 /\ 0 - 0 + 1 = 1 /\ 32 * 0 <= 33 * (0 - 0)
            OBVIOUS
        <3>3. Expands(<<>>, Len(data), SubSeq(data, 1, 0))
            BY <3>1, NothingExpands
        <3>4. <<>> \in Seq(Values(data))
            OBVIOUS
        <3> QED
            BY <3>1, <3>2, <3>3, <3>4 DEF Written
    <2>3. DOMAIN <<>> = {}
        OBVIOUS
    <2>4. AtWork'
        BY <1>1, <1>2, <2>1, <2>2, <2>3 DEF AtWork
    <2> QED
        BY <1>1, <2>1, <2>4 DEF LzfInv
<1> QED
    BY <1>3, <1>4

\* What BlobIsTheScan says follows from the invariant of the compressor.
LEMMA BlobHolds ==
    ASSUME LzfInv PROVE BlobIsTheScan
<1> DEFINE bytes == StopRun(out, run)
           read == Decompress(bytes, in_len)
<1>1. in_len = Len(in) /\ in \in Seq(Range(in)) /\ Len(in) \in Nat
    BY DEF LzfInv, in_len
<1>2. ASSUME lzf = "running"
      PROVE  Expands(bytes, Len(in), SubSeq(in, 1, ip)) /\ Len(bytes) \in Nat /\ Len(out) < out_len
    <2>1. /\ ip \in Nat /\ ip <= Len(in) /\ Written(in, out, run, ip) /\ Len(run) < 32
          /\ Len(in) >= 4 /\ out_len = 2 * Len(in)
        BY <1>2 DEF LzfInv, AtWork
    <2>2. /\ Len(out) \in Nat /\ Len(run) \in Nat /\ Len(run) <= ip
          /\ 32 * Len(out) <= 33 * (ip - Len(run))
        BY <2>1 DEF Written
    <2>3. Len(out) + Len(run) + 1 < 2 * Len(in)
        BY <1>1, <2>1, <2>2, RoomIsLeft
    <2>4. /\ bytes \in Seq(Values(in)) /\ Expands(bytes, Len(in), SubSeq(in, 1, ip))
        <3>1. Len(run) <= 32
            BY <2>1, <2>2
        <3> QED
            BY <1>1, <2>1, <3>1, RunCloses
    <2> HIDE DEF bytes
    <2> QED
        BY <2>1, <2>2, <2>3, <2>4
<1>3. ASSUME lzf = "done"
      PROVE  Expands(bytes, Len(in), SubSeq(in, 1, ip)) /\ Len(bytes) \in Nat /\ Len(out) < out_len
    <2>1. Finished
        BY <1>3 DEF LzfInv
    <2>2. bytes = out
        BY <2>1 DEF Finished, StopRun
    <2>3. SubSeq(in, 1, ip) = in
        BY <1>1, <2>1, SubSeqFull DEF Finished
    <2>4. Expands(out, Len(in), in) /\ Len(out) \in Nat /\ Len(out) < out_len
        BY <2>1 DEF Finished
    <2> QED
        BY <2>2, <2>3, <2>4, Zenon
<1>4. ASSUME lzf \in {"running", "done"} PROVE read.ok /\ read.data = SubSeq(in, 1, ip)
    <2>1. Expands(bytes, Len(in), SubSeq(in, 1, ip)) /\ Len(bytes) \in Nat
        BY <1>2, <1>3, <1>4
    <2> HIDE DEF bytes
    <2> QED
        BY <1>1, <2>1, ExpandsIsDecompressed
<1>5. lzf = "refused" => in = <<>>
    BY DEF LzfInv
<1>6. lzf # "idle" /\ in # <<>> => Len(out) < out_len
    BY <1>2, <1>3 DEF LzfInv
<1> HIDE DEF read
<1> QED
    BY <1>4, <1>5, <1>6 DEF BlobIsTheScan, read

-----------------------------------------------------------------------------
(* Recursive functions *)

\* f is v0 at first and then what G makes of the value before.
Runs(f, v0, n, G) == f[0] = v0 /\ \A k \in 1..n : f[k] = G[<<k, f[k - 1]>>]

\* f is one on 0..n, and whatever goes on the same way is f there.
Solves(f, V, v0, n, G) ==
    /\ f \in [0..n -> V]
    /\ Runs(f, v0, n, G)
    /\ \A d : d[0] = v0 /\ (\A k \in 1..n : d[k - 1] \in V => d[k] = G[<<k, d[k - 1]>>])
              => \A k \in 0..n : d[k] = f[k]

\* There is one.
LEMMA Recursion ==
    ASSUME NEW V, NEW v0 \in V, NEW n \in Nat, NEW G \in [(1..n) \X V -> V]
    PROVE  \E f : Solves(f, V, v0, n, G)
<1> DEFINE S == {m \in Nat : m <= n => \E f \in [0..m -> V] : Runs(f, v0, m, G)}
<1>1. 0 \in S
    <2> DEFINE f == [k \in 0..0 |-> v0]
    <2>1. f \in [0..0 -> V] /\ Runs(f, v0, 0, G)
        BY DEF Runs
    <2> QED
        BY <2>1
<1>2. ASSUME NEW m \in Nat, m \in S PROVE m + 1 \in S
    <2>1. SUFFICES ASSUME m + 1 <= n PROVE \E f \in [0..(m + 1) -> V] : Runs(f, v0, m + 1, G)
        OBVIOUS
    <2>2. PICK f \in [0..m -> V] : Runs(f, v0, m, G)
        BY <1>2, <2>1
    <2> DEFINE x == G[<<m + 1, f[m]>>]
               g == [k \in 0..(m + 1) |-> IF k = m + 1 THEN x ELSE f[k]]
    <2>3. x \in V
        <3>1. m + 1 \in 1..n /\ f[m] \in V
            BY <2>1, <2>2
        <3> QED
            BY <3>1
    <2>4. g[0] = v0
        BY <2>2 DEF Runs
    <2>5. ASSUME NEW k \in 1..(m + 1) PROVE g[k] = G[<<k, g[k - 1]>>]
        <3>1. CASE k = m + 1
            <4>1. k - 1 = m /\ m \in 0..(m + 1) /\ m # m + 1
                BY <3>1
            <4> QED
                BY <3>1, <4>1
        <3>2. CASE k # m + 1
            <4>1. k \in 1..m /\ k - 1 \in 0..(m + 1) /\ k - 1 # m + 1
                BY <3>2
            <4>2. f[k] = G[<<k, f[k - 1]>>]
                BY <2>2, <4>1 DEF Runs
            <4> QED
                BY <3>2, <4>1, <4>2
        <3> QED
            BY <3>1, <3>2
    <2>6. g \in [0..(m + 1) -> V]
        <3> HIDE DEF x
        <3>1. ASSUME NEW k \in 0..(m + 1) PROVE g[k] \in V
            <4>1. k # m + 1 => k \in 0..m
                OBVIOUS
            <4> QED
                BY <2>2, <2>3, <4>1
        <3> QED
            BY <3>1
    <2> HIDE DEF g
    <2>7. Runs(g, v0, m + 1, G)
        BY <2>4, <2>5 DEF Runs
    <2> QED
        BY <2>6, <2>7
<1> HIDE DEF S
<1>3. Nat \subseteq S
    BY <1>1, <1>2, Induction
<1>4. PICK f \in [0..n -> V] : Runs(f, v0, n, G)
    <2>1. n \in S /\ n <= n
        BY <1>3
    <2> QED
        BY <2>1 DEF S
<1>5. ASSUME NEW d, d[0] = v0, \A k \in 1..n : d[k - 1] \in V => d[k] = G[<<k, d[k - 1]>>]
      PROVE  \A k \in 0..n : d[k] = f[k]
    <2> DEFINE T == {m \in Nat : m <= n => d[m] = f[m]}
    <2>1. 0 \in T
        BY <1>4, <1>5 DEF Runs
    <2>2. ASSUME NEW m \in Nat, m \in T PROVE m + 1 \in T
        <3>1. SUFFICES ASSUME m + 1 <= n PROVE d[m + 1] = f[m + 1]
            OBVIOUS
        <3>2. m + 1 \in 1..n /\ (m + 1) - 1 = m /\ m \in 0..n /\ d[m] = f[m]
            BY <2>2, <3>1
        <3>3. d[m] \in V
            BY <1>4, <3>2
        <3>4. f[m + 1] = G[<<m + 1, f[m]>>]
            BY <1>4, <3>2 DEF Runs
        <3>5. d[m + 1] = G[<<m + 1, d[m]>>]
            BY <1>5, <3>2, <3>3
        <3> QED
            BY <3>2, <3>4, <3>5
    <2> HIDE DEF T
    <2>3. Nat \subseteq T
        BY <2>1, <2>2, Induction
    <2> QED
        BY <2>3 DEF T
<1> QED
    BY <1>4, <1>5 DEF Solves

-----------------------------------------------------------------------------
(* Samples, packed and unpacked *)

\* The shift of a sample into the unsigned range.
Half == 2^(HalfBits - 1)
\* The values of a sample.
Width == 2^HalfBits

\* The width of a sample, from the assumptions on HalfBits.
LEMMA Widths ==
    /\ Half \in Nat /\ Half > 1 /\ Width = 2 * Half
    /\ range_shift_constant = Half /\ Codes = (-Half)..(Half - 1)
BY PowersAssumption DEF Half, Width, range_shift_constant, Codes

\* Quotient and rest are unique.
LEMMA Quotient ==
    ASSUME NEW h \in Nat \ {0}, NEW q \in Int, NEW r \in Nat, r < h, NEW w, w = q * h + r
    PROVE  w \div h = q /\ w % h = r
<1> DEFINE p == w \div h
           s == w % h
<1>1. w \in Int
    BY SMT
<1>2. p \in Int /\ s \in Nat /\ s < h /\ w = h * p + s
    BY <1>1, SMT
<1> HIDE DEF p, s
<1>3. q = p
    BY <1>2, SMT
<1>4. r = s
    BY <1>2, <1>3, SMT
<1> QED
    BY <1>3, <1>4 DEF p, s

\* An element gives back both codes it is packed from.
LEMMA Packed ==
    ASSUME NEW a \in Codes, NEW b \in Codes
    PROVE  LET w == a * Width + (b % Width)
               low == w % Width
           IN  /\ w \in Int
               /\ w \div Width = a
               /\ (IF low >= Half THEN low - Width ELSE low) = b
<1> DEFINE w == a * Width + (b % Width)
           low == w % Width
           r == IF b >= 0 THEN b ELSE b + Width
<1>1. a \in Int /\ b \in Int /\ -Half <= b /\ b < Half /\ Width \in Nat \ {0} /\ Width = 2 * Half
      /\ Half \in Nat
    BY Widths
<1>2. r \in Nat /\ r < Width /\ (IF r >= Half THEN r - Width ELSE r) = b
    BY <1>1
<1>3. b % Width = r
    <2>1. b = (IF b >= 0 THEN 0 ELSE -1) * Width + r
        BY <1>1
    <2> DEFINE q == IF b >= 0 THEN 0 ELSE -1
    <2>2. q \in Int
        OBVIOUS
    <2>3. b = q * Width + r
        BY <2>1
    <2> HIDE DEF q, r
    <2>4. Width \in Nat \ {0} /\ r \in Nat /\ r < Width
        BY <1>1, <1>2
    <2>5. b \div Width = q /\ b % Width = r
        BY <2>2, <2>3, <2>4, Quotient
    <2> QED
        BY <2>5
<1> HIDE DEF r
<1>4. w = a * Width + r
    BY <1>3
<1> HIDE DEF w
<1>5. w \div Width = a /\ w % Width = r
    BY <1>1, <1>2, <1>4, Quotient
<1>6. w \in Int
    BY <1>1, <1>2, <1>4, SMT
<1> QED
    BY <1>2, <1>5, <1>6 DEF w

\* The elements there can be.
Words == {a * Width + (b % Width) : a \in Codes, b \in Codes}

\* A sample is in the unsigned range, whatever it is taken from.
LEMMA SampleFits ==
    ASSUME NEW elements \in Seq(Words), NEW offset, NEW i \in Nat,
           offset + (i \div 2) + 1 \in 1..Len(elements)
    PROVE  Sample(elements, offset, i) \in 0..(2 * Half - 1)
<1> DEFINE w == elements[offset + (i \div 2) + 1]
           low == w % Width
<1>1. PICK a \in Codes, b \in Codes : w = a * Width + (b % Width)
    <2>1. w \in Words
        OBVIOUS
    <2> QED
        BY <2>1 DEF Words
<1>2. w \div Width = a /\ (IF low >= Half THEN low - Width ELSE low) = b
    BY <1>1, Packed
<1>3. Sample(elements, offset, i) =
          (IF i % 2 = 1 THEN w \div Width ELSE IF low >= Half THEN low - Width ELSE low) + Half
    BY Widths DEF Sample, Half, Width, range_shift_constant
<1>4. Sample(elements, offset, i) = (IF i % 2 = 1 THEN a ELSE b) + Half
    BY <1>2, <1>3
<1>5. a \in (-Half)..(Half - 1) /\ b \in (-Half)..(Half - 1) /\ Half \in Nat
    BY Widths
<1> QED
    BY <1>4, <1>5

-----------------------------------------------------------------------------
(* The marker of a gate *)

\* The block arithmetic of a marker gives back the start and the number of the
\* samples, and its elements reach over them (GateData).
LEMMA MarkerIs ==
    ASSUME NEW start \in Nat, NEW n \in Nat
    PROVE  LET g == Marker(start, n)
           IN  /\ get_start_sample_index(g) = start
               /\ get_stop_sample_index(g) = start + n
               /\ g.gate_start_sample_pos = start % 8
               /\ ElementCount(g) \in Nat
               /\ \A k \in 1..n : ((start % 8) + k - 1) \div 2 + 1 \in 1..ElementCount(g)
<1> DEFINE g == Marker(start, n)
           f == (g.gate_stop_block_index - g.gate_start_block_index) * 4
           sb == start \div 8
           sp == start % 8
           eb == (start + n - 1) \div 8
           ep == (start + n - 1) % 8
<1>1. sb \in Nat /\ sp \in 0..7 /\ start = 8 * sb + sp
    OBVIOUS
<1>2. eb \in Int /\ ep \in 0..7 /\ start + n - 1 = 8 * eb + ep
    OBVIOUS
<1>3. /\ g.gate_start_block_index = sb + 1 /\ g.gate_start_sample_pos = sp
      /\ g.gate_stop_block_index = eb + 2 /\ g.gate_stop_sample_pos = ep + 1
    BY DEF Marker
<1> HIDE DEF g, sb, sp, eb, ep
<1>4. get_start_sample_index(g) = start /\ get_stop_sample_index(g) = start + n
    BY <1>1, <1>2, <1>3 DEF get_start_sample_index, get_stop_sample_index, processing_block_size
<1>5. f = 4 * (eb - sb + 1) /\ f \in Nat
    BY <1>1, <1>2, <1>3
<1>6. ElementCount(g) \in Nat /\ ElementCount(g) >= f
    <2>1. ElementCount(g) = IF f % 16 # 0 THEN (f \div 16 + 1) * 16 ELSE f
        BY DEF ElementCount
    <2> HIDE DEF f
    <2> QED
        BY <1>5, <2>1
<1>7. ASSUME NEW k \in 1..n PROVE (sp + k - 1) \div 2 + 1 \in 1..ElementCount(g)
    <2>1. sp + k - 1 <= 8 * (eb - sb) + 7
        BY <1>1, <1>2
    <2> HIDE DEF f
    <2>2. (sp + k - 1) \div 2 + 1 <= f
        BY <1>1, <1>2, <1>5, <2>1
    <2>3. (sp + k - 1) \div 2 + 1 \in Nat /\ (sp + k - 1) \div 2 + 1 >= 1
        BY <1>1
    <2> DEFINE h == (sp + k - 1) \div 2 + 1
    <2> HIDE DEF h
    <2>4. h \in Nat /\ h >= 1 /\ h <= f
        BY <2>2, <2>3 DEF h
    <2>5. h \in 1..ElementCount(g)
        BY <1>5, <1>6, <2>4
    <2> QED
        BY <2>5 DEF h
<1> QED
    BY <1>3, <1>4, <1>6, <1>7 DEF g, sp

\* One more element of t behind s.
LEMMA OneMore ==
    ASSUME NEW S, NEW s \in Seq(S), NEW t \in Seq(S), NEW k \in 1..Len(t)
    PROVE  /\ s \o SubSeq(t, 1, k - 1) \in Seq(S)
           /\ Append(s \o SubSeq(t, 1, k - 1), t[k]) = s \o SubSeq(t, 1, k)
<1>1. t[k] \in S /\ k \in Int /\ Len(t) \in Nat
    BY ElementOfSeq, LenProperties
<1>2. \A i \in 1..k : t[i] \in S
    <2>1. \A i \in 1..k : i \in 1..Len(t)
        BY <1>1
    <2> QED
        BY <2>1, ElementOfSeq
<1>3. SubSeq(t, 1, k - 1) \in Seq(S)
    <2>1. \A i \in 1..(k - 1) : t[i] \in S
        BY <1>1, <1>2
    <2> QED
        BY <1>1, <2>1, SubSeqProperties
<1>4. SubSeq(t, 1, k) = SubSeq(t, 1, k - 1) \o <<t[k]>>
    <2>1. 1 \in 1..Len(t) /\ k \in 1..Len(t)
        BY <1>1
    <2> QED
        BY <2>1, SubSeqRecursiveSecond
<1>5. s \o SubSeq(t, 1, k - 1) \in Seq(S)
    BY <1>3, ConcatProperties
<1>6. Append(s \o SubSeq(t, 1, k - 1), t[k]) = (s \o SubSeq(t, 1, k - 1)) \o <<t[k]>>
    BY <1>1, <1>5, AppendIsConcat
<1>7. <<t[k]>> \in Seq(S)
    BY <1>1
<1>8. (s \o SubSeq(t, 1, k - 1)) \o <<t[k]>> = s \o (SubSeq(t, 1, k - 1) \o <<t[k]>>)
    <2> DEFINE u == SubSeq(t, 1, k - 1)
               v == <<t[k]>>
    <2>1. u \in Seq(S) /\ v \in Seq(S)
        BY <1>3, <1>7
    <2> HIDE DEF u, v
    <2>2. (s \o u) \o v = s \o (u \o v)
        BY <2>1, ConcatAssociative, SMTT(60)
    <2> QED
        BY <2>2 DEF u, v
<1> QED
    BY <1>4, <1>5, <1>6, <1>8

\* Two sequences, one after the other.
LEMMA TwoJoin ==
    ASSUME NEW W, NEW s \in Seq(W), NEW t \in Seq(W)
    PROVE  /\ s \o t \in Seq(W)
           /\ Len(s) \in Nat /\ Len(t) \in Nat /\ Len(s \o t) = Len(s) + Len(t)
           /\ \A i \in 1..Len(s) : (s \o t)[i] = s[i]
           /\ \A i \in 1..Len(t) : (s \o t)[Len(s) + i] = t[i]
<1> DEFINE a == Len(s)
           b == Len(t)
           u == s \o t
<1>1. /\ u \in Seq(W) /\ a \in Nat /\ b \in Nat /\ Len(u) = a + b
      /\ \A i \in 1..(a + b) : u[i] = IF i <= a THEN s[i] ELSE t[i - a]
    BY ConcatProperties, LenProperties
<1> HIDE DEF a, b, u
<1>2. ASSUME NEW i \in 1..a PROVE u[i] = s[i]
    <2>1. i \in 1..(a + b) /\ i <= a
        BY <1>1
    <2> QED
        BY <1>1, <2>1
<1>3. ASSUME NEW i \in 1..b PROVE u[a + i] = t[i]
    <2> DEFINE j == a + i
    <2>1. j \in 1..(a + b) /\ ~(j <= a) /\ j - a = i
        BY <1>1
    <2> HIDE DEF j
    <2>2. u[j] = t[i]
        BY <1>1, <2>1
    <2> QED
        BY <2>2 DEF j
<1> QED
    BY <1>1, <1>2, <1>3 DEF a, b, u

-----------------------------------------------------------------------------
(* Parts, one after the other *)

\* es is in the buffer, from offset on.
Holds(buffer, offset, es) ==
    /\ offset \in Nat
    /\ \A e \in 1..Len(es) : buffer[offset + e] = es[e]

\* f holds what the first parts make.
Joining(f, W, parts) ==
    /\ f \in [0..Len(parts) -> Seq(W)]
    /\ f[0] = <<>>
    /\ \A k \in 1..Len(parts) : f[k] = f[k - 1] \o parts[k]
    /\ f[Len(parts)] = Joined(parts)

\* The elements after each part, by induction over the parts.
LEMMA JoinedIs ==
    ASSUME NEW W, NEW parts \in Seq(Seq(W))
    PROVE  \E f : Joining(f, W, parts)
<1> DEFINE n == Len(parts)
           V == Seq(W)
           G == [x \in (1..n) \X V |-> x[2] \o parts[x[1]]]
<1>1. n \in Nat /\ <<>> \in V /\ \A k \in 1..n : parts[k] \in V
    BY ElementOfSeq, LenProperties
<1>2. G \in [(1..n) \X V -> V]
    <2>1. ASSUME NEW x \in (1..n) \X V PROVE x[2] \o parts[x[1]] \in V
        <3>1. x[1] \in 1..n /\ x[2] \in V
            OBVIOUS
        <3>2. parts[x[1]] \in V
            BY <1>1, <3>1
        <3> QED
            BY <3>1, <3>2, ConcatProperties
    <2> QED
        BY <2>1
<1>3. \A k \in 1..n, v \in V : G[<<k, v>>] = v \o parts[k]
    OBVIOUS
<1> DEFINE none == <<>>
<1> HIDE DEF G, none
<1>4. PICK f : Solves(f, V, none, n, G)
    <2>1. none \in V
        BY <1>1 DEF none
    <2> HIDE DEF n, V
    <2> QED
        BY <1>1, <1>2, <2>1, Recursion
<1> USE DEF none
<1>5. f[0] = <<>> /\ \A k \in 1..n : f[k] = f[k - 1] \o parts[k]
    <2>1. ASSUME NEW k \in 1..n PROVE f[k] = f[k - 1] \o parts[k]
        <3>1. k - 1 \in 0..n
            OBVIOUS
        <3>2. f[k - 1] \in V
            BY <1>4, <3>1 DEF Solves
        <3> QED
            BY <1>3, <1>4, <3>2 DEF Runs, Solves
    <2> QED
        BY <1>4, <2>1 DEF Runs, Solves
<1> DEFINE step(h) == [k \in 0..n |-> IF k = 0 THEN <<>> ELSE h[k - 1] \o parts[k]]
           d == CHOOSE h : h = step(h)
<1>6. f = step(f)
    <2>1. ASSUME NEW k \in 0..n PROVE f[k] = step(f)[k]
        <3>1. CASE k = 0
            BY <1>5, <3>1
        <3>2. CASE k # 0
            <4>1. k \in 1..n
                BY <3>2
            <4> QED
                BY <1>5, <3>2, <4>1
        <3> QED
            BY <3>1, <3>2
    <2> QED
        BY <1>4, <2>1 DEF Solves
<1>7. d = step(d)
    BY <1>6
<1>8. Joined(parts) = d[n]
    BY DEF Joined
<1> HIDE DEF d
<1>9. d[0] = <<>> /\ \A k \in 1..n : d[k] = d[k - 1] \o parts[k]
    <2>1. d[0] = <<>>
        <3>1. 0 \in 0..n
            BY <1>1
        <3> QED
            BY <1>7, <3>1
    <2>2. ASSUME NEW k \in 1..n PROVE d[k] = d[k - 1] \o parts[k]
        <3>1. k \in 0..n /\ k # 0
            OBVIOUS
        <3> QED
            BY <1>7, <3>1
    <2> QED
        BY <2>1, <2>2
<1>10. d[n] = f[n]
    <2>1. \A k \in 1..n : d[k - 1] \in V => d[k] = G[<<k, d[k - 1]>>]
        BY <1>3, <1>9
    <2>2. \A k \in 0..n : d[k] = f[k]
        BY <1>4, <1>9, <2>1 DEF Solves
    <2>3. n \in 0..n
        BY <1>1
    <2> QED
        BY <2>2, <2>3
<1>11. f[n] = Joined(parts)
    BY <1>8, <1>10
<1> QED
    BY <1>4, <1>5, <1>11 DEF Joining, Solves

\* Every part is where the parts before end.
LEMMA JoinedHas ==
    ASSUME NEW W, NEW parts \in Seq(Seq(W)), NEW f, Joining(f, W, parts), NEW k \in 1..Len(parts)
    PROVE  /\ f[k - 1] \in Seq(W) /\ f[k] \in Seq(W)
           /\ Len(f[k - 1]) + Len(parts[k]) = Len(f[k])
           /\ Len(f[k]) <= Len(Joined(parts))
           /\ Holds(Joined(parts), Len(f[k - 1]), parts[k])
<1> DEFINE n == Len(parts)
           S == {m \in Nat : m <= n - k =>
                   /\ Len(f[k]) <= Len(f[k + m])
                   /\ \A i \in 1..Len(f[k]) : f[k + m][i] = f[k][i]}
<1>1. n \in Nat /\ \A i \in 1..n : parts[i] \in Seq(W)
    BY ElementOfSeq, LenProperties
<1>2. \A i \in 0..n : f[i] \in Seq(W) /\ Len(f[i]) \in Nat
    BY LenProperties DEF Joining
<1>3. k - 1 \in 0..n /\ k \in 0..n /\ k \in Nat
    BY <1>1
<1>4. 0 \in S
    <2>1. k + 0 = k
        BY <1>3
    <2> QED
        BY <1>2, <1>3, <2>1
<1>5. ASSUME NEW m \in Nat, m \in S PROVE m + 1 \in S
    <2>1. SUFFICES ASSUME m + 1 <= n - k
                   PROVE  /\ Len(f[k]) <= Len(f[k + (m + 1)])
                          /\ \A i \in 1..Len(f[k]) : f[k + (m + 1)][i] = f[k][i]
        OBVIOUS
    <2> DEFINE j == k + (m + 1)
    <2>2. j \in 1..n /\ j - 1 = k + m /\ j - 1 \in 0..n
        BY <1>1, <1>3, <2>1
    <2>3. /\ Len(f[k]) <= Len(f[k + m])
          /\ \A i \in 1..Len(f[k]) : f[k + m][i] = f[k][i]
        BY <1>1, <1>3, <1>5, <2>1
    <2> HIDE DEF j
    <2>4. f[j] = f[j - 1] \o parts[j]
        BY <2>2 DEF Joining
    <2>5. f[j - 1] \in Seq(W) /\ parts[j] \in Seq(W)
        BY <1>1, <1>2, <2>2
    <2> DEFINE p == Len(f[j - 1])
               c == Len(f[k])
    <2>6. /\ p \in Nat /\ Len(parts[j]) \in Nat /\ Len(f[j]) = p + Len(parts[j])
          /\ \A i \in 1..p : f[j][i] = f[j - 1][i]
        <3> DEFINE u == f[j - 1]
                   v == parts[j]
        <3>1. f[j] = u \o v /\ u \in Seq(W) /\ v \in Seq(W)
            BY <2>4, <2>5
        <3> HIDE DEF u, v
        <3>2. /\ Len(u) \in Nat /\ Len(v) \in Nat /\ Len(u \o v) = Len(u) + Len(v)
              /\ \A i \in 1..Len(u) : (u \o v)[i] = u[i]
            BY <3>1, TwoJoin
        <3> QED
            BY <3>1, <3>2 DEF u, v
    <2>7. c \in Nat /\ c <= p /\ \A i \in 1..c : f[j - 1][i] = f[k][i]
        BY <1>2, <1>3, <2>2, <2>3
    <2> HIDE DEF p, c
    <2>8. c <= Len(f[j])
        BY <2>6, <2>7
    <2>9. \A i \in 1..c : f[j][i] = f[k][i]
        <3>1. ASSUME NEW i \in 1..c PROVE f[j][i] = f[k][i]
            <4>1. i \in 1..p
                BY <2>6, <2>7
            <4> QED
                BY <2>6, <2>7, <4>1
        <3> QED
            BY <3>1
    <2> QED
        BY <2>8, <2>9 DEF j, c
<1> HIDE DEF S
<1>6. Nat \subseteq S
    BY <1>4, <1>5, Induction
<1>7. /\ Len(f[k]) <= Len(f[n])
      /\ \A i \in 1..Len(f[k]) : f[n][i] = f[k][i]
    <2>1. n - k \in Nat /\ n - k <= n - k /\ k + (n - k) = n
        BY <1>1, <1>3
    <2>2. n - k \in S
        BY <1>6, <2>1
    <2> QED
        BY <2>1, <2>2 DEF S
<1>8. f[k] = f[k - 1] \o parts[k] /\ f[k - 1] \in Seq(W) /\ parts[k] \in Seq(W) /\ f[k] \in Seq(W)
    BY <1>1, <1>2, <1>3 DEF Joining
<1> DEFINE p == Len(f[k - 1])
           l == Len(parts[k])
<1>9. /\ p \in Nat /\ l \in Nat /\ Len(f[k]) = p + l
      /\ \A e \in 1..l : f[k][p + e] = parts[k][e]
    <2> DEFINE u == f[k - 1]
               v == parts[k]
    <2>1. f[k] = u \o v /\ u \in Seq(W) /\ v \in Seq(W)
        BY <1>8
    <2> HIDE DEF u, v
    <2>2. /\ Len(u) \in Nat /\ Len(v) \in Nat /\ Len(u \o v) = Len(u) + Len(v)
          /\ \A i \in 1..Len(v) : (u \o v)[Len(u) + i] = v[i]
        BY <2>1, TwoJoin
    <2> QED
        BY <2>1, <2>2 DEF u, v
<1> HIDE DEF p, l
<1>10. ASSUME NEW e \in 1..l
       PROVE  f[n][p + e] = parts[k][e]
    <2> DEFINE i == p + e
    <2>1. i \in 1..Len(f[k])
        BY <1>9
    <2>2. f[k][i] = parts[k][e]
        BY <1>9
    <2> HIDE DEF i
    <2>3. f[n][i] = f[k][i]
        BY <1>7, <2>1
    <2> QED
        BY <2>2, <2>3 DEF i
<1> QED
    BY <1>7, <1>8, <1>9, <1>10 DEF Joining, Holds, p, l

-----------------------------------------------------------------------------
(* Sums over sets *)

\* g is the sum of f over each part of S, as the library takes it: element by
\* element, in the order in which CHOOSE picks them.
SumsTo(S, f, g) ==
    g = [s \in SUBSET S |->
            IF s = {} THEN 0
            ELSE f[CHOOSE x \in s : TRUE] + g[s \ {CHOOSE x \in s : TRUE}]]

\* The sum of f over S.
SumOver(f, S) == (CHOOSE g : SumsTo(S, f, g))[S]

\* One element less.
LEMMA OneLess ==
    ASSUME NEW S, IsFiniteSet(S), NEW s \in SUBSET S, s # {}
    PROVE  LET x == CHOOSE y \in s : TRUE
           IN  /\ x \in s /\ x \in S /\ s \ {x} \in SUBSET S
               /\ Cardinality(s) \in Nat /\ Cardinality(s \ {x}) = Cardinality(s) - 1
<1> DEFINE x == CHOOSE y \in s : TRUE
<1>1. x \in s
    OBVIOUS
<1> HIDE DEF x
<1>2. IsFiniteSet(s)
    BY FS_Subset
<1>3. Cardinality(s) \in Nat /\ Cardinality(s \ {x}) = Cardinality(s) - 1
    BY <1>1, <1>2, FS_CardinalityType, FS_RemoveElement
<1>4. x \in s /\ x \in S /\ s \ {x} \in SUBSET S
    BY <1>1
<1> QED
    BY <1>3, <1>4 DEF x

\* There is such a g, by induction over the size of the parts it is right for.
LEMMA SumsExist ==
    ASSUME NEW S, IsFiniteSet(S), NEW f, \A x \in S : f[x] \in Nat
    PROVE  \E g \in [SUBSET S -> Nat] : SumsTo(S, f, g)
<1> DEFINE c(s) == CHOOSE x \in s : TRUE
           next(g) == [s \in SUBSET S |-> IF s = {} THEN 0 ELSE f[c(s)] + g[s \ {c(s)}]]
           V == [SUBSET S -> Nat]
           T == {n \in Nat : \E g \in V : \A s \in SUBSET S :
                     Cardinality(s) <= n => g[s] = next(g)[s]}
<1>1. \A s \in SUBSET S : s # {} =>
          /\ c(s) \in s /\ c(s) \in S /\ s \ {c(s)} \in SUBSET S
          /\ Cardinality(s) \in Nat /\ Cardinality(s \ {c(s)}) = Cardinality(s) - 1
    BY OneLess
<1>2. Cardinality({}) = 0 /\ \A s \in SUBSET S : Cardinality(s) \in Nat
    BY FS_EmptySet, FS_Subset, FS_CardinalityType
<1> HIDE DEF c
<1>3. ASSUME NEW g \in V PROVE next(g) \in V
    <2>1. ASSUME NEW s \in SUBSET S
          PROVE  (IF s = {} THEN 0 ELSE f[c(s)] + g[s \ {c(s)}]) \in Nat
        <3>1. CASE s = {}
            BY <3>1
        <3>2. CASE s # {}
            <4>1. f[c(s)] \in Nat /\ g[s \ {c(s)}] \in Nat
                BY <1>1, <3>2
            <4> QED
                BY <3>2, <4>1
        <3> QED
            BY <3>1, <3>2
    <2> QED
        BY <2>1
<1>4. 0 \in T
    <2> DEFINE g == [s \in SUBSET S |-> 0]
    <2>1. g \in V
        OBVIOUS
    <2>2. ASSUME NEW s \in SUBSET S, Cardinality(s) <= 0 PROVE g[s] = next(g)[s]
        <3>1. s = {}
            <4>1. SUFFICES ASSUME s # {} PROVE FALSE
                OBVIOUS
            <4>2. Cardinality(s \ {c(s)}) = Cardinality(s) - 1 /\ s \ {c(s)} \in SUBSET S
                BY <1>1, <4>1
            <4>3. Cardinality(s) \in Nat /\ Cardinality(s \ {c(s)}) \in Nat
                BY <1>2, <4>2
            <4> QED
                BY <2>2, <4>2, <4>3
        <3> QED
            BY <3>1
    <2> HIDE DEF g, V, next
    <2> QED
        BY <2>1, <2>2
<1>5. ASSUME NEW n \in Nat, n \in T PROVE n + 1 \in T
    <2>1. PICK g \in V : \A s \in SUBSET S : Cardinality(s) <= n => g[s] = next(g)[s]
        BY <1>5
    <2> DEFINE h == next(g)
    <2>2. h \in V
        BY <1>3
    <2>3. ASSUME NEW s \in SUBSET S, Cardinality(s) <= n + 1 PROVE h[s] = next(h)[s]
        <3>1. CASE s = {}
            BY <3>1
        <3>2. CASE s # {}
            <4> DEFINE t == s \ {c(s)}
            <4>1. t \in SUBSET S /\ Cardinality(t) = Cardinality(s) - 1 /\ Cardinality(s) \in Nat
                BY <1>1, <3>2
            <4>2. Cardinality(t) <= n
                BY <2>3, <4>1
            <4>3. g[t] = h[t]
                BY <2>1, <4>1, <4>2
            <4>4. h[s] = f[c(s)] + g[t]
                BY <3>2
            <4> HIDE DEF h
            <4>5. next(h)[s] = f[c(s)] + h[t]
                BY <3>2
            <4> QED
                BY <4>3, <4>4, <4>5
        <3> QED
            BY <3>1, <3>2
    <2> HIDE DEF h, V, next
    <2> QED
        BY <2>2, <2>3
<1> HIDE DEF T
<1>6. Cardinality(S) \in T
    <2>1. Nat \subseteq T
        BY <1>4, <1>5, Induction
    <2> QED
        BY <2>1, FS_CardinalityType
<1>7. PICK g \in V : \A s \in SUBSET S : Cardinality(s) <= Cardinality(S) => g[s] = next(g)[s]
    BY <1>6 DEF T
<1>8. \A s \in SUBSET S : Cardinality(s) <= Cardinality(S)
    BY FS_Subset
<1>9. g = next(g)
    <2>1. \A s \in SUBSET S : g[s] = next(g)[s]
        <3> HIDE DEF next
        <3> QED
            BY <1>7, <1>8
    <2> QED
        BY <2>1
<1> QED
    BY <1>9 DEF SumsTo, c

\* There is only one.
LEMMA SumsMeet ==
    ASSUME NEW S, IsFiniteSet(S), NEW T, S \subseteq T, NEW f, NEW g, SumsTo(S, f, g),
           NEW e, NEW h, SumsTo(T, e, h), \A x \in S : e[x] = f[x]
    PROVE  g[S] = h[S]
<1> DEFINE c(s) == CHOOSE x \in s : TRUE
           U == {n \in Nat : \A s \in SUBSET S : Cardinality(s) <= n => g[s] = h[s]}
<1>1. \A s \in SUBSET S : s # {} =>
          /\ c(s) \in s /\ c(s) \in S /\ s \ {c(s)} \in SUBSET S
          /\ Cardinality(s) \in Nat /\ Cardinality(s \ {c(s)}) = Cardinality(s) - 1
    BY OneLess
<1>2. \A s \in SUBSET S : /\ g[s] = IF s = {} THEN 0 ELSE f[c(s)] + g[s \ {c(s)}]
                          /\ h[s] = IF s = {} THEN 0 ELSE e[c(s)] + h[s \ {c(s)}]
    <2>1. \A s \in SUBSET S : s \in SUBSET T
        OBVIOUS
    <2> QED
        BY <2>1 DEF SumsTo
<1>3. \A s \in SUBSET S : Cardinality(s) \in Nat
    BY FS_Subset, FS_CardinalityType
<1> HIDE DEF c
<1>4. 0 \in U
    <2>1. ASSUME NEW s \in SUBSET S, Cardinality(s) <= 0 PROVE g[s] = h[s]
        <3>1. s = {}
            <4>1. SUFFICES ASSUME s # {} PROVE FALSE
                OBVIOUS
            <4>2. Cardinality(s \ {c(s)}) = Cardinality(s) - 1 /\ s \ {c(s)} \in SUBSET S
                BY <1>1, <4>1
            <4>3. Cardinality(s) \in Nat /\ Cardinality(s \ {c(s)}) \in Nat
                BY <1>3, <4>2
            <4> QED
                BY <2>1, <4>2, <4>3
        <3> QED
            BY <1>2, <3>1
    <2> QED
        BY <2>1
<1>5. ASSUME NEW n \in Nat, n \in U PROVE n + 1 \in U
    <2>1. ASSUME NEW s \in SUBSET S, Cardinality(s) <= n + 1 PROVE g[s] = h[s]
        <3>1. CASE s = {}
            BY <1>2, <3>1
        <3>2. CASE s # {}
            <4> DEFINE t == s \ {c(s)}
            <4>1. t \in SUBSET S /\ Cardinality(t) = Cardinality(s) - 1 /\ Cardinality(s) \in Nat
                BY <1>1, <3>2
            <4>2. Cardinality(t) <= n
                BY <2>1, <4>1
            <4>3. g[t] = h[t]
                BY <1>5, <4>1, <4>2
            <4>4. g[s] = f[c(s)] + g[t] /\ h[s] = e[c(s)] + h[t]
                BY <1>2, <3>2
            <4>5. e[c(s)] = f[c(s)]
                BY <1>1, <3>2
            <4> QED
                BY <4>3, <4>4, <4>5
        <3> QED
            BY <3>1, <3>2
    <2> QED
        BY <2>1
<1> HIDE DEF U
<1>6. Cardinality(S) \in U
    <2>1. Nat \subseteq U
        BY <1>4, <1>5, Induction
    <2> QED
        BY <2>1, FS_CardinalityType
<1> QED
    BY <1>3, <1>6 DEF U

\* The order does not matter: any element may be the one that is added last.
LEMMA SumsGrow ==
    ASSUME NEW S, IsFiniteSet(S), NEW f, \A x \in S : f[x] \in Nat,
           NEW g, SumsTo(S, f, g), \A t \in SUBSET S : g[t] \in Nat, NEW s \in SUBSET S, NEW x \in S \ s
    PROVE  g[s \cup {x}] = f[x] + g[s]
<1> DEFINE c(t) == CHOOSE y \in t : TRUE
           U == {n \in Nat : \A t \in SUBSET S, y \in S :
                     Cardinality(t) <= n /\ y \notin t => g[t \cup {y}] = f[y] + g[t]}
<1>1. \A t \in SUBSET S : t # {} =>
          /\ c(t) \in t /\ c(t) \in S /\ t \ {c(t)} \in SUBSET S
          /\ g[t] = f[c(t)] + g[t \ {c(t)}]
    BY OneLess DEF SumsTo
<1>2. \A t \in SUBSET S : Cardinality(t) \in Nat
    BY FS_Subset, FS_CardinalityType
<1>3. \A t \in SUBSET S : \A y \in t : Cardinality(t \ {y}) = Cardinality(t) - 1
    BY FS_Subset, FS_RemoveElement
<1> HIDE DEF c
\* Where the element that is picked is not y, it is taken out first.
<1>4. ASSUME NEW n \in Nat, NEW t \in SUBSET S, NEW y \in S, y \notin t, Cardinality(t) <= n,
             \A u \in SUBSET S, z \in S :
                 Cardinality(u) < n /\ z \notin u => g[u \cup {z}] = f[z] + g[u]
      PROVE  g[t \cup {y}] = f[y] + g[t]
    <2> DEFINE u == t \cup {y}
               z == c(u)
               w == t \ {z}
    <2>1. u \in SUBSET S /\ u # {}
        OBVIOUS
    <2>2. z \in u /\ g[u] = f[z] + g[u \ {z}]
        BY <1>1, <2>1
    <2>3. CASE z = y
        <3>1. u \ {z} = t
            BY <1>4, <2>3
        <3> QED
            BY <2>2, <2>3, <3>1
    <2>4. CASE z # y
        <3> HIDE DEF z
        <3>1. z \in t /\ z \in S /\ w \in SUBSET S /\ y \notin w /\ z \notin w
            BY <1>4, <2>2, <2>4
        <3>2. Cardinality(w) < n
            <4>1. Cardinality(w) = Cardinality(t) - 1 /\ Cardinality(t) \in Nat
                BY <1>2, <1>3, <3>1
            <4> HIDE DEF w
            <4> QED
                BY <1>4, <4>1
        <3>3. u \ {z} = w \cup {y} /\ w \cup {z} = t
            BY <1>4, <2>4, <3>1
        <3>4. g[w \cup {y}] = f[y] + g[w] /\ g[w \cup {z}] = f[z] + g[w]
            BY <1>4, <3>1, <3>2
        <3>5. f[y] \in Nat /\ f[z] \in Nat /\ g[w] \in Nat
            BY <3>1
        <3>6. g[u] = f[z] + (f[y] + g[w]) /\ g[t] = f[z] + g[w]
            BY <2>2, <3>3, <3>4
        <3> HIDE DEF u, w
        <3>7. g[u] = f[y] + g[t]
            BY <3>5, <3>6
        <3> QED
            BY <3>7 DEF u
    <2> QED
        BY <2>3, <2>4
<1>5. 0 \in U
    <2>1. ASSUME NEW t \in SUBSET S, NEW y \in S, Cardinality(t) <= 0, y \notin t
          PROVE  g[t \cup {y}] = f[y] + g[t]
        <3>1. \A u \in SUBSET S : ~(Cardinality(u) < 0)
            <4>1. \A k \in Nat : ~(k < 0)
                OBVIOUS
            <4> QED
                BY <1>2, <4>1
        <3>2. 0 \in Nat
            OBVIOUS
        <3> QED
            BY <1>4, <2>1, <3>1, <3>2
    <2> QED
        BY <2>1
<1>6. ASSUME NEW n \in Nat, n \in U PROVE n + 1 \in U
    <2>1. \A u \in SUBSET S, z \in S :
              Cardinality(u) < n + 1 /\ z \notin u => g[u \cup {z}] = f[z] + g[u]
        <3>1. \A k \in Nat : k < n + 1 => k <= n
            OBVIOUS
        <3> QED
            BY <1>2, <1>6, <3>1
    <2>2. n + 1 \in Nat
        OBVIOUS
    <2>3. ASSUME NEW t \in SUBSET S, NEW y \in S, Cardinality(t) <= n + 1, y \notin t
          PROVE  g[t \cup {y}] = f[y] + g[t]
        BY <1>4, <2>1, <2>2, <2>3
    <2> QED
        BY <2>2, <2>3
<1> HIDE DEF U
<1>7. Cardinality(s) \in U
    <2>1. Nat \subseteq U
        BY <1>5, <1>6, Induction
    <2> QED
        BY <1>2, <2>1
<1>8. Cardinality(s) <= Cardinality(s) /\ x \in S /\ x \notin s
    BY <1>2
<1> QED
    BY <1>7, <1>8 DEF U

\* A sum is a number; over nothing it is 0, and an element more adds its value.
LEMMA SumIs ==
    ASSUME NEW S, IsFiniteSet(S), NEW f, \A x \in S : f[x] \in Nat
    PROVE  SumOver(f, S) \in Nat
<1>1. PICK g \in [SUBSET S -> Nat] : SumsTo(S, f, g)
    BY SumsExist
<1> DEFINE h == CHOOSE d : SumsTo(S, f, d)
<1>2. SumsTo(S, f, h)
    BY <1>1
<1> HIDE DEF h
<1>3. h[S] = g[S]
    BY <1>1, <1>2, SumsMeet
<1>4. S \in SUBSET S
    OBVIOUS
<1> QED
    BY <1>1, <1>3, <1>4 DEF SumOver, h

\* Over nothing.
LEMMA SumOfNone == ASSUME NEW f PROVE SumOver(f, {}) = 0
<1>1. IsFiniteSet({})
    BY FS_EmptySet
<1>2. PICK g \in [SUBSET {} -> Nat] : SumsTo({}, f, g)
    BY <1>1, SumsExist
<1> DEFINE h == CHOOSE d : SumsTo({}, f, d)
<1>3. SumsTo({}, f, h)
    BY <1>2
<1> HIDE DEF h
<1>4. h[{}] = 0
    <2>1. {} \in SUBSET {}
        OBVIOUS
    <2> QED
        BY <1>3, <2>1 DEF SumsTo
<1> QED
    BY <1>4 DEF SumOver, h

\* One more; f need only be the same where it is summed.
LEMMA SumMore ==
    ASSUME NEW S, IsFiniteSet(S), NEW x, x \notin S, NEW f, NEW e, \A y \in S \cup {x} : e[y] \in Nat,
           \A y \in S : f[y] = e[y]
    PROVE  SumOver(e, S \cup {x}) = SumOver(f, S) + e[x]
<1> DEFINE T == S \cup {x}
<1>1. IsFiniteSet(T)
    BY FS_AddElement
<1>2. PICK g \in [SUBSET T -> Nat] : SumsTo(T, e, g)
    BY <1>1, SumsExist
<1>3. PICK b \in [SUBSET S -> Nat] : SumsTo(S, f, b)
    <2>1. \A y \in S : f[y] \in Nat
        OBVIOUS
    <2> QED
        BY <2>1, SumsExist
<1> DEFINE h == CHOOSE d : SumsTo(T, e, d)
           k == CHOOSE d : SumsTo(S, f, d)
<1>4. SumsTo(T, e, h) /\ SumsTo(S, f, k)
    BY <1>2, <1>3
<1> HIDE DEF h, k
<1>5. h[T] = g[T]
    <2>1. T \subseteq T
        OBVIOUS
    <2> HIDE DEF T
    <2> QED
        BY <1>1, <1>2, <1>4, <2>1, SumsMeet
<1>6. k[S] = g[S]
    <2>1. S \subseteq T
        OBVIOUS
    <2> HIDE DEF T
    <2> QED
        BY <1>2, <1>4, <2>1, SumsMeet
<1>7. g[S \cup {x}] = e[x] + g[S]
    <2>1. S \in SUBSET T /\ x \in T \ S /\ (\A y \in T : e[y] \in Nat)
        OBVIOUS
    <2>2. IsFiniteSet(T) /\ SumsTo(T, e, g) /\ \A t \in SUBSET T : g[t] \in Nat
        BY <1>1, <1>2
    <2> DEFINE y == x
               u == S
    <2>3. u \in SUBSET T /\ y \in T \ u
        BY <2>1
    <2> HIDE DEF T, u, y
    <2>4. g[u \cup {y}] = e[y] + g[u]
        BY <2>1, <2>2, <2>3, SumsGrow
    <2> QED
        BY <2>4 DEF u, y
<1>8. e[x] \in Nat /\ g[S] \in Nat
    BY <1>2
<1>9. SumOver(e, T) = g[T] /\ SumOver(f, S) = g[S]
    BY <1>5, <1>6 DEF SumOver, h, k
<1> HIDE DEF T
<1> QED
    BY <1>7, <1>8, <1>9 DEF T

\* What the pairs of a reading add up to.
LEMMA TotalIs ==
    ASSUME NEW S \in SUBSET (Nat \X Nat), IsFiniteSet(S)
    PROVE  /\ TotalOf(S) \in Nat
           /\ TotalOf({}) = 0
           /\ \A x \in Nat \X Nat : x \notin S => TotalOf(S \cup {x}) = TotalOf(S) + x[2]
<1> DEFINE second(T) == [b \in T |-> b[2]]
<1>1. ASSUME NEW T PROVE TotalOf(T) = SumOver(second(T), T)
    BY DEF TotalOf, MapThenSumSet, MapThenFoldSet, SumOver, SumsTo
<1>2. TotalOf(S) \in Nat
    <2>1. \A x \in S : second(S)[x] \in Nat
        OBVIOUS
    <2> HIDE DEF second
    <2> QED
        BY <1>1, <2>1, SumIs
<1>3. TotalOf({}) = 0
    <2> HIDE DEF second
    <2> QED
        BY <1>1, SumOfNone
<1>4. ASSUME NEW x \in Nat \X Nat, x \notin S PROVE TotalOf(S \cup {x}) = TotalOf(S) + x[2]
    <2> DEFINE e == second(S \cup {x})
               f == second(S)
    <2>1. (\A y \in S \cup {x} : e[y] \in Nat) /\ (\A y \in S : f[y] = e[y]) /\ e[x] = x[2]
        OBVIOUS
    <2> HIDE DEF e, f
    <2>2. SumOver(e, S \cup {x}) = SumOver(f, S) + e[x]
        BY <1>4, <2>1, SumMore
    <2>3. TotalOf(S \cup {x}) = SumOver(e, S \cup {x}) /\ TotalOf(S) = SumOver(f, S)
        BY <1>1 DEF e, f
    <2> QED
        BY <2>1, <2>2, <2>3
<1> QED
    BY <1>2, <1>3, <1>4

\* Numbers that are all 0 add up to 0, by induction over how many there are.
LEMMA SumOfZeros ==
    ASSUME NEW n \in Nat, NEW f, \A t \in 1..n : f[t] = 0
    PROVE  SumOver(f, 1..n) = 0
<1> DEFINE S == {k \in Nat : k <= n => SumOver(f, 1..k) = 0}
<1>1. 0 \in S
    <2>1. 1..0 = {}
        OBVIOUS
    <2> QED
        BY <2>1, SumOfNone
<1>2. ASSUME NEW k \in Nat, k \in S PROVE k + 1 \in S
    <2>1. SUFFICES ASSUME k + 1 <= n PROVE SumOver(f, 1..(k + 1)) = 0
        OBVIOUS
    <2> DEFINE T == 1..k
               j == k + 1
    <2>2. 1..j = T \cup {j} /\ j \notin T /\ T \cup {j} \subseteq 1..n
        BY <2>1
    <2>3. IsFiniteSet(T)
        BY FS_Interval
    <2>4. f[j] = 0 /\ \A y \in T \cup {j} : f[y] \in Nat
        BY <2>1, <2>2
    <2>5. SumOver(f, T) = 0
        BY <1>2, <2>1
    <2> HIDE DEF T, j, S
    <2>6. SumOver(f, T \cup {j}) = SumOver(f, T) + f[j]
        <3>1. IsFiniteSet(T) /\ j \notin T
            BY <2>2, <2>3
        <3>2. \A y \in T \cup {j} : f[y] \in Nat
            BY <2>4
        <3> QED
            BY <3>1, <3>2, SumMore
    <2>7. SumOver(f, 1..j) = 0
        <3>1. SumOver(f, T \cup {j}) = 0
            BY <2>4, <2>5, <2>6
        <3> QED
            BY <2>2, <3>1, Zenon
    <2> QED
        BY <2>7 DEF j
<1> HIDE DEF S
<1>3. n \in S
    BY <1>1, <1>2, Induction
<1> QED
    BY <1>3 DEF S

\* A sum is above 0 where one of its numbers is.
LEMMA SumAbove ==
    ASSUME NEW n \in Nat, NEW f, \A t \in 1..n : f[t] \in Nat
    PROVE  SumOver(f, 1..n) > 0 <=> \E t \in 1..n : f[t] # 0
<1> DEFINE S == 1..n
<1>1. IsFiniteSet(S)
    BY FS_Interval
<1>2. ASSUME NEW t \in S, f[t] # 0 PROVE SumOver(f, S) > 0
    <2> DEFINE T == S \ {t}
    <2>1. T \cup {t} = S /\ t \notin T /\ IsFiniteSet(T)
        BY <1>1, FS_Subset
    <2>2. \A y \in T \cup {t} : f[y] \in Nat
        BY <2>1
    <2> HIDE DEF T
    <2>3. SumOver(f, T) \in Nat
        BY <2>1, <2>2, SumIs
    <2>4. SumOver(f, T \cup {t}) = SumOver(f, T) + f[t]
        BY <2>1, <2>2, SumMore
    <2>5. f[t] \in Nat /\ SumOver(f, S) = SumOver(f, T) + f[t]
        BY <2>1, <2>4
    <2> HIDE DEF S
    <2> QED
        BY <1>2, <2>3, <2>5
<1>3. ASSUME \A t \in S : f[t] = 0 PROVE SumOver(f, S) = 0
    BY <1>3, SumOfZeros
<1> HIDE DEF S
<1>4. CASE \E t \in S : f[t] # 0
    BY <1>2, <1>4 DEF S
<1>5. CASE \A t \in S : f[t] = 0
    <2>1. ~(0 > 0)
        OBVIOUS
    <2> QED
        BY <1>3, <1>5, <2>1 DEF S
<1> QED
    BY <1>4, <1>5

-----------------------------------------------------------------------------
(* The readers of a scan *)

\* What a scan may hold: never the run length some readers misread.
Entries == Int \ {-Half}

\* A reader before the first entry.
NothingRead == [bin |-> 0, last |-> 0, read |-> {}]

\* What a reader keeps.
Readers == [bin : Int, last : Int, read : SUBSET (Int \X Int)]

\* f holds what has been read after each entry.
Reading(f, s, z) ==
    /\ f \in [0..Len(s) -> Readers]
    /\ f[0] = NothingRead
    /\ \A k \in 1..Len(s) : f[k] = ReadEntry(f[k - 1], s[k], z)
    /\ f[Len(s)] = ReadTo(s, z)

\* An entry leaves a reader a reader.
LEMMA ReadEntryIs ==
    ASSUME NEW r \in Readers, NEW v \in Int, NEW z \in BOOLEAN
    PROVE  ReadEntry(r, v, z) \in Readers
<1>1. CASE v < 0
    <2>1. ReadEntry(r, v, z) = [r EXCEPT !.bin = r.bin - v, !.last = v]
        BY <1>1 DEF ReadEntry
    <2>2. r.bin - v \in Int
        BY DEF Readers
    <2> QED
        BY <2>1, <2>2 DEF Readers
<1>2. CASE ~(v < 0) /\ z /\ v = 0 /\ r.last = -(2^(HalfBits - 1))
    <2>1. ReadEntry(r, v, z) = [r EXCEPT !.last = 0]
        BY <1>2 DEF ReadEntry
    <2> QED
        BY <2>1 DEF Readers
<1>3. CASE ~(v < 0) /\ ~(z /\ v = 0 /\ r.last = -(2^(HalfBits - 1)))
    <2> DEFINE new == r.read \cup {<<r.bin, v>>}
    <2>1. new \in SUBSET (Int \X Int) /\ r.bin + 1 \in Int
        BY DEF Readers
    <2>2. ReadEntry(r, v, z) = [bin |-> r.bin + 1, last |-> 0, read |-> new]
        BY <1>3 DEF ReadEntry
    <2> HIDE DEF new
    <2> QED
        BY <2>1, <2>2 DEF Readers
<1> QED
    BY <1>1, <1>2, <1>3

\* The readers after each entry, by induction over the entries.
LEMMA ReadingIs ==
    ASSUME NEW s \in Seq(Int), NEW z \in BOOLEAN
    PROVE  \E f : Reading(f, s, z)
<1> DEFINE n == Len(s)
           G == [x \in (1..n) \X Readers |-> ReadEntry(x[2], s[x[1]], z)]
<1>1. n \in Nat /\ \A k \in 1..n : s[k] \in Int
    BY ElementOfSeq, LenProperties
<1>2. NothingRead \in Readers
    BY DEF NothingRead, Readers
<1>3. G \in [(1..n) \X Readers -> Readers]
    <2>1. ASSUME NEW x \in (1..n) \X Readers PROVE ReadEntry(x[2], s[x[1]], z) \in Readers
        <3>1. x[1] \in 1..n /\ x[2] \in Readers
            OBVIOUS
        <3>2. s[x[1]] \in Int
            BY <1>1, <3>1
        <3> QED
            BY <3>1, <3>2, ReadEntryIs
    <2> QED
        BY <2>1
<1>4. \A k \in 1..n, v \in Readers : G[<<k, v>>] = ReadEntry(v, s[k], z)
    OBVIOUS
<1> HIDE DEF G
<1>5. PICK f : Solves(f, Readers, NothingRead, n, G)
    <2> HIDE DEF n
    <2> QED
        BY <1>1, <1>2, <1>3, Recursion
<1>6. f[0] = NothingRead /\ \A k \in 1..n : f[k] = ReadEntry(f[k - 1], s[k], z)
    <2>1. ASSUME NEW k \in 1..n PROVE f[k] = ReadEntry(f[k - 1], s[k], z)
        <3>1. k - 1 \in 0..n
            OBVIOUS
        <3>2. f[k - 1] \in Readers
            BY <1>5, <3>1 DEF Solves
        <3> QED
            BY <1>4, <1>5, <3>2 DEF Runs, Solves
    <2> QED
        BY <1>5, <2>1 DEF Runs, Solves
<1> DEFINE step(h) == [k \in 0..n |-> IF k = 0 THEN NothingRead ELSE ReadEntry(h[k - 1], s[k], z)]
           d == CHOOSE h : h = step(h)
<1>7. f = step(f)
    <2>1. ASSUME NEW k \in 0..n PROVE f[k] = step(f)[k]
        <3>1. CASE k = 0
            BY <1>6, <3>1
        <3>2. CASE k # 0
            <4>1. k \in 1..n
                BY <3>2
            <4> QED
                BY <1>6, <3>2, <4>1
        <3> QED
            BY <3>1, <3>2
    <2> QED
        BY <1>5, <2>1 DEF Solves
<1>8. d = step(d)
    BY <1>7
<1>9. ReadTo(s, z) = d[n]
    BY DEF ReadTo, NothingRead
<1> HIDE DEF d
<1>10. d[0] = NothingRead /\ \A k \in 1..n : d[k] = ReadEntry(d[k - 1], s[k], z)
    <2>1. d[0] = NothingRead
        <3>1. 0 \in 0..n
            BY <1>1
        <3> QED
            BY <1>8, <3>1
    <2>2. ASSUME NEW k \in 1..n PROVE d[k] = ReadEntry(d[k - 1], s[k], z)
        <3>1. k \in 0..n /\ k # 0
            OBVIOUS
        <3> QED
            BY <1>8, <3>1
    <2> QED
        BY <2>1, <2>2
<1>11. ReadTo(s, z) = f[n]
    <2>1. \A k \in 1..n : d[k - 1] \in Readers => d[k] = G[<<k, d[k - 1]>>]
        BY <1>4, <1>10
    <2>2. \A k \in 0..n : d[k] = f[k]
        BY <1>5, <1>10, <2>1 DEF Solves
    <2>3. n \in 0..n
        BY <1>1
    <2> QED
        BY <1>9, <2>2, <2>3
<1>12. Reading(f, s, z)
    BY <1>5, <1>6, <1>11 DEF Solves, Reading
<1> QED
    BY <1>12

\* Two readings of what is the same as far as one of them goes.
LEMMA ReadingsMeet ==
    ASSUME NEW s \in Seq(Int), NEW t \in Seq(Int), NEW z \in BOOLEAN, Len(s) <= Len(t),
           \A k \in 1..Len(s) : t[k] = s[k],
           NEW f, Reading(f, s, z), NEW g, Reading(g, t, z)
    PROVE  g[Len(s)] = ReadTo(s, z)
<1> DEFINE n == Len(s)
           S == {k \in Nat : k <= n => g[k] = f[k]}
<1>1. n \in Nat /\ Len(t) \in Nat
    BY LenProperties
<1>2. 0 \in S
    BY DEF Reading
<1>3. ASSUME NEW k \in Nat, k \in S PROVE k + 1 \in S
    <2>1. SUFFICES ASSUME k + 1 <= n PROVE g[k + 1] = f[k + 1]
        OBVIOUS
    <2>2. k + 1 \in 1..n /\ k + 1 \in 1..Len(t) /\ (k + 1) - 1 = k
        BY <1>1, <2>1
    <2>3. f[k + 1] = ReadEntry(f[k], s[k + 1], z) /\ g[k + 1] = ReadEntry(g[k], t[k + 1], z)
        BY <2>2 DEF Reading
    <2>4. t[k + 1] = s[k + 1] /\ g[k] = f[k]
        BY <1>3, <2>1, <2>2
    <2> QED
        BY <2>3, <2>4
<1> HIDE DEF S
<1>4. n \in S
    BY <1>1, <1>2, <1>3, Induction
<1> QED
    BY <1>1, <1>4 DEF S, Reading

\* A scan read to its end.
LEMMA ReadIs ==
    ASSUME NEW s \in Seq(Int), NEW z \in BOOLEAN
    PROVE  ReadTo(s, z) \in Readers
<1>1. PICK f : Reading(f, s, z)
    BY ReadingIs
<1>2. Len(s) \in 0..Len(s)
    BY LenProperties
<1> QED
    BY <1>1, <1>2 DEF Reading

\* One entry more.
LEMMA ReadOn ==
    ASSUME NEW s \in Seq(Int), NEW v \in Int, NEW z \in BOOLEAN
    PROVE  ReadTo(Append(s, v), z) = ReadEntry(ReadTo(s, z), v, z)
<1> DEFINE t == Append(s, v)
           n == Len(s)
<1>1. /\ t \in Seq(Int) /\ n \in Nat /\ Len(t) = n + 1
      /\ \A k \in 1..n : t[k] = s[k]
      /\ t[n + 1] = v
    BY AppendProperties, LenProperties
<1> HIDE DEF t
<1>2. PICK f : Reading(f, s, z)
    BY ReadingIs
<1>3. PICK g : Reading(g, t, z)
    BY <1>1, ReadingIs
<1>4. g[n] = ReadTo(s, z)
    BY <1>1, <1>2, <1>3, ReadingsMeet
<1>5. g[n + 1] = ReadEntry(g[n], t[n + 1], z)
    <2>1. n + 1 \in 1..Len(t) /\ (n + 1) - 1 = n
        BY <1>1
    <2> QED
        BY <1>3, <2>1 DEF Reading
<1>6. g[n + 1] = ReadTo(t, z)
    BY <1>1, <1>3 DEF Reading
<1> QED
    BY <1>1, <1>4, <1>5, <1>6 DEF t

\* An empty scan.
LEMMA ReadNothing == ASSUME NEW z \in BOOLEAN PROVE ReadTo(<<>>, z) = NothingRead
<1>1. <<>> \in Seq(Int) /\ Len(<<>>) = 0
    OBVIOUS
<1>2. PICK f : Reading(f, <<>>, z)
    BY <1>1, ReadingIs
<1> QED
    BY <1>1, <1>2 DEF Reading

\* Where no entry is the run length they differ on, the readers agree.
LEMMA AllReadersAgree ==
    ASSUME NEW s \in Seq(Entries)
    PROVE  ReadTo(s, TRUE) = ReadTo(s, FALSE)
<1> DEFINE n == Len(s)
<1>1. n \in Nat /\ s \in Seq(Int) /\ \A k \in 1..n : s[k] \in Entries
    <2>1. Entries \subseteq Int
        BY DEF Entries
    <2> QED
        BY <2>1, SeqMonotonic, ElementOfSeq, LenProperties
<1>2. PICK f : Reading(f, s, FALSE)
    BY <1>1, ReadingIs
<1>3. PICK g : Reading(g, s, TRUE)
    BY <1>1, ReadingIs
<1> DEFINE S == {k \in Nat : k <= n => g[k] = f[k] /\ f[k].last # -Half}
<1>4. 0 \in S
    BY <1>2, <1>3, Widths DEF Reading, NothingRead
<1>5. ASSUME NEW k \in Nat, k \in S PROVE k + 1 \in S
    <2>1. SUFFICES ASSUME k + 1 <= n PROVE g[k + 1] = f[k + 1] /\ f[k + 1].last # -Half
        OBVIOUS
    <2>2. k + 1 \in 1..n /\ (k + 1) - 1 = k /\ k \in 0..n
        BY <1>1, <2>1
    <2> DEFINE r == f[k]
               v == s[k + 1]
    <2>3. g[k] = r /\ r.last # -Half /\ r \in Readers /\ v \in Int /\ v # -Half
        <3>1. f[k] \in Readers
            BY <1>2, <2>2 DEF Reading
        <3>2. v \in Entries
            BY <1>1, <2>2
        <3>3. g[k] = f[k] /\ f[k].last # -Half
            BY <1>5, <2>1
        <3> QED
            BY <3>1, <3>2, <3>3 DEF Entries
    <2>4. f[k + 1] = ReadEntry(r, v, FALSE) /\ g[k + 1] = ReadEntry(r, v, TRUE)
        BY <1>2, <1>3, <2>2, <2>3 DEF Reading
    <2> HIDE DEF r, v
    <2>5. ReadEntry(r, v, TRUE) = ReadEntry(r, v, FALSE)
        BY <2>3 DEF ReadEntry, Half
    <2>6. ReadEntry(r, v, FALSE).last = v \/ ReadEntry(r, v, FALSE).last = 0
        <3>1. CASE v < 0
            <4>1. ReadEntry(r, v, FALSE) = [r EXCEPT !.bin = r.bin - v, !.last = v]
                BY <3>1 DEF ReadEntry
            <4> QED
                BY <2>3, <4>1 DEF Readers
        <3>2. CASE ~(v < 0)
            BY <3>2 DEF ReadEntry
        <3> QED
            BY <3>1, <3>2
    <2>7. ReadEntry(r, v, FALSE).last # -Half
        <3>1. 0 # -Half
            BY Widths
        <3> QED
            BY <2>3, <2>6, <3>1
    <2> QED
        BY <2>4, <2>5, <2>7
<1> HIDE DEF S
<1>6. n \in S
    BY <1>1, <1>4, <1>5, Induction
<1> QED
    BY <1>1, <1>2, <1>3, <1>6, SMTT(60) DEF S, Reading

-----------------------------------------------------------------------------
(* What one gate adds to a reading *)

\* The bins and values of vals, from bin on.
Bins(bin, vals) == {<<bin + k - 1, vals[k]>> : k \in 1..Len(vals)}

\* Stored values are read at the bins that follow.
LEMMA ReadValues ==
    ASSUME NEW s \in Seq(Int), NEW vals \in Seq(Nat)
    PROVE  LET r == ReadTo(s, FALSE)
               q == ReadTo(s \o vals, FALSE)
           IN  q.bin = r.bin + Len(vals) /\ q.read = r.read \cup Bins(r.bin, vals)
<1> DEFINE n == Len(vals)
           r == ReadTo(s, FALSE)
           at(k) == ReadTo(s \o SubSeq(vals, 1, k), FALSE)
           Good(k) == /\ at(k).bin = r.bin + k
                      /\ at(k).read = r.read \cup {<<r.bin + i - 1, vals[i]>> : i \in 1..k}
           S == {k \in Nat : k <= n => Good(k)}
<1>1. /\ n \in Nat /\ vals \in Seq(Int) /\ (\A k \in 1..n : vals[k] \in Nat)
      /\ r \in Readers /\ r.bin \in Int
    <2>1. vals \in Seq(Int)
        BY SeqMonotonic
    <2>2. r \in Readers
        BY ReadIs
    <2> QED
        BY <2>1, <2>2, ElementOfSeq, LenProperties DEF Readers
<1>2. 0 \in S
    <2>1. SubSeq(vals, 1, 0) = <<>>
        BY SubSeqEmpty
    <2>2. s \o <<>> = s
        BY ConcatEmptySeq
    <2>3. at(0) = r
        BY <2>1, <2>2
    <2> HIDE DEF at, r
    <2>4. {<<r.bin + i - 1, vals[i]>> : i \in 1..0} = {}
        OBVIOUS
    <2>5. Good(0)
        BY <1>1, <2>3, <2>4
    <2> HIDE DEF Good
    <2> QED
        BY <2>5
<1>3. ASSUME NEW k \in Nat, k \in S PROVE k + 1 \in S
    <2> HIDE DEF Good
    <2>1. SUFFICES ASSUME k + 1 <= n PROVE Good(k + 1)
        OBVIOUS
    <2>2. Good(k)
        BY <1>3, <2>1
    <2> DEFINE j == k + 1
               p == s \o SubSeq(vals, 1, k)
               v == vals[k + 1]
    <2>3. j \in 1..n /\ j - 1 = k /\ v \in Nat
        BY <1>1, <2>1
    <2>4. p \in Seq(Int) /\ Append(p, v) = s \o SubSeq(vals, 1, j)
        <3> HIDE DEF j
        <3>1. /\ s \o SubSeq(vals, 1, j - 1) \in Seq(Int)
              /\ Append(s \o SubSeq(vals, 1, j - 1), vals[j]) = s \o SubSeq(vals, 1, j)
            BY <1>1, <2>3, OneMore, ZenonT(60)
        <3> QED
            BY <2>3, <3>1 DEF j
    <2> HIDE DEF p, v
    <2>5. at(j) = ReadEntry(ReadTo(p, FALSE), v, FALSE)
        <3>1. ReadTo(Append(p, v), FALSE) = ReadEntry(ReadTo(p, FALSE), v, FALSE)
            <4>1. v \in Int /\ FALSE \in BOOLEAN
                BY <2>3
            <4> QED
                BY <2>4, <4>1, ReadOn
        <3> HIDE DEF j
        <3> QED
            BY <2>4, <3>1
    <2> DEFINE x == ReadTo(p, FALSE)
               y == at(j)
    <2>6. x = at(k) /\ x \in Readers
        BY <2>4, ReadIs DEF p
    <2>7. x.bin = r.bin + k /\ x.read = r.read \cup {<<r.bin + i - 1, vals[i]>> : i \in 1..k}
        BY <2>2, <2>6 DEF Good
    <2>8. y = ReadEntry(x, v, FALSE)
        BY <2>5
    <2> HIDE DEF x, y, at, r
    <2>9. y = [bin |-> x.bin + 1, last |-> 0, read |-> x.read \cup {<<x.bin, v>>}]
        BY <2>3, <2>8 DEF ReadEntry
    <2>10. y.bin = r.bin + (k + 1)
        <3>1. x.bin = r.bin + k
            BY <2>7
        <3> QED
            BY <1>1, <2>9, <3>1, SMTT(60)
    <2>11. y.read = r.read \cup {<<r.bin + i - 1, vals[i]>> : i \in 1..(k + 1)}
        <3>1. {<<r.bin + i - 1, vals[i]>> : i \in 1..(k + 1)}
                  = {<<r.bin + i - 1, vals[i]>> : i \in 1..k} \cup {<<r.bin + (k + 1) - 1, vals[k + 1]>>}
            <4>1. 1..(k + 1) = (1..k) \cup {k + 1}
                OBVIOUS
            <4> QED
                BY <4>1
        <3>2. r.bin + (k + 1) - 1 = x.bin
            BY <1>1, <2>7
        <3> QED
            BY <2>7, <2>9, <3>1, <3>2 DEF v
    <2> QED
        BY <2>10, <2>11 DEF Good, y, j
<1>4. n \in S
    <2> HIDE DEF S
    <2> QED
        BY <1>1, <1>2, <1>3, Induction
<1>5. Good(n)
    <2> HIDE DEF Good
    <2> QED
        BY <1>1, <1>4
<1>6. at(n) = ReadTo(s \o vals, FALSE)
    BY SubSeqFull
<1> HIDE DEF at
<1> QED
    BY <1>5, <1>6 DEF Bins

\* A run length moves the bin on, whether it is written as one entry or two.
LEMMA ReadSkip ==
    ASSUME NEW s \in Seq(Int), NEW gap \in Nat
    PROVE  LET r == ReadTo(s, FALSE)
               q == ReadTo(s \o Skip(gap), FALSE)
           IN  q.bin = r.bin + gap /\ q.read = r.read
<1> DEFINE r == ReadTo(s, FALSE)
           q == ReadTo(s \o Skip(gap), FALSE)
<1>1. r \in Readers /\ r.bin \in Int
    BY ReadIs DEF Readers
<1>2. Half \in Nat /\ Half > 1
    BY Widths
\* A negative entry is skipped.
<1>3. ASSUME NEW t \in Seq(Int), NEW v \in Int, v < 0
      PROVE  /\ ReadTo(Append(t, v), FALSE).bin = ReadTo(t, FALSE).bin - v
             /\ ReadTo(Append(t, v), FALSE).read = ReadTo(t, FALSE).read
    <2> DEFINE x == ReadTo(t, FALSE)
               y == ReadTo(Append(t, v), FALSE)
    <2>1. x \in Readers /\ y = ReadEntry(x, v, FALSE)
        BY ReadIs, ReadOn
    <2> HIDE DEF x, y
    <2>2. y = [x EXCEPT !.bin = x.bin - v, !.last = v]
        BY <1>3, <2>1 DEF ReadEntry
    <2>3. y.bin = x.bin - v /\ y.read = x.read
        BY <2>1, <2>2 DEF Readers
    <2> QED
        BY <2>3 DEF x, y
<1>4. CASE gap = Half
    <2> DEFINE a == -(gap - 1)
               t == Append(s, a)
    <2>1. Skip(gap) = <<a, -1>>
        BY <1>4 DEF Skip, Half
    <2>2. a \in Int /\ a < 0
        BY <1>2, <1>4
    <2>3. t \in Seq(Int)
        BY <2>2, AppendProperties
    <2>4. s \o Skip(gap) = Append(t, -1)
        BY <2>1, <2>2, <2>3
    <2>5. ReadTo(t, FALSE).bin = r.bin - a /\ ReadTo(t, FALSE).read = r.read
        <3> HIDE DEF a
        <3> QED
            BY <1>3, <2>2
    <2>6. q.bin = ReadTo(t, FALSE).bin - (-1) /\ q.read = ReadTo(t, FALSE).read
        <3> HIDE DEF t
        <3>1. -1 \in Int /\ -1 < 0
            OBVIOUS
        <3> QED
            BY <1>3, <2>3, <2>4, <3>1
    <2>7. q.bin = (r.bin - a) - (-1)
        BY <2>5, <2>6
    <2> HIDE DEF q, r
    <2>8. q.bin = r.bin + gap
        <3> DEFINE b == r.bin
        <3>1. b \in Int /\ q.bin = (b - a) - (-1)
            BY <1>1, <2>7
        <3> HIDE DEF b
        <3>2. (b - a) - (-1) = b + gap
            BY <3>1
        <3> QED
            BY <3>1, <3>2 DEF b
    <2> QED
        BY <2>5, <2>6, <2>8 DEF q, r
<1>5. CASE gap # Half /\ gap > 0
    <2> DEFINE a == -gap
    <2>1. Skip(gap) = <<a>>
        BY <1>5 DEF Skip, Half
    <2>2. a \in Int /\ a < 0
        BY <1>5
    <2>3. s \o Skip(gap) = Append(s, a)
        BY <2>1, <2>2
    <2>4. q.bin = r.bin - a /\ q.read = r.read
        <3> HIDE DEF a
        <3> QED
            BY <1>3, <2>2, <2>3
    <2> HIDE DEF q, r
    <2>5. q.bin = r.bin + gap
        <3> DEFINE b == r.bin
        <3>1. b \in Int /\ q.bin = b - (-gap)
            BY <1>1, <2>4
        <3> HIDE DEF b
        <3>2. b - (-gap) = b + gap
            BY <3>1
        <3> QED
            BY <3>1, <3>2 DEF b
    <2> QED
        BY <2>4, <2>5 DEF q, r
<1>6. CASE gap # Half /\ ~(gap > 0)
    <2>1. Skip(gap) = <<>> /\ gap = 0
        BY <1>6 DEF Skip, Half
    <2>2. s \o <<>> = s
        BY ConcatEmptySeq
    <2>3. q = r
        BY <2>1, <2>2
    <2> HIDE DEF q, r
    <2>4. q.bin = r.bin + gap /\ q.read = r.read
        BY <1>1, <2>1, <2>3
    <2> QED
        BY <2>4 DEF q, r
<1> QED
    BY <1>4, <1>5, <1>6

\* A gap never is the entry the readers differ on.
LEMMA SkipIs == ASSUME NEW gap \in Int PROVE Skip(gap) \in Seq(Entries)
<1>1. Half \in Nat /\ Half > 1
    BY Widths
<1>2. CASE gap = Half
    <2>1. Skip(gap) = <<-(gap - 1), -1>>
        BY <1>2 DEF Skip, Half
    <2>2. -(gap - 1) \in Entries /\ -1 \in Entries
        BY <1>1, <1>2 DEF Entries
    <2> QED
        BY <2>1, <2>2
<1>3. CASE gap # Half /\ gap > 0
    <2>1. Skip(gap) = <<-gap>>
        BY <1>3 DEF Skip, Half
    <2>2. -gap \in Entries
        BY <1>1, <1>3 DEF Entries
    <2> QED
        BY <2>1, <2>2
<1>4. CASE gap # Half /\ ~(gap > 0)
    BY <1>4 DEF Skip, Half
<1> QED
    BY <1>2, <1>3, <1>4

\* What goes on as f does where it is f is f.
LEMMA SameRun ==
    ASSUME NEW n \in Nat, NEW f, NEW d, d[0] = f[0],
           \A k \in 1..n : d[k - 1] = f[k - 1] => d[k] = f[k]
    PROVE  d[n] = f[n]
<1> DEFINE S == {k \in Nat : k <= n => d[k] = f[k]}
<1>1. 0 \in S
    OBVIOUS
<1>2. ASSUME NEW k \in Nat, k \in S PROVE k + 1 \in S
    <2>1. SUFFICES ASSUME k + 1 <= n PROVE d[k + 1] = f[k + 1]
        OBVIOUS
    <2>2. k + 1 \in 1..n /\ (k + 1) - 1 = k /\ d[k] = f[k]
        BY <1>2, <2>1
    <2> QED
        BY <2>2
<1> HIDE DEF S
<1>3. n \in S
    BY <1>1, <1>2, Induction
<1> QED
    BY <1>3 DEF S

-----------------------------------------------------------------------------
(* The columns of a scan *)

\* What process() keeps of a trigger.
Accs ==
    [encoded_spectra : Seq(Entries), tic : Int, bpi : Int, index_max_intensity : Int,
     non_zero_count : Int, zero_count : Int, offset : Nat]

\* bpi is the highest value in S, and at the first bin that has it.
Peaks(bpi, at, S) ==
    /\ bpi \in Nat
    /\ bpi = 0 => at = 0
    /\ bpi # 0 => <<at, bpi>> \in S
    /\ \A b \in S : b[2] <= bpi /\ (b[2] = bpi => at <= b[1])

\* The columns agree with what a reader has read.
Tally(acc, r) ==
    /\ r.read \in SUBSET (Nat \X Nat) /\ IsFiniteSet(r.read)
    /\ \A b \in r.read : b[1] < r.bin
    /\ r.bin \in Nat /\ r.bin = acc.non_zero_count + acc.zero_count
    /\ acc.non_zero_count = Cardinality(r.read)
    /\ acc.tic = TotalOf(r.read)
    /\ Peaks(acc.bpi, acc.index_max_intensity, r.read)

\* And so with the scan.
Tallied(acc) == Tally(acc, ReadTo(acc.encoded_spectra, FALSE))

\* Of a value that is stored the columns take what a reader of it reads.
LEMMA TallySample ==
    ASSUME NEW acc \in Accs, NEW r \in Readers, Tally(acc, r), NEW val \in Nat
    PROVE  Tally(AddSample(acc, val), ReadEntry(r, val, FALSE))
<1> DEFINE a == AddSample(acc, val)
           q == ReadEntry(r, val, FALSE)
           S == r.read
           bin == r.bin
           x == <<bin, val>>
           high == val > acc.bpi
<1>1. /\ a.bpi = IF high THEN val ELSE acc.bpi
      /\ a.index_max_intensity = IF high THEN acc.non_zero_count + acc.zero_count
                                 ELSE acc.index_max_intensity
      /\ a.non_zero_count = acc.non_zero_count + 1
      /\ a.zero_count = acc.zero_count
      /\ a.tic = acc.tic + val
    BY DEF AddSample, Accs
<1>2. q.bin = bin + 1 /\ q.read = S \cup {x}
    BY DEF ReadEntry
<1>3. /\ S \in SUBSET (Nat \X Nat) /\ IsFiniteSet(S) /\ (\A b \in S : b[1] < bin)
      /\ bin \in Nat /\ bin = acc.non_zero_count + acc.zero_count
      /\ acc.non_zero_count = Cardinality(S) /\ acc.tic = TotalOf(S)
      /\ Peaks(acc.bpi, acc.index_max_intensity, S)
      /\ acc.non_zero_count \in Int /\ acc.zero_count \in Int /\ acc.index_max_intensity \in Int
    BY DEF Tally, Accs
<1> HIDE DEF a, q, S, bin
<1>4. x \in Nat \X Nat /\ x[1] = bin /\ x[2] = val /\ x \notin S
    <2>1. x \in Nat \X Nat /\ x[1] = bin /\ x[2] = val
        BY <1>3
    <2>2. ~(bin < bin)
        BY <1>3
    <2> HIDE DEF x
    <2> QED
        BY <1>3, <2>1, <2>2
<1> HIDE DEF x, high
<1>5. q.read \in SUBSET (Nat \X Nat) /\ IsFiniteSet(q.read)
    BY <1>2, <1>3, <1>4, FS_AddElement
<1>6. a.non_zero_count = Cardinality(q.read)
    <2>1. Cardinality(S \cup {x}) = Cardinality(S) + 1
        BY <1>3, <1>4, FS_AddElement
    <2> QED
        BY <1>1, <1>2, <1>3, <2>1
<1>7. a.tic = TotalOf(q.read)
    <2>1. TotalOf(S \cup {x}) = TotalOf(S) + val
        BY <1>3, <1>4, TotalIs
    <2> QED
        BY <1>1, <1>2, <1>3, <2>1
<1>8. q.bin \in Nat /\ q.bin = a.non_zero_count + a.zero_count
    BY <1>1, <1>2, <1>3
<1>9. \A b \in q.read : b[1] < q.bin
    <2>1. ASSUME NEW b \in S PROVE b[1] < q.bin
        <3>1. b[1] \in Nat /\ b[1] < bin
            BY <1>3
        <3> QED
            BY <1>2, <1>3, <3>1
    <2>2. x[1] < q.bin
        BY <1>2, <1>3, <1>4
    <2> QED
        BY <1>2, <2>1, <2>2
<1>10. Peaks(a.bpi, a.index_max_intensity, q.read)
    <2> DEFINE p == acc.bpi
               at == acc.index_max_intensity
    <2>1. /\ p \in Nat /\ at \in Int /\ (p = 0 => at = 0) /\ (p # 0 => <<at, p>> \in S)
          /\ \A b \in S : b[2] <= p /\ (b[2] = p => at <= b[1])
        BY <1>3 DEF Peaks
    <2>2. \A b \in S : b[1] \in Nat /\ b[2] \in Nat /\ b[1] < bin
        BY <1>3
    <2>3. q.read = S \cup {x} /\ bin \in Nat /\ x = <<bin, val>>
        BY <1>2, <1>3 DEF x
    <2>4. /\ val > p => a.bpi = val /\ a.index_max_intensity = bin
          /\ ~(val > p) => a.bpi = p /\ a.index_max_intensity = at
        BY <1>1, <1>3 DEF high
    <2> HIDE DEF p, at
    <2>5. CASE val > p
        <3>1. \A b \in S : b[2] <= val /\ ~(b[2] = val)
            BY <2>1, <2>2, <2>5
        <3>2. \A b \in q.read : b[2] <= val /\ (b[2] = val => bin <= b[1])
            <4>1. x[2] <= val /\ bin <= x[1]
                BY <1>4, <2>3
            <4> QED
                BY <2>3, <3>1, <4>1
        <3>3. val # 0 /\ <<bin, val>> \in q.read
            BY <2>1, <2>3, <2>5
        <3> QED
            BY <2>4, <2>5, <3>2, <3>3 DEF Peaks
    <2>6. CASE ~(val > p)
        <3>1. val <= p /\ (p = 0 => at <= bin)
            BY <2>1, <2>3, <2>6
        <3>2. p # 0 => at <= bin
            <4>1. SUFFICES ASSUME p # 0 PROVE at <= bin
                OBVIOUS
            <4> DEFINE b == <<at, p>>
            <4>2. b \in S /\ b[1] = at
                BY <2>1, <4>1
            <4> HIDE DEF b
            <4>3. at \in Nat /\ at < bin
                BY <2>2, <4>2
            <4> QED
                BY <2>3, <4>3
        <3>3. \A b \in q.read : b[2] <= p /\ (b[2] = p => at <= b[1])
            <4>1. x[2] <= p /\ at <= x[1]
                BY <1>4, <3>1, <3>2
            <4> QED
                BY <2>1, <2>3, <4>1
        <3>4. p # 0 => <<at, p>> \in q.read
            BY <2>1, <2>3
        <3> QED
            BY <2>1, <2>4, <2>6, <3>3, <3>4 DEF Peaks
    <2> QED
        BY <2>5, <2>6
<1> QED
    BY <1>5, <1>6, <1>7, <1>8, <1>9, <1>10 DEF Tally, a, q

\* Of a gap they take its length.
LEMMA TallySkip ==
    ASSUME NEW acc \in Accs, NEW r \in Readers, Tally(acc, r), NEW gap \in Nat,
           NEW a, a.non_zero_count = acc.non_zero_count, a.zero_count = acc.zero_count + gap,
           a.tic = acc.tic, a.bpi = acc.bpi, a.index_max_intensity = acc.index_max_intensity,
           NEW q, q.bin = r.bin + gap, q.read = r.read
    PROVE  Tally(a, q)
<1>1. /\ r.bin \in Nat /\ r.bin = acc.non_zero_count + acc.zero_count
      /\ acc.non_zero_count \in Int /\ acc.zero_count \in Int
    BY DEF Tally, Accs
<1>2. q.bin \in Nat /\ q.bin = a.non_zero_count + a.zero_count
    BY <1>1
<1>3. \A b \in q.read : b[1] < q.bin
    <2>1. ASSUME NEW b \in r.read PROVE b[1] < q.bin
        <3>1. b[1] \in Nat /\ b[1] < r.bin
            BY DEF Tally
        <3> QED
            BY <1>1, <3>1
    <2> QED
        BY <2>1
<1> QED
    BY <1>2, <1>3 DEF Tally

\* Nothing is counted in a scan without entries.
LEMMA TallyNothing ==
    ASSUME NEW acc, acc.encoded_spectra = <<>>, acc.non_zero_count = 0, acc.zero_count = 0,
           acc.tic = 0, acc.bpi = 0, acc.index_max_intensity = 0
    PROVE  Tallied(acc)
<1>1. ReadTo(<<>>, FALSE) = NothingRead
    BY ReadNothing
<1> DEFINE r == ReadTo(<<>>, FALSE)
<1>2. r.read = {} /\ r.bin = 0
    <2>1. NothingRead.read = {} /\ NothingRead.bin = 0
        BY DEF NothingRead
    <2> QED
        BY <1>1, <2>1
<1> HIDE DEF r
<1>3. {} \in SUBSET (Nat \X Nat) /\ IsFiniteSet({}) /\ Cardinality({}) = 0
    BY FS_EmptySet
<1>4. TotalOf({}) = 0
    BY <1>3, TotalIs
<1>5. Tally(acc, r)
    BY <1>2, <1>3, <1>4 DEF Tally, Peaks
<1> QED
    BY <1>5 DEF Tallied, r

\* The offset into the elements is none of the columns.
LEMMA OffsetAside ==
    ASSUME NEW acc \in Accs, NEW o, Tallied(acc)
    PROVE  Tallied([acc EXCEPT !.offset = o])
<1> DEFINE a == [acc EXCEPT !.offset = o]
<1>1. /\ a.encoded_spectra = acc.encoded_spectra /\ a.tic = acc.tic /\ a.bpi = acc.bpi
      /\ a.index_max_intensity = acc.index_max_intensity
      /\ a.non_zero_count = acc.non_zero_count /\ a.zero_count = acc.zero_count
    BY DEF Accs
<1> HIDE DEF a
<1>2. Tallied(a)
    BY <1>1 DEF Tallied, Tally
<1> QED
    BY <1>2 DEF a

-----------------------------------------------------------------------------
(* The samples of a gate *)

\* One sample is stored at the end.
LEMMA AddSampleIs ==
    ASSUME NEW acc \in Accs, NEW val \in Nat
    PROVE  LET a == AddSample(acc, val)
           IN  /\ a \in Accs
               /\ a.encoded_spectra = Append(acc.encoded_spectra, val)
               /\ a.non_zero_count = acc.non_zero_count + 1
               /\ a.zero_count = acc.zero_count
               /\ a.offset = acc.offset
               /\ Tallied(acc) => Tallied(a)
<1>1. val \in Entries
    BY Widths DEF Entries
<1>2. Append(acc.encoded_spectra, val) \in Seq(Entries)
    BY <1>1, AppendProperties DEF Accs
<1> DEFINE a == AddSample(acc, val)
           peak == IF val > acc.bpi THEN val ELSE acc.bpi
           place == IF val > acc.bpi THEN acc.non_zero_count + acc.zero_count
                    ELSE acc.index_max_intensity
<1>3. peak \in Int /\ place \in Int
    BY DEF Accs
<1>4. a = [acc EXCEPT !.bpi = peak, !.index_max_intensity = place,
                      !.encoded_spectra = Append(acc.encoded_spectra, val),
                      !.non_zero_count = acc.non_zero_count + 1,
                      !.tic = acc.tic + val]
    BY DEF AddSample
<1> HIDE DEF a, peak, place
<1>5. acc.non_zero_count + 1 \in Int /\ acc.tic + val \in Int
    BY DEF Accs
<1>6. a \in Accs
    BY <1>2, <1>3, <1>4, <1>5 DEF Accs
<1>7. /\ a.encoded_spectra = Append(acc.encoded_spectra, val)
      /\ a.non_zero_count = acc.non_zero_count + 1
      /\ a.zero_count = acc.zero_count
      /\ a.offset = acc.offset
    BY <1>4 DEF Accs
<1>8. ASSUME Tallied(acc) PROVE Tallied(a)
    <2> DEFINE enc == acc.encoded_spectra
               r == ReadTo(enc, FALSE)
    <2>1. enc \in Seq(Int)
        <3>1. Entries \subseteq Int /\ enc \in Seq(Entries)
            BY DEF Accs, Entries
        <3> HIDE DEF enc
        <3> QED
            BY <3>1, SeqMonotonic
    <2> HIDE DEF enc
    <2>2. r \in Readers /\ ReadTo(Append(enc, val), FALSE) = ReadEntry(r, val, FALSE)
        <3>1. val \in Int /\ FALSE \in BOOLEAN
            OBVIOUS
        <3> QED
            BY <2>1, <3>1, ReadIs, ReadOn
    <2>3. Tally(acc, r)
        BY <1>8 DEF Tallied, enc
    <2> HIDE DEF r
    <2>4. Tally(AddSample(acc, val), ReadEntry(r, val, FALSE))
        BY <2>2, <2>3, TallySample
    <2> QED
        BY <1>7, <2>2, <2>4 DEF Tallied, a, enc
<1> QED
    BY <1>6, <1>7, <1>8 DEF a

\* The samples of a gate are stored at the end, by induction over them.
LEMMA AddSamplesAre ==
    ASSUME NEW acc \in Accs, NEW vals \in Seq(Nat)
    PROVE  LET a == AddSamples(acc, vals)
           IN  /\ a \in Accs
               /\ a.encoded_spectra = acc.encoded_spectra \o vals
               /\ a.non_zero_count = acc.non_zero_count + Len(vals)
               /\ a.zero_count = acc.zero_count
               /\ a.offset = acc.offset
               /\ Tallied(acc) => Tallied(a)
<1> DEFINE n == Len(vals)
           G == [x \in (1..n) \X Accs |-> AddSample(x[2], vals[x[1]])]
<1>1. n \in Nat /\ \A k \in 1..n : vals[k] \in Nat
    BY ElementOfSeq, LenProperties
<1>2. G \in [(1..n) \X Accs -> Accs]
    <2>1. ASSUME NEW x \in (1..n) \X Accs PROVE AddSample(x[2], vals[x[1]]) \in Accs
        <3>1. x[1] \in 1..n /\ x[2] \in Accs
            OBVIOUS
        <3>2. vals[x[1]] \in Nat
            BY <1>1, <3>1
        <3> QED
            BY <3>1, <3>2, AddSampleIs
    <2> QED
        BY <2>1
<1>3. \A k \in 1..n, v \in Accs : G[<<k, v>>] = AddSample(v, vals[k])
    OBVIOUS
<1> HIDE DEF G
<1>4. PICK f : Solves(f, Accs, acc, n, G)
    <2> HIDE DEF n
    <2> QED
        BY <1>1, <1>2, Recursion
<1>5. f[0] = acc /\ \A k \in 1..n : f[k - 1] \in Accs /\ f[k] = AddSample(f[k - 1], vals[k])
    <2>1. ASSUME NEW k \in 1..n PROVE f[k - 1] \in Accs /\ f[k] = AddSample(f[k - 1], vals[k])
        <3>1. k - 1 \in 0..n
            OBVIOUS
        <3>2. f[k - 1] \in Accs
            BY <1>4, <3>1 DEF Solves
        <3> QED
            BY <1>3, <1>4, <3>2 DEF Runs, Solves
    <2> QED
        BY <1>4, <2>1 DEF Runs, Solves
<1> DEFINE step(h) == [k \in 0..n |-> IF k = 0 THEN acc ELSE AddSample(h[k - 1], vals[k])]
           d == CHOOSE h : h = step(h)
<1>6. f = step(f)
    <2>1. ASSUME NEW k \in 0..n PROVE f[k] = step(f)[k]
        <3>1. CASE k = 0
            BY <1>5, <3>1
        <3>2. CASE k # 0
            <4>1. k \in 1..n
                BY <3>2
            <4> QED
                BY <1>5, <3>2, <4>1
        <3> QED
            BY <3>1, <3>2
    <2> QED
        BY <1>4, <2>1 DEF Solves
<1>7. d = step(d)
    BY <1>6
<1>8. AddSamples(acc, vals) = d[n]
    BY DEF AddSamples
<1> HIDE DEF d
<1>9. d[0] = acc /\ \A k \in 1..n : d[k] = AddSample(d[k - 1], vals[k])
    <2>1. d[0] = acc
        <3>1. 0 \in 0..n
            BY <1>1
        <3> QED
            BY <1>7, <3>1
    <2>2. ASSUME NEW k \in 1..n PROVE d[k] = AddSample(d[k - 1], vals[k])
        <3>1. k \in 0..n /\ k # 0
            OBVIOUS
        <3> QED
            BY <1>7, <3>1
    <2> QED
        BY <2>1, <2>2
<1>10. AddSamples(acc, vals) = f[n]
    <2>1. \A k \in 1..n : d[k - 1] \in Accs => d[k] = G[<<k, d[k - 1]>>]
        BY <1>3, <1>9
    <2>2. \A k \in 0..n : d[k] = f[k]
        BY <1>4, <1>9, <2>1 DEF Solves
    <2>3. n \in 0..n
        BY <1>1
    <2> QED
        BY <1>8, <2>2, <2>3
<1> DEFINE Good(k) ==
               /\ f[k] \in Accs
               /\ f[k].encoded_spectra = acc.encoded_spectra \o SubSeq(vals, 1, k)
               /\ f[k].non_zero_count = acc.non_zero_count + k
               /\ f[k].zero_count = acc.zero_count
               /\ f[k].offset = acc.offset
               /\ Tallied(acc) => Tallied(f[k])
           S == {k \in Nat : k <= n => Good(k)}
<1>11. acc.encoded_spectra \in Seq(Entries) /\ vals \in Seq(Entries) /\ acc.non_zero_count \in Int
    <2>1. Nat \subseteq Entries
        BY Widths DEF Entries
    <2>2. vals \in Seq(Entries)
        BY <2>1, SeqMonotonic
    <2> QED
        BY <2>2 DEF Accs
<1>12. 0 \in S
    <2>1. SubSeq(vals, 1, 0) = <<>>
        BY SubSeqEmpty
    <2>2. acc.encoded_spectra \o <<>> = acc.encoded_spectra
        BY <1>11, ConcatEmptySeq
    <2>3. Good(0)
        BY <1>5, <1>11, <2>1, <2>2
    <2> HIDE DEF Good
    <2> QED
        BY <2>3
<1>13. ASSUME NEW k \in Nat, k \in S PROVE k + 1 \in S
    <2> HIDE DEF Good
    <2>1. SUFFICES ASSUME k + 1 <= n PROVE Good(k + 1)
        OBVIOUS
    <2>2. k + 1 \in 1..n /\ (k + 1) - 1 = k
        BY <1>1, <2>1
    <2>3. Good(k)
        BY <1>13, <2>1
    <2> USE DEF Good
    <2>4. f[k + 1] = AddSample(f[k], vals[k + 1]) /\ vals[k + 1] \in Nat
        BY <1>1, <1>5, <2>2
    <2> DEFINE x == f[k]
               y == f[k + 1]
               v == vals[k + 1]
    <2>5. x \in Accs /\ v \in Nat /\ y = AddSample(x, v)
        BY <2>3, <2>4
    <2> HIDE DEF x, y, v
    <2>6. /\ y \in Accs
          /\ y.encoded_spectra = Append(x.encoded_spectra, v)
          /\ y.non_zero_count = x.non_zero_count + 1
          /\ y.zero_count = x.zero_count
          /\ y.offset = x.offset
          /\ Tallied(x) => Tallied(y)
        BY <2>5, AddSampleIs
    <2>7. Append(acc.encoded_spectra \o SubSeq(vals, 1, k), v) = acc.encoded_spectra \o SubSeq(vals, 1, k + 1)
        <3> DEFINE i == k + 1
        <3>1. i \in 1..Len(vals) /\ i - 1 = k
            BY <2>2
        <3> HIDE DEF i
        <3>2. Append(acc.encoded_spectra \o SubSeq(vals, 1, i - 1), vals[i]) = acc.encoded_spectra \o SubSeq(vals, 1, i)
            BY <1>11, <3>1, OneMore, ZenonT(60)
        <3> QED
            BY <3>1, <3>2 DEF i, v
    <2>8. y.encoded_spectra = acc.encoded_spectra \o SubSeq(vals, 1, k + 1)
        BY <2>3, <2>6, <2>7 DEF x
    <2>9. y.non_zero_count = acc.non_zero_count + (k + 1)
        <3>1. x.non_zero_count = acc.non_zero_count + k
            BY <2>3 DEF x
        <3> HIDE DEF Good
        <3>2. acc.non_zero_count \in Int /\ y.non_zero_count = x.non_zero_count + 1
            BY <1>11, <2>6
        <3> QED
            BY <3>1, <3>2
    <2>10. /\ y.zero_count = acc.zero_count /\ y.offset = acc.offset
           /\ Tallied(acc) => Tallied(y)
        BY <2>3, <2>6 DEF x
    <2> QED
        BY <2>6, <2>8, <2>9, <2>10 DEF y
<1> HIDE DEF S
<1>14. n \in S
    BY <1>1, <1>12, <1>13, Induction
<1>15. SubSeq(vals, 1, n) = vals
    BY SubSeqFull
<1>16. Good(n)
    <2> HIDE DEF Good
    <2> QED
        BY <1>1, <1>14 DEF S
<1> DEFINE a == AddSamples(acc, vals)
<1>17. a = f[n]
    BY <1>10
<1> HIDE DEF a
<1>18. /\ a \in Accs
       /\ a.encoded_spectra = acc.encoded_spectra \o vals
       /\ a.non_zero_count = acc.non_zero_count + Len(vals)
       /\ a.zero_count = acc.zero_count
       /\ a.offset = acc.offset
       /\ Tallied(acc) => Tallied(a)
    BY <1>15, <1>16, <1>17
<1> QED
    BY <1>18 DEF a

-----------------------------------------------------------------------------
(* The elements of a gate *)

\* The values of a gate of n samples, taken from offset on.
GateValues(elements, offset, g, n) ==
    [k \in 1..n |-> Sample(elements, offset, g.gate_start_sample_pos + k - 1)]

\* The values of samples as they are stored.
Stored(samples) == [k \in 1..Len(samples) |-> samples[k] + Half]

\* Packing two samples to an element and padding the gate, as the card does, and
\* unpacking and shifting them, as process() does, gives the samples back.
LEMMA ElementsAre ==
    ASSUME NEW start \in Nat, NEW samples \in Seq(Codes), NEW filler \in Codes
    PROVE  LET g == Marker(start, Len(samples))
               es == Elements(start, samples, filler)
           IN  /\ es \in Seq(Words)
               /\ Len(es) = ElementCount(g)
               /\ \A buffer, offset :
                      Holds(buffer, offset, es) =>
                      GateValues(buffer, offset, g, Len(samples)) = Stored(samples)
<1> DEFINE n == Len(samples)
           g == Marker(start, n)
           es == Elements(start, samples, filler)
           pos == start % 8
           half(i) == IF i - pos + 1 \in 1..n THEN samples[i - pos + 1] ELSE filler
           count == ElementCount(g)
<1>1. n \in Nat /\ DOMAIN samples = 1..n /\ \A k \in 1..n : samples[k] \in Codes
    BY ElementOfSeq, LenProperties
<1>2. /\ g.gate_start_sample_pos = pos /\ count \in Nat
      /\ \A k \in 1..n : (pos + k - 1) \div 2 + 1 \in 1..count
    <2> HIDE DEF n
    <2> QED
        BY <1>1, MarkerIs
<1>3. es = [e \in 1..count |-> half(2 * e - 1) * Width + (half(2 * e - 2) % Width)]
    BY <1>1, <1>2 DEF Elements, Width
<1>4. pos \in Nat
    OBVIOUS
<1> HIDE DEF es, g, count, n, pos
<1>5. \A i \in Int : half(i) \in Codes
    BY <1>1, <1>4
<1>6. \A e \in 1..count : es[e] \in Words
    <2>1. ASSUME NEW e \in 1..count PROVE es[e] \in Words
        <3>1. 2 * e - 1 \in Int /\ 2 * e - 2 \in Int
            OBVIOUS
        <3> HIDE DEF half
        <3>2. es[e] = half(2 * e - 1) * Width + (half(2 * e - 2) % Width)
            BY <1>3
        <3>3. half(2 * e - 1) \in Codes /\ half(2 * e - 2) \in Codes
            BY <1>5, <3>1
        <3> QED
            BY <3>2, <3>3 DEF Words
    <2> QED
        BY <2>1
<1>7. es \in [1..count -> Words]
    <2> HIDE DEF half
    <2> QED
        BY <1>3, <1>6
<1>8. es \in Seq(Words) /\ Len(es) = count
    BY <1>2, <1>7
<1>9. ASSUME NEW buffer, NEW offset \in Nat, \A e \in 1..count : buffer[offset + e] = es[e],
             NEW k \in 1..n
      PROVE  Sample(buffer, offset, pos + k - 1) = samples[k] + Half
    <2> DEFINE i == pos + k - 1
               e == i \div 2 + 1
               w == buffer[offset + (i \div 2) + 1]
               a == half(2 * e - 1)
               b == half(2 * e - 2)
               low == w % Width
    <2>1. i \in Nat /\ k \in Nat
        BY <1>1, <1>4
    <2>2. i - pos + 1 = k
        BY <1>4, <2>1
    <2>3. half(i) = samples[k]
        BY <2>2
    <2>4. e \in 1..count
        BY <1>2
    <2> HIDE DEF i
    <2>5. e \in Nat /\ offset + (i \div 2) + 1 = offset + e
        BY <2>1
    <2>6. (i % 2 = 1 => i = 2 * e - 1) /\ (i % 2 # 1 => i = 2 * e - 2)
        BY <2>1
    <2> HIDE DEF e, half
    <2>7. w = a * Width + (b % Width)
        <3>1. w = es[e]
            BY <1>9, <2>4, <2>5
        <3> QED
            BY <1>3, <2>4, <3>1
    <2>8. a \in Codes /\ b \in Codes
        <3>1. 2 * e - 1 \in Int /\ 2 * e - 2 \in Int
            BY <2>5
        <3> QED
            BY <1>5, <3>1
    <2>9. Sample(buffer, offset, i) =
              (IF i % 2 = 1 THEN w \div Width ELSE IF low >= Half THEN low - Width ELSE low) + Half
        BY Widths DEF Sample, Half, Width, range_shift_constant
    <2> HIDE DEF a, b, w
    <2>10. w \div Width = a /\ (IF low >= Half THEN low - Width ELSE low) = b
        BY <2>7, <2>8, Packed
    <2>11. Sample(buffer, offset, i) = (IF i % 2 = 1 THEN a ELSE b) + Half
        BY <2>9, <2>10
    <2>12. (IF i % 2 = 1 THEN a ELSE b) = samples[k]
        BY <2>3, <2>6 DEF a, b
    <2>13. Sample(buffer, offset, i) = samples[k] + Half
        BY <2>11, <2>12
    <2> QED
        BY <2>13 DEF i
<1>10. ASSUME NEW buffer, NEW offset, Holds(buffer, offset, es)
       PROVE  GateValues(buffer, offset, g, n) = Stored(samples)
    <2>1. offset \in Nat /\ \A e \in 1..count : buffer[offset + e] = es[e]
        BY <1>8, <1>10 DEF Holds
    <2>2. \A k \in 1..n : Sample(buffer, offset, pos + k - 1) = samples[k] + Half
        BY <1>9, <2>1
    <2> QED
        BY <1>2, <2>2 DEF GateValues, Stored, n
<1> QED
    BY <1>8, <1>10 DEF es, g, count, n

-----------------------------------------------------------------------------
(* A gate, behind what is there of the scan *)

\* What a gate of n samples and count elements makes of acc.
GateAdds(acc, a, count, n, gap, vals) ==
    /\ a \in Accs
    /\ a.offset = acc.offset + count
    /\ vals \in Seq(Nat) /\ Len(vals) = n
    /\ n = 0 => a.encoded_spectra = acc.encoded_spectra
    /\ n # 0 => a.encoded_spectra = (acc.encoded_spectra \o Skip(gap)) \o vals
    /\ gap >= 0 /\ Tallied(acc) => Tallied(a)

\* A gate adds its run length and its samples, and moves the offset on.
LEMMA AddGateIs ==
    ASSUME NEW acc \in Accs, NEW elements \in Seq(Words), NEW gates, NEW j, NEW bins \in Int,
           NEW start \in Nat, NEW n \in Nat, gates[j] = Marker(start, n),
           GateGap(gates, j, bins) \in Int,
           acc.offset + ElementCount(gates[j]) <= Len(elements)
    PROVE  GateAdds(acc, AddGate(acc, gates, j, elements, bins), ElementCount(gates[j]), n,
                    GateGap(gates, j, bins), GateValues(elements, acc.offset, gates[j], n))
<1> DEFINE g == gates[j]
           count == ElementCount(g)
           samples == get_stop_sample_index(g) - get_start_sample_index(g)
           gap == GateGap(gates, j, bins)
           first == g.gate_start_sample_pos
           vals == [k \in 1..n |-> Sample(elements, acc.offset, first + k - 1)]
           skipped == [acc EXCEPT !.encoded_spectra = @ \o Skip(gap), !.zero_count = @ + gap]
           a == AddGate(acc, gates, j, elements, bins)
<1>1. /\ get_start_sample_index(g) = start /\ get_stop_sample_index(g) = start + n
      /\ first = start % 8 /\ count \in Nat
      /\ \A k \in 1..n : ((start % 8) + k - 1) \div 2 + 1 \in 1..count
    BY MarkerIs
<1>2. samples = n
    BY <1>1
<1>3. acc.offset \in Nat /\ acc.encoded_spectra \in Seq(Entries) /\ acc.zero_count \in Int
    BY DEF Accs
<1>4. vals \in Seq(Nat) /\ Len(vals) = n
    <2>1. ASSUME NEW k \in 1..n PROVE Sample(elements, acc.offset, first + k - 1) \in Nat
        <3> DEFINE i == (start % 8) + k - 1
                   h == i \div 2
        <3>1. i \in Nat /\ h \in Nat
            OBVIOUS
        <3>2. h + 1 \in 1..count
            BY <1>1
        <3>3. i = first + k - 1
            BY <1>1
        <3> HIDE DEF i
        <3>4. acc.offset + (i \div 2) + 1 \in 1..Len(elements)
            <4> HIDE DEF h, count
            <4>1. Len(elements) \in Nat /\ acc.offset + count <= Len(elements)
                BY LenProperties DEF count
            <4>2. count \in Nat /\ acc.offset \in Nat
                BY <1>1, <1>3
            <4> DEFINE o == acc.offset
                       m == Len(elements)
            <4>3. o \in Nat /\ m \in Nat /\ o + count <= m
                BY <4>1, <4>2
            <4> HIDE DEF o, m
            <4>4. o + h + 1 \in 1..m
                BY <3>1, <3>2, <4>2, <4>3
            <4> QED
                BY <4>4 DEF h, o, m
        <3>5. Sample(elements, acc.offset, i) \in 0..(2 * Half - 1)
            <4> HIDE DEF h
            <4> QED
                BY <3>1, <3>4, SampleFits
        <3>6. Sample(elements, acc.offset, i) \in Nat
            BY <3>5, Widths
        <3> QED
            BY <3>3, <3>6
    <2> HIDE DEF first
    <2>2. vals \in [1..n -> Nat]
        BY <2>1
    <2> HIDE DEF vals
    <2> QED
        BY <2>2
<1>5. a = IF samples <= 0 THEN [acc EXCEPT !.offset = @ + count]
          ELSE [AddSamples(skipped, [k \in 1..samples |-> Sample(elements, acc.offset, first + k - 1)])
                    EXCEPT !.offset = @ + count]
    BY DEF AddGate
<1>6. acc.offset + count \in Nat /\ vals = GateValues(elements, acc.offset, gates[j], n)
    BY <1>1, <1>3, SMTT(60) DEF GateValues
<1>7. CASE n = 0
    <2>1. samples <= 0
        BY <1>2, <1>7
    <2>2. a = [acc EXCEPT !.offset = acc.offset + count]
        BY <1>5, <2>1
    <2> HIDE DEF a, count, samples
    <2>3. a \in Accs /\ a.offset = acc.offset + count /\ a.encoded_spectra = acc.encoded_spectra
        BY <1>6, <2>2 DEF Accs
    <2>4. Tallied(acc) => Tallied(a)
        BY <2>2, OffsetAside
    <2> HIDE DEF vals
    <2> QED
        BY <1>4, <1>6, <1>7, <2>3, <2>4 DEF a, count, GateAdds
<1>8. CASE n # 0
    <2>1. ~(samples <= 0)
        BY <1>2, <1>8
    <2>2. a = [AddSamples(skipped, vals) EXCEPT !.offset = @ + count]
        <3> HIDE DEF a, skipped, count, first, samples
        <3> QED
            BY <1>2, <1>5, <2>1
    <2>3. /\ skipped \in Accs /\ skipped.offset = acc.offset
          /\ skipped.encoded_spectra = acc.encoded_spectra \o Skip(gap)
          /\ gap >= 0 /\ Tallied(acc) => Tallied(skipped)
        <3> DEFINE enc == acc.encoded_spectra \o Skip(gap)
                   zeros == acc.zero_count + gap
        <3>1. Skip(gap) \in Seq(Entries)
            BY SkipIs
        <3>2. enc \in Seq(Entries)
            BY <1>3, <3>1, ConcatProperties
        <3>3. zeros \in Int
            BY <1>3
        <3>4. skipped = [acc EXCEPT !.encoded_spectra = enc, !.zero_count = zeros]
            OBVIOUS
        <3> HIDE DEF enc, zeros, skipped
        <3>5. skipped \in Accs /\ skipped.offset = acc.offset /\ skipped.encoded_spectra = enc
            BY <3>2, <3>3, <3>4 DEF Accs
        <3>6. ASSUME gap >= 0, Tallied(acc) PROVE Tallied(skipped)
            <4> DEFINE s == acc.encoded_spectra
                       r == ReadTo(s, FALSE)
                       q == ReadTo(enc, FALSE)
            <4>1. s \in Seq(Int) /\ gap \in Nat
                <5>1. Entries \subseteq Int /\ s \in Seq(Entries)
                    BY <1>3 DEF Entries
                <5>2. gap \in Nat
                    BY <3>6
                <5> HIDE DEF s
                <5> QED
                    BY <5>1, <5>2, SeqMonotonic
            <4>2. enc = s \o Skip(gap)
                BY DEF enc
            <4>3. Tally(acc, r)
                BY <3>6 DEF Tallied
            <4> HIDE DEF s, gap
            <4>4. r \in Readers /\ q.bin = r.bin + gap /\ q.read = r.read
                BY <4>1, <4>2, ReadIs, ReadSkip
            <4>5. /\ skipped.non_zero_count = acc.non_zero_count
                  /\ skipped.zero_count = acc.zero_count + gap
                  /\ skipped.tic = acc.tic /\ skipped.bpi = acc.bpi
                  /\ skipped.index_max_intensity = acc.index_max_intensity
                BY <3>4 DEF Accs, zeros
            <4> HIDE DEF r, q
            <4>6. Tally(skipped, q)
                BY <4>1, <4>3, <4>4, <4>5, TallySkip
            <4> QED
                BY <3>5, <4>6 DEF Tallied, q
        <3> QED
            BY <3>5, <3>6 DEF enc
    <2> DEFINE b == AddSamples(skipped, vals)
    <2> HIDE DEF a, skipped, vals, count
    <2>4. /\ b \in Accs /\ b.encoded_spectra = skipped.encoded_spectra \o vals
          /\ b.offset = skipped.offset
          /\ Tallied(skipped) => Tallied(b)
        BY <1>4, <2>3, AddSamplesAre
    <2> HIDE DEF b
    <2>5. a = [b EXCEPT !.offset = b.offset + count]
        BY <2>2 DEF b
    <2>6. b.offset + count \in Nat /\ b.offset = acc.offset
        BY <1>6, <2>3, <2>4
    <2>7. a \in Accs /\ a.offset = acc.offset + count /\ a.encoded_spectra = b.encoded_spectra
        BY <2>4, <2>5, <2>6 DEF Accs
    <2>8. Tallied(b) => Tallied(a)
        BY <2>4, <2>5, OffsetAside
    <2> QED
        BY <1>4, <1>6, <1>8, <2>3, <2>4, <2>7, <2>8 DEF a, count, GateAdds
<1> QED
    BY <1>7, <1>8

-----------------------------------------------------------------------------
(* How gates open *)

\* The least value a gate may open with.
Floor == Threshold + range_shift_constant

\* It is a number.
LEMMA FloorIs == Floor \in Int /\ Threshold \in Int /\ Baseline \in Int /\ Baseline + Half < Floor
BY Widths, CodecAssumption, BatchesAssumption DEF Floor

\* No gate of a scan opens below it.
NoneBelow(s) == OpenBelow(s, Floor) = {}

\* A scan ends in a value, not in a run length.
EndsInValue(s) == s = <<>> \/ s[Len(s)] >= 0

\* Run lengths are negative.
LEMMA SkipIsNegative ==
    ASSUME NEW gap \in Int
    PROVE  /\ Skip(gap) \in Seq(Int)
           /\ \A i \in 1..Len(Skip(gap)) : Skip(gap)[i] < 0
<1> DEFINE s == Skip(gap)
<1>1. Half \in Nat /\ Half > 1
    BY Widths
<1>2. CASE gap = Half
    <2> DEFINE a == -(gap - 1)
               b == -1
    <2>1. s = <<a, b>>
        BY <1>2 DEF Skip, Half
    <2>2. a \in Int /\ a < 0 /\ b \in Int /\ b < 0
        BY <1>1, <1>2
    <2> HIDE DEF a, b, s
    <2> QED
        BY <2>1, <2>2 DEF s
<1>3. CASE gap # Half /\ gap > 0
    <2> DEFINE a == -gap
    <2>1. s = <<a>>
        BY <1>3 DEF Skip, Half
    <2>2. a \in Int /\ a < 0
        BY <1>3
    <2> HIDE DEF a, s
    <2> QED
        BY <2>1, <2>2 DEF s
<1>4. CASE gap # Half /\ ~(gap > 0)
    <2>1. s = <<>>
        BY <1>4 DEF Skip, Half
    <2> HIDE DEF s
    <2> QED
        BY <2>1 DEF s
<1> QED
    BY <1>2, <1>3, <1>4

\* What a gate behind s changes of the gates that open below: its first value is
\* one that opens it, the others are not.
LEMMA OpeningsAre ==
    ASSUME NEW s \in Seq(Int), NEW gap \in Int, NEW vals \in Seq(Nat), Len(vals) # 0
    PROVE  LET t == (s \o Skip(gap)) \o vals
           IN  /\ EndsInValue(t)
               /\ OpenBelow(s, Floor) # {} => OpenBelow(t, Floor) # {}
               /\ NoneBelow(s) /\ vals[1] >= Floor => NoneBelow(t)
               /\ s = <<>> /\ vals[1] < Floor => OpenBelow(t, Floor) # {}
<1> DEFINE k == Skip(gap)
           t == (s \o k) \o vals
           p == Len(s)
           g == Len(k)
           n == Len(vals)
<1>1. k \in Seq(Int) /\ \A i \in 1..g : k[i] < 0
    BY SkipIsNegative
<1>2. n \in Nat /\ n > 0 /\ vals \in Seq(Int) /\ \A i \in 1..n : vals[i] \in Nat
    BY SeqMonotonic, ElementOfSeq, LenProperties
<1> HIDE DEF k
<1>3. /\ p \in Nat /\ g \in Nat /\ Len(t) = p + g + n
      /\ \A i \in 1..p : t[i] = s[i]
      /\ \A i \in 1..g : t[p + i] = k[i]
      /\ \A i \in 1..n : t[p + g + i] = vals[i]
    <2> DEFINE sk == s \o k
    <2>1. /\ p \in Nat /\ g \in Nat /\ sk \in Seq(Int) /\ Len(sk) = p + g
          /\ \A i \in 1..p : sk[i] = s[i]
          /\ \A i \in 1..g : sk[p + i] = k[i]
        BY <1>1, TwoJoin
    <2>2. sk \in Seq(Int) /\ vals \in Seq(Int)
        BY <1>2, <2>1
    <2> HIDE DEF sk
    <2>3. /\ Len(sk \o vals) = Len(sk) + Len(vals)
          /\ \A i \in 1..Len(sk) : (sk \o vals)[i] = sk[i]
          /\ \A i \in 1..Len(vals) : (sk \o vals)[Len(sk) + i] = vals[i]
        BY <2>2, TwoJoin
    <2>4. Len(sk) = p + g
        BY <2>1
    <2>5. t = sk \o vals
        BY DEF sk
    <2> HIDE DEF t, p, g, n
    <2>6. (\A i \in 1..p : i \in 1..(p + g)) /\ (\A i \in 1..g : p + i \in 1..(p + g))
        <3>1. p \in Nat /\ g \in Nat
            BY <2>1
        <3> QED
            BY <3>1
    <2> QED
        BY <2>1, <2>3, <2>4, <2>5, <2>6 DEF n
<1>4. DOMAIN s = 1..p /\ DOMAIN t = 1..(p + g + n) /\ t \in Seq(Int)
    <2>1. s \o k \in Seq(Int)
        BY <1>1, ConcatProperties
    <2>2. t \in Seq(Int)
        BY <1>2, <2>1, ConcatProperties
    <2>3. DOMAIN t = 1..Len(t)
        <3> HIDE DEF t
        <3> QED
            BY <2>2, LenProperties
    <2> QED
        BY <1>3, <2>2, <2>3, LenProperties
<1> DEFINE low(x, i) == x[i] >= 0 /\ (i = 1 \/ x[i - 1] < 0) /\ x[i] < Floor
<1>5. OpenBelow(s, Floor) = {i \in 1..p : low(s, i)} /\ OpenBelow(t, Floor) = {i \in 1..(p + g + n) : low(t, i)}
    <2> HIDE DEF t, p, g, n
    <2> QED
        BY <1>4 DEF OpenBelow
<1>6. \A i \in 1..p : low(s, i) <=> low(t, i)
    <2>1. ASSUME NEW i \in 1..p PROVE low(s, i) <=> low(t, i)
        <3>1. i = 1 \/ i - 1 \in 1..p
            BY <1>3
        <3> HIDE DEF t, p
        <3> QED
            BY <1>3, <3>1
    <2> QED
        BY <2>1
<1>7. EndsInValue(t)
    <2>1. n \in 1..n
        BY <1>2
    <2> HIDE DEF t, p, g, n
    <2>2. t[p + g + n] \in Nat
        BY <1>2, <1>3, <2>1
    <2> QED
        BY <1>3, <2>2 DEF EndsInValue
<1>8. ASSUME OpenBelow(s, Floor) # {} PROVE OpenBelow(t, Floor) # {}
    <2>1. PICK i \in 1..p : low(s, i)
        BY <1>5, <1>8
    <2>2. low(t, i)
        BY <1>6, <2>1
    <2> HIDE DEF low, t, p, g, n
    <2>3. i \in 1..(p + g + n)
        BY <1>2, <1>3
    <2> QED
        BY <1>5, <2>2, <2>3
<1>9. ASSUME NoneBelow(s), vals[1] >= Floor PROVE NoneBelow(t)
    <2>1. SUFFICES ASSUME NEW i \in 1..(p + g + n), low(t, i) PROVE FALSE
        <3> HIDE DEF low, t, p, g, n
        <3> QED
            BY <1>5 DEF NoneBelow
    <2>2. CASE i <= p
        <3>1. i \in 1..p
            BY <1>3, <2>2
        <3>2. low(s, i)
            BY <1>6, <2>1, <3>1
        <3> HIDE DEF low, t, p, g, n
        <3> QED
            BY <1>5, <1>9, <3>1, <3>2 DEF NoneBelow
    <2>3. CASE p < i /\ i <= p + g
        <3> DEFINE m == i - p
        <3> HIDE DEF t, p, g, n
        <3>1. m \in 1..g /\ p + m = i
            BY <1>3, <2>3
        <3> HIDE DEF m
        <3>2. t[i] < 0
            BY <1>1, <1>3, <3>1 DEF g
        <3>3. t[i] >= 0
            BY <2>1
        <3>4. t[i] \in Int
            BY <1>1, <1>3, <3>1, ElementOfSeq DEF g
        <3> QED
            BY <3>2, <3>3, <3>4
    <2>4. CASE i = p + g + 1
        <3> HIDE DEF t, p, g, n
        <3>1. 1 \in 1..n
            BY <1>2
        <3>2. t[i] = vals[1]
            BY <1>3, <2>4, <3>1
        <3>3. vals[1] \in Nat /\ Floor \in Int
            BY <1>2, <3>1, FloorIs
        <3> QED
            BY <1>9, <2>1, <3>2, <3>3
    <2>5. CASE i > p + g + 1
        <3> DEFINE m == i - 1 - (p + g)
        <3> HIDE DEF t, p, g, n
        <3>1. m \in 1..n /\ p + g + m = i - 1 /\ i # 1
            BY <1>2, <1>3, <2>5
        <3> HIDE DEF m
        <3>2. t[i - 1] \in Nat
            BY <1>2, <1>3, <3>1
        <3> QED
            BY <2>1, <3>1, <3>2
    <2> HIDE DEF t, p, g, n, low
    <2> QED
        BY <1>2, <1>3, <2>1, <2>2, <2>3, <2>4, <2>5
<1>10. ASSUME s = <<>>, vals[1] < Floor PROVE OpenBelow(t, Floor) # {}
    <2> DEFINE i == p + g + 1
    <2>1. p = 0
        BY <1>10
    <2> HIDE DEF p
    <2>2. t[i] = vals[1] /\ vals[1] \in Nat /\ i \in 1..(p + g + n)
        <3>1. 1 \in 1..n
            BY <1>2
        <3> HIDE DEF t, g, n
        <3> QED
            BY <1>2, <1>3, <3>1
    <2>3. i = 1 \/ t[i - 1] < 0
        <3>1. CASE g = 0
            BY <2>1, <3>1
        <3>2. CASE g # 0
            <4> HIDE DEF t, g
            <4>1. g \in 1..g /\ i - 1 = p + g
                BY <1>3, <3>2
            <4> QED
                BY <1>1, <1>3, <4>1 DEF g
        <3> QED
            BY <3>1, <3>2
    <2> HIDE DEF i, t, g, n
    <2>4. low(t, i)
        BY <1>10, <2>2, <2>3
    <2> HIDE DEF low
    <2> QED
        BY <1>5, <2>2, <2>4
<1> HIDE DEF t
<1> QED
    BY <1>7, <1>8, <1>9, <1>10 DEF t, k

-----------------------------------------------------------------------------
(* The gates of a trigger *)

\* The gates of a trigger.
Gates == Seq([start : Nat, samples : Seq(Codes)])

\* Their markers and their elements.
Markers(u) == [j \in DOMAIN u |-> Marker(u[j].start, Len(u[j].samples))]
\* The elements of each gate.
Parts(u) == [j \in DOMAIN u |-> Elements(u[j].start, u[j].samples, Baseline)]

\* The gates of a trigger, their markers and their elements.
LEMMA GatesAre ==
    ASSUME NEW u \in Gates
    PROVE  /\ Len(u) \in Nat /\ DOMAIN u = 1..Len(u)
           /\ \A j \in 1..Len(u) : /\ u[j].start \in Nat /\ u[j].samples \in Seq(Codes)
                                   /\ Len(u[j].samples) \in Nat
           /\ Len(Markers(u)) = Len(u)
           /\ Len(Parts(u)) = Len(u)
           /\ \A j \in 1..Len(u) :
                  /\ Markers(u)[j] = Marker(u[j].start, Len(u[j].samples))
                  /\ Parts(u)[j] = Elements(u[j].start, u[j].samples, Baseline)
                  /\ Parts(u)[j] \in Seq(Words)
                  /\ Len(Parts(u)[j]) = ElementCount(Markers(u)[j])
           /\ Parts(u) \in Seq(Seq(Words))
<1>1. Len(u) \in Nat /\ DOMAIN u = 1..Len(u)
    BY LenProperties DEF Gates
<1>2. \A j \in 1..Len(u) : /\ u[j].start \in Nat /\ u[j].samples \in Seq(Codes)
                           /\ Len(u[j].samples) \in Nat
    <2>1. ASSUME NEW j \in 1..Len(u) PROVE u[j] \in [start : Nat, samples : Seq(Codes)]
        BY ElementOfSeq DEF Gates
    <2>2. ASSUME NEW j \in 1..Len(u)
          PROVE /\ u[j].start \in Nat /\ u[j].samples \in Seq(Codes) /\ Len(u[j].samples) \in Nat
        BY <2>1, LenProperties
    <2> QED
        BY <2>2
<1>3. \A j \in 1..Len(u) :
          /\ Markers(u)[j] = Marker(u[j].start, Len(u[j].samples))
          /\ Parts(u)[j] = Elements(u[j].start, u[j].samples, Baseline)
    BY <1>1 DEF Markers, Parts
<1>4. \A j \in 1..Len(u) :
          /\ Parts(u)[j] \in Seq(Words)
          /\ Len(Parts(u)[j]) = ElementCount(Markers(u)[j])
    <2>1. Baseline \in Codes
        BY BatchesAssumption
    <2>2. ASSUME NEW j \in 1..Len(u)
          PROVE  /\ Parts(u)[j] \in Seq(Words)
                 /\ Len(Parts(u)[j]) = ElementCount(Markers(u)[j])
        <3> DEFINE s == u[j].start
                   h == u[j].samples
        <3>1. s \in Nat /\ h \in Seq(Codes)
            BY <1>2
        <3>2. Markers(u)[j] = Marker(s, Len(h)) /\ Parts(u)[j] = Elements(s, h, Baseline)
            BY <1>3
        <3> HIDE DEF s, h
        <3>3. Elements(s, h, Baseline) \in Seq(Words)
              /\ Len(Elements(s, h, Baseline)) = ElementCount(Marker(s, Len(h)))
            BY <2>1, <3>1, ElementsAre
        <3> QED
            BY <3>2, <3>3
    <2> QED
        BY <2>2
<1>5. Markers(u) = [j \in 1..Len(u) |-> Markers(u)[j]] /\ Parts(u) = [j \in 1..Len(u) |-> Parts(u)[j]]
    BY <1>1 DEF Markers, Parts
<1>6. Parts(u) \in Seq(Seq(Words)) /\ Len(Parts(u)) = Len(u)
    <2>1. Parts(u) \in [1..Len(u) -> Seq(Words)]
        BY <1>4, <1>5
    <2> QED
        BY <1>1, <2>1
<1>7. Len(Markers(u)) = Len(u)
    <2> DEFINE m == Markers(u)
    <2>1. m = [j \in 1..Len(u) |-> m[j]]
        BY <1>5
    <2> HIDE DEF m
    <2>2. Len(m) = Len(u)
        BY <1>1, <2>1
    <2> QED
        BY <2>2 DEF m
<1> QED
    BY <1>1, <1>2, <1>3, <1>4, <1>6, <1>7

\* The gap before a gate is what lies between, and a number in any case.
LEMMA GapIs ==
    ASSUME NEW u \in Gates, NEW j \in 1..Len(u), NEW bins \in Int
    PROVE  /\ GateGap(Markers(u), j, bins) \in Int
           /\ j = 1 => GateGap(Markers(u), j, bins) = u[j].start + bins
           /\ j # 1 => GateGap(Markers(u), j, bins)
                           = u[j].start - (u[j - 1].start + Len(u[j - 1].samples))
<1>1. j \in Int /\ Len(u) \in Nat
    BY GatesAre
<1>2. \A i \in 1..Len(u) : /\ u[i].start \in Nat /\ Len(u[i].samples) \in Nat
                           /\ Markers(u)[i] = Marker(u[i].start, Len(u[i].samples))
    BY GatesAre
<1>3. \A i \in 1..Len(u) : /\ get_start_sample_index(Markers(u)[i]) = u[i].start
                           /\ get_stop_sample_index(Markers(u)[i]) = u[i].start + Len(u[i].samples)
    <2>1. ASSUME NEW i \in 1..Len(u)
          PROVE  /\ get_start_sample_index(Markers(u)[i]) = u[i].start
                 /\ get_stop_sample_index(Markers(u)[i]) = u[i].start + Len(u[i].samples)
        <3> DEFINE s == u[i].start
                   n == Len(u[i].samples)
        <3>1. s \in Nat /\ n \in Nat /\ Markers(u)[i] = Marker(s, n)
            BY <1>2
        <3> HIDE DEF s, n
        <3>2. /\ get_start_sample_index(Marker(s, n)) = s
              /\ get_stop_sample_index(Marker(s, n)) = s + n
            BY <3>1, MarkerIs
        <3> QED
            BY <3>1, <3>2 DEF s, n
    <2> QED
        BY <2>1
<1>4. CASE j = 1
    <2>1. GateGap(Markers(u), j, bins) = get_start_sample_index(Markers(u)[j]) + bins
        BY <1>4 DEF GateGap
    <2>2. GateGap(Markers(u), j, bins) = u[j].start + bins /\ u[j].start \in Nat
        BY <1>2, <1>3, <2>1
    <2> QED
        BY <1>4, <2>2
<1>5. CASE j # 1
    <2>1. GateGap(Markers(u), j, bins)
              = get_start_sample_index(Markers(u)[j]) - get_stop_sample_index(Markers(u)[j - 1])
        BY <1>5 DEF GateGap
    <2>2. j - 1 \in 1..Len(u)
        BY <1>1, <1>5
    <2>3. /\ GateGap(Markers(u), j, bins) = u[j].start - (u[j - 1].start + Len(u[j - 1].samples))
          /\ u[j].start \in Nat /\ u[j - 1].start \in Nat /\ Len(u[j - 1].samples) \in Nat
        BY <1>2, <1>3, <2>1, <2>2
    <2>4. GateGap(Markers(u), j, bins) \in Int
        BY <2>3, SMTT(60)
    <2> QED
        BY <1>5, <2>3, <2>4
<1> QED
    BY <1>4, <1>5

-----------------------------------------------------------------------------
(* A gate of a trigger *)

\* The bins of the samples of gate j, and of the first gates.
GateBins(u, j, bins) ==
    {<<bins + u[j].start + k - 1, u[j].samples[k] + Half>> : k \in DOMAIN u[j].samples}

\* Those of the first j gates.
SeenTo(u, j, bins) == UNION {GateBins(u, i, bins) : i \in 1..j}

\* The card opens a gate when the one before is closed, and none behind an empty one.
InOrder(u) ==
    \A j \in 2..Len(u) : u[j].start >= u[j - 1].start + Len(u[j - 1].samples)

\* What Ordinary says of the gates of a trigger.
NoneBehindEmpty(u) ==
    \A j \in DOMAIN u : u[j].samples = <<>> => j = Len(u)

\* The elements of u are those from offset on.
Placed(u, elements, offset) ==
    \A e \in 1..Len(Joined(Parts(u))) : elements[offset + e] = Joined(Parts(u))[e]

\* After j gates: the scan reads as the gates, and ends where the last one did.
Reads(u, j, bins, enc) ==
    /\ ReadTo(enc, FALSE).read = SeenTo(u, j, bins)
    /\ j = 0 => ReadTo(enc, FALSE).bin = 0
    /\ j # 0 /\ u[j].samples # <<>> =>
           ReadTo(enc, FALSE).bin = bins + u[j].start + Len(u[j].samples)

\* What process() makes of gate j of u behind acc: its elements are those behind the
\* elements of the gates before, wherever the elements of u begin.
GateMade(u, elements, offset, bins, f, j, acc, a) ==
    LET g == Markers(u)[j]
        n == Len(u[j].samples)
    IN  /\ GateAdds(acc, a, ElementCount(g), n, GateGap(Markers(u), j, bins),
                    GateValues(elements, acc.offset, g, n))
        /\ a.offset = offset + Len(f[j])
        /\ \A lead \in Nat : Placed(u, elements, lead + offset) =>
               Holds(elements, lead + acc.offset, Parts(u)[j])
        /\ Placed(u, elements, offset) =>
               GateValues(elements, acc.offset, g, n) = Stored(u[j].samples)

\* A gate takes its values from its elements and moves the offset to those of the next.
LEMMA GateIs ==
    ASSUME NEW u \in Gates, NEW elements \in Seq(Words), NEW bins \in Nat,
           NEW offset \in Nat, offset + Len(Joined(Parts(u))) <= Len(elements),
           NEW f, Joining(f, Words, Parts(u)), NEW j \in 1..Len(u),
           NEW acc \in Accs, acc.offset = offset + Len(f[j - 1])
    PROVE  GateMade(u, elements, offset, bins, f, j, acc, AddGate(acc, Markers(u), j, elements, bins))
<1> DEFINE start == u[j].start
           samples == u[j].samples
           n == Len(samples)
           g == Markers(u)[j]
           count == ElementCount(g)
           part == Parts(u)[j]
           gap == GateGap(Markers(u), j, bins)
           whole == Joined(Parts(u))
           before == Len(f[j - 1])
           vals == GateValues(elements, acc.offset, g, n)
           a == AddGate(acc, Markers(u), j, elements, bins)
<1>1. /\ Len(u) \in Nat /\ start \in Nat /\ samples \in Seq(Codes) /\ n \in Nat
      /\ DOMAIN samples = 1..n /\ \A k \in 1..n : samples[k] \in Codes
      /\ g = Marker(start, n) /\ part = Elements(start, samples, Baseline)
      /\ part \in Seq(Words) /\ Len(part) = count
    <2>1. samples \in Seq(Codes)
        BY GatesAre
    <2>2. DOMAIN samples = 1..n /\ \A k \in 1..n : samples[k] \in Codes
        <3> HIDE DEF samples
        <3> QED
            BY <2>1, ElementOfSeq, LenProperties
    <2> QED
        BY <2>2, GatesAre
<1>2. /\ before \in Nat /\ count \in Nat /\ before + count = Len(f[j]) /\ Len(f[j]) <= Len(whole)
      /\ \A e \in 1..count : whole[before + e] = part[e]
    <2>1. j \in 1..Len(Parts(u)) /\ Parts(u) \in Seq(Seq(Words))
        BY GatesAre
    <2>2. /\ f[j - 1] \in Seq(Words) /\ Len(f[j - 1]) + Len(Parts(u)[j]) = Len(f[j])
          /\ Len(f[j]) <= Len(Joined(Parts(u)))
          /\ Holds(Joined(Parts(u)), Len(f[j - 1]), Parts(u)[j])
        <3> DEFINE p == Parts(u)
        <3>1. j \in 1..Len(p) /\ p \in Seq(Seq(Words)) /\ Joining(f, Words, p)
            BY <2>1
        <3> HIDE DEF p
        <3>2. /\ f[j - 1] \in Seq(Words) /\ f[j] \in Seq(Words)
              /\ Len(f[j - 1]) + Len(p[j]) = Len(f[j])
              /\ Len(f[j]) <= Len(Joined(p))
              /\ Holds(Joined(p), Len(f[j - 1]), p[j])
            BY <3>1, JoinedHas
        <3> QED
            BY <3>2 DEF p
    <2>3. before \in Nat /\ count \in Nat
        BY <1>1, <2>2, LenProperties
    <2> QED
        BY <1>1, <2>2, <2>3 DEF Holds
<1>3. Len(elements) \in Nat /\ Len(whole) \in Nat
    <2>1. Len(u) \in 0..Len(u) /\ Len(Parts(u)) = Len(u)
        BY <1>1, GatesAre
    <2>2. whole \in Seq(Words)
        BY <2>1 DEF Joining
    <2> QED
        BY <2>2, LenProperties
<1>4. gap \in Int
    BY GapIs
<1>5. acc.offset + count <= Len(elements) /\ acc.offset \in Nat
    <2> HIDE DEF before, count, whole
    <2>1. acc.offset = offset + before /\ offset + Len(whole) <= Len(elements)
        BY DEF before, whole
    <2>2. Len(f[j]) = before + count
        BY <1>2
    <2> QED
        BY <1>2, <1>3, <2>1, <2>2, SMTT(60)
<1>6. GateAdds(acc, a, count, n, gap, vals)
    <2> DEFINE m == Markers(u)
    <2>1. m[j] = Marker(start, n) /\ GateGap(m, j, bins) \in Int
          /\ acc.offset + ElementCount(m[j]) <= Len(elements) /\ bins \in Int
        BY <1>1, <1>4, <1>5
    <2>2. start \in Nat /\ n \in Nat
        BY <1>1
    <2> HIDE DEF m, start, n
    <2>3. GateAdds(acc, AddGate(acc, m, j, elements, bins), ElementCount(m[j]), n,
                   GateGap(m, j, bins), GateValues(elements, acc.offset, m[j], n))
        BY <2>1, <2>2, AddGateIs
    <2> QED
        BY <2>3 DEF m
<1>7. a.offset = offset + Len(f[j])
    <2> HIDE DEF a, count, before, vals, whole
    <2>1. acc.offset = offset + before
        BY DEF before
    <2>2. a.offset = acc.offset + count
        BY <1>6 DEF GateAdds
    <2>3. /\ offset \in Nat /\ before \in Nat /\ count \in Nat
          /\ before + count = Len(f[j])
        BY <1>2
    <2> QED
        BY <2>1, <2>2, <2>3, SMTT(60)
<1>8. ASSUME NEW lead \in Nat, Placed(u, elements, lead + offset)
      PROVE  Holds(elements, lead + acc.offset, part)
    <2>1. ASSUME NEW e \in 1..count PROVE elements[(lead + acc.offset) + e] = part[e]
        <3> HIDE DEF count, before, whole, part
        <3>1. before + e \in 1..Len(whole)
            BY <1>2, <1>3, SMTT(60)
        <3>2. elements[(lead + offset) + (before + e)] = whole[before + e]
            BY <1>8, <3>1 DEF Placed, whole
        <3>3. (lead + acc.offset) + e = (lead + offset) + (before + e)
            <4> DEFINE o == acc.offset
            <4>1. o = offset + before /\ before \in Nat /\ e \in Int
                BY <1>2 DEF before
            <4> HIDE DEF o
            <4> QED
                BY <4>1 DEF o
        <3> QED
            BY <1>2, <3>2, <3>3
    <2>2. lead + acc.offset \in Nat
        BY <1>5
    <2> HIDE DEF part
    <2> QED
        BY <1>1, <2>1, <2>2 DEF Holds
<1>9. ASSUME Placed(u, elements, offset) PROVE vals = Stored(samples)
    <2>1. 0 \in Nat /\ 0 + offset = offset /\ 0 + acc.offset = acc.offset
        BY <1>5
    <2> HIDE DEF start, samples, part
    <2>2. Holds(elements, acc.offset, Elements(start, samples, Baseline))
        BY <1>1, <1>8, <1>9, <2>1
    <2>3. Baseline \in Codes
        BY BatchesAssumption
    <2>4. GateValues(elements, acc.offset, Marker(start, Len(samples)), Len(samples)) = Stored(samples)
        BY <1>1, <2>2, <2>3, ElementsAre
    <2> QED
        BY <1>1, <2>4
<1> HIDE DEF a
<1> QED
    BY <1>6, <1>7, <1>8, <1>9 DEF GateMade, a

\* A gate more: the scan so far reads as the gates so far, the bin is at the end of
\* the last gate and the offset at the elements of the next.
LEMMA OneMoreGate ==
    ASSUME NEW u \in Gates, NEW elements \in Seq(Words), NEW bins \in Nat,
           NEW offset \in Nat, NEW f, NEW j \in 1..Len(u),
           NEW acc \in Accs, acc.offset \in Nat,
           NEW a, GateMade(u, elements, offset, bins, f, j, acc, a),
           InOrder(u), NoneBehindEmpty(u), Placed(u, elements, offset),
           Reads(u, j - 1, bins, acc.encoded_spectra)
    PROVE  Reads(u, j, bins, a.encoded_spectra)
<1> DEFINE start == u[j].start
           samples == u[j].samples
           n == Len(samples)
           g == Markers(u)[j]
           gap == GateGap(Markers(u), j, bins)
           vals == GateValues(elements, acc.offset, g, n)
<1>1. /\ Len(u) \in Nat /\ start \in Nat /\ samples \in Seq(Codes) /\ n \in Nat
      /\ DOMAIN samples = 1..n /\ \A k \in 1..n : samples[k] \in Codes
    <2>1. samples \in Seq(Codes)
        BY GatesAre
    <2>2. DOMAIN samples = 1..n /\ \A k \in 1..n : samples[k] \in Codes
        <3> HIDE DEF samples
        <3> QED
            BY <2>1, ElementOfSeq, LenProperties
    <2> QED
        BY <2>2, GatesAre
<1>2. gap \in Int
    BY GapIs
<1>3. /\ a \in Accs
      /\ vals \in Seq(Nat) /\ Len(vals) = n
      /\ n = 0 => a.encoded_spectra = acc.encoded_spectra
      /\ n # 0 => a.encoded_spectra = (acc.encoded_spectra \o Skip(gap)) \o vals
    BY DEF GateMade, GateAdds
<1>4. Reads(u, j, bins, a.encoded_spectra)
    <2> DEFINE r == ReadTo(acc.encoded_spectra, FALSE)
               q == ReadTo(a.encoded_spectra, FALSE)
               base == bins + start
    <2>1. acc.encoded_spectra \in Seq(Int) /\ r \in Readers /\ r.bin \in Int
        <3>1. Entries \subseteq Int
            BY DEF Entries
        <3>2. acc.encoded_spectra \in Seq(Int)
            BY <3>1, SeqMonotonic DEF Accs
        <3>3. r \in Readers
            BY <3>2, ReadIs
        <3> QED
            BY <3>2, <3>3 DEF Readers
    <2>2. \A k \in 1..n : vals[k] = samples[k] + Half
        <3>1. vals = Stored(samples)
            BY DEF GateMade
        <3> HIDE DEF vals
        <3> QED
            BY <3>1 DEF Stored
    <2>3. SeenTo(u, j, bins) = SeenTo(u, j - 1, bins) \cup GateBins(u, j, bins)
        <3>1. 1..j = (1..(j - 1)) \cup {j}
            BY <1>1
        <3> QED
            BY <3>1 DEF SeenTo
    <2>4. GateBins(u, j, bins) = {<<base + k - 1, samples[k] + Half>> : k \in 1..n}
        BY <1>1 DEF GateBins
    <2>5. r.read = SeenTo(u, j - 1, bins)
        BY DEF Reads
    <2>6. CASE n = 0
        <3>1. samples = <<>>
            BY <1>1, <2>6
        <3>2. GateBins(u, j, bins) = {}
            <4>1. 1..n = {}
                BY <2>6
            <4> HIDE DEF n
            <4> QED
                BY <2>4, <4>1
        <3>3. q = r
            BY <1>3, <2>6
        <3>4. q.read = SeenTo(u, j, bins)
            BY <2>3, <2>5, <3>2, <3>3
        <3>5. j # 0 /\ u[j].samples = <<>>
            BY <3>1
        <3> HIDE DEF q
        <3> QED
            BY <3>4, <3>5 DEF Reads, q
    <2>7. CASE n # 0
        <3>1. gap \in Nat /\ r.bin + gap = base
            <4>1. CASE j = 1
                <5>1. r.bin = 0
                    <6>1. j - 1 = 0
                        BY <4>1
                    <6>2. Reads(u, 0, bins, acc.encoded_spectra)
                        BY <6>1
                    <6> QED
                        BY <6>2 DEF Reads
                <5>2. gap = start + bins
                    <6>1. bins \in Int
                        OBVIOUS
                    <6> QED
                        BY <4>1, <6>1, GapIs
                <5> HIDE DEF gap, r, start
                <5> QED
                    BY <1>1, <5>1, <5>2, SMTT(60)
            <4>2. CASE j # 1
                <5> DEFINE i == j - 1
                           end == u[i].start + Len(u[i].samples)
                <5>1. i \in 1..Len(u) /\ i # Len(u) /\ i # 0 /\ j \in 2..Len(u)
                    BY <1>1, <4>2
                <5>2. u[i].start \in Nat /\ Len(u[i].samples) \in Nat
                    <6> HIDE DEF i
                    <6> QED
                        BY <5>1, GatesAre
                <5>3. u[i].samples # <<>>
                    <6>1. i \in DOMAIN u
                        BY <5>1, GatesAre
                    <6> HIDE DEF i
                    <6> QED
                        BY <5>1, <6>1 DEF NoneBehindEmpty
                <5>4. r.bin = bins + u[i].start + Len(u[i].samples)
                    BY <5>1, <5>3 DEF Reads
                <5>5. start >= end
                    BY <5>1 DEF InOrder
                <5>6. gap = start - end
                    BY <4>2, GapIs
                <5>7. end \in Nat /\ r.bin = bins + end
                    <6> DEFINE x == u[i].start
                               y == Len(u[i].samples)
                    <6>1. x \in Nat /\ y \in Nat /\ end = x + y /\ r.bin = bins + x + y
                        BY <5>2, <5>4
                    <6> HIDE DEF x, y, end, r
                    <6> QED
                        BY <6>1
                <5> HIDE DEF gap, r, start, end
                <5> QED
                    BY <1>1, <5>5, <5>6, <5>7
            <4> QED
                BY <4>1, <4>2
        <3> DEFINE s == acc.encoded_spectra \o Skip(gap)
                   p == ReadTo(s, FALSE)
        <3>2. s \in Seq(Int) /\ p.bin = r.bin + gap /\ p.read = r.read
            <4>1. Skip(gap) \in Seq(Int)
                <5>1. Skip(gap) \in Seq(Entries) /\ Entries \subseteq Int
                    BY <1>2, SkipIs DEF Entries
                <5> QED
                    BY <5>1, SeqMonotonic
            <4>2. s \in Seq(Int)
                BY <2>1, <4>1, ConcatProperties
            <4> DEFINE enc == acc.encoded_spectra
            <4>3. enc \in Seq(Int) /\ gap \in Nat
                BY <2>1, <3>1
            <4> HIDE DEF enc, gap
            <4>4. /\ ReadTo(enc \o Skip(gap), FALSE).bin = ReadTo(enc, FALSE).bin + gap
                  /\ ReadTo(enc \o Skip(gap), FALSE).read = ReadTo(enc, FALSE).read
                BY <4>3, ReadSkip
            <4> QED
                BY <4>2, <4>4 DEF enc
        <3>3. a.encoded_spectra = s \o vals
            BY <1>3, <2>7
        <3>4. /\ ReadTo(s \o vals, FALSE).bin = p.bin + Len(vals)
              /\ ReadTo(s \o vals, FALSE).read = p.read \cup Bins(p.bin, vals)
            <4>1. s \in Seq(Int) /\ vals \in Seq(Nat)
                BY <1>3, <3>2
            <4> HIDE DEF s, vals
            <4> QED
                BY <4>1, ReadValues
        <3>5. p.bin = base
            BY <3>1, <3>2
        <3>6. Bins(p.bin, vals) = GateBins(u, j, bins)
            <4>1. Bins(p.bin, vals) = {<<base + k - 1, vals[k]>> : k \in 1..n}
                BY <1>3, <3>5 DEF Bins
            <4> HIDE DEF vals, base, n, samples
            <4> QED
                BY <2>2, <2>4, <4>1
        <3>7. q.read = SeenTo(u, j, bins)
            <4> HIDE DEF s, vals, p, r
            <4> QED
                BY <2>3, <2>5, <3>2, <3>3, <3>4, <3>6
        <3>8. q.bin = bins + u[j].start + Len(u[j].samples)
            <4> HIDE DEF s, vals, p
            <4>1. q.bin = base + n
                BY <1>3, <3>3, <3>4, <3>5
            <4> QED
                BY <4>1
        <3>9. j # 0
            BY <1>1
        <3> HIDE DEF q
        <3> QED
            BY <3>7, <3>8, <3>9 DEF Reads, q
    <2> QED
        BY <2>6, <2>7
<1> QED
    BY <1>4

-----------------------------------------------------------------------------
(* What the check of the alignment looks at *)

\* Two samples of the baseline, packed.
FillWord == Baseline * Width + (Baseline % Width)

\* The first m elements are nothing else.
Filled(elements, m) == \A e \in 1..m : elements[e] = FillWord

\* The card opens every gate of u at the threshold or above.
OpenHigh(u) == \A j \in DOMAIN u : u[j].samples # <<>> => u[j].samples[1] >= Threshold

\* Nothing but baseline has gone by, or a gate has opened below the threshold.
Noticed(elements, enc, m) ==
    \/ enc = <<>> /\ Filled(elements, m)
    \/ OpenBelow(enc, Floor) # {}

\* A half of a filled element is the baseline.
LEMMA FillerIs ==
    ASSUME NEW elements, NEW offset, NEW i \in Nat, elements[offset + (i \div 2) + 1] = FillWord
    PROVE  Sample(elements, offset, i) = Baseline + Half
<1> DEFINE b == Baseline
           w == elements[offset + (i \div 2) + 1]
           low == w % Width
<1>1. b \in Codes
    BY BatchesAssumption
<1>2. w = b * Width + (b % Width)
    BY DEF FillWord
<1> HIDE DEF b
<1>3. w \div Width = b /\ (IF low >= Half THEN low - Width ELSE low) = b
    BY <1>1, <1>2, Packed
<1>4. Sample(elements, offset, i) =
          (IF i % 2 = 1 THEN w \div Width ELSE IF low >= Half THEN low - Width ELSE low) + Half
    BY Widths DEF Sample, Half, Width, range_shift_constant
<1> QED
    BY <1>3, <1>4 DEF b

\* The elements of a gate whose samples are baseline, or that has none.
LEMMA QuietIs ==
    ASSUME NEW start \in Nat, NEW samples \in Seq(Codes),
           \A k \in DOMAIN samples : samples[k] = Baseline
    PROVE  LET es == Elements(start, samples, Baseline)
           IN  \A e \in 1..Len(es) : es[e] = FillWord
<1> DEFINE g == Marker(start, Len(samples))
           es == Elements(start, samples, Baseline)
           half(i) == LET k == i - g.gate_start_sample_pos + 1
                      IN  IF k \in DOMAIN samples THEN samples[k] ELSE Baseline
           count == ElementCount(g)
<1>1. es = [e \in 1..count |-> half(2 * e - 1) * Width + (half(2 * e - 2) % Width)]
    BY DEF Elements, Width
<1>2. \A i : half(i) = Baseline
    OBVIOUS
<1>3. Len(es) = count
    BY BatchesAssumption, ElementsAre
<1> HIDE DEF half, count, es
<1>4. ASSUME NEW e \in 1..count PROVE es[e] = FillWord
    <2>1. es[e] = half(2 * e - 1) * Width + (half(2 * e - 2) % Width)
        BY <1>1
    <2> QED
        BY <1>2, <2>1 DEF FillWord
<1> QED
    BY <1>3, <1>4 DEF es

\* A gate leaves the columns in step: the one before has closed when it opens.
LEMMA GateTallied ==
    ASSUME NEW u \in Gates, NEW elements, NEW bins \in Nat, NEW offset, NEW f,
           NEW j \in 1..Len(u), NEW acc, NEW a, GateMade(u, elements, offset, bins, f, j, acc, a),
           InOrder(u), Tallied(acc)
    PROVE  Tallied(a)
<1> DEFINE gap == GateGap(Markers(u), j, bins)
<1>1. Len(u) \in Nat /\ u[j].start \in Nat
    BY GatesAre
<1>2. gap >= 0
    <2>1. CASE j = 1
        <3>1. gap = u[j].start + bins
            BY <2>1, GapIs
        <3> HIDE DEF gap
        <3> QED
            BY <1>1, <3>1
    <2>2. CASE j # 1
        <3> DEFINE i == j - 1
                   end == u[i].start + Len(u[i].samples)
        <3>1. i \in 1..Len(u) /\ j \in 2..Len(u)
            BY <1>1, <2>2
        <3>2. u[i].start \in Nat /\ Len(u[i].samples) \in Nat
            <4> HIDE DEF i
            <4> QED
                BY <3>1, GatesAre
        <3>3. end \in Nat
            <4> DEFINE x == u[i].start
                       y == Len(u[i].samples)
            <4>1. x \in Nat /\ y \in Nat /\ end = x + y
                BY <3>2
            <4> HIDE DEF x, y, end
            <4> QED
                BY <4>1
        <3>4. u[j].start >= end
            BY <3>1 DEF InOrder
        <3>5. gap = u[j].start - end
            BY <2>2, GapIs
        <3> HIDE DEF gap, end
        <3> QED
            BY <1>1, <3>3, <3>4, <3>5
    <2> QED
        BY <2>1, <2>2
<1> HIDE DEF gap
<1> QED
    BY <1>2 DEF GateMade, GateAdds, gap

\* A scan does not end in a run length: a gate without samples writes none.
LEMMA GateEnds ==
    ASSUME NEW u \in Gates, NEW elements, NEW bins \in Nat, NEW offset, NEW f,
           NEW j \in 1..Len(u), NEW acc \in Accs, NEW a,
           GateMade(u, elements, offset, bins, f, j, acc, a), EndsInValue(acc.encoded_spectra)
    PROVE  EndsInValue(a.encoded_spectra)
<1> DEFINE enc == acc.encoded_spectra
           n == Len(u[j].samples)
           gap == GateGap(Markers(u), j, bins)
           vals == GateValues(elements, acc.offset, Markers(u)[j], n)
<1>1. enc \in Seq(Int)
    <2>1. Entries \subseteq Int /\ enc \in Seq(Entries)
        BY DEF Accs, Entries
    <2> HIDE DEF enc
    <2> QED
        BY <2>1, SeqMonotonic
<1>2. gap \in Int
    <2>1. bins \in Int
        OBVIOUS
    <2> QED
        BY <2>1, GapIs
<1>3. /\ vals \in Seq(Nat) /\ Len(vals) = n
      /\ n = 0 => a.encoded_spectra = enc
      /\ n # 0 => a.encoded_spectra = (enc \o Skip(gap)) \o vals
    BY DEF GateMade, GateAdds
<1>4. CASE n = 0
    BY <1>3, <1>4
<1>5. CASE n # 0
    <2> HIDE DEF vals, gap, enc, n
    <2>1. EndsInValue((enc \o Skip(gap)) \o vals)
        BY <1>1, <1>2, <1>3, <1>5, OpeningsAre
    <2> QED
        BY <1>3, <1>5, <2>1
<1> QED
    BY <1>4, <1>5

\* A gate of samples that come from their own elements opens where the card opened it.
LEMMA GateHigh ==
    ASSUME NEW u \in Gates, NEW elements, NEW bins \in Nat, NEW offset, NEW f,
           NEW j \in 1..Len(u), NEW acc \in Accs, NEW a,
           GateMade(u, elements, offset, bins, f, j, acc, a),
           OpenHigh(u), Placed(u, elements, offset), NoneBelow(acc.encoded_spectra)
    PROVE  NoneBelow(a.encoded_spectra)
<1> DEFINE enc == acc.encoded_spectra
           samples == u[j].samples
           n == Len(samples)
           gap == GateGap(Markers(u), j, bins)
           vals == GateValues(elements, acc.offset, Markers(u)[j], n)
<1>1. enc \in Seq(Int)
    <2>1. Entries \subseteq Int /\ enc \in Seq(Entries)
        BY DEF Accs, Entries
    <2> HIDE DEF enc
    <2> QED
        BY <2>1, SeqMonotonic
<1>2. gap \in Int /\ samples \in Seq(Codes) /\ n \in Nat /\ j \in DOMAIN u
    <2>1. bins \in Int
        OBVIOUS
    <2>2. gap \in Int
        BY <2>1, GapIs
    <2>3. samples \in Seq(Codes) /\ n \in Nat /\ j \in DOMAIN u
        BY GatesAre
    <2> QED
        BY <2>2, <2>3
<1>3. /\ vals \in Seq(Nat) /\ Len(vals) = n /\ vals = Stored(samples)
      /\ n = 0 => a.encoded_spectra = enc
      /\ n # 0 => a.encoded_spectra = (enc \o Skip(gap)) \o vals
    BY DEF GateMade, GateAdds
<1>4. CASE n = 0
    BY <1>3, <1>4
<1>5. CASE n # 0
    <2>1. vals[1] >= Floor
        <3>1. samples # <<>> /\ 1 \in 1..n
            BY <1>2, <1>5
        <3>2. samples[1] >= Threshold
            BY <1>2, <3>1 DEF OpenHigh
        <3>3. samples[1] \in Codes
            <4> HIDE DEF samples
            <4> QED
                BY <1>2, <3>1, ElementOfSeq DEF n
        <3> HIDE DEF vals, samples, n
        <3>4. vals[1] = samples[1] + Half
            BY <1>3, <3>1 DEF Stored, n
        <3>5. samples[1] \in Int /\ Half \in Int /\ Threshold \in Int /\ Floor = Threshold + Half
            BY <3>3, Widths, FloorIs DEF Floor
        <3> QED
            BY <3>2, <3>4, <3>5
    <2> HIDE DEF vals, gap, enc
    <2>2. NoneBelow((enc \o Skip(gap)) \o vals)
        BY <1>1, <1>2, <1>3, <1>5, <2>1, OpeningsAre DEF enc
    <2> QED
        BY <1>3, <1>5, <2>2
<1> QED
    BY <1>4, <1>5

\* A gate of samples from elements that are not its own, but earlier by some: the first
\* one with samples finds baseline, and opens below the threshold.
LEMMA GateNoticed ==
    ASSUME NEW u \in Gates, NEW elements, NEW bins \in Nat, NEW offset \in Nat, NEW f,
           NEW j \in 1..Len(u), NEW acc \in Accs, NEW a,
           GateMade(u, elements, offset, bins, f, j, acc, a),
           NEW lead \in Nat, lead >= 16, Placed(u, elements, lead + offset),
           Noticed(elements, acc.encoded_spectra, lead + acc.offset)
    PROVE  Noticed(elements, a.encoded_spectra, lead + a.offset)
<1> DEFINE enc == acc.encoded_spectra
           start == u[j].start
           samples == u[j].samples
           n == Len(samples)
           g == Markers(u)[j]
           count == ElementCount(g)
           part == Parts(u)[j]
           gap == GateGap(Markers(u), j, bins)
           vals == GateValues(elements, acc.offset, g, n)
<1>1. enc \in Seq(Int) /\ acc.offset \in Nat
    <2>1. Entries \subseteq Int /\ enc \in Seq(Entries) /\ acc.offset \in Nat
        BY DEF Accs, Entries
    <2> HIDE DEF enc
    <2> QED
        BY <2>1, SeqMonotonic
<1>2. /\ gap \in Int /\ start \in Nat /\ samples \in Seq(Codes) /\ n \in Nat
      /\ g = Marker(start, n) /\ part = Elements(start, samples, Baseline)
      /\ part \in Seq(Words) /\ Len(part) = count
    <2>1. bins \in Int
        OBVIOUS
    <2>2. gap \in Int
        BY <2>1, GapIs
    <2>3. /\ start \in Nat /\ samples \in Seq(Codes) /\ n \in Nat
          /\ g = Marker(start, n) /\ part = Elements(start, samples, Baseline)
          /\ part \in Seq(Words) /\ Len(part) = count
        BY GatesAre
    <2> QED
        BY <2>2, <2>3
<1>3. /\ vals \in Seq(Nat) /\ Len(vals) = n /\ a.offset = acc.offset + count
      /\ n = 0 => a.encoded_spectra = enc
      /\ n # 0 => a.encoded_spectra = (enc \o Skip(gap)) \o vals
    BY DEF GateMade, GateAdds
<1>4. CASE OpenBelow(enc, Floor) # {}
    <2>1. CASE n = 0
        BY <1>3, <1>4, <2>1 DEF Noticed
    <2>2. CASE n # 0
        <3> HIDE DEF vals, gap, enc, n
        <3>1. OpenBelow((enc \o Skip(gap)) \o vals, Floor) # {}
            BY <1>1, <1>2, <1>3, <1>4, <2>2, OpeningsAre
        <3> QED
            BY <1>3, <2>2, <3>1 DEF Noticed
    <2> QED
        BY <2>1, <2>2
<1>5. CASE enc = <<>> /\ Filled(elements, lead + acc.offset)
    <2>1. CASE n = 0
        <3>1. samples = <<>>
            <4> HIDE DEF samples
            <4> QED
                BY <1>2, <2>1 DEF n
        <3>2. \A e \in 1..count : part[e] = FillWord
            <4>1. \A k \in DOMAIN samples : samples[k] = Baseline
                BY <3>1
            <4> HIDE DEF samples, start, part, count
            <4> QED
                BY <1>2, <4>1, QuietIs
        <3>3. \A e \in 1..count : elements[(lead + acc.offset) + e] = part[e]
            <4>1. Holds(elements, lead + acc.offset, part)
                BY DEF GateMade
            <4> HIDE DEF part, count
            <4> QED
                BY <1>2, <4>1 DEF Holds
        <3>4. count \in Nat
            <4> HIDE DEF part, count
            <4> QED
                BY <1>2, LenProperties
        <3> DEFINE m == lead + acc.offset
        <3>5. m \in Nat /\ lead + a.offset = m + count
            <4> DEFINE o == acc.offset
            <4>1. o \in Nat /\ a.offset = o + count
                BY <1>1, <1>3
            <4> HIDE DEF o, count
            <4> QED
                BY <3>4, <4>1 DEF o
        <3>6. \A e \in 1..m : elements[e] = FillWord
            BY <1>5 DEF Filled
        <3> HIDE DEF m, count, part
        <3>7. ASSUME NEW e \in 1..(m + count) PROVE elements[e] = FillWord
            <4>1. CASE e <= m
                <5>1. e \in 1..m
                    BY <3>5, <4>1
                <5> QED
                    BY <3>6, <5>1
            <4>2. CASE ~(e <= m)
                <5> DEFINE i == e - m
                <5>1. i \in 1..count /\ m + i = e
                    BY <3>4, <3>5, <4>2
                <5> HIDE DEF i
                <5>2. elements[m + i] = part[i] /\ part[i] = FillWord
                    BY <3>2, <3>3, <5>1 DEF m
                <5> QED
                    BY <5>1, <5>2
            <4> QED
                BY <4>1, <4>2
        <3>8. Filled(elements, lead + a.offset)
            BY <3>5, <3>7 DEF Filled
        <3> QED
            BY <1>3, <1>5, <2>1, <3>8 DEF Noticed
    <2>2. CASE n # 0
        <3> DEFINE pos == start % 8
                   i == pos + 1 - 1
        <3>1. g.gate_start_sample_pos = pos /\ pos \in 0..7
            <4> HIDE DEF start, n, g
            <4>1. pos \in 0..7
                BY <1>2
            <4>2. Marker(start, n).gate_start_sample_pos = start % 8
                BY <1>2, MarkerIs
            <4> QED
                BY <1>2, <4>1, <4>2
        <3>2. 1 \in 1..n
            BY <1>2, <2>2
        <3>3. vals[1] = Sample(elements, acc.offset, i)
            <4> HIDE DEF pos, n
            <4> QED
                BY <3>1, <3>2 DEF GateValues
        <3>4. vals[1] = Baseline + Half
            <4> HIDE DEF pos
            <4>1. i \in Nat /\ i \div 2 \in 0..3
                BY <3>1
            <4> HIDE DEF i
            <4> DEFINE o == acc.offset
                       h == i \div 2
                       e == o + h + 1
                       m == lead + o
            <4>2. o \in Nat /\ h \in 0..3 /\ \A x \in 1..m : elements[x] = FillWord
                BY <1>1, <1>5, <4>1 DEF Filled
            <4> HIDE DEF o, h
            <4>3. e \in 1..m
                BY <4>2
            <4>4. elements[o + h + 1] = FillWord
                <5> HIDE DEF m
                <5> QED
                    BY <4>2, <4>3
            <4>5. Sample(elements, acc.offset, i) = Baseline + Half
                <5>1. elements[acc.offset + (i \div 2) + 1] = FillWord
                    BY <4>4 DEF o, h
                <5> QED
                    BY <4>1, <5>1, FillerIs
            <4> QED
                BY <3>3, <4>5
        <3>5. vals[1] < Floor
            BY <3>4, FloorIs
        <3> HIDE DEF vals, gap, enc, n
        <3>6. OpenBelow((enc \o Skip(gap)) \o vals, Floor) # {}
            BY <1>1, <1>2, <1>3, <1>5, <2>2, <3>5, OpeningsAre
        <3> QED
            BY <1>3, <2>2, <3>6 DEF Noticed
    <2> QED
        BY <2>1, <2>2
<1> HIDE DEF enc
<1> QED
    BY <1>4, <1>5 DEF Noticed, enc

-----------------------------------------------------------------------------
(* A trigger *)

\* a stands for all gates of u, whose elements are from offset on.
Encodes(u, elements, offset, bins, a) ==
    /\ a \in Accs
    /\ a.offset = offset + Len(Joined(Parts(u)))
    /\ InOrder(u) /\ NoneBehindEmpty(u) /\ Placed(u, elements, offset)
           => ReadTo(a.encoded_spectra, FALSE).read = SeenTo(u, Len(u), bins)
    /\ InOrder(u) => Tallied(a)
    /\ EndsInValue(a.encoded_spectra)
    /\ OpenHigh(u) /\ Placed(u, elements, offset) => NoneBelow(a.encoded_spectra)
    /\ \A lead \in Nat :
           lead >= 16 /\ Placed(u, elements, lead + offset) /\ Filled(elements, lead + offset)
               => Noticed(elements, a.encoded_spectra, lead + a.offset)

\* A trigger, by induction over its gates.
LEMMA EncodeTriggerIs ==
    ASSUME NEW u \in Gates, NEW elements \in Seq(Words), NEW bins \in Nat,
           NEW offset \in Nat, offset + Len(Joined(Parts(u))) <= Len(elements)
    PROVE  Encodes(u, elements, offset, bins, EncodeTrigger(offset, Markers(u), elements, bins))
<1> DEFINE n == Len(u)
           m == Markers(u)
           acc == [encoded_spectra |-> <<>>, tic |-> 0, bpi |-> 0, index_max_intensity |-> 0,
                   non_zero_count |-> 0, zero_count |-> 0, offset |-> offset]
           G == [x \in (1..n) \X Accs |->
                    IF AddGate(x[2], m, x[1], elements, bins) \in Accs
                    THEN AddGate(x[2], m, x[1], elements, bins) ELSE x[2]]
           Seen0 == InOrder(u) /\ NoneBehindEmpty(u) /\ Placed(u, elements, offset)
           High0 == OpenHigh(u) /\ Placed(u, elements, offset)
           Late(lead) ==
               lead >= 16 /\ Placed(u, elements, lead + offset) /\ Filled(elements, lead + offset)
<1>1. n \in Nat /\ Len(m) = n /\ Len(Parts(u)) = n /\ Parts(u) \in Seq(Seq(Words))
    BY GatesAre
<1>2. acc \in Accs
    <2>1. <<>> \in Seq(Entries)
        OBVIOUS
    <2> QED
        BY <2>1 DEF Accs
<1>3. PICK h : Joining(h, Words, Parts(u))
    BY <1>1, JoinedIs
<1>4. G \in [(1..n) \X Accs -> Accs]
    OBVIOUS
<1>5. \A k \in 1..n, v \in Accs :
          AddGate(v, m, k, elements, bins) \in Accs => G[<<k, v>>] = AddGate(v, m, k, elements, bins)
    OBVIOUS
<1> HIDE DEF G, acc
<1>6. PICK f : Solves(f, Accs, acc, n, G)
    <2> HIDE DEF n
    <2> QED
        BY <1>1, <1>2, <1>4, Recursion
<1>7. f[0] = acc /\ \A k \in 1..n : f[k - 1] \in Accs /\ f[k] = G[<<k, f[k - 1]>>]
    <2>1. ASSUME NEW k \in 1..n PROVE f[k - 1] \in Accs
        <3>1. k - 1 \in 0..n
            OBVIOUS
        <3> QED
            BY <1>6, <3>1 DEF Solves
    <2> QED
        BY <1>6, <2>1 DEF Runs, Solves
<1> DEFINE Good(k) ==
               /\ f[k] \in Accs
               /\ f[k].offset = offset + Len(h[k])
               /\ Seen0 => Reads(u, k, bins, f[k].encoded_spectra)
               /\ InOrder(u) => Tallied(f[k])
               /\ EndsInValue(f[k].encoded_spectra)
               /\ High0 => NoneBelow(f[k].encoded_spectra)
               /\ \A lead \in Nat :
                      Late(lead) => Noticed(elements, f[k].encoded_spectra, lead + f[k].offset)
           S == {k \in Nat : k <= n => Good(k)}
\* One step, once the steps before are as they should be.
<1>8. ASSUME NEW k \in 1..n, Good(k - 1)
      PROVE  f[k] = AddGate(f[k - 1], m, k, elements, bins) /\ Good(k)
    <2> DEFINE v == f[k - 1]
               a == AddGate(v, m, k, elements, bins)
    <2>1. v \in Accs /\ v.offset = offset + Len(h[k - 1])
        BY <1>8
    <2>2. /\ Seen0 => Reads(u, k - 1, bins, v.encoded_spectra)
          /\ InOrder(u) => Tallied(v)
          /\ EndsInValue(v.encoded_spectra)
          /\ High0 => NoneBelow(v.encoded_spectra)
          /\ \A lead \in Nat :
                 Late(lead) => Noticed(elements, v.encoded_spectra, lead + v.offset)
        BY <1>8
    <2> HIDE DEF v, Good, m, n, Seen0, High0, Late
    <2>3. GateMade(u, elements, offset, bins, h, k, v, a)
        BY <1>3, <2>1, GateIs DEF m, n
    <2> HIDE DEF a
    <2>4. a \in Accs /\ a.offset = offset + Len(h[k])
        BY <2>3 DEF GateMade, GateAdds
    <2>5. Seen0 => Reads(u, k, bins, a.encoded_spectra)
        <3>1. v.offset \in Nat
            BY <2>1 DEF Accs
        <3> QED
            BY <2>1, <2>2, <2>3, <3>1, OneMoreGate DEF n, Seen0
    <2>6. InOrder(u) => Tallied(a)
        BY <2>2, <2>3, GateTallied DEF n
    <2>7. High0 => NoneBelow(a.encoded_spectra)
        BY <2>1, <2>2, <2>3, GateHigh DEF n, High0
    <2>8. ASSUME NEW lead \in Nat, Late(lead)
          PROVE  Noticed(elements, a.encoded_spectra, lead + a.offset)
        <3>1. Noticed(elements, v.encoded_spectra, lead + v.offset)
            BY <2>2, <2>8
        <3> QED
            BY <2>1, <2>3, <2>8, <3>1, GateNoticed DEF n, Late
    <2>9. EndsInValue(a.encoded_spectra)
        BY <2>1, <2>2, <2>3, GateEnds DEF n
    <2>10. f[k] = a
        BY <1>5, <1>7, <2>1, <2>4 DEF v, a
    <2>11. Good(k)
        BY <2>4, <2>5, <2>6, <2>7, <2>8, <2>9, <2>10 DEF Good
    <2> QED
        BY <2>10, <2>11 DEF a, v
<1>9. Good(0)
    <2>1. h[0] = <<>> /\ Len(<<>>) = 0
        BY <1>3 DEF Joining
    <2>2. f[0].offset = offset + Len(h[0]) /\ f[0].encoded_spectra = <<>>
        BY <1>7, <2>1 DEF acc
    <2>3. Reads(u, 0, bins, <<>>)
        <3>1. ReadTo(<<>>, FALSE) = NothingRead
            BY ReadNothing
        <3>2. SeenTo(u, 0, bins) = {}
            <4>1. 1..0 = {}
                OBVIOUS
            <4> QED
                BY <4>1 DEF SeenTo
        <3>3. ReadTo(<<>>, FALSE).read = {} /\ ReadTo(<<>>, FALSE).bin = 0
            <4>1. NothingRead.read = {} /\ NothingRead.bin = 0
                BY DEF NothingRead
            <4> QED
                BY <3>1, <4>1
        <3>4. ~(0 # 0)
            OBVIOUS
        <3> QED
            BY <3>2, <3>3, <3>4 DEF Reads
    <2>4. f[0] = acc /\ acc \in Accs /\ acc.encoded_spectra = <<>> /\ acc.offset = offset
        BY <1>2, <1>7 DEF acc
    <2>5. Tallied(acc)
        BY <2>4, TallyNothing DEF acc
    <2>6. NoneBelow(<<>>) /\ EndsInValue(<<>>)
        BY DEF NoneBelow, OpenBelow, EndsInValue
    <2>7. ASSUME NEW lead \in Nat, Late(lead) PROVE Noticed(elements, <<>>, lead + offset)
        BY <2>7 DEF Noticed
    <2> HIDE DEF Seen0, High0, Late
    <2> QED
        BY <2>2, <2>3, <2>4, <2>5, <2>6, <2>7
<1>10. \A k \in 0..n : Good(k)
    <2> HIDE DEF Good
    <2>1. 0 \in S
        BY <1>9
    <2>2. ASSUME NEW k \in Nat, k \in S PROVE k + 1 \in S
        <3>1. SUFFICES ASSUME k + 1 <= n PROVE Good(k + 1)
            OBVIOUS
        <3>2. k + 1 \in 1..n /\ (k + 1) - 1 = k /\ Good(k)
            BY <1>1, <2>2, <3>1
        <3> QED
            BY <1>8, <3>2
    <2> HIDE DEF S
    <2>3. Nat \subseteq S
        BY <2>1, <2>2, Induction
    <2> QED
        BY <1>1, <2>3 DEF S
<1>11. \A k \in 1..n : f[k] = AddGate(f[k - 1], m, k, elements, bins)
    <2> HIDE DEF Good
    <2>1. ASSUME NEW k \in 1..n PROVE f[k] = AddGate(f[k - 1], m, k, elements, bins)
        <3>1. k - 1 \in 0..n
            BY <1>1
        <3>2. Good(k - 1)
            BY <1>10, <3>1
        <3> QED
            BY <1>8, <3>2
    <2> QED
        BY <2>1
<1> DEFINE step(d) == [k \in 0..n |-> IF k = 0 THEN acc ELSE AddGate(d[k - 1], m, k, elements, bins)]
           e == CHOOSE d : d = step(d)
<1>12. f = step(f)
    <2>1. ASSUME NEW k \in 0..n PROVE f[k] = step(f)[k]
        <3>1. CASE k = 0
            BY <1>7, <3>1
        <3>2. CASE k # 0
            <4>1. k \in 1..n
                BY <3>2
            <4> QED
                BY <1>11, <3>2, <4>1
        <3> QED
            BY <3>1, <3>2
    <2> QED
        BY <1>6, <2>1 DEF Solves
<1>13. e = step(e)
    BY <1>12
<1>14. EncodeTrigger(offset, m, elements, bins) = e[n]
    <2> HIDE DEF m
    <2> QED
        BY <1>1 DEF EncodeTrigger, acc
<1> HIDE DEF e
<1>15. e[n] = f[n]
    <2>1. e[0] = f[0]
        <3>1. 0 \in 0..n
            BY <1>1
        <3> QED
            BY <1>7, <1>13, <3>1
    <2>2. ASSUME NEW k \in 1..n, e[k - 1] = f[k - 1] PROVE e[k] = f[k]
        <3>1. k \in 0..n /\ k # 0
            OBVIOUS
        <3>2. e[k] = AddGate(e[k - 1], m, k, elements, bins)
            BY <1>13, <3>1
        <3> QED
            BY <1>11, <2>2, <3>2
    <2> HIDE DEF n
    <2> QED
        BY <1>1, <2>1, <2>2, SameRun
<1>16. Good(n)
    <2>1. n \in 0..n
        BY <1>1
    <2> HIDE DEF Good
    <2> QED
        BY <1>10, <2>1
<1>17. h[n] = Joined(Parts(u))
    BY <1>1, <1>3 DEF Joining
<1> DEFINE a == EncodeTrigger(offset, m, elements, bins)
<1>18. a = f[n]
    BY <1>14, <1>15
<1> HIDE DEF a
<1>19. /\ a \in Accs /\ a.offset = offset + Len(Joined(Parts(u)))
       /\ Seen0 => ReadTo(a.encoded_spectra, FALSE).read = SeenTo(u, n, bins)
       /\ InOrder(u) => Tallied(a)
       /\ EndsInValue(a.encoded_spectra)
       /\ High0 => NoneBelow(a.encoded_spectra)
       /\ \A lead \in Nat :
              Late(lead) => Noticed(elements, a.encoded_spectra, lead + a.offset)
    BY <1>16, <1>17, <1>18 DEF Reads
<1> QED
    BY <1>19 DEF Encodes, a

-----------------------------------------------------------------------------
(* A batch *)

\* What process() makes of a trigger.
Scans ==
    [timestamp : Nat, scan : Int, encoded_spectra : Seq(Entries), tic : Int, bpi : Int,
     index_max_intensity : Int, non_zero_count : Int, offset : Nat]

\* The elements of each trigger.
Whole == [t \in DOMAIN batch |-> Joined(Parts(batch[t]))]

\* The columns of scan x are those of the pairs S.
Columns(x, S) ==
    /\ S \in SUBSET (Nat \X Nat) /\ IsFiniteSet(S)
    /\ x.non_zero_count = Cardinality(S)
    /\ x.tic = TotalOf(S)
    /\ Peaks(x.bpi, x.index_max_intensity, S)

\* The columns of scan x are those of what it reads as; where the streams are in step
\* that is what the card saw of trigger t, and no gate opens below the threshold.
Right(t, x) ==
    /\ Columns(x, ReadTo(x.encoded_spectra, FALSE).read)
    /\ lag = 0 /\ Ordinary(t) => ReadTo(x.encoded_spectra, FALSE).read = Seen(t)
    /\ lag = 0 => NoneBelow(x.encoded_spectra)
    /\ EndsInValue(x.encoded_spectra)
    /\ x.timestamp = t

\* What the card saw, and was asked.
Inputs == batch \in Batches /\ offset_bins \in OffsetBins /\ lag \in Lags

\* What is assumed of them.
LEMMA InputsAre ==
    ASSUME Inputs
    PROVE  /\ Len(batch) \in Nat /\ DOMAIN batch = 1..Len(batch)
           /\ \A t \in 1..Len(batch) :
                  batch[t] \in Gates /\ InOrder(batch[t]) /\ OpenHigh(batch[t])
           /\ offset_bins \in Nat /\ lag \in Nat
<1>1. batch \in Seq(Gates) /\ \A t \in DOMAIN batch : InOrder(batch[t])
    BY BatchesAssumption DEF Inputs, Gates, InOrder
<1>2. offset_bins \in Nat /\ lag \in Nat
    BY BatchesAssumption DEF Inputs
<1>3. Len(batch) \in Nat /\ DOMAIN batch = 1..Len(batch)
    BY <1>1, LenProperties
<1>4. \A t \in 1..Len(batch) : batch[t] \in Gates
    BY <1>1, ElementOfSeq
<1>5. \A t \in DOMAIN batch : OpenHigh(batch[t])
    BY OpeningAssumption DEF Inputs, OpenHigh
<1> QED
    BY <1>1, <1>2, <1>3, <1>4, <1>5

\* The elements of a trigger.
LEMMA PartsJoined == ASSUME NEW u \in Gates PROVE Joined(Parts(u)) \in Seq(Words)
<1>1. Parts(u) \in Seq(Seq(Words)) /\ Len(Parts(u)) \in Nat
    BY GatesAre
<1>2. PICK f : Joining(f, Words, Parts(u))
    BY <1>1, JoinedIs
<1>3. Len(Parts(u)) \in 0..Len(Parts(u))
    BY <1>1
<1> QED
    BY <1>2, <1>3 DEF Joining

\* The elements of the lag.
Lead == ElementCount(Marker(0, 2 * lag))

\* There are none without a lag, and at least sixteen with one.
LEMMA LeadIs ==
    ASSUME lag \in Nat
    PROVE  /\ Lead \in Nat
           /\ lag = 0 => Lead = 0
           /\ lag # 0 => Lead >= 16
<1> DEFINE g == Marker(0, 2 * lag)
           w == 0 + 2 * lag - 1
           v == 0
           b == w \div 8
           f == (g.gate_stop_block_index - g.gate_start_block_index) * 4
<1>1. g.gate_start_block_index = v \div 8 + 1 /\ g.gate_stop_block_index = w \div 8 + 2
    BY DEF Marker
<1>2. v \div 8 = 0
    <2>1. \A x \in Int : x = 0 => x \div 8 = 0
        OBVIOUS
    <2>2. v \in Int /\ v = 0
        OBVIOUS
    <2> HIDE DEF v
    <2> QED
        BY <2>1, <2>2
<1>3. w \in Int /\ (lag = 0 => w = -1) /\ (lag # 0 => w \in Nat)
    OBVIOUS
<1> HIDE DEF w, g, v
<1>4. b \in Int /\ (lag = 0 => b = -1) /\ (lag # 0 => b \in Nat)
    BY <1>3
<1> HIDE DEF b
<1>5. f = 4 * (b + 1)
    BY <1>1, <1>2, <1>4 DEF b
<1> HIDE DEF f
<1>6. Lead = IF f % 16 # 0 THEN (f \div 16 + 1) * 16 ELSE f
    BY DEF Lead, ElementCount, f, g
<1>7. f \in Nat /\ (lag = 0 => f = 0) /\ (lag # 0 => f >= 4)
    BY <1>4, <1>5
<1>8. ASSUME f = 0 PROVE Lead = 0
    BY <1>6, <1>8
<1>9. ASSUME f >= 4 PROVE Lead >= 16 /\ Lead \in Nat
    BY <1>6, <1>7, <1>9
<1> QED
    BY <1>7, <1>8, <1>9

\* The samples buffer is the elements of all triggers, behind those of the lag.
LEMMA BufferIs ==
    ASSUME Inputs
    PROVE  /\ Whole \in Seq(Seq(Words)) /\ Len(Whole) = Len(batch)
           /\ SamplesBuffer \in Seq(Words)
           /\ Len(Joined(Whole)) \in Nat /\ Len(SamplesBuffer) = Lead + Len(Joined(Whole))
           /\ Filled(SamplesBuffer, Lead)
           /\ Holds(SamplesBuffer, Lead, Joined(Whole))
<1> DEFINE quiet == [i \in 1..(2 * lag) |-> Baseline]
           lagged == Elements(0, quiet, Baseline)
           whole == Whole
<1>1. /\ Len(batch) \in Nat /\ DOMAIN batch = 1..Len(batch) /\ lag \in Nat
      /\ \A t \in 1..Len(batch) : batch[t] \in Gates
    BY InputsAre
<1>2. \A t \in 1..Len(batch) : whole[t] \in Seq(Words)
    BY <1>1, PartsJoined DEF Whole
<1>3. whole = [t \in 1..Len(batch) |-> whole[t]]
    BY <1>1 DEF Whole
<1>4. SamplesBuffer = lagged \o Joined(whole)
    BY DEF SamplesBuffer, Whole, Parts
<1>5. Baseline \in Codes
    BY BatchesAssumption
<1>6. quiet \in Seq(Codes) /\ Len(quiet) = 2 * lag
    <2>1. quiet \in [1..(2 * lag) -> Codes]
        BY <1>5
    <2>2. 2 * lag \in Nat
        BY <1>1
    <2> QED
        BY <2>1, <2>2
<1> HIDE DEF whole
<1>7. whole \in Seq(Seq(Words)) /\ Len(whole) = Len(batch)
    <2>1. whole \in [1..Len(batch) -> Seq(Words)]
        BY <1>2, <1>3
    <2> QED
        BY <1>1, <2>1
<1>8. PICK f : Joining(f, Words, whole)
    BY <1>7, JoinedIs
<1>9. Joined(whole) \in Seq(Words)
    <2>1. Len(whole) \in 0..Len(whole)
        BY <1>1, <1>7
    <2> QED
        BY <1>8, <2>1 DEF Joining
<1>10. /\ lagged \in Seq(Words) /\ Len(lagged) = Lead
       /\ \A e \in 1..Lead : lagged[e] = FillWord
    <2> HIDE DEF quiet
    <2>1. 0 \in Nat
        OBVIOUS
    <2>2. Len(Elements(0, quiet, Baseline)) = ElementCount(Marker(0, Len(quiet)))
          /\ Elements(0, quiet, Baseline) \in Seq(Words)
        BY <1>5, <1>6, <2>1, ElementsAre
    <2>3. Len(lagged) = Lead
        BY <1>6, <2>2 DEF Lead
    <2>4. \A k \in DOMAIN quiet : quiet[k] = Baseline
        BY DEF quiet
    <2>5. \A e \in 1..Len(Elements(0, quiet, Baseline)) : Elements(0, quiet, Baseline)[e] = FillWord
        BY <1>6, <2>1, <2>4, QuietIs
    <2> QED
        BY <2>2, <2>3, <2>5
<1> HIDE DEF lagged
<1>11. Lead \in Nat
    BY <1>1, LeadIs
<1> DEFINE j == Joined(whole)
           b == SamplesBuffer
<1>12. b = lagged \o j /\ j \in Seq(Words)
    BY <1>4, <1>9
<1> HIDE DEF j, b
<1>13. /\ b \in Seq(Words) /\ Len(b) = Lead + Len(j) /\ Len(j) \in Nat
       /\ \A e \in 1..Lead : b[e] = lagged[e]
       /\ \A e \in 1..Len(j) : b[Lead + e] = j[e]
    BY <1>10, <1>12, TwoJoin
<1>14. Filled(b, Lead) /\ Holds(b, Lead, j)
    BY <1>10, <1>11, <1>13 DEF Filled, Holds
<1> QED
    BY <1>7, <1>13, <1>14 DEF whole, j, b

\* The reference, gate by gate.
LEMMA SeenIs ==
    ASSUME Inputs, NEW t \in 1..Len(batch)
    PROVE  /\ Seen(t) = SeenTo(batch[t], Len(batch[t]), offset_bins)
           /\ Ordinary(t) => NoneBehindEmpty(batch[t])
<1>1. DOMAIN batch[t] = 1..Len(batch[t])
    BY InputsAre, GatesAre
<1>2. Ordinary(t) => NoneBehindEmpty(batch[t])
    BY DEF Ordinary, NoneBehindEmpty
<1>3. range_shift_constant = Half
    BY Widths
<1>4. Seen(t) = SeenTo(batch[t], Len(batch[t]), offset_bins)
    BY <1>1, <1>3 DEF Seen, SeenTo, GateBins
<1> QED
    BY <1>2, <1>4

\* What a lag makes of scan x of trigger t, where nothing but baseline has gone by: that
\* it does so still, or the scan opens below the threshold.
Overdue(x, h, t) ==
    Filled(SamplesBuffer, Lead + Len(h[t - 1]))
        => Noticed(SamplesBuffer, x.encoded_spectra, Lead + Len(h[t]))

\* One more scan, where the offset is right.
LEMMA OneMoreScan ==
    ASSUME Inputs, NEW h, Joining(h, Words, Whole), NEW t \in 1..Len(batch),
           NEW s \in Seq(Scans), Len(s) = t - 1,
           t # 1 => s[Len(s)].offset = Len(h[t - 1]),
           NEW scan \in Int
    PROVE  \E x \in Scans :
               /\ AddScan(s, Stamps[t], scan, SamplesBuffer, offset_bins) = Append(s, x)
               /\ x.offset = Len(h[t]) /\ Right(t, x)
               /\ lag # 0 => Overdue(x, h, t)
<1> DEFINE u == batch[t]
           bins == offset_bins
           elements == SamplesBuffer
           offset == IF s = <<>> THEN 0 ELSE s[Len(s)].offset
           acc == EncodeTrigger(offset, Markers(u), elements, bins)
           x == [timestamp |-> t, scan |-> scan,
                 encoded_spectra |-> acc.encoded_spectra, tic |-> acc.tic, bpi |-> acc.bpi,
                 index_max_intensity |-> acc.index_max_intensity,
                 non_zero_count |-> acc.non_zero_count, offset |-> acc.offset]
           joined == Joined(Whole)
           part == Joined(Parts(u))
<1>1. /\ u \in Gates /\ bins \in Nat /\ elements \in Seq(Words) /\ InOrder(u) /\ OpenHigh(u)
      /\ Whole \in Seq(Seq(Words)) /\ Len(Whole) = Len(batch) /\ Len(batch) \in Nat
      /\ DOMAIN batch = 1..Len(batch)
    BY InputsAre, BufferIs
<1>2. /\ Len(h[t - 1]) \in Nat /\ Len(h[t]) = Len(h[t - 1]) + Len(part) /\ Len(h[t]) <= Len(joined)
      /\ Holds(joined, Len(h[t - 1]), part) /\ Len(part) \in Nat
    <2> DEFINE w == Whole
    <2>1. w[t] = part
        BY <1>1 DEF Whole
    <2>2. w \in Seq(Seq(Words)) /\ Joining(h, Words, w) /\ t \in 1..Len(w)
        BY <1>1
    <2> HIDE DEF w
    <2>3. /\ h[t - 1] \in Seq(Words) /\ h[t] \in Seq(Words)
          /\ Len(h[t - 1]) + Len(w[t]) = Len(h[t])
          /\ Len(h[t]) <= Len(Joined(w))
          /\ Holds(Joined(w), Len(h[t - 1]), w[t])
        BY <2>2, JoinedHas
    <2>4. Len(h[t - 1]) \in Nat
        BY <2>3, LenProperties
    <2>5. Len(part) \in Nat
        BY <1>1, PartsJoined, LenProperties
    <2> HIDE DEF part
    <2> QED
        BY <2>1, <2>3, <2>4, <2>5 DEF w
<1>3. offset = Len(h[t - 1])
    <2>1. CASE t = 1
        <3>1. s = <<>>
            BY <2>1
        <3>2. h[0] = <<>> /\ t - 1 = 0
            BY <2>1 DEF Joining
        <3>3. Len(h[t - 1]) = 0
            <4>1. h[t - 1] = <<>>
                BY <3>2
            <4> QED
                BY <4>1
        <3> QED
            BY <3>1, <3>3
    <2>2. CASE t # 1
        <3>1. s # <<>>
            BY <2>2
        <3> QED
            BY <2>2, <3>1
    <2> QED
        BY <2>1, <2>2
<1> HIDE DEF offset
<1>4. offset \in Nat /\ offset + Len(part) <= Len(elements)
    <2> HIDE DEF part, joined, elements
    <2>1. Len(joined) \in Nat /\ Len(elements) = Lead + Len(joined)
        BY BufferIs DEF joined, elements
    <2>2. Lead \in Nat
        BY InputsAre, LeadIs
    <2> QED
        BY <1>2, <1>3, <2>1, <2>2
<1>5. Encodes(u, elements, offset, bins, acc)
    <2> HIDE DEF u, elements, bins
    <2> QED
        BY <1>1, <1>4, EncodeTriggerIs
<1>6. acc \in Accs /\ acc.offset = Len(h[t])
    BY <1>2, <1>3, <1>5 DEF Encodes
<1>7. Placed(u, elements, Lead + offset)
    <2> DEFINE l == Len(part)
    <2>1. Holds(elements, Lead, joined) /\ Lead \in Nat /\ Len(joined) \in Nat
        BY BufferIs, LeadIs, InputsAre
    <2> HIDE DEF elements, joined, part
    <2>2. ASSUME NEW e \in 1..l PROVE elements[(Lead + offset) + e] = part[e]
        <3> DEFINE i == offset + e
        <3>1. joined[i] = part[e] /\ i \in 1..Len(joined)
            <4>1. joined[Len(h[t - 1]) + e] = part[e]
                BY <1>2 DEF Holds
            <4> QED
                BY <1>2, <1>3, <2>1, <4>1
        <3>2. (Lead + offset) + e = Lead + i
            BY <1>4, <2>1
        <3> HIDE DEF i
        <3>3. elements[Lead + i] = joined[i]
            BY <2>1, <3>1 DEF Holds
        <3> QED
            BY <3>1, <3>2, <3>3
    <2> QED
        BY <2>2 DEF Placed, part
<1>8. Right(t, x)
    <2> DEFINE enc == acc.encoded_spectra
               r == ReadTo(enc, FALSE)
    <2>1. Columns(x, r.read)
        <3>1. Tally(acc, r)
            BY <1>1, <1>5 DEF Encodes, Tallied
        <3>2. /\ x.non_zero_count = acc.non_zero_count /\ x.tic = acc.tic /\ x.bpi = acc.bpi
              /\ x.index_max_intensity = acc.index_max_intensity
            OBVIOUS
        <3> HIDE DEF x, r
        <3> QED
            BY <3>1, <3>2 DEF Tally, Columns
    <2>2. lag = 0 => Placed(u, elements, offset)
        <3>1. SUFFICES ASSUME lag = 0 PROVE Placed(u, elements, offset)
            OBVIOUS
        <3>2. Lead = 0
            BY <3>1, InputsAre, LeadIs
        <3>3. Lead + offset = offset
            BY <1>4, <3>2
        <3> QED
            BY <1>7, <3>3
    <2>3. lag = 0 /\ Ordinary(t) => r.read = Seen(t)
        <3>1. SUFFICES ASSUME lag = 0, Ordinary(t) PROVE r.read = Seen(t)
            OBVIOUS
        <3>2. NoneBehindEmpty(u) /\ Seen(t) = SeenTo(u, Len(u), bins)
            BY <3>1, SeenIs
        <3>3. r.read = SeenTo(u, Len(u), bins)
            BY <1>1, <1>5, <2>2, <3>1, <3>2 DEF Encodes
        <3> QED
            BY <3>2, <3>3
    <2>4. lag = 0 => NoneBelow(enc)
        BY <1>1, <1>5, <2>2 DEF Encodes
    <2>5. EndsInValue(enc)
        BY <1>5 DEF Encodes
    <2>6. x.encoded_spectra = enc /\ x.timestamp = t
        OBVIOUS
    <2> HIDE DEF x, enc
    <2> QED
        BY <2>1, <2>3, <2>4, <2>5, <2>6 DEF Right
<1>9. lag # 0 => Overdue(x, h, t)
    <2>1. SUFFICES ASSUME lag # 0, Filled(elements, Lead + Len(h[t - 1]))
                   PROVE  Noticed(elements, x.encoded_spectra, Lead + Len(h[t]))
        BY DEF Overdue
    <2>2. Lead \in Nat /\ Lead >= 16
        BY <2>1, InputsAre, LeadIs
    <2>3. Filled(elements, Lead + offset)
        BY <1>3, <2>1
    <2>4. Noticed(elements, acc.encoded_spectra, Lead + acc.offset)
        BY <1>5, <1>7, <2>2, <2>3 DEF Encodes
    <2>5. x.encoded_spectra = acc.encoded_spectra
        OBVIOUS
    <2> HIDE DEF x, elements, acc
    <2> QED
        BY <1>6, <2>4, <2>5
<1>10. Stamps[t] = [timestamp |-> t, gate_data |-> Markers(u)]
    BY <1>1 DEF Stamps, Markers
<1>11. AddScan(s, Stamps[t], scan, elements, bins) = Append(s, x)
    <2>1. Stamps[t].gate_data = Markers(u) /\ Stamps[t].timestamp = t
        BY <1>10
    <2> HIDE DEF u, elements, bins
    <2> QED
        BY <2>1 DEF AddScan, offset
<1> HIDE DEF acc
<1>12. x \in Scans
    BY <1>6 DEF Scans, Accs
<1>13. x.offset = Len(h[t])
    BY <1>6
<1> HIDE DEF x
<1> QED
    BY <1>8, <1>9, <1>11, <1>12, <1>13

\* The frame of the batch: a scan per trigger, each as it should be.
Frame == process(Stamps, SamplesBuffer, offset_bins, 0)

\* n scans, each as it should be.
RightScans(s, n) ==
    /\ s \in Seq(Scans) /\ Len(s) = n
    /\ \A t \in 1..n : Right(t, s[t])

\* Among n scans that are not all empty, one has a gate that opens below the threshold.
Alarmed(s, n) ==
    \/ \A t \in 1..n : s[t].encoded_spectra = <<>>
    \/ \E t \in 1..n : OpenBelow(s[t].encoded_spectra, Floor) # {}

\* While they are all empty, nothing but baseline has gone by.
Passed(s, n, h) ==
    \/ /\ \A t \in 1..n : s[t].encoded_spectra = <<>>
       /\ Filled(SamplesBuffer, Lead + Len(h[n]))
    \/ \E t \in 1..n : OpenBelow(s[t].encoded_spectra, Floor) # {}

\* The scans of a batch are right, by induction over its triggers: each takes up
\* the offset where the one before left it.
LEMMA FrameIs ==
    ASSUME Inputs
    PROVE  /\ RightScans(Frame, Len(batch))
           /\ lag # 0 => Alarmed(Frame, Len(batch))
<1> DEFINE n == Len(batch)
           V == Seq(Scans)
           Add(s, t) == AddScan(s, Stamps[t], 0 + t - 1, SamplesBuffer, offset_bins)
           G == [x \in (1..n) \X V |-> IF Add(x[2], x[1]) \in V THEN Add(x[2], x[1]) ELSE x[2]]
           none == <<>>
<1>1. /\ n \in Nat /\ DOMAIN batch = 1..n /\ Len(Whole) = n /\ Whole \in Seq(Seq(Words))
      /\ Len(Stamps) = n
    <2>1. n \in Nat /\ DOMAIN batch = 1..n /\ Len(Whole) = n /\ Whole \in Seq(Seq(Words))
        BY InputsAre, BufferIs
    <2>2. Len(Stamps) = n
        <3> DEFINE m == Stamps
        <3>1. m = [t \in 1..n |-> m[t]]
            BY <2>1 DEF Stamps
        <3> HIDE DEF m
        <3>2. Len(m) = n
            BY <2>1, <3>1
        <3> QED
            BY <3>2 DEF m
    <2> QED
        BY <2>1, <2>2
<1>2. none \in V /\ Len(none) = 0
    OBVIOUS
<1>3. PICK h : Joining(h, Words, Whole)
    BY <1>1, JoinedIs
<1> HIDE DEF V, Add, none
<1>4. G \in [(1..n) \X V -> V]
    OBVIOUS
<1>5. \A t \in 1..n, s \in V : Add(s, t) \in V => G[<<t, s>>] = Add(s, t)
    OBVIOUS
<1> HIDE DEF G
<1>6. PICK f : Solves(f, V, none, n, G)
    <2> HIDE DEF n
    <2> QED
        BY <1>1, <1>2, <1>4, Recursion
<1>7. f[0] = none /\ \A t \in 1..n : f[t] = G[<<t, f[t - 1]>>]
    BY <1>6 DEF Runs, Solves
<1> DEFINE Good(t) ==
               /\ RightScans(f[t], t)
               /\ t # 0 => f[t][t].offset = Len(h[t])
               /\ lag # 0 => Passed(f[t], t, h)
           S == {t \in Nat : t <= n => Good(t)}
<1>8. ASSUME NEW t \in 1..n, Good(t - 1)
      PROVE  f[t] = Add(f[t - 1], t) /\ Good(t)
    <2> DEFINE s == f[t - 1]
               r == Add(s, t)
               scan == 0 + t - 1
    <2>1. s \in Seq(Scans) /\ Len(s) = t - 1 /\ \A i \in 1..(t - 1) : Right(i, s[i])
        BY <1>8 DEF RightScans
    <2>2. t # 1 => s[Len(s)].offset = Len(h[t - 1])
        <3>1. SUFFICES ASSUME t # 1 PROVE s[Len(s)].offset = Len(h[t - 1])
            OBVIOUS
        <3>2. t - 1 # 0
            BY <3>1
        <3> QED
            BY <1>8, <2>1, <3>2
    <2>3. scan \in Int
        BY <1>1
    <2> HIDE DEF s, scan, n, Good
    <2>4. PICK x \in Scans :
                 /\ AddScan(s, Stamps[t], scan, SamplesBuffer, offset_bins) = Append(s, x)
                 /\ x.offset = Len(h[t]) /\ Right(t, x)
                 /\ lag # 0 => Overdue(x, h, t)
        BY <1>3, <2>1, <2>2, <2>3, OneMoreScan, ZenonT(60) DEF n
    <2>5. r = Append(s, x)
        BY <2>4 DEF Add, scan
    <2>6. /\ r \in Seq(Scans) /\ Len(r) = (t - 1) + 1
          /\ \A i \in 1..(t - 1) : r[i] = s[i]
          /\ r[(t - 1) + 1] = x
        BY <2>1, <2>5, AppendProperties
    <2>7. f[t] = r
        <3>1. r \in V /\ s \in V
            BY <2>1, <2>6 DEF V
        <3> QED
            BY <1>5, <1>7, <3>1 DEF s
    <2> HIDE DEF r
    <2>8. t \in Int /\ (t - 1) + 1 = t
        BY <1>1 DEF n
    <2>9. ASSUME NEW i \in 1..t PROVE Right(i, r[i])
        <3>1. CASE i = t
            BY <2>4, <2>6, <2>8, <3>1
        <3>2. CASE i # t
            <4>1. i \in 1..(t - 1)
                BY <2>8, <3>2
            <4> QED
                BY <2>1, <2>6, <4>1
        <3> QED
            BY <3>1, <3>2
    <2>10. RightScans(r, t) /\ r[t].offset = Len(h[t])
        BY <2>4, <2>6, <2>8, <2>9 DEF RightScans
    <2>11. ASSUME lag # 0 PROVE Passed(r, t, h)
        <3> DEFINE enc(i) == r[i].encoded_spectra
        <3>1. Passed(s, t - 1, h)
            BY <1>8, <2>11 DEF Good, s
        <3>2. /\ \A i \in 1..(t - 1) : enc(i) = s[i].encoded_spectra
              /\ enc(t) = x.encoded_spectra
            BY <2>6, <2>8
        <3> HIDE DEF enc
        <3>3. CASE \E i \in 1..(t - 1) : OpenBelow(s[i].encoded_spectra, Floor) # {}
            <4>1. PICK i \in 1..(t - 1) : OpenBelow(s[i].encoded_spectra, Floor) # {}
                BY <3>3
            <4>2. i \in 1..t /\ OpenBelow(enc(i), Floor) # {}
                BY <2>8, <3>2, <4>1
            <4> QED
                BY <4>2 DEF Passed, enc
        <3>4. CASE /\ \A i \in 1..(t - 1) : s[i].encoded_spectra = <<>>
                   /\ Filled(SamplesBuffer, Lead + Len(h[t - 1]))
            <4>1. Noticed(SamplesBuffer, enc(t), Lead + Len(h[t]))
                BY <2>4, <2>11, <3>2, <3>4 DEF Overdue
            <4>2. CASE OpenBelow(enc(t), Floor) # {}
                <5>1. t \in 1..t
                    BY <1>1 DEF n
                <5> QED
                    BY <4>2, <5>1 DEF Passed, enc
            <4>3. CASE enc(t) = <<>> /\ Filled(SamplesBuffer, Lead + Len(h[t]))
                <5>1. ASSUME NEW i \in 1..t PROVE enc(i) = <<>>
                    <6>1. i = t \/ i \in 1..(t - 1)
                        BY <2>8
                    <6> QED
                        BY <3>2, <3>4, <4>3, <6>1
                <5> QED
                    BY <4>3, <5>1 DEF Passed, enc
            <4> QED
                BY <4>1, <4>2, <4>3 DEF Noticed
        <3> QED
            BY <3>1, <3>3, <3>4 DEF Passed
    <2>12. Good(t)
        BY <2>7, <2>10, <2>11 DEF Good
    <2> QED
        BY <2>7, <2>12 DEF r, s
<1>9. Good(0)
    <2>1. RightScans(none, 0)
        BY <1>2 DEF RightScans, V
    <2>2. Passed(none, 0, h)
        <3> DEFINE m == Lead + Len(h[0])
        <3>1. h[0] = <<>> /\ Lead \in Nat
            BY <1>3, InputsAre, LeadIs DEF Joining
        <3>2. m = Lead
            BY <3>1
        <3>3. Filled(SamplesBuffer, m)
            BY <3>2, BufferIs
        <3>4. \A i \in 1..0 : FALSE
            OBVIOUS
        <3> QED
            BY <3>3, <3>4 DEF Passed
    <2> QED
        BY <1>7, <2>1, <2>2
<1> HIDE DEF Good
<1>10. \A t \in 0..n : Good(t)
    <2>1. 0 \in S
        BY <1>9
    <2>2. ASSUME NEW t \in Nat, t \in S PROVE t + 1 \in S
        <3>1. SUFFICES ASSUME t + 1 <= n PROVE Good(t + 1)
            OBVIOUS
        <3>2. t + 1 \in 1..n /\ (t + 1) - 1 = t /\ Good(t)
            BY <1>1, <2>2, <3>1
        <3> QED
            BY <1>8, <3>2
    <2> HIDE DEF S
    <2>3. Nat \subseteq S
        BY <2>1, <2>2, Induction
    <2> QED
        BY <1>1, <2>3 DEF S
<1>11. \A t \in 1..n : f[t] = Add(f[t - 1], t)
    <2>1. ASSUME NEW t \in 1..n PROVE f[t] = Add(f[t - 1], t)
        <3>1. t - 1 \in 0..n
            BY <1>1
        <3>2. Good(t - 1)
            BY <1>10, <3>1
        <3> QED
            BY <1>8, <3>2
    <2> QED
        BY <2>1
<1> DEFINE step(d) == [t \in 0..n |-> IF t = 0 THEN none ELSE Add(d[t - 1], t)]
           e == CHOOSE d : d = step(d)
<1>12. f = step(f)
    <2>1. ASSUME NEW t \in 0..n PROVE f[t] = step(f)[t]
        <3>1. CASE t = 0
            BY <1>7, <3>1
        <3>2. CASE t # 0
            <4>1. t \in 1..n
                BY <3>2
            <4> QED
                BY <1>11, <3>2, <4>1
        <3> QED
            BY <3>1, <3>2
    <2> QED
        BY <1>6, <2>1 DEF Solves
<1>13. e = step(e)
    BY <1>12
<1>14. Frame = e[n]
    BY <1>1 DEF Frame, process, none, Add
<1> HIDE DEF e
<1>15. e[n] = f[n]
    <2>1. e[0] = f[0]
        <3>1. 0 \in 0..n
            BY <1>1
        <3> QED
            BY <1>7, <1>13, <3>1
    <2>2. ASSUME NEW t \in 1..n, e[t - 1] = f[t - 1] PROVE e[t] = f[t]
        <3>1. t \in 0..n /\ t # 0
            OBVIOUS
        <3>2. e[t] = Add(e[t - 1], t)
            BY <1>13, <3>1
        <3> QED
            BY <1>11, <2>2, <3>2
    <2> HIDE DEF n
    <2> QED
        BY <1>1, <2>1, <2>2, SameRun
<1>16. Good(n)
    <2>1. n \in 0..n
        BY <1>1
    <2> QED
        BY <1>10, <2>1
<1>17. RightScans(f[n], n) /\ (lag # 0 => Passed(f[n], n, h))
    BY <1>16 DEF Good
<1>18. lag # 0 => Alarmed(f[n], n)
    BY <1>17 DEF Passed, Alarmed
<1> QED
    BY <1>14, <1>15, <1>17, <1>18

\* The scans of the frame, as the compressor takes them.
LEMMA ScansAre ==
    ASSUME Inputs, NEW t \in DOMAIN Frame
    PROVE  Frame[t].encoded_spectra \in Seq(Entries)
<1> DEFINE f == Frame
<1>1. f \in Seq(Scans)
    BY FrameIs DEF RightScans
<1>2. t \in DOMAIN f
    OBVIOUS
<1> HIDE DEF f
<1>3. f[t] \in Scans
    BY <1>1, <1>2, ElementOfSeq, LenProperties
<1>4. f[t].encoded_spectra \in Seq(Entries)
    BY <1>3 DEF Scans
<1> QED
    BY <1>4 DEF f

-----------------------------------------------------------------------------
(* The sum of a batch *)

\* The values of S at one bin.
At(S, x) == {b \in S : b[1] = x}

\* d, with the values of S added at their bins.
Added(d, size, S) == [i \in 1..size |-> d[i] + TotalOf(At(S, i - 1))]

\* The sum so far, of a batch that is not refused and has written nowhere else.
SumOf(index, size, d) ==
    [index |-> index, size |-> size, data |-> d, refused |-> FALSE, stray |-> FALSE]

\* A scan is added from the first bin on.
LEMMA Restarted ==
    ASSUME NEW index \in Int, NEW size \in Int, NEW d
    PROVE  [SumOf(index, size, d) EXCEPT !.index = 0] = SumOf(0, size, d)
<1> DEFINE new == SumOf(0, size, d)
           old == [SumOf(index, size, d) EXCEPT !.index = 0]
           F == {"index", "size", "data", "refused", "stray"}
<1>1. new = [x \in F |-> new[x]] /\ old = [x \in F |-> old[x]]
    BY DEF SumOf
<1>2. old.index = new.index /\ old.size = new.size /\ old.data = new.data
    BY DEF SumOf
<1>3. old.refused = new.refused /\ old.stray = new.stray
    BY DEF SumOf
<1> HIDE DEF new, old
<1>4. \A x \in F : old[x] = new[x]
    BY <1>2, <1>3
<1>5. old = new
    BY <1>1, <1>4
<1> QED
    BY <1>5 DEF new, old

\* A reader reads bin after bin.
Orderly(r) ==
    /\ r.read \in SUBSET (Nat \X Nat) /\ IsFiniteSet(r.read)
    /\ r.bin \in Nat /\ \A b \in r.read : b[1] < r.bin
    /\ \A b, c \in r.read : b[1] = c[1] => b = c

\* What an entry adds, at the bin where a reader of the scan is.
LEMMA EntrySums ==
    ASSUME NEW r \in Readers, Orderly(r), NEW size \in Nat, NEW d \in [1..size -> Nat],
           NEW v \in Int, v < 0 => r.bin - v < size, v >= 0 => r.bin < size
    PROVE  LET q == ReadEntry(r, v, FALSE)
           IN  /\ Orderly(q)
               /\ AddEntry(SumOf(r.bin, size, Added(d, size, r.read)), v)
                      = SumOf(q.bin, size, Added(d, size, q.read))
<1> DEFINE q == ReadEntry(r, v, FALSE)
           S == r.read
           bin == r.bin
           x == <<bin, v>>
           D == Added(d, size, S)
           acc == SumOf(bin, size, D)
<1>1. /\ S \in SUBSET (Nat \X Nat) /\ IsFiniteSet(S) /\ bin \in Nat /\ (\A b \in S : b[1] < bin)
      /\ \A b, c \in S : b[1] = c[1] => b = c
    BY DEF Orderly
<1>2. acc.index = bin /\ acc.size = size /\ acc.data = D /\ ~acc.refused /\ ~acc.stray
    BY DEF SumOf
<1>3. CASE v < 0
    <2>1. q = [r EXCEPT !.bin = bin - v, !.last = v]
        BY <1>3 DEF ReadEntry
    <2> HIDE DEF q
    <2>2. q.bin = bin - v /\ q.read = S
        BY <2>1 DEF Readers
    <2>3. bin - v \in Nat /\ bin < bin - v /\ ~(bin - v >= size)
        BY <1>1, <1>3
    <2>4. Orderly(q)
        <3>1. \A b \in S : b[1] < bin - v
            <4>1. ASSUME NEW b \in S PROVE b[1] < bin - v
                <5>1. b[1] < bin /\ b[1] \in Nat
                    BY <1>1
                <5> HIDE DEF S, bin
                <5> QED
                    BY <1>1, <2>3, <5>1
            <4> QED
                BY <4>1
        <3> HIDE DEF S, bin
        <3> QED
            BY <1>1, <2>2, <2>3, <3>1 DEF Orderly
    <2>5. AddEntry(acc, v) = SumOf(bin - v, size, D)
        <3>1. AddEntry(acc, v) = [acc EXCEPT !.index = acc.index - v,
                                             !.refused = acc.index - v >= acc.size]
            BY <1>2, <1>3 DEF AddEntry
        <3>2. (acc.index - v >= acc.size) = FALSE /\ acc.index - v = bin - v
            BY <1>2, <2>3
        <3> HIDE DEF D, bin
        <3> QED
            BY <3>1, <3>2 DEF SumOf
    <2> HIDE DEF acc, D, bin, S
    <2> QED
        BY <2>2, <2>4, <2>5 DEF acc, D, bin, S, q
<1>4. CASE ~(v < 0)
    <2>1. q = [bin |-> bin + 1, last |-> 0, read |-> S \cup {x}]
        BY <1>4 DEF ReadEntry
    <2> HIDE DEF q, S, bin
    <2>2. q.bin = bin + 1 /\ q.read = S \cup {x}
        BY <2>1
    <2>3. v \in Nat /\ bin + 1 \in 1..size /\ ~(bin >= size)
        BY <1>1, <1>4 DEF bin
    <2>4. x \in Nat \X Nat /\ x[1] = bin /\ x[2] = v
        BY <1>1, <2>3
    <2> HIDE DEF x
    <2>5. \A b \in S : b[1] # bin
        <3>1. ~(bin < bin)
            BY <1>1
        <3> QED
            BY <1>1, <3>1
    <2>6. Orderly(q)
        <3> DEFINE T == S \cup {x}
        <3>1. T \in SUBSET (Nat \X Nat) /\ IsFiniteSet(T)
            BY <1>1, <2>4, FS_AddElement
        <3>2. ASSUME NEW b \in T PROVE b[1] < bin + 1
            <4>1. b[1] \in Nat /\ (b[1] < bin \/ b[1] = bin)
                BY <1>1, <2>4
            <4> QED
                BY <1>1, <4>1
        <3>3. ASSUME NEW b \in T, NEW c \in T, b[1] = c[1] PROVE b = c
            BY <1>1, <2>4, <2>5, <3>3
        <3> HIDE DEF T
        <3>4. bin + 1 \in Nat
            BY <1>1
        <3> QED
            BY <2>2, <3>1, <3>2, <3>3, <3>4 DEF Orderly, T
    <2> DEFINE E == AddAt(D, bin, v)
    <2>7. AddEntry(acc, v) = SumOf(bin + 1, size, E)
        <3>1. AddEntry(acc, v) = [acc EXCEPT !.index = bin + 1, !.stray = FALSE, !.data = E]
            BY <1>2, <1>4, <2>3 DEF AddEntry
        <3> HIDE DEF D, E
        <3> QED
            BY <3>1 DEF SumOf
    <2>8. E = Added(d, size, S \cup {x})
        <3> DEFINE F == Added(d, size, S \cup {x})
        <3>1. ASSUME NEW i \in 1..size PROVE E[i] = F[i]
            <4>1. IsFiniteSet(At(S, i - 1)) /\ At(S, i - 1) \in SUBSET (Nat \X Nat)
                <5>1. At(S, i - 1) \in SUBSET S
                    BY DEF At
                <5> QED
                    BY <1>1, <5>1, FS_Subset
            <4>2. CASE i = bin + 1
                <5>1. i - 1 = bin
                    BY <1>1, <4>2
                <5>2. At(S, bin) = {} /\ At(S \cup {x}, bin) = {} \cup {x}
                    BY <2>4, <2>5 DEF At
                <5>3. {} \in SUBSET (Nat \X Nat) /\ IsFiniteSet({}) /\ x \notin {}
                    BY FS_EmptySet
                <5>4. TotalOf({}) = 0 /\ TotalOf({} \cup {x}) = TotalOf({}) + x[2]
                    BY <2>4, <5>3, TotalIs
                <5>5. D[i] = d[i] + 0 /\ F[i] = d[i] + v
                    <6>1. TotalOf({} \cup {x}) = v
                        BY <2>3, <2>4, <5>4
                    <6>2. /\ D[i] = d[i] + TotalOf(At(S, i - 1))
                          /\ F[i] = d[i] + TotalOf(At(S \cup {x}, i - 1))
                        BY DEF Added
                    <6> QED
                        BY <5>1, <5>2, <5>4, <6>1, <6>2
                <5>6. D \in [1..size -> {D[k] : k \in 1..size}]
                    BY DEF Added
                <5>7. E[i] = D[i] + v
                    <6> HIDE DEF D
                    <6> QED
                        BY <4>2, <5>6 DEF AddAt
                <5>8. d[i] \in Nat
                    OBVIOUS
                <5> HIDE DEF D, E, F
                <5> QED
                    BY <2>3, <5>5, <5>7, <5>8
            <4>3. CASE i # bin + 1
                <5>1. i - 1 # bin
                    BY <1>1, <4>3
                <5>2. At(S \cup {x}, i - 1) = At(S, i - 1)
                    BY <2>4, <5>1 DEF At
                <5>3. E[i] = D[i]
                    BY <4>3 DEF Added, AddAt
                <5> QED
                    BY <5>2, <5>3 DEF Added
            <4> QED
                BY <4>2, <4>3
        <3>2. E = [i \in 1..size |-> E[i]] /\ F = [i \in 1..size |-> F[i]]
            BY DEF Added, AddAt
        <3> HIDE DEF E, F
        <3>3. E = F
            BY <3>1, <3>2
        <3> QED
            BY <3>3 DEF F
    <2> HIDE DEF acc, D, E
    <2> QED
        BY <2>2, <2>6, <2>7, <2>8 DEF acc, D, bin, S, q
<1> QED
    BY <1>3, <1>4

\* A scan that ends in a value and does not reach past the vector is added at its bins.
LEMMA ScanSums ==
    ASSUME NEW s \in Seq(Int), EndsInValue(s), NEW size \in Nat, ReadTo(s, FALSE).bin <= size,
           NEW d \in [1..size -> Nat], NEW index \in Nat
    PROVE  LET r == ReadTo(s, FALSE)
           IN  /\ Orderly(r)
               /\ SumScan(SumOf(index, size, d), s) = SumOf(r.bin, size, Added(d, size, r.read))
<1> DEFINE n == Len(s)
           r == ReadTo(s, FALSE)
<1>1. n \in Nat /\ \A k \in 1..n : s[k] \in Int
    BY ElementOfSeq, LenProperties
<1>2. PICK g : Reading(g, s, FALSE)
    BY ReadingIs
<1>3. /\ g[0] = NothingRead /\ g[n] = r
      /\ \A k \in 0..n : g[k] \in Readers
      /\ \A k \in 1..n : g[k] = ReadEntry(g[k - 1], s[k], FALSE)
    BY <1>2 DEF Reading
<1> HIDE DEF n, r
<1>4. \A k \in 0..n : g[k].bin \in Int
    BY <1>3 DEF Readers
<1>5. \A k \in 1..n : /\ s[k] < 0 => g[k].bin = g[k - 1].bin - s[k]
                      /\ ~(s[k] < 0) => g[k].bin = g[k - 1].bin + 1
    <2>1. ASSUME NEW k \in 1..n
          PROVE  /\ s[k] < 0 => g[k].bin = g[k - 1].bin - s[k]
                 /\ ~(s[k] < 0) => g[k].bin = g[k - 1].bin + 1
        <3>1. k - 1 \in 0..n
            BY <1>1
        <3>2. g[k - 1] \in Readers /\ g[k] = ReadEntry(g[k - 1], s[k], FALSE)
            BY <1>3, <3>1
        <3> QED
            BY <3>2 DEF ReadEntry, Readers
    <2> QED
        BY <2>1
\* The bins of a reading go up.
<1>6. \A k \in 1..n : g[k - 1].bin < g[k].bin
    <2>1. ASSUME NEW k \in 1..n PROVE g[k - 1].bin < g[k].bin
        <3> DEFINE b == g[k - 1].bin
                   c == g[k].bin
                   v == s[k]
        <3>1. k - 1 \in 0..n /\ k \in 0..n
            BY <1>1
        <3>2. b \in Int /\ c \in Int /\ v \in Int
            BY <1>1, <1>4, <3>1
        <3>3. (v < 0 => c = b - v) /\ (~(v < 0) => c = b + 1)
            BY <1>5
        <3> HIDE DEF b, c, v
        <3>4. b < c
            BY <3>2, <3>3
        <3> QED
            BY <3>4 DEF b, c
    <2> QED
        BY <2>1
<1>7. \A k \in 0..n : g[k].bin <= size - (n - k)
    <2> DEFINE S == {m \in Nat : m <= n => g[n - m].bin <= size - m}
    <2>1. 0 \in S
        <3>1. n - 0 = n /\ size - 0 = size
            BY <1>1
        <3>2. g[n].bin <= size
            BY <1>3 DEF r
        <3> QED
            BY <3>1, <3>2
    <2>2. ASSUME NEW m \in Nat, m \in S PROVE m + 1 \in S
        <3>1. SUFFICES ASSUME m + 1 <= n PROVE g[n - (m + 1)].bin <= size - (m + 1)
            OBVIOUS
        <3> DEFINE k == n - m
                   b == g[k - 1].bin
                   c == g[k].bin
        <3>2. k \in 1..n /\ n - (m + 1) = k - 1 /\ k \in 0..n /\ k - 1 \in 0..n
            BY <1>1, <3>1
        <3>3. c <= size - m
            <4>1. m <= n
                BY <1>1, <3>1
            <4> QED
                BY <2>2, <4>1
        <3> HIDE DEF k
        <3>4. b < c /\ b \in Int /\ c \in Int
            BY <1>4, <1>6, <3>2
        <3> HIDE DEF b, c
        <3>5. b <= size - (m + 1)
            BY <3>3, <3>4
        <3> QED
            BY <3>2, <3>5 DEF b
    <2> HIDE DEF S
    <2>3. Nat \subseteq S
        BY <2>1, <2>2, Induction
    <2>4. ASSUME NEW k \in 0..n PROVE g[k].bin <= size - (n - k)
        <3> DEFINE m == n - k
        <3>1. m \in Nat /\ m <= n /\ n - m = k
            BY <1>1
        <3> HIDE DEF m
        <3>2. m \in S
            BY <2>3, <3>1
        <3>3. g[k].bin <= size - m
            BY <3>1, <3>2 DEF S
        <3> QED
            BY <3>3 DEF m
    <2> QED
        BY <2>4
<1> DEFINE f == [k \in 0..n |-> SumOf(g[k].bin, size, Added(d, size, g[k].read))]
           start == [SumOf(index, size, d) EXCEPT !.index = 0]
           Good(k) == Orderly(g[k])
           S == {k \in Nat : k <= n => Good(k)}
<1>8. ASSUME NEW k \in 1..n, Good(k - 1)
      PROVE  Good(k) /\ f[k] = AddEntry(f[k - 1], s[k])
    <2> DEFINE p == g[k - 1]
               v == s[k]
    <2>1. k - 1 \in 0..n /\ k \in 0..n
        BY <1>1
    <2>2. p \in Readers /\ Orderly(p) /\ v \in Int /\ g[k] = ReadEntry(p, v, FALSE)
        BY <1>1, <1>3, <1>8, <2>1
    <2>3. /\ p.bin \in Int /\ p.bin <= size - (n - (k - 1))
          /\ g[k].bin \in Int /\ g[k].bin <= size - (n - k)
        BY <1>4, <1>7, <2>1
    <2>4. v < 0 => p.bin - v < size
        <3>1. SUFFICES ASSUME v < 0 PROVE p.bin - v < size
            OBVIOUS
        <3>2. k # n
            <4>1. s # <<>>
                BY <1>1 DEF n
            <4>2. s[n] >= 0
                BY <4>1 DEF EndsInValue, n
            <4>3. k \in Int /\ n \in Int /\ s[n] \in Int
                <5>1. n \in 1..n
                    BY <1>1
                <5> QED
                    BY <1>1, <5>1
            <4> QED
                BY <3>1, <4>2, <4>3
        <3>3. g[k].bin = p.bin - v
            BY <1>5, <3>1
        <3> DEFINE c == g[k].bin
        <3>4. c \in Int /\ c <= size - (n - k) /\ n - k >= 1 /\ n - k \in Int
            BY <1>1, <2>3, <3>2
        <3> HIDE DEF c
        <3>5. c < size
            BY <3>4
        <3> QED
            BY <3>3, <3>5 DEF c
    <2>5. p.bin < size
        <3> DEFINE b == p.bin
        <3>1. b \in Int /\ b <= size - (n - (k - 1)) /\ n - (k - 1) \in Int /\ n - (k - 1) >= 1
            BY <1>1, <2>3
        <3> HIDE DEF b
        <3>2. b < size
            BY <3>1
        <3> QED
            BY <3>2 DEF b
    <2> HIDE DEF p, v, f
    <2>6. /\ Orderly(g[k])
          /\ AddEntry(SumOf(p.bin, size, Added(d, size, p.read)), v)
                 = SumOf(g[k].bin, size, Added(d, size, g[k].read))
        BY <2>2, <2>4, <2>5, EntrySums
    <2>7. /\ f[k] = SumOf(g[k].bin, size, Added(d, size, g[k].read))
          /\ f[k - 1] = SumOf(p.bin, size, Added(d, size, p.read))
        BY <2>1 DEF f, p
    <2> QED
        BY <2>6, <2>7 DEF v
<1>9. Good(0) /\ f[0] = start
    <2>1. g[0].read = {} /\ g[0].bin = 0
        BY <1>3 DEF NothingRead
    <2>2. Orderly(g[0])
        BY <2>1, FS_EmptySet DEF Orderly
    <2>3. \A x : At({}, x) = {}
        BY DEF At
    <2>4. TotalOf({}) = 0
        <3>1. {} \in SUBSET (Nat \X Nat) /\ IsFiniteSet({})
            BY FS_EmptySet
        <3> QED
            BY <3>1, TotalIs
    <2>5. Added(d, size, {}) = d
        <3>1. \A i \in 1..size : d[i] + 0 = d[i]
            <4>1. ASSUME NEW i \in 1..size PROVE d[i] + 0 = d[i]
                <5>1. d[i] \in Nat
                    OBVIOUS
                <5> QED
                    BY <5>1
            <4> QED
                BY <4>1
        <3>2. \A i \in 1..size : d[i] + TotalOf(At({}, i - 1)) = d[i]
            BY <2>3, <2>4, <3>1
        <3> QED
            BY <3>2 DEF Added
    <2>6. 0 \in 0..n
        BY <1>1
    <2>7. f[0] = SumOf(0, size, d)
        BY <2>1, <2>5, <2>6
    <2>8. start = SumOf(0, size, d)
        <3>1. index \in Int /\ size \in Int
            OBVIOUS
        <3> QED
            BY <3>1, Restarted DEF start
    <2> QED
        BY <2>2, <2>7, <2>8
<1> HIDE DEF f, start
<1>10. \A k \in 0..n : Good(k)
    <2>1. 0 \in S
        BY <1>9
    <2>2. ASSUME NEW k \in Nat, k \in S PROVE k + 1 \in S
        <3>1. SUFFICES ASSUME k + 1 <= n PROVE Good(k + 1)
            OBVIOUS
        <3>2. k + 1 \in 1..n /\ (k + 1) - 1 = k /\ Good(k)
            BY <1>1, <2>2, <3>1
        <3> HIDE DEF Good
        <3> QED
            BY <1>8, <3>2
    <2> HIDE DEF S, Good
    <2>3. Nat \subseteq S
        BY <2>1, <2>2, Induction
    <2> QED
        BY <1>1, <2>3 DEF S
<1>11. \A k \in 1..n : f[k] = AddEntry(f[k - 1], s[k])
    <2>1. ASSUME NEW k \in 1..n PROVE f[k] = AddEntry(f[k - 1], s[k])
        <3>1. k - 1 \in 0..n
            BY <1>1
        <3>2. Good(k - 1)
            BY <1>10, <3>1
        <3> HIDE DEF Good
        <3> QED
            BY <1>8, <3>2
    <2> QED
        BY <2>1
<1> DEFINE step(h) == [k \in 0..n |-> IF k = 0 THEN start ELSE AddEntry(h[k - 1], s[k])]
           e == CHOOSE h : h = step(h)
<1>12. f = step(f)
    <2>1. ASSUME NEW k \in 0..n PROVE f[k] = step(f)[k]
        <3>1. CASE k = 0
            BY <1>9, <3>1
        <3>2. CASE k # 0
            <4>1. k \in 1..n
                BY <1>1, <3>2
            <4> QED
                BY <1>11, <3>2, <4>1
        <3> QED
            BY <3>1, <3>2
    <2>2. f = [k \in 0..n |-> f[k]]
        BY DEF f
    <2> QED
        BY <2>1, <2>2
<1>13. e = step(e)
    BY <1>12
<1>14. SumScan(SumOf(index, size, d), s) = e[n]
    BY DEF SumScan, start, n
<1> HIDE DEF e
<1>15. e[n] = f[n]
    <2>1. e[0] = f[0]
        <3>1. 0 \in 0..n
            BY <1>1
        <3> QED
            BY <1>9, <1>13, <3>1
    <2>2. ASSUME NEW k \in 1..n, e[k - 1] = f[k - 1] PROVE e[k] = f[k]
        <3>1. k \in 0..n /\ k # 0
            BY <1>1
        <3>2. e[k] = AddEntry(e[k - 1], s[k])
            BY <1>13, <3>1
        <3> QED
            BY <1>11, <2>2, <3>2
    <2> QED
        BY <1>1, <2>1, <2>2, SameRun
<1>16. n \in 0..n
    BY <1>1
<1>17. Orderly(r) /\ f[n] = SumOf(r.bin, size, Added(d, size, r.read))
    BY <1>3, <1>10, <1>16 DEF f
<1> QED
    BY <1>14, <1>15, <1>17 DEF r

-----------------------------------------------------------------------------
\* A reading that ends in a value ends behind its bin.
LEMMA LastBin ==
    ASSUME NEW s \in Seq(Int), EndsInValue(s)
    PROVE  LET r == ReadTo(s, FALSE) IN r.bin = 0 \/ \E b \in r.read : r.bin = b[1] + 1
<1> DEFINE n == Len(s)
           r == ReadTo(s, FALSE)
<1>1. n \in Nat /\ \A k \in 1..n : s[k] \in Int
    BY ElementOfSeq, LenProperties
<1>2. PICK g : Reading(g, s, FALSE)
    BY ReadingIs
<1>3. /\ g[0] = NothingRead /\ g[n] = r
      /\ \A k \in 1..n : g[k] = ReadEntry(g[k - 1], s[k], FALSE)
    BY <1>2 DEF Reading
<1>4. CASE n = 0
    <2>1. r = NothingRead
        BY <1>3, <1>4
    <2> HIDE DEF r
    <2>2. r.bin = 0
        BY <2>1 DEF NothingRead
    <2> QED
        BY <2>2 DEF r
<1>5. CASE n # 0
    <2> DEFINE p == g[n - 1]
               v == s[n]
    <2>1. n \in 1..n /\ s # <<>>
        BY <1>1, <1>5
    <2>2. v >= 0 /\ v \in Int
        BY <1>1, <2>1 DEF EndsInValue
    <2>3. r = ReadEntry(p, v, FALSE)
        BY <1>3, <2>1
    <2> HIDE DEF p, v, r
    <2>4. ~(v < 0)
        BY <2>2
    <2>5. r = [bin |-> p.bin + 1, last |-> 0, read |-> p.read \cup {<<p.bin, v>>}]
        BY <2>3, <2>4 DEF ReadEntry
    <2>6. <<p.bin, v>> \in r.read /\ r.bin = <<p.bin, v>>[1] + 1
        BY <2>5
    <2> QED
        BY <2>6 DEF r
<1> QED
    BY <1>4, <1>5

\* The vector of the sum, and what a bin of it has of each trigger.
Size == record_size + post_trigger_samples
AtBin(i) == [t \in DOMAIN batch |-> TotalOf(At(Seen(t), i - 1))]
Data(n) == [i \in 1..Size |-> SumOver(AtBin(i), 1..n)]

\* The sum of a batch in step whose gates lie within the vector.
Fitting ==
    /\ lag = 0 /\ offset_bins <= post_trigger_samples
    /\ \A t \in DOMAIN batch : Ordinary(t)

\* A scan of such a batch: what it adds, and that it ends within the vector.
LEMMA ScanFits ==
    ASSUME Inputs, Fitting, NEW t \in 1..Len(batch)
    PROVE  LET s == Frame[t].encoded_spectra
               r == ReadTo(s, FALSE)
           IN  /\ s \in Seq(Int) /\ EndsInValue(s) /\ r.read = Seen(t) /\ r.bin <= Size
<1> DEFINE s == Frame[t].encoded_spectra
           r == ReadTo(s, FALSE)
           u == batch[t]
<1>1. Right(t, Frame[t]) /\ t \in DOMAIN Frame /\ t \in DOMAIN batch /\ Size \in Nat
    <2>1. RightScans(Frame, Len(batch)) /\ DOMAIN batch = 1..Len(batch)
        BY FrameIs, InputsAre
    <2>2. DOMAIN Frame = 1..Len(batch)
        BY <2>1, LenProperties DEF RightScans
    <2> QED
        BY <2>1, <2>2, CodecAssumption DEF RightScans, Size
<1>2. s \in Seq(Int)
    <2>1. s \in Seq(Entries)
        BY <1>1, ScansAre
    <2>2. Entries \subseteq Int
        BY DEF Entries
    <2> HIDE DEF s
    <2> QED
        BY <2>1, <2>2, SeqMonotonic
<1>3. EndsInValue(s) /\ r.read = Seen(t)
    BY <1>1 DEF Right, Fitting
<1>4. ASSUME NEW b \in Seen(t) PROVE b[1] \in Int /\ b[1] + 1 <= Size
    <2> DEFINE x(j, k) == <<offset_bins + u[j].start + k - 1,
                            u[j].samples[k] + range_shift_constant>>
    <2>1. PICK j \in DOMAIN u : \E k \in DOMAIN u[j].samples : b = x(j, k)
        BY DEF Seen
    <2>2. PICK k \in DOMAIN u[j].samples : b = x(j, k)
        BY <2>1
    <2> DEFINE start == u[j].start
               samples == u[j].samples
    <2>3. u \in Gates /\ offset_bins \in Nat /\ offset_bins <= post_trigger_samples
        BY <1>1, InputsAre DEF Fitting
    <2>4. start \in Nat /\ samples \in Seq(Codes)
        BY <2>2, <2>3, GatesAre
    <2>5. k \in 1..Len(samples) /\ Len(samples) \in Nat
        BY <2>2, <2>4, LenProperties
    <2>6. samples # <<>>
        BY <2>5
    <2>7. start + Len(samples) <= record_size
        BY <1>1, <2>2, <2>6, RecordAssumption DEF Inputs
    <2>8. b[1] = offset_bins + start + k - 1
        BY <2>2
    <2> HIDE DEF start, samples
    <2>9. record_size \in Nat /\ post_trigger_samples \in Nat
        BY CodecAssumption
    <2> QED
        BY <2>3, <2>4, <2>5, <2>7, <2>8, <2>9 DEF Size
<1> HIDE DEF s, r
<1>5. r.bin = 0 \/ \E b \in r.read : r.bin = b[1] + 1
    BY <1>2, <1>3, LastBin DEF r
<1>6. r.bin <= Size
    <2>1. CASE r.bin = 0
        BY <1>1, <2>1
    <2>2. ASSUME NEW b \in r.read, r.bin = b[1] + 1 PROVE r.bin <= Size
        BY <1>3, <1>4, <2>2
    <2> QED
        BY <1>5, <2>1, <2>2
<1> QED
    BY <1>2, <1>3, <1>6 DEF s, r

\* Sums up to trigger t, from those up to the one before.
LEMMA DataGrows ==
    ASSUME Inputs, Fitting, NEW t \in 1..Len(batch)
    PROVE  /\ Data(t - 1) \in [1..Size -> Nat]
           /\ Data(t) = Added(Data(t - 1), Size, Seen(t))
<1>1. Len(batch) \in Nat /\ DOMAIN batch = 1..Len(batch)
    BY InputsAre
<1>2. ASSUME NEW i \in 1..Size, NEW k \in 1..Len(batch) PROVE AtBin(i)[k] \in Nat
    <2> DEFINE S == Seen(k)
    <2>1. S \in SUBSET (Nat \X Nat) /\ IsFiniteSet(S)
        <3>1. Right(k, Frame[k]) /\ ReadTo(Frame[k].encoded_spectra, FALSE).read = S
            BY FrameIs, ScanFits DEF RightScans
        <3> QED
            BY <3>1 DEF Right, Columns
    <2> HIDE DEF S
    <2>2. At(S, i - 1) \in SUBSET S
        BY DEF At
    <2>3. At(S, i - 1) \in SUBSET (Nat \X Nat) /\ IsFiniteSet(At(S, i - 1))
        BY <2>1, <2>2, FS_Subset
    <2>4. TotalOf(At(S, i - 1)) \in Nat
        BY <2>3, TotalIs
    <2> QED
        BY <1>1, <2>4 DEF AtBin, S
<1>3. ASSUME NEW i \in 1..Size PROVE SumOver(AtBin(i), 1..(t - 1)) \in Nat
    <2> DEFINE T == 1..(t - 1)
    <2>1. IsFiniteSet(T)
        BY <1>1, FS_Interval
    <2>2. T \subseteq 1..Len(batch)
        BY <1>1
    <2>3. \A k \in T : AtBin(i)[k] \in Nat
        BY <1>2, <2>2
    <2> HIDE DEF T
    <2> QED
        BY <2>1, <2>3, SumIs DEF T
<1>4. ASSUME NEW i \in 1..Size
      PROVE  SumOver(AtBin(i), 1..t) = SumOver(AtBin(i), 1..(t - 1)) + TotalOf(At(Seen(t), i - 1))
    <2> DEFINE T == 1..(t - 1)
               f == AtBin(i)
    <2>1. 1..t = T \cup {t} /\ t \notin T /\ T \cup {t} \subseteq 1..Len(batch)
        BY <1>1
    <2>2. IsFiniteSet(T)
        BY <1>1, FS_Interval
    <2>3. \A k \in T \cup {t} : f[k] \in Nat
        BY <1>2, <2>1
    <2>4. f[t] = TotalOf(At(Seen(t), i - 1))
        BY <1>1 DEF AtBin
    <2> HIDE DEF T, f
    <2>5. SumOver(f, T \cup {t}) = SumOver(f, T) + f[t]
        BY <2>1, <2>2, <2>3, SumMore
    <2> QED
        BY <2>1, <2>4, <2>5 DEF f, T
<1>5. Data(t - 1) \in [1..Size -> Nat]
    BY <1>3 DEF Data
<1>6. \A i \in 1..Size : Data(t - 1)[i] = SumOver(AtBin(i), 1..(t - 1))
    BY DEF Data
<1> QED
    BY <1>4, <1>5, <1>6 DEF Data, Added

\* ZmqAcquiredDataSubscriber::on_notify adds the scans up, by induction over them.
LEMMA BatchSums ==
    ASSUME Inputs, Fitting
    PROVE  \E index : SumBatch(Frame, Size) = SumOf(index, Size, Data(Len(batch)))
<1> DEFINE n == Len(batch)
           s(t) == Frame[t].encoded_spectra
           bin(t) == IF t = 0 THEN 0 ELSE ReadTo(s(t), FALSE).bin
           f == [t \in 0..n |-> SumOf(bin(t), Size, Data(t))]
           zero == [index |-> 0, size |-> Size, data |-> [i \in 1..Size |-> 0],
                    refused |-> FALSE, stray |-> FALSE]
           step(h) == [t \in 0..Len(Frame) |->
                          IF t = 0 THEN zero ELSE SumScan(h[t - 1], s(t))]
           e == CHOOSE h : h = step(h)
<1>1. n \in Nat /\ Len(Frame) = n /\ Size \in Nat
    <2>1. RightScans(Frame, n)
        BY FrameIs
    <2> QED
        BY <2>1, InputsAre, CodecAssumption DEF RightScans, Size
<1>2. \A t \in 1..n : bin(t) \in Nat
    <2>1. ASSUME NEW t \in 1..n PROVE bin(t) \in Nat
        <3> DEFINE size == Size
                   d == Data(t - 1)
        <3>1. s(t) \in Seq(Int) /\ EndsInValue(s(t)) /\ ReadTo(s(t), FALSE).bin <= size
            BY ScanFits
        <3>2. size \in Nat /\ d \in [1..size -> Nat] /\ 0 \in Nat
            BY <1>1, DataGrows
        <3> HIDE DEF s, size, d
        <3>3. Orderly(ReadTo(s(t), FALSE))
            BY <3>1, <3>2, ScanSums
        <3> QED
            BY <3>3 DEF Orderly
    <2> QED
        BY <2>1
<1>3. \A t \in 0..n : bin(t) \in Nat
    <2>1. ASSUME NEW t \in 0..n PROVE bin(t) \in Nat
        <3>1. CASE t = 0
            BY <3>1
        <3>2. CASE t # 0
            <4>1. t \in 1..n
                BY <1>1, <3>2
            <4> HIDE DEF bin
            <4> QED
                BY <1>2, <4>1
        <3> QED
            BY <3>1, <3>2
    <2> QED
        BY <2>1
<1>4. ASSUME NEW t \in 1..n PROVE f[t] = SumScan(f[t - 1], s(t))
    <2> DEFINE size == Size
               d == Data(t - 1)
               index == bin(t - 1)
               r == ReadTo(s(t), FALSE)
    <2>1. s(t) \in Seq(Int) /\ EndsInValue(s(t)) /\ r.read = Seen(t) /\ r.bin <= size
        BY ScanFits
    <2>2. size \in Nat /\ d \in [1..size -> Nat] /\ Data(t) = Added(d, size, Seen(t))
        BY <1>1, DataGrows
    <2>3. t - 1 \in 0..n /\ t \in 0..n /\ t # 0
        BY <1>1
    <2>4. index \in Nat
        BY <1>3, <2>3
    <2>5. bin(t) = r.bin
        BY <2>3
    <2>6. f[t - 1] = SumOf(index, size, d) /\ f[t] = SumOf(bin(t), size, Data(t))
        BY <2>3
    <2> HIDE DEF s, size, d, index, f, bin
    <2>7. SumScan(SumOf(index, size, d), s(t)) = SumOf(r.bin, size, Added(d, size, r.read))
        BY <2>1, <2>2, <2>4, ScanSums
    <2> QED
        BY <2>1, <2>2, <2>5, <2>6, <2>7
<1>5. f[0] = zero
    <2>1. Data(0) = [i \in 1..Size |-> 0]
        <3>1. 1..0 = {}
            OBVIOUS
        <3>2. \A i \in 1..Size : SumOver(AtBin(i), 1..0) = 0
            BY <3>1, SumOfNone
        <3> QED
            BY <3>2 DEF Data
    <2>2. 0 \in 0..n
        BY <1>1
    <2>3. f[0] = SumOf(0, Size, Data(0))
        BY <2>2
    <2> QED
        BY <2>1, <2>3 DEF SumOf
<1>6. f = step(f)
    <2>1. ASSUME NEW t \in 0..n PROVE f[t] = step(f)[t]
        <3> HIDE DEF f, zero, s
        <3>1. CASE t = 0
            BY <1>1, <1>5, <3>1
        <3>2. CASE t # 0
            <4>1. t \in 1..n
                BY <1>1, <3>2
            <4> QED
                BY <1>1, <1>4, <3>2, <4>1
        <3> QED
            BY <3>1, <3>2
    <2>2. f = [t \in 0..n |-> f[t]]
        OBVIOUS
    <2> HIDE DEF f
    <2> QED
        BY <1>1, <2>1, <2>2
<1> HIDE DEF f
<1>7. e = step(e)
    BY <1>6
<1>8. SumBatch(Frame, Size) = e[Len(Frame)]
    BY DEF SumBatch
<1> HIDE DEF e
<1>9. e[n] = f[n]
    <2>1. e[0] = f[0]
        <3>1. 0 \in 0..Len(Frame)
            BY <1>1
        <3> HIDE DEF zero
        <3> QED
            BY <1>5, <1>7, <3>1
    <2>2. ASSUME NEW t \in 1..n, e[t - 1] = f[t - 1] PROVE e[t] = f[t]
        <3>1. t \in 0..Len(Frame) /\ t # 0
            BY <1>1
        <3> HIDE DEF zero, s
        <3>2. e[t] = SumScan(e[t - 1], s(t))
            BY <1>7, <3>1
        <3> QED
            BY <1>4, <2>2, <3>2
    <2> QED
        BY <1>1, <2>1, <2>2, SameRun
<1>10. n \in 0..n
    BY <1>1
<1>11. f[n] = SumOf(bin(n), Size, Data(n))
    BY <1>10 DEF f
<1> QED
    BY <1>1, <1>8, <1>9, <1>11

\* Numbers that are at most m each.
LEMMA SumBelow ==
    ASSUME NEW n \in Nat, NEW m \in Nat, NEW f, \A t \in 1..n : f[t] \in 0..m
    PROVE  SumOver(f, 1..n) \in 0..(n * m)
<1> DEFINE S == {k \in Nat : k <= n => SumOver(f, 1..k) \in 0..(k * m)}
<1>1. 0 \in S
    <2>1. 1..0 = {} /\ 0 * m = 0
        OBVIOUS
    <2> QED
        BY <2>1, SumOfNone
<1>2. ASSUME NEW k \in Nat, k \in S PROVE k + 1 \in S
    <2>1. SUFFICES ASSUME k + 1 <= n PROVE SumOver(f, 1..(k + 1)) \in 0..((k + 1) * m)
        OBVIOUS
    <2> DEFINE T == 1..k
               j == k + 1
    <2>2. 1..j = T \cup {j} /\ j \notin T /\ T \cup {j} \subseteq 1..n
        BY <2>1
    <2>3. IsFiniteSet(T)
        BY FS_Interval
    <2>4. \A y \in T \cup {j} : f[y] \in 0..m
        BY <2>2
    <2>5. \A y \in T \cup {j} : f[y] \in Nat
        BY <2>4
    <2>6. SumOver(f, T) \in 0..(k * m)
        BY <1>2, <2>1
    <2>7. k * m \in Nat /\ j * m = k * m + m
        OBVIOUS
    <2> HIDE DEF T, j
    <2>8. SumOver(f, T \cup {j}) = SumOver(f, T) + f[j]
        BY <2>2, <2>3, <2>5, SumMore
    <2>9. f[j] \in 0..m
        BY <2>4
    <2> DEFINE a == k * m
               b == SumOver(f, T)
    <2> HIDE DEF a, b
    <2>10. b + f[j] \in 0..(a + m)
        BY <2>6, <2>7, <2>9 DEF a, b
    <2>11. SumOver(f, 1..j) \in 0..(j * m)
        BY <2>2, <2>7, <2>8, <2>10 DEF a, b
    <2> QED
        BY <2>11 DEF j
<1> HIDE DEF S
<1>3. n \in S
    BY <1>1, <1>2, Induction
<1> QED
    BY <1>3 DEF S

\* A trigger has one value at a bin, if any, and that is a shifted sample.
LEMMA BinFits ==
    ASSUME Inputs, Fitting, NEW t \in 1..Len(batch), NEW i \in 1..Size
    PROVE  AtBin(i)[t] \in 0..(Width - 1)
<1> DEFINE S == Seen(t)
           A == At(S, i - 1)
           u == batch[t]
<1>1. t \in DOMAIN batch /\ u \in Gates /\ Len(batch) \in Nat
    BY InputsAre
<1>2. Orderly(ReadTo(Frame[t].encoded_spectra, FALSE))
    <2> DEFINE s == Frame[t].encoded_spectra
               size == Size
               d == Data(t - 1)
    <2>1. s \in Seq(Int) /\ EndsInValue(s) /\ ReadTo(s, FALSE).bin <= size
        BY ScanFits
    <2>2. size \in Nat /\ d \in [1..size -> Nat] /\ 0 \in Nat
        BY CodecAssumption, DataGrows DEF Size
    <2> HIDE DEF s, size, d
    <2>3. Orderly(ReadTo(s, FALSE))
        BY <2>1, <2>2, ScanSums
    <2> QED
        BY <2>3 DEF s
<1>3. /\ S \in SUBSET (Nat \X Nat)
      /\ \A b, c \in S : b[1] = c[1] => b = c
    BY <1>2, ScanFits DEF Orderly
<1>4. ASSUME NEW b \in S PROVE b[2] \in 0..(Width - 1)
    <2> DEFINE x(j, k) == <<offset_bins + u[j].start + k - 1,
                            u[j].samples[k] + range_shift_constant>>
    <2>1. PICK j \in DOMAIN u : \E k \in DOMAIN u[j].samples : b = x(j, k)
        BY DEF Seen
    <2>2. PICK k \in DOMAIN u[j].samples : b = x(j, k)
        BY <2>1
    <2> DEFINE samples == u[j].samples
    <2>3. samples \in Seq(Codes)
        BY <1>1, <2>1, GatesAre
    <2>4. samples[k] \in Codes
        BY <2>2, <2>3, ElementOfSeq, LenProperties
    <2>5. b[2] = samples[k] + range_shift_constant
        BY <2>2
    <2> HIDE DEF samples
    <2> QED
        BY <2>4, <2>5, Widths
<1> HIDE DEF S
<1>5. A \subseteq S /\ \A b, c \in A : b = c
    BY <1>3 DEF At
<1> HIDE DEF A
<1>6. {} \in SUBSET (Nat \X Nat) /\ IsFiniteSet({})
    BY FS_EmptySet
<1>7. CASE A = {}
    <2>1. TotalOf(A) = 0
        BY <1>6, <1>7, TotalIs
    <2> QED
        BY <1>1, <2>1, Widths DEF AtBin, A, S
<1>8. CASE A # {}
    <2>1. PICK b \in A : TRUE
        BY <1>8
    <2>2. A = {} \cup {b} /\ b \notin {} /\ b \in S /\ b \in Nat \X Nat
        BY <1>3, <1>5, <2>1
    <2>3. TotalOf({} \cup {b}) = TotalOf({}) + b[2] /\ TotalOf({}) = 0
        BY <1>6, <2>2, TotalIs
    <2>4. b[2] \in 0..(Width - 1) /\ Width \in Nat
        BY <1>4, <2>2, Widths
    <2>5. TotalOf(A) = b[2]
        <3>1. 0 + b[2] = b[2]
            BY <2>4
        <3> QED
            BY <2>2, <2>3, <3>1
    <2> QED
        BY <1>1, <2>4, <2>5 DEF AtBin, A, S
<1> QED
    BY <1>7, <1>8

\* The sum of a batch fits the message.
LEMMA DataFits ==
    ASSUME Inputs, Fitting, NEW i \in 1..Size
    PROVE  Data(Len(batch))[i] \in 0..(2^(Bits32 - 1) - 1)
<1> DEFINE n == Len(batch)
           x == Data(n)[i]
           most == 2^(Bits32 - 1)
<1>1. n \in Nat /\ Width \in Nat /\ Width > 0 /\ n * Width < most /\ most \in Nat
    <2>1. Width \in Nat /\ Width > 0
        BY Widths
    <2>2. n * Width < most /\ most \in Nat
        BY SumAssumption DEF Inputs, Width
    <2> QED
        BY <2>1, <2>2, InputsAre
<1>2. x = SumOver(AtBin(i), 1..n)
    BY DEF Data
<1>3. \A t \in 1..n : AtBin(i)[t] \in 0..(Width - 1)
    BY BinFits
<1> HIDE DEF n, x, most
<1>4. x \in 0..(n * (Width - 1))
    <2>1. Width - 1 \in Nat
        BY <1>1
    <2> QED
        BY <1>1, <1>2, <1>3, <2>1, SumBelow
<1>5. n * (Width - 1) <= n * Width /\ n * (Width - 1) \in Int /\ n * Width \in Int
    <2>1. n * (Width - 1) = n * Width - n /\ n * Width \in Int
        BY <1>1
    <2> QED
        BY <1>1, <2>1
<1>6. x \in 0..(most - 1)
    <2> DEFINE a == n * (Width - 1)
               b == n * Width
    <2>1. a <= b /\ a \in Int /\ b \in Int /\ b < most /\ x \in 0..a
        BY <1>1, <1>4, <1>5
    <2> HIDE DEF a, b
    <2> QED
        BY <1>1, <2>1
<1> QED
    BY <1>6 DEF x, n, most

-----------------------------------------------------------------------------
(* The message of a sum *)

\* One field off the wire, none after a bad one.
ReadOne(r, e) ==
    IF ~r.ok \/ e.type = "bad" THEN [message |-> r.message, ok |-> FALSE]
    ELSE [message |-> ParseField(MessageFields, r.message, e), ok |-> TRUE]

\* The parser at a message of these values.
Parsed(v) == [message |-> [value |-> v, unknown |-> <<>>], ok |-> TRUE]

Nothing == <<<<>>, <<>>, <<>>>>

\* The parser comes to these values over the wire.
ReadsAs(wire, v) ==
    \E h : /\ h[0] = Parsed(Nothing)
           /\ \A k \in 1..Len(wire) : h[k] = ReadOne(h[k - 1], wire[k])
           /\ h[Len(wire)] = Parsed(v)

\* The parser begins at an empty message.
LEMMA ClearIs == MessageClear = [value |-> Nothing, unknown |-> <<>>]
<1> DEFINE v == [f \in DOMAIN MessageFields |-> Default(MessageFields[f])]
<1>1. DOMAIN MessageFields = 1..3
    BY DEF MessageFields
<1>2. \A f \in 1..3 : Default(MessageFields[f]) = <<>>
    <2>1. \A f \in 1..3 : MessageFields[f].repeated
        BY DEF MessageFields, Field
    <2> QED
        BY <2>1 DEF Default
<1>3. v = [f \in 1..3 |-> <<>>]
    BY <1>1, <1>2
<1>4. Nothing = [f \in 1..3 |-> <<>>]
    BY DEF Nothing
<1> QED
    BY <1>3, <1>4 DEF MessageClear, Clear

\* What Parse returns is where the parser comes to.
LEMMA ParseReads ==
    ASSUME NEW wire, Len(wire) \in Nat, NEW v, ReadsAs(wire, v)
    PROVE  MessageParse(wire) = Parsed(v)
<1> DEFINE n == Len(wire)
           start == [message |-> MessageClear, ok |-> TRUE]
           step(h) == [k \in 0..n |-> IF k = 0 THEN start
                                      ELSE IF ~h[k - 1].ok \/ wire[k].type = "bad"
                                           THEN [message |-> h[k - 1].message, ok |-> FALSE]
                                      ELSE [message |-> ParseField(MessageFields, h[k - 1].message,
                                                                   wire[k]), ok |-> TRUE]]
           e == CHOOSE h : h = step(h)
<1>1. PICK h : /\ h[0] = Parsed(Nothing)
               /\ \A k \in 1..n : h[k] = ReadOne(h[k - 1], wire[k])
               /\ h[n] = Parsed(v)
    BY DEF ReadsAs
<1>2. start = Parsed(Nothing)
    BY ClearIs DEF Parsed
<1>3. ASSUME NEW d, NEW k \in 1..n PROVE step(d)[k] = ReadOne(d[k - 1], wire[k])
    <2>1. k \in 0..n /\ k # 0
        OBVIOUS
    <2> QED
        BY <2>1 DEF ReadOne
<1>4. ASSUME NEW d PROVE step(d)[0] = start /\ DOMAIN step(d) = 0..n
    OBVIOUS
<1> DEFINE f == [k \in 0..n |-> h[k]]
<1>5. f = step(f)
    <2>1. ASSUME NEW k \in 0..n PROVE f[k] = step(f)[k]
        <3>1. CASE k = 0
            BY <1>1, <1>2, <1>4, <3>1
        <3>2. CASE k # 0
            <4>1. k \in 1..n /\ k - 1 \in 0..n
                BY <3>2
            <4>2. f[k] = ReadOne(f[k - 1], wire[k])
                BY <1>1, <4>1
            <4> HIDE DEF f, step
            <4> QED
                BY <1>3, <4>1, <4>2
        <3> QED
            BY <3>1, <3>2
    <2>2. f = [k \in 0..n |-> f[k]] /\ step(f) = [k \in 0..n |-> step(f)[k]]
        OBVIOUS
    <2> HIDE DEF f, step
    <2> QED
        BY <2>1, <2>2
<1> HIDE DEF f, step
<1>6. e = step(e)
    BY <1>5
<1>7. MessageParse(wire) = e[n]
    BY DEF MessageParse, Parse, step, start, n
<1> HIDE DEF e, n, start
<1>8. e[n] = h[n]
    <2>1. e[0] = h[0]
        BY <1>1, <1>2, <1>4, <1>6
    <2>2. \A k \in 1..n : e[k - 1] = h[k - 1] => e[k] = h[k]
        BY <1>1, <1>3, <1>6
    <2> QED
        BY <2>1, <2>2, SameRun DEF n
<1> QED
    BY <1>1, <1>7, <1>8

\* A field more on the wire is read last.
LEMMA ReadsOn ==
    ASSUME NEW S, NEW wire \in Seq(S), NEW e \in S, NEW v, NEW w, ReadsAs(wire, v),
           ReadOne(Parsed(v), e) = Parsed(w)
    PROVE  ReadsAs(Append(wire, e), w)
<1> DEFINE n == Len(wire)
           more == Append(wire, e)
<1>1. /\ n \in Nat /\ Len(more) = n + 1 /\ more[n + 1] = e
      /\ \A k \in 1..n : more[k] = wire[k]
    BY AppendProperties, LenProperties
<1>2. PICK h : /\ h[0] = Parsed(Nothing)
               /\ \A k \in 1..n : h[k] = ReadOne(h[k - 1], wire[k])
               /\ h[n] = Parsed(v)
    BY DEF ReadsAs
<1> HIDE DEF n, more
<1> DEFINE g == [k \in 0..(n + 1) |-> IF k = n + 1 THEN Parsed(w) ELSE h[k]]
<1>3. g[0] = Parsed(Nothing) /\ g[n + 1] = Parsed(w)
    BY <1>1, <1>2
<1>4. ASSUME NEW k \in 1..(n + 1) PROVE g[k] = ReadOne(g[k - 1], more[k])
    <2>1. k - 1 \in 0..(n + 1) /\ k \in 0..(n + 1) /\ k - 1 # n + 1
        BY <1>1
    <2>2. CASE k = n + 1
        <3>1. k - 1 = n
            BY <1>1, <2>2
        <3>2. g[k - 1] = Parsed(v) /\ g[k] = Parsed(w) /\ more[k] = e
            BY <1>1, <1>2, <1>3, <2>1, <2>2, <3>1
        <3> HIDE DEF g
        <3> QED
            BY <3>2
    <2>3. CASE k # n + 1
        <3>1. k \in 1..n
            BY <1>1, <2>3
        <3>2. g[k - 1] = h[k - 1] /\ g[k] = h[k] /\ more[k] = wire[k]
            BY <1>1, <2>1, <2>3, <3>1
        <3> HIDE DEF g
        <3> QED
            BY <1>2, <3>1, <3>2
    <2> QED
        BY <2>2, <2>3
<1> HIDE DEF g
<1> QED
    BY <1>1, <1>3, <1>4 DEF ReadsAs, more

\* A field of a message that holds its value.
Fits(f, x) == x \in Seq(Int) /\ \A i \in 1..Len(x) : Cast(MessageFields[f].type, x[i]) = x[i]

\* A field is read as it was written, into a message that has not got it.
LEMMA FieldIsRead ==
    ASSUME NEW f \in 1..3, NEW x, Fits(f, x), NEW v, v[f] = <<>>
    PROVE  ReadOne(Parsed(v), Entry(MessageFields, f, x)) = Parsed([v EXCEPT ![f] = x])
<1> DEFINE e == Entry(MessageFields, f, x)
           m == [value |-> v, unknown |-> <<>>]
           type == MessageFields[f].type
           y == [i \in DOMAIN x |-> Cast(type, x[i])]
<1>1. DOMAIN MessageFields = 1..3 /\ MessageFields[f].repeated
    BY DEF MessageFields, Field
<1>2. e.field = f /\ e.type = "packed" /\ e.value = x
    BY <1>1 DEF Entry
<1>3. y = x
    <2>1. x \in Seq(Int) /\ \A i \in 1..Len(x) : Cast(type, x[i]) = x[i]
        BY DEF Fits
    <2>2. x = [i \in 1..Len(x) |-> x[i]] /\ DOMAIN x = 1..Len(x)
        BY <2>1, LenProperties
    <2> HIDE DEF type
    <2> QED
        BY <2>1, <2>2
<1>4. <<>> \o x = x
    BY ConcatEmptySeq DEF Fits
<1> HIDE DEF e, y
<1>5. ParseField(MessageFields, m, e) = [m EXCEPT !.value[f] = v[f] \o y]
    BY <1>1, <1>2 DEF ParseField, y
<1>6. [m EXCEPT !.value[f] = x] = [value |-> [v EXCEPT ![f] = x], unknown |-> <<>>]
    OBVIOUS
<1>7. ParseField(MessageFields, m, e) = [value |-> [v EXCEPT ![f] = x], unknown |-> <<>>]
    BY <1>3, <1>4, <1>5, <1>6
<1> QED
    BY <1>2, <1>7 DEF ReadOne, Parsed, e

\* The wire after the first fields.
WireTo(v) == [k \in 0..3 |->
    LET one(f, wire) ==
            IF v[f] = <<>> THEN wire ELSE Append(wire, Entry(MessageFields, f, v[f]))
    IN  IF k = 0 THEN <<>>
        ELSE IF k = 1 THEN one(1, <<>>)
        ELSE IF k = 2 THEN one(2, one(1, <<>>))
        ELSE one(3, one(2, one(1, <<>>)))]

\* The message is written field after field.
LEMMA SerializeIs ==
    ASSUME NEW v
    PROVE  MessageSerialize([value |-> v, unknown |-> <<>>]) = WireTo(v)[3] \o <<>>
<1> DEFINE one(f, wire) ==
               IF v[f] = <<>> THEN wire ELSE Append(wire, Entry(MessageFields, f, v[f]))
           step(h) == [k \in 0..3 |-> IF k = 0 THEN <<>> ELSE one(k, h[k - 1])]
           f == WireTo(v)
           e == CHOOSE h : h = step(h)
<1>1. Len(MessageFields) = 3 /\ \A k \in 1..3 : Default(MessageFields[k]) = <<>>
    <2>1. Len(MessageFields) = 3 /\ \A k \in 1..3 : MessageFields[k].repeated
        BY DEF MessageFields, Field
    <2> QED
        BY <2>1 DEF Default
<1>2. /\ f[0] = <<>> /\ f[1] = one(1, f[0]) /\ f[2] = one(2, f[1]) /\ f[3] = one(3, f[2])
    BY DEF WireTo
<1>3. f = [k \in 0..3 |-> f[k]]
    BY DEF WireTo
<1> HIDE DEF f, one
<1>4. \A k \in 1..3 : f[k] = one(k, f[k - 1])
    BY <1>2
<1>5. f = step(f)
    <2>1. ASSUME NEW k \in 0..3 PROVE f[k] = step(f)[k]
        BY <1>2, <1>4
    <2>2. step(f) = [k \in 0..3 |-> step(f)[k]]
        OBVIOUS
    <2> HIDE DEF step
    <2> QED
        BY <1>3, <2>1, <2>2
<1>6. e = step(e)
    BY <1>5
<1>7. MessageSerialize([value |-> v, unknown |-> <<>>]) = e[3] \o <<>>
    <2> DEFINE m == [value |-> v, unknown |-> <<>>]
               d == CHOOSE h : h = [k \in 0..Len(MessageFields) |->
                        IF k = 0 THEN <<>>
                        ELSE IF m.value[k] = Default(MessageFields[k]) THEN h[k - 1]
                        ELSE Append(h[k - 1], Entry(MessageFields, k, m.value[k]))]
    <2>1. MessageSerialize(m) = d[Len(MessageFields)] \o m.unknown
        BY DEF MessageSerialize, Serialize
    <2>2. m.value = v /\ m.unknown = <<>>
        OBVIOUS
    <2>3. d = e
        <3> HIDE DEF m
        <3>1. ASSUME NEW h
              PROVE  [k \in 0..Len(MessageFields) |->
                        IF k = 0 THEN <<>>
                        ELSE IF m.value[k] = Default(MessageFields[k]) THEN h[k - 1]
                        ELSE Append(h[k - 1], Entry(MessageFields, k, m.value[k]))] = step(h)
            BY <1>1, <2>2 DEF one
        <3> HIDE DEF step
        <3> QED
            BY <3>1
    <2> HIDE DEF d, e, m
    <2> QED
        BY <1>1, <2>1, <2>2, <2>3 DEF m
<1> HIDE DEF e
<1>8. e[3] = f[3]
    <2>1. e[0] = f[0]
        BY <1>2, <1>6
    <2>2. \A k \in 1..3 : e[k - 1] = f[k - 1] => e[k] = f[k]
        BY <1>4, <1>6
    <2>3. 3 \in Nat
        OBVIOUS
    <2> QED
        BY <2>1, <2>2, <2>3, SameRun
<1> QED
    BY <1>7, <1>8 DEF f

\* What is serialized of a message is parsed from the wire, if its fields hold it.
LEMMA MessageArrives ==
    ASSUME NEW v, v = <<v[1], v[2], v[3]>>, \A f \in 1..3 : Fits(f, v[f])
    PROVE  MessageParse(MessageSerialize([value |-> v, unknown |-> <<>>])).message.value = v
<1> DEFINE E == {Entry(MessageFields, f, v[f]) : f \in 1..3}
           w == WireTo(v)
           one(f, wire) ==
               IF v[f] = <<>> THEN wire ELSE Append(wire, Entry(MessageFields, f, v[f]))
           u0 == Nothing
           u1 == <<v[1], <<>>, <<>>>>
           u2 == <<v[1], v[2], <<>>>>
           u3 == <<v[1], v[2], v[3]>>
<1>1. /\ w[0] = <<>> /\ w[1] = one(1, w[0]) /\ w[2] = one(2, w[1]) /\ w[3] = one(3, w[2])
    BY DEF WireTo
<1>2. ASSUME NEW f \in 1..3, NEW wire \in Seq(E), NEW u, u[f] = <<>>, ReadsAs(wire, u),
             NEW t, t = [u EXCEPT ![f] = v[f]], v[f] = <<>> => t = u
      PROVE  one(f, wire) \in Seq(E) /\ ReadsAs(one(f, wire), t)
    <2>1. CASE v[f] = <<>>
        BY <1>2, <2>1
    <2>2. CASE v[f] # <<>>
        <3> DEFINE e == Entry(MessageFields, f, v[f])
        <3>1. e \in E
            OBVIOUS
        <3>2. ReadOne(Parsed(u), e) = Parsed(t)
            BY <1>2, FieldIsRead
        <3>3. one(f, wire) = Append(wire, e)
            BY <2>2
        <3> HIDE DEF e, E, one
        <3>4. Append(wire, e) \in Seq(E)
            BY <3>1, AppendProperties
        <3>5. ReadsAs(Append(wire, e), t)
            BY <1>2, <3>1, <3>2, ReadsOn
        <3> QED
            BY <3>3, <3>4, <3>5
    <2> QED
        BY <2>1, <2>2
<1> HIDE DEF E, w, one
<1>3. w[0] \in Seq(E) /\ ReadsAs(w[0], u0)
    <2> DEFINE h == [k \in {0} |-> Parsed(Nothing)]
    <2>1. h[0] = Parsed(Nothing) /\ Len(<<>>) = 0
        OBVIOUS
    <2> HIDE DEF h
    <2>2. \A k \in 1..0 : h[k] = ReadOne(h[k - 1], <<>>[k])
        OBVIOUS
    <2>3. ReadsAs(<<>>, u0)
        BY <2>1, <2>2 DEF ReadsAs
    <2>4. <<>> \in Seq(E)
        BY EmptySeq
    <2> QED
        BY <1>1, <2>3, <2>4
<1>4. /\ u0[1] = <<>> /\ u1[2] = <<>> /\ u2[3] = <<>>
      /\ u1 = [u0 EXCEPT ![1] = v[1]] /\ u2 = [u1 EXCEPT ![2] = v[2]]
      /\ u3 = [u2 EXCEPT ![3] = v[3]]
    BY DEF Nothing
<1>5. /\ v[1] = <<>> => u1 = u0
      /\ v[2] = <<>> => u2 = u1
      /\ v[3] = <<>> => u3 = u2
    BY DEF Nothing
<1> HIDE DEF u0, u1, u2, u3
<1>6. w[1] \in Seq(E) /\ ReadsAs(w[1], u1)
    <2>1. 1 \in 1..3 /\ w[0] \in Seq(E) /\ ReadsAs(w[0], u0)
        BY <1>3
    <2>2. u0[1] = <<>> /\ u1 = [u0 EXCEPT ![1] = v[1]] /\ (v[1] = <<>> => u1 = u0)
        BY <1>4, <1>5
    <2>3. one(1, w[0]) \in Seq(E) /\ ReadsAs(one(1, w[0]), u1)
        BY <1>2, <2>1, <2>2
    <2> QED
        BY <1>1, <2>3
<1>7. w[2] \in Seq(E) /\ ReadsAs(w[2], u2)
    <2>1. 2 \in 1..3 /\ w[1] \in Seq(E) /\ ReadsAs(w[1], u1)
        BY <1>6
    <2>2. u1[2] = <<>> /\ u2 = [u1 EXCEPT ![2] = v[2]] /\ (v[2] = <<>> => u2 = u1)
        BY <1>4, <1>5
    <2>3. one(2, w[1]) \in Seq(E) /\ ReadsAs(one(2, w[1]), u2)
        BY <1>2, <2>1, <2>2
    <2> QED
        BY <1>1, <2>3
<1>8. w[3] \in Seq(E) /\ ReadsAs(w[3], u3)
    <2>1. 3 \in 1..3 /\ w[2] \in Seq(E) /\ ReadsAs(w[2], u2)
        BY <1>7
    <2>2. u2[3] = <<>> /\ u3 = [u2 EXCEPT ![3] = v[3]] /\ (v[3] = <<>> => u3 = u2)
        BY <1>4, <1>5
    <2>3. one(3, w[2]) \in Seq(E) /\ ReadsAs(one(3, w[2]), u3)
        BY <1>2, <2>1, <2>2
    <2> QED
        BY <1>1, <2>3
<1>9. w[3] \o <<>> = w[3] /\ Len(w[3]) \in Nat
    BY <1>8, ConcatEmptySeq, LenProperties
<1>10. MessageSerialize([value |-> v, unknown |-> <<>>]) = w[3]
    BY <1>9, SerializeIs DEF w
<1>11. MessageParse(w[3]) = Parsed(u3)
    BY <1>8, <1>9, ParseReads
<1>12. Parsed(u3).message.value = u3
    BY DEF Parsed
<1> QED
    BY <1>10, <1>11, <1>12 DEF u3

\* What is left of a number that fits its field is the number.
LEMMA CastIs ==
    ASSUME Inputs
    PROVE  /\ \A x \in 0..(2^(Bits32 - 1) - 1) : Cast("int32", x) = x
           /\ \A x \in Nat : /\ x % 2^Bits32 \in Nat
                             /\ Cast("uint32", x % 2^Bits32) = x % 2^Bits32
           /\ \A x \in 0..Len(batch) : Cast("uint64", x) = x
<1> DEFINE half == 2^(Bits32 - 1)
           word == 2^Bits32
           long == 2^Bits64
           n == Len(batch)
<1>1. half \in Nat /\ half > 0 /\ word = 2 * half /\ long \in Nat /\ n \in Nat /\ n < long
    <2> DEFINE a == n * Width
    <2>1. n \in Nat /\ half \in Nat /\ a < half /\ word = 2 * half /\ long \in Nat /\ n < long
        BY SumAssumption, InputsAre DEF Inputs, Width
    <2>2. a \in Nat
        BY <2>1, Widths
    <2> HIDE DEF a, half, word, long, n
    <2> QED
        BY <2>1, <2>2
<1>2. \A x : /\ Cast("int32", x) = IF x % word < half THEN x % word ELSE (x % word) - word
             /\ Cast("uint32", x) = x % word
             /\ Cast("uint64", x) = x % long
    BY DEF Cast
<1> HIDE DEF half, word, long, n
<1>3. ASSUME NEW m \in Nat, NEW x \in 0..(m - 1) PROVE x % m = x
    <2>1. m \in Nat \ {0} /\ x \in Nat /\ x < m /\ x = 0 * m + x
        BY <1>3
    <2> QED
        BY <2>1, Quotient
<1>4. ASSUME NEW x \in 0..(half - 1) PROVE Cast("int32", x) = x
    <2>1. x \in 0..(word - 1) /\ word \in Nat /\ x < half
        BY <1>1
    <2> QED
        BY <1>2, <1>3, <2>1
<1>5. ASSUME NEW x \in Nat PROVE x % word \in Nat /\ Cast("uint32", x % word) = x % word
    <2>1. word \in Nat /\ word > 0
        BY <1>1
    <2>2. x % word \in 0..(word - 1)
        BY <2>1
    <2> DEFINE y == x % word
    <2>3. y \in 0..(word - 1) /\ y \in Nat
        BY <2>1, <2>2
    <2> HIDE DEF y
    <2>4. Cast("uint32", y) = y
        BY <1>2, <1>3, <2>1, <2>3
    <2> QED
        BY <2>3, <2>4 DEF y
<1>6. ASSUME NEW x \in 0..n PROVE Cast("uint64", x) = x
    <2>1. x \in 0..(long - 1)
        BY <1>1
    <2> QED
        BY <1>1, <1>2, <1>3, <2>1
<1> QED
    BY <1>4, <1>5, <1>6 DEF half, word, n

\* A sequence of numbers.
LEMMA NumbersAre ==
    ASSUME NEW n \in Nat, NEW x, x = [i \in 1..n |-> x[i]], \A i \in 1..n : x[i] \in Int
    PROVE  x \in Seq(Int) /\ Len(x) = n
<1>1. x \in [1..n -> Int]
    OBVIOUS
<1> QED
    BY <1>1

\* The fields of the message hold the sum, the totals and the time stamps.
LEMMA FieldsFit ==
    ASSUME Inputs, Fitting, NEW n, n = Len(batch), NEW tics, NEW stamps, NEW total,
           \A t \in 1..n : total[t] \in Nat,
           tics = [t \in 1..n |-> total[t] % 2^Bits32], stamps = [t \in 1..n |-> t]
    PROVE  Fits(1, Data(n)) /\ Fits(2, tics) /\ Fits(3, stamps)
<1> DEFINE data == Data(n)
<1>1. n \in Nat /\ Size \in Nat
    BY InputsAre, CodecAssumption DEF Size
<1>2. /\ MessageFields[1].type = "int32" /\ MessageFields[2].type = "uint32"
      /\ MessageFields[3].type = "uint64"
    BY DEF MessageFields, Field
<1>3. Fits(1, data)
    <2>1. \A i \in 1..Size : data[i] \in 0..(2^(Bits32 - 1) - 1)
        BY DataFits
    <2>2. data = [i \in 1..Size |-> data[i]]
        BY DEF Data
    <2> HIDE DEF data
    <2>3. \A i \in 1..Size : Cast("int32", data[i]) = data[i]
        BY <2>1, CastIs
    <2>4. \A i \in 1..Size : data[i] \in Int
        BY <2>1
    <2>5. data \in Seq(Int) /\ Len(data) = Size
        BY <1>1, <2>2, <2>4, NumbersAre
    <2> QED
        BY <1>2, <2>3, <2>5 DEF Fits
<1>4. Fits(2, tics)
    <2>1. \A t \in 1..n : tics[t] \in Int /\ Cast("uint32", tics[t]) = tics[t]
        <3>1. ASSUME NEW t \in 1..n PROVE tics[t] \in Int /\ Cast("uint32", tics[t]) = tics[t]
            <4> DEFINE x == total[t]
            <4>1. x \in Nat /\ tics[t] = x % 2^Bits32
                OBVIOUS
            <4> HIDE DEF x
            <4>2. x % 2^Bits32 \in Nat /\ Cast("uint32", x % 2^Bits32) = x % 2^Bits32
                BY <4>1, CastIs
            <4> QED
                BY <4>1, <4>2
        <3> QED
            BY <3>1
    <2>2. tics = [t \in 1..n |-> tics[t]]
        OBVIOUS
    <2>3. tics \in Seq(Int) /\ Len(tics) = n
        BY <1>1, <2>1, <2>2, NumbersAre
    <2> QED
        BY <1>2, <2>1, <2>3 DEF Fits
<1>5. Fits(3, stamps)
    <2>1. \A t \in 1..n : stamps[t] = t /\ t \in Int /\ t \in 0..Len(batch)
        BY <1>1
    <2>2. \A t \in 1..n : Cast("uint64", stamps[t]) = stamps[t]
        BY <2>1, CastIs
    <2>3. stamps = [t \in 1..n |-> stamps[t]]
        OBVIOUS
    <2>4. stamps \in Seq(Int) /\ Len(stamps) = n
        BY <1>1, <2>1, <2>3, NumbersAre
    <2> QED
        BY <1>2, <2>2, <2>4 DEF Fits
<1> QED
    BY <1>3, <1>4, <1>5

-----------------------------------------------------------------------------
(* The way of the batch *)

\* The gates of each scan that open below the threshold.
Openings == [t \in DOMAIN scans |-> Cardinality(OpenBelow(scans[t].encoded_spectra, Floor))]

\* What is published of a batch whose sum fits: the message of the sum.
Published ==
    LET sum == SumBatch(scans, Size)
    IN  ~sum.refused /\ ~sum.stray =>
            live = [status |-> "published", wire |-> MessageSerialize(LiveMessage(sum.data))]

\* What holds in every state: the scans are the frame of the batch once there is
\* one, and the compressor is where its own invariant says.
CodecInv ==
    /\ Inputs
    /\ stage = "acquired" \/ scans = Frame
    /\ stage = "acquired" => scans = <<>>
    /\ stage = "checked" => misaligned = SumOver(Openings, DOMAIN scans)
    /\ stage = "published" => Published
    /\ LzfInv

\* The four bytes of a value are bytes of the input.
LEMMA BytesAre ==
    ASSUME NEW s \in Seq(Int)
    PROVE  /\ Bytes(s) \in Seq(Range(Bytes(s)))
           /\ Len(Bytes(s)) = 4 * Len(s) /\ Len(s) \in Nat
<1> DEFINE n == 4 * Len(s)
           b == Bytes(s)
<1>1. Len(s) \in Nat
    BY LenProperties
<1>2. n \in Nat
    BY <1>1
<1>3. b = [k \in 1..n |-> b[k]]
    BY DEF Bytes
<1> HIDE DEF n, b
<1>4. b \in [1..n -> Range(b)]
    <2>1. \A k \in 1..n : b[k] \in Range(b)
        BY <1>3 DEF Range
    <2> QED
        BY <1>3, <2>1
<1>5. b \in Seq(Range(b)) /\ Len(b) = n
    BY <1>2, <1>4
<1> QED
    BY <1>1, <1>5 DEF b, n

\* A scan goes to the compressor in a buffer of twice its size.
LEMMA CompressionStarts ==
    ASSUME CodecInv, NEW s \in Seq(Int), get_compressed_spectra(s)
    PROVE  CodecInv'
<1> DEFINE data == Bytes(s)
<1>1. data \in Seq(Range(data)) /\ Len(data) = 4 * Len(s) /\ Len(s) \in Nat
    BY BytesAre
<1>2. 8 * Len(s) = 2 * Len(data) /\ (Len(data) = 0 \/ Len(data) >= 4)
    BY <1>1
<1>3. Call(data, 2 * Len(data))
    BY <1>2 DEF get_compressed_spectra
<1> HIDE DEF data
<1>4. LzfInv'
    BY <1>1, <1>2, <1>3, CallStarts
<1>5. /\ stage = "framed" /\ stage' = "compressing"
      /\ UNCHANGED <<batch, offset_bins, lag, scans>>
    BY DEF get_compressed_spectra
<1>6. Inputs' /\ Frame' = Frame
    BY <1>5 DEF CodecInv, Inputs, Frame, Stamps, SamplesBuffer
<1> QED
    BY <1>4, <1>5, <1>6 DEF CodecInv

\* Nothing is framed or compressed at first.
LEMMA CodecStarts == ASSUME Init PROVE CodecInv
<1>1. Inputs /\ stage = "acquired" /\ scans = <<>> /\ LzfIdle
    BY DEF Init, Inputs
<1>2. LzfInv
    BY <1>1 DEF LzfIdle, LzfInv
<1> QED
    BY <1>1, <1>2 DEF CodecInv

\* Every stage of a batch keeps the invariant.
LEMMA CodecKeeps == ASSUME CodecInv, [Next]_vars PROVE CodecInv'
<1>1. CASE ToFrame
    <2>1. /\ stage = "acquired" /\ stage' = "framed" /\ scans' = Frame
          /\ UNCHANGED <<batch, offset_bins, lag, lzfVars>>
        BY <1>1 DEF ToFrame, Frame
    <2>2. Inputs' /\ Frame' = Frame
        BY <2>1 DEF CodecInv, Inputs, Frame, Stamps, SamplesBuffer
    <2>3. LzfInv'
        BY <2>1 DEF CodecInv, LzfInv, lzfVars, AtWork, Finished, Written, in_len
    <2> QED
        BY <2>1, <2>2, <2>3 DEF CodecInv
<1>2. ASSUME CheckAlignment \/ OnNotify \/ UNCHANGED vars PROVE CodecInv'
    <2>1. /\ UNCHANGED <<batch, offset_bins, lag, scans, lzfVars>>
          /\ stage' = stage \/ (stage # "acquired" /\ stage' # "acquired")
        BY <1>2 DEF CheckAlignment, OnNotify, vars, codecVars
    <2>2. (stage = "checked" => misaligned = SumOver(Openings, DOMAIN scans))'
        <3>1. Openings' = Openings /\ scans' = scans
            BY <2>1 DEF Openings
        <3>2. CASE CheckAlignment
            <4>1. misaligned' = SumOver(Openings, DOMAIN scans)
                BY <3>2 DEF CheckAlignment, MapThenSumSet, MapThenFoldSet, SumOver, SumsTo,
                            Openings, Floor
            <4> QED
                BY <3>1, <4>1
        <3>3. CASE OnNotify
            BY <3>3 DEF OnNotify
        <3>4. CASE UNCHANGED vars
            <4>1. stage' = stage /\ misaligned' = misaligned
                BY <3>4 DEF vars, codecVars
            <4> QED
                BY <3>1, <4>1 DEF CodecInv
        <3> QED
            BY <1>2, <3>2, <3>3, <3>4
    <2>3. (stage = "published" => Published)'
        <3>1. CASE CheckAlignment
            BY <3>1 DEF CheckAlignment
        <3>2. CASE OnNotify
            <4> DEFINE sum == SumBatch(scans, record_size + post_trigger_samples)
                       message == MessageSerialize(LiveMessage(sum.data))
            <4>1. ~sum.refused /\ ~sum.stray => live' = [status |-> "published", wire |-> message]
                BY <3>2 DEF OnNotify
            <4>2. sum' = sum /\ message' = message
                BY <2>1 DEF LiveMessage
            <4> HIDE DEF sum, message
            <4>3. ~sum'.refused /\ ~sum'.stray =>
                      live' = [status |-> "published", wire |-> message']
                BY <4>1, <4>2
            <4> QED
                BY <4>3 DEF Published, Size, sum, message
        <3>3. CASE UNCHANGED vars
            <4>1. stage' = stage /\ Published' = Published
                BY <3>3 DEF vars, codecVars, Published, LiveMessage
            <4> QED
                BY <4>1 DEF CodecInv
        <3> QED
            BY <1>2, <3>1, <3>2, <3>3
    <2>4. Inputs' /\ Frame' = Frame
        BY <2>1 DEF CodecInv, Inputs, Frame, Stamps, SamplesBuffer
    <2>5. LzfInv'
        BY <2>1 DEF CodecInv, LzfInv, lzfVars, AtWork, Finished, Written, in_len
    <2> QED
        BY <2>1, <2>2, <2>3, <2>4, <2>5 DEF CodecInv
<1>3. ASSUME NEW t \in DOMAIN scans, get_compressed_spectra(scans[t].encoded_spectra)
      PROVE  CodecInv'
    <2>1. stage = "framed" /\ scans = Frame /\ Inputs
        BY <1>3 DEF get_compressed_spectra, CodecInv
    <2>2. scans[t].encoded_spectra \in Seq(Entries)
        BY <2>1, ScansAre
    <2>3. Entries \subseteq Int
        BY DEF Entries
    <2>4. scans[t].encoded_spectra \in Seq(Int)
        BY <2>2, <2>3, SeqMonotonic
    <2> QED
        BY <1>3, <2>4, CompressionStarts
<1>4. ASSUME NEW s \in WideSpectra, get_compressed_spectra(s) PROVE CodecInv'
    <2>1. s \in Seq(Int)
        BY BatchesAssumption
    <2> QED
        BY <1>4, <2>1, CompressionStarts
<1>5. CASE CompressStep
    <2>1. UNCHANGED codecVars
        BY <1>5 DEF CompressStep
    <2>2. LzfInv'
        BY <1>5, MatchKeeps, LiteralKeeps, EndKeeps DEF CodecInv, CompressStep, Compress
    <2>3. /\ Inputs' /\ Frame' = Frame /\ stage' = stage /\ scans' = scans
          /\ misaligned' = misaligned /\ Openings' = Openings /\ Published' = Published
        BY <2>1 DEF codecVars, CodecInv, Inputs, Frame, Stamps, SamplesBuffer, Openings,
                    Published, LiveMessage
    <2> QED
        BY <2>2, <2>3 DEF CodecInv
<1> QED
    BY <1>1, <1>2, <1>3, <1>4, <1>5 DEF Next

\* The stages of a batch and of the compressor stay in step with what was acquired.
THEOREM CodecInvariant == Spec => []CodecInv
<1>1. Init => CodecInv
    BY CodecStarts
<1>2. CodecInv /\ [Next]_vars => CodecInv'
    BY CodecKeeps
<1> QED
    BY <1>1, <1>2, PTL DEF Spec

\* What get_compressed_spectra gives the file expands to the scan it was given,
\* at every step of lzf_compress; its buffer is large enough for every scan.
THEOREM BlobsExpand == Spec => []BlobIsTheScan
<1>1. CodecInv => BlobIsTheScan
    BY BlobHolds DEF CodecInv
<1> QED
    BY <1>1, CodecInvariant, PTL

\* A scan that UimfAcquisitionRecord::process encoded reads as the samples the
\* card saw, for gates and samples of any number and any offset.
THEOREM ScansReadAsSeen == Spec => []ScanIsWhatWasSeen
<1>1. CodecInv => ScanIsWhatWasSeen
    <2>1. SUFFICES ASSUME CodecInv, stage # "acquired", lag = 0,
                          NEW t \in DOMAIN batch, Ordinary(t)
                   PROVE  ReadWith(scans[t].encoded_spectra, FALSE) = Seen(t)
        BY DEF ScanIsWhatWasSeen
    <2>2. Inputs /\ scans = Frame
        BY <2>1 DEF CodecInv
    <2>3. t \in 1..Len(batch)
        BY <2>1, <2>2, InputsAre
    <2>4. Right(t, Frame[t])
        BY <2>2, <2>3, FrameIs DEF RightScans
    <2> QED
        BY <2>1, <2>2, <2>4 DEF Right, ReadWith
<1> QED
    BY <1>1, CodecInvariant, PTL

\* A reader that takes a stored zero after 32768 skipped bins for padding reads
\* every scan as one that does not: process never writes that run length.
THEOREM EveryReaderAgrees == Spec => []ReadersAgree
<1>1. CodecInv => ReadersAgree
    <2>1. SUFFICES ASSUME CodecInv, NEW t \in DOMAIN scans
                   PROVE  ReadWith(scans[t].encoded_spectra, TRUE)
                              = ReadWith(scans[t].encoded_spectra, FALSE)
        BY DEF ReadersAgree
    <2>2. scans = Frame /\ Inputs
        <3>1. scans # <<>>
            BY <2>1
        <3> QED
            BY <2>1, <3>1 DEF CodecInv
    <2>3. scans[t].encoded_spectra \in Seq(Entries)
        BY <2>1, <2>2, ScansAre
    <2>4. ReadTo(scans[t].encoded_spectra, TRUE) = ReadTo(scans[t].encoded_spectra, FALSE)
        BY <2>3, AllReadersAgree
    <2> QED
        BY <2>4 DEF ReadWith
<1> QED
    BY <1>1, CodecInvariant, PTL

\* The highest value and the first bin that has it, as the reference names them.
LEMMA PeaksAre ==
    ASSUME NEW bpi, NEW at \in Int, NEW S \in SUBSET (Nat \X Nat), Peaks(bpi, at, S)
    PROVE  LET peak == Max({0} \cup {b[2] : b \in S})
           IN  /\ peak = bpi
               /\ at = IF peak = 0 THEN 0 ELSE Min({b[1] : b \in {x \in S : x[2] = peak}})
<1> DEFINE T == {0} \cup {b[2] : b \in S}
           U == {b[1] : b \in {x \in S : x[2] = bpi}}
<1>1. bpi \in Nat /\ bpi \in T /\ \A y \in T : y \in Nat /\ bpi >= y
    <2>1. bpi \in Nat /\ (bpi # 0 => <<at, bpi>> \in S) /\ \A b \in S : b[2] \in Nat /\ bpi >= b[2]
        BY DEF Peaks
    <2>2. bpi # 0 => bpi \in {b[2] : b \in S}
        <3>1. <<at, bpi>>[2] = bpi
            OBVIOUS
        <3> QED
            BY <2>1, <3>1
    <2> QED
        BY <2>1, <2>2
<1> HIDE DEF T
<1>2. Max(T) = bpi
    <2>1. Max(T) \in T /\ \A y \in T : Max(T) >= y
        BY <1>1 DEF Max
    <2> DEFINE m == Max(T)
    <2> HIDE DEF m
    <2>2. m \in Nat /\ m >= bpi /\ bpi >= m
        BY <1>1, <2>1 DEF m
    <2>3. m = bpi
        BY <1>1, <2>2
    <2> QED
        BY <2>3 DEF m
<1>3. bpi = 0 => at = 0
    BY DEF Peaks
<1>4. ASSUME bpi # 0 PROVE Min(U) = at
    <2>1. at \in U
        <3>1. <<at, bpi>> \in S
            BY <1>4 DEF Peaks
        <3>2. <<at, bpi>>[1] = at /\ <<at, bpi>>[2] = bpi
            OBVIOUS
        <3> QED
            BY <3>1, <3>2
    <2>2. \A y \in U : y \in Nat /\ at <= y
        BY DEF Peaks
    <2> HIDE DEF U
    <2>3. Min(U) \in U /\ \A y \in U : Min(U) <= y
        BY <2>1, <2>2 DEF Min
    <2> DEFINE m == Min(U)
    <2> HIDE DEF m
    <2>4. m \in Nat /\ m <= at /\ at <= m
        BY <2>1, <2>2, <2>3 DEF m
    <2>5. m = at
        BY <2>4
    <2> QED
        BY <2>5 DEF m
<1> QED
    BY <1>2, <1>3, <1>4 DEF T

\* The number, the total and the peak that UimfAcquisitionRecord::process keeps beside
\* a scan, sample by sample, are those of the samples the card saw.
THEOREM ColumnsMatch == Spec => []ColumnsMatchSamples
<1>1. CodecInv => ColumnsMatchSamples
    <2> DEFINE S(t) == Seen(t)
               peak(t) == Max({0} \cup {b[2] : b \in S(t)})
    <2>1. ASSUME CodecInv, stage # "acquired", lag = 0, NEW t \in DOMAIN batch, Ordinary(t)
          PROVE  /\ scans[t].non_zero_count = Cardinality(S(t))
                 /\ scans[t].tic = TotalOf(S(t))
                 /\ scans[t].bpi = peak(t)
                 /\ scans[t].index_max_intensity =
                        IF peak(t) = 0 THEN 0
                        ELSE Min({b[1] : b \in {x \in S(t) : x[2] = peak(t)}})
        <3> DEFINE x == scans[t]
        <3>1. Inputs /\ scans = Frame
            BY <2>1 DEF CodecInv
        <3>2. t \in 1..Len(batch)
            BY <2>1, <3>1, InputsAre
        <3>3. Right(t, x) /\ x \in Scans
            <4> DEFINE f == Frame
            <4>1. f \in Seq(Scans) /\ t \in 1..Len(f) /\ Right(t, f[t])
                BY <3>1, <3>2, FrameIs DEF RightScans
            <4> HIDE DEF f
            <4>2. f[t] \in Scans
                BY <4>1, ElementOfSeq
            <4> QED
                BY <3>1, <4>1, <4>2 DEF f
        <3>4. Columns(x, S(t))
            BY <2>1, <3>3 DEF Right
        <3>5. x.index_max_intensity \in Int
            BY <3>3 DEF Scans
        <3> HIDE DEF x, S
        <3>6. /\ peak(t) = x.bpi
              /\ x.index_max_intensity =
                     IF peak(t) = 0 THEN 0
                     ELSE Min({b[1] : b \in {y \in S(t) : y[2] = peak(t)}})
            BY <3>4, <3>5, PeaksAre DEF Columns
        <3> QED
            BY <3>4, <3>6 DEF Columns, x
    <2> QED
        BY <2>1 DEF ColumnsMatchSamples
<1> QED
    BY <1>1, CodecInvariant, PTL

\* ZmqAcquiredDataSubscriber::check_alignment reports a batch when, and only when, the
\* samples lag behind their markers and there is a sample at all.
THEOREM LagsAreNoticed == Spec => []MisalignmentIsNoticed
<1>1. CodecInv => MisalignmentIsNoticed
    <2>1. SUFFICES ASSUME CodecInv, stage = "checked"
                   PROVE  misaligned > 0 <=> lag > 0 /\ \E t \in DOMAIN scans :
                                                         scans[t].encoded_spectra # <<>>
        BY DEF MisalignmentIsNoticed
    <2> DEFINE n == Len(batch)
    <2>2. /\ Inputs /\ scans = Frame /\ RightScans(scans, n) /\ n \in Nat /\ lag \in Nat
          /\ lag # 0 => Alarmed(scans, n)
          /\ misaligned = SumOver(Openings, DOMAIN scans)
        BY <2>1, FrameIs, InputsAre DEF CodecInv
    <2> HIDE DEF n
    <2>3. DOMAIN scans = 1..n
        BY <2>2, LenProperties DEF RightScans
    <2>4. ASSUME NEW t \in 1..n
          PROVE  /\ Openings[t] \in Nat
                 /\ Openings[t] # 0 <=> OpenBelow(scans[t].encoded_spectra, Floor) # {}
        <3> DEFINE s == scans[t].encoded_spectra
                   B == OpenBelow(s, Floor)
        <3>1. s \in Seq(Entries)
            <4>1. t \in DOMAIN Frame
                BY <2>2, <2>3
            <4> QED
                BY <2>2, <4>1, ScansAre
        <3>2. Openings[t] = Cardinality(B)
            BY <2>3 DEF Openings
        <3> HIDE DEF s
        <3>3. Len(s) \in Nat /\ DOMAIN s = 1..Len(s) /\ B \subseteq DOMAIN s
            BY <3>1, LenProperties DEF OpenBelow
        <3>4. IsFiniteSet(B)
            <4>1. IsFiniteSet(1..Len(s))
                BY <3>3, FS_Interval
            <4> HIDE DEF B
            <4> QED
                BY <3>3, <4>1, FS_Subset
        <3> HIDE DEF B
        <3>5. Cardinality(B) \in Nat /\ (Cardinality(B) = 0 <=> B = {})
            BY <3>4, FS_EmptySet, FS_CardinalityType
        <3> QED
            BY <3>2, <3>5 DEF B, s
    <2>5. misaligned > 0 <=> \E t \in 1..n : OpenBelow(scans[t].encoded_spectra, Floor) # {}
        <3>1. SumOver(Openings, 1..n) > 0 <=> \E t \in 1..n : Openings[t] # 0
            BY <2>2, <2>4, SumAbove
        <3> QED
            BY <2>2, <2>3, <2>4, <3>1
    <2>6. CASE lag = 0
        <3>1. \A t \in 1..n : OpenBelow(scans[t].encoded_spectra, Floor) = {}
            BY <2>2, <2>6 DEF RightScans, Right, NoneBelow
        <3>2. ~(lag > 0)
            BY <2>6
        <3> QED
            BY <2>5, <3>1, <3>2
    <2>7. CASE lag # 0
        <3>1. lag > 0
            BY <2>2, <2>7
        <3>2. OpenBelow(<<>>, Floor) = {}
            BY DEF OpenBelow
        <3>3. (\E t \in 1..n : OpenBelow(scans[t].encoded_spectra, Floor) # {})
                  <=> \E t \in 1..n : scans[t].encoded_spectra # <<>>
            BY <2>2, <2>7, <3>2 DEF Alarmed
        <3> QED
            BY <2>3, <2>5, <3>1, <3>3
    <2> QED
        BY <2>6, <2>7
<1> QED
    BY <1>1, CodecInvariant, PTL

\* The sum at bin i, as the property takes it.
BinSum(i) == MapThenSumSet(LAMBDA t : TotalOf({b \in Seen(t) : b[1] = i - 1}), DOMAIN batch)

\* It is what the data has there.
LEMMA BinIs ==
    ASSUME NEW i
    PROVE  SumOver(AtBin(i), DOMAIN batch) = BinSum(i)
BY ZenonT(60) DEF BinSum, MapThenSumSet, MapThenFoldSet, SumOver, SumsTo, AtBin, At

\* Of a batch in step, ZmqAcquiredDataSubscriber::on_notify sends, and the client parses
\* from the wire, the sum of its samples bin by bin, the totals and the time stamps.
THEOREM SumsArrive == Spec => []LiveIsTheSum
<1>1. CodecInv => LiveIsTheSum
    <2> DEFINE n == Len(batch)
               tics == [t \in DOMAIN scans |-> Cast("uint32", scans[t].tic)]
               stamps == [t \in DOMAIN scans |-> scans[t].timestamp]
               got == MessageParse(live.wire).message.value
               sums == [i \in 1..(record_size + post_trigger_samples) |-> BinSum(i)]
    <2>1. SUFFICES ASSUME CodecInv, stage = "published", lag = 0,
                          offset_bins <= post_trigger_samples,
                          \A t \in DOMAIN batch : Ordinary(t)
                   PROVE  /\ live.status = "published"
                          /\ got[1] = sums
                          /\ got[2] = [t \in DOMAIN batch |-> TotalOf(Seen(t)) % 2^Bits32]
                          /\ got[3] = [t \in DOMAIN batch |-> t]
        BY DEF LiveIsTheSum, BinSum
    <2> DEFINE data == Data(n)
               v == <<data, tics, stamps>>
    <2>2. /\ Inputs /\ Fitting /\ scans = Frame /\ RightScans(scans, n) /\ Published
          /\ n \in Nat /\ DOMAIN batch = 1..n
        BY <2>1, FrameIs, InputsAre DEF CodecInv, Fitting
    <2>3. DOMAIN scans = 1..n
        BY <2>2, LenProperties DEF RightScans
    <2>4. live = [status |-> "published",
                  wire |-> MessageSerialize([value |-> v, unknown |-> <<>>])]
        <3>1. PICK index : SumBatch(scans, Size) = SumOf(index, Size, data)
            BY <2>2, BatchSums
        <3> DEFINE made == SumBatch(scans, Size)
        <3>2. ~made.refused /\ ~made.stray /\ made.data = data
            BY <3>1 DEF SumOf
        <3> HIDE DEF made
        <3>3. live = [status |-> "published", wire |-> MessageSerialize(LiveMessage(made.data))]
            BY <2>2, <3>2 DEF Published, made
        <3> QED
            BY <3>2, <3>3 DEF LiveMessage
    <2>5. ASSUME NEW t \in 1..n
          PROVE  /\ scans[t].tic = TotalOf(Seen(t)) /\ scans[t].timestamp = t
                 /\ TotalOf(Seen(t)) \in Nat
        <3>1. Right(t, scans[t]) /\ Ordinary(t)
            BY <2>1, <2>2 DEF RightScans
        <3>2. Columns(scans[t], Seen(t)) /\ scans[t].timestamp = t
            BY <2>1, <3>1 DEF Right
        <3> QED
            BY <3>2, TotalIs DEF Columns
    <2>6. /\ tics = [t \in 1..n |-> TotalOf(Seen(t)) % 2^Bits32]
          /\ stamps = [t \in 1..n |-> t]
        <3>1. \A u : Cast("uint32", u) = u % 2^Bits32
            BY DEF Cast
        <3> QED
            BY <2>3, <2>5, <3>1
    <2>7. data = sums
        <3>1. ASSUME NEW i \in 1..Size PROVE SumOver(AtBin(i), 1..n) = BinSum(i)
            BY <2>2, BinIs
        <3>2. data = [i \in 1..Size |-> SumOver(AtBin(i), 1..n)]
            BY DEF Data
        <3>3. sums = [i \in 1..Size |-> BinSum(i)]
            BY DEF Size
        <3> HIDE DEF data, sums
        <3> QED
            BY <3>1, <3>2, <3>3
    <2> HIDE DEF tics, stamps, data, sums
    <2>8. v = <<v[1], v[2], v[3]>> /\ v[1] = data /\ v[2] = tics /\ v[3] = stamps
        OBVIOUS
    <2>9. \A f \in 1..3 : Fits(f, v[f])
        <3>1. Fits(1, data) /\ Fits(2, tics) /\ Fits(3, stamps)
            <4> DEFINE total == [t \in 1..n |-> TotalOf(Seen(t))]
            <4>1. /\ \A t \in 1..n : total[t] \in Nat
                  /\ tics = [t \in 1..n |-> total[t] % 2^Bits32]
                BY <2>5, <2>6
            <4> HIDE DEF total
            <4> QED
                BY <2>2, <2>6, <4>1, FieldsFit DEF data
        <3> HIDE DEF v
        <3> QED
            BY <2>8, <3>1
    <2>10. MessageParse(MessageSerialize([value |-> v, unknown |-> <<>>])).message.value = v
        BY <2>8, <2>9, MessageArrives
    <2> HIDE DEF v
    <2>11. got = v
        BY <2>4, <2>10
    <2> QED
        BY <2>2, <2>4, <2>6, <2>7, <2>8, <2>11
<1> QED
    BY <1>1, CodecInvariant, PTL

=============================================================================
