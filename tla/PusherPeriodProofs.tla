------------------------- MODULE PusherPeriodProofs -------------------------
(***************************************************************************)
(* The request for markers is of whole markers and fits the buffer, for    *)
(* every size of a marker, number of triggers and multiplier, and whatever *)
(* backlog the card holds when the measurement begins.  And the period     *)
(* that is replied is the pusher's: what is seen of the triggers is        *)
(* explained by the times they came at, and all but three of the           *)
(* differences are a period.                                               *)
(***************************************************************************)
EXTENDS PusherPeriod, SequenceTheorems, FiniteSetTheorems, WellFoundedInduction, TLAPS

-----------------------------------------------------------------------------
(* Division *)

\* A number is its whole multiple and a rest.
LEMMA Division ==
    ASSUME NEW a \in Nat, NEW h \in Nat \ {0}
    PROVE  /\ a \div h \in Nat /\ a % h \in 0..h - 1
           /\ a = h * (a \div h) + (a % h)
BY SMT

\* A multiple has no rest.
LEMMA NoRest ==
    ASSUME NEW k \in Nat, NEW h \in Nat \ {0}
    PROVE  (h * k) % h = 0 /\ (h * k) \div h = k
<1> DEFINE q == (h * k) \div h
           r == (h * k) % h
<1>1. h * k \in Nat
    BY SMT
<1>2. q \in Nat /\ r \in 0..h - 1 /\ h * k = h * q + r
    BY <1>1, Division
<1> HIDE DEF q, r
<1>3. q = k
    BY <1>2, SMT
<1> QED
    BY <1>2, <1>3, SMT DEF q, r

\* A product of positive numbers is not below either.
LEMMA Positive ==
    ASSUME NEW a \in Nat \ {0}, NEW b \in Nat \ {0}
    PROVE  a * b \in Nat /\ a * b >= a /\ a * b >= b
BY SMT

-----------------------------------------------------------------------------
(* The request *)

\* What is asked for, whatever the backlog: more than nothing, whole markers,
\* no more than the buffer holds.
LEMMA RequestIs ==
    ASSUME available \in Nat
    PROVE  /\ NextRequest \in Nat /\ Aligned(NextRequest)
           /\ NextRequest <= markers_request_max
<1> DEFINE h == HunkSize
           least == markers_to_acquire
           max == markers_request_max
<1>1. h \in Nat \ {0} /\ Triggers \in Nat \ {0} /\ MaxMultiplier \in Nat \ {0}
    BY PeriodAssumption
<1>2. /\ least \in Nat /\ least >= h /\ least > 0
      /\ max \in Nat /\ least <= max
    <2>1. least \in Nat /\ least >= h
        BY <1>1, Positive DEF markers_to_acquire
    <2>2. least \in Nat \ {0}
        BY <1>1, <2>1
    <2>3. max \in Nat /\ least <= max
        BY <1>1, <2>2, Positive DEF markers_request_max
    <2> QED
        BY <2>1, <2>2, <2>3
<1>3. least % h = 0
    <2>1. least = h * Triggers
        BY <1>1, SMT DEF markers_to_acquire
    <2> QED
        BY <1>1, <2>1, NoRest
<1>4. NextRequest = IF available > least
                    THEN LET most == IF available < max THEN available ELSE max
                         IN  most - (most % h)
                    ELSE least
    BY DEF NextRequest
<1> HIDE DEF h, least, max
<1>5. CASE available > least
    <2> DEFINE most == IF available < max THEN available ELSE max
    <2>1. most \in Nat /\ most >= least /\ most <= max
        BY <1>2, <1>5
    <2>2. NextRequest = most - (most % h)
        BY <1>4, <1>5
    <2> HIDE DEF most
    <2> DEFINE k == most \div h
               rest == most % h
    <2>3. k \in Nat /\ rest \in 0..h - 1 /\ most = h * k + rest
        BY <1>1, <2>1, Division
    <2>4. h * k \in Nat
        BY <1>1, <2>3, SMT
    <2>5. NextRequest = most - rest
        BY <2>2
    <2>6. (h * k) % h = 0
        BY <1>1, <2>3, NoRest
    <2> HIDE DEF k, rest
    <2> DEFINE hk == h * k
    <2>7. hk \in Nat /\ hk % h = 0 /\ most = hk + rest
        BY <2>3, <2>4, <2>6
    <2> HIDE DEF hk
    <2>8. NextRequest = hk
        BY <2>1, <2>3, <2>5, <2>7
    <2>9. hk > 0 /\ hk <= max
        BY <1>1, <1>2, <2>1, <2>3, <2>7
    <2> QED
        BY <2>7, <2>8, <2>9 DEF Aligned, h, max
<1>6. CASE ~(available > least)
    BY <1>2, <1>3, <1>4, <1>6 DEF Aligned, h, max
<1> QED
    BY <1>5, <1>6

-----------------------------------------------------------------------------
(* The backlog *)

\* A function on 1..n is a sequence of its values.
LEMMA IsSeq ==
    ASSUME NEW s, Len(s) \in Nat, s = [i \in 1..Len(s) |-> s[i]]
    PROVE  s \in Seq({s[i] : i \in 1..Len(s)})
<1> DEFINE S == {s[i] : i \in 1..Len(s)}
<1>1. s \in [1..Len(s) -> S]
    OBVIOUS
<1> QED
    BY <1>1, SeqDef

\* A sequence is a function on 1..n.
LEMMA SeqIs ==
    ASSUME NEW S, NEW s \in Seq(S)
    PROVE  Len(s) \in Nat /\ s = [i \in 1..Len(s) |-> s[i]]
BY LenProperties

\* Nothing is left in the stream at first.
LEMMA InitBacklog == Init => BacklogInv
<1> SUFFICES ASSUME Init PROVE BacklogInv
    OBVIOUS
<1>1. PICK l \in Leftovers : stream = [i \in DOMAIN l.markers |->
               IF l.markers[i] = 0 THEN NoTrigger
               ELSE Marker(Wrap(l.from + l.markers[i] * period))]
    BY DEF Init
<1> DEFINE m == l.markers
<1>2. Len(m) \in Nat /\ DOMAIN m = 1..Len(m)
    BY LeftoversAssumption, LenProperties
<1>3. DOMAIN stream = 1..Len(m)
    BY <1>1, <1>2
<1> DEFINE S == {stream[i] : i \in 1..Len(m)}
<1>4. stream \in [1..Len(m) -> S]
    BY <1>1, <1>3
<1> HIDE DEF S, m
<1>5. stream \in Seq(S)
    BY <1>2, <1>4, SeqDef
<1>6. 0 \in 0..HunkSize - 1
    BY PeriodAssumption
<1> QED
    BY <1>5, <1>6, SeqIs DEF Init, BacklogInv

\* What a fetch gives is no more than is there.
LEMMA ThereIs ==
    ASSUME BacklogInv
    PROVE  (IF Len(stream) * HunkSize < NextRequest THEN Len(stream)
            ELSE NextRequest \div HunkSize) \in 0..Len(stream)
<1> DEFINE len == Len(stream)
           r == NextRequest
           q == r \div HunkSize
           rest == r % HunkSize
<1>1. HunkSize \in Nat \ {0} /\ r \in Nat /\ len \in Nat
    BY PeriodAssumption, RequestIs DEF BacklogInv
<1>2. q \in Nat /\ rest \in 0..HunkSize - 1 /\ r = HunkSize * q + rest
    BY <1>1, Division
<1> HIDE DEF q, rest, len, r
<1>3. ~(len * HunkSize < r) => q <= len
    BY <1>1, <1>2, SMTT(60)
<1>4. (IF len * HunkSize < r THEN len ELSE q) \in 0..len
    BY <1>1, <1>2, <1>3
<1> QED
    BY <1>4 DEF q, len, r

\* What is left after a fetch is what was there without the markers fetched.
LEMMA FetchBacklog ==
    ASSUME BacklogInv, NEW given \in BOOLEAN, FetchMarkers(given)
    PROVE  BacklogInv'
<1> DEFINE len == Len(stream)
           there == IF len * HunkSize < NextRequest THEN len ELSE NextRequest \div HunkSize
           n == IF given THEN there ELSE 0
           S == {stream[i] : i \in 1..len}
<1>1. stream' = SubSeq(stream, n + 1, len) /\ tail' = tail
      /\ available' = (len - n) * HunkSize + tail
    BY DEF FetchMarkers
<1>2. /\ HunkSize \in Nat \ {0} /\ NextRequest \in Nat /\ len \in Nat /\ tail \in 0..HunkSize - 1
      /\ stream \in Seq(S)
    BY PeriodAssumption, RequestIs, IsSeq DEF BacklogInv
<1>3. n \in 0..len
    <2>1. there \in 0..len
        BY ThereIs
    <2> QED
        BY <1>2, <2>1
<1> HIDE DEF n, S
<1>4. stream' \in Seq(S)
    <2>1. n + 1 \in Int /\ len \in Int
        BY <1>2, <1>3
    <2>2. \A i \in n + 1..len : i \in 1..len
        BY <1>2, <1>3
    <2> QED
        BY <1>1, <1>2, <2>1, <2>2, SubSeqProperties
<1>5. available' \in Nat
    <2> DEFINE rest == len - n
    <2>1. rest \in Nat
        BY <1>2, <1>3
    <2> HIDE DEF rest
    <2>2. rest * HunkSize \in Nat
        BY <1>2, <2>1, SMTT(60)
    <2>3. available' = rest * HunkSize + tail
        BY <1>1 DEF rest
    <2> DEFINE whole == rest * HunkSize
    <2> HIDE DEF whole
    <2> QED
        BY <1>2, <2>2, <2>3 DEF whole
<1> QED
    BY <1>1, <1>2, <1>4, <1>5, SeqIs DEF BacklogInv

\* A fetch, a flush and a new attempt leave the backlog one of whole markers and
\* of the one being written.
LEMMA BacklogKeeps == ASSUME BacklogInv, [Next]_vars PROVE BacklogInv'
<1>1. 0 \in 0..HunkSize - 1 /\ 0 \in Nat
    BY PeriodAssumption
<1>2. ASSUME UNCHANGED <<stream, tail>>, available' = available \/ available' = 0
      PROVE  BacklogInv'
    BY <1>1, <1>2 DEF BacklogInv
<1>3. ASSUME NEW given \in BOOLEAN, FetchMarkers(given) PROVE BacklogInv'
    BY <1>3, FetchBacklog
<1>4. ASSUME NEW enough \in BOOLEAN, FetchSamples(enough) PROVE BacklogInv'
    BY <1>2, <1>4 DEF FetchSamples, card
<1>5. ASSUME FetchFails \/ Start \/ GiveUp \/ CreateTimingInformation \/ Expire \/ UNCHANGED vars
      PROVE  BacklogInv'
    BY <1>2, <1>5 DEF FetchFails, Start, GiveUp, CreateTimingInformation, Expire, card, vars
<1>6. ASSUME NEW kept \in BOOLEAN, NEW g \in Gaps, Restart(kept, g) PROVE BacklogInv'
    <2>1. /\ stream' = stream \/ stream' = <<>>
          /\ tail' = 0 /\ available' = available
        BY <1>6 DEF Restart
    <2>2. Len(<<>>) = 0 /\ <<>> = [i \in 1..0 |-> <<>>[i]]
        OBVIOUS
    <2> QED
        BY <1>1, <2>1, <2>2 DEF BacklogInv
<1>7. ASSUME NEW part \in 0..(HunkSize - 1), Fire(part) PROVE BacklogInv'
    <2> DEFINE S == {stream[i] : i \in 1..Len(stream)}
               e == Marker(clock)
    <2>1. stream' = Append(stream, e) /\ tail' = part /\ available' = available
        BY <1>7 DEF Fire
    <2>2. stream \in Seq(S)
        BY IsSeq DEF BacklogInv
    <2> HIDE DEF S, e
    <2>3. stream \in Seq(S \cup {e})
        BY <2>2, SeqDef
    <2>4. stream' \in Seq(S \cup {e})
        BY <2>1, <2>3, AppendProperties
    <2> QED
        BY <1>7, <2>1, <2>4, SeqIs DEF BacklogInv
<1> QED
    BY <1>3, <1>4, <1>5, <1>6, <1>7 DEF Next, AcquireStep, TimingStep

-----------------------------------------------------------------------------
(* The middle of the differences *)

\* What is left of 1..n without a part of it.
LEMMA Complement ==
    ASSUME NEW n \in Nat, NEW B, B \subseteq 1..n
    PROVE  /\ IsFiniteSet(B) /\ IsFiniteSet((1..n) \ B)
           /\ Cardinality(B) \in Nat /\ Cardinality((1..n) \ B) \in Nat
           /\ Cardinality((1..n) \ B) = n - Cardinality(B)
<1>1. IsFiniteSet(1..n) /\ Cardinality(1..n) = n
    BY FS_Interval
<1> DEFINE all == 1..n
<1>2. IsFiniteSet(all) /\ Cardinality(all) = n /\ B \subseteq all
    BY <1>1
<1> HIDE DEF all
<1>3. IsFiniteSet(B)
    BY <1>2, FS_Subset
<1>4. all \cap B = B
    BY <1>2
<1>5. IsFiniteSet(all \ B) /\ Cardinality(all \ B) = Cardinality(all) - Cardinality(all \cap B)
    BY <1>2, FS_Difference
<1>6. Cardinality(B) \in Nat /\ Cardinality(all \ B) \in Nat
    BY <1>3, <1>5, FS_CardinalityType
<1> QED
    BY <1>2, <1>3, <1>4, <1>5, <1>6 DEF all

\* The middle of n differences is the value that more than half of them have.
LEMMA MajorityIsMiddle ==
    ASSUME NEW n \in Nat, NEW ds \in [1..n -> Nat], NEW p \in Nat,
           NEW B, B \subseteq 1..n, 2 * Cardinality(B) < n,
           \A i \in (1..n) \ B : ds[i] = p
    PROVE  MiddleOf(ds) = p
<1> DEFINE before == Len(ds) \div 2
           all == 1..n
           G == all \ B
           Below(v) == {i \in DOMAIN ds : ds[i] < v}
           UpTo(v) == {i \in DOMAIN ds : ds[i] <= v}
           Is(v) == Cardinality(Below(v)) <= before /\ before < Cardinality(UpTo(v))
<1>1. Len(ds) = n /\ DOMAIN ds = all
    BY LenProperties
<1>2. IsFiniteSet(all) /\ Cardinality(all) = n
    BY FS_Interval
<1>3. /\ IsFiniteSet(B) /\ IsFiniteSet(G)
      /\ Cardinality(B) \in Nat /\ Cardinality(G) \in Nat
      /\ Cardinality(G) = n - Cardinality(B)
    BY Complement
<1>4. before \in Nat /\ Cardinality(B) <= before /\ before < Cardinality(G)
    <2> DEFINE b == Cardinality(B)
    <2>1. b \in Nat /\ 2 * b < n
        BY <1>3
    <2> HIDE DEF b
    <2>2. n \div 2 \in Nat /\ b <= n \div 2 /\ n \div 2 < n - b
        BY <2>1, SMTT(60)
    <2> QED
        BY <1>1, <1>3, <2>2 DEF b
<1>5. ASSUME NEW v, NEW T, T = Below(v) \/ T = UpTo(v)
      PROVE  T \subseteq all /\ IsFiniteSet(T) /\ Cardinality(T) \in Nat
    <2>1. T \subseteq all
        BY <1>1, <1>5
    <2> QED
        BY <1>2, <2>1, FS_Subset, FS_CardinalityType
<1>6. ASSUME NEW S, NEW T, S \subseteq T, IsFiniteSet(T)
      PROVE  Cardinality(S) <= Cardinality(T)
    BY <1>6, FS_Subset
<1>7. Is(p)
    <2>1. Below(p) \subseteq B /\ G \subseteq UpTo(p)
        BY <1>1
    <2>2. /\ Cardinality(Below(p)) \in Nat /\ Cardinality(UpTo(p)) \in Nat
          /\ IsFiniteSet(UpTo(p))
        BY <1>5
    <2>3. Cardinality(Below(p)) <= Cardinality(B) /\ Cardinality(G) <= Cardinality(UpTo(p))
        BY <1>3, <1>6, <2>1, <2>2
    <2> HIDE DEF before, Below, UpTo, G
    <2> QED
        BY <1>3, <1>4, <2>2, <2>3
<1>8. ASSUME NEW v \in Nat, Is(v) PROVE v = p
    <2>a. /\ Cardinality(Below(v)) <= before /\ before < Cardinality(UpTo(v))
          /\ Cardinality(Below(v)) \in Nat /\ Cardinality(UpTo(v)) \in Nat
        BY <1>5, <1>8
    <2>b. Cardinality(B) <= before /\ before < Cardinality(G) /\ before \in Nat
          /\ Cardinality(B) \in Nat /\ Cardinality(G) \in Nat
        BY <1>3, <1>4
    <2>1. CASE v < p
        <3>1. UpTo(v) \subseteq B
            BY <1>1, <2>1
        <3>2. Cardinality(UpTo(v)) \in Nat
            BY <1>5
        <3>3. Cardinality(UpTo(v)) <= Cardinality(B)
            BY <1>3, <1>6, <3>1
        <3> HIDE DEF before, Below, UpTo, G
        <3> QED
            BY <2>a, <2>b, <3>3
    <2>2. CASE v > p
        <3>1. G \subseteq Below(v)
            BY <1>1, <2>2
        <3>2. Cardinality(Below(v)) \in Nat /\ IsFiniteSet(Below(v))
            BY <1>5
        <3>3. Cardinality(G) <= Cardinality(Below(v))
            BY <1>6, <3>1, <3>2
        <3> HIDE DEF before, Below, UpTo, G
        <3> QED
            BY <2>a, <2>b, <3>3
    <2> QED
        BY <2>1, <2>2
<1>9. p \in Range(ds) /\ Range(ds) \subseteq Nat
    <2>1. G # {}
        <3>0. Cardinality(G) \in Nat
            BY <1>3
        <3>1. Cardinality({}) = 0
            BY FS_EmptySet
        <3>2. before \in Nat /\ before < Cardinality(G)
            BY <1>4
        <3> HIDE DEF before, G
        <3>3. Cardinality(G) # 0
            BY <3>0, <3>2
        <3> QED
            BY <3>1, <3>3
    <2>2. PICK i \in G : TRUE
        BY <2>1
    <2>3. i \in DOMAIN ds /\ ds[i] = p
        BY <1>1, <2>2
    <2> QED
        BY <1>1, <2>3 DEF Range
<1>10. MiddleOf(ds) = CHOOSE v \in Range(ds) : Is(v)
    BY DEF MiddleOf
<1> HIDE DEF Is
<1> QED
    BY <1>7, <1>8, <1>9, <1>10

-----------------------------------------------------------------------------
(* Recursive functions *)

\* Induction, for the set of the numbers that have the property.
LEMMA Induction ==
    ASSUME NEW S, 0 \in S, \A n \in Nat : n \in S => n + 1 \in S
    PROVE  Nat \subseteq S
<1> DEFINE R == OpToRel(<, Nat)
           T == Nat \ S
<1>1. IsWellFoundedOn(R, Nat)
    BY NatLessThanWellFounded
<1>2. SUFFICES ASSUME T # {} PROVE FALSE
    OBVIOUS
<1>3. T \subseteq Nat
    OBVIOUS
<1>4. \A i, j \in Nat : i < j => <<i, j>> \in R
    BY DEF OpToRel
<1> HIDE DEF R, T
<1>5. PICK m \in T : \A j \in T : ~(<<j, m>> \in R)
    BY <1>1, <1>2, <1>3, WFMin
<1> USE DEF T
<1>6. m \in Nat /\ m # 0
    BY <1>5
<1>7. m - 1 \in Nat /\ m - 1 < m /\ (m - 1) + 1 = m
    BY <1>6
<1>8. m - 1 \in T
    BY <1>5, <1>7
<1> QED
    BY <1>4, <1>5, <1>6, <1>7, <1>8

\* f is v0 at first and then what G makes of the value before.
Runs(f, v0, n, G) == f[0] = v0 /\ \A k \in 1..n : f[k] = G[<<k, f[k - 1]>>]

\* f is one on 0..n, and whatever goes on the same way is f there.
Solves(f, V, v0, n, G) ==
    /\ f \in [0..n -> V]
    /\ Runs(f, v0, n, G)
    /\ \A d : d[0] = v0 /\ (\A k \in 1..n : d[k - 1] \in V => d[k] = G[<<k, d[k - 1]>>])
              => \A k \in 0..n : d[k] = f[k]

\* There is one.
LEMMA Recursion ==
    ASSUME NEW V, NEW v0 \in V, NEW n \in Nat, NEW G \in [(1..n) \X V -> V]
    PROVE  \E f : Solves(f, V, v0, n, G)
<1> DEFINE S == {m \in Nat : m <= n => \E f \in [0..m -> V] : Runs(f, v0, m, G)}
<1>1. 0 \in S
    <2> DEFINE f == [k \in 0..0 |-> v0]
    <2>1. f \in [0..0 -> V] /\ Runs(f, v0, 0, G)
        BY DEF Runs
    <2> QED
        BY <2>1
<1>2. ASSUME NEW m \in Nat, m \in S PROVE m + 1 \in S
    <2>1. SUFFICES ASSUME m + 1 <= n PROVE \E f \in [0..(m + 1) -> V] : Runs(f, v0, m + 1, G)
        OBVIOUS
    <2>2. PICK f \in [0..m -> V] : Runs(f, v0, m, G)
        BY <1>2, <2>1
    <2> DEFINE x == G[<<m + 1, f[m]>>]
               g == [k \in 0..(m + 1) |-> IF k = m + 1 THEN x ELSE f[k]]
    <2>3. x \in V
        <3>1. m + 1 \in 1..n /\ f[m] \in V
            BY <2>1, <2>2
        <3> QED
            BY <3>1
    <2>4. g[0] = v0
        BY <2>2 DEF Runs
    <2>5. ASSUME NEW k \in 1..(m + 1) PROVE g[k] = G[<<k, g[k - 1]>>]
        <3>1. CASE k = m + 1
            <4>1. k - 1 = m /\ m \in 0..(m + 1) /\ m # m + 1
                BY <3>1
            <4> QED
                BY <3>1, <4>1
        <3>2. CASE k # m + 1
            <4>1. k \in 1..m /\ k - 1 \in 0..(m + 1) /\ k - 1 # m + 1
                BY <3>2
            <4>2. f[k] = G[<<k, f[k - 1]>>]
                BY <2>2, <4>1 DEF Runs
            <4> QED
                BY <3>2, <4>1, <4>2
        <3> QED
            BY <3>1, <3>2
    <2>6. g \in [0..(m + 1) -> V]
        <3> HIDE DEF x
        <3>1. ASSUME NEW k \in 0..(m + 1) PROVE g[k] \in V
            <4>1. k # m + 1 => k \in 0..m
                OBVIOUS
            <4> QED
                BY <2>2, <2>3, <4>1
        <3> QED
            BY <3>1
    <2> HIDE DEF g
    <2>7. Runs(g, v0, m + 1, G)
        BY <2>4, <2>5 DEF Runs
    <2> QED
        BY <2>6, <2>7
<1> HIDE DEF S
<1>3. Nat \subseteq S
    BY <1>1, <1>2, Induction
<1>4. PICK f \in [0..n -> V] : Runs(f, v0, n, G)
    <2>1. n \in S /\ n <= n
        BY <1>3
    <2> QED
        BY <2>1 DEF S
<1>5. ASSUME NEW d, d[0] = v0, \A k \in 1..n : d[k - 1] \in V => d[k] = G[<<k, d[k - 1]>>]
      PROVE  \A k \in 0..n : d[k] = f[k]
    <2> DEFINE T == {m \in Nat : m <= n => d[m] = f[m]}
    <2>1. 0 \in T
        BY <1>4, <1>5 DEF Runs
    <2>2. ASSUME NEW m \in Nat, m \in T PROVE m + 1 \in T
        <3>1. SUFFICES ASSUME m + 1 <= n PROVE d[m + 1] = f[m + 1]
            OBVIOUS
        <3>2. m + 1 \in 1..n /\ (m + 1) - 1 = m /\ m \in 0..n /\ d[m] = f[m]
            BY <2>2, <3>1
        <3>3. d[m] \in V
            BY <1>4, <3>2
        <3>4. f[m + 1] = G[<<m + 1, f[m]>>]
            BY <1>4, <3>2 DEF Runs
        <3>5. d[m + 1] = G[<<m + 1, d[m]>>]
            BY <1>5, <3>2, <3>3
        <3> QED
            BY <3>2, <3>4, <3>5
    <2> HIDE DEF T
    <2>3. Nat \subseteq T
        BY <2>1, <2>2, Induction
    <2> QED
        BY <2>3 DEF T
<1> QED
    BY <1>4, <1>5 DEF Solves

-----------------------------------------------------------------------------
(* The clock of the card *)

Ring == 2^TsBits

\* The time at which the counter is at 0 again, after a time.
Turn(origin) == Ring * (origin \div Ring + 1)

\* A whole multiple more does not change the rest.
LEMMA RestIs ==
    ASSUME NEW m \in Nat \ {0}, NEW k \in Nat, NEW r \in 0..m - 1
    PROVE  m * k + r \in Nat /\ (m * k + r) % m = r
<1> DEFINE a == m * k + r
           q == a \div m
           rest == a % m
<1>1. a \in Nat
    BY SMT
<1>2. q \in Nat /\ rest \in 0..m - 1 /\ a = m * q + rest
    BY <1>1, Division
<1> HIDE DEF q, rest
<1>3. q = k
    BY <1>2, SMTT(60)
<1>4. rest = r
    BY <1>2, <1>3, SMT
<1> QED
    BY <1>1, <1>4 DEF rest

\* What the counter shows, from a time until it has run through its range.
LEMMA WrapIs ==
    ASSUME NEW origin \in Nat, NEW v \in Nat, origin <= v, v < origin + Ring
    PROVE  /\ Turn(origin) \in Nat /\ origin < Turn(origin)
           /\ Wrap(v) \in Nat
           /\ Wrap(v) = IF v < Turn(origin) THEN v - (Turn(origin) - Ring) ELSE v - Turn(origin)
<1> DEFINE m == Ring
           q == origin \div m
           r == origin % m
           base == m * q
<1>1. m \in Nat \ {0}
    BY TimeAssumption DEF Ring
<1>2. q \in Nat /\ r \in 0..m - 1 /\ origin = base + r
    BY <1>1, Division
<1> HIDE DEF m, q, r
<1>3. base \in Nat /\ m * (q + 1) = base + m
    BY <1>1, <1>2, SMT
<1>4. Turn(origin) = m * (q + 1) /\ Wrap(v) = v % m /\ Ring = m
    BY DEF Turn, Wrap, m, q, Ring
<1>5. ASSUME v < base + m PROVE v % m = v - base
    <2> DEFINE d == v - base
    <2>1. d \in 0..m - 1 /\ v = base + d
        BY <1>1, <1>2, <1>3, <1>4, <1>5
    <2> HIDE DEF d
    <2> QED
        BY <1>1, <1>2, <1>3, <2>1, RestIs
<1>6. ASSUME ~(v < base + m) PROVE v % m = v - (base + m)
    <2> DEFINE d == v - (base + m)
    <2>1. d \in 0..m - 1 /\ v = (base + m) + d
        BY <1>1, <1>2, <1>3, <1>4, <1>6
    <2>2. q + 1 \in Nat /\ v = m * (q + 1) + d
        BY <1>2, <1>3, <2>1
    <2> HIDE DEF d
    <2>3. (m * (q + 1) + d) % m = d
        BY <1>1, <2>1, <2>2, RestIs
    <2>4. v % m = d
        BY <2>2, <2>3
    <2> QED
        BY <2>4 DEF d
<1> HIDE DEF base
<1> QED
    BY <1>1, <1>2, <1>3, <1>4, <1>5, <1>6

\* The counter goes on from what it shows.
LEMMA WrapGoesOn ==
    ASSUME NEW v \in Nat, NEW p \in Nat
    PROVE  Wrap(Wrap(v) + p) = Wrap(v + p)
<1> DEFINE m == Ring
           q == v \div m
           r == v % m
           q2 == (r + p) \div m
           r2 == (r + p) % m
<1>1. m \in Nat \ {0}
    BY TimeAssumption DEF Ring
<1>2. q \in Nat /\ r \in 0..m - 1 /\ v = m * q + r
    BY <1>1, Division
<1> HIDE DEF q, r
<1>3. r + p \in Nat
    BY <1>2
<1>4. q2 \in Nat /\ r2 \in 0..m - 1 /\ r + p = m * q2 + r2
    BY <1>1, <1>3, Division
<1> HIDE DEF q2, r2, m
<1>5. v + p = m * (q + q2) + r2 /\ q + q2 \in Nat
    BY <1>1, <1>2, <1>4, SMTT(60)
<1>6. (v + p) % m = r2
    BY <1>1, <1>4, <1>5, RestIs, ZenonT(60)
<1> QED
    BY <1>6 DEF Wrap, m, q, r, r2, Ring

\* The difference of what the counter shows at two times a period apart, with no
\* turn in between.
LEMMA DifferenceIs ==
    ASSUME NEW origin \in Nat, NEW a \in Nat, NEW p \in Periods,
           origin <= a, a + p < origin + Ring, ~(a < Turn(origin) /\ Turn(origin) <= a + p)
    PROVE  (Wrap(a + p) - Wrap(a)) % 2^WordBits = p
<1> DEFINE W == 2^WordBits
           t == Turn(origin)
           wa == Wrap(a)
           wb == Wrap(a + p)
<1>1. p \in Nat /\ W \in Nat /\ p < W
    BY PeriodAssumption, TimeAssumption
<1>2. Ring \in Nat
    BY TimeAssumption DEF Ring
<1>3. a < origin + Ring /\ a + p \in Nat /\ origin <= a + p
    BY <1>1, <1>2
<1>4. t \in Nat
    BY <1>3, WrapIs
<1>5. wa = IF a < t THEN a - (t - Ring) ELSE a - t
    BY <1>3, WrapIs
<1>6. wb = IF a + p < t THEN (a + p) - (t - Ring) ELSE (a + p) - t
    BY <1>3, WrapIs
<1> HIDE DEF W, t, wa, wb
<1>7. wb - wa = p
    BY <1>1, <1>2, <1>5, <1>6, <1>4 DEF t
<1>8. p % W = p
    BY <1>1, SMT
<1> QED
    BY <1>7, <1>8 DEF W, wa, wb

-----------------------------------------------------------------------------
(* The markers of a fetch *)

\* The time stamps after k markers.
Taken(f, hunks) ==
    /\ f \in [0..Len(hunks) -> Seq(Nat)]
    /\ f[0] = stamps
    /\ \A k \in 1..Len(hunks) :
           f[k] = IF hunks[k].trigger /\ Len(f[k - 1]) < Triggers
                  THEN Append(f[k - 1], hunks[k].ts)
                  ELSE f[k - 1]

\* What the loop over the markers of a fetch collects, one at a time.
LEMMA CollectIs ==
    ASSUME stamps \in Seq(Nat), NEW hunks, Len(hunks) \in Nat,
           \A k \in 1..Len(hunks) : hunks[k].trigger => hunks[k].ts \in Nat
    PROVE  \E f : Taken(f, hunks) /\ Collect(hunks) = f[Len(hunks)]
<1> DEFINE n == Len(hunks)
           V == Seq(Nat)
           Go(k, s) == IF hunks[k].trigger /\ Len(s) < Triggers THEN Append(s, hunks[k].ts) ELSE s
           G == [x \in (1..n) \X V |-> Go(x[1], x[2])]
<1>1. G \in [(1..n) \X V -> V]
    <2>1. ASSUME NEW x \in (1..n) \X V PROVE Go(x[1], x[2]) \in V
        <3>1. x[1] \in 1..n /\ x[2] \in V
            OBVIOUS
        <3>2. hunks[x[1]].trigger => Append(x[2], hunks[x[1]].ts) \in V
            BY <3>1, AppendProperties
        <3> QED
            BY <3>1, <3>2
    <2> QED
        BY <2>1
<1>2. \A k \in 1..n, s \in V : G[<<k, s>>] = Go(k, s)
    OBVIOUS
<1> HIDE DEF G
<1>3. PICK f : Solves(f, V, stamps, n, G)
    <2> HIDE DEF n, V
    <2>1. n \in Nat /\ stamps \in V
        BY DEF n, V
    <2> QED
        BY <1>1, <2>1, Recursion
<1>4. f \in [0..n -> V] /\ f[0] = stamps /\ \A k \in 1..n : f[k] = Go(k, f[k - 1])
    <2>1. ASSUME NEW k \in 1..n PROVE f[k] = Go(k, f[k - 1])
        <3>1. k - 1 \in 0..n
            OBVIOUS
        <3>2. f[k - 1] \in V
            BY <1>3, <3>1 DEF Solves
        <3> HIDE DEF Go, V
        <3> QED
            BY <1>2, <1>3, <3>2 DEF Runs, Solves
    <2> QED
        BY <1>3, <2>1 DEF Runs, Solves
<1> DEFINE step(h) == [k \in 0..n |-> IF k = 0 THEN stamps ELSE Go(k, h[k - 1])]
           d == CHOOSE h : h = step(h)
<1>5. f = step(f)
    <2> HIDE DEF Go
    <2>1. ASSUME NEW k \in 0..n PROVE f[k] = step(f)[k]
        <3>1. CASE k = 0
            BY <1>4, <3>1
        <3>2. CASE k # 0
            <4>1. k \in 1..n
                BY <3>2, SMTT(60)
            <4> QED
                BY <1>4, <3>2, <4>1
        <3> QED
            BY <3>1, <3>2
    <2> QED
        BY <1>4, <2>1
<1>6. d = step(d)
    BY <1>5
<1>7. Collect(hunks) = d[n]
    BY DEF Collect
<1> HIDE DEF d
<1>8. d[0] = stamps /\ \A k \in 1..n : d[k] = Go(k, d[k - 1])
    <2> HIDE DEF Go
    <2>1. d[0] = stamps
        <3>1. 0 \in 0..n
            OBVIOUS
        <3> QED
            BY <1>6, <3>1
    <2>2. ASSUME NEW k \in 1..n PROVE d[k] = Go(k, d[k - 1])
        <3>1. k \in 0..n /\ k # 0
            OBVIOUS
        <3> QED
            BY <1>6, <3>1
    <2> QED
        BY <2>1, <2>2
<1>9. Collect(hunks) = f[n]
    <2>1. \A k \in 1..n : d[k - 1] \in V => d[k] = G[<<k, d[k - 1]>>]
        <3> HIDE DEF Go, V
        <3> QED
            BY <1>2, <1>8
    <2>2. \A k \in 0..n : d[k] = f[k]
        BY <1>3, <1>8, <2>1 DEF Solves
    <2>3. n \in 0..n
        OBVIOUS
    <2> QED
        BY <1>7, <2>2, <2>3
<1>10. Taken(f, hunks)
    BY <1>4 DEF Taken
<1> QED
    BY <1>9, <1>10

-----------------------------------------------------------------------------
(* The times of the triggers *)

\* From one trigger to the next is a period, unless something is in between: the
\* beginning of an acquisition, or a turn of the counter.
Steps(a, b, cuts) == a < b /\ ((\A c \in cuts : ~(a < c /\ c <= b)) => b = a + period)

\* The triggers in the stream came at some times: w[k] is the time of the last one
\* up to the k-th marker.
StreamTimes(origin, now, cuts, w) ==
    /\ w \in [0..Len(stream) -> origin..now]
    /\ \A k \in 1..Len(stream) :
           IF stream[k].trigger
           THEN stream[k].ts = Wrap(w[k]) /\ Steps(w[k - 1], w[k], cuts)
           ELSE w[k] = w[k - 1]
    /\ Steps(w[Len(stream)], now, cuts)

\* And so did those that have been collected; if there is one and not yet enough,
\* then the last came at a given time.
StampTimes(s, origin, now, cuts, u, last) ==
    /\ s \in Seq(Nat) /\ Len(s) <= Triggers
    /\ u \in [1..Len(s) -> origin..now]
    /\ \A i \in 1..Len(s) : s[i] = Wrap(u[i])
    /\ \A i \in 1..Len(s) - 1 : Steps(u[i], u[i + 1], cuts)
    /\ Len(s) \in 1..Triggers - 1 => u[Len(s)] = last

\* The time that has passed: the gap before each acquisition, and the periods.
Elapsed(origin, now) ==
    \E g \in Gaps :
        \/ now = origin + g + made * period
        \/ attempt = 2 /\ \E h \in Gaps : now = origin + g + h + made * period

\* What lies between the triggers: a turn of the counter, and the beginnings of
\* the acquisitions.
Cuts(origin, cuts) ==
    /\ cuts \subseteq Nat /\ IsFiniteSet(cuts) /\ Cardinality(cuts) <= attempt + 1
    /\ Turn(origin) \in cuts

\* All of it.
Timed(origin, now, cuts, w, u, last) ==
    /\ origin \in Nat /\ now \in Nat
    /\ clock = Wrap(now)
    /\ Elapsed(origin, now)
    /\ Cuts(origin, cuts)
    /\ StreamTimes(origin, now, cuts, w)
    /\ StampTimes(stamps, origin, now, cuts, u, last)
    /\ pc = "markers" => last = w[0]

\* The invariant: there are times that explain the markers and what has been
\* collected of them, and the reply is the pusher's.
MeasureInv ==
    /\ period \in Periods /\ made \in 0..MaxHunks /\ attempt \in {1, 2}
    /\ pc \in {"samples", "acquired"} => Len(stamps) = Triggers
    /\ \E origin, now, cuts, w, u, last : Timed(origin, now, cuts, w, u, last)
    /\ ReplyIsThePushers

\* What the counter shows is a number.
LEMMA WrapNat == ASSUME NEW v \in Nat PROVE Wrap(v) \in Nat
<1>1. Ring \in Nat \ {0}
    BY TimeAssumption DEF Ring
<1>2. v % Ring \in Nat
    BY <1>1, Division
<1> QED
    BY <1>2 DEF Wrap, Ring

\* One more time stamp.
LEMMA OneMoreStamp ==
    ASSUME NEW origin \in Nat, NEW now \in Nat, NEW cuts, NEW s, NEW u, NEW last,
           StampTimes(s, origin, now, cuts, u, last), Len(s) < Triggers,
           NEW t \in origin..now, Steps(last, t, cuts)
    PROVE  \E v : StampTimes(Append(s, Wrap(t)), origin, now, cuts, v, t)
<1> DEFINE n == Len(s)
           e == Wrap(t)
           a == Append(s, e)
           v == [i \in 1..n + 1 |-> IF i = n + 1 THEN t ELSE u[i]]
<1>1. /\ s \in Seq(Nat) /\ n \in Nat /\ Triggers \in Nat /\ n < Triggers
      /\ u \in [1..n -> origin..now]
      /\ \A i \in 1..n : s[i] = Wrap(u[i])
      /\ \A i \in 1..n - 1 : Steps(u[i], u[i + 1], cuts)
      /\ n \in 1..Triggers - 1 => u[n] = last
    BY PeriodAssumption, LenProperties DEF StampTimes
<1>2. e \in Nat
    <2>1. t \in Nat
        OBVIOUS
    <2> QED
        BY <2>1, WrapNat
<1>3. /\ a \in Seq(Nat) /\ Len(a) = n + 1
      /\ \A i \in 1..n : a[i] = s[i]
      /\ a[n + 1] = e
    <2> HIDE DEF e
    <2> QED
        BY <1>1, <1>2, AppendProperties
<1> HIDE DEF a
<1>4. ASSUME NEW i \in 1..n + 1 PROVE v[i] \in origin..now /\ a[i] = Wrap(v[i])
    <2>1. CASE i = n + 1
        BY <1>3, <2>1
    <2>2. CASE i # n + 1
        <3>1. i \in 1..n
            BY <1>1, <2>2
        <3> HIDE DEF n
        <3> QED
            BY <1>1, <1>3, <2>2, <3>1
    <2> QED
        BY <2>1, <2>2
<1>5. ASSUME NEW i \in 1..n PROVE Steps(v[i], v[i + 1], cuts)
    <2>1. i \in 1..n + 1 /\ i + 1 \in 1..n + 1 /\ v[i] = u[i]
        BY <1>1
    <2>2. CASE i = n
        <3>1. v[i + 1] = t /\ u[i] = last
            BY <1>1, <2>1, <2>2
        <3> HIDE DEF v
        <3> QED
            BY <2>1, <3>1
    <2>3. CASE i # n
        <3>1. i \in 1..n - 1 /\ v[i + 1] = u[i + 1]
            BY <1>1, <2>1, <2>3
        <3> HIDE DEF v
        <3> QED
            BY <1>1, <2>1, <3>1
    <2> QED
        BY <2>2, <2>3
<1>6. v \in [1..n + 1 -> origin..now]
    BY <1>4
<1>7. v[n + 1] = t /\ Len(a) <= Triggers /\ Len(a) - 1 = n
    BY <1>1, <1>3
<1> HIDE DEF v
<1>8. StampTimes(a, origin, now, cuts, v, t)
    BY <1>3, <1>4, <1>5, <1>6, <1>7 DEF StampTimes
<1> QED
    BY <1>8 DEF a

\* The markers of a fetch, one after the other.
LEMMA CollectTimes ==
    ASSUME NEW origin \in Nat, NEW now \in Nat, NEW cuts,
           NEW hunks, Len(hunks) \in Nat, NEW w \in [0..Len(hunks) -> origin..now],
           \A k \in 1..Len(hunks) :
               IF hunks[k].trigger
               THEN hunks[k].ts = Wrap(w[k]) /\ Steps(w[k - 1], w[k], cuts)
               ELSE w[k] = w[k - 1],
           NEW u, StampTimes(stamps, origin, now, cuts, u, w[0])
    PROVE  \E v : StampTimes(Collect(hunks), origin, now, cuts, v, w[Len(hunks)])
<1> DEFINE n == Len(hunks)
           Good(s, k) == \E v : StampTimes(s, origin, now, cuts, v, w[k])
<1>1. PICK f : Taken(f, hunks) /\ Collect(hunks) = f[n]
    <2>1. stamps \in Seq(Nat)
        BY DEF StampTimes
    <2>2. ASSUME NEW k \in 1..n, hunks[k].trigger PROVE hunks[k].ts \in Nat
        <3>1. w[k] \in Nat
            OBVIOUS
        <3> QED
            BY <2>2, <3>1, WrapNat
    <2> QED
        BY <2>1, <2>2, CollectIs
<1> DEFINE T == {k \in Nat : k <= n => Good(f[k], k)}
<1>2. 0 \in T
    <2>1. f[0] = stamps
        BY <1>1 DEF Taken
    <2> QED
        BY <2>1
<1>3. ASSUME NEW k \in Nat, k \in T PROVE k + 1 \in T
    <2> SUFFICES ASSUME k + 1 <= n PROVE Good(f[k + 1], k + 1)
        OBVIOUS
    <2> DEFINE j == k + 1
               h == hunks[j]
    <2>1. j \in 1..n /\ j - 1 = k /\ Good(f[k], k)
        BY <1>3
    <2>2. f[j] = IF h.trigger /\ Len(f[k]) < Triggers THEN Append(f[k], h.ts) ELSE f[k]
        BY <1>1, <2>1 DEF Taken
    <2>3. IF h.trigger THEN h.ts = Wrap(w[j]) /\ Steps(w[k], w[j], cuts) ELSE w[j] = w[k]
        BY <2>1
    <2>4. w[j] \in origin..now
        BY <2>1
    <2> HIDE DEF h, j, Good
    <2>5. CASE h.trigger /\ Len(f[k]) < Triggers
        <3>1. PICK v : StampTimes(f[k], origin, now, cuts, v, w[k])
            BY <2>1 DEF Good
        <3>2. \E x : StampTimes(Append(f[k], Wrap(w[j])), origin, now, cuts, x, w[j])
            BY <2>3, <2>4, <2>5, <3>1, OneMoreStamp
        <3> QED
            BY <2>2, <2>3, <2>5, <3>2 DEF Good, j
    <2>6. CASE h.trigger /\ ~(Len(f[k]) < Triggers)
        <3>1. PICK v : StampTimes(f[k], origin, now, cuts, v, w[k])
            BY <2>1 DEF Good
        <3>2. StampTimes(f[k], origin, now, cuts, v, w[j])
            <4>1. Len(f[k]) \in Nat /\ Triggers \in Nat
                BY <3>1, PeriodAssumption, LenProperties DEF StampTimes
            <4>2. ~(Len(f[k]) \in 1..Triggers - 1)
                BY <2>6, <4>1
            <4> QED
                BY <3>1, <4>2 DEF StampTimes
        <3> QED
            BY <2>2, <2>6, <3>2 DEF Good, j
    <2>7. CASE ~h.trigger
        BY <2>1, <2>2, <2>3, <2>7 DEF Good, j
    <2> QED
        BY <2>5, <2>6, <2>7
<1> HIDE DEF T
<1>4. n \in T
    BY <1>2, <1>3, Induction
<1> QED
    BY <1>1, <1>4 DEF T

\* The time that has passed is less than the counter takes to turn.
LEMMA TimeIsShort ==
    ASSUME NEW origin \in Nat, NEW now, Elapsed(origin, now),
           period \in Periods, made \in 0..MaxHunks
    PROVE  now \in Nat /\ origin < now /\ now < origin + Ring
<1> DEFINE m == made * period
           max == MaxHunks * period
<1>1. period \in Nat \ {0} /\ MaxHunks \in Nat /\ Gaps \subseteq Nat \ {0} /\ made \in Nat
    BY PeriodAssumption
<1>2. m \in Nat /\ max \in Nat /\ m <= max
    <2>1. made * period \in Nat /\ MaxHunks * period \in Nat
        BY <1>1, SMT
    <2>2. made * period <= MaxHunks * period
        BY <1>1, SMTT(60)
    <2> QED
        BY <2>1, <2>2
<1>3. \A g, h \in Gaps : g + h + max < Ring
    BY TimeAssumption DEF Ring
<1>4. Ring \in Nat
    BY TimeAssumption DEF Ring
<1>5. PICK g \in Gaps : \/ now = origin + g + m
                        \/ \E h \in Gaps : now = origin + g + h + m
    BY DEF Elapsed
<1> HIDE DEF m, max
<1>6. CASE now = origin + g + m
    <2>1. g + g + max < Ring
        BY <1>3
    <2> QED
        BY <1>1, <1>2, <1>4, <1>6, <2>1
<1>7. CASE \E h \in Gaps : now = origin + g + h + m
    <2>1. PICK h \in Gaps : now = origin + g + h + m
        BY <1>7
    <2>2. g + h + max < Ring
        BY <1>3
    <2> QED
        BY <1>1, <1>2, <1>4, <2>1, <2>2
<1> QED
    BY <1>5, <1>6, <1>7

-----------------------------------------------------------------------------
(* The reply *)

\* Steps only go forward.
LEMMA Increasing ==
    ASSUME NEW n \in Nat, NEW u \in [1..n + 1 -> Nat], \A i \in 1..n : u[i] < u[i + 1]
    PROVE  \A i \in 1..n + 1, j \in 1..n + 1 : i <= j => u[i] <= u[j]
<1> SUFFICES ASSUME NEW i \in 1..n + 1 PROVE \A j \in 1..n + 1 : i <= j => u[i] <= u[j]
    OBVIOUS
<1> DEFINE S == {d \in Nat : i + d <= n + 1 => u[i] <= u[i + d]}
<1>1. 0 \in S
    <2>1. i + 0 = i /\ u[i] \in Nat
        OBVIOUS
    <2> QED
        BY <2>1
<1>2. ASSUME NEW d \in Nat, d \in S PROVE d + 1 \in S
    <2> SUFFICES ASSUME i + (d + 1) <= n + 1 PROVE u[i] <= u[i + (d + 1)]
        OBVIOUS
    <2> DEFINE k == i + d
    <2>1. k \in 1..n /\ i + (d + 1) = k + 1 /\ k \in 1..n + 1 /\ k + 1 \in 1..n + 1
        OBVIOUS
    <2>2. u[i] <= u[k]
        BY <1>2, <2>1
    <2>3. u[k] < u[k + 1] /\ u[k] \in Nat /\ u[k + 1] \in Nat /\ u[i] \in Nat
        BY <2>1
    <2> HIDE DEF k
    <2> QED
        BY <2>1, <2>2, <2>3
<1> HIDE DEF S
<1>3. Nat \subseteq S
    BY <1>1, <1>2, Induction
<1>4. ASSUME NEW j \in 1..n + 1, i <= j PROVE u[i] <= u[j]
    <2>1. j - i \in Nat /\ i + (j - i) = j
        BY <1>4
    <2>2. j - i \in S
        BY <1>3, <2>1
    <2> QED
        BY <1>4, <2>1, <2>2 DEF S
<1> QED
    BY <1>4

\* Between two triggers that are not a period apart is a cut; no cut is between
\* two pairs; so there are no more such pairs than cuts.
LEMMA FewAreOff ==
    ASSUME NEW n \in Nat, NEW u \in [1..n + 1 -> Nat], NEW cuts, IsFiniteSet(cuts),
           cuts \subseteq Nat, \A i \in 1..n : Steps(u[i], u[i + 1], cuts),
           NEW B, B \subseteq 1..n,
           \A i \in B : \E c \in cuts : u[i] < c /\ c <= u[i + 1]
    PROVE  IsFiniteSet(B) /\ Cardinality(B) <= Cardinality(cuts)
<1> DEFINE f == [i \in B |-> CHOOSE c \in cuts : u[i] < c /\ c <= u[i + 1]]
<1>1. \A i \in B : f[i] \in cuts /\ u[i] < f[i] /\ f[i] <= u[i + 1]
    OBVIOUS
<1>2. f \in [B -> cuts]
    BY <1>1
<1> HIDE DEF f
<1>3. \A i \in 1..n + 1, j \in 1..n + 1 : i <= j => u[i] <= u[j]
    <2>1. \A i \in 1..n : u[i] < u[i + 1]
        BY DEF Steps
    <2> QED
        BY <2>1, Increasing
<1>4. ASSUME NEW i \in B, NEW j \in B, i < j PROVE f[i] # f[j]
    <2>1. /\ i \in 1..n /\ j \in 1..n /\ i + 1 \in 1..n + 1 /\ j \in 1..n + 1 /\ j + 1 \in 1..n + 1
          /\ i + 1 <= j
        BY <1>4
    <2>2. u[i + 1] <= u[j]
        BY <1>3, <2>1
    <2>3. u[i + 1] \in Nat /\ u[j] \in Nat /\ f[i] \in Nat /\ f[j] \in Nat
        BY <1>1, <2>1
    <2>4. f[i] <= u[i + 1] /\ u[j] < f[j]
        BY <1>1
    <2> QED
        BY <2>2, <2>3, <2>4
<1>5. \A i, j \in B : f[i] = f[j] => i = j
    <2> SUFFICES ASSUME NEW i \in B, NEW j \in B, f[i] = f[j], i # j PROVE FALSE
        OBVIOUS
    <2>1. i \in Nat /\ j \in Nat
        OBVIOUS
    <2>2. i < j \/ j < i
        BY <2>1
    <2> QED
        BY <1>4, <2>2
<1>6. f \in Injection(B, cuts)
    BY <1>2, <1>5 DEF Injection, IsInjective
<1> QED
    BY <1>6, FS_Injection

\* All but a few of the differences of a measurement are the period, so the middle
\* one is.
LEMMA MeasuredIs ==
    ASSUME MeasureInv, pc = "acquired"
    PROVE  MiddleOf(Differences(stamps)) = period
<1> DEFINE n == Triggers - 1
           W == 2^WordBits
           ds == Differences(stamps)
           B == {i \in 1..n : ds[i] # period}
<1>1. /\ period \in Periods /\ period \in Nat /\ Triggers \in Nat /\ n \in Nat
      /\ Len(stamps) = n + 1 /\ attempt \in {1, 2}
    BY PeriodAssumption DEF MeasureInv
<1>2. PICK origin, now, cuts, w, u, last : Timed(origin, now, cuts, w, u, last)
    BY DEF MeasureInv
<1>3. /\ origin \in Nat /\ now \in Nat /\ now < origin + Ring
      /\ IsFiniteSet(cuts) /\ cuts \subseteq Nat /\ Turn(origin) \in cuts
      /\ Cardinality(cuts) <= attempt + 1
    BY <1>2, TimeIsShort DEF Timed, MeasureInv, Cuts
<1>4. /\ u \in [1..n + 1 -> origin..now]
      /\ \A i \in 1..n + 1 : stamps[i] = Wrap(u[i])
      /\ \A i \in 1..n : Steps(u[i], u[i + 1], cuts)
    <2>1. Len(stamps) - 1 = n
        BY <1>1
    <2> HIDE DEF n
    <2> QED
        BY <1>1, <1>2, <2>1 DEF Timed, StampTimes
<1>5. \A i \in 1..n : ds[i] = (Wrap(u[i + 1]) - Wrap(u[i])) % W
    <2>1. ASSUME NEW i \in 1..n PROVE ds[i] = (Wrap(u[i + 1]) - Wrap(u[i])) % W
        <3>1. i \in 1..n + 1 /\ i + 1 \in 1..n + 1 /\ i \in 1..(Len(stamps) - 1)
            BY <1>1
        <3>2. stamps[i] = Wrap(u[i]) /\ stamps[i + 1] = Wrap(u[i + 1])
            BY <1>4, <3>1
        <3>3. ds[i] = (stamps[i + 1] - stamps[i]) % W
            BY <3>1 DEF Differences
        <3> QED
            BY <3>2, <3>3
    <2> QED
        BY <2>1
<1>6. ds \in [1..n -> Nat]
    <2>1. W \in Nat \ {0}
        BY <1>1, TimeAssumption
    <2>2. ASSUME NEW i \in 1..n + 1 PROVE Wrap(u[i]) \in Nat
        <3>1. u[i] \in Nat
            BY <1>3, <1>4
        <3> QED
            BY <3>1, WrapNat
    <2>3. ASSUME NEW i \in 1..n PROVE ds[i] \in Nat
        <3> DEFINE a == Wrap(u[i + 1]) - Wrap(u[i])
        <3>1. a \in Int
            <4>1. i \in 1..n + 1 /\ i + 1 \in 1..n + 1
                BY <1>1
            <4> QED
                BY <2>2, <4>1
        <3> HIDE DEF a, W
        <3>2. a % W \in Nat
            BY <2>1, <3>1, SMT
        <3> QED
            BY <1>5, <3>2 DEF a, W
    <2>4. ds = [i \in 1..n |-> ds[i]]
        <3>1. (Len(stamps) - 1) = n
            BY <1>1
        <3> QED
            BY <3>1 DEF Differences
    <2> HIDE DEF ds, n
    <2> QED
        BY <2>3, <2>4
<1> HIDE DEF ds, n, W
<1>7. ASSUME NEW i \in B PROVE \E c \in cuts : u[i] < c /\ c <= u[i + 1]
    <2> SUFFICES ASSUME \A c \in cuts : ~(u[i] < c /\ c <= u[i + 1]) PROVE FALSE
        OBVIOUS
    <2>1. i \in 1..n /\ i \in 1..n + 1 /\ i + 1 \in 1..n + 1 /\ ds[i] # period
        BY <1>1
    <2>2. u[i + 1] = u[i] + period
        BY <1>4, <2>1 DEF Steps
    <2>3. /\ u[i] \in Nat /\ origin <= u[i] /\ u[i] + period < origin + Ring
        <3>1. u[i] \in origin..now /\ u[i + 1] \in origin..now
            BY <1>4, <2>1
        <3>2. Ring \in Nat
            BY TimeAssumption DEF Ring
        <3> QED
            BY <1>3, <2>2, <3>1, <3>2
    <2>4. ~(u[i] < Turn(origin) /\ Turn(origin) <= u[i] + period)
        BY <1>3, <2>2
    <2>5. (Wrap(u[i] + period) - Wrap(u[i])) % 2^WordBits = period
        BY <1>1, <1>3, <2>3, <2>4, DifferenceIs
    <2> QED
        BY <1>5, <2>1, <2>2, <2>5 DEF W
<1>8. u \in [1..n + 1 -> Nat]
    BY <1>3, <1>4
<1>9. IsFiniteSet(B) /\ Cardinality(B) <= Cardinality(cuts)
    <2>1. B \subseteq 1..n
        OBVIOUS
    <2> HIDE DEF B
    <2> QED
        BY <1>1, <1>3, <1>4, <1>7, <1>8, <2>1, FewAreOff
<1>10. 2 * Cardinality(B) < n
    <2>1. Cardinality(B) \in Nat /\ Cardinality(cuts) \in Nat
        BY <1>3, <1>9, FS_CardinalityType
    <2>2. Cardinality(B) <= 3
        BY <1>1, <1>3, <1>9, <2>1
    <2>3. 2 * 3 < n
        BY MinorityAssumption DEF n
    <2> QED
        BY <1>1, <2>1, <2>2, <2>3
<1>11. B \subseteq 1..n /\ \A i \in (1..n) \ B : ds[i] = period
    OBVIOUS
<1> HIDE DEF B
<1>12. MiddleOf(ds) = period
    <2>1. n \in Nat /\ period \in Nat
        BY <1>1
    <2> QED
        BY <1>6, <1>10, <1>11, <2>1, MajorityIsMiddle, ZenonT(60)
<1> QED
    BY <1>12 DEF ds

\* A record that is left is aligned and fits into the period.
LEMMA RecordFits ==
    ASSUME NEW width \in Nat, RecordSize(width).ok
    PROVE  /\ RecordSize(width).size % Align = 0
           /\ Delay + RecordSize(width).size + Rearm <= width
<1> DEFINE rest == width - Delay - Rearm
           k == rest \div Align
           r == rest % Align
<1>1. Align \in Nat \ {0} /\ Delay \in Nat /\ Rearm \in Nat
    BY PeriodAssumption
<1>2. ~(width <= Delay + Rearm) /\ RecordSize(width).size = rest - r
    BY DEF RecordSize
<1>3. rest \in Nat /\ width = Delay + rest + Rearm
    BY <1>1, <1>2
<1> HIDE DEF rest
<1>4. k \in Nat /\ r \in 0..Align - 1 /\ rest = Align * k + r
    BY <1>1, <1>3, Division
<1> HIDE DEF k, r
<1>5. Align * k \in Nat /\ (Align * k) % Align = 0
    <2>1. Align * k \in Nat
        BY <1>1, <1>4, SMT
    <2> QED
        BY <1>1, <1>4, <2>1, NoRest
<1> DEFINE whole == Align * k
<1>6. whole \in Nat /\ whole % Align = 0 /\ rest = whole + r
    BY <1>4, <1>5
<1> HIDE DEF whole
<1>7. RecordSize(width).size = whole
    BY <1>1, <1>2, <1>3, <1>4, <1>6
<1> QED
    BY <1>1, <1>3, <1>4, <1>6, <1>7

-----------------------------------------------------------------------------
(* The steps of the measurement *)

\* A count over the first markers, one more at a time.
LEMMA CountGrows ==
    ASSUME NEW m, NEW k \in Nat
    PROVE  LET c(j) == {i \in 1..j : m[i] # 0}
           IN  /\ Cardinality(c(k)) \in Nat
               /\ Cardinality(c(k + 1)) = IF m[k + 1] # 0 THEN Cardinality(c(k)) + 1
                                          ELSE Cardinality(c(k))
<1> DEFINE c(j) == {i \in 1..j : m[i] # 0}
<1>1. IsFiniteSet(c(k))
    <2>1. IsFiniteSet(1..k)
        BY FS_Interval
    <2>2. c(k) \subseteq 1..k
        OBVIOUS
    <2> HIDE DEF c
    <2> QED
        BY <2>1, <2>2, FS_Subset
<1>2. k + 1 \notin c(k) /\ c(k + 1) = IF m[k + 1] # 0 THEN c(k) \cup {k + 1} ELSE c(k)
    <2>1. \A i : i \in 1..k + 1 <=> (i \in 1..k \/ i = k + 1)
        OBVIOUS
    <2>2. k + 1 \notin 1..k
        OBVIOUS
    <2> QED
        BY <2>1, <2>2
<1>3. Cardinality(c(k)) \in Nat
    <2> HIDE DEF c
    <2> QED
        BY <1>1, FS_CardinalityType
<1>4. CASE m[k + 1] # 0
    <2> HIDE DEF c
    <2>1. c(k + 1) = c(k) \cup {k + 1}
        BY <1>2, <1>4
    <2>2. Cardinality(c(k) \cup {k + 1}) = Cardinality(c(k)) + 1
        BY <1>1, <1>2, FS_AddElement
    <2>3. Cardinality(c(k + 1)) = Cardinality(c(k)) + 1
        BY <2>1, <2>2
    <2> QED
        BY <1>3, <1>4, <2>3 DEF c
<1>5. CASE ~(m[k + 1] # 0)
    <2> HIDE DEF c
    <2>1. c(k + 1) = c(k)
        BY <1>2, <1>5
    <2> QED
        BY <1>3, <1>5, <2>1 DEF c
<1> QED
    BY <1>4, <1>5

\* What an earlier acquisition left came at some times.
LEMMA InitMeasure == Init => MeasureInv
<1> SUFFICES ASSUME Init PROVE MeasureInv
    OBVIOUS
<1>1. PICK l \in Leftovers, g \in Gaps :
          /\ stream = [i \in DOMAIN l.markers |->
                 IF l.markers[i] = 0 THEN NoTrigger
                 ELSE Marker(Wrap(l.from + l.markers[i] * period))]
          /\ clock = Wrap(l.from + g)
    BY DEF Init
<1> DEFINE m == l.markers
           origin == l.from
           now == origin + g
           n == Len(m)
           count(k) == Cardinality({i \in 1..k : m[i] # 0})
           w == [k \in 0..n |-> origin + count(k) * period]
           cuts == {now, Turn(origin)}
<1>2. /\ origin \in Nat /\ g \in Nat \ {0} /\ period \in Periods /\ period \in Nat \ {0}
      /\ now \in Nat /\ MaxHunks \in Nat /\ Triggers \in Nat \ {0, 1}
    BY PeriodAssumption, LeftoversAssumption DEF Init
<1>3. m \in Seq(Nat) /\ n \in Nat /\ DOMAIN m = 1..n
    BY LeftoversAssumption, LenProperties
<1>4. /\ \A i \in 1..n : m[i] \in Nat /\ (m[i] # 0 => m[i] = count(i))
      /\ \A i \in 1..n : m[i] * period < g
    <2>1. \A i \in 1..n : m[i] \in Nat
        BY <1>3, ElementOfSeq
    <2>2. \A i \in DOMAIN m : m[i] # 0 => m[i] = count(i)
        BY LeftoversAssumption
    <2>3. \A i \in DOMAIN m : m[i] * period < g
        BY <1>2, TimeAssumption
    <2> QED
        BY <1>3, <2>1, <2>2, <2>3
<1>5. /\ count(0) = 0
      /\ \A k \in Nat : /\ count(k) \in Nat
                        /\ count(k + 1) = IF m[k + 1] # 0 THEN count(k) + 1 ELSE count(k)
    <2>1. {i \in 1..0 : m[i] # 0} = {}
        OBVIOUS
    <2>2. count(0) = 0
        BY <2>1, FS_EmptySet
    <2>3. ASSUME NEW k \in Nat
          PROVE  /\ count(k) \in Nat
                 /\ count(k + 1) = IF m[k + 1] # 0 THEN count(k) + 1 ELSE count(k)
        <3> HIDE DEF m
        <3> QED
            BY CountGrows
    <2> QED
        BY <2>2, <2>3
<1>6. Len(stream) = n /\ \A k \in 1..n :
          stream[k] = IF m[k] = 0 THEN NoTrigger ELSE Marker(Wrap(origin + m[k] * period))
    <2> DEFINE S == {stream[i] : i \in 1..n}
    <2>1. stream \in [1..n -> S]
        BY <1>1, <1>3
    <2> HIDE DEF S, n
    <2>2. stream \in Seq(S)
        BY <1>3, <2>1, SeqDef
    <2>3. DOMAIN stream = 1..n
        BY <1>1, <1>3
    <2>4. Len(stream) = n
        BY <1>3, <2>2, <2>3, LenProperties
    <2> QED
        BY <1>1, <1>3, <2>4
<1> HIDE DEF m, n, count, now, origin
<1>7. \A k \in 0..n : count(k) * period \in Nat /\ count(k) * period < g
    <2> DEFINE S == {k \in Nat : k <= n => count(k) = 0 \/ \E i \in 1..n : count(k) = m[i]}
    <2>1. 0 \in S
        BY <1>5
    <2>2. ASSUME NEW k \in Nat, k \in S PROVE k + 1 \in S
        <3> SUFFICES ASSUME k + 1 <= n
                     PROVE  count(k + 1) = 0 \/ \E i \in 1..n : count(k + 1) = m[i]
            OBVIOUS
        <3>1. k + 1 \in 1..n
            BY <1>3
        <3>2. CASE m[k + 1] # 0
            BY <1>4, <3>1, <3>2
        <3>3. CASE m[k + 1] = 0
            <4>1. count(k + 1) = count(k)
                BY <1>5, <3>3
            <4> QED
                BY <1>3, <2>2, <3>1, <4>1
        <3> QED
            BY <3>2, <3>3
    <2> HIDE DEF S
    <2>3. Nat \subseteq S
        BY <2>1, <2>2, Induction
    <2>4. ASSUME NEW k \in 0..n PROVE count(k) * period \in Nat /\ count(k) * period < g
        <3>1. k \in Nat /\ k <= n
            BY <1>3
        <3>2. count(k) = 0 \/ \E i \in 1..n : count(k) = m[i]
            BY <2>3, <3>1 DEF S
        <3>3. count(k) \in Nat
            BY <1>5, <3>1
        <3>4. count(k) * period \in Nat
            BY <1>2, <3>3, SMT
        <3>5. CASE count(k) = 0
            <4>1. 0 * period = 0
                BY <1>2, SMT
            <4> QED
                BY <1>2, <3>4, <3>5, <4>1
        <3>6. CASE \E i \in 1..n : count(k) = m[i]
            BY <1>4, <3>4, <3>6
        <3> QED
            BY <3>2, <3>5, <3>6
    <2> QED
        BY <2>4
<1>8. w \in [0..n -> origin..now] /\ w[0] \in origin..now
    <2>1. ASSUME NEW k \in 0..n PROVE w[k] \in origin..now
        <3> DEFINE c == count(k) * period
        <3>1. c \in Nat /\ c < g /\ w[k] = origin + c
            BY <1>7
        <3> HIDE DEF c, w
        <3> QED
            BY <1>2, <3>1 DEF now
    <2> QED
        BY <1>3, <2>1
<1>9. made = 0 /\ attempt = 1 /\ pc = "start" /\ stamps = <<>> /\ reply = None
    BY DEF Init
<1>10. Elapsed(origin, now)
    <2>1. now = origin + g + made * period
        <3>1. 0 * period = 0
            BY <1>2, SMT
        <3> QED
            BY <1>2, <1>9, <3>1 DEF now
    <2> QED
        BY <2>1 DEF Elapsed
<1>11. now < origin + Ring
    <2>1. 0 \in 0..MaxHunks
        BY <1>2
    <2> QED
        BY <1>2, <1>9, <1>10, <2>1, TimeIsShort
<1>12. Cuts(origin, cuts)
    <2>1. Turn(origin) \in Nat
        BY <1>2, <1>11, WrapIs DEF now
    <2>2. IsFiniteSet({now}) /\ Cardinality({now}) = 1
        BY FS_Singleton
    <2>3. /\ IsFiniteSet({now} \cup {Turn(origin)})
          /\ Cardinality({now} \cup {Turn(origin)}) \in {1, 2}
        BY <2>2, FS_AddElement
    <2>4. cuts = {now} \cup {Turn(origin)}
        OBVIOUS
    <2>5. cuts \subseteq Nat /\ Turn(origin) \in cuts
        BY <1>2, <2>1
    <2> HIDE DEF cuts
    <2>6. IsFiniteSet(cuts) /\ Cardinality(cuts) \in {1, 2}
        BY <2>3, <2>4
    <2>7. Cardinality(cuts) <= attempt + 1
        BY <1>9, <2>6
    <2> QED
        BY <2>5, <2>6, <2>7 DEF Cuts
<1>13. StreamTimes(origin, now, cuts, w)
    <2>1. ASSUME NEW k \in 1..n
          PROVE  IF stream[k].trigger
                 THEN stream[k].ts = Wrap(w[k]) /\ Steps(w[k - 1], w[k], cuts)
                 ELSE w[k] = w[k - 1]
        <3> DEFINE c == count(k - 1)
                   e == m[k]
        <3>1. k \in 0..n /\ k - 1 \in 0..n /\ k - 1 \in Nat /\ (k - 1) + 1 = k
            BY <1>3
        <3>2. c \in Nat /\ count(k) = IF e # 0 THEN c + 1 ELSE c
            BY <1>5, <3>1
        <3>3. w[k] = origin + count(k) * period /\ w[k - 1] = origin + c * period
            BY <3>1
        <3>4. e # 0 => e = count(k)
            BY <1>4
        <3>5. stream[k] = IF e = 0 THEN NoTrigger ELSE Marker(Wrap(origin + e * period))
            BY <1>6
        <3> HIDE DEF c, e, w
        <3>6. CASE e = 0
            BY <3>2, <3>3, <3>5, <3>6 DEF NoTrigger
        <3>7. CASE e # 0
            <4>1. stream[k].trigger /\ stream[k].ts = Wrap(w[k])
                BY <3>3, <3>4, <3>5, <3>7 DEF Marker
            <4>2. c * period \in Nat /\ (c + 1) * period = c * period + period
                BY <1>2, <3>2, SMT
            <4>3. w[k] = w[k - 1] + period /\ w[k - 1] < w[k]
                <5> DEFINE x == c * period
                <5>1. x \in Nat /\ w[k - 1] = origin + x /\ w[k] = origin + (x + period)
                    BY <3>2, <3>3, <3>7, <4>2
                <5> HIDE DEF x
                <5> QED
                    BY <1>2, <5>1
            <4> QED
                BY <4>1, <4>3 DEF Steps
        <3> QED
            BY <3>6, <3>7
    <2>2. Steps(w[n], now, cuts)
        <3> DEFINE c == count(n) * period
        <3>1. n \in 0..n
            BY <1>3
        <3>2. c \in Nat /\ c < g /\ w[n] = origin + c
            BY <1>7, <3>1
        <3> HIDE DEF c, w
        <3>3. w[n] < now /\ now <= now
            BY <1>2, <3>2 DEF now
        <3> QED
            BY <3>3 DEF Steps
    <2> HIDE DEF w, cuts
    <2> QED
        BY <1>6, <1>8, <2>1, <2>2 DEF StreamTimes
<1>14. StampTimes(stamps, origin, now, cuts, <<>>, w[0])
    <2>1. Len(<<>>) = 0 /\ <<>> \in Seq(Nat)
        OBVIOUS
    <2>2. <<>> \in [1..0 -> origin..now]
        OBVIOUS
    <2> QED
        BY <1>2, <1>9, <2>1, <2>2 DEF StampTimes
<1>15. Timed(origin, now, cuts, w, <<>>, w[0])
    <2> HIDE DEF w, cuts
    <2>1. clock = Wrap(now)
        BY <1>1 DEF now, origin
    <2> QED
        BY <1>2, <1>10, <1>12, <1>13, <1>14, <2>1 DEF Timed
<1> QED
    <2>1. 0 \in 0..MaxHunks /\ ~None.ok
        BY <1>2 DEF None
    <2> HIDE DEF w, cuts
    <2> QED
        BY <1>2, <1>9, <1>15, <2>1 DEF MeasureInv, ReplyIsThePushers

\* A step that leaves the card alone leaves the times as they are; what has been
\* collected stays, or is forgotten.
LEMMA SameTimes ==
    ASSUME MeasureInv, UNCHANGED <<period, made, attempt, clock, stream>>,
           \/ stamps' = stamps /\ (pc' = "markers" => pc = "markers")
           \/ stamps' = <<>>
    PROVE  \E origin, now, cuts, w, u, last : Timed(origin, now, cuts, w, u, last)'
<1>1. PICK origin, now, cuts, w, u, last : Timed(origin, now, cuts, w, u, last)
    BY DEF MeasureInv
<1>2. /\ Elapsed(origin, now)' /\ Cuts(origin, cuts)' /\ StreamTimes(origin, now, cuts, w)'
      /\ (clock = Wrap(now))' /\ origin \in Nat /\ now \in Nat
    <2>1. Elapsed(origin, now)'
        BY <1>1 DEF Timed, Elapsed
    <2>2. Cuts(origin, cuts)'
        BY <1>1 DEF Timed, Cuts
    <2>3. StreamTimes(origin, now, cuts, w)'
        BY <1>1 DEF Timed, StreamTimes, Steps
    <2> QED
        BY <1>1, <2>1, <2>2, <2>3 DEF Timed
<1>3. CASE stamps' = stamps /\ (pc' = "markers" => pc = "markers")
    <2>1. StampTimes(stamps, origin, now, cuts, u, last)'
        BY <1>1, <1>3 DEF Timed, StampTimes, Steps
    <2>2. (pc = "markers" => last = w[0])'
        BY <1>1, <1>3 DEF Timed
    <2>3. Timed(origin, now, cuts, w, u, last)'
        BY <1>2, <2>1, <2>2 DEF Timed
    <2> QED
        BY <2>3
<1>4. CASE stamps' = <<>>
    <2>1. Len(<<>>) = 0 /\ <<>> \in Seq(Nat) /\ <<>> \in [1..0 -> origin..now]
        OBVIOUS
    <2>2. Triggers \in Nat
        BY PeriodAssumption
    <2>3. StampTimes(stamps, origin, now, cuts, <<>>, w[0])'
        BY <1>4, <2>1, <2>2 DEF StampTimes
    <2>4. Timed(origin, now, cuts, w, <<>>, w[0])'
        BY <1>2, <2>3 DEF Timed
    <2> QED
        BY <2>4
<1> QED
    BY <1>3, <1>4

\* The pusher fires at the time its clock shows.
LEMMA FireTimes ==
    ASSUME BacklogInv, MeasureInv, NEW part \in 0..(HunkSize - 1), Fire(part)
    PROVE  MeasureInv'
<1>1. PICK origin, now, cuts, w, u, last : Timed(origin, now, cuts, w, u, last)
    BY DEF MeasureInv
<1> DEFINE n == Len(stream)
           e == Marker(clock)
           S == {stream[i] : i \in 1..n} \cup {e}
<1>2. /\ period \in Nat \ {0} /\ made \in Nat /\ MaxHunks \in Nat
      /\ origin \in Nat /\ now \in Nat /\ n \in Nat
    BY <1>1, PeriodAssumption DEF MeasureInv, Timed, BacklogInv
<1>3. PICK next : next = now + period
    OBVIOUS
<1>4. PICK v : v = [k \in 0..n + 1 |-> IF k = n + 1 THEN now ELSE w[k]]
    OBVIOUS
<1>5. origin < now /\ next \in Nat /\ now < next
    <2>1. origin < now
        BY <1>1, <1>2, TimeIsShort DEF Timed, MeasureInv
    <2> QED
        BY <1>2, <1>3, <2>1
<1>6. /\ stream' = Append(stream, e) /\ clock' = Wrap(clock + period)
      /\ made' = made + 1 /\ made < MaxHunks
      /\ UNCHANGED <<period, pc, attempt, stamps, reply>>
    BY DEF Fire
<1>7. made' \in 0..MaxHunks
    BY <1>2, <1>6
<1>8. (clock = Wrap(next))'
    <2>1. clock = Wrap(now)
        BY <1>1 DEF Timed
    <2> QED
        BY <1>2, <1>6, <1>3, <2>1, WrapGoesOn
<1>9. Elapsed(origin, next)'
    <2> DEFINE x == made * period
               y == made' * period'
    <2>1. x \in Nat /\ y = x + period
        <3>1. made * period \in Nat /\ (made + 1) * period = made * period + period
            BY <1>2, SMT
        <3> QED
            BY <1>6, <3>1
    <2>2. PICK g \in Gaps : \/ now = origin + g + x
                            \/ attempt = 2 /\ \E h \in Gaps : now = origin + g + h + x
        BY <1>1 DEF Timed, Elapsed
    <2>3. Gaps \subseteq Nat
        BY PeriodAssumption
    <2>4. \/ next = origin + g + y
          \/ attempt' = 2 /\ \E h \in Gaps : next = origin + g + h + y
        <3> HIDE DEF x, y
        <3>1. CASE now = origin + g + x
            BY <1>2, <1>3, <2>1, <2>3, <3>1
        <3>2. CASE attempt = 2 /\ \E h \in Gaps : now = origin + g + h + x
            <4>1. PICK h \in Gaps : now = origin + g + h + x
                BY <3>2
            <4>2. next = origin + g + h + y
                BY <1>2, <1>3, <2>1, <2>3, <4>1
            <4> QED
                BY <1>6, <3>2, <4>2
        <3> QED
            BY <2>2, <3>1, <3>2
    <2>5. \/ next = origin + g + made' * period'
          \/ attempt' = 2 /\ \E h \in Gaps : next = origin + g + h + made' * period'
        BY <2>4
    <2> QED
        BY <1>6, <2>5 DEF Elapsed
<1>10. Cuts(origin, cuts)'
    BY <1>1, <1>6 DEF Timed, Cuts
<1>11. w \in [0..n -> origin..now] /\ Steps(w[n], now, cuts)
    BY <1>1 DEF Timed, StreamTimes
<1>12. /\ Len(stream') = n + 1 /\ stream'[n + 1] = e
       /\ \A k \in 1..n : stream'[k] = stream[k]
    <2>1. stream \in Seq(S)
        BY IsSeq, SeqDef DEF BacklogInv
    <2>2. e \in S
        OBVIOUS
    <2> HIDE DEF S, e
    <2> QED
        BY <1>6, <2>1, <2>2, AppendProperties
<1>13. StreamTimes(origin, next, cuts, v)'
    <2>1. v \in [0..n + 1 -> origin..next]
        <3>1. ASSUME NEW k \in 0..n + 1 PROVE v[k] \in origin..next
            <4>1. CASE k = n + 1
                BY <1>2, <1>5, <1>4, <4>1
            <4>2. CASE k # n + 1
                <5>1. k \in 0..n /\ v[k] = w[k]
                    BY <1>2, <1>4, <4>2
                <5>2. w[k] \in origin..now
                    BY <1>11, <5>1
                <5> QED
                    BY <1>2, <1>5, <5>1, <5>2
            <4> QED
                BY <4>1, <4>2
        <3> QED
            BY <1>4, <3>1
    <2>2. ASSUME NEW k \in 1..n + 1
          PROVE  IF stream'[k].trigger
                 THEN stream'[k].ts = Wrap(v[k]) /\ Steps(v[k - 1], v[k], cuts)
                 ELSE v[k] = v[k - 1]
        <3>1. CASE k = n + 1
            <4>1. v[k] = now /\ k - 1 = n /\ v[k - 1] = w[n]
                BY <1>2, <1>4, <3>1
            <4>2. stream'[k].trigger /\ stream'[k].ts = Wrap(now)
                BY <1>1, <1>12, <3>1 DEF Timed, Marker
            <4> QED
                BY <1>11, <4>1, <4>2
        <3>2. CASE k # n + 1
            <4>1. k \in 1..n /\ v[k] = w[k] /\ v[k - 1] = w[k - 1]
                BY <1>2, <1>4, <3>2
            <4>2. IF stream[k].trigger
                  THEN stream[k].ts = Wrap(w[k]) /\ Steps(w[k - 1], w[k], cuts)
                  ELSE w[k] = w[k - 1]
                BY <1>1, <4>1 DEF Timed, StreamTimes
            <4> QED
                BY <1>12, <4>1, <4>2
        <3> QED
            BY <3>1, <3>2
    <2>3. v[n + 1] = now
        BY <1>2, <1>4
    <2>4. Steps(now, next, cuts)
        BY <1>5, <1>3 DEF Steps
    <2> HIDE DEF n
    <2>5. StreamTimes(origin, next, cuts, v)'
        BY <1>6, <1>12, <2>1, <2>2, <2>3, <2>4 DEF StreamTimes, Steps
    <2> QED
        BY <2>5
<1>14. StampTimes(stamps, origin, next, cuts, u, last)'
    <2>1. StampTimes(stamps, origin, now, cuts, u, last)
        BY <1>1 DEF Timed
    <2>2. \A t \in origin..now : t \in origin..next
        BY <1>2, <1>5
    <2>3. u \in [1..Len(stamps) -> origin..next]
        <3> QED
            BY <2>1, <2>2 DEF StampTimes
    <2> QED
        BY <1>6, <2>1, <2>3 DEF StampTimes, Steps
<1>15. (pc = "markers" => last = v[0])'
    <2>1. v[0] = w[0]
        BY <1>2, <1>4
    <2>2. pc = "markers" => last = w[0]
        BY <1>1 DEF Timed
    <2> QED
        BY <1>6, <2>1, <2>2
<1>16. Timed(origin, next, cuts, v, u, last)'
    BY <1>2, <1>5, <1>8, <1>9, <1>10, <1>13, <1>14, <1>15 DEF Timed
<1> QED
    <2>1. ReplyIsThePushers'
        BY <1>6 DEF MeasureInv, ReplyIsThePushers
    <2>2. \E o2, n2, c2, w2, u2, l2 : Timed(o2, n2, c2, w2, u2, l2)'
        BY <1>16
    <2> QED
        BY <1>6, <1>7, <2>1, <2>2 DEF MeasureInv

\* A fetch takes markers from the stream, with their times.
LEMMA FetchTimes ==
    ASSUME BacklogInv, MeasureInv, NEW given \in BOOLEAN, FetchMarkers(given)
    PROVE  MeasureInv'
<1>1. PICK origin, now, cuts, w, u, last : Timed(origin, now, cuts, w, u, last)
    BY DEF MeasureInv
<1> DEFINE len == Len(stream)
           there == IF len * HunkSize < NextRequest THEN len ELSE NextRequest \div HunkSize
<1>2. PICK n : n = IF given THEN there ELSE 0
    OBVIOUS
<1>3. PICK v : v = [k \in 0..len - n |-> w[n + k]]
    OBVIOUS
<1>4. PICK x : x = [k \in 0..n |-> w[k]]
    OBVIOUS
<1>5. PICK hunks : hunks = SubSeq(stream, 1, n)
    OBVIOUS
<1>6. len \in Nat /\ n \in 0..len /\ n \in Nat /\ Triggers \in Nat
    <2>1. len \in Nat /\ there \in 0..len
        BY ThereIs DEF BacklogInv
    <2> HIDE DEF there, len
    <2> QED
        BY <1>2, <2>1, PeriodAssumption
<1>7. /\ pc = "markers" /\ stamps' = Collect(hunks) /\ stream' = SubSeq(stream, n + 1, len)
      /\ pc' \in {"markers", "samples", "failed"}
      /\ pc' = "samples" => Len(stamps') >= Triggers
      /\ UNCHANGED <<period, clock, made, attempt, reply>>
    BY <1>2, <1>5 DEF FetchMarkers, AfterFetch
<1> DEFINE S == {stream[i] : i \in 1..len}
<1>8. stream \in Seq(S)
    BY IsSeq DEF BacklogInv
<1> HIDE DEF S, there
<1>9. Len(hunks) = n /\ \A k \in 1..n : hunks[k] = stream[k]
    <2>1. \A k \in 1..n : k \in 1..len
        BY <1>6
    <2>2. 1 \in Int /\ n \in Int /\ (1..n) \subseteq (1..len)
        BY <1>6, <2>1
    <2> HIDE DEF len
    <2>3. Len(hunks) = n
        BY <1>5, <1>6, <1>8, <2>2, SubSeqProperties DEF len
    <2>4. ASSUME NEW k \in 1..n PROVE hunks[k] = stream[k]
        BY <1>5, <1>6, <1>8, <2>2, SubSeqProperties DEF len
    <2> QED
        BY <2>3, <2>4
<1>10. Len(stream') = len - n /\ \A k \in 1..len - n : stream'[k] = stream[n + k]
    <2>1. \A k \in n + 1..len : k \in 1..len
        BY <1>6
    <2>2. n + 1 \in Int /\ len \in Int /\ \A k \in n + 1..len : stream[k] \in S
        BY <1>6, <1>8, <2>1, ElementOfSeq
    <2>3. Len(stream') = IF n + 1 <= len THEN len - (n + 1) + 1 ELSE 0
        BY <1>6, <1>7, <1>8, <2>1, SubSeqProperties
    <2>4. Len(stream') = len - n
        BY <1>6, <2>3
    <2>5. ASSUME NEW k \in 1..len - n PROVE stream'[k] = stream[n + k]
        <3>1. k \in 1..(len - (n + 1) + 1) /\ (n + 1) + k - 1 = n + k
            BY <1>6
        <3>2. stream'[k] = stream[(n + 1) + k - 1]
            BY <1>6, <1>7, <1>8, <2>1, <3>1, SubSeqProperties
        <3> QED
            BY <3>1, <3>2
    <2> QED
        BY <2>4, <2>5
<1> HIDE DEF len
<1>11. /\ w \in [0..len -> origin..now]
       /\ \A k \in 1..len :
              IF stream[k].trigger
              THEN stream[k].ts = Wrap(w[k]) /\ Steps(w[k - 1], w[k], cuts)
              ELSE w[k] = w[k - 1]
       /\ Steps(w[len], now, cuts)
       /\ origin \in Nat /\ now \in Nat
    BY <1>1 DEF Timed, StreamTimes, len
<1>12. PICK y : StampTimes(stamps', origin, now, cuts, y, w[n])
    <2>1. x \in [0..Len(hunks) -> origin..now] /\ Len(hunks) \in Nat
        <3>1. \A k \in 0..n : k \in 0..len
            BY <1>6
        <3>2. \A k \in 0..n : w[k] \in origin..now
            BY <1>11, <3>1
        <3> QED
            BY <1>4, <1>6, <1>9, <3>2
    <2>2. \A k \in 1..Len(hunks) :
              IF hunks[k].trigger
              THEN hunks[k].ts = Wrap(x[k]) /\ Steps(x[k - 1], x[k], cuts)
              ELSE x[k] = x[k - 1]
        <3>1. ASSUME NEW k \in 1..n
              PROVE  k \in 1..len /\ x[k] = w[k] /\ x[k - 1] = w[k - 1] /\ hunks[k] = stream[k]
            BY <1>4, <1>6, <1>9
        <3> QED
            BY <1>9, <1>11, <3>1
    <2>3. x[0] = w[0] /\ x[n] = w[n]
        BY <1>4, <1>6
    <2>4. StampTimes(stamps, origin, now, cuts, u, x[0])
        BY <1>1, <1>7, <2>3 DEF Timed
    <2>5. \E y : StampTimes(Collect(hunks), origin, now, cuts, y, x[Len(hunks)])
        BY <1>11, <2>1, <2>2, <2>4, CollectTimes
    <2> QED
        BY <1>7, <1>9, <2>3, <2>5
<1>13. StreamTimes(origin, now, cuts, v)'
    <2>1. v \in [0..len - n -> origin..now]
        <3>1. \A k \in 0..len - n : n + k \in 0..len
            BY <1>6
        <3>2. \A k \in 0..len - n : w[n + k] \in origin..now
            BY <1>11, <3>1
        <3> QED
            BY <1>3, <3>2
    <2>2. ASSUME NEW k \in 1..len - n
          PROVE  IF stream'[k].trigger
                 THEN stream'[k].ts = Wrap(v[k]) /\ Steps(v[k - 1], v[k], cuts)
                 ELSE v[k] = v[k - 1]
        <3> DEFINE j == n + k
        <3>1. j \in 1..len /\ k \in 0..len - n /\ k - 1 \in 0..len - n /\ n + (k - 1) = j - 1
            BY <1>6
        <3>2. v[k] = w[j] /\ v[k - 1] = w[j - 1] /\ stream'[k] = stream[j]
            BY <1>3, <1>10, <3>1
        <3> HIDE DEF j
        <3> QED
            BY <1>11, <3>1, <3>2
    <2>3. v[len - n] = w[len]
        <3>1. len - n \in 0..len - n /\ n + (len - n) = len
            BY <1>6
        <3> QED
            BY <1>3, <3>1
    <2> QED
        BY <1>7, <1>10, <1>11, <2>1, <2>2, <2>3 DEF StreamTimes, Steps
<1>14. StampTimes(stamps, origin, now, cuts, y, w[n])'
    BY <1>7, <1>12 DEF StampTimes, Steps
<1>15. v[0] = w[n]
    BY <1>3, <1>6
<1>16. Timed(origin, now, cuts, v, y, w[n])'
    <2>1. Elapsed(origin, now)'
        BY <1>1, <1>7 DEF Timed, Elapsed
    <2>2. Cuts(origin, cuts)'
        BY <1>1, <1>7 DEF Timed, Cuts
    <2>3. (clock = Wrap(now))'
        BY <1>1, <1>7 DEF Timed
    <2> QED
        BY <1>11, <1>13, <1>14, <1>15, <2>1, <2>2, <2>3 DEF Timed
<1>17. pc' = "samples" => Len(stamps') = Triggers
    <2>1. Len(stamps') <= Triggers /\ Len(stamps') \in Nat
        BY <1>12, LenProperties DEF StampTimes
    <2> QED
        BY <1>6, <1>7, <2>1
<1> QED
    <2>1. ReplyIsThePushers'
        BY <1>7 DEF MeasureInv, ReplyIsThePushers
    <2>2. \E o2, n2, c2, w2, u2, l2 : Timed(o2, n2, c2, w2, u2, l2)'
        BY <1>16
    <2> QED
        BY <1>7, <1>17, <2>1, <2>2 DEF MeasureInv

\* A restart is one more cut; the card keeps the markers, or begins with none.
LEMMA RestartTimes ==
    ASSUME BacklogInv, MeasureInv, NEW kept \in BOOLEAN, NEW g \in Gaps, Restart(kept, g)
    PROVE  MeasureInv'
<1>1. PICK origin, now, cuts, w, u, last : Timed(origin, now, cuts, w, u, last)
    BY DEF MeasureInv
<1> DEFINE len == Len(stream)
<1>2. PICK next : next = now + g
    OBVIOUS
<1>3. PICK more : more = cuts \cup {next}
    OBVIOUS
<1>4. PICK v : v = IF kept THEN w ELSE [k \in 0..0 |-> w[len]]
    OBVIOUS
<1>5. /\ origin \in Nat /\ now \in Nat /\ g \in Nat \ {0} /\ next \in Nat /\ now < next
      /\ len \in Nat
    BY <1>1, <1>2, PeriodAssumption DEF Timed, BacklogInv
<1>6. /\ attempt = 1 /\ attempt' = 2 /\ pc' = "start" /\ clock' = Wrap(clock + g)
      /\ stream' = IF kept THEN stream ELSE <<>>
      /\ UNCHANGED <<period, made, stamps, reply>>
    BY DEF Restart
<1>7. (clock = Wrap(next))'
    <2>1. clock = Wrap(now)
        BY <1>1 DEF Timed
    <2> QED
        BY <1>2, <1>5, <1>6, <2>1, WrapGoesOn
<1>8. Elapsed(origin, next)'
    <2>1. PICK h \in Gaps : now = origin + h + made * period
        BY <1>1, <1>6 DEF Timed, Elapsed
    <2>2. made * period \in Nat /\ h \in Nat
        <3>1. made \in Nat /\ period \in Nat
            BY PeriodAssumption DEF MeasureInv
        <3> QED
            BY <3>1, PeriodAssumption, SMT
    <2> DEFINE x == made * period
    <2>3. x \in Nat /\ now = origin + h + x
        BY <2>1, <2>2
    <2> HIDE DEF x
    <2>4. next = origin + h + g + x
        BY <1>2, <1>5, <2>2, <2>3
    <2> QED
        BY <1>6, <2>4 DEF Elapsed, x
<1>9. Cuts(origin, more)'
    <2>1. /\ cuts \subseteq Nat /\ IsFiniteSet(cuts) /\ Cardinality(cuts) <= 2
          /\ Turn(origin) \in cuts
        BY <1>1, <1>6 DEF Timed, Cuts
    <2>2. /\ IsFiniteSet(more) /\ Cardinality(cuts) \in Nat
          /\ Cardinality(more) \in {Cardinality(cuts), Cardinality(cuts) + 1}
        BY <1>3, <2>1, FS_AddElement, FS_CardinalityType
    <2>3. Cardinality(more) <= 3
        BY <2>1, <2>2
    <2>4. more \subseteq Nat /\ Turn(origin) \in more
        BY <1>3, <1>5, <2>1
    <2> QED
        BY <1>6, <2>2, <2>3, <2>4 DEF Cuts
<1>10. ASSUME NEW a \in origin..now, NEW b \in origin..now, Steps(a, b, cuts)
       PROVE  Steps(a, b, more)'
    BY <1>3, <1>6, <1>10 DEF Steps
<1>11. /\ w \in [0..len -> origin..now]
       /\ \A k \in 1..len :
              IF stream[k].trigger
              THEN stream[k].ts = Wrap(w[k]) /\ Steps(w[k - 1], w[k], cuts)
              ELSE w[k] = w[k - 1]
    BY <1>1 DEF Timed, StreamTimes
<1>12. ASSUME NEW a \in origin..now PROVE Steps(a, next, more)'
    <2>1. next \in more /\ a < next /\ next <= next
        BY <1>3, <1>5
    <2> QED
        BY <2>1 DEF Steps
<1>13. \A a \in origin..now : a \in origin..next
    BY <1>5
<1>14. StreamTimes(origin, next, more, v)'
    <2>1. CASE kept
        <3>1. v = w /\ stream' = stream
            BY <1>4, <1>6, <2>1
        <3>2. \A k \in 0..len : w[k] \in origin..now
            BY <1>11
        <3>3. w \in [0..len -> origin..next] /\ w[len] \in origin..now
            BY <1>5, <1>11, <1>13
        <3>4. ASSUME NEW k \in 1..len
              PROVE  IF stream[k].trigger
                     THEN stream[k].ts = Wrap(w[k]) /\ Steps(w[k - 1], w[k], more)'
                     ELSE w[k] = w[k - 1]
            <4>1. k \in 0..len /\ k - 1 \in 0..len
                BY <1>5
            <4>2. w[k] \in origin..now /\ w[k - 1] \in origin..now
                BY <3>2, <4>1
            <4> QED
                BY <1>10, <1>11, <4>2
        <3>5. Steps(w[len], next, more)'
            BY <1>12, <3>3
        <3> QED
            BY <3>1, <3>3, <3>4, <3>5 DEF StreamTimes
    <2>2. CASE ~kept
        <3>1. v = [k \in 0..0 |-> w[len]] /\ stream' = <<>> /\ Len(<<>>) = 0
            BY <1>4, <1>6, <2>2
        <3>2. w[len] \in origin..now
            BY <1>5, <1>11
        <3>3. v \in [0..0 -> origin..next] /\ v[0] = w[len]
            BY <1>13, <3>1, <3>2
        <3>4. Steps(v[0], next, more)'
            BY <1>12, <3>2, <3>3
        <3> QED
            BY <3>1, <3>3, <3>4 DEF StreamTimes
    <2> QED
        BY <2>1, <2>2
<1>15. StampTimes(stamps, origin, next, more, u, last)'
    <2>1. StampTimes(stamps, origin, now, cuts, u, last)
        BY <1>1 DEF Timed
    <2>2. u \in [1..Len(stamps) -> origin..next] /\ Len(stamps) \in Nat
        BY <1>13, <2>1, LenProperties DEF StampTimes
    <2>3. ASSUME NEW i \in 1..Len(stamps) - 1 PROVE Steps(u[i], u[i + 1], more)'
        <3>1. i \in 1..Len(stamps) /\ i + 1 \in 1..Len(stamps)
            BY <2>2
        <3>2. u[i] \in origin..now /\ u[i + 1] \in origin..now /\ Steps(u[i], u[i + 1], cuts)
            BY <2>1, <3>1 DEF StampTimes
        <3> QED
            BY <1>10, <3>2
    <2> QED
        BY <1>6, <2>1, <2>2, <2>3 DEF StampTimes
<1>16. Timed(origin, next, more, v, u, last)'
    BY <1>5, <1>6, <1>7, <1>8, <1>9, <1>14, <1>15 DEF Timed
<1> QED
    <2>1. ReplyIsThePushers'
        BY <1>6 DEF MeasureInv, ReplyIsThePushers
    <2>2. \E o2, n2, c2, w2, u2, l2 : Timed(o2, n2, c2, w2, u2, l2)'
        BY <1>16
    <2> QED
        BY <1>6, <2>1, <2>2 DEF MeasureInv

\* Every step keeps times that explain what is seen, and a reply that is right.
LEMMA MeasureKeeps == ASSUME BacklogInv, MeasureInv, [Next]_vars PROVE MeasureInv'
<1>1. ASSUME UNCHANGED <<period, made, attempt, clock, stream, reply>>,
             \/ stamps' = stamps /\ (pc' = "markers" => pc = "markers")
             \/ stamps' = <<>>,
             pc' \in {"samples", "acquired"} => stamps' = stamps /\ pc \in {"samples", "acquired"}
      PROVE  MeasureInv'
    <2>1. \E o2, n2, c2, w2, u2, l2 : Timed(o2, n2, c2, w2, u2, l2)'
        BY <1>1, SameTimes
    <2>2. ReplyIsThePushers'
        BY <1>1 DEF MeasureInv, ReplyIsThePushers
    <2> QED
        BY <1>1, <2>1, <2>2 DEF MeasureInv
<1>2. ASSUME NEW given \in BOOLEAN, FetchMarkers(given) PROVE MeasureInv'
    BY <1>2, FetchTimes
<1>3. ASSUME NEW enough \in BOOLEAN, FetchSamples(enough) PROVE MeasureInv'
    <2>1. pc = "samples" /\ pc' # "markers" /\ UNCHANGED <<card, attempt, stamps, reply>>
        BY <1>3 DEF FetchSamples
    <2> QED
        BY <1>1, <2>1 DEF card
<1>4. CASE FetchFails \/ GiveUp
    <2>1. /\ pc' \in {"failed", "replied"} /\ UNCHANGED <<card, attempt, stamps, reply>>
        BY <1>4 DEF FetchFails, GiveUp
    <2> QED
        BY <1>1, <2>1 DEF card
<1>5. CASE Start
    <2>1. pc' = "markers" /\ stamps' = <<>> /\ UNCHANGED <<card, attempt, reply>>
        BY <1>5 DEF Start
    <2> QED
        BY <1>1, <2>1 DEF card
<1>6. CASE Expire \/ UNCHANGED vars
    <2>1. UNCHANGED <<card, attempt, stamps, reply, pc>>
        BY <1>6 DEF Expire, vars
    <2> QED
        BY <1>1, <2>1 DEF card
<1>7. CASE CreateTimingInformation
    <2> DEFINE measured == MiddleOf(Differences(stamps))
               record == RecordSize(measured)
    <2>1. /\ pc = "acquired" /\ pc' = "replied" /\ UNCHANGED <<card, attempt, stamps>>
          /\ reply' = IF measured < MinPeriod \/ measured > MaxPeriod \/ ~record.ok
                      THEN None
                      ELSE [ok |-> TRUE, period |-> measured, record_size |-> record.size]
        BY <1>7 DEF CreateTimingInformation
    <2>2. measured = period /\ period \in Nat /\ period' = period
        BY <2>1, MeasuredIs, PeriodAssumption DEF MeasureInv, card
    <2>3. record.ok => record.size % Align = 0 /\ Delay + record.size + Rearm <= period
        BY <2>2, RecordFits
    <2> HIDE DEF measured, record
    <2>4. ReplyIsThePushers'
        BY <2>1, <2>2, <2>3 DEF ReplyIsThePushers, None
    <2>5. \E o2, n2, c2, w2, u2, l2 : Timed(o2, n2, c2, w2, u2, l2)'
        BY <2>1, SameTimes DEF card
    <2> QED
        BY <2>1, <2>4, <2>5 DEF MeasureInv, card
<1>8. ASSUME NEW kept \in BOOLEAN, NEW g \in Gaps, Restart(kept, g) PROVE MeasureInv'
    BY <1>8, RestartTimes
<1>9. ASSUME NEW part \in 0..(HunkSize - 1), Fire(part) PROVE MeasureInv'
    BY <1>9, FireTimes
<1> QED
    BY <1>2, <1>3, <1>4, <1>5, <1>6, <1>7, <1>8, <1>9 DEF Next, AcquireStep, TimingStep

-----------------------------------------------------------------------------
(* The theorems *)

\* The inductive invariant: the stream is one of whole markers, of which the
\* console has last been told how many elements are left.
THEOREM BacklogInvariant == Spec => []BacklogInv
BY InitBacklog, BacklogKeeps, PTL DEF Spec

\* acquire() never fails on check_fetch_alignment, nor asks for more than its
\* buffer holds, whatever the card has left over (cstcontext.cpp).
THEOREM RequestsAreSound == Spec => []RequestIsSound
<1>1. BacklogInv => RequestIsSound
    BY RequestIs DEF BacklogInv, RequestIsSound
<1> QED
    BY <1>1, BacklogInvariant, PTL

\* The inductive invariant: the markers in the stream and those collected are
\* triggers at times that only a turn of the counter and the beginnings of the two
\* acquisitions part by more than a period.
THEOREM MeasureInvariant == Spec => []MeasureInv
<1>1. Init => MeasureInv
    BY InitMeasure
<1>2. BacklogInv /\ MeasureInv /\ [Next]_vars => MeasureInv'
    BY MeasureKeeps
<1> QED
    BY <1>1, <1>2, BacklogInvariant, PTL DEF Spec

\* A period that is replied is the pusher's, whatever an acquisition that ended
\* early left, whether the first attempt was given up or not, and although the
\* counter wraps; and the record that is replied fits into it
\* (toftiminginformation.cpp).
THEOREM RepliesAreThePushers == Spec => []ReplyIsThePushers
<1>1. MeasureInv => ReplyIsThePushers
    BY DEF MeasureInv
<1> QED
    BY <1>1, MeasureInvariant, PTL

=============================================================================
