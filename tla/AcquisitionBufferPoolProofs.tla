-------------------- MODULE AcquisitionBufferPoolProofs --------------------
(***************************************************************************)
(* Buffer reuse is safe for every number of buffers and handles: PoolInv   *)
(* is an inductive invariant of AcquisitionBufferPool.                     *)
(***************************************************************************)
EXTENDS AcquisitionBufferPool, FiniteSetTheorems, TLAPS

\* use_count() = 1 says that no handle points to the buffer.
LEMMA UseCountOne ==
    ASSUME NEW b, use_count(b) = 1
    PROVE  \A h \in Handle : ptr[h] # b
<1> DEFINE S == {h \in Handle : ptr[h] = b}
<1>1. IsFiniteSet(S)
    BY PoolAssumption, FS_Subset
<1>2. Cardinality(S) \in Nat
    BY <1>1, FS_CardinalityType
<1>3. Cardinality(S) = 0
    BY <1>2 DEF use_count
<1>4. S = {}
    BY <1>1, <1>3, FS_EmptySet
<1> QED
    BY <1>4

\* Every iteration of get_buffer looks at a buffer of the pool.
LEMMA IndexInPool ==
    ASSUME TypeOK, NEW k \in Nat, Len(pool) > 0
    PROVE  IndexAt(k) \in Buffers
<1>1. Len(pool) \in Nat /\ buffer_takes + k \in Nat
    BY PoolAssumption DEF TypeOK
<1>2. (buffer_takes + k) % Len(pool) \in 0..(Len(pool) - 1)
    BY <1>1
<1> QED
    BY <1>1, <1>2 DEF IndexAt, Buffers

\* Conversely, a buffer no handle points to has use_count() = 1.
LEMMA UnusedCountsOne ==
    ASSUME NEW b, \A h \in Handle : ptr[h] # b
    PROVE  use_count(b) = 1
<1>1. {h \in Handle : ptr[h] = b} = {}
    OBVIOUS
<1>2. Cardinality({}) = 0
    BY FS_EmptySet
<1> QED
    BY <1>1, <1>2 DEF use_count

\* A number below L is its own remainder, whatever multiple of L is added.
LEMMA Remainder ==
    ASSUME NEW L \in Nat \ {0}, NEW q \in Nat, NEW c \in 0..(L - 1)
    PROVE  (L * q + c) % L = c
OBVIOUS

\* L consecutive iterations, from wherever buffer_takes stands, look at every
\* one of L buffers.
LEMMA ScanCoversPool ==
    ASSUME NEW L \in Nat \ {0}, NEW t \in Nat, NEW b \in 1..L
    PROVE  \E k \in 0..(L - 1) : ((t + k) % L) + 1 = b
<1>1. PICK q \in Nat, r \in 0..(L - 1) : t = L * q + r
    <2>1. t = L * (t \div L) + (t % L) /\ t \div L \in Nat /\ t % L \in 0..(L - 1)
        OBVIOUS
    <2> QED
        BY <2>1
<1>2. PICK c \in 0..(L - 1) : b = c + 1
    OBVIOUS
<1>3. (L * q + c) % L = c
    BY Remainder
<1>4. (L * (q + 1) + c) % L = c
    BY Remainder, q + 1 \in Nat
<1>5. CASE c >= r
    <2>1. PICK k \in 0..(L - 1) : k = c - r
        BY <1>5
    <2>2. t + k = L * q + c
        BY <1>1, <2>1
    <2>3. (t + k) % L = c
        BY ONLY <1>3, <2>2
    <2> QED
        BY <1>2, <2>3
<1>6. CASE c < r
    <2>1. PICK k \in 0..(L - 1) : k = c - r + L
        BY <1>6
    <2>2. t + k = L * (q + 1) + c
        BY <1>1, <2>1
    <2>3. (t + k) % L = c
        BY ONLY <1>4, <2>2
    <2> QED
        BY <1>2, <2>3
<1> QED
    BY <1>5, <1>6

\* The pool starts in the invariant.
LEMMA InitPool == Init => PoolInv
<1> SUFFICES ASSUME Init PROVE PoolInv
    OBVIOUS
<1>1. TypeOK
    <2>1. pool \in Seq(Nat) /\ Len(pool) \in Nat
        BY PoolAssumption DEF Init, Blank
    <2> QED
        BY <2>1, PoolAssumption DEF Init, TypeOK, Null
<1> QED
    BY <1>1 DEF Init, PoolInv, PickedIsFree, FillIsExclusive, RecordsIntact, Null

\* Every step of the acquisition thread and of the owners of records keeps it.
LEMMA NextPool == PoolInv /\ [Next]_vars => PoolInv'
<1> SUFFICES ASSUME PoolInv, [Next]_vars PROVE PoolInv'
    OBVIOUS
<1> USE PoolAssumption DEF Null, Blank
<1>0. /\ pool \in Seq(Nat) /\ Len(pool) \in Nat
      /\ buffer_takes \in Nat /\ own \in Handle
      /\ ptr \in [Handle -> 0..Len(pool)] /\ rec \in [Handle -> Nat]
    BY DEF PoolInv, TypeOK
<1>1. CASE GetBuffer
    <2>1. TypeOK'
        BY <1>0, <1>1 DEF PoolInv, TypeOK, GetBuffer, InUse, Buffers
    <2> QED
        BY <1>0, <1>1, <2>1 DEF PoolInv, GetBuffer, PickedIsFree, FillIsExclusive,
            RecordsIntact, Filling
<1>2. CASE ScanFree
    <2>1. IndexAt(i) \in Buffers
        BY <1>0, <1>2, IndexInPool DEF PoolInv, TypeOK, ScanFree
    <2>2. \A h \in Handle : ptr[h] # IndexAt(i)
        BY <1>2, UseCountOne DEF ScanFree
    <2>3. TypeOK'
        BY <1>0, <1>2, <2>1 DEF PoolInv, TypeOK, ScanFree, Buffers
    <2> QED
        BY <1>0, <1>2, <2>1, <2>2, <2>3 DEF PoolInv, ScanFree, PickedIsFree,
            FillIsExclusive, RecordsIntact, Filling, Buffers
<1>3. CASE ScanBusy
    <2>1. TypeOK'
        BY <1>0, <1>3 DEF PoolInv, TypeOK, ScanBusy
    <2> QED
        BY <1>0, <1>3, <2>1 DEF PoolInv, ScanBusy, PickedIsFree, FillIsExclusive,
            RecordsIntact, Filling
<1>4. ASSUME NEW h \in Handle, Take(h) PROVE PoolInv'
    <2>1. pick \in Buffers /\ \A g \in Handle : ptr[g] # pick
        BY <1>4 DEF PoolInv, PickedIsFree, Take
    <2>2. Len(pool') = Len(pool) /\ pool' \in Seq(Nat)
        BY <1>0, <1>4, <2>1 DEF Take, Buffers
    <2>3. TypeOK'
        BY <1>0, <1>4, <2>1, <2>2 DEF PoolInv, TypeOK, Take, Buffers
    <2>4. FillIsExclusive'
        BY <1>0, <1>4, <2>1 DEF FillIsExclusive, Take
    <2>5. RecordsIntact'
        BY <1>0, <1>4, <2>1, SMTT(60) DEF PoolInv, RecordsIntact, Filling, Take, Buffers
    <2> QED
        BY <1>0, <1>4, <2>1, <2>3, <2>4, <2>5 DEF PoolInv, PickedIsFree, Take, Buffers
<1>5. ASSUME NEW h \in Handle, Grow(h) PROVE PoolInv'
    <2>1. /\ Len(pool') = Len(pool) + 1 /\ pool' \in Seq(Nat)
          /\ \A b \in 1..Len(pool) : pool'[b] = pool[b]
        BY <1>0, <1>5 DEF Grow
    <2>2. TypeOK'
        BY <1>0, <1>5, <2>1, SMTT(60) DEF PoolInv, TypeOK, Grow
    <2>3. FillIsExclusive'
        BY <1>0, <1>5 DEF FillIsExclusive, Grow
    <2>4. RecordsIntact'
        BY <1>0, <1>5, <2>1 DEF PoolInv, RecordsIntact, Filling, Grow
    <2> QED
        BY <1>0, <1>5, <2>2, <2>3, <2>4 DEF PoolInv, PickedIsFree, Grow
<1>6. CASE Fill
    <2>1. ptr[own] \in Buffers /\ \A h \in Handle \ {own} : ptr[h] # ptr[own]
        BY <1>0, <1>6 DEF PoolInv, FillIsExclusive, Fill, Buffers
    <2>2. Len(pool') = Len(pool) /\ pool' \in Seq(Nat)
        BY <1>0, <1>6, <2>1 DEF Fill, Buffers
    <2>3. TypeOK'
        BY <1>0, <1>6, <2>2 DEF PoolInv, TypeOK, Fill
    <2>4. RecordsIntact'
        BY <1>0, <1>6, <2>1 DEF PoolInv, RecordsIntact, Filling, Fill, Buffers
    <2> QED
        BY <1>0, <1>6, <2>3, <2>4 DEF PoolInv, PickedIsFree, FillIsExclusive, Fill
<1>7. CASE Throw
    <2>1. TypeOK'
        BY <1>0, <1>7 DEF PoolInv, TypeOK, Throw
    <2>2. RecordsIntact'
        BY <1>0, <1>7 DEF PoolInv, RecordsIntact, Filling, Throw
    <2> QED
        BY <1>0, <1>7, <2>1, <2>2 DEF PoolInv, PickedIsFree, FillIsExclusive, Throw
<1>8. ASSUME NEW h \in Handle, NEW g \in Handle, Copy(h, g) PROVE PoolInv'
    <2>1. TypeOK'
        BY <1>0, <1>8 DEF PoolInv, TypeOK, Copy
    <2>2. RecordsIntact'
        BY <1>0, <1>8 DEF PoolInv, RecordsIntact, Filling, Copy
    <2>3. FillIsExclusive'
        BY <1>0, <1>8 DEF PoolInv, FillIsExclusive, Copy
    <2>4. PickedIsFree'
        BY <1>0, <1>8 DEF PoolInv, PickedIsFree, Copy, Buffers
    <2>5. (pc = "fill" => ptr[own] # 0)'
        BY <1>0, <1>8 DEF PoolInv, Copy
    <2> QED
        BY <1>0, <1>8, <2>1, <2>2, <2>3, <2>4, <2>5 DEF PoolInv, Copy
<1>9. ASSUME NEW h \in Handle, Drop(h) PROVE PoolInv'
    <2>1. TypeOK'
        BY <1>0, <1>9 DEF PoolInv, TypeOK, Drop
    <2>2. RecordsIntact'
        BY <1>0, <1>9 DEF PoolInv, RecordsIntact, Filling, Drop
    <2>3. FillIsExclusive'
        BY <1>0, <1>9 DEF PoolInv, FillIsExclusive, Drop
    <2>4. PickedIsFree'
        BY <1>0, <1>9 DEF PoolInv, PickedIsFree, Drop, Buffers
    <2> QED
        BY <1>0, <1>9, <2>1, <2>2, <2>3, <2>4 DEF PoolInv, Drop
<1>10. CASE UNCHANGED vars
    BY <1>10 DEF vars, PoolInv, TypeOK, PickedIsFree, FillIsExclusive, RecordsIntact,
        Filling, Buffers
<1> QED
    BY <1>1, <1>2, <1>3, <1>4, <1>5, <1>6, <1>7, <1>8, <1>9, <1>10 DEF Next

\* The invariant holds in every state of the specification.
THEOREM PoolInvariant == Spec => []PoolInv
BY InitPool, NextPool, PTL DEF Spec

\* No record is overwritten while a copy of it exists, for any number of
\* buffers, handles and acquisitions (acquisitionbufferpool.cpp:15-33).
THEOREM RecordsStayIntact == Spec => []RecordsIntact
<1>1. PoolInv => RecordsIntact
    BY DEF PoolInv
<1> QED
    BY <1>1, PoolInvariant, PTL

\* The buffer being filled is reachable from no record.
THEOREM FillStaysExclusive == Spec => []FillIsExclusive
<1>1. PoolInv => FillIsExclusive
    BY DEF PoolInv
<1> QED
    BY <1>1, PoolInvariant, PTL

\* No step of a scan brings a buffer into use behind the scan's back.
LEMMA NextScan == PoolInv /\ ScanInv /\ [Next]_vars => ScanInv'
<1> SUFFICES ASSUME PoolInv, ScanInv, [Next]_vars, pc' = "scan"
             PROVE  ScanInv'
    BY DEF ScanInv
<1> USE DEF Null
<1>0. Len(pool) \in Nat /\ i \in 0..Len(pool) /\ ptr \in [Handle -> 0..Len(pool)]
    BY DEF PoolInv, TypeOK
<1>1. CASE GetBuffer
    BY <1>0, <1>1 DEF GetBuffer, ScanInv, InUse, Buffers
<1>2. CASE ScanBusy
    <2>1. IndexAt(i) \in Buffers
        BY <1>0, <1>2, IndexInPool DEF PoolInv, ScanBusy
    <2>2. IndexAt(i) \in InUse
        BY <1>2, <2>1, UnusedCountsOne DEF ScanBusy, InUse
    <2>3. \A k \in 0..(i' - 1) : k = i \/ k \in 0..(i - 1)
        BY <1>0, <1>2 DEF ScanBusy
    <2>4. \A k : IndexAt(k)' = IndexAt(k)
        BY <1>2 DEF ScanBusy, IndexAt
    <2>5. InUse' = InUse
        BY <1>2 DEF ScanBusy, InUse, Buffers
    <2> QED
        BY <1>2, <2>2, <2>3, <2>4, <2>5 DEF ScanInv, ScanBusy
<1>3. ASSUME NEW h \in Handle, NEW g \in Handle, Copy(h, g) PROVE ScanInv'
    <2>1. InUse' \subseteq InUse
        BY <1>0, <1>3 DEF Copy, InUse, Buffers
    <2>2. \A k : IndexAt(k)' = IndexAt(k)
        BY <1>3 DEF Copy, IndexAt
    <2> QED
        BY <1>3, <2>1, <2>2 DEF ScanInv, Copy
<1>4. ASSUME NEW h \in Handle, Drop(h) PROVE ScanInv'
    <2>1. InUse' \subseteq InUse
        BY <1>0, <1>4 DEF Drop, InUse, Buffers
    <2>2. \A k : IndexAt(k)' = IndexAt(k)
        BY <1>4 DEF Drop, IndexAt
    <2> QED
        BY <1>4, <2>1, <2>2 DEF ScanInv, Drop
<1>5. CASE UNCHANGED vars
    BY <1>5 DEF vars, ScanInv, InUse, Buffers, IndexAt
<1> QED
    BY <1>1, <1>2, <1>3, <1>4, <1>5
    DEF Next, ScanFree, Take, Grow, Fill, Throw

\* get_buffer allocates only when every buffer was in use on entry, for any
\* pool size and any value of buffer_takes.
THEOREM GrowthNeedsDemand == Spec => GrowsOnlyWhenAllInUse
<1>1. Init => ScanInv
    BY DEF Init, ScanInv
<1>2. ASSUME PoolInv, ScanInv, [Next]_vars
      PROVE  [Len(pool') > Len(pool) => busy = Buffers]_vars
    <2>0. /\ pool \in Seq(Nat) /\ Len(pool) \in Nat
          /\ buffer_takes \in Nat /\ busy \subseteq Buffers
        BY <1>2, PoolAssumption DEF PoolInv, TypeOK, Buffers
    <2>1. ASSUME NEW h \in Handle, Grow(h) PROVE busy = Buffers
        <3>1. \A k \in 0..(Len(pool) - 1) : IndexAt(k) \in busy
            BY <1>2, <2>1 DEF Grow, ScanInv
        <3>2. ASSUME NEW b \in Buffers PROVE b \in busy
            <4>1. Len(pool) \in Nat \ {0} /\ b \in 1..Len(pool)
                BY <2>0, <3>2 DEF Buffers
            <4>2. PICK k \in 0..(Len(pool) - 1) : IndexAt(k) = b
                BY <2>0, <4>1, ScanCoversPool DEF IndexAt
            <4> QED
                BY <3>1, <4>2
        <3> QED
            BY <2>0, <3>2
    <2>2. ASSUME Len(pool') > Len(pool) PROVE \E h \in Handle : Grow(h)
        <3>1. CASE \E h \in Handle : Take(h)
            <4>1. Len(pool') = Len(pool)
                BY <2>0, <3>1 DEF Take
            <4> QED
                BY <2>0, <2>2, <4>1
        <3>2. CASE Fill
            <4>1. Len(pool') = Len(pool)
                BY <2>0, <3>2 DEF Fill
            <4> QED
                BY <2>0, <2>2, <4>1
        <3>3. CASE UNCHANGED pool
            BY <2>0, <2>2, <3>3
        <3> QED
            BY <1>2, <3>1, <3>2, <3>3
            DEF Next, vars, GetBuffer, ScanFree, ScanBusy, Throw, Copy, Drop
    <2> QED
        BY <2>1, <2>2
<1> QED
    BY <1>1, <1>2, PoolInvariant, NextScan, PTL DEF Spec, GrowsOnlyWhenAllInUse

=============================================================================
