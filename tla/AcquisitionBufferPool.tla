----------------------- MODULE AcquisitionBufferPool -----------------------
(***************************************************************************)
(* The pool of sample buffers (libaqmd3 AcquisitionBufferPool) and the     *)
(* shared_ptr protocol that decides when a buffer may be used again.       *)
(*                                                                         *)
(* The acquisition thread is the only caller of get_buffer.  It fills the  *)
(* buffer it is given and publishes a record that holds it; copies of that *)
(* record live in the queue and on the stack of the processing thread,     *)
(* which drops them whenever it likes.  The pool learns of that only by    *)
(* reading use_count(), one buffer after the other, without a lock.        *)
(***************************************************************************)
EXTENDS Integers, Sequences, FiniteSets

CONSTANTS
    InitialCount,   \* buffer_initial_count
    Handle,         \* the places outside the pool where a shared_ptr can live
    MaxTakes        \* bound: how often get_buffer is called

ASSUME PoolAssumption ==
    /\ InitialCount \in Nat
    /\ MaxTakes \in Nat
    /\ IsFiniteSet(Handle) /\ Handle # {}

VARIABLES
    pool,           \* samples_buffer_pool: pool[b] is the acquisition whose
                    \* samples buffer b holds, Blank after reset()
    buffer_takes,   \* also names the acquisitions: the n-th take fills n
    ptr,            \* ptr[h] is the buffer handle h points to, Null if none
    rec,            \* rec[h] is the acquisition handle h's record stands for
    pc,             \* where the acquisition thread is in get_buffer / acquire
    i,              \* the loop variable of get_buffer
    pick,           \* the buffer get_buffer has found free
    own,            \* the handle the thread keeps the buffer in while filling
    busy            \* history: the buffers in use when get_buffer was entered

vars == <<pool, buffer_takes, ptr, rec, pc, i, pick, own, busy>>

Null == 0
Blank == 0

Buffers == 1..Len(pool)

InUse == {b \in Buffers : \E h \in Handle : ptr[h] = b}

\* Mutant of use_count: the pool's own reference is not counted.
use_countNoPool(b) == Cardinality({h \in Handle : ptr[h] = b})

\* shared_ptr::use_count(): the pool's own reference and the handles.
use_count(b) == 1 + Cardinality({h \in Handle : ptr[h] = b})

\* Mutant of IndexAt: every iteration looks at the same buffer.
IndexAtStuck(k) == (buffer_takes % Len(pool)) + 1

\* The buffer at which iteration k of get_buffer's loop looks (from 1).
IndexAt(k) == ((buffer_takes + k) % Len(pool)) + 1

Init ==
    /\ pool = [b \in 1..InitialCount |-> Blank]
    /\ buffer_takes = 0
    /\ ptr = [h \in Handle |-> Null]
    /\ rec = [h \in Handle |-> 0]
    /\ pc = "idle"
    /\ i = 0
    /\ pick = Null
    /\ own \in Handle
    /\ busy = {}

-----------------------------------------------------------------------------
(* get_buffer *)

\* The call; the size of the pool is read once, and only this thread changes it.
GetBuffer ==
    /\ pc = "idle"
    /\ buffer_takes < MaxTakes
    /\ pc' = "scan"
    /\ i' = 0
    /\ busy' = InUse
    /\ UNCHANGED <<pool, buffer_takes, ptr, rec, pick, own>>

\* One iteration finds a buffer with no reference but the pool's.
ScanFree ==
    /\ pc = "scan"
    /\ i < Len(pool)
    /\ use_count(IndexAt(i)) = 1
    /\ pick' = IndexAt(i)
    /\ pc' = "take"
    /\ UNCHANGED <<pool, buffer_takes, ptr, rec, i, own, busy>>

\* One iteration finds a buffer in use and the loop goes on.
ScanBusy ==
    /\ pc = "scan"
    /\ i < Len(pool)
    /\ use_count(IndexAt(i)) # 1
    /\ i' = i + 1
    /\ UNCHANGED <<pool, buffer_takes, ptr, rec, pc, pick, own, busy>>

\* The free buffer is reset and returned into handle h.
Take(h) ==
    /\ pc = "take"
    /\ ptr[h] = Null
    /\ buffer_takes' = buffer_takes + 1
    /\ pool' = [pool EXCEPT ![pick] = Blank]
    /\ ptr' = [ptr EXCEPT ![h] = pick]
    /\ rec' = [rec EXCEPT ![h] = buffer_takes + 1]
    /\ own' = h
    /\ pc' = "fill"
    /\ UNCHANGED <<i, pick, busy>>

\* The loop ran out: a new buffer is made, whatever buffer_max_count says.
Grow(h) ==
    /\ pc = "scan"
    /\ i = Len(pool)
    /\ ptr[h] = Null
    /\ pool' = Append(pool, Blank)
    /\ buffer_takes' = buffer_takes + 1
    /\ ptr' = [ptr EXCEPT ![h] = Len(pool) + 1]
    /\ rec' = [rec EXCEPT ![h] = buffer_takes + 1]
    /\ own' = h
    /\ pc' = "fill"
    /\ UNCHANGED <<i, pick, busy>>

-----------------------------------------------------------------------------
(* What acquire() and the owners of records do with the buffer. *)

\* acquire() fetches the samples into the buffer and returns the record.
Fill ==
    /\ pc = "fill"
    /\ pool' = [pool EXCEPT ![ptr[own]] = rec[own]]
    /\ pc' = "idle"
    /\ UNCHANGED <<buffer_takes, ptr, rec, i, pick, own, busy>>

\* acquire() throws and its local shared_ptr goes; no record has the samples.
Throw ==
    /\ pc = "fill"
    /\ ptr' = [ptr EXCEPT ![own] = Null]
    /\ pc' = "idle"
    /\ UNCHANGED <<pool, buffer_takes, rec, i, pick, own, busy>>

\* Copying a record copies its shared_ptr: notify, the queue, the stack.  The
\* buffer that acquire() is still filling is in no record yet.
Copy(h, g) ==
    /\ ptr[h] # Null
    /\ ~(pc = "fill" /\ h = own)
    /\ ptr[g] = Null
    /\ ptr' = [ptr EXCEPT ![g] = ptr[h]]
    /\ rec' = [rec EXCEPT ![g] = rec[h]]
    /\ UNCHANGED <<pool, buffer_takes, pc, i, pick, own, busy>>

\* A copy of a record goes out of scope.
Drop(h) ==
    /\ ptr[h] # Null
    /\ ~(pc = "fill" /\ h = own)
    /\ ptr' = [ptr EXCEPT ![h] = Null]
    /\ UNCHANGED <<pool, buffer_takes, rec, pc, i, pick, own, busy>>

Next ==
    \/ GetBuffer
    \/ ScanFree
    \/ ScanBusy
    \/ \E h \in Handle : Take(h) \/ Grow(h)
    \/ Fill
    \/ Throw
    \/ \E h, g \in Handle : Copy(h, g)
    \/ \E h \in Handle : Drop(h)

Spec == Init /\ [][Next]_vars

-----------------------------------------------------------------------------
(* Properties *)

TypeOK ==
    /\ pool \in Seq(Nat)
    /\ buffer_takes \in 0..MaxTakes
    /\ ptr \in [Handle -> 0..Len(pool)]
    /\ rec \in [Handle -> Nat]
    /\ pc \in {"idle", "scan", "take", "fill"}
    /\ i \in 0..Len(pool)
    /\ pick \in 0..Len(pool)
    /\ own \in Handle
    /\ busy \subseteq 1..Len(pool)

\* The thread holds h for itself, in acquire(), and is still filling it.
Filling(h) == pc = "fill" /\ h = own

\* No record is overwritten: as long as a copy of a record exists, the buffer
\* it points to holds the samples that were acquired for it, although
\* get_buffer decides from use_count() alone (acquisitionbufferpool.cpp:22,
\* "use_count() not reliable") while the other thread copies and drops.
RecordsIntact ==
    \A h \in Handle :
        ptr[h] # Null /\ ~Filling(h) => pool[ptr[h]] = rec[h]

\* The buffer the driver writes to in acquire() is reachable from no record:
\* no thread reads the samples while they are being fetched.
FillIsExclusive ==
    pc = "fill" => \A h \in Handle \ {own} : ptr[h] # ptr[own]

\* Why the two hold: a buffer found free stays free, since only a handle that
\* points to it could be copied.  With the types, this is inductive.
PickedIsFree ==
    pc = "take" => pick \in Buffers /\ \A h \in Handle : ptr[h] # pick

PoolInv ==
    /\ TypeOK
    /\ pc \in {"scan", "take"} => buffer_takes < MaxTakes
    /\ pc = "fill" => ptr[own] # Null
    /\ PickedIsFree
    /\ FillIsExclusive
    /\ RecordsIntact

\* get_buffer allocates only under pressure: when the pool grows, every buffer
\* it had was in use when get_buffer was entered, although they were looked
\* at one by one while the processing thread was releasing them.
GrowsOnlyWhenAllInUse ==
    [][Len(pool') > Len(pool) => busy = Buffers]_vars

\* Why it holds: during the scan no buffer comes into use that was not when it
\* began, so every buffer passed over was in use then.
ScanInv ==
    pc = "scan" => InUse \subseteq busy /\ \A k \in 0..(i - 1) : IndexAt(k) \in busy

=============================================================================
