-------------------------------- MODULE Lzf --------------------------------
(***************************************************************************)
(* The LZF codec as UIMFWriter builds it (lzf_c.c, lzf_d.c, lzfP.h with    *)
(* VERY_FAST, INIT_HTAB, CHECK_INPUT and STRICT_ALIGN set): lzf_compress   *)
(* as a state machine with one step per round of its loop, lzf_decompress  *)
(* as an operator.  Bytes are numbers; positions count from 0, as in the   *)
(* code, so that byte i of the input is in[i + 1].                         *)
(***************************************************************************)
EXTENDS Integers, Sequences, FiniteSetsExt

VARIABLES
    in,         \* in_data
    out_len,    \* the room the caller gives in out_data
    ip,         \* position of the next byte to read
    out,        \* what is written, up to the control byte of the open run
    run,        \* the literals after that byte: lit is Len(run)
    htab,       \* hash of three bytes -> where they were last seen
    lzf         \* "idle", "running", "done", or "refused" for the result 0

lzfVars == <<in, out_len, ip, out, run, htab, lzf>>

MAX_LIT == 2^5
MAX_OFF == 2^13
MAX_REF == 2^8 + 2^3

in_len == Len(in)

\* FRST, NEXT and IDX: only the last three bytes reach the index.
IDX(i) ==
    LET a == in[i + 1]  b == in[i + 2]  c == in[i + 3]
    IN  (256 * a + b - 5 * (256 * b + c)) % 2^16

\* The table is cleared first; an empty slot reads as position 0.
Slot(i) == IF IDX(i) \in DOMAIN htab THEN htab[IDX(i)] ELSE 0

Store(tab, i) == [h \in DOMAIN tab \cup {IDX(i)} |-> IF h = IDX(i) THEN i ELSE tab[h]]

\* op: the open run has one control byte in front of it.
op == Len(out) + 1 + Len(run)

\* op[-lit - 1] = lit - 1, or the control byte undone where the run is empty.
StopRun(o, r) == IF r = <<>> THEN o ELSE o \o <<Len(r) - 1>> \o r

LzfIdle ==
    /\ in = <<>> /\ out_len = 0 /\ ip = 0
    /\ out = <<>> /\ run = <<>> /\ htab = <<>>
    /\ lzf = "idle"

\* lzf_compress is called: nothing to read, or no room at all, is refused.
Call(data, room) ==
    /\ in' = data
    /\ out_len' = room
    /\ ip' = 0
    /\ out' = <<>>
    /\ run' = <<>>
    /\ htab' = <<>>
    /\ lzf' = IF Len(data) = 0 \/ room = 0 THEN "refused" ELSE "running"

\* The three bytes at the slot, not at the very start and not too far back.
Match ==
    LET ref == Slot(ip)
    IN  /\ ref > 0
        /\ ip - ref - 1 < MAX_OFF
        /\ \A k \in 1..3 : in[ref + k] = in[ip + k]

MaxLen == Min({in_len - ip - 2, MAX_REF})

\* How far the match goes.  Where MaxLen is above 16 the first sixteen tests are
\* made without looking at it.
MatchLen(ref) ==
    LET Differs(l) == in[ref + l + 1] # in[ip + l + 1]
        Ends(l) == IF MaxLen > 16 /\ l <= 18 THEN Differs(l)
                   ELSE l >= MaxLen \/ Differs(l)
    IN  CHOOSE l \in 3..Max({19, MaxLen}) :
            Ends(l) /\ \A k \in 3..(l - 1) : ~Ends(k)

Running == lzf = "running" /\ ip < in_len - 2

NoRoomForReference ==
    op + 4 >= out_len /\ op - (IF run = <<>> THEN 1 ELSE 0) + 4 >= out_len

Refuse ==
    /\ lzf' = "refused"
    /\ UNCHANGED <<in, out_len, ip, out, run, htab>>

\* The bytes of a back reference: len is the number of bytes less two.
Reference(ref, len) ==
    LET off == ip - ref - 1
    IN  IF len < 7 THEN <<off \div 256 + 32 * len, off % 256>>
        ELSE <<off \div 256 + 224, (len - 7) % 256, off % 256>>

\* A match: the open run ends and a reference follows.  Unless the input ends
\* here the table learns the last two positions of the match.
CompressMatch ==
    /\ Running
    /\ Match
    /\ IF NoRoomForReference THEN Refuse
       ELSE LET ref == Slot(ip)
                len == MatchLen(ref)
                next == ip + len
                tab == Store(htab, ip)
            IN  /\ out' = StopRun(out, run) \o Reference(ref, len - 2)
                /\ run' = <<>>
                /\ ip' = next
                /\ htab' = IF next >= in_len - 2 THEN tab
                           ELSE Store(Store(tab, next - 2), next - 1)
                /\ UNCHANGED <<in, out_len, lzf>>

\* Mutant of AddLiterals: a run is closed one literal late.
AddLiteralsLate(s) ==
    LET all == run \o s
    IN  IF Len(all) <= MAX_LIT THEN <<out, all>>
        ELSE <<StopRun(out, SubSeq(all, 1, MAX_LIT + 1)), SubSeq(all, MAX_LIT + 2, Len(all))>>

\* More literals, and a new run when the open one is full: out and run.
AddLiterals(s) ==
    LET all == run \o s
    IN  IF Len(all) < MAX_LIT THEN <<out, all>>
        ELSE <<StopRun(out, SubSeq(all, 1, MAX_LIT)), SubSeq(all, MAX_LIT + 1, Len(all))>>

CompressLiteral ==
    /\ Running
    /\ ~Match
    /\ IF op >= out_len THEN Refuse
       ELSE LET w == AddLiterals(<<in[ip + 1]>>)
            IN  /\ out' = w[1]
                /\ run' = w[2]
                /\ ip' = ip + 1
                /\ htab' = Store(htab, ip)
                /\ UNCHANGED <<in, out_len, lzf>>

\* At most two bytes are left: literals, and the last run ends.
CompressEnd ==
    /\ lzf = "running"
    /\ ip >= in_len - 2
    /\ IF op + 3 > out_len THEN Refuse
       ELSE LET w == AddLiterals(SubSeq(in, ip + 1, in_len))
            IN  /\ out' = StopRun(w[1], w[2])
                /\ run' = <<>>
                /\ ip' = in_len
                /\ lzf' = "done"
                /\ UNCHANGED <<in, out_len, htab>>

Compress == CompressMatch \/ CompressLiteral \/ CompressEnd

-----------------------------------------------------------------------------
(* lzf_decompress *)

\* The failures EINVAL and E2BIG end the loop.
Fails(bytes) == [at |-> Len(bytes), data |-> <<>>, ok |-> FALSE]

\* ref is before op and may overlap it: byte by byte, so the copy repeats.
CopyBack(data, dist, len) ==
    data \o [k \in 1..len |-> data[Len(data) - dist + 1 + ((k - 1) % dist)]]

\* A run of literals behind its control byte.
Literals(bytes, room, s) ==
    LET n == bytes[s.at + 1] + 1
    IN  IF Len(s.data) + n > room \/ s.at + 1 + n > Len(bytes) THEN Fails(bytes)
        ELSE [at |-> s.at + 1 + n,
              data |-> s.data \o SubSeq(bytes, s.at + 2, s.at + 1 + n),
              ok |-> TRUE]

\* A reference of two bytes, or of three where it is long.
BackReference(bytes, room, s) ==
    LET control == bytes[s.at + 1]
        long == control \div 32 = 7
        size == IF long THEN 3 ELSE 2
        len == (IF long THEN 7 + bytes[s.at + 2] ELSE control \div 32) + 2
        dist == 256 * (control % 32) + bytes[s.at + size] + 1
    IN  IF s.at + size > Len(bytes) \/ Len(s.data) + len > room \/ dist > Len(s.data)
        THEN Fails(bytes)
        ELSE [at |-> s.at + size, data |-> CopyBack(s.data, dist, len), ok |-> TRUE]

\* One round of the loop, unless the input has ended.
Round(bytes, room, s) ==
    IF s.at = Len(bytes) THEN s
    ELSE IF bytes[s.at + 1] < 32 THEN Literals(bytes, room, s)
    ELSE BackReference(bytes, room, s)

\* Every round but the last reads a byte at least.
Decompress(bytes, room) ==
    LET after[k \in 0..Len(bytes)] ==
            IF k = 0 THEN [at |-> 0, data |-> <<>>, ok |-> TRUE]
            ELSE Round(bytes, room, after[k - 1])
    IN  after[Len(bytes)]

=============================================================================
