--------------------------- MODULE ConsoleProofs ----------------------------
(***************************************************************************)
(* The console dies on no command of a client that keeps to the protocol,  *)
(* its pool holds the records of its controller, the card is set up as the *)
(* controller counts on, and what it serves with is what the first lines   *)
(* of config.txt say: for any file, periods and delays, and whichever call *)
(* of the driver fails in the middle of a command.                         *)
(***************************************************************************)
EXTENDS Console, SequenceTheorems, WellFoundedInduction, TLAPS

-----------------------------------------------------------------------------
(* Sequences of calls *)

\* Max of a set of numbers that has a greatest one.
LEMMA MaxIs ==
    ASSUME NEW S \in SUBSET Nat, NEW m \in S, \A x \in S : x <= m
    PROVE  Max(S) = m
<1>1. \A x \in S : m >= x
    OBVIOUS
<1> DEFINE y == CHOOSE x \in S : \A z \in S : x >= z
<1>2. y \in S /\ \A z \in S : y >= z
    BY <1>1
<1> HIDE DEF y
<1>3. y \in Nat /\ m \in Nat /\ y >= m /\ m >= y
    BY <1>1, <1>2
<1>4. y = m
    BY <1>3
<1> QED
    BY <1>4 DEF Max, y

\* The latest call of a name is the last one of that name.
LEMMA LatestIs ==
    ASSUME NEW calls, NEW call, NEW n \in Nat, NEW m \in 1..n, calls[m].call = call,
           \A j \in 1..n : j > m => calls[j].call # call
    PROVE  Latest(calls, call, n) = m
<1> DEFINE S == {0} \cup {j \in 1..n : calls[j].call = call}
<1>1. S \in SUBSET Nat /\ m \in S
    OBVIOUS
<1>2. \A x \in S : x <= m
    OBVIOUS
<1> HIDE DEF S
<1>3. Max(S) = m
    BY <1>1, <1>2, MaxIs
<1> QED
    BY <1>3 DEF Latest, S

\* A name never called has no latest call.
LEMMA LatestNone ==
    ASSUME NEW calls, NEW call, NEW n \in Nat, \A j \in 1..n : calls[j].call # call
    PROVE  Latest(calls, call, n) = 0
<1> DEFINE S == {0} \cup {j \in 1..n : calls[j].call = call}
<1>1. S \in SUBSET Nat /\ 0 \in S /\ \A x \in S : x <= 0
    OBVIOUS
<1> HIDE DEF S
<1>2. Max(S) = 0
    BY <1>1, MaxIs
<1> QED
    BY <1>2 DEF Latest, S

\* Calls that apply no setup leave what was applied, however many succeed.
LEMMA NotApplied ==
    ASSUME NEW c, NEW S, NEW calls \in Seq(S), NEW n \in 0..Len(calls),
           \A j \in 1..Len(calls) : calls[j].call # "apply_setup"
    PROVE  After(c, SubSeq(calls, 1, n)).applied = c.applied
<1> DEFINE s == SubSeq(calls, 1, n)
<1>1. Len(calls) \in Nat /\ n \in Nat
    BY LenProperties
<1>2. Len(s) = n /\ \A j \in 1..n : s[j] = calls[j]
    BY <1>1, SubSeqProperties
<1> HIDE DEF s
<1>3. \A j \in 1..n : s[j].call # "apply_setup"
    BY <1>1, <1>2
<1>4. Latest(s, "apply_setup", Len(s)) = 0
    BY <1>1, <1>2, <1>3, LatestNone
<1> QED
    BY <1>4 DEF After, s

\* The calls of "acquire" end with the setup of the zero suppressed acquisition.
LEMMA AcquireCallsAre ==
    ASSUME NEW t
    PROVE  LET c == AcquireCalls(t) IN
           /\ Len(c) = 13
           /\ c[6].call = "record_size" /\ c[6].value = t.record_size
           /\ c[7].call = "get_publisher"
           /\ c[8].call = "streaming" /\ c[8].value = Triggered
           /\ c[9].call = "reduction" /\ c[9].value = ZeroSuppress
           /\ c[10].call = "hysteresis" /\ c[10].value = settings.ZeroSuppressHysteresis
           /\ c[11].call = "threshold" /\ c[11].value = settings.ZeroSuppressThreshold
           /\ c[12].call = "apply_setup"
           /\ c[13].call = "calibrate"
BY DEF AcquireCalls, MeasurePeriod, ConfigureCst, ConfigureZs, Set, Other

-----------------------------------------------------------------------------
(* The thread, the chain and the protocol *)

\* The console starts as its protocol says.
LEMMA InitProtocol == Init => ProtocolInv
BY DEF Init, ProtocolInv, NoController, DiesOnlyByProtocol

\* The measured period and what it leaves of a record.
LEMMA TimingFields ==
    ASSUME NEW p \in Periods
    PROVE  /\ Timing(p).tof_width = p /\ p \in Nat /\ p # 0
           /\ Timing(p).record_size \in Int
<1>1. p \in Nat /\ PostTrigger \in Nat /\ Rearm \in Nat /\ p > PostTrigger + Rearm
    BY ConsoleAssumption
<1> QED
    BY <1>1 DEF Timing

\* Commands that start and stop nothing.
LEMMA QuietProtocol ==
    ASSUME ProtocolInv, UNCHANGED <<controller, protocol>>,
           pc' = pc \/ pc' \in {"exited", "serving"}
    PROVE  ProtocolInv'
BY DEF ProtocolInv, DiesOnlyByProtocol

\* An old controller that is replaced has no thread unless the client has gone
\* on without stopping it.
LEMMA AcquireProtocol ==
    ASSUME ProtocolInv, NEW p \in Periods, acquire(p)
    PROVE  ProtocolInv'
<1> DEFINE t == Timing(p)
           calls == AcquireCalls(t)
<1>1. PICK n \in Succeed(calls) :
          /\ controller' = ControllerAfter(n = Len(calls), t)
          /\ pc' = IF Destroys(n = Len(calls)) THEN "dead" ELSE pc
          /\ protocol' = IF n # Len(calls) THEN protocol
                         ELSE IF protocol \in {"closed", "stopped"} THEN "running"
                         ELSE "broken"
    BY DEF acquire
<1>2. t.tof_width \in Nat /\ t.record_size \in Int
    BY TimingFields
<1>3. CASE n # Len(calls)
    <2>1. UNCHANGED <<controller, protocol, pc>>
        BY <1>1, <1>3 DEF ControllerAfter, Destroys
    <2> QED
        BY <2>1, QuietProtocol
<1>4. CASE n = Len(calls)
    <2>1. /\ controller' = NewController(t)
          /\ pc' = IF controller.joinable THEN "dead" ELSE pc
          /\ protocol' = IF protocol \in {"closed", "stopped"} THEN "running" ELSE "broken"
        BY <1>1, <1>4 DEF ControllerAfter, Destroys
    <2> HIDE DEF t
    <2> QED
        BY <1>2, <2>1 DEF ProtocolInv, DiesOnlyByProtocol, NewController
<1> QED
    BY <1>3, <1>4

\* acquire frame: a client within the protocol has no thread in its way.
LEMMA FrameProtocol ==
    ASSUME ProtocolInv, NEW r \in Requests, acquire_frame(r)
    PROVE  ProtocolInv'
<1>1. /\ protocol' = IF protocol = "stopped" THEN "running" ELSE "broken"
      /\ pc = "serving"
      /\ IF ~controller.exists \/ Overwrites
         THEN pc' = "dead" /\ UNCHANGED controller
         ELSE /\ controller' = IF Refuses THEN controller
                               ELSE [controller EXCEPT !.thread = "spawned", !.joinable = TRUE]
              /\ UNCHANGED pc
    BY DEF acquire_frame, Command
<1> QED
    BY <1>1 DEF ProtocolInv, DiesOnlyByProtocol, Overwrites, Refuses

\* stop, with or without the end of the chain.
LEMMA StopProtocol ==
    ASSUME ProtocolInv, NEW terminate \in BOOLEAN, stop(terminate)
    PROVE  ProtocolInv'
<1>1. /\ pc' = pc
      /\ controller' =
             IF ~controller.exists THEN controller
             ELSE [controller EXCEPT
                      !.completed = @ \/ terminate,
                      !.thread = IF Joins(terminate) THEN "none" ELSE @,
                      !.joinable = @ /\ ~Joins(terminate)]
      /\ protocol' = IF protocol \in {"closed", "broken"} THEN protocol
                     ELSE IF terminate THEN "closed" ELSE "stopped"
    BY DEF stop
<1> QED
    BY <1>1 DEF ProtocolInv, DiesOnlyByProtocol, Joins

\* The acquisition thread begins, and ends.
LEMMA ThreadProtocol ==
    ASSUME ProtocolInv, ThreadBegins \/ ThreadEnds
    PROVE  ProtocolInv'
BY DEF ThreadBegins, ThreadEnds, ThreadStep, ProtocolInv, DiesOnlyByProtocol, historyVars

\* Every command and every step of the thread keeps the protocol's invariant.
LEMMA ProtocolKeeps == ASSUME ProtocolInv, [Next]_vars PROVE ProtocolInv'
<1>1. CASE configure_settings
    <2>1. UNCHANGED <<controller, protocol>> /\ pc' \in {"exited", "serving"}
        BY <1>1 DEF configure_settings, mainVars, historyVars
    <2> QED
        BY <2>1, QuietProtocol
<1>2. CASE DriverCommands \/ UNCHANGED vars \/ \E p \in Periods : tof_width(p)
    <2>1. UNCHANGED <<controller, protocol, pc>>
        BY <1>2 DEF DriverCommands, init, vertical, invert, io_port, horizontal, DriverCommand,
            tof_width, mainVars, historyVars, vars
    <2> QED
        BY <2>1, QuietProtocol
<1> QED
    BY <1>1, <1>2, AcquireProtocol, FrameProtocol, StopProtocol, ThreadProtocol DEF Next

-----------------------------------------------------------------------------
(* The pool *)

\* There is no pool at first.
LEMMA InitPool == Init => PoolInv
BY DEF Init, PoolInv, NoController, PoolFits

\* What keeps the controller's period and the pool keeps what they agree on.
LEMMA QuietPool ==
    ASSUME PoolInv, UNCHANGED <<buffer_pool, shortest>>,
           controller'.exists = controller.exists, controller'.tof_width = controller.tof_width
    PROVE  PoolInv'
BY DEF PoolInv, PoolFits

\* The period is taken over before there is a pool, and a pool before there is
\* a controller, whichever of the calls throws.
LEMMA AcquirePool ==
    ASSUME ProtocolInv, PoolInv, NEW p \in Periods, acquire(p)
    PROVE  PoolInv'
<1> DEFINE t == Timing(p)
           calls == AcquireCalls(t)
<1>1. PICK n \in Succeed(calls) :
          /\ buffer_pool' = IF n >= Published THEN PoolSize(t) ELSE buffer_pool
          /\ controller' = ControllerAfter(n = Len(calls), t)
          /\ shortest' = IF n >= Measured /\ (shortest = 0 \/ p < shortest) THEN p ELSE shortest
    BY DEF acquire
<1>2. Measured = 6 /\ Published = 7 /\ Len(calls) = 13
    BY DEF Measured, Published, AcquireCalls, MeasurePeriod, ConfigureCst, ConfigureZs, Set, Other
<1>3. n \in Nat
    BY <1>1, <1>2 DEF Succeed
<1>4. t.tof_width = p /\ p \in Nat /\ p # 0
    BY TimingFields
<1>5. buffer_pool' = IF n >= 7 THEN (IF buffer_pool = 0 THEN p ELSE buffer_pool) ELSE buffer_pool
    BY <1>1, <1>2, <1>4 DEF PoolSize
<1>6. shortest' = IF n >= 6 /\ (shortest = 0 \/ p < shortest) THEN p ELSE shortest
    BY <1>1, <1>2
<1>7. /\ n # 13 => controller' = controller
      /\ n = 13 => controller'.exists /\ controller'.tof_width = p
    BY <1>1, <1>2, <1>4 DEF ControllerAfter, NewController
<1> HIDE DEF t, calls
<1> USE DEF PoolInv, PoolFits
<1>8. buffer_pool' \in Nat /\ shortest' \in Nat
    BY <1>4, <1>5, <1>6
<1>9. buffer_pool' # 0 => shortest' \in 1..buffer_pool'
    BY <1>3, <1>4, <1>5, <1>6
<1>10. CASE n = 13
    BY <1>4, <1>5, <1>6, <1>7, <1>8, <1>9, <1>10
<1>11. CASE n # 13
    <2>1. controller' = controller
        BY <1>7, <1>11
    <2>2. controller.exists => buffer_pool' = buffer_pool /\ shortest' <= shortest /\ shortest \in Nat
        BY <1>3, <1>4, <1>5, <1>6
    <2>0. controller.tof_width \in Nat
        BY DEF ProtocolInv
    <2>3. controller.exists =>
              controller.tof_width <= buffer_pool' \/ shortest' < controller.tof_width
        <3> DEFINE w == controller.tof_width
        <3>1. w \in Nat /\ (controller.exists => w <= buffer_pool \/ shortest < w)
            BY <2>0
        <3> HIDE DEF w
        <3>2. controller.exists => w <= buffer_pool' \/ shortest' < w
            BY <1>8, <2>2, <3>1
        <3> QED
            BY <3>2 DEF w
    <2> QED
        BY <1>8, <1>9, <2>1, <2>2, <2>3
<1> QED
    BY <1>10, <1>11

\* Every step keeps what is known of the pool and the record it was made for.
LEMMA PoolKeeps == ASSUME ProtocolInv, PoolInv, [Next]_vars PROVE PoolInv'
<1>1. CASE \E p \in Periods : acquire(p)
    BY <1>1, AcquirePool
<1>2. CASE configure_settings \/ DriverCommands \/ UNCHANGED vars \/ \E p \in Periods : tof_width(p)
    <2>1. UNCHANGED <<buffer_pool, shortest, controller>>
        BY <1>2 DEF configure_settings, DriverCommands, init, vertical, invert, io_port,
            horizontal, DriverCommand, tof_width, mainVars, historyVars, vars
    <2> QED
        BY <2>1, QuietPool
<1>3. CASE (\E r \in Requests : acquire_frame(r)) \/ (\E terminate \in BOOLEAN : stop(terminate))
               \/ ThreadBegins \/ ThreadEnds
    <2>1. UNCHANGED <<buffer_pool, shortest>> /\ controller'.exists = controller.exists
          /\ controller'.tof_width = controller.tof_width
        BY <1>3, ZenonT(60)
            DEF acquire_frame, stop, ThreadBegins, ThreadEnds, ThreadStep, historyVars, ProtocolInv
    <2> QED
        BY <2>1, QuietPool
<1> QED
    BY <1>1, <1>2, <1>3 DEF Next

-----------------------------------------------------------------------------
(* What Config::read makes of the lines *)

\* Induction, for the set of the numbers that have the property.
LEMMA Induction ==
    ASSUME NEW S, 0 \in S, \A n \in Nat : n \in S => n + 1 \in S
    PROVE  Nat \subseteq S
<1> DEFINE R == OpToRel(<, Nat)
           T == Nat \ S
<1>1. IsWellFoundedOn(R, Nat)
    BY NatLessThanWellFounded
<1>2. SUFFICES ASSUME T # {} PROVE FALSE
    OBVIOUS
<1>3. T \subseteq Nat
    OBVIOUS
<1>4. \A i, j \in Nat : i < j => <<i, j>> \in R
    BY DEF OpToRel
<1> HIDE DEF R, T
<1>5. PICK m \in T : \A j \in T : ~(<<j, m>> \in R)
    BY <1>1, <1>2, <1>3, WFMin
<1> USE DEF T
<1>6. m \in Nat /\ m # 0
    BY <1>5
<1>7. m - 1 \in Nat /\ m - 1 < m /\ (m - 1) + 1 = m
    BY <1>6
<1>8. m - 1 \in T
    BY <1>5, <1>7
<1> QED
    BY <1>4, <1>5, <1>6, <1>7, <1>8

\* f is the map after each of the first m lines.
Maps(f, lines, m) ==
    f = [n \in 0..m |-> IF n = 0 THEN <<>> ELSE ReadLine(f[n - 1], lines[n])]

\* The maps after each of the lines, by induction over the lines.
LEMMA MapsExist ==
    ASSUME NEW lines, NEW m \in Nat
    PROVE  \E f : Maps(f, lines, m)
<1> DEFINE S == {n \in Nat : \E f : Maps(f, lines, n)}
<1>1. 0 \in S
    <2> DEFINE g == [n \in 0..0 |-> <<>>]
    <2>1. Maps(g, lines, 0)
        BY DEF Maps
    <2> QED
        BY <2>1
<1>2. ASSUME NEW n \in Nat, n \in S PROVE n + 1 \in S
    <2>1. PICK f : Maps(f, lines, n)
        BY <1>2
    <2> DEFINE g == [i \in 0..(n + 1) |-> IF i = n + 1 THEN ReadLine(f[n], lines[n + 1]) ELSE f[i]]
               h == [i \in 0..(n + 1) |-> IF i = 0 THEN <<>> ELSE ReadLine(g[i - 1], lines[i])]
    <2>2. ASSUME NEW i \in 0..(n + 1) PROVE g[i] = h[i]
        <3>1. CASE i = n + 1
            <4>1. i # 0 /\ i - 1 = n /\ n \in 0..(n + 1) /\ n # n + 1
                BY <3>1
            <4> QED
                BY <3>1, <4>1
        <3>2. CASE i # n + 1 /\ i = 0
            BY <2>1, <3>2 DEF Maps
        <3>3. CASE i # n + 1 /\ i # 0
            <4>1. i \in 0..n /\ i - 1 \in 0..(n + 1) /\ i - 1 # n + 1
                BY <3>3
            <4>2. f[i] = ReadLine(f[i - 1], lines[i])
                BY <2>1, <3>3, <4>1 DEF Maps
            <4> QED
                BY <3>3, <4>1, <4>2
        <3> QED
            BY <3>1, <3>2, <3>3
    <2>3. g = h
        BY <2>2
    <2>4. Maps(g, lines, n + 1)
        BY <2>3 DEF Maps
    <2> QED
        BY <2>4
<1> HIDE DEF S
<1>3. Nat \subseteq S
    BY <1>1, <1>2, Induction
<1> QED
    BY <1>3 DEF S

\* What read returns is the map after the last line.
LEMMA ReadIsLastMap ==
    ASSUME NEW lines, Len(lines) \in Nat
    PROVE  \E f : Maps(f, lines, Len(lines)) /\ read(lines) = f[Len(lines)]
<1> DEFINE f == CHOOSE f : Maps(f, lines, Len(lines))
<1>1. Maps(f, lines, Len(lines))
    BY MapsExist
<1>2. read(lines) = f[Len(lines)]
    BY DEF read, Maps
<1> QED
    BY <1>1, <1>2

\* Line i sets the key, and no line before it does.
Sets(lines, i, key) == Len(lines[i]) = 2 /\ lines[i][1] = Word(key)
First(lines, i, key) == Sets(lines, i, key) /\ \A j \in 1..i - 1 : ~Sets(lines, j, key)

\* What the map has for the key after n lines.
Has(map, lines, n, key) ==
    \/ key \notin DOMAIN map /\ \A j \in 1..n : ~Sets(lines, j, key)
    \/ key \in DOMAIN map /\ \E i \in 1..n : First(lines, i, key) /\ map[key] = lines[i][2]

Keys == DOMAIN Defaults

\* The keys, one by one.
LEMMA KeysAre ==
    Keys = {"PassedOn", "MarkerDiagnostics", "FullScaleRange", "ZeroSuppressThreshold",
            "ZeroSuppressHysteresis", "ControlIoPort"}
BY DEF Keys, Defaults

Parts == {p \in [word : STRING, number : Int] : p.word # "" => p.number = 0}

\* One line more.
LEMMA OneMoreLine ==
    ASSUME NEW lines, NEW n \in Nat, lines[n + 1] \in Seq(Parts),
           NEW map, NEW key \in Keys, Has(map, lines, n, key),
           NEW after, after = ReadLine(map, lines[n + 1])
    PROVE  Has(after, lines, n + 1, key)
<1> DEFINE line == lines[n + 1]
<1>1. key # "" /\ key # "#"
    BY KeysAre
<1>2. n + 1 \in 1..(n + 1) /\ 1..((n + 1) - 1) = 1..n
      /\ \A j \in 1..(n + 1) : j \in 1..n \/ j = n + 1
    OBVIOUS
<1>3. \A i \in 1..n : i \in 1..(n + 1)
    OBVIOUS
<1>4. CASE line = <<>> \/ line[1] = Word("#") \/ Len(line) # 2
    <2>1. after = map
        BY <1>4 DEF ReadLine
    <2>2. ~Sets(lines, n + 1, key)
        <3>1. Len(<<>>) # 2
            OBVIOUS
        <3>2. Word("#") # Word(key)
            BY <1>1 DEF Word
        <3> QED
            BY <1>4, <3>1, <3>2 DEF Sets
    <2>3. \A j \in 1..(n + 1) : j \in 1..n \/ j = n + 1
        BY <1>2
    <2> QED
        BY <1>3, <2>1, <2>2, <2>3 DEF Has
<1>5. CASE ~(line = <<>> \/ line[1] = Word("#") \/ Len(line) # 2)
    <2>1. after = [k \in DOMAIN map \cup {line[1].word} |->
                      IF k \in DOMAIN map THEN map[k] ELSE line[2]]
        BY <1>5 DEF ReadLine
    <2>2. Len(line) = 2
        BY <1>5
    <2>3. line[1] \in Parts
        <3>1. 1 \in 1..Len(line)
            BY <2>2
        <3> QED
            BY <3>1, ElementOfSeq
    <2>4. Sets(lines, n + 1, key) <=> line[1].word = key
        <3> DEFINE p == line[1]
        <3>1. p \in [word : STRING, number : Int] /\ (p.word # "" => p.number = 0)
            BY <2>3 DEF Parts
        <3>2. Sets(lines, n + 1, key) <=> p = Word(key)
            BY <2>2 DEF Sets
        <3> HIDE DEF p
        <3>3. p = [word |-> p.word, number |-> p.number]
            BY <3>1
        <3>4. p = Word(key) <=> p.word = key
            <4>1. p = Word(key) => p.word = key
                BY DEF Word
            <4>2. ASSUME p.word = key PROVE p = Word(key)
                <5>1. p.number = 0
                    BY <1>1, <3>1, <4>2
                <5> QED
                    BY <3>3, <4>2, <5>1, Zenon DEF Word
            <4> QED
                BY <4>1, <4>2
        <3> QED
            BY <3>2, <3>4 DEF p
    <2> HIDE DEF line
    <2>5. CASE key \in DOMAIN map
        <3>1. key \in DOMAIN after /\ after[key] = map[key]
            BY <2>1, <2>5
        <3>2. PICK i \in 1..n : First(lines, i, key) /\ map[key] = lines[i][2]
            BY <2>5 DEF Has
        <3> QED
            BY <1>3, <3>1, <3>2 DEF Has
    <2>6. CASE key \notin DOMAIN map /\ line[1].word = key
        <3>1. key \in DOMAIN after /\ after[key] = line[2]
            BY <2>1, <2>6
        <3>2. \A j \in 1..n : ~Sets(lines, j, key)
            BY <2>6 DEF Has
        <3>3. First(lines, n + 1, key)
            BY <1>2, <2>4, <2>6, <3>2 DEF First
        <3> QED
            BY <1>2, <3>1, <3>3 DEF Has, line
    <2>7. CASE key \notin DOMAIN map /\ line[1].word # key
        <3>1. key \notin DOMAIN after
            BY <2>1, <2>7
        <3>2. \A j \in 1..n : ~Sets(lines, j, key)
            BY <2>7 DEF Has
        <3>3. \A j \in 1..(n + 1) : ~Sets(lines, j, key)
            BY <1>2, <2>4, <2>7, <3>2
        <3> QED
            BY <3>1, <3>3 DEF Has
    <2> QED
        BY <2>5, <2>6, <2>7
<1> QED
    BY <1>4, <1>5

\* The first line that sets a key decides what the map has for it.
LEMMA FirstLineDecides ==
    ASSUME NEW lines \in Seq(Seq(Parts)), NEW key \in Keys
    PROVE  Has(read(lines), lines, Len(lines), key)
<1> DEFINE len == Len(lines)
<1>1. len \in Nat /\ \A i \in 1..len : lines[i] \in Seq(Parts)
    BY LenProperties, ElementOfSeq
<1>2. PICK f : Maps(f, lines, len) /\ read(lines) = f[len]
    BY <1>1, ReadIsLastMap
<1> HIDE DEF len
<1> DEFINE S == {n \in Nat : n <= len => Has(f[n], lines, n, key)}
<1>3. 0 \in S
    <2>1. f[0] = <<>>
        BY <1>1, <1>2 DEF Maps
    <2>2. DOMAIN <<>> = {} /\ 1..0 = {}
        OBVIOUS
    <2> QED
        BY <2>1, <2>2 DEF Has
<1>4. ASSUME NEW n \in Nat, n \in S PROVE n + 1 \in S
    <2> SUFFICES ASSUME n + 1 <= len PROVE Has(f[n + 1], lines, n + 1, key)
        OBVIOUS
    <2>1. n + 1 \in 0..len /\ n + 1 # 0 /\ (n + 1) - 1 = n /\ n <= len /\ n + 1 \in 1..len
        BY <1>1
    <2>2. f[n + 1] = ReadLine(f[n], lines[n + 1])
        BY <1>2, <2>1 DEF Maps
    <2>3. Has(f[n], lines, n, key)
        BY <1>4, <2>1
    <2> QED
        BY <1>1, <2>1, <2>2, <2>3, OneMoreLine
<1> HIDE DEF S
<1>5. len \in S
    BY <1>1, <1>3, <1>4, Induction
<1>6. Has(f[len], lines, len, key)
    <2>1. len <= len
        BY <1>1
    <2> QED
        BY <1>5, <2>1 DEF S
<1> QED
    BY <1>2, <1>6 DEF len

-----------------------------------------------------------------------------
(* The settings and the card *)

\* The lines of a file are sequences of sequences of parts.
LEMMA LinesAre ==
    ASSUME NEW f \in ConfigFiles
    PROVE  f.lines \in Seq(Seq(Parts))
<1> DEFINE P == [word : STRING, number : Int]
           lines == f.lines
<1>1. /\ lines \in Seq(Seq(P))
      /\ \A i \in DOMAIN lines : \A j \in DOMAIN lines[i] :
             lines[i][j].word # "" => lines[i][j].number = 0
    BY ConfigFilesAssumption
<1> HIDE DEF P, lines
<1>2. ASSUME NEW i \in DOMAIN lines PROVE lines[i] \in Seq(Parts)
    <2>1. lines[i] \in Seq(P)
        BY <1>1, <1>2, LenProperties, ElementOfSeq
    <2>2. ASSUME NEW j \in DOMAIN lines[i] PROVE lines[i][j] \in Parts
        <3>1. lines[i][j] \in P
            BY <2>1, <2>2, LenProperties, ElementOfSeq
        <3> QED
            BY <1>1, <3>1 DEF P, Parts
    <2>3. Len(lines[i]) \in Nat /\ DOMAIN lines[i] = 1..Len(lines[i])
          /\ lines[i] = [j \in 1..Len(lines[i]) |-> lines[i][j]]
        BY <2>1, LenProperties
    <2>4. lines[i] \in [1..Len(lines[i]) -> Parts]
        BY <2>2, <2>3
    <2> QED
        BY <2>3, <2>4, SeqDef
<1>3. Len(lines) \in Nat /\ lines \in [1..Len(lines) -> Seq(Parts)]
    <2>1. Len(lines) \in Nat /\ DOMAIN lines = 1..Len(lines)
          /\ lines = [j \in 1..Len(lines) |-> lines[j]]
        BY <1>1, LenProperties
    <2> QED
        BY <1>2, <2>1
<1> QED
    BY <1>3, SeqDef, SMTT(60) DEF lines

\* What is taken from the map for a key, when no value is refused.
LEMMA NumberIsRead ==
    ASSUME NEW lines \in Seq(Seq(Parts)), ~NotANumber(read(lines)), NEW key \in Keys
    PROVE  /\ config_number(read(lines), key) \in Int
           /\ \/ \E i \in DOMAIN lines : /\ First(lines, i, key)
                                         /\ lines[i][2] = Number(config_number(read(lines), key))
              \/ /\ config_number(read(lines), key) = Defaults[key]
                 /\ ~\E i \in DOMAIN lines : First(lines, i, key)
<1> DEFINE map == read(lines)
<1>1. Has(map, lines, Len(lines), key)
    BY FirstLineDecides
<1>2. Len(lines) \in Nat /\ DOMAIN lines = 1..Len(lines)
    BY LenProperties
<1>3. key \in DOMAIN map => map[key].word = ""
    BY DEF NotANumber, has_key, Keys
<1>4. config_number(map, key) = IF key \in DOMAIN map THEN map[key].number ELSE Defaults[key]
    BY DEF config_number, has_key
<1> HIDE DEF map
<1>5. CASE key \notin DOMAIN map
    <2>1. \A j \in DOMAIN lines : ~Sets(lines, j, key)
        BY <1>1, <1>2, <1>5 DEF Has
    <2>2. Defaults[key] \in Int
        BY KeysAre DEF Defaults
    <2> QED
        BY <1>4, <1>5, <2>1, <2>2 DEF First, map
<1>6. CASE key \in DOMAIN map
    <2>1. PICK i \in 1..Len(lines) : First(lines, i, key) /\ map[key] = lines[i][2]
        BY <1>1, <1>6 DEF Has
    <2> DEFINE p == lines[i][2]
    <2>2. p \in [word : STRING, number : Int]
        <3>1. lines[i] \in Seq(Parts) /\ Len(lines[i]) = 2
            BY <2>1, ElementOfSeq DEF First, Sets
        <3>2. 2 \in 1..Len(lines[i])
            BY <3>1
        <3>3. p \in Parts
            BY <3>1, <3>2, ElementOfSeq
        <3> QED
            BY <3>3 DEF Parts
    <2>3. p.word = "" /\ config_number(map, key) = p.number
        BY <1>3, <1>4, <1>6, <2>1
    <2> HIDE DEF p
    <2>4. p = [word |-> p.word, number |-> p.number]
        BY <2>2
    <2>5. p = Number(p.number)
        BY <2>3, <2>4, Zenon DEF Number
    <2>6. p.number \in Int
        BY <2>2
    <2>7. i \in DOMAIN lines /\ First(lines, i, key) /\ lines[i][2] = Number(config_number(map, key))
        BY <1>2, <2>1, <2>3, <2>5 DEF p
    <2> QED
        BY <2>3, <2>6, <2>7 DEF map
<1> QED
    BY <1>5, <1>6

\* The settings are what the lines say, within the limits of the card.
AsTheLinesSay(lines, s, key) ==
    \/ \E i \in DOMAIN lines : First(lines, i, key) /\ lines[i][2] = Number(s[key])
    \/ s[key] = Defaults[key] /\ ~\E i \in DOMAIN lines : First(lines, i, key)

\* The least code of the card, the least of an int16_t.
LowestCode == -32768

InLimits(s) ==
    /\ s.ZeroSuppressThreshold \in LowestCode..32767
    /\ s.ZeroSuppressHysteresis \in 100..1023
    /\ s.FullScaleRange \in {5, 25}
    /\ s.ControlIoPort \in 1..3

\* ServesAsConfigured, key by key.
LEMMA ServesIs ==
    ServesAsConfigured <=>
        (pc = "serving" =>
            (\A key \in Keys : AsTheLinesSay(config.lines, settings, key)) /\ InLimits(settings))
<1>1. \A i, key : Decides(i, key) <=> First(config.lines, i, key)
    BY DEF Decides, First, Sets
<1> DEFINE D(key) ==
        \/ \E i \in DOMAIN config.lines :
               Decides(i, key) /\ config.lines[i][2] = Number(settings[key])
        \/ settings[key] = Defaults[key] /\ ~\E i \in DOMAIN config.lines : Decides(i, key)
<1>2. \A key : D(key) <=> AsTheLinesSay(config.lines, settings, key)
    BY <1>1 DEF AsTheLinesSay
<1>3. ServesAsConfigured <=>
          (pc = "serving" => (\A key \in Keys : D(key)) /\ InLimits(settings))
    BY DEF ServesAsConfigured, Keys, InLimits, LowestCode
<1> HIDE DEF D
<1> QED
    BY <1>2, <1>3

\* The same of the next state.
LEMMA ServesNext ==
    ServesAsConfigured' <=>
        (pc' = "serving" =>
            (\A key \in Keys : AsTheLinesSay(config'.lines, settings', key)) /\ InLimits(settings'))
<1>1. (ServesAsConfigured <=>
        (pc = "serving" =>
          (\A key \in Keys : AsTheLinesSay(config.lines, settings, key)) /\ InLimits(settings)))'
    BY ServesIs, PTL
<1> QED
    BY <1>1 DEF Keys, AsTheLinesSay, First, Sets

\* The defaults are what no lines say, and within the limits.
LEMMA DefaultsServe ==
    /\ InLimits(Defaults)
    /\ \A key \in Keys : AsTheLinesSay(<<>>, Defaults, key)
<1>1. InLimits(Defaults)
    BY DEF InLimits, Defaults, LowestCode
<1>2. DOMAIN <<>> = {}
    OBVIOUS
<1> QED
    BY <1>1, <1>2 DEF AsTheLinesSay

\* A file that is taken makes settings that its lines say.
LEMMA FileServes ==
    ASSUME NEW lines \in Seq(Seq(Parts)), ~Settings(read(lines)).throws
    PROVE  LET s == Settings(read(lines)).value IN
           InLimits(s) /\ \A key \in Keys : AsTheLinesSay(lines, s, key)
<1> DEFINE s == Settings(read(lines)).value
           v == [key \in Keys |-> config_number(read(lines), key)]
<1>1. s = v /\ ~NotANumber(read(lines)) /\ ~reject_bad_settings(v)
    BY DEF Settings, Keys
<1>2. \A key \in Keys : v[key] \in Int /\ AsTheLinesSay(lines, v, key)
    BY <1>1, NumberIsRead DEF AsTheLinesSay
<1> HIDE DEF v
<1> DEFINE threshold == v.ZeroSuppressThreshold
           hysteresis == v.ZeroSuppressHysteresis
           range == v.FullScaleRange
           port == v.ControlIoPort
<1>3. /\ ~(threshold < -32768) /\ ~(threshold > 32767)
      /\ ~(hysteresis < 100) /\ ~(hysteresis > 1023)
      /\ ~(range # 5 /\ range # 25)
      /\ ~(port < 1) /\ ~(port > 3)
    BY <1>1 DEF reject_bad_settings
<1>4. threshold \in Int /\ hysteresis \in Int /\ port \in Int
    BY <1>2, KeysAre
<1> HIDE DEF threshold, hysteresis, range, port
<1>5. InLimits(v)
    <2>1. threshold \in LowestCode..32767
        <3>1. LowestCode \in Int /\ ~(threshold < LowestCode)
            BY <1>3 DEF LowestCode
        <3> QED
            BY <1>3, <1>4, <3>1, SMTT(60)
    <2>2. hysteresis \in 100..1023
        BY <1>3, <1>4, SMTT(60)
    <2>3. range \in {5, 25}
        BY <1>3
    <2>4. port \in 1..3
        BY <1>3, <1>4, SMTT(60)
    <2> QED
        BY <2>1, <2>2, <2>3, <2>4, SMTT(60)
            DEF InLimits, threshold, hysteresis, range, port
<1> QED
    BY <1>1, <1>2, <1>5

\* Settings that configure_settings accepts are those of the file.
LEMMA ServesAsRead ==
    ASSUME config \in ConfigFiles, settings = Defaults, configure_settings
    PROVE  ServesAsConfigured'
<1> DEFINE lines == config.lines
           r == Settings(read(lines))
<1>1. /\ config' = config
      /\ pc' = "serving" => ~(config.exists /\ r.throws)
      /\ settings' = IF config.exists THEN r.value ELSE Defaults
    BY DEF configure_settings
<1>2. config.exists \in BOOLEAN /\ (~config.exists => lines = <<>>)
    BY ConfigFilesAssumption
<1>3. lines \in Seq(Seq(Parts))
    BY LinesAre
<1>4. ASSUME pc' = "serving", ~config.exists
      PROVE  InLimits(settings') /\ \A key \in Keys : AsTheLinesSay(lines, settings', key)
    <2>1. settings' = Defaults /\ lines = <<>>
        BY <1>1, <1>2, <1>4
    <2> HIDE DEF lines
    <2> QED
        BY <2>1, DefaultsServe
<1>5. ASSUME pc' = "serving", config.exists
      PROVE  InLimits(settings') /\ \A key \in Keys : AsTheLinesSay(lines, settings', key)
    <2>1. settings' = r.value /\ ~r.throws
        BY <1>1, <1>5
    <2> HIDE DEF lines
    <2> QED
        BY <1>3, <2>1, FileServes
<1>6. pc' = "serving" => InLimits(settings')
                         /\ \A key \in Keys : AsTheLinesSay(config'.lines, settings', key)
    BY <1>1, <1>4, <1>5
<1> QED
    BY <1>6, ServesNext

\* All the calls of "acquire" leave the card applied as its controller counts on.
LEMMA AppliedByAcquire ==
    ASSUME NEW c, NEW t
    PROVE  LET applied == After(c, SubSeq(AcquireCalls(t), 1, 13)).applied IN
           /\ applied.streaming = Triggered
           /\ applied.reduction = ZeroSuppress
           /\ applied.threshold = settings.ZeroSuppressThreshold
           /\ applied.hysteresis = settings.ZeroSuppressHysteresis
           /\ applied.record_size = t.record_size
<1> DEFINE calls == AcquireCalls(t)
           all == SubSeq(calls, 1, 13)
           S == {calls[i] : i \in 1..13}
<1>1. Len(calls) = 13 /\ calls \in Seq(S)
    <2>1. Len(calls) = 13 /\ DOMAIN calls = 1..13 /\ calls = [i \in 1..13 |-> calls[i]]
        BY DEF AcquireCalls, MeasurePeriod, ConfigureCst, ConfigureZs, Set, Other
    <2> QED
        BY <2>1, SeqDef
<1>2. /\ calls[6].call = "record_size" /\ calls[6].value = t.record_size
      /\ calls[7].call = "get_publisher"
      /\ calls[8].call = "streaming" /\ calls[8].value = Triggered
      /\ calls[9].call = "reduction" /\ calls[9].value = ZeroSuppress
      /\ calls[10].call = "hysteresis" /\ calls[10].value = settings.ZeroSuppressHysteresis
      /\ calls[11].call = "threshold" /\ calls[11].value = settings.ZeroSuppressThreshold
      /\ calls[12].call = "apply_setup"
      /\ calls[13].call = "calibrate"
    BY AcquireCallsAre
<1> HIDE DEF calls, S
<1>3. Len(all) = 13 /\ \A i \in 1..13 : all[i] = calls[i]
    BY <1>1, SubSeqProperties
<1> HIDE DEF all
<1>4. Latest(all, "apply_setup", 13) = 12
    BY <1>2, <1>3, LatestIs
<1>5. /\ Latest(all, "record_size", 12) = 6
      /\ Latest(all, "streaming", 12) = 8
      /\ Latest(all, "reduction", 12) = 9
      /\ Latest(all, "hysteresis", 12) = 10
      /\ Latest(all, "threshold", 12) = 11
    <2>1. /\ all[6].call = "record_size" /\ all[7].call = "get_publisher"
          /\ all[8].call = "streaming" /\ all[9].call = "reduction"
          /\ all[10].call = "hysteresis" /\ all[11].call = "threshold"
          /\ all[12].call = "apply_setup"
        BY <1>2, <1>3
    <2>2. \A j \in 1..12 : /\ j > 6 => j \in {7, 8, 9, 10, 11, 12}
                           /\ j > 8 => j \in {9, 10, 11, 12}
                           /\ j > 9 => j \in {10, 11, 12}
                           /\ j > 10 => j \in {11, 12}
                           /\ j > 11 => j = 12
        OBVIOUS
    <2>3. \A j \in 1..12 : j > 6 => all[j].call # "record_size"
        BY <2>1, <2>2
    <2>4. \A j \in 1..12 : j > 8 => all[j].call # "streaming"
        BY <2>1, <2>2
    <2>5. \A j \in 1..12 : j > 9 => all[j].call # "reduction"
        BY <2>1, <2>2
    <2>6. \A j \in 1..12 : j > 10 => all[j].call # "hysteresis"
        BY <2>1, <2>2
    <2>7. \A j \in 1..12 : j > 11 => all[j].call # "threshold"
        BY <2>1, <2>2
    <2>8. 12 \in Nat /\ 6 \in 1..12 /\ 8 \in 1..12 /\ 9 \in 1..12 /\ 10 \in 1..12 /\ 11 \in 1..12
        OBVIOUS
    <2>9. Latest(all, "record_size", 12) = 6
        BY <2>1, <2>3, <2>8, LatestIs
    <2>10. Latest(all, "streaming", 12) = 8
        BY <2>1, <2>4, <2>8, LatestIs
    <2>11. Latest(all, "reduction", 12) = 9
        BY <2>1, <2>5, <2>8, LatestIs
    <2>12. Latest(all, "hysteresis", 12) = 10
        BY <2>1, <2>6, <2>8, LatestIs
    <2>13. Latest(all, "threshold", 12) = 11
        BY <2>1, <2>7, <2>8, LatestIs
    <2> QED
        BY <2>9, <2>10, <2>11, <2>12, <2>13
<1>6. After(c, all).applied =
          [a \in Attributes |->
              LET j == Latest(all, a, 12) IN IF j = 0 THEN c.set[a] ELSE all[j].value]
    BY <1>3, <1>4 DEF After
<1>7. {"streaming", "reduction", "hysteresis", "threshold", "record_size"} \subseteq Attributes
    BY DEF Attributes
<1> DEFINE applied == After(c, all).applied
<1>8. \A a \in Attributes :
          LET j == Latest(all, a, 12) IN j # 0 => applied[a] = all[j].value
    BY <1>6
<1> HIDE DEF applied
<1>9. /\ applied["streaming"] = all[8].value /\ applied["reduction"] = all[9].value
      /\ applied["hysteresis"] = all[10].value /\ applied["threshold"] = all[11].value
      /\ applied["record_size"] = all[6].value
    BY <1>5, <1>7, <1>8
<1>10. /\ applied["streaming"] = Triggered /\ applied["reduction"] = ZeroSuppress
       /\ applied["threshold"] = settings.ZeroSuppressThreshold
       /\ applied["hysteresis"] = settings.ZeroSuppressHysteresis
       /\ applied["record_size"] = t.record_size
    BY <1>2, <1>3, <1>9
<1> QED
    BY <1>10 DEF applied, all, calls

\* acquire: the card is set up for the record the controller will count on.
LEMMA AcquireCard ==
    ASSUME CardMatchesController, NEW p \in Periods, acquire(p)
    PROVE  CardMatchesController'
<1> DEFINE t == Timing(p)
           calls == AcquireCalls(t)
<1>1. PICK n \in Succeed(calls) :
          /\ card' = After(card, SubSeq(calls, 1, n))
          /\ controller' = ControllerAfter(n = Len(calls), t)
          /\ remeasured' = (n # Len(calls))
    BY DEF acquire
<1>2. settings' = settings
    BY DEF acquire, setupVars
<1>3. Len(calls) = 13
    BY AcquireCallsAre
<1> HIDE DEF t
<1>4. CASE n = 13
    <2>1. card' = After(card, SubSeq(calls, 1, 13)) /\ controller'.record_size = t.record_size
        BY <1>1, <1>3, <1>4 DEF ControllerAfter, NewController
    <2> QED
        BY <1>2, <2>1, AppliedByAcquire DEF CardMatchesController
<1>5. CASE n # 13
    BY <1>1, <1>3, <1>5 DEF CardMatchesController
<1> QED
    BY <1>4, <1>5

\* A command that only sets attributes applies none of them.
LEMMA DriverCard ==
    ASSUME CardMatchesController, DriverCommands
    PROVE  CardMatchesController'
<1>1. UNCHANGED <<settings, controller, remeasured>>
    BY DEF DriverCommands, init, vertical, invert, io_port, horizontal, DriverCommand,
        setupVars, mainVars, historyVars
<1>2. ASSUME NEW S, NEW calls \in Seq(S), CallDriver(calls),
             \A j \in 1..Len(calls) : calls[j].call # "apply_setup"
      PROVE  card'.applied = card.applied
    <2>1. PICK n \in Succeed(calls) : card' = After(card, SubSeq(calls, 1, n))
        BY <1>2 DEF CallDriver
    <2>2. Len(calls) \in Nat
        BY LenProperties
    <2>3. n \in 0..Len(calls)
        <3> DEFINE len == Len(calls)
        <3>1. n \in 0..len \/ n = 0
            BY ZenonT(60) DEF Succeed
        <3>2. len \in Nat
            BY <2>2
        <3> HIDE DEF len
        <3>3. n \in 0..len
            BY <3>1, <3>2, SMTT(60)
        <3> QED
            BY <3>3 DEF len
    <2> QED
        BY <1>2, <2>1, <2>3, NotApplied
<1>3. ASSUME NEW attribute, NEW value, attribute # "apply_setup", CallDriver(Set(attribute, value))
      PROVE  card'.applied = card.applied
    <2> DEFINE calls == Set(attribute, value)
    <2>1. /\ calls \in Seq({[call |-> attribute, value |-> value]})
          /\ \A j \in 1..Len(calls) : calls[j].call # "apply_setup"
        BY <1>3 DEF Set
    <2> QED
        BY <1>2, <1>3, <2>1
<1>4. ASSUME CallDriver(SetTrigger) PROVE card'.applied = card.applied
    <2> DEFINE slope == IF trigger_rising THEN 1 ELSE 0
               a == [call |-> "trigger", value |-> settings.PassedOn]
               b == [call |-> "slope", value |-> slope]
    <2>1. SetTrigger = <<a>> \o <<b>>
        BY DEF SetTrigger, Set
    <2>2. a.call # "apply_setup" /\ b.call # "apply_setup"
        OBVIOUS
    <2> HIDE DEF a, b
    <2>3. /\ SetTrigger \in Seq({a, b})
          /\ \A j \in 1..Len(SetTrigger) : SetTrigger[j].call # "apply_setup"
        <3>1. <<a>> \in Seq({a, b}) /\ <<b>> \in Seq({a, b})
            OBVIOUS
        <3>2. SetTrigger \in Seq({a, b})
            BY <2>1, <3>1, ConcatProperties
        <3>3. \A j \in 1..Len(SetTrigger) : SetTrigger[j] \in {a, b}
            BY <3>2, ElementOfSeq
        <3> QED
            BY <2>2, <3>2, <3>3
    <2> QED
        BY <1>2, <1>4, <2>3
<1>5. card'.applied = card.applied
    <2>1. CASE init
        BY <1>4, <2>1 DEF init, DriverCommand
    <2>2. CASE vertical
        <3>1. CallDriver(Set("channel", settings.FullScaleRange))
            BY <2>2 DEF vertical, DriverCommand
        <3> QED
            BY <1>3, <3>1
    <2>3. CASE horizontal
        <3>1. CallDriver(Set("rate", 1))
            BY <2>3 DEF horizontal
        <3> QED
            BY <1>3, <3>1
    <2>4. ASSUME NEW on \in BOOLEAN, invert(on) PROVE card'.applied = card.applied
        <3>1. CallDriver(Set("inversion", IF on THEN 1 ELSE 0))
            BY <2>4 DEF invert, DriverCommand
        <3> QED
            BY <1>3, <3>1
    <2>5. ASSUME NEW on \in BOOLEAN, io_port(on) PROVE card'.applied = card.applied
        <3>1. CallDriver(Set("port", IF on THEN settings.ControlIoPort ELSE 0))
            BY <2>5 DEF io_port, DriverCommand
        <3> QED
            BY <1>3, <3>1
    <2> QED
        BY <2>1, <2>2, <2>3, <2>4, <2>5 DEF DriverCommands
<1> QED
    BY <1>1, <1>5 DEF CardMatchesController

\* Before main has set the card up nothing is claimed of it.
LEMMA InitSetup == Init => SetupInv
BY DEF Init, SetupInv, ServesAsConfigured, CardMatchesController, NoController

\* Every step keeps card, controller and settings in agreement.
LEMMA SetupKeeps == ASSUME ProtocolInv, SetupInv, [Next]_vars PROVE SetupInv'
<1>1. config' = config /\ config' \in ConfigFiles
    <2>1. config' = config
        BY DEF Next, configure_settings, DriverCommands, init, vertical, invert, io_port,
            horizontal, DriverCommand, acquire, tof_width, acquire_frame, stop, ThreadBegins,
            ThreadEnds, ThreadStep, setupVars, vars
    <2> QED
        BY <2>1 DEF SetupInv
<1>2. CASE configure_settings
    <2>1. pc = "start" /\ pc' # "start" /\ UNCHANGED <<controller, card, remeasured>>
        BY <1>2 DEF configure_settings, mainVars, historyVars
    <2>2. ~controller'.exists
        BY <2>1 DEF SetupInv
    <2>3. ServesAsConfigured'
        BY <1>2, <2>1, ServesAsRead DEF SetupInv
    <2> QED
        BY <1>1, <2>1, <2>2, <2>3 DEF SetupInv, CardMatchesController
<1>3. CASE UNCHANGED vars
    <2>1. UNCHANGED <<pc, config, settings, card, controller, remeasured>>
        BY <1>3 DEF vars, setupVars, mainVars, historyVars
    <2>2. ServesAsConfigured'
        BY <2>1, ServesIs, ServesNext DEF SetupInv
    <2>3. CardMatchesController'
        BY <2>1 DEF SetupInv, CardMatchesController
    <2> QED
        BY <1>1, <2>1, <2>2, <2>3 DEF SetupInv
<1>4. ASSUME Next, ~configure_settings PROVE SetupInv'
    <2>1. pc = "serving" /\ pc' \in {"serving", "dead"} /\ settings' = settings
        BY <1>4 DEF Next, DriverCommands, init, vertical, invert, io_port,
            horizontal, DriverCommand, Command, acquire, Destroys, tof_width, acquire_frame, stop,
            ThreadBegins, ThreadEnds, ThreadStep, setupVars
    <2>2. ServesAsConfigured'
        BY <1>1, <2>1, ServesIs, ServesNext DEF SetupInv
    <2>3. ASSUME DriverCommands PROVE CardMatchesController'
        BY <2>3, DriverCard DEF SetupInv
    <2>4. ASSUME NEW p \in Periods, acquire(p) PROVE CardMatchesController'
        BY <2>4, AcquireCard DEF SetupInv
    <2>5. ASSUME NEW p \in Periods, tof_width(p) PROVE CardMatchesController'
        BY <2>5 DEF tof_width, CardMatchesController
    <2>6. ASSUME \/ \E r \in Requests : acquire_frame(r)
                 \/ \E terminate \in BOOLEAN : stop(terminate)
                 \/ ThreadBegins \/ ThreadEnds
          PROVE  CardMatchesController'
        <3>1. UNCHANGED <<card, remeasured>> /\ controller'.exists = controller.exists
              /\ controller'.record_size = controller.record_size
            BY <2>6, ZenonT(60)
                DEF acquire_frame, stop, ThreadBegins, ThreadEnds, ThreadStep, historyVars,
                    ProtocolInv
        <3> QED
            BY <2>1, <3>1 DEF SetupInv, CardMatchesController
    <2>7. CardMatchesController'
        BY <1>4, <2>3, <2>4, <2>5, <2>6 DEF Next
    <2> QED
        BY <1>1, <2>1, <2>2, <2>7 DEF SetupInv
<1> QED
    BY <1>2, <1>3, <1>4

-----------------------------------------------------------------------------
(* Messages: what is parsed is what was written *)

\* f is what has been read after each of the first k fields on the wire.
ReadTo(f, fields, m, wire, k) ==
    f = [n \in 0..k |->
            IF n = 0 THEN [message |-> m, ok |-> TRUE]
            ELSE LET a == f[n - 1]
                 IN  IF ~a.ok \/ wire[n].type = "bad" THEN [message |-> a.message, ok |-> FALSE]
                     ELSE [message |-> ParseField(fields, a.message, wire[n]), ok |-> TRUE]]

\* One field more, bad or not.
ReadOne(fields, a, e) ==
    IF ~a.ok \/ e.type = "bad" THEN [message |-> a.message, ok |-> FALSE]
    ELSE [message |-> ParseField(fields, a.message, e), ok |-> TRUE]

\* ReadTo, as an equation.
LEMMA ReadToIs ==
    ASSUME NEW f, NEW fields, NEW m, NEW wire, NEW k
    PROVE  ReadTo(f, fields, m, wire, k) <=>
               f = [n \in 0..k |-> IF n = 0 THEN [message |-> m, ok |-> TRUE]
                                   ELSE ReadOne(fields, f[n - 1], wire[n])]
BY DEF ReadTo, ReadOne

\* The messages after each field on the wire, by induction over the wire.
LEMMA ReadToExists ==
    ASSUME NEW fields, NEW m, NEW wire, NEW k \in Nat
    PROVE  \E f : ReadTo(f, fields, m, wire, k)
<1> DEFINE none == [message |-> m, ok |-> TRUE]
           S == {n \in Nat : \E f : ReadTo(f, fields, m, wire, n)}
<1>1. 0 \in S
    <2> DEFINE g == [n \in 0..0 |-> none]
    <2>1. g = [n \in 0..0 |-> IF n = 0 THEN none ELSE ReadOne(fields, g[n - 1], wire[n])]
        OBVIOUS
    <2> HIDE DEF g
    <2>2. ReadTo(g, fields, m, wire, 0)
        BY <2>1, ReadToIs
    <2> QED
        BY <2>2
<1> HIDE DEF none
<1>2. ASSUME NEW n \in Nat, n \in S PROVE n + 1 \in S
    <2>1. PICK f : ReadTo(f, fields, m, wire, n)
        BY <1>2
    <2> DEFINE g == [i \in 0..(n + 1) |->
                        IF i = n + 1 THEN ReadOne(fields, f[n], wire[n + 1]) ELSE f[i]]
               h == [i \in 0..(n + 1) |->
                        IF i = 0 THEN none ELSE ReadOne(fields, g[i - 1], wire[i])]
    <2>2. f = [i \in 0..n |-> IF i = 0 THEN none ELSE ReadOne(fields, f[i - 1], wire[i])]
        BY <2>1, ReadToIs DEF none
    <2>3. ASSUME NEW i \in 0..(n + 1) PROVE g[i] = h[i]
        <3>1. CASE i = n + 1
            <4>1. i # 0 /\ i - 1 = n /\ n \in 0..(n + 1) /\ n # n + 1
                BY <3>1
            <4> QED
                BY <3>1, <4>1
        <3>2. CASE i # n + 1 /\ i = 0
            BY <2>2, <3>2
        <3>3. CASE i # n + 1 /\ i # 0
            <4>1. i \in 0..n /\ i - 1 \in 0..(n + 1) /\ i - 1 # n + 1
                BY <3>3
            <4>2. f[i] = ReadOne(fields, f[i - 1], wire[i])
                BY <2>2, <3>3, <4>1
            <4> QED
                BY <3>3, <4>1, <4>2
        <3> QED
            BY <3>1, <3>2, <3>3
    <2>4. g = h
        BY <2>3
    <2>5. ReadTo(g, fields, m, wire, n + 1)
        BY <2>4, ReadToIs DEF none
    <2> QED
        BY <2>5
<1> HIDE DEF S
<1>3. Nat \subseteq S
    BY <1>1, <1>2, Induction
<1> QED
    BY <1>3 DEF S

\* What Parse returns is the message after the last field.
LEMMA ParseIs ==
    ASSUME NEW fields, NEW m, NEW wire, Len(wire) \in Nat
    PROVE  \E f : ReadTo(f, fields, m, wire, Len(wire)) /\ Parse(fields, m, wire) = f[Len(wire)]
<1> DEFINE f == CHOOSE f : ReadTo(f, fields, m, wire, Len(wire))
<1>1. ReadTo(f, fields, m, wire, Len(wire))
    BY ReadToExists
<1>2. Parse(fields, m, wire) = f[Len(wire)]
    BY DEF Parse, ReadTo
<1> QED
    BY <1>1, <1>2

\* An empty wire leaves the message as it is.
LEMMA ParseNothing ==
    ASSUME NEW fields, NEW m
    PROVE  Parse(fields, m, <<>>) = [message |-> m, ok |-> TRUE]
<1>1. PICK f : ReadTo(f, fields, m, <<>>, 0) /\ Parse(fields, m, <<>>) = f[0]
    BY ParseIs
<1> QED
    BY <1>1 DEF ReadTo

\* A field is read after those before it, as they are without it.
LEMMA ParseAppended ==
    ASSUME NEW fields, NEW m, NEW S, NEW wire \in Seq(S), NEW e \in S
    PROVE  Parse(fields, m, Append(wire, e)) = ReadOne(fields, Parse(fields, m, wire), e)
<1> DEFINE more == Append(wire, e)
           len == Len(wire)
<1>1. /\ len \in Nat /\ Len(more) = len + 1
      /\ \A i \in 1..len : more[i] = wire[i]
      /\ more[len + 1] = e
    BY AppendProperties, LenProperties
<1> HIDE DEF more, len
<1>2. PICK f : ReadTo(f, fields, m, wire, len) /\ Parse(fields, m, wire) = f[len]
    BY <1>1, ParseIs DEF len
<1>3. PICK g : ReadTo(g, fields, m, more, len + 1) /\ Parse(fields, m, more) = g[len + 1]
    <2>1. Len(more) \in Nat
        BY <1>1
    <2>2. PICK g : ReadTo(g, fields, m, more, Len(more)) /\ Parse(fields, m, more) = g[Len(more)]
        BY <2>1, ParseIs
    <2> QED
        BY <1>1, <2>2
<1>4. f = [n \in 0..len |-> IF n = 0 THEN [message |-> m, ok |-> TRUE]
                            ELSE ReadOne(fields, f[n - 1], wire[n])]
    BY <1>2, ReadToIs
<1>5. g = [n \in 0..(len + 1) |-> IF n = 0 THEN [message |-> m, ok |-> TRUE]
                                  ELSE ReadOne(fields, g[n - 1], more[n])]
    BY <1>3, ReadToIs
<1> DEFINE S0 == {n \in Nat : n <= len => g[n] = f[n]}
<1>6. 0 \in S0
    BY <1>1, <1>4, <1>5
<1>7. ASSUME NEW n \in Nat, n \in S0 PROVE n + 1 \in S0
    <2> SUFFICES ASSUME n + 1 <= len PROVE g[n + 1] = f[n + 1]
        OBVIOUS
    <2>1. /\ n + 1 \in 0..len /\ n + 1 \in 0..(len + 1) /\ n + 1 # 0 /\ (n + 1) - 1 = n
          /\ n + 1 \in 1..len /\ n <= len
        BY <1>1
    <2>2. f[n + 1] = ReadOne(fields, f[n], wire[n + 1])
        BY <1>4, <2>1
    <2>3. g[n + 1] = ReadOne(fields, g[n], more[n + 1])
        BY <1>5, <2>1
    <2> QED
        BY <1>1, <1>7, <2>1, <2>2, <2>3
<1> HIDE DEF S0
<1>8. len \in S0
    BY <1>1, <1>6, <1>7, Induction
<1>9. g[len] = f[len]
    <2>1. len <= len
        BY <1>1
    <2> QED
        BY <1>8, <2>1 DEF S0
<1>10. g[len + 1] = ReadOne(fields, g[len], e)
    <2>1. len + 1 \in 0..(len + 1) /\ len + 1 # 0 /\ (len + 1) - 1 = len
        BY <1>1
    <2> QED
        BY <1>1, <1>5, <2>1
<1> QED
    BY <1>2, <1>3, <1>9, <1>10 DEF more

\* f is what has been written after each of the first k fields of the message.
WriteTo(f, fields, v, k) ==
    f = [n \in 0..k |->
            IF n = 0 THEN <<>>
            ELSE IF v[n] = Default(fields[n]) THEN f[n - 1]
            ELSE Append(f[n - 1], Entry(fields, n, v[n]))]

WriteOne(fields, v, n, wire) ==
    IF v[n] = Default(fields[n]) THEN wire ELSE Append(wire, Entry(fields, n, v[n]))

\* WriteTo, as an equation.
LEMMA WriteToIs ==
    ASSUME NEW f, NEW fields, NEW v, NEW k
    PROVE  WriteTo(f, fields, v, k) <=>
               f = [n \in 0..k |-> IF n = 0 THEN <<>> ELSE WriteOne(fields, v, n, f[n - 1])]
BY DEF WriteTo, WriteOne

\* The wires after each field of the layout, by induction over the layout.
LEMMA WriteToExists ==
    ASSUME NEW fields, NEW v, NEW k \in Nat
    PROVE  \E f : WriteTo(f, fields, v, k)
<1> DEFINE none == <<>>
           S == {n \in Nat : \E f : WriteTo(f, fields, v, n)}
<1>1. 0 \in S
    <2> DEFINE g == [n \in 0..0 |-> none]
    <2>1. g = [n \in 0..0 |-> IF n = 0 THEN none ELSE WriteOne(fields, v, n, g[n - 1])]
        OBVIOUS
    <2> HIDE DEF g
    <2>2. WriteTo(g, fields, v, 0)
        BY <2>1, WriteToIs
    <2> QED
        BY <2>2
<1> HIDE DEF none
<1>2. ASSUME NEW n \in Nat, n \in S PROVE n + 1 \in S
    <2>1. PICK f : WriteTo(f, fields, v, n)
        BY <1>2
    <2> DEFINE g == [i \in 0..(n + 1) |->
                        IF i = n + 1 THEN WriteOne(fields, v, n + 1, f[n]) ELSE f[i]]
               h == [i \in 0..(n + 1) |->
                        IF i = 0 THEN none ELSE WriteOne(fields, v, i, g[i - 1])]
    <2>2. f = [i \in 0..n |-> IF i = 0 THEN none ELSE WriteOne(fields, v, i, f[i - 1])]
        BY <2>1, WriteToIs DEF none
    <2>3. ASSUME NEW i \in 0..(n + 1) PROVE g[i] = h[i]
        <3>1. CASE i = n + 1
            <4>1. i # 0 /\ i - 1 = n /\ n \in 0..(n + 1) /\ n # n + 1
                BY <3>1
            <4> QED
                BY <3>1, <4>1
        <3>2. CASE i # n + 1 /\ i = 0
            BY <2>2, <3>2
        <3>3. CASE i # n + 1 /\ i # 0
            <4>1. i \in 0..n /\ i - 1 \in 0..(n + 1) /\ i - 1 # n + 1
                BY <3>3
            <4>2. f[i] = WriteOne(fields, v, i, f[i - 1])
                BY <2>2, <3>3, <4>1
            <4> QED
                BY <3>3, <4>1, <4>2
        <3> QED
            BY <3>1, <3>2, <3>3
    <2>4. g = h
        BY <2>3
    <2>5. WriteTo(g, fields, v, n + 1)
        BY <2>4, WriteToIs DEF none
    <2> QED
        BY <2>5
<1> HIDE DEF S
<1>3. Nat \subseteq S
    BY <1>1, <1>2, Induction
<1> QED
    BY <1>3 DEF S

\* What Serialize returns is the wire after the last field, and the unknown ones.
LEMMA SerializeIs ==
    ASSUME NEW fields, NEW m, Len(fields) \in Nat
    PROVE  \E f : /\ WriteTo(f, fields, m.value, Len(fields))
                  /\ Serialize(fields, m) = f[Len(fields)] \o m.unknown
<1> DEFINE f == CHOOSE f : WriteTo(f, fields, m.value, Len(fields))
<1>1. WriteTo(f, fields, m.value, Len(fields))
    BY WriteToExists
<1>2. Serialize(fields, m) = f[Len(fields)] \o m.unknown
    BY DEF Serialize, WriteTo
<1> QED
    BY <1>1, <1>2

\* A field holds the value as it is.
Holds(field, x) ==
    IF field.repeated
    THEN x \in Seq(Int) /\ \A i \in DOMAIN x : Cast(field.type, x[i]) = x[i]
    ELSE Cast(field.type, x) = x

\* A message of which the first n fields have been read.
Partly(fields, v, n) ==
    [value |-> [f \in DOMAIN fields |-> IF f <= n THEN v[f] ELSE Default(fields[f])],
     unknown |-> <<>>]

\* A field is read into a message that has those before it.
LEMMA FieldIsRead ==
    ASSUME NEW fields, NEW v, NEW n \in Nat, DOMAIN fields \subseteq Nat, n + 1 \in DOMAIN fields,
           Holds(fields[n + 1], v[n + 1])
    PROVE  ParseField(fields, Partly(fields, v, n), Entry(fields, n + 1, v[n + 1]))
               = Partly(fields, v, n + 1)
<1> DEFINE k == n + 1
           field == fields[k]
           x == v[k]
           e == Entry(fields, k, x)
           m == Partly(fields, v, n)
           y == IF field.repeated
                THEN m.value[k] \o [i \in DOMAIN x |-> Cast(field.type, x[i])]
                ELSE Cast(field.type, x)
<1>1. ParseField(fields, m, e) = [m EXCEPT !.value[k] = y]
    <2>1. e.field = k /\ e.value = x /\ k \in DOMAIN fields
          /\ e.type = (IF field.repeated THEN "packed"
                       ELSE IF field.type = "string" THEN "len" ELSE "varint")
        BY DEF Entry
    <2> HIDE DEF e, m, x
    <2>2. CASE field.repeated
        BY <2>1, <2>2 DEF ParseField
    <2>3. CASE ~field.repeated
        BY <2>1, <2>3 DEF ParseField
    <2> QED
        BY <2>2, <2>3
<1>2. y = x
    <2>1. CASE field.repeated
        <3>1. x \in Seq(Int) /\ \A i \in DOMAIN x : Cast(field.type, x[i]) = x[i]
            BY <2>1 DEF Holds
        <3>2. [i \in DOMAIN x |-> Cast(field.type, x[i])] = x
            <4>1. x = [i \in 1..Len(x) |-> x[i]] /\ DOMAIN x = 1..Len(x)
                BY <3>1, LenProperties
            <4> HIDE DEF x
            <4>2. x = [i \in DOMAIN x |-> x[i]]
                BY <4>1
            <4>3. [i \in DOMAIN x |-> Cast(field.type, x[i])] = [i \in DOMAIN x |-> x[i]]
                BY <3>1
            <4> QED
                BY <4>2, <4>3
        <3>3. m.value[k] = <<>>
            <4>1. ~(k <= n)
                OBVIOUS
            <4> QED
                BY <2>1, <4>1 DEF Partly, Default
        <3>4. <<>> \o x = x
            BY <3>1, ConcatEmptySeq
        <3> QED
            BY <2>1, <3>2, <3>3, <3>4
    <2>2. CASE ~field.repeated
        BY <2>2 DEF Holds
    <2> QED
        BY <2>1, <2>2
<1>3. [m EXCEPT !.value[k] = x] = Partly(fields, v, k)
    <2> DEFINE w == [f \in DOMAIN fields |-> IF f <= n THEN v[f] ELSE Default(fields[f])]
               z == [f \in DOMAIN fields |-> IF f <= k THEN v[f] ELSE Default(fields[f])]
    <2>1. m = [value |-> w, unknown |-> <<>>]
        BY DEF Partly
    <2>2. [w EXCEPT ![k] = x] = z
        <3>1. ASSUME NEW f \in DOMAIN fields PROVE [w EXCEPT ![k] = x][f] = z[f]
            <4>1. f \in Nat /\ (f <= k <=> f <= n \/ f = k)
                OBVIOUS
            <4> QED
                BY <4>1
        <3> QED
            BY <3>1
    <2> HIDE DEF w
    <2>3. [m EXCEPT !.value[k] = x] = [value |-> [w EXCEPT ![k] = x], unknown |-> <<>>]
        BY <2>1
    <2> QED
        BY <2>2, <2>3 DEF Partly
<1> QED
    BY <1>1, <1>2, <1>3

\* Writing a message and parsing what was written gives the message again, for
\* every layout of fields and every message whose fields hold their values.
LEMMA RoundTrip ==
    ASSUME NEW fields, NEW m, Len(fields) \in Nat, DOMAIN fields = 1..Len(fields),
           m = [value |-> [f \in DOMAIN fields |-> m.value[f]], unknown |-> <<>>],
           \A f \in DOMAIN fields : Holds(fields[f], m.value[f])
    PROVE  Parse(fields, Clear(fields), Serialize(fields, m)) = [message |-> m, ok |-> TRUE]
<1> DEFINE len == Len(fields)
           v == m.value
           E == {Entry(fields, f, v[f]) : f \in 1..len}
           Good(wire, n) == /\ wire \in Seq(E)
                            /\ Parse(fields, Clear(fields), wire)
                                   = [message |-> Partly(fields, v, n), ok |-> TRUE]
<1>1. PICK u : WriteTo(u, fields, v, len) /\ Serialize(fields, m) = u[len] \o m.unknown
    BY SerializeIs
<1>2. u = [n \in 0..len |-> IF n = 0 THEN <<>> ELSE WriteOne(fields, v, n, u[n - 1])]
    BY <1>1, WriteToIs
<1>3. len \in Nat /\ DOMAIN fields = 1..len
    OBVIOUS
<1>4. m.unknown = <<>> /\ m = Partly(fields, v, len)
    <2>1. \A f \in DOMAIN fields : f <= len
        BY <1>3
    <2>2. [f \in DOMAIN fields |-> v[f]]
              = [f \in DOMAIN fields |-> IF f <= len THEN v[f] ELSE Default(fields[f])]
        BY <2>1
    <2>3. m = [value |-> [f \in DOMAIN fields |-> v[f]], unknown |-> <<>>]
        OBVIOUS
    <2> QED
        BY <2>2, <2>3 DEF Partly
<1>5. \A f \in DOMAIN fields : Holds(fields[f], v[f])
    OBVIOUS
<1> HIDE DEF len, v, E
<1>6. Clear(fields) = Partly(fields, v, 0)
    <2>1. \A f \in DOMAIN fields : ~(f <= 0)
        BY <1>3
    <2> QED
        BY <2>1 DEF Clear, Partly
<1>7. Good(<<>>, 0)
    BY <1>6, ParseNothing
<1>8. ASSUME NEW n \in Nat, n < len, NEW wire, Good(wire, n)
      PROVE  Good(WriteOne(fields, v, n + 1, wire), n + 1)
    <2> DEFINE k == n + 1
               e == Entry(fields, k, v[k])
    <2>1. k \in 1..len /\ k \in DOMAIN fields /\ DOMAIN fields \subseteq Nat
        BY <1>3, <1>8
    <2>2. CASE v[k] = Default(fields[k])
        <3>1. WriteOne(fields, v, k, wire) = wire
            BY <2>2 DEF WriteOne
        <3>2. Partly(fields, v, n) = Partly(fields, v, k)
            <4>1. \A f \in DOMAIN fields : f <= k <=> f <= n \/ f = k
                BY <2>1
            <4>2. \A f \in DOMAIN fields :
                      (IF f <= n THEN v[f] ELSE Default(fields[f]))
                          = (IF f <= k THEN v[f] ELSE Default(fields[f]))
                BY <2>2, <4>1
            <4> QED
                BY <4>2 DEF Partly
        <3> QED
            BY <1>8, <3>1, <3>2
    <2>3. CASE v[k] # Default(fields[k])
        <3>1. WriteOne(fields, v, k, wire) = Append(wire, e)
            BY <2>3 DEF WriteOne
        <3>2. e \in E
            BY <2>1 DEF E
        <3>3. Append(wire, e) \in Seq(E)
            BY <1>8, <3>2, AppendProperties
        <3>4. e.type # "bad"
            BY DEF Entry
        <3>5. ParseField(fields, Partly(fields, v, n), e) = Partly(fields, v, k)
            BY <1>5, <2>1, FieldIsRead
        <3> HIDE DEF e
        <3>6. Parse(fields, Clear(fields), Append(wire, e))
                  = ReadOne(fields, Parse(fields, Clear(fields), wire), e)
            <4>1. wire \in Seq(E)
                BY <1>8
            <4> HIDE DEF Good
            <4> QED
                BY <3>2, <4>1, ParseAppended
        <3>7. Parse(fields, Clear(fields), Append(wire, e))
                  = [message |-> Partly(fields, v, k), ok |-> TRUE]
            BY <1>8, <3>4, <3>5, <3>6 DEF ReadOne
        <3> QED
            BY <3>1, <3>3, <3>7
    <2> QED
        BY <2>2, <2>3
<1> HIDE DEF Good
<1> DEFINE S == {n \in Nat : n <= len => Good(u[n], n)}
<1>9. 0 \in S
    BY <1>2, <1>3, <1>7
<1>10. ASSUME NEW n \in Nat, n \in S PROVE n + 1 \in S
    <2> SUFFICES ASSUME n + 1 <= len PROVE Good(u[n + 1], n + 1)
        OBVIOUS
    <2>1. n + 1 \in 0..len /\ n + 1 # 0 /\ (n + 1) - 1 = n /\ n <= len /\ n < len
        BY <1>3
    <2>2. u[n + 1] = WriteOne(fields, v, n + 1, u[n])
        BY <1>2, <2>1
    <2> QED
        BY <1>8, <1>10, <2>1, <2>2
<1> HIDE DEF S
<1>11. len \in S
    BY <1>3, <1>9, <1>10, Induction
<1>12. Good(u[len], len)
    <2>1. len <= len
        BY <1>3
    <2> QED
        BY <1>11, <2>1 DEF S
<1>13. u[len] \o <<>> = u[len]
    BY <1>12, ConcatEmptySeq DEF Good
<1> QED
    BY <1>1, <1>4, <1>12, <1>13 DEF Good, v

-----------------------------------------------------------------------------
(* The request for a frame and the reply with a width *)

\* What the client writes is what the handler starts the frame with.
LEMMA RequestArrives ==
    ASSUME NEW r \in Requests
    PROVE  uimf_message_to_parameters(UimfRequestParse(ClientWrites(r)).message) = r
<1> DEFINE fields == UimfRequestFields
           v == RequestValues(r)
           m == [UimfRequestClear EXCEPT !.value = v]
<1>1. /\ r \in [start_trigger : Nat, nbr_samples : Nat, nbr_accumulations : Nat,
                frame_length : Nat, frame_number : Nat, offset_bins : Nat, file_name : STRING]
      /\ \A f \in DOMAIN fields : Cast(fields[f].type, v[f]) = v[f]
    BY RequestsAssumption
<1>2. Len(fields) = 8 /\ DOMAIN fields = 1..8 /\ \A f \in DOMAIN fields : ~fields[f].repeated
    BY DEF UimfRequestFields, Field
<1>3. DOMAIN v = 1..8 /\ v = [f \in 1..8 |-> v[f]]
    BY DEF RequestValues
<1> HIDE DEF v
<1>4. m = [value |-> v, unknown |-> <<>>]
    <2> DEFINE x == [f \in DOMAIN UimfRequestFields |-> Default(UimfRequestFields[f])]
    <2>1. UimfRequestClear = [value |-> x, unknown |-> <<>>]
        BY DEF UimfRequestClear, Clear
    <2> HIDE DEF x
    <2> QED
        BY <2>1
<1> HIDE DEF m, fields
<1>5. m.value = v /\ m = [value |-> [f \in DOMAIN fields |-> m.value[f]], unknown |-> <<>>]
    BY <1>2, <1>3, <1>4
<1>6. \A f \in DOMAIN fields : Holds(fields[f], m.value[f])
    BY <1>1, <1>2, <1>5 DEF Holds
<1>7. Parse(fields, Clear(fields), Serialize(fields, m)) = [message |-> m, ok |-> TRUE]
    <2>1. Len(fields) \in Nat /\ DOMAIN fields = 1..Len(fields)
        BY <1>2
    <2> QED
        BY <2>1, <1>5, <1>6, RoundTrip
<1>8. UimfRequestParse(ClientWrites(r)).message = m
    BY <1>7 DEF UimfRequestParse, UimfRequestClear, ClientWrites, UimfRequestSerialize,
        fields, m, v
<1>9. /\ v[1] = r.start_trigger /\ v[2] = r.nbr_samples /\ v[3] = r.frame_length
      /\ v[4] = r.nbr_accumulations /\ v[5] = r.frame_number /\ v[6] = r.offset_bins
      /\ v[7] = r.file_name
    BY DEF v, RequestValues
<1>10. r = [start_trigger |-> r.start_trigger, nbr_samples |-> r.nbr_samples,
            nbr_accumulations |-> r.nbr_accumulations, frame_length |-> r.frame_length,
            frame_number |-> r.frame_number, offset_bins |-> r.offset_bins,
            file_name |-> r.file_name]
    BY <1>1
<1> QED
    BY <1>5, <1>8, <1>9, <1>10 DEF uimf_message_to_parameters

\* Only a frame request changes the frame, and its parameters went over the wire.
LEMMA FrameKeeps == ASSUME FrameIsAsAsked, [Next]_vars PROVE FrameIsAsAsked'
<1>1. CASE UNCHANGED <<frame, sent>>
    BY <1>1 DEF FrameIsAsAsked
<1>2. CASE sent' = <<>>
    BY <1>2 DEF FrameIsAsAsked
<1>3. ASSUME NEW r \in Requests, acquire_frame(r) PROVE FrameIsAsAsked'
    <2>1. PICK wire \in Arrivals(ClientWrites(r)) :
              IF Refuses THEN UNCHANGED <<frame, sent>>
              ELSE /\ frame' = uimf_message_to_parameters(UimfRequestParse(wire).message)
                   /\ sent' = IF wire = ClientWrites(r) THEN <<r>> ELSE <<>>
        BY <1>3 DEF acquire_frame
    <2>2. CASE ~Refuses /\ wire = ClientWrites(r)
        <3>1. frame' = r /\ sent' = <<r>>
            BY <2>1, <2>2, RequestArrives
        <3> QED
            BY <3>1 DEF FrameIsAsAsked
    <2> QED
        BY <1>1, <1>2, <2>1, <2>2
<1>4. ASSUME NEW p \in Periods, acquire(p) PROVE UNCHANGED <<frame, sent>> \/ sent' = <<>>
    BY <1>4 DEF acquire
<1>5. ASSUME configure_settings \/ DriverCommands \/ UNCHANGED vars
             \/ (\E p \in Periods : tof_width(p)) \/ (\E terminate \in BOOLEAN : stop(terminate))
             \/ ThreadBegins \/ ThreadEnds
      PROVE  UNCHANGED <<frame, sent>>
    BY <1>5 DEF configure_settings, DriverCommands, init, vertical, invert, io_port, horizontal,
        DriverCommand, tof_width, stop, ThreadBegins, ThreadEnds, ThreadStep, mainVars,
        historyVars, vars
<1> QED
    BY <1>1, <1>2, <1>3, <1>4, <1>5 DEF Next

\* What the client parses from a reply with a width is what was put into it.
LEMMA WidthArrives ==
    ASSUME NEW p \in Periods
    PROVE  LET t == Timing(p)
               width == TofWidthParse(TofWidthReply(t)[2]).message.value
           IN  width[1] = p /\ width[2] = t.record_size + t.post
<1> DEFINE t == Timing(p)
           v == <<t.tof_width, t.record_size + t.post>>
           fields == TofWidthFields
           m == [TofWidthClear EXCEPT !.value = v]
<1>1. t.tof_width = p /\ t.record_size + t.post \in 0..p
      /\ p \in Nat /\ p < 2^Bits64 /\ 2^Bits64 \in Int
    BY ConsoleAssumption, BitsAssumption DEF Timing
<1>2. Len(fields) = 2 /\ DOMAIN fields = 1..2
      /\ \A f \in DOMAIN fields : ~fields[f].repeated /\ fields[f].type = "uint64"
    BY DEF TofWidthFields, Field
<1>3. DOMAIN v = 1..2 /\ v = [f \in 1..2 |-> v[f]] /\ v[1] = p /\ v[2] = t.record_size + t.post
    BY <1>1
<1>4. TofWidthReply(t)[2] = Serialize(fields, m)
    BY DEF TofWidthReply, TofWidthSerialize
<1> HIDE DEF v
<1>5. m = [value |-> v, unknown |-> <<>>]
    <2> DEFINE x == [f \in DOMAIN TofWidthFields |-> Default(TofWidthFields[f])]
    <2>1. TofWidthClear = [value |-> x, unknown |-> <<>>]
        BY DEF TofWidthClear, Clear
    <2> HIDE DEF x
    <2> QED
        BY <2>1
<1>6. \A x \in 0..p : Cast("uint64", x) = x
    BY <1>1 DEF Cast
<1> HIDE DEF m, fields, t
<1>7. m.value = v /\ m = [value |-> [f \in DOMAIN fields |-> m.value[f]], unknown |-> <<>>]
    BY <1>2, <1>3, <1>5
<1>8. \A f \in DOMAIN fields : Holds(fields[f], m.value[f])
    <2>1. v[1] \in 0..p /\ v[2] \in 0..p
        BY <1>1, <1>3
    <2>2. \A f \in DOMAIN fields : v[f] \in 0..p
        BY <1>2, <2>1
    <2> QED
        BY <1>2, <1>6, <1>7, <2>2 DEF Holds
<1>9. Parse(fields, Clear(fields), Serialize(fields, m)) = [message |-> m, ok |-> TRUE]
    <2>1. Len(fields) \in Nat /\ DOMAIN fields = 1..Len(fields)
        BY <1>2
    <2> QED
        BY <2>1, <1>7, <1>8, RoundTrip
<1>10. TofWidthParse(TofWidthReply(t)[2]).message = m
    BY <1>4, <1>9 DEF TofWidthParse, TofWidthClear, fields
<1> QED
    BY <1>3, <1>7, <1>10 DEF t

\* What a reply with a width has to do with the card.
Described(p, record_size) ==
    LET width == TofWidthParse(TofWidthReply(Timing(p))[2]).message.value
    IN  \/ /\ width[2] = record_size + PostTrigger
           /\ width[2] + Rearm = width[1]
        \/ width[2] = record_size /\ width[2] = width[1]

\* The times of a reply say what the card was set to: the divisions of
\* create_timing_information undo the multiplications of its users.
LEMMA TimingDescribes ==
    ASSUME NEW p \in Periods
    PROVE  Described(p, Timing(p).record_size)
<1> DEFINE t == Timing(p)
<1>1. p \in Nat /\ PostTrigger \in Nat /\ Rearm \in Nat
    BY ConsoleAssumption
<1>2. \/ t.record_size = p - PostTrigger - Rearm /\ t.post = PostTrigger
      \/ t.record_size = p /\ t.post = 0
    BY DEF Timing
<1> DEFINE width == TofWidthParse(TofWidthReply(t)[2]).message.value
<1>3. width[1] = p /\ width[2] = t.record_size + t.post
    BY WidthArrives
<1>4. Described(p, t.record_size) <=>
        \/ width[2] = t.record_size + PostTrigger /\ width[2] + Rearm = width[1]
        \/ width[2] = t.record_size /\ width[2] = width[1]
    BY DEF Described
<1> HIDE DEF width, t
<1>5. Described(p, t.record_size)
    BY <1>1, <1>2, <1>3, <1>4
<1> QED
    BY <1>5 DEF t

\* All the calls of "acquire" and of "tof width" set the record size, and
\* nothing after that sets it again.
LEMMA RecordSizeSet ==
    ASSUME NEW c, NEW S, NEW calls \in Seq(S), NEW size, Len(calls) >= 6,
           calls[6].call = "record_size", calls[6].value = size,
           \A j \in 7..Len(calls) : calls[j].call # "record_size"
    PROVE  After(c, SubSeq(calls, 1, Len(calls))).set.record_size = size
<1> DEFINE len == Len(calls)
           all == SubSeq(calls, 1, len)
<1>1. len \in Nat /\ len >= 6 /\ 6 \in 1..len
    BY LenProperties
<1>2. Len(all) = len /\ \A j \in 1..len : all[j] = calls[j]
    BY <1>1, SubSeqProperties
<1> HIDE DEF all
<1>3. all[6].call = "record_size" /\ all[6].value = size
    BY <1>1, <1>2
<1>4. \A j \in 1..len : j > 6 => all[j].call # "record_size"
    <2>1. \A j \in 1..len : j > 6 => j \in 7..len
        BY <1>1
    <2> QED
        BY <1>2, <2>1
<1> HIDE DEF len
<1>5. Latest(all, "record_size", len) = 6
    BY <1>1, <1>3, <1>4, LatestIs
<1>6. "record_size" \in Attributes
    BY DEF Attributes
<1>7. After(c, all).set =
          [a \in Attributes |->
              LET j == Latest(all, a, len) IN IF j = 0 THEN c.set[a] ELSE all[j].value]
    BY <1>2 DEF After
<1> DEFINE set == After(c, all).set
<1>8. set["record_size"] = all[6].value
    BY <1>5, <1>6, <1>7
<1> QED
    BY <1>3, <1>8 DEF all, len

\* Only tof width and acquire reply with a width, from the measurement just made.
LEMMA ReplyKeeps == ASSUME ReplyDescribesCard, [Next]_vars PROVE ReplyDescribesCard'
<1>1. CASE UNCHANGED <<reply, card>>
    BY <1>1 DEF ReplyDescribesCard
<1>2. CASE reply' \in {<<"ack">>, <<"error">>}
    <2>1. reply'[1] # "width"
        BY <1>2
    <2> QED
        BY <2>1 DEF ReplyDescribesCard
<1>3. ASSUME NEW p \in Periods, reply' = TofWidthReply(Timing(p)),
             card'.set.record_size = Timing(p).record_size
      PROVE  ReplyDescribesCard'
    <2>1. Described(p, card'.set.record_size)
        BY <1>3, TimingDescribes
    <2>2. TofWidthParse(reply'[2]) = TofWidthParse(TofWidthReply(Timing(p))[2])
        BY <1>3
    <2>3. LET width == TofWidthParse(reply'[2]).message.value
          IN  \/ /\ width[2] = card'.set.record_size + PostTrigger
                 /\ width[2] + Rearm = width[1]
              \/ width[2] = card'.set.record_size /\ width[2] = width[1]
        BY <2>1, <2>2 DEF Described
    <2> QED
        BY <2>3 DEF ReplyDescribesCard
<1>4. ASSUME NEW p \in Periods, tof_width(p) PROVE ReplyDescribesCard'
    <2> DEFINE t == Timing(p)
               calls == MeasurePeriod \o Set("record_size", t.record_size)
               S == {calls[i] : i \in 1..6}
    <2>1. PICK n \in Succeed(calls) :
              /\ card' = After(card, SubSeq(calls, 1, n))
              /\ reply' = IF n = Len(calls) THEN TofWidthReply(t) ELSE <<"error">>
        BY <1>4 DEF tof_width
    <2>2. /\ Len(calls) = 6 /\ DOMAIN calls = 1..6 /\ calls = [i \in 1..6 |-> calls[i]]
          /\ calls[6].call = "record_size" /\ calls[6].value = t.record_size
        BY DEF MeasurePeriod, ConfigureCst, Set, Other
    <2> HIDE DEF calls
    <2>3. calls \in Seq(S)
        BY <2>2, SeqDef
    <2> HIDE DEF S, t
    <2>4. \A j \in 7..Len(calls) : calls[j].call # "record_size"
        BY <2>2
    <2>5. CASE n = Len(calls)
        <3>1. Len(calls) >= 6 /\ \A j \in 7..Len(calls) : calls[j].call # "record_size"
            BY <2>2, <2>3, <2>4
        <3>2. After(card, SubSeq(calls, 1, Len(calls))).set.record_size = t.record_size
            <4> DEFINE size == t.record_size
            <4>1. calls[6].call = "record_size" /\ calls[6].value = size
                BY <2>2
            <4> HIDE DEF size
            <4>2. After(card, SubSeq(calls, 1, Len(calls))).set.record_size = size
                BY <2>3, <3>1, <4>1, RecordSizeSet
            <4> QED
                BY <4>2 DEF size
        <3>3. card'.set.record_size = t.record_size
            BY <2>1, <2>5, <3>2
        <3> QED
            BY <1>3, <2>1, <2>5, <3>3 DEF t
    <2> QED
        BY <1>2, <2>1, <2>5
<1>5. ASSUME NEW p \in Periods, acquire(p) PROVE ReplyDescribesCard'
    <2> DEFINE t == Timing(p)
               calls == AcquireCalls(t)
               S == {calls[i] : i \in 1..13}
    <2>1. PICK n \in Succeed(calls) :
              /\ card' = After(card, SubSeq(calls, 1, n))
              /\ reply' = IF n = Len(calls) THEN TofWidthReply(t) ELSE <<"error">>
        BY <1>5 DEF acquire
    <2>2. Len(calls) = 13 /\ DOMAIN calls = 1..13 /\ calls = [i \in 1..13 |-> calls[i]]
        BY DEF AcquireCalls, MeasurePeriod, ConfigureCst, ConfigureZs, Set, Other
    <2>3. /\ calls[6].call = "record_size" /\ calls[6].value = t.record_size
          /\ \A j \in 7..13 : calls[j].call # "record_size"
        <3>1. \A j \in 7..13 : j \in {7, 8, 9, 10, 11, 12, 13}
            OBVIOUS
        <3>2. /\ calls[6].call = "record_size" /\ calls[6].value = t.record_size
              /\ calls[7].call = "get_publisher" /\ calls[8].call = "streaming"
              /\ calls[9].call = "reduction" /\ calls[10].call = "hysteresis"
              /\ calls[11].call = "threshold" /\ calls[12].call = "apply_setup"
              /\ calls[13].call = "calibrate"
            BY AcquireCallsAre
        <3> HIDE DEF calls
        <3> QED
            BY <3>1, <3>2
    <2> HIDE DEF calls
    <2>4. calls \in Seq(S)
        BY <2>2, SeqDef
    <2> HIDE DEF S, t
    <2>5. CASE n = Len(calls)
        <3>1. Len(calls) >= 6 /\ \A j \in 7..Len(calls) : calls[j].call # "record_size"
            BY <2>2, <2>3, <2>4
        <3>2. After(card, SubSeq(calls, 1, Len(calls))).set.record_size = t.record_size
            BY <2>2, <2>3, <2>4, <3>1, RecordSizeSet, ZenonT(60)
        <3>3. card'.set.record_size = t.record_size
            BY <2>1, <2>5, <3>2
        <3> QED
            BY <1>3, <2>1, <2>5, <3>3 DEF t
    <2> QED
        BY <1>2, <2>1, <2>5
<1>6. ASSUME DriverCommands \/ (\E r \in Requests : acquire_frame(r))
             \/ (\E terminate \in BOOLEAN : stop(terminate))
      PROVE  reply' \in {<<"ack">>, <<"error">>}
    BY <1>6 DEF DriverCommands, init, vertical, invert, io_port, horizontal, DriverCommand,
        CallDriver, acquire_frame, stop
<1>7. ASSUME configure_settings \/ ThreadBegins \/ ThreadEnds \/ UNCHANGED vars
      PROVE  UNCHANGED <<reply, card>>
    BY <1>7 DEF configure_settings, ThreadBegins, ThreadEnds, ThreadStep, vars
<1> QED
    BY <1>1, <1>2, <1>4, <1>5, <1>6, <1>7 DEF Next

-----------------------------------------------------------------------------
(* The theorems *)

\* The inductive invariant of the console: what its parts agree on across
\* configure_settings, the commands of the handler and the thread.
THEOREM ConsoleInvariant == Spec => []ConsoleInv
<1>1. Init => ConsoleInv
    BY InitProtocol, InitPool, InitSetup DEF ConsoleInv
<1>2. ConsoleInv /\ [Next]_vars => ConsoleInv'
    BY ProtocolKeeps, PoolKeeps, SetupKeeps DEF ConsoleInv
<1> QED
    BY <1>1, <1>2, PTL DEF Spec

\* Whatever fails in the middle of a command, the handler takes the process
\* down only on a client that did not keep to the protocol ("acquire" replacing
\* the controller, start()'s thread, controller->start).
THEOREM DeathBreaksProtocol == Spec => []DiesOnlyByProtocol
<1>1. ConsoleInv => DiesOnlyByProtocol
    BY DEF ConsoleInv, ProtocolInv
<1> QED
    BY <1>1, ConsoleInvariant, PTL

\* The pool that the first "acquire" made holds the records of the controller
\* in place, unless an earlier "acquire" measured a shorter period (buffer_pool,
\* made once).
THEOREM PoolHoldsRecords == Spec => []PoolFits
<1>1. ConsoleInv => PoolFits
    BY DEF ConsoleInv, PoolInv
<1> QED
    BY <1>1, ConsoleInvariant, PTL

\* The card's last setup is the one the controller counts on, whichever
\* commands set the card's attributes since (configure_cst_zs1, apply_setup).
THEOREM CardIsTheControllers == Spec => []CardMatchesController
<1>1. ConsoleInv => CardMatchesController
    BY DEF ConsoleInv, SetupInv
<1> QED
    BY <1>1, ConsoleInvariant, PTL

\* For every file config.txt may be, the console serves only with what the
\* first line for each key says, or the default (Config::read,
\* configure_settings, reject_bad_settings).
THEOREM SettingsAreTheFiles == Spec => []ServesAsConfigured
<1>1. ConsoleInv => ServesAsConfigured
    BY DEF ConsoleInv, SetupInv
<1> QED
    BY <1>1, ConsoleInvariant, PTL

\* What a client parses from a reply with a width is the period, and the samples
\* to the end of the record that the card was set to, for every period, delay
\* and rearm time (create_timing_information, TofWidthMessage).
THEOREM RepliesDescribeCard == Spec => []ReplyDescribesCard
<1>1. Init => ReplyDescribesCard
    BY DEF Init, ReplyDescribesCard
<1> QED
    BY <1>1, ReplyKeeps, PTL DEF Spec

\* A frame started by a request that arrived whole has the parameters that the
\* client wrote, for every request its fields hold (uimf_message_to_parameters
\* and the generated parser and serializer).
THEOREM FramesAreAsAsked == Spec => []FrameIsAsAsked
<1>1. Init => FrameIsAsAsked
    BY DEF Init, FrameIsAsAsked
<1> QED
    BY <1>1, FrameKeeps, PTL DEF Spec

=============================================================================
