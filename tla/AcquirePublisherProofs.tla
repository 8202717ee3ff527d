---------------------- MODULE AcquirePublisherProofs ----------------------
(***************************************************************************)
(* First the chain by itself: it delivers in order and exactly once, and   *)
(* its end loses nothing, for any number of records (ChainInv is an        *)
(* inductive invariant of SubscriberChain), so it implements Delivery.     *)
(*                                                                         *)
(* Then the controller, which drives the chain as SubscriberChain allows,  *)
(* so all that is proved of the chain holds of the composition; a stop     *)
(* takes effect, "finished acquire" is truthful and comes last, the card   *)
(* comes to rest and a completed chain loses at most the record that raced *)
(* it.  For any number of records, commands and frame lengths, and without *)
(* fairness.                                                               *)
(***************************************************************************)
EXTENDS AcquirePublisher, SequenceTheorems, TLAPS

-----------------------------------------------------------------------------
(* The chain: what the moves of an item do to handled \o items \o queue *)

\* update() adds at the end.
LEMMA AppendLast ==
    ASSUME NEW a \in Seq(Record), NEW b \in Seq(Record), NEW c \in Seq(Record), NEW r \in Record
    PROVE  a \o b \o Append(c, r) = Append(a \o b \o c, r)
<1>1. a \o b \in Seq(Record) /\ a \o b \o c \in Seq(Record) /\ <<r>> \in Seq(Record)
    BY ConcatProperties
<1>2. Append(c, r) = c \o <<r>>
    BY AppendIsConcat
<1>3. (a \o b) \o (c \o <<r>>) = ((a \o b) \o c) \o <<r>>
    BY <1>1, ConcatAssociative
<1>4. Append(a \o b \o c, r) = (a \o b \o c) \o <<r>>
    BY <1>1, AppendIsConcat
<1> QED
    BY <1>2, <1>3, <1>4

\* The first k records of c, moved behind b, leave the records behind a as they were.
MovesBehind(a, b, c, k) ==
    /\ SubSeq(c, 1, k) \in Seq(Record) /\ SubSeq(c, k + 1, Len(c)) \in Seq(Record)
    /\ a \o (b \o SubSeq(c, 1, k)) \o SubSeq(c, k + 1, Len(c)) = a \o b \o c

\* The drain moves a prefix of the queue behind items.
LEMMA MovePrefix ==
    ASSUME NEW a \in Seq(Record), NEW b \in Seq(Record), NEW c \in Seq(Record),
           NEW k \in 0..Len(c)
    PROVE  MovesBehind(a, b, c, k)
<1>0. Len(c) \in Nat /\ \A j \in 1..Len(c) : c[j] \in Record
    BY ElementOfSeq, LenProperties
<1>1. SubSeq(c, 1, k) \in Seq(Record)
    BY <1>0, SubSeqProperties
<1>2. SubSeq(c, k + 1, Len(c)) \in Seq(Record)
    BY <1>0, SubSeqProperties
<1>3. SubSeq(c, 1, k) \o SubSeq(c, k + 1, Len(c)) = c
    <2>1. 1 \in 1..(Len(c) + 1) /\ k \in (1 - 1)..Len(c) /\ Len(c) \in k..Len(c)
        BY <1>0
    <2>2. SubSeq(c, 1, k) \o SubSeq(c, k + 1, Len(c)) = SubSeq(c, 1, Len(c))
        BY ONLY <2>1, c \in Seq(Record), ConcatAdjacentSubSeq
    <2> QED
        BY <2>2, SubSeqFull
<1>4. \A d, p, q \in Seq(Record) : (d \o p) \o q = d \o (p \o q)
    BY ConcatAssociative, SMTT(60)
<1>5. a \o b \in Seq(Record)
    BY ConcatProperties
<1>6. a \o (b \o SubSeq(c, 1, k)) = (a \o b) \o SubSeq(c, 1, k)
    BY <1>1, <1>4, ZenonT(60)
<1>7. ((a \o b) \o SubSeq(c, 1, k)) \o SubSeq(c, k + 1, Len(c))
          = (a \o b) \o (SubSeq(c, 1, k) \o SubSeq(c, k + 1, Len(c)))
    BY <1>1, <1>2, <1>4, <1>5, ZenonT(60)
<1> QED
    BY <1>1, <1>2, <1>3, <1>6, <1>7 DEF MovesBehind

\* on_notify takes the head of items.
LEMMA MoveHead ==
    ASSUME NEW a \in Seq(Record), NEW b \in Seq(Record), NEW c \in Seq(Record), b # <<>>
    PROVE  /\ Head(b) \in Record /\ Tail(b) \in Seq(Record)
           /\ Append(a, Head(b)) \in Seq(Record)
           /\ Append(a, Head(b)) \o Tail(b) \o c = a \o b \o c
<1>1. Head(b) \in Record /\ Tail(b) \in Seq(Record) /\ <<Head(b)>> \in Seq(Record)
    BY HeadTailProperties
<1>2. Append(a, Head(b)) = a \o <<Head(b)>> /\ Append(a, Head(b)) \in Seq(Record)
    BY <1>1, AppendIsConcat, AppendProperties
<1>3. <<Head(b)>> \o Tail(b) = b
    <2>1. Len(b) \in Nat /\ Len(b) >= 1
        BY EmptySeq, LenProperties
    <2>2. SubSeq(b, 1, Len(b)) = <<b[1]>> \o SubSeq(b, 2, Len(b))
        BY <2>1, SubSeqRecursiveFirst
    <2>3. Head(b) = b[1]
        BY <2>1
    <2> QED
        BY <2>2, <2>3, SubSeqFull, TailIsSubSeq
<1>4. (a \o <<Head(b)>>) \o Tail(b) = a \o b
    BY <1>1, <1>3, ConcatAssociative, SMTT(60)
<1> QED
    BY <1>1, <1>2, <1>4

\* The loop of the drain moves no more than there is.
LEMMA HalfFits ==
    ASSUME NEW n \in Nat
    PROVE  Half(n) \in 0..n
BY DEF Half

-----------------------------------------------------------------------------
(* The invariant *)

\* notify() keeps the queues in step with what was sent, whoever is in S.
LEMMA NotifyKeeps ==
    ASSUME ChainTypeOK, InOrderExactlyOnce,
           NEW S \in SUBSET Subscriber, NEW r \in Record, Notify(S, r)
    PROVE  /\ protected_queue' \in [Subscriber -> Seq(Record)]
           /\ sent' \in [Subscriber -> Seq(Record)]
           /\ \A s \in Subscriber :
                  handled[s] \o items[s] \o protected_queue'[s] = sent'[s]
           /\ \A s \in Subscriber \ S :
                  protected_queue'[s] = protected_queue[s] /\ sent'[s] = sent[s]
<1>1. \A s \in Subscriber :
          /\ protected_queue[s] \in Seq(Record) /\ items[s] \in Seq(Record)
          /\ handled[s] \in Seq(Record) /\ sent[s] \in Seq(Record)
    BY DEF ChainTypeOK
<1>2. \A q \in Seq(Record) : Append(q, r) \in Seq(Record)
    BY AppendProperties
<1>3. protected_queue' \in [Subscriber -> Seq(Record)]
    BY <1>1, <1>2 DEF Notify
<1>4. sent' \in [Subscriber -> Seq(Record)]
    BY <1>1, <1>2 DEF Notify
<1>5. ASSUME NEW s \in Subscriber
      PROVE  handled[s] \o items[s] \o protected_queue'[s] = sent'[s]
    <2>1. handled[s] \o items[s] \o Append(protected_queue[s], r)
              = Append(handled[s] \o items[s] \o protected_queue[s], r)
        BY <1>1, AppendLast, ZenonT(60)
    <2> QED
        BY <2>1 DEF Notify, InOrderExactlyOnce
<1> QED
    BY <1>3, <1>4, <1>5 DEF Notify

\* on_notify of one subscriber moves the head of its items to handled.
LEMMA PopKeeps ==
    ASSUME ChainTypeOK, NEW s \in Subscriber, Pop(s)
    PROVE  /\ items' \in [Subscriber -> Seq(Record)]
           /\ handled' \in [Subscriber -> Seq(Record)]
           /\ Head(items[s]) \in Record
           /\ \A q \in Seq(Record) : handled'[s] \o items'[s] \o q = handled[s] \o items[s] \o q
           /\ \A u \in Subscriber \ {s} : handled'[u] = handled[u] /\ items'[u] = items[u]
<1>1. items[s] \in Seq(Record) /\ handled[s] \in Seq(Record) /\ items[s] # <<>>
    BY DEF ChainTypeOK, Pop
<1>2. Head(items[s]) \in Record /\ Tail(items[s]) \in Seq(Record)
    BY <1>1, HeadTailProperties
<1>3. Append(handled[s], Head(items[s])) \in Seq(Record)
    BY <1>1, <1>2, AppendProperties
<1>4. \A q \in Seq(Record) :
          Append(handled[s], Head(items[s])) \o Tail(items[s]) \o q = handled[s] \o items[s] \o q
    BY <1>1, MoveHead, ZenonT(60)
<1>5. handled'[s] = Append(handled[s], Head(items[s])) /\ items'[s] = Tail(items[s])
    BY DEF Pop, ChainTypeOK
<1> QED
    BY <1>2, <1>3, <1>4, <1>5 DEF Pop, ChainTypeOK

\* The drain only moves items.
LEMMA DrainKeeps ==
    ASSUME ChainTypeOK, InOrderExactlyOnce, NEW s \in Subscriber, Drain(s)
    PROVE  /\ items' \in [Subscriber -> Seq(Record)]
           /\ protected_queue' \in [Subscriber -> Seq(Record)]
           /\ InOrderExactlyOnce'
<1> DEFINE q == protected_queue[s]
           k == Half(Len(protected_queue[s]))
<1>1. /\ q \in Seq(Record) /\ items[s] \in Seq(Record)
      /\ handled[s] \in Seq(Record) /\ Len(q) \in Nat
    BY LenProperties DEF ChainTypeOK
<1>2. k \in 0..Len(q)
    BY <1>1, HalfFits
<1>3. /\ SubSeq(q, 1, k) \in Seq(Record) /\ SubSeq(q, k + 1, Len(q)) \in Seq(Record)
      /\ handled[s] \o (items[s] \o SubSeq(q, 1, k)) \o SubSeq(q, k + 1, Len(q))
             = handled[s] \o items[s] \o q
    <2> DEFINE a == handled[s]
               b == items[s]
    <2>1. a \in Seq(Record) /\ b \in Seq(Record) /\ q \in Seq(Record) /\ k \in 0..Len(q)
        BY <1>1, <1>2
    <2> HIDE DEF a, b, q, k
    <2>2. /\ SubSeq(q, 1, k) \in Seq(Record) /\ SubSeq(q, k + 1, Len(q)) \in Seq(Record)
          /\ a \o (b \o SubSeq(q, 1, k)) \o SubSeq(q, k + 1, Len(q)) = a \o b \o q
        <3>1. MovesBehind(a, b, q, k)
            BY <2>1, MovePrefix
        <3> QED
            BY <3>1 DEF MovesBehind
    <2> QED
        BY <2>2 DEF a, b
<1>4. items[s] \o SubSeq(q, 1, k) \in Seq(Record)
    BY <1>1, <1>3, ConcatProperties
<1>5. /\ items' = [items EXCEPT ![s] = items[s] \o SubSeq(q, 1, k)]
      /\ protected_queue' = [protected_queue EXCEPT ![s] = SubSeq(q, k + 1, Len(q))]
      /\ sent' = sent /\ handled' = handled
    BY DEF Drain
<1> HIDE DEF q, k
<1>6. items' \in [Subscriber -> Seq(Record)]
    BY <1>4, <1>5 DEF ChainTypeOK
<1>7. protected_queue' \in [Subscriber -> Seq(Record)]
    BY <1>3, <1>5 DEF ChainTypeOK
<1>8. ASSUME NEW u \in Subscriber
      PROVE  handled'[u] \o items'[u] \o protected_queue'[u] = sent'[u]
    <2>1. CASE u = s
        <3>1. items'[s] = items[s] \o SubSeq(q, 1, k) /\ protected_queue'[s] = SubSeq(q, k + 1, Len(q))
            BY <1>5 DEF ChainTypeOK
        <3>2. handled[s] \o items[s] \o q = sent[s]
            BY DEF InOrderExactlyOnce, q
        <3> QED
            BY <1>3, <1>5, <2>1, <3>1, <3>2
    <2>2. CASE u # s
        <3>1. items'[u] = items[u] /\ protected_queue'[u] = protected_queue[u]
            BY <1>5, <2>2 DEF ChainTypeOK
        <3> QED
            BY <1>5, <3>1 DEF InOrderExactlyOnce
    <2> QED
        BY <2>1, <2>2
<1> QED
    BY <1>6, <1>7, <1>8 DEF InOrderExactlyOnce

\* The chain as registered.
LEMMA InitChain == ChainInit => ChainInv
<1> SUFFICES ASSUME ChainInit PROVE ChainInv
    OBVIOUS
<1>1. <<>> \in Seq(Record) /\ <<>> \o <<>> \o <<>> = <<>>
    BY EmptySeq, ConcatEmptySeq
<1>2. ChainTypeOK
    BY <1>1 DEF ChainInit, ChainTypeOK
<1>3. InOrderExactlyOnce
    BY <1>1 DEF ChainInit, InOrderExactlyOnce
<1> QED
    BY <1>2, <1>3 DEF ChainInit, ChainInv, StopSeenFirst, Downstream, Subscriber, Publisher

\* A step that only moves a program counter or sets a signal keeps the types
\* and the order.
LEMMA QuietStep ==
    ASSUME ChainTypeOK, InOrderExactlyOnce,
           UNCHANGED <<protected_queue, items, sent, handled>>,
           pc' \in [Subscriber -> {"loop", "empty?", "wait", "completing", "waiting", "done"}],
           completed' \in [Publisher -> BOOLEAN]
    PROVE  ChainTypeOK' /\ InOrderExactlyOnce'
BY DEF ChainTypeOK, InOrderExactlyOnce

\* Every step of the publisher and of the three threads keeps the invariant.
LEMMA NextChain == ChainInv /\ [ChainNext]_chainVars => ChainInv'
<1> SUFFICES ASSUME ChainInv, [ChainNext]_chainVars PROVE ChainInv'
    OBVIOUS
<1> USE DEF Subscriber, Downstream, Publisher
<1>0. /\ ChainTypeOK /\ InOrderExactlyOnce
      /\ pc \in [Subscriber -> {"loop", "empty?", "wait", "completing", "waiting", "done"}]
      /\ completed \in [Publisher -> BOOLEAN]
    BY DEF ChainInv, ChainTypeOK
<1>1. ASSUME NEW file \in BOOLEAN, NotifyRecord(file) PROVE ChainInv'
    <2> DEFINE r == [n |-> Len(sent["ps"]) + 1, file |-> file]
    <2>1. r \in Record
        <3>1. Len(sent["ps"]) \in Nat
            BY <1>0, LenProperties DEF ChainTypeOK
        <3> QED
            BY <1>1, <3>1, ChainAssumption DEF NotifyRecord, Record
    <2>2. {"ps"} \in SUBSET Subscriber /\ Notify({"ps"}, r)
        BY <1>1 DEF NotifyRecord
    <2> HIDE DEF r
    <2>3. /\ protected_queue' \in [Subscriber -> Seq(Record)]
          /\ sent' \in [Subscriber -> Seq(Record)]
          /\ \A s \in Subscriber :
                 handled[s] \o items[s] \o protected_queue'[s] = sent'[s]
          /\ \A s \in Subscriber \ {"ps"} :
                 protected_queue'[s] = protected_queue[s]
        BY <1>0, <2>2, <2>1, NotifyKeeps
    <2>4. ChainTypeOK' /\ InOrderExactlyOnce'
        BY <1>0, <1>1, <2>3 DEF NotifyRecord, ChainTypeOK, InOrderExactlyOnce
    <2> QED
        BY <1>1, <2>3, <2>4 DEF NotifyRecord, ChainInv, StopSeenFirst
<1>2. CASE NotifyCompleted
    <2>1. ChainTypeOK' /\ InOrderExactlyOnce'
        BY <1>0, <1>2, QuietStep DEF NotifyCompleted
    <2> QED
        BY <1>0, <1>2, <2>1 DEF NotifyCompleted, ChainInv, StopSeenFirst
<1>3. ASSUME NEW s \in Subscriber, CheckRunning(s) PROVE ChainInv'
    <2>1. ChainTypeOK' /\ InOrderExactlyOnce'
        BY <1>0, <1>3, QuietStep DEF CheckRunning, Goto
    <2> QED
        BY <1>0, <1>3, <2>1 DEF CheckRunning, Goto, ChainInv, StopSeenFirst
<1>4. ASSUME NEW s \in Subscriber, CheckStopped(s) PROVE ChainInv'
    <2>1. ChainTypeOK' /\ InOrderExactlyOnce'
        BY <1>0, <1>4, QuietStep DEF CheckStopped, Goto
    <2> QED
        BY <1>0, <1>4, <2>1 DEF CheckStopped, Goto, UpstreamOf, ChainInv, StopSeenFirst
<1>5. ASSUME NEW s \in Subscriber, CheckLeft(s) PROVE ChainInv'
    <2>1. ChainTypeOK' /\ InOrderExactlyOnce'
        BY <1>0, <1>5, QuietStep DEF CheckLeft, Goto
    <2> QED
        BY <1>0, <1>5, <2>1 DEF CheckLeft, Goto, ChainInv, StopSeenFirst
<1>6. ASSUME NEW s \in Subscriber, CheckDrained(s) PROVE ChainInv'
    <2>1. ChainTypeOK' /\ InOrderExactlyOnce'
        BY <1>0, <1>6, QuietStep DEF CheckDrained, Goto
    <2> QED
        BY <1>0, <1>6, <2>1 DEF CheckDrained, Goto, NothingLeft, ChainInv, StopSeenFirst
<1>7. ASSUME NEW s \in Subscriber, Drain(s) PROVE ChainInv'
    <2>1. /\ items' \in [Subscriber -> Seq(Record)]
          /\ protected_queue' \in [Subscriber -> Seq(Record)]
          /\ InOrderExactlyOnce'
        BY <1>0, <1>7, DrainKeeps
    <2>2. /\ pc[s] = "wait" /\ pc' = [pc EXCEPT ![s] = "loop"]
          /\ completed' = completed /\ sent' = sent /\ handled' = handled
          /\ \A u \in Subscriber \ {s} :
                 items'[u] = items[u] /\ protected_queue'[u] = protected_queue[u]
        BY <1>0, <1>7 DEF Drain, Goto, ChainTypeOK
    <2>3. ChainTypeOK'
        BY <1>0, <2>1, <2>2 DEF ChainTypeOK
    <2> QED
        BY <1>0, <2>1, <2>2, <2>3 DEF ChainInv, StopSeenFirst
<1>8. CASE OnNotifyProcess
    <2> DEFINE r == Head(items["ps"])
               S == {"zmq"} \cup (IF r.file THEN {"fw"} ELSE {})
    <2>1. /\ items' \in [Subscriber -> Seq(Record)]
          /\ handled' \in [Subscriber -> Seq(Record)]
          /\ r \in Record
          /\ \A q \in Seq(Record) :
                 handled'["ps"] \o items'["ps"] \o q = handled["ps"] \o items["ps"] \o q
          /\ \A u \in Downstream : handled'[u] = handled[u] /\ items'[u] = items[u]
        BY <1>0, <1>8, PopKeeps DEF OnNotifyProcess
    <2>2. S \in SUBSET Subscriber /\ Notify(S, r)
        BY <1>8 DEF OnNotifyProcess
    <2> HIDE DEF S, r
    <2>3. /\ protected_queue' \in [Subscriber -> Seq(Record)]
          /\ sent' \in [Subscriber -> Seq(Record)]
          /\ \A s \in Subscriber :
                 handled[s] \o items[s] \o protected_queue'[s] = sent'[s]
        BY <1>0, <2>1, <2>2, NotifyKeeps
    <2>4. /\ pc' = pc /\ completed' = completed /\ pc["ps"] = "loop"
        BY <1>8 DEF OnNotifyProcess, Pop
    <2>5. InOrderExactlyOnce'
        BY <2>1, <2>3 DEF InOrderExactlyOnce
    <2>6. ChainTypeOK'
        BY <1>0, <2>1, <2>3, <2>4 DEF ChainTypeOK
    <2> QED
        BY <1>0, <2>4, <2>5, <2>6 DEF ChainInv, StopSeenFirst
<1>9. ASSUME NEW s \in Subscriber, Pop(s), UNCHANGED <<protected_queue, sent>>
      PROVE  ChainInv'
    <2>1. /\ items' \in [Subscriber -> Seq(Record)]
          /\ handled' \in [Subscriber -> Seq(Record)]
          /\ \A q \in Seq(Record) :
                 handled'[s] \o items'[s] \o q = handled[s] \o items[s] \o q
          /\ \A u \in Subscriber \ {s} : handled'[u] = handled[u] /\ items'[u] = items[u]
        BY <1>0, <1>9, PopKeeps
    <2>2. pc' = pc /\ completed' = completed /\ pc[s] = "loop"
        BY <1>9 DEF Pop
    <2>3. ChainTypeOK'
        BY <1>0, <1>9, <2>1, <2>2 DEF ChainTypeOK
    <2>4. \A u \in Subscriber : protected_queue[u] \in Seq(Record)
        BY <1>0 DEF ChainTypeOK
    <2>5. InOrderExactlyOnce'
        BY <1>0, <1>9, <2>1, <2>4 DEF InOrderExactlyOnce
    <2> QED
        BY <1>0, <1>9, <2>1, <2>2, <2>3, <2>5 DEF ChainInv, StopSeenFirst
<1>10. ASSUME NEW s \in Downstream, Complete(s) PROVE ChainInv'
    <2>1. ChainTypeOK' /\ InOrderExactlyOnce'
        BY <1>0, <1>10, QuietStep DEF Complete, Goto
    <2> QED
        BY <1>0, <1>10, <2>1 DEF Complete, Goto, ChainInv, StopSeenFirst
<1>11. CASE OnCompletedSignal
    <2>1. ChainTypeOK' /\ InOrderExactlyOnce'
        BY <1>0, <1>11, QuietStep DEF OnCompletedSignal, Goto
    <2> QED
        BY <1>0, <1>11, <2>1 DEF OnCompletedSignal, Goto, ChainInv, StopSeenFirst
<1>12. CASE OnCompletedWait
    <2>1. ChainTypeOK' /\ InOrderExactlyOnce'
        BY <1>0, <1>12, QuietStep DEF OnCompletedWait, Goto
    <2> QED
        BY <1>0, <1>12, <2>1 DEF OnCompletedWait, Goto, ChainInv, StopSeenFirst
<1>13. CASE UNCHANGED chainVars
    BY <1>0, <1>13 DEF chainVars, ChainInv, ChainTypeOK, InOrderExactlyOnce, StopSeenFirst
<1> QED
    BY <1>1, <1>2, <1>3, <1>4, <1>5, <1>6, <1>7, <1>8, <1>9, <1>10, <1>11, <1>12, <1>13
    DEF ChainNext, ThreadStep, ProcessStep, DownstreamStep, LoopStep,
        OnNotifyThrows, OnNotifyDownstream

\* The invariant holds in every state of the chain.
THEOREM ChainInvariant == ChainSafety => []ChainInv
BY InitChain, NextChain, PTL DEF ChainSafety

\* Type correctness of the chain.
THEOREM ChainTypeCorrect == ChainSafety => []ChainTypeOK
<1>1. ChainInv => ChainTypeOK
    BY DEF ChainInv
<1> QED
    BY <1>1, ChainInvariant, PTL

\* Every subscriber handles what it is sent in order and exactly once, for any
\* number of records (subscriber.h:58-104).
THEOREM Fifo == ChainSafety => []InOrderExactlyOnce
<1>1. ChainInv => InOrderExactlyOnce
    BY DEF ChainInv
<1> QED
    BY <1>1, ChainInvariant, PTL

\* A thread at the end of the chain that has ended has handled all it was sent.
LEMMA EndedMeansHandled ==
    ChainInv => DownstreamDrained /\ CompletedMeansHandled
<1> SUFFICES ASSUME ChainInv PROVE DownstreamDrained /\ CompletedMeansHandled
    OBVIOUS
<1>1. ASSUME NEW s \in Downstream, pc[s] = "done" PROVE handled[s] = sent[s]
    <2>1. items[s] = <<>> /\ protected_queue[s] = <<>> /\ s \in Subscriber
        BY <1>1 DEF ChainInv, StopSeenFirst, Downstream, Subscriber
    <2>2. handled[s] \in Seq(Record)
        BY <2>1 DEF ChainInv, ChainTypeOK
    <2>3. handled[s] \o <<>> \o <<>> = handled[s]
        BY <2>2, ConcatEmptySeq
    <2> QED
        BY <2>1, <2>3 DEF ChainInv, InOrderExactlyOnce
<1> QED
    BY <1>1 DEF ChainInv, StopSeenFirst, DownstreamDrained, CompletedMeansHandled

\* The threads at the end of the chain leave nothing behind (subscriber.h:68).
THEOREM NothingLostDownstream == ChainSafety => []DownstreamDrained
BY EndedMeansHandled, ChainInvariant, PTL

\* When the future of the ProcessSubject is set, every frame it made has been
\* published and written (publisher.h:61).
THEOREM CompletionIsTrue == ChainSafety => []CompletedMeansHandled
BY EndedMeansHandled, ChainInvariant, PTL

-----------------------------------------------------------------------------
(* The chain implements Delivery *)

\* on_notify takes the next item of those sent: what is handled is a prefix.
LEMMA NextInLine ==
    ASSUME ChainInv, NEW s \in Subscriber, items[s] # <<>>
    PROVE  /\ Len(handled[s]) < Len(sent[s])
           /\ Head(items[s]) = sent[s][Len(handled[s]) + 1]
<1> DEFINE a == handled[s]
           b == items[s]
           c == protected_queue[s]
<1>1. a \in Seq(Record) /\ b \in Seq(Record) /\ c \in Seq(Record) /\ a \o b \o c = sent[s]
    BY DEF ChainInv, ChainTypeOK, InOrderExactlyOnce
<1>2. b # <<>>
    OBVIOUS
<1> HIDE DEF a, b, c
<1>3. Len(a) \in Nat /\ Len(b) \in Nat /\ Len(c) \in Nat /\ Len(b) >= 1
    BY <1>1, <1>2, EmptySeq, LenProperties
<1>4. /\ a \o b \in Seq(Record)
      /\ Len(a \o b) = Len(a) + Len(b)
      /\ \A i \in 1..(Len(a) + Len(b)) :
             (a \o b)[i] = IF i <= Len(a) THEN a[i] ELSE b[i - Len(a)]
    BY <1>1, ConcatProperties
<1>5. /\ Len((a \o b) \o c) = Len(a \o b) + Len(c)
      /\ \A i \in 1..(Len(a \o b) + Len(c)) :
             ((a \o b) \o c)[i] = IF i <= Len(a \o b) THEN (a \o b)[i] ELSE c[i - Len(a \o b)]
    <2>1. \A d, e \in Seq(Record) :
              /\ Len(d \o e) = Len(d) + Len(e)
              /\ \A i \in 1..(Len(d) + Len(e)) :
                     (d \o e)[i] = IF i <= Len(d) THEN d[i] ELSE e[i - Len(d)]
        BY ConcatProperties
    <2> DEFINE ab == a \o b
    <2>2. ab \in Seq(Record)
        BY <1>4
    <2> HIDE DEF ab
    <2>3. /\ Len(ab \o c) = Len(ab) + Len(c)
          /\ \A i \in 1..(Len(ab) + Len(c)) :
                 (ab \o c)[i] = IF i <= Len(ab) THEN ab[i] ELSE c[i - Len(ab)]
        BY <1>1, <2>1, <2>2
    <2> QED
        BY <2>3 DEF ab
<1>6. ((a \o b) \o c)[Len(a) + 1] = b[1]
    BY <1>3, <1>4, <1>5
<1>7. Head(b) = b[1]
    BY <1>1, <1>3
<1>8. Len(sent[s]) = Len(a) + Len(b) + Len(c) /\ sent[s][Len(a) + 1] = b[1]
    BY <1>1, <1>3, <1>4, <1>5, <1>6
<1>9. Len(a) < Len(sent[s]) /\ Head(b) = sent[s][Len(a) + 1]
    BY <1>3, <1>7, <1>8
<1> QED
    BY <1>9 DEF a, b

\* A step of the chain is a step of the delivery or none of its business.
LEMMA NextDelivers ==
    ChainInv /\ [ChainNext]_chainVars
        => [Downstreams!Next]_(Downstreams!deliveryVars)
<1> SUFFICES ASSUME ChainInv, [ChainNext]_chainVars
             PROVE  [Downstreams!Next]_(Downstreams!deliveryVars)
    OBVIOUS
<1> USE DEF Subscriber, Downstream, Publisher
<1>0. ChainTypeOK /\ (completed["ps"] <=> pc["ps"] \in {"waiting", "done"})
    BY DEF ChainInv
<1>1. ASSUME NEW file \in BOOLEAN, NotifyRecord(file)
      PROVE  UNCHANGED Downstreams!deliveryVars
    <2>1. \A s \in Downstream : sent'[s] = sent[s]
        BY <1>0, <1>1 DEF NotifyRecord, Notify, ChainTypeOK
    <2> QED
        BY <1>1, <2>1 DEF NotifyRecord, Downstreams!deliveryVars
<1>2. CASE NotifyCompleted
    BY <1>0, <1>2 DEF NotifyCompleted, Downstreams!deliveryVars, ChainTypeOK
<1>3. ASSUME NEW s \in Subscriber, LoopStep(s)
      PROVE  UNCHANGED Downstreams!deliveryVars
    <2>1. /\ pc[s] \in {"loop", "empty?", "wait"}
          /\ pc'["ps"] = "done" <=> pc["ps"] = "done"
          /\ UNCHANGED <<completed, sent, handled>>
        BY <1>0, <1>3
        DEF LoopStep, CheckRunning, CheckStopped, CheckLeft, CheckDrained, Drain, Goto, ChainTypeOK
    <2> QED
        BY <2>1 DEF Downstreams!deliveryVars
<1>4. CASE OnNotifyProcess
    <2> DEFINE r == Head(items["ps"])
               C == {"zmq"} \cup (IF r.file THEN {"fw"} ELSE {})
    <2>1. r \in Record /\ \A u \in Downstream : handled'[u] = handled[u]
        BY <1>0, <1>4, PopKeeps DEF OnNotifyProcess
    <2>2. C \in SUBSET Downstream
        OBVIOUS
    <2>3. \A u \in Downstream : sent'[u] = IF u \in C THEN Append(sent[u], r) ELSE sent[u]
        BY <1>0, <1>4 DEF OnNotifyProcess, Notify, ChainTypeOK
    <2>4. ~completed["ps"] /\ UNCHANGED <<pc, completed>>
        BY <1>0, <1>4 DEF OnNotifyProcess, Pop
    <2> HIDE DEF r, C
    <2>5. PICK D \in SUBSET Downstream, i \in Record : D = C /\ i = r
        BY <2>1, <2>2
    <2>6. Downstreams!Submit(D, i)
        BY <2>1, <2>3, <2>4, <2>5 DEF Downstreams!Submit
    <2> QED
        BY <2>6 DEF Downstreams!Next
<1>5. CASE OnNotifyThrows
    <2>1. \A u \in Downstream : handled'[u] = handled[u]
        BY <1>0, <1>5, PopKeeps DEF OnNotifyThrows
    <2> QED
        BY <1>5, <2>1 DEF OnNotifyThrows, Pop, Downstreams!deliveryVars
<1>6. CASE OnCompletedSignal
    <2>1. ~completed["ps"] /\ completed'["ps"] = TRUE /\ UNCHANGED <<sent, handled>>
        BY <1>0, <1>6 DEF OnCompletedSignal, Goto, ChainTypeOK
    <2>2. pc["ps"] # "done" /\ pc'["ps"] # "done"
        BY <1>0, <1>6 DEF OnCompletedSignal, Goto, ChainTypeOK
    <2>3. Downstreams!Close
        BY <2>1, <2>2 DEF Downstreams!Close
    <2> QED
        BY <2>3 DEF Downstreams!Next
<1>7. CASE OnCompletedWait
    <2>1. completed["ps"] /\ pc["ps"] # "done" /\ UNCHANGED <<completed, sent, handled>>
        BY <1>0, <1>7 DEF OnCompletedWait, Goto
    <2>2. pc'["ps"] = "done"
        BY <1>0, <1>7 DEF OnCompletedWait, Goto, ChainTypeOK
    <2>3. \A s \in Downstream : handled[s] = sent[s]
        <3>1. \A s \in Downstream : items[s] = <<>> /\ protected_queue[s] = <<>>
            BY <1>7 DEF OnCompletedWait, ChainInv, StopSeenFirst
        <3>2. \A s \in Downstream : handled[s] \o <<>> \o <<>> = sent[s]
            BY <3>1 DEF ChainInv, InOrderExactlyOnce
        <3>3. \A s \in Downstream : handled[s] \in Seq(Record)
            BY <1>0 DEF ChainTypeOK
        <3> QED
            BY <3>2, <3>3, ConcatEmptySeq
    <2>4. Downstreams!Finish
        BY <2>1, <2>2, <2>3 DEF Downstreams!Finish
    <2> QED
        BY <2>4 DEF Downstreams!Next
<1>8. ASSUME NEW s \in Downstream, OnNotifyDownstream(s) PROVE Downstreams!Next
    <2>1. Len(handled[s]) < Len(sent[s]) /\ Head(items[s]) = sent[s][Len(handled[s]) + 1]
        BY <1>8, NextInLine DEF OnNotifyDownstream, Pop
    <2>2. /\ \A u \in Downstream : handled'[u] =
                 IF u = s THEN Append(handled[s], Head(items[s])) ELSE handled[u]
          /\ UNCHANGED <<pc, completed, sent>>
        BY <1>0, <1>8 DEF OnNotifyDownstream, Pop, ChainTypeOK
    <2>3. Downstreams!Deliver(s)
        BY <2>1, <2>2 DEF Downstreams!Deliver
    <2> QED
        BY <2>3 DEF Downstreams!Next
<1>9. ASSUME NEW s \in Downstream, Complete(s) PROVE UNCHANGED Downstreams!deliveryVars
    BY <1>0, <1>9 DEF Complete, Goto, Downstreams!deliveryVars, ChainTypeOK
<1>10. CASE UNCHANGED chainVars
    BY <1>10 DEF chainVars, Downstreams!deliveryVars
<1> QED
    BY <1>1, <1>2, <1>3, <1>4, <1>5, <1>6, <1>7, <1>8, <1>9, <1>10
    DEF ChainNext, ThreadStep, ProcessStep, DownstreamStep

\* The chain implements the safety part of Delivery: what the ProcessSubject
\* submits reaches zmq and the writer once and in order, nothing is submitted
\* after on_completed() closes, and its future is set only when all is delivered.
THEOREM ChainDelivers == ChainSafety => Downstreams!Safety
<1>1. ChainInit => Downstreams!Init
    BY DEF ChainInit, Downstreams!Init, Downstream, Subscriber, Publisher
<1> QED
    BY <1>1, ChainInvariant, NextDelivers, PTL DEF ChainSafety, Downstreams!Safety

-----------------------------------------------------------------------------
(* The controller: what the actions leave alone *)

\* Only the notification, the completion and the subscribers touch the chain.
LEMMA StepOfChain ==
    ASSUME [Next]_vars, frame.file \in BOOLEAN
    PROVE  [ChainNext]_chainVars
<1>1. CASE StartRefused \/ StartThrows \/ StartOverThread \/ \E f \in Frame : StartSpawn(f)
    BY <1>1 DEF StartRefused, StartThrows, StartOverThread, StartSpawn
<1>2. CASE WorkerNotify
    BY <1>2 DEF WorkerNotify, ChainNext
<1>3. CASE WorkerStep /\ ~WorkerNotify
    BY <1>3 DEF WorkerStep, WorkerBegin, WorkerCheckIdle, WorkerCheckBusy, WorkerStart,
        WorkerDriverThrows, WorkerLoop, WorkerEnd, WorkerAcquired, WorkerThrows,
        WorkerStopCard, WorkerFinish, WorkerMoves
<1>4. CASE (\E terminate \in BOOLEAN : Stop(terminate)) \/ Measure \/ MeasureRefused
    BY <1>4 DEF Stop, Measure, MeasureRefused, MeasureGoto
<1>5. CASE StopComplete
    BY <1>5 DEF StopComplete, ChainNext
<1>6. CASE ServerStep /\ ~StopComplete
    BY <1>6 DEF ServerStep, StopTwice, StopAwait, StopJoin, MeasureStart, MeasureRetry,
        MeasureEnd, MeasureGoto
<1>7. CASE ChainStep
    BY <1>7 DEF ChainStep, ChainNext
<1>8. CASE UNCHANGED vars
    BY <1>8 DEF vars
<1> QED
    BY <1>1, <1>2, <1>3, <1>4, <1>5, <1>6, <1>7, <1>8 DEF Next

-----------------------------------------------------------------------------
(* The thread, its stop and the card *)

\* No thread, no command in progress and nothing published at first.
LEMMA InitPublisher == Init => PublisherInv
<1> SUFFICES ASSUME Init PROVE PublisherInv
    OBVIOUS
<1>1. ThreadInv
    <2>1. MaxRecords + 1 \in Nat
        BY ChainAssumption
    <2>2. Continuous \in [file : BOOLEAN, length : Nat, n : Nat]
        BY <2>1 DEF Continuous
    <2> QED
        BY <2>2 DEF Init, ThreadInv
<1>2. AnnouncedInv
    BY DEF Init, AnnouncedInv
<1>3. RacingInv
    BY DEF Init, ChainInit, RacingInv, Subscriber, Publisher
<1>4. StopInv /\ CardInv
    BY DEF Init, StopInv, CardInv
<1> QED
    BY <1>1, <1>2, <1>3, <1>4 DEF PublisherInv

\* start(), in its four ways to end.
LEMMA StartKeeps ==
    ASSUME ThreadInv, StopInv, CardInv,
           StartRefused \/ StartThrows \/ StartOverThread \/ \E f \in Frame : StartSpawn(f)
    PROVE  ThreadInv' /\ StopInv' /\ CardInv'
<1>1. ASSUME StartRefused \/ StartThrows \/ StartOverThread
      PROVE  ThreadInv' /\ StopInv' /\ CardInv'
    <2> USE DEF StartRefused, StartThrows, StartOverThread, flags, locals, device, history
    <2>0. starts' = starts + 1
        BY <1>1
    <2>1. starts' \in Nat
        BY ONLY <2>0, ThreadInv DEF ThreadInv
    <2>2. /\ UNCHANGED <<joinable, worker, frame, server, card, sinceStop, state>>
          /\ should_stop' \in BOOLEAN
          /\ should_stop' = should_stop \/ state # "ACQUIRING"
          /\ server = "ready"
        BY <1>1 DEF ThreadInv
    <2>3. ThreadInv'
        BY <2>1, <2>2 DEF ThreadInv
    <2>4. worker = "loop" => should_stop' = should_stop
        BY <2>2 DEF ThreadInv
    <2>5. StopInv'
        BY <2>2, <2>4 DEF StopInv
    <2>6. CardInv'
        BY <2>2 DEF CardInv
    <2> QED
        BY <2>3, <2>5, <2>6
<1>2. ASSUME NEW f \in Frame, StartSpawn(f) PROVE ThreadInv' /\ StopInv' /\ CardInv'
    <2>1. f.length \in Nat
        BY PublisherAssumption DEF Frame
    <2>2. f.n \in Nat
        BY PublisherAssumption DEF Frame
    <2>3. f.file \in BOOLEAN /\ f = [file |-> f.file, length |-> f.length, n |-> f.n]
        BY DEF Frame
    <2>4. f \in [file : BOOLEAN, length : Nat, n : Nat]
        BY <2>1, <2>2, <2>3
    <2>5. starts' \in Nat
        BY <1>2 DEF StartSpawn, ThreadInv
    <2>6. ThreadInv'
        BY <1>2, <2>4, <2>5 DEF StartSpawn, ThreadInv
    <2>7. StopInv'
        BY <1>2 DEF StartSpawn, StopInv
    <2>8. CardInv'
        BY <1>2 DEF StartSpawn, device, CardInv, ThreadInv
    <2> QED
        BY <2>6, <2>7, <2>8
<1> QED
    BY <1>1, <1>2

\* The thread.
LEMMA WorkerKeeps ==
    ASSUME ThreadInv, StopInv, CardInv, WorkerStep
    PROVE  ThreadInv' /\ StopInv' /\ CardInv'
<1> USE DEF WorkerMoves, WorkerGoto, flags, locals, device, commands, history,
            ThreadInv, StopInv, CardInv
<1>1. CASE WorkerBegin
    BY <1>1 DEF WorkerBegin
<1>2. CASE WorkerCheckIdle
    BY <1>2 DEF WorkerCheckIdle
<1>3. CASE WorkerCheckBusy
    BY <1>3 DEF WorkerCheckBusy
<1>4. CASE WorkerStart
    BY <1>4 DEF WorkerStart
<1>5. CASE WorkerDriverThrows
    BY <1>5 DEF WorkerDriverThrows
<1>6. CASE WorkerLoop
    BY <1>6 DEF WorkerLoop, LoopEnds
<1>7. CASE WorkerEnd
    BY <1>7 DEF WorkerEnd
<1>8. CASE WorkerAcquired
    BY <1>8 DEF WorkerAcquired
<1>9. CASE WorkerThrows
    BY <1>9 DEF WorkerThrows
<1>10. CASE WorkerNotify
    BY <1>10 DEF WorkerNotify
<1>11. CASE WorkerStopCard
    BY <1>11 DEF WorkerStopCard
<1>12. CASE WorkerFinish
    BY <1>12 DEF WorkerFinish
<1> QED
    BY <1>1, <1>2, <1>3, <1>4, <1>5, <1>6, <1>7, <1>8, <1>9, <1>10, <1>11, <1>12
    DEF WorkerStep

\* The server's thread in stop() and in a measurement.
LEMMA ServerKeeps ==
    ASSUME ThreadInv, StopInv, CardInv,
           \/ \E terminate \in BOOLEAN : Stop(terminate)
           \/ Measure \/ MeasureRefused \/ ServerStep
    PROVE  ThreadInv' /\ StopInv' /\ CardInv'
<1> USE DEF MeasureGoto, flags, locals, device, commands, history,
            ThreadInv, StopInv, CardInv
<1>1. ASSUME NEW terminate \in BOOLEAN, Stop(terminate)
      PROVE  ThreadInv' /\ StopInv' /\ CardInv'
    BY <1>1 DEF Stop
<1>2. CASE Measure \/ MeasureRefused
    BY <1>2 DEF Measure, MeasureRefused
<1>3. CASE StopComplete
    BY <1>3 DEF StopComplete
<1>4. CASE StopTwice
    BY <1>4 DEF StopTwice
<1>5. CASE StopAwait
    BY <1>5 DEF StopAwait
<1>6. CASE StopJoin
    BY <1>6 DEF StopJoin
<1>7. CASE MeasureStart("measure", "measuring") \/ MeasureStart("retry", "remeasuring")
    BY <1>7 DEF MeasureStart
<1>8. CASE MeasureRetry \/ MeasureEnd
    BY <1>8 DEF MeasureRetry, MeasureEnd
<1> QED
    BY <1>1, <1>2, <1>3, <1>4, <1>5, <1>6, <1>7, <1>8 DEF ServerStep

-----------------------------------------------------------------------------
(* The end of the chain *)

\* A thread of the chain leaves the steps of its end only forwards, and a chain
\* that has ended stays ended.
LEMMA EndIsFinal ==
    ASSUME ChainInv, [ChainNext]_chainVars, pc["ps"] = "done"
    PROVE  pc'["ps"] = "done"
<1> USE DEF ChainInv, ChainTypeOK, Subscriber, Downstream
<1>1. ASSUME NEW file \in BOOLEAN, NotifyRecord(file) PROVE pc' = pc
    BY <1>1 DEF NotifyRecord
<1>2. CASE NotifyCompleted
    BY <1>2 DEF NotifyCompleted
<1>3. CASE ProcessStep
    BY <1>3 DEF ProcessStep, LoopStep, CheckRunning, CheckStopped, CheckLeft, CheckDrained,
        Drain, OnNotifyProcess, OnNotifyThrows, Pop, OnCompletedSignal, OnCompletedWait, Goto
<1>4. ASSUME NEW s \in Downstream, DownstreamStep(s) PROVE pc'["ps"] = pc["ps"]
    BY <1>4 DEF DownstreamStep, LoopStep, CheckRunning, CheckStopped, CheckLeft,
        CheckDrained, Drain, OnNotifyDownstream, Pop, Complete, Goto
<1> QED
    BY <1>1, <1>2, <1>3, <1>4 DEF ChainNext, ThreadStep, chainVars

\* Where the elements of Append(q, e) are.
LEMMA AppendIndices ==
    ASSUME NEW S, NEW q \in Seq(S), NEW e \in S
    PROVE  /\ Append(q, e) \in Seq(S)
           /\ Append(q, e)[Len(q) + 1] = e
           /\ \A k \in DOMAIN Append(q, e) :
                  (k \in DOMAIN q /\ Append(q, e)[k] = q[k]) \/ Append(q, e)[k] = e
<1>1. Append(q, e) \in Seq(S) /\ Append(q, e)[Len(q) + 1] = e
    BY AppendProperties
<1>2. \A i \in 1..Len(q) : Append(q, e)[i] = q[i]
    BY AppendProperties
<1>3. Len(q) \in Nat /\ DOMAIN q = 1..Len(q)
    BY LenProperties
<1>4. DOMAIN Append(q, e) = 1..(Len(q) + 1)
    BY <1>1, AppendProperties, LenProperties
<1>5. ASSUME NEW n \in Nat, NEW k \in 1..(n + 1), k \notin 1..n PROVE k = n + 1
    BY <1>5
<1> QED
    BY <1>1, <1>2, <1>3, <1>4, <1>5

\* A status message of one of the three kinds.
LEMMA PublishKeeps ==
    ASSUME AnnouncedInv,
           NEW m \in {"error", "finished", "finished acquire"}, NEW n \in Nat,
           Publish(m, n), pc'["ps"] = "done" \/ (m # "finished acquire" /\ pc["ps"] # "done")
    PROVE  AnnouncedInv'
<1> DEFINE Kinds == {"error", "finished", "finished acquire"} \X Nat
<1>1. <<m, n>> \in Kinds /\ status \in Seq(Kinds) /\ status' = Append(status, <<m, n>>)
    BY DEF AnnouncedInv, Publish
<1> HIDE DEF Kinds
<1>2. /\ status' \in Seq(Kinds)
      /\ \A k \in DOMAIN status' :
             (k \in DOMAIN status /\ status'[k] = status[k]) \/ status'[k] = <<m, n>>
    <2> DEFINE e == <<m, n>>
               q == Append(status, e)
    <2>1. e \in Kinds /\ status \in Seq(Kinds)
        BY <1>1
    <2> HIDE DEF e
    <2>2. /\ q \in Seq(Kinds)
          /\ \A k \in DOMAIN q : (k \in DOMAIN status /\ q[k] = status[k]) \/ q[k] = e
        BY <2>1, AppendIndices, ZenonT(60)
    <2>3. status' = q
        BY <1>1 DEF e
    <2> QED
        BY <2>2, <2>3 DEF e
<1>3. ASSUME NEW k \in DOMAIN status', status'[k][1] = "finished acquire", pc["ps"] # "done"
      PROVE  m = "finished acquire"
    <2>1. ~(k \in DOMAIN status /\ status[k][1] = "finished acquire")
        BY <1>3 DEF AnnouncedInv
    <2>2. status'[k] = <<m, n>>
        BY <1>2, <1>3, <2>1
    <2>3. <<m, n>>[1] = m
        OBVIOUS
    <2> QED
        BY <1>3, <2>2, <2>3
<1>4. (\E k \in DOMAIN status' : status'[k][1] = "finished acquire") => pc'["ps"] = "done"
    BY <1>3
<1> QED
    BY <1>2, <1>4 DEF AnnouncedInv, Kinds

\* The end of the chain is announced only when it has come.
LEMMA AnnouncedKeeps ==
    ASSUME ChainInv, ThreadInv, AnnouncedInv, [Next]_vars
    PROVE  AnnouncedInv'
<1>1. [ChainNext]_chainVars
    BY StepOfChain DEF ThreadInv
<1>2. pc["ps"] = "done" => pc'["ps"] = "done"
    BY <1>1, EndIsFinal
<1>3. frame.n \in Nat /\ starts + 1 \in Nat
    BY DEF ThreadInv
<1>4. CASE StartThrows
    BY <1>2, <1>3, <1>4, PublishKeeps DEF StartThrows
<1>5. CASE WorkerThrows
    BY <1>2, <1>3, <1>5, PublishKeeps DEF WorkerThrows
<1>6. CASE WorkerFinish
    BY <1>2, <1>3, <1>6, PublishKeeps DEF WorkerFinish
<1>7. CASE StopAwait
    BY <1>2, <1>7, PublishKeeps DEF StopAwait
<1>8. CASE status' = status
    BY <1>2, <1>8 DEF AnnouncedInv
<1>9. [Next]_vars => \/ StartThrows \/ WorkerThrows \/ WorkerFinish \/ StopAwait
                     \/ status' = status
    BY DEF Next, StartRefused, StartOverThread, StartSpawn, WorkerStep, WorkerBegin,
        WorkerCheckIdle, WorkerCheckBusy, WorkerStart, WorkerDriverThrows, WorkerLoop,
        WorkerEnd, WorkerAcquired, WorkerNotify, WorkerStopCard, WorkerMoves, Stop, Measure,
        MeasureRefused, MeasureGoto, ServerStep, StopComplete, StopTwice, StopJoin,
        MeasureStart, MeasureRetry, MeasureEnd, ChainStep, ctrlVars, vars
<1> QED
    BY <1>4, <1>5, <1>6, <1>7, <1>8, <1>9

-----------------------------------------------------------------------------
(* The record that races the completion *)

\* A step of a subscriber's thread: the ProcessSubject comes to the end of its
\* loop with the signal seen and nothing left, and takes nothing more then.
LEMMA ThreadsEnd ==
    ASSUME ChainInv, ThreadStep
    PROVE  /\ completed'["ap"] = completed["ap"]
           /\ pc'["ps"] = "empty?" => pc["ps"] = "empty?" \/ completed["ap"]
           /\ pc'["ps"] \in {"completing", "waiting", "done"} =>
                  \/ pc["ps"] = "empty?" /\ items'["ps"] = <<>> /\ protected_queue'["ps"] = <<>>
                  \/ /\ pc["ps"] \in {"completing", "waiting", "done"}
                     /\ items'["ps"] = items["ps"]
                     /\ protected_queue'["ps"] = protected_queue["ps"]
<1> USE DEF ChainInv, ChainTypeOK, Subscriber, Downstream, Publisher
<1>1. CASE LoopStep("ps")
    BY <1>1 DEF LoopStep, CheckRunning, CheckStopped, CheckLeft, CheckDrained, NothingLeft,
        Drain, Goto, UpstreamOf
<1>2. CASE OnNotifyProcess \/ OnNotifyThrows
    BY <1>2 DEF OnNotifyProcess, OnNotifyThrows, Pop
<1>3. CASE OnCompletedSignal \/ OnCompletedWait
    BY <1>3 DEF OnCompletedSignal, OnCompletedWait, Goto
<1>4. ASSUME NEW s \in Downstream, DownstreamStep(s)
      PROVE  /\ completed' = completed /\ pc'["ps"] = pc["ps"]
             /\ items'["ps"] = items["ps"] /\ protected_queue'["ps"] = protected_queue["ps"]
    BY <1>4 DEF DownstreamStep, LoopStep, CheckRunning, CheckStopped, CheckLeft,
        CheckDrained, Drain, OnNotifyDownstream, Pop, Complete, Goto
<1> QED
    BY <1>1, <1>2, <1>3, <1>4 DEF ThreadStep, ProcessStep

\* Once the chain is completed nothing makes the thread begin a record.
LEMMA NoNewRecord ==
    ASSUME ThreadInv, RacingInv, [Next]_vars,
           completed["ap"], ~reused, UNCHANGED completed, ~reused'
    PROVE  /\ server' \in {"await", "join"} \/ worker' = "none"
           /\ worker' \in {"acquire", "notify"} => worker \in {"acquire", "notify"}
           /\ racing' = racing
<1> USE DEF flags, locals, device, commands, history
<1>1. (server \in {"await", "join"} /\ should_stop) \/ worker = "none"
    BY DEF RacingInv, ThreadInv
<1>2. CASE StartRefused \/ StartThrows \/ StartOverThread
    BY <1>1, <1>2 DEF StartRefused, StartThrows, StartOverThread
<1>3. ASSUME NEW f \in Frame, StartSpawn(f) PROVE FALSE
    BY <1>3 DEF StartSpawn
<1>4. CASE WorkerStep
    BY <1>1, <1>4 DEF WorkerStep, WorkerBegin, WorkerCheckIdle, WorkerCheckBusy, WorkerStart,
        WorkerDriverThrows, WorkerLoop, LoopEnds, WorkerEnd, WorkerAcquired, WorkerThrows,
        WorkerNotify, WorkerStopCard, WorkerFinish, WorkerMoves, WorkerGoto
<1>5. CASE (\E terminate \in BOOLEAN : Stop(terminate)) \/ Measure \/ MeasureRefused
    BY <1>1, <1>5 DEF Stop, Measure, MeasureRefused, MeasureGoto
<1>6. CASE ServerStep
    BY <1>1, <1>6 DEF ServerStep, StopComplete, NotifyCompleted, StopTwice, StopAwait,
        StopJoin, MeasureStart, MeasureRetry, MeasureEnd, MeasureGoto
<1>7. CASE ChainStep \/ UNCHANGED vars
    BY <1>1, <1>7 DEF ChainStep, ctrlVars, vars
<1> QED
    BY <1>2, <1>3, <1>4, <1>5, <1>6, <1>7 DEF Next

\* What is known of the record that races the completion of the chain is kept.
LEMMA RacingKeeps ==
    ASSUME ChainInv, ThreadInv, RacingInv, [Next]_vars
    PROVE  RacingInv'
<1> DEFINE End == {"completing", "waiting", "done"}
           Held == Len(items["ps"]) + Len(protected_queue["ps"])
           Allowed == IF racing THEN 1 ELSE 0
<1>seqs. items["ps"] \in Seq(Record) /\ protected_queue["ps"] \in Seq(Record)
    BY DEF ChainInv, ChainTypeOK, Subscriber
<1>len. Len(items["ps"]) \in Nat /\ Len(protected_queue["ps"]) \in Nat /\ Len(<<>>) = 0
    BY <1>seqs, LenProperties, EmptySeq
<1>lengths. Held \in Nat
    <2>1. \A i, q \in Nat : i + q \in Nat
        OBVIOUS
    <2> QED
        BY <1>len, <2>1
<1>bits. Allowed \in {0, 1} /\ InFlight \in {0, 1}
    BY DEF InFlight
<1>1. CASE WorkerNotify
    <2>1. /\ pc' = pc /\ completed' = completed /\ items' = items
          /\ Len(protected_queue'["ps"]) = Len(protected_queue["ps"]) + 1
        <3>1. [n |-> Len(sent["ps"]) + 1, file |-> frame.file] \in Record
            <4>1. frame.file \in BOOLEAN /\ Len(sent["ps"]) \in Nat
                BY LenProperties DEF ThreadInv, ChainInv, ChainTypeOK, Subscriber
            <4> QED
                BY <1>1, <4>1, ChainAssumption DEF WorkerNotify, NotifyRecord, Record
        <3>2. protected_queue'["ps"] =
                  Append(protected_queue["ps"], [n |-> Len(sent["ps"]) + 1, file |-> frame.file])
            BY <1>1 DEF WorkerNotify, NotifyRecord, Notify, Subscriber
        <3>3. Len(protected_queue'["ps"]) = Len(protected_queue["ps"]) + 1
            BY <1>seqs, <3>1, <3>2, AppendProperties
        <3> QED
            BY <1>1, <3>3 DEF WorkerNotify, NotifyRecord
    <2>2. InFlight = 1 /\ InFlight' = 0 /\ UNCHANGED <<server, reused, racing>>
        BY <1>1 DEF WorkerNotify, WorkerGoto, InFlight
    <2>3. Held' = Held + 1
        <3>1. \A i, q \in Nat : i + (q + 1) = (i + q) + 1
            OBVIOUS
        <3>2. Held' = Len(items["ps"]) + (Len(protected_queue["ps"]) + 1)
            BY <2>1
        <3> QED
            BY <1>len, <3>1, <3>2
    <2>4. Allowed' = Allowed
        BY <2>2
    <2>5. worker # "none" /\ ~(InFlight' = 1)
        BY <1>1, <2>2 DEF WorkerNotify, WorkerGoto
    <2> HIDE DEF Held, Allowed
    <2>6. Held' + InFlight' = Held + InFlight
        BY <1>lengths, <1>bits, <2>2, <2>3
    <2> QED
        BY <2>1, <2>2, <2>4, <2>5, <2>6 DEF RacingInv, Held, Allowed
<1>2. CASE StopComplete
    <2>1. /\ ~completed["ap"] /\ pc' = pc /\ server' = "await" /\ worker' = worker
          /\ racing' = (worker \notin {"none", "ended"})
        BY <1>2 DEF StopComplete, NotifyCompleted
    <2>2. pc'["ps"] \notin {"empty?", "completing", "waiting", "done"}
        BY <2>1 DEF RacingInv
    <2>3. InFlight' = 1 => worker \notin {"none", "ended"}
        BY <2>1 DEF InFlight
    <2>4. InFlight' = 1 => racing'
        BY <2>1, <2>3, Zenon
    <2> QED
        BY <2>1, <2>2, <2>4 DEF RacingInv
<1>3. CASE UNCHANGED chainVars
    <2>1. UNCHANGED <<pc, completed, items, protected_queue>>
        BY <1>3 DEF chainVars
    <2>2. ASSUME completed["ap"], ~reused'
          PROVE  /\ server' \in {"await", "join"} \/ worker' = "none"
                 /\ InFlight' = 1 => racing'
                 /\ pc["ps"] \in End => Held + InFlight' <= Allowed'
        <3>1. ~reused
            BY <2>2 DEF Next, StartRefused, StartThrows, StartOverThread, StartSpawn, WorkerStep,
                WorkerBegin, WorkerCheckIdle, WorkerCheckBusy, WorkerStart, WorkerDriverThrows,
                WorkerLoop, WorkerEnd, WorkerAcquired, WorkerThrows, WorkerNotify,
                WorkerStopCard, WorkerFinish, WorkerMoves, Stop, Measure, MeasureRefused,
                MeasureGoto, ServerStep, StopComplete, StopTwice, StopAwait, StopJoin,
                MeasureStart, MeasureRetry, MeasureEnd, ChainStep, ctrlVars, history, vars
        <3>2. /\ server' \in {"await", "join"} \/ worker' = "none"
              /\ worker' \in {"acquire", "notify"} => worker \in {"acquire", "notify"}
              /\ racing' = racing
            BY <2>1, <2>2, <3>1, NoNewRecord
        <3>3. InFlight \in {0, 1} /\ InFlight' \in {0, 1} /\ (InFlight' = 1 => InFlight = 1)
            BY <3>2 DEF InFlight
        <3>4. InFlight' = 1 => racing'
            BY <2>2, <3>1, <3>2, <3>3 DEF RacingInv
        <3>5. pc["ps"] \in End => Held + InFlight <= Allowed
            BY <2>2, <3>1 DEF RacingInv
        <3>6. Allowed' = Allowed
            BY <3>2
        <3> HIDE DEF Held, Allowed
        <3>7. pc["ps"] \in End => Held + InFlight' <= Allowed'
            <4>1. \A h \in Nat : \A a, x, y \in {0, 1} :
                      h + x <= a /\ (y = 1 => x = 1) => h + y <= a
                OBVIOUS
            <4> QED
                BY <1>lengths, <1>bits, <3>3, <3>5, <3>6, <4>1
        <3> QED
            BY <3>2, <3>4, <3>7
    <2> QED
        BY <2>1, <2>2 DEF RacingInv
<1>4. CASE ChainStep
    <2>1. UNCHANGED <<worker, server, reused, racing>> /\ InFlight' = InFlight
        BY <1>4 DEF ChainStep, ctrlVars, history, InFlight
    <2>2. /\ completed'["ap"] = completed["ap"]
          /\ pc'["ps"] = "empty?" => pc["ps"] = "empty?" \/ completed["ap"]
          /\ pc'["ps"] \in End =>
                 \/ pc["ps"] = "empty?" /\ items'["ps"] = <<>> /\ protected_queue'["ps"] = <<>>
                 \/ /\ pc["ps"] \in End
                    /\ items'["ps"] = items["ps"]
                    /\ protected_queue'["ps"] = protected_queue["ps"]
        BY <1>4, ThreadsEnd DEF ChainStep
    <2>3. ASSUME completed["ap"], ~reused, pc'["ps"] \in End
          PROVE  Held' + InFlight <= Allowed
        <3>1. CASE items'["ps"] = <<>> /\ protected_queue'["ps"] = <<>>
            BY <1>seqs, <2>3, <3>1 DEF RacingInv, InFlight
        <3>2. CASE pc["ps"] \in End /\ items'["ps"] = items["ps"]
                       /\ protected_queue'["ps"] = protected_queue["ps"]
            BY <2>3, <3>2 DEF RacingInv
        <3> QED
            BY <2>2, <2>3, <3>1, <3>2
    <2> QED
        BY <2>1, <2>2, <2>3 DEF RacingInv
<1>5. WorkerNotify \/ StopComplete \/ UNCHANGED chainVars \/ ChainStep
    BY DEF Next, StartRefused, StartThrows, StartOverThread, StartSpawn, WorkerStep,
        WorkerBegin, WorkerCheckIdle, WorkerCheckBusy, WorkerStart, WorkerDriverThrows,
        WorkerLoop, WorkerEnd, WorkerAcquired, WorkerThrows, WorkerStopCard, WorkerFinish,
        WorkerMoves, Stop, Measure, MeasureRefused, MeasureGoto, ServerStep, StopTwice,
        StopAwait, StopJoin, MeasureStart, MeasureRetry, MeasureEnd, vars
<1> QED
    BY <1>1, <1>2, <1>3, <1>4, <1>5

-----------------------------------------------------------------------------
(* The theorems *)

\* The invariants of the chain and of the controller are inductive together.
LEMMA NextPublisher ==
    ChainInv /\ PublisherInv /\ [Next]_vars => ChainInv' /\ PublisherInv'
<1> SUFFICES ASSUME ChainInv, PublisherInv, [Next]_vars PROVE ChainInv' /\ PublisherInv'
    OBVIOUS
<1>1. ThreadInv /\ StopInv /\ CardInv /\ AnnouncedInv /\ RacingInv
    BY DEF PublisherInv
<1>2. [ChainNext]_chainVars
    BY <1>1, StepOfChain DEF ThreadInv
<1>3. ChainInv'
    BY <1>2, NextChain
<1>4. AnnouncedInv' /\ RacingInv'
    BY <1>1, AnnouncedKeeps, RacingKeeps
<1>5. ThreadInv' /\ StopInv' /\ CardInv'
    <2>1. CASE ChainStep \/ UNCHANGED vars
        BY <1>1, <2>1 DEF ChainStep, vars, ctrlVars, flags, locals, device, commands, history,
            ThreadInv, StopInv, CardInv
    <2> QED
        BY <1>1, <2>1, StartKeeps, WorkerKeeps, ServerKeeps DEF Next
<1> QED
    BY <1>3, <1>4, <1>5 DEF PublisherInv

\* The invariant of the controller and its chain, for any number of commands,
\* records and frame lengths.
THEOREM PublisherInvariant == Spec => [](ChainInv /\ PublisherInv)
<1>1. Init => ChainInv
    BY InitChain DEF Init
<1> QED
    BY <1>1, InitPublisher, NextPublisher, PTL DEF Spec

\* The controller and the threads of acquirepublisher.cpp use the chain as
\* SubscriberChain allows: what is proved of the chain holds of the whole.
THEOREM PublisherImplementsChain == Spec => ChainSafety
<1>1. Init => ChainInit
    BY DEF Init
<1>2. PublisherInv /\ [Next]_vars => [ChainNext]_chainVars
    BY StepOfChain DEF PublisherInv, ThreadInv
<1> QED
    BY <1>1, <1>2, PublisherInvariant, PTL DEF Spec, ChainSafety

\* After a stop the thread publishes at most the record in hand, although the
\* flag is cleared by start() and read by a thread that may not have run yet.
THEOREM StopsTakeEffect == Spec => []StopTakesEffect
<1>1. PublisherInv => StopTakesEffect
    BY DEF PublisherInv, StopInv, StopTakesEffect
<1> QED
    BY <1>1, PublisherInvariant, PTL

\* The card is idle when no thread uses it, whatever order the measurement and
\* the acquisition thread took it in.
THEOREM CardComesToRest == Spec => []CardAtRest
<1>1. PublisherInv => CardAtRest
    BY DEF PublisherInv, CardInv, CardAtRest
<1> QED
    BY <1>1, PublisherInvariant, PTL

\* A client that reads "finished acquire" finds every frame published and
\* written (acquirepublisher.cpp:211).
THEOREM FinishedAcquireIsTrue == Spec => []FinishedAcquireMeansHandled
<1>1. PublisherInv /\ CompletedMeansHandled => FinishedAcquireMeansHandled
    BY DEF PublisherInv, AnnouncedInv, CompletedMeansHandled, FinishedAcquireMeansHandled
<1> QED
    BY <1>1, PublisherInvariant, PublisherImplementsChain, CompletionIsTrue, PTL

\* How long three sequences are together.
LEMMA ThreeLengths ==
    ASSUME NEW a \in Seq(Record), NEW b \in Seq(Record), NEW c \in Seq(Record)
    PROVE  Len(a \o b \o c) = Len(a) + Len(b) + Len(c)
<1> DEFINE d == a \o b
<1>1. d \in Seq(Record) /\ Len(d) = Len(a) + Len(b)
    BY ConcatProperties
<1> HIDE DEF d
<1>2. Len(d \o c) = Len(d) + Len(c)
    BY <1>1, ConcatProperties
<1> QED
    BY <1>1, <1>2 DEF d

\* Completing the chain before joining the thread (acquirepublisher.cpp:210)
\* costs at most the one record whose acquire() was under way.
THEOREM OneRecordAtMostIsLost == Spec => []OnlyTheRacingRecordIsLost
<1>1. ASSUME ChainInv, PublisherInv PROVE OnlyTheRacingRecordIsLost
    <2> DEFINE a == handled["ps"]
               b == items["ps"]
               c == protected_queue["ps"]
    <2>1. a \in Seq(Record) /\ b \in Seq(Record) /\ c \in Seq(Record) /\ a \o b \o c = sent["ps"]
        BY <1>1 DEF ChainInv, ChainTypeOK, InOrderExactlyOnce, Subscriber
    <2>2. pc["ps"] = "done" /\ ~reused => Len(b) + Len(c) + InFlight <= (IF racing THEN 1 ELSE 0)
        BY <1>1 DEF PublisherInv, RacingInv
    <2> HIDE DEF a, b, c
    <2>3. Len(a) \in Nat /\ Len(b) \in Nat /\ Len(c) \in Nat
        BY <2>1, LenProperties
    <2>4. Len(sent["ps"]) = Len(a) + Len(b) + Len(c)
        BY <2>1, ThreeLengths, SMTT(60)
    <2>5. pc["ps"] = "done" /\ ~reused => Len(sent["ps"]) - Len(a) <= (IF racing THEN 1 ELSE 0)
        BY <2>2, <2>3, <2>4 DEF InFlight
    <2> QED
        BY <2>5 DEF OnlyTheRacingRecordIsLost, a
<1> QED
    BY <1>1, PublisherInvariant, PTL

-----------------------------------------------------------------------------
(* The messages of a frame *)

\* Nothing is published at first.
LEMMA InitStatus == Init => StatusInv
  BY DEF Init, StatusInv, FinishedIsLast, Continuous

\* The indices of a sequence with one element more.
LEMMA Indices ==
    ASSUME NEW c \in Nat, NEW j \in 1..(c + 1), NEW k \in 1..(c + 1)
    PROVE  (k \in 1..c \/ k = c + 1) /\ (j < k => j \in 1..c)
  OBVIOUS

\* a is q with one element e more.
Grown(a, q, e) ==
    /\ \A k \in DOMAIN a : (k \in DOMAIN q /\ a[k] = q[k]) \/ a[k] = e
    /\ \A j, k \in DOMAIN a : j < k => j \in DOMAIN q /\ a[j] = q[j]

\* Append makes it so.
LEMMA AppendOrder ==
    ASSUME NEW S, NEW q \in Seq(S), NEW e \in S
    PROVE  Grown(Append(q, e), q, e)
<1> DEFINE a == Append(q, e)
<1> DEFINE c == Len(q)
<1>1. /\ c \in Nat /\ DOMAIN q = 1..c
      /\ a \in Seq(S) /\ Len(a) = c + 1
      /\ \A i \in 1..c : a[i] = q[i]
    BY AppendProperties, LenProperties
<1>2. DOMAIN a = 1..(c + 1)
    BY <1>1, LenProperties
<1>3. \A k \in DOMAIN a : (k \in DOMAIN q /\ a[k] = q[k]) \/ a[k] = e
    BY AppendIndices
<1> HIDE DEF a, c
<1>4. ASSUME NEW j \in DOMAIN a, NEW k \in DOMAIN a, j < k PROVE j \in DOMAIN q /\ a[j] = q[j]
    <2>1. j \in 1..(c + 1) /\ k \in 1..(c + 1)
        BY <1>2
    <2>2. j \in 1..c
        BY <2>1, <1>1, <1>4, Indices
    <2> QED
        BY <2>2, <1>1
<1> QED
    BY <1>3, <1>4 DEF Grown, a

Message == {"error", "finished", "finished acquire"} \X Nat

\* The kinds of messages, and the frame each one is of.
LEMMA MessageFields ==
    ASSUME AnnouncedInv
    PROVE  \A k \in DOMAIN status :
               status[k][1] \in {"error", "finished", "finished acquire"} /\ status[k][2] \in Nat
<1>1. status \in Seq(Message)
    BY DEF AnnouncedInv, Message
<1>2. ASSUME NEW k \in DOMAIN status PROVE status[k] \in Message
    BY <1>1, <1>2, LenProperties, ElementOfSeq
<1> QED
    BY <1>2 DEF Message

\* A message of frame n, when those before it of the frame are errors and, if
\* it is one itself, none.
LEMMA PublishStatus ==
    ASSUME AnnouncedInv, FinishedIsLast,
           NEW m \in {"error", "finished", "finished acquire"}, NEW n \in Nat,
           Publish(m, n),
           m = "error" => \A k \in DOMAIN status :
                              status[k][2] = n => status[k][1] = "finished acquire",
           m = "finished" => \A k \in DOMAIN status :
                                 status[k][2] = n => status[k][1] \in {"error", "finished acquire"}
    PROVE  /\ FinishedIsLast'
           /\ \A k \in DOMAIN status' :
                  (k \in DOMAIN status /\ status'[k] = status[k])
                      \/ (status'[k][1] = m /\ status'[k][2] = n)
<1> DEFINE e == <<m, n>>
<1>1. e \in Message /\ status \in Seq(Message) /\ status' = Append(status, e)
    BY DEF AnnouncedInv, Publish, Message
<1>2. e[1] = m /\ e[2] = n
    OBVIOUS
<1> HIDE DEF e
<1>3. /\ \A k \in DOMAIN status' : (k \in DOMAIN status /\ status'[k] = status[k]) \/ status'[k] = e
      /\ \A j, k \in DOMAIN status' : j < k => j \in DOMAIN status /\ status'[j] = status[j]
    <2>1. Grown(status', status, e)
        BY <1>1, AppendOrder, Zenon
    <2> QED
        BY <2>1 DEF Grown
<1>4. ASSUME NEW j \in DOMAIN status', NEW k \in DOMAIN status', j < k,
             status'[j][2] = status'[k][2],
             "finished acquire" \notin {status'[j][1], status'[k][1]}
      PROVE  status'[j][1] = "error" /\ status'[k][1] = "finished"
    <2>1. j \in DOMAIN status /\ status'[j] = status[j]
        BY <1>3, <1>4
    <2>2. CASE k \in DOMAIN status /\ status'[k] = status[k]
        BY <1>4, <2>1, <2>2 DEF FinishedIsLast
    <2>3. CASE status'[k] = e
        <3>1. status'[k][1] = m /\ status'[k][2] = n
            BY <1>2, <2>3
        <3>2. status[j][2] = n /\ status[j][1] # "finished acquire" /\ m # "finished acquire"
            BY <1>4, <2>1, <3>1
        <3>3. m # "error"
            BY <2>1, <3>2
        <3>4. m = "finished"
            BY <3>2, <3>3
        <3>5. status[j][1] = "error"
            BY <2>1, <3>2, <3>4
        <3> QED
            BY <2>1, <3>1, <3>4, <3>5
    <2> QED
        BY <1>3, <2>2, <2>3
<1>5. FinishedIsLast'
    BY <1>4 DEF FinishedIsLast
<1> QED
    BY <1>2, <1>3, <1>5

\* The numbers given so far are below the next.
LEMMA NextNumber ==
    ASSUME NEW c \in Nat
    PROVE  c + 1 \in Nat /\ \A n \in Nat : n <= c => n <= c + 1 /\ n # c + 1
  OBVIOUS

\* The number of a new frame is not in use yet.
LEMMA NewFrame ==
    ASSUME ThreadInv, AnnouncedInv, StatusInv
    PROVE  /\ starts \in Nat /\ frame.n \in Nat /\ starts + 1 \in Nat
           /\ frame.n <= starts + 1 /\ frame.n # starts + 1
           /\ \A k \in DOMAIN status : status[k][2] <= starts + 1 /\ status[k][2] # starts + 1
<1>1. starts \in Nat /\ frame.n \in Nat
    BY DEF ThreadInv
<1>2. starts + 1 \in Nat /\ \A n \in Nat : n <= starts => n <= starts + 1 /\ n # starts + 1
    BY <1>1, NextNumber
<1>3. frame.n <= starts /\ \A k \in DOMAIN status : status[k][2] <= starts
    BY DEF StatusInv
<1>4. \A k \in DOMAIN status : status[k][2] \in Nat
    BY MessageFields
<1> QED
    BY <1>1, <1>2, <1>3, <1>4, Zenon

\* A step that publishes nothing.
LEMMA SilentStatus ==
    ASSUME ThreadInv, AnnouncedInv, StatusInv, [Next]_vars,
           ~StartThrows, ~WorkerThrows, ~WorkerFinish, ~StopAwait
    PROVE  StatusInv'
<1> USE DEF flags, locals, device, commands, history
<1>1. CASE StartRefused \/ StartOverThread
    <2>1. /\ UNCHANGED <<status, worker, frame, has_errored>> /\ starts' = starts + 1
        BY <1>1 DEF StartRefused, StartOverThread
    <2>2. frame'.n <= starts' /\ \A k \in DOMAIN status' : status'[k][2] <= starts'
        BY <2>1, NewFrame, Zenon
    <2> QED
        BY <2>1, <2>2 DEF FinishedIsLast, StatusInv
<1>2. ASSUME NEW f \in Frame, StartSpawn(f) PROVE StatusInv'
    <2>1. /\ status' = status /\ worker' = "spawned" /\ frame' = f
          /\ starts' = starts + 1 /\ f.n = starts + 1
        BY <1>2 DEF StartSpawn
    <2>2. \A k \in DOMAIN status' : status'[k][2] <= starts' /\ status'[k][2] # frame'.n
        BY <2>1, NewFrame, Zenon
    <2>3. frame'.n <= starts'
        <3>1. starts + 1 \in Nat
            BY NewFrame
        <3> QED
            BY <2>1, <3>1
    <2> QED
        BY <2>1, <2>2, <2>3 DEF FinishedIsLast, StatusInv
<1>3. CASE WorkerStep
    <2>1. UNCHANGED <<status, starts, frame, has_errored>>
        BY <1>3 DEF WorkerStep, WorkerBegin, WorkerCheckIdle, WorkerCheckBusy, WorkerStart,
            WorkerDriverThrows, WorkerLoop, WorkerEnd, WorkerAcquired, WorkerNotify,
            WorkerStopCard, WorkerMoves
    <2>2. /\ worker \notin {"none", "ended"}
          /\ worker' = "acquire" => ~has_errored
          /\ worker' = "notify" => worker \in {"acquire", "notify"}
        BY <1>3 DEF WorkerStep, WorkerBegin, WorkerCheckIdle, WorkerCheckBusy, WorkerStart,
            WorkerDriverThrows, WorkerLoop, LoopEnds, WorkerEnd, WorkerAcquired, WorkerNotify,
            WorkerStopCard, WorkerMoves, WorkerGoto, StatusInv
    <2> QED
        BY <2>1, <2>2 DEF FinishedIsLast, StatusInv
<1>4. CASE (\E terminate \in BOOLEAN : Stop(terminate)) \/ Measure \/ MeasureRefused
                \/ ServerStep \/ ChainStep \/ UNCHANGED vars
    <2>1. UNCHANGED <<status, starts, frame, has_errored>> /\ worker' \in {worker, "none"}
        BY <1>4 DEF Stop, Measure, MeasureRefused, MeasureGoto, ServerStep, StopComplete,
            StopTwice, StopJoin, MeasureStart, MeasureRetry, MeasureEnd, ChainStep, ctrlVars, vars
    <2> QED
        BY <2>1 DEF FinishedIsLast, StatusInv
<1> QED
    BY <1>1, <1>2, <1>3, <1>4 DEF Next

\* What a message of the frame that is under way, or of the next, leaves true.
LEMMA MessageBelow ==
    ASSUME NEW c \in Nat, NEW n \in Nat, n <= c,
           \A k \in DOMAIN status : status[k][2] <= c,
           \A k \in DOMAIN status' :
               (k \in DOMAIN status /\ status'[k] = status[k]) \/ status'[k][2] = n
    PROVE  \A k \in DOMAIN status' : status'[k][2] <= c
  OBVIOUS

\* The order of the status messages is kept by every step.
LEMMA StatusKeeps ==
    ASSUME ThreadInv, AnnouncedInv, StatusInv, [Next]_vars
    PROVE  StatusInv'
<1>0. /\ starts \in Nat /\ frame.n \in Nat /\ FinishedIsLast /\ frame.n <= starts
      /\ \A k \in DOMAIN status : status[k][2] <= starts
    BY DEF ThreadInv, StatusInv
\* start() reports the frame it could not begin: nobody has spoken of it yet.
<1>1. CASE StartThrows
    <2>1. /\ Publish("error", starts + 1) /\ starts' = starts + 1
          /\ UNCHANGED <<worker, frame, has_errored>>
        BY <1>1 DEF StartThrows, locals
    <2> DEFINE new == starts + 1
    <2>2. /\ new \in Nat /\ frame.n <= new /\ frame.n # new
          /\ \A k \in DOMAIN status : status[k][2] <= new /\ status[k][2] # new
        BY NewFrame, Zenon
    <2>3. new <= new
        BY <2>2
    <2>4. Publish("error", new) /\ starts' = new
        BY <2>1
    <2> HIDE DEF new
    <2>5. /\ FinishedIsLast'
          /\ \A k \in DOMAIN status' :
                 (k \in DOMAIN status /\ status'[k] = status[k])
                     \/ (status'[k][1] = "error" /\ status'[k][2] = new)
        BY <1>0, <2>2, <2>4, PublishStatus
    <2>6. \A k \in DOMAIN status' : status'[k][2] <= new
        BY <2>2, <2>3, <2>5, MessageBelow
    <2>7. \A k \in DOMAIN status' :
              status'[k][2] = frame.n => k \in DOMAIN status /\ status'[k] = status[k]
        BY <2>2, <2>5
    <2> QED
        BY <2>1, <2>2, <2>4, <2>5, <2>6, <2>7 DEF StatusInv
\* The thread reports an error once, for the loop ends with it.
<1>2. CASE WorkerThrows
    <2>1. /\ Publish("error", frame.n) /\ worker = "acquire" /\ worker' = "loop"
          /\ has_errored' = TRUE /\ UNCHANGED <<starts, frame>> /\ ~has_errored
        BY <1>2 DEF WorkerThrows, WorkerGoto, commands, StatusInv
    <2>2. \A k \in DOMAIN status : status[k][2] = frame.n => status[k][1] = "finished acquire"
        BY <2>1 DEF StatusInv
    <2>3. /\ FinishedIsLast'
          /\ \A k \in DOMAIN status' :
                 (k \in DOMAIN status /\ status'[k] = status[k])
                     \/ (status'[k][1] = "error" /\ status'[k][2] = frame.n)
        BY <1>0, <2>1, <2>2, PublishStatus
    <2>4. \A k \in DOMAIN status' : status'[k][2] <= starts
        BY <1>0, <2>3, MessageBelow
    <2>5. \A k \in DOMAIN status' :
              status'[k][2] = frame.n /\ status'[k][1] # "finished acquire" => status'[k][1] = "error"
        BY <2>2, <2>3
    <2> QED
        BY <1>0, <2>1, <2>3, <2>4, <2>5 DEF StatusInv
\* The thread's last step.
<1>3. CASE WorkerFinish
    <2>1. /\ Publish("finished", frame.n) /\ worker = "finishing" /\ worker' = "ended"
          /\ UNCHANGED <<starts, frame>>
        BY <1>3 DEF WorkerFinish, WorkerGoto, commands, locals
    <2>2. \A k \in DOMAIN status :
              status[k][2] = frame.n => status[k][1] \in {"error", "finished acquire"}
        BY <2>1 DEF StatusInv
    <2>3. /\ FinishedIsLast'
          /\ \A k \in DOMAIN status' :
                 (k \in DOMAIN status /\ status'[k] = status[k])
                     \/ (status'[k][1] = "finished" /\ status'[k][2] = frame.n)
        BY <1>0, <2>1, <2>2, PublishStatus
    <2>4. \A k \in DOMAIN status' : status'[k][2] <= starts
        BY <1>0, <2>3, MessageBelow
    <2> QED
        BY <1>0, <2>1, <2>3, <2>4 DEF StatusInv
<1>4. CASE StopAwait
    <2>1. Publish("finished acquire", 0) /\ UNCHANGED <<worker, frame, has_errored, starts>>
        BY <1>4 DEF StopAwait, commands, locals
    <2>2. /\ FinishedIsLast'
          /\ \A k \in DOMAIN status' :
                 (k \in DOMAIN status /\ status'[k] = status[k])
                     \/ (status'[k][1] = "finished acquire" /\ status'[k][2] = 0)
        BY <1>0, <2>1, PublishStatus
    <2>3. \A k \in DOMAIN status' : status'[k][2] <= starts
        <3>1. 0 <= starts /\ 0 \in Nat
            BY <1>0
        <3> QED
            BY <1>0, <2>2, <3>1, MessageBelow
    <2>4. \A k \in DOMAIN status' :
              status'[k][1] # "finished acquire" => k \in DOMAIN status /\ status'[k] = status[k]
        BY <2>2
    <2> QED
        BY <2>1, <2>2, <2>3, <2>4 DEF StatusInv
<1> QED
    BY <1>1, <1>2, <1>3, <1>4, SilentStatus

\* A client that has read "finished" of a frame hears no more of it: a frame
\* that failed has said so before (acquirepublisher.cpp:141 and :176), and
\* each message is said once.
THEOREM FinishedComesLast == Spec => []FinishedIsLast
<1>1. ChainInv /\ PublisherInv /\ StatusInv /\ [Next]_vars => StatusInv'
    BY StatusKeeps DEF PublisherInv
<1>2. StatusInv => FinishedIsLast
    BY DEF StatusInv
<1> QED
    BY InitStatus, <1>1, <1>2, PublisherInvariant, PTL DEF Spec

=============================================================================
