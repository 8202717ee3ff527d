---------------------------- MODULE ServerProofs ----------------------------
(***************************************************************************)
(* The reply discipline of the server for payloads of any length over any  *)
(* set of words: ServerInv is an inductive invariant of Server.            *)
(***************************************************************************)
EXTENDS Server, SequenceTheorems, TLAPS

\* A payload is a sequence of words.
LEMMA PayloadIsSeq == \A p \in Payloads : p \in Seq(Words)
BY SeqDef, ServerAssumption DEF Payloads

\* What respond() does to the replies of the request in hand.
LEMMA RespondKeeps ==
    ASSUME replies \in Seq({"ok", "error"}), NEW r \in {"ok", "error"}, Respond(r)
    PROVE  /\ replies' \in Seq({"ok", "error"})
           /\ Len(replies') = Len(replies) + 1
           /\ responded_to_request' = TRUE /\ replies' # <<>>
           /\ DOMAIN replies = 1..Len(replies) /\ Len(replies) \in Nat
           /\ DOMAIN replies' = 1..(Len(replies) + 1)
           /\ replies'[Len(replies) + 1] = r
           /\ \A n \in DOMAIN replies : replies'[n] = replies[n]
<1>1. Len(replies) \in Nat /\ DOMAIN replies = 1..Len(replies)
    BY LenProperties
<1>2. replies' = Append(replies, r) /\ responded_to_request' = TRUE
    BY DEF Respond
<1>3. /\ replies' \in Seq({"ok", "error"})
      /\ Len(replies') = Len(replies) + 1
      /\ \A n \in 1..Len(replies) : replies'[n] = replies[n]
      /\ replies'[Len(replies) + 1] = r
    BY <1>2, AppendProperties
<1>4. DOMAIN replies' = 1..(Len(replies) + 1)
    BY <1>3, LenProperties
<1>5. replies' # <<>>
    BY <1>1, <1>3, EmptySeq
<1> QED
    BY <1>1, <1>2, <1>3, <1>4, <1>5

\* Before the first request.
LEMMA InitServer == Init => ServerInv
<1> SUFFICES ASSUME Init PROVE ServerInv
    OBVIOUS
<1>1. /\ \A S : <<>> \in Seq(S) /\ Len(<<>>) = 0
      /\ DOMAIN <<>> = 1..0
    BY EmptySeq, LenProperties
<1>2. payload = <<>> /\ replies = <<>> /\ pc = "poll" /\ k = 1
    BY DEF Init
<1>3. ~Conversational(payload)
    BY <1>1, <1>2 DEF Conversational
<1>4. ErrorIsNoSecondReply /\ ConversationIsAnsweredOnce
    BY <1>1, <1>2, <1>3 DEF ErrorIsNoSecondReply, ConversationIsAnsweredOnce
<1>5. responded_to_request \in BOOLEAN /\ (responded_to_request <=> replies # <<>>)
    BY DEF Init
<1>6. pc \in {"poll", "handle"} /\ pc # "handle" /\ k \in Nat \ {0}
    BY <1>2
<1>7. payload \in Seq(Words) /\ replies \in Seq({"ok", "error"})
    BY <1>1, <1>2
<1> QED
    BY <1>4, <1>5, <1>6, <1>7 DEF ServerInv

\* Every step of run() and of the handler keeps the invariant.
LEMMA NextServer == ServerInv /\ [Next]_vars => ServerInv'
<1> SUFFICES ASSUME ServerInv, [Next]_vars PROVE ServerInv'
    OBVIOUS
<1>0. /\ payload \in Seq(Words) /\ Len(payload) \in Nat /\ k \in Nat \ {0}
      /\ replies \in Seq({"ok", "error"}) /\ Len(replies) \in Nat
      /\ DOMAIN replies = 1..Len(replies)
      /\ replies = <<>> => Len(replies) = 0
      /\ responded_to_request \in BOOLEAN
      /\ responded_to_request <=> replies # <<>>
    BY LenProperties, EmptySeq DEF ServerInv
<1>a. pc = "handle" =>
          /\ \A n \in DOMAIN replies : replies[n] = "ok"
          /\ \A n \in 1..Len(payload) : CommandAt(payload, n) =>
                 \/ k <= n /\ replies = <<>>
                 \/ k > Len(payload) /\ Len(replies) = 1
    BY DEF ServerInv
<1>1. ASSUME NEW p \in Payloads, Receive(p) PROVE ServerInv'
    <2>1. /\ p \in Seq(Words) /\ <<>> \in Seq({"ok", "error"})
          /\ Len(<<>>) = 0 /\ DOMAIN <<>> = 1..0
        BY PayloadIsSeq, EmptySeq, LenProperties
    <2>2. /\ pc' = "handle" /\ payload' = p /\ k' = 1 /\ replies' = <<>>
          /\ responded_to_request' = FALSE
        BY <1>1 DEF Receive
    <2>3. ErrorIsNoSecondReply' /\ ConversationIsAnsweredOnce'
        BY <2>1, <2>2 DEF ErrorIsNoSecondReply, ConversationIsAnsweredOnce
    <2>4. \A n \in 1..Len(payload') : k' <= n
        BY <2>1, <2>2, LenProperties
    <2>5. responded_to_request' \in BOOLEAN /\ (responded_to_request' <=> replies' # <<>>)
        BY <2>2
    <2>6. pc' \in {"poll", "handle"} /\ k' \in Nat \ {0}
        BY <2>2
    <2>7. payload' \in Seq(Words) /\ replies' \in Seq({"ok", "error"})
        BY <2>1, <2>2
    <2>8. \A n \in DOMAIN replies' : replies'[n] = "ok"
        BY <2>1, <2>2
    <2> QED
        BY <2>2, <2>3, <2>4, <2>5, <2>6, <2>7, <2>8 DEF ServerInv
<1>2. CASE HandlerThrows
    <2>1. /\ pc = "handle" /\ pc' = "poll" /\ payload' = payload /\ k' = k
          /\ k <= Len(payload) /\ CanThrow
        BY <1>2 DEF HandlerThrows
    <2>2. CASE responded_to_request
        <3>1. UNCHANGED <<responded_to_request, replies>> /\ replies # <<>>
            BY <1>0, <1>2, <2>2 DEF HandlerThrows
        <3>2. \A n \in 1..Len(payload) : ~CommandAt(payload, n)
            BY <1>0, <1>a, <2>1, <3>1
        <3> QED
            BY <1>0, <1>a, <2>1, <3>1, <3>2
               DEF ServerInv, ErrorIsNoSecondReply, ConversationIsAnsweredOnce,
                   Conversational
    <2>3. CASE ~responded_to_request
        <3>1. Respond("error") /\ Len(replies) = 0
            BY <1>0, <1>2, <2>3 DEF HandlerThrows
        <3>2. /\ replies' \in Seq({"ok", "error"}) /\ Len(replies') = 1
              /\ responded_to_request' = TRUE /\ replies' # <<>>
            BY <1>0, <3>1, RespondKeeps
        <3> QED
            BY <1>0, <2>1, <3>2 DEF ServerInv, ErrorIsNoSecondReply,
                                    ConversationIsAnsweredOnce
    <2> QED
        BY <2>2, <2>3
<1>3. CASE HandlerReturns
    <2>1. /\ pc = "handle" /\ pc' = "poll" /\ k > Len(payload)
          /\ UNCHANGED <<payload, k, responded_to_request, replies>>
        BY <1>3 DEF HandlerReturns
    <2>2. \A n \in 1..Len(payload) : CommandAt(payload, n) => Len(replies) = 1
        BY <1>0, <1>a, <2>1
    <2> QED
        BY <1>0, <2>1, <2>2 DEF ServerInv, ErrorIsNoSecondReply,
                                ConversationIsAnsweredOnce, Conversational
<1>4. CASE HandleQuery
    <2>1. /\ pc = "handle" /\ pc' = "handle" /\ payload' = payload /\ k' = k + 1
          /\ k <= Len(payload) /\ payload[k] \in Query /\ Respond("ok")
        BY <1>4 DEF HandleQuery
    <2>2. /\ replies' \in Seq({"ok", "error"}) /\ Len(replies') = Len(replies) + 1
          /\ responded_to_request' = TRUE /\ replies' # <<>>
          /\ \A n \in DOMAIN replies' : replies'[n] = "ok"
        BY <1>0, <1>a, <2>1, RespondKeeps
    <2>3. ASSUME NEW n \in 1..Len(payload), CommandAt(payload, n)
          PROVE  k' > Len(payload) /\ Len(replies') = 1
        <3>1. k <= n /\ replies = <<>>
            BY <1>0, <1>a, <2>1, <2>3
        <3>2. k = n
            <4>1. payload[k] \notin Ignored
                BY <2>1 DEF Query, Ignored
            <4>2. \A j \in 1..(n - 1) : payload[j] \in Ignored
                BY <2>3 DEF CommandAt
            <4> QED
                BY <1>0, <3>1, <4>1, <4>2
        <3>3. n = Len(payload)
            BY <2>1, <2>3, <3>2 DEF CommandAt, Query, Final
        <3> QED
            BY <1>0, <2>1, <2>2, <3>1, <3>2, <3>3
    <2> QED
        BY <1>0, <2>1, <2>2, <2>3 DEF ServerInv, ErrorIsNoSecondReply,
                                      ConversationIsAnsweredOnce
<1>5. CASE HandleIgnored
    <2>1. /\ pc = "handle" /\ pc' = "handle" /\ payload' = payload /\ k' = k + 1
          /\ k <= Len(payload)
          /\ payload[k] \in Ignored \/ payload[k] \notin Command
          /\ UNCHANGED <<responded_to_request, replies>>
        BY <1>5 DEF HandleIgnored
    <2>2. ASSUME NEW n \in 1..Len(payload), CommandAt(payload, n)
          PROVE  k' <= n /\ replies' = <<>>
        <3>1. k <= n /\ replies = <<>>
            BY <1>0, <1>a, <2>1, <2>2
        <3>2. k # n
            BY <2>1, <2>2 DEF CommandAt, Query, Ignored, Final, Command
        <3> QED
            BY <1>0, <2>1, <3>1, <3>2
    <2> QED
        BY <1>0, <1>a, <2>1, <2>2 DEF ServerInv, ErrorIsNoSecondReply,
                                      ConversationIsAnsweredOnce
<1>6. CASE HandleFinal
    <2>1. /\ pc = "handle" /\ pc' = "poll" /\ payload' = payload /\ k' = k
          /\ k <= Len(payload) /\ Respond("ok")
        BY <1>6 DEF HandleFinal
    <2>2. /\ replies' \in Seq({"ok", "error"}) /\ Len(replies') = Len(replies) + 1
          /\ responded_to_request' = TRUE /\ replies' # <<>>
          /\ \A n \in DOMAIN replies' : replies'[n] = "ok"
        BY <1>0, <1>a, <2>1, RespondKeeps
    <2>3. ASSUME NEW n \in 1..Len(payload), CommandAt(payload, n)
          PROVE  Len(replies') = 1
        BY <1>0, <1>a, <2>1, <2>2, <2>3
    <2> QED
        BY <1>0, <2>1, <2>2, <2>3 DEF ServerInv, ErrorIsNoSecondReply,
                                      ConversationIsAnsweredOnce, Conversational
<1>7. CASE HandleSilent
    <2>1. /\ pc = "handle" /\ pc' = "poll" /\ k <= Len(payload)
          /\ payload[k] = "reset timestamps" \/ (payload[k] = "stop" /\ Len(payload) # 2)
          /\ UNCHANGED <<payload, k, responded_to_request, replies>>
        BY <1>7 DEF HandleSilent
    <2>2. \A n \in 1..Len(payload) : ~CommandAt(payload, n)
        <3>1. ASSUME NEW n \in 1..Len(payload), CommandAt(payload, n) PROVE FALSE
            <4>1. k <= n
                <5>1. (k <= n /\ replies = <<>>) \/ (k > Len(payload) /\ Len(replies) = 1)
                    BY <1>a, <2>1, <3>1
                <5>2. k \in Nat /\ Len(payload) \in Nat
                    BY <1>0
                <5>3. ~(k > Len(payload))
                    <6>1. k <= Len(payload)
                        BY <2>1
                    <6> QED
                        BY <5>2, <6>1
                <5> QED
                    BY <5>1, <5>3
            <4>2. payload[k] \notin Ignored
                BY <2>1 DEF Ignored
            <4>3. \A j \in 1..(n - 1) : payload[j] \in Ignored
                BY <3>1 DEF CommandAt
            <4>4. k = n
                BY <1>0, <4>1, <4>2, <4>3
            <4> QED
                BY <2>1, <3>1, <4>4 DEF CommandAt, Query, Final
        <3> QED
            BY <3>1
    <2> QED
        BY <1>0, <2>1, <2>2 DEF ServerInv, ErrorIsNoSecondReply,
                                ConversationIsAnsweredOnce, Conversational
<1>8. CASE UNCHANGED vars
    BY <1>0, <1>8 DEF vars, ServerInv, ErrorIsNoSecondReply,
                      ConversationIsAnsweredOnce
<1> QED
    BY <1>1, <1>2, <1>3, <1>4, <1>5, <1>6, <1>7, <1>8 DEF Next

\* The invariant of the server, for every set of words and length of payload.
THEOREM ServerInvariant == Spec => []ServerInv
BY InitServer, NextServer, PTL DEF Spec

\* A request with one command (aqmd3_console.cpp) gets exactly one reply from
\* Server::run or the handler, also when the command throws.
THEOREM AnsweredOnce == Spec => []ConversationIsAnsweredOnce
<1>1. ServerInv => ConversationIsAnsweredOnce
    BY DEF ServerInv
<1> QED
    BY <1>1, ServerInvariant, PTL

\* The error reply of Server::run is the only reply to its request.
THEOREM ErrorsStandAlone == Spec => []ErrorIsNoSecondReply
<1>1. ServerInv => ErrorIsNoSecondReply
    BY DEF ServerInv
<1> QED
    BY <1>1, ServerInvariant, PTL

=============================================================================
