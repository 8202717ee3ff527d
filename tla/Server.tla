------------------------------- MODULE Server -------------------------------
(***************************************************************************)
(* The command socket: Server::run (server.cpp), which hands every request *)
(* to the handler of aqmd3_console.cpp and answers for it when it throws.  *)
(*                                                                         *)
(* A request is a payload of words.  The handler goes through the words    *)
(* and does what each of them commands; arguments are words of the payload *)
(* too, and are looked at as commands when the loop gets to them.  What    *)
(* counts here is whether a word replies, goes on, returns or throws; the  *)
(* work of the commands is the subject of the other modules.               *)
(***************************************************************************)
EXTENDS Naturals, Sequences

CONSTANTS
    Words,          \* the words a payload is made of
    MaxPayload      \* bound: words in a payload

ASSUME ServerAssumption == MaxPayload \in Nat

VARIABLES
    pc,                     \* "poll", or "handle" while the handler runs
    payload,                \* the request now or last in hand
    k,                      \* the word the handler's loop is at
    responded_to_request,
    replies                 \* history: the replies to that request

vars == <<pc, payload, k, responded_to_request, replies>>

\* Words that reply and leave the loop to go on to the next word.
Query == {"info", "firmware", "serial", "init"}

\* Words that are skipped with a continue.
Ignored == {"trig class", "trig source", "mode", "config digitizer",
            "post samples", "pre samples"}

\* Words that reply and return.
Final == {"num instruments", "horizontal", "vertical", "setup array",
          "acquire frame", "acquire", "tof width", "invert",
          "enable io port", "disable io port"}

\* Words of Final that act on the one argument of a payload of two words.
WithArgument == {"horizontal", "vertical", "acquire frame", "invert",
                 "enable io port", "disable io port"}

Command == Query \cup Ignored \cup Final \cup {"stop", "reset timestamps"}

Init ==
    /\ pc = "poll"
    /\ payload = <<>>
    /\ k = 1
    /\ responded_to_request = FALSE
    /\ replies = <<>>

-----------------------------------------------------------------------------
(* Server::run *)

\* Mutant of Receive: the flag is not cleared before the handler is called.
ReceiveKeepsFlag(p) ==
    /\ pc = "poll"
    /\ pc' = "handle"
    /\ payload' = p
    /\ k' = 1
    /\ replies' = <<>>
    /\ UNCHANGED responded_to_request

\* A request is received, the flag cleared and the handler called.
Receive(p) ==
    /\ pc = "poll"
    /\ pc' = "handle"
    /\ payload' = p
    /\ k' = 1
    /\ responded_to_request' = FALSE
    /\ replies' = <<>>

\* respond() and respond_more(): one reply, of one frame or of several.
Respond(reply) ==
    /\ responded_to_request' = TRUE
    /\ replies' = Append(replies, reply)

\* The word at hand can throw before it replies, in a driver call or in the
\* conversion of its argument; what "stop" throws is caught within the command.
CanThrow ==
    \/ payload[k] \in {"init", "acquire", "tof width"}
    \/ payload[k] \in WithArgument /\ Len(payload) = 2

\* Mutant of HandlerThrows: the error is sent whatever went out before.
HandlerThrowsAlways ==
    /\ pc = "handle" /\ k <= Len(payload)
    /\ CanThrow
    /\ pc' = "poll"
    /\ Respond("error")
    /\ UNCHANGED <<payload, k>>

\* The word at hand throws: an error is sent if nothing was sent before.
HandlerThrows ==
    /\ pc = "handle" /\ k <= Len(payload)
    /\ CanThrow
    /\ pc' = "poll"
    /\ IF responded_to_request
          THEN UNCHANGED <<responded_to_request, replies>>
          ELSE Respond("error")
    /\ UNCHANGED <<payload, k>>

\* The loop has run out of words.
HandlerReturns ==
    /\ pc = "handle" /\ k > Len(payload)
    /\ pc' = "poll"
    /\ UNCHANGED <<payload, k, responded_to_request, replies>>

-----------------------------------------------------------------------------
(* The handler *)

\* A word that replies and goes on.
HandleQuery ==
    /\ pc = "handle" /\ k <= Len(payload)
    /\ payload[k] \in Query
    /\ Respond("ok")
    /\ k' = k + 1
    /\ UNCHANGED <<pc, payload>>

\* A word that is skipped, or is no command.
HandleIgnored ==
    /\ pc = "handle" /\ k <= Len(payload)
    /\ payload[k] \in Ignored \/ payload[k] \notin Command
    /\ k' = k + 1
    /\ UNCHANGED <<pc, payload, responded_to_request, replies>>

\* A word that replies and returns; "stop" does with its one argument.
HandleFinal ==
    /\ pc = "handle" /\ k <= Len(payload)
    /\ payload[k] \in Final \/ (payload[k] = "stop" /\ Len(payload) = 2)
    /\ Respond("ok")
    /\ pc' = "poll"
    /\ UNCHANGED <<payload, k>>

\* A word that returns without a reply.
HandleSilent ==
    /\ pc = "handle" /\ k <= Len(payload)
    /\ payload[k] = "reset timestamps" \/ (payload[k] = "stop" /\ Len(payload) # 2)
    /\ pc' = "poll"
    /\ UNCHANGED <<payload, k, responded_to_request, replies>>

Payloads == UNION {[1..n -> Words] : n \in 1..MaxPayload}

Next ==
    \/ \E p \in Payloads : Receive(p)
    \/ HandlerThrows
    \/ HandlerReturns
    \/ HandleQuery
    \/ HandleIgnored
    \/ HandleFinal
    \/ HandleSilent

Spec == Init /\ [][Next]_vars

-----------------------------------------------------------------------------
(* Properties *)

\* The n-th word of a payload is its one command: words that are skipped, such
\* as those of the block that "setup array" ends, come before it, and after it
\* only the arguments of a command that returns.
CommandAt(p, n) ==
    /\ \A j \in 1..(n - 1) : p[j] \in Ignored
    /\ \/ p[n] \in Final
       \/ p[n] \in Query /\ n = Len(p)
       \/ p[n] = "stop" /\ Len(p) = 2

\* A payload as the clients send them.
Conversational(p) == \E n \in 1..Len(p) : CommandAt(p, n)

\* Such a request is answered, exactly once, whether its command throws or
\* not and whatever the requests before it left behind.
ConversationIsAnsweredOnce ==
    pc = "poll" /\ Conversational(payload) => Len(replies) = 1

\* server.h:84: the error reply of run() is never a second reply, also when a
\* payload has replied for one word and throws in a later one.
ErrorIsNoSecondReply ==
    (\E n \in DOMAIN replies : replies[n] = "error") => Len(replies) = 1

\* Why the first two hold: the flag is the truth about the request in hand, an
\* error ends the handler's run, and a conversational payload has had no reply
\* before its command and one after it.
ServerInv ==
    /\ pc \in {"poll", "handle"}
    /\ payload \in Seq(Words)
    /\ k \in Nat \ {0}
    /\ responded_to_request \in BOOLEAN
    /\ replies \in Seq({"ok", "error"})
    /\ responded_to_request <=> replies # <<>>
    /\ ErrorIsNoSecondReply
    /\ pc = "handle" => \A n \in DOMAIN replies : replies[n] = "ok"
    /\ ConversationIsAnsweredOnce
    /\ pc = "handle" => \A n \in 1..Len(payload) : CommandAt(payload, n) =>
           \/ k <= n /\ replies = <<>>
           \/ k > Len(payload) /\ Len(replies) = 1

=============================================================================
