------------------------------- MODULE Confirms -------------------------------
(***************************************************************************)
(* Publishing with confirms over AMQP channels, shared by the proxy's       *)
(* RabbitBroker and the upstream's RabbitPublisher (publishConfirmed in     *)
(* internal/events/events.go).  Both publish one message at a time under a  *)
(* mutex, so there is a single call under way.                              *)
(*                                                                          *)
(* The RabbitMQ server is modelled from what the code relies on: it answers *)
(* the messages of a channel in order, with a positive answer only for what *)
(* it stored; a channel can die at any time, and what was written to it     *)
(* before may or may not still be stored.  publishConfirmed takes the next  *)
(* answer of its channel and never looks at which message it is for: an     *)
(* answer carries its message here only so that properties can ask.         *)
(***************************************************************************)
EXTENDS Integers, Sequences

CONSTANTS Messages,    \* events, by event_id
          MaxChannels, \* bound on the channels opened
          MaxUnread,   \* bound on the messages and answers a channel carries
          None

ASSUME ConfirmsAssumption ==
    MaxChannels \in Nat /\ MaxUnread \in Nat /\ None \notin Messages

VARIABLES
    channels,  \* the channels opened so far, newest last
    pub,       \* the publisher's channel, 0 when it has none
    call,      \* the Publish under way
    stored,    \* history: messages the server has stored
    confirmed  \* history: messages whose Publish returned nil

Answer  == [msg : Messages, ack : BOOLEAN]
Channel == [alive : BOOLEAN, inflight : Seq(Messages), answers : Seq(Answer)]

NewChannel == [alive |-> TRUE, inflight |-> <<>>, answers |-> <<>>]

NoCall == [pc |-> "idle", msg |-> None, attempt |-> 0]

\* ch.Close() and conn.Close(): nobody reads its answers any more, but what was
\* already written stays on its way.
Closed(i) ==
    IF i = 0 THEN channels
    ELSE [channels EXCEPT ![i].alive = FALSE, ![i].answers = <<>>]

-------------------------------------------------------------------------------
(* publishConfirmed. *)

PublisherOpen == pub # 0 /\ channels[pub].alive

Send ==
    /\ call.pc = "publish"
    /\ PublisherOpen
    /\ Len(channels[pub].inflight) + Len(channels[pub].answers) < MaxUnread
    /\ channels' = [channels EXCEPT ![pub].inflight = Append(@, call.msg)]
    /\ call' = [call EXCEPT !.pc = "wait"]
    /\ UNCHANGED <<pub, stored, confirmed>>

SendFails ==
    /\ call.pc = "publish"
    /\ ~PublisherOpen
    /\ call' = [call EXCEPT !.pc = "failed"]
    /\ UNCHANGED <<channels, pub, stored, confirmed>>

\* The select takes whatever is ready: an answer of the channel ...
TakeAnswer ==
    /\ call.pc = "wait"
    /\ channels[pub].answers # <<>>
    /\ channels' = [channels EXCEPT ![pub].answers = Tail(@)]
    /\ IF Head(channels[pub].answers).ack
       THEN /\ confirmed' = confirmed \cup {call.msg}
            /\ call' = NoCall
       ELSE /\ call' = [call EXCEPT !.pc = "failed"]
            /\ UNCHANGED confirmed
    /\ UNCHANGED <<pub, stored>>

\* ... the end of the channel, the confirm timeout or the caller's deadline.
StopWaiting ==
    /\ call.pc = "wait"
    /\ call' = [call EXCEPT !.pc = "failed"]
    /\ UNCHANGED <<channels, pub, stored, confirmed>>

PublishConfirmed == Send \/ SendFails \/ TakeAnswer \/ StopWaiting

-------------------------------------------------------------------------------
(* The server and the network. *)

\* The answer of a channel the client closed has nowhere to go.
Answered(i, ack) ==
    LET c == channels[i]
        m == Head(c.inflight)
    IN  [channels EXCEPT ![i].inflight = Tail(c.inflight),
                         ![i].answers = IF c.alive
                                        THEN Append(c.answers, [msg |-> m, ack |-> ack])
                                        ELSE c.answers]

ServerStores(i) ==
    /\ channels[i].inflight # <<>>
    /\ stored' = stored \cup {Head(channels[i].inflight)}
    /\ channels' = Answered(i, TRUE)
    /\ UNCHANGED <<pub, call, confirmed>>

ServerRejects(i) ==
    /\ channels[i].inflight # <<>>
    /\ channels' = Answered(i, FALSE)
    /\ UNCHANGED <<pub, call, stored, confirmed>>

\* The channel dies.  Messages on their way may be lost with it, answers that
\* already reached the client are not.
Drop(i) ==
    /\ channels[i].alive
    /\ \E rest \in {channels[i].inflight, <<>>} :
          channels' = [channels EXCEPT ![i].alive = FALSE, ![i].inflight = rest]
    /\ UNCHANGED <<pub, call, stored, confirmed>>

Environment ==
    \E i \in DOMAIN channels : ServerStores(i) \/ ServerRejects(i) \/ Drop(i)

-------------------------------------------------------------------------------
\* The constructor opens the first channel.
InitConfirms ==
    /\ channels = <<NewChannel>>
    /\ pub = 1
    /\ call = NoCall
    /\ stored = {}
    /\ confirmed = {}

CallState == [pc : {"idle", "open", "publish", "wait", "failed"},
              msg : Messages \cup {None}, attempt : 0..1]

ConfirmsTypeOK ==
    /\ channels \in Seq(Channel)
    /\ pub \in 0..Len(channels)
    /\ call \in CallState
    /\ stored \in SUBSET Messages
    /\ confirmed \in SUBSET Messages

\* Publish returns nil only for a message the server has: an answer that comes
\* late is never counted for a later message.
NilMeansStored == confirmed \subseteq stored
===============================================================================
