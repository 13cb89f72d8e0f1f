---------------------------- MODULE BrokerPublisher ----------------------------
(***************************************************************************)
(* RabbitBroker.Publish, through which the proxy's admin API publishes: a   *)
(* failed attempt reconnects and is retried once, and a caller that gave up *)
(* takes the channel with it.  When reconnecting fails the old channel      *)
(* stays the publisher's.                                                   *)
(***************************************************************************)
EXTENDS Confirms

VARIABLE kept  \* history: channels an attempt failed on and that were kept

vars == <<channels, pub, call, stored, confirmed, kept>>

Publish(m) ==
    /\ call.pc = "idle"
    /\ call' = [pc |-> "publish", msg |-> m, attempt |-> 0]
    /\ UNCHANGED <<channels, pub, stored, confirmed, kept>>

\* Mutation of GiveUp: the caller leaves the channel to the next one.
GiveUpKeepsChannel ==
    /\ call.pc = "failed"
    /\ call' = NoCall
    /\ UNCHANGED <<channels, pub, stored, confirmed, kept>>

\* The caller's context has ended: discardPublisher.
GiveUp ==
    /\ call.pc = "failed"
    /\ channels' = Closed(pub)
    /\ pub' = 0
    /\ call' = NoCall
    /\ UNCHANGED <<stored, confirmed, kept>>

\* The second failure reconnects too, then returns.
ReconnectPublisher ==
    /\ call.pc = "failed"
    /\ Len(channels) < MaxChannels
    /\ channels' = Append(Closed(pub), NewChannel)
    /\ pub' = Len(channels) + 1
    /\ call' = IF call.attempt = 0 THEN [call EXCEPT !.pc = "publish", !.attempt = 1] ELSE NoCall
    /\ UNCHANGED <<stored, confirmed, kept>>

ReconnectFails ==
    /\ call.pc = "failed"
    /\ call' = NoCall
    /\ kept' = kept \cup {pub}
    /\ UNCHANGED <<channels, pub, stored, confirmed>>

Close ==
    /\ call.pc = "idle"
    /\ pub # 0
    /\ channels' = Closed(pub)
    /\ pub' = 0
    /\ UNCHANGED <<call, stored, confirmed, kept>>

Init == InitConfirms /\ kept = {}

Next ==
    \/ \E m \in Messages : Publish(m)
    \/ (PublishConfirmed \/ Environment) /\ UNCHANGED kept
    \/ GiveUp
    \/ ReconnectPublisher
    \/ ReconnectFails
    \/ Close

Spec == Init /\ [][Next]_vars

-------------------------------------------------------------------------------
\* Publish returns nil only for a message the server has, unless an earlier
\* call failed on the channel, could not reconnect and left it in place.
NilMeansStoredOnFreshChannel ==
    [][\A m \in confirmed' \ confirmed : m \in stored \/ pub \in kept]_vars
===============================================================================
