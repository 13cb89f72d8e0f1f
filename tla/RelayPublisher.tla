---------------------------- MODULE RelayPublisher ----------------------------
(***************************************************************************)
(* RabbitPublisher, through which the outbox relay publishes: no retry, and *)
(* after any failure the channel is closed and the next call opens one.     *)
(***************************************************************************)
EXTENDS Confirms

vars == <<channels, pub, call, stored, confirmed>>

Publish(m) ==
    /\ call.pc = "idle"
    /\ call' = [pc |-> IF pub = 0 THEN "open" ELSE "publish", msg |-> m, attempt |-> 0]
    /\ UNCHANGED <<channels, pub, stored, confirmed>>

OpenLocked ==
    /\ call.pc = "open"
    /\ Len(channels) < MaxChannels
    /\ channels' = Append(channels, NewChannel)
    /\ pub' = Len(channels) + 1
    /\ call' = [call EXCEPT !.pc = "publish"]
    /\ UNCHANGED <<stored, confirmed>>

OpenFails ==
    /\ call.pc = "open"
    /\ call' = NoCall
    /\ UNCHANGED <<channels, pub, stored, confirmed>>

\* Mutation of PublishFails: the channel stays.
PublishFailsKeepsChannel ==
    /\ call.pc = "failed"
    /\ call' = NoCall
    /\ UNCHANGED <<channels, pub, stored, confirmed>>

PublishFails ==
    /\ call.pc = "failed"
    /\ channels' = Closed(pub)
    /\ pub' = 0
    /\ call' = NoCall
    /\ UNCHANGED <<stored, confirmed>>

\* It waits for the call under way.
Close ==
    /\ call.pc = "idle"
    /\ pub # 0
    /\ channels' = Closed(pub)
    /\ pub' = 0
    /\ UNCHANGED <<call, stored, confirmed>>

Init == InitConfirms

Next ==
    \/ \E m \in Messages : Publish(m)
    \/ OpenLocked
    \/ OpenFails
    \/ PublishConfirmed
    \/ PublishFails
    \/ Close
    \/ Environment

Spec == Init /\ [][Next]_vars
===============================================================================
