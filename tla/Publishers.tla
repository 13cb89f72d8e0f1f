------------------------------ MODULE Publishers ------------------------------
(* The two users of Confirms, side by side: a behaviour is one of the relay's *)
(* publisher or one of the proxy's.                                           *)
EXTENDS Confirms

VARIABLES
    kept,      \* channels the proxy's publisher failed on and kept
    publisher  \* whose behaviour it is

Relay  == INSTANCE RelayPublisher
Broker == INSTANCE BrokerPublisher

vars == <<Broker!vars, publisher>>

Init == Broker!Init /\ publisher \in {"relay", "broker"}

Next ==
    /\ \/ publisher = "relay" /\ Relay!Next /\ UNCHANGED kept
       \/ publisher = "broker" /\ Broker!Next
    /\ UNCHANGED publisher

Spec == Init /\ [][Next]_vars

-------------------------------------------------------------------------------
\* The relay's nil is never early: RabbitPublisher.Publish returns it only for a
\* message the server has, whatever confirms came late, were lost or negative.
RelayNilMeansStored == publisher = "relay" => NilMeansStored

\* Nor is the nil of RabbitBroker.Publish, but on a channel that a failed
\* reconnect had left in place.
NilMeansStoredOnFreshChannel == Broker!NilMeansStoredOnFreshChannel
===============================================================================
