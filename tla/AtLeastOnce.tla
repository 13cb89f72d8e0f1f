------------------------------ MODULE AtLeastOnce ------------------------------
(***************************************************************************)
(* What a hand-over of records promises when a record may be handed over    *)
(* more than once but never zero times: it leaves the sender's hands only   *)
(* after the receiver has it.  The outbox implements it.                    *)
(***************************************************************************)
CONSTANT Record

VARIABLES pending,   \* records the sender is still responsible for
          received   \* records the receiver has

Init == pending = {} /\ received = {}

\* The sender becomes responsible for records, all at once or not at all.
Accept ==
    /\ pending \subseteq pending'
    /\ pending' \subseteq Record
    /\ UNCHANGED received

\* Handing over does not release the record: the receiver's answer may be lost.
HandOver ==
    /\ \E record \in pending : received' = received \cup {record}
    /\ UNCHANGED pending

Release ==
    /\ pending' \subseteq pending
    /\ pending \ pending' \subseteq received
    /\ UNCHANGED received

Next == Accept \/ HandOver \/ Release

Spec == Init /\ [][Next]_<<pending, received>>
===============================================================================
