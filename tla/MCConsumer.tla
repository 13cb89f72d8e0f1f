------------------------------ MODULE MCConsumer ------------------------------
(* Small instances of Consumer. *)
EXTENDS Consumer, TLC

CONSTANTS t1, t2, a, b, c

\* Two versions of a tag and a purge without a version.
MCInbox == { [id |-> a, tags |-> <<t1>>,     keys |-> <<>>, version |-> 1],
             [id |-> b, tags |-> <<t1, t2>>, keys |-> <<>>, version |-> 2],
             [id |-> c, tags |-> <<t2>>,     keys |-> <<>>, version |-> 0] }

MCInboxSmall == { e \in MCInbox : e.id # c }
===============================================================================
