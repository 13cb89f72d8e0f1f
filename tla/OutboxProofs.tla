----------------------------- MODULE OutboxProofs -----------------------------
(***************************************************************************)
(* Outbox, for every number of books, processes, requests and failures: the *)
(* broker has, or the outbox still holds, the invalidation of every         *)
(* committed update; the broker has no other; only failures repeat a row; the *)
(* outbox implements AtLeastOnce; and versions are announced in order, but  *)
(* for rows that another relay held.                                        *)
(*                                                                          *)
(* The invariant follows a row through its life.  An open update holds the  *)
(* only row for its book, one version ahead of the committed one (PutInv),  *)
(* which ties versions and rows together when it commits (DataInv).  From   *)
(* then on a relay counts a row as done only if the broker has it, and only *)
(* such rows leave the outbox (RelayInv).                                   *)
(***************************************************************************)
EXTENDS Outbox, FiniteSetTheorems, TLAPS

\* Open updates hold different books, and one row per book, of the next version.
PutInv ==
    /\ \A p \in Requests : put[p].pc # "open" => put[p].rows = {}
    /\ \A p \in Requests : \A row \in put[p].rows :
          row.tag \in Books => row.version = version[row.tag] + 1
    /\ \A p, q \in Requests : \A row \in put[p].rows, other \in put[q].rows :
          row.tag \in Books /\ row.tag = other.tag => p = q

\* Committed rows are those of the committed versions.
DataInv ==
    /\ \A b \in Books : \A v \in 1..version[b] :
          \E row \in committed : row.tag = b /\ row.version = v
    /\ \A row \in committed : row.tag \in Books => row.version <= version[row.tag]

RelayInv ==
    /\ outbox \subseteq committed
    /\ SentRows \subseteq committed
    /\ committed \subseteq outbox \cup SentRows
    /\ \A n \in Nodes : relay[n].todo \subseteq committed /\ relay[n].done \subseteq SentRows

IInv == TypeOK /\ PutInv /\ DataInv /\ RelayInv

-------------------------------------------------------------------------------
(* Appending a row adds it to the rows sent. *)
LEMMA AppendSent ==
    ASSUME sent \in Seq(Row), NEW row \in Row, sent' = Append(sent, row)
    PROVE  sent' \in Seq(Row) /\ SentRows' = SentRows \cup {row}
<1>1. sent' \in Seq(Row) /\ Len(sent') = Len(sent) + 1 /\ Len(sent) \in Nat
    OBVIOUS
<1>2. /\ \A i \in 1..Len(sent) : sent'[i] = sent[i]
      /\ sent'[Len(sent) + 1] = row
    OBVIOUS
<1>3. DOMAIN sent = 1..Len(sent) /\ DOMAIN sent' = 1..(Len(sent) + 1)
    BY <1>1
<1>4. SentRows' \subseteq SentRows \cup {row}
    BY <1>1, <1>2, <1>3 DEF SentRows
<1>5. SentRows \subseteq SentRows'
    BY <1>1, <1>2, <1>3 DEF SentRows
<1>6. row \in SentRows'
    BY <1>1, <1>2, <1>3 DEF SentRows
<1>. QED  BY <1>1, <1>4, <1>5, <1>6

LEMMA InitIInv == Init => IInv
<1>. SUFFICES ASSUME Init PROVE IInv
    OBVIOUS
<1>1. SentRows = {}
    BY DEF Init, SentRows
<1>2. TypeOK
    BY DEF Init, TypeOK, NoPut, Relay, PutState, RelayState
<1>3. PutInv /\ DataInv /\ RelayInv
    BY <1>1 DEF Init, PutInv, DataInv, RelayInv, NoPut, Relay
<1>. QED  BY <1>2, <1>3 DEF IInv

-------------------------------------------------------------------------------
(* Types. *)

LEMMA WriteType ==
    ASSUME IInv, NEW p \in Requests, Write(p) PROVE TypeOK'
<1>. USE OutboxAssumption DEF TypeOK, PutState
<1>0. TypeOK
    BY DEF IInv
<1>1. ASSUME NEW b \in Books, NEW genreChanged \in BOOLEAN, Update(p, b, genreChanged)
      PROVE  TypeOK'
    <2>. DEFINE card  == [id |-> nextId, tag |-> b, version |-> version[b] + 1]
                lists == [id |-> nextId + 1, tag |-> ListTag, version |-> 0]
                rows  == IF genreChanged THEN {card, lists} ELSE {card}
    <2>1. version[b] \in Nat /\ version[b] + 1 \in Nat /\ nextId + 1 \in Nat
        BY <1>0
    <2>2. card \in Row /\ lists \in Row
        BY <1>0, <2>1 DEF Row, Tags
    <2>3. rows \in SUBSET Row
        BY <2>2
    <2>4. put' = [put EXCEPT ![p] = [pc |-> "open", rows |-> rows]]
        BY <1>1 DEF Update, RowsOf
    <2>. HIDE DEF rows
    <2>5. put' \in [Requests -> PutState]
        BY <1>0, <2>3, <2>4
    <2>. QED  BY <1>0, <1>1, <2>5 DEF Update
<1>2. CASE CommitUpdate(p)
    <2>1. put[p].rows \in SUBSET Row
        BY <1>0
    <2>2. version' \in [Books -> Nat]
        BY <1>0, <1>2 DEF CommitUpdate
    <2>. QED  BY <1>0, <1>2, <2>1, <2>2 DEF CommitUpdate
<1>3. CASE AbortUpdate(p)
    BY <1>0, <1>3 DEF AbortUpdate, NoPut, Fail
<1>4. CASE Notify(p)
    BY <1>0, <1>4 DEF Notify, NoPut
<1>. QED  BY <1>1, <1>2, <1>3, <1>4 DEF Write

LEMMA RelayType ==
    ASSUME IInv, NEW n \in Nodes, RelayStep(n) \/ RelayFault(n) PROVE TypeOK'
<1>. USE OutboxAssumption
<1>0. TypeOK
    BY DEF IInv
<1>1. /\ relay \in [Nodes -> RelayState]
      /\ relay[n] \in RelayState
      /\ relay[n].todo \in SUBSET Row /\ relay[n].done \in SUBSET Row
    BY <1>0 DEF TypeOK, RelayState
<1>2. CASE SelectBatch(n)
    <2>1. PICK batch \in SUBSET FreeRows :
             relay' = [relay EXCEPT ![n] = [Relay("publish") EXCEPT
                                              !.todo = batch, !.skipped = outbox \ FreeRows]]
        BY <1>2 DEF SelectBatch
    <2>2. batch \in SUBSET Row /\ outbox \ FreeRows \in SUBSET Row
        BY <1>0, <2>1 DEF FreeRows, TypeOK
    <2>3. relay' \in [Nodes -> RelayState]
        BY <1>1, <2>1, <2>2 DEF Relay, RelayState
    <2>. QED  BY <1>0, <1>2, <2>3 DEF SelectBatch, TypeOK
<1>3. ASSUME NEW row \in relay[n].todo, Publish(n, row) PROVE TypeOK'
    <2>1. row \in Row
        BY <1>1
    <2>2. sent' \in Seq(Row)
        BY <1>0, <1>3, <2>1 DEF Publish, TypeOK
    <2>3. relay' \in [Nodes -> RelayState]
        BY <1>1, <1>3, <2>1 DEF Publish, RelayState
    <2>. QED  BY <1>0, <1>3, <2>2, <2>3 DEF Publish, TypeOK
<1>4. ASSUME NEW row \in relay[n].todo, PublishFails(n, row) PROVE TypeOK'
    <2>1. row \in Row /\ sent \in Seq(Row)
        BY <1>0, <1>1 DEF TypeOK
    <2>2. sent' \in Seq(Row)
        <3>1. sent' = sent \/ sent' = Append(sent, row)
            BY <1>4 DEF PublishFails
        <3>. QED  BY <2>1, <3>1
    <2>3. relay' \in [Nodes -> RelayState]
        BY <1>1, <1>4 DEF PublishFails, RelayState
    <2>. QED  BY <1>0, <1>4, <2>2, <2>3 DEF PublishFails, Fail, TypeOK
<1>5. CASE \/ SelectFails(n) \/ FinishFails(n) \/ FinishBatch(n) \/ Restart(n)
    <2>1. PICK pc \in {"backoff", "wait", "drain"} : relay' = [relay EXCEPT ![n] = Relay(pc)]
        BY <1>5 DEF SelectFails, FinishFails, FinishBatch, Restart
    <2>2. relay' \in [Nodes -> RelayState]
        BY <1>1, <2>1 DEF Relay, RelayState
    <2>3. outbox' \in SUBSET Row /\ faults' \in Nat
        BY <1>0, <1>5 DEF SelectFails, FinishFails, FinishBatch, Restart, Fail, TypeOK
    <2>4. UNCHANGED <<version, nextId, put, wake, sent, committed, updates>>
        BY <1>5 DEF SelectFails, FinishFails, FinishBatch, Restart
    <2>. QED  BY <1>0, <2>2, <2>3, <2>4 DEF TypeOK
<1>6. CASE BatchPublished(n) \/ LoseSession(n) \/ Retry(n) \/ WakeUp(n) \/ Poll(n)
    <2>1. \/ \E pc \in {"finish", "drain"} : relay' = [relay EXCEPT ![n].pc = pc]
          \/ relay' = [relay EXCEPT ![n].held = FALSE]
        BY <1>6 DEF BatchPublished, LoseSession, Retry, WakeUp, Poll
    <2>2. relay' \in [Nodes -> RelayState]
        <3>1. ASSUME NEW pc \in {"finish", "drain"}, relay' = [relay EXCEPT ![n].pc = pc]
              PROVE  relay' \in [Nodes -> RelayState]
            BY <1>1, <3>1 DEF RelayState
        <3>2. CASE relay' = [relay EXCEPT ![n].held = FALSE]
            BY <1>1, <3>2 DEF RelayState
        <3>. QED  BY <2>1, <3>1, <3>2
    <2>3. wake' \in [Nodes -> BOOLEAN]
        BY <1>0, <1>6 DEF BatchPublished, LoseSession, Retry, WakeUp, Poll, TypeOK
    <2>5. faults' \in Nat
        BY <1>0, <1>6 DEF BatchPublished, LoseSession, Retry, WakeUp, Poll, Fail, TypeOK
    <2>4. UNCHANGED <<version, outbox, nextId, put, sent, committed, updates>>
        BY <1>6 DEF BatchPublished, LoseSession, Retry, WakeUp, Poll
    <2>. QED  BY <1>0, <2>2, <2>3, <2>4, <2>5 DEF TypeOK
<1>7. CASE Crash(n)
    <2>1. put' \in [Requests -> PutState]
        BY <1>0, <1>7 DEF Crash, NoPut, TypeOK, PutState
    <2>2. relay' \in [Nodes -> RelayState]
        BY <1>1, <1>7 DEF Crash, Relay, RelayState
    <2>. QED  BY <1>0, <1>7, <2>1, <2>2 DEF Crash, Fail, TypeOK
<1>. QED
    BY <1>2, <1>3, <1>4, <1>5, <1>6, <1>7 DEF RelayStep, RelayFault

-------------------------------------------------------------------------------
(* Updates. *)

\* Only a request's own steps and the crash of its process change its update.
LEMMA WriteInv ==
    ASSUME IInv, NEW p \in Requests, Write(p)
    PROVE  PutInv' /\ DataInv' /\ RelayInv'
<1>. USE OutboxAssumption
<1>0. TypeOK /\ PutInv /\ DataInv /\ RelayInv
    BY DEF IInv
<1>1. /\ version \in [Books -> Nat]
      /\ put \in [Requests -> [pc : {"none", "open", "committed"}, rows : SUBSET Row]]
    BY <1>0 DEF TypeOK, PutState
<1>2. sent' = sent /\ SentRows' = SentRows /\ relay' = relay
    BY DEF Write, Update, CommitUpdate, AbortUpdate, Notify, SentRows
<1>3. ASSUME NEW b \in Books, NEW genreChanged \in BOOLEAN, Update(p, b, genreChanged)
      PROVE  PutInv' /\ DataInv' /\ RelayInv'
    <2>. DEFINE card  == [id |-> nextId, tag |-> b, version |-> version[b] + 1]
                lists == [id |-> nextId + 1, tag |-> ListTag, version |-> 0]
    <2>1. PICK rows \in {{card}, {card, lists}} :
             put' = [put EXCEPT ![p] = [pc |-> "open", rows |-> rows]]
        BY <1>3 DEF Update, RowsOf
    <2>2. \A row \in rows : row.tag \in Books => row.tag = b /\ row.version = version[b] + 1
        BY <2>1
    <2>. HIDE DEF card, lists
    <2>3. /\ put'[p].pc = "open" /\ put'[p].rows = rows
          /\ \A q \in Requests \ {p} : put'[q] = put[q]
        BY <1>1, <2>1
    <2>4. \A q \in Requests : \A row \in put[q].rows : row.tag # b
        BY <1>3 DEF Update, BooksLocked
    <2>5. version' = version /\ outbox' = outbox /\ committed' = committed
        BY <1>3 DEF Update
    <2>6. PutInv'
        <3>1. \A q \in Requests : put'[q].pc # "open" => put'[q].rows = {}
            BY <1>0, <2>3 DEF PutInv
        <3>2. \A q \in Requests : \A row \in put'[q].rows :
                 row.tag \in Books => row.version = version'[row.tag] + 1
            BY <1>0, <2>2, <2>3, <2>5 DEF PutInv
        <3>3. \A q, r \in Requests : \A row \in put'[q].rows, other \in put'[r].rows :
                 row.tag \in Books /\ row.tag = other.tag => q = r
            BY <1>0, <2>2, <2>3, <2>4 DEF PutInv
        <3>. QED  BY <3>1, <3>2, <3>3 DEF PutInv
    <2>7. DataInv' /\ RelayInv'
        BY <1>0, <1>2, <2>5 DEF DataInv, RelayInv
    <2>. QED  BY <2>6, <2>7
<1>4. CASE CommitUpdate(p)
    <2>1. /\ outbox' = outbox \cup put[p].rows
          /\ committed' = committed \cup put[p].rows
          /\ version' = [b \in Books |-> IF \E row \in put[p].rows : row.tag = b
                                         THEN version[b] + 1 ELSE version[b]]
        BY <1>4 DEF CommitUpdate
    <2>2. /\ put'[p].pc = "committed" /\ put'[p].rows = {}
          /\ \A q \in Requests \ {p} : put'[q] = put[q]
        BY <1>1, <1>4 DEF CommitUpdate
    <2>3. ASSUME NEW b \in Books
          PROVE  /\ version[b] \in Nat
                 /\ (\E row \in put[p].rows : row.tag = b) => version'[b] = version[b] + 1
                 /\ ~(\E row \in put[p].rows : row.tag = b) => version'[b] = version[b]
        BY <1>1, <2>1
    <2>4. PutInv'
        <3>1. \A q \in Requests : put'[q].pc # "open" => put'[q].rows = {}
            BY <1>0, <2>2 DEF PutInv
        <3>2. ASSUME NEW q \in Requests, NEW row \in put'[q].rows, row.tag \in Books
              PROVE  row.version = version'[row.tag] + 1
            <4>1. q # p /\ row \in put[q].rows
                BY <2>2, <3>2
            <4>2. ~(\E other \in put[p].rows : other.tag = row.tag)
                BY <1>0, <3>2, <4>1 DEF PutInv
            <4>. QED  BY <1>0, <2>3, <3>2, <4>1, <4>2 DEF PutInv
        <3>3. \A q, r \in Requests : \A row \in put'[q].rows, other \in put'[r].rows :
                 row.tag \in Books /\ row.tag = other.tag => q = r
            BY <1>0, <2>2 DEF PutInv
        <3>. QED  BY <3>1, <3>2, <3>3 DEF PutInv
    <2>5. DataInv'
        <3>1. ASSUME NEW b \in Books, NEW v \in 1..version'[b]
              PROVE  \E row \in committed' : row.tag = b /\ row.version = v
            <4>1. CASE v \in 1..version[b]
                BY <1>0, <2>1, <4>1 DEF DataInv
            <4>2. CASE v \notin 1..version[b]
                <5>1. PICK row \in put[p].rows : row.tag = b
                    BY <2>3, <4>2
                <5>2. row.version = version[b] + 1
                    BY <1>0, <5>1 DEF PutInv
                <5>3. v = version[b] + 1
                    BY <2>3, <4>2, <5>1
                <5>. QED  BY <2>1, <5>1, <5>2, <5>3
            <4>. QED  BY <4>1, <4>2
        <3>2. ASSUME NEW row \in committed', row.tag \in Books
              PROVE  row.version <= version'[row.tag]
            <4>1. CASE row \in put[p].rows
                BY <1>0, <2>3, <3>2, <4>1 DEF PutInv
            <4>2. CASE row \in committed
                <5>1. row \in Row /\ row.version \in Nat
                    BY <1>0, <4>2 DEF TypeOK, Row
                <5>2. row.version <= version[row.tag]
                    BY <1>0, <3>2, <4>2 DEF DataInv
                <5>. QED  BY <2>3, <3>2, <5>1, <5>2
            <4>. QED  BY <2>1, <4>1, <4>2
        <3>. QED  BY <3>1, <3>2 DEF DataInv
    <2>6. RelayInv'
        BY <1>0, <1>2, <2>1 DEF RelayInv
    <2>. QED  BY <2>4, <2>5, <2>6
<1>5. CASE AbortUpdate(p) \/ Notify(p)
    <2>1. /\ put' = [put EXCEPT ![p] = NoPut]
          /\ version' = version /\ outbox' = outbox /\ committed' = committed
        BY <1>5 DEF AbortUpdate, Notify
    <2>2. /\ put'[p].pc = "none" /\ put'[p].rows = {}
          /\ \A q \in Requests \ {p} : put'[q] = put[q]
        BY <1>1, <2>1 DEF NoPut
    <2>3. PutInv'
        BY <1>0, <2>1, <2>2 DEF PutInv
    <2>. QED  BY <1>0, <1>2, <2>1, <2>3 DEF DataInv, RelayInv
<1>. QED  BY <1>3, <1>4, <1>5 DEF Write

-------------------------------------------------------------------------------
(* The relay. *)

\* A relay's step keeps the database's side; a crash drops updates.
LEMMA RelayData ==
    ASSUME IInv, NEW n \in Nodes, RelayStep(n) \/ RelayFault(n)
    PROVE  /\ version' = version /\ committed' = committed
           /\ PutInv' /\ DataInv'
<1>1. version' = version /\ committed' = committed
    BY DEF RelayStep, RelayFault, SelectBatch, Publish, BatchPublished, FinishBatch, Retry,
           WakeUp, Poll, SelectFails, PublishFails, FinishFails, LoseSession, Crash, Restart
<1>2. DataInv'
    BY <1>1 DEF IInv, DataInv
<1>3. CASE put' = put
    BY <1>1, <1>2, <1>3 DEF IInv, PutInv
<1>4. CASE Crash(n)
    <2>1. \A p \in Requests : put'[p] = put[p] \/ put'[p] = NoPut
        BY <1>4 DEF Crash
    <2>2. \A p \in Requests : put'[p].rows # {} => put'[p] = put[p]
        BY <2>1 DEF NoPut
    <2>3. \A p \in Requests : put'[p].pc # "open" => put'[p].rows = {}
        BY <2>1 DEF IInv, PutInv, NoPut
    <2>4. PutInv'
        BY <1>1, <2>2, <2>3 DEF IInv, PutInv
    <2>. QED  BY <1>1, <1>2, <2>4
<1>. QED
    BY <1>3, <1>4
    DEF RelayStep, RelayFault, SelectBatch, Publish, BatchPublished, FinishBatch, Retry,
        WakeUp, Poll, SelectFails, PublishFails, FinishFails, LoseSession, Restart

\* Handing a row over: only a row still in the outbox or already with the broker.
LEMMA Published ==
    ASSUME IInv, NEW n \in Nodes, NEW row \in relay[n].todo,
           Publish(n, row) \/ PublishFails(n, row)
    PROVE  /\ row \in committed
           /\ SentRows' = SentRows \/ SentRows' = SentRows \cup {row}
           /\ Publish(n, row) => row \in SentRows'
<1>1. row \in committed /\ row \in Row /\ sent \in Seq(Row)
    BY DEF IInv, RelayInv, TypeOK
<1>2. sent' = sent \/ sent' = Append(sent, row)
    BY DEF Publish, PublishFails
<1>3. CASE sent' = Append(sent, row)
    BY <1>1, <1>3, AppendSent
<1>4. CASE sent' = sent /\ sent # Append(sent, row)
    BY <1>1, <1>4 DEF Publish, SentRows
<1>. QED  BY <1>2, <1>3, <1>4

\* What a step does to the rows a relay works on.
LEMMA RelayRows ==
    ASSUME IInv, NEW n \in Nodes, RelayStep(n) \/ RelayFault(n)
    PROVE  /\ \A m \in Nodes \ {n} : relay'[m] = relay[m]
           /\ relay'[n].todo \subseteq committed
           /\ relay'[n].done \subseteq SentRows'
<1>. USE DEF RelayState
<1>0. relay \in [Nodes -> RelayState] /\ relay[n] \in RelayState
    BY DEF IInv, TypeOK
<1>1. /\ relay[n].todo \subseteq committed /\ relay[n].done \subseteq SentRows
      /\ FreeRows \subseteq committed
    BY DEF IInv, RelayInv, FreeRows
<1>2. ASSUME NEW pc, relay' = [relay EXCEPT ![n] = Relay(pc)]
      PROVE  /\ \A m \in Nodes \ {n} : relay'[m] = relay[m]
             /\ relay'[n].todo = {} /\ relay'[n].done = {}
    BY <1>0, <1>2 DEF Relay
<1>3. CASE SelectBatch(n)
    <2>1. PICK batch \in SUBSET FreeRows :
             relay' = [relay EXCEPT ![n] = [Relay("publish") EXCEPT
                                              !.todo = batch, !.skipped = outbox \ FreeRows]]
        BY <1>3 DEF SelectBatch
    <2>2. /\ \A m \in Nodes \ {n} : relay'[m] = relay[m]
          /\ relay'[n].todo = batch /\ relay'[n].done = {}
        BY <1>0, <2>1 DEF Relay
    <2>. QED  BY <1>1, <2>1, <2>2
<1>4. ASSUME NEW row \in relay[n].todo, Publish(n, row)
      PROVE  /\ \A m \in Nodes \ {n} : relay'[m] = relay[m]
             /\ relay'[n].todo \subseteq committed
             /\ relay'[n].done \subseteq SentRows'
    <2>1. SentRows \cup {row} \subseteq SentRows'
        BY <1>4, Published
    <2>2. /\ relay'[n].todo = relay[n].todo \ {row}
          /\ relay'[n].done = relay[n].done \cup {row}
          /\ \A m \in Nodes \ {n} : relay'[m] = relay[m]
        BY <1>0, <1>4 DEF Publish
    <2>. QED  BY <1>1, <2>1, <2>2
<1>5. ASSUME NEW row \in relay[n].todo, PublishFails(n, row)
      PROVE  /\ \A m \in Nodes \ {n} : relay'[m] = relay[m]
             /\ relay'[n].todo \subseteq committed
             /\ relay'[n].done \subseteq SentRows'
    <2>1. SentRows \subseteq SentRows'
        BY <1>5, Published
    <2>2. /\ relay'[n].todo = relay[n].todo
          /\ relay'[n].done = relay[n].done
          /\ \A m \in Nodes \ {n} : relay'[m] = relay[m]
        BY <1>0, <1>5 DEF PublishFails
    <2>. QED  BY <1>1, <2>1, <2>2
<1>6. ASSUME relay'[n].todo = relay[n].todo, relay'[n].done = relay[n].done,
             sent' = sent, \A m \in Nodes \ {n} : relay'[m] = relay[m]
      PROVE  /\ \A m \in Nodes \ {n} : relay'[m] = relay[m]
             /\ relay'[n].todo \subseteq committed
             /\ relay'[n].done \subseteq SentRows'
    BY <1>1, <1>6 DEF SentRows
<1>7. CASE BatchPublished(n)
    BY <1>0, <1>6, <1>7 DEF BatchPublished
<1>8. CASE Retry(n)
    BY <1>0, <1>6, <1>8 DEF Retry
<1>9. CASE WakeUp(n)
    BY <1>0, <1>6, <1>9 DEF WakeUp
<1>10. CASE Poll(n)
    BY <1>0, <1>6, <1>10 DEF Poll
<1>11. CASE LoseSession(n)
    BY <1>0, <1>6, <1>11 DEF LoseSession
<1>12. CASE FinishBatch(n)
    BY <1>2, <1>12 DEF FinishBatch
<1>13. CASE SelectFails(n) \/ FinishFails(n) \/ Crash(n) \/ Restart(n)
    BY <1>2, <1>13 DEF SelectFails, FinishFails, Crash, Restart
<1>. QED
    BY <1>3, <1>4, <1>5, <1>7, <1>8, <1>9, <1>10, <1>11, <1>12, <1>13 DEF RelayStep, RelayFault

LEMMA RelayStepInv ==
    ASSUME IInv, NEW n \in Nodes, RelayStep(n) \/ RelayFault(n)
    PROVE  RelayInv'
<1>0. RelayInv /\ committed' = committed
    BY RelayData DEF IInv
<1>1. /\ \A m \in Nodes \ {n} : relay'[m] = relay[m]
      /\ relay'[n].todo \subseteq committed
      /\ relay'[n].done \subseteq SentRows'
    BY RelayRows
<1>2. SentRows \subseteq SentRows' /\ SentRows' \subseteq committed
    <2>1. CASE sent' = sent
        BY <1>0, <2>1 DEF RelayInv, SentRows
    <2>2. ASSUME NEW row \in relay[n].todo, Publish(n, row) \/ PublishFails(n, row)
          PROVE  SentRows \subseteq SentRows' /\ SentRows' \subseteq committed
        BY <1>0, <2>2, Published DEF RelayInv
    <2>. QED
        BY <2>1, <2>2
        DEF RelayStep, RelayFault, SelectBatch, BatchPublished, FinishBatch, Retry, WakeUp, Poll,
            SelectFails, FinishFails, LoseSession, Crash, Restart
<1>3. outbox' \subseteq outbox /\ outbox \ outbox' \subseteq SentRows
    <2>1. CASE FinishBatch(n)
        BY <1>0, <2>1 DEF FinishBatch, RelayInv
    <2>2. CASE outbox' = outbox
        BY <2>2
    <2>. QED
        BY <2>1, <2>2
        DEF RelayStep, RelayFault, SelectBatch, Publish, BatchPublished, Retry, WakeUp, Poll,
            SelectFails, PublishFails, FinishFails, LoseSession, Crash, Restart
<1>4. RelayInv'
    <2>1. outbox' \subseteq committed' /\ SentRows' \subseteq committed'
        BY <1>0, <1>2, <1>3 DEF RelayInv
    <2>2. committed' \subseteq outbox' \cup SentRows'
        BY <1>0, <1>2, <1>3 DEF RelayInv
    <2>3. ASSUME NEW m \in Nodes
          PROVE  relay'[m].todo \subseteq committed' /\ relay'[m].done \subseteq SentRows'
        <3>1. CASE m = n
            BY <1>0, <1>1, <3>1
        <3>2. CASE m # n
            BY <1>0, <1>1, <1>2, <3>2 DEF RelayInv
        <3>. QED  BY <3>1, <3>2
    <2>. QED  BY <2>1, <2>2, <2>3 DEF RelayInv
<1>. QED  BY <1>4

-------------------------------------------------------------------------------
LEMMA StepIInv == IInv /\ [Next]_vars => IInv'
<1>. SUFFICES ASSUME IInv, [Next]_vars PROVE IInv'
    OBVIOUS
<1>1. ASSUME NEW p \in Requests, Write(p) PROVE IInv'
    BY <1>1, WriteType, WriteInv DEF IInv
<1>2. ASSUME NEW n \in Nodes, RelayStep(n) \/ RelayFault(n) PROVE IInv'
    BY <1>2, RelayType, RelayData, RelayStepInv DEF IInv
<1>3. CASE UNCHANGED vars
    BY <1>3 DEF vars, IInv, TypeOK, PutInv, DataInv, RelayInv, SentRows
<1>. QED  BY <1>1, <1>2, <1>3 DEF Next

LEMMA SpecIInv == Spec => []IInv
    BY InitIInv, StepIInv, PTL DEF Spec

\* Every reachable state of the tables, the updates and the relays has its type.
THEOREM TypeCorrect == Spec => []TypeOK
<1>1. IInv => TypeOK
    BY DEF IInv
<1>. QED  BY <1>1, SpecIInv, PTL

\* An update is committed exactly when its invalidation is, and the broker has
\* it or the outbox still does: whatever number of relays, requests, crashes
\* and lost answers (relayBatch, PUT /books/{id}).
THEOREM UpdatesAreAnnounced == Spec => []NoUpdateUnannounced
<1>1. IInv => NoUpdateUnannounced
    BY DEF IInv, DataInv, RelayInv, NoUpdateUnannounced
<1>. QED  BY <1>1, SpecIInv, PTL

\* The broker is never told of a version that is not committed.
THEOREM AnnouncedAreCommitted == Spec => []OnlyCommittedAnnounced
<1>1. IInv => OnlyCommittedAnnounced
    BY DEF IInv, DataInv, RelayInv, OnlyCommittedAnnounced
<1>. QED  BY <1>1, SpecIInv, PTL

\* The outbox, its updates and its relays implement a hand-over at least once:
\* a row is deleted only after the broker had it.
THEOREM OutboxImplementsAtLeastOnce == Spec => HandsOverAtLeastOnce
<1>1. Init => Outgoing!Init
    BY DEF Init, Outgoing!Init, SentRows
<1>2. IInv /\ [Next]_vars => [Outgoing!Next]_<<outbox, SentRows>>
    <2>. SUFFICES ASSUME IInv, [Next]_vars PROVE [Outgoing!Next]_<<outbox, SentRows>>
        OBVIOUS
    <2>1. ASSUME NEW p \in Requests, Write(p) PROVE [Outgoing!Next]_<<outbox, SentRows>>
        <3>1. SentRows' = SentRows
            BY <2>1 DEF Write, Update, CommitUpdate, AbortUpdate, Notify, SentRows
        <3>2. outbox \subseteq outbox'
            BY <2>1 DEF Write, Update, CommitUpdate, AbortUpdate, Notify
        <3>3. outbox' \subseteq Row
            BY <2>1, WriteType DEF TypeOK
        <3>. QED  BY <3>1, <3>2, <3>3 DEF Outgoing!Next, Outgoing!Accept
    <2>2. ASSUME NEW n \in Nodes, NEW row \in relay[n].todo,
                 Publish(n, row) \/ PublishFails(n, row)
          PROVE  [Outgoing!Next]_<<outbox, SentRows>>
        <3>1. row \in outbox \cup SentRows /\ outbox' = outbox
            BY <2>2, Published DEF IInv, RelayInv, Publish, PublishFails
        <3>2. SentRows' = SentRows \/ SentRows' = SentRows \cup {row}
            BY <2>2, Published
        <3>3. CASE row \in SentRows
            BY <3>1, <3>2, <3>3
        <3>4. CASE row \in outbox
            BY <3>1, <3>2, <3>4 DEF Outgoing!Next, Outgoing!HandOver
        <3>. QED  BY <3>1, <3>3, <3>4
    <2>3. ASSUME NEW n \in Nodes, FinishBatch(n) PROVE Outgoing!Release
        BY <2>3 DEF FinishBatch, SentRows, IInv, RelayInv, Outgoing!Release
    <2>4. ASSUME outbox' = outbox, sent' = sent PROVE UNCHANGED <<outbox, SentRows>>
        BY <2>4 DEF SentRows
    <2>. QED
        BY <2>1, <2>2, <2>3, <2>4
        DEF Next, RelayStep, RelayFault, SelectBatch, BatchPublished, Retry, WakeUp, Poll,
            SelectFails, FinishFails, LoseSession, Crash, Restart, vars, Outgoing!Next
<1>. QED  BY <1>1, <1>2, SpecIInv, PTL DEF Spec, Outgoing!Spec, HandsOverAtLeastOnce

-------------------------------------------------------------------------------
(* The order of announcements.  Ids come from one sequence, so they follow    *)
(* the versions of a book, in the outbox and in the updates still open        *)
(* (IdInv); and whatever is older than a row of a batch is in the batch, was  *)
(* skipped when it was selected, or is with the broker (BatchInv).            *)

Older(other, row) ==
    row.tag \in Books /\ other.tag = row.tag /\ other.version < row.version

IdInv ==
    /\ \A row \in committed : row.id < nextId
    /\ \A p \in Requests : \A row \in put[p].rows : row.id < nextId
    /\ \A row, older \in committed : Older(older, row) => older.id < row.id
    /\ \A p \in Requests : \A row \in put[p].rows, older \in committed :
          row.tag \in Books /\ older.tag = row.tag => older.id < row.id

BatchInv ==
    \A n \in Nodes : \A row \in relay[n].todo, older \in outbox :
        Older(older, row) => older \in SentRows \cup relay[n].skipped \cup relay[n].todo

OrderInv == IdInv /\ BatchInv

LEMMA InitOrder == Init => OrderInv
BY DEF Init, OrderInv, IdInv, BatchInv, NoPut, Relay

LEMMA WriteOrder ==
    ASSUME IInv, OrderInv, NEW p \in Requests, Write(p) PROVE OrderInv'
<1>0. /\ nextId \in Nat /\ put \in [Requests -> PutState]
      /\ version \in [Books -> Nat] /\ committed \subseteq Row
    BY DEF IInv, TypeOK
<1>1. ASSUME NEW b \in Books, NEW genreChanged \in BOOLEAN, Update(p, b, genreChanged)
      PROVE  OrderInv'
    <2>. DEFINE card  == [id |-> nextId, tag |-> b, version |-> version[b] + 1]
                lists == [id |-> nextId + 1, tag |-> ListTag, version |-> 0]
    <2>1. PICK rows : /\ rows = IF genreChanged THEN {card, lists} ELSE {card}
                      /\ put' = [put EXCEPT ![p] = [pc |-> "open", rows |-> rows]]
        BY <1>1 DEF Update, RowsOf
    <2>2. \A row \in rows : row.id \in Nat /\ nextId <= row.id /\ row.id < nextId + 2
        BY <1>0, <2>1
    <2>3. /\ nextId' = nextId + 2
          /\ UNCHANGED <<outbox, relay, sent, committed>>
        BY <1>1 DEF Update
    <2>4. put'[p].rows = rows /\ \A q \in Requests \ {p} : put'[q] = put[q]
        BY <1>0, <2>1
    <2>. HIDE DEF card, lists
    <2>5. \A row \in committed : row.id \in Nat
        BY <1>0 DEF Row
    <2>6. \A q \in Requests : \A row \in put[q].rows : row.id \in Nat
        BY <1>0 DEF PutState, Row
    <2>7. \A row \in committed : row.id < nextId'
        BY <1>0, <2>3, <2>5 DEF OrderInv, IdInv
    <2>8. \A q \in Requests : \A row \in put'[q].rows : row.id < nextId'
        <3>. TAKE q \in Requests
        <3>1. CASE q = p
            BY <2>2, <2>3, <2>4, <3>1
        <3>2. CASE q # p
            BY <1>0, <2>3, <2>4, <2>6, <3>2 DEF OrderInv, IdInv
        <3>. QED  BY <3>1, <3>2
    <2>9. \A q \in Requests : \A row \in put'[q].rows, older \in committed :
              row.tag \in Books /\ older.tag = row.tag => older.id < row.id
        <3>. TAKE q \in Requests
        <3>1. CASE q = p
            BY <1>0, <2>2, <2>4, <2>5, <3>1 DEF OrderInv, IdInv
        <3>2. CASE q # p
            BY <2>4, <3>2 DEF OrderInv, IdInv
        <3>. QED  BY <3>1, <3>2
    <2>10. IdInv'
        BY <2>3, <2>7, <2>8, <2>9 DEF OrderInv, IdInv, Older
    <2>11. BatchInv'
        BY <2>3 DEF OrderInv, BatchInv, SentRows, Older
    <2>. QED  BY <2>10, <2>11 DEF OrderInv
<1>2. CASE CommitUpdate(p)
    <2>1. /\ committed' = committed \cup put[p].rows /\ outbox' = outbox \cup put[p].rows
          /\ put' = [put EXCEPT ![p] = [pc |-> "committed", rows |-> {}]]
          /\ UNCHANGED <<nextId, relay, sent>>
        BY <1>2 DEF CommitUpdate
    <2>2. put'[p].rows = {} /\ \A q \in Requests \ {p} : put'[q] = put[q]
        BY <1>0, <2>1
    <2>3. \A row \in committed : row.tag \in Books =>
              row.version \in Nat /\ version[row.tag] \in Nat /\ row.version <= version[row.tag]
        BY <1>0 DEF Row, IInv, DataInv
    <2>4. \A row \in put[p].rows : row.tag \in Books => row.version = version[row.tag] + 1
        BY DEF IInv, PutInv
    <2>5. \A row, older \in committed' : Older(older, row) => older.id < row.id
        <3>. SUFFICES ASSUME NEW row \in committed', NEW older \in committed', Older(older, row)
                      PROVE  older.id < row.id
            OBVIOUS
        <3>1. older \notin put[p].rows
            BY <1>0, <2>1, <2>3, <2>4 DEF Older
        <3>. QED  BY <2>1, <3>1 DEF OrderInv, IdInv, Older
    <2>6. \A q \in Requests : \A row \in put'[q].rows, older \in committed' :
              row.tag \in Books /\ older.tag = row.tag => older.id < row.id
        <3>. SUFFICES ASSUME NEW q \in Requests, NEW row \in put'[q].rows,
                             NEW older \in committed', row.tag \in Books, older.tag = row.tag
                      PROVE  older.id < row.id
            OBVIOUS
        <3>1. q # p /\ row \in put[q].rows
            BY <2>2
        <3>2. older \in committed
            BY <2>1, <3>1 DEF IInv, PutInv
        <3>. QED  BY <3>1, <3>2 DEF OrderInv, IdInv
    <2>7. IdInv'
        BY <2>1, <2>2, <2>5, <2>6 DEF OrderInv, IdInv
    <2>8. ASSUME NEW n \in Nodes, NEW row \in relay[n].todo, NEW older \in outbox',
                 Older(older, row)
          PROVE  older \in outbox
        <3>1. row \in committed
            BY DEF IInv, RelayInv
        <3>. QED  BY <1>0, <2>1, <2>3, <2>4, <2>8, <3>1 DEF Older
    <2>9. BatchInv'
        BY <2>1, <2>8 DEF OrderInv, BatchInv, SentRows, Older
    <2>. QED  BY <2>7, <2>9 DEF OrderInv
<1>3. CASE AbortUpdate(p) \/ Notify(p)
    <2>1. \A q \in Requests : put'[q].rows \subseteq put[q].rows
        BY <1>0, <1>3 DEF AbortUpdate, Notify, NoPut, PutState
    <2>2. UNCHANGED <<outbox, nextId, relay, sent, committed>>
        BY <1>3 DEF AbortUpdate, Notify
    <2>. QED  BY <2>1, <2>2 DEF OrderInv, IdInv, BatchInv, SentRows, Older
<1>. QED  BY <1>1, <1>2, <1>3 DEF Write

\* The next row of a batch has no older one left in it.
LEMMA NextIsOldest ==
    ASSUME IInv, OrderInv, NEW n \in Nodes, NEW row, IsNext(row, relay[n].todo),
           NEW older \in relay[n].todo
    PROVE  ~Older(older, row)
<1>1. row \in committed /\ older \in committed /\ row.id <= older.id
    BY DEF IInv, RelayInv, IsNext
<1>2. row.id \in Nat /\ older.id \in Nat
    BY <1>1 DEF IInv, TypeOK, Row
<1>. QED  BY <1>1, <1>2 DEF OrderInv, IdInv

\* A batch takes the older rows first.
LEMMA BatchTakesOldest ==
    ASSUME IInv, OrderInv, NEW batch, IsBatch(batch, FreeRows), NEW row \in batch,
           NEW older \in outbox, Older(older, row)
    PROVE  older \in batch \cup (outbox \ FreeRows)
<1>1. older \in committed /\ row \in committed
    BY DEF IInv, RelayInv, IsBatch, FreeRows
<1>2. row.id \in Nat /\ older.id \in Nat /\ older.id < row.id
    BY <1>1 DEF IInv, TypeOK, Row, OrderInv, IdInv
<1>. QED  BY <1>2 DEF IsBatch

LEMMA RelayOrder ==
    ASSUME IInv, OrderInv, NEW n \in Nodes, RelayStep(n) \/ RelayFault(n) PROVE OrderInv'
<1>0. /\ relay \in [Nodes -> RelayState] /\ sent \in Seq(Row)
      /\ put \in [Requests -> PutState]
    BY DEF IInv, TypeOK
<1>1. IdInv'
    <2>1. committed' = committed /\ nextId' = nextId
        BY DEF RelayStep, RelayFault, SelectBatch, Publish, BatchPublished, FinishBatch, Retry,
               WakeUp, Poll, SelectFails, PublishFails, FinishFails, LoseSession, Crash, Restart
    <2>2. CASE put' = put
        BY <2>1, <2>2 DEF OrderInv, IdInv, Older
    <2>3. CASE Crash(n)
        <3>1. \A p \in Requests : put'[p].rows \subseteq put[p].rows
            BY <2>3 DEF Crash, NoPut
        <3>. QED  BY <2>1, <3>1 DEF OrderInv, IdInv, Older
    <2>. QED
        BY <2>2, <2>3
        DEF RelayStep, RelayFault, SelectBatch, Publish, BatchPublished, FinishBatch, Retry,
            WakeUp, Poll, SelectFails, PublishFails, FinishFails, LoseSession, Restart
\* It is enough that a relay that works on rows keeps them in view.
<1>2. ASSUME outbox' \subseteq outbox, SentRows \subseteq SentRows',
             \A m \in Nodes \ {n} : relay'[m] = relay[m],
             \A row \in relay'[n].todo, older \in outbox :
                 Older(older, row) =>
                     older \in SentRows' \cup relay'[n].skipped \cup relay'[n].todo
      PROVE  BatchInv'
    <2>. SUFFICES ASSUME NEW m \in Nodes, NEW row \in relay'[m].todo, NEW older \in outbox',
                         Older(older, row)
                  PROVE  older \in SentRows' \cup relay'[m].skipped \cup relay'[m].todo
        BY DEF BatchInv, Older
    <2>1. CASE m = n
        BY <1>2, <2>1
    <2>2. CASE m # n
        BY <1>2, <2>2 DEF OrderInv, BatchInv
    <2>. QED  BY <2>1, <2>2
<1>3. ASSUME NEW row \in relay[n].todo, Publish(n, row) \/ PublishFails(n, row) PROVE BatchInv'
    <2>1. outbox' = outbox /\ \A m \in Nodes \ {n} : relay'[m] = relay[m]
        BY <1>0, <1>3 DEF Publish, PublishFails
    <2>2. SentRows \subseteq SentRows' /\ (Publish(n, row) => row \in SentRows')
        BY <1>3, Published
    <2>3. /\ relay'[n].skipped = relay[n].skipped
          /\ \/ relay'[n].todo = relay[n].todo
             \/ relay'[n].todo = relay[n].todo \ {row} /\ Publish(n, row)
        <3>1. relay[n] \in RelayState
            BY <1>0
        <3>2. CASE Publish(n, row)
            BY <1>0, <3>1, <3>2 DEF Publish, RelayState
        <3>3. CASE PublishFails(n, row)
            BY <1>0, <3>1, <3>3 DEF PublishFails, RelayState
        <3>. QED  BY <1>3, <3>2, <3>3
    <2>4. \A one \in relay'[n].todo, older \in outbox :
              Older(older, one) => older \in SentRows' \cup relay'[n].skipped \cup relay'[n].todo
        <3>. SUFFICES ASSUME NEW one \in relay'[n].todo, NEW older \in outbox, Older(older, one)
                      PROVE  older \in SentRows' \cup relay'[n].skipped \cup relay'[n].todo
            OBVIOUS
        <3>1. older \in SentRows \cup relay[n].skipped \cup relay[n].todo
            BY <2>3 DEF OrderInv, BatchInv
        <3>. QED  BY <2>2, <2>3, <3>1
    <2>. QED  BY <1>2, <2>1, <2>2, <2>4
<1>4. ASSUME SelectBatch(n) PROVE BatchInv'
    <2>1. PICK batch \in SUBSET FreeRows :
             /\ IsBatch(batch, FreeRows)
             /\ relay' = [relay EXCEPT ![n] = [Relay("publish") EXCEPT
                                                 !.todo = batch, !.skipped = outbox \ FreeRows]]
        BY <1>4 DEF SelectBatch
    <2>2. /\ relay'[n].todo = batch /\ relay'[n].skipped = outbox \ FreeRows
          /\ \A m \in Nodes \ {n} : relay'[m] = relay[m]
        BY <1>0, <2>1 DEF Relay
    <2>3. outbox' \subseteq outbox /\ SentRows \subseteq SentRows'
        BY <1>4 DEF SelectBatch, SentRows
    <2>4. \A row \in relay'[n].todo, older \in outbox :
              Older(older, row) => older \in SentRows' \cup relay'[n].skipped \cup relay'[n].todo
        BY <2>1, <2>2, BatchTakesOldest
    <2>. QED  BY <1>2, <2>2, <2>3, <2>4
<1>5. ASSUME sent' = sent, outbox' \subseteq outbox, \A m \in Nodes \ {n} : relay'[m] = relay[m],
             \/ relay'[n].todo = {}
             \/ relay'[n].todo = relay[n].todo /\ relay'[n].skipped = relay[n].skipped
      PROVE  BatchInv'
    <2>1. SentRows \subseteq SentRows'
        BY <1>5 DEF SentRows
    <2>2. \A row \in relay'[n].todo, older \in outbox :
              Older(older, row) => older \in SentRows' \cup relay'[n].skipped \cup relay'[n].todo
        BY <1>5, <2>1 DEF OrderInv, BatchInv
    <2>. QED  BY <1>2, <1>5, <2>1, <2>2
<1>6. ASSUME BatchPublished(n) \/ LoseSession(n) \/ Retry(n) \/ WakeUp(n) \/ Poll(n)
      PROVE  BatchInv'
    <2>1. sent' = sent /\ outbox' \subseteq outbox
        BY <1>6 DEF BatchPublished, LoseSession, Retry, WakeUp, Poll
    <2>2. \A m \in Nodes \ {n} : relay'[m] = relay[m]
        BY <1>0, <1>6 DEF BatchPublished, LoseSession, Retry, WakeUp, Poll
    <2>3. relay'[n].todo = relay[n].todo /\ relay'[n].skipped = relay[n].skipped
        BY <1>0, <1>6 DEF BatchPublished, LoseSession, Retry, WakeUp, Poll, RelayState
    <2>. QED  BY <1>5, <2>1, <2>2, <2>3
<1>7. ASSUME FinishBatch(n) \/ SelectFails(n) \/ FinishFails(n) \/ Crash(n) \/ Restart(n)
      PROVE  BatchInv'
    <2>1. /\ sent' = sent /\ outbox' \subseteq outbox
          /\ \E pc : relay' = [relay EXCEPT ![n] = Relay(pc)]
        BY <1>7 DEF FinishBatch, SelectFails, FinishFails, Crash, Restart
    <2>2. relay'[n].todo = {}
        BY <1>0, <2>1 DEF Relay
    <2>3. \A m \in Nodes \ {n} : relay'[m] = relay[m]
        BY <1>0, <2>1
    <2>. QED  BY <1>5, <2>1, <2>2, <2>3
<1>8. BatchInv'
    BY <1>3, <1>4, <1>6, <1>7 DEF RelayStep, RelayFault
<1>. QED  BY <1>1, <1>8 DEF OrderInv

LEMMA SpecOrder == Spec => [](IInv /\ OrderInv)
<1>1. Init => IInv /\ OrderInv
    BY InitIInv, InitOrder
<1>2. IInv /\ OrderInv /\ [Next]_vars => (IInv /\ OrderInv)'
    <2>. SUFFICES ASSUME IInv, OrderInv, [Next]_vars PROVE OrderInv'
        BY StepIInv
    <2>1. CASE UNCHANGED vars
        BY <2>1 DEF vars, OrderInv, IdInv, BatchInv, SentRows, Older
    <2>. QED  BY <2>1, WriteOrder, RelayOrder DEF Next
<1>. QED  BY <1>1, <1>2, PTL DEF Spec

\* However relays fail, lose sessions and crash, a relay announces a version of a
\* book ahead of an older one that is still unsent only if another relay held
\* the older one when the batch was selected (SKIP LOCKED of relayBatch).
THEOREM OvertakingNeedsSkipping == Spec => OvertakesOnlySkipped
<1>1. IInv /\ OrderInv /\ [Next]_vars
      => [\A n \in Nodes : \A row \in relay[n].todo :
            (sent' = Append(sent, row) /\ relay'[n] # relay[n]) =>
                \A older \in outbox :
                    older.tag = row.tag /\ older.version < row.version /\ row.tag \in Books
                        => older \in SentRows \cup relay[n].skipped]_vars
    <2>. SUFFICES ASSUME IInv, OrderInv, Next, NEW n \in Nodes, NEW row \in relay[n].todo,
                         sent' = Append(sent, row), relay'[n] # relay[n],
                         NEW older \in outbox, Older(older, row)
                  PROVE  older \in SentRows \cup relay[n].skipped
        BY DEF Older
    <2>0. sent \in Seq(Row) /\ relay \in [Nodes -> RelayState] /\ row \in Row
        BY DEF IInv, TypeOK, RelayState
    <2>1. sent' # sent
        BY <2>0
    <2>2. PICK m \in Nodes : \E one \in relay[m].todo : Publish(m, one) \/ PublishFails(m, one)
        BY <2>1
        DEF Next, Write, Update, CommitUpdate, AbortUpdate, Notify, RelayStep, RelayFault,
            SelectBatch, BatchPublished, FinishBatch, Retry, WakeUp, Poll, SelectFails,
            FinishFails, LoseSession, Crash, Restart
    <2>3. PICK one \in relay[m].todo : Publish(m, one) \/ PublishFails(m, one)
        BY <2>2
    <2>4. m = n
        BY <2>0, <2>3 DEF Publish, PublishFails
    <2>5. one = row
        <3>1. sent' = Append(sent, one)
            BY <2>1, <2>3 DEF Publish, PublishFails
        <3>2. one \in Row
            BY <2>0 DEF RelayState
        <3>3. sent'[Len(sent) + 1] = one
            BY <2>0, <3>1, <3>2
        <3>4. sent'[Len(sent) + 1] = row
            BY <2>0
        <3>. QED  BY <3>3, <3>4
    <2>6. IsNext(row, relay[n].todo)
        BY <2>3, <2>4, <2>5 DEF Publish, PublishFails
    <2>7. older \notin relay[n].todo
        BY <2>6, NextIsOldest
    <2>. QED  BY <2>7 DEF OrderInv, BatchInv
<1>. QED  BY <1>1, SpecOrder, PTL DEF Spec, OvertakesOnlySkipped

-------------------------------------------------------------------------------
(* Copies of a row.  A copy comes from a relay that has the row to publish, and *)
(* a relay gets it when it is free.  So what counts is how many copies there    *)
(* are and may still come: those the broker has, one for each relay that has    *)
(* the row to do, and one if the row is free.  Only a failure adds to this sum. *)

Holders(row) == { n \in Nodes : row \in relay[n].todo }

\* A row of an open update is new.
NewInv ==
    /\ \A p \in Requests : put[p].rows \cap committed = {}
    /\ \A p, q \in Requests : p # q => put[p].rows \cap put[q].rows = {}

\* A relay holds rows only while it works on them.
IdleInv == \A n \in Nodes : relay[n].pc \notin {"publish", "finish"} => Locked(n) = {}

Accounted(row) ==
    /\ IsFiniteSet(Holders(row))
    /\ Copies(row) + Cardinality(Holders(row)) <= 1 + faults
    /\ row \in FreeRows => Copies(row) + Cardinality(Holders(row)) <= faults

CountInv == \A row \in Row : Accounted(row)

CopyInv == NewInv /\ IdleInv /\ CountInv

\* Copies are counted with numbers, and a row that was not sent has none.
LEMMA CopiesType ==
    ASSUME sent \in Seq(Row), NEW row
    PROVE  /\ IsFiniteSet({ i \in DOMAIN sent : sent[i] = row })
           /\ Copies(row) \in Nat
           /\ row \notin SentRows => Copies(row) = 0
<1>1. DOMAIN sent = 1..Len(sent) /\ Len(sent) \in Nat
    OBVIOUS
<1>2. IsFiniteSet(1..Len(sent))
    BY <1>1, FS_Interval
<1>3. { i \in DOMAIN sent : sent[i] = row } \in SUBSET (1..Len(sent))
    BY <1>1
<1>4. IsFiniteSet({ i \in DOMAIN sent : sent[i] = row })
    BY <1>2, <1>3, FS_Subset
<1>5. Copies(row) \in Nat
    BY <1>4, FS_CardinalityType DEF Copies
<1>6. ASSUME row \notin SentRows PROVE Copies(row) = 0
    <2>1. { i \in DOMAIN sent : sent[i] = row } = {}
        BY <1>6 DEF SentRows
    <2>. QED  BY <2>1, FS_EmptySet DEF Copies
<1>. QED  BY <1>4, <1>5, <1>6

\* Sending a row adds one to its copies and to no other's.
LEMMA CopiesOfSent ==
    ASSUME sent \in Seq(Row), NEW row \in Row, sent' = Append(sent, row), NEW other
    PROVE  Copies(other)' = IF other = row THEN Copies(other) + 1 ELSE Copies(other)
<1>. DEFINE At == { i \in DOMAIN sent : sent[i] = other }
<1>1. /\ DOMAIN sent = 1..Len(sent) /\ Len(sent) \in Nat
      /\ DOMAIN sent' = 1..(Len(sent) + 1)
    OBVIOUS
<1>2. /\ \A i \in 1..Len(sent) : sent'[i] = sent[i]
      /\ sent'[Len(sent) + 1] = row
    OBVIOUS
<1>3. IsFiniteSet(At) /\ Len(sent) + 1 \notin At
    <2>1. IsFiniteSet(At)
        BY CopiesType, Zenon
    <2>2. Len(sent) + 1 \notin At
        BY <1>1
    <2>. QED  BY <2>1, <2>2
<1>4. CASE other = row
    <2>1. { i \in DOMAIN sent' : sent'[i] = other } = At \cup {Len(sent) + 1}
        BY <1>1, <1>2, <1>4
    <2>2. Cardinality(At \cup {Len(sent) + 1}) = Cardinality(At) + 1
        BY <1>3, FS_AddElement
    <2>. QED  BY <1>4, <2>1, <2>2 DEF Copies
<1>5. CASE other # row
    <2>1. { i \in DOMAIN sent' : sent'[i] = other } = At
        BY <1>1, <1>2, <1>5
    <2>. QED  BY <1>5, <2>1 DEF Copies
<1>. QED  BY <1>4, <1>5

\* Fewer relays with the row to do are fewer by count.
LEMMA HoldersOf ==
    ASSUME NEW row, NEW S, IsFiniteSet(S), Holders(row)' \subseteq S
    PROVE  /\ IsFiniteSet(Holders(row)')
           /\ Cardinality(Holders(row)') \in Nat
           /\ Cardinality(S) \in Nat
           /\ Cardinality(Holders(row)') <= Cardinality(S)
<1>1. Holders(row)' \in SUBSET S
    OBVIOUS
<1>. QED  BY <1>1, FS_Subset, FS_CardinalityType

LEMMA InitCopies == Init => CopyInv
<1>. SUFFICES ASSUME Init PROVE CopyInv
    OBVIOUS
<1>1. NewInv /\ IdleInv
    BY DEF Init, NewInv, IdleInv, Locked, NoPut, Relay
<1>2. ASSUME NEW row \in Row
      PROVE  /\ IsFiniteSet(Holders(row))
             /\ Copies(row) + Cardinality(Holders(row)) <= 1 + faults
             /\ row \notin FreeRows
    <2>1. Holders(row) = {} /\ sent \in Seq(Row) /\ row \notin SentRows /\ faults = 0
        BY DEF Init, Holders, Relay, SentRows
    <2>2. row \notin FreeRows
        BY DEF Init, FreeRows
    <2>3. Copies(row) = 0
        BY <2>1, CopiesType, Zenon
    <2>4. IsFiniteSet(Holders(row)) /\ Cardinality(Holders(row)) = 0
        BY <2>1, FS_EmptySet
    <2>. QED  BY <2>1, <2>2, <2>3, <2>4
<1>. QED  BY <1>1, <1>2 DEF CopyInv, CountInv, Accounted

-------------------------------------------------------------------------------
LEMMA WriteCopies ==
    ASSUME IInv, OrderInv, CopyInv, NEW p \in Requests, Write(p) PROVE CopyInv'
<1>0. /\ nextId \in Nat /\ faults \in Nat /\ put \in [Requests -> PutState]
      /\ sent \in Seq(Row) /\ committed \subseteq Row /\ outbox \subseteq committed
    BY DEF IInv, TypeOK, RelayInv
<1>1. /\ relay' = relay /\ sent' = sent
      /\ \A row : Holders(row)' = Holders(row) /\ Copies(row)' = Copies(row)
      /\ \A n \in Nodes : Locked(n)' = Locked(n)
    BY DEF Write, Update, CommitUpdate, AbortUpdate, Notify, Holders, Copies, Locked
<1>2. IdleInv'
    BY <1>1 DEF CopyInv, IdleInv
<1>3. faults' \in Nat /\ faults <= faults'
    BY <1>0 DEF Write, Update, CommitUpdate, AbortUpdate, Notify, Fail
<1>4. NewInv'
    <2>1. ASSUME NEW b \in Books, NEW genreChanged \in BOOLEAN, Update(p, b, genreChanged)
          PROVE  NewInv'
        <3>1. PICK rows : /\ rows = RowsOf(b, genreChanged)
                          /\ put' = [put EXCEPT ![p] = [pc |-> "open", rows |-> rows]]
            BY <2>1 DEF Update
        <3>2. \A row \in rows : row.id \in Nat /\ nextId <= row.id
            BY <1>0, <3>1 DEF RowsOf
        <3>3. \A row \in committed : row.id \in Nat /\ row.id < nextId
            BY <1>0 DEF Row, OrderInv, IdInv
        <3>4. \A q \in Requests : \A row \in put[q].rows : row.id \in Nat /\ row.id < nextId
            BY <1>0 DEF PutState, Row, OrderInv, IdInv
        <3>5. \A row \in rows : row \notin committed /\ \A q \in Requests : row \notin put[q].rows
            BY <1>0, <3>2, <3>3, <3>4
        <3>6. put'[p].rows = rows /\ \A q \in Requests \ {p} : put'[q] = put[q]
            BY <1>0, <3>1
        <3>7. committed' = committed
            BY <2>1 DEF Update
        <3>. QED  BY <3>5, <3>6, <3>7 DEF CopyInv, NewInv
    <2>2. CASE CommitUpdate(p)
        <3>1. /\ committed' = committed \cup put[p].rows
              /\ put'[p].rows = {} /\ \A q \in Requests \ {p} : put'[q] = put[q]
            BY <1>0, <2>2 DEF CommitUpdate
        <3>. QED  BY <3>1 DEF CopyInv, NewInv
    <2>3. CASE AbortUpdate(p) \/ Notify(p)
        <3>1. /\ committed' = committed
              /\ put'[p].rows = {} /\ \A q \in Requests \ {p} : put'[q] = put[q]
            BY <1>0, <2>3 DEF AbortUpdate, Notify, NoPut
        <3>. QED  BY <3>1 DEF CopyInv, NewInv
    <2>. QED  BY <2>1, <2>2, <2>3 DEF Write
<1>5. \A row : row \in FreeRows' => row \in FreeRows \/ row \in put[p].rows
    <2>1. outbox' \subseteq outbox \cup put[p].rows
        BY DEF Write, Update, CommitUpdate, AbortUpdate, Notify
    <2>. QED  BY <1>1, <2>1 DEF FreeRows
<1>6. ASSUME NEW row \in Row
      PROVE  /\ IsFiniteSet(Holders(row)')
             /\ Copies(row)' + Cardinality(Holders(row)') <= 1 + faults'
             /\ row \in FreeRows' => Copies(row)' + Cardinality(Holders(row)') <= faults'
    <2>1. /\ IsFiniteSet(Holders(row))
          /\ Copies(row) + Cardinality(Holders(row)) <= 1 + faults
          /\ row \in FreeRows => Copies(row) + Cardinality(Holders(row)) <= faults
        BY DEF CopyInv, CountInv, Accounted
    <2>2. Copies(row) \in Nat /\ Cardinality(Holders(row)) \in Nat
        BY <1>0, <2>1, CopiesType, FS_CardinalityType
    <2>3. ASSUME row \in put[p].rows
          PROVE  Copies(row) + Cardinality(Holders(row)) <= faults
        <3>1. row \notin committed
            BY <2>3 DEF CopyInv, NewInv
        <3>2. row \notin SentRows /\ Holders(row) = {}
            BY <3>1 DEF IInv, RelayInv, Holders
        <3>3. Copies(row) = 0
            BY <1>0, <3>2, CopiesType, Zenon
        <3>. QED  BY <1>0, <3>2, <3>3, FS_EmptySet
    <2>. QED  BY <1>0, <1>1, <1>3, <1>5, <2>1, <2>2, <2>3
<1>. QED  BY <1>2, <1>4, <1>6 DEF CopyInv, CountInv, Accounted

-------------------------------------------------------------------------------
\* The sum does not grow unless a row comes free, which costs a failure.
LEMMA StillAccounted ==
    ASSUME IInv, CopyInv, NEW row \in Row, sent' = sent, Holders(row)' \subseteq Holders(row),
           \/ faults' = faults + 1
           \/ faults' = faults /\ (row \in FreeRows' => row \in FreeRows)
    PROVE  Accounted(row)'
<1>1. /\ IsFiniteSet(Holders(row))
      /\ Copies(row) + Cardinality(Holders(row)) <= 1 + faults
      /\ row \in FreeRows => Copies(row) + Cardinality(Holders(row)) <= faults
    BY DEF CopyInv, CountInv, Accounted
<1>2. Copies(row) \in Nat /\ faults \in Nat
    BY CopiesType DEF IInv, TypeOK
<1>3. /\ IsFiniteSet(Holders(row)')
      /\ Cardinality(Holders(row)') \in Nat /\ Cardinality(Holders(row)) \in Nat
      /\ Cardinality(Holders(row)') <= Cardinality(Holders(row))
    BY <1>1, HoldersOf
<1>4. Copies(row)' = Copies(row)
    BY DEF Copies
<1>. QED  BY <1>1, <1>2, <1>3, <1>4 DEF Accounted

\* What a relay's step leaves alone: the other relays' rows.
LEMMA OtherRelays ==
    ASSUME IInv, NEW n \in Nodes, RelayStep(n) \/ RelayFault(n), NEW row
    PROVE  /\ \A m \in Nodes \ {n} : relay'[m] = relay[m] /\ Locked(m)' = Locked(m)
           /\ Holders(row)' \subseteq Holders(row) \cup {n}
           /\ row \notin relay'[n].todo => Holders(row)' \subseteq Holders(row) \ {n}
           /\ row \in relay[n].todo => Holders(row)' \subseteq Holders(row)
           /\ row \in FreeRows' => row \in FreeRows \/ row \in Locked(n)
<1>1. \A m \in Nodes \ {n} : relay'[m] = relay[m] /\ Locked(m)' = Locked(m)
    BY RelayRows DEF Locked
<1>2. outbox' \subseteq outbox
    BY DEF RelayStep, RelayFault, SelectBatch, Publish, BatchPublished, FinishBatch, Retry,
           WakeUp, Poll, SelectFails, PublishFails, FinishFails, LoseSession, Crash, Restart
<1>3. row \in FreeRows' => row \in FreeRows \/ row \in Locked(n)
    BY <1>1, <1>2 DEF FreeRows
<1>. QED  BY <1>1, <1>3 DEF Holders

LEMMA RelayCopies ==
    ASSUME IInv, CopyInv, NEW n \in Nodes, RelayStep(n) \/ RelayFault(n) PROVE CopyInv'
<1>0. /\ relay \in [Nodes -> RelayState] /\ relay[n] \in RelayState
      /\ sent \in Seq(Row) /\ faults \in Nat /\ put \in [Requests -> PutState]
    BY DEF IInv, TypeOK
<1>1. NewInv'
    <2>1. committed' = committed
        BY RelayData
    <2>2. \A p \in Requests : put'[p].rows \subseteq put[p].rows
        <3>1. CASE put' = put
            BY <3>1
        <3>2. CASE Crash(n)
            BY <3>2 DEF Crash, NoPut
        <3>. QED
            BY <3>1, <3>2
            DEF RelayStep, RelayFault, SelectBatch, Publish, BatchPublished, FinishBatch, Retry,
                WakeUp, Poll, SelectFails, PublishFails, FinishFails, LoseSession, Restart
    <2>. QED  BY <2>1, <2>2 DEF CopyInv, NewInv
<1>2. ASSUME relay'[n].pc \notin {"publish", "finish"} => Locked(n)' = {} PROVE IdleInv'
    <2>. SUFFICES ASSUME NEW m \in Nodes, relay'[m].pc \notin {"publish", "finish"}
                  PROVE  Locked(m)' = {}
        BY DEF IdleInv
    <2>1. CASE m = n
        BY <1>2, <2>1
    <2>2. CASE m # n
        BY <2>2, RelayRows DEF CopyInv, IdleInv, Locked
    <2>. QED  BY <2>1, <2>2
\* A relay that lets go of its batch.
<1>3. ASSUME NEW pc, relay' = [relay EXCEPT ![n] = Relay(pc)]
      PROVE  /\ relay'[n].todo = {} /\ Locked(n)' = {}
             /\ \A row : Holders(row)' \subseteq Holders(row)
    <2>1. relay'[n].todo = {} /\ Locked(n)' = {}
        BY <1>0, <1>3 DEF Relay, Locked
    <2>2. \A row : Holders(row)' \subseteq Holders(row)
        BY <2>1, OtherRelays DEF Holders
    <2>. QED  BY <2>1, <2>2
<1>4. CASE SelectBatch(n)
    <2>1. PICK batch \in SUBSET FreeRows :
             relay' = [relay EXCEPT ![n] = [Relay("publish") EXCEPT
                                              !.todo = batch, !.skipped = outbox \ FreeRows]]
        BY <1>4 DEF SelectBatch
    <2>2. relay'[n].pc = "publish" /\ relay'[n].todo = batch /\ Locked(n)' = batch
        BY <1>0, <2>1 DEF Relay, Locked
    <2>3. Locked(n) = {} /\ sent' = sent /\ faults' = faults
        BY <1>4 DEF SelectBatch, CopyInv, IdleInv
    <2>4. ASSUME NEW row \in Row PROVE Accounted(row)'
        <3>1. CASE row \in batch
            <4>1. /\ IsFiniteSet(Holders(row))
                  /\ Copies(row) + Cardinality(Holders(row)) <= faults
                BY <2>1, <3>1 DEF CopyInv, CountInv, Accounted
            <4>2. Holders(row)' \subseteq Holders(row) \cup {n}
                BY OtherRelays
            <4>3. /\ IsFiniteSet(Holders(row) \cup {n})
                  /\ Cardinality(Holders(row) \cup {n})
                        = IF n \in Holders(row) THEN Cardinality(Holders(row))
                                                ELSE Cardinality(Holders(row)) + 1
                BY <4>1, FS_AddElement
            <4>4. /\ IsFiniteSet(Holders(row)') /\ Cardinality(Holders(row)') \in Nat
                  /\ Cardinality(Holders(row)') <= Cardinality(Holders(row) \cup {n})
                BY <4>2, <4>3, HoldersOf
            <4>5. Copies(row)' = Copies(row) /\ Copies(row) \in Nat /\ Cardinality(Holders(row)) \in Nat
                BY <1>0, <2>3, <4>1, CopiesType, FS_CardinalityType DEF Copies
            <4>6. row \notin FreeRows'
                BY <2>2, <3>1 DEF FreeRows
            <4>. QED  BY <1>0, <2>3, <4>1, <4>3, <4>4, <4>5, <4>6 DEF Accounted
        <3>2. CASE row \notin batch
            <4>1. Holders(row)' \subseteq Holders(row) /\ (row \in FreeRows' => row \in FreeRows)
                BY <2>2, <2>3, <3>2, OtherRelays
            <4>. QED  BY <2>3, <4>1, StillAccounted
        <3>. QED  BY <3>1, <3>2
    <2>. QED  BY <1>1, <1>2, <2>2, <2>4 DEF CopyInv, CountInv
<1>5. ASSUME NEW one \in relay[n].todo, Publish(n, one) PROVE CopyInv'
    <2>1. /\ relay'[n].pc = "publish" /\ relay'[n].todo = relay[n].todo \ {one}
          /\ Locked(n)' = Locked(n)
        BY <1>0, <1>5 DEF Publish, Locked, RelayState
    <2>2. sent' = Append(sent, one) /\ faults' = faults /\ outbox' = outbox /\ one \in Row
        BY <1>0, <1>5 DEF Publish, RelayState
    <2>3. FreeRows' = FreeRows
        BY <2>1, <2>2, OtherRelays DEF FreeRows
    <2>4. ASSUME NEW row \in Row PROVE Accounted(row)'
        <3>1. /\ IsFiniteSet(Holders(row))
              /\ Copies(row) + Cardinality(Holders(row)) <= 1 + faults
              /\ row \in FreeRows => Copies(row) + Cardinality(Holders(row)) <= faults
            BY DEF CopyInv, CountInv, Accounted
        <3>2. Copies(row) \in Nat /\ Cardinality(Holders(row)) \in Nat
            BY <1>0, <3>1, CopiesType, FS_CardinalityType
        <3>3. Copies(row)' = IF row = one THEN Copies(row) + 1 ELSE Copies(row)
            BY <1>0, <2>2, CopiesOfSent
        <3>4. CASE row = one
            <4>1. Holders(row)' \subseteq Holders(row) \ {n} /\ n \in Holders(row)
                BY <2>1, <3>4, OtherRelays DEF Holders
            <4>2. /\ IsFiniteSet(Holders(row) \ {n})
                  /\ Cardinality(Holders(row) \ {n}) = Cardinality(Holders(row)) - 1
                BY <3>1, <4>1, FS_RemoveElement
            <4>3. /\ IsFiniteSet(Holders(row)') /\ Cardinality(Holders(row)') \in Nat
                  /\ Cardinality(Holders(row)') <= Cardinality(Holders(row) \ {n})
                BY <4>1, <4>2, HoldersOf
            <4>. QED  BY <1>0, <2>2, <2>3, <3>1, <3>2, <3>3, <3>4, <4>2, <4>3 DEF Accounted
        <3>5. CASE row # one
            <4>1. Holders(row)' \subseteq Holders(row)
                BY <2>1, <3>5, OtherRelays DEF Holders
            <4>2. /\ IsFiniteSet(Holders(row)') /\ Cardinality(Holders(row)') \in Nat
                  /\ Cardinality(Holders(row)') <= Cardinality(Holders(row))
                BY <3>1, <4>1, HoldersOf
            <4>. QED  BY <1>0, <2>2, <2>3, <3>1, <3>2, <3>3, <3>5, <4>2 DEF Accounted
        <3>. QED  BY <3>4, <3>5
    <2>. QED  BY <1>1, <1>2, <2>1, <2>4 DEF CopyInv, CountInv
<1>6. ASSUME NEW one \in relay[n].todo, PublishFails(n, one) PROVE CopyInv'
    <2>1. /\ relay'[n].pc = "finish" /\ relay'[n].todo = relay[n].todo
          /\ Locked(n)' = Locked(n)
        BY <1>0, <1>6 DEF PublishFails, Locked, RelayState
    <2>2. /\ sent' = sent \/ sent' = Append(sent, one)
          /\ faults' = faults + 1 /\ outbox' = outbox /\ one \in Row
        BY <1>0, <1>6 DEF PublishFails, Fail, RelayState
    <2>3. FreeRows' = FreeRows
        BY <2>1, <2>2, OtherRelays DEF FreeRows
    <2>4. ASSUME NEW row \in Row PROVE Accounted(row)'
        <3>1. /\ IsFiniteSet(Holders(row))
              /\ Copies(row) + Cardinality(Holders(row)) <= 1 + faults
              /\ row \in FreeRows => Copies(row) + Cardinality(Holders(row)) <= faults
            BY DEF CopyInv, CountInv, Accounted
        <3>2. Copies(row) \in Nat /\ Cardinality(Holders(row)) \in Nat
            BY <1>0, <3>1, CopiesType, FS_CardinalityType
        <3>3. Copies(row)' \in Nat /\ Copies(row)' <= Copies(row) + 1
            <4>1. CASE sent' = sent
                BY <3>2, <4>1 DEF Copies
            <4>2. CASE sent' = Append(sent, one)
                BY <1>0, <2>2, <3>2, <4>2, CopiesOfSent
            <4>. QED  BY <2>2, <4>1, <4>2
        <3>4. Holders(row)' = Holders(row)
            BY <2>1, OtherRelays DEF Holders
        <3>. QED  BY <1>0, <2>2, <2>3, <3>1, <3>2, <3>3, <3>4 DEF Accounted
    <2>. QED  BY <1>1, <1>2, <2>1, <2>4 DEF CopyInv, CountInv
<1>7. CASE FinishBatch(n)
    <2>1. /\ sent' = sent /\ faults' = faults /\ outbox' = outbox \ relay[n].done
          /\ relay[n].held
          /\ \E pc : relay' = [relay EXCEPT ![n] = Relay(pc)]
        BY <1>7 DEF FinishBatch
    <2>2. /\ relay'[n].todo = {} /\ Locked(n)' = {}
          /\ \A row : Holders(row)' \subseteq Holders(row)
        BY <1>3, <2>1
    <2>3. ASSUME NEW row \in Row PROVE Accounted(row)'
        <3>1. CASE row \in relay[n].todo
            <4>1. /\ IsFiniteSet(Holders(row))
                  /\ Copies(row) + Cardinality(Holders(row)) <= 1 + faults
                BY DEF CopyInv, CountInv, Accounted
            <4>2. Holders(row)' \subseteq Holders(row) \ {n} /\ n \in Holders(row)
                BY <2>2, <3>1, OtherRelays DEF Holders
            <4>3. /\ IsFiniteSet(Holders(row) \ {n})
                  /\ Cardinality(Holders(row) \ {n}) = Cardinality(Holders(row)) - 1
                BY <4>1, <4>2, FS_RemoveElement
            <4>4. /\ IsFiniteSet(Holders(row)') /\ Cardinality(Holders(row)') \in Nat
                  /\ Cardinality(Holders(row)') <= Cardinality(Holders(row) \ {n})
                BY <4>2, <4>3, HoldersOf
            <4>5. /\ Copies(row)' = Copies(row) /\ Copies(row) \in Nat
                  /\ Cardinality(Holders(row)) \in Nat
                BY <1>0, <2>1, <4>1, CopiesType, FS_CardinalityType DEF Copies
            <4>. QED  BY <1>0, <2>1, <4>1, <4>3, <4>4, <4>5 DEF Accounted
        <3>2. CASE row \notin relay[n].todo
            <4>1. row \in FreeRows' => row \in FreeRows
                BY <2>1, <3>2, OtherRelays DEF FreeRows, Locked
            <4>. QED  BY <2>1, <2>2, <4>1, StillAccounted
        <3>. QED  BY <3>1, <3>2
    <2>. QED  BY <1>1, <1>2, <2>2, <2>3 DEF CopyInv, CountInv
<1>8. CASE SelectFails(n) \/ FinishFails(n) \/ Crash(n) \/ Restart(n)
    <2>1. /\ sent' = sent
          /\ \E pc : relay' = [relay EXCEPT ![n] = Relay(pc)]
          /\ \/ faults' = faults + 1
             \/ faults' = faults /\ Locked(n) = {}
        BY <1>8 DEF SelectFails, FinishFails, Crash, Restart, Fail, Locked, CopyInv, IdleInv
    <2>2. Locked(n)' = {} /\ \A row : Holders(row)' \subseteq Holders(row)
        BY <1>3, <2>1
    <2>3. ASSUME NEW row \in Row PROVE Accounted(row)'
        BY <2>1, <2>2, OtherRelays, StillAccounted
    <2>. QED  BY <1>1, <1>2, <2>2, <2>3 DEF CopyInv, CountInv
<1>9. CASE BatchPublished(n) \/ Retry(n) \/ WakeUp(n) \/ Poll(n)
    <2>1. /\ sent' = sent /\ faults' = faults /\ outbox' = outbox
          /\ relay[n].pc \in {"publish", "backoff", "wait"}
        BY <1>9 DEF BatchPublished, Retry, WakeUp, Poll
    <2>2. PICK pc \in {"finish", "drain"} :
             /\ relay' = [relay EXCEPT ![n].pc = pc]
             /\ pc = "drain" => relay[n].pc \in {"backoff", "wait"}
        BY <1>9 DEF BatchPublished, Retry, WakeUp, Poll
    <2>3. /\ relay'[n].pc = pc /\ relay'[n].todo = relay[n].todo
          /\ Locked(n)' = Locked(n)
        BY <1>0, <2>2 DEF Locked, RelayState
    <2>4. pc = "drain" => Locked(n) = {}
        BY <2>2 DEF CopyInv, IdleInv
    <2>5. ASSUME NEW row \in Row PROVE Accounted(row)'
        <3>1. Holders(row)' \subseteq Holders(row)
            BY <2>3, OtherRelays DEF Holders
        <3>2. row \in FreeRows' => row \in FreeRows
            BY <2>1, <2>3, OtherRelays DEF FreeRows
        <3>. QED  BY <2>1, <3>1, <3>2, StillAccounted
    <2>. QED  BY <1>1, <1>2, <2>3, <2>4, <2>5 DEF CopyInv, CountInv
<1>10. CASE LoseSession(n)
    <2>1. /\ sent' = sent /\ faults' = faults + 1
          /\ relay'[n].todo = relay[n].todo /\ Locked(n)' = {}
        BY <1>0, <1>10 DEF LoseSession, Fail, Locked, RelayState
    <2>2. ASSUME NEW row \in Row PROVE Accounted(row)'
        <3>1. Holders(row)' \subseteq Holders(row)
            BY <2>1, OtherRelays DEF Holders
        <3>. QED  BY <2>1, <3>1, StillAccounted
    <2>. QED  BY <1>1, <1>2, <2>1, <2>2 DEF CopyInv, CountInv
<1>. QED
    BY <1>4, <1>5, <1>6, <1>7, <1>8, <1>9, <1>10 DEF RelayStep, RelayFault

\* The relays of any number of processes send a row once, and once more for each
\* failure at most (SKIP LOCKED of relayBatch, and the DELETE in the transaction
\* that holds the locks).
THEOREM RepeatsCostFaults == Spec => []RepeatsNeedFaults
<1>1. Init => CopyInv
    BY InitCopies
<1>2. IInv /\ OrderInv /\ CopyInv /\ [Next]_vars => CopyInv'
    <2>. SUFFICES ASSUME IInv, OrderInv, CopyInv, [Next]_vars PROVE CopyInv'
        OBVIOUS
    <2>1. CASE UNCHANGED vars
        BY <2>1 DEF vars, CopyInv, NewInv, IdleInv, CountInv, Accounted, Holders, Copies,
                    FreeRows, Locked
    <2>. QED  BY <2>1, WriteCopies, RelayCopies DEF Next
<1>3. IInv /\ CopyInv => RepeatsNeedFaults
    <2>. SUFFICES ASSUME IInv, CopyInv, NEW row \in committed PROVE Copies(row) <= 1 + faults
        BY DEF RepeatsNeedFaults
    <2>1. row \in Row /\ sent \in Seq(Row) /\ faults \in Nat
        BY DEF IInv, TypeOK
    <2>2. /\ IsFiniteSet(Holders(row))
          /\ Copies(row) + Cardinality(Holders(row)) <= 1 + faults
        BY <2>1 DEF CopyInv, CountInv, Accounted
    <2>3. Copies(row) \in Nat /\ Cardinality(Holders(row)) \in Nat
        BY <2>1, <2>2, CopiesType, FS_CardinalityType
    <2>. QED  BY <2>1, <2>2, <2>3
<1>. QED  BY <1>1, <1>2, <1>3, SpecOrder, PTL DEF Spec
===============================================================================
