---------------------------- MODULE PublisherProofs ----------------------------
(***************************************************************************)
(* RabbitPublisher and RabbitBroker keep their promise for any number of    *)
(* messages, channels and failures: Publish returns nil only for a message  *)
(* the server has, RabbitBroker's but on a channel it had to keep.          *)
(*                                                                          *)
(* Neither property is inductive, for an answer is taken without a look at  *)
(* its message.  What makes it safe is that a channel that was not kept     *)
(* never carries anything but the one message of the call under way (Own):  *)
(* whatever fails takes the channel with it, and the next one is new.       *)
(***************************************************************************)
EXTENDS Publishers, TLAPS

Empty(c) == Len(c.inflight) = 0 /\ Len(c.answers) = 0

\* Channel c carries at most one message or answer, and it is m's.
Own(c, m, have) ==
    \/ Empty(c)
    \/ Len(c.inflight) = 1 /\ c.inflight[1] = m /\ Len(c.answers) = 0
    \/ Len(c.inflight) = 0 /\ Len(c.answers) = 1 /\ (c.answers[1].ack => m \in have)

ChannelInv ==
    /\ call.pc = "open" => pub = 0
    /\ call.pc = "wait" => pub # 0
    /\ call.pc \in {"open", "publish", "wait", "failed"} => call.msg \in Messages
    /\ pub # 0 /\ pub \notin kept /\ call.pc \in {"idle", "publish"} => Empty(channels[pub])
    /\ pub # 0 /\ pub \notin kept /\ call.pc = "wait" => Own(channels[pub], call.msg, stored)

\* A channel opened later is not one of the kept ones; the relay keeps none.
KeptInv ==
    /\ kept \subseteq 0..Len(channels)
    /\ publisher = "relay" => kept = {}

IInv == ConfirmsTypeOK /\ RelayNilMeansStored /\ ChannelInv /\ KeptInv

LEMMA InitIInv == Init => IInv
<1>. SUFFICES ASSUME Init PROVE IInv
    OBVIOUS
<1>1. NewChannel \in Channel /\ Empty(NewChannel)
    BY DEF NewChannel, Channel, Empty
<1>2. Len(<<NewChannel>>) = 1 /\ <<NewChannel>>[1] = NewChannel
    OBVIOUS
<1>3. channels = <<NewChannel>> /\ pub = 1 /\ call = NoCall /\ stored = {} /\ confirmed = {}
      /\ kept = {}
    BY DEF Init, Broker!Init, Broker!InitConfirms, Broker!NewChannel, Broker!NoCall,
           NewChannel, NoCall
<1>4. channels \in Seq(Channel) /\ Len(channels) = 1 /\ channels[1] = NewChannel
    BY <1>1, <1>2, <1>3
<1>. QED
    BY <1>1, <1>3, <1>4, ConfirmsAssumption
    DEF IInv, ConfirmsTypeOK, RelayNilMeansStored, NilMeansStored, ChannelInv, KeptInv,
        NoCall, CallState

\* Changing one channel keeps the others and the type.
LEMMA UpdateChannel ==
    ASSUME channels \in Seq(Channel), NEW i \in 1..Len(channels), NEW c \in Channel,
           channels' = [channels EXCEPT ![i] = c]
    PROVE  /\ channels' \in Seq(Channel) /\ Len(channels') = Len(channels)
           /\ channels'[i] = c
           /\ \A j \in 1..Len(channels) : j # i => channels'[j] = channels[j]
    OBVIOUS

\* A channel as a record of its three fields.
LEMMA ChannelFields ==
    ASSUME channels \in Seq(Channel), NEW i \in 1..Len(channels)
    PROVE  /\ channels[i] \in Channel
           /\ channels[i].inflight \in Seq(Messages)
           /\ channels[i].answers \in Seq(Answer)
           /\ channels[i].alive \in BOOLEAN
           /\ Len(channels[i].inflight) \in Nat /\ Len(channels[i].answers) \in Nat
<1>1. channels[i] \in Channel
    OBVIOUS
<1>. QED  BY <1>1 DEF Channel

\* Closing the publisher's channel leaves a channel.
LEMMA ClosingKeepsType ==
    ASSUME IInv
    PROVE  Closed(pub) \in Seq(Channel) /\ Len(Closed(pub)) = Len(channels)
<1>0. channels \in Seq(Channel) /\ (pub = 0 \/ pub \in 1..Len(channels))
    BY DEF IInv, ConfirmsTypeOK
<1>1. CASE pub = 0
    BY <1>0, <1>1 DEF Closed
<1>2. CASE pub # 0
    <2>1. PICK c : c = [channels[pub] EXCEPT !.alive = FALSE, !.answers = <<>>]
        OBVIOUS
    <2>2. c \in Channel
        <3>1. <<>> \in Seq(Answer) /\ channels[pub] \in Channel
            BY <1>0, <1>2, ChannelFields
        <3>. QED  BY <2>1, <3>1 DEF Channel
    <2>3. Closed(pub) = [channels EXCEPT ![pub] = c]
        BY <1>2, <2>1 DEF Closed
    <2>. QED  BY <1>0, <1>2, <2>2, <2>3
<1>. QED  BY <1>1, <1>2

-------------------------------------------------------------------------------
(* What the two publishers do to the channels around an attempt: open a new   *)
(* one, close theirs, or neither.                                             *)

LEMMA Opening ==
    ASSUME IInv, NEW cs \in Seq(Channel), Len(cs) = Len(channels),
           channels' = Append(cs, NewChannel), pub' = Len(channels) + 1,
           call' \in CallState, call'.pc \in {"idle", "publish"},
           call'.pc = "publish" => call'.msg \in Messages,
           UNCHANGED <<stored, confirmed, kept, publisher>>
    PROVE  IInv'
<1>0. channels \in Seq(Channel) /\ Len(channels) \in Nat /\ kept \subseteq 0..Len(channels)
    BY DEF IInv, ConfirmsTypeOK, KeptInv
<1>1. NewChannel \in Channel /\ Empty(NewChannel)
    BY DEF NewChannel, Channel, Empty
<1>2. /\ channels' \in Seq(Channel) /\ Len(channels') = Len(channels) + 1
      /\ channels'[Len(channels) + 1] = NewChannel
    BY <1>0, <1>1
<1>3. ConfirmsTypeOK'
    BY <1>0, <1>2 DEF IInv, ConfirmsTypeOK
<1>4. ChannelInv'
    BY <1>0, <1>1, <1>2 DEF ChannelInv
<1>5. KeptInv' /\ RelayNilMeansStored'
    BY <1>0, <1>2 DEF IInv, KeptInv, RelayNilMeansStored, NilMeansStored
<1>. QED  BY <1>3, <1>4, <1>5 DEF IInv

LEMMA Closing ==
    ASSUME IInv, channels' = Closed(pub), pub' = 0, call' \in CallState, call'.pc = "idle",
           UNCHANGED <<stored, confirmed, kept, publisher>>
    PROVE  IInv'
<1>1. channels' \in Seq(Channel) /\ Len(channels') = Len(channels) /\ Len(channels) \in Nat
    BY ClosingKeepsType DEF IInv, ConfirmsTypeOK
<1>2. ConfirmsTypeOK' /\ ChannelInv'
    BY <1>1 DEF IInv, ConfirmsTypeOK, ChannelInv
<1>3. KeptInv' /\ RelayNilMeansStored'
    BY <1>1 DEF IInv, KeptInv, RelayNilMeansStored, NilMeansStored
<1>. QED  BY <1>2, <1>3 DEF IInv

\* Only the call moves: it starts, or ends without an attempt or after one on a
\* channel that is kept.
LEMMA Calling ==
    ASSUME IInv, UNCHANGED <<channels, pub, stored, confirmed, publisher>>, call' \in CallState,
           \/ /\ call.pc = "idle" /\ call'.pc \in {"open", "publish"} /\ call'.msg \in Messages
              /\ call'.pc = "open" => pub = 0
              /\ kept' = kept
           \/ call'.pc = "idle" /\ call.pc = "open" /\ kept' = kept
           \/ call'.pc = "idle" /\ publisher = "broker" /\ kept' = kept \cup {pub}
    PROVE  IInv'
<1>1. Len(channels) \in Nat /\ pub \in 0..Len(channels)
    BY DEF IInv, ConfirmsTypeOK
<1>2. ConfirmsTypeOK' /\ RelayNilMeansStored' /\ KeptInv'
    BY <1>1 DEF IInv, ConfirmsTypeOK, RelayNilMeansStored, NilMeansStored, KeptInv
<1>3. ChannelInv'
    BY <1>1 DEF IInv, ChannelInv
<1>. QED  BY <1>2, <1>3 DEF IInv

-------------------------------------------------------------------------------
(* publishConfirmed. *)

\* The answer it takes from a channel that was not kept is its own.
LEMMA AnswerIsOwn ==
    ASSUME IInv, call.pc = "wait", channels[pub].answers # <<>>
    PROVE  /\ pub \in 1..Len(channels) /\ call.msg \in Messages
           /\ pub \notin kept =>
                  /\ Len(channels[pub].answers) = 1 /\ Len(channels[pub].inflight) = 0
                  /\ Head(channels[pub].answers).ack => call.msg \in stored
<1>0. channels \in Seq(Channel) /\ pub \in 1..Len(channels) /\ call.msg \in Messages
    BY DEF IInv, ConfirmsTypeOK, ChannelInv
<1>1. ASSUME pub \notin kept
      PROVE  /\ Len(channels[pub].answers) = 1 /\ Len(channels[pub].inflight) = 0
             /\ Head(channels[pub].answers).ack => call.msg \in stored
    <2>1. channels[pub].answers \in Seq(Answer) /\ Len(channels[pub].answers) \in Nat
        BY <1>0, ChannelFields
    <2>2. Len(channels[pub].answers) # 0 /\ Head(channels[pub].answers) = channels[pub].answers[1]
        BY <2>1
    <2>3. Own(channels[pub], call.msg, stored)
        BY <1>0, <1>1 DEF IInv, ChannelInv
    <2>. QED  BY <2>2, <2>3 DEF Own, Empty
<1>. QED  BY <1>0, <1>1

LEMMA AttemptStep ==
    ASSUME IInv, PublishConfirmed, UNCHANGED <<kept, publisher>>
    PROVE  IInv'
<1>0. /\ channels \in Seq(Channel) /\ Len(channels) \in Nat /\ pub \in 0..Len(channels)
      /\ pub # 0 => pub \in 1..Len(channels)
      /\ call \in CallState
    BY DEF IInv, ConfirmsTypeOK
<1>1. CASE Send
    <2>1. pub \in 1..Len(channels) /\ call.pc = "publish" /\ call.msg \in Messages
        BY <1>0, <1>1 DEF Send, PublisherOpen, IInv, ChannelInv
    <2>2. PICK c : c = [channels[pub] EXCEPT !.inflight = Append(@, call.msg)]
        OBVIOUS
    <2>3. channels[pub] \in Channel /\ channels[pub].inflight \in Seq(Messages)
        BY <1>0, <2>1, ChannelFields
    <2>4. /\ c.inflight = Append(channels[pub].inflight, call.msg)
          /\ c.answers = channels[pub].answers /\ c \in Channel
        <3>1. Append(channels[pub].inflight, call.msg) \in Seq(Messages)
            BY <2>1, <2>3
        <3>. QED  BY <2>2, <2>3, <3>1 DEF Channel
    <2>5. channels' \in Seq(Channel) /\ Len(channels') = Len(channels) /\ channels'[pub] = c
        <3>1. channels' = [channels EXCEPT ![pub] = c]
            BY <1>1, <2>2 DEF Send
        <3>. QED  BY <1>0, <2>1, <2>4, <3>1, UpdateChannel
    <2>6. ASSUME pub \notin kept PROVE Own(c, call.msg, stored)
        <3>1. Empty(channels[pub])
            BY <2>1, <2>6 DEF IInv, ChannelInv
        <3>2. Len(c.inflight) = 1 /\ c.inflight[1] = call.msg /\ Len(c.answers) = 0
            BY <2>3, <2>4, <3>1 DEF Empty
        <3>. QED  BY <3>2 DEF Own
    <2>7. call' = [call EXCEPT !.pc = "wait"] /\ UNCHANGED <<pub, stored, confirmed>>
        BY <1>1 DEF Send
    <2>8. ConfirmsTypeOK' /\ KeptInv' /\ RelayNilMeansStored'
        BY <1>0, <2>5, <2>7
        DEF IInv, ConfirmsTypeOK, CallState, KeptInv, RelayNilMeansStored, NilMeansStored
    <2>9. ChannelInv'
        BY <1>0, <2>1, <2>5, <2>6, <2>7 DEF ChannelInv, CallState
    <2>. QED  BY <2>8, <2>9 DEF IInv
<1>2. CASE SendFails \/ StopWaiting
    <2>1. /\ call' = [call EXCEPT !.pc = "failed"] /\ call.pc \in {"publish", "wait"}
          /\ UNCHANGED <<channels, pub, stored, confirmed>>
        BY <1>2 DEF SendFails, StopWaiting
    <2>. QED
        BY <1>0, <2>1
        DEF IInv, ConfirmsTypeOK, CallState, ChannelInv, KeptInv, RelayNilMeansStored, NilMeansStored
<1>3. CASE TakeAnswer
    <2>1. call.pc = "wait" /\ channels[pub].answers # <<>> /\ UNCHANGED <<pub, stored>>
        BY <1>3 DEF TakeAnswer
    <2>2. /\ pub \in 1..Len(channels) /\ call.msg \in Messages
          /\ pub \notin kept =>
                 /\ Len(channels[pub].answers) = 1 /\ Len(channels[pub].inflight) = 0
                 /\ Head(channels[pub].answers).ack => call.msg \in stored
        BY <2>1, AnswerIsOwn
    <2>3. channels[pub] \in Channel /\ channels[pub].answers \in Seq(Answer)
        BY <1>0, <2>2, ChannelFields
    <2>4. PICK c : c = [channels[pub] EXCEPT !.answers = Tail(@)]
        OBVIOUS
    <2>5. /\ c.inflight = channels[pub].inflight /\ c.answers = Tail(channels[pub].answers)
          /\ c \in Channel
        <3>1. Tail(channels[pub].answers) \in Seq(Answer)
            BY <2>1, <2>3
        <3>. QED  BY <2>3, <2>4, <3>1 DEF Channel
    <2>6. pub \notin kept => Empty(c)
        BY <2>2, <2>3, <2>5 DEF Empty
    <2>7. channels' \in Seq(Channel) /\ Len(channels') = Len(channels) /\ channels'[pub] = c
        <3>1. channels' = [channels EXCEPT ![pub] = c]
            BY <1>3, <2>4 DEF TakeAnswer
        <3>. QED  BY <1>0, <2>2, <2>5, <3>1, UpdateChannel
    <2>8. CASE Head(channels[pub].answers).ack
        <3>1. confirmed' = confirmed \cup {call.msg} /\ call' = NoCall
            BY <1>3, <2>8 DEF TakeAnswer
        <3>2. call' \in CallState /\ call'.pc = "idle"
            BY <3>1 DEF NoCall, CallState
        <3>3. ConfirmsTypeOK' /\ KeptInv'
            BY <1>0, <2>1, <2>2, <2>7, <3>1, <3>2 DEF IInv, ConfirmsTypeOK, KeptInv
        <3>4. RelayNilMeansStored'
            BY <2>1, <2>2, <2>8, <3>1 DEF IInv, KeptInv, RelayNilMeansStored, NilMeansStored
        <3>5. ChannelInv'
            BY <2>1, <2>6, <2>7, <3>2 DEF ChannelInv
        <3>. QED  BY <3>3, <3>4, <3>5 DEF IInv
    <2>9. CASE ~Head(channels[pub].answers).ack
        <3>1. confirmed' = confirmed /\ call' = [call EXCEPT !.pc = "failed"]
            BY <1>3, <2>9 DEF TakeAnswer
        <3>2. call' \in CallState /\ call'.pc = "failed"
            BY <1>0, <3>1 DEF CallState
        <3>3. ConfirmsTypeOK' /\ KeptInv' /\ RelayNilMeansStored'
            BY <2>1, <2>7, <3>1, <3>2
            DEF IInv, ConfirmsTypeOK, KeptInv, RelayNilMeansStored, NilMeansStored
        <3>4. ChannelInv'
            BY <2>1, <2>2, <3>1, <3>2 DEF ChannelInv, IInv, ConfirmsTypeOK, CallState
        <3>. QED  BY <3>3, <3>4 DEF IInv
    <2>. QED  BY <2>8, <2>9
<1>. QED  BY <1>1, <1>2, <1>3 DEF PublishConfirmed

-------------------------------------------------------------------------------
(* The steps of the server and the network. *)

LEMMA EnvironmentStep == ASSUME IInv, Environment, UNCHANGED <<kept, publisher>> PROVE IInv'
<1>0. /\ channels \in Seq(Channel) /\ Len(channels) \in Nat /\ pub \in 0..Len(channels)
      /\ pub # 0 => pub \in 1..Len(channels)
      /\ stored \in SUBSET Messages
    BY DEF IInv, ConfirmsTypeOK
<1>1. PICK i \in 1..Len(channels) : ServerStores(i) \/ ServerRejects(i) \/ Drop(i)
    BY <1>0 DEF Environment
<1>2. /\ channels[i].inflight \in Seq(Messages) /\ channels[i].answers \in Seq(Answer)
      /\ Len(channels[i].inflight) \in Nat /\ Len(channels[i].answers) \in Nat
      /\ channels[i].alive \in BOOLEAN /\ channels[i] \in Channel
    BY <1>0, ChannelFields
<1>3. /\ UNCHANGED <<pub, call, confirmed>>
      /\ stored \subseteq stored' /\ stored' \in SUBSET Messages
    <2>1. UNCHANGED <<pub, call, confirmed>>
        BY <1>1 DEF ServerStores, ServerRejects, Drop
    <2>2. CASE ServerStores(i)
        <3>1. Head(channels[i].inflight) \in Messages
            BY <1>2, <2>2 DEF ServerStores
        <3>2. stored' = stored \cup {Head(channels[i].inflight)}
            BY <2>2 DEF ServerStores
        <3>. QED  BY <1>0, <2>1, <3>1, <3>2
    <2>3. CASE ServerRejects(i) \/ Drop(i)
        BY <1>0, <2>1, <2>3 DEF ServerRejects, Drop
    <2>. QED  BY <1>1, <2>2, <2>3
\* Whatever happens to the channel, it still carries nothing but m's message.
<1>. DEFINE Harmless == \E c \in Channel :
              /\ channels' = [channels EXCEPT ![i] = c]
              /\ \A m : (Own(channels[i], m, stored) => Own(c, m, stored'))
              /\ Empty(channels[i]) => Empty(c)
<1>4. Harmless
    <2>1. CASE Drop(i)
        <3>1. PICK rest \in {channels[i].inflight, <<>>} :
                 channels' = [channels EXCEPT ![i].alive = FALSE, ![i].inflight = rest]
            BY <2>1 DEF Drop
        <3>2. PICK c : c = [channels[i] EXCEPT !.alive = FALSE, !.inflight = rest]
            OBVIOUS
        <3>3. rest \in Seq(Messages) /\ Len(rest) \in Nat
              /\ (Len(rest) = 0 \/ rest = channels[i].inflight)
            <4>1. CASE rest = <<>>
                BY <1>2, <4>1
            <4>2. CASE rest = channels[i].inflight
                BY <1>2, <4>2
            <4>. QED  BY <3>1, <4>1, <4>2
        <3>4. c \in Channel /\ c.inflight = rest /\ c.answers = channels[i].answers
            BY <1>2, <3>2, <3>3 DEF Channel
        <3>5. \A m : Own(channels[i], m, stored) => Own(c, m, stored')
            BY <1>3, <3>3, <3>4 DEF Own, Empty
        <3>6. Empty(channels[i]) => Empty(c)
            BY <1>2, <3>3, <3>4 DEF Empty
        <3>. QED  BY <3>1, <3>2, <3>4, <3>5, <3>6
    <2>2. ASSUME NEW ack \in BOOLEAN, channels[i].inflight # <<>>, channels' = Answered(i, ack),
                 ack => Head(channels[i].inflight) \in stored'
          PROVE  Harmless
        <3>. DEFINE m1 == Head(channels[i].inflight)
                    rest == Tail(channels[i].inflight)
                    more == IF channels[i].alive
                            THEN Append(channels[i].answers, [msg |-> m1, ack |-> ack])
                            ELSE channels[i].answers
        <3>1. PICK c : c = [channels[i] EXCEPT !.inflight = rest, !.answers = more]
            OBVIOUS
        <3>2. m1 \in Messages /\ rest \in Seq(Messages) /\ Len(rest) = Len(channels[i].inflight) - 1
              /\ m1 = channels[i].inflight[1] /\ Len(channels[i].inflight) >= 1
              /\ \A j \in 1..Len(rest) : rest[j] = channels[i].inflight[j + 1]
            BY <1>2, <2>2
        <3>3. [msg |-> m1, ack |-> ack] \in Answer
            BY <3>2 DEF Answer
        <3>4. /\ more \in Seq(Answer)
              /\ \/ more = channels[i].answers
                 \/ more = Append(channels[i].answers, [msg |-> m1, ack |-> ack])
            BY <1>2, <3>3
        <3>5. channels' = [channels EXCEPT ![i] = c]
            BY <2>2, <3>1 DEF Answered
        <3>. HIDE DEF m1, rest, more
        <3>6. c \in Channel /\ c.inflight = rest /\ c.answers = more
            BY <1>2, <3>1, <3>2, <3>4 DEF Channel
        <3>9. Len(channels[i].inflight) # 0
            BY <1>2, <3>2
        <3>7. ASSUME NEW m, Own(channels[i], m, stored) PROVE Own(c, m, stored')
            <4>1. Len(channels[i].inflight) = 1 /\ Len(channels[i].answers) = 0 /\ m1 = m
                BY <3>2, <3>7, <3>9 DEF Own, Empty
            <4>2. Len(rest) = 0
                BY <3>2, <4>1
            <4>5. ack => m \in stored'
                BY <2>2, <4>1 DEF m1
            <4>3. CASE more = channels[i].answers
                BY <3>6, <4>1, <4>2, <4>3 DEF Own, Empty
            <4>4. CASE more = Append(channels[i].answers, [msg |-> m1, ack |-> ack])
                <5>1. Len(more) = 1 /\ more[1] = [msg |-> m1, ack |-> ack]
                    BY <1>2, <4>1, <4>4
                <5>. QED  BY <3>6, <4>2, <4>5, <5>1 DEF Own
            <4>. QED  BY <3>4, <4>3, <4>4
        <3>8. ~Empty(channels[i])
            BY <3>9 DEF Empty
        <3>. QED  BY <3>5, <3>6, <3>7, <3>8
    <2>3. CASE ServerStores(i)
        BY <2>2, <2>3 DEF ServerStores
    <2>4. CASE ServerRejects(i)
        BY <2>2, <2>4 DEF ServerRejects
    <2>. QED  BY <1>1, <2>1, <2>3, <2>4
<1>5. PICK c \in Channel :
         /\ channels' = [channels EXCEPT ![i] = c]
         /\ \A m : (Own(channels[i], m, stored) => Own(c, m, stored'))
         /\ Empty(channels[i]) => Empty(c)
    BY <1>4
<1>6. /\ channels' \in Seq(Channel) /\ Len(channels') = Len(channels) /\ channels'[i] = c
      /\ \A j \in 1..Len(channels) : j # i => channels'[j] = channels[j]
    BY <1>0, <1>5, UpdateChannel
<1>7. ChannelInv'
    <2>1. pub # 0 /\ Empty(channels[pub]) => Empty(channels'[pub])
        BY <1>0, <1>5, <1>6
    <2>2. pub # 0 /\ Own(channels[pub], call.msg, stored) => Own(channels'[pub], call.msg, stored')
        <3>1. CASE pub = i
            BY <1>5, <1>6, <3>1
        <3>2. CASE pub # i
            BY <1>0, <1>3, <1>6, <3>2 DEF Own, Empty
        <3>. QED  BY <3>1, <3>2
    <2>. QED  BY <1>3, <2>1, <2>2 DEF IInv, ChannelInv
<1>8. ConfirmsTypeOK' /\ RelayNilMeansStored' /\ KeptInv'
    BY <1>0, <1>3, <1>6
    DEF IInv, ConfirmsTypeOK, RelayNilMeansStored, NilMeansStored, KeptInv
<1>. QED  BY <1>7, <1>8 DEF IInv

-------------------------------------------------------------------------------
(* Both publishers attempt, and meet the server, by the actions of Confirms. *)

LEMMA RelayActs ==
    /\ Relay!PublishConfirmed <=> PublishConfirmed
    /\ Relay!Environment <=> Environment
    /\ Relay!Closed(pub) = Closed(pub) /\ Relay!NewChannel = NewChannel /\ Relay!NoCall = NoCall
BY DEF Relay!PublishConfirmed, Relay!Send, Relay!SendFails, Relay!TakeAnswer, Relay!StopWaiting,
       Relay!PublisherOpen, Relay!NoCall, Relay!Environment, Relay!ServerStores,
       Relay!ServerRejects, Relay!Drop, Relay!Answered, Relay!Closed, Relay!NewChannel,
       PublishConfirmed, Send, SendFails, TakeAnswer, StopWaiting, PublisherOpen, NoCall,
       Environment, ServerStores, ServerRejects, Drop, Answered, Closed, NewChannel

LEMMA BrokerActs ==
    /\ Broker!PublishConfirmed <=> PublishConfirmed
    /\ Broker!Environment <=> Environment
    /\ Broker!Closed(pub) = Closed(pub) /\ Broker!NewChannel = NewChannel /\ Broker!NoCall = NoCall
BY DEF Broker!PublishConfirmed, Broker!Send, Broker!SendFails, Broker!TakeAnswer,
       Broker!StopWaiting, Broker!PublisherOpen, Broker!NoCall, Broker!Environment,
       Broker!ServerStores, Broker!ServerRejects, Broker!Drop, Broker!Answered, Broker!Closed,
       Broker!NewChannel,
       PublishConfirmed, Send, SendFails, TakeAnswer, StopWaiting, PublisherOpen, NoCall,
       Environment, ServerStores, ServerRejects, Drop, Answered, Closed, NewChannel

LEMMA CallStates ==
    ASSUME ConfirmsTypeOK
    PROVE  /\ NoCall \in CallState /\ NoCall.pc = "idle"
           /\ \A m \in Messages, pc \in {"open", "publish"} :
                 LET started == [pc |-> pc, msg |-> m, attempt |-> 0]
                 IN  started \in CallState /\ started.pc = pc /\ started.msg = m
           /\ LET retried == [call EXCEPT !.pc = "publish", !.attempt = 1]
              IN  retried \in CallState /\ retried.pc = "publish" /\ retried.msg = call.msg
           /\ LET opened == [call EXCEPT !.pc = "publish"]
              IN  opened \in CallState /\ opened.pc = "publish" /\ opened.msg = call.msg
<1>1. call \in CallState
    BY DEF ConfirmsTypeOK
<1>2. NoCall \in CallState /\ NoCall.pc = "idle"
    BY DEF CallState, NoCall
<1>3. ASSUME NEW m \in Messages, NEW pc \in {"open", "publish"}
      PROVE  [pc |-> pc, msg |-> m, attempt |-> 0] \in CallState
    BY DEF CallState
<1>4. [call EXCEPT !.pc = "publish"] \in CallState
    BY <1>1 DEF CallState
<1>5. [call EXCEPT !.pc = "publish", !.attempt = 1] \in CallState
    <2>1. [[call EXCEPT !.pc = "publish"] EXCEPT !.attempt = 1] \in CallState
        <3>1. 1 \in 0..1
            OBVIOUS
        <3>. QED  BY <1>4, <3>1 DEF CallState
    <2>2. [call EXCEPT !.pc = "publish", !.attempt = 1]
          = [[call EXCEPT !.pc = "publish"] EXCEPT !.attempt = 1]
        OBVIOUS
    <2>. QED  BY <2>1, <2>2
<1>6. /\ [call EXCEPT !.pc = "publish"].pc = "publish"
      /\ [call EXCEPT !.pc = "publish"].msg = call.msg
      /\ [call EXCEPT !.pc = "publish", !.attempt = 1].pc = "publish"
      /\ [call EXCEPT !.pc = "publish", !.attempt = 1].msg = call.msg
    BY <1>1 DEF CallState
<1>. QED  BY <1>2, <1>3, <1>4, <1>5, <1>6

LEMMA RelayStep ==
    ASSUME IInv, publisher = "relay", Relay!Next, UNCHANGED <<kept, publisher>>
    PROVE  IInv'
<1>0. ConfirmsTypeOK
    BY DEF IInv
<1>1. ASSUME NEW m \in Messages, Relay!Publish(m) PROVE IInv'
    <2>1. PICK pc \in {"open", "publish"} :
             /\ call.pc = "idle" /\ call' = [pc |-> pc, msg |-> m, attempt |-> 0]
             /\ pc = "open" => pub = 0
             /\ UNCHANGED <<channels, pub, stored, confirmed>>
        BY <1>1 DEF Relay!Publish
    <2>. QED  BY <1>0, <2>1, CallStates, Calling
<1>2. CASE Relay!OpenLocked
    <2>1. /\ call.pc = "open" /\ call' = [call EXCEPT !.pc = "publish"]
          /\ channels' = Append(channels, NewChannel) /\ pub' = Len(channels) + 1
          /\ UNCHANGED <<stored, confirmed>>
        BY <1>2, RelayActs DEF Relay!OpenLocked
    <2>2. channels \in Seq(Channel) /\ call.msg \in Messages
        BY <2>1 DEF IInv, ConfirmsTypeOK, ChannelInv
    <2>. QED  BY <1>0, <2>1, <2>2, CallStates, Opening
<1>3. CASE Relay!OpenFails
    <2>1. call.pc = "open" /\ call' = NoCall /\ UNCHANGED <<channels, pub, stored, confirmed>>
        BY <1>3, RelayActs DEF Relay!OpenFails
    <2>. QED  BY <1>0, <2>1, CallStates, Calling
<1>4. CASE Relay!PublishFails \/ Relay!Close
    <2>1. /\ channels' = Closed(pub) /\ pub' = 0 /\ UNCHANGED <<stored, confirmed>>
          /\ \/ call' = NoCall
             \/ call.pc = "idle" /\ call' = call
        BY <1>4, RelayActs DEF Relay!PublishFails, Relay!Close
    <2>2. call' \in CallState /\ call'.pc = "idle"
        BY <1>0, <2>1, CallStates DEF ConfirmsTypeOK
    <2>. QED  BY <2>1, <2>2, Closing
<1>. QED  BY <1>1, <1>2, <1>3, <1>4, RelayActs, AttemptStep, EnvironmentStep DEF Relay!Next

LEMMA BrokerStep ==
    ASSUME IInv, publisher = "broker", Broker!Next, UNCHANGED publisher
    PROVE  IInv'
<1>0. ConfirmsTypeOK
    BY DEF IInv
<1>1. ASSUME NEW m \in Messages, Broker!Publish(m) PROVE IInv'
    <2>1. /\ call.pc = "idle" /\ call' = [pc |-> "publish", msg |-> m, attempt |-> 0]
          /\ UNCHANGED <<channels, pub, stored, confirmed, kept>>
        BY <1>1 DEF Broker!Publish
    <2>. QED  BY <1>0, <2>1, CallStates, Calling
<1>2. CASE Broker!GiveUp \/ Broker!Close
    <2>1. /\ channels' = Closed(pub) /\ pub' = 0 /\ UNCHANGED <<stored, confirmed, kept>>
          /\ \/ call' = NoCall
             \/ call.pc = "idle" /\ call' = call
        BY <1>2, BrokerActs DEF Broker!GiveUp, Broker!Close
    <2>2. call' \in CallState /\ call'.pc = "idle"
        BY <1>0, <2>1, CallStates DEF ConfirmsTypeOK
    <2>. QED  BY <2>1, <2>2, Closing
<1>3. CASE Broker!ReconnectPublisher
    <2>1. /\ call.pc = "failed"
          /\ channels' = Append(Closed(pub), NewChannel) /\ pub' = Len(channels) + 1
          /\ \/ call' = [call EXCEPT !.pc = "publish", !.attempt = 1]
             \/ call' = NoCall
          /\ UNCHANGED <<stored, confirmed, kept>>
        BY <1>3, BrokerActs DEF Broker!ReconnectPublisher
    <2>2. Closed(pub) \in Seq(Channel) /\ Len(Closed(pub)) = Len(channels)
        BY ClosingKeepsType
    <2>3. call.msg \in Messages
        BY <2>1 DEF IInv, ChannelInv
    <2>4. /\ call' \in CallState /\ call'.pc \in {"idle", "publish"}
          /\ call'.pc = "publish" => call'.msg \in Messages
        BY <1>0, <2>1, <2>3, CallStates
    <2>. QED  BY <2>1, <2>2, <2>4, Opening
<1>4. CASE Broker!ReconnectFails
    <2>1. /\ call' = NoCall /\ kept' = kept \cup {pub}
          /\ UNCHANGED <<channels, pub, stored, confirmed>>
        BY <1>4, BrokerActs DEF Broker!ReconnectFails
    <2>. QED  BY <1>0, <2>1, CallStates, Calling
<1>. QED  BY <1>1, <1>2, <1>3, <1>4, BrokerActs, AttemptStep, EnvironmentStep DEF Broker!Next

LEMMA StepIInv == IInv /\ [Next]_vars => IInv'
<1>. SUFFICES ASSUME IInv, [Next]_vars PROVE IInv'
    OBVIOUS
<1>1. CASE UNCHANGED vars
    <2>1. UNCHANGED <<channels, pub, call, stored, confirmed, kept, publisher>>
        BY <1>1 DEF vars, Broker!vars
    <2>. QED
        BY <2>1
        DEF IInv, ConfirmsTypeOK, RelayNilMeansStored, NilMeansStored, ChannelInv, KeptInv
<1>. QED  BY <1>1, RelayStep, BrokerStep DEF Next

LEMMA AlwaysIInv == Spec => []IInv
BY InitIInv, StepIInv, PTL DEF Spec

-------------------------------------------------------------------------------
\* A nil from RabbitPublisher.Publish means that the server stored that very
\* message: a late answer is never counted for a later one.
THEOREM NilIsNeverEarly == Spec => []RelayNilMeansStored
<1>1. IInv => RelayNilMeansStored
    BY DEF IInv
<1>. QED  BY <1>1, AlwaysIInv, PTL

\* A nil from RabbitBroker.Publish means it as well, through every retry on a
\* new channel and every caller that gives up, as long as the channel is not one
\* that a failed reconnect left in place.
THEOREM NilIsExactOnFreshChannels == Spec => NilMeansStoredOnFreshChannel
<1>1. IInv /\ [Next]_vars
      => [\A m \in confirmed' \ confirmed : m \in stored \/ pub \in kept]_(Broker!vars)
    <2>. SUFFICES ASSUME IInv, Next, NEW m \in confirmed' \ confirmed, pub \notin kept
                  PROVE  m \in stored
        BY DEF vars, Broker!vars
    <2>1. CASE PublishConfirmed
        <3>1. TakeAnswer
            BY <2>1 DEF PublishConfirmed, Send, SendFails, StopWaiting
        <3>2. /\ call.pc = "wait" /\ channels[pub].answers # <<>>
              /\ Head(channels[pub].answers).ack /\ m = call.msg
            BY <3>1 DEF TakeAnswer
        <3>. QED  BY <3>2, AnswerIsOwn
    <2>2. CASE ~PublishConfirmed
        <3>1. ASSUME publisher = "relay", Relay!Next PROVE confirmed' = confirmed
            BY <2>2, <3>1, RelayActs
            DEF Relay!Next, Relay!Publish, Relay!OpenLocked, Relay!OpenFails, Relay!PublishFails,
                Relay!Close, Environment, ServerStores, ServerRejects, Drop
        <3>2. ASSUME Broker!Next PROVE confirmed' = confirmed
            BY <2>2, <3>2, BrokerActs
            DEF Broker!Next, Broker!Publish, Broker!GiveUp, Broker!ReconnectPublisher,
                Broker!ReconnectFails, Broker!Close, Environment, ServerStores, ServerRejects, Drop
        <3>. QED  BY <3>1, <3>2 DEF Next
    <2>. QED  BY <2>1, <2>2
<1>. QED
    BY <1>1, AlwaysIInv, PTL
    DEF Spec, NilMeansStoredOnFreshChannel, Broker!NilMeansStoredOnFreshChannel
===============================================================================
