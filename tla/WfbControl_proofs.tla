-------------------------- MODULE WfbControl_proofs --------------------------
(* Proofs about WfbControl, for any settings, buffer sizes and caps, and a   *)
(* daemon as slow as it likes.                                              *)
EXTENDS WfbControl, SequenceTheorems, TLAPS

Ids(s) == {s[i].id : i \in DOMAIN s}

\* Whether the present call's request or its reply is under way.
UnderWay == request.id \in Ids(toDaemon) \cup Ids(toDrone)

DrainInv == phase = "drain" => drained <= DrainCap

\* The present call is told from all others by its identifier. Nothing is sent
\* after its request, so that once that is handled the daemon has nothing to do.
OwnInv ==
    /\ phase \in {"drain", "send"} => ~UnderWay
    /\ phase = "wait" =>
          /\ \A i \in 1..Len(toDaemon) : toDaemon[i].id = request.id =>
                i = Len(toDaemon) /\ toDaemon[i] = request
          /\ \A i \in 1..Len(toDrone) : toDrone[i].id = request.id =>
                /\ toDaemon = <<>>
                /\ toDrone[i].ok /\ request.command \in Setting => device = request.command

\* While every setting sent was acknowledged, the daemon has none to carry out.
EffectInv ==
    ~unsettled =>
        /\ \A i \in 1..Len(toDaemon) : toDaemon[i].command \notin Setting
        /\ applied # None => device = applied

\* What earlier calls left in the buffers is counted down from the backlog, by
\* draining as far as the cap lets it and by skipping.
Left == Len(toDaemon) + Len(toDrone)
BacklogInv ==
    /\ phase = "drain" => /\ Len(toDaemon) <= backlog
                          /\ Left <= backlog + (DrainCap + 1 - drained)
    /\ phase = "send" => Left <= backlog
    /\ phase = "wait" => mismatch + Left <= backlog + (IF UnderWay THEN 1 ELSE 0)

Inv == TypeOK /\ DrainInv /\ OwnInv /\ EffectInv /\ BacklogInv

----------------------------------------------------------------------------
(* The two buffers. *)

LEMMA TailFacts ==
    ASSUME NEW S, NEW s \in Seq(S), s # <<>>
    PROVE  /\ Tail(s) \in Seq(S) /\ Len(s) \in Nat \ {0} /\ Len(Tail(s)) = Len(s) - 1
           /\ Head(s) \in S /\ Head(s) = s[1]
           /\ \A i \in 1..Len(Tail(s)) : Tail(s)[i] = s[i + 1]
  BY HeadTailProperties, EmptySeq

LEMMA AppendFacts ==
    ASSUME NEW S, NEW s \in Seq(S), NEW e \in S
    PROVE  /\ Append(s, e) \in Seq(S) /\ Len(s) \in Nat /\ Len(Append(s, e)) = Len(s) + 1
           /\ \A i \in 1..Len(s) : Append(s, e)[i] = s[i]
           /\ Append(s, e)[Len(s) + 1] = e
  BY AppendProperties, LenProperties

LEMMA IdsFacts ==
    ASSUME NEW S, NEW s \in Seq(S)
    PROVE  /\ Ids(s) = {s[i].id : i \in 1..Len(s)}
           /\ s = <<>> => Ids(s) = {}
           /\ s # <<>> => Ids(s) = {Head(s).id} \cup Ids(Tail(s))
  <1>1. ASSUME NEW t \in Seq(S) PROVE Ids(t) = {t[i].id : i \in 1..Len(t)}
    BY LenProperties DEF Ids
  <1>2. ASSUME s = <<>> PROVE Ids(s) = {}
    <2>1. Len(s) = 0 /\ 1..0 = {}
      BY <1>2, EmptySeq
    <2>2. Ids(s) = {s[i].id : i \in {}}
      BY <1>1, <2>1
    <2> QED BY <2>2
  <1>3. ASSUME s # <<>> PROVE Ids(s) = {Head(s).id} \cup Ids(Tail(s))
    <2>1. /\ Tail(s) \in Seq(S) /\ Len(s) \in Nat \ {0} /\ Len(Tail(s)) = Len(s) - 1
          /\ Head(s) = s[1] /\ \A i \in 1..Len(Tail(s)) : Tail(s)[i] = s[i + 1]
      BY <1>3, TailFacts
    <2>2. Ids(s) \subseteq {Head(s).id} \cup Ids(Tail(s))
      <3> SUFFICES ASSUME NEW i \in 1..Len(s), i # 1
                   PROVE  s[i].id \in Ids(Tail(s))
        BY <1>1, <2>1
      <3>1. i - 1 \in 1..Len(Tail(s)) /\ Tail(s)[i - 1] = s[i]
        BY <2>1
      <3> QED BY <3>1, <2>1, <1>1
    <2>3. Ids(Tail(s)) \subseteq Ids(s)
      <3>0. Ids(Tail(s)) = {Tail(s)[i].id : i \in 1..Len(Tail(s))}
        BY <1>1, <2>1
      <3> SUFFICES ASSUME NEW i \in 1..Len(Tail(s))
                   PROVE  Tail(s)[i].id \in Ids(s)
        BY <3>0
      <3>1. i + 1 \in 1..Len(s) /\ Tail(s)[i] = s[i + 1]
        BY <2>1
      <3>2. s[i + 1].id \in {s[j].id : j \in 1..Len(s)}
        BY <3>1
      <3> QED BY <3>1, <3>2, <1>1
    <2>4. Head(s).id \in Ids(s)
      <3>1. 1 \in 1..Len(s) /\ s[1].id \in {s[i].id : i \in 1..Len(s)}
        BY <2>1
      <3> QED BY <1>1, <2>1, <3>1
    <2> QED BY <2>2, <2>3, <2>4
  <1> QED BY <1>1, <1>2, <1>3

LEMMA IdsAppend ==
    ASSUME NEW S, NEW s \in Seq(S), NEW e \in S
    PROVE  Ids(Append(s, e)) = Ids(s) \cup {e.id}
  <1>1. /\ Append(s, e) \in Seq(S) /\ Len(s) \in Nat /\ Len(Append(s, e)) = Len(s) + 1
        /\ \A i \in 1..Len(s) : Append(s, e)[i] = s[i]
        /\ Append(s, e)[Len(s) + 1] = e
    BY AppendFacts
  <1>2. Ids(s) = {s[i].id : i \in 1..Len(s)}
        /\ Ids(Append(s, e)) = {Append(s, e)[i].id : i \in 1..(Len(s) + 1)}
    BY <1>1, IdsFacts
  <1>3. 1..(Len(s) + 1) = 1..Len(s) \cup {Len(s) + 1}
    BY <1>1
  <1> QED BY <1>1, <1>2, <1>3

\* A request the daemon receives, or that is lost because its buffer is full.
Deliver(s, e) == IF Len(s) < QueueSize THEN Append(s, e) ELSE s

LEMMA DeliverFacts ==
    ASSUME NEW S, NEW s \in Seq(S), Len(s) <= QueueSize, NEW e \in S
    PROVE  /\ Deliver(s, e) \in Seq(S) /\ Len(Deliver(s, e)) <= QueueSize
           /\ Len(Deliver(s, e)) \in Nat
           /\ \/ Deliver(s, e) = s
              \/ /\ Len(Deliver(s, e)) = Len(s) + 1
                 /\ Ids(Deliver(s, e)) = Ids(s) \cup {e.id}
           /\ \A i \in 1..Len(Deliver(s, e)) :
                 \/ i \in 1..Len(s) /\ Deliver(s, e)[i] = s[i]
                 \/ i = Len(s) + 1 /\ i = Len(Deliver(s, e)) /\ Deliver(s, e)[i] = e
  <1>1. Len(s) \in Nat
    BY LenProperties
  <1>2. CASE Len(s) < QueueSize
    <2>1. Deliver(s, e) = Append(s, e)
      BY <1>2 DEF Deliver
    <2>2. /\ Append(s, e) \in Seq(S) /\ Len(Append(s, e)) = Len(s) + 1
          /\ \A i \in 1..Len(s) : Append(s, e)[i] = s[i]
          /\ Append(s, e)[Len(s) + 1] = e
      BY AppendFacts
    <2>3. Ids(Append(s, e)) = Ids(s) \cup {e.id}
      BY IdsAppend
    <2>4. \A i \in 1..(Len(s) + 1) : i \in 1..Len(s) \/ i = Len(s) + 1
      BY <1>1
    <2>5. Len(s) + 1 <= QueueSize
      BY <1>1, <1>2, SizeAssumption
    <2> QED BY <2>1, <2>2, <2>3, <2>4, <2>5, <1>1
  <1>3. CASE ~(Len(s) < QueueSize)
    BY <1>1, <1>3 DEF Deliver
  <1> QED BY <1>2, <1>3

----------------------------------------------------------------------------
(* Types. *)

LEMMA InitInv == Init => Inv
  <1> SUFFICES ASSUME Init PROVE Inv OBVIOUS
  <1> USE SizeAssumption, CommandAssumption DEF Init
  <1>1. <<>> \in Seq(Request) /\ <<>> \in Seq(Reply) /\ Len(<<>>) = 0
    BY EmptySeq
  <1>2. 0 \in 0..(DrainCap + 1) /\ 0 \in 0..MismatchCap /\ 0 \in 0..(2 * QueueSize)
    OBVIOUS
  <1>3. TypeOK
    <2>1. /\ toDaemon \in Seq(Request) /\ Len(toDaemon) <= QueueSize
          /\ toDrone \in Seq(Reply) /\ Len(toDrone) <= QueueSize
      BY <1>1
    <2>2. /\ phase \in {"free", "drain", "send", "wait"}
          /\ request \in Request \cup {None} /\ (phase = "free" <=> request = None)
          /\ applied \in Setting \cup {None} /\ device \in Setting \cup {None}
          /\ unsettled \in BOOLEAN
      OBVIOUS
    <2>3. /\ drained \in 0..(DrainCap + 1) /\ mismatch \in 0..MismatchCap
          /\ backlog \in 0..(2 * QueueSize)
      BY <1>2
    <2> QED BY <2>1, <2>2, <2>3 DEF TypeOK
  <1>4. DrainInv /\ OwnInv /\ BacklogInv
    BY DEF DrainInv, OwnInv, BacklogInv
  <1>5. EffectInv
    <2>1. \A i \in 1..Len(toDaemon) : FALSE
      BY <1>1
    <2> QED BY <2>1 DEF EffectInv
  <1> QED BY <1>3, <1>4, <1>5 DEF Inv

\* The buffers' lengths are numbers.
LEMMA Lengths ==
    ASSUME TypeOK
    PROVE  /\ Len(toDaemon) \in Nat /\ Len(toDrone) \in Nat
           /\ toDaemon = <<>> => Len(toDaemon) = 0
           /\ toDrone = <<>> => Len(toDrone) = 0
  BY LenProperties, EmptySeq DEF TypeOK

LEMMA ReturnType ==
    ASSUME TypeOK, NEW ok \in BOOLEAN, phase # "free", Return(ok)
    PROVE  /\ phase' = "free" /\ request' = None
           /\ drained' \in 0..(DrainCap + 1) /\ mismatch' \in 0..MismatchCap
           /\ applied' \in Setting \cup {None} /\ unsettled' \in BOOLEAN
  <1>1. phase' = "free" /\ request' = None /\ drained' = 0 /\ mismatch' = 0
    BY DEF Return
  <1>2. 0 \in 0..(DrainCap + 1) /\ 0 \in 0..MismatchCap
    BY SizeAssumption
  <1>3. applied' \in Setting \cup {None} /\ unsettled' \in BOOLEAN
    BY DEF Return, TypeOK
  <1> QED BY <1>1, <1>2, <1>3

LEMMA TypeStep == TypeOK /\ DrainInv /\ [Next]_vars => TypeOK' /\ DrainInv'
  <1> SUFFICES ASSUME TypeOK, DrainInv, [Next]_vars PROVE TypeOK' /\ DrainInv' OBVIOUS
  <1> USE SizeAssumption DEF DrainInv
  <1>1. ASSUME NEW c \in Command, NEW id \in ReqId, Call(c, id)
        PROVE  TypeOK' /\ DrainInv'
    <2>1. request' \in Request /\ request' # None
      BY <1>1, CommandAssumption DEF Call, Request
    <2>2. backlog' \in 0..(2 * QueueSize)
      BY <1>1, Lengths DEF Call, TypeOK
    <2>3. drained' = 0 /\ 0 \in 0..(DrainCap + 1)
      BY <1>1 DEF Call
    <2> QED BY <1>1, <2>1, <2>2, <2>3 DEF Call, TypeOK
  <1>2. CASE Drain
    <2>1. CASE Drained
      BY <1>2, <2>1 DEF Drain, TypeOK
    <2>2. CASE ~Drained
      <3>1. toDrone' \in Seq(Reply) /\ Len(toDrone') <= QueueSize
        BY <1>2, <2>2, TailFacts DEF Drain, Drained, TypeOK
      <3>2. drained' = drained + 1 /\ drained \in 0..DrainCap
            /\ phase' = IF drained' > DrainCap THEN "send" ELSE "drain"
        BY <1>2, <2>2 DEF Drain, Drained, TypeOK
      <3>3. drained' \in 0..(DrainCap + 1)
        BY <3>2
      <3>4. phase' \in {"drain", "send"} /\ DrainInv'
        BY <3>2
      <3> QED BY <1>2, <3>1, <3>3, <3>4 DEF Drain, TypeOK
    <2> QED BY <2>1, <2>2
  <1>3. CASE Send
    <2>1. toDaemon' = Deliver(toDaemon, request) /\ request \in Request
      BY <1>3 DEF Send, Deliver, TypeOK
    <2>2. toDaemon' \in Seq(Request) /\ Len(toDaemon') <= QueueSize
      BY <2>1, DeliverFacts DEF TypeOK
    <2>3. mismatch' \in 0..MismatchCap
      BY <1>3 DEF Send
    <2> QED BY <1>3, <2>2, <2>3 DEF Send, TypeOK
  <1>4. CASE SendFails \/ Timeout
    <2>1. Return(FALSE) /\ phase # "free"
      BY <1>4 DEF SendFails, Timeout
    <2> QED BY <1>4, <2>1, ReturnType DEF SendFails, Timeout, TypeOK
  <1>5. CASE Receive
    <2>1. Head(toDrone) \in Reply /\ toDrone' \in Seq(Reply) /\ Len(toDrone') <= QueueSize
      BY <1>5, TailFacts DEF Receive, TypeOK
    <2>2. Head(toDrone).ok \in BOOLEAN
      BY <2>1 DEF Reply
    <2>3. CASE \E ok \in BOOLEAN : Return(ok)
      BY <1>5, <2>1, <2>3, ReturnType DEF Receive, TypeOK
    <2>4. CASE ~TooMany /\ mismatch' = mismatch + 1
               /\ UNCHANGED <<phase, request, drained, applied, unsettled>>
      <3>1. mismatch' \in 0..MismatchCap
        BY <2>4 DEF TooMany, TypeOK
      <3> QED BY <1>5, <2>1, <2>4, <3>1 DEF Receive, TypeOK
    <2> QED BY <1>5, <2>2, <2>3, <2>4 DEF Receive
  <1>6. ASSUME NEW ok \in BOOLEAN, DaemonHandle(ok) PROVE TypeOK' /\ DrainInv'
    <2>1. Head(toDaemon) \in Request /\ toDaemon' \in Seq(Request)
          /\ Len(toDaemon') <= QueueSize
      BY <1>6, TailFacts DEF DaemonHandle, TypeOK
    <2> DEFINE reply == [id |-> Head(toDaemon).id, ok |-> ok]
    <2>2. reply \in Reply
      BY <2>1 DEF Request, Reply
    <2>3. toDrone' = Deliver(toDrone, reply)
      BY <1>6 DEF DaemonHandle, Deliver
    <2>4. toDrone' \in Seq(Reply) /\ Len(toDrone') <= QueueSize
      BY <2>2, <2>3, DeliverFacts DEF TypeOK
    <2>5. device' \in Setting \cup {None}
      BY <1>6 DEF DaemonHandle, TypeOK
    <2> QED BY <1>6, <2>1, <2>4, <2>5 DEF DaemonHandle, callVars, TypeOK
  <1>7. CASE UNCHANGED vars
    BY <1>7 DEF vars, callVars, TypeOK
  <1> QED BY <1>1, <1>2, <1>3, <1>4, <1>5, <1>6, <1>7 DEF Next, Step

----------------------------------------------------------------------------
(* Identifiers. *)

\* What the daemon does to the buffers.
LEMMA HandleFacts ==
    ASSUME TypeOK, NEW ok \in BOOLEAN, DaemonHandle(ok)
    PROVE  /\ 1 \in 1..Len(toDaemon) /\ Head(toDaemon) = toDaemon[1]
           /\ Head(toDaemon) \in Request
           /\ Len(toDaemon') = Len(toDaemon) - 1
           /\ \A i \in 1..Len(toDaemon') :
                 i + 1 \in 1..Len(toDaemon) /\ toDaemon'[i] = toDaemon[i + 1]
           /\ Ids(toDaemon) = {Head(toDaemon).id} \cup Ids(toDaemon')
           /\ \/ toDrone' = toDrone
              \/ /\ Len(toDrone') = Len(toDrone) + 1
                 /\ Ids(toDrone') = Ids(toDrone) \cup {Head(toDaemon).id}
           /\ \A i \in 1..Len(toDrone') :
                 \/ i \in 1..Len(toDrone) /\ toDrone'[i] = toDrone[i]
                 \/ toDrone'[i] = [id |-> Head(toDaemon).id, ok |-> ok]
  <1>1. toDaemon \in Seq(Request) /\ toDaemon # <<>> /\ toDaemon' = Tail(toDaemon)
        /\ toDrone \in Seq(Reply) /\ Len(toDrone) <= QueueSize
    BY DEF TypeOK, DaemonHandle
  <1>2. /\ Len(toDaemon) \in Nat \ {0} /\ Len(toDaemon') = Len(toDaemon) - 1
        /\ Head(toDaemon) \in Request /\ Head(toDaemon) = toDaemon[1]
        /\ \A i \in 1..Len(toDaemon') : toDaemon'[i] = toDaemon[i + 1]
    BY <1>1, TailFacts
  <1>3. Ids(toDaemon) = {Head(toDaemon).id} \cup Ids(toDaemon')
    BY <1>1, IdsFacts
  <1> DEFINE reply == [id |-> Head(toDaemon).id, ok |-> ok]
  <1>4. reply \in Reply /\ reply.id = Head(toDaemon).id
    BY <1>2 DEF Request, Reply
  <1>5. toDrone' = Deliver(toDrone, reply)
    BY DEF DaemonHandle, Deliver
  <1> HIDE DEF reply
  <1>6. /\ \/ toDrone' = toDrone
           \/ /\ Len(toDrone') = Len(toDrone) + 1
              /\ Ids(toDrone') = Ids(toDrone) \cup {reply.id}
        /\ \A i \in 1..Len(toDrone') :
              \/ i \in 1..Len(toDrone) /\ toDrone'[i] = toDrone[i]
              \/ i = Len(toDrone) + 1 /\ i = Len(toDrone') /\ toDrone'[i] = reply
    <2>1. reply \in Reply /\ toDrone \in Seq(Reply) /\ Len(toDrone) <= QueueSize
      BY <1>1, <1>4
    <2> QED BY <2>1, <1>5, DeliverFacts, Zenon
  <1>7. 1 \in 1..Len(toDaemon) /\ \A i \in 1..Len(toDaemon') : i + 1 \in 1..Len(toDaemon)
    BY <1>2
  <1> QED BY <1>2, <1>3, <1>4, <1>6, <1>7 DEF reply

\* What draining and receiving do.
LEMMA TakeFacts ==
    ASSUME TypeOK, toDrone # <<>>, toDrone' = Tail(toDrone)
    PROVE  /\ 1 \in 1..Len(toDrone) /\ Head(toDrone) = toDrone[1]
           /\ Head(toDrone) \in Reply
           /\ Len(toDrone') = Len(toDrone) - 1
           /\ \A i \in 1..Len(toDrone') :
                 i + 1 \in 1..Len(toDrone) /\ toDrone'[i] = toDrone[i + 1]
           /\ Ids(toDrone) = {Head(toDrone).id} \cup Ids(toDrone')
  <1>1. toDrone \in Seq(Reply)
    BY DEF TypeOK
  <1>2. /\ Len(toDrone) \in Nat \ {0} /\ Len(toDrone') = Len(toDrone) - 1
        /\ Head(toDrone) \in Reply /\ Head(toDrone) = toDrone[1]
        /\ \A i \in 1..Len(toDrone') : toDrone'[i] = toDrone[i + 1]
    BY <1>1, TailFacts
  <1>3. Ids(toDrone) = {Head(toDrone).id} \cup Ids(toDrone')
    BY <1>1, IdsFacts
  <1>4. 1 \in 1..Len(toDrone) /\ \A i \in 1..Len(toDrone') : i + 1 \in 1..Len(toDrone)
    BY <1>2
  <1> QED BY <1>2, <1>3, <1>4

LEMMA MemberIds ==
    ASSUME NEW S, NEW s \in Seq(S), NEW i \in 1..Len(s)
    PROVE  s[i].id \in Ids(s)
  <1>1. Ids(s) = {s[j].id : j \in 1..Len(s)}
    BY IdsFacts
  <1> QED BY <1>1

LEMMA OwnStep == TypeOK /\ OwnInv /\ [Next]_vars => OwnInv'
  <1> SUFFICES ASSUME TypeOK, OwnInv, [Next]_vars PROVE OwnInv' OBVIOUS
  <1>1. ASSUME NEW c \in Command, NEW id \in ReqId, Call(c, id) PROVE OwnInv'
    <2>1. request'.id = id /\ id \notin InFlight /\ phase' = "drain"
          /\ UNCHANGED <<toDaemon, toDrone>>
      BY <1>1 DEF Call
    <2>2. InFlight = Ids(toDaemon) \cup Ids(toDrone)
      BY DEF InFlight, Ids
    <2> QED BY <2>1, <2>2 DEF OwnInv, UnderWay
  <1>2. CASE Drain
    <2>1. phase = "drain" /\ phase' \in {"drain", "send"}
          /\ UNCHANGED <<request, toDaemon>>
      BY <1>2 DEF Drain
    <2>2. Ids(toDrone') \subseteq Ids(toDrone)
      BY <1>2, TakeFacts DEF Drain, Drained
    <2> QED BY <2>1, <2>2 DEF OwnInv, UnderWay
  <1>3. CASE Send
    <2>1. request \in Request /\ ~UnderWay /\ phase' = "wait"
          /\ UNCHANGED <<request, toDrone, device>>
      BY <1>3 DEF Send, TypeOK, OwnInv
    <2>2. toDaemon' = Deliver(toDaemon, request) /\ toDaemon \in Seq(Request)
          /\ toDrone \in Seq(Reply) /\ Len(toDaemon) <= QueueSize
      BY <1>3 DEF Send, Deliver, TypeOK
    <2>3. \A i \in 1..Len(toDaemon) : toDaemon[i].id # request.id
      BY <2>1, <2>2, MemberIds DEF UnderWay
    <2>4. \A i \in 1..Len(toDrone) : toDrone[i].id # request.id
      BY <2>1, <2>2, MemberIds DEF UnderWay
    <2>5. \A i \in 1..Len(toDaemon') :
             \/ i \in 1..Len(toDaemon) /\ toDaemon'[i] = toDaemon[i]
             \/ i = Len(toDaemon') /\ toDaemon'[i] = request
      BY <2>1, <2>2, DeliverFacts
    <2> QED BY <2>1, <2>3, <2>4, <2>5 DEF OwnInv
  <1>4. CASE SendFails \/ Timeout
    BY <1>4 DEF SendFails, Timeout, Return, OwnInv
  <1>5. CASE Receive
    <2>1. CASE \E ok : Return(ok)
      BY <2>1 DEF Return, OwnInv
    <2>2. CASE UNCHANGED <<phase, request, drained, applied, unsettled>>
      <3>1. /\ phase = "wait" /\ UNCHANGED <<phase, request, toDaemon, device>>
            /\ toDrone # <<>> /\ toDrone' = Tail(toDrone)
        BY <1>5, <2>2 DEF Receive
      <3>2. \A i \in 1..Len(toDrone') :
               i + 1 \in 1..Len(toDrone) /\ toDrone'[i] = toDrone[i + 1]
        BY <3>1, TakeFacts
      <3> QED BY <3>1, <3>2 DEF OwnInv
    <2> QED BY <1>5, <2>1, <2>2 DEF Receive
  <1>6. ASSUME NEW ok \in BOOLEAN, DaemonHandle(ok) PROVE OwnInv'
    <2>1. UNCHANGED <<phase, request>> /\ toDaemon # <<>>
      BY <1>6 DEF DaemonHandle, callVars
    <2>2. CASE phase \in {"drain", "send"}
      BY <1>6, <2>1, <2>2, HandleFacts DEF OwnInv, UnderWay
    <2>3. CASE phase = "wait"
      <3> DEFINE q == Head(toDaemon)
      <3>1. ASSUME NEW i \in 1..Len(toDaemon'), toDaemon'[i].id = request.id
            PROVE  i = Len(toDaemon') /\ toDaemon'[i] = request
        <4>1. /\ Len(toDaemon') = Len(toDaemon) - 1 /\ i + 1 \in 1..Len(toDaemon)
              /\ toDaemon'[i] = toDaemon[i + 1]
          BY <1>6, <3>1, HandleFacts
        <4>2. i + 1 = Len(toDaemon) /\ toDaemon[i + 1] = request
          BY <2>3, <3>1, <4>1 DEF OwnInv
        <4> QED BY <4>1, <4>2, Lengths
      <3>2. ASSUME NEW i \in 1..Len(toDrone'), toDrone'[i].id = request.id
            PROVE  /\ toDaemon' = <<>>
                   /\ toDrone'[i].ok /\ request.command \in Setting
                         => device' = request.command
        <4>1. ~(i \in 1..Len(toDrone) /\ toDrone'[i] = toDrone[i])
          BY <2>1, <2>3, <3>2 DEF OwnInv
        <4>2. toDrone'[i] = [id |-> q.id, ok |-> ok]
          BY <1>6, <4>1, HandleFacts
        <4>3. q.id = request.id /\ toDrone'[i].ok = ok
          BY <3>2, <4>2
        <4>4. Len(toDaemon) = 1 /\ q = request
          BY <1>6, <2>3, <4>3, HandleFacts DEF OwnInv
        <4>5. toDaemon' \in Seq(Request) /\ Len(toDaemon') = 0
          BY <1>6, <4>4, HandleFacts, TailFacts DEF DaemonHandle, TypeOK
        <4>6. toDaemon' = <<>>
          BY <4>5, EmptySeq
        <4>7. ok /\ request.command \in Setting => device' = request.command
          BY <1>6, <4>4 DEF DaemonHandle
        <4> QED BY <4>3, <4>6, <4>7
      <3> QED BY <2>1, <2>3, <3>1, <3>2 DEF OwnInv
    <2>4. CASE phase = "free"
      BY <2>1, <2>4 DEF OwnInv
    <2> QED BY <2>2, <2>3, <2>4 DEF TypeOK
  <1>7. CASE UNCHANGED vars
    BY <1>7 DEF vars, callVars, OwnInv, UnderWay
  <1> QED BY <1>1, <1>2, <1>3, <1>4, <1>5, <1>6, <1>7 DEF Next, Step

----------------------------------------------------------------------------
(* Settings. *)

LEMMA EffectStep == TypeOK /\ OwnInv /\ EffectInv /\ [Next]_vars => EffectInv'
  <1> SUFFICES ASSUME TypeOK, OwnInv, EffectInv, [Next]_vars PROVE EffectInv' OBVIOUS
  <1>1. ASSUME NEW c \in Command, NEW id \in ReqId, Call(c, id) PROVE EffectInv'
    BY <1>1 DEF Call, EffectInv
  <1>2. CASE Drain
    BY <1>2 DEF Drain, EffectInv
  <1>3. CASE Send
    <2>1. request \in Request /\ unsettled' = (unsettled \/ request.command \in Setting)
          /\ UNCHANGED <<applied, device>>
      BY <1>3 DEF Send, TypeOK
    <2>2. toDaemon' = Deliver(toDaemon, request) /\ toDaemon \in Seq(Request)
          /\ Len(toDaemon) <= QueueSize
      BY <1>3 DEF Send, Deliver, TypeOK
    <2>3. \A i \in 1..Len(toDaemon') :
             \/ i \in 1..Len(toDaemon) /\ toDaemon'[i] = toDaemon[i]
             \/ toDaemon'[i] = request
      BY <2>1, <2>2, DeliverFacts
    <2> QED BY <2>1, <2>3 DEF EffectInv, TypeOK
  <1>4. CASE SendFails \/ Timeout
    BY <1>4 DEF SendFails, Timeout, Return, EffectInv
  <1>5. CASE Receive
    <2> DEFINE r == Head(toDrone)
    <2>1. phase = "wait" /\ 1 \in 1..Len(toDrone) /\ r = toDrone[1]
          /\ UNCHANGED <<toDaemon, device>>
      BY <1>5, TakeFacts DEF Receive
    <2>2. CASE Ours(r) /\ Return(r.ok) /\ r.ok /\ request.command \in Setting
      <3>1. toDaemon = <<>> /\ device = request.command
        BY <2>1, <2>2 DEF OwnInv, Ours
      <3>2. applied' = request.command /\ \A i \in 1..Len(toDaemon) : FALSE
        BY <2>2, <3>1, Lengths DEF Return
      <3> QED BY <2>1, <3>1, <3>2 DEF EffectInv
    <2>3. CASE UNCHANGED <<applied, unsettled>>
      BY <2>1, <2>3 DEF EffectInv
    <2> QED BY <1>5, <2>2, <2>3 DEF Receive, Return
  <1>6. ASSUME NEW ok \in BOOLEAN, DaemonHandle(ok) PROVE EffectInv'
    <2>1. UNCHANGED <<applied, unsettled>>
      BY <1>6 DEF DaemonHandle
    <2>2. /\ 1 \in 1..Len(toDaemon) /\ Head(toDaemon) = toDaemon[1]
          /\ \A i \in 1..Len(toDaemon') :
                i + 1 \in 1..Len(toDaemon) /\ toDaemon'[i] = toDaemon[i + 1]
      BY <1>6, HandleFacts
    <2>3. Head(toDaemon).command \notin Setting => device' = device
      BY <1>6 DEF DaemonHandle
    <2> QED BY <2>1, <2>2, <2>3 DEF EffectInv
  <1>7. CASE UNCHANGED vars
    BY <1>7 DEF vars, EffectInv
  <1> QED BY <1>1, <1>2, <1>3, <1>4, <1>5, <1>6, <1>7 DEF Next, Step

----------------------------------------------------------------------------
(* Stale replies. *)

\* Unlike this call's own, what is left of earlier calls never grows.
LEMMA BacklogStep ==
    TypeOK /\ DrainInv /\ OwnInv /\ BacklogInv /\ [Next]_vars => BacklogInv'
  <1> SUFFICES ASSUME TypeOK, DrainInv, OwnInv, BacklogInv, [Next]_vars
               PROVE  BacklogInv'
    OBVIOUS
  <1>0. /\ backlog \in Nat /\ drained \in Nat /\ mismatch \in Nat /\ DrainCap \in Nat
        /\ Len(toDaemon) \in Nat /\ Len(toDrone) \in Nat
    BY Lengths, SizeAssumption DEF TypeOK
  <1>1. ASSUME NEW c \in Command, NEW id \in ReqId, Call(c, id) PROVE BacklogInv'
    <2>1. phase' = "drain" /\ drained' = 0 /\ UNCHANGED <<toDaemon, toDrone>>
      BY <1>1 DEF Call
    <2>2. backlog' = Len(toDaemon) + (IF Len(toDrone) > DrainCap + 1
                                      THEN Len(toDrone) - DrainCap - 1 ELSE 0)
      BY <1>1 DEF Call
    <2>3. /\ Len(toDaemon) <= backlog'
          /\ Len(toDaemon) + Len(toDrone) <= backlog' + (DrainCap + 1 - 0)
      <3>1. CASE Len(toDrone) > DrainCap + 1
        BY <1>0, <2>2, <3>1
      <3>2. CASE ~(Len(toDrone) > DrainCap + 1)
        BY <1>0, <2>2, <3>2
      <3> QED BY <3>1, <3>2
    <2> QED BY <2>1, <2>3 DEF BacklogInv, Left
  <1>2. CASE Drain
    <2>1. phase = "drain" /\ UNCHANGED <<toDaemon, backlog>>
      BY <1>2 DEF Drain
    <2>2. CASE Drained
      BY <1>0, <1>2, <2>1, <2>2, Lengths DEF Drain, Drained, BacklogInv, Left
    <2>3. CASE ~Drained
      <3>1. Len(toDrone') = Len(toDrone) - 1 /\ drained' = drained + 1
            /\ phase' = IF drained' > DrainCap THEN "send" ELSE "drain"
        BY <1>2, <2>3, TakeFacts DEF Drain, Drained
      <3> QED BY <1>0, <2>1, <3>1 DEF BacklogInv, Left, DrainInv
    <2> QED BY <2>2, <2>3
  <1>3. CASE Send
    <2>1. phase = "send" /\ phase' = "wait" /\ mismatch' = 0
          /\ UNCHANGED <<request, toDrone, backlog>> /\ request \in Request
      BY <1>3 DEF Send, TypeOK
    <2>2. toDaemon' = Deliver(toDaemon, request)
      BY <1>3 DEF Send, Deliver
    <2>3. Left <= backlog /\ Left \in Nat
      BY <1>0, <2>1 DEF BacklogInv, Left
    <2>4. \/ toDaemon' = toDaemon
          \/ /\ Len(toDaemon') = Len(toDaemon) + 1
             /\ Ids(toDaemon') = Ids(toDaemon) \cup {request.id}
      <3>1. toDaemon \in Seq(Request) /\ Len(toDaemon) <= QueueSize
        BY DEF TypeOK
      <3> QED BY <2>1, <2>2, <3>1, DeliverFacts, Zenon
    <2>5. CASE toDaemon' = toDaemon
      <3>1. Left' = Left
        BY <2>1, <2>5 DEF Left
      <3> QED BY <1>0, <2>1, <2>3, <3>1 DEF BacklogInv
    <2>6. CASE /\ Len(toDaemon') = Len(toDaemon) + 1
               /\ Ids(toDaemon') = Ids(toDaemon) \cup {request.id}
      <3>1. Left' = Left + 1
        BY <1>0, <2>1, <2>6 DEF Left
      <3>2. UnderWay'
        BY <2>1, <2>6 DEF UnderWay
      <3> QED BY <1>0, <2>1, <2>3, <3>1, <3>2 DEF BacklogInv
    <2> QED BY <2>4, <2>5, <2>6
  <1>4. CASE SendFails \/ Timeout
    BY <1>4 DEF SendFails, Timeout, Return, BacklogInv
  <1>5. CASE Receive
    <2>1. CASE \E ok : Return(ok)
      BY <2>1 DEF Return, BacklogInv
    <2>2. CASE ~Ours(Head(toDrone)) /\ mismatch' = mismatch + 1
               /\ UNCHANGED <<phase, request, drained, applied, unsettled>>
      <3>1. phase = "wait" /\ UNCHANGED <<phase, request, toDaemon, backlog>>
        BY <1>5, <2>2 DEF Receive
      <3>2. Len(toDrone') = Len(toDrone) - 1
            /\ Ids(toDrone) = {Head(toDrone).id} \cup Ids(toDrone')
        BY <1>5, TakeFacts DEF Receive
      <3>3. UnderWay' = UnderWay
        BY <2>2, <3>1, <3>2 DEF UnderWay, Ours
      <3> QED BY <1>0, <2>2, <3>1, <3>2, <3>3 DEF BacklogInv, Left
    <2> QED BY <1>5, <2>1, <2>2 DEF Receive
  <1>6. ASSUME NEW ok \in BOOLEAN, DaemonHandle(ok) PROVE BacklogInv'
    <2>1. UNCHANGED <<phase, request, drained, mismatch, backlog>>
      BY <1>6 DEF DaemonHandle, callVars
    <2>2. /\ Len(toDaemon') = Len(toDaemon) - 1
          /\ Ids(toDaemon) = {Head(toDaemon).id} \cup Ids(toDaemon')
          /\ \/ toDrone' = toDrone
             \/ /\ Len(toDrone') = Len(toDrone) + 1
                /\ Ids(toDrone') = Ids(toDrone) \cup {Head(toDaemon).id}
      BY <1>6, HandleFacts
    <2>3. CASE toDrone' = toDrone
      <3>1. Left' = Left - 1
        BY <1>0, <2>2, <2>3 DEF Left
      <3> QED BY <1>0, <2>1, <2>2, <3>1 DEF BacklogInv, Left
    <2>4. CASE Len(toDrone') = Len(toDrone) + 1
               /\ Ids(toDrone') = Ids(toDrone) \cup {Head(toDaemon).id}
      <3>1. Left' = Left
        BY <1>0, <2>2, <2>4 DEF Left
      <3>2. UnderWay' = UnderWay
        BY <2>1, <2>2, <2>4 DEF UnderWay
      <3> QED BY <1>0, <2>1, <2>2, <3>1, <3>2 DEF BacklogInv
    <2> QED BY <2>2, <2>3, <2>4
  <1>7. CASE UNCHANGED vars
    BY <1>7 DEF vars, callVars, BacklogInv, Left, UnderWay
  <1> QED BY <1>1, <1>2, <1>3, <1>4, <1>5, <1>6, <1>7 DEF Next, Step

LEMMA AlwaysInv == Spec => []Inv
  <1>1. Inv /\ [Next]_vars => Inv'
    BY TypeStep, OwnStep, EffectStep, BacklogStep DEF Inv
  <1> QED BY <1>1, InitInv, PTL DEF Spec

----------------------------------------------------------------------------
\* The variables keep their types: neither counter of stale replies passes its
\* cap (DRAIN_CAP, MISMATCH_CAP).
THEOREM TypeCorrect == Spec => []TypeOK
  BY AlwaysInv, PTL DEF Inv

\* Whatever timed-out calls leave in the two buffers, a setting acknowledged is
\* the one wfb_tx runs.
THEOREM AckedAlwaysInEffect == Spec => []AckedInEffect
  <1>1. Inv => AckedInEffect
    BY DEF Inv, EffectInv, AckedInEffect
  <1> QED BY <1>1, AlwaysInv, PTL

\* A call skips no more replies than there were requests unanswered when it
\* began, and replies beyond what it drains.
THEOREM SkippedAlwaysOutstanding == Spec => []SkippedWereOutstanding
  <1>1. ASSUME Inv, phase = "wait" PROVE mismatch <= backlog
    <2>1. /\ mismatch \in Nat /\ backlog \in Nat
          /\ Len(toDaemon) \in Nat /\ Len(toDrone) \in Nat
      BY <1>1, Lengths DEF Inv, TypeOK
    <2>2. mismatch + Left <= backlog + (IF UnderWay THEN 1 ELSE 0)
      BY <1>1 DEF Inv, BacklogInv
    <2>3. CASE ~UnderWay
      BY <2>1, <2>2, <2>3 DEF Left
    <2>4. CASE UnderWay
      <3>1. toDaemon # <<>> \/ toDrone # <<>>
        BY <1>1, <2>4, IdsFacts DEF UnderWay, Inv, TypeOK
      <3>2. Left >= 1
        BY <1>1, <2>1, <3>1, EmptySeq DEF Left, Inv, TypeOK
      <3>3. Left \in Nat
        BY <2>1 DEF Left
      <3> QED BY <2>1, <2>2, <2>4, <3>2, <3>3
    <2> QED BY <2>3, <2>4
  <1>2. Inv => SkippedWereOutstanding
    BY <1>1 DEF SkippedWereOutstanding
  <1> QED BY <1>2, AlwaysInv, PTL
=============================================================================
