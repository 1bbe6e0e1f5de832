--------------------------- MODULE Handshake_proofs ---------------------------
(***************************************************************************)
(* Proofs about Handshake, for any timers, link, spacing of lines and steps *)
(* of the clock, and with no limit on what the bounds may be.               *)
(***************************************************************************)
EXTENDS Handshake, TLAPS

LEMMA ClockIsTime == TypeOK => Clock \in WallTime /\ Clock \in Nat /\ Clock # None
  <1> SUFFICES ASSUME TypeOK PROVE Clock \in WallTime /\ Clock \in Nat /\ Clock # None
    OBVIOUS
  <1>1. Clock \in WallTime /\ Clock \in Nat
    BY TimerAssumption, BoundAssumption DEF TypeOK, Time, Skew, Clock, WallTime
  <1> QED BY <1>1, NoneAssumption

----------------------------------------------------------------------------
(* A stats line: the timer it ticks is (t1, count, due), after a forced     *)
(* resync or an accepted reply; the tick then leaves it, sends or gives up. *)

Forced(t1, count, due) ==
    /\ t1 = None /\ count = 0 /\ due = 0
    /\ UNCHANGED <<droneSession, lastRtt, onWire>>

Kept(t1, count, due) ==
    /\ t1 = pendingT1 /\ count = retryCount /\ due = nextDue
    /\ \A r \in inbox : pendingT1 # None => r.t1 # pendingT1
    /\ UNCHANGED <<droneSession, lastRtt, onWire>>

Taken(r, t1, count, due) ==
    /\ pendingT1 # None /\ r.t1 = pendingT1
    /\ t1 = None /\ count = 0 /\ due = pendingT1 + LongResync
    /\ droneSession' = r.session
    /\ IF Clock - pendingT1 < 0
       THEN UNCHANGED <<lastRtt, onWire>>
       ELSE /\ lastRtt' = Clock - pendingT1
            /\ onWire' = IF r.skew = skew THEN r.arrived - Sent(r) ELSE None

Drained(t1, count, due) ==
    \/ Forced(t1, count, due)
    \/ Kept(t1, count, due)
    \/ \E r \in inbox : Taken(r, t1, count, due)

Sends(t1, sent) ==
    IF sent
    THEN /\ pendingT1' = Clock /\ UNCHANGED losses
         /\ net' = net \cup {[kind |-> "H", t1 |-> Clock, skew |-> skew]}
    ELSE /\ pendingT1' = t1 /\ UNCHANGED net
         /\ losses < MaxLosses /\ losses' = losses + 1

Waits(t1, count, due) ==
    /\ t1 # None => Clock - t1 < FastRetry
    /\ pendingT1' = t1 /\ retryCount' = count /\ nextDue' = due
    /\ UNCHANGED <<net, losses>>
    /\ burstStart' = IF t1 = None THEN None ELSE burstStart

Starts(t1, due, sent) ==
    /\ t1 = None /\ Clock >= due
    /\ retryCount' = 0 /\ nextDue' = due
    /\ Sends(t1, sent)
    /\ burstStart' = IF sent THEN now ELSE None

SendsAgain(t1, count, due, sent) ==
    /\ t1 # None /\ Clock - t1 >= FastRetry /\ count < MaxRetries
    /\ retryCount' = count + 1 /\ nextDue' = due
    /\ Sends(t1, sent)
    /\ UNCHANGED burstStart

BacksOff ==
    /\ pendingT1' = None /\ retryCount' = 0 /\ nextDue' = Clock + LongResync
    /\ UNCHANGED <<net, losses>>
    /\ burstStart' = None

Ticked(t1, count, due, sent) ==
    \/ Waits(t1, count, due)
    \/ Starts(t1, due, sent)
    \/ SendsAgain(t1, count, due, sent)
    \/ BacksOff

LEMMA DrainCases ==
    ASSUME TypeOK, NEW video \in BOOLEAN, NEW sent \in BOOLEAN, StatsLine(video, sent)
    PROVE  /\ lineIn < Period /\ lineIn' = Period /\ inbox' = {}
           /\ UNCHANGED <<now, skew, session>>
           /\ \E t1, count, due : Drained(t1, count, due) /\ Ticked(t1, count, due, sent)
  <1> DEFINE timer0 == [t1 |-> pendingT1, count |-> retryCount, due |-> nextDue]
             timer1 == IF video /\ ~hadVideo THEN ForceResync(timer0) ELSE timer0
             timer2(r) == IF r = None THEN timer1 ELSE Accepted(timer1)
             timer3(r) == TickTimer(timer2(r), sent)
             sends(r) == Action(timer2(r)) \in {"hello", "retry"}
  <1>1. PICK r \in IF Match(timer1) = {} THEN {None} ELSE Match(timer1) :
          /\ ~sent => sends(r) /\ losses < MaxLosses
          /\ pendingT1' = timer3(r).t1 /\ retryCount' = timer3(r).count
          /\ nextDue' = timer3(r).due
          /\ net' = IF sends(r) /\ sent
                    THEN net \cup {[kind |-> "H", t1 |-> Clock, skew |-> skew]} ELSE net
          /\ losses' = IF sent THEN losses ELSE losses + 1
          /\ IF r = None
             THEN UNCHANGED <<droneSession, lastRtt, onWire>>
             ELSE /\ droneSession' = r.session
                  /\ IF Bogus(Rtt(timer1))
                     THEN UNCHANGED <<lastRtt, onWire>>
                     ELSE /\ lastRtt' = Rtt(timer1)
                          /\ onWire' = IF r.skew = skew THEN r.arrived - Sent(r) ELSE None
          /\ burstStart' = IF timer3(r).t1 = None THEN None
                           ELSE IF Action(timer2(r)) = "hello" THEN now ELSE burstStart
    BY DEF StatsLine
  <1> DEFINE t1 == timer2(r).t1
             count == timer2(r).count
             due == timer2(r).due
  <1>2. timer1.t1 = None \/ timer1 = timer0
    BY DEF ForceResync
  <1>3. timer2(r) = [t1 |-> t1, count |-> count, due |-> due]
    BY DEF ForceResync, Accepted
  <1>4. Drained(t1, count, due)
    <2>1. CASE timer1 = ForceResync(timer0)
      <3>1. Match(timer1) = {}
        BY <2>1 DEF ForceResync, Match
      <3>2. r = None
        BY <1>1, <3>1
      <3> QED BY <1>1, <2>1, <3>2 DEF ForceResync, Drained, Forced
    <2>2. CASE timer1 = timer0 /\ Match(timer1) = {}
      <3>1. r = None
        BY <1>1, <2>2
      <3>2. \A q \in inbox : pendingT1 # None => q.t1 # pendingT1
        BY <2>2 DEF Match
      <3>3. t1 = pendingT1 /\ count = retryCount /\ due = nextDue
        BY <2>2, <3>1
      <3>4. UNCHANGED <<droneSession, lastRtt, onWire>>
        BY <1>1, <3>1
      <3> HIDE DEF t1, count, due
      <3> QED BY <3>2, <3>3, <3>4 DEF Drained, Kept
    <2>3. CASE timer1 = timer0 /\ Match(timer1) # {}
      <3>1. r \in inbox /\ pendingT1 # None /\ r.t1 = pendingT1
        BY <1>1, <2>3 DEF Match
      <3>2. r # None
        BY <3>1, NoneAssumption DEF TypeOK
      <3>3. t1 = None /\ count = 0 /\ due = pendingT1 + LongResync
        BY <2>3, <3>2 DEF Accepted
      <3>4. Rtt(timer1) = Clock - pendingT1
        BY <2>3 DEF Rtt
      <3>5. /\ droneSession' = r.session
            /\ IF Clock - pendingT1 < 0
               THEN UNCHANGED <<lastRtt, onWire>>
               ELSE /\ lastRtt' = Clock - pendingT1
                    /\ onWire' = IF r.skew = skew THEN r.arrived - Sent(r) ELSE None
        BY <1>1, <3>2, <3>4 DEF Bogus
      <3> HIDE DEF t1, count, due
      <3> QED BY <3>1, <3>3, <3>5 DEF Drained, Taken
    <2> QED BY <2>1, <2>2, <2>3
  <1>5. t1 # None => t1 \in Int
    BY <1>4 DEF Drained, Forced, Kept, Taken, TypeOK, WallTime
  <1>6. Ticked(t1, count, due, sent)
    <2> DEFINE step == Action(timer2(r))
    <2> HIDE DEF timer2
    <2>1. timer3(r) =
            LET send(n) == [timer2(r) EXCEPT !.count = n, !.t1 = IF sent THEN Clock ELSE @]
            IN  CASE step = "nothing" -> timer2(r)
                  [] step = "hello"   -> send(0)
                  [] step = "retry"   -> send(count + 1)
                  [] step = "give up" -> [t1 |-> None, count |-> 0, due |-> Clock + LongResync]
      BY DEF TickTimer
    <2>2. CASE t1 = None /\ ~(Clock >= due)
      <3>1. step = "nothing"
        BY <2>2 DEF Action
      <3> QED BY <1>1, <2>1, <2>2, <3>1 DEF Ticked, Waits
    <2>3. CASE t1 = None /\ Clock >= due
      <3>1. step = "hello"
        BY <2>3 DEF Action
      <3>2. timer3(r) = [t1 |-> IF sent THEN Clock ELSE t1, count |-> 0, due |-> due]
        BY <1>3, <2>1, <3>1
      <3>3. Sends(t1, sent) /\ retryCount' = 0 /\ nextDue' = due
        BY <1>1, <3>1, <3>2 DEF Sends
      <3>4. burstStart' = IF sent THEN now ELSE None
        BY <1>1, <2>3, <3>1, <3>2, ClockIsTime
      <3> QED BY <2>3, <3>3, <3>4 DEF Ticked, Starts
    <2>4. CASE t1 # None /\ ~Overdue(timer2(r))
      <3>1. step = "nothing"
        BY <2>4 DEF Action
      <3>2. Clock - t1 < FastRetry
        BY <1>5, <2>4, ClockIsTime, TimerAssumption DEF Overdue
      <3>3. timer3(r) = timer2(r)
        BY <2>1, <3>1
      <3>4. pendingT1' = t1 /\ retryCount' = count /\ nextDue' = due
            /\ UNCHANGED <<net, losses, burstStart>>
        BY <1>1, <2>4, <3>1, <3>3
      <3> QED BY <2>4, <3>2, <3>4 DEF Ticked, Waits
    <2>5. CASE t1 # None /\ Overdue(timer2(r)) /\ Retries(timer2(r))
      <3>1. step = "retry"
        BY <2>5 DEF Action, GivesUp
      <3>2. timer3(r) = [t1 |-> IF sent THEN Clock ELSE t1, count |-> count + 1, due |-> due]
        BY <1>3, <2>1, <3>1
      <3>3. Sends(t1, sent) /\ retryCount' = count + 1 /\ nextDue' = due
        BY <1>1, <3>1, <3>2 DEF Sends
      <3>4. burstStart' = burstStart
        BY <1>1, <2>5, <3>1, <3>2, ClockIsTime
      <3> QED BY <2>5, <3>3, <3>4 DEF Ticked, SendsAgain, Overdue, Retries
    <2>6. CASE t1 # None /\ Overdue(timer2(r)) /\ ~Retries(timer2(r))
      <3>1. step = "give up"
        BY <2>6 DEF Action, GivesUp
      <3>2. timer3(r) = [t1 |-> None, count |-> 0, due |-> Clock + LongResync]
        BY <2>1, <3>1
      <3>3. pendingT1' = None /\ retryCount' = 0 /\ nextDue' = Clock + LongResync
            /\ burstStart' = None
        BY <1>1, <3>2
      <3>4. ~sends(r)
        BY <3>1
      <3>5. UNCHANGED <<net, losses>>
        BY <1>1, <3>4
      <3> QED BY <3>3, <3>5 DEF Ticked, BacksOff
    <2> QED BY <2>2, <2>3, <2>4, <2>5, <2>6
  <1>7. /\ lineIn < Period /\ lineIn' = Period /\ inbox' = {}
        /\ UNCHANGED <<now, skew, session>>
    BY DEF StatsLine
  <1> QED BY <1>4, <1>6, <1>7

----------------------------------------------------------------------------
(* Datagrams, and what the client makes of them. *)

\* The time since the last line.
SinceLine == Period - lineIn

\* A datagram was sent on an earlier line, or the last one, no longer ago than
\* the link takes; a reply has waited since, but for the next line at most.
InNet(m) ==
    /\ m.skew \in {Start, skew} /\ Sent(m) \in 0..(now - SinceLine)
    /\ now - Sent(m) <= MaxTrip
    /\ m.kind = "I" => m.session <= session
InInbox(r) ==
    /\ r.skew \in {Start, skew} /\ Sent(r) \in 0..r.arrived
    /\ r.arrived - Sent(r) <= MaxTrip
    /\ Sent(r) <= now - SinceLine
    /\ r.arrived <= now /\ now - r.arrived <= SinceLine
    /\ r.session <= session
LinkInv ==
    /\ \A m \in net : InNet(m)
    /\ \A r \in inbox : InInbox(r)

RttInv == RttWithinPeriod /\ lastRtt \in Nat \cup {None}

Inv == TypeOK /\ LinkInv /\ RttInv

NetTypes ==
    \A m \in net : /\ m.kind \in {"H", "I"} /\ m.t1 \in WallTime /\ m.skew \in Skew
                   /\ m.kind = "I" => m.session \in Session
InboxTypes ==
    \A r \in inbox : /\ r.t1 \in WallTime /\ r.skew \in Skew
                     /\ r.session \in Session /\ r.arrived \in Time

LEMMA MessageTypes == TypeOK => NetTypes /\ InboxTypes
  BY DEF TypeOK, Hello, Reply, Received, NetTypes, InboxTypes

LEMMA SetTypes ==
    /\ WallTime \subseteq Nat /\ Time \subseteq Nat /\ Session \subseteq Nat
    /\ Skew \subseteq Nat /\ Start \in Skew
    /\ 0 \in Time /\ 0 \in Session /\ 0 \in 0..MaxRetries /\ 0 \in 0..MaxLosses
    /\ 0 \in 0..Period /\ Period \in 0..Period
    /\ 0 \in 0..(MaxTime + Start + Step + LongResync)
  BY TimerAssumption, BoundAssumption DEF WallTime, Time, Session, Skew

LEMMA SentType ==
    TypeOK => /\ \A m \in net : Sent(m) \in Int
              /\ \A r \in inbox : Sent(r) \in Int
  <1>1. ASSUME NEW m, m.t1 \in WallTime, m.skew \in Skew PROVE Sent(m) \in Int
    <2>1. m.t1 \in Nat /\ m.skew \in Nat
      BY <1>1, SetTypes
    <2> QED BY <2>1 DEF Sent
  <1> QED BY <1>1, MessageTypes DEF NetTypes, InboxTypes

LEMMA LineTypes ==
    ASSUME Inv, NEW video \in BOOLEAN, NEW sent \in BOOLEAN, StatsLine(video, sent)
    PROVE  TypeOK' /\ RttInv'
  <1>0. InboxTypes
    BY MessageTypes DEF Inv
  <1> USE DEF Inv, RttInv, TypeOK, InboxTypes
  <1> DEFINE Due == 0..(MaxTime + Start + Step + LongResync)
  <1>1. PICK t1, count, due : Drained(t1, count, due) /\ Ticked(t1, count, due, sent)
    BY DrainCases
  <1>2. \A t \in WallTime : t + LongResync \in Due
    BY TimerAssumption, BoundAssumption DEF WallTime
  <1>3. t1 \in WallTime \cup {None} /\ count \in 0..MaxRetries /\ due \in Due
    BY <1>1, <1>2, SetTypes DEF Drained, Forced, Kept, Taken
  <1>4. /\ droneSession' \in Session \cup {None}
        /\ lastRtt' \in Nat \cup {None}
        /\ onWire' \in Time \cup {None}
        /\ RttWithinPeriod'
    <2>1. CASE UNCHANGED <<lastRtt, onWire>>
      <3>1. droneSession' \in Session \cup {None}
        BY <1>0, <1>1 DEF Drained, Forced, Kept, Taken
      <3> QED BY <2>1, <3>1 DEF RttWithinPeriod
    <2>2. ASSUME NEW r \in inbox, Taken(r, t1, count, due), ~(Clock - pendingT1 < 0)
          PROVE  /\ droneSession' \in Session \cup {None}
                 /\ lastRtt' \in Nat \cup {None}
                 /\ onWire' \in Time \cup {None}
                 /\ RttWithinPeriod'
      <3>1. /\ r.t1 = pendingT1 /\ pendingT1 \in Nat /\ Clock \in Nat /\ r.session \in Session
            /\ lastRtt' = Clock - pendingT1 /\ droneSession' = r.session
        BY <1>0, <2>2, SetTypes, ClockIsTime DEF Taken
      <3>2. lastRtt' \in Nat
        BY <2>2, <3>1
      <3>3. CASE r.skew # skew
        <4>1. onWire' = None
          BY <2>2, <3>3 DEF Taken
        <4> QED BY <3>1, <3>2, <4>1 DEF RttWithinPeriod
      <3>4. CASE r.skew = skew
        <4>1. onWire' = r.arrived - Sent(r)
          BY <2>2, <3>4 DEF Taken
        <4>2. lastRtt' = now - Sent(r)
          BY <3>1, <3>4, SetTypes DEF Sent, Clock
        <4>3. /\ Sent(r) \in 0..r.arrived /\ r.arrived <= now /\ now - r.arrived <= SinceLine
              /\ r.arrived \in 0..MaxTime /\ Sent(r) \in Int /\ now \in Int
          BY <1>0, SentType DEF LinkInv, InInbox, Time
        <4>4. SinceLine \in 0..Period
          BY TimerAssumption DEF SinceLine
        <4>5. onWire' \in Time
          BY <4>1, <4>3, BoundAssumption DEF Time
        <4>6. onWire' <= lastRtt' /\ lastRtt' <= onWire' + Period
          BY <4>1, <4>2, <4>3, <4>4, TimerAssumption
        <4> QED BY <3>1, <3>2, <4>5, <4>6 DEF RttWithinPeriod
      <3> QED BY <3>3, <3>4
    <2> QED BY <1>1, <2>1, <2>2 DEF Drained, Forced, Kept, Taken
  <1>5. Clock \in WallTime /\ [kind |-> "H", t1 |-> Clock, skew |-> skew] \in Hello
    BY ClockIsTime DEF Hello
  <1>6. pendingT1' \in WallTime \cup {None} /\ net' \subseteq Hello \cup Reply
        /\ burstStart' \in Time \cup {None}
    BY <1>1, <1>3, <1>5 DEF Ticked, Waits, Starts, SendsAgain, BacksOff, Sends
  <1>7. losses' \in 0..MaxLosses
    BY <1>1, BoundAssumption DEF Ticked, Waits, Starts, SendsAgain, BacksOff, Sends
  <1>8. retryCount' \in 0..MaxRetries
    BY <1>1, <1>3, SetTypes, TimerAssumption DEF Ticked, Waits, Starts, SendsAgain, BacksOff
  <1>9. nextDue' \in Due
    BY <1>1, <1>2, <1>3, <1>5 DEF Ticked, Waits, Starts, SendsAgain, BacksOff
  <1>10. /\ lineIn' = Period /\ inbox' = {} /\ hadVideo' = video
         /\ UNCHANGED <<now, skew, session>>
    BY DEF StatsLine
  <1> QED BY <1>4, <1>6, <1>7, <1>8, <1>9, <1>10, SetTypes DEF RttWithinPeriod

LEMMA LeftSubset ==
    \A m : \A rest \in Left(m) : net \ {m} \subseteq rest /\ rest \subseteq net
  BY DEF Left

LEMMA TypeStep == Inv /\ [Next]_vars => TypeOK' /\ RttInv'
  <1> SUFFICES ASSUME Inv, [Next]_vars PROVE TypeOK' /\ RttInv' OBVIOUS
  <1>0. NetTypes
    BY MessageTypes DEF Inv
  <1> USE DEF Inv, RttInv, TypeOK
  <1>1. CASE Tick
    <2>1. now' \in Time /\ lineIn' \in 0..Period
      BY <1>1, BoundAssumption, TimerAssumption DEF Tick, Time
    <2> QED BY <1>1, <2>1 DEF Tick, clientVars, historyVars, RttWithinPeriod
  <1>2. CASE DroneRestart
    <2>1. session' \in Session
      BY <1>2, BoundAssumption DEF DroneRestart, Session
    <2> QED BY <1>2, <2>1 DEF DroneRestart, clientVars, historyVars, RttWithinPeriod
  <1>3. ASSUME NEW by \in {-Step, Step}, SetClock(by) PROVE TypeOK' /\ RttInv'
    <2>1. skew' \in Skew
      BY <1>3, TimerAssumption DEF SetClock, Skew
    <2> QED BY <1>3, <2>1 DEF SetClock, clientVars, RttWithinPeriod
  <1>4. ASSUME NEW m \in net, Lose(m) PROVE TypeOK' /\ RttInv'
    <2>1. losses' \in 0..MaxLosses
      BY <1>4, BoundAssumption DEF Lose
    <2> QED BY <1>4, <2>1 DEF Lose, clientVars, historyVars, RttWithinPeriod
  <1>5. ASSUME NEW m \in net, DroneReply(m) PROVE TypeOK' /\ RttInv'
    <2>1. net' \subseteq Hello \cup Reply
      <3>1. [kind |-> "I", t1 |-> m.t1, skew |-> m.skew, session |-> session] \in Reply
        BY <1>0 DEF NetTypes, Reply
      <3> QED BY <1>5, <3>1, LeftSubset DEF DroneReply
    <2> QED BY <1>5, <2>1 DEF DroneReply, clientVars, historyVars, RttWithinPeriod
  <1>6. ASSUME NEW m \in net, Arrive(m) PROVE TypeOK' /\ RttInv'
    <2>1. inbox' \subseteq Received
      <3>1. [t1 |-> m.t1, skew |-> m.skew, session |-> m.session, arrived |-> now] \in Received
        BY <1>0, <1>6 DEF NetTypes, Received, Arrive
      <3> QED BY <1>6, <3>1 DEF Arrive
    <2>2. net' \subseteq Hello \cup Reply
      BY <1>6, LeftSubset DEF Arrive
    <2> QED BY <1>6, <2>1, <2>2 DEF Arrive, clientVars, historyVars, RttWithinPeriod
  <1>7. ASSUME NEW video \in BOOLEAN, NEW sent \in BOOLEAN, StatsLine(video, sent)
        PROVE  TypeOK' /\ RttInv'
    BY <1>7, LineTypes
  <1>8. CASE UNCHANGED vars
    BY <1>8 DEF vars, clientVars, historyVars, RttWithinPeriod
  <1> QED BY <1>1, <1>2, <1>3, <1>4, <1>5, <1>6, <1>7, <1>8 DEF Next

\* The hello a line may put on the link.
NewHello == [kind |-> "H", t1 |-> Clock, skew |-> skew]

LEMMA NewHelloFacts ==
    TypeOK => /\ NewHello.kind = "H" /\ NewHello.t1 = Clock /\ NewHello.skew = skew
              /\ Sent(NewHello) = now
  <1> SUFFICES ASSUME TypeOK PROVE Sent(NewHello) = now
    BY DEF NewHello
  <1>1. now \in Nat /\ skew \in Nat
    BY SetTypes DEF TypeOK
  <1> QED BY <1>1 DEF NewHello, Sent, Clock

LEMMA TimeTypes ==
    TypeOK => /\ now \in Nat /\ skew \in Nat /\ session \in Nat
              /\ lineIn \in Nat /\ SinceLine \in Nat /\ SinceLine <= Period
              /\ Period \in Nat /\ MaxTrip \in Nat
  BY SetTypes, TimerAssumption DEF TypeOK, SinceLine

LEMMA LinkStep == Inv /\ [Next]_vars => LinkInv'
  <1> SUFFICES ASSUME Inv, [Next]_vars PROVE LinkInv' OBVIOUS
  <1>1. TypeOK /\ (\A m \in net : InNet(m) /\ Sent(m) \in Int)
        /\ (\A r \in inbox : InInbox(r) /\ Sent(r) \in Int /\ r.arrived \in Nat /\ r.session \in Nat)
    BY SentType, MessageTypes, SetTypes DEF Inv, LinkInv, InboxTypes
  <1>2. NetTypes /\ \A m \in net : m.kind = "I" => m.session \in Nat
    BY <1>1, MessageTypes, SetTypes DEF NetTypes
  <1> USE <1>1, TimeTypes
  <1>3. CASE Tick
    <2>1. now' = now + 1 /\ SinceLine' = SinceLine + 1 /\ UNCHANGED <<skew, session, net, inbox>>
      BY <1>3 DEF Tick, SinceLine
    <2>2. ASSUME NEW m \in net PROVE InNet(m)'
      <3>1. now - Sent(m) < MaxTrip
        BY <1>3 DEF Tick
      <3> QED BY <2>1, <3>1 DEF InNet, Sent
    <2>3. ASSUME NEW r \in inbox PROVE InInbox(r)'
      BY <2>1 DEF InInbox, Sent
    <2> QED BY <2>1, <2>2, <2>3 DEF LinkInv
  <1>4. CASE DroneRestart
    <2>1. session' = session + 1 /\ UNCHANGED <<now, lineIn, skew, net, inbox>>
      BY <1>4 DEF DroneRestart
    <2> QED BY <1>2, <2>1 DEF LinkInv, InNet, InInbox, Sent, SinceLine
  <1>5. ASSUME NEW by \in {-Step, Step}, SetClock(by) PROVE LinkInv'
    BY <1>5 DEF SetClock, LinkInv, InNet, InInbox, Sent, SinceLine
  <1>6. ASSUME NEW m \in net, Lose(m) PROVE LinkInv'
    BY <1>6 DEF Lose, LinkInv, InNet, InInbox, Sent, SinceLine
  <1>7. ASSUME NEW m \in net, DroneReply(m) PROVE LinkInv'
    <2> DEFINE reply == [kind |-> "I", t1 |-> m.t1, skew |-> m.skew, session |-> session]
    <2>1. net' \subseteq net \cup {reply} /\ UNCHANGED <<now, lineIn, skew, session, inbox>>
      BY <1>7, LeftSubset DEF DroneReply
    <2>2. ASSUME NEW k, k = reply PROVE InNet(k)'
      <3>1. k.session = session /\ k.skew = m.skew /\ k.t1 = m.t1
        BY <2>2
      <3>2. InNet(m) /\ Sent(m) \in Int /\ Sent(k) = Sent(m)
        BY <3>1 DEF Sent
      <3> QED BY <2>1, <3>1, <3>2 DEF InNet, Sent, SinceLine
    <2>3. ASSUME NEW k \in net PROVE InNet(k)'
      BY <2>1 DEF InNet, Sent, SinceLine
    <2>4. ASSUME NEW r \in inbox PROVE InInbox(r)'
      BY <2>1 DEF InInbox, Sent, SinceLine
    <2> QED BY <2>1, <2>2, <2>3, <2>4 DEF LinkInv
  <1>8. ASSUME NEW m \in net, Arrive(m) PROVE LinkInv'
    <2> DEFINE got == [t1 |-> m.t1, skew |-> m.skew, session |-> m.session, arrived |-> now]
    <2>1. net' \subseteq net /\ inbox' = inbox \cup {got} /\ m.kind = "I"
          /\ UNCHANGED <<now, lineIn, skew, session>>
      BY <1>8, LeftSubset DEF Arrive
    <2>2. ASSUME NEW k, k = got PROVE InInbox(k)'
      <3>1. k.session = m.session /\ k.skew = m.skew /\ k.t1 = m.t1 /\ k.arrived = now
        BY <2>2
      <3>2. InNet(m) /\ Sent(m) \in Int /\ Sent(k) = Sent(m)
        BY <3>1 DEF Sent
      <3> QED BY <2>1, <3>1, <3>2 DEF InNet, InInbox, Sent, SinceLine
    <2>3. ASSUME NEW k \in net PROVE InNet(k)'
      BY <2>1 DEF InNet, Sent, SinceLine
    <2>4. ASSUME NEW r \in inbox PROVE InInbox(r)'
      BY <2>1 DEF InInbox, Sent, SinceLine
    <2> QED BY <2>1, <2>2, <2>3, <2>4 DEF LinkInv
  <1>9. ASSUME NEW video \in BOOLEAN, NEW sent \in BOOLEAN, StatsLine(video, sent)
        PROVE  LinkInv'
    <2>1. inbox' = {} /\ SinceLine' = 0 /\ UNCHANGED <<now, skew, session>>
      BY <1>9, DrainCases DEF SinceLine
    <2>2. net' \subseteq net \cup {NewHello}
      BY <1>9, DrainCases
         DEF Ticked, Waits, Starts, SendsAgain, BacksOff, Sends, NewHello
    <2>3. ASSUME NEW k, k = NewHello PROVE InNet(k)'
      <3>1. k.kind = "H" /\ k.skew = skew /\ Sent(k) = now
        BY <2>3, NewHelloFacts
      <3> QED BY <2>1, <3>1 DEF InNet, Sent
    <2>4. ASSUME NEW k \in net PROVE InNet(k)'
      BY <2>1 DEF InNet, Sent
    <2> QED BY <2>1, <2>2, <2>3, <2>4 DEF LinkInv
  <1>10. CASE UNCHANGED vars
    BY <1>10 DEF vars, LinkInv, InNet, InInbox, Sent, SinceLine
  <1> QED BY <1>3, <1>4, <1>5, <1>6, <1>7, <1>8, <1>9, <1>10 DEF Next

LEMMA InitInv == Init => Inv
  <1> SUFFICES ASSUME Init PROVE Inv OBVIOUS
  <1> USE SetTypes DEF Init
  <1>1. TypeOK
    BY DEF TypeOK
  <1> QED BY <1>1 DEF Inv, LinkInv, RttInv, RttWithinPeriod

LEMMA InvAlways == Spec => []Inv
  <1>1. Inv /\ [Next]_vars => Inv'
    BY TypeStep, LinkStep DEF Inv
  <1> QED BY <1>1, InitInv, PTL DEF Spec

\* Time, the link, the socket's buffer and the client stay in their types.
THEOREM TypeCorrect == Spec => []TypeOK
  <1>1. Inv => TypeOK
    BY DEF Inv
  <1> QED BY <1>1, InvAlways, PTL

\* The RTT reported (_update_rtt) is the link's and at most the wait for one
\* stats line, since the buffer is drained on every line.
THEOREM RttAlwaysWithinPeriod == Spec => []RttWithinPeriod
  <1>1. Inv => RttWithinPeriod
    BY DEF Inv, RttInv
  <1> QED BY <1>1, InvAlways, PTL

----------------------------------------------------------------------------
(* The client's timers. *)

\* What the clock was set by, at most.
Jump == IF skew = Start THEN 0 ELSE Step

\* The timers of a clock that never goes back, but for the step: a hello in
\* flight has outlasted its retry interval by a line for each failed retry, and
\* the time since the last line.
TimerInv ==
    /\ nextDue - Clock <= LongResync + Jump
    /\ pendingT1 # None =>
          /\ pendingT1 - Clock <= Jump
          /\ Clock - pendingT1 < FastRetry + retryCount * Period + SinceLine + Jump

LEMMA TimerTypes ==
    TypeOK => /\ Clock \in Nat /\ nextDue \in Nat /\ retryCount \in Nat
              /\ retryCount * Period \in Nat
              /\ pendingT1 # None => pendingT1 \in Nat
              /\ Jump \in Nat /\ Jump <= Step
              /\ FastRetry \in Nat /\ FastRetry > 0 /\ LongResync \in Nat /\ Step \in Nat
  <1> SUFFICES ASSUME TypeOK
               PROVE  /\ Clock \in Nat /\ nextDue \in Nat /\ retryCount \in Nat
                      /\ retryCount * Period \in Nat
                      /\ pendingT1 # None => pendingT1 \in Nat
                      /\ Jump \in Nat /\ Jump <= Step
                      /\ FastRetry \in Nat /\ FastRetry > 0 /\ LongResync \in Nat
                      /\ Step \in Nat
    OBVIOUS
  <1>1. retryCount \in Nat /\ Period \in Nat
    BY TimerAssumption DEF TypeOK
  <1>2. pendingT1 # None => pendingT1 \in Nat
    BY SetTypes DEF TypeOK
  <1>3. nextDue \in Nat
    BY TimerAssumption, BoundAssumption DEF TypeOK
  <1>4. FastRetry \in Nat /\ FastRetry > 0 /\ LongResync \in Nat /\ Step \in Nat
    BY TimerAssumption
  <1>5. Jump \in Nat /\ Jump <= Step
    BY <1>4 DEF Jump
  <1>6. retryCount * Period \in Nat
    BY <1>1
  <1> QED BY <1>1, <1>2, <1>3, <1>4, <1>5, <1>6, ClockIsTime

LEMMA LineTimers ==
    ASSUME TypeOK, TimerInv, NEW video \in BOOLEAN, NEW sent \in BOOLEAN,
           StatsLine(video, sent)
    PROVE  TimerInv'
  <1>1. PICK t1, count, due : Drained(t1, count, due) /\ Ticked(t1, count, due, sent)
    BY DrainCases
  <1>2. Clock' = Clock /\ SinceLine' = 0 /\ Jump' = Jump /\ lineIn < Period
    <2>1. lineIn' = Period /\ lineIn < Period /\ now' = now /\ skew' = skew
      BY DrainCases
    <2> QED BY <2>1, TimeTypes DEF Clock, SinceLine, Jump
  <1>3. count \in Nat /\ count * Period \in Nat /\ due \in Int
        /\ due - Clock <= LongResync + Jump
    BY <1>1, TimerTypes, TimeTypes DEF TimerInv, Drained, Forced, Kept, Taken
  <1>4. t1 # None =>
           /\ t1 \in Nat /\ t1 - Clock <= Jump
           /\ Clock - t1 < FastRetry + count * Period + SinceLine + Jump
    BY <1>1, TimerTypes DEF TimerInv, Drained, Forced, Kept, Taken
  <1>5. nextDue' - Clock <= LongResync + Jump
    BY <1>1, <1>3, TimerTypes DEF Ticked, Waits, Starts, SendsAgain, BacksOff
  <1>6. ASSUME pendingT1' # None
        PROVE  /\ pendingT1' - Clock <= Jump
               /\ Clock - pendingT1' < FastRetry + retryCount' * Period + Jump
    <2>1. CASE Waits(t1, count, due)
      BY <1>3, <1>4, <1>6, <2>1, TimerTypes DEF Waits
    <2>2. CASE Starts(t1, due, sent)
      <3>1. pendingT1' = Clock /\ retryCount' = 0 /\ 0 * Period = 0
        BY <1>6, <2>2, TimeTypes DEF Starts, Sends
      <3> QED BY <3>1, TimerTypes
    <2>3. CASE SendsAgain(t1, count, due, sent)
      <3>1. retryCount' * Period = count * Period + Period
        BY <1>3, <2>3, TimeTypes DEF SendsAgain
      <3>2. CASE sent
        <4>1. pendingT1' = Clock
          BY <2>3, <3>2 DEF SendsAgain, Sends
        <4> QED BY <4>1, <1>3, <3>1, TimerTypes, TimeTypes
      <3>3. CASE ~sent
        <4>1. pendingT1' = t1
          BY <2>3, <3>3 DEF SendsAgain, Sends
        <4> QED BY <4>1, <1>3, <1>4, <1>6, <3>1, TimerTypes, TimeTypes
      <3> QED BY <3>2, <3>3
    <2>4. ~BacksOff
      BY <1>6 DEF BacksOff
    <2> QED BY <1>1, <2>1, <2>2, <2>3, <2>4 DEF Ticked
  <1>7. retryCount' * Period \in Int
    <2>1. retryCount' \in Nat
      BY <1>1, <1>3 DEF Ticked, Waits, Starts, SendsAgain, BacksOff
    <2> QED BY <2>1, TimeTypes
  <1>8. FastRetry + retryCount' * Period + SinceLine' + Jump' = FastRetry + retryCount' * Period + Jump
    BY <1>2, <1>7, TimerTypes
  <1> QED BY <1>2, <1>5, <1>6, <1>8 DEF TimerInv

LEMMA TimerStep == TypeOK /\ TimerInv /\ [Next]_vars => TimerInv'
  <1> SUFFICES ASSUME TypeOK, TimerInv, [Next]_vars PROVE TimerInv' OBVIOUS
  <1> USE TimerTypes, TimeTypes DEF TimerInv
  <1>1. CASE Tick
    <2>1. Clock' = Clock + 1 /\ SinceLine' = SinceLine + 1 /\ Jump' = Jump
          /\ UNCHANGED <<nextDue, pendingT1, retryCount>>
      BY <1>1 DEF Tick, Clock, SinceLine, Jump, clientVars
    <2> QED BY <2>1
  <1>2. ASSUME NEW by \in {-Step, Step}, SetClock(by) PROVE TimerInv'
    <2>1. Clock' = Clock + by /\ SinceLine' = SinceLine /\ Jump = 0
          /\ UNCHANGED <<nextDue, pendingT1, retryCount>>
      BY <1>2 DEF SetClock, Clock, SinceLine, Jump, clientVars
    <2>2. Jump' = Step /\ (by = Step \/ by = -Step)
      BY <1>2 DEF SetClock, Jump
    <2> QED BY <2>1, <2>2
  <1>3. ASSUME NEW video \in BOOLEAN, NEW sent \in BOOLEAN, StatsLine(video, sent)
        PROVE  TimerInv'
    BY <1>3, LineTimers
  <1>4. CASE UNCHANGED <<now, skew, lineIn, clientVars>>
    BY <1>4 DEF Clock, SinceLine, Jump, clientVars
  <1>5. ASSUME NEW m \in net, Lose(m) \/ DroneReply(m) \/ Arrive(m)
        PROVE  UNCHANGED <<now, skew, lineIn, clientVars>>
    BY <1>5 DEF Lose, DroneReply, Arrive
  <1>6. CASE DroneRestart \/ UNCHANGED vars
    BY <1>4, <1>6 DEF DroneRestart, vars
  <1> QED BY <1>1, <1>2, <1>3, <1>4, <1>5, <1>6 DEF Next

\* A clock that is set cannot put the next hello, or the end of the one in
\* flight, further off than the step itself (tick, HandshakeClient).
THEOREM HelloIsNeverFar == Spec => []HelloNeverFar
  <1>1. Init => TimerInv
    BY TimerAssumption, NoneAssumption DEF Init, TimerInv, Clock, Jump
  <1>2. TypeOK /\ TimerInv => HelloNeverFar
    <2> SUFFICES ASSUME TypeOK, TimerInv PROVE HelloNeverFar OBVIOUS
    <2> USE TimerTypes, TimeTypes
    <2>1. retryCount * Period <= MaxRetries * Period /\ MaxRetries * Period \in Nat
      <3>1. retryCount \in 0..MaxRetries /\ MaxRetries \in Nat
        BY TimerAssumption DEF TypeOK
      <3>2. MaxRetries * Period = retryCount * Period + (MaxRetries - retryCount) * Period
            /\ (MaxRetries - retryCount) * Period >= 0
        BY <3>1
      <3> QED BY <3>1, <3>2
    <2>2. (MaxRetries + 1) * Period = MaxRetries * Period + Period
      BY TimerAssumption
    <2> QED BY <2>1, <2>2 DEF TimerInv, HelloNeverFar
  <1> QED BY <1>1, <1>2, TimerStep, TypeCorrect, PTL DEF Spec

----------------------------------------------------------------------------
(* The drone's sessions. *)

NotOlder(m) == droneSession # None => droneSession <= m.session

\* The hello in flight was read with the clock s ahead: it is the newest
\* on the link, and its reply is of no older session than the client's.
PendingFrom(s) ==
    /\ pendingT1 - s \in 0..now
    /\ \A m \in net \cup inbox : m.skew \in {Start, s} /\ Sent(m) <= pendingT1 - s
    /\ \A m \in net : m.kind = "I" /\ Sent(m) = pendingT1 - s => NotOlder(m)
    /\ \A r \in inbox : Sent(r) = pendingT1 - s => NotOlder(r)

SessionInv ==
    /\ droneSession # None => droneSession <= session
    /\ pendingT1 # None => \E s \in {Start, skew} : PendingFrom(s)

\* What a line that accepts a reply learns from it.
LEMMA TakenNotOlder ==
    ASSUME Inv, SessionInv, NEW r \in inbox, NEW t1, NEW count, NEW due,
           Taken(r, t1, count, due), droneSession # None, onWire' # None
    PROVE  droneSession <= r.session
  <1>1. PICK s \in {Start, skew} : PendingFrom(s)
    BY DEF Taken, SessionInv
  <1>2. /\ pendingT1 - s \in 0..now /\ r.skew \in {Start, s}
        /\ Sent(r) = pendingT1 - s => NotOlder(r)
    BY <1>1 DEF PendingFrom
  <1>3. /\ r.t1 = pendingT1 /\ pendingT1 \in Nat /\ s \in Nat /\ now \in Nat /\ skew \in Nat
        /\ Start \in Nat /\ r.skew \in {Start, skew}
    BY SetTypes, TimeTypes, TimerTypes DEF Taken, Inv, LinkInv, InInbox
  <1>4. r.skew = s
    <2>1. CASE Clock - pendingT1 < 0
      <3>1. skew < s
        BY <1>2, <1>3, <2>1 DEF Clock
      <3>2. s = Start
        BY <1>3, <3>1
      <3> QED BY <1>2, <3>2
    <2>2. CASE ~(Clock - pendingT1 < 0)
      <3>1. r.skew = skew
        BY <2>2 DEF Taken
      <3> QED BY <1>2, <3>1
    <2> QED BY <2>1, <2>2
  <1>5. Sent(r) = pendingT1 - s
    BY <1>3, <1>4 DEF Sent
  <1> QED BY <1>2, <1>5 DEF NotOlder

\* A line either leaves the hello in flight to the link, or sends a new one, of
\* a time at which nothing had been sent yet.
LEMMA LinePending ==
    ASSUME Inv, NEW video \in BOOLEAN, NEW sent \in BOOLEAN, StatsLine(video, sent),
           pendingT1' # None
    PROVE  /\ inbox' = {} /\ UNCHANGED <<now, skew>>
           /\ \/ /\ pendingT1' = pendingT1 /\ UNCHANGED <<net, droneSession>>
                 /\ \A r \in inbox : r.t1 # pendingT1
              \/ /\ pendingT1' = Clock /\ net' = net \cup {NewHello}
                 /\ \A m \in net : Sent(m) < now
  <1>0. TypeOK
    BY DEF Inv
  <1>1. PICK t1, count, due : Drained(t1, count, due) /\ Ticked(t1, count, due, sent)
    BY <1>0, DrainCases
  <1>2. \A m \in net : Sent(m) < now
    <2>1. lineIn < Period
      BY <1>0, DrainCases
    <2>2. ASSUME NEW m \in net PROVE Sent(m) < now
      <3>1. Sent(m) \in 0..(now - SinceLine)
        BY DEF Inv, LinkInv, InNet
      <3> QED BY <2>1, <3>1, TimeTypes DEF Inv, SinceLine
    <2> QED BY <2>2
  <1>3. \/ pendingT1' = t1 /\ net' = net
        \/ pendingT1' = Clock /\ net' = net \cup {NewHello}
    BY <1>1 DEF Ticked, Waits, Starts, SendsAgain, BacksOff, Sends, NewHello
  <1>4. CASE pendingT1' = t1 /\ net' = net
    <2>1. Kept(t1, count, due)
      BY <1>1, <1>4 DEF Drained, Forced, Taken
    <2> QED BY <1>4, <2>1, <1>0, DrainCases DEF Kept
  <1>5. CASE pendingT1' = Clock /\ net' = net \cup {NewHello}
    BY <1>2, <1>5, <1>0, DrainCases
  <1> QED BY <1>3, <1>4, <1>5

LEMMA LineSession ==
    ASSUME Inv, SessionInv, NEW video \in BOOLEAN, NEW sent \in BOOLEAN,
           StatsLine(video, sent)
    PROVE  SessionInv'
  <1>0. TypeOK
    BY DEF Inv
  <1>1. PICK t1, count, due : Drained(t1, count, due) /\ Ticked(t1, count, due, sent)
    BY <1>0, DrainCases
  <1>2. droneSession' # None => droneSession' <= session'
    <2>1. session' = session
      BY <1>0, DrainCases
    <2> QED BY <1>1, <2>1
            DEF Drained, Forced, Kept, Taken, SessionInv, Inv, LinkInv, InInbox
  <1>3. ASSUME pendingT1' # None PROVE \E s \in {Start, skew'} : PendingFrom(s)'
    <2>1. inbox' = {} /\ UNCHANGED <<now, skew>>
      BY <1>3, LinePending
    <2>2. CASE pendingT1' = pendingT1 /\ UNCHANGED <<net, droneSession>>
      <3>1. PICK s \in {Start, skew} : PendingFrom(s)
        BY <1>3, <2>2 DEF SessionInv
      <3>2. PendingFrom(s)'
        BY <2>1, <2>2, <3>1 DEF PendingFrom, NotOlder, Sent
      <3> QED BY <2>1, <3>1, <3>2
    <2>3. CASE pendingT1' = Clock /\ net' = net \cup {NewHello} /\ \A m \in net : Sent(m) < now
      <3>1. pendingT1' - skew = now /\ now \in Nat
        BY <2>3, TimeTypes DEF Inv, Clock
      <3>2. ASSUME NEW m \in net PROVE m.skew \in {Start, skew} /\ Sent(m) < now /\ Sent(m) \in Int
        BY <2>3, SentType DEF Inv, LinkInv, InNet
      <3>3. ASSUME NEW m, m = NewHello
            PROVE  m.skew = skew /\ Sent(m) = now /\ m.kind = "H"
        BY <3>3, NewHelloFacts DEF Inv
      <3>4. ASSUME NEW s, s = skew PROVE PendingFrom(s)'
        BY <2>1, <2>3, <3>1, <3>2, <3>3, <3>4 DEF PendingFrom, Sent
      <3> QED BY <2>1, <3>4
    <2> QED BY <1>3, <2>2, <2>3, LinePending
  <1> QED BY <1>2, <1>3 DEF SessionInv

LEMMA SessionStep == Inv /\ SessionInv /\ [Next]_vars => SessionInv'
  <1> SUFFICES ASSUME Inv, SessionInv, [Next]_vars PROVE SessionInv' OBVIOUS
  <1>0. TypeOK
    BY DEF Inv
  <1>1. CASE UNCHANGED <<skew, session, net, inbox, pendingT1, droneSession>>
             /\ (now' = now \/ now' = now + 1)
    <2>1. ASSUME NEW s, PendingFrom(s) PROVE PendingFrom(s)'
      BY <1>0, <1>1, <2>1, TimeTypes DEF PendingFrom, NotOlder, Sent
    <2> QED BY <1>1, <2>1 DEF SessionInv
  <1>2. CASE Tick \/ UNCHANGED vars
    BY <1>1, <1>2 DEF Tick, vars, clientVars
  <1>3. CASE DroneRestart
    <2>1. ASSUME NEW s, PendingFrom(s) PROVE PendingFrom(s)'
      BY <1>3, <2>1 DEF DroneRestart, clientVars, PendingFrom, NotOlder, Sent
    <2>2. droneSession # None => droneSession \in Nat
      BY <1>0, SetTypes DEF TypeOK
    <2> QED BY <1>0, <1>3, <2>1, <2>2, TimeTypes DEF DroneRestart, clientVars, SessionInv
  <1>4. ASSUME NEW by \in {-Step, Step}, SetClock(by) PROVE SessionInv'
    <2>1. PendingFrom(Start) => PendingFrom(Start)'
      BY <1>4 DEF SetClock, clientVars, PendingFrom, NotOlder, Sent
    <2>2. skew = Start /\ UNCHANGED <<session, pendingT1, droneSession>>
      BY <1>4 DEF SetClock, clientVars
    <2> QED BY <2>1, <2>2 DEF SessionInv
  <1>5. ASSUME NEW m \in net, Lose(m) PROVE SessionInv'
    <2>1. ASSUME NEW s, PendingFrom(s) PROVE PendingFrom(s)'
      BY <1>5, <2>1 DEF Lose, clientVars, PendingFrom, NotOlder, Sent
    <2> QED BY <1>5, <2>1 DEF Lose, clientVars, SessionInv
  <1>6. ASSUME NEW m \in net, DroneReply(m) PROVE SessionInv'
    <2> DEFINE reply == [kind |-> "I", t1 |-> m.t1, skew |-> m.skew, session |-> session]
    <2>1. net' \subseteq net \cup {reply}
          /\ UNCHANGED <<now, skew, session, inbox, pendingT1, droneSession>>
      BY <1>6, LeftSubset DEF DroneReply, clientVars
    <2>2. ASSUME NEW s, PendingFrom(s) PROVE PendingFrom(s)'
      <3>1. ASSUME NEW k, k = reply
            PROVE  k.skew \in {Start, s} /\ Sent(k) <= pendingT1 - s /\ NotOlder(k)
        <4>1. k.skew = m.skew /\ k.session = session /\ Sent(k) = Sent(m)
          BY <3>1 DEF Sent
        <4> QED BY <2>2, <4>1 DEF PendingFrom, NotOlder, SessionInv
      <3> HIDE DEF reply
      <3> QED BY <2>1, <2>2, <3>1 DEF PendingFrom, NotOlder, Sent
    <2> QED BY <2>1, <2>2 DEF SessionInv
  <1>7. ASSUME NEW m \in net, Arrive(m) PROVE SessionInv'
    <2> DEFINE got == [t1 |-> m.t1, skew |-> m.skew, session |-> m.session, arrived |-> now]
    <2>1. net' \subseteq net /\ inbox' = inbox \cup {got} /\ m.kind = "I"
          /\ UNCHANGED <<now, skew, session, pendingT1, droneSession>>
      BY <1>7, LeftSubset DEF Arrive, clientVars
    <2>2. ASSUME NEW s, PendingFrom(s) PROVE PendingFrom(s)'
      <3>1. ASSUME NEW k, k = got
            PROVE  /\ k.skew \in {Start, s} /\ Sent(k) <= pendingT1 - s
                   /\ Sent(k) = pendingT1 - s => NotOlder(k)
        <4>1. k.skew = m.skew /\ k.session = m.session /\ Sent(k) = Sent(m)
          BY <3>1 DEF Sent
        <4> QED BY <2>1, <2>2, <4>1 DEF PendingFrom, NotOlder
      <3> HIDE DEF got
      <3> QED BY <2>1, <2>2, <3>1 DEF PendingFrom, NotOlder, Sent
    <2> QED BY <2>1, <2>2 DEF SessionInv
  <1>8. ASSUME NEW video \in BOOLEAN, NEW sent \in BOOLEAN, StatsLine(video, sent)
        PROVE  SessionInv'
    BY <1>8, LineSession
  <1> QED BY <1>2, <1>3, <1>4, <1>5, <1>6, <1>7, <1>8 DEF Next

LEMMA SessionForward ==
    Inv /\ SessionInv /\ [Next]_vars
        => (droneSession # None /\ onWire' # None => droneSession' >= droneSession)
  <1> SUFFICES ASSUME Inv, SessionInv, [Next]_vars, droneSession # None, onWire' # None
               PROVE  droneSession' >= droneSession
    OBVIOUS
  <1>1. droneSession \in Nat
    BY SetTypes DEF Inv, TypeOK
  <1>2. ASSUME NEW video \in BOOLEAN, NEW sent \in BOOLEAN, StatsLine(video, sent)
        PROVE  droneSession' >= droneSession
    <2>1. PICK t1, count, due : Drained(t1, count, due)
      BY <1>2, DrainCases DEF Inv
    <2>2. ASSUME NEW r \in inbox, Taken(r, t1, count, due) PROVE droneSession' >= droneSession
      <3>1. droneSession <= r.session /\ droneSession' = r.session
        BY <2>2, TakenNotOlder DEF Taken
      <3>2. r.session \in Nat
        BY MessageTypes, SetTypes DEF Inv, InboxTypes
      <3> QED BY <1>1, <3>1, <3>2
    <2> QED BY <1>1, <2>1, <2>2 DEF Drained, Forced, Kept
  <1>3. CASE UNCHANGED droneSession
    BY <1>1, <1>3
  <1> QED BY <1>2, <1>3
          DEF Next, Tick, DroneRestart, SetClock, Lose, DroneReply, Arrive, vars, clientVars

\* The client never goes back to a session it has seen end, unless it takes a
\* reply across a step of the clock (handle_reply's comparison of t1).
THEOREM SessionsAlwaysGoForward == Spec => SessionsGoForward
  <1>1. Init => SessionInv
    BY DEF Init, SessionInv
  <1>2. Spec => []SessionInv
    BY <1>1, SessionStep, InvAlways, PTL DEF Spec
  <1>3. Inv /\ SessionInv /\ [Next]_vars
            => [droneSession # None /\ onWire' # None => droneSession' >= droneSession]_vars
    BY SessionForward
  <1> QED BY <1>2, <1>3, InvAlways, PTL DEF Spec, SessionsGoForward

----------------------------------------------------------------------------
(* The recovery from a loss. *)

\* What RecoversFromOneLoss needs of the link: a round trip fits into a retry
\* interval.
TripWithinRetry == MaxTrip < FastRetry

\* When the hello in flight was sent, if the clock was not set since.
SentAt == pendingT1 - skew
InFlight == \E m \in net \cup inbox : m.t1 = pendingT1 /\ m.skew = skew

\* With no loss, the first hello of a burst is on its way; with one, it is lost
\* and not yet overdue for long, or the one sent again is on its way.
RecoveryInv ==
    burstStart # None =>
        /\ pendingT1 # None
        /\ losses <= 1 =>
              /\ losses = 0 => SentAt = burstStart /\ InFlight
              /\ SentAt = burstStart \/ (InFlight /\ SentAt < burstStart + FastRetry + Period)
              /\ ~InFlight => now - SentAt < FastRetry + SinceLine

LEMMA FlightTime ==
    ASSUME Inv, NEW m, m.t1 = pendingT1, m.skew = skew
    PROVE  /\ m \in net => now - SentAt <= MaxTrip
           /\ m \in inbox => now - SentAt <= MaxTrip + SinceLine
  <1>1. Sent(m) = SentAt
    BY DEF Sent, SentAt
  <1>2. m \in net => now - SentAt <= MaxTrip
    BY <1>1 DEF Inv, LinkInv, InNet
  <1>3. ASSUME m \in inbox PROVE now - SentAt <= MaxTrip + SinceLine
    <2>1. m.arrived - SentAt <= MaxTrip /\ now - m.arrived <= SinceLine /\ SentAt \in Int
      BY <1>1, <1>3, SentType DEF Inv, LinkInv, InInbox
    <2>2. m.arrived \in Nat
      BY <1>3, MessageTypes, SetTypes DEF Inv, InboxTypes
    <2> QED BY <2>1, <2>2, TimeTypes DEF Inv
  <1> QED BY <1>2, <1>3

LEMMA RecoveryTypes ==
    TypeOK => /\ losses \in Nat
              /\ burstStart # None => burstStart \in Nat
              /\ pendingT1 # None => SentAt \in Int
  <1> SUFFICES ASSUME TypeOK
               PROVE  /\ losses \in Nat
                      /\ burstStart # None => burstStart \in Nat
                      /\ pendingT1 # None => SentAt \in Int
    OBVIOUS
  <1>1. losses \in Nat /\ (burstStart # None => burstStart \in Nat)
    BY SetTypes, BoundAssumption DEF TypeOK
  <1>2. pendingT1 # None => SentAt \in Int
    BY TimerTypes, TimeTypes DEF SentAt
  <1> QED BY <1>1, <1>2

LEMMA LineRecovery ==
    ASSUME TripWithinRetry, Inv, RecoveryInv, NEW video \in BOOLEAN, NEW sent \in BOOLEAN,
           StatsLine(video, sent), burstStart' # None
    PROVE  RecoveryInv'
  <1>0. TypeOK
    BY DEF Inv
  <1>1. PICK t1, count, due : Drained(t1, count, due) /\ Ticked(t1, count, due, sent)
    BY <1>0, DrainCases
  <1>2. inbox' = {} /\ SinceLine' = 0 /\ UNCHANGED <<now, skew>>
    <2>1. lineIn' = Period /\ inbox' = {} /\ UNCHANGED <<now, skew>>
      BY <1>0, DrainCases
    <2> QED BY <1>0, <2>1, TimeTypes DEF SinceLine
  <1>3. CASE Starts(t1, due, sent)
    <2>1. burstStart' = now /\ pendingT1' = Clock /\ losses' = losses
          /\ net' = net \cup {NewHello}
      BY <1>3 DEF Starts, Sends, NewHello
    <2>2. InFlight'
      BY <1>0, <1>2, <2>1, NewHelloFacts DEF InFlight
    <2>3. SentAt' = now
      BY <1>0, <1>2, <2>1, TimeTypes DEF SentAt, Clock
    <2> QED BY <1>0, <1>2, <2>1, <2>2, <2>3, ClockIsTime DEF RecoveryInv
  <1>4. CASE t1 # None /\ burstStart' = burstStart
             /\ (Waits(t1, count, due) \/ SendsAgain(t1, count, due, sent))
    <2>1. t1 = pendingT1 /\ \A r \in inbox : r.t1 # pendingT1
      BY <1>1, <1>4 DEF Drained, Forced, Kept, Taken
    <2>2. burstStart \in Nat /\ pendingT1 \in Nat /\ SentAt \in Int /\ losses \in Nat
          /\ Clock - pendingT1 = now - SentAt
      <3>1. burstStart \in Nat /\ pendingT1 \in Nat /\ SentAt \in Int /\ losses \in Nat
        BY <1>0, <1>4, <2>1, RecoveryTypes, TimerTypes
      <3> QED BY <1>0, <3>1, TimeTypes DEF Clock, SentAt
    <2>3. CASE Waits(t1, count, due)
      <3>1. /\ pendingT1' = pendingT1 /\ UNCHANGED <<net, losses>> /\ SentAt' = SentAt
            /\ now - SentAt < FastRetry
        BY <1>2, <1>4, <2>1, <2>2, <2>3 DEF Waits, SentAt
      <3>2. InFlight' <=> InFlight
        BY <1>2, <2>1, <3>1 DEF InFlight
      <3>3. now - SentAt < FastRetry + SinceLine'
        BY <1>0, <1>2, <3>1, TimerTypes
      <3> QED BY <1>2, <1>4, <2>1, <3>1, <3>2, <3>3 DEF RecoveryInv
    <2>4. CASE SendsAgain(t1, count, due, sent)
      <3>1. now - SentAt >= FastRetry
        BY <2>1, <2>2, <2>4 DEF SendsAgain
      <3>2. ASSUME InFlight PROVE FALSE
        <4>1. PICK m \in net : m.t1 = pendingT1 /\ m.skew = skew
          BY <2>1, <3>2 DEF InFlight
        <4>2. now - SentAt <= MaxTrip
          BY <4>1, FlightTime
        <4> QED BY <1>0, <2>2, <3>1, <4>2, TimeTypes, TimerTypes DEF TripWithinRetry
      <3>3. CASE sent
        <4>1. pendingT1' = Clock /\ net' = net \cup {NewHello} /\ losses' = losses
          BY <2>4, <3>3 DEF SendsAgain, Sends, NewHello
        <4>2. InFlight' /\ SentAt' = now
          <5>1. InFlight'
            BY <1>0, <1>2, <4>1, NewHelloFacts DEF InFlight
          <5>2. SentAt' = now
            BY <1>0, <1>2, <4>1, TimeTypes DEF SentAt, Clock
          <5> QED BY <5>1, <5>2
        <4>3. ASSUME losses <= 1 PROVE losses # 0 /\ now < burstStart + FastRetry + Period
          <5>1. losses # 0 /\ SentAt = burstStart /\ now - SentAt < FastRetry + SinceLine
            BY <1>4, <3>2, <4>3 DEF RecoveryInv
          <5> QED BY <1>0, <2>2, <5>1, TimeTypes, TimerTypes
        <4> QED BY <1>0, <1>2, <1>4, <4>1, <4>2, <4>3, ClockIsTime DEF RecoveryInv
      <3>4. CASE ~sent
        <4>1. losses' = losses + 1 /\ pendingT1' = pendingT1
          BY <2>1, <2>4, <3>4 DEF SendsAgain, Sends
        <4>2. losses # 0
          BY <1>4, <2>2, <3>2 DEF RecoveryInv
        <4>3. ~(losses' <= 1)
          BY <2>2, <4>1, <4>2
        <4> QED BY <1>4, <2>1, <4>1, <4>3 DEF RecoveryInv
      <3> QED BY <3>3, <3>4
    <2> QED BY <1>4, <2>3, <2>4
  <1> QED BY <1>1, <1>3, <1>4 DEF Ticked, Waits, SendsAgain, BacksOff

LEMMA RecoveryStep ==
    ASSUME TripWithinRetry, Inv, RecoveryInv, [Next]_vars
    PROVE  RecoveryInv'
  <1>0. TypeOK
    BY DEF Inv
  <1> SUFFICES ASSUME burstStart' # None PROVE RecoveryInv'
    BY DEF RecoveryInv
  <1>1. CASE Tick
    <2>1. /\ now' = now + 1 /\ SinceLine' = SinceLine + 1
          /\ UNCHANGED <<net, inbox, skew, pendingT1, burstStart, losses>>
      BY <1>0, <1>1, TimeTypes DEF Tick, SinceLine, clientVars, historyVars
    <2>2. SentAt' = SentAt /\ (InFlight' <=> InFlight)
      BY <2>1 DEF SentAt, InFlight
    <2> QED BY <1>0, <2>1, <2>2, RecoveryTypes, TimeTypes, TimerTypes DEF RecoveryInv
  <1>2. ASSUME NEW m \in net, Lose(m) PROVE RecoveryInv'
    <2>1. /\ losses' = losses + 1 /\ net' = net \ {m}
          /\ UNCHANGED <<now, lineIn, inbox, skew, pendingT1, burstStart>>
      BY <1>2 DEF Lose, clientVars, historyVars
    <2>2. SentAt' = SentAt /\ SinceLine' = SinceLine /\ losses \in Nat
      BY <1>0, <2>1, RecoveryTypes DEF SentAt, SinceLine
    <2>3. ASSUME losses' <= 1, ~InFlight' PROVE now - SentAt < FastRetry + SinceLine
      <3>1. losses = 0
        BY <2>1, <2>2, <2>3
      <3>2. PICK k \in net \cup inbox : k.t1 = pendingT1 /\ k.skew = skew
        BY <2>1, <3>1 DEF RecoveryInv, InFlight
      <3>3. k \in net
        BY <2>1, <2>3, <3>2 DEF InFlight
      <3>4. now - SentAt <= MaxTrip /\ pendingT1 # None
        BY <2>1, <3>2, <3>3, FlightTime DEF RecoveryInv
      <3> QED BY <1>0, <3>4, RecoveryTypes, TimeTypes, TimerTypes DEF TripWithinRetry
    <2>4. losses' <= 1 => losses = 0 /\ losses' # 0
      BY <2>1, <2>2
    <2> QED BY <2>1, <2>2, <2>3, <2>4 DEF RecoveryInv
  <1>3. ASSUME NEW m \in net, DroneReply(m) PROVE RecoveryInv'
    <2> DEFINE reply == [kind |-> "I", t1 |-> m.t1, skew |-> m.skew, session |-> session]
    <2>1. /\ net \ {m} \subseteq net' /\ reply \in net'
          /\ UNCHANGED <<now, lineIn, inbox, skew, pendingT1, burstStart, losses>>
      BY <1>3, LeftSubset DEF DroneReply, clientVars, historyVars
    <2>2. SentAt' = SentAt /\ SinceLine' = SinceLine
      BY <2>1 DEF SentAt, SinceLine
    <2>3. reply.t1 = m.t1 /\ reply.skew = m.skew
      OBVIOUS
    <2> HIDE DEF reply
    <2>4. InFlight => InFlight'
      BY <2>1, <2>3 DEF InFlight
    <2> QED BY <2>1, <2>2, <2>4 DEF RecoveryInv
  <1>4. ASSUME NEW m \in net, Arrive(m) PROVE RecoveryInv'
    <2> DEFINE got == [t1 |-> m.t1, skew |-> m.skew, session |-> m.session, arrived |-> now]
    <2>1. /\ net \ {m} \subseteq net' /\ inbox' = inbox \cup {got}
          /\ UNCHANGED <<now, lineIn, skew, pendingT1, burstStart, losses>>
      BY <1>4, LeftSubset DEF Arrive, clientVars, historyVars
    <2>2. SentAt' = SentAt /\ SinceLine' = SinceLine
      BY <2>1 DEF SentAt, SinceLine
    <2>3. got.t1 = m.t1 /\ got.skew = m.skew
      OBVIOUS
    <2> HIDE DEF got
    <2>4. InFlight => InFlight'
      BY <2>1, <2>3 DEF InFlight
    <2> QED BY <2>1, <2>2, <2>4 DEF RecoveryInv
  <1>5. ASSUME NEW video \in BOOLEAN, NEW sent \in BOOLEAN, StatsLine(video, sent)
        PROVE  RecoveryInv'
    BY <1>5, LineRecovery
  <1>6. CASE DroneRestart \/ UNCHANGED vars
    BY <1>6 DEF DroneRestart, vars, clientVars, historyVars, RecoveryInv, SentAt, InFlight,
                SinceLine
  <1>7. ASSUME NEW by \in {-Step, Step}, SetClock(by) PROVE FALSE
    BY <1>7 DEF SetClock
  <1> QED BY <1>1, <1>2, <1>3, <1>4, <1>5, <1>6, <1>7 DEF Next

\* One lost hello or reply costs one retry: the burst is over within a retry
\* interval, a round trip and two lines (tick, HandshakeClient), if the link's
\* round trip fits into the interval.
THEOREM OneLossAlwaysRecovered ==
    ASSUME TripWithinRetry PROVE Spec => []RecoversFromOneLoss
  <1>1. Init => RecoveryInv
    BY DEF Init, RecoveryInv
  <1>2. Inv /\ RecoveryInv /\ [Next]_vars => RecoveryInv'
    BY RecoveryStep
  <1>3. Inv /\ RecoveryInv => RecoversFromOneLoss
    <2> SUFFICES ASSUME Inv, RecoveryInv, losses <= 1, burstStart # None
                 PROVE  now - burstStart <= FastRetry + MaxTrip + 2 * Period
      BY DEF RecoversFromOneLoss
    <2>0. TypeOK
      BY DEF Inv
    <2>1. burstStart \in Nat /\ SentAt \in Int
      BY <2>0, RecoveryTypes DEF RecoveryInv
    <2> USE TimeTypes, TimerTypes, <2>0, <2>1
    <2>2. CASE InFlight
      <3>1. now - SentAt <= MaxTrip + SinceLine
        BY <2>2, FlightTime DEF InFlight
      <3>2. SentAt < burstStart + FastRetry + Period
        BY DEF RecoveryInv
      <3> QED BY <3>1, <3>2
    <2>3. CASE ~InFlight
      BY <2>3 DEF RecoveryInv
    <2> QED BY <2>2, <2>3
  <1> QED BY <1>1, <1>2, <1>3, InvAlways, PTL DEF Spec

=============================================================================
