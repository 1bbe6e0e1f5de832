----------------------------- MODULE Handshake -----------------------------
(***************************************************************************)
(* The H:/I: handshake between ground station and drone over a lossy link:  *)
(* HandshakeClient and its place in the stats loop (alink_gs), the reply of *)
(* the drone (message.c, main.c), and drone restarts with a new session id. *)
(*                                                                          *)
(* Time is explicit: Tick is held back while a datagram or a stats line is  *)
(* due, so MaxTrip and Period bound round trip and line spacing. The client *)
(* reads the wall clock, which may be set once, forward or back.            *)
(***************************************************************************)
EXTENDS Integers, FiniteSets

CONSTANTS
    LongResync, FastRetry, MaxRetries,  \* HandshakeClient's parameters
    MaxTrip,      \* bound on the link's round trip, hello to reply
    Period,       \* bound on the time between two stats lines
    Duplicates,   \* whether the link duplicates datagrams
    Start,        \* what the wall clock reads at first
    Step,         \* how far it may be set forward or back
    None,
    MaxTime, MaxLosses, MaxRestarts, MaxInFlight  \* bounds, for model checking

ASSUME TimerAssumption ==
    /\ LongResync \in Nat \ {0} /\ FastRetry \in Nat \ {0} /\ MaxRetries \in Nat
    /\ MaxTrip \in Nat /\ Period \in Nat \ {0}
    /\ Duplicates \in BOOLEAN
    /\ Start \in Nat /\ Step \in 0..(Start - 1)
ASSUME BoundAssumption ==
    /\ MaxTime \in Nat /\ MaxLosses \in Nat /\ MaxRestarts \in Nat /\ MaxInFlight \in Nat

Time == 0..MaxTime
Session == 0..MaxRestarts
Skew == {Start - Step, Start, Start + Step}
WallTime == 1..(MaxTime + Start + Step)
\* A datagram also holds the skew its t1 was read with: it was sent at t1 - skew.
Hello == [kind : {"H"}, t1 : WallTime, skew : Skew]
Reply == [kind : {"I"}, t1 : WallTime, skew : Skew, session : Session]
\* A reply in the socket's buffer.
Received == [t1 : WallTime, skew : Skew, session : Session, arrived : Time]

ASSUME NoneAssumption == None \notin Nat \cup Received

VARIABLES
    now, lineIn,          \* time; time left until a stats line is due
    skew,                 \* what the GS wall clock is ahead of it
    session,              \* drone: session_id, here counted
    net, inbox,           \* external: the link, the GS socket's buffer
    hadVideo,             \* GS: video_rx_initial_message_printed
    pendingT1,            \* client: hello in flight (and when it was sent)
    retryCount, nextDue,  \* client: _fast_retry_count, _next_hello_due_ms
    droneSession,         \* client: drone_session_id
    lastRtt,              \* client: last_rtt_ms
    \* History, read by properties only:
    onWire,               \* link time of the reply behind lastRtt; None if the
                          \* clock was set meanwhile
    burstStart,           \* when the present burst of hellos began; None if the
                          \* clock was set since
    losses                \* datagrams lost and sends failed

clientVars == <<pendingT1, retryCount, nextDue, droneSession, lastRtt>>
historyVars == <<onWire, burstStart>>
vars == <<now, lineIn, skew, session, net, inbox, hadVideo, clientVars, historyVars, losses>>

Init ==
    /\ now = 0 /\ lineIn = Period /\ skew = Start
    /\ session = 0
    /\ net = {} /\ inbox = {}
    /\ hadVideo = FALSE
    /\ pendingT1 = None /\ retryCount = 0 /\ nextDue = 0
    /\ droneSession = None /\ lastRtt = None
    /\ onWire = None /\ burstStart = None
    /\ losses = 0

----------------------------------------------------------------------------
(* Time, the link and the drone. *)

Clock == now + skew
Sent(m) == m.t1 - m.skew

Tick ==
    /\ now < MaxTime /\ lineIn > 0
    /\ \A m \in net : now - Sent(m) < MaxTrip
    /\ now' = now + 1
    /\ lineIn' = lineIn - 1
    /\ UNCHANGED <<skew, session, net, inbox, hadVideo, clientVars, historyVars, losses>>

\* The wall clock is set, by NTP or by hand.
SetClock(by) ==
    /\ skew = Start
    /\ skew' = skew + by
    /\ burstStart' = None
    /\ UNCHANGED <<now, lineIn, session, net, inbox, hadVideo, clientVars, onWire, losses>>

Lose(m) ==
    /\ losses < MaxLosses
    /\ net' = net \ {m}
    /\ losses' = losses + 1
    /\ UNCHANGED <<now, lineIn, skew, session, inbox, hadVideo, clientVars, historyVars>>

\* What the link keeps after delivering m: nothing, or a duplicate.
Left(m) ==
    {net \ {m}} \cup (IF Duplicates /\ Cardinality(net) + Cardinality(inbox) < MaxInFlight
                      THEN {net} ELSE {})

\* msg_handle_hello: echo t1, at once and with the daemon's session.
DroneReply(m) ==
    /\ m.kind = "H"
    /\ \E rest \in Left(m) :
          net' = rest \cup {[kind |-> "I", t1 |-> m.t1, skew |-> m.skew, session |-> session]}
    /\ UNCHANGED <<now, lineIn, skew, session, inbox, hadVideo, clientVars, historyVars, losses>>

\* A reply reaches the GS socket, where it waits to be drained.
Arrive(m) ==
    /\ m.kind = "I"
    /\ net' \in Left(m)
    /\ inbox' = inbox \cup {[t1 |-> m.t1, skew |-> m.skew, session |-> m.session,
                            arrived |-> now]}
    /\ UNCHANGED <<now, lineIn, skew, session, hadVideo, clientVars, historyVars, losses>>

DroneRestart ==
    /\ session < MaxRestarts
    /\ session' = session + 1
    /\ UNCHANGED <<now, lineIn, skew, net, inbox, hadVideo, clientVars, historyVars, losses>>

----------------------------------------------------------------------------
(* The GS: one stats line, handled whole by handle_video_rx_stats. Its three *)
(* parts act in turn on the client's timer, a record of [t1, count, due].    *)

ForceResync(timer) == [t1 |-> None, count |-> 0, due |-> 0]

\* Mutant: any reply is taken, whichever hello it echoes.
MatchAny(timer) == IF timer.t1 = None THEN {} ELSE inbox

\* The replies that may be the one handle_reply accepts: those to the hello in
\* flight. The others are counted and dropped.
Match(timer) == {r \in inbox : timer.t1 # None /\ r.t1 = timer.t1}

\* From the hello to the draining of its reply. The drone answers at once, so
\* t3 - t2 is 0 here.
Rtt(timer) == Clock - timer.t1

\* A sample _update_rtt drops. Mutant: it drops none.
BogusNever(rtt) == FALSE
Bogus(rtt) == rtt < 0

Accepted(timer) == [t1 |-> None, count |-> 0, due |-> timer.t1 + LongResync]

\* Mutants: one retry too many; a lost hello is left to the next long resync; a
\* burst of lost hellos is never given up.
RetriesOneMore(timer) == timer.count <= MaxRetries
OverdueLong(timer) == Clock - timer.t1 >= LongResync
GivesUpNever(timer) == FALSE

Overdue(timer) == Clock - timer.t1 >= FastRetry
Retries(timer) == timer.count < MaxRetries
GivesUp(timer) == ~Retries(timer)

\* What tick() does: fast retries while a hello is in flight, then back off.
Action(timer) ==
    IF timer.t1 = None
    THEN IF Clock >= timer.due THEN "hello" ELSE "nothing"
    ELSE CASE ~Overdue(timer) -> "nothing"
           [] Overdue(timer) /\ Retries(timer) -> "retry"
           [] Overdue(timer) /\ GivesUp(timer) -> "give up"
           [] OTHER -> "nothing"

\* tick(). A send that fails leaves t1 as it was, but counts as a retry.
TickTimer(timer, sent) ==
    LET send(count) == [timer EXCEPT !.count = count, !.t1 = IF sent THEN Clock ELSE @]
    IN  CASE Action(timer) = "nothing" -> timer
          [] Action(timer) = "hello"   -> send(0)
          [] Action(timer) = "retry"   -> send(timer.count + 1)
          [] Action(timer) = "give up" -> [t1 |-> None, count |-> 0, due |-> Clock + LongResync]

StatsLine(video, sent) ==
    /\ lineIn < Period                  \* at most one line per clock unit
    /\ lineIn' = Period
    /\ hadVideo' = video
    /\ LET timer0 == [t1 |-> pendingT1, count |-> retryCount, due |-> nextDue]
           timer1 == IF video /\ ~hadVideo THEN ForceResync(timer0) ELSE timer0
       IN \E r \in IF Match(timer1) = {} THEN {None} ELSE Match(timer1) :
          LET timer2 == IF r = None THEN timer1 ELSE Accepted(timer1)
              timer3 == TickTimer(timer2, sent)
              sends == Action(timer2) \in {"hello", "retry"}
          IN
          /\ ~sent => sends /\ losses < MaxLosses
          /\ pendingT1' = timer3.t1 /\ retryCount' = timer3.count /\ nextDue' = timer3.due
          /\ net' = IF sends /\ sent
                    THEN net \cup {[kind |-> "H", t1 |-> Clock, skew |-> skew]} ELSE net
          /\ losses' = IF sent THEN losses ELSE losses + 1
          /\ IF r = None
             THEN UNCHANGED <<droneSession, lastRtt, onWire>>
             ELSE /\ droneSession' = r.session
                  /\ IF Bogus(Rtt(timer1))
                     THEN UNCHANGED <<lastRtt, onWire>>
                     ELSE /\ lastRtt' = Rtt(timer1)
                          /\ onWire' = IF r.skew = skew THEN r.arrived - Sent(r) ELSE None
          /\ burstStart' = IF timer3.t1 = None THEN None
                           ELSE IF Action(timer2) = "hello" THEN now ELSE burstStart
    /\ inbox' = {}
    /\ UNCHANGED <<now, skew, session>>

----------------------------------------------------------------------------
Next ==
    \/ Tick \/ DroneRestart
    \/ \E by \in {-Step, Step} : SetClock(by)
    \/ \E m \in net : Lose(m) \/ DroneReply(m) \/ Arrive(m)
    \/ \E video, sent \in BOOLEAN : StatsLine(video, sent)
Spec == Init /\ [][Next]_vars

----------------------------------------------------------------------------
TypeOK ==
    /\ now \in Time /\ lineIn \in 0..Period /\ skew \in Skew
    /\ session \in Session
    /\ net \subseteq Hello \cup Reply
    /\ inbox \subseteq Received
    /\ hadVideo \in BOOLEAN
    /\ pendingT1 \in WallTime \cup {None} /\ retryCount \in 0..MaxRetries
    /\ nextDue \in 0..(MaxTime + Start + Step + LongResync)
    /\ droneSession \in Session \cup {None}
    /\ lastRtt \in Int \cup {None} /\ onWire \in Time \cup {None}
    /\ burstStart \in Time \cup {None} /\ losses \in 0..MaxLosses

\* The client is never taken back to a session it has seen end: late replies,
\* of this burst or an older one, do not undo what a newer one reported, so that
\* the telemetry log is rotated at most once per restart. t1 alone tells the
\* replies apart: the clock set back may read the t1 of an earlier hello again,
\* and its late reply is then taken for the newer one's.
SessionsGoForward ==
    [][droneSession # None /\ onWire' # None => droneSession' >= droneSession]_vars

\* "A single lost hello or reply recovers in <1 s": on a link whose round trip
\* fits into one retry interval, a burst with at most one loss is over within
\* a retry interval, a round trip and two stats lines, as long as the clock is
\* not set during it.
RecoversFromOneLoss ==
    losses <= 1 /\ burstStart # None
        => now - burstStart <= FastRetry + MaxTrip + 2 * Period

\* The RTT reported exceeds the link's by no more than one stats line, unless
\* the clock was set between hello and reply; it is never negative.
RttWithinPeriod ==
    lastRtt # None => /\ lastRtt >= 0
                      /\ onWire # None => onWire <= lastRtt /\ lastRtt <= onWire + Period

\* The timers are on the wall clock: setting it back puts the next hello off by
\* as much and no more, and a hello in flight does not outlast its retry
\* interval by more than the failed retries and the step forward.
HelloNeverFar ==
    IF pendingT1 = None
    THEN nextDue - Clock <= LongResync + Step
    ELSE /\ pendingT1 - Clock <= Step
         /\ Clock - pendingT1 <= FastRetry + (MaxRetries + 1) * Period + Step
=============================================================================
