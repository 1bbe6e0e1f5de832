--------------------------- MODULE StatsLoop_proofs ---------------------------
(***************************************************************************)
(* Proofs about StatsLoop and the KeyframeBurst it runs, for any burst, send *)
(* interval, rate limit, loss, windows and pause.                           *)
(***************************************************************************)
EXTENDS StatsLoop, TLAPS

LEMMA AnswerBoundType == AnswerBound \in Nat
  <1>1. AtMost(Limit, Burst * SendGap) \in Nat
    BY BurstAssumption DEF AtMost
  <1>2. (MaxDropped + 1) * 2 * SendGap \in Nat
    BY BurstAssumption
  <1> QED BY <1>1, <1>2 DEF AnswerBound

LEMMA Bounded == \A a, b, x \in Int : a <= x /\ x <= b => x \in a..b
  OBVIOUS

\* The values that the actions set to.
LEMMA Endpoints ==
    /\ 0 \in 0..SendGap /\ SendGap \in 0..SendGap
    /\ 0 \in 0..Limit /\ Limit \in 0..Limit
    /\ 0 \in 0..Burst /\ 0 \in 0..MaxDropped
    /\ 0 \in 0..Pause /\ Pause \in 0..Pause
    /\ 0 \in 0..Fallback
    /\ None \in None..(AnswerBound + 1)
  BY BurstAssumption, LoopAssumption, AnswerBoundType DEF None

LEMMA ElapseTypes == TypeOK /\ Elapse => TypeOK'
  <1> SUFFICES ASSUME TypeOK, Elapse PROVE TypeOK' OBVIOUS
  <1> USE BurstAssumption, LoopAssumption DEF TypeOK, BurstTypeOK, Elapse, BurstElapse, AtMost
  <1>1. sinceSend' \in 0..SendGap /\ sinceRequest' \in 0..Limit /\ sinceWake' \in 0..SendGap
    OBVIOUS
  <1>2. pause' \in 0..Pause /\ window' \in 0..Fallback
    OBVIOUS
  <1>3. unanswered' \in None..(AnswerBound + 1)
    <2>1. AnswerBound \in Nat
      BY AnswerBoundType
    <2>2. unanswered \in Int /\ -1 <= unanswered /\ unanswered <= AnswerBound + 1
      BY <2>1 DEF None
    <2>3. unanswered' = unanswered \/ unanswered' = AtMost(unanswered + 1, AnswerBound + 1)
      OBVIOUS
    <2>4. unanswered' \in Int /\ -1 <= unanswered' /\ unanswered' <= AnswerBound + 1
      BY <2>1, <2>2, <2>3
    <2> QED BY <2>1, <2>4, Bounded DEF None
  <1> QED BY <1>1, <1>2, <1>3 DEF gsVars

LEMMA ArmTypes ==
    ASSUME NEW lost \in BOOLEAN, BurstTypeOK, Arm(lost)
    PROVE  BurstTypeOK'
  <1> USE BurstAssumption DEF BurstTypeOK, Arm, Armed
  <1>1. remaining' \in 0..Burst
    OBVIOUS
  <1>2. unanswered' \in None..(AnswerBound + 1)
    <2>1. AnswerBound \in Nat
      BY AnswerBoundType
    <2> QED BY <2>1 DEF None
  <1> QED BY <1>1, <1>2

LEMMA PumpTypes ==
    ASSUME NEW arrives \in BOOLEAN, BurstTypeOK, Pump(arrives)
    PROVE  BurstTypeOK'
  <1> USE BurstAssumption DEF BurstTypeOK, Pump
  <1>1. CASE ~Sends
    BY <1>1 DEF burstVars
  <1>2. CASE Sends
    <2>1. remaining' \in 0..Burst /\ sinceSend' \in 0..SendGap
      BY <1>2 DEF Sends
    <2>2. sinceRequest' \in 0..Limit /\ dropped' \in 0..MaxDropped
      BY <1>2 DEF Arrive, Drop
    <2>3. unanswered' \in None..(AnswerBound + 1)
      <3>1. AnswerBound \in Nat
        BY AnswerBoundType
      <3> QED BY <1>2, <3>1 DEF Arrive, Drop, None
    <2> QED BY <2>1, <2>2, <2>3
  <1> QED BY <1>1, <1>2

LEMMA LineTypes ==
    ASSUME TypeOK, NEW lost \in BOOLEAN, NEW arrives \in BOOLEAN, NEW fate \in HelloFate,
           \/ VideoLine(lost, fate, arrives)
           \/ LimitedLine(lost, fate, arrives)
           \/ CrashLine(lost, fate)
           \/ StallLine(fate)
    PROVE  TypeOK'
  <1> USE Endpoints DEF TypeOK
  <1>1. reply' \in {"none", "zero", "good"} /\ HelloHeard(fate) \in BOOLEAN
    BY DEF VideoLine, LimitedLine, CrashLine, StallLine, Hello, HelloHeard
  <1>2. BurstTypeOK'
    <2>1. CASE Arm(lost)
      BY <2>1, ArmTypes
    <2>2. CASE UNCHANGED burstVars
      BY <2>2 DEF burstVars, BurstTypeOK
    <2> QED BY <2>1, <2>2 DEF VideoLine, LimitedLine, CrashLine, StallLine
  <1>3. CASE VideoLine(lost, fate, arrives)
    BY <1>1, <1>2, <1>3 DEF VideoLine, Follow, SendsProfile
  <1>4. CASE LimitedLine(lost, fate, arrives)
    BY <1>1, <1>2, <1>4 DEF LimitedLine, Follow, SendsProfile
  <1>5. CASE CrashLine(lost, fate)
    BY <1>1, <1>2, <1>5 DEF CrashLine, Disconnect
  <1>6. CASE StallLine(fate)
    BY <1>1, <1>2, <1>6 DEF StallLine, Fps
  <1> QED BY <1>3, <1>4, <1>5, <1>6

LEMMA TypeStep == TypeOK /\ [Next]_vars => TypeOK'
  <1> SUFFICES ASSUME TypeOK, [Next]_vars PROVE TypeOK' OBVIOUS
  <1> USE Endpoints DEF TypeOK, BurstTypeOK
  <1>1. CASE Elapse
    BY <1>1, ElapseTypes
  <1>2. CASE Lines
    BY <1>2, LineTypes DEF Lines
  <1>3. ASSUME NEW arrives \in BOOLEAN, Wakeup(arrives) PROVE TypeOK'
    <2>1. BurstTypeOK'
      BY <1>3, PumpTypes DEF Wakeup
    <2> QED BY <1>3, <2>1 DEF Wakeup, gsVars
  <1>4. CASE Close \/ Refused
    BY <1>4 DEF Close, Refused, Disconnect, burstVars, gsVars, droneVars
  <1>5. CASE Connect
    <2>1. AnswerBound \in Nat
      BY AnswerBoundType
    <2>2. unanswered' \in None..(AnswerBound + 1)
      BY <1>5, <2>1 DEF Connect, BurstConnect, AtMost, None
    <2> QED BY <1>5, <2>2 DEF Connect, BurstConnect, gsVars, droneVars
  <1>6. CASE FallbackSample
    BY <1>6 DEF FallbackSample, CountAfterSample, burstVars, loopVars, gsVars
  <1>7. ASSUME NEW zero \in BOOLEAN, CameraRefresh(zero) \/ DroneRestart(zero)
        PROVE  TypeOK'
    BY <1>7 DEF CameraRefresh, DroneRestart, BurstDroneRestart, burstVars, loopVars, gsVars
  <1>8. CASE UNCHANGED vars
    BY <1>8 DEF vars, burstVars, loopVars, gsVars, droneVars
  <1> QED BY <1>1, <1>2, <1>3, <1>4, <1>5, <1>6, <1>7, <1>8 DEF Next, Drone

\* The variables of the loop, the ground station and the drone stay in their
\* types, and a burst never holds more than idr_max_messages.
THEOREM TypeCorrect == Spec => []TypeOK
  <1>1. Init => TypeOK
    <2> SUFFICES ASSUME Init PROVE TypeOK OBVIOUS
    <2> QED BY Endpoints DEF Init, BurstInit, TypeOK, BurstTypeOK
  <1> QED BY <1>1, TypeStep, PTL DEF Spec

----------------------------------------------------------------------------
(* The fallback of the drone.                                              *)

\* While the loop is down nothing is heard: the pause is as old as the present
\* window at most, or one window older if nothing was heard in the present one.
SilenceInv ==
    ~connected /\ tracked # None
        => Pause - pause <= window + (IF heard THEN 0 ELSE Fallback)

LEMMA SilenceStep == TypeOK /\ SilenceInv /\ [Next]_vars => SilenceInv'
  <1> SUFFICES ASSUME TypeOK, SilenceInv, [Next]_vars PROVE SilenceInv' OBVIOUS
  <1> USE LoopAssumption DEF TypeOK, SilenceInv
  <1>1. CASE Elapse
    BY <1>1 DEF Elapse
  <1>2. CASE Lines
    <2>1. connected' \/ (connected' = FALSE /\ pause' = Pause /\ window' = window)
      BY <1>2 DEF Lines, VideoLine, LimitedLine, CrashLine, StallLine, Disconnect
    <2>2. window' \in Nat
      BY <1>2 DEF Lines, VideoLine, LimitedLine, CrashLine, StallLine, Follow
    <2> QED BY <2>1, <2>2
  <1>3. ASSUME NEW arrives \in BOOLEAN, Wakeup(arrives) PROVE SilenceInv'
    BY <1>3 DEF Wakeup
  <1>4. CASE Close
    BY <1>4 DEF Close, Disconnect, droneVars
  <1>5. CASE Connect \/ Refused
    BY <1>5 DEF Connect, Refused, droneVars
  <1>6. CASE FallbackSample
    BY <1>6 DEF FallbackSample, CountAfterSample, loopVars
  <1>7. ASSUME NEW zero \in BOOLEAN, CameraRefresh(zero) \/ DroneRestart(zero)
        PROVE  SilenceInv'
    BY <1>7 DEF CameraRefresh, DroneRestart, loopVars
  <1>8. CASE UNCHANGED vars
    BY <1>8 DEF vars, loopVars, droneVars
  <1> QED BY <1>1, <1>2, <1>3, <1>4, <1>5, <1>6, <1>7, <1>8 DEF Next, Drone

\* An outage of the stats makes the drone fall back, whatever it had heard when
\* it began: at the second end of a window, at the latest, that began without a
\* datagram (alink_gs's reconnect, the drone's fallback thread).
THEOREM OutageAlwaysFallsBack == Spec => []OutageFallsBack
  <1>1. Init => SilenceInv
    BY DEF Init, SilenceInv
  <1>2. TypeOK /\ SilenceInv => OutageFallsBack
    BY LoopAssumption DEF TypeOK, SilenceInv, OutageFallsBack
  <1> QED BY <1>1, <1>2, SilenceStep, TypeCorrect, PTL DEF Spec

----------------------------------------------------------------------------
(* The request that answers a loss.                                        *)

\* The drone's last request, while it limits, was on a K of this program.
RecentInv == sinceRequest < Limit => sinceSend <= sinceRequest

\* While a loss is unanswered, what is left of the burst still reaches past the
\* limit: Reaches(remaining), with the product named.
Left == (remaining - Spare) * SendGap
ReserveInv ==
    unanswered # None =>
        /\ Spare < remaining
        /\ sinceRequest < Limit => Limit - sinceRequest + sinceSend <= Left

\* The longest that the answer can still take: the rest of the limit, the next
\* K, and one more for each K lost.
NextSend ==
    IF sinceSend < SendGap THEN 2 * SendGap - sinceSend ELSE SendGap - sinceWake
Resends == Spare * (2 * SendGap)
Longest ==
    IF sinceRequest < Limit THEN Limit - sinceRequest + 2 * SendGap + Resends
    ELSE NextSend + Resends

AnswerInv ==
    /\ LossAnswered
    /\ connected /\ unanswered # None => unanswered + Longest <= AnswerBound

BurstInv == RecentInv /\ ReserveInv /\ AnswerInv

LEMMA TimesMonotone ==
    ASSUME NEW a \in Int, NEW b \in Int, NEW c \in Nat, a <= b
    PROVE  a * c <= b * c
  <1>1. b * c = a * c + (b - a) * c /\ (b - a) * c >= 0 /\ a * c \in Int
    OBVIOUS
  <1> QED BY <1>1

LEMMA LongestType ==
    TypeOK => /\ Resends \in Nat /\ Resends <= MaxDropped * (2 * SendGap)
              /\ NextSend \in Nat /\ NextSend <= 2 * SendGap
              /\ Longest \in Nat
  <1> SUFFICES ASSUME TypeOK
               PROVE  /\ Resends \in Nat /\ Resends <= MaxDropped * (2 * SendGap)
                      /\ NextSend \in Nat /\ NextSend <= 2 * SendGap
                      /\ Longest \in Nat
    OBVIOUS
  <1> USE BurstAssumption DEF TypeOK, BurstTypeOK
  <1>1. Spare \in Nat /\ Spare <= MaxDropped /\ 2 * SendGap \in Nat
    BY DEF Spare
  <1>2. Resends \in Int /\ 0 * (2 * SendGap) <= Resends
        /\ Resends <= MaxDropped * (2 * SendGap)
    BY <1>1, TimesMonotone DEF Resends
  <1>3. NextSend \in Nat /\ NextSend <= 2 * SendGap
    BY DEF NextSend
  <1>4. Resends \in Nat
    BY <1>2
  <1> QED BY <1>2, <1>3, <1>4 DEF Longest

\* The rest of a limit that n Ks of a burst reach past is no longer than it.
LEMMA RestWithinBurst ==
    ASSUME TypeOK, NEW n \in 0..Burst, Spare < n, sinceRequest < Limit,
           Limit - sinceRequest + sinceSend <= (n - Spare) * SendGap
    PROVE  Limit - sinceRequest <= AtMost(Limit, Burst * SendGap)
  <1> USE BurstAssumption DEF TypeOK, BurstTypeOK
  <1>1. Spare \in Nat /\ n - Spare \in Int /\ n - Spare <= Burst
    BY DEF Spare
  <1>2. (n - Spare) * SendGap <= Burst * SendGap
    BY <1>1, TimesMonotone
  <1>3. (n - Spare) * SendGap \in Int /\ Burst * SendGap \in Int
    BY <1>1
  <1>4. /\ Limit - sinceRequest \in Int /\ Limit - sinceRequest <= Limit
        /\ Limit - sinceRequest <= Limit - sinceRequest + sinceSend
    OBVIOUS
  <1> QED BY <1>2, <1>3, <1>4 DEF AtMost

\* The wait of a loss that begins, or of a connection that does, when n Ks are
\* left and reach past the limit.
LEMMA LongestInTime ==
    ASSUME TypeOK, NEW n \in 0..Burst, Spare < n,
           sinceRequest < Limit => Limit - sinceRequest + sinceSend <= (n - Spare) * SendGap
    PROVE  Longest <= AnswerBound
  <1> USE BurstAssumption DEF TypeOK, BurstTypeOK
  <1> DEFINE burst == AtMost(Limit, Burst * SendGap)
             resends == MaxDropped * (2 * SendGap)
  <1>1. burst \in Nat /\ resends \in Nat
    BY DEF AtMost
  <1>2. AnswerBound = burst + 2 * SendGap + resends
    <2>1. (MaxDropped + 1) * 2 * SendGap = 2 * SendGap + resends
      OBVIOUS
    <2> QED BY <1>1, <2>1 DEF AnswerBound
  <1>3. Resends \in Nat /\ Resends <= resends /\ NextSend \in Nat /\ NextSend <= 2 * SendGap
    BY LongestType
  <1> HIDE DEF burst, resends
  <1>4. CASE sinceRequest < Limit
    <2>1. Limit - sinceRequest <= burst
      BY <1>4, RestWithinBurst DEF burst
    <2> QED BY <1>1, <1>2, <1>3, <1>4, <2>1 DEF Longest
  <1>5. CASE ~(sinceRequest < Limit)
    BY <1>1, <1>2, <1>3, <1>5 DEF Longest
  <1> QED BY <1>4, <1>5

\* In the next state: a wait that what is left of the burst answers.
InTime == unanswered # None => Longest \in Nat /\ Longest <= AnswerBound
LEMMA LongestInTimeNext == TypeOK' /\ ReserveInv' => InTime'
  <1>1. ASSUME TypeOK, ReserveInv PROVE InTime
    BY <1>1, LongestType, LongestInTime
       DEF InTime, ReserveInv, Left, TypeOK, BurstTypeOK
  <1> QED BY <1>1, PTL

\* A sum that stays in time.
LEMMA StaysInTime ==
    ASSUME NEW u \in Int, NEW l \in Nat, NEW m \in Int, u + l <= AnswerBound, m <= l
    PROVE  u + m <= AnswerBound
  BY AnswerBoundType

LEMMA RecentStep == TypeOK /\ RecentInv /\ [Next]_vars => RecentInv'
  <1> SUFFICES ASSUME TypeOK, RecentInv, [Next]_vars PROVE RecentInv' OBVIOUS
  <1> USE BurstAssumption DEF TypeOK, BurstTypeOK, RecentInv
  <1>1. CASE Elapse
    BY <1>1 DEF Elapse, BurstElapse, AtMost
  <1>2. CASE Lines \/ Close \/ Connect \/ Refused \/ FallbackSample
    BY <1>2 DEF Lines, VideoLine, LimitedLine, CrashLine, StallLine, Arm, Close, Connect,
                BurstConnect, Refused, FallbackSample, burstVars
  <1>3. ASSUME NEW arrives \in BOOLEAN, Wakeup(arrives) PROVE RecentInv'
    BY <1>3 DEF Wakeup, Pump, Arrive, Drop, burstVars
  <1>4. ASSUME NEW zero \in BOOLEAN, CameraRefresh(zero) \/ DroneRestart(zero)
        PROVE  RecentInv'
    BY <1>4 DEF CameraRefresh, DroneRestart, BurstDroneRestart, burstVars
  <1>5. CASE UNCHANGED vars
    BY <1>5 DEF vars, burstVars
  <1> QED BY <1>1, <1>2, <1>3, <1>4, <1>5 DEF Next, Drone

LEMMA LessStaysLess ==
    ASSUME NEW a \in Int, NEW b \in Int, NEW c \in Int, a <= b
    PROVE  a - c \in Int /\ b - c \in Int /\ a - c <= b - c
  OBVIOUS

\* A line with loss fills the burst up. It starts the wait only if all of the
\* burst reaches past the limit.
LEMMA ArmStep ==
    ASSUME TypeOK, BurstInv, NEW lost \in BOOLEAN, Arm(lost),
           UNCHANGED sinceWake, connected' => connected
    PROVE  ReserveInv' /\ AnswerInv'
  <1> USE BurstAssumption DEF BurstInv
  <1>1. Spare' = Spare /\ Resends' = Resends /\ NextSend' = NextSend /\ Longest' = Longest
        /\ sinceSend' = sinceSend /\ sinceRequest' = sinceRequest
    BY DEF Arm, Spare, Resends, NextSend, Longest
  <1>2. Spare \in Int /\ remaining \in Int /\ remaining <= Burst
    BY DEF Spare, TypeOK, BurstTypeOK
  <1>3. CASE lost /\ unanswered = None /\ Reaches(Burst)
    <2>1. remaining' = Burst /\ unanswered' = 0
      BY <1>3 DEF Arm, Armed
    <2>2. ReserveInv'
      BY <1>1, <1>3, <2>1 DEF ReserveInv, Reaches, Left
    <2>3. Longest <= AnswerBound
      BY <1>3, LongestInTime DEF Reaches
    <2> QED BY <1>1, <2>1, <2>2, <2>3, LongestType, AnswerBoundType DEF AnswerInv, LossAnswered
  <1>4. CASE ~(lost /\ unanswered = None /\ Reaches(Burst))
    <2>1. unanswered' = unanswered /\ remaining' \in {remaining, Burst}
      BY <1>4 DEF Arm, Armed
    <2>2. AnswerInv'
      BY <1>1, <2>1 DEF AnswerInv, LossAnswered
    <2>3. ASSUME unanswered # None PROVE Spare < remaining' /\ Left <= Left'
      <3>1. Spare < remaining
        BY <2>3 DEF ReserveInv
      <3>2. remaining' \in Int /\ remaining <= remaining'
        BY <1>2, <2>1
      <3>3. remaining - Spare \in Int /\ remaining' - Spare \in Int
            /\ remaining - Spare <= remaining' - Spare
        BY <1>2, <3>2, LessStaysLess
      <3>4. (remaining - Spare) * SendGap <= (remaining' - Spare) * SendGap
        BY <3>3, TimesMonotone
      <3>5. Left' = (remaining' - Spare) * SendGap
        BY <1>1 DEF Left
      <3> QED BY <1>2, <3>1, <3>2, <3>4, <3>5 DEF Left
    <2>4. Left \in Int /\ Left' \in Int
      BY <1>1, <1>2, <2>1 DEF Left
    <2>5. sinceRequest \in Int /\ sinceSend \in Int
      BY DEF TypeOK, BurstTypeOK
    <2> QED BY <1>1, <2>1, <2>2, <2>3, <2>4, <2>5 DEF ReserveInv
  <1> QED BY <1>3, <1>4

\* Time that passes while the loop runs brings the answer nearer.
LEMMA ElapseStep ==
    ASSUME TypeOK, BurstInv, Elapse
    PROVE  ReserveInv' /\ AnswerInv'
  <1> USE BurstAssumption DEF BurstInv, Elapse, BurstElapse
  <1>1. Spare' = Spare /\ Resends' = Resends /\ Left' = Left
    BY DEF Spare, Resends, Left
  <1>2. (unanswered' # None) <=> (unanswered # None)
    BY AnswerBoundType DEF TypeOK, BurstTypeOK, AtMost, None
  <1>3. ReserveInv'
    <2>1. sinceRequest' < Limit =>
              /\ sinceRequest < Limit
              /\ Limit - sinceRequest' + sinceSend' <= Limit - sinceRequest + sinceSend
      BY DEF TypeOK, BurstTypeOK, AtMost
    <2>2. Left \in Int
      BY DEF Left, Spare, TypeOK, BurstTypeOK
    <2>3. sinceSend \in Int /\ sinceRequest \in Int /\ sinceSend' \in Int
          /\ sinceRequest' \in Int
      BY DEF TypeOK, BurstTypeOK, AtMost
    <2>4. unanswered # None => Spare' < remaining'
      BY <1>1 DEF ReserveInv
    <2>5. ASSUME unanswered # None, sinceRequest' < Limit
          PROVE  Limit - sinceRequest' + sinceSend' <= Left'
      BY <2>1, <2>2, <2>3, <2>5, <1>1 DEF ReserveInv
    <2> QED BY <1>2, <2>4, <2>5 DEF ReserveInv
  <1>4. AnswerInv'
    <2>1. CASE connected /\ unanswered # None
      <3>1. Longest' <= Longest - 1
        <4>1. CASE sinceRequest' < Limit
          BY <4>1, <1>1, LongestType DEF Longest, TypeOK, BurstTypeOK, AtMost
        <4>2. CASE sinceRequest < Limit /\ ~(sinceRequest' < Limit)
          <5>1. NextSend' <= 2 * SendGap
            BY <2>1 DEF NextSend, TypeOK, BurstTypeOK, AtMost
          <5>2. NextSend' \in Int
            BY <2>1 DEF NextSend, TypeOK, BurstTypeOK, AtMost
          <5> QED BY <4>2, <5>1, <5>2, <1>1, LongestType DEF Longest, TypeOK, BurstTypeOK
        <4>3. CASE ~(sinceRequest < Limit)
          <5>1. ~(sinceRequest' < Limit)
            BY <4>3 DEF TypeOK, BurstTypeOK, AtMost
          <5>2. NextSend' \in Int /\ NextSend' <= NextSend - 1
            BY <2>1 DEF NextSend, TypeOK, BurstTypeOK, AtMost
          <5> QED BY <4>3, <5>1, <5>2, <1>1, LongestType DEF Longest
        <4> QED BY <4>1, <4>2, <4>3
      <3>2. unanswered \in Int /\ unanswered + Longest <= AnswerBound
        BY <2>1 DEF AnswerInv, TypeOK, BurstTypeOK, None
      <3>3. Longest' \in Nat
        <4>1. NextSend' \in Nat
          BY ElapseTypes DEF NextSend, TypeOK, BurstTypeOK
        <4> QED BY <1>1, <4>1, ElapseTypes, LongestType DEF Longest, TypeOK, BurstTypeOK
      <3>4. unanswered' = unanswered + 1
        BY <2>1, <3>1, <3>2, <3>3, AnswerBoundType, LongestType DEF AtMost
      <3> HIDE BurstAssumption DEF BurstInv, Elapse, BurstElapse
      <3>5. unanswered' + Longest' <= AnswerBound
        <4>1. unanswered + (Longest' + 1) <= AnswerBound
          <5>1. Longest \in Nat /\ Longest' + 1 \in Int /\ Longest' + 1 <= Longest
            BY <3>1, <3>3, LongestType
          <5> QED BY <3>2, <5>1, StaysInTime, Zenon
        <4> QED BY <3>2, <3>3, <3>4, <4>1
      <3>6. unanswered' <= AnswerBound
        <4>1. unanswered' + 0 <= AnswerBound
          <5>1. unanswered' \in Int /\ 0 \in Int /\ 0 <= Longest'
            BY <3>2, <3>3, <3>4
          <5> QED BY <3>3, <3>5, <5>1, StaysInTime, Zenon
        <4> QED BY <3>2, <3>4, <4>1
      <3> QED BY <3>5, <3>6 DEF AnswerInv, LossAnswered
    <2>2. CASE ~(connected /\ unanswered # None)
      <3>1. unanswered' = unanswered /\ ~(connected' /\ unanswered' # None)
        BY <2>2
      <3> QED BY <3>1 DEF AnswerInv, LossAnswered
    <2> QED BY <2>1, <2>2
  <1> QED BY <1>3, <1>4

\* A wakeup leaves the burst alone, or sends a K: it is answered, limited or
\* lost. A limited one leaves what the rest of the limit takes, a lost one is
\* one of those the link may lose.
LEMMA WakeupStep ==
    ASSUME TypeOK, BurstInv, NEW arrives \in BOOLEAN, Wakeup(arrives)
    PROVE  ReserveInv' /\ AnswerInv'
  <1> USE BurstAssumption DEF BurstInv, Wakeup, Pump
  <1>1. CASE ~Sends
    <2>1. UNCHANGED <<remaining, sinceSend, sinceRequest, dropped, unanswered, connected>>
      BY <1>1 DEF burstVars
    <2>2. ReserveInv'
      BY <2>1 DEF ReserveInv, Spare, Left
    <2>3. unanswered # None => Longest' = Longest
      <3>1. unanswered # None => sinceSend < SendGap
        BY <1>1 DEF Sends, ReserveInv, Spare, TypeOK, BurstTypeOK
      <3> QED BY <2>1, <3>1 DEF Longest, NextSend, Resends, Spare
    <2> QED BY <2>1, <2>2, <2>3 DEF AnswerInv, LossAnswered
  <1>2. CASE Sends /\ unanswered' = None
    BY <1>2, AnswerBoundType DEF ReserveInv, AnswerInv, LossAnswered, None
  <1>3. CASE Sends /\ unanswered' # None
    <2>1. unanswered' = unanswered /\ sinceRequest' = sinceRequest /\ sinceSend' = 0
          /\ remaining' = remaining - 1 /\ connected' = connected /\ connected
      BY <1>3 DEF Arrive, Drop
    <2>2. sinceSend = SendGap /\ remaining \in Nat /\ Spare \in Nat
      BY <1>3 DEF Sends, TypeOK, BurstTypeOK, Spare
    <2>3. NextSend' = 2 * SendGap
      BY <2>1 DEF NextSend
    <2>4. CASE sinceRequest < Limit /\ arrives
      <3>1. Spare' = Spare /\ Resends' = Resends
        BY <1>3, <2>4 DEF Arrive, Spare, Resends, TypeOK, BurstTypeOK
      <3>2. Left' = Left - SendGap /\ Left \in Int
        BY <2>1, <2>2, <3>1 DEF Left
      <3>3. Limit - sinceRequest + SendGap <= Left
        BY <1>3, <2>1, <2>2, <2>4 DEF ReserveInv
      <3>4. Spare < remaining - 1
        <4>1. Spare < remaining
          BY <1>3, <2>1 DEF ReserveInv
        <4>2. CASE remaining = Spare + 1
          <5>1. Left = SendGap
            BY <4>2, <2>2 DEF Left
          <5> QED BY <5>1, <3>3, <2>4 DEF TypeOK, BurstTypeOK
        <4> QED BY <4>1, <4>2, <2>2
      <3>5. ReserveInv'
        BY <2>1, <3>1, <3>2, <3>3, <3>4 DEF ReserveInv, TypeOK, BurstTypeOK
      <3>6. Longest' = Longest
        BY <2>1, <2>4, <3>1 DEF Longest
      <3> QED BY <2>1, <3>5, <3>6 DEF AnswerInv, LossAnswered
    <2>5. CASE ~arrives
      <3>1. Spare' = Spare - 1 /\ Spare' \in Nat
        BY <1>3, <2>5 DEF Drop, Spare, TypeOK, BurstTypeOK
      <3>2. Resends' = Resends - 2 * SendGap
        BY <3>1, <2>2 DEF Resends
      <3>3. Left' = Left /\ Left \in Int
        BY <2>1, <2>2, <3>1 DEF Left
      <3>4. ReserveInv'
        BY <1>3, <2>1, <2>2, <3>1, <3>3 DEF ReserveInv, TypeOK, BurstTypeOK
      <3>5. Longest' \in Int /\ Longest' <= Longest
        BY <2>1, <2>3, <3>2, LongestType DEF Longest, TypeOK, BurstTypeOK
      <3>6. unanswered + Longest' <= AnswerBound
        <4>1. unanswered + Longest <= AnswerBound
          BY <1>3, <2>1 DEF AnswerInv
        <4>2. unanswered \in Int
          BY DEF TypeOK, BurstTypeOK
        <4> QED BY <4>1, <4>2, <3>5, LongestType, StaysInTime
      <3>7. LossAnswered'
        BY <2>1 DEF AnswerInv, LossAnswered
      <3> QED BY <2>1, <3>4, <3>6, <3>7 DEF AnswerInv
    <2>6. CASE ~(sinceRequest < Limit) /\ arrives
      BY <1>3, <2>6 DEF Arrive, TypeOK, BurstTypeOK
    <2> QED BY <2>4, <2>5, <2>6
  <1> QED BY <1>1, <1>2, <1>3

LEMMA BurstStep ==
    ASSUME TypeOK, BurstInv, [Next]_vars
    PROVE  BurstInv'
  <1> USE BurstAssumption
  <1>1. RecentInv'
    BY RecentStep DEF BurstInv
  <1>2. CASE Elapse
    BY <1>2, ElapseStep, <1>1 DEF BurstInv
  <1>3. CASE Lines
    <2>1. ASSUME NEW lost \in BOOLEAN, Arm(lost), UNCHANGED sinceWake, connected
          PROVE  ReserveInv' /\ AnswerInv'
      BY <2>1, ArmStep
    <2>2. ASSUME UNCHANGED <<burstVars, connected, sinceWake>>
          PROVE  ReserveInv' /\ AnswerInv'
      BY <2>2 DEF burstVars, BurstInv, ReserveInv, AnswerInv, LossAnswered, Longest, NextSend,
                  Resends, Left, Spare
    <2> QED BY <1>1, <1>3, <2>1, <2>2
            DEF Lines, VideoLine, LimitedLine, CrashLine, StallLine, Disconnect, BurstInv
  <1>4. ASSUME NEW arrives \in BOOLEAN, Wakeup(arrives) PROVE BurstInv'
    BY <1>4, WakeupStep, <1>1 DEF BurstInv
  <1>5. CASE Close \/ Refused
    <2>1. UNCHANGED burstVars /\ ~connected'
      BY <1>5 DEF Close, Refused, Disconnect
    <2> QED BY <2>1, <1>1 DEF burstVars, BurstInv, ReserveInv, AnswerInv, LossAnswered, Left,
                              Spare
  <1>6. CASE Connect
    <2>1. UNCHANGED <<remaining, sinceSend, sinceRequest, dropped>> /\ sinceWake' = 0
          /\ unanswered' = AtMost(unanswered, 0)
      BY <1>6 DEF Connect, BurstConnect
    <2>2. (unanswered' # None <=> unanswered # None) /\ unanswered' \in {None, 0}
      BY <2>1, AnswerBoundType DEF AtMost, None, TypeOK, BurstTypeOK
    <2>3. ReserveInv'
      BY <2>1, <2>2 DEF BurstInv, ReserveInv, Left, Spare
    <2>4. unanswered' # None => Longest' \in Nat /\ Longest' <= AnswerBound
      BY <2>3, TypeStep, LongestInTimeNext DEF InTime
    <2>5. unanswered' <= AnswerBound /\ (unanswered' # None => unanswered' = 0)
      BY <2>2, AnswerBoundType DEF None
    <2>6. AnswerInv'
      BY <2>4, <2>5, AnswerBoundType DEF AnswerInv, LossAnswered
    <2> QED BY <1>1, <2>3, <2>6 DEF BurstInv
  <1>7. CASE FallbackSample
    BY <1>7 DEF FallbackSample, burstVars, loopVars, BurstInv, RecentInv, ReserveInv,
                AnswerInv, LossAnswered, Longest, NextSend, Resends, Left, Spare
  <1>8. ASSUME NEW zero \in BOOLEAN, CameraRefresh(zero) PROVE BurstInv'
    BY <1>8 DEF CameraRefresh, burstVars, loopVars, BurstInv, RecentInv, ReserveInv,
                AnswerInv, LossAnswered, Longest, NextSend, Resends, Left, Spare
  <1>9. ASSUME NEW zero \in BOOLEAN, DroneRestart(zero) PROVE BurstInv'
    <2>1. UNCHANGED <<remaining, sinceSend, dropped, unanswered, connected, sinceWake>>
          /\ sinceRequest' = Limit
      BY <1>9 DEF DroneRestart, BurstDroneRestart, loopVars
    <2>2. ReserveInv'
      BY <2>1 DEF BurstInv, ReserveInv, Spare
    <2>3. Longest' \in Int /\ Longest' <= Longest
      BY <2>1, LongestType DEF Longest, NextSend, Resends, Spare, TypeOK, BurstTypeOK
    <2>4. unanswered \in Int
      BY DEF TypeOK, BurstTypeOK
    <2>5. connected' /\ unanswered' # None => unanswered' + Longest' <= AnswerBound
      <3>1. ASSUME connected, unanswered # None PROVE unanswered + Longest' <= AnswerBound
        <4>1. unanswered + Longest <= AnswerBound
          BY <3>1 DEF BurstInv, AnswerInv
        <4> QED BY <2>3, <2>4, <4>1, LongestType, StaysInTime
      <3> QED BY <2>1, <3>1
    <2>6. AnswerInv'
      BY <2>1, <2>5 DEF BurstInv, AnswerInv, LossAnswered
    <2> QED BY <1>1, <2>2, <2>6 DEF BurstInv
  <1>10. CASE UNCHANGED vars
    BY <1>10 DEF vars, burstVars, loopVars, BurstInv, RecentInv, ReserveInv,
                 AnswerInv, LossAnswered, Longest, NextSend, Resends, Left, Spare
  <1> QED BY <1>2, <1>3, <1>4, <1>5, <1>6, <1>7, <1>8, <1>9, <1>10 DEF Next, Drone

\* A loss on the video whose burst reaches past the drone's rate limit is
\* answered by a request to the camera in time (pump_keyframe_sender and
\* keyframe_fire_request): whatever is lost, armed again, limited or restarted
\* on the way, what is left of the burst still reaches that far.
THEOREM LossAlwaysAnswered == Spec => []LossAnswered
  <1>1. Init => BurstInv
    BY BurstAssumption, AnswerBoundType
       DEF Init, BurstInit, BurstInv, RecentInv, ReserveInv, AnswerInv, LossAnswered, None
  <1>2. TypeOK /\ BurstInv /\ [Next]_vars => BurstInv'
    BY BurstStep
  <1>3. BurstInv => LossAnswered
    BY DEF BurstInv, AnswerInv
  <1> QED BY <1>1, <1>2, <1>3, TypeCorrect, PTL DEF Spec

=============================================================================
