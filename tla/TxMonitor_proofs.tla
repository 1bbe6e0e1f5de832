-------------------------- MODULE TxMonitor_proofs --------------------------
(* Proofs about what the TX monitor does on driver drops: BitrateGuard, for   *)
(* any bitrates, factor, outcomes and timing, and KeyframeLimiter, for every *)
(* interval and clock bound.                                                 *)
EXTENDS BitrateGuard, KeyframeLimiter, TLAPS

----------------------------------------------------------------------------
(* The bitrate. *)

Nominal == Bitrate \cup {Unset}
Possible == Nominal \cup {Cut[b] : b \in Nominal}

\* Where the two threads stand, and what their locals then hold.
ThreadInv ==
    /\ wpc = "store" <=> toStore # {}
    /\ wpc = "store" => \A f \in Field \ toStore : prevApplied[f] = job[f]
    /\ tpc \in {"send", "flag"} => bitrateReduced = snapReduced
    /\ wpc = "store" /\ tpc = "send" => stale
    /\ tpc = "send" /\ ~stale =>
          /\ prevApplied = snap
          /\ call = IF snapReduced THEN snap ELSE Reduction(snap)

\* What is known of the encoder while no exception is pending.
EncoderInv ==
    ~adrift =>
      /\ wpc = "store" => encoder = job
      /\ wpc # "store" /\ prevApplied.bitrate # Unset =>
            \/ encoder = prevApplied
            \/ /\ encoder = Reduction(prevApplied)
               /\ IF tpc = "flag" THEN ~snapReduced ELSE bitrateReduced

Inv == TypeOK /\ ThreadInv /\ EncoderInv

\* Bitrates come from profiles; a cut is only ever taken of one of those.
RangeInv == encoder.bitrate \in Possible /\ call.bitrate \in Possible

LEMMA ReductionType ==
    ASSUME NEW s \in Known
    PROVE  /\ Reduction(s) \in Sent /\ Reduction(s).bitrate \in Possible
           /\ s \in Sent /\ s.bitrate \in Possible
  BY SettingAssumption DEF Known, Sent, Reduction, Possible, Nominal, Unset

LEMMA SettingKnown ==
    ASSUME NEW s \in Setting
    PROVE  s \in Known /\ s \in Sent /\ s.bitrate \in Bitrate
  <1>1. s.bitrate \in Bitrate /\ s.gop \in Gop /\ s = [bitrate |-> s.bitrate, gop |-> s.gop]
    BY DEF Setting
  <1>2. s.bitrate \in Int
    BY <1>1, SettingAssumption
  <1> QED BY <1>1, <1>2 DEF Known, Sent

LEMMA InitInv == Init => Inv /\ RangeInv
  <1> SUFFICES ASSUME Init PROVE Inv /\ RangeInv OBVIOUS
  <1>1. prevApplied \in Known /\ encoder \in Sent /\ RestoreAfter \in 0..RestoreAfter
        /\ unseen \in -MaxUnseen..MaxUnseen
    BY SettingAssumption, TimingAssumption, SettingKnown DEF Init, Known
  <1>2. TypeOK
    BY <1>1, SettingAssumption, SettingKnown DEF Init, TypeOK
  <1>3. ThreadInv /\ EncoderInv
    BY DEF Init, ThreadInv, EncoderInv, Unset
  <1>4. RangeInv
    BY SettingAssumption, SettingKnown DEF Init, RangeInv, Possible, Nominal
  <1> QED BY <1>2, <1>3, <1>4 DEF Inv

LEMMA DecideCall ==
    ASSUME TypeOK, MonitorDecide
    PROVE  /\ call' \in Sent
           /\ call' = call \/ call'.bitrate \in Possible
           /\ tpc' = "send" => call' = IF snapReduced' THEN snap' ELSE Reduction(snap')
  <1>1. prevApplied \in Known /\ snap' = prevApplied /\ snapReduced' = bitrateReduced
    BY DEF TypeOK, MonitorDecide
  <1>2. \/ call' = Reduction(snap') /\ ~bitrateReduced
        \/ call' = snap' /\ bitrateReduced
        \/ call' = call /\ tpc' = "sleep"
    BY DEF MonitorDecide, Reduction
  <1> QED BY <1>1, <1>2, ReductionType DEF TypeOK

LEMMA TypeStep == TypeOK /\ [Next]_vars => TypeOK'
  <1> SUFFICES ASSUME TypeOK, [Next]_vars PROVE TypeOK' OBVIOUS
  <1> USE DEF TypeOK, workerVars, monitorVars, sampleVars, counterVars, history
  <1>1. ASSUME NEW s \in Setting, WorkerJob(s) PROVE TypeOK'
    BY <1>1 DEF WorkerJob
  <1>2. ASSUME NEW o \in Outcome, WorkerSend(o) PROVE TypeOK'
    <2>1. job \in Sent
      BY SettingKnown
    <2> QED BY <1>2, <2>1 DEF WorkerSend
  <1>3. ASSUME NEW f \in Field, WorkerStore(f) PROVE TypeOK'
    <2>1. prevApplied' \in Known
      BY <1>3 DEF WorkerStore, Known, Setting, Field
    <2> QED BY <1>3, <2>1 DEF WorkerStore
  <1>4. ASSUME NEW r \in BOOLEAN, NEW g \in Gap, MonitorSample(r, g) PROVE TypeOK'
    <2>1. sinceXtx' \in 0..RestoreAfter
      BY <1>4, TimingAssumption DEF MonitorSample, Sampled
    <2>2. unseen' \in -MaxUnseen..MaxUnseen /\ counted' \in BOOLEAN /\ dropped' \in BOOLEAN
      BY <1>4, TimingAssumption DEF MonitorSample, ReadCounter
    <2> QED BY <1>4, <2>1, <2>2 DEF MonitorSample
  <1>5. CASE MonitorDecide
    <2>1. call' \in Sent
      BY <1>5, DecideCall
    <2>2. 0 \in 0..RestoreAfter
      BY TimingAssumption
    <2>3. sinceXtx' \in 0..RestoreAfter
      BY <1>5, <2>2 DEF MonitorDecide, Quiet
    <2> QED BY <1>5, <2>1, <2>3 DEF MonitorDecide
  <1>6. ASSUME NEW o \in Outcome, MonitorSend(o) PROVE TypeOK'
    BY <1>6 DEF MonitorSend
  <1>7. CASE MonitorFlag
    BY <1>7 DEF MonitorFlag, FlagAfter
  <1>8. CASE UNCHANGED vars
    BY <1>8 DEF vars
  <1>9. CASE Driver
    BY <1>9, TimingAssumption DEF Driver, DriverDrops, DriverRestarts
  <1> QED BY <1>1, <1>2, <1>3, <1>4, <1>5, <1>6, <1>7, <1>8, <1>9
          DEF Next, Worker, Monitor, Sampling

LEMMA ThreadStep == TypeOK /\ ThreadInv /\ [Next]_vars => ThreadInv'
  <1> SUFFICES ASSUME TypeOK, ThreadInv, [Next]_vars PROVE ThreadInv' OBVIOUS
  <1> USE DEF ThreadInv, workerVars, monitorVars, sampleVars, counterVars, history
  <1>1. ASSUME NEW s \in Setting, WorkerJob(s) PROVE ThreadInv'
    BY <1>1 DEF WorkerJob
  <1>2. ASSUME NEW o \in Outcome, WorkerSend(o) PROVE ThreadInv'
    BY <1>2, TimingAssumption DEF WorkerSend, Field
  <1>3. ASSUME NEW f \in Field, WorkerStore(f) PROVE ThreadInv'
    <2>1. \A k \in Field \ toStore' : prevApplied'[k] = job'[k]
      BY <1>3 DEF WorkerStore, TypeOK, Known, Field
    <2>2. toStore' = {} <=> wpc' # "store"
      BY <1>3 DEF WorkerStore
    <2> QED BY <1>3, <2>1, <2>2 DEF WorkerStore
  <1>4. ASSUME NEW r \in BOOLEAN, NEW g \in Gap, MonitorSample(r, g) PROVE ThreadInv'
    BY <1>4 DEF MonitorSample, ReadCounter
  <1>5. CASE MonitorDecide
    <2>1. tpc' \in {"sleep", "send"} /\ (tpc' = "send" => stale' = (wpc = "store"))
      BY <1>5 DEF MonitorDecide
    <2> QED BY <1>5, <2>1, DecideCall DEF MonitorDecide
  <1>6. ASSUME NEW o \in Outcome, MonitorSend(o) PROVE ThreadInv'
    BY <1>6 DEF MonitorSend
  <1>7. CASE MonitorFlag
    BY <1>7 DEF MonitorFlag, FlagAfter
  <1>8. CASE UNCHANGED vars
    BY <1>8 DEF vars
  <1>9. CASE Driver
    BY <1>9 DEF Driver, DriverDrops, DriverRestarts
  <1> QED BY <1>1, <1>2, <1>3, <1>4, <1>5, <1>6, <1>7, <1>8, <1>9
          DEF Next, Worker, Monitor, Sampling

LEMMA EncoderStep == Inv /\ [Next]_vars => EncoderInv'
  <1> SUFFICES ASSUME TypeOK, ThreadInv, EncoderInv, [Next]_vars PROVE EncoderInv'
    BY DEF Inv
  <1> USE DEF EncoderInv, workerVars, monitorVars, sampleVars, counterVars, history
  <1>1. ASSUME NEW s \in Setting, WorkerJob(s) PROVE EncoderInv'
    BY <1>1 DEF WorkerJob
  <1>2. ASSUME NEW o \in Outcome, WorkerSend(o) PROVE EncoderInv'
    BY <1>2, TimingAssumption DEF WorkerSend
  <1>3. ASSUME NEW f \in Field, WorkerStore(f) PROVE EncoderInv'
    <2>1. wpc = "store" /\ UNCHANGED <<encoder, job, history, tpc, snapReduced, bitrateReduced>>
      BY <1>3 DEF WorkerStore
    <2>2. ASSUME toStore' = {} PROVE prevApplied' = job
      <3>1. prevApplied'.bitrate = job.bitrate /\ prevApplied'.gop = job.gop
        BY <1>3, <2>2 DEF WorkerStore, ThreadInv, TypeOK, Known, Field
      <3> QED BY <1>3, <3>1 DEF WorkerStore, TypeOK, Known, Setting, Field
    <2> QED BY <1>3, <2>1, <2>2 DEF WorkerStore
  <1>4. ASSUME NEW r \in BOOLEAN, NEW g \in Gap, MonitorSample(r, g) PROVE EncoderInv'
    BY <1>4 DEF MonitorSample, ReadCounter
  <1>5. CASE MonitorDecide
    BY <1>5 DEF MonitorDecide
  <1>6. ASSUME NEW o \in Outcome, MonitorSend(o) PROVE EncoderInv'
    <2>1. UNCHANGED <<prevApplied, bitrateReduced, wpc, job, snapReduced>>
          /\ tpc = "send" /\ tpc' = "flag"
      BY <1>6 DEF MonitorSend
    <2>2. CASE o = "failed"
      <3>1. encoder' = encoder /\ adrift' = (adrift \/ snapReduced)
        BY <1>6, <2>2 DEF MonitorSend
      <3>2. bitrateReduced = snapReduced
        BY <2>1 DEF ThreadInv
      <3>3. CASE adrift \/ snapReduced
        BY <3>1, <3>3
      <3>4. CASE ~adrift /\ ~snapReduced
        BY <2>1, <3>1, <3>2, <3>4
      <3> QED BY <3>3, <3>4
    <2>3. CASE o # "failed"
      <3>1. adrift' = stale /\ encoder' = call
        BY <1>6, <2>3 DEF MonitorSend
      <3> QED BY <2>1, <3>1 DEF ThreadInv
    <2> QED BY <2>2, <2>3
  <1>7. CASE MonitorFlag
    BY <1>7 DEF MonitorFlag, FlagAfter, TypeOK
  <1>8. CASE UNCHANGED vars
    BY <1>8 DEF vars
  <1>9. CASE Driver
    BY <1>9 DEF Driver, DriverDrops, DriverRestarts
  <1> QED BY <1>1, <1>2, <1>3, <1>4, <1>5, <1>6, <1>7, <1>8, <1>9
          DEF Next, Worker, Monitor, Sampling

LEMMA InvStep == Inv /\ [Next]_vars => Inv'
  BY TypeStep, ThreadStep, EncoderStep DEF Inv

LEMMA RangeStep == TypeOK /\ RangeInv /\ [Next]_vars => RangeInv'
  <1> SUFFICES ASSUME TypeOK, RangeInv, [Next]_vars PROVE RangeInv' OBVIOUS
  <1> USE DEF RangeInv, workerVars, monitorVars, sampleVars, counterVars, history
  <1>1. ASSUME NEW o \in Outcome, WorkerSend(o) PROVE RangeInv'
    <2>1. job.bitrate \in Possible
      BY SettingKnown DEF TypeOK, Possible, Nominal
    <2> QED BY <1>1, <2>1 DEF WorkerSend
  <1>2. CASE MonitorDecide
    BY <1>2, DecideCall DEF MonitorDecide
  <1>3. ASSUME NEW o \in Outcome, MonitorSend(o) PROVE RangeInv'
    BY <1>3 DEF MonitorSend
  <1>4. CASE \/ UNCHANGED vars \/ Sampling \/ MonitorFlag \/ Driver
             \/ \E s \in Setting : WorkerJob(s)
             \/ \E f \in Field : WorkerStore(f)
    BY <1>4 DEF vars, Sampling, MonitorSample, MonitorFlag, Driver, DriverDrops,
                DriverRestarts, WorkerJob, WorkerStore
  <1> QED BY <1>1, <1>2, <1>3, <1>4 DEF Next, Worker, Monitor

\* Every variable of both threads and of the encoder keeps its type.
THEOREM TypeCorrect == Spec => []TypeOK
  <1>1. Init => TypeOK
    BY InitInv DEF Inv
  <1> QED BY <1>1, TypeStep, PTL DEF Spec

\* However the two threads interleave, the encoder runs the applied profile or
\* its reduction, except after the events adrift records.
THEOREM EncoderAlwaysWhereBelieved == Spec => []EncoderWhereBelieved
  <1>1. Spec => []Inv
    BY InitInv, InvStep, PTL DEF Spec
  <1>2. Inv => EncoderWhereBelieved
    BY DEF Inv, EncoderInv, EncoderWhereBelieved, Reduction
  <1> QED BY <1>1, <1>2, PTL

\* No interleaving of drops, restores, profiles and failures cuts a cut.
THEOREM ReductionsNeverCompound == Spec => []NoCompounding
  <1>1. Spec => [](TypeOK /\ RangeInv)
    BY InitInv, TypeStep, RangeStep, PTL DEF Spec, Inv
  <1>2. RangeInv => NoCompounding
    BY DEF RangeInv, NoCompounding, Possible, Nominal
  <1> QED BY <1>1, <1>2, PTL

----------------------------------------------------------------------------
(* The keyframe requests. *)

\* Clock readings lie in the past, so the slot's time does too.
ClockInv == lastRequest <= now /\ \A p \in Path : sampled[p] <= now

\* Each claim after the first moved the slot's time by an interval at least.
SlotInv == claims > 0 => (claims - 1) * Interval <= lastRequest - firstClaim

LimiterInv == LimiterTypeOK /\ ClaimsAccounted /\ ClockInv /\ SlotInv

LEMMA TimesMonotone ==
    ASSUME NEW m \in Int, NEW n \in Int, m <= n
    PROVE  m * Interval <= n * Interval
  <1>1. Interval \in Nat
    BY IntervalAssumption
  <1>2. (n - m) * Interval >= 0
    BY <1>1
  <1>3. n * Interval = m * Interval + (n - m) * Interval
    BY <1>1
  <1>4. m * Interval \in Int /\ (n - m) * Interval \in Int
    BY <1>1
  <1> QED BY <1>2, <1>3, <1>4

LEMMA OneMoreTimes ==
    ASSUME NEW n \in Int
    PROVE  n * Interval = (n - 1) * Interval + Interval
  BY IntervalAssumption

LEMMA LimiterInitInv == LimiterInit => LimiterInv
  BY IntervalAssumption, NoneAssumption
     DEF LimiterInit, LimiterInv, LimiterTypeOK, ClaimsAccounted, ClockInv, SlotInv, Path

LEMMA AccountStep ==
    ASSUME LimiterTypeOK, ClaimsAccounted, [LimiterNext]_limiterVars
    PROVE  LimiterTypeOK' /\ ClaimsAccounted'
  <1> USE IntervalAssumption, NoneAssumption DEF LimiterTypeOK, ClaimsAccounted, Path, Other, historyVars
  <1>1. CASE Tick
    BY <1>1 DEF Tick
  <1>2. CASE OtherCommand
    BY <1>2 DEF OtherCommand
  <1>3. ASSUME NEW p \in Path, ReadClock(p) PROVE LimiterTypeOK' /\ ClaimsAccounted'
    BY <1>3 DEF ReadClock
  <1>4. ASSUME NEW p \in Path, Claim(p) PROVE LimiterTypeOK' /\ ClaimsAccounted'
    <2>1. CASE Allowed(p)
      <3>1. lastRequest' \in Nat /\ claims' = claims + 1 /\ firstClaim' \in Nat
            /\ pc' = [pc EXCEPT ![p] = "lock"]
        BY <1>4, <2>1 DEF Claim, Claimed
      <3>2. totalRequests' \in 0..claims'
        BY <1>4, <2>1, <3>1 DEF Claim, Counted
      <3>3. UNCHANGED <<now, sampled, holder, issued>> /\ pc[p] = "check"
        BY <1>4 DEF Claim
      <3>4. LimiterTypeOK'
        BY <3>1, <3>2, <3>3
      <3>5. ClaimsAccounted'
        BY <3>1, <3>3
      <3> QED BY <3>4, <3>5
    <2>2. CASE ~Allowed(p)
      BY <1>4, <2>2 DEF Claim, Counted
    <2> QED BY <2>1, <2>2
  <1>5. ASSUME NEW p \in Path, Issue(p) PROVE LimiterTypeOK' /\ ClaimsAccounted'
    BY <1>5 DEF Issue
  <1>6. ASSUME NEW p \in Path, Answer(p) PROVE LimiterTypeOK' /\ ClaimsAccounted'
    BY <1>6 DEF Answer, Released
  <1>7. CASE UNCHANGED limiterVars
    BY <1>7 DEF limiterVars
  <1> QED BY <1>1, <1>2, <1>3, <1>4, <1>5, <1>6, <1>7 DEF LimiterNext, Asking

LEMMA ClockStep ==
    ASSUME LimiterTypeOK, ClockInv, SlotInv, [LimiterNext]_limiterVars
    PROVE  ClockInv' /\ SlotInv'
  <1> USE DEF LimiterTypeOK, ClockInv, SlotInv, historyVars
  <1>1. CASE Tick
    BY <1>1 DEF Tick
  <1>2. ASSUME NEW p \in Path, ReadClock(p) PROVE ClockInv' /\ SlotInv'
    BY <1>2 DEF ReadClock
  <1>3. ASSUME NEW p \in Path, Claim(p) PROVE ClockInv' /\ SlotInv'
    <2>1. CASE Allowed(p)
      <3>1. /\ lastRequest' = sampled[p] /\ claims' = claims + 1 /\ UNCHANGED <<now, sampled>>
            /\ firstClaim' = IF claims = 0 THEN sampled[p] ELSE firstClaim
        BY <1>3, <2>1 DEF Claim, Claimed
      <3>2. sampled[p] - lastRequest >= Interval
        BY <2>1, IntervalAssumption DEF Allowed, Elapsed
      <3>3. CASE claims = 0
        <4>1. claims' = 1 /\ firstClaim' = lastRequest' /\ lastRequest' \in Nat
          BY <3>1, <3>3
        <4>2. (claims' - 1) * Interval = 0
          BY <4>1, IntervalAssumption
        <4> QED BY <3>1, <4>1, <4>2
      <3>4. CASE claims > 0
        <4>1. claims * Interval = (claims - 1) * Interval + Interval
          BY OneMoreTimes
        <4>2. (claims - 1) * Interval \in Int /\ Interval \in Int
          BY IntervalAssumption
        <4>3. claims * Interval <= lastRequest' - firstClaim'
          BY <3>1, <3>2, <3>4, <4>1, <4>2
        <4>4. claims' - 1 = claims
          BY <3>1
        <4> QED BY <3>1, <4>3, <4>4
      <3> QED BY <3>3, <3>4
    <2>2. CASE ~Allowed(p)
      BY <1>3, <2>2 DEF Claim
    <2> QED BY <2>1, <2>2
  <1>4. CASE \/ UNCHANGED limiterVars \/ OtherCommand
             \/ \E p \in Path : Issue(p) \/ Answer(p)
    BY <1>4 DEF limiterVars, OtherCommand, Issue, Answer
  <1> QED BY <1>1, <1>2, <1>3, <1>4 DEF LimiterNext, Asking

LEMMA LimiterAlwaysInv == LimiterSpec => []LimiterInv
  <1>1. LimiterInv /\ [LimiterNext]_limiterVars => LimiterInv'
    BY AccountStep, ClockStep DEF LimiterInv
  <1> QED BY <1>1, LimiterInitInv, PTL DEF LimiterSpec

\* Every variable keeps its type, and the counter never exceeds the claims.
THEOREM LimiterTypeCorrect == LimiterSpec => []LimiterTypeOK
  BY LimiterAlwaysInv, PTL DEF LimiterInv

\* Every claim becomes one request, by a path that then owns exec_mutex.
THEOREM ClaimsAlwaysAccounted == LimiterSpec => []ClaimsAccounted
  BY LimiterAlwaysInv, PTL DEF LimiterInv

\* For every interval, delay and interleaving, requests are at most one per
\* interval since the first claim, and one more.
THEOREM RequestRateHolds == LimiterSpec => []RequestRate
  <1>1. LimiterInv => RequestRate
    <2> SUFFICES ASSUME LimiterInv, issued > 0
                 PROVE  (issued - 1) * Interval <= now - firstClaim
      BY DEF RequestRate
    <2> USE DEF LimiterInv, LimiterTypeOK
    <2>1. issued - 1 <= claims - 1 /\ claims > 0
      BY DEF ClaimsAccounted
    <2>2. (issued - 1) * Interval <= (claims - 1) * Interval
      BY <2>1, TimesMonotone
    <2>3. (claims - 1) * Interval <= lastRequest - firstClaim /\ lastRequest <= now
      BY <2>1 DEF SlotInv, ClockInv
    <2>4. (issued - 1) * Interval \in Int /\ (claims - 1) * Interval \in Int
      BY IntervalAssumption
    <2> QED BY <2>2, <2>3, <2>4
  <1> QED BY <1>1, LimiterAlwaysInv, PTL
=============================================================================
