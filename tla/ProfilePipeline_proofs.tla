----------------------- MODULE ProfilePipeline_proofs -----------------------
(***************************************************************************)
(* Proofs about ProfilePipeline, for any profiles, indices, bounds and     *)
(* command outcomes.                                                       *)
(***************************************************************************)
EXTENDS ProfilePipeline, TLAPS

USE DEF Group, Unset, outsideRecv, outsideFallback, outsideWorker

\* Where each thread stands, and what its locals then hold.
ControlInv ==
    /\ rpc = "idle" <=> frame = None
    /\ rpc \in {"check", "track", "dispatch"}
          => frame \in [kind : {"profile"}, body : GsProfile]
    /\ rpc = "count" => messageCount < MaxCount
    /\ wpc = "exec" => job \in Job
    /\ wpc = "wait" => step = 5
    /\ jobPending => pendingJob \in Job
    /\ pendingJob # None /\ ~jobPending => job = pendingJob
    /\ job # None => pendingJob # None
    /\ job = None => wpc = "wait"

\* The steps already taken have committed their group, or are excused.
Committed ==
    job # None =>
        \A i \in 1..4 : i < step =>
            LET g == Order(job)[i]
            IN  g \in Excused \/ prevApplied[g] = job.profile[g]

Inv == TypeOK /\ ControlInv /\ Committed

\* What the daemon remembers of a group is what the device runs, but for the
\* groups that changed without its knowledge.
Known == \A g \in Group \ mistaken : prevApplied[g] \in {Unset, device[g]}

\* A move that suited its order when the job was taken keeps suiting it, as
\* long as the commands that guard later ones succeed.
Sound ==
    \A i \in 1..4 : i < step /\ Order(job)[i] \in Guarding(Order(job))
                        => Order(job)[i] \notin missed \cup mistaken
Suited ==
    wpc = "exec" /\ aligned /\ Sound
        => OrderSuits(device, job.profile, Order(job))

LEMMA OrderIsPermutation ==
    ASSUME NEW j \in Job
    PROVE  /\ \A i \in 1..4 : Order(j)[i] \in Group
           /\ \A g \in Group : \E i \in 1..4 : Order(j)[i] = g
           /\ \A i, k \in 1..4 : Order(j)[i] = Order(j)[k] => i = k
  BY DEF Order, UpgradeOrder, DowngradeOrder

LEMMA InitInv == Init => Inv
  <1> SUFFICES ASSUME Init PROVE Inv OBVIOUS
  <1>1. TypeOK
    <2>1. prevApplied \in [Group -> Value \cup {Unset}] /\ device \in Profile
      BY ProfileAssumption DEF Init
    <2>2. 0 \in 0..(ApplyWrap - 1) /\ 0 \in 0..MaxCount /\ 5 \in 1..5
      BY BoundAssumption
    <2> QED BY <2>1, <2>2 DEF Init, TypeOK, Index
  <1>2. ControlInv
    BY DEF Init, ControlInv
  <1>3. Committed
    BY DEF Init, Committed
  <1> QED BY <1>1, <1>2, <1>3 DEF Inv

LEMMA TypeStep == TypeOK /\ ControlInv /\ [Next]_vars => TypeOK'
  <1> SUFFICES ASSUME TypeOK, ControlInv, [Next]_vars PROVE TypeOK' OBVIOUS
  <1> USE ProfileAssumption, BoundAssumption DEF TypeOK, tracking, slot,
        recvVars, fallbackVars, countVars, workerVars, deviceVars
  <1>1. ASSUME NEW f \in Frame, RecvFrame(f) PROVE TypeOK'
    BY <1>1 DEF RecvFrame
  <1>2. CASE RecvCount
    BY <1>2 DEF RecvCount, ControlInv
  <1>3. CASE RecvDone
    BY <1>3 DEF RecvDone
  <1>4. CASE RecvCheck
    BY <1>4 DEF RecvCheck
  <1>5. CASE RecvTrackPrevious
    BY <1>5 DEF RecvTrackPrevious, Tracked, Index
  <1>6. CASE RecvTrackCurrent
    BY <1>6 DEF RecvTrackCurrent, Tracked, Index, ControlInv
  <1>7. CASE RecvDispatch
    BY <1>7 DEF RecvDispatch, ProfileApply, Job, ControlInv
  <1>8. CASE FallbackSample
    BY <1>8 DEF FallbackSample
  <1>9. CASE FallbackTest
    BY <1>9 DEF FallbackTest
  <1>10. CASE FallbackMark
    BY <1>10 DEF FallbackMark, FallbackIndex, Index
  <1>11. CASE FallbackDispatch
    BY <1>11 DEF FallbackDispatch, ProfileApply, Job
  <1>12. CASE WorkerTake
    <2>1. aligned' \in BOOLEAN
      <3>1. OrderSuits(device, pendingJob.profile, Order(pendingJob)) \in BOOLEAN
        BY DEF OrderSuits
      <3> QED BY <1>12, <3>1 DEF WorkerTake
    <2>2. UNCHANGED <<tracking, recvVars, fallbackVars, countVars, prevApplied,
                      pendingJob, device, mistaken, applyCount>>
      BY <1>12 DEF WorkerTake
    <2>3. wpc' = "exec" /\ job' \in Job /\ jobPending' = FALSE /\ step' = 1
          /\ landed' = FALSE /\ missed' = {} /\ mistaken' = mistaken
      BY <1>12 DEF WorkerTake, ControlInv
    <2>4. wpc' \in {"wait", "exec"} /\ job' \in Job \cup {None}
          /\ jobPending' \in BOOLEAN /\ step' \in 1..5 /\ landed' \in BOOLEAN
          /\ missed' \subseteq Group
      <3>1. wpc' \in {"wait", "exec"} BY <2>3
      <3>2. job' \in Job \cup {None} BY <2>3
      <3>3. jobPending' \in BOOLEAN BY <2>3
      <3>4. step' \in 1..5 BY <2>3
      <3>5. landed' \in BOOLEAN BY <2>3
      <3>6. missed' \subseteq Group BY <2>3
      <3> QED BY <3>1, <3>2, <3>3, <3>4, <3>5, <3>6
    <2> QED BY <2>1, <2>2, <2>4, SMTT(30)
  <1>13. CASE WorkerSkip
    BY <1>13 DEF WorkerSkip
  <1>14. ASSUME NEW o \in Outcome, WorkerCommand(o) PROVE TypeOK'
    <2>1. job \in Job /\ Due \in Group /\ job.profile[Due] \in Value
      BY <1>14, OrderIsPermutation DEF WorkerCommand, ControlInv, Due, Job, Profile
    <2>2. prevApplied' \in [Group -> Value \cup {Unset}] /\ device' \in Profile
      BY <1>14, <2>1 DEF WorkerCommand, Remembered, Profile
    <2>3. missed' \subseteq Group
      BY <1>14, <2>1 DEF WorkerCommand
    <2>4. landed' \in BOOLEAN /\ step' \in 1..5
      BY <1>14 DEF WorkerCommand
    <2>5. mistaken' \subseteq Group
      BY <1>14 DEF WorkerCommand, Unnoticed
    <2> QED BY <1>14, <2>2, <2>3, <2>4, <2>5 DEF WorkerCommand
  <1>15. CASE WorkerFinish
    <2>1. (applyCount + 1) % ApplyWrap \in 0..(ApplyWrap - 1)
      <3> HIDE DEF TypeOK
      <3>1. applyCount + 1 \in Int /\ ApplyWrap \in Nat /\ ApplyWrap > 0
        BY BoundAssumption DEF TypeOK
      <3> QED BY <3>1
    <2>2. applyCount' \in 0..(ApplyWrap - 1)
      BY <1>15, <2>1 DEF WorkerFinish
    <2> QED BY <1>15, <2>2 DEF WorkerFinish
  <1>16. CASE DaemonRestart
    <2>1. device' \in Profile
      BY <1>16 DEF DaemonRestart, Profile
    <2>2. mistaken' \subseteq Group
      BY <1>16 DEF DaemonRestart, Unnoticed
    <2> QED BY <1>16, <2>1, <2>2 DEF DaemonRestart
  <1>17. CASE UNCHANGED vars
    BY <1>17 DEF vars
  <1> QED
    BY <1>1, <1>2, <1>3, <1>4, <1>5, <1>6, <1>7, <1>8, <1>9, <1>10, <1>11,
       <1>12, <1>13, <1>14, <1>15, <1>16, <1>17 DEF Next, Recv, Fallback, Worker

LEMMA ControlStep == TypeOK /\ ControlInv /\ [Next]_vars => ControlInv'
  <1> SUFFICES ASSUME TypeOK, ControlInv, [Next]_vars PROVE ControlInv' OBVIOUS
  <1> USE NoneAssumption, BoundAssumption DEF ControlInv, tracking, slot,
        recvVars, fallbackVars, countVars, workerVars, deviceVars
  <1>1. ASSUME NEW f \in Frame, RecvFrame(f) PROVE ControlInv'
    BY <1>1 DEF RecvFrame
  <1>2. CASE RecvCount
    <2>1. frame \in Frame
      BY <1>2 DEF RecvCount, TypeOK
    <2>2. frame.kind = "profile" => frame \in [kind : {"profile"}, body : GsProfile]
      BY <2>1, EnvironmentAssumption DEF Frame
    <2> QED BY <1>2, <2>2 DEF RecvCount
  <1>3. CASE RecvDone
    BY <1>3 DEF RecvDone
  <1>4. CASE RecvCheck
    BY <1>4 DEF RecvCheck
  <1>5. CASE RecvTrackPrevious
    BY <1>5 DEF RecvTrackPrevious, Tracked
  <1>6. CASE RecvTrackCurrent
    BY <1>6 DEF RecvTrackCurrent, Tracked
  <1>7. CASE RecvDispatch
    <2>1. pendingJob' \in Job /\ jobPending'
      BY <1>7, ProfileAssumption DEF RecvDispatch, ProfileApply, Job, TypeOK
    <2> QED BY <1>7, <2>1 DEF RecvDispatch
  <1>8. CASE FallbackSample
    BY <1>8 DEF FallbackSample
  <1>9. CASE FallbackTest
    BY <1>9 DEF FallbackTest
  <1>10. CASE FallbackMark
    BY <1>10 DEF FallbackMark
  <1>11. CASE FallbackDispatch
    <2>1. pendingJob' \in Job /\ jobPending'
      BY <1>11, ProfileAssumption DEF FallbackDispatch, ProfileApply, Job, TypeOK
    <2> QED BY <1>11, <2>1 DEF FallbackDispatch
  <1>12. CASE WorkerTake
    BY <1>12 DEF WorkerTake
  <1>13. CASE WorkerSkip
    BY <1>13 DEF WorkerSkip
  <1>14. ASSUME NEW o \in Outcome, WorkerCommand(o) PROVE ControlInv'
    BY <1>14 DEF WorkerCommand
  <1>15. CASE WorkerFinish
    BY <1>15 DEF WorkerFinish
  <1>16. CASE DaemonRestart
    BY <1>16 DEF DaemonRestart
  <1>17. CASE UNCHANGED vars
    BY <1>17 DEF vars
  <1> QED
    BY <1>1, <1>2, <1>3, <1>4, <1>5, <1>6, <1>7, <1>8, <1>9, <1>10, <1>11,
       <1>12, <1>13, <1>14, <1>15, <1>16, <1>17 DEF Next, Recv, Fallback, Worker

\* The receive and fallback threads leave the worker and the device alone.
LEMMA OthersLeaveWorker ==
    ASSUME Recv \/ Fallback
    PROVE  UNCHANGED <<workerVars, deviceVars, aligned>>
  BY DEF Recv, RecvFrame, RecvCount, RecvDone, RecvCheck, RecvTrackPrevious,
     RecvTrackCurrent, RecvDispatch, Fallback, FallbackSample, FallbackTest,
     FallbackMark, FallbackDispatch

\* What one worker step at the group whose turn it is does to that group and,
\* by omission, to the others.
LEMMA CommandEffect ==
    ASSUME TypeOK, ControlInv, NEW o \in Outcome, WorkerCommand(o)
    PROVE  /\ job \in Job /\ Due \in Group /\ job.profile \in Profile
           /\ \A g \in Group \ {Due} : /\ prevApplied'[g] = prevApplied[g]
                                       /\ device'[g] = device[g]
           /\ prevApplied'[Due] \in {prevApplied[Due], job.profile[Due]}
           /\ Due \notin missed' => /\ prevApplied'[Due] = job.profile[Due]
                                    /\ device'[Due] = job.profile[Due]
           /\ missed \subseteq missed' /\ mistaken \ {Due} \subseteq mistaken'
  <1>1. job \in Job /\ Due \in Group /\ job.profile \in Profile
    BY OrderIsPermutation DEF WorkerCommand, ControlInv, TypeOK, Due, Job
  <1> QED BY <1>1 DEF WorkerCommand, Remembered, TypeOK, Profile

LEMMA CommittedStep == Inv /\ [Next]_vars => Committed'
  <1> SUFFICES ASSUME TypeOK, ControlInv, Committed, [Next]_vars PROVE Committed'
    BY DEF Inv
  <1>1. CASE UNCHANGED vars \/ Recv \/ Fallback
    <2>1. UNCHANGED <<workerVars, deviceVars, aligned>>
      BY <1>1, OthersLeaveWorker DEF vars
    <2> QED BY <2>1 DEF Committed, Excused, workerVars, deviceVars
  <1>2. CASE WorkerTake
    BY <1>2 DEF WorkerTake, Committed
  <1>3. CASE WorkerSkip
    <2>1. job' = job /\ prevApplied' = prevApplied /\ missed' = missed /\ step' = step + 1
      BY <1>3 DEF WorkerSkip, deviceVars
    <2>2. Due \in Excused \/ prevApplied[Due] = job.profile[Due]
      BY <1>3 DEF WorkerSkip, Needless, Excused
    <2> QED BY <2>1, <2>2 DEF Committed, Excused, Due, TypeOK
  <1>4. ASSUME NEW o \in Outcome, WorkerCommand(o) PROVE Committed'
    <2>1. job' = job /\ step' = step + 1 /\ step \in 1..4
      BY <1>4 DEF WorkerCommand, TypeOK
    <2>2. SUFFICES ASSUME NEW i \in 1..4, i < step', job # None
                   PROVE  LET g == Order(job)[i]
                          IN  g \in Excused' \/ prevApplied'[g] = job.profile[g]
      BY <2>1 DEF Committed
    <2>3. job \in Job
      BY <1>4, CommandEffect
    <2>4. CASE i = step
      BY <1>4, <2>4, CommandEffect DEF Due, Excused
    <2>5. CASE i < step
      <3>1. Order(job)[i] \in Group /\ Order(job)[i] # Due
        BY <2>1, <2>3, <2>5, OrderIsPermutation DEF Due
      <3>2. Order(job)[i] \in Excused \/ prevApplied[Order(job)[i]] = job.profile[Order(job)[i]]
        BY <2>2, <2>5 DEF Committed
      <3> QED BY <1>4, <3>1, <3>2, CommandEffect DEF Excused
    <2> QED BY <2>1, <2>2, <2>4, <2>5
  <1>5. CASE WorkerFinish
    BY <1>5 DEF WorkerFinish, Committed, Excused, deviceVars
  <1>6. CASE DaemonRestart
    BY <1>6 DEF DaemonRestart, Committed, Excused, workerVars
  <1> QED BY <1>1, <1>2, <1>3, <1>4, <1>5, <1>6 DEF Next, Worker

LEMMA InvStep == Inv /\ [Next]_vars => Inv'
  BY TypeStep, ControlStep, CommittedStep DEF Inv

\* Every variable keeps its type, the message count its bound.
THEOREM TypeCorrect == Spec => []TypeOK
  <1>1. Spec => []Inv
    BY InitInv, InvStep, PTL DEF Spec
  <1> QED BY <1>1, PTL DEF Inv

LEMMA InvLatest == Inv => LatestJobWins
  <1> SUFFICES ASSUME Inv, Settled PROVE LatestJobWins
    BY DEF LatestJobWins
  <1>1. job = pendingJob /\ job # None /\ step = 5
    BY DEF Inv, ControlInv, Settled
  <1>2. job \in Job
    BY <1>1 DEF Inv, TypeOK
  <1>3. ASSUME NEW g \in Group \ Excused PROVE prevApplied[g] = job.profile[g]
    <2>1. PICK i \in 1..4 : Order(job)[i] = g
      BY <1>2, OrderIsPermutation
    <2> QED BY <1>1, <2>1 DEF Inv, Committed
  <1> QED BY <1>1, <1>3 DEF LatestJobWins

\* Whatever commands do, a worker with nothing left to do has run the newest
\* job, and every group but those that failed in it is committed.
THEOREM LatestJobAlwaysWins == Spec => []LatestJobWins
  <1>1. Spec => []Inv
    BY InitInv, InvStep, PTL DEF Spec
  <1> QED BY <1>1, InvLatest, PTL

----------------------------------------------------------------------------
(* The device, and what the daemon knows of it. *)

\* A change that the daemon is not told of leaves what it knows of the groups
\* it is not mistaken about.
LEMMA UnnoticedOnly ==
    ASSUME Known, prevApplied' = prevApplied,
           mistaken' = mistaken \cup Unnoticed(device')
    PROVE  Known'
  BY DEF Known, Unnoticed

LEMMA KnownStep ==
    ASSUME Inv, Known, [Next]_vars
    PROVE  Known'
  <1>1. CASE UNCHANGED vars \/ Recv \/ Fallback
    <2>1. UNCHANGED <<workerVars, deviceVars, aligned>>
      BY <1>1, OthersLeaveWorker DEF vars
    <2> QED BY <2>1 DEF Known, deviceVars
  <1>2. CASE WorkerTake
    BY <1>2 DEF WorkerTake, Known
  <1>3. CASE WorkerSkip
    BY <1>3 DEF WorkerSkip, Known, deviceVars
  <1>4. ASSUME NEW o \in Outcome, WorkerCommand(o) PROVE Known'
    <2>1. CASE o = "ok"
      <3>1. TypeOK /\ ControlInv
        BY DEF Inv
      <3>2. Due \in Group
        BY <1>4, <3>1, CommandEffect
      <3>3. prevApplied'[Due] = job.profile[Due] /\ device'[Due] = job.profile[Due]
        BY <1>4, <2>1, <3>1, <3>2 DEF WorkerCommand, Remembered, TypeOK, Profile
      <3>4. mistaken' = mistaken \ {Due}
        BY <1>4, <2>1 DEF WorkerCommand
      <3>5. \A g \in Group \ {Due} : /\ prevApplied'[g] = prevApplied[g]
                                      /\ device'[g] = device[g]
        BY <1>4, <3>1, CommandEffect
      <3> QED BY <3>2, <3>3, <3>4, <3>5 DEF Known
    <2>2. CASE o # "ok"
      <3>1. prevApplied' = prevApplied /\ mistaken' = mistaken \cup Unnoticed(device')
        BY <1>4, <2>2 DEF WorkerCommand, Remembered
      <3> QED BY <3>1, UnnoticedOnly
    <2> QED BY <2>1, <2>2
  <1>5. CASE WorkerFinish
    BY <1>5 DEF WorkerFinish, Known, deviceVars
  <1>6. CASE DaemonRestart
    <2>1. prevApplied' = prevApplied /\ mistaken' = mistaken \cup Unnoticed(device')
      BY <1>6 DEF DaemonRestart
    <2> QED BY <2>1, UnnoticedOnly
  <1> QED BY <1>1, <1>2, <1>3, <1>4, <1>5, <1>6 DEF Next, Worker

LEMMA AlwaysKnown == Spec => [](Inv /\ Known)
  <1>1. Init => Known
    BY DEF Init, Known
  <1>2. Inv /\ Known /\ [Next]_vars => Known'
    BY KnownStep
  <1> QED BY <1>1, <1>2, InitInv, InvStep, PTL DEF Spec

LEMMA InvSettledDevice == Inv /\ Known => SettledDevice
  <1> SUFFICES ASSUME Inv, Known, Settled, NEW g \in Group \ (Excused \cup mistaken)
               PROVE  device[g] = pendingJob.profile[g]
    BY DEF SettledDevice
  <1>1. job = pendingJob /\ prevApplied[g] = job.profile[g]
    BY InvLatest DEF LatestJobWins
  <1>2. job.profile[g] \in Nat
    BY <1>1, ProfileAssumption DEF Inv, TypeOK, ControlInv, Settled, Job, Profile
  <1> QED BY <1>1, <1>2 DEF Known

\* The device itself runs the newest profile, but for the commands that failed
\* in its own job and for the groups that changed without the daemon's
\* knowledge: the delta check of profile.c hides nothing else, whatever commands
\* do in whatever job.
THEOREM DeviceRunsNewest == Spec => []SettledDevice
  BY AlwaysKnown, InvSettledDevice, PTL

\* The steps a running job has behind it have reached the device, but for those
\* that failed and for groups the daemon is mistaken about.
LEMMA DoneStepsReachDevice ==
    ASSUME Inv, Known, wpc = "exec", NEW i \in 1..4, i < step
    PROVE  LET g == Order(job)[i]
           IN  g \in Excused \cup mistaken \/ device[g] = job.profile[g]
  <1>1. job \in Job /\ job # None
    BY NoneAssumption DEF Inv, ControlInv
  <1>2. PICK g \in Group : g = Order(job)[i]
    BY <1>1, OrderIsPermutation
  <1>3. g \in Excused \/ prevApplied[g] = job.profile[g]
    BY <1>1, <1>2 DEF Inv, Committed
  <1>4. job.profile[g] \in Nat
    BY <1>1, <1>2, ProfileAssumption DEF Job, Profile
  <1> QED BY <1>2, <1>3, <1>4 DEF Known

\* What a command at step Due finds and leaves, when no guarding command behind
\* it was missed or undone.
LEMMA GuardsReached ==
    ASSUME Inv, Known, Suited, NEW o \in Outcome, WorkerCommand(o),
           aligned, Sound'
    PROVE  /\ OrderSuits(device, job.profile, Order(job))
           /\ \A i \in 1..4 :
                  i < step /\ Order(job)[i] \in Guarding(Order(job)) =>
                      LET g == Order(job)[i]
                      IN  (g = "power" /\ ~AllowSetPower) \/ device[g] = job.profile[g]
           /\ device'[Due] = job.profile[Due] \/ device' = device
           /\ Due \in Guarding(Order(job)) => device'[Due] = job.profile[Due]
  <1>1. /\ TypeOK /\ ControlInv /\ wpc = "exec" /\ step \in 1..4
        /\ job' = job /\ step' = step + 1
    BY DEF Inv, WorkerCommand, TypeOK
  <1>2. job \in Job /\ Due \in Group
    BY <1>1, CommandEffect
  <1>3. ASSUME NEW i \in 1..4, i < step, Order(job)[i] \in Guarding(Order(job))
        PROVE  Order(job)[i] \notin missed \cup mistaken
    <2>1. Order(job)[i] \in Group /\ Order(job)[i] # Due
      BY <1>1, <1>2, <1>3, OrderIsPermutation DEF Due
    <2>2. Order(job)[i] \notin missed' \cup mistaken'
      BY <1>1, <1>3 DEF Sound
    <2> QED BY <1>1, <2>1, <2>2, CommandEffect
  <1>4. OrderSuits(device, job.profile, Order(job))
    BY <1>1, <1>3 DEF Suited, Sound
  <1>5. ASSUME NEW i \in 1..4, i < step, Order(job)[i] \in Guarding(Order(job))
        PROVE  LET g == Order(job)[i]
               IN  (g = "power" /\ ~AllowSetPower) \/ device[g] = job.profile[g]
    BY <1>1, <1>3, <1>5, DoneStepsReachDevice DEF Excused
  <1>6. device'[Due] = job.profile[Due] \/ device' = device
    BY <1>1, <1>2 DEF WorkerCommand, TypeOK, Profile
  <1>7. ASSUME Due \in Guarding(Order(job)) PROVE device'[Due] = job.profile[Due]
    <2>1. Due \notin missed'
      BY <1>1, <1>7 DEF Sound, Due
    <2> QED BY <1>1, <2>1, CommandEffect
  <1> QED BY <1>4, <1>5, <1>6, <1>7

LEMMA CommandKeepsSuited ==
    ASSUME Inv, Known, Suited, NEW o \in Outcome, WorkerCommand(o),
           aligned, Sound'
    PROVE  OrderSuits(device', job.profile, Order(job))
  <1> DEFINE p == job.profile
             d == device
             e == device'
             carries(x, y) == x["api"] <= Capacity[y["radio"]]
             drives(x, y) == AllowSetPower => x["power"] <= PowerLimit[y["radio"]]
  <1>1. TypeOK /\ ControlInv /\ wpc = "exec" /\ step \in 1..4
    BY DEF Inv, WorkerCommand, TypeOK
  <1>2. /\ job \in Job /\ p \in Profile /\ d \in Profile /\ Due \in Group
        /\ \A g \in Group \ {Due} : e[g] = d[g]
    BY <1>1, CommandEffect DEF TypeOK
  <1>3. /\ OrderSuits(d, p, Order(job)) /\ (e[Due] = p[Due] \/ e = d)
        /\ Due \in Guarding(Order(job)) => e[Due] = p[Due]
    BY GuardsReached
  <1> SUFFICES ASSUME e[Due] = p[Due] PROVE OrderSuits(e, p, Order(job))
    BY <1>3
  <1>4. carries(d, d) /\ drives(d, d) /\ carries(p, p) /\ drives(p, p)
    <2>1. \A x \in Profile : /\ x["api"] \in Nat /\ x["power"] \in Nat
                             /\ Capacity[x["radio"]] \in Nat
                             /\ PowerLimit[x["radio"]] \in Nat
      BY ProfileAssumption DEF Profile
    <2> QED BY <1>2, <1>3, <2>1 DEF OrderSuits, Overdriven
  <1>5. \A x \in Profile : /\ x["api"] \in Nat /\ x["power"] \in Nat
                           /\ Capacity[x["radio"]] \in Nat
                           /\ PowerLimit[x["radio"]] \in Nat
    BY ProfileAssumption DEF Profile
  <1>6. \A i \in 1..4 :
            i < step /\ Order(job)[i] \in Guarding(Order(job)) =>
                LET g == Order(job)[i]
                IN  (g = "power" /\ ~AllowSetPower) \/ d[g] = p[g]
    BY GuardsReached
  <1> DEFINE goal(ord) ==
        /\ carries(e, e) /\ drives(e, e)
        /\ IF ord = UpgradeOrder
           THEN Capacity[e["radio"]] <= Capacity[p["radio"]] /\ drives(p, e)
           ELSE carries(p, e) /\ drives(e, p)
  <1>7. ASSUME Order(job) = UpgradeOrder PROVE goal(Order(job))
    <2>1. Capacity[d["radio"]] <= Capacity[p["radio"]] /\ drives(p, d)
      BY <1>3, <1>7 DEF OrderSuits
    <2>2. Due = UpgradeOrder[step]
      BY <1>7 DEF Due
    <2>3. CASE step = 1
      <3>1. Due = "power"
        BY <2>2, <2>3 DEF UpgradeOrder
      <3> QED BY <1>2, <1>4, <1>7, <2>1, <3>1
    <2>4. CASE step = 2
      <3>1. Due = "radio" /\ (AllowSetPower => d["power"] = p["power"])
        BY <1>6, <1>7, <2>2, <2>4 DEF UpgradeOrder, Guarding
      <3> QED BY <1>2, <1>4, <1>5, <1>7, <2>1, <3>1
    <2>5. CASE step = 3
      <3>1. Due = "fec"
        BY <2>2, <2>5 DEF UpgradeOrder
      <3> QED BY <1>2, <1>4, <1>7, <2>1, <3>1
    <2>6. CASE step = 4
      <3>1. Due = "api" /\ d["radio"] = p["radio"]
        BY <1>6, <1>7, <2>2, <2>6 DEF UpgradeOrder, Guarding
      <3> QED BY <1>2, <1>4, <1>7, <2>1, <3>1
    <2> QED BY <1>1, <2>3, <2>4, <2>5, <2>6
  <1>8. ASSUME Order(job) = DowngradeOrder PROVE goal(Order(job))
    <2>0. DowngradeOrder # UpgradeOrder
      BY DEF UpgradeOrder, DowngradeOrder
    <2>1. carries(p, d) /\ drives(d, p)
      BY <1>3, <1>8, <2>0 DEF OrderSuits
    <2>2. Due = DowngradeOrder[step]
      BY <1>8 DEF Due
    <2>3. CASE step = 1
      <3>1. Due = "fec"
        BY <2>2, <2>3 DEF DowngradeOrder
      <3> QED BY <1>2, <1>4, <1>8, <2>0, <2>1, <3>1
    <2>4. CASE step = 2
      <3>1. Due = "api"
        BY <2>2, <2>4 DEF DowngradeOrder
      <3> QED BY <1>2, <1>4, <1>8, <2>0, <2>1, <3>1
    <2>5. CASE step = 3
      <3>1. Due = "radio" /\ d["api"] = p["api"]
        BY <1>6, <1>8, <2>0, <2>2, <2>5 DEF DowngradeOrder, Guarding
      <3> QED BY <1>2, <1>4, <1>8, <2>0, <2>1, <3>1
    <2>6. CASE step = 4
      <3>1. Due = "power" /\ d["radio"] = p["radio"] /\ d["api"] = p["api"]
        BY <1>6, <1>8, <2>0, <2>2, <2>6 DEF DowngradeOrder, Guarding
      <3> QED BY <1>2, <1>4, <1>8, <2>0, <2>1, <3>1
    <2> QED BY <1>1, <2>3, <2>4, <2>5, <2>6
  <1>9. goal(Order(job))
    BY <1>7, <1>8 DEF Order
  <1>10. e \in Profile
    BY <1>1, <1>2 DEF WorkerCommand, TypeOK, Profile
  <1> QED BY <1>3, <1>5, <1>9, <1>10, <1>2 DEF OrderSuits, Overdriven

LEMMA SuitedStep ==
    ASSUME Inv, Known, Suited, [Next]_vars
    PROVE  Suited'
  <1> SUFFICES ASSUME wpc' = "exec", aligned', Sound'
               PROVE  OrderSuits(device', job'.profile, Order(job'))
    BY DEF Suited, OrderSuits, Overdriven, Order
  <1>1. CASE UNCHANGED vars \/ Recv \/ Fallback
    <2>1. UNCHANGED <<workerVars, deviceVars, aligned>>
      BY <1>1, OthersLeaveWorker DEF vars
    <2> QED BY <2>1 DEF Suited, Sound, workerVars, deviceVars
  <1>2. CASE WorkerTake
    BY <1>2 DEF WorkerTake
  <1>3. CASE WorkerSkip
    <2>1. Sound
      BY <1>3 DEF WorkerSkip, Sound, deviceVars, Inv, TypeOK
    <2> QED BY <1>3, <2>1 DEF WorkerSkip, Suited, deviceVars
  <1>4. ASSUME NEW o \in Outcome, WorkerCommand(o)
        PROVE  OrderSuits(device', job'.profile, Order(job'))
    <2>1. aligned /\ job' = job
      BY <1>4 DEF WorkerCommand
    <2> QED BY <1>4, <2>1, CommandKeepsSuited
  <1>5. CASE WorkerFinish
    BY <1>5 DEF WorkerFinish
  <1>6. CASE DaemonRestart
    BY <1>6 DEF DaemonRestart, workerVars
  <1> QED BY <1>1, <1>2, <1>3, <1>4, <1>5, <1>6 DEF Next, Worker

\* Upgrading and downgrading orders do their work: from a device the order
\* suits, no step of a job lets the encoder outrun the radio or the amplifier
\* exceed its limit, as long as no command that guards a later one fails, goes
\* unanswered or is skipped for a group the daemon is mistaken about.
THEOREM OrderAlwaysProtects == Spec => []OrderProtectsLink
  <1>1. Init => Suited
    BY DEF Init, Suited
  <1>2. Inv /\ Known /\ Suited /\ [Next]_vars => Suited'
    BY SuitedStep
  <1>3. Suited => OrderProtectsLink
    BY DEF Suited, Sound, OrderProtectsLink, OrderSuits
  <1> QED BY <1>1, <1>2, <1>3, AlwaysKnown, PTL DEF Spec

----------------------------------------------------------------------------
(* Refinement of the abstract job slot. *)

\* What profile_apply leaves in the slot.
LEMMA HandsInJob ==
    ASSUME NEW p \in Profile, ProfileApply(p)
    PROVE  pendingJob' \in Job /\ jobPending' = TRUE
  BY DEF ProfileApply, Job

LEMMA StepImplementsJobs == Inv /\ [Next]_vars => [Abstract!JobNext]_(Abstract!jobVars)
  <1> SUFFICES ASSUME Inv, [Next]_vars PROVE [Abstract!JobNext]_(Abstract!jobVars)
    OBVIOUS
  <1> USE DEF Abstract!jobVars, Abstract!JobNext
  <1>1. CASE RecvDispatch \/ FallbackDispatch
    <2>1. pendingJob' \in Job /\ jobPending' = TRUE
      <3>1. CASE RecvDispatch
        <4>1. frame.body.profile \in Profile
          BY <3>1, ProfileAssumption DEF RecvDispatch, Inv, ControlInv
        <4> QED BY <3>1, <4>1, HandsInJob DEF RecvDispatch
      <3>2. CASE FallbackDispatch
        BY <3>2, ProfileAssumption, HandsInJob DEF FallbackDispatch
      <3> QED BY <1>1, <3>1, <3>2
    <2>2. UNCHANGED <<job, wpc>>
      BY <1>1 DEF RecvDispatch, FallbackDispatch, workerVars
    <2> QED BY <2>1, <2>2 DEF Abstract!HandIn
  <1>2. CASE WorkerTake
    <2>1. Abstract!Start
      BY <1>2 DEF WorkerTake, Abstract!Start
    <2> QED BY <2>1
  <1>3. CASE WorkerFinish
    <2>1. Abstract!Done
      BY <1>3 DEF WorkerFinish, slot, Abstract!Done
    <2> QED BY <2>1
  <1>4. CASE \/ UNCHANGED vars \/ WorkerSkip \/ DaemonRestart
             \/ \E o \in Outcome : WorkerCommand(o)
    BY <1>4 DEF vars, slot, workerVars, WorkerSkip, WorkerCommand, DaemonRestart
  <1>5. CASE \/ \E f \in Frame : RecvFrame(f)
             \/ RecvCount \/ RecvDone \/ RecvCheck \/ RecvTrackPrevious
             \/ RecvTrackCurrent \/ FallbackSample \/ FallbackTest \/ FallbackMark
    BY <1>5 DEF slot, workerVars, RecvFrame, RecvCount, RecvDone, RecvCheck,
       RecvTrackPrevious, RecvTrackCurrent, FallbackSample, FallbackTest, FallbackMark
  <1> QED BY <1>1, <1>2, <1>3, <1>4, <1>5 DEF Next, Recv, Fallback, Worker

\* The three threads around the slot behave, to their callers, as the
\* abstract LatestJob: jobs run whole, one at a time, the newest first.
THEOREM PipelineImplementsLatestJob == Spec => Abstract!SafeJobs
  <1>1. Init => Abstract!JobInit
    BY DEF Init, Abstract!JobInit
  <1>2. Inv /\ [Next]_vars => [Abstract!JobNext]_(Abstract!jobVars)
    BY StepImplementsJobs
  <1> QED BY <1>1, <1>2, InitInv, InvStep, PTL DEF Spec, Abstract!SafeJobs
=============================================================================
