-------------------------- MODULE ProfilePipeline --------------------------
(***************************************************************************)
(* The drone's profile pipeline: the UDP receive loop (main.c), message    *)
(* dispatch (message.c), the fallback thread (fallback.c) and the profile  *)
(* worker (profile.c), three threads around one pending-job slot.          *)
(*                                                                         *)
(* A critical section under worker_mutex or count_mutex is one action.     *)
(* profile_apply_direct touches currentProfile and previousProfile with no *)
(* lock, so each of its accesses is an action of its own.                  *)
(***************************************************************************)
EXTENDS Integers

CONSTANTS
    Value,            \* what a parameter group can be set to
    GsProfile,        \* the P: messages: records [idx, profile]
    OtherKind,        \* the other datagrams that may arrive
    FallbackProfile,  \* cfg->fallback_profile
    BootDevice,       \* settings the radio and the encoder may boot with
    MayRestart,       \* wfb_tx may crash and be started again
    AllowSetPower,    \* cfg->allow_set_power
    Outcome,          \* how a command to the device may end
    Capacity,         \* bitrate a radio setting carries
    PowerLimit,       \* highest power a radio setting is used with
    None,             \* no job, frame or profile yet
    MaxCount,         \* bound on the datagrams of one fallback window
    ApplyWrap         \* modulus of the apply counter (2^32 in the code)

\* Profile fields, grouped by the command that carries them: power; MCS with
\* GI and bandwidth; FEC k/n; bitrate with GOP.
Group == {"power", "radio", "fec", "api"}
Profile == [Group -> Value]
Unset == -1                           \* the sentinels of profile_init

Frame == [kind : {"profile"}, body : GsProfile] \cup [kind : OtherKind]

Index == {-2, -1} \cup {g.idx : g \in GsProfile}
\* A job copies both tracked indices, for the one comparison that picks its order.
Job == [profile : Profile, upgrade : BOOLEAN]

ASSUME ProfileAssumption ==
    /\ Value \subseteq Nat
    /\ GsProfile \subseteq [idx : Nat, profile : Profile]
    /\ FallbackProfile \in Profile
    /\ BootDevice \subseteq Profile
    /\ AllowSetPower \in BOOLEAN /\ MayRestart \in BOOLEAN
    /\ Capacity \in [Value -> Nat] /\ PowerLimit \in [Value -> Nat]
ASSUME EnvironmentAssumption ==
    /\ OtherKind \subseteq {"keyframe", "hello", "malformed"}
    /\ Outcome \subseteq {"ok", "failed", "unacked"}
ASSUME NoneAssumption == None \notin Frame \cup Job \cup Profile
ASSUME BoundAssumption == MaxCount \in Nat \ {0} /\ ApplyWrap \in Nat \ {0}

VARIABLES
    currentProfile, previousProfile,  \* ps: profile tracking
    prevApplied,                      \* ps: last value committed per group
    pendingJob, jobPending,           \* ps: the slot to the worker
    applyCount,                       \* ps: applies that changed something
    initialized, messageCount,        \* shared with the fallback thread
    rpc, frame, seen, toWrite,        \* receive thread
    fpc, localCount,                  \* fallback thread
    wpc, job, step, landed,           \* worker thread (job: the last one taken)
    device,                           \* external: what radio and encoder run
    \* History, read by properties only:
    missed,        \* groups whose command did not end "ok" in the newest run
    aligned,       \* the running job's order suits what the device ran
    mistaken       \* groups the device was made to run otherwise than
                   \* prevApplied says, until one is next acknowledged

tracking == <<currentProfile, previousProfile>>
slot == <<pendingJob, jobPending>>
recvVars == <<rpc, frame, seen, toWrite>>
fallbackVars == <<fpc, localCount>>
countVars == <<initialized, messageCount>>
workerVars == <<wpc, job, step, landed>>
deviceVars == <<prevApplied, device, missed, mistaken>>
vars == <<tracking, slot, recvVars, fallbackVars, countVars, workerVars,
          deviceVars, applyCount, aligned>>

\* What the steps of one thread leave alone.
outsideRecv == <<fallbackVars, workerVars, deviceVars, applyCount, aligned>>
outsideFallback == <<recvVars, workerVars, deviceVars, applyCount, aligned>>
outsideWorker == <<tracking, recvVars, fallbackVars, countVars>>

Init ==
    /\ currentProfile = -1 /\ previousProfile = -2
    /\ prevApplied = [g \in Group |-> Unset]
    /\ pendingJob = None /\ jobPending = FALSE
    /\ applyCount = 0
    /\ initialized = FALSE /\ messageCount = 0
    /\ rpc = "idle" /\ frame = None /\ seen = -1 /\ toWrite = {}
    /\ fpc = "sleep" /\ localCount = 0
    /\ wpc = "wait" /\ job = None /\ step = 5 /\ landed = FALSE
    /\ device \in BootDevice
    /\ missed = {} /\ aligned = TRUE /\ mistaken = {}

----------------------------------------------------------------------------
\* Mutant: a job handed in while the worker is busy does not wake it.
ProfileApplyUnsignalled(profile) ==
    /\ pendingJob' = [profile |-> profile, upgrade |-> currentProfile > previousProfile]
    /\ jobPending' = (wpc = "wait")

\* profile_apply: overwrite the slot, whatever it holds, and signal.
ProfileApply(profile) ==
    /\ pendingJob' = [profile |-> profile, upgrade |-> currentProfile > previousProfile]
    /\ jobPending' = TRUE

(* The receive thread. *)

\* A datagram is read; initialized is set with no lock and before the count.
RecvFrame(f) ==
    /\ rpc = "idle"
    /\ messageCount < MaxCount
    /\ frame' = f
    /\ initialized' = TRUE
    /\ rpc' = "count"
    /\ UNCHANGED <<tracking, slot, seen, toWrite, messageCount, outsideRecv>>

\* Every datagram is counted, then told apart. A hello is answered from cached
\* values; a keyframe request keeps the thread busy with its HTTP call.
RecvCount ==
    /\ rpc = "count"
    /\ messageCount' = messageCount + 1
    /\ rpc' = CASE frame.kind = "profile"  -> "check"
                [] frame.kind = "keyframe" -> "busy"
                [] OTHER                   -> "idle"
    /\ frame' = IF rpc' = "idle" THEN None ELSE frame
    /\ UNCHANGED <<tracking, slot, seen, toWrite, initialized, outsideRecv>>

RecvDone ==
    /\ rpc = "busy"
    /\ rpc' = "idle" /\ frame' = None
    /\ UNCHANGED <<tracking, slot, seen, toWrite, countVars, outsideRecv>>

\* The GS repeats its profile every tick: an unchanged index is dropped.
RecvCheck ==
    /\ rpc = "check"
    /\ IF frame.body.idx = currentProfile
       THEN rpc' = "idle" /\ frame' = None /\ UNCHANGED <<seen, toWrite>>
       ELSE /\ rpc' = "track" /\ frame' = frame
            /\ seen' = currentProfile
            /\ toWrite' = {"previous", "current"}
    /\ UNCHANGED <<tracking, slot, countVars, outsideRecv>>

Tracked(field) ==
    /\ toWrite' = toWrite \ {field}
    /\ IF toWrite' = {} THEN rpc' = "dispatch" /\ seen' = -1
                        ELSE UNCHANGED <<rpc, seen>>

\* Two unlocked stores, visible in either order. The value saved as previous
\* is the one the check loaded, or a fresh load made before the other store.
RecvTrackPrevious ==
    /\ rpc = "track" /\ "previous" \in toWrite
    /\ \/ previousProfile' = seen
       \/ "current" \in toWrite /\ previousProfile' = currentProfile
    /\ Tracked("previous")
    /\ UNCHANGED <<currentProfile, slot, frame, countVars, outsideRecv>>

RecvTrackCurrent ==
    /\ rpc = "track" /\ "current" \in toWrite
    /\ currentProfile' = frame.body.idx
    /\ Tracked("current")
    /\ UNCHANGED <<previousProfile, slot, frame, countVars, outsideRecv>>

RecvDispatch ==
    /\ rpc = "dispatch"
    /\ ProfileApply(frame.body.profile)
    /\ rpc' = "idle" /\ frame' = None
    /\ UNCHANGED <<tracking, seen, toWrite, countVars, outsideRecv>>

(* The fallback thread. *)

\* fallback_ms has elapsed: take the window's count and start the next one.
FallbackSample ==
    /\ fpc = "sleep"
    /\ localCount' = messageCount
    /\ messageCount' = 0
    /\ fpc' = "test"
    /\ UNCHANGED <<tracking, slot, initialized, outsideFallback>>

\* Nothing was heard in the window. Mutant: or fallback is tracked already.
SilentNews == initialized /\ localCount = 0 /\ currentProfile # -1
Silent == initialized /\ localCount = 0

FallbackTest ==
    /\ fpc = "test"
    /\ fpc' = IF Silent THEN "mark" ELSE "sleep"
    /\ localCount' = 0
    /\ UNCHANGED <<tracking, slot, countVars, outsideFallback>>

\* The index fallback is tracked as. Mutant: one below the current one.
FallbackIndexBelow == currentProfile - 1
FallbackIndex == -1

\* First critical section: the tracking fields.
FallbackMark ==
    /\ fpc = "mark"
    /\ previousProfile' = currentProfile
    /\ currentProfile' = FallbackIndex
    /\ fpc' = "dispatch"
    /\ UNCHANGED <<slot, countVars, localCount, outsideFallback>>

\* Second critical section: profile_apply, with whatever they hold by then.
FallbackDispatch ==
    /\ fpc = "dispatch"
    /\ ProfileApply(FallbackProfile)
    /\ fpc' = "sleep"
    /\ UNCHANGED <<tracking, countVars, localCount, outsideFallback>>

(* The worker thread. *)

\* Mutant: the encoder is raised before the radio.
UpgradeOrderApiEarly == <<"power", "api", "radio", "fec">>

UpgradeOrder   == <<"power", "radio", "fec", "api">>
DowngradeOrder == <<"fec", "api", "radio", "power">>
Order(j) == IF j.upgrade THEN UpgradeOrder ELSE DowngradeOrder
Due == Order(job)[step]               \* the group whose turn it is

\* The device is asked for more than it can carry: the encoder outruns the
\* radio, or the amplifier is driven above what the modulation allows.
Overdriven(d) ==
    \/ d["api"] > Capacity[d["radio"]]
    \/ AllowSetPower /\ d["power"] > PowerLimit[d["radio"]]

\* An order suits a move from d to p when every step of it keeps to the limits:
\* upgrading pre-lowers power and raises the radio first, downgrading the
\* other way round.
OrderSuits(d, p, order) ==
    /\ ~Overdriven(d) /\ ~Overdriven(p)
    /\ IF order = UpgradeOrder
       THEN /\ Capacity[d["radio"]] <= Capacity[p["radio"]]
            /\ AllowSetPower => p["power"] <= PowerLimit[d["radio"]]
       ELSE /\ p["api"] <= Capacity[d["radio"]]
            /\ AllowSetPower => d["power"] <= PowerLimit[p["radio"]]

WorkerTake ==
    /\ wpc = "wait" /\ jobPending
    /\ wpc' = "exec"
    /\ job' = pendingJob
    /\ jobPending' = FALSE
    /\ step' = 1
    /\ landed' = FALSE
    /\ missed' = {}
    /\ aligned' = OrderSuits(device, pendingJob.profile, Order(pendingJob))
    /\ UNCHANGED <<prevApplied, pendingJob, device, mistaken, applyCount, outsideWorker>>

\* The delta check.
Needless(g) ==
    \/ job.profile[g] = prevApplied[g]
    \/ g = "power" /\ ~AllowSetPower

\* An apply_*_step with nothing to send.
WorkerSkip ==
    /\ wpc = "exec" /\ step <= 4
    /\ Needless(Due)
    /\ step' = step + 1
    /\ UNCHANGED <<slot, wpc, job, landed, deviceVars, applyCount, aligned,
                   outsideWorker>>

\* prevApplied moves only on success. Mutant: whatever the outcome.
RememberedAnyway(g, outcome) == [prevApplied EXCEPT ![g] = job.profile[g]]
Remembered(g, outcome) ==
    IF outcome = "ok" THEN [prevApplied EXCEPT ![g] = job.profile[g]] ELSE prevApplied

\* The groups the daemon has a value for that a change of the device to d, of
\* which nothing tells it, takes away from what they ran.
Unnoticed(d) == {g \in Group : prevApplied[g] # Unset /\ d[g] # device[g]}

\* One command. "unacked": it took effect, but its answer was late or lost and
\* the daemon counts it as failed.
WorkerCommand(outcome) ==
    /\ wpc = "exec" /\ step <= 4
    /\ ~Needless(Due)
    /\ LET g == Due
       IN  /\ device' = IF outcome = "failed" THEN device
                        ELSE [device EXCEPT ![g] = job.profile[g]]
           /\ prevApplied' = Remembered(g, outcome)
           /\ missed' = IF outcome = "ok" THEN missed ELSE missed \cup {g}
           /\ mistaken' = IF outcome = "ok" THEN mistaken \ {g}
                                            ELSE mistaken \cup Unnoticed(device')
           /\ landed' = (landed \/ outcome = "ok")
    /\ step' = step + 1
    /\ UNCHANGED <<slot, wpc, job, applyCount, aligned, outsideWorker>>

\* The apply counter (the code compares prevApplied with its snapshot), then
\* the IDR request and the OSD strings, which the pipeline does not read.
WorkerFinish ==
    /\ wpc = "exec" /\ step = 5
    /\ wpc' = "wait"
    /\ applyCount' = IF landed THEN (applyCount + 1) % ApplyWrap ELSE applyCount
    /\ landed' = FALSE /\ aligned' = TRUE
    /\ UNCHANGED <<slot, job, step, deviceVars, outsideWorker>>

\* wfb_tx, a process of its own, restarts with the settings it boots with.
\* Nothing tells the daemon, so prevApplied stays as it is.
DaemonRestart ==
    /\ MayRestart
    /\ \E b \in BootDevice :
           device' = [device EXCEPT !["radio"] = b["radio"], !["fec"] = b["fec"]]
    /\ mistaken' = mistaken \cup Unnoticed(device')
    /\ aligned' = (wpc = "wait")
    /\ UNCHANGED <<slot, workerVars, prevApplied, missed, applyCount, outsideWorker>>

----------------------------------------------------------------------------
Recv == \/ \E f \in Frame : RecvFrame(f)
        \/ RecvCount \/ RecvDone \/ RecvCheck
        \/ RecvTrackPrevious \/ RecvTrackCurrent \/ RecvDispatch
RecvHandle == RecvCount \/ RecvDone \/ RecvCheck \/ RecvTrackPrevious
              \/ RecvTrackCurrent \/ RecvDispatch
Fallback == FallbackSample \/ FallbackTest \/ FallbackMark \/ FallbackDispatch
Worker == \/ WorkerTake \/ WorkerSkip \/ WorkerFinish
          \/ \E o \in Outcome : WorkerCommand(o)

Next == Recv \/ Fallback \/ Worker \/ DaemonRestart

Spec == Init /\ [][Next]_vars

\* The threads run; a command that keeps being tried succeeds some time.
Fairness ==
    /\ WF_vars(RecvHandle)
    /\ WF_vars(Fallback)
    /\ WF_vars(Worker)
    /\ \A g \in Group : SF_vars(wpc = "exec" /\ step <= 4 /\ Due = g /\ WorkerCommand("ok"))

FairSpec == Spec /\ Fairness

----------------------------------------------------------------------------
TypeOK ==
    /\ currentProfile \in Index /\ previousProfile \in Index
    /\ prevApplied \in [Group -> Value \cup {Unset}]
    /\ jobPending \in BOOLEAN
    /\ pendingJob \in Job \cup {None}
    /\ applyCount \in 0..(ApplyWrap - 1)
    /\ initialized \in BOOLEAN
    /\ messageCount \in 0..MaxCount /\ localCount \in 0..MaxCount
    /\ rpc \in {"idle", "count", "busy", "check", "track", "dispatch"}
    /\ frame \in Frame \cup {None}
    /\ seen \in Index /\ toWrite \subseteq {"previous", "current"}
    /\ fpc \in {"sleep", "test", "mark", "dispatch"}
    /\ wpc \in {"wait", "exec"}
    /\ job \in Job \cup {None}
    /\ step \in 1..5
    /\ landed \in BOOLEAN
    /\ device \in Profile
    /\ missed \subseteq Group /\ aligned \in BOOLEAN /\ mistaken \subseteq Group

----------------------------------------------------------------------------
Settled == wpc = "wait" /\ ~jobPending /\ pendingJob # None

\* Groups the daemon has no reason to expect at their profile value.
Excused == missed \cup (IF AllowSetPower THEN {} ELSE {"power"})

\* Latest job wins and delta detection drops nothing: once the worker has
\* nothing left to do, the job it ran last is the newest one dispatched, and
\* every group but those whose command just failed is committed at its value.
LatestJobWins ==
    Settled => /\ job = pendingJob
               /\ \A g \in Group \ Excused : prevApplied[g] = job.profile[g]

\* The same of the device itself: what radio, encoder and amplifier run is the
\* newest profile, but for commands that failed in its own job and for groups
\* the daemon is mistaken about, which a restart of wfb_tx reset or a command of
\* any job set without its answer coming back. Those stay wrong until one is
\* next sent and acknowledged, for the delta check hides them. It hides no
\* earlier failure that left the device alone (prevApplied changes "only on
\* successful commit").
SettledDevice ==
    Settled => \A g \in Group \ (Excused \cup mistaken) : device[g] = pendingJob.profile[g]

\* The commands a later step of the order relies on. A failed one is not
\* undone and the steps behind it still run.
Guarding(order) == IF order = UpgradeOrder THEN {"power", "radio"} ELSE {"api", "radio"}

\* The two orders do their work: in a job whose order suits what the device
\* runs, the encoder never outruns the radio and the amplifier never exceeds
\* the modulation's limit, at any point between its steps and whatever other
\* command fails or goes unanswered, unless one that guards a later step did or
\* was skipped for a group the daemon is mistaken about: neither stops the
\* bitrate from being raised.
OrderProtectsLink ==
    wpc = "exec" /\ aligned /\ (missed \cup mistaken) \cap Guarding(Order(job)) = {}
        => ~Overdriven(device)

\* What the fallback job never sends again: the daemon takes the group to be at
\* its fallback value, and is mistaken.
SkippedForGood(g) == g \in mistaken /\ prevApplied[g] = FallbackProfile[g]

\* A GS that falls silent leaves the drone on the fallback profile for good: the
\* fallback thread keeps dispatching it, which retries every command that failed
\* or went unanswered. It does not bring back a group that the daemon takes to
\* be at its fallback value: one that a restart of wfb_tx reset, or that an
\* unanswered command of the GS's profile took away from it.
SilentGsEndsInFallback ==
    <>[](rpc = "idle" /\ initialized)
        => <>[](\A g \in Group : \/ device[g] = FallbackProfile[g]
                                 \/ SkippedForGood(g)
                                 \/ g = "power" /\ ~AllowSetPower)

\* The threads around the slot implement the abstract LatestJob.
Abstract == INSTANCE LatestJob WITH
    Jobs <- Job, NoJob <- None,
    newest <- pendingJob, waiting <- jobPending,
    running <- job, busy <- wpc = "exec"
ImplementsLatestJob == Abstract!LiveJobs

----------------------------------------------------------------------------
(* What comments of the repository say, and the code does not do: the runs  *)
(* PipelineRace and PipelineSameIndex expect a violation.                   *)

\* A P: message is dropped only when its profile is the one already active:
\* the one dispatched last.
DroppedIsActive ==
    [][rpc = "check" /\ rpc' = "idle" => pendingJob.profile = frame.body.profile]_vars
=============================================================================
