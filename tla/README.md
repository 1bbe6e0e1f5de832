# Adaptive-Link in TLA+

Adaptive-Link tunes the radio link of an OpenIPC FPV drone. A ground station
(`ground-station/alink_gs`, Python) reads the link statistics of wfb-ng, picks a
profile and sends it over UDP. The drone daemon (`drone/src`, C, threads) applies
it to the radio, the FEC of wfb_tx, the encoder and the power amplifier. This
directory holds TLA+ models of both, TLC configurations that check them on small
instances, and proofs of the safety properties for every instance.

Run `tlc -config <Run>.cfg <Module>.tla` (the table of runs names both) and
`tlapm <Module>_proofs.tla`.

## 1. The system

### Components

| Component | Source | State | Operations | Module |
|---|---|---|---|---|
| Profile pipeline | `main.c`, `message.c`, `profile.c`, `fallback.c` | tracked indices `currentProfile`, `previousProfile`; job slot `pendingJob`, `jobPending`; `prevApplied`; message count | receive, count, dispatch a datagram; check and track a profile; take, skip, command and finish a job; sample, mark and dispatch the fallback | `ProfilePipeline`, `LatestJob` |
| TX monitor | `tx_monitor.c`, `hardware.c` | last reading of the driver's drop counter, time of the last drops, `bitrateReduced` | read the counter, reduce or restore the bitrate, ask for a keyframe | `BitrateGuard`, `KeyframeLimiter` |
| Keyframe rate limit | `keyframe.c` | `last_request_time`, `total_requests` | read the clock, claim a slot, issue the request | `KeyframeLimiter` |
| Command execution | `command.c`, `http_client.c` | `exec_mutex`; a child process or a socket | run a shell command under a timeout, GET from the camera | `CommandSlot` |
| wfb_tx control socket | `command.c` | `wfb_mutex`, request ids, two socket buffers | drain, send, receive, time out | `WfbControl` |
| Handshake | `alink_gs`, `message.c` | hello in flight, retry count, next due time, drone session, RTT | tick, match a reply, force a resync; the drone's reply | `Handshake` |
| Profile selection | `alink_gs` `ProfileSelector.select` | current MCS and parameters, two timestamps, confidence | one decision on each stats line | `ProfileSelector` |
| FEC and bitrate sizing | `alink_gs` `_compute_profile` | none | block size and bitrate of a line | `FecSizing` |
| Learning and telemetry | `alink_gs` `AdaptiveParams`, `TelemetryLogger` | two windows, learned values, their file | line, drone session change, kill and restart | `Outcomes` |
| Keyframe bursts, stats loop | `alink_gs` `listen_for_data`, `connect_to_wfb_stats` | messages left of a burst, time of the last one; the connection; current profile; frame rate of the drone | handle a line, crash on a line, pump, disconnect, reconnect | `KeyframeBurst`, `StatsLoop` |
| Configuration | `config.c`, `config/*.conf` | read once before the threads start | | the CONSTANTS |
| OSD | `osd.c` | display text | formats counters | none (its `stats` call is in `WfbControl`) |
| RSSI monitor | `rssi_monitor.c` | ring of samples | its queue is never filled | none |
| Hardware access | `hardware.c` | cached camera and antenna values, last drop count | reads sysfs and tools' output | drop counter in `BitrateGuard`, frame rate in `StatsLoop`; the rest none |
| Utilities | `util.c` | none | clock difference, string helpers | `Elapsed` in `KeyframeLimiter` |
| Offline analysis | `ground-station/ml` | none | batch statistics over logs | none |

### How they interact

    wfb-ng --stats--> StatsLoop, at each line:
                        Handshake ----------H:/I:--> receive loop --job slot--> worker --> radio, wfb_tx,
                        KeyframeBurst ------K:-->        |                        |        encoder, power
                        ProfileSelector ----P:-->        |                   fallback thread
                        (FecSizing, Outcomes)      keyframe limit            TX monitor, OSD

The drone's threads share `ps` (tracking, slot, applied values; some accesses
under `worker_mutex`, some under none), the message count (`count_mutex`), the
keyframe slot (`ks->mutex`), and two mutexes around the outside world:
`exec_mutex` for processes and HTTP, `wfb_mutex` for wfb_tx. The ground station
is one thread, woken by stats lines and by the timeout of `select()`; an exception
in a line costs it the connection and a pause of 3 s, but not its globals. The link
between them loses, delays, duplicates and reorders datagrams. wfb_tx, the camera
and the driver are processes and devices of their own, which restart unannounced.

### What is hard about it, and what makes each part correct

* Pipeline: tracking is written with no lock by one thread and under a lock by
  another; a job may be overwritten before it is taken; any command may fail. It
  is correct if the newest job wins, the device ends at its values, the order of
  commands never asks the encoder for more than the radio carries, and a silent
  GS leads to the fallback profile. A restart of wfb_tx undoes settings that the
  delta check believes in; what that spoils must stay within those settings.
* TX monitor: its call to the encoder uses a snapshot taken before. It is correct
  if the encoder is where the daemon believes it, cuts do not compound, and a
  reduction ends. The counter it reads fails to be read, and starts anew.
* Keyframes: two paths share one limit, through two mutexes; a burst meets the
  limit of another machine. Correct if the limit holds jointly, no claim is lost,
  and a loss is answered.
* Stats loop: an outage of the stats is longer than the drone's patience; a P is lost
  and nothing on the ground station changes; a reported frame rate of 0 is divided by
  and ends every connection at its first profile. Correct if the drone falls back
  in an outage, is brought to the profile again by the repeats, and a crash loop ends.
* Commands: timeouts leave processes, requests and replies behind. Correct if what
  was acknowledged is in effect and every mutex is given back within a bound.
* Handshake: replies of old hellos and old sessions, timers on a wall clock that may be
  set. Correct if the session only advances, a lost datagram is recovered from quickly,
  the RTT means something, and a set clock puts no hello off for long.
* Selection: a rate limit, two hold times, hysteresis, confidence and emergencies
  interlock. Correct if climbing is slow, leaving a bad MCS is prompt, and a steady
  link settles.
* Sizing: three clamps undo each other's work if ordered wrongly.
* Outcomes: two windows over the same lines, cut short by the next change, by a
  drone restart, or by a kill. Correct if each change is learned from once, from
  its own lines, and a kill loses nothing.

## 2. The modules

Each module names the source it models in its header. Names follow the code. A
variable marked "History" is read by properties only. An operator under a comment
`Mutant:` is a plausible bug in place of the definition after it; no specification
uses it. It is there to show, by substituting it, that a property can fail.

**ProfilePipeline.** Three program counters, one a thread: `rpc` (receive loop and
`profile_apply_direct`), `fpc` (`fallback_thread_func`), `wpc` with `step` (the
worker and the four `apply_*_step`). A critical section is one action; the unlocked
check and stores of `profile_apply_direct` are `RecvCheck`, `RecvTrackPrevious` and
`RecvTrackCurrent`, in either order, because nothing in the code orders the two
stores for another thread. The profile's fields are grouped by the command that
carries them (`Group`). `WorkerCommand(outcome)` is one command: "ok", "failed"
(no effect), or "unacked" (effect, but counted as failed). `device` is external:
what radio, wfb_tx, encoder and amplifier run. `DaemonRestart` puts radio and FEC back
to boot values at any moment, within a job too. `mistaken` remembers the groups that such a
reset, or an unanswered command, took away from what they ran without the daemon knowing,
until a command for them is next acknowledged. `Guarding` names the commands of an order
that later ones rely on.

**LatestJob.** What the worker promises its callers, in three actions: hand in,
start, done. `ProfilePipeline!ImplementsLatestJob` maps the slot and the worker to it.

**BitrateGuard.** The monitor's sample, snapshot and decision (one critical
section), call, and flag, against the worker's API step, whose two stores to
`prevApplied` hold no lock. `adrift` records the exceptions the code admits: a call
prepared from a snapshot that a worker's call overtook, an unacknowledged worker
call, a failed restore. The property says that these are the only ones, and that
the next call to land in order ends each. The driver's counter is kept as its distance
`unseen` from the last reading (`hw_get_tx_dropped` takes differences only):
`DriverDrops` raises it, `DriverRestarts` makes it zero or negative, `ReadCounter` is a
reading, which may fail.

**KeyframeLimiter.** Clock reading, claim under `ks->mutex`, wait for `exec_mutex`,
call: for the K path and for the drop path. `OtherCommand` is the rest of the
daemon, holding `exec_mutex` as long as it likes. The monitor's GOP test only
withholds requests; `ReadClock` may happen or not.

**KeyframeBurst.** The steps of a burst (arm, pump) and of the drone's limit, reduced to
the time since its last request (KeyframeLimiter shows that this is what it amounts to).
It has no specification of its own: StatsLoop runs its steps. `unanswered` is history: it times
a loss from the line that arms a burst which reaches past the limit (`Reaches`) to the request.

**StatsLoop.** An iteration of `listen_for_data` is any number of lines and one `Wakeup`,
which is where the keyframe sender runs. It takes no time; time passes while `select()`
waits and in the pause of `connect_to_wfb_stats`. There is one action for each way through
a line: a stalled stream (`StallLine`), a decision that computes a profile (`VideoLine`),
one that the rate limit ends first (`LimitedLine`, only told apart when the frame rate is
0), and the division by that frame rate (`CrashLine`), which has armed the burst and sent
the hello by then but not the profile. The drone is its receive loop and fallback thread
without their threads' inner steps (`Follow`, `FallbackSample`), the cached frame rate
that `hw_refresh_camera_info` may turn to 0, and a restart.

**CommandSlot.** One call at a time under `exec_mutex`: a shell command or a GET,
each wait in `select()` bounded by `Timeout`. `Kill` reaches the shell only, so the
command may live on in `strays` and take effect later (`StrayEnds`).

**WfbControl.** One call at a time under `wfb_mutex`; both socket buffers as
bounded FIFO queues; the daemon external, in order, as slow as it likes.

**Handshake.** `StatsLine` is one whole iteration for a stats line: resync when
video returns, drain the replies, tick. Its three parts are operators on a record
`[t1, count, due]`. Time is explicit; `Tick` waits for datagrams and lines that are
due, which is how `MaxTrip` and `Period` bound the round trip and the line spacing. The
client reads `Clock`, which is `now` plus a `skew` that `SetClock` changes once, forward
or back; a datagram carries the skew of its t1, so that properties can tell link time from
wall time.

**ProfileSelector.** One action for each exit of `select`. A line's metrics are
abstracted to what `select` reads: SNR after the stress margin (`head`), predicted
drift, wanted headroom, emergency, parameters. Timestamps are ages, counted no
further than the gate compares them.

**FecSizing.** A pure module: the set `Sizings` of everything `_compute_profile` may
produce for a line. Floating-point `ceil` of a quotient that should be whole may be
one more; both are in the set. MCProfileSelector takes the gate's parameters from it.

**Outcomes.** `Line` is `calculate_link` for the learning and the log: tick, change,
log, in that order. A change is named by its line, so the properties can say, from
the list of lines alone, which loss belongs to which change.

How they compose. ProfileSelector is instantiated with the parameters that FecSizing
computes. StatsLoop puts the ground station's parts and the drone's behind one clock, each
reduced to its outcome: what ProfileSelector selects, whether Handshake's hello is sent and
answered, the bursts of KeyframeBurst (which abstracts KeyframeLimiter), the tracking and
the fallback of ProfilePipeline. `WorkerCommand` abstracts what
CommandSlot and WfbControl do: "ok" is what `AckedStays` and `AckedInEffect` promise,
"failed" and "unacked" are the other ways those calls end.

## 3. The runs

| Run | Module | Distinct states | Shows |
|---|---|---|---|
| PipelineSafety | MCProfilePipeline | 11,724,519 | newest job executed and on the device, command orders protect the link; commands fail or go unanswered, wfb_tx restarts |
| PipelineLive | MCProfilePipeline | 339,857 | a silent GS ends in fallback, but for groups the delta check skips by mistake; the threads implement LatestJob, fairness included |
| PipelineRace | MCProfilePipeline | (violated) | a profile that is not active is dropped, by a race |
| PipelineSameIndex | MCProfilePipeline | (violated) | the same, by an update within one MCS |
| BitrateGuard | MCBitrateGuard | 533,304 | encoder where believed, no compounding, reductions end once drops do |
| KeyframeLimiter | KeyframeLimiter | 59,408 | joint rate limit, no claim lost |
| CommandSlot | CommandSlot | 28,016 | calls bounded, acknowledged commands in effect |
| WfbControl | WfbControl | 149,090 | acknowledged settings in effect, stale replies harmless, mutex freed |
| Handshake | Handshake | 5,763,128 | sessions only advance, one loss recovered from, RTT within a stats line, a set clock puts hellos off by no more than its step |
| Selector | MCProfileSelector | 8,383 | slow climb, earned confidence, prompt retreat, settling; sound blocks and bitrates |
| Outcomes | MCOutcomes | 646,420 | learned once from own lines, one record a change, nothing lost in a kill |
| StatsLoop | StatsLoop | 768,268 | losses answered if their burst reaches past the limit, fallback in an outage, the drone follows its ground station, crash loops end |

Every property of a passing run is violated once a definition is replaced by the
mutant PROJECT.json names for it. Some of these say what a property is for:
`SilentNews` (skip a fallback already tracked, an obvious "optimisation") breaks
`SilentGsEndsInFallback`, because the repeated dispatch is the only retry there is;
`BlocksLossLast` (parity for loss added after the clamps) breaks `SizingIsSound`;
`ChangedDropping` (a change forgets the open window) breaks `LearnsFromOwnLines`;
`SendsChanged` (send a profile only when it changes) breaks `DroneFollows`.

### Bounds, and why they are enough

* Pipeline: one GS profile besides the fallback. In PipelineSafety every group but FEC is
  different (FEC equal, so that the delta check also skips), in PipelineLive the bitrate
  only. Two values of a group are what order, delta and failure tell apart. `MaxCount = 1`
  lets one datagram in per fallback window; only zero or not zero is ever tested, and the window may end
  between any two datagrams, so every sequence of datagrams remains possible.
  `ApplyWrap = 1` keeps the counter, which nothing reads, out of the state.
  PipelineSafety has any number of restarts of wfb_tx, at any step. PipelineLive has none
  (like an unanswered command they leave a group in `mistaken`, and those it has), drops
  keyframe and hello messages, which its property excludes, and power, which behaves as a
  fourth copy of the other groups. It needs no second group that changes: whether a group
  is retried or skipped depends on its own value only, and the other groups are commanded
  (and fail, and are retried) after the start.
* BitrateGuard: bitrates 5 and 10 with the shipped factor 0.8 truncated (4 and 8), so
  a cut of one is not the other and a cut of a cut is neither. `MaxUnseen = 1`: the
  counter is only compared with its last reading, so below, at and above it are all there is.
* KeyframeLimiter: interval 2, nine clock units: four intervals, each path claiming
  from readings made before and after the other's.
* StatsLoop: 4 messages 1 apart against a limit of 10, which are the shipped 20 ms and
  200 ms, and one K lost between two requests. The limit outlasts the burst: a loss in the
  first 140 ms after a request may have its whole burst inside the limit, and stays
  unanswered. `LossAnswered` is about the others (`Reaches`). `Pause = 7` exceeds two windows of
  `Fallback = 3`, as 3 s exceed twice the shipped `fallback_ms` of 1 s. Two profiles: the
  drone has another one, this one, or none.
* CommandSlot: `Timeout = 4`, four reads; `held` is bounded by the property itself.
* WfbControl: buffers of 2, caps of 0 and 1 (32 and 8 in the code): a cap matters only
  against a backlog above it, and the smallest caps meet that soonest. Five ids: two
  for each buffer and one for the call.
* Handshake: `FastRetry > MaxTrip`, as shipped for a working link; two losses, one
  restart, three datagrams in flight. `LongResync = 5` exceeds the recovery bound's
  slack, so a hello left to the next resync is noticed. 12 clock units contain two
  bursts. `Step = 2` is a clock set back past the hello in flight and past a round trip.
  Two restarts (23 million states) show nothing more. Time and losses end, so deadlock is
  not checked here.
* Selector: four MCS, SNR at, above, just below and far below a threshold, both signs
  of drift, emergencies that do and do not want to go lower, two sets of parameters.
  Hold times 2, 3 and 4 are distinct. `MaxStep = 1` as shipped. Sizing: frames and
  latency budgets from below two packets to well above `max_fec_n`.
  `MaxRedundancy = 50` as shipped: below one third `SizingIsSound` fails (section 5).
* Outcomes: windows of 2 and 3, four lines: a window can end by itself, by a change,
  by a rotation, and a second one after each of these; a parameter of each group, one
  raised and one lowered by loss.

### Fairness

* ProfilePipeline: the three threads run (weak), and a command that is tried again and
  again succeeds some time (strong, for each group). A radio that never accepts a
  command cannot be brought to fallback by any program. Datagrams may stop: `RecvFrame`
  is not fair.
* BitrateGuard: both threads run and calls return, which CommandSlot shows. The GS owes
  no jobs.
* WfbControl: the call's own steps, a receive timeout among them. Nothing of the daemon.
* StatsLoop: time passes and the fallback thread looks (weak); wfb-ng can be connected to
  again and again, and among the lines of its stats, again and again one has its hello
  answered and its P delivered (strong). Without the last, a link that loses everything
  would owe nothing to anyone. The other runs state no fairness: CommandSlot bounds a
  call's length outright.
* ProfileSelector: stats lines keep coming, on a link that stays as it is too.

## 4. What is proved

Thirty-four theorems in eight modules, for every value of the constants within the named
assumptions of each module: any number of profiles, indices, bitrates, MCS, sessions,
messages and lines, any intervals and buffers. They state every safety property the
passing runs check. Four need a further condition on the constants, an ASSUME of the
theorem; with constants that fail it TLC finds each of these properties violated
(`CapsLeaveParity` alone is a little more than needed, where `max_fec_n` is below 6):

| Condition | Theorem | Says | Shipped values |
|---|---|---|---|
| `CapsLeaveParity` | `SizingAlwaysSound` | the two limits leave the smallest block a packet of parity | met (50 %, 15 packets, at least 10 %) |
| `TripWithinRetry` | `OneLossAlwaysRecovered` | a round trip is shorter than a retry interval | a property of the link |
| `StartWithinBounds` | `TypeCorrect`, `RestartAlwaysKeepsLearned` of Outcomes | each learned parameter is configured within its bounds | met |

**ProfilePipeline_proofs.** `TypeCorrect`, `LatestJobAlwaysWins`, `DeviceRunsNewest`,
`OrderAlwaysProtects`, `PipelineImplementsLatestJob`, for any outcomes of commands and any
number of restarts of wfb_tx. `LatestJobWins` speaks of a
settled worker, so it is not inductive: it needs to be known, in the middle of a job, what
the steps taken so far have done. The invariant is `TypeOK /\ ControlInv /\ Committed`:
where each thread stands and what its locals then hold, and that every group whose turn is
over is committed at the job's value or excused. For the device, `Known` adds that what is
remembered of a group is what the device runs, unless the group is in `mistaken`: what
changes the device without the daemon's knowledge enters just the groups it changes
(`UnnoticedOnly`), and a failed command without effect enters none. For the orders, `Suited`
adds that a move that suited its order when the job was taken keeps suiting it as the steps
carry it out, one case for each of the two orders and each group, as long as no command of
`Guarding` failed or was skipped for a group in `mistaken`. The refinement is proved step by
step: every action is a step of LatestJob or leaves its variables alone.

**TxMonitor_proofs** (BitrateGuard and KeyframeLimiter). `TypeCorrect`,
`EncoderAlwaysWhereBelieved`, `ReductionsNeverCompound`, with any factor (`Cut` is any
function). `ThreadInv` says what the snapshot still means while the monitor prepares its
call, `EncoderInv` where the encoder is at every point, also between call and flag and
between the worker's two stores. Neither needs to know when the driver drops, so any
readings of the counter and any restarts of it are covered. `RangeInv` alone carries the
last theorem. For the limiter `LimiterTypeCorrect`, `ClaimsAlwaysAccounted`,
`RequestRateHolds`: the rate needs `ClockInv` (readings lie in the past) and `SlotInv`,
each claim after the first moved the slot's time by an interval at least, since a reading
before the slot's time counts as no time at all.

**CommandSlot_proofs.** `TypeCorrect`, `CallsAlwaysBounded`, `AckedAlwaysStays`. `TimeInv`
says what the time spent so far is made of: the present `select()`, and a full timeout for
the connection and each read before it. `EffectInv` adds that a command that has ended
well and was not overtaken by a stray is in effect before it is reaped too.

**WfbControl_proofs.** `TypeCorrect`, `AckedAlwaysInEffect`, `SkippedAlwaysOutstanding`.
The heart is `OwnInv`: while a call waits, an entry of either buffer under its identifier
is its own, its request is the last there is, and once its reply is in a buffer the
daemon has nothing left to do. So nothing can follow an acknowledged setting. `EffectInv`
keeps that for as long as no later call is left unsettled. `BacklogInv` counts down what
earlier calls left: drained as far as the cap, then skipped.

**StatsLoop_proofs.** `TypeCorrect`, `OutageAlwaysFallsBack`, `LossAlwaysAnswered`. For the
first, `SilenceInv` relates the time of the outage to the fallback window running: it is no
longer than that, or than one window more if nothing was heard in this one. For the second,
`ReserveInv` says that while a loss is waiting for its answer, what is left of the burst holds more Ks than
the link may still lose and reaches, by the time of its last one, past the rate limit. That is
so when the wait begins, a refused K takes as much off the rest of the limit as off the burst,
a lost one is one of those taken off already, and a further loss only fills the burst up. The
longest the answer may still take then only shrinks (`Longest`). Nothing is assumed of burst
and limit; where bursts are short, as shipped, fewer losses begin a wait.

**Handshake_proofs.** `TypeCorrect`, `RttAlwaysWithinPeriod`, `HelloIsNeverFar`,
`SessionsAlwaysGoForward`, `OneLossAlwaysRecovered`. `LinkInv` bounds when what is on the
link and in the buffer was sent and arrived, `TimerInv` keeps both timers within their
interval and the jump of the clock. `SessionInv` needs an existential: there is a setting
of the clock, the one at the start or the present one, at which the hello in flight is the
newest on the link and its replies come from no older session. `RecoveryInv` says where
in a retry's cycle a burst stands after one loss.

**ProfileSelector_proofs.** `TypeCorrect`, `ConfidenceAlwaysEarned`, `BreachedAlwaysLeft`,
`ClimbIsAlwaysSlow`, for both values of `FastDowngrade` (the run has FALSE), any number
of MCS and any thresholds that increase. `BreachInv` ties the time of a breach to the two ages:
a breached line cannot reach the same-MCS path, so nothing restarts the rate limit.
`ClimbInv` ties the height climbed to the age of the last change, by a product of two
variables that is split into named facts. `SizingAlwaysSound` is about the operators of
FecSizing: each clamp is shown to keep what the one before it established, with the
quotients rounded either way.

**Outcomes_proofs.** `TypeCorrect`, `LearnsAlwaysFromOwnLines`, `OneRecordForEveryChange`,
`RestartAlwaysKeepsLearned`, for windows of any length, any lines, and any changes,
rotations, restarts and kills between them. The two properties define the end of a window
as a least element of a set of later events. `EndStays` and `RecordEndStays` say that
events after an end do not move it; `LineEnds` and `BegunEnds` that a line ends the
window open just if the object says so. The invariants `WindowInv` and `LogInv` give the
meaning of the two objects: the window is that of the last change, its counter is the
distance to its end, its losses are those of its lines, and all earlier ones have ended.
A line that carries a change may write two records (the one it cuts short and, in a window
of one line, its own): `ChangeRecords` deals with the first, `RecordStep` with the second.
For a restart, `FileInv` says that the file holds whatever differs from the configuration.

Only model-checked: liveness (`SilentGsEndsInFallback`, the liveness of
`ImplementsLatestJob`, `ReductionEnds`, `CallsReturn`, `Settles`, `DroneFollows`,
`CrashLoopEnds`), which is out of reach of the prover, as is `ENABLED`.
`PipelineImplementsLatestJob` is the safety part of `ImplementsLatestJob`. StatsLoop and
KeyframeBurst abstract the other modules by hand (section 2); no refinement connects them.

## 5. What was found

Two disagreements between code and comments have a run of their own.

* **PipelineRace.** `profile_apply_direct` (profile.c:309-315) checks and stores the
  tracking fields with no lock, though fallback.c:30-32 relies on one. The fallback
  thread can mark -1 after the check and dispatch last: the drone runs the fallback
  profile under the GS profile's index, and drops its repeats as duplicates.
* **PipelineSameIndex.** The duplicate check compares the index only, and the GS sends
  updates of FEC, bitrate, GI and power within one MCS under one index: they never
  reach the worker.

Seen while modelling, with no run of their own; the properties are stated around them:

* A command that takes effect unacknowledged leaves `prevApplied` stale (profile.c:133); a
  return to the remembered value is then skipped. The fallback is one such return: if the GS
  sets a bitrate, the camera's answer is late and the GS then falls silent, every fallback job
  skips the encoder (profile.c:185), which keeps the bitrate of the GS's profile for good.
  `mistaken` marks such groups in `SettledDevice` and `OrderProtectsLink`, and
  `SkippedForGood` in `SilentGsEndsInFallback`.
* A job's direction is relative to the previous one tracked, which may never have been
  applied (profile.c:243 against 220-222). `OrderProtectsLink` speaks of jobs whose order
  suits what the device runs (`aligned`).
* A failed radio command does not stop the bitrate from being raised after it
  (profile.c:245). Only the commands that guard a later one matter (`Guarding` in the same
  property): when FEC fails, the others still keep the link's limits.
* A restart of wfb_tx puts radio and FEC back to its defaults, and the delta check
  (profile.c:142, 174) keeps them there until a profile with another value is sent, in
  fallback too. `mistaken` marks these as well.
* Every datagram counts as a heartbeat, a hello too (main.c:274; main.c:311 says not).
* The worker finishes a job before it looks at the slot again (profile.c:346;
  docs/ARCHITECTURE.md:601 says that it switches at once).
* TX monitor: a restoring call may undo a newer profile, the flag is cleared even if
  the call failed, and a profile sent while the flag is set disables further cuts
  (tx_monitor.c:65, 67, 55).
* A restart of the interface hides the drops made since the last reading, and those
  after it up to the old count (hardware.c:236): the difference is negative. One reading
  later the counter is right again: `ReductionEnds` holds with any of these.
* Two keyframe requests can follow each other at once, if the first waited for
  `exec_mutex` (keyframe.c:26; alink.conf:35-36 promises a minimum spacing). On average the
  rate holds: that is `RequestRate`.
* The HTTP timeout is per read (http_client.c:157): hence `MaxChunks + 1` timeouts.
* SIGKILL reaches the shell only (command.c:148): hence `overtaken`.
* The drone answers a hello with a frame rate of 0 if the camera's command line gave
  nothing (hardware.c:139), and `_compute_profile` divides by it (alink_gs:750). The
  exception ends the stats connection, and the next one, every 3 s: nothing but hellos and a K
  now and then is sent, and the drone is in fallback. It ends only because the replies are
  read before the division and the hello is sent before it: `CrashLoopEnds`.
* The 3 s pause before a reconnect (alink_gs:1340) is longer than two windows of
  `fallback_ms`: every interruption of the stats, however short, costs a fallback. That is
  `OutageFallsBack`. A burst armed before it is sent after it: hence "of the next connect" in
  `LossAnswered`.
* The timers and the t1 of a hello are on the wall clock (alink_gs:1269). Set back, it may
  read the t1 of an earlier hello again, whose late reply is then taken for the newer one's:
  the client can go back to a session it has seen end. `SessionsGoForward` leaves out
  replies accepted across such a step, `HelloNeverFar` bounds what it does to the timers.
* The RTT includes the time in the socket buffer (alink_gs:1058): hence `+ Period`.
* An emergency at MCS 0 may raise the MCS, past headroom and rate limit (alink_gs:939, 574).
* Confidence counts lines that need not be consecutive (alink_gs:965):
  docs/CONFIGURATION.md:134 says "consecutive ticks", but a line that the rate limit
  (alink_gs:925) or the hysteresis of a downgrade (alink_gs:959) ends in between neither counts
  nor resets. `ConfidenceIsEarned` counts as the code does.
* The parity packet added for loss may be taken back by the redundancy clamp
  (alink_gs:831), and with `max_fec_redundancy` below one third the clamp may leave no
  parity at all (alink_gs:833).
* A keyframe burst is over within 80 ms as shipped (alink_gs.conf) and the drone's limit 200 ms
  (alink.conf): a loss in the first 140 ms after a request may have its whole burst refused,
  and 20 ms more for each K that the link loses. Hence `Reaches` in `LossAnswered`.
* A configured value outside the bounds of [ml] is used as it is (alink_gs `AdaptiveParam`),
  until an outcome or a load clamps it: hence `StartWithinBounds`.
* A kill within `save()` leaves a truncated file and loses everything learned
  (alink_gs:555): `RestartInSave`.
* The adaptive fields of an outcome record may be of another change (alink_gs:204).
* A K may wait one send interval longer, if a wakeup comes just too early
  (alink_gs:1297): hence two intervals per lost K in `AnswerBound`.

## 6. What is not modelled

* Configuration: parsed before any thread runs; its values are the constants.
* OSD: formats text; its `stats` call is one of WfbControl's.
* RSSI monitor: `rssi_enqueue` is never called, so the thread polls an empty queue, and no
  state of it can differ from the initial one.
* Hardware access, but for the drop counter and the frame rate: resolution, antenna,
  channel and ROI are read for display or once at start.
* Utilities, but for the clock difference: string helpers.
* The tools under `ml/`: batch statistics with no part in the running system.

Inside the modelled parts: wording and field splitting of messages, jitter, command
templates, the packing of wfb_tx requests, SNR smoothing (an input of the gate), guard
interval and power tables (parameters of a line), log rotation by size. In StatsLoop a
line is never split between two reads of the socket, a reply is there at the next line or
never (late ones are Handshake's), and which lines fall within `min_between_changes_ms` is left
open, as is the profile chosen (ProfileSelector's). CommandSlot leaves out `select()` itself
returning an error, which ends the wait before its timeout, as a failed call. ProfileSelector
has no two lines in the same millisecond, for which its ages would not move.

## 7. Plan

Done, in this order: the pipeline and its abstract specification, the TX monitor and the
keyframe limit, the two outside-world channels, the handshake, the gate and the sizing, the
outcomes and the bursts; the proofs of section 4; then restarts of wfb_tx and failed guarding
commands in the pipeline, the driver's counter in the TX monitor, the wall clock in the
handshake, and the stats loop composed with the drone. Every hazard listed in PROJECT.json
now has a property.

Then the proofs of every other safety property the runs check: WfbControl, CommandSlot, the
stats loop, the handshake, the sizing and the outcomes.

Left, in this order:

1. That StatsLoop's keyframe limit (KeyframeBurst) and its drone implement KeyframeLimiter and
   ProfilePipeline's tracking, by a mapping instead of by hand.
2. Safety statements behind the liveness properties, such as a measure of ProfileSelector that
   no step of a steady link raises (`Settles`).
3. The ring of the RSSI monitor, should anything come to fill it.
