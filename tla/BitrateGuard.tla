---------------------------- MODULE BitrateGuard ----------------------------
(***************************************************************************)
(* The bitrate half of the TX monitor (tx_monitor.c): on driver TX drops it *)
(* asks the encoder for a fraction of the profile's bitrate, and asks for   *)
(* the whole again after a quiet second. It shares prevApplied with the     *)
(* profile worker, whose API step (profile.c) is the other thread here.     *)
(*                                                                          *)
(* The monitor reads prevApplied under worker_mutex, calls the encoder with *)
(* no lock held, then sets or clears its flag; the worker stores the fields *)
(* of prevApplied with no lock at all.                                      *)
(***************************************************************************)
EXTENDS Integers

CONSTANTS
    Bitrate,      \* bitrates of the profiles
    Gop,          \* GOP lengths of the profiles
    BootSetting,  \* what the encoder runs before the daemon's first call
    Cut,          \* bitrate -> the bitrate times xtx_reduce_bitrate_factor
    Outcome,      \* how a call to the encoder may end
    Gap,          \* restore units that may pass between two samples
    RestoreAfter, \* restore_interval_ms in those units
    MaxUnseen     \* bound on how far the driver's counter is from the last reading

Unset == -1                               \* prevApplied before any commit
Setting == [bitrate : Bitrate, gop : Gop]
Field == {"bitrate", "gop"}
Known == [bitrate : Bitrate \cup {Unset}, gop : Gop \cup {Unset}]

ASSUME SettingAssumption ==
    /\ Bitrate \subseteq Nat /\ Gop \subseteq Nat
    /\ BootSetting \in Setting
    /\ Cut \in [Bitrate \cup {Unset} -> Int]
ASSUME TimingAssumption ==
    /\ Outcome \subseteq {"ok", "failed", "unacked"}
    /\ Gap \subseteq Nat \ {0} /\ RestoreAfter \in Nat \ {0} /\ MaxUnseen \in Nat

VARIABLES
    prevApplied,                  \* ps: bitrate and GOP last committed
    bitrateReduced,               \* ps: set and cleared by the monitor
    wpc, job, toStore,            \* profile worker, in its API step
    tpc, dropped, sinceXtx,       \* TX monitor: sample
    snap, snapReduced, call,      \* TX monitor: snapshot, what it sends
    unseen, counted,              \* hw: the driver's tx_dropped less the last
                                  \* reading; tx_dropped_initialized
    encoder,                      \* external: what the encoder runs
    \* History, read by properties only:
    stale,    \* the worker reached the encoder between snapshot and call
    adrift    \* the newest call to land was stale or unacked, or a restore failed

workerVars == <<wpc, job, toStore>>
sampleVars == <<dropped, sinceXtx>>
monitorVars == <<tpc, sampleVars, snap, snapReduced, call>>
counterVars == <<unseen, counted>>
history == <<stale, adrift>>
vars == <<prevApplied, bitrateReduced, workerVars, monitorVars, counterVars, encoder,
          history>>

Init ==
    /\ prevApplied = [bitrate |-> Unset, gop |-> Unset]
    /\ bitrateReduced = FALSE
    /\ wpc = "idle" /\ job = BootSetting /\ toStore = {}
    /\ tpc = "sleep" /\ dropped = FALSE /\ sinceXtx = RestoreAfter
    /\ snap = prevApplied /\ snapReduced = FALSE /\ call = BootSetting
    /\ unseen \in 0..MaxUnseen /\ counted = FALSE
    /\ encoder = BootSetting
    /\ stale = FALSE /\ adrift = FALSE

----------------------------------------------------------------------------
(* The profile worker. *)

\* A job reaches its API step; an unchanged bitrate and GOP is not sent.
WorkerJob(s) ==
    /\ wpc = "idle"
    /\ s # prevApplied
    /\ job' = s
    /\ wpc' = "send"
    /\ UNCHANGED <<prevApplied, bitrateReduced, toStore, monitorVars, counterVars,
                   encoder, history>>

\* "unacked": the encoder took the call, the answer came too late.
WorkerSend(outcome) ==
    /\ wpc = "send"
    /\ IF outcome = "failed"
       THEN UNCHANGED <<encoder, history>>
       ELSE /\ encoder' = job
            /\ stale' = (stale \/ tpc = "send")
            /\ adrift' = (outcome = "unacked")
    /\ IF outcome = "ok" THEN wpc' = "store" /\ toStore' = Field
                         ELSE wpc' = "idle" /\ UNCHANGED toStore
    /\ UNCHANGED <<prevApplied, bitrateReduced, job, monitorVars, counterVars>>

\* Two stores outside any lock: the monitor may read between them.
WorkerStore(field) ==
    /\ wpc = "store" /\ field \in toStore
    /\ prevApplied' = [prevApplied EXCEPT ![field] = job[field]]
    /\ toStore' = toStore \ {field}
    /\ wpc' = IF toStore' = {} THEN "idle" ELSE "store"
    /\ UNCHANGED <<bitrateReduced, job, monitorVars, counterVars, encoder, history>>

(* The driver: it drops packets, and its counter starts anew when the         *)
(* interface does.                                                          *)

DriverDrops ==
    /\ unseen < MaxUnseen
    /\ unseen' = unseen + 1
    /\ UNCHANGED <<prevApplied, bitrateReduced, workerVars, monitorVars, counted,
                   encoder, history>>

DriverRestarts ==
    /\ unseen' \in -MaxUnseen..0
    /\ UNCHANGED <<prevApplied, bitrateReduced, workerVars, monitorVars, counted,
                   encoder, history>>

(* The TX monitor. *)

\* Mutant: the elapsed time is subtracted the wrong way round.
SampledBackwards(gap) == sinceXtx - gap
\* Time since the last sample with drops, no further than RestoreAfter.
Sampled(gap) == IF sinceXtx + gap < RestoreAfter THEN sinceXtx + gap ELSE RestoreAfter

\* hw_get_tx_dropped: what was dropped since the last reading. The first one
\* tells nothing; nor does one that fails, and the next makes up for it.
ReadCounter(readable) ==
    /\ dropped' = (readable /\ counted /\ unseen > 0)
    /\ unseen' = IF readable THEN 0 ELSE unseen
    /\ counted' = (counted \/ readable)

\* One period later.
MonitorSample(readable, gap) ==
    /\ tpc = "sleep"
    /\ ReadCounter(readable)
    /\ sinceXtx' = Sampled(gap)
    /\ tpc' = "decide"
    /\ UNCHANGED <<prevApplied, bitrateReduced, workerVars, snap, snapReduced,
                   call, encoder, history>>

\* Mutant: a cut is taken of what runs now.
ReductionAgain(s) == [encoder EXCEPT !.bitrate = (@ * 4) \div 5]
Reduction(s) == [s EXCEPT !.bitrate = Cut[@]]

\* Mutant: a sample without drops restarts the quiet second too.
QuietAnyway == 0
Quiet == IF dropped THEN 0 ELSE sinceXtx

\* Snapshot under worker_mutex, then a decision on the snapshot alone.
MonitorDecide ==
    /\ tpc = "decide"
    /\ snap' = prevApplied /\ snapReduced' = bitrateReduced
    /\ LET reduce  == dropped /\ ~bitrateReduced
           restore == ~dropped /\ bitrateReduced /\ sinceXtx >= RestoreAfter
       IN  /\ tpc' = IF reduce \/ restore THEN "send" ELSE "sleep"
           /\ call' = CASE reduce  -> Reduction(snap')
                        [] restore -> snap'
                        [] OTHER   -> call
           /\ stale' = ((reduce \/ restore) /\ wpc = "store")
    /\ sinceXtx' = Quiet
    /\ UNCHANGED <<prevApplied, bitrateReduced, workerVars, dropped, counterVars,
                   encoder, adrift>>

\* The call, with no lock held and its result ignored.
MonitorSend(outcome) ==
    /\ tpc = "send"
    /\ encoder' = IF outcome = "failed" THEN encoder ELSE call
    /\ adrift' = IF outcome = "failed" THEN adrift \/ snapReduced ELSE stale
    /\ stale' = FALSE
    /\ tpc' = "flag"
    /\ UNCHANGED <<prevApplied, bitrateReduced, workerVars, sampleVars, snap,
                   snapReduced, call, counterVars>>

\* Mutant: the flag is set when a restore was sent and cleared otherwise.
FlagSwapped == snapReduced
FlagAfter == ~snapReduced

MonitorFlag ==
    /\ tpc = "flag"
    /\ bitrateReduced' = FlagAfter
    /\ tpc' = "sleep"
    /\ UNCHANGED <<prevApplied, workerVars, sampleVars, snap, snapReduced, call,
                   counterVars, encoder, history>>

----------------------------------------------------------------------------
Worker == \/ \E s \in Setting : WorkerJob(s)
          \/ \E o \in Outcome : WorkerSend(o)
          \/ \E f \in Field : WorkerStore(f)
Driver == DriverDrops \/ DriverRestarts
Sampling == \E readable \in BOOLEAN, g \in Gap : MonitorSample(readable, g)
Monitor == \/ Sampling \/ MonitorDecide \/ MonitorFlag
           \/ \E o \in Outcome : MonitorSend(o)

Next == Worker \/ Driver \/ Monitor
Spec == Init /\ [][Next]_vars

\* Both threads run, and calls return; nothing obliges the GS to send jobs.
Fairness ==
    /\ WF_vars(Monitor)
    /\ WF_vars(\E o \in Outcome : WorkerSend(o))
    /\ WF_vars(\E f \in Field : WorkerStore(f))
FairSpec == Spec /\ Fairness

----------------------------------------------------------------------------
Sent == [bitrate : Int, gop : Gop \cup {Unset}]

TypeOK ==
    /\ prevApplied \in Known /\ bitrateReduced \in BOOLEAN
    /\ wpc \in {"idle", "send", "store"} /\ job \in Setting /\ toStore \subseteq Field
    /\ tpc \in {"sleep", "decide", "send", "flag"}
    /\ dropped \in BOOLEAN /\ sinceXtx \in 0..RestoreAfter
    /\ unseen \in -MaxUnseen..MaxUnseen /\ counted \in BOOLEAN
    /\ snap \in Known /\ snapReduced \in BOOLEAN /\ call \in Sent
    /\ encoder \in Sent
    /\ stale \in BOOLEAN /\ adrift \in BOOLEAN

\* Between its calls the monitor leaves the encoder where the daemon believes
\* it is: at the applied profile, or at its reduction while the flag says so.
\* The exceptions are those of adrift: the worker reached the encoder while the
\* monitor's call was prepared, a restore failed, or an answer was lost; and
\* the next call to land in order ends each of them.
EncoderWhereBelieved ==
    /\ wpc # "store" /\ tpc \in {"sleep", "decide"}
    /\ ~adrift /\ prevApplied.bitrate # Unset
    => \/ encoder = prevApplied
       \/ bitrateReduced /\ encoder = [prevApplied EXCEPT !.bitrate = Cut[@]]

\* Reductions do not compound, however drops, restores, profiles and failures
\* interleave: the encoder runs a bitrate of some profile, or that cut once.
NoCompounding ==
    encoder.bitrate \in Bitrate \cup {Unset} \cup {Cut[b] : b \in Bitrate \cup {Unset}}

\* When the driver stops dropping, the reduction ends and stays ended, whatever
\* readings of its counter fail and however often that starts anew.
ReductionEnds == <>[][~DriverDrops]_vars => <>[](~bitrateReduced)

=============================================================================
