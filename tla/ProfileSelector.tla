-------------------------- MODULE ProfileSelector --------------------------
(***************************************************************************)
(* The ground station's two-channel gate (alink_gs, ProfileSelector): which *)
(* MCS the link runs at, decided anew on every stats line.                  *)
(*                                                                          *)
(* A line's metrics are abstracted to what select() reads of them: the SNR  *)
(* left after the stress margin, its predicted drift, the headroom wanted   *)
(* (hysteresis_up_db is learned), whether loss or FEC pressure is an         *)
(* emergency, and the parameters computed besides MCS.                      *)
(* The two timestamps are kept as the time since, no further than the gate  *)
(* looks.                                                                   *)
(***************************************************************************)
EXTENDS Integers, FiniteSetsExt

CONSTANTS
    MaxMcs,          \* min(7, max_mcs)
    Threshold,       \* MCS_SNR_THRESHOLDS
    Link,            \* the metrics a line may bring
    HysteresisDown,
    MinBetween, HoldFallback, HoldDown,  \* min_between_changes_ms, hold_*_ms
    FastDowngrade,
    ConfidenceLoops, \* upward_confidence_loops
    MaxStep,         \* max_mcs_step_up, 0: no limit
    Gap,             \* time between two lines
    None             \* no profile yet

Mcs == 0..MaxMcs
Later(t, u) == IF t < u THEN u ELSE t
Sooner(t, u) == IF t < u THEN t ELSE u
MaxHold == Later(HoldFallback, HoldDown)

ASSUME McsAssumption ==
    /\ MaxMcs \in Nat
    /\ Threshold \in [Mcs -> Int]
    /\ \A m, n \in Mcs : m < n => Threshold[m] < Threshold[n]
ASSUME LinkAssumption ==
    \A l \in Link :
        l.head \in Int /\ l.drift \in Int /\ l.up \in Int /\ l.emergency \in BOOLEAN
ASSUME TuningAssumption ==
    /\ HysteresisDown \in Nat
    /\ MinBetween \in Nat /\ HoldFallback \in Nat /\ HoldDown \in Nat
    /\ FastDowngrade \in BOOLEAN
    /\ ConfidenceLoops \in Nat \ {0} /\ MaxStep \in Nat
    /\ Gap \subseteq Nat \ {0}
ASSUME NoneAssumption == None \notin Mcs /\ \A l \in Link : l.params # None

VARIABLES
    link,                    \* the last line's metrics
    current, params,         \* current_profile_idx; the rest of current_profile
    sinceChange, sinceMcs,   \* now less last_change_time_ms, last_mcs_change_time_ms
    upCount, upTarget,       \* up_confidence_count, up_target_profile
    \* History, read by properties only:
    base, climb,    \* MCS after the last step down, and time since then
    wanted,         \* lines since the last MCS change whose candidate was higher
    breach          \* time the current MCS has been below its margin

gateVars == <<current, params, sinceChange, sinceMcs, upCount, upTarget>>
historyVars == <<base, climb, wanted, breach>>
vars == <<link, gateVars, historyVars>>

\* Uptime, which the monotonic clock starts from, is beyond every hold time.
Init ==
    /\ link \in Link
    /\ current = -1 /\ params = None
    /\ sinceChange = MinBetween /\ sinceMcs = MaxHold
    /\ upCount = 0 /\ upTarget = -1
    /\ base = -1 /\ climb = 0 /\ wanted = 0 /\ breach = None

----------------------------------------------------------------------------
(* What a line's metrics call for. *)

Margin(l, m) == IF m \in Mcs THEN l.head - Threshold[m] ELSE 0

\* _compute_profile: the highest MCS with a margin, or 0.
Candidate(l) ==
    LET usable == {m \in Mcs : l.head >= Threshold[m]}
    IN  IF usable = {} THEN 0 ELSE Max(usable)

\* Mutant: an emergency steps down from anywhere.
ClampedAnywhere(l) ==
    IF l.emergency THEN Sooner(Candidate(l), current - 1) ELSE Candidate(l)

\* In an emergency at least one step down, where there is one.
Clamped(l) ==
    IF l.emergency /\ current > 0 THEN Sooner(Candidate(l), current - 1)
                                  ELSE Candidate(l)

\* The MCS the gate is asked for: no more than max_mcs_step_up above this one.
Target(l) ==
    IF current >= 0 /\ Clamped(l) > current /\ MaxStep > 0
    THEN Sooner(Clamped(l), current + MaxStep)
    ELSE Clamped(l)

\* Channel A, upwards: too little headroom, now or as predicted.
LacksHeadroom(l) ==
    /\ ~l.emergency /\ current >= 0 /\ Target(l) > current
    /\ \/ Margin(l, Target(l)) < l.up
       \/ Margin(l, Target(l)) + l.drift < 0

\* Mutant: an upward drift outweighs a margin that is breached.
WithinHysteresisDrifting(l) ==
    /\ ~l.emergency /\ current >= 0 /\ Target(l) < current
    /\ Margin(l, current) + l.drift > -HysteresisDown

\* Channel A, downwards: not far enough below, neither now nor as predicted.
WithinHysteresis(l) ==
    /\ ~l.emergency /\ current >= 0 /\ Target(l) < current
    /\ Margin(l, current) > -HysteresisDown
    /\ Margin(l, current) + l.drift > -HysteresisDown

----------------------------------------------------------------------------
(* The gate: its exits, in the order select() takes them. d is the time the *)
(* line came after the one before.                                          *)

Aged(since, d, bound) == Sooner(since + d, bound)
Age(d) ==
    /\ sinceChange' = Aged(sinceChange, d, MinBetween)
    /\ sinceMcs' = Aged(sinceMcs, d, MaxHold)

Limited(l, d) == ~l.emergency /\ Aged(sinceChange, d, MinBetween) < MinBetween

\* One more line in favour of target; counted no further than the gate looks.
Count(target) ==
    /\ upTarget' = target
    /\ upCount' = IF target = upTarget THEN Sooner(upCount + 1, ConfidenceLoops) ELSE 1

\* Mutant: the confidence gathered is kept.
ForgetNothing == UNCHANGED <<upCount, upTarget>>
Forget == upCount' = 0 /\ upTarget' = -1

RateLimited(l, d) ==
    /\ Limited(l, d)
    /\ Age(d)
    /\ UNCHANGED <<current, params, upCount, upTarget>>

\* Headroom is lacking: the line feeds confidence all the same.
FeedConfidence(l, d) ==
    /\ ~Limited(l, d) /\ LacksHeadroom(l)
    /\ Count(Target(l))
    /\ Age(d)
    /\ UNCHANGED <<current, params>>

StayAbove(l, d) ==
    /\ ~Limited(l, d) /\ WithinHysteresis(l)
    /\ Age(d)
    /\ UNCHANGED <<current, params, upCount, upTarget>>

\* Mutant: the same MCS is taken for the same profile.
RenewedNever(l) == params
Renewed(l) == l.params

\* The same MCS: the other parameters are renewed. Only when they differ is it
\* a change, which starts min_between_changes_ms again.
SameMcs(l, d) ==
    /\ ~Limited(l, d) /\ Target(l) = current
    /\ params' = Renewed(l)
    /\ Forget
    /\ sinceChange' = IF params = l.params THEN Aged(sinceChange, d, MinBetween) ELSE 0
    /\ sinceMcs' = Aged(sinceMcs, d, MaxHold)
    /\ UNCHANGED current

\* Past the gate, towards another MCS.
Passes(l, d) ==
    /\ ~Limited(l, d)
    /\ ~LacksHeadroom(l) /\ ~WithinHysteresis(l)
    /\ Target(l) # current

\* Mutant: leaving MCS 0 is not held back.
HeldOnlyDown(l, d) ==
    /\ Target(l) < current
    /\ ~l.emergency /\ ~FastDowngrade /\ Aged(sinceMcs, d, MaxHold) < HoldDown

\* A downgrade waits only when fast_downgrade is off; leaving MCS 0 waits for
\* hold_fallback_mode_ms.
Held(l, d) ==
    \/ /\ Target(l) < current
       /\ ~l.emergency /\ ~FastDowngrade /\ Aged(sinceMcs, d, MaxHold) < HoldDown
    \/ /\ Target(l) > current /\ current = 0
       /\ Aged(sinceMcs, d, MaxHold) < HoldFallback

HoldBack(l, d) ==
    /\ Passes(l, d) /\ Held(l, d)
    /\ Age(d)
    /\ UNCHANGED <<current, params, upCount, upTarget>>

\* An upgrade from anywhere else needs confidence: this many lines in favour
\* of one target, then hold_modes_down_ms since the last MCS change.
NeedsConfidence(l) == Target(l) > current /\ current # 0
Confident(l, d) ==
    /\ Target(l) = upTarget /\ upCount + 1 >= ConfidenceLoops
    /\ Aged(sinceMcs, d, MaxHold) >= HoldDown

GainConfidence(l, d) ==
    /\ Passes(l, d) /\ NeedsConfidence(l) /\ ~Confident(l, d)
    /\ Count(Target(l))
    /\ Age(d)
    /\ UNCHANGED <<current, params>>

ChangeMcs(l, d) ==
    /\ Passes(l, d) /\ ~Held(l, d)
    /\ NeedsConfidence(l) => Confident(l, d)
    /\ current' = Target(l) /\ params' = l.params
    /\ sinceChange' = 0 /\ sinceMcs' = 0
    /\ Forget

----------------------------------------------------------------------------
Select(l, d) ==
    \/ RateLimited(l, d) \/ FeedConfidence(l, d) \/ StayAbove(l, d)
    \/ SameMcs(l, d) \/ HoldBack(l, d) \/ GainConfidence(l, d) \/ ChangeMcs(l, d)

\* Bounds of the history: what the properties look back to.
ClimbBound == MaxMcs * MaxHold
BreachBound == MinBetween + HoldDown

Breached(l) == current > 0 /\ l.head < Threshold[current]
                           /\ Margin(l, current) <= -HysteresisDown

Remember(l, d) ==
    /\ IF current' < current \/ current = -1
       THEN base' = current' /\ climb' = 0
       ELSE base' = base /\ climb' = Aged(climb, d, ClimbBound)
    /\ wanted' = IF current' # current THEN 0
                 ELSE IF Candidate(l) > current THEN Sooner(wanted + 1, ConfidenceLoops)
                 ELSE wanted
    /\ breach' = IF ~Breached(l) \/ current' # current THEN None
                   ELSE IF breach = None THEN 0 ELSE Aged(breach, d, BreachBound)

\* A stats line with video: evaluate_link, then select.
StatsLine(l, d) == link' = l /\ Select(l, d) /\ Remember(l, d)

Next == \E l \in Link, d \in Gap : StatsLine(l, d)
Spec == Init /\ [][Next]_vars

\* Stats lines keep coming, on a link that stays as it is too.
Steady == Next /\ link' = link
FairSpec == Spec /\ WF_vars(Steady)

----------------------------------------------------------------------------
TypeOK ==
    /\ link \in Link
    /\ current \in Mcs \cup {-1} /\ params \in {l.params : l \in Link} \cup {None}
    /\ sinceChange \in 0..MinBetween /\ sinceMcs \in 0..MaxHold
    /\ upCount \in 0..ConfidenceLoops /\ upTarget \in Mcs \cup {-1}
    /\ base \in Mcs \cup {-1} /\ climb \in 0..ClimbBound
    /\ wanted \in 0..ConfidenceLoops
    /\ breach \in 0..BreachBound \cup {None}

\* A link that was stepped down climbs back slowly, whatever its metrics do: by
\* one upgrade per hold time at most, however fallback exits, parameter updates
\* and emergencies fall between.
ClimbsSlowly ==
    LET hold == Sooner(HoldFallback, HoldDown)
    IN  MaxStep > 0 /\ current >= 0 /\ climb < ClimbBound
            => (current - base) * hold <= climb * MaxStep

\* Confidence is never carried over a change of MCS: what has been counted are
\* lines since the last one, and in favour of a higher MCS than now.
ConfidenceIsEarned ==
    /\ upCount <= wanted
    /\ upCount > 0 => upTarget > current

\* An MCS whose margin is breached is left in time: within the rate limit, or
\* the hold time when fast_downgrade is off; updates of the other parameters,
\* which restart the rate limit, cannot keep it.
LeavesInTime ==
    breach # None => breach < IF FastDowngrade THEN Later(MinBetween, 1)
                              ELSE Later(Later(MinBetween, HoldDown), 1)

\* Where a steady link belongs: at the MCS its margin calls for, with its
\* parameters, or as far below as headroom lacks, or above within hysteresis.
AtHome(l) ==
    \/ current = Candidate(l) /\ params = l.params
    \/ current < Candidate(l) /\ LacksHeadroom(l)
    \/ current > Candidate(l) /\ WithinHysteresis(l)

\* The gate does not hunt: a link that stays as it is, short of an emergency,
\* is at some time at home, and stays there.
Settles ==
    \A l \in Link : ~l.emergency => (<>[](link = l) => <>[]AtHome(l))

=============================================================================
