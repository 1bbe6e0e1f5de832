-------------------------- MODULE KeyframeLimiter --------------------------
(***************************************************************************)
(* Keyframe requests to the camera. Two threads ask: the receive loop on a *)
(* K message (keyframe.c) and the TX monitor on driver drops                *)
(* (tx_monitor.c). Each reads the clock, then checks and claims a shared    *)
(* rate-limit slot under ks->mutex, then waits for the exec_mutex that      *)
(* serialises HTTP and shell commands of the whole daemon (command.c).      *)
(***************************************************************************)
EXTENDS Integers

CONSTANTS
    Interval,     \* request_keyframe_interval_ms, in clock units
    BootTime,     \* clock when the daemon starts: last_request_time is 0
    AllowGs,      \* cfg->allow_request_keyframe
    AllowDrop,    \* cfg->allow_rq_kf_by_tx_d
    None,
    MaxTime       \* bound on the clock, for model checking

Path == {"gs", "drop"}
\* The profile worker and the TX monitor's bitrate calls use exec_mutex too.
Other == "other"

ASSUME IntervalAssumption == Interval \in Nat \ {0} /\ BootTime \in Nat /\ MaxTime \in Nat
ASSUME SwitchAssumption == AllowGs \in BOOLEAN /\ AllowDrop \in BOOLEAN
ASSUME NoneAssumption == None \notin Path \cup {Other}

VARIABLES
    now,              \* external: CLOCK_MONOTONIC
    lastRequest,      \* ks->last_request_time
    totalRequests,    \* ks->total_requests
    pc, sampled,      \* per path: where it stands, the time it read
    holder,           \* owner of exec_mutex
    \* History, read by properties only:
    claims, firstClaim,  \* slots claimed, and the time of the first
    issued               \* requests put on the wire

historyVars == <<claims, firstClaim, issued>>
limiterVars == <<now, lastRequest, totalRequests, pc, sampled, holder, historyVars>>

LimiterInit ==
    /\ now = BootTime
    /\ lastRequest = 0 /\ totalRequests = 0
    /\ pc = [p \in Path |-> "idle"]
    /\ sampled = [p \in Path |-> 0]
    /\ holder = None
    /\ claims = 0 /\ firstClaim = 0 /\ issued = 0

----------------------------------------------------------------------------
Tick ==
    /\ now < MaxTime
    /\ now' = now + 1
    /\ UNCHANGED <<lastRequest, totalRequests, pc, sampled, holder, historyVars>>

\* The clock is read with no lock held: at the head of keyframe_fire_request,
\* and at the head of the monitor's iteration, before its bitrate call. With no
\* drops, or a GOP of half a second or less, the monitor does not come here.
ReadClock(p) ==
    /\ pc[p] = "idle"
    /\ p = "gs" => AllowGs
    /\ sampled' = [sampled EXCEPT ![p] = now]
    /\ pc' = [pc EXCEPT ![p] = "check"]
    /\ UNCHANGED <<now, lastRequest, totalRequests, holder, historyVars>>

\* util_elapsed_ms_timespec clamps to 0: a clock read before another path's
\* claim is no time at all after it.
Elapsed(current, past) == IF current < past THEN 0 ELSE current - past

Allowed(p) ==
    /\ Elapsed(sampled[p], lastRequest) >= Interval
    /\ p = "drop" => AllowDrop

\* Mutant: the monitor checks the slot but leaves the claim to the GS path.
ClaimedByGs(p) == IF p = "gs" THEN sampled[p] ELSE lastRequest
\* The time the slot is claimed at.
Claimed(p) == sampled[p]

\* Mutant: requests are counted before the limit is checked.
CountedThrottled(p) == IF p = "gs" THEN totalRequests + 1 ELSE totalRequests
\* Only the GS path counts, and only what it claims.
Counted(p) == IF p = "gs" /\ Allowed(p) THEN totalRequests + 1 ELSE totalRequests

\* Check and claim, one critical section under ks->mutex.
Claim(p) ==
    /\ pc[p] = "check"
    /\ IF Allowed(p)
       THEN /\ lastRequest' = Claimed(p)
            /\ pc' = [pc EXCEPT ![p] = "lock"]
            /\ claims' = claims + 1
            /\ firstClaim' = IF claims = 0 THEN sampled[p] ELSE firstClaim
       ELSE /\ pc' = [pc EXCEPT ![p] = "idle"]
            /\ UNCHANGED <<lastRequest, claims, firstClaim>>
    /\ totalRequests' = Counted(p)
    /\ UNCHANGED <<now, sampled, holder, issued>>

\* cmd_http_get: exec_mutex may be held through other commands' timeouts.
Issue(p) ==
    /\ pc[p] = "lock" /\ holder = None
    /\ holder' = p
    /\ pc' = [pc EXCEPT ![p] = "http"]
    /\ issued' = issued + 1
    /\ UNCHANGED <<now, lastRequest, totalRequests, sampled, claims, firstClaim>>

\* Mutant: exec_mutex is left locked when the call returns.
ReleasedNever == holder
Released == None

\* Success, failure and timeout alike: the claim stays, nothing is retried.
Answer(p) ==
    /\ pc[p] = "http"
    /\ holder' = Released
    /\ pc' = [pc EXCEPT ![p] = "idle"]
    /\ UNCHANGED <<now, lastRequest, totalRequests, sampled, historyVars>>

OtherCommand ==
    /\ \/ holder = None /\ holder' = Other
       \/ holder = Other /\ holder' = None
    /\ UNCHANGED <<now, lastRequest, totalRequests, pc, sampled, historyVars>>

----------------------------------------------------------------------------
Asking(p) == ReadClock(p) \/ Claim(p) \/ Issue(p) \/ Answer(p)
LimiterNext == Tick \/ OtherCommand \/ \E p \in Path : Asking(p)
LimiterSpec == LimiterInit /\ [][LimiterNext]_limiterVars

----------------------------------------------------------------------------
LimiterTypeOK ==
    /\ now \in Nat
    /\ lastRequest \in Nat /\ totalRequests \in 0..claims
    /\ pc \in [Path -> {"idle", "check", "lock", "http"}]
    /\ sampled \in [Path -> Nat]
    /\ holder \in Path \cup {Other, None}
    /\ claims \in Nat /\ firstClaim \in Nat /\ issued \in Nat

\* The limit is shared and no interleaving beats it: from the first claim on,
\* the two paths together put at most one request per interval on the wire, to
\* which one is added for the first. Clock readings grown stale before their
\* check, and claims waiting long for exec_mutex, only lower the number.
RequestRate == issued > 0 => (issued - 1) * Interval <= now - firstClaim

\* Every claimed slot is a request issued or one still waiting to be, and the
\* path that issues holds exec_mutex alone.
ClaimsAccounted ==
    /\ claims = issued + (IF pc["gs"] = "lock" THEN 1 ELSE 0)
                       + (IF pc["drop"] = "lock" THEN 1 ELSE 0)
    /\ \A p \in Path : pc[p] = "http" <=> holder = p

=============================================================================
