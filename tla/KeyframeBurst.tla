--------------------------- MODULE KeyframeBurst ---------------------------
(***************************************************************************)
(* Keyframe requests from a lost packet to the camera: the burst of K       *)
(* messages the ground station arms on a stats line with loss and sends one *)
(* of at a wakeup (alink_gs), and the drone's rate limit, which the messages *)
(* of a burst meet one after the other. StatsLoop runs these steps; the     *)
(* threads behind the limit are in KeyframeLimiter.                         *)
(***************************************************************************)
EXTENDS Integers

CONSTANTS
    Burst,       \* idr_max_messages
    SendGap,     \* idr_send_interval_ms, the timeout of select() too
    Limit,       \* the drone's request_keyframe_interval_ms
    MaxDropped   \* K messages that the link loses between two requests

ASSUME BurstAssumption ==
    /\ Burst \in Nat \ {0} /\ SendGap \in Nat \ {0} /\ Limit \in Nat \ {0}
    /\ MaxDropped \in 0..Burst

VARIABLES
    remaining,     \* keyframe_request_remaining
    sinceSend,     \* since last_keyframe_send_ms, SendGap for any longer time
    sinceRequest,  \* since the drone's last request, Limit for any longer time
    \* History, read by properties only:
    dropped,       \* K messages lost since the last request
    unanswered     \* connected time since a loss whose burst reaches past the
                   \* limit and that no request has followed, or since the last
                   \* connect if that is later; None if none

burstVars == <<remaining, sinceSend, sinceRequest, dropped, unanswered>>

None == -1
AtMost(t, bound) == IF t < bound THEN t ELSE bound

\* What unanswered is counted to.
AnswerBound == AtMost(Limit, Burst * SendGap) + (MaxDropped + 1) * 2 * SendGap

BurstInit ==
    /\ remaining = 0 /\ sinceSend = SendGap /\ sinceRequest = Limit
    /\ dropped = 0 /\ unanswered = None

\* A unit of time passes, with the loop running if connected.
BurstElapse(connected) ==
    /\ sinceSend' = AtMost(sinceSend + 1, SendGap)
    /\ sinceRequest' = AtMost(sinceRequest + 1, Limit)
    /\ unanswered' = IF unanswered = None \/ ~connected THEN unanswered
                     ELSE AtMost(unanswered + 1, AnswerBound + 1)
    /\ UNCHANGED <<remaining, dropped>>

\* Mutants: a loss adds a burst to the one that is under way; a loss during a
\* burst is left to what remains of it.
ArmedAdded(lost) == IF lost THEN remaining + Burst ELSE remaining
ArmedIdle(lost) == IF lost /\ remaining = 0 THEN Burst ELSE remaining
\* A line with loss arms the burst, over what is left of an earlier one.
Armed(lost) == IF lost THEN Burst ELSE remaining

\* The K messages that the link may still lose before the next request.
Spare == MaxDropped - dropped

\* Sent at SendGap one after the other, n messages without those that the link
\* may still lose reach past the end of the drone's limit.
Reaches(n) ==
    /\ Spare < n
    /\ sinceRequest < Limit => Limit - sinceRequest + sinceSend <= (n - Spare) * SendGap

Arm(lost) ==
    /\ remaining' = Armed(lost)
    /\ unanswered' = IF lost /\ unanswered = None /\ Reaches(Burst) THEN 0 ELSE unanswered
    /\ UNCHANGED <<sinceSend, sinceRequest, dropped>>

\* keyframe_fire_request on a K that arrives.
Arrive ==
    IF sinceRequest >= Limit
    THEN sinceRequest' = 0 /\ dropped' = 0 /\ unanswered' = None
    ELSE UNCHANGED <<sinceRequest, dropped, unanswered>>

Drop ==
    /\ dropped < MaxDropped
    /\ dropped' = dropped + 1
    /\ UNCHANGED <<sinceRequest, unanswered>>

\* pump_keyframe_sender; the K arrives or is lost.
Sends == remaining > 0 /\ sinceSend >= SendGap
Pump(arrives) ==
    IF Sends
    THEN /\ remaining' = remaining - 1
         /\ sinceSend' = 0
         /\ IF arrives THEN Arrive ELSE Drop
    ELSE UNCHANGED burstVars

\* The loop connects again, with whatever is left of the burst.
BurstConnect ==
    /\ unanswered' = AtMost(unanswered, 0)
    /\ UNCHANGED <<remaining, sinceSend, sinceRequest, dropped>>

\* The drone's daemon restarts and has requested nothing yet.
BurstDroneRestart ==
    /\ sinceRequest' = Limit
    /\ UNCHANGED <<remaining, sinceSend, dropped, unanswered>>

----------------------------------------------------------------------------
BurstTypeOK ==
    /\ remaining \in 0..Burst
    /\ sinceSend \in 0..SendGap /\ sinceRequest \in 0..Limit
    /\ dropped \in 0..MaxDropped /\ unanswered \in None..(AnswerBound + 1)

\* Every loss whose burst can reach past the drone's rate limit is followed by a
\* request to the camera, within the length of the burst (or the limit, if that
\* is shorter) and two send intervals per K the link may lose, through further losses, a reconnect and restarts of the drone;
\* a loss just before the stats connection breaks, within that time of the next
\* connect. Owed nothing is a loss so soon after a request that the limit may
\* swallow all of its burst, and only until one that comes later.
LossAnswered == unanswered <= AnswerBound
=============================================================================
