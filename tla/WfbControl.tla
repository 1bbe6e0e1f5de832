----------------------------- MODULE WfbControl -----------------------------
(***************************************************************************)
(* Request and reply over the wfb_tx control socket (command.c,             *)
(* wfb_send_request). The profile worker sends settings, the OSD thread     *)
(* asks for counters; wfb_mutex makes a call exclusive, but a call that     *)
(* times out leaves its request, and later its reply, behind in the two     *)
(* socket buffers. The daemon is external: it handles requests one by one,  *)
(* in the order they arrive, as slowly as it likes.                         *)
(***************************************************************************)
EXTENDS Integers, Sequences

CONSTANTS
    Setting,      \* what the worker may ask for (set_fec, set_radio)
    ReqId,        \* request identifiers: rand()
    QueueSize,    \* datagrams a socket buffer holds, the rest are lost
    DrainCap,     \* stale replies dropped before a request is sent: 32
    MismatchCap,  \* stale replies skipped while waiting for ours: 8
    None

Stats == "stats"                          \* the OSD thread's command
Command == Setting \cup {Stats}
Request == [id : ReqId, command : Command]
Reply == [id : ReqId, ok : BOOLEAN]

ASSUME CommandAssumption == Stats \notin Setting /\ None \notin Request \cup Setting
ASSUME SizeAssumption ==
    QueueSize \in Nat \ {0} /\ DrainCap \in Nat /\ MismatchCap \in Nat

VARIABLES
    phase, request,        \* the call under wfb_mutex ("free": none)
    drained, mismatch,     \* its counters of stale replies
    applied,               \* worker: the setting last acknowledged
    toDaemon, toDrone,     \* external: the socket buffers
    device,                \* external: the setting the daemon runs
    \* History, read by properties only:
    unsettled,             \* a setting was sent that was not acknowledged
    backlog                \* requests unanswered when this call began, and
                           \* replies too many for it to drain

callVars == <<phase, request, drained, mismatch>>
vars == <<callVars, applied, toDaemon, toDrone, device, unsettled, backlog>>

Init ==
    /\ phase = "free" /\ request = None
    /\ drained = 0 /\ mismatch = 0
    /\ applied = None
    /\ toDaemon = <<>> /\ toDrone = <<>>
    /\ device = None
    /\ unsettled = FALSE /\ backlog = 0

InFlight == {toDaemon[i].id : i \in DOMAIN toDaemon}
            \cup {toDrone[i].id : i \in DOMAIN toDrone}

----------------------------------------------------------------------------
\* Take wfb_mutex. An identifier of rand() is taken to be new: it is one of
\* 2^31, against the few in flight.
Call(c, id) ==
    /\ phase = "free"
    /\ id \notin InFlight
    /\ request' = [id |-> id, command |-> c]
    /\ phase' = "drain" /\ drained' = 0
    /\ backlog' = Len(toDaemon)
                  + (IF Len(toDrone) > DrainCap + 1 THEN Len(toDrone) - DrainCap - 1 ELSE 0)
    /\ UNCHANGED <<mismatch, applied, toDaemon, toDrone, device, unsettled>>

\* Mutant: what an earlier call left behind stays in the buffer.
DrainedAtOnce == TRUE
Drained == toDrone = <<>>

\* Drop what earlier calls left behind: until the buffer is empty or the cap
\* is passed.
Drain ==
    /\ phase = "drain"
    /\ IF Drained
       THEN phase' = "send" /\ UNCHANGED <<drained, toDrone>>
       ELSE /\ toDrone' = Tail(toDrone)
            /\ drained' = drained + 1
            /\ phase' = IF drained' > DrainCap THEN "send" ELSE "drain"
    /\ UNCHANGED <<request, mismatch, applied, toDaemon, device, unsettled, backlog>>

\* The end of a call: release wfb_mutex, commit a setting acknowledged with 0.
Return(ok) ==
    /\ phase' = "free" /\ request' = None
    /\ drained' = 0 /\ mismatch' = 0
    /\ IF ok /\ request.command \in Setting
       THEN applied' = request.command /\ unsettled' = FALSE
       ELSE UNCHANGED <<applied, unsettled>>

\* sendto: into the daemon's buffer, or lost when that is full.
Send ==
    /\ phase = "send"
    /\ toDaemon' = IF Len(toDaemon) < QueueSize THEN Append(toDaemon, request)
                                                ELSE toDaemon
    /\ unsettled' = (unsettled \/ request.command \in Setting)
    /\ mismatch' = 0
    /\ phase' = "wait"
    /\ UNCHANGED <<request, drained, applied, toDrone, device, backlog>>

\* sendto fails: nothing was sent.
SendFails ==
    /\ phase = "send"
    /\ Return(FALSE)
    /\ UNCHANGED <<toDaemon, toDrone, device, backlog>>

\* Mutants: the first reply to arrive is taken for ours; the cap is compared
\* before the reply is counted.
OursAny(r) == TRUE
TooManyLater == mismatch > MismatchCap
Ours(r) == r.id = request.id
TooMany == mismatch + 1 > MismatchCap

\* A reply arrives: ours ends the call, a stale one is skipped, too many of
\* them end the call as well.
Receive ==
    /\ phase = "wait" /\ toDrone # <<>>
    /\ LET r == Head(toDrone)
       IN  IF Ours(r)
           THEN Return(r.ok)
           ELSE IF TooMany
                THEN Return(FALSE)
                ELSE /\ mismatch' = mismatch + 1
                     /\ UNCHANGED <<phase, request, drained, applied, unsettled>>
    /\ toDrone' = Tail(toDrone)
    /\ UNCHANGED <<toDaemon, device, backlog>>

\* Mutant: a timeout sends the request again.
TimeoutRetries ==
    /\ phase = "wait" /\ toDrone = <<>>
    /\ toDaemon' = IF Len(toDaemon) < QueueSize THEN Append(toDaemon, request)
                                                ELSE toDaemon
    /\ UNCHANGED <<callVars, applied, unsettled, toDrone, device, backlog>>

\* SO_RCVTIMEO passes with nothing to read.
Timeout ==
    /\ phase = "wait" /\ toDrone = <<>>
    /\ Return(FALSE)
    /\ UNCHANGED <<toDaemon, toDrone, device, backlog>>

\* External: the daemon handles a request, in order, and replies. A setting
\* is in effect exactly when the reply says 0.
DaemonHandle(ok) ==
    /\ toDaemon # <<>>
    /\ LET q == Head(toDaemon)
       IN  /\ device' = IF ok /\ q.command \in Setting THEN q.command ELSE device
           /\ toDrone' = IF Len(toDrone) < QueueSize
                         THEN Append(toDrone, [id |-> q.id, ok |-> ok])
                         ELSE toDrone
    /\ toDaemon' = Tail(toDaemon)
    /\ UNCHANGED <<callVars, applied, unsettled, backlog>>

----------------------------------------------------------------------------
Step == Drain \/ Send \/ SendFails \/ Receive \/ Timeout
Next == \/ \E c \in Command, id \in ReqId : Call(c, id)
        \/ Step
        \/ \E ok \in BOOLEAN : DaemonHandle(ok)
Spec == Init /\ [][Next]_vars

\* A call's own steps are taken, a recv timeout among them; nothing is assumed
\* of the daemon.
FairSpec == Spec /\ WF_vars(Step)

----------------------------------------------------------------------------
TypeOK ==
    /\ phase \in {"free", "drain", "send", "wait"}
    /\ request \in Request \cup {None} /\ (phase = "free" <=> request = None)
    /\ drained \in 0..(DrainCap + 1) /\ mismatch \in 0..MismatchCap
    /\ applied \in Setting \cup {None}
    /\ toDaemon \in Seq(Request) /\ Len(toDaemon) <= QueueSize
    /\ toDrone \in Seq(Reply) /\ Len(toDrone) <= QueueSize
    /\ device \in Setting \cup {None}
    /\ unsettled \in BOOLEAN /\ backlog \in 0..(2 * QueueSize)

\* An acknowledged setting is the one in effect, whatever earlier calls left in
\* the buffers: no stale reply is taken for it, and no older request that
\* timed out is carried out after it.
AckedInEffect == applied # None /\ ~unsettled => device = applied

\* Stale replies cannot fail a call by themselves: those it has to skip were
\* unanswered when it began, or more than it may drain; so MismatchCap is out
\* of reach until that many calls in a row have timed out.
SkippedWereOutstanding == phase = "wait" => mismatch <= backlog

\* Every call gives wfb_mutex back, even when the daemon hangs or replies to
\* everything but the request waited for.
CallsReturn == [](phase # "free" => <>(phase = "free"))
=============================================================================
