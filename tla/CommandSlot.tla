---------------------------- MODULE CommandSlot ----------------------------
(***************************************************************************)
(* What a thread does while it holds exec_mutex (command.c): run a shell    *)
(* command under a timeout (exec_with_timeout), or a GET to the camera      *)
(* (http_client.c). Worker, TX monitor, receive loop and OSD take turns, so *)
(* how long a call may last is how long each of them may be kept waiting.   *)
(*                                                                          *)
(* Each select() waits for Timeout at most; the rest of a call takes no     *)
(* time. The commands are the ones that set a value of one device, and the  *)
(* camera's settings are left out.                                          *)
(***************************************************************************)
EXTENDS Integers

CONSTANTS
    Value,       \* what a command may set the device to
    Timeout,     \* exec_timeout_ms
    MaxChunks,   \* reads that fill the response buffer
    None

ASSUME TimeoutAssumption == Timeout \in Nat \ {0} /\ MaxChunks \in Nat \ {0}
ASSUME CommandAssumption == None \notin Value

VARIABLES
    phase,    \* of the call that holds exec_mutex, "free" when none does
    value,    \* what its command sets
    waited,   \* time in the present select()
    chunks,   \* reads of the response
    device,   \* external: what the device runs
    strays,   \* external: what commands that outlived their call set
    \* History, read by properties only:
    held,     \* time the mutex has been held
    acked,    \* the newest command's value, if its call returned 0
    overtaken \* a stray has taken effect after the newest command

callVars == <<phase, value, waited, chunks, held>>
vars == <<callVars, device, strays, acked, overtaken>>

Phase == {"free", "run", "done", "failed", "connect", "receive"}

Init ==
    /\ phase = "free" /\ value = None
    /\ waited = 0 /\ chunks = 0 /\ held = 0
    /\ device = None /\ strays = {} /\ acked = None /\ overtaken = FALSE

Waiting == phase \in {"run", "connect", "receive"}

\* The mutex is given back.
Return ==
    /\ phase' = "free" /\ value' = None
    /\ waited' = 0 /\ chunks' = 0 /\ held' = 0

\* select() is entered: its timeout starts anew.
Select(p) == phase' = p /\ waited' = 0

----------------------------------------------------------------------------
\* Time passes in select(), until its timeout.
Elapse ==
    /\ Waiting /\ waited < Timeout
    /\ waited' = waited + 1 /\ held' = held + 1
    /\ UNCHANGED <<phase, value, chunks, device, strays, acked, overtaken>>

\* cmd_exec_with_timeout: the child is forked. (A call whose pipe or fork fails
\* returns at once, and changes nothing.)
Exec(v) ==
    /\ phase = "free"
    /\ Select("run") /\ value' = v
    /\ acked' = None
    /\ UNCHANGED <<chunks, held, device, strays, overtaken>>

\* The child ends, and the pipe's last writer with it. A command that fails may
\* have had its effect.
ChildEnds ==
    /\ phase = "run"
    /\ \/ phase' = "done" /\ device' = value
       \/ phase' = "failed" /\ device' \in {device, value}
    /\ overtaken' = FALSE
    /\ UNCHANGED <<value, waited, chunks, held, strays, acked>>

\* Mutant: the exit status is not looked at.
StatusOk == value
Status == IF phase = "done" THEN value ELSE None

\* End of file on the pipe, waitpid, and the exit status.
Reap ==
    /\ phase \in {"done", "failed"}
    /\ acked' = Status
    /\ Return
    /\ UNCHANGED <<device, strays, overtaken>>

\* SIGKILL for the shell, which may leave its own child running.
Kill ==
    /\ phase = "run" /\ waited = Timeout
    /\ strays' \in {strays, strays \union {value}}
    /\ Return
    /\ UNCHANGED <<device, acked, overtaken>>

StrayEnds ==
    /\ \E v \in strays : device' = v /\ strays' = strays \ {v}
    /\ overtaken' = TRUE
    /\ UNCHANGED <<callVars, acked>>

----------------------------------------------------------------------------
\* cmd_http_get: connect() is in progress, or done at once.
Get ==
    /\ phase = "free"
    /\ Select("connect") \/ Select("receive")
    /\ UNCHANGED <<value, chunks, held, device, strays, acked, overtaken>>

\* The camera accepts, and the request is sent.
Connected ==
    /\ phase = "connect"
    /\ Select("receive")
    /\ UNCHANGED <<value, chunks, held, device, strays, acked, overtaken>>

\* connect() or send() fails.
Refused ==
    /\ phase \in {"connect", "receive"} /\ chunks = 0
    /\ Return
    /\ UNCHANGED <<device, strays, acked, overtaken>>

\* Mutants: one read too many for the buffer; reads are not counted.
FullLater == chunks >= MaxChunks
ReadUncounted == chunks
Full == chunks + 1 >= MaxChunks
Read == chunks + 1

\* A part of the response: the loop ends when the buffer is full.
Chunk ==
    /\ phase = "receive"
    /\ IF Full
       THEN Return
       ELSE Select("receive") /\ chunks' = Read /\ UNCHANGED <<value, held>>
    /\ UNCHANGED <<device, strays, acked, overtaken>>

\* The camera closes the connection, which ends the loop.
Closed ==
    /\ phase = "receive"
    /\ Return
    /\ UNCHANGED <<device, strays, acked, overtaken>>

\* A timeout gives up, on the connection or on the rest of the response.
GiveUp ==
    /\ phase \in {"connect", "receive"} /\ waited = Timeout
    /\ Return
    /\ UNCHANGED <<device, strays, acked, overtaken>>

Next ==
    \/ Elapse
    \/ \E v \in Value : Exec(v)
    \/ ChildEnds \/ Reap \/ Kill \/ StrayEnds
    \/ Get \/ Connected \/ Refused \/ Chunk \/ Closed \/ GiveUp

Spec == Init /\ [][Next]_vars

----------------------------------------------------------------------------
\* A response never outgrows its buffer (http_get).
TypeOK ==
    /\ phase \in Phase /\ value \in Value \union {None}
    /\ waited \in 0..Timeout /\ chunks \in 0..(MaxChunks - 1)
    /\ held \in Nat
    /\ device \in Value \union {None} /\ strays \subseteq Value /\ overtaken \in BOOLEAN
    /\ acked \in Value \union {None}

\* No call holds the mutex longer than its selects may wait one after the other:
\* one for the connection, one for every read.
CallsBounded == held <= Timeout * (MaxChunks + 1)

\* A command whose call returned 0 is in effect until the next is run, unless
\* one that was given up before, and that the kill did not reach, has taken
\* effect since.
AckedStays == acked # None /\ ~overtaken => device = acked
=============================================================================
