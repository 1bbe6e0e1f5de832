----------------------------- MODULE StatsLoop -----------------------------
(***************************************************************************)
(* The ground station's loop over wfb-ng's stats (alink_gs, listen_for_data *)
(* and connect_to_wfb_stats) composed with what its datagrams do on the     *)
(* drone: P repeats the profile, H asks for the camera's frame rate, K asks  *)
(* for a keyframe, and each is a heartbeat to the fallback thread.          *)
(*                                                                          *)
(* An iteration of the loop is a wakeup of select(): any number of lines,   *)
(* then the keyframe sender. It takes no time, and a datagram arrives at    *)
(* once or never; time passes between wakeups and in the pause before a     *)
(* reconnect. An exception in a line ends the iteration and the connection, *)
(* while the globals of the program stay as they are.                       *)
(***************************************************************************)
EXTENDS KeyframeBurst

CONSTANTS
    Profile,     \* the indices select() may choose
    Fallback,    \* the drone's fallback_ms
    Pause        \* the 3 s before a reconnect

ASSUME LoopAssumption ==
    /\ Profile \subseteq Nat
    /\ Fallback \in Nat \ {0} /\ Pause \in Nat \ {0}

VARIABLES
    \* Ground station:
    connected,   \* whether the loop runs
    pause,       \* time left before the next connect
    reading,     \* lines were handled in this wakeup
    sinceWake,   \* since select() was entered
    selected,    \* current_profile_idx, None before the first profile
    fpsZero,     \* drone_fps is 0: the next profile computed divides by it
    reply,       \* the I: in the socket: "none", or what it says of the fps
    \* Drone:
    cachedZero,  \* hw->global_fps is 0
    tracked,     \* ps->currentProfile, None (-1) when in fallback
    heard,       \* message_count # 0
    window       \* time since the fallback thread last looked

loopVars == <<connected, pause, reading, sinceWake>>
gsVars == <<selected, fpsZero, reply>>
droneVars == <<cachedZero, tracked, heard, window>>
vars == <<burstVars, loopVars, gsVars, droneVars>>

Init ==
    /\ BurstInit
    /\ connected = TRUE /\ pause = 0 /\ reading = FALSE /\ sinceWake = 0
    /\ selected = None /\ fpsZero = FALSE /\ reply = "none"
    /\ cachedZero \in BOOLEAN /\ tracked = None /\ heard = FALSE /\ window = 0

----------------------------------------------------------------------------
\* Time passes, unless select() times out or a thread's sleep is over.
Elapse ==
    /\ IF connected THEN ~reading /\ sinceWake < SendGap ELSE pause > 0
    /\ window < Fallback
    /\ window' = window + 1
    /\ pause' = IF connected THEN pause ELSE pause - 1
    /\ sinceWake' = AtMost(sinceWake + 1, SendGap)
    /\ BurstElapse(connected)
    /\ UNCHANGED <<connected, reading, gsVars, cachedZero, tracked, heard>>

Disconnect ==
    /\ connected' = FALSE /\ pause' = Pause /\ reading' = FALSE
    /\ UNCHANGED sinceWake

\* Mutant: a reported frame rate of 0 is never replaced.
FpsStuck == fpsZero \/ reply = "zero"
\* Whether the frame rate is 0 once the replies are drained.
Fps == IF reply = "none" THEN fpsZero ELSE reply = "zero"

\* What becomes of a hello: tick sends none, it is lost, only its reply is, or
\* msg_handle_hello's reply is there for the next line. When tick sends one is
\* in Handshake.
HelloFate == {"none", "lost", "unanswered", "answered"}
Hello(fate) ==
    reply' = IF fate # "answered" THEN "none" ELSE IF cachedZero THEN "zero" ELSE "good"
HelloHeard(fate) == fate \in {"unanswered", "answered"}

\* Mutant: the profile is sent when it changes, not on every line.
SendsChanged == selected' # selected
SendsProfile == selected' # None

\* profile_apply_direct on a P that arrives.
Follow(fate, arrives) ==
    /\ tracked' = IF SendsProfile /\ arrives THEN selected' ELSE tracked
    /\ heard' = (heard \/ HelloHeard(fate) \/ (SendsProfile /\ arrives))
    /\ UNCHANGED <<cachedZero, window>>

\* A line of a received video stream: replies, hello, keyframe burst, profile.
\* select returns at once within min_between_changes of a change, unless in an
\* emergency; otherwise it computes a profile (which one, is in
\* ProfileSelector), and P repeats the current one.
VideoLine(lost, fate, arrives) ==
    /\ connected /\ ~Fps
    /\ fpsZero' = FALSE
    /\ Hello(fate)
    /\ Arm(lost)
    /\ selected' \in Profile \cup {selected}
    /\ Follow(fate, arrives)
    /\ reading' = TRUE
    /\ UNCHANGED <<connected, pause, sinceWake>>

\* The same with a frame rate of 0, and select returning at once.
LimitedLine(lost, fate, arrives) ==
    /\ connected /\ Fps /\ selected # None
    /\ fpsZero' = TRUE
    /\ Hello(fate)
    /\ Arm(lost)
    /\ UNCHANGED selected
    /\ Follow(fate, arrives)
    /\ reading' = TRUE
    /\ UNCHANGED <<connected, pause, sinceWake>>

\* The same, and the profile computed: ZeroDivisionError, which ends the
\* connection after the burst was armed and before the profile is sent.
CrashLine(lost, fate) ==
    /\ connected /\ Fps
    /\ fpsZero' = TRUE
    /\ Hello(fate)
    /\ Arm(lost)
    /\ UNCHANGED <<selected, cachedZero, tracked, window>>
    /\ heard' = (heard \/ HelloHeard(fate))
    /\ Disconnect

\* A line of a stalled video stream: no link to calculate.
StallLine(fate) ==
    /\ connected
    /\ fpsZero' = Fps
    /\ Hello(fate)
    /\ heard' = (heard \/ HelloHeard(fate))
    /\ reading' = TRUE
    /\ UNCHANGED <<burstVars, connected, pause, sinceWake, selected, cachedZero,
                   tracked, window>>

\* The end of an iteration, after a timeout or a chunk of lines.
Wakeup(arrives) ==
    /\ connected
    /\ Pump(arrives)
    /\ heard' = (heard \/ (Sends /\ arrives))
    /\ reading' = FALSE /\ sinceWake' = 0
    /\ UNCHANGED <<connected, pause, gsVars, cachedZero, tracked, window>>

\* wfb-ng closes the connection, or another exception ends it.
Close ==
    /\ connected
    /\ Disconnect
    /\ UNCHANGED <<burstVars, gsVars, droneVars>>

Connect ==
    /\ ~connected /\ pause = 0
    /\ connected' = TRUE /\ sinceWake' = 0
    /\ BurstConnect
    /\ UNCHANGED <<pause, reading, gsVars, droneVars>>

Refused ==
    /\ ~connected /\ pause = 0
    /\ pause' = Pause
    /\ UNCHANGED <<burstVars, connected, reading, sinceWake, gsVars, droneVars>>

(* The drone. *)

\* Mutant: the window's count is not taken back to zero.
CountedOn == heard
CountAfterSample == FALSE

\* fallback_ms are over.
FallbackSample ==
    /\ window = Fallback
    /\ window' = 0 /\ heard' = CountAfterSample
    /\ tracked' = IF heard THEN tracked ELSE None
    /\ UNCHANGED <<burstVars, loopVars, gsVars, cachedZero>>

\* hw_refresh_camera_info on the OSD thread. An empty answer of the camera's
\* command line, as a number, is a frame rate of 0.
CameraRefresh(zero) ==
    /\ cachedZero' = zero
    /\ UNCHANGED <<burstVars, loopVars, gsVars, tracked, heard, window>>

\* The daemon restarts, and reads the frame rate before anything else.
DroneRestart(zero) ==
    /\ cachedZero' = zero /\ tracked' = None /\ heard' = FALSE /\ window' = 0
    /\ BurstDroneRestart
    /\ UNCHANGED <<loopVars, gsVars>>

----------------------------------------------------------------------------
Lines == \E lost, arrives \in BOOLEAN, fate \in HelloFate :
    \/ VideoLine(lost, fate, arrives)
    \/ LimitedLine(lost, fate, arrives)
    \/ CrashLine(lost, fate)
    \/ StallLine(fate)
\* A line whose hello is answered and whose P, if it sends one, arrives.
GoodLine == \E lost \in BOOLEAN :
    \/ VideoLine(lost, "answered", TRUE)
    \/ LimitedLine(lost, "answered", TRUE)
    \/ CrashLine(lost, "answered")
Drone == \/ FallbackSample
         \/ \E zero \in BOOLEAN : CameraRefresh(zero) \/ DroneRestart(zero)

Next ==
    \/ Elapse
    \/ Lines
    \/ \E arrives \in BOOLEAN : Wakeup(arrives)
    \/ Close \/ Connect \/ Refused
    \/ Drone

Spec == Init /\ [][Next]_vars

\* Time passes; wfb-ng can be reached again and again; and among the lines of
\* its stats, again and again one comes through in full.
Fairness ==
    /\ WF_vars(Elapse \/ FallbackSample)
    /\ SF_vars(Connect)
    /\ SF_vars(GoodLine)

FairSpec == Spec /\ Fairness

----------------------------------------------------------------------------
\* A burst never holds more than idr_max_messages, however many losses armed
\* it (line 1138).
TypeOK ==
    /\ BurstTypeOK
    /\ connected \in BOOLEAN /\ pause \in 0..Pause
    /\ reading \in BOOLEAN /\ sinceWake \in 0..SendGap
    /\ selected \in Profile \cup {None} /\ fpsZero \in BOOLEAN
    /\ reply \in {"none", "zero", "good"}
    /\ cachedZero \in BOOLEAN /\ tracked \in Profile \cup {None}
    /\ heard \in BOOLEAN /\ window \in 0..Fallback

\* An outage of the stats makes the drone fall back: the pause before a
\* reconnect is longer than the two windows that may pass before the fallback
\* thread sees an empty one.
OutageFallsBack ==
    ~connected /\ Pause - pause > 2 * Fallback => tracked = None

\* A drone that fell back, restarted or missed the change is brought to the
\* profile of the ground station again and again, as long as that stays.
DroneFollows ==
    \A p \in Profile : <>[](selected = p /\ ~fpsZero) => []<>(tracked = p)

\* A frame rate of 0, which ends every connection at its first profile, does
\* not do so for ever: replies are read and hellos sent before the division, so
\* that once the drone has a frame rate again the loop gets to know it.
CrashLoopEnds == <>[](~cachedZero) => <>[](~fpsZero)
=============================================================================
