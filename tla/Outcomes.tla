------------------------------ MODULE Outcomes ------------------------------
(***************************************************************************)
(* What the ground station learns from a profile change (alink_gs,          *)
(* AdaptiveParams) and what it writes about it in the telemetry log         *)
(* (TelemetryLogger). Both watch the loss of a number of stats lines after  *)
(* a change. A line is handled in calculate_link: the tick of the adaptive  *)
(* window first, then the selection, which may change the profile and start *)
(* a window, then the log.                                                  *)
(*                                                                          *)
(* A change is named by the line it is made on. Loss is in percent. The     *)
(* learned values are in steps.                                             *)
(***************************************************************************)
EXTENDS Integers, Sequences, FiniteSetsExt

CONSTANTS
    Window,     \* outcome_window_ticks of [ml]
    LogWindow,  \* outcome_window_ticks of [telemetry]
    Params,     \* the learned parameters
    Param,      \* group, up, down, least, most, start and onBad of each
    Losses,     \* loss rates of a line
    MaxLines    \* bound on the lines of a process

ASSUME WindowAssumption == Window \in Nat \ {0} /\ LogWindow \in Nat \ {0}
ASSUME ParamAssumption ==
    \A p \in Params :
        /\ Param[p] \in [group: {"mcs_gate", "profile_compute"}, up: Int, down: Int,
                        least: Int, most: Int, start: Int, onBad: {-1, 1}]
        /\ Param[p].least <= Param[p].most
ASSUME LossAssumption == Losses \subseteq Nat

Kinds == {"none", "mcs", "params", "emergency"}  \* a line's profile change
None == 0
NoFile == [p \in {} |-> 0]

VARIABLES
    adaptive,  \* AdaptiveParams: its window, its values and _last_outcome
    logger,    \* TelemetryLogger: its window
    records,   \* the outcome records of the process
    file,      \* persist_path: the saved values, NoFile when absent or torn
    lines,     \* the lines the process has handled
    learned,   \* the outcomes it has learned from
    rotated    \* the numbers of lines after which the log was rotated

vars == <<adaptive, logger, records, file, lines, learned, rotated>>

Clamp(p, v) == Max({Param[p].least, Min({Param[p].most, v})})

\* A fresh AdaptiveParams: the configured values, or the saved ones.
Loaded(f) ==
    [of |-> None, left |-> 0, hadLoss |-> FALSE, group |-> "mcs_gate", last |-> None,
     value |-> [p \in Params |-> IF p \in DOMAIN f THEN Clamp(p, f[p]) ELSE Param[p].start]]

Idle == [of |-> None, left |-> 0, losses |-> <<>>]

Init ==
    /\ adaptive = Loaded(NoFile) /\ file = NoFile
    /\ logger = Idle /\ records = <<>>
    /\ lines = <<>> /\ learned = <<>> /\ rotated = {}

----------------------------------------------------------------------------
\* AdaptiveParams. Every operator takes and returns [a, seen]: the object and
\* the outcomes of this line.

\* Mutant: the values are not clamped.
UpdatedFreely(p, v, hadLoss) ==
    v + Param[p].onBad * (IF hadLoss THEN Param[p].up ELSE -Param[p].down)

\* AdaptiveParam.update.
Updated(p, v, hadLoss) ==
    Clamp(p, v + Param[p].onBad * (IF hadLoss THEN Param[p].up ELSE -Param[p].down))

Finalized(s) ==
    LET a == s.a
        value == [p \in Params |-> IF Param[p].group = a.group
                                   THEN Updated(p, a.value[p], a.hadLoss) ELSE a.value[p]]
    IN  [a |-> [a EXCEPT !.of = None, !.left = 0, !.hadLoss = FALSE, !.last = a.of,
                         !.value = value],
         seen |-> Append(s.seen, [of |-> a.of, hadLoss |-> a.hadLoss])]

Tick(s, loss) ==
    IF s.a.of = None THEN s
    ELSE LET t == [s EXCEPT !.a.hadLoss = @ \/ loss > 0, !.a.left = @ - 1]
         IN  IF t.a.left = 0 THEN Finalized(t) ELSE t

\* Mutant: a window still open is dropped.
ChangedDropping(s, kind, c) ==
    IF kind \notin {"mcs", "params"} THEN s
    ELSE [s EXCEPT !.a.of = c, !.a.left = Window, !.a.hadLoss = FALSE,
                   !.a.group = IF kind = "mcs" THEN "mcs_gate" ELSE "profile_compute"]

\* on_profile_changed, on line c; select does not call it in an emergency.
Changed(s, kind, c) ==
    IF kind \notin {"mcs", "params"} THEN s
    ELSE [(IF s.a.of = None THEN s ELSE Finalized(s)) EXCEPT
             !.a.of = c, !.a.left = Window, !.a.hadLoss = FALSE,
             !.a.group = IF kind = "mcs" THEN "mcs_gate" ELSE "profile_compute"]

Learns(loss, kind) == Changed(Tick([a |-> adaptive, seen |-> <<>>], loss), kind, Len(lines) + 1)

----------------------------------------------------------------------------
\* TelemetryLogger. Every operator takes and returns [g, out]: the object and
\* the outcome records of this step.

\* Mutant: the change is kept, and labelled again.
RecordedKeeping(s, last) ==
    IF s.g.losses = <<>> \/ s.g.of = None THEN s
    ELSE [g |-> s.g,
          out |-> Append(s.out, [of |-> s.g.of, losses |-> s.g.losses, adaptive |-> last])]

\* _finalize_outcome.
Recorded(s, last) ==
    IF s.g.losses = <<>> \/ s.g.of = None THEN s
    ELSE [g |-> [s.g EXCEPT !.of = None, !.losses = <<>>],
          out |-> Append(s.out, [of |-> s.g.of, losses |-> s.g.losses, adaptive |-> last])]

Started(s, c) == [s EXCEPT !.g = [of |-> c, left |-> LogWindow, losses |-> <<>>]]

Watched(s, loss, last) ==
    IF s.g.left = 0 THEN s
    ELSE LET t == [s EXCEPT !.g.losses = Append(@, loss), !.g.left = @ - 1]
         IN  IF t.g.left = 0 THEN Recorded(t, last) ELSE t

\* log.
Logged(loss, kind, last) ==
    LET s == [g |-> logger, out |-> <<>>]
        t == IF kind = "none" THEN s ELSE Started(Recorded(s, last), Len(lines) + 1)
    IN  Watched(t, loss, last)

----------------------------------------------------------------------------
\* Mutant: an outcome is not saved.
SavedNever(seen, value) == file

\* The file after the outcomes seen, each of which saves.
Saved(seen, value) == IF seen = <<>> THEN file ELSE value

\* calculate_link.
Line(loss, kind) ==
    LET l == Learns(loss, kind)
        g == Logged(loss, kind, l.a.last)
    IN  /\ Len(lines) < MaxLines
        /\ adaptive' = l.a
        /\ logger' = g.g
        /\ records' = records \o g.out
        /\ file' = Saved(l.seen, l.a.value)
        /\ lines' = Append(lines, [loss |-> loss, kind |-> kind])
        /\ learned' = learned \o l.seen
        /\ UNCHANGED rotated

\* new_session, before a line is evaluated.
NewSession ==
    LET s == Recorded([g |-> logger, out |-> <<>>], adaptive.last)
    IN  /\ logger' = s.g
        /\ records' = records \o s.out
        /\ rotated' = rotated \union {Len(lines)}
        /\ UNCHANGED <<adaptive, file, lines, learned>>

\* The process is killed and started again.
Restarted(f) ==
    /\ file' = f
    /\ adaptive' = Loaded(f)
    /\ logger' = Idle /\ records' = <<>>
    /\ lines' = <<>> /\ learned' = <<>> /\ rotated' = {}

Restart == Restarted(file)

\* Killed in save(), which has truncated the file: json.load fails.
RestartInSave ==
    /\ \E loss \in Losses, kind \in Kinds : Learns(loss, kind).seen # <<>>
    /\ Restarted(NoFile)

Next ==
    \/ \E loss \in Losses, kind \in Kinds : Line(loss, kind)
    \/ NewSession
    \/ Restart
    \/ RestartInSave

Spec == Init /\ [][Next]_vars

----------------------------------------------------------------------------
Loss(i) == lines[i].loss
Changes == {c \in 1..Len(lines) : lines[c].kind # "none"}
Tracked == {c \in Changes : lines[c].kind # "emergency"}

\* What is kept in s is of the changes in C, once each and in their order.
OneOfEach(s, C) ==
    /\ {s[i].of : i \in DOMAIN s} = C
    /\ \A i, j \in DOMAIN s : i < j => s[i].of < s[j].of

\* The last line of change c's adaptive window: the next tracked change ends
\* it, and its line still counts.
WindowEnd(c) == Min({c + Window} \union {d \in Tracked : d > c})

\* The last line of c's record: the next change or rotation ends it.
RecordEnd(c) ==
    Min({c + LogWindow - 1} \union {d - 1 : d \in {d \in Changes : d > c}}
                            \union {r \in rotated : r >= c})

RecordEnded(c) == RecordEnd(c) <= Len(lines)

WithinBounds == \A p \in Params : adaptive.value[p] \in Param[p].least..Param[p].most

Adaptive == [of: Nat, left: 0..Window, hadLoss: BOOLEAN, last: Nat,
             group: {"mcs_gate", "profile_compute"}, value: [Params -> Int]]
Outcome == [of: Nat, hadLoss: BOOLEAN]
Logger == [of: Nat, left: 0..LogWindow, losses: Seq(Losses)]
Record == [of: Nat, losses: Seq(Losses), adaptive: Nat]

Typed ==
    /\ adaptive \in Adaptive /\ learned \in Seq(Outcome)
    /\ logger \in Logger /\ records \in Seq(Record)
    /\ file \in [Params -> Int] \cup {NoFile}
    /\ lines \in Seq([loss: Losses, kind: Kinds]) /\ rotated \subseteq Nat

\* The two windows, what they have found and the file keep their types, and a
\* learned value stays within its bounds, whatever the outcomes and the file.
TypeOK == Typed /\ WithinBounds

\* Each change but an emergency's is learned from exactly once, in order, and
\* only from the loss of the lines between it and the next.
LearnsFromOwnLines ==
    /\ OneOfEach(learned, {c \in Tracked : WindowEnd(c) <= Len(lines)})
    /\ \A i \in DOMAIN learned :
          learned[i].hadLoss
             <=> \E j \in (learned[i].of + 1)..WindowEnd(learned[i].of) : Loss(j) > 0

\* Each change, an emergency's too, has exactly one record, in order, and the
\* record is of the lines before the next change or rotation.
OneRecordPerChange ==
    /\ OneOfEach(records, {c \in Changes : RecordEnded(c)})
    /\ \A i \in DOMAIN records :
          records[i].losses = [j \in 1..(RecordEnd(records[i].of) - records[i].of + 1) |->
                                  Loss(records[i].of + j - 1)]

\* A process killed between two lines loses nothing of what it had learned,
\* though an earlier one may have been killed within save(): every outcome is
\* in the file before the next line.
RestartKeepsLearned == [][Restart => adaptive'.value = adaptive.value]_vars
=============================================================================
