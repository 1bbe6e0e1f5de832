------------------------- MODULE CommandSlot_proofs -------------------------
(* Proofs about CommandSlot, for any timeout, response buffer and commands. *)
EXTENDS CommandSlot, TLAPS

\* The phases of a shell command.
Shell == {"run", "done", "failed"}

\* What a command's call has in hand, and what it has undone.
ShellInv ==
    phase \in Shell => value \in Value /\ acked = None

\* The time a call has taken is the present select() and the full timeouts
\* before it: of the connection, and of each read so far.
TimeInv ==
    /\ phase = "free" => held = 0
    /\ phase # "receive" => chunks = 0 /\ held <= waited
    /\ phase = "receive" => held <= Timeout * (chunks + 1) + waited

\* A command that ended well has set the device, unless a stray did since.
EffectInv ==
    /\ phase = "done" /\ ~overtaken => device = value
    /\ AckedStays

Inv == TypeOK /\ ShellInv /\ TimeInv /\ EffectInv

LEMMA InitInv == Init => Inv
  <1> SUFFICES ASSUME Init PROVE Inv OBVIOUS
  <1> USE TimeoutAssumption, CommandAssumption DEF Init
  <1>1. TypeOK
    <2>1. 0 \in 0..Timeout /\ 0 \in 0..(MaxChunks - 1)
      OBVIOUS
    <2> QED BY <2>1 DEF TypeOK, Phase
  <1>2. ShellInv /\ TimeInv /\ EffectInv
    BY DEF ShellInv, Shell, TimeInv, EffectInv, AckedStays
  <1> QED BY <1>1, <1>2 DEF Inv

LEMMA TypeStep == Inv /\ [Next]_vars => TypeOK'
  <1> SUFFICES ASSUME Inv, [Next]_vars PROVE TypeOK' OBVIOUS
  <1> USE TimeoutAssumption DEF Inv, TypeOK, Phase, Select, Return
  <1>1. CASE Elapse
    BY <1>1 DEF Elapse
  <1>2. ASSUME NEW v \in Value, Exec(v) PROVE TypeOK'
    BY <1>2 DEF Exec
  <1>3. CASE ChildEnds
    BY <1>3 DEF ChildEnds
  <1>4. CASE Reap
    BY <1>4 DEF Reap, Status
  <1>5. CASE Kill
    BY <1>5 DEF Kill, ShellInv, Shell
  <1>6. CASE StrayEnds
    BY <1>6 DEF StrayEnds, callVars
  <1>7. CASE Get \/ Connected
    BY <1>7 DEF Get, Connected
  <1>8. CASE Chunk
    BY <1>8 DEF Chunk, Full, Read
  <1>9. CASE Refused \/ Closed \/ GiveUp
    BY <1>9 DEF Refused, Closed, GiveUp
  <1>10. CASE UNCHANGED vars
    BY <1>10 DEF vars, callVars
  <1> QED BY <1>1, <1>2, <1>3, <1>4, <1>5, <1>6, <1>7, <1>8, <1>9, <1>10 DEF Next

LEMMA ShellStep == Inv /\ [Next]_vars => ShellInv'
  <1> SUFFICES ASSUME Inv, [Next]_vars PROVE ShellInv' OBVIOUS
  <1> USE DEF Inv, ShellInv, Shell, Select, Return
  <1>1. ASSUME NEW v \in Value, Exec(v) PROVE ShellInv'
    BY <1>1 DEF Exec
  <1>2. CASE ChildEnds
    BY <1>2 DEF ChildEnds
  <1>3. CASE Reap \/ Kill \/ Refused \/ Closed \/ GiveUp
    BY <1>3 DEF Reap, Kill, Refused, Closed, GiveUp
  <1>4. CASE Get \/ Connected \/ Chunk
    BY <1>4 DEF Get, Connected, Chunk
  <1>5. CASE Elapse \/ StrayEnds \/ UNCHANGED vars
    BY <1>5 DEF Elapse, StrayEnds, vars, callVars
  <1> QED BY <1>1, <1>2, <1>3, <1>4, <1>5 DEF Next

LEMMA TimeStep == Inv /\ [Next]_vars => TimeInv'
  <1> SUFFICES ASSUME Inv, [Next]_vars PROVE TimeInv' OBVIOUS
  <1> USE TimeoutAssumption DEF Inv, TypeOK, TimeInv, Select
  <1>1. CASE Elapse
    <2>1. Timeout * (chunks + 1) \in Nat
      OBVIOUS
    <2> QED BY <1>1, <2>1 DEF Elapse, Waiting
  <1>2. ASSUME NEW v \in Value, Exec(v) PROVE TimeInv'
    BY <1>2 DEF Exec
  <1>3. CASE ChildEnds \/ StrayEnds \/ UNCHANGED vars
    BY <1>3 DEF ChildEnds, StrayEnds, vars, callVars
  <1>4. CASE Reap \/ Kill \/ Refused \/ Closed \/ GiveUp
    BY <1>4 DEF Reap, Kill, Refused, Closed, GiveUp, Return
  <1>5. CASE Get
    BY <1>5 DEF Get
  <1>6. CASE Connected
    BY <1>6 DEF Connected
  <1>7. CASE Chunk
    <2>1. CASE Full
      BY <1>7, <2>1 DEF Chunk, Return
    <2>2. CASE ~Full
      <3>1. phase' = "receive" /\ waited' = 0 /\ chunks' = chunks + 1 /\ held' = held
            /\ phase = "receive"
        BY <1>7, <2>2 DEF Chunk, Read
      <3>2. Timeout * (chunks' + 1) = Timeout * (chunks + 1) + Timeout
        BY <3>1
      <3>3. held <= Timeout * (chunks + 1) + waited /\ waited <= Timeout
            /\ Timeout * (chunks + 1) \in Nat
        BY <3>1
      <3>4. held' <= Timeout * (chunks' + 1) + waited'
        BY <3>1, <3>2, <3>3
      <3> QED BY <3>1, <3>4
    <2> QED BY <2>1, <2>2
  <1> QED BY <1>1, <1>2, <1>3, <1>4, <1>5, <1>6, <1>7 DEF Next

LEMMA EffectStep == Inv /\ [Next]_vars => EffectInv'
  <1> SUFFICES ASSUME Inv, [Next]_vars PROVE EffectInv' OBVIOUS
  <1> USE CommandAssumption DEF Inv, EffectInv, AckedStays, Select, Return
  <1>1. ASSUME NEW v \in Value, Exec(v) PROVE EffectInv'
    BY <1>1 DEF Exec
  <1>2. CASE ChildEnds
    BY <1>2 DEF ChildEnds, ShellInv, Shell
  <1>3. CASE Reap
    BY <1>3 DEF Reap, Status
  <1>4. CASE Kill \/ Refused \/ Closed \/ GiveUp
    BY <1>4 DEF Kill, Refused, Closed, GiveUp
  <1>5. CASE StrayEnds
    BY <1>5 DEF StrayEnds
  <1>6. CASE Get \/ Connected \/ Chunk
    BY <1>6 DEF Get, Connected, Chunk
  <1>7. CASE Elapse \/ UNCHANGED vars
    BY <1>7 DEF Elapse, vars, callVars
  <1> QED BY <1>1, <1>2, <1>3, <1>4, <1>5, <1>6, <1>7 DEF Next

LEMMA AlwaysInv == Spec => []Inv
  <1>1. Inv /\ [Next]_vars => Inv'
    BY TypeStep, ShellStep, TimeStep, EffectStep DEF Inv
  <1> QED BY <1>1, InitInv, PTL DEF Spec

----------------------------------------------------------------------------
\* The variables keep their types: a response never outgrows its buffer.
THEOREM TypeCorrect == Spec => []TypeOK
  BY AlwaysInv, PTL DEF Inv

\* Whatever the camera, the command or the network do, a call gives exec_mutex
\* back within one timeout for the connection and one for every read.
THEOREM CallsAlwaysBounded == Spec => []CallsBounded
  <1>1. Inv => CallsBounded
    <2> SUFFICES ASSUME Inv PROVE CallsBounded OBVIOUS
    <2> USE TimeoutAssumption DEF Inv, TypeOK, TimeInv
    <2>1. chunks + 1 <= MaxChunks /\ waited <= Timeout
      OBVIOUS
    <2>2. Timeout * (chunks + 1) <= Timeout * MaxChunks
      BY <2>1
    <2>3. Timeout * (MaxChunks + 1) = Timeout * MaxChunks + Timeout
          /\ Timeout * MaxChunks \in Nat
      OBVIOUS
    <2>4. CASE phase = "receive"
      BY <2>1, <2>2, <2>3, <2>4 DEF CallsBounded
    <2>5. CASE phase # "receive"
      BY <2>1, <2>3, <2>5 DEF CallsBounded
    <2> QED BY <2>4, <2>5
  <1> QED BY <1>1, AlwaysInv, PTL

\* An acknowledged command stays in effect until the next one, or until a
\* command that outlived an earlier call ends.
THEOREM AckedAlwaysStays == Spec => []AckedStays
  <1>1. Inv => AckedStays
    BY DEF Inv, EffectInv
  <1> QED BY <1>1, AlwaysInv, PTL
=============================================================================
