--------------------------- MODULE Outcomes_proofs ---------------------------
(***************************************************************************)
(* Proofs about Outcomes, for windows of any length, any parameters, losses *)
(* and changes, and with no limit on the lines.                             *)
(***************************************************************************)
EXTENDS Outcomes, SequenceTheorems, WellFoundedInduction, TLAPS

----------------------------------------------------------------------------
(* Least elements. *)

LEMMA LeastExists ==
    ASSUME NEW S, S \subseteq Nat, S # {}
    PROVE  Min(S) \in S /\ \A x \in S : Min(S) <= x
  <1>1. PICK t \in S : \A y \in S : ~(<<y, t>> \in OpToRel(<, Nat))
    BY NatLessThanWellFounded, WFMin
  <1>2. \A y \in S : ~(y < t)
    BY <1>1 DEF OpToRel
  <1>3. \A y \in S : t <= y
    BY <1>2
  <1> QED BY <1>1, <1>3 DEF Min

LEMMA LeastAtMost ==
    ASSUME NEW S, S \subseteq Nat, S # {}, NEW n \in Nat
    PROVE  Min(S) <= n <=> \E x \in S : x <= n
  <1>1. Min(S) \in S /\ \A x \in S : Min(S) <= x
    BY LeastExists
  <1>2. ASSUME NEW x \in S, x <= n PROVE Min(S) <= n
    <2>1. Min(S) <= x /\ Min(S) \in Nat /\ x \in Nat
      BY <1>1
    <2> QED BY <1>2, <2>1
  <1> QED BY <1>1, <1>2

\* What joins above the least leaves it.
LEMMA LeastStays ==
    ASSUME NEW S, NEW T, S # {}, S \subseteq T, T \subseteq Nat,
           \A x \in T \ S : x >= Min(S)
    PROVE  Min(T) = Min(S)
  <1>1. S \subseteq Nat /\ T # {}
    OBVIOUS
  <1>2. Min(S) \in S /\ \A x \in S : Min(S) <= x
    BY <1>1, LeastExists
  <1>3. Min(T) \in T /\ \A x \in T : Min(T) <= x
    BY <1>1, LeastExists
  <1>4. Min(T) <= Min(S) /\ Min(S) <= Min(T) /\ Min(S) \in Nat /\ Min(T) \in Nat
    BY <1>1, <1>2, <1>3
  <1> QED BY <1>4

LEMMA PairBounds ==
    ASSUME NEW a \in Int, NEW b \in Int
    PROVE  /\ Min({a, b}) = IF a <= b THEN a ELSE b
           /\ Max({a, b}) = IF a <= b THEN b ELSE a
  <1>1. \E x \in {a, b} : \A y \in {a, b} : x <= y
    OBVIOUS
  <1>2. \E x \in {a, b} : \A y \in {a, b} : x >= y
    OBVIOUS
  <1>3. Min({a, b}) \in {a, b} /\ \A y \in {a, b} : Min({a, b}) <= y
    BY <1>1 DEF Min
  <1>4. Max({a, b}) \in {a, b} /\ \A y \in {a, b} : Max({a, b}) >= y
    BY <1>2 DEF Max
  <1> QED BY <1>3, <1>4

\* A value within its bounds is left, any other is taken to them.
LEMMA ClampBounds ==
    ASSUME NEW p \in Params, NEW v \in Int
    PROVE  /\ Clamp(p, v) \in Param[p].least..Param[p].most
           /\ v \in Param[p].least..Param[p].most => Clamp(p, v) = v
  <1> DEFINE least == Param[p].least
             most == Param[p].most
             below == Min({most, v})
  <1>1. least \in Int /\ most \in Int /\ least <= most
    BY ParamAssumption
  <1>2. Clamp(p, v) = Max({least, below})
    BY DEF Clamp
  <1> HIDE DEF least, most
  <1>3. below = IF most <= v THEN most ELSE v
    BY <1>1, PairBounds
  <1>4. below \in Int
    BY <1>1, <1>3
  <1> HIDE DEF below
  <1>5. Max({least, below}) = IF least <= below THEN below ELSE least
    BY <1>1, <1>4, PairBounds
  <1>6. Clamp(p, v) \in least..most /\ (v \in least..most => Clamp(p, v) = v)
    BY <1>1, <1>2, <1>3, <1>4, <1>5
  <1> QED BY <1>6 DEF least, most

----------------------------------------------------------------------------
(* The invariant. *)

Now == Len(lines)
Ended == {c \in Tracked : WindowEnd(c) <= Now}

\* The adaptive window is that of the last tracked change, until it ends.
WindowInv ==
    /\ adaptive.of = None => adaptive.left = 0 /\ \A c \in Tracked : WindowEnd(c) <= Now
    /\ adaptive.of # None =>
          /\ adaptive.of \in Tracked
          /\ \A c \in Tracked : c <= adaptive.of /\ (c # adaptive.of => WindowEnd(c) <= Now)
          /\ adaptive.left > 0 /\ adaptive.left = adaptive.of + Window - Now
          /\ adaptive.hadLoss <=> \E j \in (adaptive.of + 1)..Now : Loss(j) > 0

\* The record begun is that of the last change, of the lines since.
LogInv ==
    /\ logger.of = None => \A c \in Changes : RecordEnded(c)
    /\ logger.of # None =>
          /\ logger.of \in Changes
          /\ \A c \in Changes : c <= logger.of /\ (c # logger.of => RecordEnded(c))
          /\ \A r \in rotated : r < logger.of
          /\ logger.left > 0 /\ logger.left = logger.of + LogWindow - 1 - Now
          /\ logger.losses = [j \in 1..(Now - logger.of + 1) |-> Loss(logger.of + j - 1)]

\* The file holds what a restart would not find in the configuration.
FileInv ==
    \A p \in Params :
        adaptive.value[p] = IF p \in DOMAIN file THEN file[p] ELSE Param[p].start

RotatedInv == \A r \in rotated : r <= Now

----------------------------------------------------------------------------
(* Lists of one entry for each change. *)

LEMMA AppendEntries ==
    ASSUME NEW R, NEW s \in Seq(R), NEW e \in R
    PROVE  /\ Append(s, e) \in Seq(R) /\ DOMAIN Append(s, e) = DOMAIN s \cup {Len(s) + 1}
           /\ DOMAIN s = 1..Len(s) /\ Len(s) \in Nat
           /\ \A i \in DOMAIN s : Append(s, e)[i] = s[i]
           /\ Append(s, e)[Len(s) + 1] = e
  <1>1. Append(s, e) \in Seq(R) /\ Len(Append(s, e)) = Len(s) + 1
        /\ \A i \in 1..Len(s) : Append(s, e)[i] = s[i]
        /\ Append(s, e)[Len(s) + 1] = e
    BY AppendProperties
  <1>2. Len(s) \in Nat /\ DOMAIN s = 1..Len(s) /\ DOMAIN Append(s, e) = 1..(Len(s) + 1)
    BY <1>1, LenProperties
  <1> QED BY <1>1, <1>2

LEMMA OneMore ==
    ASSUME NEW R, NEW s \in Seq(R), NEW e \in R, NEW C, OneOfEach(s, C),
           \A c \in C : c < e.of
    PROVE  OneOfEach(Append(s, e), C \cup {e.of})
  <1> DEFINE t == Append(s, e)
  <1>1. /\ DOMAIN t = DOMAIN s \cup {Len(s) + 1} /\ DOMAIN s = 1..Len(s) /\ Len(s) \in Nat
        /\ (\A i \in DOMAIN s : t[i] = s[i]) /\ t[Len(s) + 1] = e
    BY AppendEntries
  <1> HIDE DEF t
  <1>2. {t[i].of : i \in DOMAIN t} = C \cup {e.of}
    BY <1>1 DEF OneOfEach
  <1>3. ASSUME NEW i \in DOMAIN t, NEW j \in DOMAIN t, i < j PROVE t[i].of < t[j].of
    <2>1. i \in DOMAIN s
      BY <1>1, <1>3
    <2>2. s[i].of \in C
      BY <2>1 DEF OneOfEach
    <2>3. CASE j \in DOMAIN s
      BY <1>1, <1>3, <2>1, <2>3 DEF OneOfEach
    <2>4. CASE j = Len(s) + 1
      BY <1>1, <2>1, <2>2, <2>4
    <2> QED BY <1>1, <2>3, <2>4
  <1> QED BY <1>2, <1>3 DEF OneOfEach, t

LEMMA ConcatAppend ==
    ASSUME NEW R, NEW s \in Seq(R), NEW t \in Seq(R), NEW e \in R
    PROVE  /\ s \o <<>> = s /\ s \o Append(t, e) = Append(s \o t, e)
           /\ s \o t \in Seq(R)
  <1>1. <<e>> \in Seq(R) /\ s \o t \in Seq(R)
    BY ConcatProperties
  <1>2. Append(t, e) = t \o <<e>> /\ Append(s \o t, e) = (s \o t) \o <<e>>
    BY <1>1, AppendIsConcat
  <1>3. s \o (t \o <<e>>) = (s \o t) \o <<e>>
    BY <1>1, ConcatAssociative
  <1> QED BY <1>1, <1>2, <1>3, ConcatEmptySeq

----------------------------------------------------------------------------
(* What a line does to the adaptive window. *)

LEMMA UpdatedBounds ==
    ASSUME NEW p \in Params, NEW v \in Int, NEW hadLoss \in BOOLEAN
    PROVE  Updated(p, v, hadLoss) \in Param[p].least..Param[p].most
  <1> DEFINE d == Param[p].onBad * (IF hadLoss THEN Param[p].up ELSE -Param[p].down)
  <1>1. Param[p].onBad \in {-1, 1} /\ Param[p].up \in Int /\ Param[p].down \in Int
    BY ParamAssumption
  <1>2. d \in Int
    BY <1>1
  <1> HIDE DEF d
  <1>3. Clamp(p, v + d) \in Param[p].least..Param[p].most
    BY <1>2, ClampBounds
  <1> QED BY <1>3 DEF Updated, d

\* A value stays as it is or is taken within its bounds.
Moved(a, b) ==
    \A p \in Params : b.value[p] = a.value[p] \/ b.value[p] \in Param[p].least..Param[p].most

LEMMA FinalizedParts ==
    ASSUME NEW s, s.a \in Adaptive, s.seen = <<>>
    PROVE  LET f == Finalized(s)
           IN  /\ f.a \in Adaptive /\ f.a.of = None /\ f.a.left = 0 /\ f.a.last = s.a.of
               /\ f.a.hadLoss = FALSE
               /\ f.seen = <<[of |-> s.a.of, hadLoss |-> s.a.hadLoss]>>
               /\ Moved(s.a, f.a)
  <1> DEFINE a == s.a
             value == [p \in Params |-> IF Param[p].group = a.group
                                        THEN Updated(p, a.value[p], a.hadLoss)
                                        ELSE a.value[p]]
             b == [a EXCEPT !.of = None, !.left = 0, !.hadLoss = FALSE, !.last = a.of,
                            !.value = value]
  <1>1. /\ a.of \in Nat /\ a.hadLoss \in BOOLEAN /\ a.value \in [Params -> Int]
        /\ a \in Adaptive
    BY DEF Adaptive
  <1>2. ASSUME NEW p \in Params
        PROVE  value[p] \in Int
               /\ (value[p] = a.value[p] \/ value[p] \in Param[p].least..Param[p].most)
    <2>1. a.value[p] \in Int
      BY <1>1
    <2>2. Updated(p, a.value[p], a.hadLoss) \in Param[p].least..Param[p].most
      BY <1>1, <2>1, UpdatedBounds
    <2>3. Param[p].least \in Int /\ Param[p].most \in Int
      BY ParamAssumption
    <2> QED BY <2>1, <2>2, <2>3
  <1>3. value \in [Params -> Int]
    BY <1>2
  <1>4. Finalized(s) = [a |-> b, seen |-> Append(s.seen, [of |-> a.of, hadLoss |-> a.hadLoss])]
    BY DEF Finalized
  <1> HIDE DEF value, a
  <1>7. b = [a EXCEPT !.of = None, !.left = 0, !.hadLoss = FALSE, !.last = a.of,
                      !.value = value]
    OBVIOUS
  <1>8. 0 \in 0..Window /\ None \in Nat /\ FALSE \in BOOLEAN
        /\ a.group \in {"mcs_gate", "profile_compute"}
    BY <1>1, WindowAssumption DEF None, Adaptive
  <1> HIDE DEF b
  <1>5. /\ b.of = None /\ b.left = 0 /\ b.hadLoss = FALSE /\ b.last = a.of /\ b.value = value
        /\ b.group = a.group
        /\ b \in Adaptive
    BY <1>1, <1>3, <1>7, <1>8 DEF Adaptive
  <1>6. Append(<<>>, [of |-> a.of, hadLoss |-> a.hadLoss]) = <<[of |-> a.of, hadLoss |-> a.hadLoss]>>
    OBVIOUS
  <1> QED BY <1>2, <1>4, <1>5, <1>6 DEF Moved, a

LEMMA FinalizedIsPair ==
    ASSUME NEW s
    PROVE  Finalized(s) = [a |-> Finalized(s).a, seen |-> Finalized(s).seen]
  BY DEF Finalized

LEMMA TickIsPair ==
    ASSUME NEW loss
    PROVE  LET t == Tick([a |-> adaptive, seen |-> <<>>], loss)
           IN  t = [a |-> t.a, seen |-> t.seen]
  <1> DEFINE s == [a |-> adaptive, seen |-> <<>>]
             t == [s EXCEPT !.a.hadLoss = @ \/ loss > 0, !.a.left = @ - 1]
  <1>0. t = [s EXCEPT !.a.hadLoss = @ \/ loss > 0, !.a.left = @ - 1] /\ s \in [a : {adaptive}, seen : {<<>>}]
    OBVIOUS
  <1> HIDE DEF s, t
  <1>1. t = [a |-> t.a, seen |-> t.seen] /\ s = [a |-> s.a, seen |-> s.seen]
    BY <1>0
  <1>2. Tick(s, loss) \in {s, t, Finalized(t)}
    BY DEF Tick, s, t
  <1>3. Tick(s, loss) = [a |-> Tick(s, loss).a, seen |-> Tick(s, loss).seen]
    BY <1>1, <1>2, FinalizedIsPair
  <1> QED BY <1>3 DEF s

Tracks(kind) == kind \in {"mcs", "params"}

\* Whether the window open ends on a line of that kind.
Ends(kind) == adaptive.of # None /\ (adaptive.left = 1 \/ Tracks(kind))

LossSo(loss) == adaptive.hadLoss \/ loss > 0

LEMMA TickParts ==
    ASSUME adaptive \in Adaptive, adaptive.of # None => adaptive.left > 0, NEW loss \in Losses
    PROVE  LET t == Tick([a |-> adaptive, seen |-> <<>>], loss)
               ends == adaptive.of # None /\ adaptive.left = 1
           IN  /\ t.a \in Adaptive /\ Moved(adaptive, t.a)
               /\ ~ends => t.seen = <<>> /\ t.a.of = adaptive.of /\ t.a.value = adaptive.value
               /\ ends => /\ t.a.of = None /\ t.a.left = 0
                          /\ t.seen = <<[of |-> adaptive.of, hadLoss |-> LossSo(loss)]>>
               /\ adaptive.of # None /\ ~ends =>
                      t.a.left = adaptive.left - 1 /\ t.a.left > 0 /\ t.a.hadLoss = LossSo(loss)
               /\ adaptive.of = None => t.a = adaptive
  <1> DEFINE s == [a |-> adaptive, seen |-> <<>>]
             t == [s EXCEPT !.a.hadLoss = @ \/ loss > 0, !.a.left = @ - 1]
             b == [adaptive EXCEPT !.hadLoss = @ \/ loss > 0, !.left = @ - 1]
  <1>1. /\ adaptive.of \in Nat /\ adaptive.left \in 0..Window /\ adaptive.value \in [Params -> Int]
        /\ adaptive.hadLoss \in BOOLEAN
    BY DEF Adaptive
  <1>2. CASE adaptive.of = None
    BY <1>2 DEF Tick, Moved
  <1>3. CASE adaptive.of # None
    <2>1. t.a = b /\ t.seen = <<>>
      OBVIOUS
    <2>2. /\ b.of = adaptive.of /\ b.left = adaptive.left - 1 /\ b.hadLoss = LossSo(loss)
          /\ b.value = adaptive.value /\ b \in Adaptive
      <3>1. b = [adaptive EXCEPT !.hadLoss = LossSo(loss), !.left = adaptive.left - 1]
        BY DEF LossSo
      <3>2. adaptive.left - 1 \in 0..Window /\ LossSo(loss) \in BOOLEAN /\ adaptive.last \in Nat
            /\ adaptive.group \in {"mcs_gate", "profile_compute"}
        BY <1>1, <1>3, WindowAssumption DEF Adaptive, LossSo
      <3> HIDE DEF b
      <3> QED BY <1>1, <3>1, <3>2 DEF Adaptive
    <2>3. Tick(s, loss) = IF t.a.left = 0 THEN Finalized(t) ELSE t
      BY <1>3 DEF Tick
    <2> HIDE DEF t, b
    <2>4. CASE adaptive.left = 1
      <3>1. Tick(s, loss) = Finalized(t)
        BY <2>1, <2>2, <2>3, <2>4
      <3> QED BY <1>3, <2>1, <2>2, <2>4, <3>1, FinalizedParts DEF Moved
    <2>5. CASE adaptive.left # 1
      <3>1. Tick(s, loss) = t
        BY <1>1, <2>1, <2>2, <2>3, <2>5
      <3> QED BY <1>1, <1>3, <2>1, <2>2, <2>5, <3>1 DEF Moved
    <2> QED BY <2>4, <2>5
  <1> QED BY <1>2, <1>3

LEMMA LearnsParts ==
    ASSUME adaptive \in Adaptive, adaptive.of # None => adaptive.left > 0,
           NEW loss \in Losses, NEW kind \in Kinds, Len(lines) \in Nat
    PROVE  LET l == Learns(loss, kind)
           IN  /\ l.a \in Adaptive /\ Moved(adaptive, l.a)
               /\ ~Ends(kind) => l.seen = <<>> /\ l.a.value = adaptive.value
               /\ Ends(kind) => l.seen = <<[of |-> adaptive.of, hadLoss |-> LossSo(loss)]>>
               /\ Tracks(kind) =>
                      /\ l.a.of = Len(lines) + 1 /\ l.a.left = Window
                      /\ l.a.hadLoss = FALSE
               /\ ~Tracks(kind) /\ Ends(kind) => l.a.of = None /\ l.a.left = 0
               /\ ~Tracks(kind) /\ ~Ends(kind) =>
                      /\ l.a.of = adaptive.of
                      /\ adaptive.of = None => l.a.left = adaptive.left
                      /\ adaptive.of # None =>
                            /\ l.a.left = adaptive.left - 1 /\ l.a.left > 0
                            /\ l.a.hadLoss = LossSo(loss)
  <1> DEFINE m == Len(lines) + 1
             t == Tick([a |-> adaptive, seen |-> <<>>], loss)
             u == IF t.a.of = None THEN t ELSE Finalized(t)
             l == Learns(loss, kind)
  <1>1. l = Changed(t, kind, m)
    BY DEF Learns
  <1>2. adaptive.hadLoss \in BOOLEAN /\ adaptive.of \in Nat
    BY DEF Adaptive
  <1>3. /\ t.a \in Adaptive /\ Moved(adaptive, t.a)
        /\ ~(adaptive.of # None /\ adaptive.left = 1) =>
              t.seen = <<>> /\ t.a.of = adaptive.of /\ t.a.value = adaptive.value
        /\ adaptive.of # None /\ adaptive.left = 1 =>
              /\ t.a.of = None /\ t.a.left = 0
              /\ t.seen = <<[of |-> adaptive.of, hadLoss |-> LossSo(loss)]>>
        /\ adaptive.of # None /\ ~(adaptive.of # None /\ adaptive.left = 1) =>
              t.a.left = adaptive.left - 1 /\ t.a.left > 0 /\ t.a.hadLoss = LossSo(loss)
        /\ adaptive.of = None => t.a = adaptive
    BY TickParts
  <1> HIDE DEF t
  <1>4. CASE ~Tracks(kind)
    <2>1. l = t
      BY <1>1, <1>4 DEF Changed, Tracks
    <2> QED BY <1>2, <1>3, <1>4, <2>1 DEF Ends
  <1>5. CASE Tracks(kind)
    <2>1. u.a \in Adaptive /\ Moved(adaptive, u.a)
          /\ (Ends(kind) => u.seen = <<[of |-> adaptive.of, hadLoss |-> LossSo(loss)]>>)
          /\ (~Ends(kind) => u.seen = <<>> /\ u.a.value = adaptive.value)
      <3>1. CASE t.a.of = None
        BY <1>3, <1>5, <3>1 DEF Ends
      <3>2. CASE t.a.of # None
        <4>1. /\ t.seen = <<>> /\ t.a.of = adaptive.of /\ t.a.hadLoss = LossSo(loss)
              /\ Ends(kind) /\ t.a.value = adaptive.value
          BY <1>3, <1>5, <3>2 DEF Ends
        <4>2. u.a \in Adaptive /\ Moved(t.a, u.a)
              /\ u.seen = <<[of |-> t.a.of, hadLoss |-> t.a.hadLoss]>>
          BY <1>3, <3>2, <4>1, FinalizedParts
        <4>3. Moved(adaptive, u.a)
          BY <4>1, <4>2 DEF Moved
        <4> QED BY <4>1, <4>2, <4>3
      <3> QED BY <3>1, <3>2
    <2> DEFINE group == IF kind = "mcs" THEN "mcs_gate" ELSE "profile_compute"
    <2>2. l = [u EXCEPT !.a.of = m, !.a.left = Window, !.a.hadLoss = FALSE, !.a.group = group]
      BY <1>1, <1>5 DEF Changed, Tracks
    <2>3. u = [a |-> u.a, seen |-> u.seen]
      BY <1>3, FinalizedIsPair, TickIsPair DEF t
    <2> HIDE DEF u
    <2>4. l.seen = u.seen
          /\ l.a = [u.a EXCEPT !.of = m, !.left = Window, !.hadLoss = FALSE, !.group = group]
      BY <2>2, <2>3
    <2>5. l.a \in Adaptive /\ l.a.of = m /\ l.a.left = Window /\ l.a.hadLoss = FALSE
          /\ l.a.value = u.a.value
      <3>1. l.a = [of |-> m, left |-> Window, hadLoss |-> FALSE, last |-> u.a.last,
                   group |-> group, value |-> u.a.value]
        BY <2>1, <2>4 DEF Adaptive
      <3>2. /\ m \in Nat /\ Window \in 0..Window /\ FALSE \in BOOLEAN
            /\ group \in {"mcs_gate", "profile_compute"}
            /\ u.a.last \in Nat /\ u.a.value \in [Params -> Int]
        BY <2>1, WindowAssumption DEF Adaptive
      <3> HIDE DEF l, m, group
      <3> QED BY <3>1, <3>2 DEF Adaptive
    <2>6. Moved(adaptive, l.a)
      BY <2>1, <2>5 DEF Moved
    <2> QED BY <1>5, <2>1, <2>4, <2>5, <2>6
  <1> QED BY <1>4, <1>5

----------------------------------------------------------------------------
(* What is learned. *)

LEMMA LineHistory ==
    ASSUME Typed, NEW loss \in Losses, NEW kind \in Kinds, Line(loss, kind)
    PROVE  /\ Now \in Nat /\ Now' = Now + 1
           /\ \A j \in 1..Now : lines'[j] = lines[j]
           /\ lines'[Now + 1].loss = loss
           /\ Changes' = IF kind = "none" THEN Changes ELSE Changes \cup {Now + 1}
           /\ Tracked' = IF Tracks(kind) THEN Tracked \cup {Now + 1} ELSE Tracked
           /\ Tracked \subseteq Changes /\ Changes \subseteq 1..Now
  <1> DEFINE e == [loss |-> loss, kind |-> kind]
  <1>1. lines' = Append(lines, e) /\ lines \in Seq([loss : Losses, kind : Kinds])
        /\ e \in [loss : Losses, kind : Kinds]
    BY DEF Line, Typed
  <1>2. e.loss = loss /\ e.kind = kind
    OBVIOUS
  <1> HIDE DEF e
  <1>3. /\ Len(lines') = Len(lines) + 1 /\ Len(lines) \in Nat
        /\ \A j \in 1..Len(lines) : lines'[j] = lines[j]
        /\ lines'[Len(lines) + 1] = e
    BY <1>1, AppendProperties, LenProperties
  <1>4. Changes' = IF kind = "none" THEN Changes ELSE Changes \cup {Now + 1}
    <2>1. \A c : c \in 1..Len(lines') <=> c \in 1..Len(lines) \/ c = Len(lines) + 1
      BY <1>3
    <2> QED BY <1>2, <1>3, <2>1 DEF Changes, Now
  <1>5. Changes \subseteq 1..Now /\ Tracked \subseteq Changes
    BY DEF Changes, Tracked, Now
  <1>6. Tracked' = IF Tracks(kind) THEN Tracked \cup {Now + 1} ELSE Tracked
    <2>1. \A c \in Changes : lines'[c] = lines[c]
      BY <1>3, <1>5 DEF Now
    <2>2. Tracks(kind) <=> kind # "none" /\ kind # "emergency"
      BY DEF Tracks, Kinds
    <2>3. Tracked' = {c \in Changes' : lines'[c].kind # "emergency"}
      BY DEF Tracked
    <2> QED BY <1>2, <1>3, <1>4, <2>1, <2>2, <2>3 DEF Tracked, Now
  <1> QED BY <1>2, <1>3, <1>4, <1>5, <1>6 DEF Now

\* Where a window from c ends among the tracked changes T.
EndAmong(c, T) == Min({c + Window} \union {d \in T : d > c})

LEMMA EndIs ==
    ASSUME NEW c \in Nat, NEW T, T \subseteq Nat
    PROVE  /\ EndAmong(c, T) \in Nat /\ EndAmong(c, T) > c
           /\ \A n \in Nat : EndAmong(c, T) <= n
                                <=> c + Window <= n \/ \E d \in T : d > c /\ d <= n
  <1> DEFINE S == {c + Window} \union {d \in T : d > c}
  <1>0. c + Window \in Nat /\ c + Window > c /\ \A d \in T : d \in Nat
    BY WindowAssumption
  <1>1. S \subseteq Nat /\ S # {} /\ \A x \in S : x > c
    BY <1>0
  <1>2. Min(S) \in S
    BY <1>1, LeastExists
  <1>3. ASSUME NEW n \in Nat PROVE Min(S) <= n <=> \E x \in S : x <= n
    BY <1>1, LeastAtMost
  <1> QED BY <1>1, <1>2, <1>3 DEF EndAmong

LEMMA EndStays ==
    ASSUME NEW c \in Nat, NEW T, NEW U, T \subseteq U, U \subseteq Nat, NEW n \in Nat,
           EndAmong(c, T) <= n, \A d \in U \ T : d > n
    PROVE  EndAmong(c, U) = EndAmong(c, T)
  <1> DEFINE S(V) == {c + Window} \union {d \in V : d > c}
  <1>0. c + Window \in Nat /\ \A d \in U : d \in Nat
    BY WindowAssumption
  <1>1. S(T) # {} /\ S(T) \subseteq S(U) /\ S(U) \subseteq Nat
    BY <1>0
  <1>2. ASSUME NEW x \in S(U) \ S(T) PROVE x >= Min(S(T))
    <2>1. x > n /\ x \in Nat
      BY <1>2
    <2>2. EndAmong(c, T) = Min(S(T)) /\ EndAmong(c, T) \in Nat
      BY EndIs DEF EndAmong
    <2> QED BY <2>1, <2>2
  <1> HIDE DEF S
  <1>3. Min(S(U)) = Min(S(T))
    BY <1>1, <1>2, LeastStays
  <1> QED BY <1>3 DEF EndAmong, S

LEMMA EndsAmongTracked ==
    /\ \A c : WindowEnd(c) = EndAmong(c, Tracked)
    /\ \A c : WindowEnd(c)' = EndAmong(c, Tracked')
  BY DEF WindowEnd, EndAmong

\* A line leaves the windows that have ended before it, and one ends on it just if
\* the adaptive window does.
LEMMA LineEnds ==
    ASSUME Typed, WindowInv, NEW loss \in Losses, NEW kind \in Kinds, Line(loss, kind)
    PROVE  /\ \A c \in Tracked : WindowEnd(c) <= Now =>
                  WindowEnd(c)' = WindowEnd(c) /\ WindowEnd(c) \in Nat
           /\ ~(EndAmong(Now + 1, Tracked') <= Now + 1)
           /\ adaptive.of # None =>
                 /\ ~(WindowEnd(adaptive.of) <= Now)
                 /\ Ends(kind) => EndAmong(adaptive.of, Tracked') = Now + 1
                 /\ ~Ends(kind) => ~(EndAmong(adaptive.of, Tracked') <= Now + 1)
  <1>1. /\ Now \in Nat /\ Tracked' \subseteq Nat /\ Tracked \subseteq Tracked' /\ Tracked \subseteq 1..Now
        /\ \A d \in Tracked' \ Tracked : d = Now + 1 /\ Tracks(kind)
        /\ Tracks(kind) => Now + 1 \in Tracked'
    BY LineHistory
  <1>2. ASSUME NEW c \in Tracked, WindowEnd(c) <= Now
        PROVE  WindowEnd(c)' = WindowEnd(c) /\ WindowEnd(c) \in Nat
    <2>1. c \in Nat /\ EndAmong(c, Tracked) <= Now
      BY <1>1, <1>2, EndsAmongTracked
    <2>2. \A d \in Tracked' \ Tracked : d > Now
      BY <1>1
    <2>3. EndAmong(c, Tracked') = EndAmong(c, Tracked)
      BY <1>1, <2>1, <2>2, EndStays
    <2>4. EndAmong(c, Tracked) \in Nat
      BY <1>1, <2>1, EndIs
    <2> QED BY <2>3, <2>4, EndsAmongTracked
  <1>3. ~(EndAmong(Now + 1, Tracked') <= Now + 1)
    <2>1. PICK m \in Nat : m = Now + 1
      BY <1>1
    <2>2. EndAmong(m, Tracked') \in Nat /\ EndAmong(m, Tracked') > m
      BY <1>1, <2>1, EndIs
    <2> QED BY <2>1, <2>2
  <1>4. ASSUME adaptive.of # None
        PROVE  /\ ~(WindowEnd(adaptive.of) <= Now)
               /\ Ends(kind) => EndAmong(adaptive.of, Tracked') = Now + 1
               /\ ~Ends(kind) => ~(EndAmong(adaptive.of, Tracked') <= Now + 1)
    <2> DEFINE of == adaptive.of
    <2>1. /\ of \in 1..Now /\ of \in Tracked /\ (\A d \in Tracked : d <= of)
          /\ adaptive.left > 0 /\ adaptive.left = of + Window - Now
      BY <1>1, <1>4 DEF WindowInv
    <2>2. Ends(kind) <=> adaptive.left = 1 \/ Tracks(kind)
      BY <1>4 DEF Ends
    <2>3. WindowEnd(of) = EndAmong(of, Tracked)
      BY EndsAmongTracked
    <2> HIDE DEF of
    <2>4. of \in Nat /\ Now + 1 \in Nat /\ Tracked \subseteq Nat /\ Window \in Nat
      BY <1>1, <2>1, WindowAssumption
    <2>5. /\ EndAmong(of, Tracked) <= Now
                <=> of + Window <= Now \/ \E d \in Tracked : d > of /\ d <= Now
          /\ EndAmong(of, Tracked') <= Now
                <=> of + Window <= Now \/ \E d \in Tracked' : d > of /\ d <= Now
          /\ EndAmong(of, Tracked') <= Now + 1
                <=> of + Window <= Now + 1 \/ \E d \in Tracked' : d > of /\ d <= Now + 1
          /\ EndAmong(of, Tracked') \in Nat
      BY <1>1, <2>4, EndIs
    <2>6. ~(\E d \in Tracked : d > of) /\ ~(of + Window <= Now)
      BY <1>1, <2>1, <2>4
    <2>7. ~(\E d \in Tracked' : d > of /\ d <= Now)
      BY <1>1, <2>6
    <2>8. of + Window <= Now + 1 <=> adaptive.left = 1
      BY <1>1, <2>1, <2>4
    <2>9. (\E d \in Tracked' : d > of /\ d <= Now + 1) <=> Tracks(kind)
      BY <1>1, <2>1, <2>6
    <2>10. ~(EndAmong(of, Tracked) <= Now) /\ ~(EndAmong(of, Tracked') <= Now)
      BY <2>5, <2>6, <2>7
    <2>11. EndAmong(of, Tracked') <= Now + 1 <=> Ends(kind)
      BY <2>2, <2>5, <2>8, <2>9
    <2>12. Ends(kind) => EndAmong(of, Tracked') = Now + 1
      BY <1>1, <2>5, <2>10, <2>11
    <2> QED BY <2>3, <2>10, <2>11, <2>12 DEF of
  <1> QED BY <1>2, <1>3, <1>4

\* The loss an open window has seen, that of the line included.
LEMMA LossIsWindows ==
    ASSUME Typed, WindowInv, NEW loss \in Losses, NEW kind \in Kinds, Line(loss, kind),
           adaptive.of # None
    PROVE  LossSo(loss) <=> \E j \in (adaptive.of + 1)..(Now + 1) : lines'[j].loss > 0
  <1> DEFINE of == adaptive.of
  <1>1. Now \in Nat /\ of \in 1..Now /\ (\A j \in 1..Now : lines'[j] = lines[j])
        /\ lines'[Now + 1].loss = loss
    BY LineHistory DEF WindowInv
  <1>2. adaptive.hadLoss <=> \E j \in (of + 1)..Now : lines[j].loss > 0
    BY DEF WindowInv, Loss
  <1> HIDE DEF of
  <1>3. \A j : j \in (of + 1)..(Now + 1) <=> j \in (of + 1)..Now \/ j = Now + 1
    BY <1>1
  <1>4. \A j \in (of + 1)..Now : lines'[j] = lines[j]
    BY <1>1
  <1> QED BY <1>1, <1>2, <1>3, <1>4 DEF LossSo, of

LEMMA LineLearns ==
    ASSUME Typed, WindowInv, NEW loss \in Losses, NEW kind \in Kinds, Line(loss, kind)
    PROVE  /\ adaptive' \in Adaptive /\ Moved(adaptive, adaptive')
           /\ ~Ends(kind) => UNCHANGED <<learned, file>> /\ adaptive'.value = adaptive.value
           /\ Ends(kind) =>
                 /\ learned' = Append(learned, [of |-> adaptive.of, hadLoss |-> LossSo(loss)])
                 /\ file' = adaptive'.value
           /\ Tracks(kind) =>
                 /\ adaptive'.of = Now + 1 /\ adaptive'.left = Window
                 /\ adaptive'.hadLoss = FALSE
           /\ ~Tracks(kind) /\ Ends(kind) => adaptive'.of = None /\ adaptive'.left = 0
           /\ ~Tracks(kind) /\ ~Ends(kind) =>
                 /\ adaptive'.of = adaptive.of
                 /\ adaptive.of = None => adaptive'.left = adaptive.left
                 /\ adaptive.of # None =>
                       /\ adaptive'.left = adaptive.left - 1 /\ adaptive'.left > 0
                       /\ adaptive'.hadLoss = LossSo(loss)
  <1> DEFINE l == Learns(loss, kind)
             e == [of |-> adaptive.of, hadLoss |-> LossSo(loss)]
  <1>1. /\ l.a = adaptive' /\ learned' = learned \o l.seen
        /\ file' = IF l.seen = <<>> THEN file ELSE l.a.value
    BY DEF Line, Saved
  <1>2. adaptive \in Adaptive /\ Len(lines) \in Nat /\ learned \in Seq(Outcome)
    BY LenProperties DEF Typed
  <1>3. adaptive.of # None => adaptive.left > 0
    BY DEF WindowInv
  <1>4. /\ l.a \in Adaptive /\ Moved(adaptive, l.a)
        /\ ~Ends(kind) => l.seen = <<>> /\ l.a.value = adaptive.value
        /\ Ends(kind) => l.seen = <<e>>
        /\ Tracks(kind) =>
               /\ l.a.of = Len(lines) + 1 /\ l.a.left = Window
               /\ l.a.hadLoss = FALSE
        /\ ~Tracks(kind) /\ Ends(kind) => l.a.of = None /\ l.a.left = 0
        /\ ~Tracks(kind) /\ ~Ends(kind) =>
               /\ l.a.of = adaptive.of
               /\ adaptive.of = None => l.a.left = adaptive.left
               /\ adaptive.of # None =>
                     /\ l.a.left = adaptive.left - 1 /\ l.a.left > 0
                     /\ l.a.hadLoss = LossSo(loss)
    BY <1>2, <1>3, LearnsParts
  <1> HIDE DEF l
  <1>5. learned \o <<>> = learned
    BY <1>2, ConcatEmptySeq
  <1>6. learned \o <<e>> = Append(learned, e)
    <2>1. e \in Outcome
      BY <1>2 DEF Outcome, Adaptive, LossSo
    <2> QED BY <1>2, <2>1, AppendIsConcat
  <1>7. <<e>> # <<>>
    OBVIOUS
  <1> HIDE DEF e
  <1> QED BY <1>1, <1>4, <1>5, <1>6, <1>7 DEF Now, e

LEMMA WindowStep ==
    ASSUME Typed, WindowInv, NEW loss \in Losses, NEW kind \in Kinds, Line(loss, kind)
    PROVE  WindowInv'
  <1>1. /\ Now \in Nat /\ Now' = Now + 1 /\ Tracked \subseteq 1..Now
        /\ Tracked' = IF Tracks(kind) THEN Tracked \cup {Now + 1} ELSE Tracked
    BY LineHistory
  <1>2. ASSUME NEW c \in Tracked, WindowEnd(c) <= Now PROVE WindowEnd(c)' <= Now'
    <2>1. WindowEnd(c)' = WindowEnd(c) /\ WindowEnd(c) \in Nat
      BY <1>2, LineEnds
    <2> QED BY <1>1, <1>2, <2>1
  <1>3. ASSUME NEW c \in Tracked, Ends(kind) \/ c # adaptive.of PROVE WindowEnd(c)' <= Now'
    <2>1. CASE WindowEnd(c) <= Now
      BY <1>2, <2>1
    <2>2. CASE ~(WindowEnd(c) <= Now)
      <3>1. c = adaptive.of /\ adaptive.of # None
        BY <2>2 DEF WindowInv
      <3>2. EndAmong(c, Tracked') = Now + 1
        BY <1>3, <3>1, LineEnds
      <3> QED BY <1>1, <3>2, EndsAmongTracked
    <2> QED BY <2>1, <2>2
  <1>4. CASE Tracks(kind)
    <2>1. adaptive'.of = Now' /\ adaptive'.left = Window /\ adaptive'.hadLoss = FALSE
      BY <1>1, <1>4, LineLearns
    <2>2. Now' # None /\ Now' \in Tracked'
      BY <1>1, <1>4 DEF None
    <2>3. ASSUME NEW c \in Tracked' PROVE c <= Now' /\ (c # Now' => WindowEnd(c)' <= Now')
      <3>1. CASE c = Now + 1
        BY <1>1, <3>1
      <3>2. CASE c \in Tracked
        <4>1. Ends(kind) \/ c # adaptive.of
          BY <1>1, <1>4, <3>2 DEF Ends, None
        <4> QED BY <1>1, <1>3, <3>2, <4>1
      <3> QED BY <1>1, <1>4, <3>1, <3>2
    <2>4. Window > 0 /\ Window = Now' + Window - Now'
      BY <1>1, WindowAssumption
    <2>5. (Now' + 1)..Now' = {}
      BY <1>1
    <2> QED BY <2>1, <2>2, <2>3, <2>4, <2>5 DEF WindowInv
  <1>5. CASE ~Tracks(kind)
    <2>1. Tracked' = Tracked
      BY <1>1, <1>5
    <2>2. CASE Ends(kind)
      <3>1. adaptive'.of = None /\ adaptive'.left = 0
        BY <1>5, <2>2, LineLearns
      <3> QED BY <1>3, <2>1, <2>2, <3>1 DEF WindowInv
    <2>3. CASE ~Ends(kind) /\ adaptive.of = None
      <3>1. adaptive'.of = None /\ adaptive'.left = 0
        BY <1>5, <2>3, LineLearns DEF WindowInv
      <3>2. \A c \in Tracked : WindowEnd(c)' <= Now'
        BY <1>2, <2>3 DEF WindowInv
      <3> QED BY <2>1, <3>1, <3>2 DEF WindowInv
    <2>4. CASE ~Ends(kind) /\ adaptive.of # None
      <3>1. /\ adaptive'.of = adaptive.of /\ adaptive'.left = adaptive.left - 1
            /\ adaptive'.left > 0 /\ adaptive'.hadLoss = LossSo(loss)
        BY <1>5, <2>4, LineLearns
      <3>2. adaptive'.left = adaptive'.of + Window - Now'
        <4>1. adaptive.of \in Nat /\ adaptive.left = adaptive.of + Window - Now
          BY <2>4 DEF WindowInv, Typed, Adaptive
        <4> QED BY <1>1, <3>1, <4>1, WindowAssumption
      <3>3. LossSo(loss) <=> \E j \in (adaptive.of + 1)..(Now + 1) : lines'[j].loss > 0
        BY <2>4, LossIsWindows
      <3>4. adaptive'.hadLoss <=> \E j \in (adaptive'.of + 1)..Now' : Loss(j)'  > 0
        BY <1>1, <3>1, <3>3 DEF Loss
      <3>5. \A c \in Tracked' : c <= adaptive'.of /\ (c # adaptive'.of => WindowEnd(c)' <= Now')
        BY <1>3, <2>1, <2>4, <3>1 DEF WindowInv
      <3>6. adaptive'.of # None /\ adaptive'.of \in Tracked'
        BY <2>1, <2>4, <3>1 DEF WindowInv
      <3> QED BY <3>1, <3>2, <3>4, <3>5, <3>6 DEF WindowInv
    <2> QED BY <2>2, <2>3, <2>4
  <1> QED BY <1>4, <1>5

LEMMA LearnsStep ==
    ASSUME Typed, WindowInv, LearnsFromOwnLines,
           NEW loss \in Losses, NEW kind \in Kinds, Line(loss, kind)
    PROVE  LearnsFromOwnLines'
  <1> DEFINE Own(e) == e.hadLoss
                          <=> \E j \in (e.of + 1)..WindowEnd(e.of) : Loss(j) > 0
             e == [of |-> adaptive.of, hadLoss |-> LossSo(loss)]
             next == {c \in Tracked' : EndAmong(c, Tracked') <= Now'}
  <1>1. /\ Now \in Nat /\ Now' = Now + 1 /\ Tracked \subseteq 1..Now
        /\ Tracked' = IF Tracks(kind) THEN Tracked \cup {Now + 1} ELSE Tracked
        /\ \A j \in 1..Now : lines'[j] = lines[j]
    BY LineHistory
  <1>2. \A c \in Ended : EndAmong(c, Tracked') = WindowEnd(c) /\ WindowEnd(c) \in Nat
    BY LineEnds, EndsAmongTracked DEF Ended
  <1>3. OneOfEach(learned, Ended) /\ learned \in Seq(Outcome) /\ DOMAIN learned = 1..Len(learned)
    BY LenProperties DEF LearnsFromOwnLines, Ended, Now, Typed
  <1>4. ASSUME NEW i \in DOMAIN learned
        PROVE  learned[i].hadLoss <=> \E j \in (learned[i].of + 1)..EndAmong(learned[i].of, Tracked') :
                                         lines'[j].loss > 0
    <2> DEFINE of == learned[i].of
    <2>1. of \in Ended
      BY <1>3 DEF OneOfEach
    <2>2. learned[i].hadLoss <=> \E j \in (of + 1)..WindowEnd(of) : lines[j].loss > 0
      BY DEF LearnsFromOwnLines, Loss
    <2>3. of \in 1..Now /\ WindowEnd(of) \in Nat /\ WindowEnd(of) <= Now
      BY <1>1, <1>2, <2>1 DEF Ended
    <2>4. \A j \in (of + 1)..WindowEnd(of) : lines'[j] = lines[j]
      BY <1>1, <2>3
    <2> QED BY <1>2, <2>1, <2>2, <2>4
  <1>5. ASSUME NEW c \in Tracked' PROVE c \in next <=> c \in Ended \/ (c = adaptive.of /\ Ends(kind))
    <2>1. CASE c \in Ended
      <3>1. WindowEnd(c) \in Nat /\ WindowEnd(c) <= Now /\ EndAmong(c, Tracked') = WindowEnd(c)
        BY <1>2, <2>1 DEF Ended
      <3>2. EndAmong(c, Tracked') <= Now'
        BY <1>1, <3>1
      <3> QED BY <2>1, <3>2
    <2>2. CASE c = Now + 1
      <3>1. ~(EndAmong(c, Tracked') <= Now')
        BY <1>1, <2>2, LineEnds
      <3>2. c \notin Ended /\ ~(c = adaptive.of /\ Ends(kind))
        BY <1>1, <2>2 DEF Ended, Ends, WindowInv
      <3> QED BY <3>1, <3>2
    <2>3. CASE c \in Tracked /\ c \notin Ended
      <3>1. c = adaptive.of /\ adaptive.of # None
        BY <2>3 DEF WindowInv, Ended
      <3>2. (Ends(kind) => EndAmong(c, Tracked') = Now + 1)
            /\ (~Ends(kind) => ~(EndAmong(c, Tracked') <= Now + 1))
        BY <3>1, LineEnds
      <3>3. Ends(kind) <=> EndAmong(c, Tracked') <= Now'
        BY <1>1, <3>2
      <3> QED BY <2>3, <3>1, <3>3
    <2> QED BY <1>1, <2>1, <2>2, <2>3
  <1>6. LearnsFromOwnLines'
            <=> /\ OneOfEach(learned', next)
                /\ \A i \in DOMAIN learned' : learned'[i].hadLoss
                      <=> \E j \in (learned'[i].of + 1)..EndAmong(learned'[i].of, Tracked') :
                             lines'[j].loss > 0
    BY DEF LearnsFromOwnLines, OneOfEach, WindowEnd, EndAmong, Loss, Now
  <1>7. Ended \subseteq Tracked'
    BY <1>1 DEF Ended
  <1> HIDE DEF next
  <1>8. next \subseteq Tracked'
    BY DEF next
  <1>9. CASE ~Ends(kind)
    <2>1. learned' = learned
      BY <1>9, LineLearns
    <2>2. next = Ended
      BY <1>5, <1>7, <1>8, <1>9
    <2> QED BY <1>3, <1>4, <1>6, <2>1, <2>2
  <1>10. CASE Ends(kind)
    <2>1. learned' = Append(learned, e) /\ e \in Outcome /\ e.of = adaptive.of
          /\ e.hadLoss = LossSo(loss)
      BY <1>10, LineLearns DEF Outcome, Typed, Adaptive, LossSo
    <2> HIDE DEF e
    <2>2. adaptive.of # None /\ adaptive.of \in Tracked
      BY <1>10 DEF Ends, WindowInv
    <2>3. next = Ended \cup {e.of}
      BY <1>1, <1>5, <1>7, <1>8, <1>10, <2>1, <2>2
    <2>4. ASSUME NEW c \in Ended PROVE c < e.of
      <3>1. c <= adaptive.of /\ c # adaptive.of
        BY <2>2, LineEnds DEF Ended, WindowInv
      <3>2. c \in 1..Now /\ adaptive.of \in 1..Now
        BY <1>1, <2>2, <2>4 DEF Ended
      <3>3. c \in Nat /\ adaptive.of \in Nat
        BY <1>1, <3>2
      <3> QED BY <2>1, <3>1, <3>3
    <2>5. OneOfEach(learned', next)
      BY <1>3, <2>1, <2>3, <2>4, OneMore
    <2>6. EndAmong(e.of, Tracked') = Now + 1
      BY <1>10, <2>1, <2>2, LineEnds
    <2>7. e.hadLoss <=> \E j \in (e.of + 1)..EndAmong(e.of, Tracked') : lines'[j].loss > 0
      BY <2>1, <2>2, <2>6, LossIsWindows
    <2>8. /\ DOMAIN learned' = DOMAIN learned \cup {Len(learned) + 1}
          /\ \A i \in DOMAIN learned : learned'[i] = learned[i]
          /\ learned'[Len(learned) + 1] = e
      BY <1>3, <2>1, AppendEntries
    <2> QED BY <1>4, <1>6, <2>5, <2>7, <2>8
  <1> QED BY <1>9, <1>10

----------------------------------------------------------------------------
(* What a line or a rotation does to the record begun. *)

Entry(g, last) == [of |-> g.of, losses |-> g.losses, adaptive |-> last]

LEMMA RecordedParts ==
    ASSUME NEW s, s \in [g : Logger, out : Seq(Record)], NEW last \in Nat
    PROVE  LET r == Recorded(s, last)
               open == s.g.of # None /\ s.g.losses # <<>>
           IN  /\ r \in [g : Logger, out : Seq(Record)]
               /\ ~open => r = s
               /\ open => /\ r.g.of = None /\ r.out = Append(s.out, Entry(s.g, last))
                          /\ Entry(s.g, last) \in Record
  <1> DEFINE h == [s.g EXCEPT !.of = None, !.losses = <<>>]
             e == Entry(s.g, last)
             r == Recorded(s, last)
  <1>1. s.g \in Logger /\ s.out \in Seq(Record)
    OBVIOUS
  <1>2. h = [s.g EXCEPT !.of = None, !.losses = <<>>]
    OBVIOUS
  <1>3. None \in Nat /\ <<>> \in Seq(Losses)
    BY DEF None
  <1> HIDE DEF h
  <1>4. h \in Logger /\ h.of = None
    BY <1>1, <1>2, <1>3 DEF Logger
  <1>5. e \in Record
    BY <1>1 DEF Entry, Record, Logger
  <1>6. CASE s.g.of # None /\ s.g.losses # <<>>
    <2>1. r = [g |-> h, out |-> Append(s.out, e)]
      BY <1>6 DEF Recorded, h, Entry
    <2>2. Append(s.out, e) \in Seq(Record)
      BY <1>1, <1>5, AppendProperties
    <2> QED BY <1>4, <1>5, <1>6, <2>1, <2>2
  <1>7. CASE ~(s.g.of # None /\ s.g.losses # <<>>)
    BY <1>7 DEF Recorded
  <1> QED BY <1>6, <1>7

LEMMA WatchedParts ==
    ASSUME NEW s, s \in [g : Logger, out : Seq(Record)], NEW loss \in Losses, NEW last \in Nat
    PROVE  LET w == Watched(s, loss, last)
               e == [of |-> s.g.of, losses |-> Append(s.g.losses, loss), adaptive |-> last]
           IN  /\ w \in [g : Logger, out : Seq(Record)]
               /\ s.g.of = None => w.g.of = None /\ w.out = s.out
               /\ s.g.of # None /\ s.g.left > 1 =>
                     /\ w.g.of = s.g.of /\ w.g.left = s.g.left - 1 /\ w.out = s.out
                     /\ w.g.losses = Append(s.g.losses, loss)
               /\ s.g.of # None /\ s.g.left = 1 =>
                     w.g.of = None /\ w.out = Append(s.out, e) /\ e \in Record
  <1> DEFINE t == [s EXCEPT !.g.losses = Append(@, loss), !.g.left = @ - 1]
             h == [s.g EXCEPT !.losses = Append(@, loss), !.left = @ - 1]
             w == Watched(s, loss, last)
             e == [of |-> s.g.of, losses |-> Append(s.g.losses, loss), adaptive |-> last]
  <1>1. s.g \in Logger /\ s.out \in Seq(Record) /\ s.g.left \in 0..LogWindow /\ s.g.of \in Nat
    BY DEF Logger
  <1>2. CASE s.g.left = 0
    BY <1>2 DEF Watched
  <1>3. CASE s.g.left # 0
    <2>0. PICK longer : longer = Append(s.g.losses, loss)
      OBVIOUS
    <2>1. longer \in Seq(Losses) /\ longer # <<>>
      <3>1. s.g.losses \in Seq(Losses)
        BY <1>1 DEF Logger
      <3>2. longer \in Seq(Losses) /\ Len(longer) = Len(s.g.losses) + 1
        BY <2>0, <3>1, AppendProperties
      <3>3. Len(s.g.losses) \in Nat /\ Len(<<>>) = 0
        BY <3>1, LenProperties
      <3> QED BY <3>2, <3>3
    <2>2. s.g.left - 1 \in 0..LogWindow
      BY <1>1, <1>3, WindowAssumption
    <2>3. h = [s.g EXCEPT !.losses = longer, !.left = s.g.left - 1]
      BY <2>0
    <2>4. t = [s EXCEPT !.g.losses = Append(@, loss), !.g.left = @ - 1]
      OBVIOUS
    <2>5. w = IF t.g.left = 0 THEN Recorded(t, last) ELSE t
      BY <1>3 DEF Watched
    <2> HIDE DEF h, w, t
    <2>6. /\ h \in Logger /\ h.of = s.g.of /\ h.losses = longer /\ h.left = s.g.left - 1
      BY <1>1, <2>1, <2>2, <2>3 DEF Logger
    <2>7. t = [g |-> h, out |-> s.out]
      <3>1. t.g = h /\ t.out = s.out /\ t = [g |-> t.g, out |-> t.out]
        BY <2>4 DEF h
      <3> QED BY <3>1
    <2>8. t \in [g : Logger, out : Seq(Record)] /\ t.g = h /\ t.out = s.out
      BY <1>1, <2>6, <2>7
    <2>9. CASE s.g.left = 1
      <3>1. w = Recorded(t, last)
        BY <2>5, <2>6, <2>8, <2>9
      <3>2. Entry(h, last) = e
        BY <2>0, <2>6 DEF Entry
      <3>3. /\ w \in [g : Logger, out : Seq(Record)]
            /\ h.of = None => w = t
            /\ h.of # None => /\ w.g.of = None /\ w.out = Append(s.out, e)
                              /\ e \in Record
        BY <2>1, <2>6, <2>8, <3>1, <3>2, RecordedParts
      <3> HIDE DEF e
      <3>4. s.g.of = None => w.g.of = None /\ w.out = s.out
        BY <2>6, <2>8, <3>3
      <3> QED BY <2>6, <2>9, <3>3, <3>4 DEF w, e
    <2>10. CASE s.g.left > 1
      <3>1. w = t
        BY <1>1, <2>5, <2>6, <2>8, <2>10
      <3> QED BY <2>0, <2>6, <2>8, <2>10, <3>1 DEF w
    <2> QED BY <1>1, <1>3, <2>9, <2>10
  <1> QED BY <1>2, <1>3

\* Where a record from c ends among the changes C and the rotations R.
RecordEndAmong(c, C, R) ==
    Min({c + LogWindow - 1} \union {d - 1 : d \in {d \in C : d > c}} \union {r \in R : r >= c})

LEMMA RecordEndIs ==
    ASSUME NEW c \in Nat \ {0}, NEW C, NEW R, C \subseteq Nat, R \subseteq Nat
    PROVE  /\ RecordEndAmong(c, C, R) \in Nat /\ RecordEndAmong(c, C, R) >= c
           /\ \A n \in Nat : RecordEndAmong(c, C, R) <= n
                                <=> \/ c + LogWindow - 1 <= n
                                    \/ \E d \in C : d > c /\ d - 1 <= n
                                    \/ \E r \in R : r >= c /\ r <= n
  <1> DEFINE S == {c + LogWindow - 1} \union {d - 1 : d \in {d \in C : d > c}}
                                      \union {r \in R : r >= c}
  <1>1. /\ c + LogWindow - 1 \in Nat /\ c + LogWindow - 1 >= c
        /\ \A d \in C : d \in Nat /\ (d > c => d - 1 \in Nat /\ d - 1 >= c)
        /\ \A r \in R : r \in Nat
    BY WindowAssumption
  <1>2. S \subseteq Nat /\ S # {} /\ \A x \in S : x >= c
    BY <1>1
  <1>3. Min(S) \in S
    BY <1>2, LeastExists
  <1>4. ASSUME NEW n \in Nat PROVE Min(S) <= n <=> \E x \in S : x <= n
    BY <1>2, LeastAtMost
  <1> QED BY <1>2, <1>3, <1>4 DEF RecordEndAmong

\* A set of numbers that grew by numbers of n and above.
Grown(C, D, n) == C \subseteq D /\ D \subseteq Nat /\ \A d \in D \ C : d >= n

LEMMA RecordEndStays ==
    ASSUME NEW c \in Nat \ {0}, NEW C, NEW R, NEW D, NEW Q, NEW n \in Nat,
           Grown(C, D, n + 1), Grown(R, Q, n), RecordEndAmong(c, C, R) <= n
    PROVE  RecordEndAmong(c, D, Q) = RecordEndAmong(c, C, R)
  <1> DEFINE S(V, W) == {c + LogWindow - 1} \union {d - 1 : d \in {d \in V : d > c}}
                                            \union {r \in W : r >= c}
  <1>1. c + LogWindow - 1 \in Nat /\ (\A d \in D : d \in Nat /\ (d > c => d - 1 \in Nat))
        /\ \A r \in Q : r \in Nat
    BY WindowAssumption DEF Grown
  <1>2. S(C, R) # {} /\ S(C, R) \subseteq S(D, Q) /\ S(D, Q) \subseteq Nat
    BY <1>1 DEF Grown
  <1>3. ASSUME NEW x \in S(D, Q) \ S(C, R) PROVE x >= Min(S(C, R))
    <2>1. x >= n /\ x \in Nat
      BY <1>1, <1>3 DEF Grown
    <2>2. RecordEndAmong(c, C, R) = Min(S(C, R)) /\ RecordEndAmong(c, C, R) \in Nat
      <3>1. C \subseteq Nat /\ R \subseteq Nat
        BY DEF Grown
      <3> QED BY <3>1, RecordEndIs DEF RecordEndAmong
    <2> QED BY <2>1, <2>2
  <1> HIDE DEF S
  <1>4. Min(S(D, Q)) = Min(S(C, R))
    BY <1>2, <1>3, LeastStays
  <1> QED BY <1>4 DEF RecordEndAmong, S

----------------------------------------------------------------------------
(* What is recorded. *)

\* An entry is of the lines ls from its change on, to the end of its window.
Faithful(e, C, R, ls) ==
    e.losses = [j \in 1..(RecordEndAmong(e.of, C, R) - e.of + 1) |-> ls[e.of + j - 1].loss]

Done == {c \in Changes : RecordEnded(c)}

LEMMA RecordsAmong ==
    /\ \A c : RecordEnd(c) = RecordEndAmong(c, Changes, rotated)
    /\ OneRecordPerChange
          <=> /\ OneOfEach(records, Done)
              /\ \A i \in DOMAIN records : Faithful(records[i], Changes, rotated, lines)
    /\ OneRecordPerChange'
          <=> /\ OneOfEach(records', {c \in Changes' : RecordEndAmong(c, Changes', rotated') <= Now'})
              /\ \A i \in DOMAIN records' : Faithful(records'[i], Changes', rotated', lines')
    /\ Done' = {c \in Changes' : RecordEndAmong(c, Changes', rotated') <= Now'}
  BY DEF OneRecordPerChange, OneOfEach, Done, RecordEnded, RecordEnd, RecordEndAmong, Faithful,
         Loss, Now

\* One more record, of a later change.
LEMMA OneMoreRecord ==
    ASSUME NEW rs \in Seq(Record), NEW D, OneOfEach(rs, D), NEW C, NEW R, NEW ls,
           \A i \in DOMAIN rs : Faithful(rs[i], C, R, ls),
           NEW e \in Record, Faithful(e, C, R, ls), \A c \in D : c < e.of
    PROVE  LET new == Append(rs, e)
           IN  /\ new \in Seq(Record) /\ OneOfEach(new, D \cup {e.of})
               /\ \A i \in DOMAIN new : Faithful(new[i], C, R, ls)
  <1> DEFINE new == Append(rs, e)
  <1>1. OneOfEach(new, D \cup {e.of})
    BY OneMore
  <1>2. /\ new \in Seq(Record) /\ DOMAIN new = DOMAIN rs \cup {Len(rs) + 1}
        /\ \A i \in DOMAIN rs : new[i] = rs[i]
        /\ new[Len(rs) + 1] = e
    BY AppendEntries
  <1> HIDE DEF new
  <1> QED BY <1>1, <1>2 DEF new

\* Lines and rotations leave the records that have ended.
LEMMA RecordsStay ==
    ASSUME Typed, OneRecordPerChange, Now \in Nat, Changes \subseteq 1..Now,
           Grown(Changes, Changes', Now + 1), Grown(rotated, rotated', Now),
           \A j \in 1..Now : lines'[j] = lines[j]
    PROVE  /\ \A c \in Done : RecordEndAmong(c, Changes', rotated') <= Now
           /\ OneOfEach(records, Done)
           /\ \A i \in DOMAIN records : Faithful(records[i], Changes', rotated', lines')
  <1>1. ASSUME NEW c \in Done
        PROVE  /\ RecordEndAmong(c, Changes', rotated') = RecordEndAmong(c, Changes, rotated)
               /\ RecordEndAmong(c, Changes, rotated) \in Nat
               /\ RecordEndAmong(c, Changes, rotated) <= Now /\ c \in 1..Now
    <2>1. c \in 1..Now /\ RecordEndAmong(c, Changes, rotated) <= Now
      BY RecordsAmong DEF Done, RecordEnded, Now
    <2>2. c \in Nat \ {0} /\ Changes \subseteq Nat /\ rotated \subseteq Nat
      BY <2>1 DEF Typed
    <2>3. RecordEndAmong(c, Changes, rotated) \in Nat
      BY <2>2, RecordEndIs
    <2>4. RecordEndAmong(c, Changes', rotated') = RecordEndAmong(c, Changes, rotated)
      BY <2>1, <2>2, RecordEndStays
    <2> QED BY <2>1, <2>3, <2>4
  <1>2. OneOfEach(records, Done)
        /\ \A i \in DOMAIN records : Faithful(records[i], Changes, rotated, lines)
    BY RecordsAmong
  <1>3. ASSUME NEW i \in DOMAIN records
        PROVE  Faithful(records[i], Changes', rotated', lines')
    <2> DEFINE e == records[i]
               last == RecordEndAmong(e.of, Changes, rotated)
    <2>1. e.of \in Done
      BY <1>2 DEF OneOfEach
    <2>2. /\ RecordEndAmong(e.of, Changes', rotated') = last /\ last \in Nat
          /\ last <= Now /\ e.of \in 1..Now
      BY <1>1, <2>1
    <2>3. e.losses = [j \in 1..(last - e.of + 1) |-> lines[e.of + j - 1].loss]
      BY <1>2 DEF Faithful
    <2> HIDE DEF last
    <2>4. \A j \in 1..(last - e.of + 1) : lines'[e.of + j - 1] = lines[e.of + j - 1]
      <3>1. ASSUME NEW j \in 1..(last - e.of + 1) PROVE e.of + j - 1 \in 1..Now
        BY <2>2
      <3> QED BY <3>1
    <2>5. e.losses = [j \in 1..(last - e.of + 1) |-> lines'[e.of + j - 1].loss]
      BY <2>3, <2>4
    <2> QED BY <2>2, <2>5 DEF Faithful
  <1> QED BY <1>1, <1>2, <1>3

\* The record begun, when it ends on the last line.
LEMMA BegunFaithful ==
    ASSUME Typed, LogInv, logger.of # None, Now \in Nat, Changes \subseteq 1..Now,
           \A j \in 1..Now : lines'[j] = lines[j], NEW last \in Nat,
           RecordEndAmong(logger.of, Changes', rotated') = Now
    PROVE  /\ Faithful(Entry(logger, last), Changes', rotated', lines')
           /\ logger.losses # <<>>
  <1> DEFINE of == logger.of
  <1>1. of \in 1..Now /\ logger.losses = [j \in 1..(Now - of + 1) |-> lines[of + j - 1].loss]
    BY DEF LogInv, Loss
  <1>2. Entry(logger, last).of = of /\ Entry(logger, last).losses = logger.losses
    BY DEF Entry
  <1> HIDE DEF of
  <1>3. \A j \in 1..(Now - of + 1) : lines'[of + j - 1] = lines[of + j - 1]
    <2>1. ASSUME NEW j \in 1..(Now - of + 1) PROVE of + j - 1 \in 1..Now
      BY <1>1
    <2> QED BY <2>1
  <1>4. logger.losses = [j \in 1..(Now - of + 1) |-> lines'[of + j - 1].loss]
    BY <1>1, <1>3
  <1>5. logger.losses # <<>>
    <2>1. 1 \in DOMAIN logger.losses
      BY <1>1
    <2> QED BY <2>1
  <1> QED BY <1>2, <1>4, <1>5 DEF Faithful, of

\* Where the record begun, and one begun on this line, ends after a line.
LEMMA BegunEnds ==
    ASSUME Typed, LogInv, RotatedInv, NEW loss \in Losses, NEW kind \in Kinds, Line(loss, kind)
    PROVE  /\ logger.of # None =>
                 /\ ~(RecordEndAmong(logger.of, Changes, rotated) <= Now)
                 /\ kind # "none" => RecordEndAmong(logger.of, Changes', rotated') = Now
           /\ \A c \in Changes' :
                 /\ ~(\E d \in Changes' : d > c) /\ ~(\E r \in rotated' : r >= c)
                 /\ c + LogWindow - 1 > Now
                 => IF c + LogWindow - 1 = Now + 1
                    THEN RecordEndAmong(c, Changes', rotated') = Now + 1
                    ELSE ~(RecordEndAmong(c, Changes', rotated') <= Now + 1)
           /\ Now + 1 \in Changes' =>
                 /\ ~(\E d \in Changes' : d > Now + 1) /\ ~(\E r \in rotated' : r >= Now + 1)
                 /\ ~(RecordEndAmong(Now + 1, Changes', rotated') <= Now)
  <1>1. /\ Now \in Nat /\ Changes \subseteq 1..Now /\ rotated' = rotated /\ rotated \subseteq Nat
        /\ Changes' = IF kind = "none" THEN Changes ELSE Changes \cup {Now + 1}
        /\ \A r \in rotated : r <= Now
    BY LineHistory DEF Typed, RotatedInv, Line
  <1>2. Changes' \subseteq 1..(Now + 1) /\ Changes' \subseteq Nat /\ Changes \subseteq Nat
    BY <1>1
  <1>3. ASSUME logger.of # None
        PROVE  /\ ~(RecordEndAmong(logger.of, Changes, rotated) <= Now)
               /\ kind # "none" => RecordEndAmong(logger.of, Changes', rotated') = Now
    <2> DEFINE of == logger.of
    <2>1. /\ of \in 1..Now /\ (\A d \in Changes : d <= of) /\ (\A r \in rotated : r < of)
          /\ logger.left > 0 /\ logger.left = of + LogWindow - 1 - Now
      BY <1>1, <1>3 DEF LogInv
    <2> HIDE DEF of
    <2>2. of \in Nat \ {0} /\ ~(\E d \in Changes : d > of) /\ ~(\E r \in rotated : r >= of)
          /\ ~(of + LogWindow - 1 <= Now)
      BY <1>1, <2>1, WindowAssumption
    <2>3. ~(RecordEndAmong(of, Changes, rotated) <= Now)
      BY <1>1, <1>2, <2>2, RecordEndIs
    <2>4. ASSUME kind # "none" PROVE RecordEndAmong(of, Changes', rotated') = Now
      <3>1. \A d \in Changes' : d > of => d = Now + 1
        BY <1>1, <2>2
      <3>2. Now + 1 \in Changes' /\ Now + 1 > of /\ Now + 1 - 1 <= Now
        BY <1>1, <2>1, <2>4
      <3>3. RecordEndAmong(of, Changes', rotated') <= Now
            /\ RecordEndAmong(of, Changes', rotated') \in Nat
        <4>1. RecordEndAmong(of, Changes', rotated') \in Nat
              /\ \A n \in Nat : (\E d \in Changes' : d > of /\ d - 1 <= n)
                                  => RecordEndAmong(of, Changes', rotated') <= n
          BY <1>1, <1>2, <2>2, RecordEndIs
        <4> QED BY <1>1, <3>2, <4>1
      <3>4. Now - 1 \in Nat
        BY <1>1, <2>1
      <3>5. ~(of + LogWindow - 1 <= Now - 1) /\ ~(\E d \in Changes' : d > of /\ d - 1 <= Now - 1)
        BY <1>1, <2>1, <3>1, WindowAssumption
      <3>6. ~(RecordEndAmong(of, Changes', rotated') <= Now - 1)
        BY <1>1, <1>2, <2>2, <3>4, <3>5, RecordEndIs
      <3> QED BY <1>1, <3>3, <3>6
    <2> QED BY <2>3, <2>4 DEF of
  <1>4. ASSUME NEW c \in Changes', ~(\E d \in Changes' : d > c), ~(\E r \in rotated' : r >= c),
               c + LogWindow - 1 > Now
        PROVE  IF c + LogWindow - 1 = Now + 1
               THEN RecordEndAmong(c, Changes', rotated') = Now + 1
               ELSE ~(RecordEndAmong(c, Changes', rotated') <= Now + 1)
    <2>1. c \in Nat \ {0} /\ Now + 1 \in Nat /\ LogWindow \in Nat
      BY <1>1, <1>2, WindowAssumption
    <2>2. /\ RecordEndAmong(c, Changes', rotated') \in Nat
          /\ \A n \in Nat : RecordEndAmong(c, Changes', rotated') <= n <=> c + LogWindow - 1 <= n
      BY <1>1, <1>2, <1>4, <2>1, RecordEndIs
    <2>3. /\ RecordEndAmong(c, Changes', rotated') <= Now <=> c + LogWindow - 1 <= Now
          /\ RecordEndAmong(c, Changes', rotated') <= Now + 1 <=> c + LogWindow - 1 <= Now + 1
      BY <1>1, <2>1, <2>2
    <2> QED BY <1>1, <1>4, <2>1, <2>2, <2>3
  <1>5. ASSUME Now + 1 \in Changes'
        PROVE  /\ ~(\E d \in Changes' : d > Now + 1) /\ ~(\E r \in rotated' : r >= Now + 1)
               /\ ~(RecordEndAmong(Now + 1, Changes', rotated') <= Now)
    <2>1. PICK m \in Nat \ {0} : m = Now + 1
      BY <1>1
    <2>2. RecordEndAmong(m, Changes', rotated') \in Nat /\ RecordEndAmong(m, Changes', rotated') >= m
      BY <1>1, <1>2, <2>1, RecordEndIs
    <2> QED BY <1>1, <1>2, <2>1, <2>2
  <1> QED BY <1>3, <1>4, <1>5

\* The record begun ends on the last line.
LEMMA BegunRecorded ==
    ASSUME Typed, LogInv, OneRecordPerChange, logger.of # None, Now \in Nat,
           Changes \subseteq 1..Now, Grown(Changes, Changes', Now + 1),
           Grown(rotated, rotated', Now), \A j \in 1..Now : lines'[j] = lines[j],
           NEW last \in Nat, ~(RecordEndAmong(logger.of, Changes, rotated) <= Now),
           RecordEndAmong(logger.of, Changes', rotated') = Now
    PROVE  LET new == Append(records, Entry(logger, last))
           IN  /\ new \in Seq(Record) /\ OneOfEach(new, Changes)
               /\ \A i \in DOMAIN new : Faithful(new[i], Changes', rotated', lines')
               /\ \A c \in Changes : RecordEndAmong(c, Changes', rotated') <= Now
  <1> DEFINE e == Entry(logger, last)
             new == Append(records, e)
  <1>1. /\ \A c \in Done : RecordEndAmong(c, Changes', rotated') <= Now
        /\ OneOfEach(records, Done)
        /\ \A i \in DOMAIN records : Faithful(records[i], Changes', rotated', lines')
    BY RecordsStay
  <1>2. Faithful(e, Changes', rotated', lines') /\ e.of = logger.of
    BY BegunFaithful DEF Entry
  <1>3. e \in Record /\ records \in Seq(Record)
    BY DEF Entry, Record, Logger, Typed
  <1>4. /\ logger.of \in Changes
        /\ \A c \in Changes : c <= logger.of /\ (c # logger.of => RecordEnded(c))
    BY DEF LogInv
  <1>5. RecordEnded(logger.of) <=> RecordEndAmong(logger.of, Changes, rotated) <= Now
    BY RecordsAmong DEF RecordEnded, Now
  <1>6. Done \cup {logger.of} = Changes
    BY <1>4 DEF Done
  <1>7. ASSUME NEW c \in Done PROVE c < e.of
    <2>1. c \in Changes /\ c # logger.of
      BY <1>5 DEF Done
    <2>2. c \in 1..Now /\ logger.of \in 1..Now /\ c <= logger.of
      BY <1>4, <2>1
    <2> QED BY <1>2, <2>1, <2>2
  <1> HIDE DEF e
  <1>8. /\ new \in Seq(Record) /\ OneOfEach(new, Done \cup {e.of})
        /\ \A i \in DOMAIN new : Faithful(new[i], Changes', rotated', lines')
    BY <1>1, <1>2, <1>3, <1>7, OneMoreRecord
  <1>9. \A c \in Changes : RecordEndAmong(c, Changes', rotated') <= Now
    BY <1>1, <1>4, <1>6
  <1> QED BY <1>2, <1>6, <1>8, <1>9 DEF e

\* The record begun and the records when a line's change, if any, has been dealt
\* with and its loss has not been added yet.
Begun(kind) ==
    IF kind = "none" THEN logger ELSE [of |-> Now + 1, left |-> LogWindow, losses |-> <<>>]

Finished(kind, last) ==
    IF kind = "none" \/ logger.of = None THEN records ELSE Append(records, Entry(logger, last))

LEMMA LineRecords ==
    ASSUME Typed, LogInv, NEW loss \in Losses, NEW kind \in Kinds, Line(loss, kind),
           adaptive' \in Adaptive
    PROVE  LET last == adaptive'.last
               g == Begun(kind)
               fin == Finished(kind, last)
               e == [of |-> g.of, losses |-> Append(g.losses, loss), adaptive |-> last]
           IN  /\ logger' \in Logger /\ records' \in Seq(Record)
               /\ g \in Logger /\ fin \in Seq(Record) /\ last \in Nat
               /\ g.of = None => logger'.of = None /\ records' = fin
               /\ g.of # None /\ g.left > 1 =>
                     /\ logger'.of = g.of /\ logger'.left = g.left - 1 /\ records' = fin
                     /\ logger'.losses = Append(g.losses, loss)
               /\ g.of # None /\ g.left = 1 =>
                     logger'.of = None /\ records' = Append(fin, e) /\ e \in Record
  <1> DEFINE last == adaptive'.last
             s == [g |-> logger, out |-> <<>>]
             r == Recorded(s, last)
             t == IF kind = "none" THEN s ELSE Started(r, Len(lines) + 1)
             w == Watched(t, loss, last)
             g == Begun(kind)
             fin == Finished(kind, last)
             e == [of |-> g.of, losses |-> Append(g.losses, loss), adaptive |-> last]
  <1>1. /\ logger' = Logged(loss, kind, last).g
        /\ records' = records \o Logged(loss, kind, last).out
    BY DEF Line
  <1>2. Logged(loss, kind, last) = w
    BY DEF Logged
  <1>3. last \in Nat /\ logger \in Logger /\ records \in Seq(Record) /\ <<>> \in Seq(Record)
        /\ Now \in Nat
    BY LenProperties DEF Typed, Adaptive, Now
  <1> HIDE DEF last
  <1>4. s \in [g : Logger, out : Seq(Record)] /\ s.g = logger /\ s.out = <<>>
    BY <1>3
  <1>5. logger.of # None => logger.losses # <<>>
    <2>1. ASSUME logger.of # None PROVE logger.losses # <<>>
      <3>1. logger.of \in 1..Now /\ logger.losses = [j \in 1..(Now - logger.of + 1) |-> Loss(logger.of + j - 1)]
        BY <2>1 DEF LogInv, Changes, Now
      <3>2. 1 \in DOMAIN logger.losses
        BY <1>3, <3>1
      <3> QED BY <3>2
    <2> QED BY <2>1
  <1> HIDE DEF s
  <1>6. /\ r \in [g : Logger, out : Seq(Record)]
        /\ logger.of = None => r = s
        /\ logger.of # None => r.out = Append(<<>>, Entry(logger, last))
                               /\ Entry(logger, last) \in Record
    BY <1>3, <1>4, <1>5, RecordedParts
  <1> HIDE DEF r
  <1>7. /\ t \in [g : Logger, out : Seq(Record)] /\ t.g = g /\ g \in Logger
        /\ kind = "none" \/ logger.of = None => t.out = <<>>
        /\ ~(kind = "none" \/ logger.of = None) => t.out = Append(<<>>, Entry(logger, last))
    <2>1. CASE kind = "none"
      BY <1>3, <1>4, <2>1 DEF Begun
    <2>2. CASE kind # "none"
      <3> DEFINE h == [of |-> Now + 1, left |-> LogWindow, losses |-> <<>>]
      <3>1. t = [r EXCEPT !.g = h] /\ g = h
        BY <2>2 DEF Started, Begun, Now
      <3>2. h \in Logger
        <4>1. Now + 1 \in Nat /\ LogWindow \in 0..LogWindow /\ <<>> \in Seq(Losses)
          BY <1>3, WindowAssumption
        <4> QED BY <4>1 DEF Logger
      <3> HIDE DEF h, t, g
      <3>3. t.g = h /\ t.out = r.out /\ t \in [g : Logger, out : Seq(Record)]
        BY <1>6, <3>1, <3>2
      <3> QED BY <1>4, <1>6, <2>2, <3>1, <3>2, <3>3
    <2> QED BY <2>1, <2>2
  <1> HIDE DEF t, g
  <1>8. /\ w \in [g : Logger, out : Seq(Record)]
        /\ g.of = None => w.g.of = None /\ w.out = t.out
        /\ g.of # None /\ g.left > 1 =>
              /\ w.g.of = g.of /\ w.g.left = g.left - 1 /\ w.out = t.out
              /\ w.g.losses = Append(g.losses, loss)
        /\ g.of # None /\ g.left = 1 =>
              w.g.of = None /\ w.out = Append(t.out, e) /\ e \in Record
    BY <1>3, <1>7, WatchedParts
  <1>9. fin \in Seq(Record) /\ records \o t.out = fin
    <2>1. CASE kind = "none" \/ logger.of = None
      BY <1>3, <1>7, <2>1, ConcatEmptySeq DEF Finished
    <2>2. CASE ~(kind = "none" \/ logger.of = None)
      <3> DEFINE x == Entry(logger, last)
      <3>1. x \in Record /\ fin = Append(records, x) /\ t.out = Append(<<>>, x)
        BY <1>6, <1>7, <2>2 DEF Finished
      <3> HIDE DEF x, fin
      <3>2. records \o Append(<<>>, x) = Append(records \o <<>>, x) /\ records \o <<>> = records
        BY <1>3, <3>1, ConcatAppend
      <3>3. Append(records, x) \in Seq(Record)
        BY <1>3, <3>1, AppendProperties
      <3> QED BY <3>1, <3>2, <3>3
    <2> QED BY <2>1, <2>2
  <1> HIDE DEF e, fin, w
  <1>10. ASSUME e \in Record PROVE records \o Append(t.out, e) = Append(fin, e)
    <2>1. t.out \in Seq(Record)
      BY <1>7
    <2>2. records \o Append(t.out, e) = Append(records \o t.out, e)
      BY <1>3, <1>10, <2>1, ConcatAppend
    <2> QED BY <1>9, <2>2
  <1>11. records' \in Seq(Record)
    <2>1. w.out \in Seq(Record)
      BY <1>8
    <2> QED BY <1>1, <1>2, <1>3, <2>1, ConcatProperties
  <1> QED BY <1>1, <1>2, <1>3, <1>7, <1>8, <1>9, <1>10, <1>11 DEF last, g, fin, e

\* The records after a line's change, and what is begun.
LEMMA ChangeRecords ==
    ASSUME Typed, LogInv, RotatedInv, OneRecordPerChange, adaptive' \in Adaptive,
           NEW loss \in Losses, NEW kind \in Kinds, Line(loss, kind)
    PROVE  LET g == Begun(kind)
               fin == Finished(kind, adaptive'.last)
               ended == {c \in Changes' : RecordEndAmong(c, Changes', rotated') <= Now}
           IN  /\ OneOfEach(fin, ended)
               /\ \A i \in DOMAIN fin : Faithful(fin[i], Changes', rotated', lines')
               /\ g.of = None => Changes' \subseteq ended
               /\ g.of # None =>
                     /\ g.of \in Changes' /\ g.of \notin ended
                     /\ \A c \in Changes' : c <= g.of /\ (c # g.of => c \in ended)
                     /\ \A r \in rotated' : r < g.of
                     /\ g.left > 0 /\ g.left = g.of + LogWindow - 1 - Now
                     /\ g.losses = [j \in 1..(Now - g.of + 1) |-> lines'[g.of + j - 1].loss]
  <1> DEFINE g == Begun(kind)
             last == adaptive'.last
             fin == Finished(kind, last)
             End(c) == RecordEndAmong(c, Changes', rotated')
             ended == {c \in Changes' : End(c) <= Now}
  <1>1. /\ Now \in Nat /\ Changes \subseteq 1..Now /\ rotated' = rotated /\ rotated \subseteq Nat
        /\ Changes' = IF kind = "none" THEN Changes ELSE Changes \cup {Now + 1}
        /\ \A j \in 1..Now : lines'[j] = lines[j]
        /\ \A r \in rotated : r <= Now
        /\ last \in Nat
    BY LineHistory DEF Typed, RotatedInv, Line, Adaptive
  <1>2. Grown(Changes, Changes', Now + 1) /\ Grown(rotated, rotated', Now)
    BY <1>1 DEF Grown
  <1>3. /\ \A c \in Done : End(c) <= Now
        /\ OneOfEach(records, Done)
        /\ \A i \in DOMAIN records : Faithful(records[i], Changes', rotated', lines')
    BY <1>1, <1>2, RecordsStay
  <1>4. logger.of # None =>
           /\ ~(RecordEndAmong(logger.of, Changes, rotated) <= Now)
           /\ kind # "none" => End(logger.of) = Now
    BY BegunEnds
  <1>5. Now + 1 \in Changes' => ~(End(Now + 1) <= Now)
    BY BegunEnds
  <1>6. \A c : RecordEnded(c) <=> RecordEndAmong(c, Changes, rotated) <= Now
    BY RecordsAmong DEF RecordEnded, Now
  <1> HIDE DEF last
  <1>7. CASE kind # "none"
    <2>1. g = [of |-> Now + 1, left |-> LogWindow, losses |-> <<>>]
      BY <1>7 DEF Begun
    <2>2. OneOfEach(fin, Changes) /\ (\A c \in Changes : End(c) <= Now)
          /\ \A i \in DOMAIN fin : Faithful(fin[i], Changes', rotated', lines')
      <3>1. CASE logger.of = None
        <4>1. Done = Changes
          BY <3>1 DEF LogInv, Done
        <4> QED BY <1>3, <3>1, <4>1 DEF Finished
      <3>2. CASE logger.of # None
        <4>1. fin = Append(records, Entry(logger, last))
          BY <1>7, <3>2 DEF Finished
        <4> HIDE DEF fin
        <4> QED BY <1>1, <1>2, <1>4, <1>7, <3>2, <4>1, BegunRecorded
      <3> QED BY <3>1, <3>2
    <2>3. ended = Changes
      BY <1>1, <1>5, <1>7, <2>2
    <2>4. g.of = Now + 1 /\ g.left = LogWindow /\ g.losses = <<>> /\ g.of # None
          /\ LogWindow > 0
      BY <1>1, <2>1, WindowAssumption DEF None
    <2> HIDE DEF g, ended
    <2>5. g.losses = [j \in 1..(Now - g.of + 1) |-> lines'[g.of + j - 1].loss]
      <3>1. 1..(Now - g.of + 1) = {}
        BY <1>1, <2>4
      <3> QED BY <2>4, <3>1
    <2>6. g.left = g.of + LogWindow - 1 - Now
      BY <1>1, <2>4, WindowAssumption
    <2>7. g.of \in Changes' /\ g.of \notin ended /\ \A r \in rotated' : r < g.of
      BY <1>1, <1>7, <2>3, <2>4
    <2>8. \A c \in Changes' : c <= g.of /\ (c # g.of => c \in ended)
      BY <1>1, <1>7, <2>3, <2>4
    <2> QED BY <2>2, <2>3, <2>4, <2>5, <2>6, <2>7, <2>8 DEF g, ended, last
  <1>8. CASE kind = "none"
    <2>1. g = logger /\ fin = records /\ Changes' = Changes /\ rotated' = rotated
      BY <1>1, <1>8 DEF Begun, Finished
    <2>2. \A c \in Changes : c \in Done <=> RecordEndAmong(c, Changes, rotated) <= Now
      BY <1>6 DEF Done
    <2>3. ended = Done
      BY <2>1, <2>2 DEF Done
    <2> HIDE DEF g, fin, ended
    <2>4. g.of = None => Changes' \subseteq ended
      BY <2>1, <2>3 DEF LogInv, Done
    <2>5. ASSUME g.of # None
          PROVE  /\ g.of \in Changes' /\ g.of \notin ended
                 /\ \A c \in Changes' : c <= g.of /\ (c # g.of => c \in ended)
                 /\ \A r \in rotated' : r < g.of
                 /\ g.left > 0 /\ g.left = g.of + LogWindow - 1 - Now
      BY <1>4, <2>1, <2>2, <2>3, <2>5 DEF LogInv, Done
    <2>6. ASSUME g.of # None
          PROVE  g.losses = [j \in 1..(Now - g.of + 1) |-> lines'[g.of + j - 1].loss]
      <3> DEFINE of == g.of
      <3>1. g.losses = [j \in 1..(Now - of + 1) |-> lines[of + j - 1].loss] /\ of \in 1..Now
        BY <1>1, <2>1, <2>6 DEF LogInv, Loss
      <3> HIDE DEF of
      <3>2. \A j \in 1..(Now - of + 1) : lines'[of + j - 1] = lines[of + j - 1]
        <4>1. ASSUME NEW j \in 1..(Now - of + 1) PROVE of + j - 1 \in 1..Now
          BY <1>1, <3>1
        <4> QED BY <1>1, <4>1
      <3>3. g.losses = [j \in 1..(Now - of + 1) |-> lines'[of + j - 1].loss]
        BY <3>1, <3>2
      <3> QED BY <3>3 DEF of
    <2> QED BY <1>3, <2>1, <2>3, <2>4, <2>5, <2>6 DEF g, fin, ended, last
  <1> QED BY <1>7, <1>8 DEF last

LEMMA LossesGrow ==
    ASSUME NEW of \in Nat \ {0}, NEW n \in Nat, of <= n + 1, NEW ls,
           NEW s \in Seq(Losses), s = [j \in 1..(n - of + 1) |-> ls[of + j - 1].loss],
           NEW loss \in Losses, ls[n + 1].loss = loss
    PROVE  Append(s, loss) = [j \in 1..(n + 1 - of + 1) |-> ls[of + j - 1].loss]
  <1> DEFINE k == n - of + 1
  <1>1. k \in Nat /\ n + 1 - of + 1 = k + 1 /\ of + (k + 1) - 1 = n + 1
    OBVIOUS
  <1>2. Len(s) = k
    BY <1>1, LenProperties
  <1>3. /\ Append(s, loss) \in Seq(Losses) /\ Len(Append(s, loss)) = k + 1
        /\ (\A j \in 1..k : Append(s, loss)[j] = s[j]) /\ Append(s, loss)[k + 1] = loss
    BY <1>2, AppendProperties
  <1>4. \A j \in 1..k : s[j] = ls[of + j - 1].loss
    OBVIOUS
  <1> DEFINE t == Append(s, loss)
  <1>5. t = [j \in 1..(k + 1) |-> t[j]]
    BY <1>1, <1>3, LenProperties
  <1> HIDE DEF k, t
  <1>6. ASSUME NEW j \in 1..(k + 1) PROVE t[j] = ls[of + j - 1].loss
    <2>1. CASE j \in 1..k
      BY <1>3, <1>4, <2>1 DEF t
    <2>2. CASE j = k + 1
      BY <1>1, <1>3, <2>2 DEF t
    <2> QED BY <1>1, <2>1, <2>2
  <1>7. t = [j \in 1..(k + 1) |-> ls[of + j - 1].loss]
    BY <1>5, <1>6
  <1> QED BY <1>1, <1>7 DEF t

LEMMA RecordStep ==
    ASSUME Typed, LogInv, RotatedInv, OneRecordPerChange, adaptive' \in Adaptive,
           NEW loss \in Losses, NEW kind \in Kinds, Line(loss, kind)
    PROVE  LogInv' /\ OneRecordPerChange'
  <1> DEFINE g == Begun(kind)
             last == adaptive'.last
             fin == Finished(kind, last)
             End(c) == RecordEndAmong(c, Changes', rotated')
             ended == {c \in Changes' : End(c) <= Now}
             e == [of |-> g.of, losses |-> Append(g.losses, loss), adaptive |-> last]
             next == {c \in Changes' : End(c) <= Now'}
  <1>1. /\ Now \in Nat /\ Now' = Now + 1 /\ rotated' = rotated /\ rotated' \subseteq Nat
        /\ Changes' \subseteq 1..(Now + 1)
        /\ lines'[Now + 1].loss = loss
    <2>1. /\ Now \in Nat /\ Now' = Now + 1 /\ lines'[Now + 1].loss = loss
          /\ Changes' = IF kind = "none" THEN Changes ELSE Changes \cup {Now + 1}
          /\ Changes \subseteq 1..Now
      BY LineHistory
    <2>2. rotated' = rotated /\ rotated \subseteq Nat
      BY DEF Typed, Line
    <2>3. \A c \in 1..Now : c \in 1..(Now + 1)
      BY <2>1
    <2>4. Changes' \subseteq 1..(Now + 1)
      BY <2>1, <2>3
    <2> QED BY <2>1, <2>2, <2>4
  <1>2. /\ g \in Logger /\ fin \in Seq(Record) /\ last \in Nat
        /\ g.of = None => logger'.of = None /\ records' = fin
        /\ g.of # None /\ g.left > 1 =>
              /\ logger'.of = g.of /\ logger'.left = g.left - 1 /\ records' = fin
              /\ logger'.losses = Append(g.losses, loss)
        /\ g.of # None /\ g.left = 1 =>
              logger'.of = None /\ records' = Append(fin, e) /\ e \in Record
    BY LineRecords
  <1>3. /\ OneOfEach(fin, ended)
        /\ \A i \in DOMAIN fin : Faithful(fin[i], Changes', rotated', lines')
        /\ g.of = None => Changes' \subseteq ended
        /\ g.of # None =>
              /\ g.of \in Changes' /\ g.of \notin ended
              /\ \A c \in Changes' : c <= g.of /\ (c # g.of => c \in ended)
              /\ \A r \in rotated' : r < g.of
              /\ g.left > 0 /\ g.left = g.of + LogWindow - 1 - Now
              /\ g.losses = [j \in 1..(Now - g.of + 1) |-> lines'[g.of + j - 1].loss]
    BY ChangeRecords
  <1>4. /\ OneRecordPerChange'
              <=> /\ OneOfEach(records', next)
                  /\ \A i \in DOMAIN records' : Faithful(records'[i], Changes', rotated', lines')
        /\ \A c : RecordEnded(c)' <=> End(c) <= Now'
    BY RecordsAmong DEF RecordEnded, RecordEnd, RecordEndAmong, Now
  <1>5. ASSUME NEW c \in ended PROVE c \in next
    <2>1. c \in Nat \ {0} /\ Changes' \subseteq Nat /\ End(c) <= Now
      BY <1>1
    <2>2. End(c) \in Nat
      BY <1>1, <2>1, RecordEndIs
    <2> HIDE DEF End
    <2> QED BY <1>1, <2>1, <2>2
  <1> HIDE DEF last
  <1>6. CASE g.of = None
    <2>1. next = Changes' /\ ended = Changes'
      BY <1>3, <1>5, <1>6
    <2> HIDE DEF g, fin, next, ended, End
    <2>2. \A c \in Changes' : RecordEnded(c)'
      BY <1>4, <2>1 DEF next
    <2>3. logger'.of = None /\ records' = fin
      BY <1>2, <1>6
    <2> QED BY <1>3, <1>4, <2>1, <2>2, <2>3 DEF LogInv
  <1>7. CASE g.of # None
    <2>1. /\ g.of \in 1..(Now + 1) /\ g.of \in Nat \ {0} /\ g.losses \in Seq(Losses)
          /\ g.left \in Nat
      BY <1>1, <1>2, <1>3, <1>7, WindowAssumption DEF Logger
    <2>2. Append(g.losses, loss) = [j \in 1..(Now' - g.of + 1) |-> lines'[g.of + j - 1].loss]
      <3>1. g.losses = [j \in 1..(Now - g.of + 1) |-> lines'[g.of + j - 1].loss]
        BY <1>3, <1>7
      <3> HIDE DEF g
      <3>2. PICK of \in Nat \ {0} : of = g.of
        BY <2>1
      <3>3. of <= Now + 1 /\ g.losses = [j \in 1..(Now - of + 1) |-> lines'[of + j - 1].loss]
        BY <1>1, <2>1, <3>1, <3>2
      <3>4. Append(g.losses, loss) = [j \in 1..(Now + 1 - of + 1) |-> lines'[of + j - 1].loss]
        BY <1>1, <2>1, <3>3, LossesGrow
      <3> QED BY <1>1, <3>2, <3>4
    <2>3. IF g.left = 1 THEN End(g.of) = Now + 1 ELSE ~(End(g.of) <= Now + 1)
      <3>1. ~(\E d \in Changes' : d > g.of) /\ ~(\E r \in rotated' : r >= g.of)
        <4>1. ASSUME NEW d \in Changes' PROVE ~(d > g.of)
          BY <1>1, <1>3, <1>7, <2>1
        <4>2. ASSUME NEW r \in rotated' PROVE ~(r >= g.of)
          <5>1. r \in Nat /\ r < g.of
            BY <1>1, <1>3, <1>7
          <5> QED BY <2>1, <5>1
        <4> QED BY <4>1, <4>2
      <3>2. g.of + LogWindow - 1 > Now /\ (g.left = 1 <=> g.of + LogWindow - 1 = Now + 1)
        BY <1>1, <1>3, <1>7, <2>1, WindowAssumption
      <3>3. g.of \in Changes'
        BY <1>3, <1>7
      <3> HIDE DEF g
      <3> QED BY <3>1, <3>2, <3>3, BegunEnds
    <2>4. \A c \in Changes' : c # g.of => c \in ended
      BY <1>3, <1>7
    <2>5. g.of \in Changes' /\ g.of \notin ended
      BY <1>3, <1>7
    <2>6. CASE g.left = 1
      <3>1. next = Changes' /\ next = ended \cup {g.of}
        <4>1. g.of \in next
          BY <1>1, <2>3, <2>5, <2>6
        <4>2. ended \subseteq Changes' /\ next \subseteq Changes'
          OBVIOUS
        <4> HIDE DEF g, next, ended
        <4> QED BY <1>5, <2>4, <2>5, <4>1, <4>2
      <3>2. logger'.of = None /\ records' = Append(fin, e) /\ e \in Record
        BY <1>2, <1>7, <2>6
      <3>3. Faithful(e, Changes', rotated', lines') /\ e.of = g.of
        <4>1. e.of = g.of /\ e.losses = Append(g.losses, loss)
          OBVIOUS
        <4> HIDE DEF e, g
        <4> QED BY <1>1, <2>2, <2>3, <2>6, <4>1 DEF Faithful
      <3>4. ASSUME NEW c \in ended PROVE c < g.of
        <4>1. c \in 1..(Now + 1) /\ c <= g.of /\ c # g.of
          BY <1>1, <1>3, <1>7, <2>5
        <4> QED BY <2>1, <4>1
      <3> HIDE DEF e, g, fin, ended, next, End
      <3>5. /\ OneOfEach(records', next)
            /\ \A i \in DOMAIN records' : Faithful(records'[i], Changes', rotated', lines')
        <4>1. fin \in Seq(Record) /\ OneOfEach(fin, ended)
              /\ \A i \in DOMAIN fin : Faithful(fin[i], Changes', rotated', lines')
          BY <1>2, <1>3
        <4>2. /\ OneOfEach(Append(fin, e), ended \cup {e.of})
              /\ \A i \in DOMAIN Append(fin, e) :
                    Faithful(Append(fin, e)[i], Changes', rotated', lines')
          BY <3>2, <3>3, <3>4, <4>1, OneMoreRecord
        <4> QED BY <3>1, <3>2, <3>3, <4>2
      <3>6. \A c \in Changes' : RecordEnded(c)'
        BY <1>4, <3>1 DEF next
      <3> QED BY <1>4, <3>2, <3>5, <3>6 DEF LogInv
    <2>7. CASE g.left # 1
      <3>1. g.left > 1
        BY <1>3, <1>7, <2>1, <2>7
      <3>2. /\ logger'.of = g.of /\ logger'.left = g.left - 1 /\ records' = fin
            /\ logger'.losses = Append(g.losses, loss)
        BY <1>2, <1>7, <3>1
      <3>3. next = ended
        <4>1. g.of \notin next
          BY <1>1, <2>3, <2>7
        <4>2. ended \subseteq Changes' /\ next \subseteq Changes'
          OBVIOUS
        <4> HIDE DEF g, next, ended
        <4> QED BY <1>5, <2>4, <4>1, <4>2
      <3>4. /\ \A c \in Changes' : c <= g.of
            /\ \A r \in rotated' : r < g.of
            /\ g.left = g.of + LogWindow - 1 - Now
        BY <1>3, <1>7
      <3>5. g.left - 1 > 0 /\ g.left - 1 = g.of + LogWindow - 1 - Now'
        BY <1>1, <2>1, <3>1, <3>4, WindowAssumption
      <3> HIDE DEF g, fin, ended, End
      <3>6. \A c \in Changes' : c # g.of => RecordEnded(c)'
        BY <1>4, <2>4, <3>3
      <3>7. OneRecordPerChange'
        BY <1>3, <1>4, <3>2, <3>3
      <3> HIDE DEF next
      <3>8. logger'.losses = [j \in 1..(Now' - logger'.of + 1) |-> lines'[logger'.of + j - 1].loss]
        BY <2>2, <3>2
      <3>9. /\ logger'.of # None /\ logger'.of \in Changes'
            /\ \A c \in Changes' : c <= logger'.of /\ (c # logger'.of => RecordEnded(c)')
            /\ \A r \in rotated' : r < logger'.of
            /\ logger'.left > 0 /\ logger'.left = logger'.of + LogWindow - 1 - Now'
        BY <1>7, <2>5, <3>2, <3>4, <3>5, <3>6
      <3> QED BY <3>7, <3>8, <3>9 DEF LogInv, Loss
    <2> QED BY <2>6, <2>7
  <1> QED BY <1>6, <1>7

----------------------------------------------------------------------------
(* The invariant is inductive. *)

Inv ==
    /\ Typed /\ RotatedInv
    /\ WindowInv /\ LearnsFromOwnLines
    /\ LogInv /\ OneRecordPerChange

\* A process that has just started, with whatever file.
Fresh ==
    /\ file \in [Params -> Int] \cup {NoFile} /\ adaptive = Loaded(file)
    /\ logger = Idle /\ records = <<>>
    /\ lines = <<>> /\ learned = <<>> /\ rotated = {}

LEMMA LoadedType ==
    ASSUME NEW f \in [Params -> Int] \cup {NoFile}
    PROVE  Loaded(f) \in Adaptive
  <1> DEFINE value == [p \in Params |-> IF p \in DOMAIN f THEN Clamp(p, f[p]) ELSE Param[p].start]
  <1>1. ASSUME NEW p \in Params PROVE value[p] \in Int
    <2>1. Param[p].start \in Int /\ Param[p].least \in Int /\ Param[p].most \in Int
      BY ParamAssumption
    <2>2. CASE p \in DOMAIN f
      <3>1. f[p] \in Int
        BY <2>2 DEF NoFile
      <3>2. Clamp(p, f[p]) \in Param[p].least..Param[p].most
        BY <3>1, ClampBounds
      <3> QED BY <2>1, <2>2, <3>2
    <2> QED BY <2>1, <2>2
  <1>2. value \in [Params -> Int]
    BY <1>1
  <1>3. Loaded(f) = [of |-> None, left |-> 0, hadLoss |-> FALSE, group |-> "mcs_gate",
                     last |-> None, value |-> value]
    BY DEF Loaded
  <1>4. None \in Nat /\ 0 \in 0..Window
    BY WindowAssumption DEF None
  <1> HIDE DEF value
  <1> QED BY <1>2, <1>3, <1>4 DEF Adaptive

LEMMA FreshInv == Fresh => Inv
  <1> SUFFICES ASSUME Fresh PROVE Inv
    OBVIOUS
  <1>1. Len(lines) = 0 /\ Changes = {} /\ Tracked = {}
    BY DEF Fresh, Changes, Tracked
  <1>2. adaptive.of = None /\ adaptive.left = 0 /\ logger.of = None
    BY DEF Fresh, Loaded, Idle
  <1>3. Typed
    <2>1. adaptive \in Adaptive
      BY LoadedType DEF Fresh
    <2>2. logger \in Logger
      BY WindowAssumption DEF Fresh, Idle, Logger, None
    <2> QED BY <2>1, <2>2 DEF Fresh, Typed
  <1>4. WindowInv /\ LogInv /\ RotatedInv
    BY <1>1, <1>2 DEF WindowInv, LogInv, RotatedInv, Fresh
  <1>5. LearnsFromOwnLines /\ OneRecordPerChange
    BY <1>1 DEF LearnsFromOwnLines, OneRecordPerChange, OneOfEach, Fresh
  <1> QED BY <1>3, <1>4, <1>5 DEF Inv

LEMMA LineStep ==
    ASSUME Inv, NEW loss \in Losses, NEW kind \in Kinds, Line(loss, kind)
    PROVE  Inv'
  <1> DEFINE e == [of |-> adaptive.of, hadLoss |-> LossSo(loss)]
             l == [loss |-> loss, kind |-> kind]
  <1> USE DEF Inv
  <1>1. /\ adaptive' \in Adaptive
        /\ ~Ends(kind) => UNCHANGED <<learned, file>>
        /\ Ends(kind) => learned' = Append(learned, e) /\ file' = adaptive'.value
    BY LineLearns
  <1>2. Typed'
    <2>1. logger' \in Logger /\ records' \in Seq(Record)
      BY <1>1, LineRecords
    <2>2. file' \in [Params -> Int] \cup {NoFile} /\ learned' \in Seq(Outcome)
      <3>1. e \in Outcome /\ learned \in Seq(Outcome)
        BY DEF Outcome, Typed, Adaptive, LossSo
      <3>2. adaptive'.value \in [Params -> Int]
        BY <1>1 DEF Adaptive
      <3> HIDE DEF e
      <3>3. Append(learned, e) \in Seq(Outcome)
        BY <3>1, AppendProperties
      <3> QED BY <1>1, <3>2, <3>3 DEF Typed
    <2>3. lines' \in Seq([loss : Losses, kind : Kinds])
      <3>1. lines' = Append(lines, l) /\ l \in [loss : Losses, kind : Kinds]
        BY DEF Line
      <3> HIDE DEF l
      <3> QED BY <3>1, AppendProperties DEF Typed
    <2>4. rotated' \subseteq Nat
      BY DEF Line, Typed
    <2> QED BY <1>1, <2>1, <2>2, <2>3, <2>4 DEF Typed
  <1>3. RotatedInv'
    <2>1. Now \in Nat /\ Now' = Now + 1
      BY LineHistory
    <2>2. rotated' = rotated /\ \A r \in rotated : r \in Nat /\ r <= Now
      BY DEF Line, RotatedInv, Typed
    <2> QED BY <2>1, <2>2 DEF RotatedInv
  <1>4. WindowInv' /\ LearnsFromOwnLines'
    BY WindowStep, LearnsStep
  <1>5. LogInv' /\ OneRecordPerChange'
    BY <1>1, RecordStep
  <1> QED BY <1>2, <1>3, <1>4, <1>5

\* What is learned depends on the lines alone, what is recorded on the rotations too.
LEMMA LearnsStays ==
    ASSUME WindowInv, LearnsFromOwnLines, UNCHANGED <<adaptive, lines, learned>>
    PROVE  WindowInv' /\ LearnsFromOwnLines'
  <1>1. Now' = Now /\ Changes' = Changes /\ Tracked' = Tracked
    BY DEF Now, Changes, Tracked
  <1>2. \A c : WindowEnd(c)' = WindowEnd(c)
    BY <1>1 DEF WindowEnd
  <1>3. WindowInv'
    BY <1>1, <1>2 DEF WindowInv, Loss
  <1>4. {c \in Tracked' : WindowEnd(c)' <= Now'} = {c \in Tracked : WindowEnd(c) <= Now}
    BY <1>1, <1>2
  <1>5. LearnsFromOwnLines'
    BY <1>1, <1>2, <1>4 DEF LearnsFromOwnLines, OneOfEach, Loss, Now
  <1> QED BY <1>3, <1>5

LEMMA RecordsStill ==
    ASSUME LogInv, OneRecordPerChange, UNCHANGED <<logger, records, lines, rotated>>
    PROVE  LogInv' /\ OneRecordPerChange'
  <1>1. Now' = Now /\ Changes' = Changes
    BY DEF Now, Changes
  <1>2. \A c : RecordEnd(c)' = RecordEnd(c) /\ (RecordEnded(c)' <=> RecordEnded(c))
    BY <1>1 DEF RecordEnd, RecordEnded
  <1>3. LogInv'
    BY <1>1, <1>2 DEF LogInv, Loss
  <1>4. OneRecordPerChange'
    BY <1>1, <1>2 DEF OneRecordPerChange, OneOfEach, Loss
  <1> QED BY <1>3, <1>4

LEMMA SessionStep ==
    ASSUME Inv, NewSession
    PROVE  Inv'
  <1> DEFINE s == [g |-> logger, out |-> <<>>]
             last == adaptive.last
             r == Recorded(s, last)
             open == logger.of # None
             End(c) == RecordEndAmong(c, Changes', rotated')
  <1> USE DEF Inv
  <1>1. /\ logger' = r.g /\ records' = records \o r.out /\ rotated' = rotated \cup {Now}
        /\ UNCHANGED <<adaptive, file, lines, learned>>
    BY DEF NewSession, Now
  <1>2. /\ Now \in Nat /\ Now' = Now /\ Changes' = Changes /\ Tracked' = Tracked
        /\ Changes \subseteq 1..Now /\ rotated \subseteq Nat
        /\ last \in Nat /\ records \in Seq(Record) /\ logger \in Logger
        /\ \A x \in rotated : x <= Now
    BY <1>1, LenProperties DEF Typed, Now, Changes, Tracked, Adaptive, RotatedInv
  <1>3. RotatedInv'
    BY <1>1, <1>2 DEF RotatedInv
  <1>4. WindowInv' /\ LearnsFromOwnLines'
    BY <1>1, LearnsStays
  <1>5. Grown(Changes, Changes', Now + 1) /\ Grown(rotated, rotated', Now)
    BY <1>1, <1>2 DEF Grown
  <1>6. ASSUME open
        PROVE  /\ ~(RecordEndAmong(logger.of, Changes, rotated) <= Now)
               /\ End(logger.of) = Now /\ logger.losses # <<>>
    <2> DEFINE of == logger.of
    <2>1. /\ of \in 1..Now /\ (\A d \in Changes : d <= of) /\ (\A x \in rotated : x < of)
          /\ logger.left > 0 /\ logger.left = of + LogWindow - 1 - Now
      BY <1>2, <1>6 DEF LogInv
    <2> HIDE DEF of
    <2>2. of \in Nat \ {0} /\ ~(\E d \in Changes : d > of) /\ ~(\E x \in rotated : x >= of)
          /\ ~(of + LogWindow - 1 <= Now) /\ Changes \subseteq Nat
      BY <1>2, <2>1, WindowAssumption
    <2>3. ~(RecordEndAmong(of, Changes, rotated) <= Now)
      BY <1>2, <2>2, RecordEndIs
    <2>4. RecordEndAmong(of, Changes, rotated') = Now
      <3>1. rotated' \subseteq Nat /\ Now \in rotated' /\ Now >= of /\ Now - 1 \in Nat
        BY <1>1, <1>2, <2>1
      <3>2. /\ RecordEndAmong(of, Changes, rotated') \in Nat
            /\ \A n \in Nat : RecordEndAmong(of, Changes, rotated') <= n
                                 <=> \/ of + LogWindow - 1 <= n
                                     \/ \E d \in Changes : d > of /\ d - 1 <= n
                                     \/ \E x \in rotated' : x >= of /\ x <= n
        BY <2>2, <3>1, RecordEndIs
      <3>3. RecordEndAmong(of, Changes, rotated') <= Now
        BY <1>2, <3>1, <3>2
      <3>4. ASSUME NEW x \in rotated', x >= of PROVE ~(x <= Now - 1)
        BY <1>1, <1>2, <2>2, <3>4
      <3>5. ~(of + LogWindow - 1 <= Now - 1)
        BY <1>2, <2>1, WindowAssumption
      <3>6. ~(RecordEndAmong(of, Changes, rotated') <= Now - 1)
        BY <2>2, <3>1, <3>2, <3>4, <3>5
      <3> QED BY <1>2, <3>2, <3>3, <3>6
    <2>5. logger.losses # <<>>
      <3>1. logger.losses = [j \in 1..(Now - of + 1) |-> Loss(of + j - 1)]
        BY <1>6 DEF LogInv, of
      <3>2. 1 \in DOMAIN logger.losses
        BY <1>2, <2>1, <3>1
      <3> QED BY <3>2
    <2> QED BY <1>2, <2>3, <2>4, <2>5 DEF of
  <1>7. s \in [g : Logger, out : Seq(Record)] /\ s.g = logger /\ s.out = <<>>
    BY <1>2
  <1> HIDE DEF s, last
  <1>8. /\ r \in [g : Logger, out : Seq(Record)]
        /\ ~open => r = s
        /\ open => /\ r.g.of = None /\ r.out = Append(<<>>, Entry(logger, last))
                   /\ Entry(logger, last) \in Record
    BY <1>2, <1>6, <1>7, RecordedParts
  <1> HIDE DEF r
  <1>9. /\ records' = IF open THEN Append(records, Entry(logger, last)) ELSE records
        /\ logger'.of = None
    <2>1. CASE open
      <3> DEFINE x == Entry(logger, last)
      <3>1. x \in Record /\ r.out = Append(<<>>, x)
        BY <1>8, <2>1
      <3> HIDE DEF x
      <3>2. records \o Append(<<>>, x) = Append(records \o <<>>, x) /\ records \o <<>> = records
        BY <1>2, <3>1, ConcatAppend
      <3> QED BY <1>1, <1>8, <2>1, <3>1, <3>2 DEF x
    <2>2. CASE ~open
      BY <1>1, <1>2, <1>7, <1>8, <2>2, ConcatEmptySeq
    <2> QED BY <2>1, <2>2
  <1>10. /\ OneOfEach(records', Changes) /\ (\A c \in Changes : End(c) <= Now)
         /\ \A i \in DOMAIN records' : Faithful(records'[i], Changes', rotated', lines')
    <2>1. lines' = lines
      BY <1>1
    <2>2. CASE open
      <3>1. records' = Append(records, Entry(logger, last))
        BY <1>9, <2>2
      <3> QED BY <1>2, <1>5, <1>6, <2>1, <2>2, <3>1, BegunRecorded DEF last
    <2>3. CASE ~open
      <3>1. Done = Changes
        BY <2>3 DEF LogInv, Done
      <3>2. /\ \A c \in Done : End(c) <= Now
            /\ OneOfEach(records, Done)
            /\ \A i \in DOMAIN records : Faithful(records[i], Changes', rotated', lines')
        BY <1>2, <1>5, <2>1, RecordsStay
      <3> QED BY <1>9, <2>3, <3>1, <3>2
    <2> QED BY <2>2, <2>3
  <1>11. LogInv' /\ OneRecordPerChange'
    <2>1. {c \in Changes' : RecordEndAmong(c, Changes', rotated') <= Now'} = Changes
      BY <1>2, <1>10
    <2>2. OneRecordPerChange'
      BY <1>10, <2>1, RecordsAmong
    <2>3. Done' = Changes'
      BY <1>2, <2>1, RecordsAmong
    <2>4. \A c \in Changes' : RecordEnded(c)'
      BY <2>3 DEF Done
    <2> QED BY <1>9, <2>2, <2>4 DEF LogInv
  <1>12. Typed'
    <2>1. records' \in Seq(Record)
      <3>1. r.out \in Seq(Record)
        BY <1>8
      <3> QED BY <1>1, <1>2, <3>1, ConcatProperties
    <2>2. logger' \in Logger /\ rotated' \subseteq Nat
      BY <1>1, <1>2, <1>8
    <2> QED BY <1>1, <2>1, <2>2 DEF Typed
  <1> QED BY <1>3, <1>4, <1>11, <1>12

LEMMA InvAlways == Spec => []Inv
  <1>1. Init => Fresh
    BY DEF Init, Fresh
  <1>2. Init => Inv
    BY <1>1, FreshInv
  <1>3. ASSUME Inv, [Next]_vars PROVE Inv'
    <2>1. ASSUME NEW f \in [Params -> Int] \cup {NoFile}, Restarted(f) PROVE Inv'
      <3>1. Fresh'
        BY <2>1 DEF Restarted, Fresh, Loaded, Idle, NoFile, Clamp
      <3> QED BY <3>1, FreshInv, PTL
    <2>2. ASSUME NEW loss \in Losses, NEW kind \in Kinds, Line(loss, kind) PROVE Inv'
      BY <1>3, <2>2, LineStep
    <2>3. CASE NewSession
      BY <1>3, <2>3, SessionStep
    <2>4. CASE Restart
      BY <1>3, <2>1, <2>4 DEF Restart, Inv, Typed
    <2>5. CASE RestartInSave
      BY <2>1, <2>5 DEF RestartInSave
    <2>6. CASE UNCHANGED vars
      <3>1. WindowInv' /\ LearnsFromOwnLines'
        BY <1>3, <2>6, LearnsStays DEF vars, Inv
      <3>2. LogInv' /\ OneRecordPerChange'
        BY <1>3, <2>6, RecordsStill DEF vars, Inv
      <3>3. Typed' /\ RotatedInv'
        BY <1>3, <2>6 DEF vars, Inv, Typed, RotatedInv, Now
      <3> QED BY <3>1, <3>2, <3>3 DEF Inv
    <2> QED BY <1>3, <2>2, <2>3, <2>4, <2>5, <2>6 DEF Next
  <1> QED BY <1>2, <1>3, PTL DEF Spec

----------------------------------------------------------------------------
(* The values, within their bounds and in the file. *)

\* AdaptiveParam takes the configured value as it is (alink_gs, AdaptiveParam.__init__).
\* The shipped configuration has each within its bounds.
StartWithinBounds == \A p \in Params : Param[p].start \in Param[p].least..Param[p].most

ValuesInv == Inv /\ WithinBounds /\ FileInv

\* Values loaded from a file that holds values within bounds are those of the file.
LEMMA LoadedBounds ==
    ASSUME StartWithinBounds, NEW f \in [Params -> Int] \cup {NoFile}, NEW p \in Params
    PROVE  /\ Loaded(f).value[p] \in Param[p].least..Param[p].most
           /\ f = NoFile => Loaded(f).value[p] = Param[p].start
           /\ p \in DOMAIN f /\ f[p] \in Param[p].least..Param[p].most => Loaded(f).value[p] = f[p]
           /\ p \notin DOMAIN f => Loaded(f).value[p] = Param[p].start
  <1>1. Loaded(f).value[p] = IF p \in DOMAIN f THEN Clamp(p, f[p]) ELSE Param[p].start
    BY DEF Loaded
  <1>2. DOMAIN NoFile = {}
    BY DEF NoFile
  <1>3. CASE p \in DOMAIN f
    <2>1. f \in [Params -> Int] /\ f[p] \in Int
      BY <1>2, <1>3
    <2> QED BY <1>1, <1>2, <1>3, <2>1, ClampBounds
  <1>4. CASE p \notin DOMAIN f
    BY <1>1, <1>4 DEF StartWithinBounds
  <1> QED BY <1>2, <1>3, <1>4

LEMMA RestartValues ==
    ASSUME StartWithinBounds, ValuesInv
    PROVE  Loaded(file).value = adaptive.value
  <1>1. file \in [Params -> Int] \cup {NoFile} /\ adaptive.value \in [Params -> Int]
    BY DEF ValuesInv, Inv, Typed, Adaptive
  <1>2. Loaded(file).value \in [Params -> Int]
    BY <1>1, LoadedType DEF Adaptive
  <1>3. ASSUME NEW p \in Params PROVE Loaded(file).value[p] = adaptive.value[p]
    <2>1. adaptive.value[p] \in Param[p].least..Param[p].most
          /\ adaptive.value[p] = IF p \in DOMAIN file THEN file[p] ELSE Param[p].start
      BY DEF ValuesInv, WithinBounds, FileInv
    <2> QED BY <1>1, <2>1, LoadedBounds
  <1> QED BY <1>1, <1>2, <1>3

LEMMA ValuesStep ==
    ASSUME StartWithinBounds, ValuesInv, Inv', [Next]_vars
    PROVE  ValuesInv'
  <1>1. ASSUME NEW f \in {file, NoFile}, Restarted(f) PROVE WithinBounds' /\ FileInv'
    <2>1. adaptive' = Loaded(f) /\ file' = f /\ f \in [Params -> Int] \cup {NoFile}
      BY <1>1 DEF Restarted, ValuesInv, Inv, Typed
    <2>2. ASSUME NEW p \in Params
          PROVE  adaptive'.value[p] = IF p \in DOMAIN file' THEN file'[p] ELSE Param[p].start
      <3>1. CASE p \in DOMAIN f
        <4>1. f = file /\ p \in DOMAIN file
          BY <3>1 DEF NoFile
        <4>2. file[p] \in Param[p].least..Param[p].most
          BY <4>1 DEF ValuesInv, WithinBounds, FileInv
        <4> QED BY <2>1, <4>1, <4>2, LoadedBounds
      <3>2. CASE p \notin DOMAIN f
        BY <2>1, <3>2, LoadedBounds
      <3> QED BY <3>1, <3>2
    <2> QED BY <2>1, <2>2, LoadedBounds DEF WithinBounds, FileInv
  <1>2. ASSUME NEW loss \in Losses, NEW kind \in Kinds, Line(loss, kind)
        PROVE  WithinBounds' /\ FileInv'
    <2>1. /\ adaptive' \in Adaptive /\ Moved(adaptive, adaptive')
          /\ ~Ends(kind) => file' = file /\ adaptive'.value = adaptive.value
          /\ Ends(kind) => file' = adaptive'.value
      BY <1>2, LineLearns DEF ValuesInv, Inv
    <2>2. WithinBounds'
      BY <2>1 DEF ValuesInv, WithinBounds, Moved
    <2>3. FileInv'
      <3>1. CASE Ends(kind)
        <4>1. DOMAIN file' = Params /\ file' = adaptive'.value
          BY <2>1, <3>1 DEF Adaptive
        <4> QED BY <4>1 DEF FileInv
      <3>2. CASE ~Ends(kind)
        BY <2>1, <3>2 DEF ValuesInv, FileInv
      <3> QED BY <3>1, <3>2
    <2> QED BY <2>2, <2>3
  <1>3. ASSUME UNCHANGED <<adaptive, file>> PROVE WithinBounds' /\ FileInv'
    BY <1>3 DEF ValuesInv, WithinBounds, FileInv
  <1>4. WithinBounds' /\ FileInv'
    BY <1>1, <1>2, <1>3 DEF Next, NewSession, Restart, RestartInSave, vars
  <1> QED BY <1>4 DEF ValuesInv

LEMMA ValuesAlways ==
    ASSUME StartWithinBounds
    PROVE  Spec => []ValuesInv
  <1>1. Init => WithinBounds /\ FileInv
    <2> SUFFICES ASSUME Init PROVE WithinBounds /\ FileInv
      OBVIOUS
    <2>1. adaptive = Loaded(NoFile) /\ file = NoFile /\ DOMAIN NoFile = {}
      BY DEF Init, NoFile
    <2> QED BY <2>1, LoadedBounds DEF WithinBounds, FileInv
  <1>2. ValuesInv /\ Inv' /\ [Next]_vars => ValuesInv'
    BY ValuesStep
  <1>3. ValuesInv <=> Inv /\ WithinBounds /\ FileInv
    BY DEF ValuesInv
  <1> QED BY <1>1, <1>2, <1>3, InvAlways, PTL DEF Spec

----------------------------------------------------------------------------
(* The theorems. *)

\* Type correctness. An outcome (update) and a load take a learned value within its
\* bounds whatever it was, but a configured value that no outcome has moved stays as
\* it was configured.
THEOREM TypeCorrect ==
    ASSUME StartWithinBounds
    PROVE  Spec => []TypeOK
  <1>1. ValuesInv => TypeOK
    BY DEF ValuesInv, Inv, TypeOK
  <1> QED BY <1>1, ValuesAlways, PTL

\* Whatever the lengths of the windows, the losses, and the changes, emergencies,
\* rotations and restarts between them, each change on_profile_changed is told of is
\* learned from once, in order, and from the loss of its own lines alone: a change
\* that comes while a window is open ends it instead of losing it, and no line counts
\* for two changes.
THEOREM LearnsAlwaysFromOwnLines == Spec => []LearnsFromOwnLines
  <1>1. Inv => LearnsFromOwnLines
    BY DEF Inv
  <1> QED BY <1>1, InvAlways, PTL

\* Each change log() sees has one outcome record, in order, of the lines from the
\* change's own to the last before the next change or rotation: the training data has
\* no change twice, none left out and no line of another's.
THEOREM OneRecordForEveryChange == Spec => []OneRecordPerChange
  <1>1. Inv => OneRecordPerChange
    BY DEF Inv
  <1> QED BY <1>1, InvAlways, PTL

\* Whatever has been learned before a process is killed between two lines is what the
\* next starts with. Where a process was killed within save() earlier, the values it
\* started over from count: what is learned since is in the file.
THEOREM RestartAlwaysKeepsLearned ==
    ASSUME StartWithinBounds
    PROVE  Spec => RestartKeepsLearned
  <1>1. ValuesInv => (Restart => adaptive'.value = adaptive.value)
    BY RestartValues DEF Restart, Restarted
  <1>2. ValuesInv /\ [Next]_vars => [Restart => adaptive'.value = adaptive.value]_vars
    BY <1>1
  <1> QED BY <1>2, ValuesAlways, PTL DEF Spec, RestartKeepsLearned
=============================================================================
