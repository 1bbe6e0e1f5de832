----------------------- MODULE ProfileSelector_proofs -----------------------
(* Proofs about the gate, for every MCS table, link and tuning, and about    *)
(* the sizing, for every line and all limits that leave a block its parity. *)
EXTENDS MCProfileSelector, TLAPS, WellFoundedInduction

----------------------------------------------------------------------------
(* The sizing. *)

\* What the limits must leave: a clamp of a block to max_fec_redundancy keeps one
\* packet of parity in the least block, 3 packets, and a cut to max_fec_n keeps it
\* whichever way its quotient is rounded. As shipped: 50 %, 15 packets and at
\* least 10 % (alink_gs.conf).
CapsLeaveParity ==
    /\ 3 * MaxRedundancy > 100
    /\ MaxN * MaxRedundancy >= 200
    /\ \A r \in Redundancy : MaxN * r > 100

\* A product grows with its factor, and only with it.
LEMMA Scale ==
    ASSUME NEW a \in Int, NEW b \in Int, NEW c \in Nat, a <= b
    PROVE  a * c <= b * c /\ a * c \in Int /\ b * c \in Int
  <1>1. b * c = a * c + (b - a) * c /\ (b - a) * c >= 0
    OBVIOUS
  <1>2. a * c \in Int /\ b * c \in Int
    OBVIOUS
  <1> QED BY <1>1, <1>2

LEMMA ScaleBack ==
    ASSUME NEW a \in Int, NEW b \in Int, NEW c \in Nat, a * c < b * c
    PROVE  a < b
  <1> SUFFICES ASSUME b <= a PROVE FALSE
    OBVIOUS
  <1>1. b * c <= a * c /\ a * c \in Int /\ b * c \in Int
    BY Scale
  <1> QED BY <1>1

LEMMA ScaleBackWeak ==
    ASSUME NEW a \in Int, NEW b \in Int, NEW c \in Nat \ {0}, a * c <= b * c
    PROVE  a <= b
  <1> SUFFICES ASSUME b + 1 <= a PROVE FALSE
    OBVIOUS
  <1>1. (b + 1) * c <= a * c
    BY Scale
  <1>2. (b + 1) * c = b * c + c /\ a * c \in Int /\ b * c \in Int
    OBVIOUS
  <1> QED BY <1>1, <1>2

\* A quotient rounded up is no less, and less than one more or exactly that.
LEMMA CeilBounds ==
    ASSUME NEW a \in Nat, NEW b \in Nat \ {0}, NEW q \in Ceil(a, b)
    PROVE  q \in Nat /\ a <= q * b /\ q * b <= a + b
  <1> DEFINE d == a \div b
             r == a % b
  <1>0. a = b * d + r
    OBVIOUS
  <1>1. d \in Nat
    OBVIOUS
  <1>5. r \in 0..(b - 1)
    OBVIOUS
  <1>2. q = d + 1 \/ (q = d /\ r = 0)
    BY DEF Ceil
  <1> HIDE DEF d, r
  <1>3. CASE q = d + 1
    <2>1. q * b = d * b + b /\ d * b \in Nat
      BY <1>1, <1>3
    <2>2. b * d = d * b
      BY <1>1
    <2> QED BY <1>0, <1>1, <1>3, <1>5, <2>1, <2>2
  <1>4. CASE q = d /\ r = 0
    BY <1>0, <1>1, <1>4
  <1> QED BY <1>2, <1>3, <1>4

\* The blocks at each stage of the sizing: at least two packets of video and
\* one of parity.
IsBlock(b) == b \in [k : Nat, n : Nat] /\ 2 <= b.k /\ b.k < b.n

\* Parity enough that max_fec_n leaves some of it, whichever way its quotient is
\* rounded.
Ample(b) == IsBlock(b) /\ (b.n <= MaxN \/ b.n < MaxN * Parity(b))

LEMMA BaseAmple ==
    ASSUME CapsLeaveParity, NEW l \in Input, NEW b \in Base(l)
    PROVE  Ample(b)
  <1> USE InputAssumption, LimitAssumption
  <1> DEFINE k == AtLeast(AtMost(l.byLatency, l.byFrame), 2)
  <1>1. /\ l.byLatency \in Nat /\ l.byFrame \in Nat
        /\ l.redundancy \in Redundancy /\ l.redundancy \in 1..99
    BY DEF Input
  <1>2. k \in Nat /\ k >= 2
    BY <1>1 DEF AtLeast, AtMost
  <1>3. PICK c \in Ceil(100 * k, 100 - l.redundancy) : b = Block(k, AtLeast(c, k + 1))
    BY DEF Base
  <1> DEFINE r == l.redundancy
             n == AtLeast(c, k + 1)
  <1>4. r \in 1..99 /\ MaxN * r > 100 /\ MaxN \in Nat
    BY <1>1 DEF CapsLeaveParity
  <1> HIDE DEF k, r
  <1>5. c \in Nat /\ 100 * k <= c * (100 - r)
    <2>1. 100 * k \in Nat /\ 100 - r \in Nat \ {0} /\ c \in Ceil(100 * k, 100 - r)
      BY <1>2, <1>3, <1>4 DEF r
    <2> QED BY <2>1, CeilBounds
  <1>6. n \in Nat /\ k + 1 <= n /\ c <= n
    BY <1>2, <1>5 DEF AtLeast
  <1>7. b.k = k /\ b.n = n /\ b \in [k : Nat, n : Nat]
    BY <1>2, <1>3, <1>6 DEF Block
  <1> HIDE DEF n
  <1>8. 100 * k <= n * (100 - r)
    <2>1. c * (100 - r) <= n * (100 - r)
      BY <1>4, <1>5, <1>6, Scale
    <2>2. c * (100 - r) \in Int /\ n * (100 - r) \in Int
      BY <1>4, <1>5, <1>6
    <2> QED BY <1>2, <1>5, <2>1, <2>2
  <1>9. n * r <= 100 * (n - k)
    BY <1>2, <1>4, <1>6, <1>8
  <1>10. n < MaxN * (n - k)
    <2> DEFINE parity == n - k
    <2>1. parity \in Int /\ n * r \in Int /\ n * r <= 100 * parity
      BY <1>2, <1>4, <1>6, <1>9
    <2> HIDE DEF parity
    <2>2. MaxN * r >= 101 /\ MaxN * r \in Int
      BY <1>4
    <2>3. 101 * n <= (MaxN * r) * n
      BY <1>6, <2>2, Scale
    <2>4. (n * r) * MaxN <= (100 * parity) * MaxN
      BY <1>4, <2>1, Scale
    <2>5. (n * r) * MaxN = (MaxN * r) * n /\ (100 * parity) * MaxN = 100 * (MaxN * parity)
      BY <1>4, <1>6, <2>1
    <2>6. (MaxN * r) * n \in Int /\ MaxN * parity \in Int
      BY <1>4, <1>6, <2>1
    <2>7. 101 * n <= 100 * (MaxN * parity)
      BY <1>6, <2>3, <2>4, <2>5, <2>6
    <2>8. n < MaxN * parity
      BY <1>2, <1>6, <2>6, <2>7
    <2> QED BY <2>8 DEF parity
  <1> QED BY <1>2, <1>6, <1>7, <1>10 DEF Ample, IsBlock, Parity

LEMMA LossAmple ==
    ASSUME NEW l, NEW b, Ample(b), MaxN \in Nat, MaxN >= 3
    PROVE  Ample(UnderLoss(l, b))
  <1> DEFINE c == Block(b.k, b.n + 1)
  <1>1. b.k \in Nat /\ b.n \in Nat /\ 2 <= b.k /\ b.k < b.n
        /\ (b.n <= MaxN \/ b.n < MaxN * (b.n - b.k))
    BY DEF Ample, IsBlock, Parity
  <1>2. c.k = b.k /\ c.n = b.n + 1 /\ c \in [k : Nat, n : Nat]
    BY <1>1 DEF Block
  <1>3. MaxN * (b.n + 1 - b.k) = MaxN * (b.n - b.k) + MaxN /\ MaxN * (b.n - b.k) \in Int
    BY <1>1
  <1>4. MaxN <= MaxN * (b.n - b.k)
    BY <1>1
  <1>5. b.n + 1 < MaxN * (b.n + 1 - b.k)
    BY <1>1, <1>3, <1>4
  <1>6. Ample(c)
    BY <1>1, <1>2, <1>5 DEF Ample, IsBlock, Parity
  <1> QED BY <1>6 DEF UnderLoss

\* The redundancy cap takes k to its least or keeps the parity share.
Capped(b) == 100 * Parity(b) <= MaxRedundancy * b.n \/ b.k = 2

LEMMA RedundancyAmple ==
    ASSUME CapsLeaveParity, NEW b, Ample(b), NEW c \in WithinRedundancy(b)
    PROVE  Ample(c) /\ Capped(c)
  <1> DEFINE M == MaxRedundancy
             n == b.n
  <1>1. MaxN \in Nat /\ MaxN >= 3 /\ M \in 0..100 /\ M >= 34 /\ MaxN * M >= 200
    BY LimitAssumption DEF CapsLeaveParity
  <1>2. n \in Nat /\ b.k \in Nat /\ 2 <= b.k /\ b.k < n
    BY DEF Ample, IsBlock
  <1>3. CASE c = b /\ ~(100 * Parity(b) > MaxRedundancy * b.n)
    <2>1. Parity(b) \in Int /\ MaxRedundancy * b.n \in Int
      BY <1>1, <1>2 DEF Parity
    <2> QED BY <1>3, <2>1 DEF Capped
  <1>4. ASSUME NEW q \in Ceil(n * (100 - M), 100), c = Block(AtLeast(q, 2), n)
        PROVE  Ample(c) /\ Capped(c)
    <2> DEFINE k == AtLeast(q, 2)
    <2>0. c = Block(k, n)
      BY <1>4
    <2>1. q \in Nat /\ n * (100 - M) <= q * 100 /\ q * 100 <= n * (100 - M) + 100
      <3>1. n * (100 - M) \in Nat /\ 100 \in Nat \ {0}
        BY <1>1, <1>2
      <3> QED BY <1>4, <3>1, CeilBounds
    <2>2. n * (100 - M) = 100 * n - n * M /\ n * M \in Nat /\ n * M > 100
      <3>1. n * (100 - M) = 100 * n - n * M /\ n * M \in Nat
        BY <1>1, <1>2
      <3>2. 3 * M <= n * M
        BY <1>1, <1>2, Scale
      <3> QED BY <1>1, <3>1, <3>2
    <2>3. k \in Nat /\ q <= k /\ 2 <= k /\ (k = q \/ k = 2)
      BY <2>1 DEF AtLeast
    <2> HIDE DEF k
    <2>4. k < n
      BY <1>2, <2>1, <2>2, <2>3
    <2>5. c.k = k /\ c.n = n /\ c \in [k : Nat, n : Nat]
      BY <1>2, <2>0, <2>3 DEF Block
    <2>6. 100 * (n - k) <= M * n
      <3>1. M * n = n * M
        BY <1>1, <1>2
      <3> QED BY <1>2, <2>1, <2>2, <2>3, <3>1
    <2>7. ASSUME ~(n <= MaxN) PROVE n < MaxN * (n - k)
      <3>1. CASE k = 2
        <4>1. n - 2 \in Nat /\ 3 * (n - 2) <= MaxN * (n - 2)
          BY <1>1, <1>2, <2>7, Scale
        <4>2. 3 * (n - 2) > n
          BY <1>1, <1>2, <2>7
        <4>3. MaxN * (n - 2) \in Int
          BY <1>1, <1>2
        <4> QED BY <1>2, <3>1, <4>1, <4>2, <4>3
      <3>2. CASE k = q
        <4> DEFINE parity == n - k
        <4>1. parity \in Nat /\ n * M - 100 <= 100 * parity
          BY <1>2, <2>1, <2>2, <2>4, <3>2
        <4> HIDE DEF parity
        <4>2. (n * M - 100) * MaxN <= (100 * parity) * MaxN
          BY <1>1, <2>2, <4>1, Scale
        <4>3. (n * M - 100) * MaxN = (MaxN * M) * n - 100 * MaxN
              /\ (100 * parity) * MaxN = 100 * (MaxN * parity)
          BY <1>1, <1>2, <4>1
        <4>4. 200 * n <= (MaxN * M) * n
          BY <1>1, <1>2, Scale
        <4>5. (MaxN * M) * n \in Int /\ MaxN * parity \in Int
          BY <1>1, <1>2, <4>1
        <4>6. 200 * n - 100 * MaxN <= 100 * (MaxN * parity)
          BY <1>1, <1>2, <4>2, <4>3, <4>4, <4>5
        <4>7. n < MaxN * parity
          BY <1>1, <1>2, <2>7, <4>5, <4>6
        <4> QED BY <4>7 DEF parity
      <3> QED BY <2>3, <3>1, <3>2
    <2> QED BY <1>2, <2>3, <2>4, <2>5, <2>6, <2>7 DEF Ample, IsBlock, Capped, Parity
  <1> QED BY <1>3, <1>4 DEF WithinRedundancy

LEMMA MaxNSound ==
    ASSUME CapsLeaveParity, NEW b, Ample(b), Capped(b), NEW c \in WithinMaxN(b)
    PROVE  c.k \in 2..(c.n - 1) /\ c.n \in Nat /\ c.n <= MaxN /\ Capped(c)
  <1> DEFINE M == MaxRedundancy
             n == b.n
  <1>1. MaxN \in Nat /\ MaxN >= 3 /\ M \in 0..100
    BY LimitAssumption
  <1>2. n \in Nat /\ b.k \in Nat /\ 2 <= b.k /\ b.k < n
    BY DEF Ample, IsBlock
  <1>3. CASE ~(b.n > MaxN)
    BY <1>1, <1>2, <1>3 DEF WithinMaxN
  <1>4. CASE b.n > MaxN
    <2>1. PICK q \in Ceil(MaxN * b.k, n) : c = Block(AtLeast(q, 2), MaxN)
      BY <1>4 DEF WithinMaxN
    <2> DEFINE k == AtLeast(q, 2)
    <2>0. c = Block(k, MaxN)
      BY <2>1
    <2>2. MaxN * b.k \in Nat /\ n \in Nat \ {0}
      BY <1>1, <1>2
    <2>3. q \in Nat /\ MaxN * b.k <= q * n /\ q * n <= MaxN * b.k + n /\ q * n \in Nat
      <3>1. q \in Nat /\ MaxN * b.k <= q * n /\ q * n <= MaxN * b.k + n
        BY <2>1, <2>2, CeilBounds
      <3> QED BY <2>2, <3>1
    <2>4. k \in Nat /\ q <= k /\ 2 <= k /\ (k = q \/ k = 2)
      BY <2>3 DEF AtLeast
    <2>5. c.k = k /\ c.n = MaxN
      BY <2>0 DEF Block
    <2> HIDE DEF k
    <2>6. q < MaxN
      <3>1. n < MaxN * (n - b.k)
        BY <1>1, <1>2, <1>4 DEF Ample, Parity
      <3>2. MaxN * (n - b.k) = MaxN * n - MaxN * b.k /\ MaxN * n \in Int
        BY <1>1, <1>2
      <3>3. q * n < MaxN * n
        BY <1>2, <2>2, <2>3, <3>1, <3>2
      <3> QED BY <1>1, <2>2, <2>3, <3>3, ScaleBack
    <2>7. CASE b.k = 2
      <3>1. q * n < 3 * n
        BY <1>1, <1>2, <1>4, <2>3, <2>7
      <3>2. q < 3
        BY <1>2, <2>3, <3>1, ScaleBack
      <3> QED BY <1>1, <2>3, <2>4, <2>5, <3>2 DEF Capped
    <2>8. CASE 100 * Parity(b) <= MaxRedundancy * b.n
      <3> DEFINE parity == n - b.k
      <3>1. parity \in Nat /\ 100 * parity <= M * n
        BY <1>2, <2>8 DEF Parity
      <3>2. MaxN * n - q * n <= MaxN * parity /\ MaxN * n \in Int /\ MaxN * parity \in Int
        BY <1>1, <1>2, <2>2, <2>3
      <3> HIDE DEF parity
      <3>3. (100 * parity) * MaxN <= (M * n) * MaxN
        BY <1>1, <1>2, <3>1, Scale
      <3>4. (100 * parity) * MaxN = 100 * (MaxN * parity)
            /\ (M * n) * MaxN = (M * MaxN) * n /\ (M * MaxN) * n \in Int
        BY <1>1, <1>2, <3>1
      <3>5. (100 * (MaxN - q)) * n = 100 * (MaxN * n - q * n)
        BY <1>1, <1>2, <2>3
      <3>6. (100 * (MaxN - q)) * n <= (M * MaxN) * n
        BY <2>3, <3>2, <3>3, <3>4, <3>5
      <3>7. 100 * (MaxN - q) <= M * MaxN
        BY <1>1, <2>2, <2>3, <3>6, ScaleBackWeak
      <3>8. M * MaxN \in Int
        BY <1>1
      <3>9. 100 * (MaxN - k) <= M * MaxN
        BY <1>1, <2>3, <2>4, <3>7, <3>8
      <3> QED BY <1>1, <2>3, <2>4, <2>5, <2>6, <3>9 DEF Capped, Parity
    <2> QED BY <2>7, <2>8 DEF Capped
  <1> QED BY <1>3, <1>4


LEMMA BlocksSound ==
    ASSUME CapsLeaveParity, NEW l \in Input, NEW c \in Blocks(l)
    PROVE  c.k \in 2..(c.n - 1) /\ c.n \in Nat /\ c.n <= MaxN /\ Capped(c)
  <1>1. PICK b \in Base(l) : \E a \in WithinRedundancy(UnderLoss(l, b)) : c \in WithinMaxN(a)
    BY DEF Blocks
  <1>2. PICK a \in WithinRedundancy(UnderLoss(l, b)) : c \in WithinMaxN(a)
    BY <1>1
  <1>3. Ample(UnderLoss(l, b))
    BY BaseAmple, LossAmple, LimitAssumption
  <1>4. Ample(a) /\ Capped(a)
    BY <1>2, <1>3, RedundancyAmple
  <1> QED BY <1>2, <1>4, MaxNSound

\* A quotient rounded down.
LEMMA FloorBounds ==
    ASSUME NEW a \in Nat, NEW b \in Nat \ {0}, NEW q, q = a \div b
    PROVE  q \in Nat /\ q * b <= a /\ a < (q + 1) * b
  <1> DEFINE r == a % b
  <1>1. q \in Nat
    OBVIOUS
  <1>2. a = b * q + r
    OBVIOUS
  <1>3. r \in 0..(b - 1)
    OBVIOUS
  <1>4. b * q = q * b /\ (q + 1) * b = q * b + b /\ q * b \in Nat
    BY <1>1
  <1> HIDE DEF r
  <1> QED BY <1>1, <1>2, <1>3, <1>4

LEMMA BitrateFits ==
    ASSUME NEW l \in Input, NEW b, b.k \in Nat, b.n \in Nat, b.n > 0,
           NEW s, s.line = l, s.block = b, s.bitrate = Bitrate(l, b)
    PROVE  FitsLink(s)
  <1> DEFINE n == b.n
             carried == l.capacity * b.k
             q == carried \div n
  <1>1. carried \in Nat /\ n \in Nat \ {0}
    <2>1. l.capacity \in Nat
      BY InputAssumption DEF Input
    <2> QED BY <2>1
  <1>2. MinBitrate \in Nat /\ MaxBitrate \in Nat /\ MinBitrate <= MaxBitrate
    BY LimitAssumption
  <1>3. s.bitrate = AtLeast(AtMost(q, MaxBitrate), MinBitrate)
    BY DEF Bitrate
  <1>4. FitsLink(s) <=>
            /\ s.bitrate * n <= carried \/ s.bitrate = MinBitrate
            /\ (s.bitrate + 1) * n > carried \/ s.bitrate = MaxBitrate
            /\ s.bitrate \in MinBitrate..MaxBitrate
    BY DEF FitsLink
  <1> HIDE DEF n, carried
  <1>5. q \in Nat /\ q * n <= carried /\ carried < (q + 1) * n
    BY <1>1, FloorBounds
  <1> HIDE DEF q
  <1>6. s.bitrate \in Nat /\ s.bitrate \in MinBitrate..MaxBitrate
        /\ (s.bitrate <= q \/ s.bitrate = MinBitrate)
        /\ (q <= s.bitrate \/ s.bitrate = MaxBitrate)
    BY <1>2, <1>3, <1>5 DEF AtLeast, AtMost
  <1>7. ASSUME s.bitrate <= q PROVE s.bitrate * n <= carried
    <2>1. s.bitrate * n <= q * n /\ s.bitrate * n \in Int /\ q * n \in Int
      BY <1>1, <1>5, <1>6, <1>7, Scale
    <2> QED BY <1>1, <1>5, <2>1
  <1>8. ASSUME q <= s.bitrate PROVE (s.bitrate + 1) * n > carried
    <2>1. (q + 1) * n <= (s.bitrate + 1) * n
      BY <1>1, <1>5, <1>6, <1>8, Scale
    <2>2. (q + 1) * n \in Int /\ (s.bitrate + 1) * n \in Int
      BY <1>1, <1>5, <1>6
    <2> QED BY <1>1, <1>5, <2>1, <2>2
  <1> QED BY <1>4, <1>6, <1>7, <1>8

LEMMA SizingsSound ==
    ASSUME CapsLeaveParity, NEW s \in Sizings
    PROVE  Sound(s) /\ FitsLink(s)
  <1>1. PICK l \in Input : \E b \in Blocks(l) :
            s = [line |-> l, block |-> b, bitrate |-> Bitrate(l, b)]
    BY DEF Sizings
  <1>2. PICK b \in Blocks(l) : s = [line |-> l, block |-> b, bitrate |-> Bitrate(l, b)]
    BY <1>1
  <1>3. s.line = l /\ s.block = b /\ s.bitrate = Bitrate(l, b)
    BY <1>2
  <1>4. b.k \in 2..(b.n - 1) /\ b.n \in Nat /\ b.n <= MaxN /\ Capped(b)
    BY BlocksSound
  <1>5. Sound(s)
    BY <1>3, <1>4 DEF Sound, Capped
  <1>6. FitsLink(s)
    <2>1. b.k \in Nat /\ b.n > 0
      BY <1>4
    <2> QED BY <1>3, <1>4, <2>1, BitrateFits
  <1> QED BY <1>5, <1>6

\* Every sizing of a line is sound, whatever the line brings and however its
\* quotients are rounded (ProfileSelector._compute_profile).
THEOREM SizingAlwaysSound ==
    ASSUME CapsLeaveParity
    PROVE  Spec => []SizingIsSound
  <1>1. SizingIsSound
    BY SizingsSound DEF SizingIsSound, Sized
  <1> QED BY <1>1, PTL


USE TuningAssumption

----------------------------------------------------------------------------
(* What a line calls for. *)

LEMMA LargestExists ==
    ASSUME NEW N \in Nat, NEW S, S \subseteq 0..N, S # {}
    PROVE  Max(S) \in S /\ \A x \in S : Max(S) >= x
  <1> DEFINE T == {N - x : x \in S}
  <1>1. T \subseteq Nat /\ T # {}
    <2>1. ASSUME NEW x \in S PROVE N - x \in Nat
      <3>1. x \in 0..N
        BY <2>1
      <3> QED BY <3>1
    <2>2. T # {}
      OBVIOUS
    <2> QED BY <2>1, <2>2
  <1>2. PICK t \in T : \A y \in T : ~(<<y, t>> \in OpToRel(<, Nat))
    BY <1>1, NatLessThanWellFounded, WFMin
  <1>3. \A y \in T : ~(y < t)
    BY <1>1, <1>2 DEF OpToRel
  <1>4. PICK x \in S : t = N - x
    BY DEF T
  <1>5. ASSUME NEW y \in S PROVE x >= y
    <2>1. ~(N - y < t)
      BY <1>3, <1>5
    <2> QED BY <2>1, <1>4
  <1> QED BY <1>5 DEF Max

LEMMA CandidateIsMcs == ASSUME NEW l \in Link PROVE Candidate(l) \in Mcs
  <1> DEFINE usable == {m \in Mcs : l.head >= Threshold[m]}
  <1>1. CASE usable = {}
    BY <1>1, McsAssumption DEF Candidate, Mcs
  <1>2. CASE usable # {}
    <2>1. Max(usable) \in usable
      BY <1>2, McsAssumption, LargestExists DEF Mcs
    <2> QED BY <1>2, <2>1 DEF Candidate
  <1> QED BY <1>1, <1>2

LEMMA CandidateBelowBreach ==
    ASSUME NEW l \in Link, NEW c \in Mcs, c > 0, l.head < Threshold[c]
    PROVE  Candidate(l) < c
  <1> DEFINE usable == {m \in Mcs : l.head >= Threshold[m]}
  <1>1. CASE usable = {}
    BY <1>1, McsAssumption DEF Candidate, Mcs
  <1>2. CASE usable # {}
    <2>1. Max(usable) \in usable
      BY <1>2, McsAssumption, LargestExists DEF Mcs
    <2>2. ASSUME NEW m \in usable PROVE m < c
      <3>1. m \in Mcs /\ l.head >= Threshold[m] /\ l.head \in Int
        BY <2>2, LinkAssumption
      <3>2. Threshold[m] \in Int /\ Threshold[c] \in Int
        BY <3>1, McsAssumption
      <3>3. ~(c < m) /\ c # m
        BY <3>1, <3>2, McsAssumption
      <3> QED BY <3>1, <3>3, McsAssumption DEF Mcs
    <2> QED BY <1>2, <2>1, <2>2 DEF Candidate
  <1> QED BY <1>1, <1>2

\* The step limit, and that an emergency on a link above MCS 0 lowers it.
LEMMA TargetBounds ==
    ASSUME NEW l \in Link, current \in Mcs \cup {-1}
    PROVE  /\ Target(l) \in Mcs
           /\ Target(l) > current => Candidate(l) > current
           /\ current >= 0 /\ MaxStep > 0 => Target(l) <= current + MaxStep
           /\ Candidate(l) < current => Target(l) < current
           /\ l.emergency /\ current > 0 => Target(l) < current
  <1>1. Candidate(l) \in Mcs
    BY CandidateIsMcs
  <1>2. Clamped(l) \in Mcs /\ Clamped(l) <= Candidate(l)
        /\ (l.emergency /\ current > 0 => Clamped(l) < current)
    BY <1>1, McsAssumption DEF Clamped, Sooner, Mcs
  <1> QED BY <1>1, <1>2, McsAssumption DEF Target, Sooner, Mcs

LEMMA BoundsAreNumbers ==
    /\ MaxHold \in Nat /\ MaxHold >= HoldDown /\ MaxHold >= HoldFallback
    /\ ClimbBound \in Nat /\ BreachBound \in Nat
  <1>1. MaxHold \in Nat /\ MaxHold >= HoldDown /\ MaxHold >= HoldFallback
    BY DEF MaxHold, Later
  <1>2. ClimbBound \in Nat
    BY <1>1, McsAssumption DEF ClimbBound
  <1> QED BY <1>1, <1>2 DEF BreachBound

----------------------------------------------------------------------------
(* Types. *)

LEMMA InitTypeOK == Init => TypeOK
  <1>1. MinBetween \in 0..MinBetween /\ MaxHold \in 0..MaxHold /\ 0 \in 0..ClimbBound
        /\ 0 \in 0..ConfidenceLoops
    BY BoundsAreNumbers
  <1> QED BY <1>1 DEF Init, TypeOK

LEMMA Numbers ==
    ASSUME TypeOK
    PROVE  /\ current \in Int /\ current >= -1 /\ base \in Int
           /\ sinceChange \in 0..MinBetween /\ sinceMcs \in 0..MaxHold
           /\ upCount \in 0..ConfidenceLoops /\ wanted \in 0..ConfidenceLoops
           /\ climb \in 0..ClimbBound
           /\ breach # None => breach \in 0..BreachBound
  BY McsAssumption DEF TypeOK, Mcs

LEMMA AgedInRange ==
    ASSUME NEW bound \in Nat, NEW since \in 0..bound, NEW d \in Gap
    PROVE  /\ Aged(since, d, bound) \in 0..bound
           /\ Aged(since, d, bound) = since + d \/ Aged(since, d, bound) = bound
           /\ Aged(since, d, bound) <= since + d
           /\ Aged(since, d, bound) >= since
  BY DEF Aged, Sooner

\* What every line does to the gate's own state: the exits share these facts.
LEMMA GateTypes ==
    ASSUME TypeOK, NEW l \in Link, NEW d \in Gap, Select(l, d)
    PROVE  /\ current' \in Mcs \cup {-1} /\ params' \in {k.params : k \in Link} \cup {None}
           /\ sinceChange' \in 0..MinBetween /\ sinceMcs' \in 0..MaxHold
           /\ upCount' \in 0..ConfidenceLoops /\ upTarget' \in Mcs \cup {-1}
  <1>1. Target(l) \in Mcs
    BY TargetBounds DEF TypeOK
  <1>2. /\ Aged(sinceChange, d, MinBetween) \in 0..MinBetween
        /\ Aged(sinceMcs, d, MaxHold) \in 0..MaxHold
        /\ 0 \in 0..MinBetween /\ 0 \in 0..MaxHold
    BY AgedInRange, BoundsAreNumbers, Numbers
  <1>3. Count(Target(l)) => upCount' \in 0..ConfidenceLoops /\ upTarget' \in Mcs
    BY <1>1 DEF Count, Sooner, TypeOK
  <1>4. Forget => upCount' \in 0..ConfidenceLoops /\ upTarget' \in Mcs \cup {-1}
    BY DEF Forget
  <1>5. CASE RateLimited(l, d)
    BY <1>2, <1>5 DEF RateLimited, Age, TypeOK
  <1>6. CASE FeedConfidence(l, d)
    BY <1>2, <1>3, <1>6 DEF FeedConfidence, Age, TypeOK
  <1>7. CASE StayAbove(l, d)
    BY <1>2, <1>7 DEF StayAbove, Age, TypeOK
  <1>8. CASE SameMcs(l, d)
    BY <1>2, <1>4, <1>8 DEF SameMcs, Renewed, TypeOK
  <1>9. CASE HoldBack(l, d)
    BY <1>2, <1>9 DEF HoldBack, Age, TypeOK
  <1>10. CASE GainConfidence(l, d)
    BY <1>2, <1>3, <1>10 DEF GainConfidence, Age, TypeOK
  <1>11. CASE ChangeMcs(l, d)
    BY <1>1, <1>2, <1>4, <1>11 DEF ChangeMcs, TypeOK
  <1> QED BY <1>5, <1>6, <1>7, <1>8, <1>9, <1>10, <1>11 DEF Select

LEMMA TypeStep == TypeOK /\ [Next]_vars => TypeOK'
  <1> SUFFICES ASSUME TypeOK, [Next]_vars PROVE TypeOK'
    OBVIOUS
  <1>1. ASSUME NEW l \in Link, NEW d \in Gap, StatsLine(l, d) PROVE TypeOK'
    <2>1. Select(l, d) /\ Remember(l, d) /\ link' = l
      BY <1>1 DEF StatsLine
    <2>2. /\ current' \in Mcs \cup {-1} /\ params' \in {k.params : k \in Link} \cup {None}
          /\ sinceChange' \in 0..MinBetween /\ sinceMcs' \in 0..MaxHold
          /\ upCount' \in 0..ConfidenceLoops /\ upTarget' \in Mcs \cup {-1}
      BY <2>1, GateTypes
    <2>3. base' \in Mcs \cup {-1}
      BY <2>1, <2>2 DEF Remember, TypeOK
    <2>4. climb' \in 0..ClimbBound
      <3>1. ClimbBound \in Nat /\ climb \in 0..ClimbBound
        BY BoundsAreNumbers DEF TypeOK
      <3>2. Aged(climb, d, ClimbBound) \in 0..ClimbBound
        BY <3>1, AgedInRange
      <3>3. 0 \in 0..ClimbBound
        BY <3>1
      <3> QED BY <2>1, <3>2, <3>3 DEF Remember
    <2>5. wanted' \in 0..ConfidenceLoops
      BY <2>1 DEF Remember, Sooner, TypeOK
    <2>6. breach' \in 0..BreachBound \cup {None}
      <3>1. 0 \in 0..BreachBound
        BY BoundsAreNumbers
      <3>2. breach # None => Aged(breach, d, BreachBound) \in 0..BreachBound
        <4>1. BreachBound \in Nat /\ (breach # None => breach \in 0..BreachBound)
          BY BoundsAreNumbers DEF TypeOK
        <4> QED BY <4>1, AgedInRange
      <3> QED BY <2>1, <3>1, <3>2 DEF Remember
    <2> QED BY <2>1, <2>2, <2>3, <2>4, <2>5, <2>6 DEF TypeOK
  <1>2. CASE UNCHANGED vars
    BY <1>2 DEF TypeOK, vars, gateVars, historyVars
  <1> QED BY <1>1, <1>2 DEF Next

\* The gate's state stays in its ranges, whatever metrics the lines bring.
THEOREM TypeCorrect == Spec => []TypeOK
  BY InitTypeOK, TypeStep, PTL DEF Spec

----------------------------------------------------------------------------
(* Confidence. *)

LEMMA ConfidenceStep ==
    TypeOK /\ ConfidenceIsEarned /\ [Next]_vars => ConfidenceIsEarned'
  <1> SUFFICES ASSUME TypeOK, ConfidenceIsEarned, [Next]_vars PROVE ConfidenceIsEarned'
    OBVIOUS
  <1>1. ASSUME NEW l \in Link, NEW d \in Gap, StatsLine(l, d) PROVE ConfidenceIsEarned'
    <2>1. Select(l, d) /\ Remember(l, d)
      BY <1>1 DEF StatsLine
    <2>2. Forget => ConfidenceIsEarned'
      <3>1. wanted' \in 0..ConfidenceLoops
        BY <1>1, TypeStep DEF Next, TypeOK
      <3> QED BY <3>1 DEF Forget, ConfidenceIsEarned
    <2>3. UNCHANGED <<current, upCount, upTarget>> => ConfidenceIsEarned'
      BY <2>1 DEF Remember, Sooner, ConfidenceIsEarned, TypeOK
    <2>4. ASSUME UNCHANGED current, Target(l) > current, Count(Target(l))
          PROVE  ConfidenceIsEarned'
      <3>1. Candidate(l) > current
        BY <2>4, TargetBounds DEF TypeOK
      <3>2. wanted' = Sooner(wanted + 1, ConfidenceLoops)
        BY <2>1, <2>4, <3>1 DEF Remember
      <3>3. upCount' <= Sooner(upCount + 1, ConfidenceLoops)
        BY <2>4, Numbers DEF Count, Sooner
      <3>4. upCount' \in 0..ConfidenceLoops /\ upTarget' = Target(l)
        BY <2>4, Numbers DEF Count, Sooner
      <3>5. upCount' <= wanted'
        BY <3>2, <3>3, <3>4, Numbers DEF Sooner, ConfidenceIsEarned
      <3> QED BY <2>4, <3>4, <3>5 DEF ConfidenceIsEarned
    <2>5. CASE RateLimited(l, d)
      BY <2>3, <2>5 DEF RateLimited
    <2>6. CASE FeedConfidence(l, d)
      BY <2>4, <2>6 DEF FeedConfidence, LacksHeadroom
    <2>7. CASE StayAbove(l, d)
      BY <2>3, <2>7 DEF StayAbove
    <2>8. CASE SameMcs(l, d)
      BY <2>2, <2>8 DEF SameMcs
    <2>9. CASE HoldBack(l, d)
      BY <2>3, <2>9 DEF HoldBack
    <2>10. CASE GainConfidence(l, d)
      BY <2>4, <2>10 DEF GainConfidence, NeedsConfidence
    <2>11. CASE ChangeMcs(l, d)
      BY <2>2, <2>11 DEF ChangeMcs
    <2> QED BY <2>1, <2>5, <2>6, <2>7, <2>8, <2>9, <2>10, <2>11 DEF Select
  <1>2. CASE UNCHANGED vars
    BY <1>2 DEF ConfidenceIsEarned, vars, gateVars, historyVars
  <1> QED BY <1>1, <1>2 DEF Next

\* No upgrade ever draws on confidence gathered before the last change of MCS.
THEOREM ConfidenceAlwaysEarned == Spec => []ConfidenceIsEarned
  <1>1. Init => ConfidenceIsEarned
    BY DEF Init, ConfidenceIsEarned
  <1> QED BY <1>1, InitTypeOK, TypeStep, ConfidenceStep, PTL DEF Spec

----------------------------------------------------------------------------
(* Leaving a breached MCS. *)

\* While a breach lasts neither timer is restarted, and one of them is what
\* keeps the MCS.
BreachInv ==
    breach # None =>
        /\ breach < sinceChange \/ sinceChange = MinBetween
        /\ breach < sinceMcs \/ sinceMcs = MaxHold
        /\ sinceChange < MinBetween \/ (~FastDowngrade /\ sinceMcs < HoldDown)

LEMMA BreachedCallsDown ==
    ASSUME TypeOK, NEW l \in Link, Breached(l)
    PROVE  Target(l) < current /\ ~LacksHeadroom(l) /\ ~WithinHysteresis(l)
  <1>1. current \in Mcs /\ current > 0 /\ l.head < Threshold[current]
        /\ Margin(l, current) <= -HysteresisDown
    BY DEF Breached, TypeOK, Mcs
  <1>2. Target(l) < current
    BY <1>1, CandidateBelowBreach, TargetBounds DEF Mcs
  <1>3. Target(l) \in Int /\ current \in Int
    BY <1>1, TargetBounds DEF Mcs
  <1>4. Margin(l, current) \in Int
    BY <1>1, McsAssumption, LinkAssumption DEF Margin
  <1> QED BY <1>1, <1>2, <1>3, <1>4 DEF LacksHeadroom, WithinHysteresis

LEMMA BreachStep == TypeOK /\ BreachInv /\ [Next]_vars => BreachInv'
  <1> SUFFICES ASSUME TypeOK, BreachInv, [Next]_vars PROVE BreachInv'
    OBVIOUS
  <1>1. ASSUME NEW l \in Link, NEW d \in Gap, StatsLine(l, d), breach' # None
        PROVE  BreachInv'
    <2>1. Select(l, d) /\ Remember(l, d)
      BY <1>1 DEF StatsLine
    <2>2. Breached(l) /\ current' = current
      <3>1. CASE ~Breached(l) \/ current' # current
        <4>1. breach' = None
          BY <2>1, <3>1 DEF Remember
        <4> QED BY <1>1, <4>1
      <3> QED BY <3>1
    <2>3. Target(l) < current /\ ~LacksHeadroom(l) /\ ~WithinHysteresis(l)
      BY <2>2, BreachedCallsDown
    <2>4. Target(l) \in Int /\ current \in Int
      BY TargetBounds DEF TypeOK, Mcs
    <2>5. Age(d)
      <3>1. ~SameMcs(l, d) /\ ~FeedConfidence(l, d) /\ ~StayAbove(l, d) /\ ~GainConfidence(l, d)
        BY <2>3, <2>4 DEF SameMcs, FeedConfidence, StayAbove, GainConfidence, NeedsConfidence
      <3>2. ~ChangeMcs(l, d)
        BY <2>2, <2>3, <2>4 DEF ChangeMcs
      <3> QED BY <2>1, <3>1, <3>2 DEF Select, RateLimited, HoldBack
    <2>6. sinceChange' < MinBetween \/ (~FastDowngrade /\ sinceMcs' < HoldDown)
      <3>1. CASE RateLimited(l, d)
        <4>1. Aged(sinceChange, d, MinBetween) < MinBetween
          BY <3>1 DEF RateLimited, Limited
        <4>2. sinceChange' = Aged(sinceChange, d, MinBetween)
          BY <2>5 DEF Age
        <4>3. sinceChange' < MinBetween
          BY <4>1, <4>2
        <4> QED BY <4>3
      <3>2. CASE HoldBack(l, d)
        BY <2>3, <2>4, <2>5, <3>2 DEF HoldBack, Held, Age
      <3>3. ~SameMcs(l, d) /\ ~FeedConfidence(l, d) /\ ~StayAbove(l, d) /\ ~GainConfidence(l, d)
        BY <2>3, <2>4 DEF SameMcs, FeedConfidence, StayAbove, GainConfidence, NeedsConfidence
      <3>4. ~ChangeMcs(l, d)
        BY <2>2, <2>3, <2>4 DEF ChangeMcs
      <3> QED BY <2>1, <3>1, <3>2, <3>3, <3>4 DEF Select
    <2>7. /\ sinceChange' = sinceChange + d \/ sinceChange' = MinBetween
          /\ sinceMcs' = sinceMcs + d \/ sinceMcs' = MaxHold
      BY <2>5, AgedInRange, BoundsAreNumbers DEF Age, TypeOK
    <2>8. CASE breach = None
      <3>1. breach' = 0
        BY <2>1, <2>2, <2>8 DEF Remember
      <3>2. sinceChange + d > 0 /\ sinceMcs + d > 0
        BY Numbers, BoundsAreNumbers
      <3> QED BY <2>6, <2>7, <3>1, <3>2 DEF BreachInv
    <2>9. CASE breach # None
      <3>1. breach' = Aged(breach, d, BreachBound) /\ breach \in 0..BreachBound
        BY <2>1, <2>2, <2>9 DEF Remember, TypeOK
      <3>2. breach' <= breach + d /\ breach' \in Int
        BY <3>1, AgedInRange, BoundsAreNumbers
      <3>3. /\ breach < sinceChange \/ sinceChange = MinBetween
            /\ breach < sinceMcs \/ sinceMcs = MaxHold
        BY <2>9 DEF BreachInv
      <3>4. sinceChange' \in 0..MinBetween /\ sinceMcs' \in 0..MaxHold
        BY <2>5, AgedInRange, BoundsAreNumbers DEF Age, TypeOK
      <3>5. breach' < sinceChange' \/ sinceChange' = MinBetween
        <4>1. sinceChange \in 0..MinBetween /\ d \in Nat \ {0} /\ breach \in Int
          BY <3>1, Numbers, BoundsAreNumbers
        <4> HIDE TuningAssumption
        <4> QED BY <2>7, <3>2, <3>3, <3>4, <4>1
      <3>6. breach' < sinceMcs' \/ sinceMcs' = MaxHold
        <4>1. sinceMcs \in 0..MaxHold /\ d \in Nat \ {0} /\ breach \in Int
          BY <3>1, Numbers, BoundsAreNumbers
        <4> QED BY <2>7, <3>2, <3>3, <3>4, <4>1, BoundsAreNumbers
      <3> QED BY <2>6, <3>5, <3>6 DEF BreachInv
    <2> QED BY <2>8, <2>9
  <1>2. CASE UNCHANGED vars
    BY <1>2 DEF BreachInv, vars, gateVars, historyVars
  <1>3. CASE breach' = None
    BY <1>3 DEF BreachInv
  <1> QED BY <1>1, <1>2, <1>3 DEF Next

\* A breached MCS is left within the rate limit, or the hold time when
\* fast_downgrade is off.
THEOREM BreachedAlwaysLeft == Spec => []LeavesInTime
  <1>1. Init => BreachInv
    BY DEF Init, BreachInv
  <1>2. TypeOK /\ BreachInv => LeavesInTime
    <2> SUFFICES ASSUME TypeOK, BreachInv, breach # None PROVE LeavesInTime
      BY DEF LeavesInTime
    <2>1. breach \in Int /\ sinceChange \in 0..MinBetween /\ sinceMcs \in 0..MaxHold
      BY BoundsAreNumbers DEF TypeOK
    <2>2. breach < MinBetween \/ (~FastDowngrade /\ breach < HoldDown)
      BY <2>1, BoundsAreNumbers DEF BreachInv
    <2> QED BY <2>1, <2>2 DEF LeavesInTime, Later
  <1> QED BY <1>1, <1>2, InitTypeOK, TypeStep, BreachStep, PTL DEF Spec

----------------------------------------------------------------------------
(* Climbing back. *)

Hold == Sooner(HoldFallback, HoldDown)

\* Each upgrade since the last step down used up a hold time of its own; what
\* has passed since the last of them is not yet used.
ClimbInv ==
    MaxStep > 0 /\ current >= 0 /\ climb < ClimbBound
        => (current - base) * Hold <= (climb - Sooner(sinceMcs, Hold)) * MaxStep

LEMMA HoldIsNumber == Hold \in Nat /\ MaxHold >= Hold
  BY DEF Hold, MaxHold, Sooner, Later

\* An upgrade is by a step at most, and a hold time after the last change.
LEMMA UpgradeIsHeld ==
    ASSUME TypeOK, NEW l \in Link, NEW d \in Gap, Select(l, d),
           MaxStep > 0, current >= 0, current' > current
    PROVE  /\ current' <= current + MaxStep /\ sinceMcs' = 0
           /\ sinceMcs + d >= Hold
  <1>1. ChangeMcs(l, d)
    <2>1. current' # current
      BY GateTypes DEF TypeOK, Mcs
    <2> QED BY <2>1 DEF Select, RateLimited, FeedConfidence, StayAbove, SameMcs, HoldBack, GainConfidence
  <1>2. current' = Target(l) /\ sinceMcs' = 0
    BY <1>1 DEF ChangeMcs
  <1>3. current' <= current + MaxStep
    BY <1>2, TargetBounds DEF TypeOK
  <1>4. Aged(sinceMcs, d, MaxHold) <= sinceMcs + d /\ Aged(sinceMcs, d, MaxHold) \in Int
    BY AgedInRange, BoundsAreNumbers DEF TypeOK
  <1>5. CASE current = 0
    <2>1. ~(Aged(sinceMcs, d, MaxHold) < HoldFallback)
      BY <1>1, <1>2, <1>5 DEF ChangeMcs, Held
    <2> QED BY <1>2, <1>3, <1>4, <2>1, Numbers, BoundsAreNumbers DEF Hold, Sooner
  <1>6. CASE current # 0
    <2>1. Aged(sinceMcs, d, MaxHold) >= HoldDown
      BY <1>1, <1>2, <1>6 DEF ChangeMcs, NeedsConfidence, Confident
    <2> QED BY <1>2, <1>3, <1>4, <2>1, Numbers, BoundsAreNumbers DEF Hold, Sooner
  <1> QED BY <1>5, <1>6

\* Otherwise the time since the last change grows no faster than the clock,
\* or is started again.
LEMMA TimeSinceMcs ==
    ASSUME TypeOK, NEW l \in Link, NEW d \in Gap, Select(l, d)
    PROVE  sinceMcs' \in Nat /\ sinceMcs' <= sinceMcs + d
  <1>1. Aged(sinceMcs, d, MaxHold) <= sinceMcs + d /\ Aged(sinceMcs, d, MaxHold) \in Nat
    BY AgedInRange, BoundsAreNumbers DEF TypeOK
  <1>2. sinceMcs' = Aged(sinceMcs, d, MaxHold) \/ sinceMcs' = 0
    BY DEF Select, RateLimited, FeedConfidence, StayAbove, SameMcs, HoldBack,
           GainConfidence, ChangeMcs, Age
  <1> QED BY <1>1, <1>2 DEF TypeOK

LEMMA ClimbStep == TypeOK /\ ClimbInv /\ [Next]_vars => ClimbInv'
  <1> SUFFICES ASSUME TypeOK, ClimbInv, [Next]_vars PROVE ClimbInv'
    OBVIOUS
  <1>1. ASSUME NEW l \in Link, NEW d \in Gap, StatsLine(l, d),
               MaxStep > 0, current' >= 0, climb' < ClimbBound
        PROVE  (current' - base') * Hold <= (climb' - Sooner(sinceMcs', Hold)) * MaxStep
    <2>1. Select(l, d) /\ Remember(l, d)
      BY <1>1 DEF StatsLine
    <2>2. current \in Int /\ base \in Int /\ climb \in 0..ClimbBound /\ sinceMcs \in Nat /\ d \in Nat
          /\ current >= -1
      BY BoundsAreNumbers, Numbers
    <2>3. current' \in Int /\ base' \in Int /\ climb' \in 0..ClimbBound /\ sinceMcs' \in Nat
      <3>1. TypeOK'
        BY <1>1, TypeStep DEF Next
      <3>2. current' \in Int /\ base' \in Int /\ climb' \in 0..ClimbBound /\ sinceMcs' \in 0..MaxHold
        BY <3>1, McsAssumption DEF TypeOK, Mcs
      <3> QED BY <3>2, BoundsAreNumbers
    <2>4. Hold \in Nat /\ MaxStep \in Nat /\ ClimbBound \in Nat
      BY HoldIsNumber, BoundsAreNumbers
    <2> HIDE TuningAssumption
    <2>5. CASE current' < current \/ current = -1
      <3>1. base' = current' /\ climb' = 0
        BY <2>1, <2>5 DEF Remember
      <3>2. sinceMcs' = 0 \/ current' = current
        BY <2>1 DEF Select, RateLimited, FeedConfidence, StayAbove, SameMcs, HoldBack,
                    GainConfidence, ChangeMcs
      <3>3. sinceMcs' = 0
        BY <1>1, <2>2, <2>3, <2>5, <3>2
      <3>4. Sooner(sinceMcs', Hold) = 0
        BY <2>4, <3>3 DEF Sooner
      <3>5. current' - base' = 0 /\ climb' - Sooner(sinceMcs', Hold) = 0
        <4>1. PICK c \in Int : c = current'
          BY <2>3
        <4>2. c - c = 0
          OBVIOUS
        <4>3. current' - base' = 0
          BY <3>1, <4>1, <4>2, Zenon
        <4>4. climb' - Sooner(sinceMcs', Hold) = 0
          BY <3>1, <3>4
        <4> QED BY <4>3, <4>4, Zenon
      <3>6. 0 * Hold = 0 /\ 0 * MaxStep = 0
        BY <2>4
      <3> QED BY <3>5, <3>6
    <2>6. CASE ~(current' < current \/ current = -1)
      <3>1. base' = base /\ climb' = Aged(climb, d, ClimbBound)
        BY <2>1, <2>6 DEF Remember
      <3>2. climb' = climb + d /\ climb < ClimbBound
        <4>1. climb' = climb + d \/ climb' = ClimbBound
          BY <1>1, <2>2, <2>4, <3>1, AgedInRange, TuningAssumption
        <4>2. climb' \in Nat /\ climb \in Nat /\ d > 0
          BY <2>2, <2>3, <2>4, TuningAssumption
        <4> QED BY <1>1, <2>2, <2>4, <4>1, <4>2
      <3>3. current >= 0 /\ current' >= current
        BY <2>2, <2>3, <2>6
      <3> DEFINE used == Sooner(sinceMcs, Hold)
                 used1 == Sooner(sinceMcs', Hold)
      <3>4. used \in Int /\ used1 \in Int
        BY <2>2, <2>3, <2>4 DEF Sooner
      <3>5. (current - base) * Hold <= (climb - used) * MaxStep
        BY <1>1, <3>2, <3>3 DEF ClimbInv
      <3>6. CASE current' = current
        <4>1. used1 <= used + d
          BY <2>1, <2>2, <2>3, <2>4, TimeSinceMcs DEF Sooner
        <4>2. climb - used <= climb' - used1 /\ climb - used \in Int /\ climb' - used1 \in Int
          BY <2>2, <2>3, <3>2, <3>4, <4>1
        <4>3. (climb - used) * MaxStep <= (climb' - used1) * MaxStep
          BY <2>4, <4>2, Scale
        <4>4. (climb - used) * MaxStep \in Int /\ (climb' - used1) * MaxStep \in Int
          BY <2>4, <4>2
        <4>5. (current - base) * Hold \in Int
          BY <2>2, <2>4
        <4> QED BY <3>1, <3>5, <3>6, <4>3, <4>4, <4>5
      <3>7. CASE current' > current
        <4>1. current' <= current + MaxStep /\ sinceMcs' = 0 /\ sinceMcs + d >= Hold
          BY <1>1, <2>1, <3>3, <3>7, UpgradeIsHeld
        <4>2. used1 = 0 /\ used + d >= Hold
          BY <2>2, <2>4, <4>1 DEF Sooner
        <4>3. (current' - base) * Hold <= (current - base + MaxStep) * Hold
          <5>1. PICK c \in Int : c = current'
            BY <2>3
          <5>2. c <= current + MaxStep
            BY <4>1, <5>1
          <5>3. c - base <= current - base + MaxStep
                /\ c - base \in Int /\ current - base + MaxStep \in Int
            BY <2>2, <2>4, <5>2
          <5>4. (c - base) * Hold <= (current - base + MaxStep) * Hold
            BY <2>4, <5>3, Scale
          <5> QED BY <5>1, <5>4
        <4>4. (current - base + MaxStep) * Hold = (current - base) * Hold + Hold * MaxStep
          BY <2>2, <2>4
        <4>5. (climb - used + Hold) * MaxStep <= (climb' - used1) * MaxStep
          <5>1. climb - used + Hold <= climb' - used1
            BY <2>2, <2>3, <2>4, <3>2, <3>4, <4>2
          <5> QED BY <2>2, <2>3, <2>4, <3>4, <5>1, Scale
        <4>6. (climb - used + Hold) * MaxStep = (climb - used) * MaxStep + Hold * MaxStep
          BY <2>2, <2>4, <3>4
        <4>7. /\ (current' - base) * Hold \in Int /\ (current - base) * Hold \in Int
              /\ (climb - used) * MaxStep \in Int /\ Hold * MaxStep \in Int
              /\ (climb' - used1) * MaxStep \in Int
          BY <2>2, <2>3, <2>4, <3>4
        <4> HIDE DEF used, used1
        <4>8. (current' - base) * Hold <= (climb' - used1) * MaxStep
          BY <3>5, <4>3, <4>4, <4>5, <4>6, <4>7
        <4> QED BY <3>1, <4>8 DEF used1
      <3> QED BY <2>2, <2>3, <3>3, <3>6, <3>7
    <2> QED BY <2>5, <2>6
  <1>2. CASE UNCHANGED vars
    BY <1>2 DEF ClimbInv, vars, gateVars, historyVars
  <1> QED BY <1>1, <1>2 DEF Next, ClimbInv

\* However the metrics move, MCS climbs by one upgrade per hold time at most.
THEOREM ClimbIsAlwaysSlow == Spec => []ClimbsSlowly
  <1>1. Init => ClimbInv
    BY DEF Init, ClimbInv
  <1>2. TypeOK /\ ClimbInv => ClimbsSlowly
    <2> SUFFICES ASSUME TypeOK, ClimbInv, MaxStep > 0, current >= 0, climb < ClimbBound
                 PROVE  (current - base) * Hold <= climb * MaxStep
      BY DEF ClimbsSlowly, Hold
    <2>1. climb \in Int /\ base \in Int /\ current \in Int
      BY Numbers, BoundsAreNumbers
    <2>2. Sooner(sinceMcs, Hold) \in Nat
      BY HoldIsNumber, BoundsAreNumbers, Numbers DEF Sooner
    <2>3. (climb - Sooner(sinceMcs, Hold)) * MaxStep <= climb * MaxStep
      BY <2>1, <2>2, Scale
    <2>4. /\ (climb - Sooner(sinceMcs, Hold)) * MaxStep \in Int /\ climb * MaxStep \in Int
          /\ (current - base) * Hold \in Int
      BY <2>1, <2>2, HoldIsNumber
    <2> QED BY <2>3, <2>4 DEF ClimbInv
  <1> QED BY <1>1, <1>2, InitTypeOK, TypeStep, ClimbStep, PTL DEF Spec
=============================================================================
