----------------------------- MODULE FecSizing -----------------------------
(***************************************************************************)
(* How the ground station sizes a FEC block and the encoder's bitrate       *)
(* (alink_gs, ProfileSelector._compute_profile): a block of n packets of    *)
(* which k carry video and n - k are parity.                                *)
(*                                                                          *)
(* Ratios are percentages. The bitrate reaches the sizing only as the       *)
(* packets that fit the latency budget and a video frame, which are inputs. *)
(* A floating-point quotient that should be whole may be just above it, and *)
(* is then rounded up to the next: both outcomes are allowed.               *)
(***************************************************************************)
EXTENDS Integers

CONSTANTS
    ByLatency, ByFrame,  \* packets within block_latency_budget_ms, within a frame
    Redundancy,          \* values of the learned fec_redundancy_ratio
    Capacity,            \* values of link_bandwidth_bps, in kbps
    MaxRedundancy,       \* max_fec_redundancy
    MaxN,                \* max_fec_n
    MinBitrate, MaxBitrate

ASSUME InputAssumption ==
    /\ ByLatency \subseteq Nat /\ ByFrame \subseteq Nat /\ Capacity \subseteq Nat
    /\ Redundancy \subseteq 1..99
ASSUME LimitAssumption ==
    /\ MaxRedundancy \in 0..100 /\ MaxN \in Nat \ {0, 1, 2}
    /\ MinBitrate \in Nat /\ MaxBitrate \in Nat /\ MinBitrate <= MaxBitrate

\* What the sizing reads of a line; loss: above loss_threshold_for_fec_downgrade.
Input == [byLatency: ByLatency, byFrame: ByFrame, redundancy: Redundancy,
          loss: BOOLEAN, capacity: Capacity]

AtLeast(t, u) == IF t < u THEN u ELSE t
AtMost(t, u) == IF t < u THEN t ELSE u
Block(k, n) == [k |-> k, n |-> n]
Parity(b) == b.n - b.k

\* ceil(a / b) in floating point.
Ceil(a, b) == IF a % b = 0 THEN {a \div b, (a \div b) + 1} ELSE {(a \div b) + 1}

\* _compute_fec_from_bitrate: within the latency budget and the frame, and at
\* least one parity packet.
Base(l) ==
    LET k == AtLeast(AtMost(l.byLatency, l.byFrame), 2)
    IN  {Block(k, AtLeast(n, k + 1)) : n \in Ceil(100 * k, 100 - l.redundancy)}

\* loss_threshold_for_fec_downgrade: one parity packet more.
UnderLoss(l, b) == IF l.loss THEN Block(b.k, b.n + 1) ELSE b

\* max_fec_redundancy: k is raised.
WithinRedundancy(b) ==
    IF 100 * Parity(b) > MaxRedundancy * b.n
    THEN {Block(AtLeast(k, 2), b.n) : k \in Ceil(b.n * (100 - MaxRedundancy), 100)}
    ELSE {b}

\* max_fec_n: n is cut, and k in proportion.
WithinMaxN(b) ==
    IF b.n > MaxN
    THEN {Block(AtLeast(k, 2), MaxN) : k \in Ceil(MaxN * b.k, b.n)}
    ELSE {b}

\* Mutant: the packet for loss is added after the limits.
BlocksLossLast(l) ==
    {UnderLoss(l, b) : b \in UNION {WithinMaxN(c) : c \in
                               UNION {WithinRedundancy(a) : a \in Base(l)}}}

Blocks(l) ==
    UNION {WithinMaxN(c) : c \in UNION {WithinRedundancy(UnderLoss(l, b)) : b \in Base(l)}}

\* What the block leaves of the link's capacity, within the encoder's limits.
Bitrate(l, b) == AtLeast(AtMost((l.capacity * b.k) \div b.n, MaxBitrate), MinBitrate)

\* Every sizing there is: a line, its block (fec_k, fec_n) and its bitrate.
Sizings ==
    UNION {{[line |-> l, block |-> b, bitrate |-> Bitrate(l, b)] : b \in Blocks(l)} :
             l \in Input}

----------------------------------------------------------------------------
\* A block is within both max_fec_n and max_fec_redundancy, unless k is already
\* at its least, and can recover a lost packet.
Sound(s) ==
    /\ s.block.k \in 2..(s.block.n - 1)
    /\ s.block.n <= MaxN
    /\ \/ 100 * Parity(s.block) <= MaxRedundancy * s.block.n
       \/ s.block.k = 2

\* Video and parity together fit the link, but for the encoder's least bitrate;
\* nor is the encoder held below what fits, but for its highest.
FitsLink(s) ==
    LET carried == s.line.capacity * s.block.k
    IN  /\ s.bitrate * s.block.n <= carried \/ s.bitrate = MinBitrate
        /\ (s.bitrate + 1) * s.block.n > carried \/ s.bitrate = MaxBitrate
        /\ s.bitrate \in MinBitrate..MaxBitrate
=============================================================================
