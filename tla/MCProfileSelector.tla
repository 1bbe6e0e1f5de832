------------------------- MODULE MCProfileSelector -------------------------
(* The gate with the parameters that FecSizing computes, on small links: up *)
(* to four MCS, SNR at, above, and just and well below a threshold, with    *)
(* and without the headroom for an upgrade, drifting either way, with and   *)
(* without an emergency, sized with and without loss.                       *)
EXTENDS ProfileSelector, FecSizing

Thresholds == [m \in Mcs |-> 10 * m]

Sizing(loss) ==
    LET line == [byLatency |-> 7, byFrame |-> 12, redundancy |-> 33, loss |-> loss,
                 capacity |-> 19500]
    IN  CHOOSE s \in Sizings : s.line = line
Line(head, drift, emergency, loss) ==
    [head |-> head, drift |-> drift, up |-> 2, emergency |-> emergency,
     params |-> Sizing(loss)]

Calm == {Line(head, 0, FALSE, FALSE) : head \in {-5, 9, 13, 23, 33}}
Drifting == {Line(13, -4, FALSE, FALSE), Line(9, -2, FALSE, FALSE), Line(8, 4, FALSE, FALSE)}
Lossy == {Line(23, 0, FALSE, TRUE), Line(23, 0, TRUE, TRUE), Line(-5, 0, TRUE, TRUE)}

Links == Calm \cup Drifting \cup Lossy

\* What a line with the loss of the last one may be sized to, whatever else it
\* brings and whichever way its quotients are rounded.
Sized == {s \in Sizings : s.line.loss = link.params.line.loss}

\* No limit undoes another: a block sent is within max_fec_n and within
\* max_fec_redundancy (but for the least k), and can recover a lost packet.
\* And its bitrate is the largest that fits the link, within the encoder's
\* limits.
SizingIsSound == \A s \in Sized : Sound(s) /\ FitsLink(s)
=============================================================================
