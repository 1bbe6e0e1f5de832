--------------------------- MODULE MCBitrateGuard ---------------------------
(* Small instances of BitrateGuard for TLC. *)
EXTENDS BitrateGuard

\* Two bitrates five apart, so that one cut of one is not the other; the
\* shipped factor of 0.8, truncated as the cast to int does.
MCBitrate == {5, 10}
MCCut == [b \in MCBitrate \cup {Unset} |-> IF b = Unset THEN 0 ELSE (b * 4) \div 5]
MCBoot == [bitrate |-> 5, gop |-> 1]
=============================================================================
