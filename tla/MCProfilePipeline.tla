------------------------- MODULE MCProfilePipeline -------------------------
(* Small instances of ProfilePipeline for TLC. *)
EXTENDS ProfilePipeline

\* A profile at link level l: a faster radio, less power, more bitrate. FEC is
\* the same at every level, so its step is also seen skipped.
Level(l) == [g \in Group |-> CASE g = "power" -> 2 - l
                               [] g = "fec"   -> 1
                               [] OTHER       -> l]

MCValue == 0..2
MCFallback == Level(0)
MCBoot == {Level(0)}
MCCapacity == [r \in MCValue |-> r]
MCPowerLimit == [r \in MCValue |-> 2 - r]

\* One level: everything besides the fallback is the same profile.
OneLevel == {[idx |-> 1, profile |-> Level(1)]}
\* The fallback's level with a higher bitrate.
OneBitrate == {[idx |-> 1, profile |-> [Level(0) EXCEPT !["api"] = 1]]}
\* One level sent with two bitrates: the GS updates parameters within an MCS.
TwoBitrates == {[idx |-> 1, profile |-> [Level(1) EXCEPT !["api"] = b]] : b \in 0..1}
=============================================================================
