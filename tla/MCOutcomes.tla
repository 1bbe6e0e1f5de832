----------------------------- MODULE MCOutcomes -----------------------------
(* A parameter of each group, one that loss raises and one that it lowers. *)
EXTENDS Outcomes

MCParams == {"snr_safety_margin", "utilization_factor"}

MCParam ==
    [p \in MCParams |->
        IF p = "snr_safety_margin"
        THEN [group |-> "mcs_gate", up |-> 2, down |-> 1, least |-> 0, most |-> 2,
              start |-> 1, onBad |-> 1]
        ELSE [group |-> "profile_compute", up |-> 2, down |-> 1, least |-> 0, most |-> 2,
              start |-> 2, onBad |-> -1]]
=============================================================================
