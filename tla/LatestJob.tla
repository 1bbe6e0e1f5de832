----------------------------- MODULE LatestJob -----------------------------
(***************************************************************************)
(* What the profile worker promises its callers, with no threads in sight: *)
(* jobs run one at a time; the one started is always the newest handed in; *)
(* a job handed in is lost only to a newer one ("latest job wins").        *)
(***************************************************************************)
CONSTANTS Jobs, NoJob
VARIABLES newest,   \* the job handed in last
          waiting,  \* it has not been started
          running,  \* the job started last
          busy      \* it has not finished

jobVars == <<newest, waiting, running, busy>>

JobInit == newest = NoJob /\ ~waiting /\ running = NoJob /\ ~busy

HandIn == /\ newest' \in Jobs /\ waiting' = TRUE
          /\ UNCHANGED <<running, busy>>

Start == /\ waiting /\ ~busy
         /\ running' = newest
         /\ waiting' = FALSE /\ busy' = TRUE
         /\ UNCHANGED newest

Done == /\ busy /\ busy' = FALSE
        /\ UNCHANGED <<newest, waiting, running>>

JobNext == HandIn \/ Start \/ Done

SafeJobs == JobInit /\ [][JobNext]_jobVars
LiveJobs == SafeJobs /\ WF_jobVars(Start) /\ WF_jobVars(Done)
=============================================================================
