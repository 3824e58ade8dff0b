----------------------------- MODULE MCLiveness -----------------------------
(***************************************************************************)
(* Model checking of what must eventually happen.  Remote commands and     *)
(* OTA campaigns share nothing: a behaviour is about one of them, its      *)
(* scene, and the other one stays as it was at the start.                  *)
(***************************************************************************)
EXTENDS RemoteCommand

CONSTANTS Versions, Campaigns, Deployments  \* OtaRollout

VARIABLES
    scene,
    released, campaign, total, succeeded, failed, deployment, installed, byHand,
    manifests, copies, otaReports, otaTask, otaEvents

otaVars == <<released, campaign, total, succeeded, failed, deployment, installed, byHand,
             manifests, copies, otaReports, otaTask, otaEvents>>

O == INSTANCE OtaRollout WITH
        FirmwareOf <- [c \in Campaigns |-> CHOOSE f \in Versions : TRUE],
        Phases <- <<>>, MaxUpdates <- 1, Entered <- {},
        reports <- otaReports, task <- otaTask, events <- otaEvents

ASSUME O!RolloutAssumption

MCVehicleOf == [c \in Commands |-> CHOOSE v \in Vehicles : TRUE]

MCInit == Init /\ O!Init /\ scene \in {"commands", "campaigns"}

\* bound: a vehicle reports two of the three things it can say of a command
\* bound: of overlapping deployCampaign calls, none would get the rows it needs
MCNext ==
    /\ \/ scene = "commands" /\ Next /\ UNCHANGED otaVars /\ Cardinality(reports') <= 2
       \/ /\ scene = "campaigns" /\ O!Next /\ UNCHANGED vars
          /\ Cardinality({w \in Workers : otaTask'[w] # None /\ otaTask'[w].op = "deploy"}) <= 1
    /\ UNCHANGED scene

\* Where one scene is played, no call of the other is in flight: its fairness asks nothing.
MCSpec == MCInit /\ [][MCNext]_<<vars, otaVars, scene>> /\ Fairness /\ O!Fairness

-----------------------------------------------------------------------------
\* CallsComplete of OtaRollout: an activated campaign is deployed to its end, and an
\* outcome that a row has is counted and told, or the firmware is deleted.
CallsComplete == O!CallsComplete
=============================================================================
