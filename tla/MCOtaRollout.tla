---------------------------- MODULE MCOtaRollout ----------------------------
(***************************************************************************)
(* Instances of OtaRollout for TLC.                                        *)
(***************************************************************************)
EXTENDS OtaRollout, TLC

\* Campaigns bring the same version or each a version of its own.
OneVersion == [c \in Campaigns |-> CHOOSE f \in Versions : TRUE]

OnePhase  == <<"DOWNLOADING">>
TwoPhases == <<"DOWNLOADING", "INSTALLING">>

\* bound: a behaviour is about one campaign for several vehicles, which may be
\* deleted, or about several campaigns for one vehicle, deployed in turn.
VARIABLE wide

MCInit == Init /\ wide \in BOOLEAN

MCNext ==
    /\ Next
    /\ IF wide
       THEN /\ Cardinality({c \in Campaigns : campaign'[c] # "ABSENT"}) <= 1
            /\ byHand' = {}
       ELSE /\ \A c \in Campaigns : campaign'[c] # "DELETED"
            /\ Cardinality({w \in Workers : task'[w] # None /\ task'[w].op = "deploy"}) <= 1
            /\ \E v \in Vehicles :
                  /\ \A w \in Workers : Running(w, "deploy", "activate")' => task'[w].all = <<v>>
                  /\ \A d \in Deployments : deployment'[d] # None => deployment'[d].veh = v
                  /\ \A x \in Vehicles \ {v} : installed'[x] = None
    /\ UNCHANGED wide

MCSpec == MCInit /\ [][MCNext]_<<vars, wide>>

Symmetry == Permutations(Campaigns) \cup Permutations(Vehicles) \cup
            Permutations(Deployments) \cup Permutations(Workers)
=============================================================================
