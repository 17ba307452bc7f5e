------------------------------ MODULE MCMission ------------------------------
(* Instances of the mission manager.                                        *)
EXTENDS MissionManager, TLC

(* Missions of different length; a fence, an empty one and one that is too  *)
(* long.                                                                    *)
MCPlans == [mission |-> ("a" :> 1 @@ "b" :> 2),
            fence |-> ("f" :> 1 @@ "none" :> 0 @@ "long" :> 3)]
=============================================================================
