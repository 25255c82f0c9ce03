--------------------------- MODULE MCAdministration ---------------------------
(***************************************************************************)
(* The tools of an operator: a behaviour is one of deployments or one of   *)
(* the administration of identities, which share no state.                 *)
(***************************************************************************)
EXTENDS Deployment, Enrollment

VARIABLE tool

MCPeers == <<"org-a-peer-0", "org-b-peer-0", "org-c-peer-0">>

vars == <<deployVars, enrollVars, tool>>

Init == DeployInit /\ EnrollInit /\ tool \in {"deploy", "enroll"}

Next ==
    /\ \/ tool = "deploy" /\ DeployNext /\ UNCHANGED enrollVars
       \/ tool = "enroll" /\ EnrollNext /\ UNCHANGED deployVars
    /\ UNCHANGED tool

Spec == Init /\ [][Next]_vars

TypeOK == DeployTypeOK /\ EnrollTypeOK
=============================================================================
