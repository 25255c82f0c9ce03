------------------------------ MODULE Deployment ------------------------------
(***************************************************************************)
(* The deploy-contract command of cli-module.ts, with the steps of         *)
(* cli-utils.ts: the package is built, installed and approved on one peer  *)
(* after the other, the sequence number is kept in a tracker file, and the *)
(* definition is committed.                                                *)
(*                                                                         *)
(* Every step is a command in a container and can fail; what fails before  *)
(* the commit is logged, and the commit is tried all the same.  The        *)
(* process can be killed at any moment.  Fabric's lifecycle is external.   *)
(* An organization approves a definition if its sequence number is the     *)
(* next one and it has not approved the same content under that number, or *)
(* if it is the committed one.  It is committed if it is the next one and  *)
(* a majority has approved it.  A package that a peer has already may be   *)
(* refused.                                                                *)
(***************************************************************************)
EXTENDS Integers, Sequences, FiniteSets

CONSTANTS
    Peers,              \* the peers of the command, in order, one per organization
    Versions,           \* the versions of the contract, which are its content
    MaxDeployments,     \* bound
    NoDefinition

\* A command names at least one peer, and none twice.
ASSUME DeploymentAssumption ==
    /\ DOMAIN Peers = 1..Len(Peers) /\ Len(Peers) \in Nat \ {0}
    /\ \A i, j \in DOMAIN Peers : Peers[i] = Peers[j] => i = j
    /\ MaxDeployments \in Nat

VARIABLES
    deployment, \* [state, sequence, version, done, inStep, fresh, clean]: done is the
                \* number of peers done; the last three are for properties
    tracker,    \* the number in the tracker file; 0 if it is missing or not a number
    installed,  \* per peer: the versions installed
    approved,   \* per peer: the definitions its organization has approved, one
                \* for a sequence number
    definition, \* the committed definition: [sequence, version]
    deployments \* deployments begun so far

deployVars == <<deployment, tracker, installed, approved, definition, deployments>>

PeerSet == {Peers[i] : i \in DOMAIN Peers}

-----------------------------------------------------------------------------
\* The lifecycle of Fabric.

IsNext(d) == d.sequence = definition.sequence + 1

Approvable(p, d) == (IsNext(d) /\ d \notin approved[p]) \/ d = definition

Majority(d) == 2 * Cardinality({p \in PeerSet : d \in approved[p]}) > Len(Peers)
Committable(d) == IsNext(d) /\ Majority(d)

-----------------------------------------------------------------------------
Wanted == [sequence |-> deployment.sequence, version |-> deployment.version]
Peer == Peers[deployment.done + 1]

\* Mutant of NextSequence: the number in the file is the one to use.
StoredSequence == IF tracker = 0 THEN 1 ELSE tracker

\* The number after the one in the file, or 1.
NextSequence == tracker + 1

InStep == tracker = definition.sequence

\* Mutant of Begin: the file is written before anything is approved.
BeginWriting(version) ==
    /\ deployment.state \in {"idle", "ended", "failed"}
    /\ deployments < MaxDeployments
    /\ deployments' = deployments + 1
    /\ deployment' = [state |-> "package", sequence |-> NextSequence, version |-> version,
                      done |-> 0, inStep |-> InStep, clean |-> TRUE,
                      fresh |-> \A p \in PeerSet : version \notin installed[p]]
    /\ tracker' = NextSequence
    /\ UNCHANGED <<installed, approved, definition>>

Begin(version) ==
    /\ deployment.state \in {"idle", "ended", "failed"}
    /\ deployments < MaxDeployments
    /\ deployments' = deployments + 1
    /\ deployment' = [state |-> "package", sequence |-> NextSequence, version |-> version,
                      done |-> 0, inStep |-> InStep, clean |-> TRUE,
                      fresh |-> \A p \in PeerSet : version \notin installed[p]]
    /\ UNCHANGED <<tracker, installed, approved, definition>>

Then(state) == deployment' = [deployment EXCEPT !.state = state]

\* An error in the loop, or in the writing of the file, is caught: here one of the
\* environment, of a container, the network or the disk.
StepFails ==
    /\ deployment.state \in {"package", "install", "approve", "write"}
    /\ deployment' = [deployment EXCEPT !.state = "commit", !.clean = FALSE]
    /\ UNCHANGED <<tracker, installed, approved, definition, deployments>>

\* And here a refusal of the lifecycle, which is caught too.
Refuse ==
    /\ \/ deployment.state = "install" /\ deployment.version \in installed[Peer]
       \/ deployment.state = "approve" /\ ~Approvable(Peer, Wanted)
    /\ Then("commit")
    /\ UNCHANGED <<tracker, installed, approved, definition, deployments>>

\* Mutant of Package: the package is not installed before it is approved.
PackageAndApprove ==
    /\ deployment.state = "package"
    /\ Then("approve")
    /\ UNCHANGED <<tracker, installed, approved, definition, deployments>>

Package ==
    /\ deployment.state = "package"
    /\ Then("install")
    /\ UNCHANGED <<tracker, installed, approved, definition, deployments>>

Install ==
    /\ deployment.state = "install"
    /\ installed' = [installed EXCEPT ![Peer] = @ \cup {deployment.version}]
    /\ Then("approve")
    /\ UNCHANGED <<tracker, approved, definition, deployments>>

\* An approval replaces what was approved under the same number.
Approve ==
    /\ deployment.state = "approve"
    /\ Approvable(Peer, Wanted)
    /\ approved' = [approved EXCEPT ![Peer] =
            {d \in @ : d.sequence # deployment.sequence} \cup {Wanted}]
    /\ deployment' = [deployment EXCEPT !.done = @ + 1,
            !.state = IF deployment.done + 1 = Len(Peers) THEN "write" ELSE "package"]
    /\ UNCHANGED <<tracker, installed, definition, deployments>>

WriteTracker ==
    /\ deployment.state = "write"
    /\ tracker' = deployment.sequence
    /\ Then("commit")
    /\ UNCHANGED <<installed, approved, definition, deployments>>

CommitChaincode ==
    /\ deployment.state = "commit"
    /\ Committable(Wanted)
    /\ definition' = Wanted
    /\ Then("ended")
    /\ UNCHANGED <<tracker, installed, approved, deployments>>

\* The lifecycle refuses the commit, or the environment fails: that ends the command.
CommitFails ==
    /\ deployment.state = "commit"
    /\ \/ ~Committable(Wanted) /\ Then("failed")
       \/ deployment' = [deployment EXCEPT !.state = "failed", !.clean = FALSE]
    /\ UNCHANGED <<tracker, installed, approved, definition, deployments>>

\* The process is killed; while it writes the file, the file is left empty.
Kill ==
    /\ deployment.state \notin {"idle", "ended", "failed"}
    /\ deployment' = [deployment EXCEPT !.state = "failed", !.clean = FALSE]
    /\ tracker' \in IF deployment.state = "write" THEN {0, tracker} ELSE {tracker}
    /\ UNCHANGED <<installed, approved, definition, deployments>>

DeployInit ==
    /\ deployment = [state |-> "idle", sequence |-> 0, version |-> NoDefinition, done |-> 0,
                     inStep |-> TRUE, clean |-> TRUE, fresh |-> TRUE]
    /\ tracker = 0
    /\ installed = [p \in PeerSet |-> {}]
    /\ approved = [p \in PeerSet |-> {}]
    /\ definition = [sequence |-> 0, version |-> NoDefinition]
    /\ deployments = 0

DeployNext ==
    \/ \E version \in Versions : Begin(version)
    \/ Package \/ Install \/ Approve \/ StepFails \/ Refuse
    \/ WriteTracker \/ CommitChaincode \/ CommitFails \/ Kill

DeploySpec == DeployInit /\ [][DeployNext]_deployVars
-----------------------------------------------------------------------------
\* Properties.

DeployTypeOK ==
    /\ tracker \in 0..MaxDeployments
    /\ installed \in [PeerSet -> SUBSET Versions]
    /\ definition.sequence \in 0..MaxDeployments
    /\ deployment.done \in 0..Len(Peers)
    /\ \A p \in PeerSet : \A d \in approved[p] :
          d.sequence \in 1..MaxDeployments /\ d.version \in installed[p]

\* However deployments fail, the tracker file is at most one off the sequence
\* number of the channel, unless it is missing or damaged; and where it is ahead,
\* every organization has approved one definition with its number, which need only
\* be committed.
DriftIsOne ==
    /\ tracker # 0 => tracker - definition.sequence \in {-1, 0, 1}
    /\ tracker > definition.sequence =>
          \E v \in Versions : \A p \in PeerSet :
              [sequence |-> tracker, version |-> v] \in approved[p]

\* What earlier deployments left - packages installed, definitions approved under
\* the same number, organizations that approved different ones - gets in the way of
\* no deployment of a version that is new to the peers: if it starts with the
\* tracker in step and the environment does not fail, the lifecycle accepts it at
\* every peer and commits it, and the tracker stays in step.
CleanDeploymentCommits ==
    /\ deployment.state \in {"ended", "failed"}
    /\ deployment.inStep /\ deployment.fresh /\ deployment.clean
    => definition = Wanted /\ InStep
=============================================================================
