------------------------- MODULE AdministrationProofs -------------------------
(***************************************************************************)
(* Safety of the tools of an operator: of the deploy command for every     *)
(* list of peers, every set of versions and every number of deployments,   *)
(* failed ones and killed ones included; of the administration of          *)
(* identities for every number of administrators, users, attributes and    *)
(* certificates.                                                           *)
(***************************************************************************)
EXTENDS MCAdministration, FunctionTheorems, FiniteSetTheorems, TLAPS

-----------------------------------------------------------------------------
\* Deployments: the inductive invariant.

InLoop == {"package", "install", "approve"}
Running == InLoop \cup {"write", "commit"}
States == Running \cup {"idle", "ended", "failed"}

Definitions == [sequence : 1..MaxDeployments, version : Versions]

DeployTypes ==
    /\ deployments \in 0..MaxDeployments
    /\ tracker \in 0..deployments
    /\ definition.sequence \in 0..deployments
    /\ deployment \in [state : States, sequence : 0..deployments,
                       version : Versions \cup {NoDefinition}, done : 0..Len(Peers),
                       inStep : BOOLEAN, clean : BOOLEAN, fresh : BOOLEAN]
    /\ deployment.state \in Running => Wanted \in Definitions
    /\ deployment.state \in InLoop => deployment.done < Len(Peers)
    /\ installed \in [PeerSet -> SUBSET Versions]
    /\ approved \in [PeerSet -> SUBSET Definitions]

\* Nothing is approved that is not installed.
ApprovedIsInstalled ==
    /\ \A p \in PeerSet : \A d \in approved[p] : d.version \in installed[p]
    /\ deployment.state = "approve" => deployment.version \in installed[Peer]

\* The peers behind a command have approved what it will commit.
BehindApproved ==
    /\ deployment.state \in InLoop =>
          \A i \in 1..deployment.done : Wanted \in approved[Peers[i]]
    /\ deployment.state = "write" => \A p \in PeerSet : Wanted \in approved[p]

\* While a command runs the file is behind it by one, until it is written; it is
\* written with a number that the lifecycle has approved.
FileFollows ==
    /\ deployment.state \in InLoop \cup {"write"} => tracker = deployment.sequence - 1
    /\ deployment.state = "commit" =>
          tracker \in {deployment.sequence - 1, deployment.sequence}
    /\ deployment.state = "write" => IsNext(Wanted) \/ Wanted = definition

\* The peers ahead of a command do not have its package, but for the one that it
\* was just installed on, and have not approved what it will commit.
AheadIsNew ==
    deployment.state \in InLoop => \A i \in DOMAIN Peers : i > deployment.done =>
        /\ Wanted \notin approved[Peers[i]]
        /\ \/ deployment.version \notin installed[Peers[i]]
           \/ deployment.state = "approve" /\ i = deployment.done + 1

\* A command that started in step, with a version new to the peers, and met no
\* failure of the environment so far, is the next one, and has not been refused.
CleanSoFar ==
    deployment.inStep /\ deployment.fresh /\ deployment.clean =>
        /\ deployment.state \in Running => IsNext(Wanted)
        /\ AheadIsNew
        /\ deployment.state = "commit" =>
              tracker = deployment.sequence /\ \A p \in PeerSet : Wanted \in approved[p]

DeployInv ==
    /\ DeployTypes
    /\ ApprovedIsInstalled
    /\ BehindApproved
    /\ FileFollows
    /\ DriftIsOne
    /\ CleanSoFar
    /\ CleanDeploymentCommits

-----------------------------------------------------------------------------
\* The peers of the command.

LEMMA PeersDistinct == IsFiniteSet(PeerSet) /\ Cardinality(PeerSet) = Len(Peers)
<1>1. IsFiniteSet(DOMAIN Peers) /\ Cardinality(DOMAIN Peers) = Len(Peers)
  BY DeploymentAssumption, FS_Interval
<1> DEFINE f == [i \in DOMAIN Peers |-> Peers[i]]
<1>2. f \in Injection(DOMAIN Peers, PeerSet)
  <2>1. f \in [DOMAIN Peers -> PeerSet]
    BY DEF PeerSet
  <2>2. \A i, j \in DOMAIN Peers : f[i] = f[j] => i = j
    BY DeploymentAssumption
  <2> HIDE DEF f
  <2> QED
    BY <2>1, <2>2, Fun_IsInj
<1>3. f \in Surjection(DOMAIN Peers, PeerSet)
  <2>1. f \in [DOMAIN Peers -> PeerSet]
    BY DEF PeerSet
  <2>2. \A p \in PeerSet : \E i \in DOMAIN Peers : f[i] = p
    BY DEF PeerSet
  <2> HIDE DEF f
  <2> QED
    BY <2>1, <2>2, Fun_IsSurj
<1> HIDE DEF f
<1> QED
  BY <1>1, <1>2, <1>3, FS_Surjection

LEMMA PeerOfLoop ==
    ASSUME DeployTypes, deployment.state \in InLoop
    PROVE  /\ deployment.done + 1 \in DOMAIN Peers
           /\ Peer \in PeerSet
BY DeploymentAssumption DEF DeployTypes, Peer, PeerSet

\* What every peer has approved has a majority.
LEMMA AllIsMajority ==
    ASSUME NEW d, \A p \in PeerSet : d \in approved[p]
    PROVE  Majority(d)
<1>1. {p \in PeerSet : d \in approved[p]} = PeerSet
  OBVIOUS
<1>2. Cardinality({p \in PeerSet : d \in approved[p]}) = Len(Peers)
  BY <1>1, PeersDistinct
<1> QED
  BY <1>2, DeploymentAssumption DEF Majority

\* What a command wants, and whether it is the next one, stay the same until the
\* commit.
LEMMA WantedStays ==
    ASSUME deployment'.sequence = deployment.sequence,
           deployment'.version = deployment.version
    PROVE  /\ Wanted' = Wanted
           /\ definition' = definition => (IsNext(Wanted)' <=> IsNext(Wanted))
BY DEF Wanted, IsNext

\* The peer that approves has approved what is wanted, and keeps what it approved
\* under other numbers; no other peer changes.
LEMMA ApproveEffect ==
    ASSUME DeployTypes, Approve
    PROVE  /\ Wanted' = Wanted
           /\ Peer \in PeerSet /\ Peer = Peers[deployment.done + 1]
           /\ deployment.done + 1 \in 1..Len(Peers)
           /\ approved' \in [PeerSet -> SUBSET Definitions]
           /\ \A p \in PeerSet \ {Peer} : approved'[p] = approved[p]
           /\ Wanted \in approved'[Peer]
           /\ \A d \in approved'[Peer] : d = Wanted \/ d \in approved[Peer]
           /\ \A d \in approved[Peer] : d.sequence # deployment.sequence =>
                 d \in approved'[Peer]
           /\ deployment'.sequence = deployment.sequence
           /\ deployment'.version = deployment.version
           /\ deployment'.done = deployment.done + 1
           /\ deployment'.state =
                 IF deployment.done + 1 = Len(Peers) THEN "write" ELSE "package"
           /\ deployment'.inStep = deployment.inStep
           /\ deployment'.clean = deployment.clean
           /\ deployment'.fresh = deployment.fresh
<1>1. /\ Peer \in PeerSet /\ Peer = Peers[deployment.done + 1]
      /\ deployment.done + 1 \in 1..Len(Peers)
  BY PeerOfLoop, DeploymentAssumption DEF Approve, InLoop, Peer
<1>2. /\ deployment'.sequence = deployment.sequence
      /\ deployment'.version = deployment.version
      /\ deployment'.done = deployment.done + 1
      /\ deployment'.state =
            IF deployment.done + 1 = Len(Peers) THEN "write" ELSE "package"
      /\ deployment'.inStep = deployment.inStep
      /\ deployment'.clean = deployment.clean
      /\ deployment'.fresh = deployment.fresh
  BY DEF Approve, DeployTypes
<1>3. Wanted' = Wanted
  BY <1>2, WantedStays
<1>4. PICK A : A = {d \in approved[Peer] : d.sequence # deployment.sequence} \cup {Wanted}
  OBVIOUS
<1>5. approved' = [approved EXCEPT ![Peer] = A]
  BY <1>4 DEF Approve
<1>6. Wanted \in Definitions
  BY DEF Approve, DeployTypes, Running, InLoop
<1>7. A \in SUBSET Definitions
  BY <1>1, <1>4, <1>6 DEF DeployTypes
<1>8. /\ approved' \in [PeerSet -> SUBSET Definitions]
      /\ \A p \in PeerSet \ {Peer} : approved'[p] = approved[p]
      /\ approved'[Peer] = A
  BY ONLY <1>1, <1>5, <1>7, DeployTypes DEF DeployTypes
<1> QED
  BY <1>1, <1>2, <1>3, <1>4, <1>8

-----------------------------------------------------------------------------
\* The steps preserve it.

LEMMA TypesInductive == DeployTypes /\ [DeployNext]_deployVars => DeployTypes'
<1> SUFFICES ASSUME DeployTypes, [DeployNext]_deployVars PROVE DeployTypes'
  OBVIOUS
<1> USE DeploymentAssumption DEF DeployTypes, States, Running, InLoop
<1>1. CASE UNCHANGED deployVars
  BY <1>1 DEF deployVars, Wanted
<1>2. ASSUME NEW version \in Versions, Begin(version) PROVE DeployTypes'
  <2>1. PICK b \in BOOLEAN, f \in BOOLEAN :
           deployment' = [state |-> "package", sequence |-> tracker + 1,
                          version |-> version, done |-> 0, inStep |-> b,
                          clean |-> TRUE, fresh |-> f]
    <3>1. PICK b \in BOOLEAN : b = InStep
      BY DEF InStep
    <3>2. PICK f \in BOOLEAN : f = (\A p \in PeerSet : version \notin installed[p])
      OBVIOUS
    <3> QED
      BY <1>2, <3>1, <3>2 DEF Begin, NextSequence
  <2>2. /\ deployments' = deployments + 1 /\ deployments' \in 0..MaxDeployments
        /\ UNCHANGED <<tracker, installed, approved, definition>>
    BY <1>2 DEF Begin
  <2>3. Wanted' \in Definitions
    BY <2>1, <2>2 DEF Wanted, Definitions
  <2> QED
    BY <2>1, <2>2, <2>3
<1>3. CASE Package
  BY <1>3 DEF Package, Then, Wanted
<1>4. CASE Install
  <2>1. Peer \in PeerSet
    BY <1>4, PeerOfLoop DEF Install
  <2>2. deployment.version \in Versions
    BY <1>4 DEF Install, Wanted, Definitions
  <2> QED
    BY <1>4, <2>1, <2>2 DEF Install, Then, Wanted
<1>5. CASE Approve
  <2>1. /\ approved' \in [PeerSet -> SUBSET Definitions]
        /\ Wanted' = Wanted
        /\ deployment.done + 1 \in 1..Len(Peers)
    BY <1>5, ApproveEffect
  <2>2. UNCHANGED <<tracker, installed, definition, deployments>>
    BY <1>5 DEF Approve
  <2>3. PICK st \in {"write", "package"} :
           /\ deployment' = [deployment EXCEPT !.done = deployment.done + 1, !.state = st]
           /\ st = IF deployment.done + 1 = Len(Peers) THEN "write" ELSE "package"
    BY <1>5 DEF Approve
  <2>4. /\ deployment' \in [state : States, sequence : 0..deployments',
                            version : Versions \cup {NoDefinition}, done : 0..Len(Peers),
                            inStep : BOOLEAN, clean : BOOLEAN, fresh : BOOLEAN]
        /\ deployment'.state = "package" => deployment'.done < Len(Peers)
    <3>1. PICK q : q = [deployment EXCEPT !.done = deployment.done + 1]
      OBVIOUS
    <3>2. /\ q \in [state : States, sequence : 0..deployments,
                    version : Versions \cup {NoDefinition}, done : 0..Len(Peers),
                    inStep : BOOLEAN, clean : BOOLEAN, fresh : BOOLEAN]
          /\ q.done = deployment.done + 1
      BY <2>1, <3>1
    <3>3. deployment' = [q EXCEPT !.state = st]
      BY ONLY <2>3, <3>1, DeployTypes DEF DeployTypes
    <3>4. st \in States
      OBVIOUS
    <3>5. /\ deployment' \in [state : States, sequence : 0..deployments,
                              version : Versions \cup {NoDefinition}, done : 0..Len(Peers),
                              inStep : BOOLEAN, clean : BOOLEAN, fresh : BOOLEAN]
          /\ deployment'.state = st /\ deployment'.done = q.done
      BY ONLY <3>2, <3>3, <3>4
    <3> QED
      BY <2>1, <2>2, <2>3, <3>2, <3>5
  <2>5. Wanted' \in Definitions
    BY <1>5, <2>1 DEF Approve
  <2> QED
    BY <2>1, <2>2, <2>3, <2>4, <2>5
<1>6. CASE StepFails
  BY <1>6 DEF StepFails, Wanted
<1>7. CASE Refuse
  BY <1>7 DEF Refuse, Then, Wanted
<1>8. CASE WriteTracker
  BY <1>8 DEF WriteTracker, Then, Wanted
<1>9. CASE CommitChaincode
  BY <1>9 DEF CommitChaincode, Then, Wanted
<1>10. CASE CommitFails
  <2>1. \/ deployment' = [deployment EXCEPT !.state = "failed"]
        \/ deployment' = [deployment EXCEPT !.state = "failed", !.clean = FALSE]
    BY <1>10 DEF CommitFails, Then
  <2>2. UNCHANGED <<tracker, installed, approved, definition, deployments>>
    BY <1>10 DEF CommitFails
  <2>3. CASE deployment' = [deployment EXCEPT !.state = "failed"]
    BY <2>2, <2>3
  <2>4. CASE deployment' = [deployment EXCEPT !.state = "failed", !.clean = FALSE]
    BY <2>2, <2>4
  <2> QED
    BY <2>1, <2>3, <2>4
<1>11. CASE Kill
  <2>1. tracker' = 0 \/ tracker' = tracker
    BY <1>11 DEF Kill
  <2>2. /\ deployment' = [deployment EXCEPT !.state = "failed", !.clean = FALSE]
        /\ UNCHANGED <<installed, approved, definition, deployments>>
    BY <1>11 DEF Kill
  <2>3. tracker' \in 0..deployments'
    BY <2>1, <2>2
  <2> QED
    BY <2>2, <2>3
<1> QED
  BY <1>1, <1>2, <1>3, <1>4, <1>5, <1>6, <1>7, <1>8, <1>9, <1>10, <1>11 DEF DeployNext

LEMMA InstalledInductive ==
    DeployTypes /\ ApprovedIsInstalled /\ [DeployNext]_deployVars => ApprovedIsInstalled'
<1> SUFFICES ASSUME DeployTypes, ApprovedIsInstalled, [DeployNext]_deployVars
             PROVE  ApprovedIsInstalled'
  OBVIOUS
<1> USE DEF ApprovedIsInstalled, Peer
<1>1. CASE UNCHANGED deployVars
  BY <1>1 DEF deployVars
<1>2. ASSUME NEW version \in Versions, Begin(version) PROVE ApprovedIsInstalled'
  BY <1>2 DEF Begin
<1>3. CASE Package
  BY <1>3 DEF Package, Then, DeployTypes
<1>4. CASE Install
  <2>1. /\ Peer \in PeerSet
        /\ DOMAIN installed = PeerSet
    BY <1>4, PeerOfLoop DEF Install, DeployTypes, InLoop
  <2>2. /\ installed' = [installed EXCEPT ![Peer] = @ \cup {deployment.version}]
        /\ approved' = approved
        /\ deployment'.version = deployment.version
        /\ deployment'.done = deployment.done
    BY <1>4 DEF Install, Then, DeployTypes
  <2> QED
    BY <2>1, <2>2
<1>5. CASE Approve
  <2>1. /\ Wanted.version \in installed[Peer]
        /\ installed' = installed
    BY <1>5 DEF Approve, Wanted
  <2>2. \A p \in PeerSet : \A d \in approved'[p] :
          (d = Wanted /\ p = Peer) \/ d \in approved[p]
    BY <1>5, ApproveEffect
  <2>3. \A p \in PeerSet : \A d \in approved'[p] : d.version \in installed'[p]
    BY <2>1, <2>2
  <2>4. deployment'.state # "approve"
    BY <1>5, ApproveEffect
  <2> QED
    BY <2>3, <2>4
<1>6. CASE StepFails
  BY <1>6 DEF StepFails, DeployTypes
<1>7. CASE Refuse
  BY <1>7 DEF Refuse, Then, DeployTypes
<1>8. CASE WriteTracker
  BY <1>8 DEF WriteTracker, Then, DeployTypes
<1>9. CASE CommitChaincode
  BY <1>9 DEF CommitChaincode, Then, DeployTypes
<1>10. CASE CommitFails
  BY <1>10 DEF CommitFails, Then, DeployTypes
<1>11. CASE Kill
  BY <1>11 DEF Kill, DeployTypes
<1> QED
  BY <1>1, <1>2, <1>3, <1>4, <1>5, <1>6, <1>7, <1>8, <1>9, <1>10, <1>11 DEF DeployNext

LEMMA BehindInductive ==
    DeployTypes /\ BehindApproved /\ [DeployNext]_deployVars => BehindApproved'
<1> SUFFICES ASSUME DeployTypes, BehindApproved, [DeployNext]_deployVars
             PROVE  BehindApproved'
  OBVIOUS
<1> USE DEF BehindApproved, InLoop
<1>1. CASE UNCHANGED deployVars
  BY <1>1 DEF deployVars, Wanted
<1>2. ASSUME NEW version \in Versions, Begin(version) PROVE BehindApproved'
  BY <1>2 DEF Begin
<1>3. CASE Package
  BY <1>3 DEF Package, Then, DeployTypes, Wanted
<1>4. CASE Install
  BY <1>4 DEF Install, Then, DeployTypes, Wanted
<1>5. CASE Approve
  <2>1. \A i \in 1..deployment.done : Wanted \in approved[Peers[i]]
    BY <1>5 DEF Approve
  <2>2. deployment.done \in Nat /\ Len(Peers) \in Nat
    BY DeploymentAssumption DEF DeployTypes
  <2>3. \A i \in 1..Len(Peers) : Peers[i] \in PeerSet
    BY DeploymentAssumption DEF PeerSet
  <2>4. \A i \in 1..(deployment.done + 1) : Wanted \in approved'[Peers[i]]
    <3> SUFFICES ASSUME NEW i \in 1..(deployment.done + 1)
                 PROVE  Wanted \in approved'[Peers[i]]
      OBVIOUS
    <3>1. /\ deployment.done + 1 \in 1..Len(Peers)
          /\ Peer = Peers[deployment.done + 1]
          /\ \A p \in PeerSet \ {Peer} : approved'[p] = approved[p]
          /\ Wanted \in approved'[Peer]
      BY <1>5, ApproveEffect
    <3>2. Peers[i] \in PeerSet
      BY <2>2, <2>3, <3>1
    <3>3. CASE Peers[i] = Peer
      BY <3>1, <3>3
    <3>4. CASE Peers[i] # Peer
      <4>1. i \in 1..deployment.done
        BY <2>2, <3>1, <3>4
      <4> QED
        BY <2>1, <3>1, <3>2, <3>4, <4>1
    <3> QED
      BY <3>3, <3>4
  <2>5. deployment'.state = "write" => \A p \in PeerSet : Wanted \in approved'[p]
    <3>1. deployment'.state = "write" => deployment.done + 1 = Len(Peers)
      BY <1>5, ApproveEffect
    <3> QED
      BY <2>4, <3>1, DeploymentAssumption DEF PeerSet
  <2>6. Wanted' = Wanted /\ deployment'.done = deployment.done + 1
    BY <1>5, ApproveEffect
  <2> QED
    BY <2>4, <2>5, <2>6
<1>6. CASE StepFails
  BY <1>6 DEF StepFails, DeployTypes
<1>7. CASE Refuse
  BY <1>7 DEF Refuse, Then, DeployTypes
<1>8. CASE WriteTracker
  BY <1>8 DEF WriteTracker, Then, DeployTypes
<1>9. CASE CommitChaincode
  BY <1>9 DEF CommitChaincode, Then, DeployTypes
<1>10. CASE CommitFails
  BY <1>10 DEF CommitFails, Then, DeployTypes
<1>11. CASE Kill
  BY <1>11 DEF Kill, DeployTypes
<1> QED
  BY <1>1, <1>2, <1>3, <1>4, <1>5, <1>6, <1>7, <1>8, <1>9, <1>10, <1>11 DEF DeployNext

LEMMA FileInductive ==
    DeployTypes /\ BehindApproved /\ FileFollows /\ DriftIsOne /\ [DeployNext]_deployVars
        => FileFollows' /\ DriftIsOne'
<1> SUFFICES ASSUME DeployTypes, BehindApproved, FileFollows, DriftIsOne,
                    [DeployNext]_deployVars
             PROVE  FileFollows' /\ DriftIsOne'
  OBVIOUS
<1>0. /\ deployment.sequence \in Nat /\ tracker \in Nat /\ definition.sequence \in Nat
      /\ deployments \in Nat
  BY DeploymentAssumption DEF DeployTypes
<1> USE <1>0 DEF FileFollows, DriftIsOne, InLoop
<1>1. CASE UNCHANGED deployVars
  BY <1>1 DEF deployVars, Wanted, IsNext
<1>2. ASSUME NEW version \in Versions, Begin(version) PROVE FileFollows' /\ DriftIsOne'
  BY <1>2 DEF Begin, NextSequence
<1>3. CASE Package
  BY <1>3 DEF Package, Then, DeployTypes
<1>4. CASE Install
  BY <1>4 DEF Install, Then, DeployTypes
<1>5. CASE Approve
  <2>1. /\ deployment'.state \in {"write", "package"}
        /\ deployment'.sequence = deployment.sequence
        /\ deployment'.version = deployment.version
        /\ definition' = definition /\ tracker' = tracker
        /\ tracker = deployment.sequence - 1
    BY <1>5, ApproveEffect DEF Approve
  <2>2. FileFollows'
    <3>1. IsNext(Wanted) \/ Wanted = definition
      BY <1>5 DEF Approve, Approvable
    <3> QED
      BY <2>1, <3>1, WantedStays
  <2>3. DriftIsOne'
    <3> SUFFICES ASSUME NEW v \in Versions,
                        \A p \in PeerSet : [sequence |-> tracker, version |-> v] \in approved[p]
                 PROVE  \A p \in PeerSet : [sequence |-> tracker, version |-> v] \in approved'[p]
      BY <2>1
    <3>1. PICK d : d = [sequence |-> tracker, version |-> v]
      OBVIOUS
    <3>2. d.sequence # deployment.sequence
      BY <2>1, <3>1
    <3>3. \A p \in PeerSet : d \in approved'[p]
      BY <1>5, <3>1, <3>2, ApproveEffect
    <3> QED
      BY <3>1, <3>3
  <2> QED
    BY <2>2, <2>3
<1>6. CASE StepFails
  BY <1>6 DEF StepFails, DeployTypes
<1>7. CASE Refuse
  BY <1>7 DEF Refuse, Then, DeployTypes
<1>8. CASE WriteTracker
  <2>1. deployment.sequence \in {definition.sequence, definition.sequence + 1}
    BY <1>8 DEF WriteTracker, IsNext, Wanted
  <2>2. /\ tracker' = deployment.sequence /\ approved' = approved
        /\ definition' = definition
        /\ deployment'.state = "commit" /\ deployment'.sequence = deployment.sequence
    BY <1>8 DEF WriteTracker, Then, DeployTypes
  <2>3. /\ deployment.version \in Versions
        /\ \A p \in PeerSet : Wanted \in approved[p]
    BY <1>8 DEF WriteTracker, BehindApproved, DeployTypes, Running, Wanted, Definitions
  <2> QED
    BY <2>1, <2>2, <2>3 DEF Wanted
<1>9. CASE CommitChaincode
  BY <1>9 DEF CommitChaincode, Committable, IsNext, Then, Wanted, DeployTypes
<1>10. CASE CommitFails
  BY <1>10 DEF CommitFails, Then, DeployTypes
<1>11. CASE Kill
  <2>1. tracker' \in {0, tracker}
    BY <1>11 DEF Kill
  <2> QED
    BY <1>11, <2>1 DEF Kill, DeployTypes
<1> QED
  BY <1>1, <1>2, <1>3, <1>4, <1>5, <1>6, <1>7, <1>8, <1>9, <1>10, <1>11 DEF DeployNext

LEMMA CleanInductive ==
    DeployInv /\ [DeployNext]_deployVars => CleanSoFar' /\ CleanDeploymentCommits'
<1> SUFFICES ASSUME DeployInv, [DeployNext]_deployVars
             PROVE  CleanSoFar' /\ CleanDeploymentCommits'
  OBVIOUS
<1>0. /\ deployment.sequence \in Nat /\ tracker \in Nat /\ definition.sequence \in Nat
      /\ deployment.done \in Nat /\ Len(Peers) \in Nat \ {0}
      /\ DeployTypes /\ CleanSoFar /\ CleanDeploymentCommits
      /\ \A i \in DOMAIN Peers : Peers[i] \in PeerSet
  BY DeploymentAssumption DEF DeployInv, DeployTypes, PeerSet
<1> USE <1>0 DEF CleanSoFar, CleanDeploymentCommits, AheadIsNew, InLoop, Running
<1>1. CASE UNCHANGED deployVars
  BY <1>1 DEF deployVars, Wanted, InStep, IsNext
<1>2. ASSUME NEW version \in Versions, Begin(version)
      PROVE  CleanSoFar' /\ CleanDeploymentCommits'
  <2>1. /\ deployment'.state = "package" /\ deployment'.done = 0
        /\ deployment'.sequence = tracker + 1 /\ deployment'.version = version
        /\ UNCHANGED <<definition, installed, approved>>
    BY <1>2 DEF Begin, NextSequence
  <2>2. deployment'.inStep => tracker = definition.sequence
    BY <1>2 DEF Begin, InStep
  <2>3. deployment'.fresh => \A p \in PeerSet : version \notin installed[p]
    BY <1>2 DEF Begin
  <2>4. Wanted'.version = version /\ Wanted'.sequence = tracker + 1
    BY <2>1 DEF Wanted
  <2>5. deployment'.fresh => \A p \in PeerSet : Wanted' \notin approved[p]
    BY <2>3, <2>4 DEF DeployInv, ApprovedIsInstalled
  <2>6. deployment'.inStep => IsNext(Wanted)'
    BY <2>1, <2>2, <2>4 DEF IsNext
  <2> QED
    BY <2>1, <2>3, <2>5, <2>6
<1>3. CASE Package
  <2>1. /\ deployment'.state = "install" /\ deployment'.sequence = deployment.sequence
        /\ deployment'.version = deployment.version /\ deployment'.done = deployment.done
        /\ deployment'.inStep = deployment.inStep /\ deployment'.clean = deployment.clean
        /\ deployment'.fresh = deployment.fresh
        /\ UNCHANGED <<tracker, installed, approved, definition>>
    BY <1>3 DEF Package, Then, DeployTypes
  <2>2. deployment.state = "package"
    BY <1>3 DEF Package
  <2> QED
    BY <2>1, <2>2, WantedStays
<1>4. CASE Install
  <2>1. /\ deployment'.state = "approve" /\ deployment'.sequence = deployment.sequence
        /\ deployment'.version = deployment.version /\ deployment'.done = deployment.done
        /\ deployment'.inStep = deployment.inStep /\ deployment'.clean = deployment.clean
        /\ deployment'.fresh = deployment.fresh
        /\ UNCHANGED <<tracker, approved, definition>>
    BY <1>4 DEF Install, Then, DeployTypes
  <2>2. deployment.state = "install"
    BY <1>4 DEF Install
  <2>3. /\ \A p \in PeerSet \ {Peer} : installed'[p] = installed[p]
        /\ Peer = Peers[deployment.done + 1]
        /\ deployment.done + 1 \in DOMAIN Peers
    BY <1>4, PeerOfLoop DEF Install, DeployTypes, Peer
  <2>4. \A i \in DOMAIN Peers : i # deployment.done + 1 =>
            installed'[Peers[i]] = installed[Peers[i]]
    BY <2>3, DeploymentAssumption
  <2> QED
    BY <2>1, <2>2, <2>4, WantedStays
<1>5. CASE Approve
  <2>1. /\ deployment'.done = deployment.done + 1
        /\ deployment'.state \in {"write", "package"}
        /\ deployment'.sequence = deployment.sequence
        /\ deployment'.version = deployment.version
        /\ deployment'.inStep = deployment.inStep /\ deployment'.clean = deployment.clean
        /\ deployment'.fresh = deployment.fresh
        /\ Peer = Peers[deployment.done + 1]
        /\ deployment.done + 1 \in DOMAIN Peers
        /\ \A p \in PeerSet \ {Peer} : approved'[p] = approved[p]
    BY <1>5, ApproveEffect, DeploymentAssumption
  <2>2. /\ deployment.state = "approve"
        /\ UNCHANGED <<tracker, installed, definition>>
    BY <1>5 DEF Approve
  <2>3. \A i \in DOMAIN Peers : i > deployment.done + 1 =>
            approved'[Peers[i]] = approved[Peers[i]]
    BY <2>1, DeploymentAssumption
  <2>4. Wanted' = Wanted /\ (IsNext(Wanted)' <=> IsNext(Wanted))
    BY <2>1, <2>2, WantedStays
  <2>5. \A i \in DOMAIN Peers : i > deployment.done + 1 =>
            i > deployment.done /\ i # deployment.done + 1
    BY DeploymentAssumption
  <2> QED
    BY <2>1, <2>2, <2>3, <2>4, <2>5
<1>6. CASE StepFails
  BY <1>6 DEF StepFails, DeployTypes
<1>7. CASE Refuse
  <2>1. /\ deployment'.state = "commit"
        /\ deployment'.inStep = deployment.inStep /\ deployment'.clean = deployment.clean
        /\ deployment'.fresh = deployment.fresh
    BY <1>7 DEF Refuse, Then, DeployTypes
  <2>2. ~(deployment.inStep /\ deployment.fresh /\ deployment.clean)
    <3> SUFFICES ASSUME deployment.inStep, deployment.fresh, deployment.clean PROVE FALSE
      OBVIOUS
    <3>1. deployment.state \in InLoop
      BY <1>7 DEF Refuse
    <3>2. deployment.done + 1 \in DOMAIN Peers /\ Peer = Peers[deployment.done + 1]
      BY <3>1, PeerOfLoop DEF Peer
    <3>3. /\ Wanted \notin approved[Peer]
          /\ deployment.version \notin installed[Peer] \/ deployment.state = "approve"
          /\ IsNext(Wanted)
      BY <3>1, <3>2
    <3> QED
      BY <1>7, <3>3 DEF Refuse, Approvable
  <2> QED
    BY <2>1, <2>2
<1>8. CASE WriteTracker
  <2>1. /\ deployment'.state = "commit" /\ deployment'.sequence = deployment.sequence
        /\ deployment'.version = deployment.version
        /\ deployment'.inStep = deployment.inStep /\ deployment'.clean = deployment.clean
        /\ deployment'.fresh = deployment.fresh
        /\ tracker' = deployment.sequence
        /\ UNCHANGED <<installed, approved, definition>>
    BY <1>8 DEF WriteTracker, Then, DeployTypes
  <2>2. deployment.state = "write" /\ \A p \in PeerSet : Wanted \in approved[p]
    BY <1>8 DEF WriteTracker, DeployInv, BehindApproved
  <2> QED
    BY <2>1, <2>2, WantedStays
<1>9. CASE CommitChaincode
  BY <1>9 DEF CommitChaincode, Then, Wanted, InStep, DeployTypes
<1>10. CASE CommitFails
  <2>1. /\ deployment'.state = "failed"
        /\ deployment'.inStep = deployment.inStep /\ deployment'.fresh = deployment.fresh
        /\ deployment'.clean => deployment.clean /\ ~Committable(Wanted)
    BY <1>10 DEF CommitFails, Then, DeployTypes
  <2>2. ASSUME deployment.inStep, deployment.fresh, deployment.clean
        PROVE  Committable(Wanted)
    <3>1. IsNext(Wanted) /\ \A p \in PeerSet : Wanted \in approved[p]
      BY <1>10, <2>2 DEF CommitFails
    <3> QED
      BY <3>1, AllIsMajority DEF Committable
  <2> QED
    BY <2>1, <2>2
<1>11. CASE Kill
  BY <1>11 DEF Kill, DeployTypes
<1> QED
  BY <1>1, <1>2, <1>3, <1>4, <1>5, <1>6, <1>7, <1>8, <1>9, <1>10, <1>11 DEF DeployNext

LEMMA DeployInvInit == DeployInit => DeployInv
<1> SUFFICES ASSUME DeployInit PROVE DeployInv
  OBVIOUS
<1>1. DeployTypes
  BY DeploymentAssumption DEF DeployInit, DeployTypes, States, Running, InLoop
<1>2. ApprovedIsInstalled /\ BehindApproved /\ FileFollows /\ DriftIsOne
  BY DEF DeployInit, ApprovedIsInstalled, BehindApproved, FileFollows, DriftIsOne, InLoop
<1>3. CleanSoFar /\ CleanDeploymentCommits
  BY DEF DeployInit, CleanSoFar, AheadIsNew, CleanDeploymentCommits, Running, InLoop
<1> QED
  BY <1>1, <1>2, <1>3 DEF DeployInv

LEMMA DeployInvCorrect == DeploySpec => []DeployInv
<1>1. DeployInv /\ [DeployNext]_deployVars => DeployInv'
  BY TypesInductive, InstalledInductive, BehindInductive, FileInductive, CleanInductive
     DEF DeployInv
<1> QED
  BY <1>1, DeployInvInit, PTL DEF DeploySpec

-----------------------------------------------------------------------------
\* Nothing is approved on a peer before it is installed there, and the numbers
\* of the file and of the channel count deployments, whatever fails.
THEOREM DeploymentTypes == DeploySpec => []DeployTypeOK
<1>1. DeployInv => DeployTypeOK
  BY DeploymentAssumption
     DEF DeployInv, DeployTypes, Definitions, ApprovedIsInstalled, DeployTypeOK
<1> QED
  BY <1>1, DeployInvCorrect, PTL

\* However many deployments fail or are killed, the tracker file is never more
\* than one off the channel's sequence number, unless it was damaged; and where it
\* is ahead, every organization has approved one definition with its number.
THEOREM TrackerDrift == DeploySpec => []DriftIsOne
<1>1. DeployInv => DriftIsOne
  BY DEF DeployInv
<1> QED
  BY <1>1, DeployInvCorrect, PTL

\* Whatever earlier deployments left on the peers and in the channel, one of a new
\* version that starts in step is refused nothing by the lifecycle: unless the
\* environment fails, it commits what it was asked to, and leaves the file in step.
THEOREM CleanCommits == DeploySpec => []CleanDeploymentCommits
<1>1. DeployInv => CleanDeploymentCommits
  BY DEF DeployInv
<1> QED
  BY <1>1, DeployInvCorrect, PTL

-----------------------------------------------------------------------------
\* Identities: the inductive invariant.

AttributeSets == {Absent} \cup SUBSET Attributes
Certificates == [user : Users, attrs : AttributeSets]
Numbers == DOMAIN issued

Steps == {"idle", "register", "enroll", "getOne", "modify", "reenroll", "read", "revoke"}

OperationsOver(numbers) ==
    [step : Steps, kind : {"none", "registerAndEnroll", "enroll", "update", "revoke"},
     user : Users \cup {Absent}, old : numbers \cup {NoCertificate},
     new : numbers \cup {NoCertificate}, request : SUBSET Attributes,
     names : AttributeSets,
     error : {"none", "ConflictError", "AuthorizationError", "RegistrationError",
              "NotFoundError", "InternalError"}]

EnrollTypes ==
    /\ registry \in [Users -> AttributeSets]
    /\ issued \in Seq(Certificates)
    /\ revoked \subseteq Numbers
    /\ withdrawn \cup lost \subseteq revoked
    /\ deleted \subseteq Users
    /\ wallet \in [Users -> SUBSET Numbers]
    /\ \A user \in Users : \A n \in wallet[user] : issued[n].user = user
    /\ operation \in [Admins -> OperationsOver(Numbers)]

\* An operation that is under way is about a user; the certificates of an
\* update are of that user.
OwnCertificates ==
    \A a \in Admins : LET o == operation[a] IN
        o.step # "idle" =>
            /\ o.user \in Users
            /\ o.old # NoCertificate => issued[o.old].user = o.user
            /\ o.new # NoCertificate => issued[o.new].user = o.user

Renewing(a) ==
    /\ operation[a].step \in {"getOne", "modify", "reenroll", "read", "revoke"}
    /\ operation[a].kind = "update"

\* The certificate that was issued for the update of a, and that its caller has
\* not been given yet.
Fresh(a) == operation[a].step # "idle" /\ operation[a].new # NoCertificate

\* Each kind of operation has its steps.  An update has an old certificate, and
\* before it revokes the old one it has a new one.
StepsOfUpdate ==
    \A a \in Admins :
        /\ operation[a].step \in {"getOne", "modify", "reenroll"} => Renewing(a)
        /\ Renewing(a) => operation[a].old # NoCertificate
        /\ operation[a].step \in {"read", "revoke"} =>
              /\ operation[a].kind \in {"update", "revoke"}
              /\ operation[a].kind = "update" => operation[a].new # NoCertificate
        /\ Fresh(a) => Renewing(a) /\ operation[a].step \in {"read", "revoke"}
        /\ operation[a].kind = "revoke" => operation[a].step \in {"idle", "read", "revoke"}

\* A fresh certificate is in no wallet, was not revoked unless by its number, and
\* is not what another update replaces or was given.
FreshIsUnknown ==
    \A a \in Admins : Fresh(a) =>
        /\ operation[a].new \in revoked => operation[a].new \in withdrawn
        /\ \A user \in Users : operation[a].new \notin wallet[user]
        /\ \A b \in Admins :
              /\ Renewing(b) => operation[b].old # operation[a].new
              /\ b # a /\ Fresh(b) => operation[b].new # operation[a].new

\* A certificate in a wallet that cannot be used was withdrawn, or replaced by one
\* that was lost.
WalletIsValid ==
    \A user \in Users : wallet[user] \cap revoked \subseteq withdrawn \cup lost

EnrollInv ==
    /\ EnrollTypes
    /\ OwnCertificates
    /\ StepsOfUpdate
    /\ FreshIsUnknown
    /\ WalletIsValid

-----------------------------------------------------------------------------
\* What the steps do to an operation and to the certificates.

Errors == {"ConflictError", "AuthorizationError", "RegistrationError",
           "NotFoundError", "InternalError"}

LEMMA ErrorsOfRefusals ==
    \A refusal \in {"exists", "unauthorized", "other"} : ParseError(refusal) \in Errors
BY DEF ParseError, Errors

LEMMA MoreNumbers ==
    ASSUME NEW N, NEW M, N \subseteq M, NEW o \in OperationsOver(N)
    PROVE  o \in OperationsOver(M)
BY DEF OperationsOver

LEMMA GoesEffect ==
    ASSUME NEW N, operation \in [Admins -> OperationsOver(N)], NEW a \in Admins,
           NEW step \in Steps, Goes(a, step)
    PROVE  /\ operation' \in [Admins -> OperationsOver(N)]
           /\ \A b \in Admins \ {a} : operation'[b] = operation[b]
           /\ operation'[a].step = step
           /\ operation'[a].old = operation[a].old
           /\ operation'[a].new = operation[a].new
           /\ operation'[a].user = operation[a].user
           /\ operation'[a].kind = operation[a].kind
<1> DEFINE o == [operation[a] EXCEPT !.step = step]
<1>1. operation' = [operation EXCEPT ![a] = o]
  BY DEF Goes
<1>2. o \in OperationsOver(N)
  BY DEF OperationsOver
<1>3. /\ o.step = step /\ o.old = operation[a].old /\ o.new = operation[a].new
      /\ o.user = operation[a].user /\ o.kind = operation[a].kind
  BY DEF OperationsOver
<1> HIDE DEF o
<1> QED
  BY <1>1, <1>2, <1>3

LEMMA FailsEffect ==
    ASSUME NEW N, operation \in [Admins -> OperationsOver(N)], NEW a \in Admins,
           NEW error \in Errors, Fails(a, error)
    PROVE  /\ operation' \in [Admins -> OperationsOver(N)]
           /\ \A b \in Admins \ {a} : operation'[b] = operation[b]
           /\ operation'[a].step = "idle"
<1> DEFINE o == [operation[a] EXCEPT !.step = "idle", !.error = error]
<1>1. operation' = [operation EXCEPT ![a] = o]
  BY DEF Fails
<1>2. o \in OperationsOver(N)
  BY ZenonT(40) DEF OperationsOver, Steps, Errors
<1>3. o.step = "idle"
  BY DEF OperationsOver
<1> HIDE DEF o
<1> QED
  BY <1>1, <1>2, <1>3

LEMMA IssueEffect ==
    ASSUME issued \in Seq(Certificates), NEW user \in Users, NEW attrs \in AttributeSets,
           Issue(user, attrs)
    PROVE  /\ issued' \in Seq(Certificates)
           /\ Numbers \subseteq Numbers'
           /\ Len(issued') \in Numbers' \ Numbers
           /\ \A n \in Numbers : issued'[n] = issued[n]
           /\ issued'[Len(issued')].user = user
<1> DEFINE c == [user |-> user, attrs |-> attrs]
<1>1. c \in Certificates /\ c.user = user
  BY DEF Certificates
<1>2. issued' = Append(issued, c)
  BY DEF Issue
<1> HIDE DEF c
<1> QED
  BY <1>1, <1>2 DEF Numbers

-----------------------------------------------------------------------------
\* The steps preserve the invariant.

\* All other administrators' operations are as before.
OnlyOf(a) == \A b \in Admins \ {a} : operation'[b] = operation[b]

\* Certificates are added, or none.
CertificatesGrow ==
    Numbers \subseteq Numbers' /\ \A n \in Numbers : issued'[n] = issued[n]

\* An operation that ends leaves nothing that is fresh.
LEMMA EndsStep ==
    ASSUME EnrollInv, EnrollTypes', NEW a \in Admins, OnlyOf(a), CertificatesGrow,
           operation'[a].step = "idle", UNCHANGED <<revoked, deleted, wallet, withdrawn, lost>>
    PROVE  EnrollInv'
<1>1. OwnCertificates'
  <2> SUFFICES ASSUME NEW b \in Admins, operation'[b].step # "idle"
               PROVE  /\ operation'[b].user \in Users
                      /\ operation'[b].old # NoCertificate =>
                            issued'[operation'[b].old].user = operation'[b].user
                      /\ operation'[b].new # NoCertificate =>
                            issued'[operation'[b].new].user = operation'[b].user
    BY DEF OwnCertificates
  <2>1. b # a /\ operation'[b] = operation[b]
    BY DEF OnlyOf
  <2>2. /\ operation[b].old # NoCertificate => operation[b].old \in Numbers
        /\ operation[b].new # NoCertificate => operation[b].new \in Numbers
    BY DEF EnrollInv, EnrollTypes, OperationsOver
  <2> QED
    BY <2>1, <2>2 DEF EnrollInv, OwnCertificates, CertificatesGrow
<1>2. StepsOfUpdate'
  BY DEF EnrollInv, StepsOfUpdate, Fresh, Renewing, OnlyOf
<1>3. FreshIsUnknown'
  BY DEF EnrollInv, FreshIsUnknown, Fresh, Renewing, OnlyOf
<1>4. WalletIsValid'
  BY DEF EnrollInv, WalletIsValid
<1> QED
  BY <1>1, <1>2, <1>3, <1>4 DEF EnrollInv

LEMMA MovesStep ==
    ASSUME EnrollInv, EnrollTypes', NEW a \in Admins, OnlyOf(a),
           UNCHANGED <<issued, revoked, deleted, wallet, withdrawn, lost>>,
           operation'[a].old = operation[a].old, operation'[a].new = operation[a].new,
           operation'[a].user = operation[a].user, operation'[a].kind = operation[a].kind,
           \/ operation[a].step = "register" /\ operation'[a].step = "enroll"
           \/ operation[a].step = "getOne" /\ operation'[a].step = "modify"
           \/ operation[a].step = "modify" /\ operation'[a].step = "reenroll"
           \/ operation[a].step = "read" /\ operation'[a].step = "revoke"
    PROVE  EnrollInv'
<1>1. OwnCertificates'
  BY DEF EnrollInv, OwnCertificates, OnlyOf
<1>2. StepsOfUpdate'
  BY DEF EnrollInv, StepsOfUpdate, Fresh, Renewing, OnlyOf
<1>3. FreshIsUnknown'
  <2>1. \A b \in Admins : /\ Fresh(b)' => Fresh(b)
                          /\ Renewing(b)' => Renewing(b)
                          /\ operation'[b].new = operation[b].new
                          /\ operation'[b].old = operation[b].old
    BY DEF OnlyOf, Fresh, Renewing
  <2> QED
    BY <2>1 DEF EnrollInv, FreshIsUnknown
<1>4. WalletIsValid'
  BY DEF EnrollInv, WalletIsValid
<1> QED
  BY <1>1, <1>2, <1>3, <1>4 DEF EnrollInv

\* What an update begins with is a certificate of a wallet, hence not fresh.  What
\* an administrator revokes by its number may be.
LEMMA BeginStep ==
    ASSUME EnrollInv, EnrollTypes', NEW a \in Admins, NEW user \in Users, OnlyOf(a),
           UNCHANGED <<issued, revoked, deleted, wallet, withdrawn, lost>>,
           operation[a].step = "idle",
           operation'[a].new = NoCertificate, operation'[a].user = user,
           \/ /\ operation'[a].kind \in {"registerAndEnroll", "enroll"}
              /\ operation'[a].old = NoCertificate
              /\ operation'[a].step \in {"register", "enroll"}
           \/ /\ operation'[a].kind = "revoke" /\ operation'[a].step = "read"
              /\ operation'[a].old \in Numbers =>
                    issued[operation'[a].old].user = user
              /\ operation'[a].old \in Numbers \cup {NoCertificate}
           \/ /\ operation'[a].kind = "update" /\ operation'[a].old \in wallet[user]
              /\ operation'[a].step = "getOne"
    PROVE  EnrollInv'
<1>1. OwnCertificates'
  BY DEF EnrollInv, EnrollTypes, OwnCertificates, OnlyOf
<1>2. operation'[a].old \in wallet[user] => operation'[a].old # NoCertificate
  BY EnrollmentAssumption DEF EnrollInv, EnrollTypes, Numbers, Certificates
<1>3. StepsOfUpdate'
  BY <1>2 DEF EnrollInv, StepsOfUpdate, Fresh, Renewing, OnlyOf
<1>4. FreshIsUnknown'
  <2>1. \A b \in Admins : Fresh(b)' => b # a /\ operation'[b] = operation[b] /\ Fresh(b)
    BY DEF OnlyOf, Fresh
  <2> SUFFICES ASSUME NEW b \in Admins, Fresh(b)'
               PROVE  \A c \in Admins :
                         Renewing(c)' => operation'[c].old # operation'[b].new
    BY <2>1 DEF EnrollInv, FreshIsUnknown
  <2>2. Renewing(a)' => operation'[a].old # operation'[b].new
    BY <2>1 DEF EnrollInv, FreshIsUnknown, Fresh, Renewing
  <2>3. \A c \in Admins \ {a} : Renewing(c)' =>
            Renewing(c) /\ operation'[c].old = operation[c].old
    BY DEF OnlyOf, Renewing
  <2> QED
    BY <2>1, <2>2, <2>3 DEF EnrollInv, FreshIsUnknown
<1>5. WalletIsValid'
  BY DEF EnrollInv, WalletIsValid
<1> QED
  BY <1>1, <1>3, <1>4, <1>5 DEF EnrollInv

LEMMA WalletAfterHand ==
    ASSUME EnrollTypes, NEW user \in Users, NEW old, NEW new, Hand(user, old, new)
    PROVE  /\ wallet' \in [Users -> SUBSET (Numbers \cup {new})]
           /\ \A u \in Users : wallet'[u] \subseteq wallet[u] \cup {new}
           /\ wallet'[user] = (wallet[user] \ {old}) \cup {new}
           /\ \A u \in Users \ {user} : wallet'[u] = wallet[u]
BY DEF Hand, EnrollTypes

\* The certificate of an enrollment is new to everybody.
LEMMA EnrolledStep ==
    ASSUME EnrollInv, EnrollTypes', NEW a \in Admins, OnlyOf(a), CertificatesGrow,
           operation'[a].step = "idle", UNCHANGED <<revoked, deleted, withdrawn, lost>>,
           NEW user \in Users, NEW new \in Numbers' \ Numbers,
           Hand(user, NoCertificate, new)
    PROVE  EnrollInv'
<1>0. \A u \in Users : wallet'[u] \subseteq wallet[u] \cup {new}
  BY WalletAfterHand DEF EnrollInv
<1>1. OwnCertificates'
  <2> SUFFICES ASSUME NEW b \in Admins, operation'[b].step # "idle"
               PROVE  /\ operation'[b].user \in Users
                      /\ operation'[b].old # NoCertificate =>
                            issued'[operation'[b].old].user = operation'[b].user
                      /\ operation'[b].new # NoCertificate =>
                            issued'[operation'[b].new].user = operation'[b].user
    BY DEF OwnCertificates
  <2>1. b # a /\ operation'[b] = operation[b]
    BY DEF OnlyOf
  <2>2. /\ operation[b].old # NoCertificate => operation[b].old \in Numbers
        /\ operation[b].new # NoCertificate => operation[b].new \in Numbers
    BY DEF EnrollInv, EnrollTypes, OperationsOver
  <2> QED
    BY <2>1, <2>2 DEF EnrollInv, OwnCertificates, CertificatesGrow
<1>2. StepsOfUpdate'
  BY DEF EnrollInv, StepsOfUpdate, Fresh, Renewing, OnlyOf
<1>3. FreshIsUnknown'
  <2>1. \A b \in Admins : Fresh(b)' => b # a /\ operation'[b] = operation[b] /\ Fresh(b)
    BY DEF OnlyOf, Fresh
  <2>2. \A b \in Admins : Fresh(b) => operation[b].new # new
    BY DEF EnrollInv, EnrollTypes, OperationsOver, Fresh
  <2>3. \A b, c \in Admins : Fresh(b)' /\ Renewing(c)' =>
            operation'[c].old # operation'[b].new
    BY <2>1 DEF EnrollInv, FreshIsUnknown, Renewing, OnlyOf
  <2>4. \A b \in Admins : Fresh(b)' =>
            /\ operation'[b].new \in revoked' => operation'[b].new \in withdrawn'
            /\ \A u \in Users : operation'[b].new \notin wallet'[u]
    BY <1>0, <2>1, <2>2 DEF EnrollInv, FreshIsUnknown
  <2> QED
    BY <2>1, <2>3, <2>4 DEF EnrollInv, FreshIsUnknown
<1>4. WalletIsValid'
  BY <1>0 DEF EnrollInv, WalletIsValid, EnrollTypes
<1> QED
  BY <1>1, <1>2, <1>3, <1>4 DEF EnrollInv

\* So is that of a renewal, which only its operation knows.
LEMMA RenewedStep ==
    ASSUME EnrollInv, EnrollTypes', NEW a \in Admins, OnlyOf(a), CertificatesGrow,
           NEW new \in Numbers' \ Numbers, issued'[new].user = operation[a].user,
           UNCHANGED <<revoked, deleted, wallet, withdrawn, lost>>,
           operation[a].step = "reenroll", operation'[a].step = "read",
           operation'[a].new = new, operation'[a].old = operation[a].old,
           operation'[a].user = operation[a].user, operation'[a].kind = operation[a].kind
    PROVE  EnrollInv'
<1>0. \A b \in Admins : /\ operation[b].old # NoCertificate => operation[b].old \in Numbers
                        /\ operation[b].new # NoCertificate => operation[b].new \in Numbers
  BY DEF EnrollInv, EnrollTypes, OperationsOver
<1>1. new # NoCertificate
  BY EnrollmentAssumption DEF EnrollTypes, Numbers
<1>2. OwnCertificates'
  BY <1>0 DEF EnrollInv, OwnCertificates, OnlyOf, CertificatesGrow
<1>3. StepsOfUpdate'
  BY <1>1 DEF EnrollInv, StepsOfUpdate, Fresh, Renewing, OnlyOf
<1>4. FreshIsUnknown'
  <2>1. \A b \in Admins : Fresh(b)' /\ b # a => operation'[b] = operation[b] /\ Fresh(b)
    BY DEF OnlyOf, Fresh
  <2>2. \A b \in Admins : /\ b # a => operation'[b].old = operation[b].old
                          /\ Renewing(b)' /\ b # a => Renewing(b)
                          /\ operation'[a].old = operation[a].old
    BY DEF OnlyOf, Renewing
  <2>3. new \notin revoked /\ \A u \in Users : new \notin wallet[u]
    BY DEF EnrollInv, EnrollTypes
  <2>4. \A b \in Admins : operation'[b].old # new
    BY <1>0, <1>1, <2>2
  <2>5. Renewing(a)
    BY DEF EnrollInv, StepsOfUpdate
  <2> QED
    BY <1>0, <2>1, <2>2, <2>3, <2>4, <2>5 DEF EnrollInv, FreshIsUnknown, Fresh
<1>5. WalletIsValid'
  BY DEF EnrollInv, WalletIsValid
<1> QED
  BY <1>2, <1>3, <1>4, <1>5 DEF EnrollInv

\* A user is revoked as a whole.
LEMMA RevokedWholeStep ==
    ASSUME EnrollInv, EnrollTypes', NEW a \in Admins, OnlyOf(a),
           operation'[a].step = "idle",
           UNCHANGED <<issued, revoked, wallet, withdrawn, lost>>
    PROVE  EnrollInv'
<1>1. OwnCertificates'
  BY DEF EnrollInv, OwnCertificates, OnlyOf
<1>2. StepsOfUpdate'
  BY DEF EnrollInv, StepsOfUpdate, Fresh, Renewing, OnlyOf
<1>3. FreshIsUnknown'
  BY DEF EnrollInv, FreshIsUnknown, Fresh, Renewing, OnlyOf
<1>4. WalletIsValid'
  BY DEF EnrollInv, WalletIsValid
<1> QED
  BY <1>1, <1>2, <1>3, <1>4 DEF EnrollInv

\* The certificate that an update replaces is revoked, and its successor given
\* to the caller, or lost on the way.  It is in the user's wallet only.
LEMMA RevokedStep ==
    ASSUME EnrollInv, EnrollTypes', NEW a \in Admins, OnlyOf(a),
           operation[a].step = "revoke", operation[a].old # NoCertificate,
           operation[a].kind = "update",
           operation'[a].step = "idle", UNCHANGED <<issued, deleted, withdrawn>>,
           revoked' = revoked \cup {operation[a].old},
           \/ /\ Hand(operation[a].user, operation[a].old, operation[a].new)
              /\ UNCHANGED lost
           \/ lost' = lost \cup {operation[a].old} /\ UNCHANGED wallet
    PROVE  EnrollInv'
<1> DEFINE user == operation[a].user
           old == operation[a].old
           new == operation[a].new
<1>0. /\ user \in Users /\ old \in Numbers /\ issued[old].user = user
      /\ new # NoCertificate /\ Fresh(a) /\ Renewing(a) /\ old # new
      /\ new \in revoked => new \in withdrawn
  BY DEF EnrollInv, EnrollTypes, OperationsOver, OwnCertificates, StepsOfUpdate, Fresh,
         FreshIsUnknown
<1>1. OwnCertificates'
  BY DEF EnrollInv, OwnCertificates, OnlyOf
<1>2. StepsOfUpdate'
  BY DEF EnrollInv, StepsOfUpdate, Fresh, Renewing, OnlyOf
<1>3. \A u \in Users : wallet'[u] \subseteq wallet[u] \cup {new}
  BY <1>0, WalletAfterHand DEF EnrollInv
<1>4. FreshIsUnknown'
  <2>1. \A b \in Admins : Fresh(b)' => b # a /\ operation'[b] = operation[b] /\ Fresh(b)
    BY DEF OnlyOf, Fresh
  <2>2. \A b \in Admins : Fresh(b) /\ b # a => operation[b].new # new /\ operation[b].new # old
    BY <1>0 DEF EnrollInv, FreshIsUnknown
  <2>3. \A b, c \in Admins : Fresh(b)' /\ Renewing(c)' =>
            operation'[c].old # operation'[b].new
    BY <2>1 DEF EnrollInv, FreshIsUnknown, Renewing, OnlyOf
  <2>4. \A b \in Admins : Fresh(b)' =>
            /\ operation'[b].new \in revoked' => operation'[b].new \in withdrawn'
            /\ \A u \in Users : operation'[b].new \notin wallet'[u]
    BY <1>3, <2>1, <2>2 DEF EnrollInv, FreshIsUnknown
  <2> QED
    BY <2>1, <2>3, <2>4 DEF EnrollInv, FreshIsUnknown
<1>5. WalletIsValid'
  <2> SUFFICES ASSUME NEW u \in Users
               PROVE  wallet'[u] \cap revoked' \subseteq withdrawn' \cup lost'
    BY DEF WalletIsValid
  <2>1. wallet[u] \cap revoked \subseteq withdrawn \cup lost
    BY DEF EnrollInv, WalletIsValid
  <2>2. u # user => old \notin wallet[u]
    BY <1>0 DEF EnrollInv, EnrollTypes
  <2>3. CASE Hand(user, old, new) /\ UNCHANGED lost
    <3>1. /\ wallet'[user] = (wallet[user] \ {old}) \cup {new}
          /\ u # user => wallet'[u] = wallet[u]
      BY <1>0, <2>3, WalletAfterHand DEF EnrollInv
    <3> QED
      BY <1>0, <2>1, <2>2, <2>3, <3>1
  <2>4. CASE lost' = lost \cup {old} /\ wallet' = wallet
    BY <2>1, <2>4
  <2> QED
    BY <2>3, <2>4
<1> QED
  BY <1>1, <1>2, <1>4, <1>5 DEF EnrollInv

\* A certificate is revoked by its number, be it fresh or not.
LEMMA WithdrawnStep ==
    ASSUME EnrollInv, EnrollTypes', NEW a \in Admins, OnlyOf(a), NEW n,
           operation'[a].step = "idle", UNCHANGED <<issued, wallet, deleted, lost>>,
           revoked' = revoked \cup {n}, withdrawn' = withdrawn \cup {n}
    PROVE  EnrollInv'
<1>1. OwnCertificates'
  BY DEF EnrollInv, OwnCertificates, OnlyOf
<1>2. StepsOfUpdate'
  BY DEF EnrollInv, StepsOfUpdate, Fresh, Renewing, OnlyOf
<1>3. FreshIsUnknown'
  BY DEF EnrollInv, FreshIsUnknown, Fresh, Renewing, OnlyOf
<1>4. WalletIsValid'
  BY DEF EnrollInv, WalletIsValid
<1> QED
  BY <1>1, <1>2, <1>3, <1>4 DEF EnrollInv

-----------------------------------------------------------------------------
\* One lemma per operation or step of one.

\* If certificates stay as they are, or are added, the types of an operation
\* that keeps its numbers are those of the new state.
LEMMA TypesKept ==
    ASSUME EnrollTypes, operation' \in [Admins -> OperationsOver(Numbers)],
           registry' \in [Users -> AttributeSets],
           UNCHANGED <<issued, revoked, deleted, wallet, withdrawn, lost>>
    PROVE  EnrollTypes'
BY DEF EnrollTypes, Numbers

\* An operation begins: with a step, a certificate to replace or none, and a
\* request.
LEMMA BeginKeeps ==
    ASSUME EnrollInv, NEW a \in Admins, NEW user \in Users,
           NEW kind, NEW old, NEW request \in SUBSET Attributes, NEW step,
           BeginOperation(a, kind, user, old, request, step),
           \/ /\ kind \in {"registerAndEnroll", "enroll"}
              /\ old = NoCertificate /\ step \in {"register", "enroll"}
           \/ /\ kind = "revoke" /\ step = "read"
              /\ old \in Numbers => issued[old].user = user
              /\ old \in Numbers \cup {NoCertificate}
           \/ kind = "update" /\ old \in wallet[user] /\ step = "getOne"
    PROVE  EnrollInv'
<1> DEFINE o == [NoOperation EXCEPT !.step = step, !.kind = kind, !.user = user,
                                    !.old = old, !.request = request]
<1>1. /\ operation' = [operation EXCEPT ![a] = o]
      /\ operation[a].step = "idle"
      /\ UNCHANGED <<registry, issued, revoked, deleted, wallet, withdrawn, lost>>
  BY DEF BeginOperation
<1>2. old \in Numbers \cup {NoCertificate}
  BY DEF EnrollInv, EnrollTypes
<1>3. NoOperation \in OperationsOver(Numbers)
  BY DEF NoOperation, OperationsOver, Steps, AttributeSets
<1>4. step \in Steps /\ kind \in {"registerAndEnroll", "enroll", "revoke", "update"}
  BY DEF Steps
<1>5. /\ o \in OperationsOver(Numbers)
      /\ o.step = step /\ o.kind = kind /\ o.user = user /\ o.old = old
  BY <1>2, <1>3, <1>4 DEF OperationsOver
<1>6. o.new = NoCertificate
  BY <1>3 DEF NoOperation, OperationsOver
<1> HIDE DEF o
<1>7. operation' \in [Admins -> OperationsOver(Numbers)] /\ OnlyOf(a) /\ operation'[a] = o
  BY <1>1, <1>5 DEF EnrollInv, EnrollTypes, OnlyOf
<1>8. EnrollTypes'
  BY <1>1, <1>7, TypesKept DEF EnrollInv, EnrollTypes
<1> QED
  BY <1>1, <1>5, <1>6, <1>7, <1>8, BeginStep

LEMMA UnreachableKeeps ==
    ASSUME EnrollInv, NEW a \in Admins, Unreachable(a)
    PROVE  EnrollInv'
<1>1. PICK error \in Errors : Fails(a, error)
  <2>1. operation[a].kind = "revoke" => operation[a].step \in {"read", "revoke"}
    BY DEF EnrollInv, StepsOfUpdate, Unreachable
  <2>2. {ParseError("other"), "NotFoundError", "InternalError"} \subseteq Errors
    BY ErrorsOfRefusals DEF Errors
  <2> QED
    BY <2>1, <2>2 DEF Unreachable
<1>2. /\ operation' \in [Admins -> OperationsOver(Numbers)]
      /\ OnlyOf(a) /\ operation'[a].step = "idle"
  BY <1>1, FailsEffect DEF EnrollInv, EnrollTypes, OnlyOf
<1>3. UNCHANGED <<registry, issued, revoked, deleted, wallet, withdrawn, lost>>
  BY DEF Unreachable
<1>4. EnrollTypes'
  BY <1>2, <1>3, TypesKept DEF EnrollInv, EnrollTypes
<1> QED
  BY <1>2, <1>3, <1>4, EndsStep DEF CertificatesGrow, Numbers

\* An operation of a ends with an error and only the registry may have changed.
LEMMA FailsKeeps ==
    ASSUME EnrollInv, NEW a \in Admins, NEW error \in Errors, Fails(a, error),
           registry' \in [Users -> AttributeSets],
           UNCHANGED <<issued, revoked, deleted, wallet, withdrawn, lost>>
    PROVE  EnrollInv'
<1>1. /\ operation' \in [Admins -> OperationsOver(Numbers)]
      /\ OnlyOf(a) /\ operation'[a].step = "idle"
  BY FailsEffect DEF EnrollInv, EnrollTypes, OnlyOf
<1>2. EnrollTypes'
  BY <1>1, TypesKept DEF EnrollInv
<1> QED
  BY <1>1, <1>2, EndsStep DEF CertificatesGrow, Numbers

\* It goes on with the next step instead.
LEMMA GoesKeeps ==
    ASSUME EnrollInv, NEW a \in Admins, NEW step \in Steps, Goes(a, step),
           registry' \in [Users -> AttributeSets],
           UNCHANGED <<issued, revoked, deleted, wallet, withdrawn, lost>>,
           \/ operation[a].step = "register" /\ step = "enroll"
           \/ operation[a].step = "modify" /\ step = "reenroll"
           \/ operation[a].step = "read" /\ step = "revoke"
    PROVE  EnrollInv'
<1>1. /\ operation' \in [Admins -> OperationsOver(Numbers)]
      /\ OnlyOf(a)
      /\ operation'[a].step = step
      /\ operation'[a].old = operation[a].old
      /\ operation'[a].new = operation[a].new
      /\ operation'[a].user = operation[a].user
      /\ operation'[a].kind = operation[a].kind
  BY GoesEffect DEF EnrollInv, EnrollTypes, OnlyOf
<1>2. EnrollTypes'
  BY <1>1, TypesKept DEF EnrollInv
<1> QED
  BY <1>1, <1>2, MovesStep

\* What the invariant says of the operation that takes a step.
LEMMA OperationOf ==
    ASSUME EnrollInv, NEW a \in Admins, operation[a].step # "idle"
    PROVE  /\ operation[a] \in OperationsOver(Numbers)
           /\ operation[a].user \in Users
           /\ operation[a].request \in SUBSET Attributes
           /\ operation[a].names \in AttributeSets
           /\ registry[operation[a].user] \in AttributeSets
BY DEF EnrollInv, EnrollTypes, OwnCertificates, OperationsOver

LEMMA RegisterKeeps == ASSUME EnrollInv, NEW a \in Admins, Register(a) PROVE EnrollInv'
<1> DEFINE o == operation[a]
<1>1. /\ o.step = "register"
      /\ UNCHANGED <<issued, revoked, deleted, wallet, withdrawn, lost>>
  BY DEF Register
<1>2. registry' \in [Users -> AttributeSets]
  BY <1>1, OperationOf DEF Register, EnrollInv, EnrollTypes, AttributeSets
<1>3. \/ Goes(a, "enroll")
      \/ \E error \in Errors : Fails(a, error)
  BY ErrorsOfRefusals DEF Register
<1> QED
  BY <1>1, <1>2, <1>3, GoesKeeps, FailsKeeps DEF Steps

LEMMA GetOneKeeps == ASSUME EnrollInv, NEW a \in Admins, GetOne(a) PROVE EnrollInv'
<1> DEFINE o == [operation[a] EXCEPT !.step = "modify", !.names = registry[operation[a].user]]
<1>1. /\ operation[a].step = "getOne"
      /\ operation' = [operation EXCEPT ![a] = o]
      /\ UNCHANGED <<registry, issued, revoked, deleted, wallet, withdrawn, lost>>
  BY DEF GetOne
<1>2. /\ o \in OperationsOver(Numbers)
      /\ o.step = "modify" /\ o.old = operation[a].old /\ o.new = operation[a].new
      /\ o.user = operation[a].user /\ o.kind = operation[a].kind
  BY <1>1, OperationOf DEF OperationsOver, Steps
<1> HIDE DEF o
<1>3. /\ operation' \in [Admins -> OperationsOver(Numbers)]
      /\ OnlyOf(a) /\ operation'[a] = o
  BY <1>1, <1>2 DEF EnrollInv, EnrollTypes, OnlyOf
<1>4. EnrollTypes'
  BY <1>1, <1>3, TypesKept DEF EnrollInv, EnrollTypes
<1> QED
  BY <1>1, <1>2, <1>3, <1>4, MovesStep

LEMMA ModifyKeeps == ASSUME EnrollInv, NEW a \in Admins, Modify(a) PROVE EnrollInv'
<1>1. /\ operation[a].step = "modify"
      /\ UNCHANGED <<issued, revoked, deleted, wallet, withdrawn, lost>>
      /\ registry' = [registry EXCEPT ![operation[a].user] = operation[a].request]
  BY DEF Modify
<1>2. registry' \in [Users -> AttributeSets]
  BY <1>1, OperationOf DEF EnrollInv, EnrollTypes, AttributeSets
<1>3. \/ Goes(a, "reenroll")
      \/ \E error \in Errors : Fails(a, error)
  BY ErrorsOfRefusals DEF Modify
<1> QED
  BY <1>1, <1>2, <1>3, GoesKeeps, FailsKeeps DEF Steps

LEMMA ReadKeeps == ASSUME EnrollInv, NEW a \in Admins, Read(a) PROVE EnrollInv'
<1>1. /\ operation[a].step = "read"
      /\ UNCHANGED <<registry, issued, revoked, deleted, wallet, withdrawn, lost>>
      /\ Goes(a, "revoke") \/ Fails(a, "NotFoundError")
  BY DEF Read
<1>2. registry' \in [Users -> AttributeSets]
  BY <1>1 DEF EnrollInv, EnrollTypes
<1> QED
  BY <1>1, <1>2, GoesKeeps, FailsKeeps DEF Steps, Errors

LEMMA EnrollKeeps == ASSUME EnrollInv, NEW a \in Admins, Enroll(a) PROVE EnrollInv'
<1> DEFINE user == operation[a].user
<1>1. /\ operation[a].step = "enroll"
      /\ UNCHANGED <<registry, revoked, deleted, withdrawn, lost>>
  BY DEF Enroll
<1>2. registry' \in [Users -> AttributeSets]
  BY <1>1 DEF EnrollInv, EnrollTypes
<1>3. CASE Fails(a, ParseError("unauthorized")) /\ UNCHANGED <<issued, wallet>>
  BY <1>1, <1>2, <1>3, ErrorsOfRefusals, FailsKeeps
<1>4. ASSUME Issue(user, registry[user]),
             \/ Goes(a, "idle") /\ Hand(user, NoCertificate, Len(issued'))
             \/ Fails(a, ParseError("other")) /\ UNCHANGED wallet
      PROVE  EnrollInv'
  <2> DEFINE new == Len(issued')
  <2>1. user \in Users /\ registry[user] \in AttributeSets
    BY <1>1, OperationOf
  <2>2. /\ issued' \in Seq(Certificates)
        /\ Numbers \subseteq Numbers'
        /\ new \in Numbers' \ Numbers
        /\ \A n \in Numbers : issued'[n] = issued[n]
        /\ issued'[new].user = user
    BY <1>4, <2>1, IssueEffect DEF EnrollInv, EnrollTypes
  <2>3. /\ operation' \in [Admins -> OperationsOver(Numbers)]
        /\ OnlyOf(a) /\ operation'[a].step = "idle"
    BY <1>4, GoesEffect, FailsEffect, ErrorsOfRefusals DEF EnrollInv, EnrollTypes, OnlyOf, Steps
  <2>4. operation' \in [Admins -> OperationsOver(Numbers')]
    BY <2>2, <2>3, MoreNumbers
  <2> HIDE DEF new
  <2>5. /\ wallet' \in [Users -> SUBSET Numbers']
        /\ \A u \in Users : \A n \in wallet'[u] : issued'[n].user = u
    <3>1. CASE Hand(user, NoCertificate, new)
      <4>1. /\ wallet' \in [Users -> SUBSET (Numbers \cup {new})]
            /\ wallet'[user] \subseteq wallet[user] \cup {new}
            /\ \A u \in Users \ {user} : wallet'[u] = wallet[u]
        BY <2>1, <3>1, WalletAfterHand DEF EnrollInv
      <4> QED
        BY <2>1, <2>2, <4>1 DEF EnrollInv, EnrollTypes
    <3>2. CASE UNCHANGED wallet
      BY <2>2, <3>2 DEF EnrollInv, EnrollTypes
    <3> QED
      BY <1>4, <3>1, <3>2 DEF new
  <2>6. EnrollTypes'
    BY <1>1, <1>2, <2>2, <2>4, <2>5 DEF EnrollInv, EnrollTypes
  <2>7. CertificatesGrow
    BY <2>2 DEF CertificatesGrow
  <2>8. CASE Hand(user, NoCertificate, new)
    BY <1>1, <2>1, <2>2, <2>3, <2>6, <2>7, <2>8, EnrolledStep
  <2>9. CASE UNCHANGED wallet
    BY <1>1, <2>3, <2>6, <2>7, <2>9, EndsStep
  <2> QED
    BY <1>4, <2>8, <2>9 DEF new
<1> QED
  BY <1>3, <1>4 DEF Enroll

LEMMA ReenrollKeeps == ASSUME EnrollInv, NEW a \in Admins, Reenroll(a) PROVE EnrollInv'
<1> DEFINE o == operation[a]
           new == Len(issued')
<1>1. /\ o.step = "reenroll"
      /\ UNCHANGED <<registry, revoked, deleted, wallet, withdrawn, lost>>
  BY DEF Reenroll
<1>2. registry' \in [Users -> AttributeSets]
  BY <1>1 DEF EnrollInv, EnrollTypes
<1>3. CASE Fails(a, ParseError("unauthorized")) /\ UNCHANGED issued
  BY <1>1, <1>2, <1>3, ErrorsOfRefusals, FailsKeeps
<1>4. ASSUME Issue(o.user, o.names),
             \/ operation' = [operation EXCEPT ![a].step = "read", ![a].new = new]
             \/ Fails(a, ParseError("other"))
      PROVE  EnrollInv'
  <2>1. o.user \in Users /\ o.names \in AttributeSets
    BY <1>1, OperationOf
  <2>2. /\ issued' \in Seq(Certificates)
        /\ Numbers \subseteq Numbers'
        /\ new \in Numbers' \ Numbers
        /\ \A n \in Numbers : issued'[n] = issued[n]
        /\ issued'[new].user = o.user
    BY <1>4, <2>1, IssueEffect DEF EnrollInv, EnrollTypes
  <2>3. CertificatesGrow
    BY <2>2 DEF CertificatesGrow
  <2>4. operation \in [Admins -> OperationsOver(Numbers')]
    BY <2>2, MoreNumbers DEF EnrollInv, EnrollTypes
  <2>5. ASSUME operation' \in [Admins -> OperationsOver(Numbers')]
        PROVE  EnrollTypes'
    BY <1>1, <1>2, <2>2, <2>5 DEF EnrollInv, EnrollTypes
  <2> HIDE DEF new
  <2>6. CASE Fails(a, ParseError("other"))
    <3>1. /\ operation' \in [Admins -> OperationsOver(Numbers')]
          /\ OnlyOf(a) /\ operation'[a].step = "idle"
      BY <2>4, <2>6, FailsEffect, ErrorsOfRefusals DEF OnlyOf
    <3> QED
      BY <1>1, <2>3, <2>5, <3>1, EndsStep
  <2>7. CASE operation' = [operation EXCEPT ![a].step = "read", ![a].new = new]
    <3> DEFINE p == [o EXCEPT !.step = "read", !.new = new]
    <3>1. operation' = [operation EXCEPT ![a] = p]
      BY <2>7
    <3>2. /\ p \in OperationsOver(Numbers')
          /\ p.step = "read" /\ p.new = new /\ p.old = o.old
          /\ p.user = o.user /\ p.kind = o.kind
      <4>1. o \in OperationsOver(Numbers') /\ new \in Numbers'
        BY <2>2, <2>4
      <4> HIDE DEF o
      <4>2. PICK q : q = [o EXCEPT !.step = "read"]
        OBVIOUS
      <4>3. /\ q \in OperationsOver(Numbers')
            /\ q.step = "read" /\ q.old = o.old /\ q.user = o.user /\ q.kind = o.kind
        BY ONLY <4>1, <4>2 DEF OperationsOver, Steps
      <4>4. p = [q EXCEPT !.new = new]
        BY ONLY <4>1, <4>2 DEF p, OperationsOver
      <4> HIDE DEF p
      <4>5. /\ p \in OperationsOver(Numbers')
            /\ p.step = q.step /\ p.new = new /\ p.old = q.old
            /\ p.user = q.user /\ p.kind = q.kind
        BY ONLY <4>1, <4>3, <4>4 DEF OperationsOver
      <4> QED
        BY ONLY <4>3, <4>5
    <3> HIDE DEF p
    <3>3. /\ operation' \in [Admins -> OperationsOver(Numbers')]
          /\ OnlyOf(a) /\ operation'[a] = p
      BY <2>4, <3>1, <3>2 DEF OnlyOf
    <3> QED
      BY <1>1, <2>2, <2>3, <2>5, <3>2, <3>3, RenewedStep
  <2> QED
    BY <1>4, <2>6, <2>7 DEF new
<1> QED
  BY <1>3, <1>4 DEF Reenroll

LEMMA RevokeKeeps == ASSUME EnrollInv, NEW a \in Admins, Revoke(a) PROVE EnrollInv'
<1> DEFINE o == operation[a]
<1>1. /\ o.step = "revoke" /\ o.user \in Users
      /\ UNCHANGED <<registry, issued>>
      /\ o.old \in Numbers \cup {NoCertificate}
      /\ o.new \in Numbers \cup {NoCertificate}
      /\ {ParseError("other"), "InternalError"} \subseteq Errors
  BY OperationOf, ErrorsOfRefusals DEF Revoke, OperationsOver, Errors
<1>2. /\ operation' \in [Admins -> OperationsOver(Numbers)]
      /\ OnlyOf(a) /\ operation'[a].step = "idle"
  <2>1. Goes(a, "idle") \/ \E error \in Errors : Fails(a, error)
    BY <1>1 DEF Revoke, RevocationError
  <2> QED
    BY <2>1, GoesEffect, FailsEffect DEF EnrollInv, EnrollTypes, OnlyOf, Steps
<1>3. operation' \in [Admins -> OperationsOver(Numbers')]
  BY <1>1, <1>2 DEF Numbers
<1>4. CASE UNCHANGED <<revoked, deleted, wallet, withdrawn, lost>>
  <2>1. EnrollTypes'
    BY <1>1, <1>3, <1>4 DEF EnrollInv, EnrollTypes, Numbers
  <2> QED
    BY <1>1, <1>2, <1>4, <2>1, EndsStep DEF CertificatesGrow, Numbers
<1>5. ASSUME o.old = NoCertificate, revoked' = revoked, deleted' = deleted \cup {o.user},
             UNCHANGED <<wallet, withdrawn, lost>>
      PROVE  EnrollInv'
  <2>1. EnrollTypes'
    BY <1>1, <1>3, <1>5 DEF EnrollInv, EnrollTypes, Numbers
  <2> QED
    BY <1>1, <1>2, <1>5, <2>1, RevokedWholeStep
<1>6. ASSUME o.old # NoCertificate, o.kind = "update",
             revoked' = revoked \cup {o.old}, UNCHANGED <<deleted, withdrawn>>,
             \/ Hand(o.user, o.old, o.new) /\ UNCHANGED lost
             \/ lost' = lost \cup {o.old} /\ UNCHANGED wallet
      PROVE  EnrollInv'
  <2>1. o.new \in Numbers /\ issued[o.new].user = o.user
    BY <1>1, <1>6 DEF EnrollInv, StepsOfUpdate, OwnCertificates
  <2>2. /\ wallet' \in [Users -> SUBSET Numbers]
        /\ \A u \in Users : \A n \in wallet'[u] : issued[n].user = u
    <3>1. CASE Hand(o.user, o.old, o.new)
      <4>1. /\ wallet' \in [Users -> SUBSET (Numbers \cup {o.new})]
            /\ wallet'[o.user] \subseteq wallet[o.user] \cup {o.new}
            /\ \A u \in Users \ {o.user} : wallet'[u] = wallet[u]
        BY <1>1, <3>1, WalletAfterHand DEF EnrollInv
      <4> QED
        BY <1>1, <2>1, <4>1 DEF EnrollInv, EnrollTypes
    <3>2. CASE UNCHANGED wallet
      BY <3>2 DEF EnrollInv, EnrollTypes
    <3> QED
      BY <1>6, <3>1, <3>2
  <2>3. EnrollTypes'
    BY <1>1, <1>3, <1>6, <2>2 DEF EnrollInv, EnrollTypes, Numbers
  <2> QED
    BY <1>1, <1>2, <1>6, <2>3, RevokedStep
<1>7. ASSUME o.old # NoCertificate, revoked' = revoked \cup {o.old},
             withdrawn' = withdrawn \cup {o.old}, UNCHANGED <<deleted, wallet, lost>>
      PROVE  EnrollInv'
  <2>1. EnrollTypes'
    BY <1>1, <1>3, <1>7 DEF EnrollInv, EnrollTypes, Numbers
  <2> QED
    BY <1>1, <1>2, <1>7, <2>1, WithdrawnStep
<1>8. o.kind = "update" => o.old # NoCertificate
  BY <1>1 DEF EnrollInv, StepsOfUpdate, Renewing
<1> QED
  BY <1>4, <1>5, <1>6, <1>7, <1>8 DEF Revoke, Target

\* The steps of an operation that has begun.
OperationStep(a) ==
    \/ Register(a) \/ Enroll(a) \/ GetOne(a) \/ Modify(a) \/ Reenroll(a)
    \/ Read(a) \/ Revoke(a) \/ Unreachable(a)

LEMMA EnrollInvInductive == EnrollInv /\ [EnrollNext]_enrollVars => EnrollInv'
<1> SUFFICES ASSUME EnrollInv, [EnrollNext]_enrollVars PROVE EnrollInv'
  OBVIOUS
<1>1. CASE UNCHANGED enrollVars
  <2>1. /\ EnrollTypes' /\ OwnCertificates' /\ StepsOfUpdate'
        /\ \A a \in Admins : (Fresh(a)' <=> Fresh(a)) /\ (Renewing(a)' <=> Renewing(a))
    BY <1>1 DEF enrollVars, EnrollInv, EnrollTypes, Numbers, OwnCertificates, StepsOfUpdate,
                Fresh, Renewing
  <2> QED
    BY <1>1, <2>1 DEF enrollVars, EnrollInv, FreshIsUnknown, WalletIsValid
<1>2. ASSUME NEW a \in Admins, NEW user \in Users, NEW attrs \in SUBSET Attributes,
             RegisterAndEnroll(a, user, attrs)
      PROVE  EnrollInv'
  BY <1>2, BeginKeeps DEF RegisterAndEnroll
<1>3. ASSUME NEW a \in Admins, NEW user \in Users, NEW attrs \in SUBSET Attributes,
             NEW old \in wallet[user], UpdateIdentity(a, user, old, attrs)
      PROVE  EnrollInv'
  BY <1>3, BeginKeeps DEF UpdateIdentity
<1>4. ASSUME NEW a \in Admins, NEW user \in Users, EnrollOnly(a, user)
      PROVE  EnrollInv'
  BY <1>4, BeginKeeps DEF EnrollOnly
<1>5. ASSUME NEW a \in Admins, NEW user \in Users, RevokeIdentity(a, user)
      PROVE  EnrollInv'
  <2>1. NoCertificate \notin Numbers
    BY EnrollmentAssumption DEF EnrollInv, EnrollTypes, Numbers
  <2> QED
    BY <1>5, <2>1, BeginKeeps DEF RevokeIdentity
<1>6. ASSUME NEW a \in Admins, NEW n \in DOMAIN issued, RevokeCertificate(a, n)
      PROVE  EnrollInv'
  <2>1. issued[n].user \in Users
    <3>1. issued \in Seq(Certificates)
      BY DEF EnrollInv, EnrollTypes
    <3>2. issued[n] \in Certificates
      BY ONLY <3>1
    <3> QED
      BY ONLY <3>2 DEF Certificates
  <2> QED
    BY <1>6, <2>1, BeginKeeps DEF RevokeCertificate, Numbers
<1>7. ASSUME NEW a \in Admins, OperationStep(a)
      PROVE  EnrollInv'
  BY <1>7, RegisterKeeps, EnrollKeeps, GetOneKeeps, ModifyKeeps, ReenrollKeeps,
     ReadKeeps, RevokeKeeps, UnreachableKeeps DEF OperationStep
<1> QED
  BY <1>1, <1>2, <1>3, <1>4, <1>5, <1>6, <1>7 DEF EnrollNext, OperationStep

LEMMA EnrollInvInit == EnrollInit => EnrollInv
<1> SUFFICES ASSUME EnrollInit PROVE EnrollInv
  OBVIOUS
<1>1. NoOperation \in OperationsOver(Numbers)
  BY DEF NoOperation, OperationsOver, Steps, AttributeSets
<1>2. EnrollTypes
  BY <1>1 DEF EnrollInit, EnrollTypes, AttributeSets, Numbers
<1>3. \A a \in Admins : operation[a].step = "idle" /\ operation[a].kind = "none"
  BY DEF EnrollInit, NoOperation
<1>4. OwnCertificates /\ StepsOfUpdate /\ FreshIsUnknown /\ WalletIsValid
  BY <1>3 DEF EnrollInit, OwnCertificates, StepsOfUpdate, Renewing, Fresh, FreshIsUnknown,
              WalletIsValid
<1> QED
  BY <1>2, <1>4 DEF EnrollInv

LEMMA EnrollInvCorrect == EnrollSpec => []EnrollInv
BY EnrollInvInit, EnrollInvInductive, PTL DEF EnrollSpec

-----------------------------------------------------------------------------
\* A wallet holds certificates of its user that were issued, and only issued
\* ones are revoked.
THEOREM EnrollmentTypes == EnrollSpec => []EnrollTypeOK
<1>1. EnrollInv => EnrollTypeOK
  BY DEF EnrollInv, EnrollTypes, EnrollTypeOK, AttributeSets, Numbers
<1> QED
  BY <1>1, EnrollInvCorrect, PTL

\* Whatever becomes of renewals, and of any number at the same time, what a user
\* was given he can use: a failed request costs him at most the certificate whose
\* replacement was revoked without an answer, and that one it does cost him.
THEOREM NobodyLockedOut == EnrollSpec => []NeverLockedOut
<1>1. EnrollInv => NeverLockedOut
  <2> SUFFICES ASSUME EnrollInv, NEW user \in Users, user \notin deleted,
                      NEW n \in wallet[user] \ (withdrawn \cup lost)
               PROVE  Valid(n)
    BY DEF NeverLockedOut
  <2>1. n \notin revoked
    BY DEF EnrollInv, WalletIsValid
  <2>2. issued[n].user = user
    BY DEF EnrollInv, EnrollTypes
  <2> QED
    BY <2>1, <2>2 DEF Valid
<1> QED
  BY <1>1, EnrollInvCorrect, PTL

\* What leaves a wallet has been revoked by then.
LEMMA OnlyReplacedLeave ==
    ASSUME EnrollInv, [EnrollNext]_enrollVars, NEW user \in Users
    PROVE  wallet[user] \ wallet'[user] \subseteq revoked'
<1>1. CASE UNCHANGED wallet
  BY <1>1
<1>2. ASSUME NEW a \in Admins, Enroll(a), ~UNCHANGED wallet
      PROVE  wallet[user] \ wallet'[user] \subseteq revoked'
  <2>1. /\ Hand(operation[a].user, NoCertificate, Len(issued'))
        /\ operation[a].user \in Users
    BY <1>2, OperationOf DEF Enroll
  <2>2. NoCertificate \notin wallet[user]
    BY EnrollmentAssumption DEF EnrollInv, EnrollTypes, Numbers
  <2> QED
    BY <2>1, <2>2, WalletAfterHand DEF EnrollInv
<1>3. ASSUME NEW a \in Admins, Revoke(a), ~UNCHANGED wallet
      PROVE  wallet[user] \ wallet'[user] \subseteq revoked'
  <2>1. /\ Hand(operation[a].user, operation[a].old, operation[a].new)
        /\ operation[a].old \in revoked'
        /\ operation[a].user \in Users
    <3>1. operation[a].kind = "update" => operation[a].old # NoCertificate
      BY <1>3 DEF Revoke, EnrollInv, StepsOfUpdate, Renewing
    <3>2. operation[a].user \in Users
      <4>1. operation[a].step # "idle"
        BY ONLY <1>3 DEF Revoke
      <4> QED
        BY <4>1, OperationOf
    <3> QED
      BY <1>3, <3>1, <3>2 DEF Revoke, Target
  <2> QED
    BY <2>1, WalletAfterHand DEF EnrollInv
<1>4. UNCHANGED wallet \/ \E a \in Admins : Enroll(a) \/ Revoke(a)
  BY Zenon
  DEF enrollVars, EnrollNext, RegisterAndEnroll, UpdateIdentity, EnrollOnly, RevokeIdentity,
      RevokeCertificate, BeginOperation, Register, GetOne, Modify, Reenroll, Read, Unreachable
<1> QED
  BY <1>1, <1>2, <1>3, <1>4

\* A certificate that is replaced in an update is revoked by then.
THEOREM ReplacedAreRevoked == EnrollSpec => ReplacedIsRevoked
<1>1. EnrollInv /\ [EnrollNext]_enrollVars =>
         [\A user \in Users : wallet[user] \ wallet'[user] \subseteq revoked']_enrollVars
  BY OnlyReplacedLeave
<1> QED
  BY <1>1, EnrollInvCorrect, PTL DEF EnrollSpec, ReplacedIsRevoked

-----------------------------------------------------------------------------
\* The two together.

LEMMA EitherTool == Spec => DeploySpec /\ EnrollSpec
<1>1. Init => DeployInit /\ EnrollInit
  BY DEF Init
<1>2. [Next]_vars => [DeployNext]_deployVars /\ [EnrollNext]_enrollVars
  BY DEF Next, vars
<1> QED
  BY <1>1, <1>2, PTL DEF Spec, DeploySpec, EnrollSpec

\* Whichever of the two tools an operator runs, the tracker, the lifecycle, the
\* CA and the wallets keep to their types: nothing is approved that is not
\* installed, and no wallet holds another user's certificate.
THEOREM AdministrationTypes == Spec => []TypeOK
BY EitherTool, DeploymentTypes, EnrollmentTypes, PTL DEF TypeOK
===============================================================================
