---------------------------- MODULE Shutdown_proofs ----------------------------
(***************************************************************************)
(* Proofs about Shutdown, for every value of its constants.                *)
(*                                                                         *)
(* The invariant Inv of the request path is kept by every step until the   *)
(* process has ended: most steps are steps of BlockingPool, and those of   *)
(* the dropped runtime are the two it does not know, a task cancelled and  *)
(* a task refused.  What is left in the pool at the end then follows from  *)
(* the queue being the set of the tasks that are queued.                   *)
(***************************************************************************)
EXTENDS Shutdown, BlockingPool_proofs

\* What main knows of the connections and of the pool.
ProcessInv ==
    /\ process \in ProcessStates
    /\ reading \in SUBSET Requests
    /\ process \in {"dropping", "exited"} => Open = {}
    /\ process = "exited" => queue = <<>> /\ RunningClosures = {} /\ RunningLeaves = {}

SInv == Inv /\ ProcessInv

-----------------------------------------------------------------------------
(* Steps of the request path *)

\* The steps of Shutdown that BlockingPool has too.
LEMMA PoolSteps ==
    ASSUME \/ Serve \/ ReceiveSignal \/ Drain \/ Drained \/ RunQueue \/ Exit
           \/ \E r \in Requests : FinishHead(r) \/ LeaveHead(r) \/ RunOn(r)
    PROVE  [Next]_vars
<1>1. CASE Serve \/ Drain
  BY <1>1 DEF Serve, Drain, Within
<1>2. CASE ReceiveSignal \/ Drained \/ Exit
  BY <1>2 DEF ReceiveSignal, Drained, Exit
<1>3. CASE RunQueue
  BY <1>3 DEF RunQueue, Within, Next
<1>4. ASSUME NEW r \in Requests, FinishHead(r) PROVE Next
  <2>1. PICK k \in Kinds : Arrive(r, k)
    BY <1>4 DEF FinishHead
  <2> QED
    BY <2>1 DEF Next, Outside
<1>5. ASSUME NEW r \in Requests, LeaveHead(r) PROVE UNCHANGED vars
  BY <1>5 DEF LeaveHead
<1>6. ASSUME NEW r \in Requests, RunOn(r) PROVE Next
  BY <1>6 DEF RunOn, Within, Next
<1> QED
  BY <1>1, <1>2, <1>3, <1>4, <1>5, <1>6

-----------------------------------------------------------------------------
(* Steps that only a dropped runtime takes *)

\* A cancelled task leaves the queue, and whoever waits for it is told.
LEMMA CancelStep == Inv /\ CancelTask => Inv'
<1> SUFFICES ASSUME Inv, CancelTask PROVE Inv'
  OBVIOUS
<1> USE DEF Inv, CancelTask
<1>1. /\ Head(queue).req \in Requests
      /\ Head(queue).task = "closure" => closure[Head(queue).req] = "queued"
      /\ Head(queue).task = "leaf" => leaf[Head(queue).req] = "queued"
  BY HeadIsQueued
<1>2. queue' \in Seq(Tasks)
  BY DEF TypeOK
<1>3. TypeOK'
  BY <1>1, <1>2 DEF TypeOK
<1>4. PermitAccounting'
  BY DEF PermitAccounting, Waiting
<1>5. Control' /\ LeavesHaveOwners'
  BY <1>1 DEF TypeOK, Control, LeavesHaveOwners, LeafIsAwaited, AwaitingLeaf
<1>6. QueueMatchesTasks'
  <2>1. Head(queue) \in Queued
    BY TailToSet DEF QueueMatchesTasks, TypeOK
  <2>2. QueueTakes
    BY <1>1, <2>1 DEF QueueTakes, Queued, Tasks, TypeOK
  <2> QED
    BY <2>2, TailToSet DEF QueueTakes, QueueMatchesTasks, TypeOK
<1>7. AbandonedBounded'
  <2>1. Abandoned' \subseteq Abandoned
    BY <1>1 DEF Abandoned, LiveClosures, TypeOK
  <2>2. Cardinality(Abandoned') \in Nat /\ Cardinality(Abandoned') <= Cardinality(Abandoned)
    BY <2>1, FiniteParts, FS_Subset, FS_CardinalityType
  <2> QED
    BY <2>2, FiniteParts, PoolAssumption DEF AbandonedBounded
<1> QED
  BY <1>3, <1>4, <1>5, <1>6, <1>7

\* A refused task is never queued: its closure has the error at once.
LEMMA RefuseStep == ASSUME Inv, NEW r \in Requests, RefuseLeaf(r) PROVE Inv'
<1> USE DEF Inv, RefuseLeaf, GoTo
<1>1. leaf[r] = "none"
  BY DEF Control, TypeOK
<1>2. TypeOK'
  BY DEF TypeOK, RunningStages
<1>3. PermitAccounting'
  BY DEF PermitAccounting, Waiting
<1>4. Control' /\ LeavesHaveOwners'
  BY DEF TypeOK, Control, LeavesHaveOwners, LeafIsAwaited, AwaitingLeaf
<1>5. QueueMatchesTasks'
  <2>1. QueueStays
    BY <1>1 DEF QueueStays, Queued, Tasks, TypeOK
  <2> QED
    BY <2>1 DEF QueueStays, QueueMatchesTasks, IsInjective
<1>6. AbandonedBounded'
  <2>1. Abandoned' = Abandoned
    BY DEF Abandoned, LiveClosures, TypeOK
  <2> QED
    BY <2>1 DEF AbandonedBounded
<1> QED
  BY <1>2, <1>3, <1>4, <1>5, <1>6

LEMMA PathStep == Inv /\ [SNext]_svars => Inv'
<1> SUFFICES ASSUME Inv, [SNext]_svars PROVE Inv'
  OBVIOUS
<1>1. CASE CancelTask
  BY <1>1, CancelStep
<1>2. ASSUME NEW r \in Requests, RefuseLeaf(r) PROVE Inv'
  BY <1>2, RefuseStep
<1>3. CASE [Next]_vars
  BY <1>3, NextInv
<1>4. CASE UNCHANGED svars
  BY <1>4, <1>3 DEF svars
<1> QED
  BY <1>1, <1>2, <1>3, <1>4, PoolSteps DEF SNext

-----------------------------------------------------------------------------
(* The process *)

\* No connection opens where none is.
LEMMA NoneOpens ==
    ASSUME Open = {}, reading' = reading,
           \A r \in Requests : client'[r] \in {"received", "waiting", "streaming"} =>
                                   client[r] \in {"received", "waiting", "streaming"}
    PROVE  Open' = {}
BY DEF Open

LEMMA NobodyBusy ==
    ASSUME BusyThreads = 0
    PROVE  RunningClosures = {} /\ RunningLeaves = {}
<1>1. RunningClosures \in SUBSET Requests /\ RunningLeaves \in SUBSET Requests
  BY DEF RunningClosures, RunningLeaves
<1>2. IsFiniteSet(RunningClosures) /\ IsFiniteSet(RunningLeaves)
  BY <1>1, PoolAssumption, FS_Subset
<1>3. Cardinality(RunningClosures) \in Nat /\ Cardinality(RunningLeaves) \in Nat
  BY <1>2, FS_CardinalityType
<1>4. Cardinality(RunningClosures) = 0 /\ Cardinality(RunningLeaves) = 0
  BY <1>3 DEF BusyThreads
<1> QED
  BY <1>2, <1>4, FS_EmptySet

LEMMA ProcessStep == SInv /\ [SNext]_svars => ProcessInv'
<1> SUFFICES ASSUME SInv, [SNext]_svars PROVE ProcessInv'
  OBVIOUS
<1> USE DEF SInv, ProcessInv, ProcessStates
<1>1. CASE Serve \/ Drain
  BY <1>1 DEF Serve, Drain, Within
<1>2. CASE ReceiveSignal
  BY <1>2 DEF ReceiveSignal
<1>3. ASSUME NEW r \in Requests, FinishHead(r) \/ LeaveHead(r) PROVE ProcessInv'
  BY <1>3 DEF FinishHead, LeaveHead
<1>4. CASE Drained
  BY <1>4 DEF Drained, Open, vars
<1>5. CASE CancelTask
  <2>1. Open' = {}
    BY <1>5, NoneOpens DEF CancelTask
  <2> QED
    BY <1>5, <2>1 DEF CancelTask
<1>6. CASE RunQueue
  <2>1. client' = client /\ reading' = reading /\ process' = process /\ process = "dropping"
    BY <1>6 DEF RunQueue, Within, StartTask, EndLeaf
  <2>2. Open' = {}
    BY <2>1, NoneOpens
  <2> QED
    BY <2>1, <2>2
<1>7. ASSUME NEW r \in Requests, RefuseLeaf(r) PROVE ProcessInv'
  <2>1. client' = client /\ reading' = reading /\ process' = process /\ process = "dropping"
    BY <1>7 DEF RefuseLeaf
  <2>2. Open' = {}
    BY <2>1, NoneOpens
  <2> QED
    BY <2>1, <2>2
<1>8. ASSUME NEW r \in Requests, RunOn(r) PROVE ProcessInv'
  <2>1. client' = client /\ reading' = reading /\ process' = process /\ process = "dropping"
    BY <1>8
       DEF RunOn, Within, ClosureStep, Probe, ServeFile, MissFile, AnswerEarly, CountHit,
           RenderPage, VerifyCaptcha, Resolved, Verdict, VerifyTimeout, Panic
  <2>2. Open' = {}
    BY <2>1, NoneOpens
  <2> QED
    BY <2>1, <2>2
<1>9. CASE Exit
  <2>1. RunningClosures = {} /\ RunningLeaves = {}
    BY <1>9, NobodyBusy DEF Exit
  <2> QED
    BY <1>9, <2>1 DEF Exit, Open, RunningClosures, RunningLeaves, vars
<1>10. CASE UNCHANGED svars
  BY <1>10 DEF svars, vars, Open, RunningClosures, RunningLeaves
<1> QED
  BY <1>1, <1>2, <1>3, <1>4, <1>5, <1>6, <1>7, <1>8, <1>9, <1>10 DEF SNext

\* The request path keeps its invariant until the process has ended.
THEOREM PathSurvivesShutdown == SSafeSpec => []SInv
<1>1. SInit => SInv
  BY InitInv DEF SInit, SInv, ProcessInv, ProcessStates
<1>2. SInv /\ [SNext]_svars => SInv'
  BY PathStep, ProcessStep DEF SInv
<1> QED
  BY <1>1, <1>2, PTL DEF SSafeSpec

-----------------------------------------------------------------------------
(* What the invariant gives *)

\* Permits are accounted for, and queue and tasks agree, while the process is
\* being shut down as before.
THEOREM PermitsSurviveShutdown == SSafeSpec => [](PermitAccounting /\ QueueMatchesTasks)
<1>1. SInv => PermitAccounting /\ QueueMatchesTasks
  BY DEF SInv, Inv
<1> QED
  BY <1>1, PathSurvivesShutdown, PTL

\* Main returns with no connection open and no task in the pool.
THEOREM ExitIsGraceful == SSafeSpec => []GracefulExit
<1>1. ASSUME SInv, process = "exited", NEW r \in Requests
      PROVE  closure[r] = "none" /\ leaf[r] \notin {"queued", "running"}
  <2>1. queue = <<>> /\ RunningClosures = {} /\ RunningLeaves = {} /\ TypeOK
    BY <1>1 DEF SInv, ProcessInv, Inv
  <2>2. Queued = {}
    <3>1. ToSet(queue) = {}
      BY <2>1 DEF ToSet
    <3> QED
      BY <1>1, <3>1 DEF SInv, Inv, QueueMatchesTasks
  <2>3. [task |-> "closure", req |-> r] \in Tasks /\ [task |-> "leaf", req |-> r] \in Tasks
    BY DEF Tasks
  <2>4. closure[r] # "queued" /\ leaf[r] # "queued"
    BY <2>2, <2>3 DEF Queued
  <2> QED
    BY <2>1, <2>4 DEF RunningClosures, RunningLeaves, TypeOK
<1>2. SInv => GracefulExit
  BY <1>1 DEF GracefulExit, SInv, ProcessInv
<1> QED
  BY <1>2, PathSurvivesShutdown, PTL

\* The safety half of the admission contract holds to the end.
THEOREM AdmissionSurvivesShutdown == SSafeSpec => Admitted!ASafeSpec
<1>1. SInit => Admitted!AInit
  BY AdmissionInit DEF SInit
<1>2. SInv /\ [SNext]_svars => [Admitted!ANext]_Admitted!avars
  <2> SUFFICES ASSUME SInv, [SNext]_svars PROVE [Admitted!ANext]_Admitted!avars
    OBVIOUS
  <2>1. CASE [Next]_vars
    BY <2>1, AdmissionStep DEF SInv
  <2>2. CASE client' = client
    BY <2>2 DEF Admitted!avars, Waiting
  <2>3. CancelTask => client' = client
    BY DEF CancelTask
  <2>4. \A r \in Requests : RefuseLeaf(r) => client' = client
    BY DEF RefuseLeaf
  <2>5. UNCHANGED svars => client' = client
    BY DEF svars, vars
  <2> QED
    BY <2>1, <2>2, <2>3, <2>4, <2>5, PoolSteps DEF SNext
<1> QED
  BY <1>1, <1>2, PathSurvivesShutdown, PTL DEF SSafeSpec, Admitted!ASafeSpec
===============================================================================
