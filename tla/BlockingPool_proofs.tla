-------------------------- MODULE BlockingPool_proofs --------------------------
(***************************************************************************)
(* Proofs about BlockingPool, for every value of its constants.            *)
(*                                                                         *)
(* The inductive invariant is Inv.  Its centre is PermitAccounting and     *)
(* AbandonedBounded: every live closure belongs to a request that waits,   *)
(* and holds a permit, or to one whose client has left.  That answering a  *)
(* request does not make its closure an abandoned one needs Control (a     *)
(* reply is there only after its closure ended), and Control is kept only  *)
(* because the queue holds what is queued and nothing else.                *)
(***************************************************************************)
EXTENDS BlockingPool, FiniteSetTheorems, TLAPS

\* How the parts of one request go together.
Control ==
    \A r \in Requests :
        /\ reply[r] # "none" => client[r] = "waiting" /\ closure[r] = "none"
        /\ client[r] = "received" => closure[r] = "none" /\ leaf[r] = "none"
        /\ client[r] = "streaming" => closure[r] = "none"
        /\ leaf[r] # "none" => closure[r] \in {"none", "probing", "resolving"}

AbandonedBounded == Cardinality(Abandoned) <= MaxAbandoned

Inv ==
    /\ TypeOK
    /\ PermitAccounting
    /\ Control
    /\ LeavesHaveOwners
    /\ QueueMatchesTasks
    /\ AbandonedBounded

-----------------------------------------------------------------------------

\* What may happen to the set of waiting requests and the permits in a step.
PermitStep ==
    \/ Waiting' = Waiting /\ permits' = permits
    \/ \E r \in Requests \ Waiting :
          Waiting' = Waiting \cup {r} /\ permits > 0 /\ permits' = permits - 1
    \/ \E r \in Waiting : Waiting' = Waiting \ {r} /\ permits' = permits + 1

LEMMA FiniteParts ==
    /\ IsFiniteSet(Waiting) /\ Cardinality(Waiting) \in Nat
    /\ IsFiniteSet(LiveClosures) /\ Cardinality(LiveClosures) \in Nat
    /\ IsFiniteSet(Abandoned) /\ Cardinality(Abandoned) \in Nat
<1>1. IsFiniteSet(Requests)
  BY PoolAssumption
<1>2. /\ Waiting \in SUBSET Requests
      /\ LiveClosures \in SUBSET Requests
      /\ Abandoned \in SUBSET Requests
  BY DEF Waiting, LiveClosures, Abandoned
<1>3. QED
  BY <1>1, <1>2, FS_Subset, FS_CardinalityType

\* Initially the variables have their types.
LEMMA InitTypes == Init => TypeOK
<1> SUFFICES ASSUME Init PROVE TypeOK
  OBVIOUS
<1>1. queue \in Seq(Tasks)
  BY DEF Init
<1>2. permits \in 0..MaxConcurrentRequests
  BY PoolAssumption DEF Init
<1>3. QED
  BY <1>1, <1>2 DEF Init, TypeOK, ClientStates, Kinds, RunningStages

\* The types of the variables that are one value per request.
Shapes ==
    /\ client \in [Requests -> ClientStates]
    /\ kind \in [Requests -> Kinds]
    /\ closure \in [Requests -> RunningStages \cup {"none", "queued"}]
    /\ leaf \in [Requests -> {"none", "queued", "running", "done"}]
    /\ reply \in [Requests -> {"none", "page", "file", "panic"}]

\* The per-request variables keep their types, action by action.
LEMMA ShapesStep == TypeOK /\ [Next]_vars => Shapes'
<1> SUFFICES ASSUME TypeOK, [Next]_vars PROVE Shapes'
  OBVIOUS
<1> USE DEF TypeOK, Shapes, ClientStates, Kinds, RunningStages
<1>1. CASE StartTask
  BY <1>1 DEF StartTask
<1>2. ASSUME NEW r \in Requests, Outside(r) PROVE Shapes'
  BY <1>2 DEF Outside, Arrive, RefuseBody, Admit, Shed, LeaveWhileWaiting, LeaveElsewhere
<1>3. ASSUME NEW r \in Requests, ClosureStep(r) PROVE Shapes'
  <2> USE DEF SubmitLeaf, GoTo, Finish
  <2>1. CASE Probe(r) \/ ServeFile(r) \/ MissFile(r)
    BY <2>1 DEF Probe, ServeFile, MissFile
  <2>2. CASE AnswerEarly(r) \/ CountHit(r) \/ RenderPage(r)
    BY <2>2 DEF AnswerEarly, CountHit, RenderPage
  <2>3. CASE VerifyCaptcha(r) \/ Resolved(r)
    BY <2>3 DEF VerifyCaptcha, Resolved
  <2>4. CASE Verdict(r) \/ VerifyTimeout(r) \/ Panic(r)
    BY <2>4 DEF Verdict, VerifyTimeout, Panic
  <2>5. QED
    BY <1>3, <2>1, <2>2, <2>3, <2>4 DEF ClosureStep
<1>4. ASSUME NEW r \in Requests, EndLeaf(r) PROVE Shapes'
  BY <1>4 DEF EndLeaf
<1>5. ASSUME NEW r \in Requests, Connection(r) PROVE Shapes'
  BY <1>5 DEF Connection, Respond, ReadChunk, SendChunk, SubmitLeaf
<1>6. CASE UNCHANGED vars
  BY <1>6 DEF vars
<1>7. QED
  BY <1>1, <1>2, <1>3, <1>4, <1>5, <1>6 DEF Next

\* The queue gains tasks at its tail and loses its head.
QueueMove ==
    \/ queue' = queue
    \/ queue # <<>> /\ queue' = Tail(queue)
    \/ \E t \in Tasks : queue' = Append(queue, t)

LEMMA QueueStep == TypeOK /\ [Next]_vars => queue' \in Seq(Tasks)
<1> SUFFICES ASSUME TypeOK, [Next]_vars PROVE queue' \in Seq(Tasks)
  OBVIOUS
<1>1. \A r \in Requests :
        /\ [task |-> "closure", req |-> r] \in Tasks
        /\ [task |-> "leaf", req |-> r] \in Tasks
  BY DEF Tasks
<1>2. QueueMove
  <2>1. CASE StartTask
    BY <2>1 DEF StartTask, QueueMove
  <2>2. ASSUME NEW r \in Requests, Outside(r) PROVE QueueMove
    BY <1>1, <2>2
       DEF Outside, Arrive, RefuseBody, Admit, Shed, LeaveWhileWaiting, LeaveElsewhere, QueueMove
  <2>3. ASSUME NEW r \in Requests, ClosureStep(r) PROVE QueueMove
    BY <1>1, <2>3
       DEF ClosureStep, Probe, ServeFile, MissFile, AnswerEarly, CountHit, RenderPage,
           VerifyCaptcha, Resolved, Verdict, VerifyTimeout, Panic, SubmitLeaf, QueueMove
  <2>4. ASSUME NEW r \in Requests, EndLeaf(r) \/ Connection(r) PROVE QueueMove
    BY <1>1, <2>4
       DEF EndLeaf, Connection, Respond, ReadChunk, SendChunk, SubmitLeaf, QueueMove
  <2>5. CASE UNCHANGED vars
    BY <2>5 DEF vars, QueueMove
  <2>6. QED
    BY <2>1, <2>2, <2>3, <2>4, <2>5 DEF Next
<1>3. queue \in Seq(Tasks)
  BY DEF TypeOK
<1>4. QED
  BY <1>2, <1>3 DEF QueueMove

-----------------------------------------------------------------------------
(* Who waits, and who was abandoned *)

\* A request starts or stops waiting together with a permit.
LEMMA PermitSteps == TypeOK /\ [Next]_vars => PermitStep
<1> SUFFICES ASSUME TypeOK, [Next]_vars PROVE PermitStep
  OBVIOUS
<1> USE DEF TypeOK, Waiting
<1>1. CASE StartTask
  BY <1>1 DEF StartTask, PermitStep
<1>2. ASSUME NEW r \in Requests, Admit(r) PROVE PermitStep
  BY <1>2 DEF Admit, PermitStep
<1>3. ASSUME NEW r \in Requests, LeaveWhileWaiting(r) \/ Respond(r) PROVE PermitStep
  BY <1>3 DEF LeaveWhileWaiting, Respond, PermitStep
<1>4. ASSUME NEW r \in Requests,
             \/ \E k \in Kinds : Arrive(r, k)
             \/ RefuseBody(r) \/ Shed(r) \/ LeaveElsewhere(r)
      PROVE  PermitStep
  BY <1>4 DEF Arrive, RefuseBody, Shed, LeaveElsewhere, PermitStep
<1>5. ASSUME NEW r \in Requests, ClosureStep(r) PROVE PermitStep
  BY <1>5
     DEF ClosureStep, Probe, ServeFile, MissFile, AnswerEarly, CountHit, RenderPage,
         VerifyCaptcha, Resolved, Verdict, VerifyTimeout, Panic, PermitStep
<1>6. ASSUME NEW r \in Requests, EndLeaf(r) \/ ReadChunk(r) \/ SendChunk(r) PROVE PermitStep
  BY <1>6 DEF EndLeaf, ReadChunk, SendChunk, PermitStep
<1>7. CASE UNCHANGED vars
  BY <1>7 DEF vars, PermitStep
<1>8. QED
  BY <1>1, <1>2, <1>3, <1>4, <1>5, <1>6, <1>7 DEF Next, Outside, Connection

\* The accounting of permits is kept by each of the three moves.
LEMMA AccountingStep ==
    TypeOK /\ PermitAccounting /\ PermitStep /\ Waiting' \in SUBSET Requests
      => PermitAccounting' /\ permits' \in 0..MaxConcurrentRequests
<1> SUFFICES ASSUME TypeOK, PermitAccounting, PermitStep, Waiting' \in SUBSET Requests
             PROVE  PermitAccounting' /\ permits' \in 0..MaxConcurrentRequests
  OBVIOUS
<1> USE PoolAssumption DEF PermitAccounting
<1>1. IsFiniteSet(Waiting) /\ Cardinality(Waiting) \in Nat /\ permits \in Nat
  BY FiniteParts DEF TypeOK
<1>2. CASE Waiting' = Waiting /\ permits' = permits
  BY <1>1, <1>2
<1>3. CASE \E r \in Requests \ Waiting :
              Waiting' = Waiting \cup {r} /\ permits > 0 /\ permits' = permits - 1
  <2>1. Cardinality(Waiting') = Cardinality(Waiting) + 1
    BY <1>1, <1>3, FS_AddElement
  <2>2. QED
    BY <1>1, <1>3, <2>1
<1>4. CASE \E r \in Waiting : Waiting' = Waiting \ {r} /\ permits' = permits + 1
  <2>1. IsFiniteSet(Waiting') /\ Cardinality(Waiting') = Cardinality(Waiting) - 1
    BY <1>1, <1>4, FS_RemoveElement
  <2>2. Cardinality(Waiting') \in Nat
    BY <2>1, FS_CardinalityType
  <2>3. QED
    BY <1>1, <1>4, <2>1, <2>2
<1>5. QED
  BY <1>2, <1>3, <1>4 DEF PermitStep

-----------------------------------------------------------------------------
(* Queues without duplicates *)

\* Adding an element that is not in the sequence keeps it injective.
LEMMA AppendToSet ==
    ASSUME NEW S, NEW q \in Seq(S), NEW t \in S
    PROVE  /\ ToSet(Append(q, t)) = ToSet(q) \cup {t}
           /\ IsInjective(q) /\ t \notin ToSet(q) => IsInjective(Append(q, t))
<1>1. /\ DOMAIN q = 1..Len(q) /\ Len(q) \in Nat
      /\ DOMAIN Append(q, t) = 1..(Len(q) + 1)
      /\ Append(q, t)[Len(q) + 1] = t
      /\ \A i \in 1..Len(q) : Append(q, t)[i] = q[i]
  OBVIOUS
<1>2. ToSet(Append(q, t)) = ToSet(q) \cup {t}
  BY <1>1 DEF ToSet
<1>3. ASSUME IsInjective(q), t \notin ToSet(q) PROVE IsInjective(Append(q, t))
  BY <1>1, <1>3 DEF ToSet, IsInjective
<1>4. QED
  BY <1>2, <1>3

\* The tail of an injective sequence has lost its head, and only that.
LEMMA TailToSet ==
    ASSUME NEW S, NEW q \in Seq(S), q # <<>>, IsInjective(q)
    PROVE  /\ ToSet(Tail(q)) = ToSet(q) \ {Head(q)}
           /\ IsInjective(Tail(q))
           /\ Head(q) \in ToSet(q)
<1>1. /\ DOMAIN q = 1..Len(q) /\ Len(q) \in Nat \ {0}
      /\ DOMAIN Tail(q) = 1..(Len(q) - 1)
      /\ Head(q) = q[1]
      /\ \A i \in 1..(Len(q) - 1) : Tail(q)[i] = q[i + 1]
  OBVIOUS
<1>2. IsInjective(Tail(q))
  BY <1>1 DEF IsInjective
<1>3. ToSet(Tail(q)) \subseteq ToSet(q) \ {Head(q)}
  BY <1>1 DEF ToSet, IsInjective
<1>4. ASSUME NEW x \in ToSet(q) \ {Head(q)} PROVE x \in ToSet(Tail(q))
  <2>1. PICK i \in 1..Len(q) : x = q[i]
    BY <1>1 DEF ToSet
  <2>2. i - 1 \in 1..(Len(q) - 1) /\ x = Tail(q)[i - 1]
    BY <1>1, <1>4, <2>1
  <2>3. QED
    BY <1>1, <2>2 DEF ToSet
<1>5. QED
  BY <1>1, <1>2, <1>3, <1>4 DEF ToSet

-----------------------------------------------------------------------------
(* The queue holds what is queued *)

\* What a step does to the queue and to the tasks that are queued.
QueueStays == queue' = queue /\ Queued' = Queued
QueueTakes == queue # <<>> /\ queue' = Tail(queue) /\ Queued' = Queued \ {Head(queue)}
QueueAdds(t) == t \notin Queued /\ queue' = Append(queue, t) /\ Queued' = Queued \cup {t}

TaskOf(kindOfTask, r) == [task |-> kindOfTask, req |-> r]

LEMMA QueueSteps ==
    TypeOK /\ Control /\ QueueMatchesTasks /\ [Next]_vars
      => QueueStays \/ QueueTakes \/ \E t \in Tasks : QueueAdds(t)
<1> SUFFICES ASSUME TypeOK, Control, QueueMatchesTasks, [Next]_vars
             PROVE  QueueStays \/ QueueTakes \/ \E t \in Tasks : QueueAdds(t)
  OBVIOUS
<1> USE DEF TypeOK, Queued, Tasks, TaskOf
<1>1. CASE StartTask
  <2>1. Head(queue) \in Queued
    BY <1>1, TailToSet DEF StartTask, QueueMatchesTasks
  <2>2. QED
    BY <1>1, <2>1 DEF StartTask, QueueTakes
<1>2. ASSUME NEW r \in Requests, Admit(r) PROVE QueueAdds(TaskOf("closure", r))
  BY <1>2 DEF Admit, QueueAdds, Control
<1>3. ASSUME NEW r \in Requests,
             Probe(r) \/ ReadChunk(r) \/ (VerifyCaptcha(r) /\ closure'[r] = "resolving")
      PROVE  QueueAdds(TaskOf("leaf", r))
  BY <1>3 DEF Probe, ReadChunk, VerifyCaptcha, SubmitLeaf, GoTo, QueueAdds, Control
<1>4. ASSUME NEW r \in Requests, Outside(r), ~Admit(r) PROVE QueueStays
  BY <1>4 DEF Outside, Arrive, RefuseBody, Shed, LeaveWhileWaiting, LeaveElsewhere, QueueStays
<1>5. ASSUME NEW r \in Requests, ClosureStep(r), ~Probe(r),
             ~(VerifyCaptcha(r) /\ closure'[r] = "resolving")
      PROVE  QueueStays
  BY <1>5
     DEF ClosureStep, ServeFile, MissFile, AnswerEarly, CountHit, RenderPage, SubmitLeaf,
         VerifyCaptcha, Resolved, Verdict, VerifyTimeout, Panic, Finish, GoTo, QueueStays
<1>6. ASSUME NEW r \in Requests, EndLeaf(r) \/ Respond(r) \/ SendChunk(r) PROVE QueueStays
  BY <1>6 DEF EndLeaf, Respond, SendChunk, QueueStays
<1>7. CASE UNCHANGED vars
  BY <1>7 DEF vars, QueueStays
<1>8. \A r \in Requests : TaskOf("closure", r) \in Tasks /\ TaskOf("leaf", r) \in Tasks
  OBVIOUS
<1>9. QED
  BY <1>1, <1>2, <1>3, <1>4, <1>5, <1>6, <1>7, <1>8 DEF Next, Connection

LEMMA QueueMatchesTasksStep ==
    TypeOK /\ Control /\ QueueMatchesTasks /\ [Next]_vars => QueueMatchesTasks'
<1> SUFFICES ASSUME TypeOK, Control, QueueMatchesTasks, [Next]_vars
             PROVE  QueueMatchesTasks'
  OBVIOUS
<1>1. queue \in Seq(Tasks)
  BY DEF TypeOK
<1>2. CASE QueueStays
  BY <1>2 DEF QueueStays, QueueMatchesTasks, IsInjective
<1>3. CASE QueueTakes
  BY <1>1, <1>3, TailToSet DEF QueueTakes, QueueMatchesTasks
<1>4. ASSUME NEW t \in Tasks, QueueAdds(t) PROVE QueueMatchesTasks'
  BY <1>1, <1>4, AppendToSet DEF QueueAdds, QueueMatchesTasks
<1>5. QED
  BY <1>2, <1>3, <1>4, QueueSteps

-----------------------------------------------------------------------------
(* The parts of one request *)

\* What StartTask takes from the queue is queued.
LEMMA HeadIsQueued ==
    TypeOK /\ QueueMatchesTasks /\ queue # <<>>
      => /\ Head(queue).req \in Requests
         /\ Head(queue).task = "closure" => closure[Head(queue).req] = "queued"
         /\ Head(queue).task = "leaf" => leaf[Head(queue).req] = "queued"
  BY TailToSet DEF TypeOK, QueueMatchesTasks, Queued, Tasks

LEMMA ControlStep ==
    TypeOK /\ Control /\ LeavesHaveOwners /\ QueueMatchesTasks /\ [Next]_vars
      => Control' /\ LeavesHaveOwners'
<1> SUFFICES ASSUME TypeOK, Control, LeavesHaveOwners, QueueMatchesTasks, [Next]_vars
             PROVE  Control' /\ LeavesHaveOwners'
  OBVIOUS
<1> USE DEF TypeOK, Control, LeavesHaveOwners, LeafIsAwaited, AwaitingLeaf, RunningStages
<1>1. CASE StartTask
  BY <1>1, HeadIsQueued DEF StartTask
<1>2. ASSUME NEW r \in Requests, Outside(r) PROVE Control' /\ LeavesHaveOwners'
  BY <1>2 DEF Outside, Arrive, RefuseBody, Admit, Shed, LeaveWhileWaiting, LeaveElsewhere
<1>3. ASSUME NEW r \in Requests, ClosureStep(r) PROVE Control' /\ LeavesHaveOwners'
  <2> USE DEF SubmitLeaf, GoTo, Finish
  <2>1. CASE Probe(r) \/ ServeFile(r) \/ MissFile(r)
    BY <2>1 DEF Probe, ServeFile, MissFile
  <2>2. CASE AnswerEarly(r) \/ CountHit(r) \/ RenderPage(r)
    BY <2>2 DEF AnswerEarly, CountHit, RenderPage
  <2>3. CASE VerifyCaptcha(r) \/ Resolved(r)
    BY <2>3 DEF VerifyCaptcha, Resolved
  <2>4. CASE Verdict(r) \/ VerifyTimeout(r) \/ Panic(r)
    BY <2>4 DEF Verdict, VerifyTimeout, Panic
  <2>5. QED
    BY <1>3, <2>1, <2>2, <2>3, <2>4 DEF ClosureStep
<1>4. ASSUME NEW r \in Requests, EndLeaf(r) PROVE Control' /\ LeavesHaveOwners'
  BY <1>4 DEF EndLeaf
<1>5. ASSUME NEW r \in Requests, Connection(r) PROVE Control' /\ LeavesHaveOwners'
  BY <1>5 DEF Connection, Respond, ReadChunk, SendChunk, SubmitLeaf
<1>6. CASE UNCHANGED vars
  BY <1>6 DEF vars
<1>7. QED
  BY <1>1, <1>2, <1>3, <1>4, <1>5, <1>6 DEF Next

-----------------------------------------------------------------------------
(* The closures that outlive their clients *)

\* No step abandons a closure, but a client that leaves while it waits.
LEMMA AbandonedSteps ==
    TypeOK /\ Control /\ QueueMatchesTasks /\ [Next]_vars
      => \/ Abandoned' \subseteq Abandoned
         \/ \E r \in Requests : /\ Abandoned' \subseteq Abandoned \cup {r}
                                /\ Cardinality(Abandoned) < MaxAbandoned
<1> SUFFICES ASSUME TypeOK, Control, QueueMatchesTasks, [Next]_vars
             PROVE  \/ Abandoned' \subseteq Abandoned
                    \/ \E r \in Requests : /\ Abandoned' \subseteq Abandoned \cup {r}
                                           /\ Cardinality(Abandoned) < MaxAbandoned
  OBVIOUS
<1> USE DEF TypeOK, Abandoned, LiveClosures
<1>1. CASE StartTask
  BY <1>1, HeadIsQueued DEF StartTask
<1>2. ASSUME NEW r \in Requests, LeaveWhileWaiting(r)
      PROVE  \/ Abandoned' \subseteq Abandoned
             \/ /\ Abandoned' \subseteq Abandoned \cup {r}
                /\ Cardinality(Abandoned) < MaxAbandoned
  <2>1. CASE closure[r] = "none"
    BY <1>2, <2>1 DEF LeaveWhileWaiting
  <2>2. CASE closure[r] # "none"
    <3>1. Abandoned' \subseteq Abandoned \cup {r}
      BY <1>2 DEF LeaveWhileWaiting
    <3>2. Cardinality(Abandoned) < MaxAbandoned
      BY <1>2, <2>2 DEF LeaveWhileWaiting
    <3>3. QED
      BY <3>1, <3>2
  <2>3. QED
    BY <2>1, <2>2
<1>3. ASSUME NEW r \in Requests, Outside(r), ~LeaveWhileWaiting(r)
      PROVE  Abandoned' \subseteq Abandoned
  BY <1>3 DEF Outside, Arrive, RefuseBody, Admit, Shed, LeaveElsewhere, Control
<1>4. ASSUME NEW r \in Requests, ClosureStep(r) PROVE Abandoned' \subseteq Abandoned
  BY <1>4
     DEF ClosureStep, Probe, ServeFile, MissFile, AnswerEarly, CountHit, RenderPage, SubmitLeaf,
         VerifyCaptcha, Resolved, Verdict, VerifyTimeout, Panic, Finish, GoTo
<1>5. ASSUME NEW r \in Requests, EndLeaf(r) \/ Connection(r) PROVE Abandoned' \subseteq Abandoned
  BY <1>5 DEF EndLeaf, Connection, Respond, ReadChunk, SendChunk, Control
<1>6. CASE UNCHANGED vars
  BY <1>6 DEF vars
<1>7. QED
  BY <1>1, <1>2, <1>3, <1>4, <1>5, <1>6 DEF Next

LEMMA AbandonedBoundedStep ==
    TypeOK /\ Control /\ QueueMatchesTasks /\ AbandonedBounded /\ [Next]_vars
      => AbandonedBounded'
<1> SUFFICES ASSUME TypeOK, Control, QueueMatchesTasks, AbandonedBounded, [Next]_vars
             PROVE  Cardinality(Abandoned') <= MaxAbandoned
  BY DEF AbandonedBounded
<1>1. IsFiniteSet(Abandoned) /\ Cardinality(Abandoned) \in Nat /\ MaxAbandoned \in Nat
  BY FiniteParts, PoolAssumption
<1>2. CASE Abandoned' \subseteq Abandoned
  <2>1. Cardinality(Abandoned') \in Nat /\ Cardinality(Abandoned') <= Cardinality(Abandoned)
    BY <1>1, <1>2, FS_Subset, FS_CardinalityType
  <2>2. QED
    BY <1>1, <2>1 DEF AbandonedBounded
<1>3. ASSUME NEW r \in Requests, Abandoned' \subseteq Abandoned \cup {r},
             Cardinality(Abandoned) < MaxAbandoned
      PROVE  Cardinality(Abandoned') <= MaxAbandoned
  <2>1. /\ IsFiniteSet(Abandoned \cup {r})
        /\ Cardinality(Abandoned \cup {r}) <= Cardinality(Abandoned) + 1
        /\ Cardinality(Abandoned \cup {r}) \in Nat
    <3>1. /\ IsFiniteSet(Abandoned \cup {r})
          /\ Cardinality(Abandoned \cup {r}) =
               IF r \in Abandoned THEN Cardinality(Abandoned) ELSE Cardinality(Abandoned) + 1
      BY <1>1, FS_AddElement
    <3>2. QED
      BY <1>1, <3>1
  <2>2. /\ Cardinality(Abandoned') \in Nat
        /\ Cardinality(Abandoned') <= Cardinality(Abandoned \cup {r})
    BY <1>3, <2>1, FS_Subset, FS_CardinalityType
  <2>3. QED
    BY <1>1, <1>3, <2>1, <2>2
<1>4. QED
  BY <1>2, <1>3, AbandonedSteps

-----------------------------------------------------------------------------
(* The inductive invariant *)

LEMMA InitInv == Init => Inv
<1> SUFFICES ASSUME Init PROVE Inv
  OBVIOUS
<1>1. TypeOK
  BY InitTypes
<1>2. Waiting = {} /\ Abandoned = {} /\ ToSet(queue) = {} /\ Queued = {}
  BY DEF Init, Waiting, Abandoned, LiveClosures, ToSet, Queued, Tasks
<1>3. PermitAccounting /\ AbandonedBounded
  BY <1>2, FS_EmptySet, PoolAssumption DEF Init, PermitAccounting, AbandonedBounded
<1>4. Control /\ LeavesHaveOwners
  BY DEF Init, Control, LeavesHaveOwners, LeafIsAwaited, AwaitingLeaf
<1>5. QueueMatchesTasks
  BY <1>2 DEF Init, QueueMatchesTasks, IsInjective
<1>6. QED
  BY <1>1, <1>3, <1>4, <1>5 DEF Inv

LEMMA NextInv == Inv /\ [Next]_vars => Inv'
<1> SUFFICES ASSUME Inv, [Next]_vars PROVE Inv'
  OBVIOUS
<1> USE DEF Inv
<1>1. Shapes' /\ queue' \in Seq(Tasks)
  BY ShapesStep, QueueStep
<1>2. Waiting' \in SUBSET Requests
  BY DEF Waiting
<1>3. PermitAccounting' /\ permits' \in 0..MaxConcurrentRequests
  BY <1>2, PermitSteps, AccountingStep
<1>4. TypeOK'
  BY <1>1, <1>3 DEF Shapes, TypeOK
<1>5. Control' /\ LeavesHaveOwners'
  BY ControlStep
<1>6. QueueMatchesTasks'
  BY QueueMatchesTasksStep
<1>7. AbandonedBounded'
  BY AbandonedBoundedStep
<1>8. QED
  BY <1>3, <1>4, <1>5, <1>6, <1>7

\* Inv holds in every reachable state.
THEOREM Invariance == SafeSpec => []Inv
  BY InitInv, NextInv, PTL DEF SafeSpec

-----------------------------------------------------------------------------
(* What the invariant gives *)

\* Each variable keeps its type, for any number of requests, threads and
\* permits.
THEOREM TypeCorrect == SafeSpec => []TypeOK
<1>1. Inv => TypeOK
  BY DEF Inv
<1>2. QED
  BY <1>1, Invariance, PTL

\* Permits are never lost or made up, however requests end.
THEOREM PermitsAccounted == SafeSpec => []PermitAccounting
<1>1. Inv => PermitAccounting
  BY DEF Inv
<1>2. QED
  BY <1>1, Invariance, PTL

\* The queue and the tasks always agree: none is lost, doubled, or started
\* while it is still queued.
THEOREM QueueAgrees == SafeSpec => []QueueMatchesTasks
<1>1. Inv => QueueMatchesTasks
  BY DEF Inv
<1>2. QED
  BY <1>1, Invariance, PTL

\* Whoever waits for a leaf has one, and a result has somebody to take it.
THEOREM LeavesAreOwned == SafeSpec => []LeavesHaveOwners
<1>1. Inv => LeavesHaveOwners
  BY DEF Inv
<1>2. QED
  BY <1>1, Invariance, PTL

\* Live closures belong to permits or to clients that left.
LEMMA LiveClosuresBounded ==
    Inv => Cardinality(LiveClosures) <= MaxConcurrentRequests + MaxAbandoned
<1> SUFFICES ASSUME Inv
             PROVE  Cardinality(LiveClosures) <= MaxConcurrentRequests + MaxAbandoned
  OBVIOUS
<1>1. LiveClosures \subseteq Waiting \cup Abandoned
  BY DEF LiveClosures, Abandoned, Waiting
<1>2. /\ IsFiniteSet(Waiting \cup Abandoned)
      /\ Cardinality(Waiting \cup Abandoned) <= Cardinality(Waiting) + Cardinality(Abandoned)
      /\ Cardinality(Waiting \cup Abandoned) \in Nat
  <2>1. Cardinality(Waiting \cap Abandoned) \in Nat
    BY FiniteParts, FS_Intersection, FS_CardinalityType
  <2>2. /\ IsFiniteSet(Waiting \cup Abandoned)
        /\ Cardinality(Waiting \cup Abandoned) =
             Cardinality(Waiting) + Cardinality(Abandoned) - Cardinality(Waiting \cap Abandoned)
    BY FiniteParts, FS_Union
  <2>3. Cardinality(Waiting \cup Abandoned) \in Nat
    BY <2>2, FS_CardinalityType
  <2>4. QED
    BY <2>1, <2>2, <2>3, FiniteParts
<1>3. Cardinality(LiveClosures) <= Cardinality(Waiting \cup Abandoned)
  BY <1>1, <1>2, FS_Subset
<1>4. /\ Cardinality(Waiting) <= MaxConcurrentRequests
      /\ Cardinality(Abandoned) <= MaxAbandoned
  BY FiniteParts, PoolAssumption DEF Inv, TypeOK, PermitAccounting, AbandonedBounded
<1>5. QED
  BY <1>2, <1>3, <1>4, FiniteParts, PoolAssumption

\* A set of closures is no larger than the set of live ones.
LEMMA LiveSubsetBounded ==
    ASSUME Inv, NEW S \in SUBSET LiveClosures
    PROVE  /\ Cardinality(S) \in Nat
           /\ Cardinality(S) <= MaxConcurrentRequests + MaxAbandoned
<1>1. Cardinality(S) \in Nat /\ Cardinality(S) <= Cardinality(LiveClosures)
  BY FiniteParts, FS_Subset, FS_CardinalityType
<1>2. QED
  BY <1>1, LiveClosuresBounded, FiniteParts, PoolAssumption

\* The claim of main.rs:52-71, made exact.  The limit keeps the pool from
\* deadlocking provided the limit and the closures that outlived their clients
\* together leave one thread of the pool.  (A quarter of the pool is more than
\* is needed for clients that wait, and enough for 3071 that do not.)
THEOREM NoDeadlock ==
    ASSUME MaxConcurrentRequests + MaxAbandoned < MaxBlockingThreads
    PROVE  SafeSpec => []NoCircularWait
<1>1. Inv => NoCircularWait
  <2> SUFFICES ASSUME Inv PROVE NoCircularWait
    OBVIOUS
  <2>1. Starved \in SUBSET LiveClosures
    BY DEF Starved, AwaitingLeaf, LiveClosures
  <2>2. QED
    BY <2>1, LiveSubsetBounded, PoolAssumption DEF NoCircularWait
<1>2. QED
  BY <1>1, Invariance, PTL

\* What the handlers draw from the pool is twice the number of live closures
\* at most, hence twice the limit when every client waits.
THEOREM DemandBounded == SafeSpec => []HandlerDemandBounded
<1>1. Inv => HandlerDemandBounded
  <2> SUFFICES ASSUME Inv PROVE HandlerDemandBounded
    OBVIOUS
  <2>1. LiveClosures \in SUBSET LiveClosures /\ AwaitingLeaf \in SUBSET LiveClosures
    BY DEF AwaitingLeaf, LiveClosures
  <2>2. QED
    BY <2>1, LiveSubsetBounded, PoolAssumption DEF HandlerDemandBounded
<1>2. QED
  BY <1>1, Invariance, PTL

-----------------------------------------------------------------------------
(* The pool implements admission control *)

\* The instance counts with the same Cardinality.
LEMMA SameCardinality == \A S : Admitted!Cardinality(S) = Cardinality(S)
  BY DEF Admitted!Cardinality, Cardinality

LEMMA AdmissionInit == Init => Admitted!AInit
  BY DEF Init, Admitted!AInit, Waiting

LEMMA AdmissionStep == Inv /\ [Next]_vars => [Admitted!ANext]_Admitted!avars
<1> SUFFICES ASSUME Inv, [Next]_vars PROVE Admitted!ANext \/ UNCHANGED Admitted!avars
  BY DEF Admitted!avars
<1> USE DEF Inv, TypeOK, Waiting
<1>1. ASSUME NEW r \in Requests, Admit(r) PROVE Admitted!Enter(r)
  <2>1. Cardinality(Waiting) < MaxConcurrentRequests
    BY <1>1, FiniteParts, PoolAssumption DEF Admit, PermitAccounting
  <2>2. QED
    BY <1>1, <2>1, SameCardinality DEF Admit, Admitted!Enter
<1>2. ASSUME NEW r \in Requests, LeaveWhileWaiting(r) \/ Respond(r) PROVE Admitted!Leave(r)
  BY <1>2 DEF LeaveWhileWaiting, Respond, Admitted!Leave
<1>3. ASSUME NEW r \in Requests, Shed(r) PROVE Admitted!TurnAway(r)
  <2>1. Cardinality(Waiting) = MaxConcurrentRequests
    BY <1>3, FiniteParts, PoolAssumption DEF Shed, PermitAccounting
  <2>2. QED
    BY <1>3, <2>1, SameCardinality DEF Shed, Admitted!TurnAway
<1>4. ASSUME NEW r \in Requests, NEW k \in Kinds, Arrive(r, k) PROVE Admitted!ComeBack(r)
  BY <1>4 DEF Arrive, Admitted!ComeBack
<1>5. ASSUME NEW r \in Requests, RefuseBody(r) \/ LeaveElsewhere(r)
      PROVE  UNCHANGED Admitted!avars
  BY <1>5 DEF RefuseBody, LeaveElsewhere, Admitted!avars
<1>6. ASSUME NEW r \in Requests, ClosureStep(r) PROVE UNCHANGED Admitted!avars
  BY <1>6
     DEF ClosureStep, Probe, ServeFile, MissFile, AnswerEarly, CountHit, RenderPage,
         VerifyCaptcha, Resolved, Verdict, VerifyTimeout, Panic, Admitted!avars
<1>7. ASSUME NEW r \in Requests, EndLeaf(r) \/ ReadChunk(r) \/ SendChunk(r)
      PROVE  UNCHANGED Admitted!avars
  BY <1>7 DEF EndLeaf, ReadChunk, SendChunk, Admitted!avars
<1>8. CASE StartTask \/ UNCHANGED vars
  BY <1>8 DEF StartTask, vars, Admitted!avars
<1>9. QED
  BY <1>1, <1>2, <1>3, <1>4, <1>5, <1>6, <1>7, <1>8
     DEF Next, Outside, Connection, Admitted!ANext

\* The safety half of the contract: the limit is never exceeded, and a request
\* is turned away only when it is reached.
THEOREM Refinement == SafeSpec => Admitted!ASafeSpec
  BY AdmissionInit, AdmissionStep, Invariance, PTL DEF SafeSpec, Admitted!ASafeSpec
===============================================================================
