----------------------------- MODULE BlockingPool -----------------------------
(***************************************************************************)
(* The request path of src/main.rs between the socket and the page         *)
(* handlers: body buffering, admission control, and the blocking thread    *)
(* pool that is used re-entrantly.                                         *)
(*                                                                         *)
(* Every admitted request runs as ONE closure on a pool thread, and keeps  *)
(* the thread while it waits.  While running it draws further tasks from   *)
(* the SAME pool (file probes, name resolution); a response that is a file *)
(* is read by more tasks after the closure has ended.  These are called    *)
(* leaves: a leaf never waits for another task.                            *)
(*                                                                         *)
(* An element of Requests is a slot for one request at a time: a slot is   *)
(* used again once nothing of its last request is left in the pool.        *)
(***************************************************************************)
EXTENDS Naturals, Sequences, FiniteSets, SequencesExt

CONSTANTS
    Requests,               \* slots for requests in flight
    MaxBlockingThreads,     \* MAX_BLOCKING_THREADS
    MaxConcurrentRequests,  \* MAX_CONCURRENT_REQUESTS
    MaxAbandoned            \* how many closures may outlive their client

ASSUME PoolAssumption ==
    /\ IsFiniteSet(Requests)
    /\ MaxBlockingThreads \in Nat \ {0}
    /\ MaxConcurrentRequests \in Nat \ {0}
    /\ MaxAbandoned \in Nat

VARIABLES
    client,   \* what the connection of a slot is doing
    kind,     \* the method of the slot's request
    closure,  \* where the closure spawned by blocking_middleware stands
    leaf,     \* the nested task of the request
    reply,    \* what the closure left for the task that awaits it
    queue,    \* the pool's FIFO of tasks no thread has taken yet
    permits   \* free permits of GlobalConcurrencyLimit

vars == <<client, kind, closure, leaf, reply, queue, permits>>

-----------------------------------------------------------------------------
(* Types and derived state *)

Kinds == {"get", "post", "other"}

ClientStates == {"idle", "received", "waiting", "streaming", "shed"}

\* "serving" and "handling" compute; the others wait: for a leaf ("probing",
\* "resolving"), for the database ("querying") or for Google ("verifying").
RunningStages == {"serving", "probing", "handling", "querying", "resolving", "verifying"}

Tasks == [task : {"closure", "leaf"}, req : Requests]

Waiting == {r \in Requests : client[r] = "waiting"}

\* The closures that hold a thread, and those that are not over yet.
RunningClosures == {r \in Requests : closure[r] \in RunningStages}
LiveClosures    == {r \in Requests : closure[r] # "none"}

\* Closures whose client has gone: nobody will read what they produce.
Abandoned == {r \in LiveClosures : client[r] # "waiting"}

RunningLeaves == {r \in Requests : leaf[r] = "running"}

BusyThreads == Cardinality(RunningClosures) + Cardinality(RunningLeaves)

\* The closures that wait for a leaf of their own.
AwaitingLeaf == {r \in Requests : closure[r] \in {"probing", "resolving"}}

\* Somebody polls the leaf of r: its closure, or the connection that sends a
\* file.  A leaf nobody polls still runs, and its result is dropped.
LeafIsAwaited(r) == r \in AwaitingLeaf \/ client[r] = "streaming"

-----------------------------------------------------------------------------
(* Initial state *)

Init ==
    /\ client = [r \in Requests |-> "idle"]
    /\ kind = [r \in Requests |-> "get"]
    /\ closure = [r \in Requests |-> "none"]
    /\ leaf = [r \in Requests |-> "none"]
    /\ reply = [r \in Requests |-> "none"]
    /\ queue = <<>>
    /\ permits = MaxConcurrentRequests

-----------------------------------------------------------------------------
(* Outside the pool: arrival, body buffering, admission *)

\* The headers of a request have been read.  A POST whose body is consumed
\* stays "received" while buffer_body_middleware reads the body; the others
\* go straight on.
Arrive(r, k) ==
    /\ client[r] \in {"idle", "shed"}
    /\ closure[r] = "none" /\ leaf[r] = "none"
    /\ client' = [client EXCEPT ![r] = "received"]
    /\ kind' = [kind EXCEPT ![r] = k]
    /\ UNCHANGED <<closure, leaf, reply, queue, permits>>

\* 413 for a declared length over the cap, 400 for a body that cannot be read.
RefuseBody(r) ==
    /\ client[r] = "received" /\ kind[r] = "post"
    /\ client' = [client EXCEPT ![r] = "idle"]
    /\ UNCHANGED <<kind, closure, leaf, reply, queue, permits>>

\* Mutant: no concurrency limit in front of the pool.
AdmitUnlimited(r) ==
    /\ client[r] = "received"
    /\ client' = [client EXCEPT ![r] = "waiting"]
    /\ closure' = [closure EXCEPT ![r] = "queued"]
    /\ queue' = Append(queue, [task |-> "closure", req |-> r])
    /\ UNCHANGED <<kind, leaf, reply, permits>>

\* GlobalConcurrencyLimit gives a permit and blocking_middleware spawns the
\* closure: it joins the tail of the pool's queue.
Admit(r) ==
    /\ client[r] = "received"
    /\ permits > 0
    /\ permits' = permits - 1
    /\ client' = [client EXCEPT ![r] = "waiting"]
    /\ closure' = [closure EXCEPT ![r] = "queued"]
    /\ queue' = Append(queue, [task |-> "closure", req |-> r])
    /\ UNCHANGED <<kind, leaf, reply>>

\* No permit: LoadShed answers 503 instead of waiting for one.
Shed(r) ==
    /\ client[r] = "received"
    /\ permits = 0
    /\ client' = [client EXCEPT ![r] = "shed"]
    /\ UNCHANGED <<kind, closure, leaf, reply, queue, permits>>

-----------------------------------------------------------------------------
(* The pool *)

\* Steps that hand a leaf of r to the pool.
SubmitLeaf(r) ==
    /\ leaf' = [leaf EXCEPT ![r] = "queued"]
    /\ queue' = Append(queue, [task |-> "leaf", req |-> r])

\* A free thread takes the oldest task.  The closure enters the router: GET
\* goes to ServeDir first, POST and the other methods straight to a handler.
StartTask ==
    /\ queue # <<>>
    /\ BusyThreads < MaxBlockingThreads
    /\ queue' = Tail(queue)
    /\ LET r == Head(queue).req IN
         \/ /\ Head(queue).task = "closure"
            /\ closure' = [closure EXCEPT ![r] =
                             IF kind[r] = "get" THEN "serving" ELSE "handling"]
            /\ leaf' = leaf
         \/ /\ Head(queue).task = "leaf"
            /\ leaf' = [leaf EXCEPT ![r] = "running"]
            /\ closure' = closure
    /\ UNCHANGED <<client, kind, reply, permits>>

\* Mutant: the result of a leaf nobody polls is kept.
EndLeafKeepsResult(r) ==
    /\ leaf[r] = "running"
    /\ leaf' = [leaf EXCEPT ![r] = "done"]
    /\ UNCHANGED <<client, kind, closure, reply, queue, permits>>

\* A leaf ends and frees its thread.
EndLeaf(r) ==
    /\ leaf[r] = "running"
    /\ leaf' = [leaf EXCEPT ![r] = IF LeafIsAwaited(r) THEN "done" ELSE "none"]
    /\ UNCHANGED <<client, kind, closure, reply, queue, permits>>

-----------------------------------------------------------------------------
(* Inside a closure, on its thread *)

\* The closure returns (or unwinds): its thread is free again.  The output
\* waits in the JoinHandle, unless the handle was dropped with the client.
Finish(r, output) ==
    /\ closure' = [closure EXCEPT ![r] = "none"]
    /\ reply' = [reply EXCEPT ![r] = IF client[r] = "waiting" THEN output ELSE "none"]

GoTo(r, stage) == closure' = [closure EXCEPT ![r] = stage]

\* ServeDir looks for the file: metadata and open are tasks of the same pool.
Probe(r) ==
    /\ closure[r] = "serving"
    /\ GoTo(r, "probing")
    /\ SubmitLeaf(r)
    /\ UNCHANGED <<client, kind, reply, permits>>

\* There is such a file: the response carries it as a stream, or carries no
\* body (HEAD, 304, a redirect).
ServeFile(r) ==
    /\ closure[r] = "probing" /\ leaf[r] = "done"
    /\ leaf' = [leaf EXCEPT ![r] = "none"]
    /\ \E output \in {"file", "page"} : Finish(r, output)
    /\ UNCHANGED <<client, kind, queue, permits>>

\* There is none: ServeDir falls back to the page dispatcher.
MissFile(r) ==
    /\ closure[r] = "probing" /\ leaf[r] = "done"
    /\ leaf' = [leaf EXCEPT ![r] = "none"]
    /\ GoTo(r, "handling")
    /\ UNCHANGED <<client, kind, reply, queue, permits>>

\* Answers given before the hit is counted (400, 403, 404, 405), and every
\* answer to a method that is not routed.
AnswerEarly(r) ==
    /\ closure[r] = "handling"
    /\ Finish(r, "page")
    /\ UNCHANGED <<client, kind, leaf, queue, permits>>

\* The dispatcher counts the hit: statements awaited on the held thread.
CountHit(r) ==
    /\ closure[r] = "handling" /\ kind[r] # "other"
    /\ GoTo(r, "querying")
    /\ UNCHANGED <<client, kind, leaf, reply, queue, permits>>

\* The counter has answered, or failed, and the page needs no verification: a
\* GET, or a POST with a bypass header or a token not worth sending.
RenderPage(r) ==
    /\ closure[r] = "querying"
    /\ Finish(r, "page")
    /\ UNCHANGED <<client, kind, leaf, queue, permits>>

\* A POST verifies its captcha: over a new connection, whose name resolution
\* is a task of the pool, or over a pooled one.
VerifyCaptcha(r) ==
    /\ closure[r] = "querying" /\ kind[r] = "post"
    /\ \/ GoTo(r, "resolving") /\ SubmitLeaf(r)
       \/ GoTo(r, "verifying") /\ UNCHANGED <<leaf, queue>>
    /\ UNCHANGED <<client, kind, reply, permits>>

Resolved(r) ==
    /\ closure[r] = "resolving" /\ leaf[r] = "done"
    /\ leaf' = [leaf EXCEPT ![r] = "none"]
    /\ GoTo(r, "verifying")
    /\ UNCHANGED <<client, kind, reply, queue, permits>>

\* Google's verdict, whichever it is: the handler runs to its end.
Verdict(r) ==
    /\ closure[r] = "verifying"
    /\ Finish(r, "page")
    /\ UNCHANGED <<client, kind, leaf, queue, permits>>

\* VERIFY_TIMEOUT covers name resolution too: the handler gives up, and a leaf
\* that is queued or running stays in the pool with nobody waiting for it.
VerifyTimeout(r) ==
    /\ closure[r] \in {"resolving", "verifying"}
    /\ leaf' = [leaf EXCEPT ![r] = IF @ = "done" THEN "none" ELSE @]
    /\ Finish(r, "page")
    /\ UNCHANGED <<client, kind, queue, permits>>

\* A handler panics: the JoinHandle reports it and the middleware's expect
\* turns it into a panic of the request's task, which CatchPanic answers.
Panic(r) ==
    /\ closure[r] \in {"handling", "querying", "verifying"}
    /\ Finish(r, "panic")
    /\ UNCHANGED <<client, kind, leaf, queue, permits>>

-----------------------------------------------------------------------------
(* Back on the connection *)

\* Mutant: a panic ends the request's task before it gives the permit back.
RespondLeaksPermit(r) ==
    /\ client[r] = "waiting" /\ reply[r] # "none"
    /\ client' = [client EXCEPT ![r] = IF reply[r] = "file" THEN "streaming" ELSE "idle"]
    /\ reply' = [reply EXCEPT ![r] = "none"]
    /\ permits' = IF reply[r] = "panic" THEN permits ELSE permits + 1
    /\ UNCHANGED <<kind, closure, leaf, queue>>

\* Mutant: nobody answers for a handler that panicked.
RespondUnlessPanic(r) ==
    /\ client[r] = "waiting" /\ reply[r] \in {"page", "file"}
    /\ client' = [client EXCEPT ![r] = IF reply[r] = "file" THEN "streaming" ELSE "idle"]
    /\ reply' = [reply EXCEPT ![r] = "none"]
    /\ permits' = permits + 1
    /\ UNCHANGED <<kind, closure, leaf, queue>>

\* The awaiting task takes the output; the response future ends and gives its
\* permit back.  Only then is a file's body read.
Respond(r) ==
    /\ client[r] = "waiting" /\ reply[r] # "none"
    /\ client' = [client EXCEPT ![r] = IF reply[r] = "file" THEN "streaming" ELSE "idle"]
    /\ reply' = [reply EXCEPT ![r] = "none"]
    /\ permits' = permits + 1
    /\ UNCHANGED <<kind, closure, leaf, queue>>

\* The connection reads a file's next chunk: a task of the pool, no permit.
ReadChunk(r) ==
    /\ client[r] = "streaming" /\ leaf[r] = "none"
    /\ SubmitLeaf(r)
    /\ UNCHANGED <<client, kind, closure, reply, permits>>

\* The chunk is sent; it may have been the last one.
SendChunk(r) ==
    /\ client[r] = "streaming" /\ leaf[r] = "done"
    /\ leaf' = [leaf EXCEPT ![r] = "none"]
    /\ client' \in {client, [client EXCEPT ![r] = "idle"]}
    /\ UNCHANGED <<kind, closure, reply, queue, permits>>

\* Mutant: dropping the JoinHandle cancels the closure.
LeaveAborts(r) ==
    /\ client[r] = "waiting"
    /\ closure[r] # "none" => Cardinality(Abandoned) < MaxAbandoned
    /\ client' = [client EXCEPT ![r] = "idle"]
    /\ closure' = [closure EXCEPT ![r] = "none"]
    /\ reply' = [reply EXCEPT ![r] = "none"]
    /\ permits' = permits + 1
    /\ UNCHANGED <<kind, leaf, queue>>

\* The client goes away before its answer: hyper drops the response future.
\* That releases the permit and the JoinHandle; the closure, queued or
\* running, is not cancelled.  MaxAbandoned bounds how many such closures the
\* model follows (0: every client waits for its answer).
LeaveWhileWaiting(r) ==
    /\ client[r] = "waiting"
    /\ closure[r] # "none" => Cardinality(Abandoned) < MaxAbandoned
    /\ client' = [client EXCEPT ![r] = "idle"]
    /\ reply' = [reply EXCEPT ![r] = "none"]
    /\ permits' = permits + 1
    /\ UNCHANGED <<kind, closure, leaf, queue>>

\* Mutant: a client that leaves always gives a permit back.
LeaveGivesPermit(r) ==
    /\ client[r] \in {"received", "streaming"}
    /\ client' = [client EXCEPT ![r] = "idle"]
    /\ leaf' = [leaf EXCEPT ![r] = IF @ = "done" THEN "none" ELSE @]
    /\ permits' = permits + 1
    /\ UNCHANGED <<kind, closure, reply, queue>>

\* The client goes away while its body is read, or while a file is sent.
LeaveElsewhere(r) ==
    /\ client[r] \in {"received", "streaming"}
    /\ client' = [client EXCEPT ![r] = "idle"]
    /\ leaf' = [leaf EXCEPT ![r] = IF @ = "done" THEN "none" ELSE @]
    /\ UNCHANGED <<kind, closure, reply, queue, permits>>

-----------------------------------------------------------------------------
(* Specification *)

Outside(r) ==
    \/ \E k \in Kinds : Arrive(r, k)
    \/ RefuseBody(r)
    \/ Admit(r)
    \/ Shed(r)
    \/ LeaveWhileWaiting(r)
    \/ LeaveElsewhere(r)

\* The steps a handler takes by itself, is woken up for, or is timed out of.
ClosureStep(r) ==
    \/ Probe(r) \/ ServeFile(r) \/ MissFile(r)
    \/ AnswerEarly(r) \/ CountHit(r) \/ RenderPage(r)
    \/ VerifyCaptcha(r) \/ Resolved(r) \/ Verdict(r) \/ VerifyTimeout(r)
    \/ Panic(r)

Connection(r) == Respond(r) \/ ReadChunk(r) \/ SendChunk(r)

Next ==
    \/ StartTask
    \/ \E r \in Requests : Outside(r) \/ ClosureStep(r) \/ EndLeaf(r) \/ Connection(r)

\* The fairness of its steps is stated in Shutdown, which also ends them.
SafeSpec == Init /\ [][Next]_vars

-----------------------------------------------------------------------------
(* Properties *)

\* Each variable has its type.
TypeOK ==
    /\ client \in [Requests -> ClientStates]
    /\ kind \in [Requests -> Kinds]
    /\ closure \in [Requests -> RunningStages \cup {"none", "queued"}]
    /\ leaf \in [Requests -> {"none", "queued", "running", "done"}]
    /\ reply \in [Requests -> {"none", "page", "file", "panic"}]
    /\ queue \in Seq(Tasks)
    /\ permits \in 0..MaxConcurrentRequests

\* No permit is lost or made up, whichever way a request ends (answer, panic,
\* client gone before, while or after its closure runs): a permit is free or
\* belongs to a request that waits for its answer.  A leak would make the site
\* answer 503 forever; a surplus would void the bound of main.rs:52.
PermitAccounting == permits + Cardinality(Waiting) = MaxConcurrentRequests

\* The queue and the tasks agree: what is queued is in the queue once, and
\* nothing else is.  A task is never submitted twice, lost, or run while it is
\* still queued ("at most one is outstanding per request", main.rs:59).
Queued ==
    {t \in Tasks : IF t.task = "closure" THEN closure[t.req] = "queued"
                                        ELSE leaf[t.req] = "queued"}

QueueMatchesTasks == IsInjective(queue) /\ ToSet(queue) = Queued

\* A closure waits for a leaf only while there is one, and a leaf that has a
\* result has someone to take it: otherwise the thread of the closure is lost,
\* or the leaf's result wakes up the wrong request.
LeavesHaveOwners ==
    \A r \in Requests :
        /\ r \in AwaitingLeaf => leaf[r] # "none"
        /\ leaf[r] = "done" => LeafIsAwaited(r)

\* The deadlock of main.rs:62: every thread is held by a handler that waits
\* for a leaf behind it in the queue.  It must not happen.
Starved == {r \in AwaitingLeaf : leaf[r] = "queued"}

NoCircularWait == Cardinality(Starved) < MaxBlockingThreads

\* Tasks the pool has been given and not finished.
Demand ==
    Cardinality(LiveClosures) + Cardinality({r \in Requests : leaf[r] \in {"queued", "running"}})

\* "peak demand is 2 * MAX_CONCURRENT_REQUESTS" (main.rs:60).
PeakDemand == Demand <= 2 * MaxConcurrentRequests

\* The same bound for what the handlers themselves draw, closures that
\* outlived their client included: a closure and at most one leaf each.
HandlerDemandBounded ==
    Cardinality(LiveClosures) + Cardinality(AwaitingLeaf)
        <= 2 * (MaxConcurrentRequests + MaxAbandoned)

\* A closure ends although nobody waits for it any more, and with it the hold
\* on its thread.
EveryClosureEnds ==
    \A r \in Requests : closure[r] # "none" ~> closure[r] = "none"

\* The pool implements the contract of admission control: the limit holds,
\* nobody is turned away below it, and every request that was admitted leaves,
\* answered or given up by its client.
Admitted == INSTANCE Admission WITH
    Limit <- MaxConcurrentRequests,
    inside <- Waiting,
    turnedAway <- {r \in Requests : client[r] = "shed"}

ImplementsAdmission == Admitted!ASpec
===============================================================================
