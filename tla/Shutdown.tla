------------------------------- MODULE Shutdown -------------------------------
(***************************************************************************)
(* The end of the process: main, async_main's graceful shutdown and        *)
(* shutdown_signal of src/main.rs, around the request path of              *)
(* BlockingPool.                                                           *)
(*                                                                         *)
(* The signal only closes the listener and the idle connections.  The      *)
(* requests under way are answered first; then async_main returns and main *)
(* drops the runtime, which waits for every thread of the pool.  What a    *)
(* dropped runtime does with tasks is tokio's, and modelled from how main  *)
(* leaves it to it.  The second Ctrl+C, and an orchestrator's SIGKILL, end *)
(* the process whatever it is doing and are not actions of the model.      *)
(***************************************************************************)
EXTENDS BlockingPool

VARIABLES
    process,    \* what main is doing
    reading     \* after the signal: connections with half a request's head

svars == <<vars, process, reading>>

ProcessStates == {"serving", "draining", "dropping", "exited"}

\* A step of the request path; the process stays as it is.
Within(step) == step /\ UNCHANGED <<process, reading>>

SInit ==
    /\ Init
    /\ process = "serving"
    /\ reading = {}

Serve ==
    /\ process = "serving"
    /\ Within(Next)

-----------------------------------------------------------------------------
(* Draining: the listener is closed *)

Unused(r) == client[r] \in {"idle", "shed"} /\ closure[r] = "none" /\ leaf[r] = "none"

\* SIGINT or SIGTERM.  Idle connections are closed; one that has sent a part
\* of a request's head may still send the rest.
ReceiveSignal ==
    /\ process = "serving"
    /\ process' = "draining"
    /\ reading' \in SUBSET {r \in Requests : Unused(r)}
    /\ UNCHANGED vars

\* The rest arrives.  There is no header-read timeout.
FinishHead(r) ==
    /\ process = "draining"
    /\ r \in reading
    /\ \E k \in Kinds : Arrive(r, k)
    /\ reading' = reading \ {r}
    /\ process' = process

\* Or its client goes away.
LeaveHead(r) ==
    /\ process = "draining"
    /\ r \in reading
    /\ reading' = reading \ {r}
    /\ UNCHANGED <<vars, process>>

NothingArrives == \A r \in Requests : client'[r] = "received" => client[r] = "received"

\* The requests under way go on as ever.
Drain ==
    /\ process = "draining"
    /\ Within(Next /\ NothingArrives)

\* The connections that are still open.
Open == reading \cup {r \in Requests : client[r] \in {"received", "waiting", "streaming"}}

\* The last connection is closed: axum::serve and async_main return, and the
\* runtime goes out of main's scope.
Drained ==
    /\ process = "draining"
    /\ Open = {}
    /\ process' = "dropping"
    /\ UNCHANGED <<vars, reading>>

-----------------------------------------------------------------------------
(* Dropping the runtime: what is left belongs to clients that have gone *)

\* A thread that was idle when the pool was shut down takes a task from the
\* queue only to cancel it.  Who waits for a cancelled leaf gets an error.
CancelTask ==
    /\ process = "dropping"
    /\ queue # <<>>
    /\ BusyThreads < MaxBlockingThreads
    /\ queue' = Tail(queue)
    /\ LET r == Head(queue).req IN
         \/ /\ Head(queue).task = "closure"
            /\ closure' = [closure EXCEPT ![r] = "none"]
            /\ leaf' = leaf
         \/ /\ Head(queue).task = "leaf"
            /\ leaf' = [leaf EXCEPT ![r] = IF LeafIsAwaited(r) THEN "done" ELSE "none"]
            /\ closure' = closure
    /\ UNCHANGED <<client, kind, reply, permits, process, reading>>

\* Mutant: a task that is refused is never heard of.
RefuseLeaf_Silently(r) ==
    /\ process = "dropping"
    /\ \/ closure[r] = "serving" /\ GoTo(r, "probing")
       \/ closure[r] = "querying" /\ kind[r] = "post" /\ GoTo(r, "resolving")
    /\ UNCHANGED <<client, kind, leaf, reply, queue, permits, process, reading>>

\* The pool takes no more tasks: a closure that submits a leaf has the error
\* at once.
RefuseLeaf(r) ==
    /\ process = "dropping"
    /\ \/ closure[r] = "serving" /\ GoTo(r, "probing")
       \/ closure[r] = "querying" /\ kind[r] = "post" /\ GoTo(r, "resolving")
    /\ leaf' = [leaf EXCEPT ![r] = "done"]
    /\ UNCHANGED <<client, kind, reply, queue, permits, process, reading>>

\* A closure runs on, on its thread; what it waits for outside the pool has
\* ended in an error.
RunOn(r) ==
    /\ process = "dropping"
    /\ Within(ClosureStep(r) /\ queue' = queue)

\* The threads that are busy go on with the queue.
RunQueue ==
    /\ process = "dropping"
    /\ Within(StartTask \/ \E r \in Requests : EndLeaf(r))

\* Mutant: the runtime is shut down in the background.
Exit_AtOnce ==
    /\ process = "dropping"
    /\ process' = "exited"
    /\ UNCHANGED <<vars, reading>>

\* Every thread of the pool has ended: main returns.
Exit ==
    /\ process = "dropping"
    /\ queue = <<>> /\ BusyThreads = 0
    /\ process' = "exited"
    /\ UNCHANGED <<vars, reading>>

-----------------------------------------------------------------------------
(* Specification *)

SNext ==
    \/ Serve
    \/ ReceiveSignal \/ Drain \/ Drained
    \/ CancelTask \/ RunQueue \/ Exit
    \/ \E r \in Requests : FinishHead(r) \/ LeaveHead(r) \/ RefuseLeaf(r) \/ RunOn(r)

SSafeSpec == SInit /\ [][SNext]_svars

\* The steps that the closure of r takes, in any state of the process.
ClosureRuns(r) ==
    \/ process \in {"serving", "draining"} /\ Within(ClosureStep(r))
    \/ RefuseLeaf(r) \/ RunOn(r)

\* Threads, handlers and connection tasks are scheduled; the database and
\* Google answer or fail in the end; main goes on when it can.  Clients owe
\* nothing: they may send, wait or leave as they please, and nobody has to
\* send a signal.
SFairness ==
    /\ WF_svars(process # "exited" /\ Within(StartTask))
    /\ WF_svars(Drained)
    /\ WF_svars(Exit)
    /\ \A r \in Requests :
         /\ WF_svars(process # "exited" /\ Within(EndLeaf(r)))
         /\ WF_svars(ClosureRuns(r))
         /\ WF_svars(process # "exited" /\ Within(Respond(r)))

SSpec == SSafeSpec /\ SFairness

-----------------------------------------------------------------------------
(* Properties *)

\* with_graceful_shutdown, main.rs:354: the runtime is dropped only when no
\* connection is open any more, so that no request under way loses its answer
\* or the rest of its file; and when main returns no closure stands on a
\* thread, and nothing is left queued or running in the pool.  It says nothing
\* of what an abandoned closure got done: what it awaits of the database once
\* the runtime is dropped ends in an error (RunOn), and its hit may be left
\* half counted, as after any failed statement in PhpCount.
GracefulExit ==
    /\ process \in ProcessStates
    /\ process \in {"dropping", "exited"} => Open = {}
    /\ process = "exited" =>
          \A r \in Requests : closure[r] = "none" /\ leaf[r] \notin {"queued", "running"}

\* Connections only their clients can bring to an end: half a head, half a
\* body, or a file that nobody reads.
Held == reading \cup {r \in Requests : client[r] \in {"received", "streaming"}}

\* Once asked to stop the process does stop, unless again and again a client
\* holds on to its connection: neither the handlers nor the pool they wait
\* for, nor what clients that have gone left behind, keep it.
ShutdownCompletes ==
    process \in {"draining", "dropping"} ~> process = "exited" \/ Held # {}
===============================================================================
