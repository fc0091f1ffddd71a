------------------------------ MODULE JobQueue ------------------------------
(***************************************************************************)
(* app/executor/jobqueue.py: a bounded FIFO queue drained by a fixed pool  *)
(* of asyncio worker tasks.                                                *)
(*                                                                         *)
(* One action is one stretch of code between two awaits, which is what the *)
(* event loop runs without interruption.  execute() and the on_complete    *)
(* hook are the awaits of a worker: each is a state of its task.  Time is  *)
(* abstracted to the two facts the code asks of it: whether the grace of   *)
(* stop() has expired, and whether a finished job is older than JOB_TTL_S. *)
(* The asyncio.Queue (items, unfinished-task counter, join) is modelled    *)
(* from the calls this file makes on it.                                   *)
(***************************************************************************)
EXTENDS Integers, Sequences, FiniteSets

CONSTANTS
    Jobs,         \* every job a client may submit
    SyncJobs,     \* those submitted with submit(); the others use submit_async()
    Workers,      \* worker tasks (SANDBOX_WORKERS of them)
    QueueDepth,   \* SANDBOX_QUEUE_DEPTH; 0 is unbounded, as in asyncio.Queue
    HookAwaits,   \* may on_complete suspend?  (it does where it persists the run)
    NoJob         \* what a worker without a job holds

ASSUME JobsAssumption == SyncJobs \subseteq Jobs /\ NoJob \notin Jobs
ASSUME WorkersAssumption == IsFiniteSet(Workers)
ASSUME QueueDepthAssumption == QueueDepth \in Nat
ASSUME HookAwaitsAssumption == HookAwaits \in BOOLEAN

AsyncJobs == Jobs \ SyncJobs

VARIABLES
    queue,        \* items of _queue
    unfinished,   \* asyncio.Queue's count of put minus task_done
    active,       \* _active
    closing,      \* _closing
    stop,         \* how far the service's life has come, see StopStates
    joined,       \* did wait_for(_queue.join()) return before the grace expired?
    task,         \* each worker task, see TaskStates
    current,      \* the local variable job of each worker
    status,       \* Job.status ("new" before the job is submitted)
    future,       \* Job.future ("none" for a job of submit_async)
    finishedAt,   \* Job.finished_at: "none", "recent" or past its TTL "expired"
    hook,         \* what became of job.on_complete(job)
    tracked       \* keys of _jobs

vars == <<queue, unfinished, active, closing, stop, joined, task, current,
          status, future, finishedAt, hook, tracked>>

jobVars  == <<status, future, finishedAt, hook>>
stopVars == <<closing, stop, joined>>

StopStates   == {"constructed", "serving", "joining", "cancelling", "stopped"}
TaskStates   == {"uncreated", "idle", "executing", "finalizing", "dead"}
JobStates    == {"new", "queued", "running", "done", "error"}
FutureStates == {"none", "pending", "result", "exception", "cancelled"}
HookStates   == {"none", "running", "returned", "raised", "interrupted"}

TypeOK ==
    /\ queue \in Seq(Jobs)
    /\ unfinished \in Nat
    /\ active \in Nat
    /\ closing \in BOOLEAN
    /\ stop \in StopStates
    /\ joined \in BOOLEAN
    /\ task \in [Workers -> TaskStates]
    /\ current \in [Workers -> Jobs \cup {NoJob}]
    /\ status \in [Jobs -> JobStates]
    /\ future \in [Jobs -> FutureStates]
    /\ finishedAt \in [Jobs -> {"none", "recent", "expired"}]
    /\ hook \in [Jobs -> HookStates]
    /\ tracked \in SUBSET AsyncJobs

-----------------------------------------------------------------------------

Init ==
    /\ queue = <<>>
    /\ unfinished = 0
    /\ active = 0
    /\ closing = FALSE
    /\ stop = "constructed"
    /\ joined = FALSE
    /\ task = [w \in Workers |-> "uncreated"]
    /\ current = [w \in Workers |-> NoJob]
    /\ status = [j \in Jobs |-> "new"]
    /\ future = [j \in Jobs |-> "none"]
    /\ finishedAt = [j \in Jobs |-> "none"]
    /\ hook = [j \in Jobs |-> "none"]
    /\ tracked = {}

Start ==
    /\ stop = "constructed"
    /\ stop' = "serving"
    /\ closing' = FALSE
    /\ task' = [w \in Workers |-> "idle"]
    /\ UNCHANGED <<queue, unfinished, active, joined, current, jobVars, tracked>>

(* asyncio's maxsize: a bound of zero is no bound. *)
Full == QueueDepth > 0 /\ Len(queue) >= QueueDepth

Accepting == ~closing /\ ~Full

(* put_nowait; the Job is created with status "queued". *)
Enqueue(j) ==
    /\ Accepting
    /\ status[j] = "new"
    /\ queue' = Append(queue, j)
    /\ unfinished' = unfinished + 1
    /\ status' = [status EXCEPT ![j] = "queued"]

(* Mutated forms: stand-ins for a plausible slip in the definition that      *)
(* follows, used only to see that a property notices it.                     *)
Stale_IgnoresTtl == {j \in tracked : finishedAt[j] # "none"}

Stale == {j \in tracked : finishedAt[j] = "expired"}

Prune == tracked' = tracked \ Stale

Submit(j) ==
    /\ j \in SyncJobs
    /\ Enqueue(j)
    /\ future' = [future EXCEPT ![j] = "pending"]
    /\ UNCHANGED <<active, stopVars, task, current, finishedAt, hook, tracked>>

(* The task that awaits submit() is cancelled: its future goes with it. *)
CallerCancelled(j) ==
    /\ future[j] = "pending"
    /\ future' = [future EXCEPT ![j] = "cancelled"]
    /\ UNCHANGED <<queue, unfinished, active, stopVars, task, current,
                   status, finishedAt, hook, tracked>>

SubmitAsync(j) ==
    /\ j \in AsyncJobs
    /\ Enqueue(j)
    /\ tracked' = (tracked \ Stale) \cup {j}
    /\ UNCHANGED <<active, stopVars, task, current, future, finishedAt, hook>>

(* A refused submit_async has pruned before it raises QueueFull. *)
SubmitAsyncRefused ==
    /\ ~Accepting
    /\ \E j \in AsyncJobs : status[j] = "new"
    /\ Prune
    /\ UNCHANGED <<queue, unfinished, active, stopVars, task, current, jobVars>>

(* GET /jobs/{id} prunes, whatever it then finds. *)
GetJob ==
    /\ Prune
    /\ UNCHANGED <<queue, unfinished, active, stopVars, task, current, jobVars>>

TtlElapses(j) ==
    /\ finishedAt[j] = "recent"
    /\ finishedAt' = [finishedAt EXCEPT ![j] = "expired"]
    /\ UNCHANGED <<queue, unfinished, active, stopVars, task, current,
                   status, future, hook, tracked>>

-----------------------------------------------------------------------------
(* The worker _run(w).  Once stop() has called cancel() on it, the next     *)
(* thing its task does is to take the CancelledError.                       *)

Undisturbed == stop \in {"serving", "joining"}

Dequeue(w) ==
    /\ Undisturbed
    /\ task[w] = "idle"
    /\ queue # <<>>
    /\ queue' = Tail(queue)
    /\ current' = [current EXCEPT ![w] = Head(queue)]
    /\ task' = [task EXCEPT ![w] = "executing"]
    /\ status' = [status EXCEPT ![Head(queue)] = "running"]
    /\ active' = active + 1
    /\ UNCHANGED <<unfinished, stopVars, future, finishedAt, hook, tracked>>

LeaveExecution_NoTaskDone(w) ==
    /\ finishedAt' = [finishedAt EXCEPT ![current[w]] = "recent"]
    /\ active' = active - 1
    /\ UNCHANGED unfinished

(* The finally clause, which every way out of the try goes through. *)
LeaveExecution(w) ==
    /\ finishedAt' = [finishedAt EXCEPT ![current[w]] = "recent"]
    /\ active' = active - 1
    /\ unfinished' = unfinished - 1

Resolve(j, f) ==
    future' = [future EXCEPT ![j] = IF @ = "pending" THEN f ELSE @]

Release(w, s) ==
    /\ task' = [task EXCEPT ![w] = s]
    /\ current' = [current EXCEPT ![w] = NoJob]

Complete_HookOnlyOnSuccess(w, outcome) ==
    LET j == current[w] IN
    /\ Undisturbed
    /\ task[w] = "executing"
    /\ status' = [status EXCEPT ![j] = outcome]
    /\ Resolve(j, IF outcome = "done" THEN "result" ELSE "exception")
    /\ LeaveExecution(w)
    /\ Release(w, "idle")
    /\ hook' = [hook EXCEPT ![j] = IF j \in AsyncJobs /\ outcome = "done"
                                  THEN "returned" ELSE @]
    /\ UNCHANGED <<queue, stopVars, tracked>>

(* execute() has ended: the result or the error is recorded, the job is     *)
(* task_done, and the hook runs up to its first await, or to its end.       *)
Complete(w, outcome) ==
    LET j == current[w] IN
    /\ Undisturbed
    /\ task[w] = "executing"
    /\ status' = [status EXCEPT ![j] = outcome]
    /\ Resolve(j, IF outcome = "done" THEN "result" ELSE "exception")
    /\ LeaveExecution(w)
    /\ \/ /\ j \in SyncJobs
          /\ Release(w, "idle")
          /\ UNCHANGED hook
       \/ /\ j \in AsyncJobs /\ HookAwaits
          /\ task' = [task EXCEPT ![w] = "finalizing"]
          /\ hook' = [hook EXCEPT ![j] = "running"]
          /\ UNCHANGED current
       \/ /\ j \in AsyncJobs
          /\ Release(w, "idle")
          /\ \E h \in {"returned", "raised"} : hook' = [hook EXCEPT ![j] = h]
    /\ UNCHANGED <<queue, stopVars, tracked>>

HookEnds_KillsWorker(w, h) ==
    /\ Undisturbed
    /\ task[w] = "finalizing"
    /\ hook' = [hook EXCEPT ![current[w]] = h]
    /\ Release(w, IF h = "returned" THEN "idle" ELSE "dead")
    /\ UNCHANGED <<queue, unfinished, active, stopVars, status, future,
                   finishedAt, tracked>>

(* An exception of the hook is swallowed; either way the worker goes on. *)
HookEnds(w, h) ==
    /\ Undisturbed
    /\ task[w] = "finalizing"
    /\ hook' = [hook EXCEPT ![current[w]] = h]
    /\ Release(w, "idle")
    /\ UNCHANGED <<queue, unfinished, active, stopVars, status, future,
                   finishedAt, tracked>>

-----------------------------------------------------------------------------
(* stop(): the drain, then the cancellation of the worker tasks.            *)

StopCalled ==
    /\ stop = "serving"
    /\ stop' = "joining"
    /\ closing' = TRUE
    /\ UNCHANGED <<queue, unfinished, active, joined, task, current, jobVars,
                   tracked>>

JoinReturns_QueueEmpty ==
    /\ stop = "joining"
    /\ queue = <<>>
    /\ stop' = "cancelling"
    /\ joined' = TRUE
    /\ UNCHANGED <<queue, unfinished, active, closing, task, current, jobVars,
                   tracked>>

JoinReturns ==
    /\ stop = "joining"
    /\ unfinished = 0
    /\ stop' = "cancelling"
    /\ joined' = TRUE
    /\ UNCHANGED <<queue, unfinished, active, closing, task, current, jobVars,
                   tracked>>

GraceExpires ==
    /\ stop = "joining"
    /\ stop' = "cancelling"
    /\ UNCHANGED <<queue, unfinished, active, closing, joined, task, current,
                   jobVars, tracked>>

(* CancelledError in queue.get(): the items stay where they are. *)
CancelIdle(w) ==
    /\ stop = "cancelling"
    /\ task[w] = "idle"
    /\ task' = [task EXCEPT ![w] = "dead"]
    /\ UNCHANGED <<queue, unfinished, active, stopVars, current, jobVars,
                   tracked>>

CancelExecution_ForgetsFuture(w) ==
    /\ stop = "cancelling"
    /\ task[w] = "executing"
    /\ LeaveExecution(w)
    /\ Release(w, "dead")
    /\ UNCHANGED <<queue, stopVars, status, future, hook, tracked>>

(* CancelledError in execute(): the status stays "running", the hook is     *)
(* never called.                                                            *)
CancelExecution(w) ==
    /\ stop = "cancelling"
    /\ task[w] = "executing"
    /\ Resolve(current[w], "cancelled")
    /\ LeaveExecution(w)
    /\ Release(w, "dead")
    /\ UNCHANGED <<queue, stopVars, status, hook, tracked>>

CancelHook_Swallowed(w) ==
    /\ stop = "cancelling"
    /\ task[w] = "finalizing"
    /\ hook' = [hook EXCEPT ![current[w]] = "raised"]
    /\ UNCHANGED <<queue, unfinished, active, stopVars, task, current, status,
                   future, finishedAt, tracked>>

(* CancelledError in on_complete(): "except Exception" does not catch it. *)
CancelHook(w) ==
    /\ stop = "cancelling"
    /\ task[w] = "finalizing"
    /\ hook' = [hook EXCEPT ![current[w]] = "interrupted"]
    /\ Release(w, "dead")
    /\ UNCHANGED <<queue, unfinished, active, stopVars, status, future,
                   finishedAt, tracked>>

StopReturns ==
    /\ stop = "cancelling"
    /\ \A w \in Workers : task[w] = "dead"
    /\ stop' = "stopped"
    /\ UNCHANGED <<queue, unfinished, active, closing, joined, task, current,
                   jobVars, tracked>>

-----------------------------------------------------------------------------

CancelDelivered(w) == CancelIdle(w) \/ CancelExecution(w) \/ CancelHook(w)

CompleteSome(w) == \E outcome \in {"done", "error"} : Complete(w, outcome)

HookEndsSome(w) == \E h \in {"returned", "raised"} : HookEnds(w, h)

WorkerStep(w) ==
    \/ Dequeue(w)
    \/ CompleteSome(w)
    \/ HookEndsSome(w)
    \/ CancelDelivered(w)

ClientStep ==
    \/ \E j \in Jobs :
         \/ Submit(j)
         \/ SubmitAsync(j)
         \/ CallerCancelled(j)
    \/ SubmitAsyncRefused
    \/ GetJob

LifeStep == Start \/ StopCalled \/ JoinReturns \/ GraceExpires \/ StopReturns

Next ==
    \/ ClientStep
    \/ LifeStep
    \/ \E w \in Workers : WorkerStep(w)
    \/ \E j \in Jobs : TtlElapses(j)

Spec == Init /\ [][Next]_vars

(* The event loop runs every ready task, execute() is bounded by its wall   *)
(* timeouts, the hook by one database write, and the grace is a timer.      *)
(* Clients owe nothing, and nobody has to call stop().                      *)
Fairness ==
    /\ WF_vars(Start)
    /\ WF_vars(\E w \in Workers : Dequeue(w))
    /\ \A w \in Workers : /\ WF_vars(CompleteSome(w))
                          /\ WF_vars(HookEndsSome(w))
                          /\ WF_vars(CancelDelivered(w))
    /\ WF_vars(JoinReturns)
    /\ WF_vars(GraceExpires)
    /\ WF_vars(StopReturns)

FairSpec == Spec /\ Fairness

-----------------------------------------------------------------------------
(* Safety                                                                   *)

Executing == {w \in Workers : task[w] = "executing"}

Queued(j) == \E i \in 1..Len(queue) : queue[i] = j

(* What GET /stats reports, and what JoinReturns relies on. *)
Stats == [active |-> active, queued |-> Len(queue)]

(* The two counters never drift from what they count, on any path out of an *)
(* execution (result, error, cancellation): join() returns exactly when no  *)
(* accepted job is queued or executing, and /stats tells the truth.         *)
Accounting ==
    /\ Stats.active = Cardinality(Executing)
    /\ unfinished = Stats.queued + Cardinality(Executing)

(* Backpressure: with a bounded queue, jobs admitted and not finished never *)
(* exceed the queue's depth plus one per worker, whatever the submissions.  *)
AdmissionBound ==
    QueueDepth > 0 => Stats.active + Stats.queued <= QueueDepth + Cardinality(Workers)

(* A job is in one place at most: once in the queue, or with one worker.    *)
(* No job is ever executed by two workers or put back by a cancelled get(). *)
OneOwner ==
    /\ \A i, k \in 1..Len(queue) : queue[i] = queue[k] => i = k
    /\ \A w \in Workers : current[w] # NoJob => ~Queued(current[w])
    /\ \A v, w \in Workers : current[v] = current[w] /\ current[v] # NoJob => v = w

(* Whoever awaits submit() awaits a job that is still queued or executing:  *)
(* no path leaves a future pending behind a job that has gone.              *)
NoCallerForgotten ==
    \A j \in Jobs : future[j] = "pending" =>
        Queued(j) \/ \E w \in Executing : current[w] = j

(* An id that submit_async() returned can be polled until its job is older  *)
(* than its TTL, and no id is pollable that was not accepted.               *)
PollableUntilTtl ==
    \A j \in AsyncJobs :
        /\ j \in tracked => status[j] # "new"
        /\ status[j] # "new" /\ finishedAt[j] # "expired" => j \in tracked

(* If join() returned within the grace, the cancellation that follows finds *)
(* no execution to interrupt and leaves no accepted job unfinished.         *)
DrainSparesExecutions ==
    joined => \A j \in Jobs : status[j] \in {"new", "done", "error"}

-----------------------------------------------------------------------------
(* Refinement                                                               *)

Mode == IF ~closing THEN "open"
        ELSE IF stop = "joining" \/ joined THEN "draining" ELSE "expired"

Slot == [w \in Workers |-> IF task[w] = "executing" THEN current[w] ELSE NoJob]

SettledJobs == {j \in Jobs : status[j] \in {"done", "error"}}

AbortedJobs == {j \in Jobs : status[j] = "running" /\ finishedAt[j] # "none"}

Service == INSTANCE JobService WITH
    backlog <- queue,
    slot    <- Slot,
    settled <- SettledJobs,
    aborted <- AbortedJobs,
    mode    <- Mode

(* The queue implements the service its callers rely on: FIFO starts, each  *)
(* job executed at most once, nothing accepted while draining, no execution *)
(* given up before the grace has expired.                                   *)
ImplementsService == Service!Spec

-----------------------------------------------------------------------------
(* Liveness                                                                 *)

Settled(j) == status[j] \in {"done", "error"}

(* A job that was accepted is executed to its end; only a stop() whose      *)
(* grace expired excuses the queue.                                         *)
AcceptedJobsSettle ==
    \A j \in Jobs : status[j] = "queued" ~>
        Settled(j) \/ (stop \in {"cancelling", "stopped"} /\ ~joined)

(* A settled asynchronous job is finalized unless the service is stopping.  *)
SettledJobsAreFinalized ==
    \A j \in AsyncJobs : Settled(j) ~>
        hook[j] \in {"returned", "raised"} \/ stop \in {"cancelling", "stopped"}

(* stop() returns, whatever is queued, executing or being finalized.        *)
StopTerminates == stop = "joining" ~> stop = "stopped"
=============================================================================
