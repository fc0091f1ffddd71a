------------------------------- MODULE Service -------------------------------
(***************************************************************************)
(* What app/api/routes.py makes of the job queue: POST /execute and        *)
(* POST /jobs take a place of the caller's max_inflight, hand the job to   *)
(* the queue, and finalize it, the one in the handler and the other in the *)
(* queue's hook.  _finalize() saves the run in a thread (app/store.py),    *)
(* under a lock, and the lifespan (app/main.py) drains the queue before it *)
(* closes the database.                                                    *)
(*                                                                         *)
(* The queue is the abstract JobService, which JobQueue implements, with   *)
(* the hooks its workers run added here.  One caller, no administrator,    *)
(* stands for all: limiter and history keep callers apart.  The request    *)
(* window is the subject of RateLimit, the quarantine of Abuse.  Runs are  *)
(* persisted (SANDBOX_PERSIST).                                            *)
(***************************************************************************)
EXTENDS Naturals, Sequences, FiniteSets

CONSTANTS
    Reqs,         \* requests of the caller
    SyncReqs,     \* those to POST /execute; the others go to POST /jobs
    Workers,      \* the queue's workers
    Depth,        \* SANDBOX_QUEUE_DEPTH
    MaxInflight,  \* max_inflight of the limiter
    NoJob         \* what an idle worker holds

ASSUME ReqsAssumption == SyncReqs \subseteq Reqs /\ IsFiniteSet(Reqs) /\ NoJob \notin Reqs
ASSUME CapsAssumption == Depth \in Nat \ {0} /\ MaxInflight \in Nat \ {0}

VARIABLES
    backlog, slot, settled, aborted, mode,   \* the queue, see JobService
    life,       \* of the server, see Lives
    at,         \* where the handler of a request, or its hook, has got to
    hook,       \* the job whose hook a worker runs, or NoJob
    outcome,    \* what execute() came to: "none", "result" or "exception"
    inflight,   \* _inflight of the caller
    thread,     \* the thread of store.save() for the run, see Threads
    conn,       \* is the connection to the database open?
    rows,       \* runs in the database
    deleted,    \* runs the caller had removed from it
    known       \* runs whose id the caller can have: answered, or meta["history_id"]

queueVars == <<backlog, slot, settled, aborted, mode>>
storeVars == <<conn, rows, deleted>>
vars == <<queueVars, life, at, hook, outcome, inflight, thread, storeVars, known>>

Queue == INSTANCE JobService WITH Jobs <- Reqs

(* "closing": uvicorn takes no more requests; then the lifespan's steps. *)
Lives == {"serving", "closing", "draining", "cancelling", "closed"}

(* Waiting for the job (/execute), answered 202 (/jobs), awaiting the save, *)
(* and the ends: finished, refused, failed, cut by a cancellation.          *)
Stages == {"new", "waiting", "accepted", "saving", "finished", "refused", "failed", "cut"}

(* Started, holding the lock, and the ends. *)
Threads == {"none", "ready", "writing", "saved", "failed"}

TypeOK ==
    /\ life \in Lives
    /\ at \in [Reqs -> Stages]
    /\ hook \in [Workers -> (Reqs \ SyncReqs) \cup {NoJob}]
    /\ outcome \in [Reqs -> {"none", "result", "exception"}]
    /\ inflight \in Nat
    /\ thread \in [Reqs -> Threads]
    /\ conn \in BOOLEAN
    /\ rows \in SUBSET Reqs /\ deleted \in SUBSET Reqs /\ known \in SUBSET Reqs

Init ==
    /\ Queue!Init
    /\ life = "serving"
    /\ at = [r \in Reqs |-> "new"]
    /\ hook = [w \in Workers |-> NoJob]
    /\ outcome = [r \in Reqs |-> "none"]
    /\ inflight = 0
    /\ thread = [r \in Reqs |-> "none"]
    /\ conn = TRUE
    /\ rows = {} /\ deleted = {} /\ known = {}

Move(r, stage) == at' = [at EXCEPT ![r] = stage]

Place == IF inflight > 0 THEN inflight - 1 ELSE 0

-----------------------------------------------------------------------------
(* The handlers                                                             *)

Submit(r) ==
    /\ life = "serving" /\ at[r] = "new"
    /\ inflight < MaxInflight /\ Len(backlog) < Depth
    /\ Queue!Accept(r)
    /\ inflight' = inflight + 1
    /\ Move(r, IF r \in SyncReqs THEN "waiting" ELSE "accepted")
    /\ UNCHANGED <<life, hook, outcome, thread, storeVars, known>>

(* Mutated forms, here and below: stand-ins for a plausible slip in the      *)
(* definition that follows, to see that a property notices it.              *)
Refuse_KeepsPlace(r) ==
    /\ life = "serving" /\ at[r] = "new"
    /\ inflight >= MaxInflight \/ Len(backlog) >= Depth
    /\ Move(r, "refused")
    /\ inflight' = IF inflight < MaxInflight THEN inflight + 1 ELSE inflight
    /\ UNCHANGED <<queueVars, life, hook, outcome, thread, storeVars, known>>

(* 429: a place that was taken before the queue refused is given back. *)
Refuse(r) ==
    /\ life = "serving" /\ at[r] = "new"
    /\ inflight >= MaxInflight \/ Len(backlog) >= Depth
    /\ Move(r, "refused")
    /\ UNCHANGED <<queueVars, life, hook, outcome, inflight, thread, storeVars, known>>

(* _finalize() up to its await: the verdict is recorded, which may raise,   *)
(* and the thread is started.                                               *)
Finalize(r) ==
    \/ Move(r, "saving") /\ thread' = [thread EXCEPT ![r] = "ready"]
    \/ Move(r, "failed") /\ UNCHANGED thread

(* POST /execute, with its result or its exception: the place goes back     *)
(* before the run is finalized; an exception is not finalized at all.       *)
Resume(r) ==
    /\ at[r] = "waiting" /\ outcome[r] # "none"
    /\ inflight' = Place
    /\ IF outcome[r] = "result" THEN Finalize(r) ELSE Move(r, "failed") /\ UNCHANGED thread
    /\ UNCHANGED <<queueVars, life, hook, outcome, storeVars, known>>

Saved_Swallows(r) ==
    /\ thread[r] \in {"saved", "failed"}
    /\ Move(r, "finished") /\ known' = known \cup {r}

(* The await of the save is over. *)
Saved(r) ==
    \/ thread[r] = "saved" /\ Move(r, "finished") /\ known' = known \cup {r}
    \/ thread[r] = "failed" /\ Move(r, "failed") /\ UNCHANGED known

Answer(r) ==
    /\ r \in SyncReqs /\ at[r] = "saving"
    /\ Saved(r)
    /\ UNCHANGED <<queueVars, life, hook, outcome, inflight, thread, storeVars>>

-----------------------------------------------------------------------------
(* The queue's workers and their hooks                                      *)

Working == life \in {"serving", "closing", "draining"}

Begin(w) ==
    /\ Working /\ hook[w] = NoJob
    /\ Queue!Begin(w)
    /\ UNCHANGED <<life, at, hook, outcome, inflight, thread, storeVars, known>>

(* A job of /execute: its future is set, for whom it may concern.  A job of  *)
(* /jobs, with a result or an error: the worker goes on with on_complete(). *)
Settle(w) ==
    /\ Working
    /\ Queue!Settle(w)
    /\ \E o \in {"result", "exception"} : outcome' = [outcome EXCEPT ![slot[w]] = o]
    /\ IF slot[w] \in SyncReqs
       THEN UNCHANGED <<at, hook, inflight, thread>>
       ELSE /\ Finalize(slot[w])
            /\ IF thread' = thread
               THEN inflight' = Place /\ UNCHANGED hook
               ELSE hook' = [hook EXCEPT ![w] = slot[w]] /\ UNCHANGED inflight
    /\ UNCHANGED <<life, storeVars, known>>

HookEnds_ReleasesSaved(w) ==
    /\ Working /\ hook[w] # NoJob
    /\ Saved(hook[w])
    /\ inflight' = IF thread[hook[w]] = "saved" THEN Place ELSE inflight
    /\ hook' = [hook EXCEPT ![w] = NoJob]
    /\ UNCHANGED <<queueVars, life, outcome, thread, storeVars>>

(* on_complete(): the place goes back in its finally clause. *)
HookEnds(w) ==
    /\ Working /\ hook[w] # NoJob
    /\ Saved(hook[w])
    /\ inflight' = Place
    /\ hook' = [hook EXCEPT ![w] = NoJob]
    /\ UNCHANGED <<queueVars, life, outcome, thread, storeVars>>

-----------------------------------------------------------------------------
(* The store                                                                *)

Locked == \E r \in Reqs : thread[r] = "writing"

Lock(r) ==
    /\ thread[r] = "ready" /\ ~Locked
    /\ thread' = [thread EXCEPT ![r] = "writing"]
    /\ UNCHANGED <<queueVars, life, at, hook, outcome, inflight, storeVars, known>>

Commit(r) ==
    /\ thread[r] = "writing" /\ conn
    /\ thread' = [thread EXCEPT ![r] = "saved"]
    /\ rows' = rows \cup {r}
    /\ UNCHANGED <<queueVars, life, at, hook, outcome, inflight, conn, deleted, known>>

(* SQLite reports an error, or the connection has been closed. *)
WriteFails(r) ==
    /\ thread[r] = "writing"
    /\ thread' = [thread EXCEPT ![r] = "failed"]
    /\ UNCHANGED <<queueVars, life, at, hook, outcome, inflight, storeVars, known>>

(* DELETE /runs/{id}, of a run the caller has seen in GET /runs. *)
DeleteRun(r) ==
    /\ life \in {"serving", "closing"}
    /\ r \in rows /\ ~Locked
    /\ rows' = rows \ {r}
    /\ deleted' = deleted \cup {r}
    /\ UNCHANGED <<queueVars, life, at, hook, outcome, inflight, thread, conn, known>>

-----------------------------------------------------------------------------
(* The shutdown                                                             *)

Handling(r) == r \in SyncReqs /\ at[r] \in {"waiting", "saving"}

(* uvicorn stops listening; the lifespan's part begins when no handler is   *)
(* left, and those that take too long are cancelled.                        *)
StopListening ==
    /\ life = "serving"
    /\ life' = "closing"
    /\ UNCHANGED <<queueVars, at, hook, outcome, inflight, thread, storeVars, known>>

CutHandler(r) ==
    /\ life = "closing" /\ Handling(r)
    /\ Move(r, "cut")
    /\ inflight' = IF at[r] = "waiting" THEN Place ELSE inflight
    /\ UNCHANGED <<queueVars, life, hook, outcome, thread, storeVars, known>>

DrainStarts ==
    /\ life = "closing" /\ \A r \in Reqs : ~Handling(r)
    /\ Queue!Drain
    /\ life' = "draining"
    /\ UNCHANGED <<at, hook, outcome, inflight, thread, storeVars, known>>

(* join() does not wait for hooks. *)
JoinReturns ==
    /\ life = "draining"
    /\ backlog = <<>> /\ \A w \in Workers : slot[w] = NoJob
    /\ life' = "cancelling"
    /\ UNCHANGED <<queueVars, at, hook, outcome, inflight, thread, storeVars, known>>

GraceExpires ==
    /\ life = "draining"
    /\ Queue!Expire
    /\ life' = "cancelling"
    /\ UNCHANGED <<at, hook, outcome, inflight, thread, storeVars, known>>

(* No hook for a job that is cancelled: its place is not given back. *)
CutExecution(w) ==
    /\ life = "cancelling"
    /\ Queue!Abort(w)
    /\ UNCHANGED <<life, at, hook, outcome, inflight, thread, storeVars, known>>

(* The await is cancelled, its thread is not. *)
CutHook(w) ==
    /\ life = "cancelling" /\ hook[w] # NoJob
    /\ Move(hook[w], "cut")
    /\ inflight' = Place
    /\ hook' = [hook EXCEPT ![w] = NoJob]
    /\ UNCHANGED <<queueVars, life, outcome, thread, storeVars, known>>

CloseDb_BeforeStop ==
    /\ life \in {"draining", "cancelling"} /\ conn
    /\ life' = IF \A w \in Workers : slot[w] = NoJob /\ hook[w] = NoJob THEN "closed" ELSE life
    /\ conn' = FALSE
    /\ UNCHANGED <<queueVars, at, hook, outcome, inflight, thread, rows, deleted, known>>

(* close_db(), without the lock, when every worker has gone. *)
CloseDb ==
    /\ life = "cancelling"
    /\ \A w \in Workers : slot[w] = NoJob /\ hook[w] = NoJob
    /\ life' = "closed"
    /\ conn' = FALSE
    /\ UNCHANGED <<queueVars, at, hook, outcome, inflight, thread, rows, deleted, known>>

-----------------------------------------------------------------------------
WorkerStep(w) == Begin(w) \/ Settle(w) \/ HookEnds(w) \/ CutExecution(w) \/ CutHook(w)

HandlerStep(r) == Resume(r) \/ Answer(r) \/ CutHandler(r)

ThreadStep(r) == Lock(r) \/ Commit(r) \/ WriteFails(r)

StopStep == DrainStarts \/ JoinReturns \/ GraceExpires \/ CloseDb

(* A server whose threads have ended stays closed. *)
Exited ==
    /\ life = "closed" /\ \A r \in Reqs : thread[r] \notin {"ready", "writing"}
    /\ UNCHANGED vars

Next ==
    \/ \E r \in Reqs : Submit(r) \/ Refuse(r) \/ HandlerStep(r) \/ ThreadStep(r) \/ DeleteRun(r)
    \/ \E w \in Workers : WorkerStep(w)
    \/ StopListening \/ StopStep
    \/ Exited

Spec == Init /\ [][Next]_vars

(* The event loop and the thread pool run what is ready, execute() is held  *)
(* to its wall timeouts, SQLite to its busy timeout.  Nobody has to submit, *)
(* to delete or to stop the server.                                         *)
FairSpec ==
    /\ Spec
    /\ \A r \in Reqs : WF_vars(HandlerStep(r)) /\ WF_vars(ThreadStep(r))
    /\ \A w \in Workers : WF_vars(WorkerStep(w))
    /\ WF_vars(StopStep)

-----------------------------------------------------------------------------
(* Properties                                                               *)

(* Jobs of the caller that are queued, executing or being finalized. *)
Work ==
    {r \in Reqs : \/ \E i \in 1..Len(backlog) : backlog[i] = r
                  \/ \E w \in Workers : r \in {slot[w], hook[w]}}

(* Cancelled with the workers, or left in the queue they drained. *)
Dropped == {r \in aborted : r \notin SyncReqs}

(* max_inflight bounds the work a caller has in the server, whichever way   *)
(* each job came (routes.py:147, 239, 245): while handlers run, each job    *)
(* that is queued, executing or being finalized has a place, and no place   *)
(* is without a job or a handler, except that of a job dropped at the end.  *)
PlacesMeanWork ==
    /\ life = "serving" => Cardinality(Work) <= inflight /\ inflight <= MaxInflight
    /\ inflight = Cardinality({r \in Reqs : at[r] = "waiting"})
                      + Cardinality((Work \cup Dropped) \ SyncReqs)

(* An id the caller is given, in an answer or by polling, names a run that  *)
(* is in the history, unless the caller removed it (routes.py:101-102,      *)
(* 238, 264): never one whose save is still to come, or failed.             *)
IdHasRow == known \subseteq rows \cup deleted

(* "graceful drain of in-flight jobs" and then close_db() (main.py:71-72):   *)
(* when the database is closed, a run that is still to be saved is one      *)
(* whose handler or hook was cancelled.                                     *)
CloseLosesOnlyCut ==
    ~conn => \A r \in Reqs : thread[r] \in {"ready", "writing"} => at[r] = "cut"

(* A caller with every place taken has one again in the end, whatever fails *)
(* on the way (routes.py:147, 239), or the server stops.                    *)
PlacesComeBack == inflight = MaxInflight ~> inflight < MaxInflight \/ life # "serving"
=============================================================================
