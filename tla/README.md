# A TLA+ model of SANBOSY, the code sandbox

SANBOSY is a FastAPI server that runs untrusted programs in gVisor containers.
This directory holds TLA+ modules translated from its Python code, TLC
configurations that check them on small instances, and TLAPS proofs of the
results that matter most for every instance. Paths below are relative to the
repository; `runner.py` is `app/executor/runner.py`, and so on.

1. Inventory
2. Modules and how they correspond to the code
3. Runs
4. Fairness
5. Proofs
6. What is not modelled
7. Where the code and its words differ
8. Plan

## 1. Inventory

| Component | Source | State it keeps | Operations | Hard behaviours |
|---|---|---|---|---|
| Job queue and workers | `app/executor/jobqueue.py` | bounded FIFO, two counters, worker tasks, job registry | submit, submit_async, get_job, worker loop, start, stop | cancellation at every await, graceful drain racing hooks, TTL pruning |
| Execution of one request | `app/executor/runner.py` | run directory, container, result | stage, compile, run, retry, kill, delete, clean | wall timeout, tool timeouts, cancellation, launch retry |
| Streaming execution | `app/executor/runner.py`, `app/api/routes.py` | stream slots, generator frames | execute_stream, event generator | client disconnect at every yield |
| Interactive terminals | `app/executor/terminal.py`, `app/api/routes.py` | session registry, per-session pty and container | ticket, start, read, write, watchdog, close, shutdown | double close, close during start, caps across awaits |
| Rate limiter | `app/api/ratelimit.py` | sliding window and in-flight count per identity | acquire, release, gc | every path must pair acquire and release |
| Abuse tracker | `app/abuse.py` | sliding window of weighted verdicts | classify, record, score, report | window edges, threshold |
| Redis backends | `app/backends.py` | the same two windows, shared by nodes | Lua scripts | crash of a node holding slots, expiry |
| Run history | `app/store.py` | SQLite database behind one lock | save, list, get, delete, close | close racing a save thread |
| Janitor | `app/executor/runner.py`, `app/main.py`, `app/cli.py` | run directories, build caches | sweep_orphans, enforce_cache_limit | sweeping what is still alive |
| HTTP routes and lifespan | `app/api/routes.py`, `app/main.py` | application state | one handler per route, startup, shutdown | composition of all of the above |
| Request preparation | `app/api/routes.py`, `app/languages/registry.py`, `app/executor/oci.py` | none | resolve, build_config | table-driven choices |
| Authentication, key file | `app/api/auth.py`, `scripts/make_key.py` | key file | load, look up, issue | read-modify-write of a file |
| Web UI, deployment, rootfs build | `app/ui`, `deploy`, `scripts` | none of the server's | scripts | outside the server |

**How they interact.** Everything runs on one asyncio event loop; a stretch of
code between two awaits (or between two yields of a generator) is atomic, and
interleavings happen only there. `POST /execute` and `POST /jobs` take a place
in the rate limiter, put a job in the queue and wait for its future or return
its id; a worker calls `execute()`, resolves the future and, for `/jobs`, awaits
the `on_complete` hook, which scores the result (abuse tracker), saves it (a
thread under the store's lock) and gives the limiter's place back. `POST
/execute/stream` bypasses the queue: it takes a limiter place and a slot of a
semaphore, and drives `execute_stream()` from the response's generator. The
terminal WebSocket is admitted by `TerminalManager` and drives one
`TerminalSession` with four tasks of its own. The janitor deletes run
directories by age. `lifespan()` starts all this and, at shutdown, stops the
janitor, the terminals and the queue, in this order, and closes the database.

**What makes each component correct.**

- *Queue*: bounded admission; each accepted job executed once, in order, by one
  worker; exact counters; no caller waits for a job nobody has; a drain within
  its grace cuts no execution; stop() returns.
- *Execution*: phases in order; user code at most once; a bounded number of
  launches; the sandbox and its directory gone afterwards; a result that says
  what happened; an end, whatever the program does.
- *Streaming*: slots and places given back exactly; sandboxes bounded by slots;
  the end told once, after all output; no stall but the client's.
- *Terminals*: caps; counts that equal the sessions; every live sandbox known to
  the manager; shutdown reaches them all; every session ends.
- *Rate limiter*: it decides as if it kept everything, although most of the history is
  forgotten; neither cap is ever exceeded; a useful Retry-After.
- *Abuse tracker*: the score is the weight of the window; quarantine ends.
- *Redis*: the limiter's promises across nodes, and what a crash leaves of them.
- *Store*: one writer at a time; the connection outlives every save somebody waits for.
- *Janitor*: removes what a crash left, and no execution at work within its timeouts.
- *Service*: an id that is given out names a run in the history; a place is held by work
  and by nothing else; a shutdown loses only what it cut.
- *Key file*: whatever can be read keeps the cap and has each name once; nothing is built on
  a file an interrupted save left.

The hazards behind these, each at its line and with the properties that cover
it, are in `PROJECT.json`.

## 2. Modules and how they correspond to the code

**JobService**: the abstract promise of a job queue, in five variables:
accepted jobs start in order, at most once, on a fixed pool, and are given up
only after the grace of the drain. `JobQueue!Service` instantiates it with the
refinement mapping, and `ImplementsService` is its specification.

**JobQueue** (`jobqueue.py`, whole): `queue`, `unfinished`, `active`, `closing`,
`tracked` are the fields of the same name; `task` is where each worker task
stands (waiting in `get()`, executing, in the hook, dead), `current` its local
`job`; `status`, `future`, `finishedAt`, `hook` are the job's fields. Submit,
SubmitAsync, GetJob (each with its `_prune()`), Dequeue, Complete, HookEnds,
Start, StopCalled, JoinReturns, GraceExpires, the cancellations and StopReturns
are the stretches of code between awaits. Time is two facts: whether the grace
is over, and whether a finished job is past its TTL. `HookAwaits` says whether
`on_complete` may suspend, which it does where it saves a run.

**Execution** (`runner.py` 62-248, 377-384): one call of `execute()` with
`_run_with_retry()` and `_run_container()` below it, against the sandbox. `pc`
is the await it stands at; `phase` and `attempt` are what it is doing. A launch
may fail without user code, a program may exit with any code and output, or
never. What the retry looks at (code 128, empty stdout, a marker on stderr) is
kept of an exit; the rest of the output is not. The variable `faults` records
which of the environment's four faults happened (cancellation, a hanging kill, a
hanging delete, a program that exits exactly as a failed launch), so that each
property can say what it is conditional on.

**Limiter**: the abstract promise of the rate limiter, which forgets no admission and no
holder; `open` says of whom a request would be let in now. `RateLimit!Ideal` instantiates it,
mapping `open` to what the guards of `acquire()` come to on the pruned dictionaries, so that an
implementation that is too strict is no more one than one that is too lax.

**RateLimit** (`ratelimit.py`, whole): both dictionaries with the entries they
make and drop, `acquire()` and `release()` with `_gc()`, on a clock in ticks;
`holders` and `log` are histories of who holds a slot and who was admitted when.

**Terminal** (`terminal.py`, `routes.py` 317-383): `at` is the await of each
connection's handler, in `terminal_ws()` and `start()`; `teardown` is where the
close() that won stands; any task may close at any time. `sessions` and
`byIdentity` are the manager's. `shutdown()` is a third process, with its
snapshot. Other tasks may run during `websocket.accept()`, which stands between the check
of the caps and the registration; the history `overtaken` says whom others registered in front
of meanwhile. `Readers` are the connections whose client takes what it is sent: close()
waits, without a timeout, until the client has been told.

**Stream** (`routes.py` 154-208, `runner.py` 251-374): three nested generators
for each request. `at` is the await or the yield at which they stand; `q`,
`pipes`, `eofs` are the two pumps and the reader; `free` and `inflight` are the
semaphore and the limiter's count. The client may go away wherever the generator
stands, which runs the finally clauses and nothing else. The compile phase is one await,
with the outcomes of Execution.

**Janitor** (`runner.py` 411-438, `main.py` 26-57, `cli.py`): every directory under
`RUNS_DIR` with the process at work in it (`owner`), what for (`kind`), the age of its mtime,
where the state of its last sandbox is kept (`place`) and whether that sandbox is on its way or
alive. A sweep is a step for each thing it does with a directory: Startup, PeriodicSweep and
CommandLine begin one, and list; Judge asks for the age, Look deletes the sandboxes it finds,
Remove is the rmtree, and LookFails a `_delete()` that raises, after which the rest is not
swept. `mark` holds how far the sweep of each process is with each directory: the server's and
those of any number of command lines may be under way at a time, while the others make
directories and launch (Launch), and sandboxes start (Started) in directories already looked
into. The server's sweep blocks its event loop, so that its own requests stand still meanwhile.
Crash takes the server or a command line away at any step, and the sandboxes live on, as they
are in systemd scopes of their own. Time is a tick. A launch that is held to the timeouts of the
API, or to the defaults, lasts at most `MaxPhase`; a terminal, a stream and a command line with
a `--timeout` of its own ("long") may last for ever.

**Service** (`routes.py` 91-152, 216-250 and 410-415, `store.py`, `main.py` 60-72): the composition. Its
queue is the *abstract* service (`Queue == INSTANCE JobService`), which JobQueue is
proved to implement; each action of Service is one of the queue's conjoined with what the
route, the hook or the lifespan does around it. `at` is where a request's handler or
hook has got to, `hook` which hook a worker is in, `inflight` the limiter's count,
`thread` the thread of `save()`, which outlives the await that is cancelled on it.
`life` follows the server from serving to the closed database, in the order of
`lifespan()`.

**RedisLimiter** (`backends.py` 1-112): each of the two scripts is one step, as Redis runs
them; what surrounds them is not: nodes stamp with clocks of their own (`Skew`), crash with
places taken, and lose the reply of a script that has run. A request holds its place as long as
it likes. `log` keeps every admission that
still counts, with a flag for whether the sorted set has it; `count` and `idle` are
the counter and the time since its expiry was set, and the history `forgotten` how many of the
places it stood for were still held when it last expired.

**Abuse** (`abuse.py`, `backends.py` 115-160, `routes.py` 43-46 and 91-97): the tracker in memory and the
one in Redis, given the same verdicts, beside the history they both stand for (`past`).
A request is looked at by the quarantine when it comes and is scored when it ends. A tracker
is the sequence of its events by time, the order of the deque and of the sorted set; what is
pruned is a prefix.

**KeyFile** (`make_key.py`, `auth.py` 41-60): runs of the script that read, change, truncate and
write the file, with no lock, and may be killed in between; the server, which takes
what it cannot read for no keys.

**Composition**: Service puts JobService, limiter, hooks, store and shutdown
together. Stream contains the route, the semaphore, the limiter's count and the executor;
Terminal the route, the manager and the session; JobQueue the callers and the hooks; Janitor
what executions, streams, terminals and the command line have in common, a directory. Service,
RedisLimiter and Abuse follow one caller, as no state they model is shared by two.

The names of KeyFile and Abuse that a specification usually has (Spec, Init, Next, vars,
TypeOK) carry a prefix, because both are proved about in one module with Service.

Operators named `X_Something`, placed before `X`, are mutated forms: the way a
plausible slip in the code would change `X`. `PROJECT.json` says which property
notices each of them. They are no part of any specification.

## 3. Runs

| Run | Instance | Distinct states | What it shows |
|---|---|---|---|
| `jobqueue` | 1 sync and 2 async jobs, 2 workers, depth 1, fair | 81 673 | counters, callers, registry; refinement of JobService; accepted jobs settle, settled jobs are finalized, stop() returns |
| `execution_paths` | 2 retries per phase, every fault, fair | 26 330 | no run without its compilation, user code once, clean end, honest result, termination |
| `ratelimit_caps` | 2 identities, both caps 2, window of 5 ticks, 8 ticks | 586 683 | the rate; refinement of Limiter; Retry-After |
| `terminal_safety` | 2 connections of a user with 1 place, 1 of an admin, total 2, symmetric | 424 698 | both caps and what accept() lets past them, counts, tracking, shutdown |
| `terminal_ends` | a user's 2 connections, one client reads and one may not, fair | 9 159 | every session ends and gives its place back |
| `stream_requests` | 2 streams, 1 slot, 1 chunk each, fair | 301 808 | slots, places, sandboxes, order of output and end, no stall |
| `stream_disconnect_orphans` | 1 stream | (violation) | a client that leaves leaves its sandbox |
| `janitor` | 2 directories, one perhaps a command line's, age limit 3, launches of 2 ticks, 2 of them, fair | 268 118 | executions at work are spared, which sandboxes a sweep leaves alive is known, orphans reclaimed |
| `service` | 1 sync and 2 async requests, 2 workers, depth 1, 2 places, fair | 96 653 | places are work, ids name runs, the shutdown loses only what it cut, places come back |
| `redis` | 2 nodes a tick apart, 3 calls, 2 places, 2 per window of 3, counter of 4 ticks, fair | 763 896 | caps across nodes, crashes, lost replies and requests that outlast the counter; a lockout ends |
| `abuse` | 3 requests; innocent, 1 flag or 2; window 4, threshold 5, fair | 13 117 | both trackers give the weight of the window; a quarantine ends |
| `keyfile` | 3 runs, 2 names, 1 user | 40 686 | the cap in whatever can be read; nothing lost without an overlap |

**Why the bounds are enough.**

- *Queue*: three jobs fill two workers and one place exactly; a fourth submit is a
  refusal, which needs no job. A full queue behind busy workers and both kinds of job
  on both sides of a drain occur; depth 1 is the smallest where the queue can be empty and full.
- *Limiter*: caps of 2 are the smallest that tell the oldest admission from the newest;
  8 ticks are more than one and a half windows, so that an admission expires while a later one
  counts, and two ticks per second show what `int()` cuts off.
- *Terminals*: one place for a user's two connections makes the cap of the user bite; the total
  of two is full with one of the user and the administrator's, or with both of the user when one
  overtook the other at accept(), and all three get in when more do. The run that ends has both
  kinds of client, and one that does not read may still leave.
- *Streams*: one slot for two requests is contention; one chunk is enough to be
  read before, between and after the two ends of the pipes.
- *Execution*: two retries are the first number where the first and the last differ.
- *Janitor*: two directories are enough for a sweep that fails after the first; one of
  them may be a command line's, so that two processes sweep, each over what the other has at
  work and during the other's sweep. The age limit is just above a launch, so that an execution
  of two launches outlives it; terminals, streams and long command lines outlive it at will.
- *Service*: two places for three requests make both refusals happen, by the limiter
  and, before that, by the queue; both workers may be in a hook while the
  third job waits.
- *Redis*: a call may be taken by either node, so that each node's clock is first and second.
  The window is shorter than the counter's life, as in the code (60 s and 3600 s), and a request
  may hold for longer than both.
- *Abuse*: one verdict of 5 reaches the threshold alone, five of weight 1 together, and the
  window lets some expire while others count.
- *Key file*: with three runs two overlap while a third comes after; one user is the cap, and
  two names tell a full file from a taken name.

What holds of the number of requests, jobs, sessions, directories and retries beyond these is
the subject of the proofs.

Every run that passes checks deadlock. The one that is expected to be violated states what
a document of the repository says (section 7).

## 4. Fairness

- *JobQueue*: weak fairness of each worker's steps: the event loop runs every
  task that is ready, and `execute()` returns (`Execution!ExecuteReturns`), as
  the hook does (its database has a busy timeout). Clients are not assumed to do anything.
- *Execution*: weak fairness of the executor as a whole: its awaits are
  of the process, bounded by the wall timeout, or of tools, bounded by theirs.
  Nothing is assumed of the program.
- *Terminal*: of the handler's steps inside `start()`, of runsc opening the
  console or failing, of the watchdog (a timer) and of the steps of close(). That the
  message to the client in close() returns is assumed only of clients that read (`Readers`)
  and of those that have left: the code has no timeout there. Nothing is assumed of accept() and
  of the first message, which wait for the client too. Clients need not leave, shells
  need not exit.
- *Stream*: of the route's and of the executor's steps, and of the clock. Neither the client,
  nor the program, nor the pumps are assumed to do anything.
- *Janitor*: weak fairness of the clock, of the end of each launch of a bounded execution (its
  wall timeout), of the server's coming up (systemd restarts it, `Restart=on-failure`) and of the
  janitor's waking and judging. Strong fairness of the server's looking and removing, for each
  directory: a `_delete()` that hangs once is assumed not to hang every time, and the server not
  to be killed each time before its sweep gets that far. Crashes need not stop, and nothing is
  assumed of a command line's sweep, nor of streams, terminals and long command lines.
- *Service*: of handlers, threads, workers and the steps of the shutdown. Nobody has to
  submit, to delete or to stop the server, and a save may fail every time.
- *RedisLimiter*: of the clock alone. No request needs to end, and nodes may crash for ever.
- *Abuse*: of the clock, and of the end of a request that is held to its wall timeouts.

## 5. Proofs

All theorems are about every value of the constants. Each module proves
`Init => IInv`, `IInv /\ [Next]_vars => IInv'`, and that IInv implies
the properties.

- **JobQueueProofs**: `IInv` says that a job's place agrees with its status
  (Places), the counters with the places (Counts), the workers with the phase of
  the service (Phases), and that only an expired grace gives an execution up (Abandoned).
  The counters are right only because a job is in one place, and that only
  because what is queued has status "queued". Proved: TypeOK, Accounting,
  AdmissionBound, OneOwner, NoCallerForgotten, PollableUntilTtl, DrainSparesExecutions,
  and that JobQueue implements JobService. Assumed: finitely many workers, SyncJobs among
  the jobs, NoJob not a job.
- **ExecutionProofs**: what is known at each await: how many launches are behind
  (Launching), what an exit tells of user code (Exiting), what of the compilation
  the run relies on (Ordering), what the end leaves (Ending), and that a phase
  whose user code started is not launched again (Once). Proved: TypeOK,
  RunNeedsCompile, LaunchesBounded, ResultHonest, UserCodeOnce, NothingLeftBehind.
- **RateLimitProofs**: the window the limiter keeps is the end of the log of all
  admissions, and all that came before is expired (Suffix): this is what makes
  forgetting harmless. The admissions that still count are then exactly those the loop leaves
  (CountedIs), so RateLimit decides as Limiter does; a full window has just PerMin entries,
  and its first is the one a caller has to wait for. Proved: TypeOK, RateBounded,
  InflightBounded, CountsExact, RetryAfterClose, and that RateLimit implements Limiter.
- **TerminalProofs**: which combinations of handler, teardown and registration are
  possible (Placed), what shutdown() has come to (Drained), and that what rejection() found still
  holds of whoever stands at accept() and was not overtaken (Admitted). Each registration then
  adds one to the sessions and, where the cap was already reached, one to the overtaken; the end
  of a session takes at most one from each. Proved: TypeOK, LiveTracked, ShutdownReachesAll,
  CountsExact, TotalBounded and PerUserBounded, whatever runs at accept().
- **StreamProofs**: both counts are cardinalities of sets of requests (Counts); where a
  sandbox lives, and who is to blame when nobody ends it (Lives). Output adds what the queue
  between pumps and generator holds: the ends neither taken nor still to come, as its last
  entry once both pumps are done, so that the second end taken is the last thing there is;
  and who was told the end. Proved: TypeOK, SlotsExact, LimiterExact, SandboxesBounded,
  NothingLeftBehind, OutputComplete, DoneOnce.
- **JanitorProofs**: the age of a bounded execution's directory is at most the time since its
  last launch (Young), which the wall timeout keeps below the age limit: that is why age
  is a sound sign of an orphan although an execution as a whole may be older than the
  limit. What a periodic sweep has listed has been made before (Fresh, Serving), so that what it
  judged to be old is not a bounded execution's, when it is looked into and when it is removed
  (Judged, Purposed). And what is alive in a directory that has been looked into started later,
  or where nobody looks (Housed, Overlooked). Proved: TypeOK, NoneLost, ActiveSpared, for sweeps
  of any number of processes in any interleaving. Assumed: the longest launch of a *bounded*
  execution is shorter than the age limit (AgeAssumption); the API's limits and the defaults of
  the command line are (30 s and 300 s), and a longer `--timeout` is not a bounded execution.

- **ServiceProofs**: where a request has got to says where its job is, in the queue, in a
  hook or nowhere (Stood), each job once (Once); what a save under way, or done, leaves
  (SavesKnown); what each step of the shutdown leaves behind it (Stopped); and the count of
  places as the cardinality of the requests that hold one (Places). Of the queue only
  JobService's steps are used, so the theorems hold with JobQueue in its place, which
  implements JobService. Proved: TypeOK, PlacesMeanWork, IdHasRow, CloseLosesOnlyCut, and
  NeverTwice: what RateLimit takes for granted of its callers, that release() is called only
  by who has a place, is what the routes, hooks and the shutdown do.
- **ServiceProofs**, on what the routes ask about a caller:
  - *KeyFile*: every list that is in the file, or is to be written over it, is fit (ListsFit),
    whoever overlaps whom; and while runs come in turn (InTurn) at most one has read and not
    saved, what it is to write is its change to all saves up to now, and after a cut the file
    cannot be read, so that nobody goes on. Proved: KeyTypeOK, CapHolds, ServedAreIssued.
  - *Abuse*: each tracker is the history of the window behind some events that are all old
    (Tracks), and the history is oldest first (PastSorted), without which a tick could make
    old what is behind what is not. Pruning, by popping or by counting, then gives the history
    itself. Proved: AbuseTypeOK, ScoreIsWindow.
- **RedisLimiterProofs**: an admission too young for any clock to call it old is still in the
  sorted set (Young), which bounds what a crash or another node's pruning can forget; no
  place is held uncounted beside those that were forgotten, and the counter's expiry was set no
  earlier than the last place was taken (Counted), so that what it forgets when it expires has
  been held that long. Proved: TypeOK, CapsHold. Assumed: clocks no more than MaxSkew apart
  (SkewAssumption).

Some theorems state what no run checks any more, because the proof covers every
instance: the types of all these modules, AdmissionBound, OneOwner and
DrainSparesExecutions of JobQueue, LaunchesBounded of Execution, InflightBounded and
CountsExact of RateLimit, SandboxesBounded of Stream, NeverTwice of Service.

Every invariant, action property and refinement that a passing run checks is thus a theorem.
Only model-checked: every liveness property (leads-to and fairness are beyond the prover), and
what weights add up to: that the score of a tracker is the sum over the history rests on the
two being the same sequence, and nothing is proved about the fold itself.

## 6. What is not modelled

- The bytes: contents, decoding and capping of output, pty traffic, resizing.
- `resolve()`, `build_config()`, the rules for entrypoints and file names, and the limits: data
  for runsc, sequential and without state.
- `enforce_cache_limit()`: a build cache above its limit is removed, whoever builds with it; how
  large a cache is and what a build loses are in the state of no module.
- The one-time terminal tickets: issued in one step and consumed in another, on one
  event loop.
- Keys from the environment, matching a key by its hash, and administrators in the
  limiter and the tracker, who are exempt from both.
- The schema of the database and its migration; the routes that only read.
- Clocks that are set back, in the Redis modules: they are apart by a constant.
- gVisor itself. Assumed of runsc: `run` stays in the foreground, and killing
  it ends the sandbox; its pipes end with it.
- The web page, the build of the root filesystem and the deployment.
- `asyncio.wait_for` of Python 3.11 swallowing a cancellation when its inner
  await completes in the same tick.

## 7. Where the code and its words differ

With a run:

1. `runner.py:155-169, 371-374`: a client that leaves a stream, while it compiles or while it
   runs, leaves the sandbox alive without its directory, although README.md:4 says it is
   destroyed (`stream_disconnect_orphans`).

Seen in the models, where a property names the exception or is conditional on it:

2. `runner.py:416-418`, `main.py:27-28`: "active runs (...) are never touched". A terminal (1200 s)
   outlives the age limit (300 s), and the sweep takes its directory. The
   same goes for a stream whose client does not read and for a command line whose `--timeout`
   (`cli.py:35`) is longer. ActiveSpared names them.
3. `runner.py:415`: the sweep at startup "removes everything - nothing is running yet". The
   command line makes it too (`cli.py:43`), beside a server that may be at work; and a server
   that starts makes it beside a command line. NoneLost says whose sandboxes live on, ActiveSpared
   excepts the server's first sweep.
4. `terminal.py:7`: "a hard max lifetime". close() tells the client before it kills, and has
   no timeout for that (`terminal.py:206`): a client that stays and takes no data keeps its shell
   and its place. EverySessionEnds names it (Unread).
5. `backends.py:11-12`: "concurrent nodes can't jointly exceed a cap". The counter expires 3600 s
   after the last admission, with the places that are still held, as that of a stream whose
   client does not read may be. CapsHold counts them (`forgotten`). Of the rate the sentence holds
   over a window shortened by the disagreement of the clocks.
6. `jobqueue.py:142-147`: task_done() comes before the hook, so a drain can end,
   and cancel the hook, while it saves. SettledJobsAreFinalized and CloseLosesOnlyCut
   except it.
7. `runner.py:173-179`: a program can exit exactly as a failed launch and is then run
   again, although README.md:223-224 excludes it. UserCodeOnce excepts it.
8. `terminal.py`: a console that fails to open unregisters its session twice; with
   more than one place per user, the cap can then be exceeded. CountsExact and PerUserBounded are
   stated where no such start failed.
9. `terminal.py`: a failure after the launch leaves a sandbox nobody is registered for;
   LiveTracked excepts the sandboxes of such a start.
10. `runner.py:155-169`: a hanging `runsc kill`, or a cancellation, skips
    every later step that would destroy the sandbox. NothingLeftBehind of Execution is
    conditional on neither.
11. `jobqueue.py:71`: jobs still queued when the grace expires keep their
    futures pending; the docstring (64-65) speaks only of running jobs.
12. `ratelimit.py:66`: an identity whose last release still sees a recent
    admission keeps its entry until it comes back; the comment at 61-62
    says the maps do not grow over many callers.
13. `terminal.py:200, 291`: shutdown() does not wait for a session whose close() is under way
    in another task; main.py:70 says it kills any live shell.
14. `routes.py:168, 201-204`: a generator that is never entered never gives the limiter's
    place back. LimiterExact counts it.
15. `runner.py:293-306`: a client who does not read holds the generator at a yield, and
    the wall timeout is not enforced meanwhile. NeverStalls excludes the yields.
16. `routes.py:327-339`: the caps are checked before accept() and the session is registered after
    it; whoever else runs meanwhile is let in by the same count. TotalBounded and PerUserBounded
    count those who were overtaken.
17. `runner.py:430-434`: a sweep looks for sandboxes in `compile` and `run`; one of a retried launch
    (`run-r1`) or of a terminal (`state`) is not found, and stays alive when its directory is
    removed; so does one that starts between the look and the rmtree, which another process's
    sweep allows. NoneLost names both.
18. `main.py:49`, `runner.py:434`: a `_delete()` that hangs at startup raises, and the server does
    not start. OrphansReclaimed needs sweeps that do not fail for ever.
19. `routes.py:141-152, 234-241`: an error of an asynchronous job is recorded and saved, one of a
    synchronous job is not.
20. `routes.py:239`: a job that is dropped or cancelled at shutdown keeps its place; in
    memory this is of no account, in Redis the place is lost to the other nodes.
    PlacesMeanWork counts it (Dropped).
21. `store.py:95`: close_db() does not take the lock; a save whose hook was cancelled
    is still in its thread and is lost or committed. CloseLosesOnlyCut says it is no other.
22. `backends.py:57, 84`: places lost in a crash or with a reply come back when the
    counter expires, and each admission renews the expiry: a caller who keeps
    going never gets them back. LockoutEnds is about one who has none left.
23. `abuse.py:7` says that a score must exceed the threshold; `abuse.py:95` and `backends.py:138`
    compare with `>=`.
24. `make_key.py:84`: of two overlapping runs one is lost, and an interrupted save leaves a file
    that every later run refuses and the server takes for no keys. While a save is under way, and
    for good once it is cut, authentication is off then (`auth.py:61-62, 76-82`), unless there are
    keys from the environment, and everybody is an administrator. ServedAreIssued says when.

## 8. Plan

Done: JobService and JobQueue, Limiter and RateLimit, Execution, Terminal, Stream, Janitor,
Service, RedisLimiter, Abuse and KeyFile, each with its proofs. What is left, in order of
weight:

1. **Composition**, proved as one: the hooks of JobQueue are those of Service, so that the
   theorems of Service follow of the two together and not only of each beside the other.
2. **RedisLimiter** as a Limiter: where no node crashes, no reply is lost and clocks agree,
   the two scripts decide as the one in memory.
3. **Tickets**, and **pure functions** (entrypoints, file names, capping and decoding of chunks)
   against reference definitions over bounded inputs.

Runs are few on purpose, one for each question; where a proof covers a property for every
instance and no other question needs its run, the run gives way.
