------------------------------- MODULE Stream -------------------------------
(***************************************************************************)
(* POST /execute/stream: execute_stream_route() of app/api/routes.py with  *)
(* execute_stream() and _stream_container() of app/executor/runner.py,     *)
(* three generators one inside the other, for several requests of one      *)
(* identity that compete for the streaming semaphore.                      *)
(*                                                                         *)
(* One action is the code between two suspensions: the awaits, and the     *)
(* yields, where the route's generator stands until the client has taken   *)
(* the event.  The environment is the client, who takes an event or goes   *)
(* away at any suspension, and the sandbox.  When the client goes, the     *)
(* server cancels the task (an await) or drops the generator (a yield):    *)
(* only finally clauses run.  The compile phase is one await with the      *)
(* outcomes of module Execution; whom the limiter refuses is RateLimit's.   *)
(* Assumed of runsc: its pipes end when its process does, and killing the  *)
(* process ends the sandbox.                                               *)
(***************************************************************************)
EXTENDS Integers, Sequences, FiniteSets

CONSTANTS
    Streams,        \* the requests
    Slots,          \* stream_slots, as many as workers
    MaxChunks       \* bound: chunks of output a program writes

ASSUME StreamsAssumption == IsFiniteSet(Streams)
ASSUME BoundsAssumption ==
    Slots \in Nat /\ MaxChunks \in Nat

VARIABLES
    at,         \* where each request's generators are suspended
    sandbox,    \* the sandbox of its current phase
    pipes,      \* how many of the two pumps have not seen the end
    q,          \* the queue between the pumps and the generator
    eofs,       \* _stream_container: ends taken from q
    late,       \* has the wall timeout of the run phase passed?
    outcome,    \* what the "done" event says
    hasDir,     \* does run_dir exist?
    free,       \* stream_slots' value
    inflight,   \* the limiter's count for the identity
    written,    \* history: chunks put into q
    sent,       \* history: chunks sent to the client
    told,       \* history: "done" events sent to the client
    faults      \* history: what went wrong with each request

vars == <<at, sandbox, pipes, q, eofs, late, outcome, hasDir, free, inflight,
          written, sent, told, faults>>

run    == <<sandbox, pipes, q, eofs, late, written, sent>>
counts == <<free, inflight>>

Yields == {"busy", "stderr", "emitting", "finishing"}

(* The awaits of execute_stream() and of _stream_container(). *)
InnerAwaits == {"compiling", "spawning", "reading", "reaping"}

Holding == InnerAwaits \cup {"stderr", "emitting", "saving", "finishing"}

Begun == Holding \cup {"acquiring", "busy"}

Outcomes == {"none", "busy", "exited", "timed out", "compile failed", "error"}

Faults == {"never begun", "cut", "kill hung", "save failed"}

Alive(s) == sandbox[s] \in {"compile", "run"}

TypeOK ==
    /\ at \in [Streams -> Begun \cup {"new", "refused", "admitted", "over"}]
    /\ sandbox \in [Streams -> {"none", "compile", "run", "gone"}]
    /\ pipes \in [Streams -> 0..2]
    /\ q \in [Streams -> Seq({"chunk", "eof"})]
    /\ eofs \in [Streams -> 0..2]
    /\ late \in [Streams -> BOOLEAN]
    /\ outcome \in [Streams -> Outcomes]
    /\ hasDir \in [Streams -> BOOLEAN]
    /\ free \in 0..Slots
    /\ inflight \in Nat
    /\ written \in [Streams -> 0..MaxChunks]
    /\ sent \in [Streams -> Nat]
    /\ told \in [Streams -> Nat]
    /\ faults \in [Streams -> SUBSET Faults]

Init ==
    /\ at = [s \in Streams |-> "new"]
    /\ sandbox = [s \in Streams |-> "none"]
    /\ pipes = [s \in Streams |-> 0]
    /\ q = [s \in Streams |-> <<>>]
    /\ eofs = [s \in Streams |-> 0]
    /\ late = [s \in Streams |-> FALSE]
    /\ outcome = [s \in Streams |-> "none"]
    /\ hasDir = [s \in Streams |-> FALSE]
    /\ free = Slots
    /\ inflight = 0
    /\ written = [s \in Streams |-> 0]
    /\ sent = [s \in Streams |-> 0]
    /\ told = [s \in Streams |-> 0]
    /\ faults = [s \in Streams |-> {}]

Goto(s, place) == at' = [at EXCEPT ![s] = place]

Fault(s, f) == faults' = [faults EXCEPT ![s] = @ \cup {f}]

-----------------------------------------------------------------------------
(* The route                                                                *)

(* _rl_acquire() refuses: which it does of whom is the subject of RateLimit. *)
Refuse(s) ==
    /\ at[s] = "new"
    /\ Goto(s, "refused")
    /\ UNCHANGED <<run, outcome, hasDir, counts, told, faults>>

(* It admits; the generator is handed to the StreamingResponse. *)
Admit(s) ==
    /\ at[s] = "new"
    /\ inflight' = inflight + 1
    /\ Goto(s, "admitted")
    /\ UNCHANGED <<run, outcome, hasDir, free, told, faults>>

(* The client is gone before the response asks the generator for anything:  *)
(* its body, and with it the finally clause, is never entered.              *)
NeverBegins(s) ==
    /\ at[s] = "admitted"
    /\ Goto(s, "over")
    /\ Fault(s, "never begun")
    /\ UNCHANGED <<run, outcome, hasDir, counts, told>>

Begin(s) ==
    /\ at[s] = "admitted"
    /\ Goto(s, "acquiring")
    /\ UNCHANGED <<run, outcome, hasDir, counts, told, faults>>

(* Mutated forms, here and below: stand-ins for a plausible slip in the      *)
(* definition that follows, to see that a property notices it.              *)
Release_SlotInAnyCase(s) ==
    /\ free' = free + 1
    /\ inflight' = inflight - 1

Release_OnlyWithSlot(s) ==
    IF at[s] \in Holding
    THEN free' = free + 1 /\ inflight' = inflight - 1
    ELSE UNCHANGED counts

(* The finally clause of the route's generator. *)
Release(s) ==
    /\ free' = IF at[s] \in Holding THEN free + 1 ELSE free
    /\ inflight' = inflight - 1

(* The event of outcome o is about to be saved: classify() and record(),    *)
(* then the await of store.save().                                          *)
Conclude(s, o) ==
    /\ outcome' = [outcome EXCEPT ![s] = o]
    /\ Goto(s, "saving")
    /\ UNCHANGED <<hasDir, counts, told>>

Tell(s, place) ==
    /\ told' = [told EXCEPT ![s] = @ + 1]
    /\ Goto(s, place)

(* No slot within 10 ms. *)
SlotTimeout(s) ==
    /\ at[s] = "acquiring" /\ free = 0
    /\ outcome' = [outcome EXCEPT ![s] = "busy"]
    /\ Tell(s, "busy")
    /\ UNCHANGED <<run, hasDir, counts, faults>>

(* A slot is taken; execute_stream() makes run_dir, stages the files and    *)
(* launches the compilation, or the run.                                    *)
SlotTaken(s) ==
    /\ at[s] = "acquiring" /\ free > 0
    /\ free' = free - 1
    /\ hasDir' = [hasDir EXCEPT ![s] = TRUE]
    /\ \/ /\ Goto(s, "compiling")
          /\ sandbox' = [sandbox EXCEPT ![s] = "compile"]
          /\ UNCHANGED outcome
       \/ /\ Goto(s, "spawning")
          /\ UNCHANGED <<sandbox, outcome>>
       \/ /\ Goto(s, "saving")                \* a file name, or the disk
          /\ outcome' = [outcome EXCEPT ![s] = "error"]
          /\ UNCHANGED sandbox
    /\ UNCHANGED <<pipes, q, eofs, late, written, sent, inflight, told, faults>>

Saved(s) ==
    /\ at[s] = "saving"
    /\ Tell(s, "finishing")
    /\ UNCHANGED <<run, outcome, hasDir, counts, faults>>

(* store.save() raises: the generators are dropped, no "done" is sent.      *)
SaveFails(s) ==
    /\ at[s] = "saving"
    /\ Goto(s, "over")
    /\ Release(s)
    /\ Fault(s, "save failed")
    /\ UNCHANGED <<run, outcome, hasDir, told>>

(* The client has taken the last event: every generator comes to its end.   *)
Finish(s) ==
    /\ at[s] \in {"busy", "finishing"}
    /\ Goto(s, "over")
    /\ Release(s)
    /\ hasDir' = [hasDir EXCEPT ![s] = FALSE]
    /\ UNCHANGED <<run, outcome, told, faults>>

(* The client goes away.  An await inside the inner generators raises in    *)
(* them, and run_dir is removed at once; otherwise they are only dropped.   *)
(* The route's own generator, when it stood at a yield, is closed by the    *)
(* next turn of the event loop: the same step here.                         *)
Cut(s) ==
    /\ at[s] \in Begun
    /\ Goto(s, "over")
    /\ Release(s)
    /\ hasDir' = [hasDir EXCEPT ![s] = IF at[s] \in InnerAwaits THEN FALSE ELSE @]
    /\ Fault(s, "cut")
    /\ UNCHANGED <<run, outcome, told>>

(* The event loop closes dropped generators. *)
Dropped(s) ==
    /\ at[s] = "over" /\ hasDir[s]
    /\ hasDir' = [hasDir EXCEPT ![s] = FALSE]
    /\ UNCHANGED <<at, run, outcome, counts, told, faults>>

-----------------------------------------------------------------------------
(* execute_stream()                                                         *)

(* _run_with_retry() of the compile phase returns. *)
Compiled(s) ==
    /\ at[s] = "compiling"
    /\ sandbox' = [sandbox EXCEPT ![s] = "none"]
    /\ \/ Goto(s, "spawning") /\ UNCHANGED <<outcome, hasDir, counts, told>>
       \/ Goto(s, "stderr") /\ UNCHANGED <<outcome, hasDir, counts, told>>
       \/ Conclude(s, "compile failed")
    /\ UNCHANGED <<pipes, q, eofs, late, written, sent, faults>>

(* ... or raises, with its sandbox left alive by a hanging "runsc kill". *)
CompileRaises(s) ==
    /\ at[s] = "compiling"
    /\ Conclude(s, "error")
    /\ \/ sandbox' = [sandbox EXCEPT ![s] = "none"] /\ UNCHANGED faults
       \/ Fault(s, "kill hung") /\ UNCHANGED sandbox
    /\ UNCHANGED <<pipes, q, eofs, late, written, sent>>

StderrTaken(s) ==
    /\ at[s] = "stderr"
    /\ Conclude(s, "compile failed")
    /\ UNCHANGED <<run, faults>>

-----------------------------------------------------------------------------
(* _stream_container()                                                      *)

Spawned(s) ==
    /\ at[s] = "spawning"
    /\ Goto(s, "reading")
    /\ sandbox' = [sandbox EXCEPT ![s] = "run"]
    /\ pipes' = [pipes EXCEPT ![s] = 2]
    /\ UNCHANGED <<q, eofs, late, written, sent, outcome, hasDir, counts, told, faults>>

SpawnFails(s) ==
    /\ at[s] = "spawning"
    /\ Conclude(s, "error")
    /\ UNCHANGED <<run, faults>>

TakeEof_First(s) ==
    /\ at[s] = "reading" /\ ~late[s]
    /\ q[s] # <<>> /\ Head(q[s]) = "eof"
    /\ q' = [q EXCEPT ![s] = Tail(@)]
    /\ eofs' = [eofs EXCEPT ![s] = @ + 1]
    /\ Goto(s, "reaping") /\ outcome' = [outcome EXCEPT ![s] = "exited"]
    /\ UNCHANGED <<sandbox, pipes, late, written, sent, hasDir, counts, told, faults>>

TakeEof(s) ==
    /\ at[s] = "reading" /\ ~late[s]
    /\ q[s] # <<>> /\ Head(q[s]) = "eof"
    /\ q' = [q EXCEPT ![s] = Tail(@)]
    /\ eofs' = [eofs EXCEPT ![s] = @ + 1]
    /\ IF eofs[s] = 1
       THEN Goto(s, "reaping") /\ outcome' = [outcome EXCEPT ![s] = "exited"]
       ELSE UNCHANGED <<at, outcome>>
    /\ UNCHANGED <<sandbox, pipes, late, written, sent, hasDir, counts, told, faults>>

TakeChunk(s) ==
    /\ at[s] = "reading" /\ ~late[s]
    /\ q[s] # <<>> /\ Head(q[s]) = "chunk"
    /\ q' = [q EXCEPT ![s] = Tail(@)]
    /\ sent' = [sent EXCEPT ![s] = @ + 1]
    /\ Goto(s, "emitting")
    /\ UNCHANGED <<sandbox, pipes, eofs, late, written, outcome, hasDir, counts, told, faults>>

(* The wall timeout is looked at again only now. *)
ChunkTaken(s) ==
    /\ at[s] = "emitting"
    /\ Goto(s, "reading")
    /\ UNCHANGED <<run, outcome, hasDir, counts, told, faults>>

TimedOut_OnNextEvent(s) == at[s] = "reading" /\ late[s] /\ q[s] # <<>>

(* Before an event is awaited, or while it is. *)
TimedOut(s) == at[s] = "reading" /\ late[s]

(* The pumps are cancelled and _kill() is called, whatever it does. *)
Timeout(s) ==
    /\ TimedOut(s)
    /\ outcome' = [outcome EXCEPT ![s] = "timed out"]
    /\ pipes' = [pipes EXCEPT ![s] = 0]
    /\ \/ sandbox' = [sandbox EXCEPT ![s] = "gone"]
       \/ UNCHANGED sandbox
    /\ Goto(s, "reaping")
    /\ UNCHANGED <<q, eofs, late, written, sent, hasDir, counts, told, faults>>

(* subprocess.run(..., timeout=10) of _kill() raises. *)
KillHangs(s) ==
    /\ TimedOut(s)
    /\ pipes' = [pipes EXCEPT ![s] = 0]
    /\ Conclude(s, "error")
    /\ IF Alive(s) THEN Fault(s, "kill hung") ELSE UNCHANGED faults
    /\ UNCHANGED <<sandbox, q, eofs, late, written, sent>>

(* The process has not ended within 2 s. *)
ProcKill(s) ==
    /\ at[s] = "reaping" /\ Alive(s)
    /\ sandbox' = [sandbox EXCEPT ![s] = "gone"]
    /\ UNCHANGED <<at, pipes, q, eofs, late, written, sent, outcome, hasDir, counts, told,
                   faults>>

Reaped_NotAwaited(s) ==
    /\ at[s] = "reaping"
    /\ Conclude(s, outcome[s])
    /\ UNCHANGED <<run, faults>>

Reaped_DeletesLast(s) ==
    /\ at[s] = "reaping" /\ ~Alive(s)
    /\ \/ Conclude(s, outcome[s])
       \/ /\ Goto(s, "saving")
          /\ outcome' = [outcome EXCEPT ![s] = "error"]
          /\ told' = [told EXCEPT ![s] = @ + 1]
          /\ UNCHANGED <<hasDir, counts>>
    /\ UNCHANGED <<run, faults>>

(* The container is deleted; a _delete() that hangs raises, and the result  *)
(* is an error.                                                             *)
Reaped(s) ==
    /\ at[s] = "reaping" /\ ~Alive(s)
    /\ Conclude(s, outcome[s]) \/ Conclude(s, "error")
    /\ UNCHANGED <<run, faults>>

-----------------------------------------------------------------------------
(* The pumps, the clock and the sandbox                                     *)

Pumping(s) == at[s] \in {"reading", "emitting"} /\ pipes[s] > 0

Chunk(s) ==
    /\ Pumping(s) /\ written[s] < MaxChunks
    /\ q' = [q EXCEPT ![s] = Append(@, "chunk")]
    /\ written' = [written EXCEPT ![s] = @ + 1]
    /\ UNCHANGED <<at, sandbox, pipes, eofs, late, sent, outcome, hasDir, counts, told,
                   faults>>

Eof(s) ==
    /\ Pumping(s) /\ ~Alive(s)
    /\ q' = [q EXCEPT ![s] = Append(@, "eof")]
    /\ pipes' = [pipes EXCEPT ![s] = @ - 1]
    /\ UNCHANGED <<at, sandbox, eofs, late, written, sent, outcome, hasDir, counts, told,
                   faults>>

DeadlinePasses(s) ==
    /\ at[s] \in {"reading", "emitting"} /\ ~late[s]
    /\ late' = [late EXCEPT ![s] = TRUE]
    /\ UNCHANGED <<at, sandbox, pipes, q, eofs, written, sent, outcome, hasDir, counts, told,
                   faults>>

(* By itself; a compilation that is awaited ends in Compiled.               *)
SandboxEnds(s) ==
    /\ sandbox[s] = "run" \/ (sandbox[s] = "compile" /\ at[s] # "compiling")
    /\ sandbox' = [sandbox EXCEPT ![s] = "gone"]
    /\ UNCHANGED <<at, pipes, q, eofs, late, written, sent, outcome, hasDir, counts, told,
                   faults>>

-----------------------------------------------------------------------------

RouteStep(s) ==
    \/ NeverBegins(s) \/ Begin(s) \/ SlotTimeout(s) \/ SlotTaken(s)
    \/ Saved(s) \/ SaveFails(s) \/ Dropped(s)

ExecutorStep(s) ==
    \/ Compiled(s) \/ CompileRaises(s) \/ Spawned(s) \/ SpawnFails(s)
    \/ TakeEof(s) \/ TakeChunk(s) \/ Timeout(s) \/ KillHangs(s)
    \/ ProcKill(s) \/ Reaped(s)

ClientStep(s) ==
    Refuse(s) \/ Admit(s) \/ StderrTaken(s) \/ ChunkTaken(s) \/ Finish(s) \/ Cut(s)

PumpStep(s) == Chunk(s) \/ Eof(s)

(* Every request has been answered. *)
Finished ==
    /\ \A s \in Streams : at[s] \in {"refused", "over"} /\ ~hasDir[s] /\ ~Alive(s)
    /\ UNCHANGED vars

Next ==
    \/ \E s \in Streams :
        \/ RouteStep(s) \/ ExecutorStep(s) \/ ClientStep(s)
        \/ PumpStep(s) \/ DeadlinePasses(s) \/ SandboxEnds(s)
    \/ Finished

Spec == Init /\ [][Next]_vars

(* The event loop goes on with what can go on, and its timers fire; the     *)
(* compilation returns (Execution!ExecuteReturns).  Nothing is assumed of   *)
(* the client or of the program.                                            *)
FairSpec ==
    /\ Spec
    /\ \A s \in Streams :
        WF_vars(RouteStep(s)) /\ WF_vars(ExecutorStep(s)) /\ WF_vars(DeadlinePasses(s))

-----------------------------------------------------------------------------
(* Properties                                                               *)

(* Every way out of the generator, the one without a slot included, puts    *)
(* back exactly what it took of the semaphore (routes.py:174-204).          *)
SlotsExact == free + Cardinality({s \in Streams : at[s] \in Holding}) = Slots

(* ... and of the limiter, unless the generator is never entered            *)
(* (routes.py:168, 201-204).                                                *)
LimiterExact ==
    inflight = Cardinality({s \in Streams :
        at[s] \in Begun \cup {"admitted"} \/ "never begun" \in faults[s]})

(* "bounded by a streaming semaphore (== worker count)" (routes.py:162-163):*)
(* the sandboxes of requests in progress are never more than the slots.     *)
SandboxesBounded ==
    Cardinality({s \in Streams : Alive(s) /\ at[s] # "over"}) <= Slots

(* "finally ('done', ExecutionResult)" (runner.py:326-328): a client that   *)
(* stays is told the end once, and nothing is told after it.                *)
DoneOnce ==
    \A s \in Streams :
        /\ told[s] <= 1
        /\ told[s] = 1 => at[s] \in {"busy", "finishing", "over"}
        /\ at[s] = "over" /\ faults[s] \cap {"never begun", "cut", "save failed"} = {} =>
              told[s] = 1

(* A "done" that reports an exit comes after every chunk the pumps read:    *)
(* the two of them end in any order, around the output of the other         *)
(* (runner.py:271-306).                                                     *)
OutputComplete == \A s \in Streams : outcome[s] = "exited" => sent[s] = written[s]

(* "destroyed immediately after" (README.md:4): unless the client went away *)
(* or "runsc kill" hung, no sandbox outlives its request.                   *)
NothingLeftBehind ==
    \A s \in Streams :
        at[s] = "over" /\ faults[s] \cap {"cut", "kill hung"} = {} => ~Alive(s)

(* The same as README.md:4 says it, of every request: it is violated.       *)
DestroyedAfterwards == \A s \in Streams : at[s] = "over" => ~Alive(s)

(* A request that waits for anything but its client gets further: neither   *)
(* the program, nor the tools, nor the other requests can hold it up        *)
(* (runner.py:292-316, routes.py:178).                                      *)
NeverStalls ==
    \A s \in Streams :
        at[s] \in Begun \cup {"admitted"} ~> at[s] \in Yields \cup {"over"}
=============================================================================
