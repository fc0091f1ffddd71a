----------------------------- MODULE Execution -----------------------------
(***************************************************************************)
(* app/executor/runner.py: one call of execute(), with _run_with_retry()   *)
(* and _run_container() under it, against the sandbox it drives.           *)
(*                                                                         *)
(* One action of the executor is the code between two awaits.  runsc and   *)
(* the user's program are the environment: a launch may fail before any    *)
(* user code runs, and a program may run for ever, or exit with any code   *)
(* and output.  An exit is abstracted to what the code looks at: its code  *)
(* (0, runsc's 128, any other as 1), whether stdout is empty, and whether  *)
(* stderr holds one of _TRANSIENT_MARKERS.  Assumed of runsc: "run" is in  *)
(* the foreground, so that its exit is the sandbox's, and killing both     *)
(* ends the sandbox.                                                       *)
(***************************************************************************)
EXTENDS Integers, FiniteSets

CONSTANTS
    LaunchRetries     \* SANDBOX_LAUNCH_RETRIES

ASSUME LaunchRetriesAssumption == LaunchRetries \in Nat

(* What may go wrong around execute(): its task is cancelled, "runsc kill"  *)
(* or "runsc delete" exceeds its 10 s, the user's program exits exactly as  *)
(* a failed launch does.                                                    *)
Faults == {"cancelled", "kill hung", "delete hung", "mimicked"}

Phases == {"compile", "run"}

Exits == [code : {0, 1, 128}, out : BOOLEAN, marker : BOOLEAN]

NoExit == [code |-> -1, out |-> FALSE, marker |-> FALSE]

Killed == [code |-> 1, out |-> FALSE, marker |-> FALSE]

(* What the retry takes for a failed launch: runsc's own exit code, nothing *)
(* on stdout, a marker on stderr.                                           *)
LooksUnlaunched == [code |-> 128, out |-> FALSE, marker |-> TRUE]

LaunchErrors == {e \in Exits : e.code # 0 /\ ~e.out}

(* ExecutionResult; code -1 stands for None. *)
Results == [error : BOOLEAN, timedOut : BOOLEAN, code : {-1, 0, 1, 128}, stage : Phases]

NoResult == [error |-> FALSE, timedOut |-> FALSE, code |-> -1, stage |-> "run"]

ErrorResult == [NoResult EXCEPT !.error = TRUE]

VARIABLES
    compiles,   \* does the request have compile_args?
    pc,         \* the await execute() stands at
    phase,      \* which of the two containers it is about
    attempt,    \* number of retries of this phase so far
    timedOut,   \* result.timed_out of the container being run
    hasDir,     \* does run_dir exist?
    result,     \* what execute() returns
    sandbox,    \* the sandbox of the current attempt
    exits,      \* how the last sandbox of each phase exited
    starts,     \* history: how often each phase's user code was started
    launches,   \* history: how often each phase was launched
    faults      \* history: the faults so far

vars == <<compiles, pc, phase, attempt, timedOut, hasDir, result, sandbox, exits,
          starts, launches, faults>>

executor == <<compiles, pc, phase, attempt, timedOut, hasDir, result, launches>>

Awaits == {"spawning", "waiting", "reaping", "reading", "backoff"}

Over == pc \in {"returned", "cancelled"}

Live == sandbox \in {"starting", "user"}

Types ==
    /\ compiles \in BOOLEAN
    /\ pc \in Awaits \cup {"staging", "returned", "cancelled"}
    /\ phase \in Phases
    /\ attempt \in 0..LaunchRetries
    /\ timedOut \in BOOLEAN
    /\ hasDir \in BOOLEAN
    /\ result \in Results
    /\ sandbox \in {"absent", "starting", "user", "gone"}
    /\ exits \in [Phases -> Exits \cup {NoExit}]
    /\ starts \in [Phases -> Nat]
    /\ launches \in [Phases -> Nat]

TypeOK == Types /\ faults \subseteq Faults

Init ==
    /\ compiles \in BOOLEAN
    /\ pc = "staging"
    /\ phase = IF compiles THEN "compile" ELSE "run"
    /\ attempt = 0
    /\ timedOut = FALSE
    /\ hasDir = FALSE
    /\ result = NoResult
    /\ sandbox = "absent"
    /\ exits = [p \in Phases |-> NoExit]
    /\ starts = [p \in Phases |-> 0]
    /\ launches = [p \in Phases |-> 0]
    /\ faults = {}

-----------------------------------------------------------------------------
(* The executor                                                             *)

(* return, through the finally clause that removes run_dir. *)
Return(r) ==
    /\ result' = r
    /\ pc' = "returned"
    /\ hasDir' = FALSE
    /\ UNCHANGED <<compiles, phase, attempt, launches>>

(* An exception of the orchestration: whatever the phase, result is still   *)
(* the fresh one, and only its error is set.                                *)
Raise == Return(ErrorResult)

(* run_dir is made, the files staged, the first bundle written. *)
Stage ==
    /\ pc = "staging"
    /\ hasDir' = TRUE
    /\ pc' = "spawning"
    /\ UNCHANGED <<compiles, phase, attempt, timedOut, result, sandbox, exits, starts,
                   launches, faults>>

(* An illegal or duplicate file name, or the disk. *)
StageFails ==
    /\ pc = "staging"
    /\ Raise
    /\ UNCHANGED <<timedOut, sandbox, exits, starts, faults>>

Spawn ==
    /\ pc = "spawning"
    /\ pc' = "waiting"
    /\ sandbox' = "starting"
    /\ timedOut' = FALSE
    /\ exits' = [exits EXCEPT ![phase] = NoExit]
    /\ launches' = [launches EXCEPT ![phase] = @ + 1]
    /\ UNCHANGED <<compiles, phase, attempt, hasDir, result, starts, faults>>

SpawnFails ==
    /\ pc = "spawning"
    /\ Raise
    /\ UNCHANGED <<timedOut, sandbox, exits, starts, faults>>

(* proc.wait() returns within the wall timeout. *)
Exited ==
    /\ pc = "waiting"
    /\ ~Live
    /\ pc' = "reading"
    /\ UNCHANGED <<compiles, phase, attempt, timedOut, hasDir, result, sandbox, exits,
                   starts, launches, faults>>

(* Mutated forms, here and below: stand-ins for a plausible slip in the      *)
(* definition that follows, to see that a property notices it.              *)
WallTimeout_NoKill ==
    /\ pc = "waiting"
    /\ timedOut' = TRUE
    /\ pc' = "reaping"
    /\ UNCHANGED <<compiles, phase, attempt, hasDir, result, sandbox, exits, starts,
                   launches, faults>>

WallTimeout_ReturnsAtOnce ==
    /\ pc = "waiting"
    /\ timedOut' = TRUE
    /\ Return([NoResult EXCEPT !.timedOut = TRUE])
    /\ UNCHANGED <<sandbox, exits, starts, faults>>

(* _kill() and proc.kill(); a sandbox that has just exited by itself keeps  *)
(* its exit.                                                                *)
WallTimeout ==
    /\ pc = "waiting"
    /\ timedOut' = TRUE
    /\ pc' = "reaping"
    /\ sandbox' = "gone"
    /\ exits' = IF Live THEN [exits EXCEPT ![phase] = Killed] ELSE exits
    /\ UNCHANGED <<compiles, phase, attempt, hasDir, result, starts, launches, faults>>

(* subprocess.run(..., timeout=10) of _kill() raises: proc.kill() is not    *)
(* reached.                                                                 *)
KillHangs ==
    /\ pc = "waiting"
    /\ timedOut' = TRUE
    /\ Raise
    /\ faults' = faults \cup {"kill hung"}
    /\ UNCHANGED <<sandbox, exits, starts>>

Reaped ==
    /\ pc = "reaping"
    /\ ~Live
    /\ pc' = "reading"
    /\ UNCHANGED <<compiles, phase, attempt, timedOut, hasDir, result, sandbox, exits,
                   starts, launches, faults>>

Collected_CodeOfKilled ==
    [error |-> FALSE, timedOut |-> timedOut, code |-> exits[phase].code, stage |-> "run"]

(* What _run_container() returns. *)
Collected ==
    [error |-> FALSE, timedOut |-> timedOut,
     code |-> IF timedOut THEN -1 ELSE exits[phase].code, stage |-> "run"]

IsTransientLaunchFailure_IgnoresStdout ==
    ~timedOut /\ exits[phase].code = 128 /\ exits[phase].marker

IsTransientLaunchFailure ==
    /\ ~timedOut
    /\ exits[phase].code = 128
    /\ ~exits[phase].out
    /\ exits[phase].marker

MayRetry == IsTransientLaunchFailure /\ attempt < LaunchRetries

CompileFailed_OnlyTimeout == timedOut

CompileFailed == timedOut \/ exits["compile"].code # 0

(* Both pipes are at their end, the container is deleted, and the result    *)
(* decides: retry, the next phase, or the end.                              *)
Collect ==
    /\ pc = "reading"
    /\ ~Live
    /\ \/ /\ MayRetry
          /\ pc' = "backoff"
          /\ UNCHANGED <<compiles, phase, attempt, hasDir, result, launches>>
       \/ /\ ~MayRetry
          /\ phase = "compile" /\ CompileFailed
          /\ Return([Collected EXCEPT !.stage = "compile"])
       \/ /\ ~MayRetry
          /\ phase = "compile" /\ ~CompileFailed
          /\ phase' = "run"
          /\ attempt' = 0
          /\ pc' = "spawning"
          /\ UNCHANGED <<compiles, hasDir, result, launches>>
       \/ /\ ~MayRetry
          /\ phase = "run"
          /\ Return(Collected)
    /\ UNCHANGED <<timedOut, sandbox, exits, starts, faults>>

(* _delete() raises after 10 s: the collected result is lost. *)
DeleteHangs ==
    /\ pc = "reading"
    /\ ~Live
    /\ Raise
    /\ faults' = faults \cup {"delete hung"}
    /\ UNCHANGED <<timedOut, sandbox, exits, starts>>

Retry ==
    /\ pc = "backoff"
    /\ attempt' = attempt + 1
    /\ pc' = "spawning"
    /\ UNCHANGED <<compiles, phase, timedOut, hasDir, result, sandbox, exits, starts,
                   launches, faults>>

(* CancelledError at any await: only the finally clause runs. *)
Cancel ==
    /\ pc \in Awaits
    /\ pc' = "cancelled"
    /\ faults' = faults \cup {"cancelled"}
    /\ hasDir' = FALSE
    /\ UNCHANGED <<compiles, phase, attempt, timedOut, result, sandbox, exits, starts,
                   launches>>

-----------------------------------------------------------------------------
(* runsc and the user's program                                             *)

LaunchFails ==
    /\ sandbox = "starting"
    /\ sandbox' = "gone"
    /\ \E e \in LaunchErrors : exits' = [exits EXCEPT ![phase] = e]
    /\ UNCHANGED <<executor, starts, faults>>

UserStarts ==
    /\ sandbox = "starting"
    /\ sandbox' = "user"
    /\ starts' = [starts EXCEPT ![phase] = @ + 1]
    /\ UNCHANGED <<executor, exits, faults>>

UserExitsWith(e) ==
    /\ sandbox = "user"
    /\ sandbox' = "gone"
    /\ exits' = [exits EXCEPT ![phase] = e]
    /\ faults' = IF e = LooksUnlaunched THEN faults \cup {"mimicked"} ELSE faults
    /\ UNCHANGED <<executor, starts>>

-----------------------------------------------------------------------------

ExecutorStep ==
    \/ Stage \/ StageFails \/ Spawn \/ SpawnFails
    \/ Exited \/ WallTimeout \/ KillHangs \/ Reaped
    \/ Collect \/ DeleteHangs \/ Retry

SandboxStep == LaunchFails \/ UserStarts \/ \E e \in Exits : UserExitsWith(e)

Finished == Over /\ ~Live /\ UNCHANGED vars

Next == ExecutorStep \/ Cancel \/ SandboxStep \/ Finished

Spec == Init /\ [][Next]_vars

(* The event loop runs execute() whenever it can go on, and its timers      *)
(* fire.  Nothing is assumed of the sandbox: a program may never exit.      *)
FairSpec == Spec /\ WF_vars(ExecutorStep)

-----------------------------------------------------------------------------
(* Properties                                                               *)

(* A program is launched only after its own compilation exited with 0: no   *)
(* stale or half-made binary is ever run (runner.py:235-243).               *)
RunNeedsCompile ==
    compiles /\ launches["run"] > 0 => exits["compile"].code = 0 /\ starts["compile"] > 0

(* "user code that ran is never re-executed" (README.md:223-224): neither   *)
(* phase starts user code twice, whatever the launches before it did, if no *)
(* program exits as a failed launch does (runner.py:173-194).               *)
UserCodeOnce == "mimicked" \notin faults => \A p \in Phases : starts[p] <= 1

(* The retry is bounded, per phase, whatever fails (runner.py:187).         *)
LaunchesBounded == \A p \in Phases : launches[p] <= LaunchRetries + 1

(* "destroyed immediately after" (README.md:4): when execute() is over, no  *)
(* sandbox of it is alive and its run directory is gone, on every path but  *)
(* a cancellation and a hanging "runsc kill".                               *)
NothingLeftBehind ==
    Over /\ "cancelled" \notin faults /\ "kill hung" \notin faults => ~Live /\ ~hasDir

(* What execute() reports is what happened: no exit code exactly when it    *)
(* timed out, the stage that failed, and success only if user code ran in   *)
(* every phase the request has.                                             *)
ResultHonest ==
    pc = "returned" /\ ~result.error =>
        /\ result.code = -1 <=> result.timedOut
        /\ result.stage = "compile" =>
              compiles /\ result.code # 0 /\ launches["run"] = 0
        /\ result.stage = "run" => launches["run"] > 0
        /\ result.code \in {0, 1, 128} => result.code = exits[result.stage].code
        /\ result.code = 0 => starts["run"] > 0 /\ (compiles => starts["compile"] > 0)

(* execute() comes to an end even if the program never does: the wall       *)
(* timeout is enforced in every phase and attempt.                          *)
ExecuteReturns == <>Over
=============================================================================
