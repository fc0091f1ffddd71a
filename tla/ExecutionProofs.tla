-------------------------- MODULE ExecutionProofs --------------------------
(***************************************************************************)
(* Proofs about Execution, for every number of launch retries.             *)
(*                                                                         *)
(* The facts that make the properties inductive are about where a phase    *)
(* stands: how many launches are behind it (Launching), what an exit tells *)
(* of the user code (Exiting), and what of the compilation a run may rely  *)
(* on (Ordering).                                                          *)
(***************************************************************************)
EXTENDS Execution, TLAPS

(* The compile phase comes first, if there is one, and is not gone back to. *)
Ordering ==
    /\ phase = "compile" =>
         compiles /\ launches["run"] = 0 /\ starts["run"] = 0 /\ exits["run"] = NoExit
    /\ phase = "run" /\ compiles =>
         exits["compile"].code = 0 /\ starts["compile"] > 0
    /\ ~compiles => launches["compile"] = 0 /\ starts["compile"] = 0

(* A phase has been launched once more than it was retried. *)
Launching ==
    /\ pc \in {"staging", "spawning"} => launches[phase] = attempt
    /\ pc \in {"waiting", "reaping", "reading", "backoff"} =>
         launches[phase] = attempt + 1
    /\ pc = "backoff" => attempt < LaunchRetries
    /\ LaunchesBounded

(* Only user code exits with 0, and an exit is known once it is awaited. *)
Exiting ==
    /\ pc = "waiting" => sandbox # "absent"
    /\ pc = "reading" => sandbox = "gone"
    /\ pc \in {"staging", "spawning", "reaping", "backoff"} => ~Live
    /\ pc = "reaping" => sandbox = "gone"
    /\ sandbox = "user" => starts[phase] > 0
    /\ sandbox = "gone" /\ exits[phase].code = 0 => starts[phase] > 0
    /\ sandbox = "gone" /\ pc \in {"waiting", "reaping", "reading"} =>
         exits[phase] \in Exits
    /\ pc = "reading" => launches[phase] > 0

(* What the end of execute() leaves. *)
Ending ==
    /\ Over => ~hasDir
    /\ Over /\ "cancelled" \notin faults /\ "kill hung" \notin faults => ~Live
    /\ pc = "returned" /\ ~result.error => ~Live /\ result.stage = phase
    /\ ResultHonest

(* Once user code has been started, its phase is not launched again. *)
Once ==
    "mimicked" \notin faults =>
        /\ \A p \in Phases : starts[p] <= 1
        /\ starts[phase] > 0 =>
             /\ pc \notin {"staging", "spawning", "backoff"}
             /\ sandbox # "starting"
             /\ sandbox = "gone" => exits[phase] # LooksUnlaunched

IInv == Types /\ Ordering /\ Launching /\ Exiting /\ Ending /\ Once

-----------------------------------------------------------------------------

LEMMA InvInit == Init => IInv
  <1> SUFFICES ASSUME Init PROVE IInv
    OBVIOUS
  <1> USE LaunchRetriesAssumption DEF Init, Phases
  <1>1. NoResult \in Results
    BY DEF NoResult, Results
  <1>2. Types
    <2>1. /\ exits \in [Phases -> Exits \cup {NoExit}]
          /\ starts \in [Phases -> Nat] /\ launches \in [Phases -> Nat]
      OBVIOUS
    <2>2. phase \in Phases /\ attempt \in 0..LaunchRetries
      OBVIOUS
    <2> QED
      BY <1>1, <2>1, <2>2 DEF Types
  <1>3. Ordering /\ Launching /\ Exiting
    BY DEF Ordering, Launching, Exiting, LaunchesBounded, Live
  <1>4. Ending /\ Once
    BY DEF Ending, Once, ResultHonest, Over
  <1> QED
    BY <1>2, <1>3, <1>4 DEF IInv

LEMMA NoExitIsNone == NoExit \notin Exits /\ NoExit # LooksUnlaunched
  BY DEF NoExit, Exits, LooksUnlaunched

(* Faults are recorded and never forgotten. *)
LEMMA FaultsStep ==
    ASSUME [Next]_vars
    PROVE  \/ UNCHANGED faults
           \/ \E f \in Faults : faults' = faults \cup {f}
  <1>1. "cancelled" \in Faults /\ "kill hung" \in Faults /\ "delete hung" \in Faults
        /\ "mimicked" \in Faults
    BY DEF Faults
  <1>2. CASE SandboxStep
    BY <1>1, <1>2 DEF SandboxStep, LaunchFails, UserStarts, UserExitsWith
  <1>3. CASE Cancel \/ KillHangs \/ DeleteHangs
    BY <1>1, <1>3 DEF Cancel, KillHangs, DeleteHangs
  <1>4. CASE \/ Stage \/ StageFails \/ Spawn \/ SpawnFails \/ Exited \/ WallTimeout
             \/ Reaped \/ Collect \/ Retry \/ UNCHANGED vars
    BY <1>4 DEF Stage, StageFails, Spawn, SpawnFails, Exited, WallTimeout, Reaped, Collect,
                Retry, vars
  <1> QED
    BY <1>2, <1>3, <1>4 DEF Next, ExecutorStep, Finished

(* An exception ends execute() with an error: it tells nothing of the run,  *)
(* and leaves a live sandbox only if it came from a hanging tool.           *)
LEMMA RaiseStep ==
    ASSUME IInv, Raise, UNCHANGED <<sandbox, exits, starts>>, timedOut' \in BOOLEAN,
           "mimicked" \in faults => "mimicked" \in faults',
           "kill hung" \in faults' \/ ~Live
    PROVE  IInv'
  <1>1. /\ result' = ErrorResult /\ pc' = "returned" /\ hasDir' = FALSE
        /\ UNCHANGED <<compiles, phase, attempt, launches>>
    BY DEF Raise, Return
  <1>2. ErrorResult \in Results /\ ErrorResult.error
    BY DEF ErrorResult, NoResult, Results, Phases
  <1>3. Types'
    BY <1>1, <1>2 DEF IInv, Types
  <1>4. Ordering' /\ Launching' /\ Exiting'
    BY <1>1 DEF IInv, Ordering, Launching, LaunchesBounded, Exiting, Live
  <1>5. Ending'
    BY <1>1, <1>2 DEF Ending, ResultHonest, Over, Live
  <1>6. Once'
    BY <1>1 DEF IInv, Once
  <1> QED
    BY <1>3, <1>4, <1>5, <1>6 DEF IInv

(* What the sandbox does between two steps of execute(). *)
LEMMA SandboxInv ==
    ASSUME IInv, SandboxStep
    PROVE  IInv'
  <1>1. /\ UNCHANGED <<compiles, pc, phase, attempt, timedOut, hasDir, result, launches>>
        /\ "mimicked" \in faults => "mimicked" \in faults'
        /\ phase \in Phases /\ Live
    BY DEF SandboxStep, LaunchFails, UserStarts, UserExitsWith, executor, IInv, Types, Live
  <1>2. CASE UserStarts
    <2>1. /\ sandbox = "starting" /\ sandbox' = "user" /\ UNCHANGED <<exits, faults>>
          /\ starts' = [starts EXCEPT ![phase] = @ + 1]
      BY <1>2 DEF UserStarts
    <2>2. /\ starts' \in [Phases -> Nat]
          /\ starts'[phase] = starts[phase] + 1 /\ starts[phase] \in Nat
          /\ \A p \in Phases \ {phase} : starts'[p] = starts[p]
      BY <1>1, <2>1 DEF IInv, Types
    <2> HIDE <1>2
    <2>3. Types'
      BY <1>1, <2>1, <2>2 DEF IInv, Types
    <2>4. Ordering'
      BY <1>1, <2>1, <2>2 DEF IInv, Types, Ordering, Phases
    <2>5. Launching' /\ Exiting'
      BY <1>1, <2>1, <2>2 DEF IInv, Launching, LaunchesBounded, Exiting, Live
    <2>6. Ending'
      BY <1>1, <2>1 DEF IInv, Ending, Exiting, ResultHonest, Over, Live
    <2>7. Once'
      BY <1>1, <2>1, <2>2 DEF IInv, Types, Once, Exiting, Phases
    <2> QED
      BY <2>3, <2>4, <2>5, <2>6, <2>7 DEF IInv
  <1>3. ASSUME NEW e \in Exits, sandbox' = "gone", exits' = [exits EXCEPT ![phase] = e],
               UNCHANGED starts, e.code = 0 => sandbox = "user",
               sandbox = "user" /\ e = LooksUnlaunched => "mimicked" \in faults',
               "cancelled" \in faults => "cancelled" \in faults',
               "kill hung" \in faults => "kill hung" \in faults'
        PROVE  IInv'
    <2>1. /\ exits' \in [Phases -> Exits \cup {NoExit}] /\ exits'[phase] = e
          /\ \A p \in Phases \ {phase} : exits'[p] = exits[p]
      BY <1>1, <1>3 DEF IInv, Types
    <2>2. Types'
      BY <1>1, <1>3, <2>1 DEF IInv, Types
    <2>3. Ordering'
      BY <1>1, <1>3, <2>1 DEF IInv, Types, Ordering, Phases
    <2>4. Launching' /\ Exiting'
      BY <1>1, <1>3, <2>1 DEF IInv, Launching, LaunchesBounded, Exiting, Live
    <2>5. Ending'
      BY <1>1, <1>3, <2>1 DEF IInv, Ending, ResultHonest, Over, Live
    <2>6. Once'
      BY <1>1, <1>3, <2>1 DEF IInv, Types, Once, Exiting, Phases, Live
    <2> QED
      BY <2>2, <2>3, <2>4, <2>5, <2>6 DEF IInv
  <1>4. CASE LaunchFails
    <2>1. PICK e \in LaunchErrors : exits' = [exits EXCEPT ![phase] = e]
      BY <1>4 DEF LaunchFails
    <2>2. e \in Exits /\ e.code # 0
      BY DEF LaunchErrors
    <2> QED
      BY <1>3, <1>4, <2>1, <2>2 DEF LaunchFails, executor
  <1>5. ASSUME NEW e \in Exits, UserExitsWith(e) PROVE IInv'
    BY <1>3, <1>5 DEF UserExitsWith
  <1> QED
    BY <1>2, <1>4, <1>5 DEF SandboxStep

LEMMA StutterInv ==
    ASSUME IInv, UNCHANGED vars
    PROVE  IInv'
  <1> USE DEF vars
  <1>1. Types'
    BY DEF IInv, Types
  <1>2. Ordering' /\ Launching' /\ Exiting'
    BY DEF IInv, Ordering, Launching, LaunchesBounded, Exiting, Live
  <1>3. Ending'
    BY DEF IInv, Ending, ResultHonest, Over, Live
  <1>4. Once'
    BY DEF IInv, Once
  <1> QED
    BY <1>1, <1>2, <1>3, <1>4 DEF IInv

LEMMA InvStep == IInv /\ [Next]_vars => IInv'
  <1> SUFFICES ASSUME IInv, [Next]_vars
               PROVE  IInv'
    OBVIOUS
  <1> USE LaunchRetriesAssumption
      DEF IInv, Types, Ordering, Launching, Exiting, Ending, Once,
          LaunchesBounded, ResultHonest, Over, Live, Phases, Awaits, Exits, Results
  <1>1. CASE Stage
    BY <1>1 DEF Stage
  <1>2. CASE StageFails
    BY <1>2, RaiseStep DEF StageFails
  <1>3. CASE Spawn
    <2>1. NoExit \notin Exits /\ NoExit # LooksUnlaunched
      <3> HIDE DEF IInv, Exits
      <3> QED
        BY NoExitIsNone
    <2>2. /\ phase \in Phases
          /\ exits' = [exits EXCEPT ![phase] = NoExit] /\ exits'[phase] = NoExit
          /\ launches' = [launches EXCEPT ![phase] = @ + 1]
          /\ UNCHANGED <<compiles, phase, attempt, hasDir, result, starts>>
      BY <1>3 DEF Spawn
    <2>5. Types'
      <3> HIDE DEF Exits, Results, Ordering, Launching, Exiting, Ending, Once
      <3>1. exits' \in [Phases -> Exits \cup {NoExit}]
        BY <2>2
      <3>2. launches' \in [Phases -> Nat]
        BY <2>2
      <3>3. pc' = "waiting" /\ sandbox' = "starting" /\ timedOut' = FALSE
        BY <1>3 DEF Spawn
      <3> QED
        BY <2>2, <3>1, <3>2, <3>3
    <2>6. Ordering'
      BY <2>2
    <2>3. Launching' /\ Exiting'
      BY <1>3 DEF Spawn
    <2>4. Ending' /\ Once'
      BY <1>3, <2>1 DEF Spawn
    <2> QED
      BY <2>3, <2>4, <2>5, <2>6
  <1>4. CASE SpawnFails
    BY <1>4, RaiseStep DEF SpawnFails
  <1>5. CASE Exited
    BY <1>5 DEF Exited
  <1>6. CASE WallTimeout
    BY <1>6 DEF WallTimeout, Killed, LooksUnlaunched
  <1>7. CASE KillHangs
    BY <1>7, RaiseStep DEF KillHangs
  <1>8. CASE Reaped
    BY <1>8 DEF Reaped
  <1>9. CASE DeleteHangs
    BY <1>9, RaiseStep DEF DeleteHangs
  <1>10. CASE Retry
    BY <1>10 DEF Retry
  <1>11. CASE Cancel
    <2>1. Types'
      <3>1. /\ pc' = "cancelled" /\ hasDir' = FALSE
            /\ UNCHANGED <<compiles, phase, attempt, timedOut, result, sandbox, exits,
                           starts, launches>>
        BY <1>11 DEF Cancel
      <3> HIDE DEF Exits, Results, Ordering, Launching, Exiting, Ending, Once
      <3> QED
        BY <3>1
    <2>4. Ordering' /\ Launching'
      BY <1>11 DEF Cancel
    <2>2. Exiting' /\ Ending'
      BY <1>11 DEF Cancel
    <2>3. Once'
      BY <1>11 DEF Cancel
    <2> QED
      BY <2>1, <2>2, <2>3, <2>4
  <1>12. CASE SandboxStep
    BY <1>12, SandboxInv
  <1>13. CASE Collect
    <2>1. /\ pc = "reading" /\ sandbox = "gone" /\ exits[phase] \in Exits
          /\ exits[phase].code \in {0, 1, 128}
          /\ UNCHANGED <<timedOut, sandbox, exits, starts, faults>>
      BY <1>13 DEF Collect
    <2>2. CASE pc' = "backoff"
      <3>1. /\ IsTransientLaunchFailure /\ attempt < LaunchRetries
            /\ UNCHANGED <<compiles, phase, attempt, hasDir, result, launches>>
        BY <1>13, <2>2 DEF Collect, Return, MayRetry
      <3>2. exits[phase] = LooksUnlaunched
        BY <2>1, <3>1 DEF IsTransientLaunchFailure, LooksUnlaunched
      <3>3. Types' /\ Ordering' /\ Launching' /\ Exiting'
        BY <2>1, <2>2, <3>1
      <3>4. Ending'
        <4> HIDE DEF Types, Ordering, Launching, Once, Exits, Results
        <4> QED
          BY <2>1, <2>2, <3>1, <3>2
      <3>6. Once'
        <4> HIDE DEF Ordering, Launching, Ending, Results
        <4> QED
          BY <2>1, <2>2, <3>1, <3>2
      <3> QED
        BY <3>3, <3>4, <3>6
    <2>3. CASE pc' = "spawning"
      <3>1. /\ phase = "compile" /\ ~CompileFailed /\ phase' = "run" /\ attempt' = 0
            /\ UNCHANGED <<compiles, hasDir, result, launches>>
        BY <1>13, <2>3 DEF Collect, Return
      <3>2. exits["compile"].code = 0
        BY <3>1 DEF CompileFailed
      <3>3. Types' /\ Ordering' /\ Launching'
        BY <2>1, <2>3, <3>1, <3>2
      <3>5. Exiting'
        BY <2>1, <2>3, <3>1 DEF NoExit
      <3>4. Ending'
        <4> HIDE DEF Types, Ordering, Launching, Once, Exits, Results
        <4> QED
          BY <2>1, <2>3, <3>1
      <3>6. Once'
        <4> HIDE DEF Launching, Exiting, Ending, Results
        <4> QED
          BY <2>1, <2>3, <3>1
      <3> QED
        BY <3>3, <3>4, <3>5, <3>6
    <2>4. CASE pc' = "returned"
      <3>1. /\ phase = "compile" => result' = [Collected EXCEPT !.stage = "compile"]
            /\ phase = "run" => result' = Collected
            /\ phase = "compile" => CompileFailed
            /\ hasDir' = FALSE /\ UNCHANGED <<compiles, phase, attempt, launches>>
        BY <1>13, <2>4 DEF Collect, Return
      <3>2. /\ result'.error = FALSE /\ result'.timedOut = timedOut
            /\ result'.stage = phase
            /\ result'.code = IF timedOut THEN -1 ELSE exits[phase].code
            /\ result' \in Results
        <4> DEFINE c == IF timedOut THEN -1 ELSE exits[phase].code
        <4>3. c \in {-1, 0, 1, 128} /\ timedOut \in BOOLEAN
          BY <2>1
        <4> HIDE DEF c
        <4>1. CASE phase = "compile"
          <5>1. result' = [error |-> FALSE, timedOut |-> timedOut, code |-> c,
                           stage |-> "compile"]
            BY <3>1, <4>1 DEF Collected, c
          <5> QED
            BY <4>1, <4>3, <5>1 DEF c
        <4>2. CASE phase = "run"
          <5>1. result' = [error |-> FALSE, timedOut |-> timedOut, code |-> c,
                           stage |-> "run"]
            BY <3>1, <4>2 DEF Collected, c
          <5> QED
            BY <4>2, <4>3, <5>1 DEF c
        <4> QED
          BY <4>1, <4>2
      <3>3. Types' /\ Ordering' /\ Launching' /\ Exiting'
        BY <2>1, <2>4, <3>1, <3>2
      <3>4. ResultHonest'
        BY <2>1, <2>4, <3>1, <3>2 DEF CompileFailed
      <3>5. Ending'
        <4> HIDE DEF Types, Ordering, Launching, Once, Exits, Results, ResultHonest
        <4> QED
          BY <2>1, <2>4, <3>1, <3>2, <3>4
      <3>6. Once'
        <4> HIDE DEF Ordering, Launching, Ending, Results
        <4> QED
          BY <2>1, <2>4, <3>1
      <3> QED
        BY <3>3, <3>5, <3>6
    <2> QED
      BY <1>13, <2>2, <2>3, <2>4 DEF Collect, Return

  <1>14. CASE UNCHANGED vars
    BY <1>14, StutterInv
  <1> QED
    BY <1>1, <1>2, <1>3, <1>4, <1>5, <1>6, <1>7, <1>8, <1>9, <1>10, <1>11, <1>12, <1>13, <1>14
    DEF Next, ExecutorStep, Finished

-----------------------------------------------------------------------------
(* What follows, for every LaunchRetries.                                   *)

(* IInv is an invariant of an execution.                                    *)
THEOREM Invariance == Spec => []IInv
  BY InvInit, InvStep, PTL DEF Spec

(* Every variable keeps its type.                                           *)
THEOREM TypeCorrect == Spec => []TypeOK
  <1> DEFINE Known == faults \subseteq Faults
  <1>1. Init => Known
    BY DEF Init
  <1>2. Known /\ [Next]_vars => Known'
    BY FaultsStep
  <1>3. IInv /\ Known => TypeOK
    BY DEF IInv, TypeOK
  <1> QED
    BY <1>1, <1>2, <1>3, Invariance, PTL DEF Spec

(* The run phase is launched only after a compilation that exited with 0,   *)
(* whatever fails, hangs or is cancelled (runner.py:235-243).               *)
THEOREM CompiledFirst == Spec => []RunNeedsCompile
  <1>1. IInv => RunNeedsCompile
    BY DEF IInv, Types, Ordering, RunNeedsCompile, Phases
  <1> QED
    BY <1>1, Invariance, PTL

(* Each phase is launched at most LaunchRetries + 1 times (runner.py:187).  *)
THEOREM RetryBounded == Spec => []LaunchesBounded
  <1>1. IInv => LaunchesBounded
    BY DEF IInv, Launching
  <1> QED
    BY <1>1, Invariance, PTL

(* The result reported is the result of what ran, on every path.            *)
THEOREM Honest == Spec => []ResultHonest
  <1>1. IInv => ResultHonest
    BY DEF IInv, Ending
  <1> QED
    BY <1>1, Invariance, PTL

(* Until a program exits exactly as a failed launch does, no user code is   *)
(* run a second time: nothing but the retry's signature stands between.     *)
THEOREM NotReexecuted == Spec => []UserCodeOnce
  <1>1. IInv => UserCodeOnce
    BY DEF IInv, Once, UserCodeOnce
  <1> QED
    BY <1>1, Invariance, PTL

(* Without a cancellation and without a hanging "runsc kill", execute()     *)
(* leaves neither a sandbox nor a directory.                                *)
THEOREM LeavesNothing == Spec => []NothingLeftBehind
  <1>1. IInv => NothingLeftBehind
    BY DEF IInv, Ending, NothingLeftBehind
  <1> QED
    BY <1>1, Invariance, PTL
=============================================================================
