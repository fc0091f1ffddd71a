--------------------------- MODULE JobQueueProofs ---------------------------
(***************************************************************************)
(* Proofs about JobQueue, for every set of jobs, every finite pool of      *)
(* workers and every queue depth.                                          *)
(*                                                                         *)
(* None of the safety properties is inductive alone: that the counters are *)
(* right needs that a job is in one place, that needs that what is queued  *)
(* has status "queued", and so on.  IInv is their common strengthening.    *)
(***************************************************************************)
EXTENDS JobQueue, TLAPS, FiniteSetTheorems, SequenceTheorems

(* Where a job is agrees with what its status says. *)
Places ==
    /\ OneOwner
    /\ \A i \in 1..Len(queue) : status[queue[i]] = "queued"
    /\ \A j \in Jobs : status[j] = "queued" => Queued(j)
    /\ \A w \in Workers : current[w] # NoJob <=> task[w] \in {"executing", "finalizing"}
    /\ \A w \in Workers : task[w] = "executing" =>
         /\ status[current[w]] = "running"
         /\ finishedAt[current[w]] = "none"
    /\ \A w \in Workers : task[w] = "finalizing" =>
         /\ status[current[w]] \in {"done", "error"}
         /\ current[w] \in AsyncJobs
    /\ \A j \in Jobs : status[j] = "running" =>
         \/ finishedAt[j] # "none"
         \/ \E w \in Executing : current[w] = j
    /\ \A j \in Jobs : status[j] \in {"new", "queued"} => finishedAt[j] = "none"
    /\ \A j \in Jobs : status[j] \in {"done", "error"} => finishedAt[j] # "none"

(* The counters, and the bound put_nowait enforces. *)
Counts ==
    /\ Accounting
    /\ QueueDepth > 0 => Len(queue) <= QueueDepth

(* The life of the service and of its worker tasks. *)
Phases ==
    /\ stop = "constructed" => \A w \in Workers : task[w] = "uncreated"
    /\ closing <=> stop \in {"joining", "cancelling", "stopped"}
    /\ joined => stop \in {"cancelling", "stopped"} /\ unfinished = 0
    /\ stop = "stopped" => \A w \in Workers : task[w] = "dead"

(* An execution is given up only when the grace has expired. *)
Abandoned ==
    \A j \in Jobs : status[j] = "running" /\ finishedAt[j] # "none" =>
        stop \in {"cancelling", "stopped"} /\ ~joined

IInv ==
    /\ TypeOK
    /\ Places
    /\ Counts
    /\ Phases
    /\ Abandoned
    /\ NoCallerForgotten
    /\ PollableUntilTtl

-----------------------------------------------------------------------------
(* What the proofs need of the two sequence operators of the queue.         *)

(* Enqueueing: put_nowait keeps every item where it is, and adds one last.  *)
LEMMA AppendFacts ==
    ASSUME NEW S, NEW s \in Seq(S), NEW e \in S
    PROVE  /\ Append(s, e) \in Seq(S)
           /\ Len(Append(s, e)) = Len(s) + 1
           /\ \A i \in 1..Len(s) : Append(s, e)[i] = s[i]
           /\ Append(s, e)[Len(s) + 1] = e
           /\ Len(s) \in Nat
  BY AppendProperties, LenProperties

(* Dequeueing: get() returns the first item and shifts the others.          *)
LEMMA HeadTailFacts ==
    ASSUME NEW S, NEW s \in Seq(S), s # <<>>
    PROVE  /\ Head(s) = s[1] /\ Head(s) \in S
           /\ Tail(s) \in Seq(S)
           /\ Len(s) \in Nat \ {0}
           /\ Len(Tail(s)) = Len(s) - 1
           /\ \A i \in 1..Len(Tail(s)) : Tail(s)[i] = s[i + 1]
  BY HeadTailProperties, EmptySeq, LenProperties

-----------------------------------------------------------------------------
(* Type correctness needs Places and Counts: a worker leaves an execution   *)
(* with a job in hand and with both counters positive.                      *)

LEMMA ExecutingFinite == IsFiniteSet(Executing) /\ Cardinality(Executing) \in Nat
  BY WorkersAssumption, FS_Subset, FS_CardinalityType DEF Executing

(* A worker in execution is counted by both counters.                       *)
LEMMA ExecutingCounted ==
    ASSUME IInv, NEW w \in Workers, task[w] = "executing"
    PROVE  active >= 1 /\ unfinished >= 1
  <1>1. Executing # {}
    BY DEF Executing
  <1>2. Cardinality(Executing) # 0
    BY <1>1, ExecutingFinite, FS_EmptySet
  <1>3. Len(queue) \in Nat
    BY LenProperties DEF IInv, TypeOK
  <1> QED
    BY <1>2, <1>3, ExecutingFinite DEF IInv, Counts, Accounting, Stats

LEMMA TypeInit == Init => TypeOK
  <1>1. <<>> \in Seq(Jobs)
    BY EmptySeq
  <1> SUFFICES ASSUME Init PROVE TypeOK
    OBVIOUS
  <1>2. /\ task \in [Workers -> TaskStates]
        /\ current \in [Workers -> Jobs \cup {NoJob}]
        /\ status \in [Jobs -> JobStates]
        /\ future \in [Jobs -> FutureStates]
        /\ finishedAt \in [Jobs -> {"none", "recent", "expired"}]
        /\ hook \in [Jobs -> HookStates]
    BY DEF Init, TaskStates, JobStates, FutureStates, HookStates
  <1> QED
    BY <1>1, <1>2 DEF Init, TypeOK, StopStates

LEMMA TypeStep == IInv /\ [Next]_vars => TypeOK'
  <1> SUFFICES ASSUME IInv, [Next]_vars
               PROVE  TypeOK'
    OBVIOUS
  <1> USE DEF TypeOK, StopStates, TaskStates, JobStates, FutureStates, HookStates,
              jobVars, stopVars
  <1>0. TypeOK /\ AsyncJobs \subseteq Jobs
    BY DEF IInv, AsyncJobs
  <1>1. ASSUME NEW j \in Jobs, Submit(j) PROVE TypeOK'
    BY <1>0, <1>1, AppendFacts DEF Submit, Enqueue
  <1>2. ASSUME NEW j \in Jobs, SubmitAsync(j) PROVE TypeOK'
    BY <1>0, <1>2, AppendFacts DEF SubmitAsync, Enqueue
  <1>3. ASSUME NEW j \in Jobs, CallerCancelled(j) PROVE TypeOK'
    BY <1>0, <1>3 DEF CallerCancelled
  <1>4. CASE SubmitAsyncRefused
    BY <1>0, <1>4 DEF SubmitAsyncRefused, Prune
  <1>5. CASE GetJob
    BY <1>0, <1>5 DEF GetJob, Prune
  <1>6. ASSUME NEW j \in Jobs, TtlElapses(j) PROVE TypeOK'
    BY <1>0, <1>6 DEF TtlElapses
  <1>7. CASE LifeStep
    BY <1>0, <1>7 DEF LifeStep, Start, StopCalled, JoinReturns, GraceExpires,
                      StopReturns
  <1>8. ASSUME NEW w \in Workers, Dequeue(w) PROVE TypeOK'
    BY <1>0, <1>8, HeadTailFacts DEF Dequeue
  <1>9. ASSUME NEW w \in Workers, NEW o \in {"done", "error"}, Complete(w, o)
        PROVE  TypeOK'
    <2>1. current[w] \in Jobs /\ active >= 1 /\ unfinished >= 1
      BY <1>0, <1>9, ExecutingCounted DEF Complete, IInv, Places
    <2>2. /\ status' \in [Jobs -> JobStates]
          /\ future' \in [Jobs -> FutureStates]
      BY <1>0, <1>9, <2>1 DEF Complete, Resolve
    <2>3. /\ finishedAt' \in [Jobs -> {"none", "recent", "expired"}]
          /\ active' \in Nat /\ unfinished' \in Nat
      BY <1>0, <1>9, <2>1 DEF Complete, LeaveExecution
    <2>4. /\ hook' \in [Jobs -> HookStates]
          /\ task' \in [Workers -> TaskStates]
          /\ current' \in [Workers -> Jobs \cup {NoJob}]
      BY <1>0, <1>9, <2>1 DEF Complete, Release
    <2> QED
      BY <1>0, <1>9, <2>2, <2>3, <2>4 DEF Complete
  <1>10. ASSUME NEW w \in Workers, NEW h \in {"returned", "raised"}, HookEnds(w, h)
         PROVE  TypeOK'
    BY <1>0, <1>10 DEF HookEnds, Release
  <1>11. ASSUME NEW w \in Workers, CancelDelivered(w) PROVE TypeOK'
    <2>1. CASE CancelIdle(w)
      BY <1>0, <2>1 DEF CancelIdle
    <2>2. CASE CancelExecution(w)
      <3>1. current[w] \in Jobs /\ active >= 1 /\ unfinished >= 1
        BY <1>0, <2>2, ExecutingCounted DEF CancelExecution, IInv, Places
      <3> QED
        BY <1>0, <2>2, <3>1 DEF CancelExecution, Resolve, LeaveExecution, Release
    <2>3. CASE CancelHook(w)
      BY <1>0, <2>3 DEF CancelHook, Release
    <2> QED
      BY <1>11, <2>1, <2>2, <2>3 DEF CancelDelivered
  <1>12. CASE UNCHANGED vars
    BY <1>0, <1>12 DEF vars
  <1> QED
    BY <1>1, <1>2, <1>3, <1>4, <1>5, <1>6, <1>7, <1>8, <1>9, <1>10, <1>11, <1>12
    DEF Next, ClientStep, WorkerStep, CompleteSome, HookEndsSome

-----------------------------------------------------------------------------
(* Places: one case per action that moves a job or changes its status.      *)

LEMMA PlacesStep == IInv /\ [Next]_vars => Places'
  <1> SUFFICES ASSUME IInv, [Next]_vars
               PROVE  Places'
    OBVIOUS
  <1>0. TypeOK /\ Places /\ Phases /\ AsyncJobs \subseteq Jobs
    BY DEF IInv, AsyncJobs
  <1> USE DEF jobVars, stopVars, Executing
  <1>1. ASSUME NEW j \in Jobs, Submit(j) \/ SubmitAsync(j) PROVE Places'
    <2>1. /\ Enqueue(j)
          /\ UNCHANGED <<task, current, finishedAt>>
      BY <1>1 DEF Submit, SubmitAsync
    <2>2. /\ Len(queue') = Len(queue) + 1 /\ Len(queue) \in Nat
          /\ \A i \in 1..Len(queue) : queue'[i] = queue[i]
          /\ queue'[Len(queue) + 1] = j
      BY <1>0, <2>1, AppendFacts DEF Enqueue, TypeOK
    <2>3. status[j] = "new" /\ status' = [status EXCEPT ![j] = "queued"]
      BY <2>1 DEF Enqueue
    <2>4. \A i \in 1..Len(queue) : queue[i] \in Jobs /\ queue[i] # j
      BY <1>0, <2>3, ElementOfSeq DEF TypeOK, Places
    <2>5. \A w \in Workers : current[w] # j
      BY <1>0, <2>3, JobsAssumption DEF TypeOK, Places
    <2>6. OneOwner'
      BY <1>0, <2>1, <2>2, <2>4, <2>5 DEF Places, OneOwner, Queued
    <2>7. \A k \in Jobs : Queued(k) => Queued(k)'
      BY <2>2 DEF Queued
    <2>8. Queued(j)'
      BY <2>2 DEF Queued
    <2> QED
      BY <1>0, <2>1, <2>2, <2>3, <2>4, <2>5, <2>6, <2>7, <2>8 DEF Places, TypeOK
  <1>2. ASSUME NEW j \in Jobs, TtlElapses(j) PROVE Places'
    BY <1>0, <1>2 DEF TtlElapses, Places, TypeOK, OneOwner, Queued
  <1>3. CASE Start
    BY <1>0, <1>3 DEF Start, Places, Phases, TypeOK, OneOwner, Queued
  <1>4. ASSUME NEW w \in Workers, Dequeue(w) PROVE Places'
    <2> DEFINE j == Head(queue)
    <2>1. /\ queue # <<>> /\ queue' = Tail(queue)
          /\ task[w] = "idle" /\ task' = [task EXCEPT ![w] = "executing"]
          /\ current' = [current EXCEPT ![w] = j]
          /\ status' = [status EXCEPT ![j] = "running"]
          /\ finishedAt' = finishedAt
      BY <1>4 DEF Dequeue
    <2>2. /\ j = queue[1] /\ j \in Jobs
          /\ Len(queue) \in Nat \ {0}
          /\ Len(queue') = Len(queue) - 1
          /\ \A i \in 1..Len(queue') : queue'[i] = queue[i + 1]
      BY <1>0, <2>1, HeadTailFacts DEF TypeOK
    <2>3. status[j] = "queued" /\ finishedAt[j] = "none"
      BY <1>0, <2>2 DEF Places
    <2>4. \A v \in Workers : current[v] # j
      BY <1>0, <2>2, JobsAssumption DEF Places, OneOwner, Queued
    <2>5. \A i \in 1..Len(queue') : queue'[i] # j
      BY <1>0, <2>2 DEF Places, OneOwner
    <2>6. \A k \in Jobs : Queued(k)' <=> Queued(k) /\ k # j
      <3>1. ASSUME NEW k \in Jobs, Queued(k)' PROVE Queued(k) /\ k # j
        BY <2>2, <2>5, <3>1 DEF Queued
      <3>2. ASSUME NEW k \in Jobs, Queued(k), k # j PROVE Queued(k)'
        <4>1. PICK i \in 1..Len(queue) : queue[i] = k
          BY <3>2 DEF Queued
        <4>2. i - 1 \in 1..Len(queue') /\ queue'[i - 1] = k
          BY <2>2, <3>2, <4>1
        <4> QED
          BY <4>2 DEF Queued
      <3> QED
        BY <3>1, <3>2
    <2> HIDE DEF j
    <2>7. OneOwner'
      <3>1. \A i, k \in 1..Len(queue') : queue'[i] = queue'[k] => i = k
        BY <1>0, <2>2 DEF Places, OneOwner
      <3>2. \A v \in Workers : current'[v] # NoJob => current'[v] \in Jobs
        BY <1>0, <2>1, <2>2 DEF TypeOK
      <3>3. \A v \in Workers : current'[v] # NoJob =>
              ~\E i \in 1..Len(queue') : queue'[i] = current'[v]
        <4>1. \A k \in Jobs : (\E i \in 1..Len(queue') : queue'[i] = k)
                               <=> Queued(k) /\ k # j
          BY <2>6 DEF Queued
        <4>2. \A v \in Workers \ {w} : current'[v] = current[v]
          BY <1>0, <2>1 DEF TypeOK
        <4>3. current'[w] = j
          BY <1>0, <2>1 DEF TypeOK
        <4>4. \A v \in Workers : current[v] # NoJob => ~Queued(current[v])
          BY <1>0 DEF Places, OneOwner
        <4> QED
          BY <3>2, <4>1, <4>2, <4>3, <4>4
      <3>4. \A u, v \in Workers :
                current'[u] = current'[v] /\ current'[u] # NoJob => u = v
        BY <1>0, <2>1, <2>4 DEF TypeOK, Places, OneOwner
      <3> QED
        BY <3>1, <3>3, <3>4 DEF OneOwner, Queued
    <2>8. \A i \in 1..Len(queue') : status'[queue'[i]] = "queued"
      BY <1>0, <2>1, <2>2, <2>5, ElementOfSeq DEF TypeOK, Places
    <2>9. \A k \in Jobs : status'[k] = "running" =>
             \/ finishedAt'[k] # "none"
             \/ \E v \in Workers : task'[v] = "executing" /\ current'[v] = k
      BY <1>0, <2>1, <2>2 DEF TypeOK, Places
    <2>10. \A v \in Workers :
             /\ current'[v] # NoJob <=> task'[v] \in {"executing", "finalizing"}
             /\ task'[v] = "executing" => /\ status'[current'[v]] = "running"
                                          /\ finishedAt'[current'[v]] = "none"
             /\ task'[v] = "finalizing" =>
                  /\ status'[current'[v]] \in {"done", "error"}
                  /\ current'[v] \in AsyncJobs
      BY <1>0, <2>1, <2>2, <2>3, <2>4, JobsAssumption DEF TypeOK, Places
    <2> QED
      BY <1>0, <2>1, <2>2, <2>3, <2>6, <2>7, <2>8, <2>9, <2>10 DEF Places, TypeOK
  <1>5. ASSUME NEW w \in Workers, NEW o \in {"done", "error"}, Complete(w, o)
        PROVE  Places'
    <2> DEFINE j == current[w]
    <2>1. /\ task[w] = "executing" /\ queue' = queue
          /\ status' = [status EXCEPT ![j] = o]
          /\ finishedAt' = [finishedAt EXCEPT ![j] = "recent"]
          /\ \/ /\ task' = [task EXCEPT ![w] = "idle"]
                /\ current' = [current EXCEPT ![w] = NoJob]
             \/ /\ task' = [task EXCEPT ![w] = "finalizing"]
                /\ current' = current
                /\ j \in AsyncJobs
      BY <1>5 DEF Complete, LeaveExecution, Release
    <2>2. j \in Jobs /\ j # NoJob /\ ~Queued(j)
          /\ \A v \in Workers \ {w} : current[v] # j
      BY <1>0, <2>1, JobsAssumption DEF TypeOK, Places, OneOwner
    <2> HIDE DEF j
    <2>3. OneOwner'
      BY <1>0, <2>1, <2>2 DEF Places, OneOwner, Queued, TypeOK
    <2>4. \A i \in 1..Len(queue') : status'[queue'[i]] = "queued"
      BY <1>0, <2>1, <2>2, ElementOfSeq DEF TypeOK, Places, Queued
    <2>5. \A k \in Jobs : status'[k] = "queued" => Queued(k)'
      BY <1>0, <2>1 DEF TypeOK, Places, Queued
    <2>6. \A v \in Workers :
             /\ current'[v] # NoJob <=> task'[v] \in {"executing", "finalizing"}
             /\ task'[v] = "executing" => /\ status'[current'[v]] = "running"
                                          /\ finishedAt'[current'[v]] = "none"
             /\ task'[v] = "finalizing" =>
                  /\ status'[current'[v]] \in {"done", "error"}
                  /\ current'[v] \in AsyncJobs
      BY <1>0, <2>1, <2>2, JobsAssumption DEF TypeOK, Places, j
    <2>7. \A k \in Jobs : status'[k] = "running" =>
             \/ finishedAt'[k] # "none"
             \/ \E v \in Workers : task'[v] = "executing" /\ current'[v] = k
      BY <1>0, <2>1, <2>2 DEF TypeOK, Places, j
    <2> QED
      BY <1>0, <2>1, <2>2, <2>3, <2>4, <2>5, <2>6, <2>7 DEF Places, TypeOK
  <1>6. ASSUME NEW w \in Workers, CancelExecution(w) PROVE Places'
    <2> DEFINE j == current[w]
    <2>1. /\ task[w] = "executing" /\ queue' = queue /\ status' = status
          /\ finishedAt' = [finishedAt EXCEPT ![j] = "recent"]
          /\ task' = [task EXCEPT ![w] = "dead"]
          /\ current' = [current EXCEPT ![w] = NoJob]
      BY <1>6 DEF CancelExecution, LeaveExecution, Release
    <2>2. j \in Jobs /\ j # NoJob /\ status[j] = "running"
          /\ \A v \in Workers \ {w} : current[v] # j
      BY <1>0, <2>1, JobsAssumption DEF TypeOK, Places, OneOwner
    <2> HIDE DEF j
    <2>3. OneOwner'
      BY <1>0, <2>1, <2>2 DEF Places, OneOwner, Queued, TypeOK
    <2> QED
      BY <1>0, <2>1, <2>2, <2>3, JobsAssumption DEF Places, TypeOK, Queued, j
  <1>7. ASSUME NEW w \in Workers,
               CancelHook(w) \/ \E h \in {"returned", "raised"} : HookEnds(w, h)
        PROVE  Places'
    <2>1. /\ task[w] = "finalizing" /\ queue' = queue /\ status' = status
          /\ finishedAt' = finishedAt
          /\ \E s \in {"idle", "dead"} : task' = [task EXCEPT ![w] = s]
          /\ current' = [current EXCEPT ![w] = NoJob]
      BY <1>7 DEF CancelHook, HookEnds, Release
    <2>2. OneOwner'
      BY <1>0, <2>1 DEF Places, OneOwner, Queued, TypeOK
    <2> QED
      BY <1>0, <2>1, <2>2 DEF Places, TypeOK, Queued
  <1>8. ASSUME NEW w \in Workers, CancelIdle(w) PROVE Places'
    BY <1>0, <1>8 DEF CancelIdle, Places, TypeOK, OneOwner, Queued
  <1>9. ASSUME UNCHANGED <<queue, task, current, status, finishedAt>>
        PROVE  Places'
    BY <1>0, <1>9 DEF Places, OneOwner, Queued
  <1>10. ASSUME \/ \E j \in Jobs : CallerCancelled(j)
                \/ SubmitAsyncRefused \/ GetJob \/ StopCalled \/ JoinReturns
                \/ GraceExpires \/ StopReturns \/ UNCHANGED vars
         PROVE  UNCHANGED <<queue, task, current, status, finishedAt>>
    BY <1>10 DEF CallerCancelled, SubmitAsyncRefused, GetJob, StopCalled, JoinReturns,
                 GraceExpires, StopReturns, vars
  <1> QED
    BY <1>1, <1>2, <1>3, <1>4, <1>5, <1>6, <1>7, <1>8, <1>9, <1>10
    DEF Next, ClientStep, LifeStep, WorkerStep, CompleteSome, HookEndsSome,
        CancelDelivered

-----------------------------------------------------------------------------
(* Counts: an action that changes who executes changes both counters by one. *)

(* One worker more in execution.                                            *)
LEMMA ExecutingGrows ==
    ASSUME TypeOK, NEW w \in Workers, task[w] = "idle",
           task' = [task EXCEPT ![w] = "executing"]
    PROVE  Cardinality(Executing') = Cardinality(Executing) + 1
  <1>1. Executing' = Executing \cup {w} /\ w \notin Executing
    BY DEF Executing, TypeOK
  <1> QED
    BY <1>1, ExecutingFinite, FS_AddElement

(* One worker less in execution, whatever it does next.                     *)
LEMMA ExecutingShrinks ==
    ASSUME TypeOK, NEW w \in Workers, task[w] = "executing",
           NEW s \in {"idle", "finalizing", "dead"},
           task' = [task EXCEPT ![w] = s]
    PROVE  Cardinality(Executing') = Cardinality(Executing) - 1
  <1>1. Executing' = Executing \ {w} /\ w \in Executing
    BY DEF Executing, TypeOK
  <1> QED
    BY <1>1, ExecutingFinite, FS_RemoveElement

LEMMA CountsStep == IInv /\ [Next]_vars => Counts'
  <1> SUFFICES ASSUME IInv, [Next]_vars
               PROVE  Counts'
    OBVIOUS
  <1>0. /\ TypeOK /\ Counts /\ Phases /\ Len(queue) \in Nat
        /\ Cardinality(Executing) \in Nat /\ QueueDepth \in Nat
    BY ExecutingFinite, LenProperties, QueueDepthAssumption DEF IInv, TypeOK
  <1> USE DEF jobVars, stopVars
  <1>1. ASSUME NEW j \in Jobs, Submit(j) \/ SubmitAsync(j) PROVE Counts'
    <2>1. /\ Enqueue(j) /\ active' = active /\ task' = task
      BY <1>1 DEF Submit, SubmitAsync
    <2>2. Len(queue') = Len(queue) + 1
      BY <1>0, <2>1, AppendFacts DEF Enqueue, TypeOK
    <2>3. Executing' = Executing
      BY <2>1 DEF Executing
    <2> QED
      BY <1>0, <2>1, <2>2, <2>3
      DEF Counts, Accounting, Stats, Enqueue, Accepting, Full, TypeOK
  <1>2. ASSUME NEW w \in Workers, Dequeue(w) PROVE Counts'
    <2>1. Len(queue') = Len(queue) - 1
      BY <1>0, <1>2, HeadTailFacts DEF Dequeue, TypeOK
    <2>2. Cardinality(Executing') = Cardinality(Executing) + 1
      BY <1>0, <1>2, ExecutingGrows DEF Dequeue
    <2>3. active' = active + 1 /\ unfinished' = unfinished
      BY <1>2 DEF Dequeue
    <2> QED
      BY <1>0, <2>1, <2>2, <2>3 DEF Counts, Accounting, Stats
  <1>3. ASSUME NEW w \in Workers, task[w] = "executing", LeaveExecution(w),
               NEW s \in {"idle", "finalizing", "dead"},
               task' = [task EXCEPT ![w] = s], queue' = queue
        PROVE  Counts'
    <2>1. Cardinality(Executing') = Cardinality(Executing) - 1
      BY <1>0, <1>3, ExecutingShrinks
    <2> QED
      BY <1>0, <1>3, <2>1 DEF LeaveExecution, Counts, Accounting, Stats, TypeOK
  <1>4. ASSUME NEW w \in Workers, NEW o \in {"done", "error"}, Complete(w, o)
        PROVE  Counts'
    <2>1. /\ task[w] = "executing" /\ LeaveExecution(w) /\ queue' = queue
          /\ \E s \in {"idle", "finalizing", "dead"} : task' = [task EXCEPT ![w] = s]
      BY <1>4 DEF Complete, Release
    <2> QED
      BY <1>3, <2>1
  <1>5. ASSUME NEW w \in Workers, CancelExecution(w) PROVE Counts'
    BY <1>3, <1>5 DEF CancelExecution, Release
  <1>6. ASSUME UNCHANGED <<queue, unfinished, active>>, Executing' = Executing
        PROVE  Counts'
    BY <1>0, <1>6 DEF Counts, Accounting, Stats
  <1>7. CASE Start
    <2>1. Executing = {} /\ Executing' = {}
      BY <1>0, <1>7 DEF Start, Phases, Executing
    <2> QED
      BY <1>6, <1>7, <2>1 DEF Start
  <1>8. ASSUME NEW w \in Workers,
               \/ CancelHook(w) \/ CancelIdle(w)
               \/ \E h \in {"returned", "raised"} : HookEnds(w, h)
        PROVE  Counts'
    <2>1. /\ task[w] # "executing"
          /\ UNCHANGED <<queue, unfinished, active>>
          /\ \E s \in {"idle", "dead"} : task' = [task EXCEPT ![w] = s]
      BY <1>8 DEF CancelHook, CancelIdle, HookEnds, Release
    <2>2. Executing' = Executing
      BY <1>0, <2>1 DEF Executing, TypeOK
    <2> QED
      BY <1>6, <2>1, <2>2
  <1>9. ASSUME \/ \E j \in Jobs : CallerCancelled(j) \/ TtlElapses(j)
               \/ SubmitAsyncRefused \/ GetJob \/ StopCalled \/ JoinReturns
               \/ GraceExpires \/ StopReturns \/ UNCHANGED vars
        PROVE  Counts'
    <2>1. UNCHANGED <<queue, unfinished, active, task>>
      BY <1>9 DEF CallerCancelled, TtlElapses, SubmitAsyncRefused, GetJob, StopCalled,
                  JoinReturns, GraceExpires, StopReturns, vars
    <2>2. Executing' = Executing
      BY <2>1 DEF Executing
    <2> QED
      BY <1>6, <2>1, <2>2
  <1> QED
    BY <1>1, <1>2, <1>4, <1>5, <1>7, <1>8, <1>9
    DEF Next, ClientStep, LifeStep, WorkerStep, CompleteSome, HookEndsSome,
        CancelDelivered

-----------------------------------------------------------------------------
(* Phases and Abandoned: after join() returned nothing can be put, started  *)
(* or given up.                                                             *)

(* join() waits for the executions: none is left when it has returned.      *)
LEMMA JoinedMeansIdle ==
    ASSUME IInv, unfinished = 0
    PROVE  queue = <<>> /\ \A w \in Workers : task[w] # "executing"
  <1>1. Len(queue) \in Nat /\ Cardinality(Executing) \in Nat
    BY ExecutingFinite, LenProperties DEF IInv, TypeOK
  <1>2. Len(queue) = 0 /\ Cardinality(Executing) = 0
    BY <1>1 DEF IInv, Counts, Accounting, Stats
  <1>3. Executing = {}
    BY <1>2, ExecutingFinite, FS_EmptySet
  <1>4. queue = <<>>
    BY <1>2, EmptySeq DEF IInv, TypeOK
  <1> QED
    BY <1>3, <1>4 DEF Executing

LEMMA PhasesStep == IInv /\ [Next]_vars => Phases' /\ Abandoned'
  <1> SUFFICES ASSUME IInv, [Next]_vars
               PROVE  Phases' /\ Abandoned'
    OBVIOUS
  <1>0. TypeOK /\ Places /\ Phases /\ Abandoned
    BY DEF IInv
  <1> USE DEF jobVars, stopVars
  <1>1. ASSUME NEW j \in Jobs, Submit(j) \/ SubmitAsync(j)
        PROVE  Phases' /\ Abandoned'
    BY <1>0, <1>1 DEF Submit, SubmitAsync, Enqueue, Accepting, Phases, Abandoned, TypeOK
  <1>2. ASSUME NEW j \in Jobs, TtlElapses(j) PROVE Phases' /\ Abandoned'
    BY <1>0, <1>2 DEF TtlElapses, Phases, Abandoned, TypeOK
  <1>3. ASSUME NEW w \in Workers, Dequeue(w) PROVE Phases' /\ Abandoned'
    <2>1. Head(queue) \in Jobs /\ finishedAt[Head(queue)] = "none"
      <3>1. Head(queue) = queue[1] /\ Head(queue) \in Jobs /\ 1 \in 1..Len(queue)
        BY <1>0, <1>3, HeadTailFacts DEF Dequeue, TypeOK
      <3> QED
        BY <1>0, <3>1 DEF Places
    <2> QED
      BY <1>0, <1>3, <2>1 DEF Dequeue, Undisturbed, Phases, Abandoned, TypeOK
  <1>4. ASSUME NEW w \in Workers, NEW o \in {"done", "error"}, Complete(w, o)
        PROVE  Phases' /\ Abandoned'
    <2>1. /\ Undisturbed /\ UNCHANGED stopVars
          /\ status' = [status EXCEPT ![current[w]] = o]
          /\ finishedAt' = [finishedAt EXCEPT ![current[w]] = "recent"]
      BY <1>4 DEF Complete, LeaveExecution
    <2> QED
      BY <1>0, <2>1 DEF Undisturbed, Phases, Abandoned, TypeOK
  <1>5. ASSUME NEW w \in Workers, CancelDelivered(w) PROVE Phases' /\ Abandoned'
    <2>1. CASE CancelExecution(w)
      <3>1. ~joined
        BY <1>0, <2>1, JoinedMeansIdle DEF CancelExecution, Phases
      <3> QED
        BY <1>0, <2>1, <3>1 DEF CancelExecution, LeaveExecution, Release, Phases,
                                Abandoned, TypeOK
    <2>2. CASE CancelIdle(w) \/ CancelHook(w)
      BY <1>0, <2>2 DEF CancelIdle, CancelHook, Release, Phases, Abandoned, TypeOK
    <2> QED
      BY <1>5, <2>1, <2>2 DEF CancelDelivered
  <1>6. ASSUME NEW w \in Workers, NEW h \in {"returned", "raised"}, HookEnds(w, h)
        PROVE  Phases' /\ Abandoned'
    BY <1>0, <1>6 DEF HookEnds, Undisturbed, Release, Phases, Abandoned, TypeOK
  <1>7. CASE LifeStep
    <2>1. CASE Start
      BY <1>0, <2>1 DEF Start, Phases, Abandoned
    <2>2. CASE StopCalled
      BY <1>0, <2>2 DEF StopCalled, Phases, Abandoned
    <2>3. CASE JoinReturns
      BY <1>0, <2>3 DEF JoinReturns, Phases, Abandoned
    <2>4. CASE GraceExpires
      BY <1>0, <2>4 DEF GraceExpires, Phases, Abandoned
    <2>5. CASE StopReturns
      BY <1>0, <2>5 DEF StopReturns, Phases, Abandoned
    <2> QED
      BY <1>7, <2>1, <2>2, <2>3, <2>4, <2>5 DEF LifeStep
  <1>8. ASSUME \/ \E j \in Jobs : CallerCancelled(j)
               \/ SubmitAsyncRefused \/ GetJob \/ UNCHANGED vars
        PROVE  Phases' /\ Abandoned'
    BY <1>0, <1>8 DEF CallerCancelled, SubmitAsyncRefused, GetJob, vars, Phases,
                      Abandoned
  <1> QED
    BY <1>1, <1>2, <1>3, <1>4, <1>5, <1>6, <1>7, <1>8
    DEF Next, ClientStep, WorkerStep, CompleteSome, HookEndsSome

-----------------------------------------------------------------------------
(* Whoever waits, waits for a job that is queued or executing.              *)

LEMMA CallersStep == IInv /\ [Next]_vars => NoCallerForgotten'
  <1> SUFFICES ASSUME IInv, [Next]_vars
               PROVE  NoCallerForgotten'
    OBVIOUS
  <1>0. /\ TypeOK /\ Places /\ Phases /\ AsyncJobs \subseteq Jobs
        /\ \A j \in Jobs : future[j] = "pending" =>
              \/ \E i \in 1..Len(queue) : queue[i] = j
              \/ \E w \in Workers : task[w] = "executing" /\ current[w] = j
    BY DEF IInv, NoCallerForgotten, Queued, Executing, AsyncJobs
  <1> USE DEF jobVars, stopVars, NoCallerForgotten, Queued, Executing
  <1>1. ASSUME NEW j \in Jobs, Submit(j) \/ SubmitAsync(j) PROVE NoCallerForgotten'
    <2>1. /\ Enqueue(j) /\ UNCHANGED <<task, current>>
          /\ \A k \in Jobs \ {j} : future'[k] = future[k]
      BY <1>0, <1>1 DEF Submit, SubmitAsync, TypeOK
    <2>2. /\ Len(queue') = Len(queue) + 1 /\ Len(queue) \in Nat
          /\ \A i \in 1..Len(queue) : queue'[i] = queue[i]
          /\ queue'[Len(queue) + 1] = j
      BY <1>0, <2>1, AppendFacts DEF Enqueue, TypeOK
    <2> QED
      BY <1>0, <2>1, <2>2
  <1>2. ASSUME NEW w \in Workers, Dequeue(w) PROVE NoCallerForgotten'
    <2>1. /\ Head(queue) = queue[1] /\ queue' = Tail(queue)
          /\ Len(queue) \in Nat \ {0}
          /\ Len(queue') = Len(queue) - 1
          /\ \A i \in 1..Len(queue') : queue'[i] = queue[i + 1]
      BY <1>0, <1>2, HeadTailFacts DEF Dequeue, TypeOK
    <2>2. ASSUME NEW k \in Jobs, future'[k] = "pending",
                 NEW i \in 1..Len(queue), queue[i] = k
          PROVE  \/ \E n \in 1..Len(queue') : queue'[n] = k
                 \/ \E v \in Workers : task'[v] = "executing" /\ current'[v] = k
      <3>1. CASE i = 1
        BY <1>0, <1>2, <2>1, <2>2, <3>1 DEF Dequeue, TypeOK
      <3>2. CASE i # 1
        <4>1. i - 1 \in 1..Len(queue') /\ queue'[i - 1] = k
          BY <2>1, <2>2, <3>2
        <4> QED
          BY <4>1
      <3> QED
        BY <3>1, <3>2
    <2>3. ASSUME NEW k \in Jobs, future'[k] = "pending",
                 NEW v \in Workers, task[v] = "executing", current[v] = k
          PROVE  task'[v] = "executing" /\ current'[v] = k
      BY <1>0, <1>2, <2>3 DEF Dequeue, TypeOK
    <2> QED
      BY <1>0, <1>2, <2>2, <2>3 DEF Dequeue
  <1>3. ASSUME NEW w \in Workers, current[w] \in Jobs, future'[current[w]] # "pending",
               \A k \in Jobs \ {current[w]} : future'[k] = future[k],
               \A v \in Workers \ {w} : task'[v] = task[v] /\ current'[v] = current[v],
               queue' = queue
        PROVE  NoCallerForgotten'
    BY <1>0, <1>3
  <1>4. ASSUME NEW w \in Workers, NEW o \in {"done", "error"}, Complete(w, o)
        PROVE  NoCallerForgotten'
    <2>1. current[w] \in Jobs
      BY <1>0, <1>4 DEF Complete, Places, TypeOK
    <2>2. /\ future'[current[w]] # "pending"
          /\ \A k \in Jobs \ {current[w]} : future'[k] = future[k]
      BY <1>0, <1>4, <2>1 DEF Complete, Resolve, TypeOK
    <2>3. /\ \A v \in Workers \ {w} : task'[v] = task[v] /\ current'[v] = current[v]
          /\ queue' = queue
      BY <1>0, <1>4 DEF Complete, Release, TypeOK
    <2> QED
      BY <1>3, <2>1, <2>2, <2>3
  <1>5. ASSUME NEW w \in Workers, CancelExecution(w) PROVE NoCallerForgotten'
    <2>1. current[w] \in Jobs
      BY <1>0, <1>5 DEF CancelExecution, Places, TypeOK
    <2>2. /\ future'[current[w]] # "pending"
          /\ \A k \in Jobs \ {current[w]} : future'[k] = future[k]
      BY <1>0, <1>5, <2>1 DEF CancelExecution, Resolve, TypeOK
    <2>3. /\ \A v \in Workers \ {w} : task'[v] = task[v] /\ current'[v] = current[v]
          /\ queue' = queue
      BY <1>0, <1>5 DEF CancelExecution, Release, TypeOK
    <2> QED
      BY <1>3, <2>1, <2>2, <2>3
  <1>6. ASSUME NEW w \in Workers,
               \/ CancelHook(w) \/ CancelIdle(w)
               \/ \E h \in {"returned", "raised"} : HookEnds(w, h)
        PROVE  NoCallerForgotten'
    <2>1. /\ task[w] # "executing" /\ queue' = queue /\ future' = future
          /\ \A v \in Workers \ {w} : task'[v] = task[v] /\ current'[v] = current[v]
      BY <1>0, <1>6 DEF CancelHook, CancelIdle, HookEnds, Release, TypeOK
    <2> QED
      BY <1>0, <2>1
  <1>7. ASSUME NEW j \in Jobs, CallerCancelled(j) PROVE NoCallerForgotten'
    BY <1>0, <1>7 DEF CallerCancelled, TypeOK
  <1>8. CASE Start
    BY <1>0, <1>8 DEF Start, Phases
  <1>9. ASSUME \/ \E j \in Jobs : TtlElapses(j)
               \/ SubmitAsyncRefused \/ GetJob \/ StopCalled \/ JoinReturns
               \/ GraceExpires \/ StopReturns \/ UNCHANGED vars
        PROVE  NoCallerForgotten'
    <2>1. UNCHANGED <<queue, task, current, future>>
      BY <1>9 DEF TtlElapses, SubmitAsyncRefused, GetJob, StopCalled, JoinReturns,
                  GraceExpires, StopReturns, vars
    <2> QED
      BY <1>0, <2>1
  <1> QED
    BY <1>1, <1>2, <1>4, <1>5, <1>6, <1>7, <1>8, <1>9
    DEF Next, ClientStep, LifeStep, WorkerStep, CompleteSome, HookEndsSome,
        CancelDelivered

(* An asynchronous job stays in the registry from its acceptance to its TTL. *)
LEMMA TrackedStep == IInv /\ [Next]_vars => PollableUntilTtl'
  <1> SUFFICES ASSUME IInv, [Next]_vars
               PROVE  PollableUntilTtl'
    OBVIOUS
  <1>0. TypeOK /\ Places /\ PollableUntilTtl /\ AsyncJobs \subseteq Jobs
    BY DEF IInv, AsyncJobs
  <1> USE DEF jobVars, stopVars, PollableUntilTtl
  <1>1. ASSUME NEW j \in Jobs, SubmitAsync(j) PROVE PollableUntilTtl'
    BY <1>0, <1>1 DEF SubmitAsync, Enqueue, Stale, TypeOK
  <1>2. ASSUME NEW j \in Jobs, Submit(j) PROVE PollableUntilTtl'
    BY <1>0, <1>2 DEF Submit, Enqueue, TypeOK, AsyncJobs
  <1>3. CASE SubmitAsyncRefused \/ GetJob
    BY <1>0, <1>3 DEF SubmitAsyncRefused, GetJob, Prune, Stale, TypeOK
  <1>4. ASSUME NEW j \in Jobs, TtlElapses(j) PROVE PollableUntilTtl'
    BY <1>0, <1>4 DEF TtlElapses, TypeOK
  <1>5. ASSUME NEW w \in Workers, Dequeue(w) PROVE PollableUntilTtl'
    <2>1. Head(queue) \in Jobs /\ status[Head(queue)] = "queued"
      <3>1. Head(queue) = queue[1] /\ Head(queue) \in Jobs /\ 1 \in 1..Len(queue)
        BY <1>0, <1>5, HeadTailFacts DEF Dequeue, TypeOK
      <3> QED
        BY <1>0, <3>1 DEF Places
    <2> QED
      BY <1>0, <1>5, <2>1 DEF Dequeue, TypeOK
  <1>6. ASSUME NEW w \in Workers, NEW o \in {"done", "error"}, Complete(w, o)
        PROVE  PollableUntilTtl'
    <2>1. /\ status[current[w]] = "running" /\ finishedAt[current[w]] = "none"
          /\ status' = [status EXCEPT ![current[w]] = o]
          /\ finishedAt' = [finishedAt EXCEPT ![current[w]] = "recent"]
          /\ tracked' = tracked
      BY <1>0, <1>6 DEF Complete, LeaveExecution, Places
    <2> QED
      BY <1>0, <2>1 DEF TypeOK
  <1>7. ASSUME NEW w \in Workers, CancelExecution(w) PROVE PollableUntilTtl'
    <2>1. /\ status[current[w]] = "running" /\ finishedAt[current[w]] = "none"
          /\ finishedAt' = [finishedAt EXCEPT ![current[w]] = "recent"]
          /\ UNCHANGED <<status, tracked>>
      BY <1>0, <1>7 DEF CancelExecution, LeaveExecution, Places
    <2> QED
      BY <1>0, <2>1 DEF TypeOK
  <1>8. ASSUME UNCHANGED <<status, finishedAt, tracked>> PROVE PollableUntilTtl'
    BY <1>0, <1>8
  <1>9. ASSUME \/ \E w \in Workers :
                    \/ CancelHook(w) \/ CancelIdle(w)
                    \/ \E h \in {"returned", "raised"} : HookEnds(w, h)
               \/ \E j \in Jobs : CallerCancelled(j)
               \/ LifeStep \/ UNCHANGED vars
        PROVE  UNCHANGED <<status, finishedAt, tracked>>
    BY <1>9 DEF CancelHook, CancelIdle, HookEnds, CallerCancelled, LifeStep, Start,
                StopCalled, JoinReturns, GraceExpires, StopReturns, vars
  <1> QED
    BY <1>1, <1>2, <1>3, <1>4, <1>5, <1>6, <1>7, <1>8, <1>9
    DEF Next, ClientStep, WorkerStep, CompleteSome, HookEndsSome, CancelDelivered

-----------------------------------------------------------------------------
(* The invariant, and what follows from it.                                 *)

LEMMA InvInit == Init => IInv
  <1> SUFFICES ASSUME Init PROVE IInv
    OBVIOUS
  <1>1. TypeOK
    BY TypeInit
  <1>2. Places /\ Phases /\ Abandoned /\ NoCallerForgotten /\ PollableUntilTtl
    BY DEF Init, Places, OneOwner, Queued, Phases, Abandoned, NoCallerForgotten,
           PollableUntilTtl, AsyncJobs
  <1>3. Counts
    <2>1. Executing = {}
      BY DEF Init, Executing
    <2> QED
      BY <2>1, FS_EmptySet, QueueDepthAssumption DEF Init, Counts, Accounting, Stats
  <1> QED
    BY <1>1, <1>2, <1>3 DEF IInv

LEMMA InvStep == IInv /\ [Next]_vars => IInv'
  BY TypeStep, PlacesStep, CountsStep, PhasesStep, CallersStep, TrackedStep DEF IInv

(* IInv is an invariant of the queue.                                       *)
THEOREM Invariance == Spec => []IInv
  BY InvInit, InvStep, PTL DEF Spec

(* Every variable keeps its type; in particular no counter goes below zero. *)
THEOREM TypeCorrect == Spec => []TypeOK
  <1>1. IInv => TypeOK
    BY DEF IInv
  <1> QED
    BY <1>1, Invariance, PTL

(* The counters of /stats and of join() count what they say they count, for *)
(* any number of workers and jobs (jobqueue.py:123, 139-142, 149-156).      *)
THEOREM AccountingHolds == Spec => []Accounting
  <1>1. IInv => Accounting
    BY DEF IInv, Counts
  <1> QED
    BY <1>1, Invariance, PTL

(* Backpressure: at most QueueDepth jobs wait and one per worker executes   *)
(* (jobqueue.py:80-86).                                                     *)
THEOREM AdmissionBounded == Spec => []AdmissionBound
  <1>1. IInv => AdmissionBound
    <2> SUFFICES ASSUME IInv PROVE AdmissionBound
      OBVIOUS
    <2>1. Cardinality(Executing) <= Cardinality(Workers)
      BY WorkersAssumption, FS_Subset DEF Executing
    <2>2. /\ Len(queue) \in Nat /\ Cardinality(Executing) \in Nat
          /\ Cardinality(Workers) \in Nat
      BY ExecutingFinite, LenProperties, WorkersAssumption, FS_CardinalityType
      DEF IInv, TypeOK
    <2> QED
      BY <2>1, <2>2, QueueDepthAssumption
      DEF IInv, Counts, Accounting, Stats, AdmissionBound
  <1> QED
    BY <1>1, Invariance, PTL

(* No job is in the queue twice, or queued while a worker has it, or with   *)
(* two workers.                                                             *)
THEOREM OneOwnerHolds == Spec => []OneOwner
  <1>1. IInv => OneOwner
    BY DEF IInv, Places
  <1> QED
    BY <1>1, Invariance, PTL

(* A pending future belongs to a job that is queued or executing.           *)
THEOREM CallersRemembered == Spec => []NoCallerForgotten
  <1>1. IInv => NoCallerForgotten
    BY DEF IInv
  <1> QED
    BY <1>1, Invariance, PTL

(* An accepted asynchronous job can be polled until its TTL.                *)
THEOREM Pollable == Spec => []PollableUntilTtl
  <1>1. IInv => PollableUntilTtl
    BY DEF IInv
  <1> QED
    BY <1>1, Invariance, PTL

(* A stop() whose join() returned interrupts no execution and leaves no     *)
(* accepted job behind (jobqueue.py:63-78).                                 *)
THEOREM DrainIsComplete == Spec => []DrainSparesExecutions
  <1>1. IInv => DrainSparesExecutions
    <2> SUFFICES ASSUME IInv, joined, NEW j \in Jobs
                 PROVE  status[j] \in {"new", "done", "error"}
      BY DEF DrainSparesExecutions
    <2>1. queue = <<>> /\ \A w \in Workers : task[w] # "executing"
      BY JoinedMeansIdle DEF IInv, Phases
    <2>2. status[j] # "queued"
      BY <2>1, EmptySeq DEF IInv, Places, Queued
    <2>3. status[j] # "running"
      BY <2>1 DEF IInv, Places, Abandoned, Executing
    <2> QED
      BY <2>2, <2>3 DEF IInv, TypeOK, JobStates
  <1> QED
    BY <1>1, Invariance, PTL

-----------------------------------------------------------------------------
(* Refinement: every step of the queue is a step of the service, or leaves  *)
(* the service as it is.                                                    *)

LEMMA ServiceInit == Init => Service!Init
  BY DEF Init, Service!Init, Slot, SettledJobs, AbortedJobs, Mode

LEMMA ServiceStep == IInv /\ [Next]_vars => [Service!Next]_(Service!vars)
  <1> SUFFICES ASSUME IInv, [Next]_vars
               PROVE  [Service!Next]_(Service!vars)
    OBVIOUS
  <1>0. /\ TypeOK /\ Places /\ Phases /\ Abandoned /\ AsyncJobs \subseteq Jobs
        /\ NoJob \notin Jobs
    BY JobsAssumption DEF IInv, AsyncJobs
  <1> USE DEF jobVars, stopVars
  <1>1. ASSUME NEW j \in Jobs, Submit(j) \/ SubmitAsync(j)
        PROVE  Service!Accept(j)
    <2>1. /\ Enqueue(j) /\ UNCHANGED <<stopVars, task, current, finishedAt>>
      BY <1>1 DEF Submit, SubmitAsync
    <2>2. /\ ~closing /\ status[j] = "new" /\ finishedAt[j] = "none"
          /\ queue' = Append(queue, j)
          /\ status' = [status EXCEPT ![j] = "queued"]
      BY <1>0, <2>1 DEF Enqueue, Accepting, Places
    <2>3. Slot' = Slot
      BY <2>1 DEF Slot
    <2>4. SettledJobs' = SettledJobs
      BY <1>0, <2>2 DEF SettledJobs, TypeOK
    <2>5. AbortedJobs' = AbortedJobs
      BY <1>0, <2>1, <2>2 DEF AbortedJobs, TypeOK
    <2>6. Mode = "open" /\ Mode' = Mode
      BY <2>1, <2>2 DEF Mode
    <2>7. \A i \in 1..Len(queue) : queue[i] # j
      BY <1>0, <2>2 DEF Places
    <2>8. \A w \in Workers : Slot[w] # j
      BY <1>0, <2>2 DEF Slot, Places, TypeOK
    <2>9. j \notin SettledJobs \cup AbortedJobs
      BY <2>2 DEF SettledJobs, AbortedJobs
    <2> QED
      BY <2>2, <2>3, <2>4, <2>5, <2>6, <2>7, <2>8, <2>9
      DEF Service!Accept, Service!Known
  <1>2. ASSUME NEW w \in Workers, Dequeue(w) PROVE Service!Begin(w)
    <2> DEFINE j == Head(queue)
    <2>1. /\ queue # <<>> /\ queue' = Tail(queue)
          /\ task[w] = "idle" /\ task' = [task EXCEPT ![w] = "executing"]
          /\ current' = [current EXCEPT ![w] = j]
          /\ status' = [status EXCEPT ![j] = "running"]
          /\ UNCHANGED <<stopVars, finishedAt>>
      BY <1>2 DEF Dequeue
    <2>2. /\ j \in Jobs /\ status[j] = "queued" /\ finishedAt[j] = "none"
      <3>1. j = queue[1] /\ j \in Jobs /\ 1 \in 1..Len(queue)
        BY <1>0, <2>1, HeadTailFacts DEF TypeOK
      <3> QED
        BY <1>0, <3>1 DEF Places
    <2> HIDE DEF j
    <2>3. Slot[w] = NoJob /\ Slot' = [Slot EXCEPT ![w] = j]
      BY <1>0, <2>1 DEF Slot, TypeOK
    <2>4. SettledJobs' = SettledJobs
      BY <1>0, <2>1, <2>2 DEF SettledJobs, TypeOK
    <2>5. AbortedJobs' = AbortedJobs
      BY <1>0, <2>1, <2>2 DEF AbortedJobs, TypeOK
    <2>6. Mode' = Mode
      BY <2>1 DEF Mode
    <2> QED
      BY <2>1, <2>3, <2>4, <2>5, <2>6 DEF Service!Begin, j
  <1>3. ASSUME NEW w \in Workers, NEW o \in {"done", "error"}, Complete(w, o)
        PROVE  Service!Settle(w)
    <2> DEFINE j == current[w]
    <2>1. /\ task[w] = "executing" /\ queue' = queue /\ UNCHANGED stopVars
          /\ status' = [status EXCEPT ![j] = o]
          /\ finishedAt' = [finishedAt EXCEPT ![j] = "recent"]
          /\ \E s \in {"idle", "finalizing"} : task' = [task EXCEPT ![w] = s]
          /\ \A v \in Workers \ {w} : current'[v] = current[v]
      BY <1>0, <1>3 DEF Complete, LeaveExecution, Release, TypeOK
    <2>2. j \in Jobs /\ j # NoJob /\ status[j] = "running" /\ finishedAt[j] = "none"
      BY <1>0, <2>1 DEF Places, TypeOK
    <2>3. Slot[w] = j
      BY <2>1 DEF Slot
    <2>4. Slot' = [Slot EXCEPT ![w] = NoJob]
      BY <1>0, <2>1 DEF Slot, TypeOK
    <2> HIDE DEF j
    <2>5. SettledJobs' = SettledJobs \cup {j}
      BY <1>0, <2>1, <2>2 DEF SettledJobs, TypeOK
    <2>6. AbortedJobs' = AbortedJobs
      BY <1>0, <2>1, <2>2 DEF AbortedJobs, TypeOK
    <2>7. Mode' = Mode
      BY <2>1 DEF Mode
    <2> QED
      BY <2>1, <2>2, <2>3, <2>4, <2>5, <2>6, <2>7 DEF Service!Settle
  <1>4. ASSUME NEW w \in Workers, CancelExecution(w)
        PROVE  Service!Abort(w)
    <2> DEFINE j == current[w]
    <2>1. /\ task[w] = "executing" /\ queue' = queue /\ status' = status
          /\ stop = "cancelling" /\ UNCHANGED stopVars
          /\ finishedAt' = [finishedAt EXCEPT ![j] = "recent"]
          /\ task' = [task EXCEPT ![w] = "dead"]
          /\ \A v \in Workers \ {w} : current'[v] = current[v]
      BY <1>0, <1>4 DEF CancelExecution, LeaveExecution, Release, TypeOK
    <2>2. j \in Jobs /\ j # NoJob /\ status[j] = "running" /\ finishedAt[j] = "none"
      BY <1>0, <2>1 DEF Places, TypeOK
    <2>3. Slot[w] = j
      BY <2>1 DEF Slot
    <2>4. Slot' = [Slot EXCEPT ![w] = NoJob]
      BY <1>0, <2>1 DEF Slot, TypeOK
    <2>5. ~joined
      BY <1>0, <2>1, JoinedMeansIdle DEF Phases
    <2> HIDE DEF j
    <2>6. SettledJobs' = SettledJobs
      BY <2>1 DEF SettledJobs
    <2>7. AbortedJobs' = AbortedJobs \cup {j}
      BY <1>0, <2>1, <2>2 DEF AbortedJobs, TypeOK
    <2>8. Mode = "expired" /\ Mode' = Mode
      BY <1>0, <2>1, <2>5 DEF Mode, Phases
    <2> QED
      BY <2>1, <2>2, <2>3, <2>4, <2>6, <2>7, <2>8 DEF Service!Abort
  <1>5. CASE StopCalled
    <2>1. Mode = "open" /\ Mode' = "draining"
      BY <1>0, <1>5 DEF StopCalled, Mode, Phases
    <2>2. UNCHANGED <<queue, Slot, SettledJobs, AbortedJobs>>
      BY <1>5 DEF StopCalled, Slot, SettledJobs, AbortedJobs
    <2>3. Service!Drain
      BY <2>1, <2>2 DEF Service!Drain
    <2> QED
      BY <2>3 DEF Service!Next
  <1>6. CASE GraceExpires
    <2>1. Mode = "draining" /\ Mode' = "expired"
      BY <1>0, <1>6 DEF GraceExpires, Mode, Phases
    <2>2. UNCHANGED <<queue, Slot, SettledJobs, AbortedJobs>>
      BY <1>6 DEF GraceExpires, Slot, SettledJobs, AbortedJobs
    <2>3. Service!Expire
      BY <2>1, <2>2 DEF Service!Expire
    <2> QED
      BY <2>3 DEF Service!Next
  <1>7. ASSUME UNCHANGED <<queue, Slot, SettledJobs, AbortedJobs, Mode>>
        PROVE  UNCHANGED Service!vars
    BY <1>7 DEF Service!vars
  <1>8. CASE Start
    <2>1. \A w \in Workers : task[w] # "executing" /\ task'[w] # "executing"
      BY <1>0, <1>8 DEF Start, Phases
    <2>2. Slot' = Slot
      BY <2>1 DEF Slot
    <2>3. UNCHANGED <<queue, SettledJobs, AbortedJobs, Mode>>
      BY <1>0, <1>8 DEF Start, SettledJobs, AbortedJobs, Mode, Phases
    <2> QED
      BY <1>7, <2>2, <2>3
  <1>9. CASE JoinReturns \/ StopReturns
    <2>1. Mode' = Mode
      BY <1>0, <1>9 DEF JoinReturns, StopReturns, Mode, Phases
    <2>2. UNCHANGED <<queue, Slot, SettledJobs, AbortedJobs>>
      BY <1>9 DEF JoinReturns, StopReturns, Slot, SettledJobs, AbortedJobs
    <2> QED
      BY <1>7, <2>1, <2>2
  <1>10. ASSUME NEW w \in Workers,
                \/ CancelHook(w) \/ CancelIdle(w)
                \/ \E h \in {"returned", "raised"} : HookEnds(w, h)
         PROVE  UNCHANGED Service!vars
    <2>1. /\ task[w] # "executing" /\ task'[w] # "executing"
          /\ \A v \in Workers \ {w} : task'[v] = task[v] /\ current'[v] = current[v]
          /\ UNCHANGED <<queue, status, finishedAt, stopVars>>
      BY <1>0, <1>10 DEF CancelHook, CancelIdle, HookEnds, Release, TypeOK
    <2>2. Slot' = Slot
      BY <2>1 DEF Slot
    <2> QED
      BY <1>7, <2>1, <2>2 DEF SettledJobs, AbortedJobs, Mode
  <1>11. ASSUME NEW j \in Jobs, TtlElapses(j) PROVE UNCHANGED Service!vars
    <2>1. AbortedJobs' = AbortedJobs
      BY <1>0, <1>11 DEF TtlElapses, AbortedJobs, TypeOK
    <2> QED
      BY <1>7, <1>11, <2>1 DEF TtlElapses, Slot, SettledJobs, Mode
  <1>12. ASSUME \/ \E j \in Jobs : CallerCancelled(j)
                \/ SubmitAsyncRefused \/ GetJob \/ UNCHANGED vars
         PROVE  UNCHANGED Service!vars
    <2>1. UNCHANGED <<queue, task, current, status, finishedAt, stopVars>>
      BY <1>12 DEF CallerCancelled, SubmitAsyncRefused, GetJob, vars
    <2> QED
      BY <1>7, <2>1 DEF Slot, SettledJobs, AbortedJobs, Mode
  <1> QED
    BY <1>1, <1>2, <1>3, <1>4, <1>5, <1>6, <1>8, <1>9, <1>10, <1>11, <1>12
    DEF Next, ClientStep, LifeStep, WorkerStep, CompleteSome, HookEndsSome,
        CancelDelivered, Service!Next

(* The queue implements the service its callers rely on.                    *)
THEOREM ServiceImplemented == Spec => ImplementsService
  BY ServiceInit, ServiceStep, Invariance, PTL DEF Spec, Service!Spec, ImplementsService

=============================================================================
