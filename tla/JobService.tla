----------------------------- MODULE JobService -----------------------------
(***************************************************************************)
(* What a caller of the job queue may rely on, with nothing of how it is   *)
(* kept: accepted jobs are started in the order they were accepted, each   *)
(* at most once, by a fixed set of workers that run one job at a time; once *)
(* the service is draining no job is accepted; and an execution is given   *)
(* up only after the grace period of the drain has expired.                *)
(*                                                                         *)
(* JobQueue.tla is the detailed specification; it implements this one      *)
(* (JobQueue!Service, theorem ImplementsService of JobQueueProofs).        *)
(***************************************************************************)
EXTENDS Naturals, Sequences

CONSTANTS
    Jobs,      \* every job a client may submit
    Workers,   \* the worker pool
    NoJob      \* what an idle worker holds

VARIABLES
    backlog,   \* accepted and not yet started, oldest first
    slot,      \* the job each worker executes, or NoJob
    settled,   \* jobs whose execution ended with a result or an error
    aborted,   \* jobs whose execution was given up
    mode       \* "open", then "draining", then perhaps "expired"

vars == <<backlog, slot, settled, aborted, mode>>

Known(j) ==
    \/ \E i \in 1..Len(backlog) : backlog[i] = j
    \/ \E w \in Workers : slot[w] = j
    \/ j \in settled \cup aborted

Init ==
    /\ backlog = <<>>
    /\ slot = [w \in Workers |-> NoJob]
    /\ settled = {}
    /\ aborted = {}
    /\ mode = "open"

Accept(j) ==
    /\ mode = "open"
    /\ ~Known(j)
    /\ backlog' = Append(backlog, j)
    /\ UNCHANGED <<slot, settled, aborted, mode>>

Begin(w) ==
    /\ slot[w] = NoJob
    /\ backlog # <<>>
    /\ slot' = [slot EXCEPT ![w] = Head(backlog)]
    /\ backlog' = Tail(backlog)
    /\ UNCHANGED <<settled, aborted, mode>>

Settle(w) ==
    /\ slot[w] # NoJob
    /\ settled' = settled \cup {slot[w]}
    /\ slot' = [slot EXCEPT ![w] = NoJob]
    /\ UNCHANGED <<backlog, aborted, mode>>

Drain ==
    /\ mode = "open"
    /\ mode' = "draining"
    /\ UNCHANGED <<backlog, slot, settled, aborted>>

Expire ==
    /\ mode = "draining"
    /\ mode' = "expired"
    /\ UNCHANGED <<backlog, slot, settled, aborted>>

Abort(w) ==
    /\ mode = "expired"
    /\ slot[w] # NoJob
    /\ aborted' = aborted \cup {slot[w]}
    /\ slot' = [slot EXCEPT ![w] = NoJob]
    /\ UNCHANGED <<backlog, settled, mode>>

Next ==
    \/ \E j \in Jobs : Accept(j)
    \/ \E w \in Workers : Begin(w) \/ Settle(w) \/ Abort(w)
    \/ Drain
    \/ Expire

Spec == Init /\ [][Next]_vars
=============================================================================
