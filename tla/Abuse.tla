-------------------------------- MODULE Abuse --------------------------------
(***************************************************************************)
(* Abuse scoring: app/abuse.py and the tracker of app/backends.py, which    *)
(* takes its place when Redis is configured, fed with the same verdicts,    *)
(* and the quarantine that _prepare() (app/api/routes.py) reads from them.  *)
(*                                                                         *)
(* A request is looked at when it arrives and scored when it ends, with     *)
(* others in between.  One caller, no administrator, stands for all: both   *)
(* trackers keep callers apart.  Time is a tick; ages are relative to now,  *)
(* by one clock.                                                            *)
(***************************************************************************)
EXTENDS Naturals, Sequences, FiniteSets, Folds

CONSTANTS
    Requests,   \* that may be in the server at a time
    Results,    \* what a run may come to: a set of Signals
    Window,     \* WINDOW_S
    Threshold   \* THRESHOLD; 0 is no quarantine

(* What classify() looks for in a result. *)
Signals == {"timeout", "network_probe", "memory_abuse", "orchestration"}

ASSUME ResultsAssumption == Results \subseteq SUBSET Signals
ASSUME WindowAssumption == Window \in Nat \ {0} /\ Threshold \in Nat

VARIABLES
    running,   \* requests admitted and not yet scored
    past,      \* every suspicious run of the last Window ticks, oldest first
    memory,    \* AbuseTracker: the caller's deque, <<>> for no entry
    redis      \* RedisAbuseTracker: the caller's sorted set, <<>> for no key

abuseVars == <<running, past, memory, redis>>

(* An age above Window is not told from the next. *)
Scored == [age : 0..(Window + 1), weight : Nat]

AbuseTypeOK ==
    /\ running \in SUBSET Requests
    /\ past \in Seq(Scored) /\ memory \in Seq(Scored) /\ redis \in Seq(Scored)

AbuseInit == running = {} /\ past = <<>> /\ memory = <<>> /\ redis = <<>>

-----------------------------------------------------------------------------

Weight == [timeout |-> 2, network_probe |-> 3, memory_abuse |-> 2, orchestration |-> 1]

Points(result, flag) == IF flag \in result THEN Weight[flag] ELSE 0

(* classify(): every signal in the result is a flag, and the run weighs what *)
(* its flags weigh.                                                         *)
Classify(result) ==
    [suspicious |-> result # {},
     weight |-> Points(result, "timeout") + Points(result, "network_probe")
                  + Points(result, "memory_abuse") + Points(result, "orchestration")]

Sum(events) ==
    MapThenFoldSet(+, 0, LAMBDA i : events[i].weight, LAMBDA S : CHOOSE i \in S : TRUE,
                   DOMAIN events)

Added(events, verdict) ==
    IF verdict.suspicious
    THEN Append(events, [age |-> 0, weight |-> verdict.weight])
    ELSE events

Drop(events, n) == SubSeq(events, n + 1, Len(events))

Old(events) == {i \in DOMAIN events : events[i].age >= Window}

(* _prune(): popleft() up to the first that is young enough. *)
MemoryPruned(events) == Drop(events, Cardinality({i \in Old(events) : 1..i \subseteq Old(events)}))

(* ZREMRANGEBYSCORE from 0 to now - win, both included: all that are old,    *)
(* which a set sorted by time has in front.                                 *)
RedisPruned(events) == Drop(events, Cardinality(Old(events)))

(* Mutated forms, here and below: stand-ins for a plausible slip in the      *)
(* definition that follows, to see that a property notices it.              *)
RedisAdded_NoToken(events, verdict) ==
    Added(SelectSeq(events, LAMBDA e : ~verdict.suspicious \/ e.weight # verdict.weight), verdict)

(* ZADD of a member of its own: a token tells it from an equal verdict. *)
RedisAdded(events, verdict) == Added(events, verdict)

MemoryScore == Sum(MemoryPruned(memory))

RedisScore == Sum(RedisPruned(redis))

Quarantined == Threshold > 0 /\ MemoryScore >= Threshold

-----------------------------------------------------------------------------

(* score(), is_quarantined() and report() all prune before they add up. *)
Looked == memory' = MemoryPruned(memory) /\ redis' = RedisPruned(redis)

Admit_Unchecked(r) ==
    /\ r \notin running
    /\ Looked
    /\ running' = running \cup {r}
    /\ UNCHANGED past

(* _prepare() lets the request in; it is executed from here on. *)
Admit(r) ==
    /\ r \notin running
    /\ ~Quarantined
    /\ Looked
    /\ running' = running \cup {r}
    /\ UNCHANGED past

(* 403, or a look that changes nothing: GET /abuse, POST /terminal/ticket. *)
Look ==
    /\ Looked
    /\ UNCHANGED <<running, past>>

(* The run has ended: record(). *)
Record(r, result) ==
    /\ r \in running
    /\ running' = running \ {r}
    /\ past' = Added(past, Classify(result))
    /\ memory' = Added(MemoryPruned(memory), Classify(result))
    /\ redis' = RedisAdded(RedisPruned(redis), Classify(result))

(* A run that is never finalized: cancelled, or its client has gone. *)
Lost(r) ==
    /\ r \in running
    /\ running' = running \ {r}
    /\ UNCHANGED <<past, memory, redis>>

Older(events) ==
    [i \in DOMAIN events |-> [events[i] EXCEPT !.age = IF @ <= Window THEN @ + 1 ELSE @]]

(* The key of the set expires Window + 1 after the last that was added.  Of  *)
(* past stays what follows the last that is old.                            *)
Tick ==
    /\ past' = LET aged == Older(past) IN
                Drop(aged, CHOOSE n \in 0..Len(aged) : Old(aged) = 1..n)
    /\ memory' = Older(memory)
    /\ redis' = IF redis # <<>> /\ redis[Len(redis)].age >= Window THEN <<>> ELSE Older(redis)
    /\ UNCHANGED running

-----------------------------------------------------------------------------
Ends(r) == Lost(r) \/ \E result \in Results : Record(r, result)

AbuseNext ==
    \/ \E r \in Requests : Admit(r) \/ Ends(r)
    \/ Look
    \/ Tick

AbuseSpec == AbuseInit /\ [][AbuseNext]_abuseVars

(* The clock goes on and what runs ends. *)
AbuseFairSpec ==
    /\ AbuseSpec
    /\ WF_abuseVars(Tick)
    /\ \A r \in Requests : WF_abuseVars(Ends(r))

-----------------------------------------------------------------------------
(* Properties                                                               *)

(* "keeping the same ... interface so nothing else changes" (backends.py:   *)
(* 5-6): whenever they are asked, and whatever has pruned them since, both  *)
(* trackers give the weight of exactly the runs of the last window.         *)
ScoreIsWindow == MemoryScore = Sum(past) /\ RedisScore = Sum(past)

(* "quarantined (403) until the window clears" (abuse.py:7-8): it does      *)
(* clear, for what was admitted before and is scored after is soon over.    *)
QuarantineEnds == Quarantined ~> ~Quarantined
=============================================================================
