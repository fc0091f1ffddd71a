---------------------------- MODULE RedisLimiter ----------------------------
(***************************************************************************)
(* RedisRateLimiter of app/backends.py: several nodes share the window and *)
(* the counter of a caller through two Lua scripts, each of which Redis    *)
(* runs as one step.  One caller stands for all: the keys are per caller.  *)
(*                                                                         *)
(* Each node stamps admissions by its own clock, ahead of true time by its *)
(* Skew.  A node crashes with the places of its requests, and the reply to *)
(* a script that did run is lost.  A request keeps its place as long as it *)
(* likes: a stream whose client does not read has no limit.  Time is a     *)
(* tick; ages are kept relative to now, in true time.                      *)
(***************************************************************************)
EXTENDS Naturals, Sequences, FiniteSets

CONSTANTS
    Nodes,
    Skew,         \* [Nodes -> Nat]: how far each clock is ahead
    MaxSkew,      \* the largest of them
    Calls,        \* requests that may be in the servers at a time
    PerMin,       \* SANDBOX_RATE_PER_MIN; 0 is no limit
    MaxInflight,  \* SANDBOX_MAX_INFLIGHT; 0 is no limit
    Window,       \* RL_WINDOW_S
    Ttl           \* expiry of the counter, 3600 s

ASSUME SkewAssumption == MaxSkew \in Nat /\ Skew \in [Nodes -> 0..MaxSkew]
ASSUME CapsAssumption == PerMin \in Nat /\ MaxInflight \in Nat /\ IsFiniteSet(Calls)
ASSUME TimesAssumption == Window \in Nat \ {0} /\ Ttl \in Nat

VARIABLES
    log,     \* admissions, oldest first: their age, the Skew of their stamp,
             \* and whether the sorted set still has them
    count,   \* the counter, 0 if there is no such key
    idle,    \* ticks since the counter's expiry was set
    holder,  \* the node a call is admitted on, or "none"
    held,    \* for how long, at most Ttl
    forgotten  \* history: places held for Ttl when the counter last expired

vars == <<log, count, idle, holder, held, forgotten>>

(* Past this age an admission is of no account for any node. *)
MaxAge == Window + MaxSkew + 1

Holders == {c \in Calls : holder[c] # "none"}

TypeOK ==
    /\ log \in Seq([age : 0..MaxAge, skew : 0..MaxSkew, kept : BOOLEAN])
    /\ count \in Nat
    /\ idle \in 0..Ttl
    /\ holder \in [Calls -> Nodes \cup {"none"}]
    /\ held \in [Calls -> 0..Ttl]
    /\ forgotten \in Nat

Init ==
    /\ log = <<>>
    /\ count = 0
    /\ idle = 0
    /\ holder = [c \in Calls |-> "none"]
    /\ held = [c \in Calls |-> 0]
    /\ forgotten = 0

-----------------------------------------------------------------------------
(* _RL_ACQUIRE                                                              *)

(* A score of at most now - win, by the clock of node n. *)
Old(e, n) == e.age + Skew[n] >= Window + e.skew

(* The log once the set has been pruned by node n. *)
Pruned(n) == [i \in 1..Len(log) |-> [log[i] EXCEPT !.kept = @ /\ ~Old(log[i], n)]]

RateFull(n) ==
    PerMin > 0 /\ Cardinality({i \in 1..Len(log) : Pruned(n)[i].kept}) >= PerMin

CountFull == MaxInflight > 0 /\ count >= MaxInflight

(* Mutated forms, here and below: stand-ins for a plausible slip in the      *)
(* definition that follows, to see that a property notices it.              *)
Reject_RenewsExpiry(n) ==
    /\ RateFull(n) \/ CountFull
    /\ log' = IF PerMin > 0 THEN Pruned(n) ELSE log
    /\ idle' = 0
    /\ UNCHANGED <<count, holder, held, forgotten>>

(* A refused request leaves the counter and its expiry alone. *)
Reject(n) ==
    /\ RateFull(n) \/ CountFull
    /\ log' = IF PerMin > 0 THEN Pruned(n) ELSE log
    /\ UNCHANGED <<count, idle, holder, held, forgotten>>

Admit_KeepsExpiry(n) ==
    /\ ~RateFull(n) /\ ~CountFull
    /\ log' = IF PerMin > 0
              THEN Append(Pruned(n), [age |-> 0, skew |-> Skew[n], kept |-> TRUE])
              ELSE log
    /\ count' = count + 1
    /\ idle' = IF count = 0 THEN 0 ELSE idle

Admit(n) ==
    /\ ~RateFull(n) /\ ~CountFull
    /\ log' = IF PerMin > 0
              THEN Append(Pruned(n), [age |-> 0, skew |-> Skew[n], kept |-> TRUE])
              ELSE log
    /\ count' = count + 1
    /\ idle' = 0

Acquire(c, n) ==
    /\ holder[c] = "none"
    /\ Admit(n)
    /\ holder' = [holder EXCEPT ![c] = n]
    /\ held' = [held EXCEPT ![c] = 0]
    /\ UNCHANGED forgotten

(* The request fails with the connection's error; nobody has its place. *)
ReplyLost(n) ==
    /\ Admit(n)
    /\ UNCHANGED <<holder, held, forgotten>>

-----------------------------------------------------------------------------
(* _RL_RELEASE                                                              *)

Release(c) ==
    /\ c \in Holders
    /\ count' = IF count > 0 THEN count - 1 ELSE 0
    /\ holder' = [holder EXCEPT ![c] = "none"]
    /\ UNCHANGED <<log, idle, held, forgotten>>

ReleaseLost(c) ==
    /\ c \in Holders
    /\ holder' = [holder EXCEPT ![c] = "none"]
    /\ UNCHANGED <<log, count, idle, held, forgotten>>

NodeCrashes(n) ==
    /\ \E c \in Calls : holder[c] = n
    /\ holder' = [c \in Calls |-> IF holder[c] = n THEN "none" ELSE holder[c]]
    /\ UNCHANGED <<log, count, idle, held, forgotten>>

-----------------------------------------------------------------------------
(* Time and the expiry of the keys                                          *)

Aged == [i \in 1..Len(log) |-> [log[i] EXCEPT !.age = IF @ < MaxAge THEN @ + 1 ELSE @]]

(* Where the part of the log begins that is still of account. *)
Start(entries) ==
    LET Counting == {i \in 1..Len(entries) : entries[i].kept \/ entries[i].age <= Window}
        Starts == Counting \cup {Len(entries) + 1}
    IN  CHOOSE i \in Starts : \A j \in Starts : i <= j

Expires == count > 0 /\ idle + 1 >= Ttl

(* Who has its place for as long as the counter lives. *)
Outlasting == {c \in Holders : held[c] + 1 >= Ttl}

(* The set expires Window + 1 after the last admission, the counter Ttl     *)
(* after its own, whoever holds a place.                                    *)
Tick ==
    /\ log' = IF log # <<>> /\ Aged[Len(log)].age > Window
              THEN <<>>
              ELSE SubSeq(Aged, Start(Aged), Len(log))
    /\ idle' = IF count = 0 \/ Expires THEN 0 ELSE idle + 1
    /\ count' = IF Expires THEN 0 ELSE count
    /\ forgotten' = IF Expires THEN Cardinality(Outlasting) ELSE forgotten
    /\ held' = [c \in Calls |->
                   IF c \notin Holders THEN 0
                   ELSE IF held[c] < Ttl THEN held[c] + 1 ELSE Ttl]
    /\ UNCHANGED holder

-----------------------------------------------------------------------------
Next ==
    \/ \E n \in Nodes :
         \/ \E c \in Calls : Acquire(c, n)
         \/ Reject(n)
         \/ ReplyLost(n)
         \/ NodeCrashes(n)
    \/ \E c \in Calls : Release(c) \/ ReleaseLost(c)
    \/ Tick

Spec == Init /\ [][Next]_vars

(* The clock goes on.  That a request ends is not assumed. *)
FairSpec == Spec /\ WF_vars(Tick)

-----------------------------------------------------------------------------
(* Properties                                                               *)

(* What exceeds the cap are as many places as were older than the counter   *)
(* when it last expired: their releases take from others' count, so that    *)
(* the counter stays too low by them until it expires with nobody so old.   *)
ConcurrencyCap == MaxInflight > 0 => Cardinality(Holders) <= MaxInflight + forgotten

Recent == {i \in 1..Len(log) : log[i].age + MaxSkew < Window}

RateCap == PerMin > 0 => Cardinality(Recent) <= PerMin

(* "concurrent nodes can't jointly exceed a cap" (backends.py:12): whatever *)
(* crashes and gets lost, the requests that hold a place, on all the nodes, *)
(* are at most max_inflight, beside those that outlasted the counter's      *)
(* expiry, and any stretch of time shorter than the window by the clocks'   *)
(* disagreement sees at most per_min admissions.                            *)
CapsHold == ConcurrencyCap /\ RateCap

(* The places a crash took with it do not lock the caller out for good: no  *)
(* refused request renews the counter's expiry (backends.py:52, 57).  This  *)
(* does not need a single request to end.                                   *)
LockoutEnds == CountFull ~> ~CountFull
=============================================================================
