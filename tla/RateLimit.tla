------------------------------ MODULE RateLimit ------------------------------
(***************************************************************************)
(* app/api/ratelimit.py: the in-memory limiter, its two caps and its       *)
(* bookkeeping, used by callers that pair acquire() with release().        *)
(*                                                                         *)
(* Both methods run to their end on the event loop, so each is one action. *)
(* The two dictionaries are functions whose domain grows and shrinks as    *)
(* entries are made (the defaultdicts make one on a read) and dropped.     *)
(* Time is counted in ticks, a second being TicksPerSecond of them, so     *)
(* that what int() cuts off is seen.                                       *)
(***************************************************************************)
EXTENDS Integers, Sequences

CONSTANTS
    Identities,
    PerMin,           \* SANDBOX_RATE_PER_MIN, 0 for no cap
    MaxInflight,      \* SANDBOX_MAX_INFLIGHT, 0 for no cap
    TicksPerSecond,
    Window,           \* WINDOW_S, in ticks
    MaxCallers,       \* bound: requests of one identity at one time
    Horizon           \* bound: the last tick considered

ASSUME CapsAssumption == PerMin \in Nat /\ MaxInflight \in Nat
ASSUME TimeAssumption ==
    TicksPerSecond \in Nat \ {0} /\ Window \in Nat \ {0} /\ Horizon \in Nat
ASSUME CallersAssumption == MaxCallers \in Nat

VARIABLES
    now,        \* time.monotonic()
    events,     \* _events: identity -> times of its admissions, oldest first
    inflight,   \* _inflight: identity -> count
    holders,    \* requests of each identity between acquire() and release()
    log         \* history: the times of all admissions of each identity

vars == <<now, events, inflight, holders, log>>

TypeOK ==
    /\ now \in 0..Horizon
    /\ DOMAIN events \subseteq Identities
    /\ events \in [DOMAIN events -> Seq(0..Horizon)]
    /\ DOMAIN inflight \subseteq Identities
    /\ inflight \in [DOMAIN inflight -> Nat]
    /\ holders \in [Identities -> 0..MaxCallers]
    /\ log \in [Identities -> Seq(0..Horizon)]

Init ==
    /\ now = 0
    /\ events = [i \in {} |-> <<>>]
    /\ inflight = [i \in {} |-> 0]
    /\ holders = [i \in Identities |-> 0]
    /\ log = [i \in Identities |-> <<>>]

-----------------------------------------------------------------------------
Put(dict, i, v) == [j \in DOMAIN dict \cup {i} |-> IF j = i THEN v ELSE dict[j]]

Pop(dict, i) == [j \in DOMAIN dict \ {i} |-> dict[j]]

WindowOf(i) == IF i \in DOMAIN events THEN events[i] ELSE <<>>

CountOf(i) == IF i \in DOMAIN inflight THEN inflight[i] ELSE 0

(* Mutated forms, here and below: stand-ins for a plausible slip in the      *)
(* definition that follows, to see that a property notices it.              *)
Expired_TickLater(t) == now - t > Window

Expired(t) == now - t >= Window

(* Where the popleft() loop stops: at the first admission that is not       *)
(* expired, or past the last.                                               *)
Front(w) ==
    CHOOSE k \in 1..(Len(w) + 1) :
        /\ \A j \in 1..(k - 1) : Expired(w[j])
        /\ k <= Len(w) => ~Expired(w[k])

Recent(i) == SubSeq(WindowOf(i), Front(WindowOf(i)), Len(WindowOf(i)))

RateFull(i) == PerMin > 0 /\ Len(Recent(i)) >= PerMin

CountFull(i) == MaxInflight > 0 /\ CountOf(i) >= MaxInflight

RetryAfter_OfNewest(i) ==
    LET left == Window - (now - Recent(i)[Len(Recent(i))])
        secs == left \div TicksPerSecond
    IN  IF secs > 1 THEN secs ELSE 1

(* RateLimited.retry_after, in seconds. *)
RetryAfter(i) ==
    LET left == Window - (now - Recent(i)[1])
        secs == left \div TicksPerSecond
    IN  IF secs > 1 THEN secs ELSE 1

Pruned(i) == IF PerMin > 0 THEN Put(events, i, Recent(i)) ELSE events

(* acquire() raises RateLimited: whichever cap is met, the window has been  *)
(* read, and so made and pruned, before.                                    *)
Reject(i) ==
    /\ RateFull(i) \/ CountFull(i)
    /\ events' = Pruned(i)
    /\ UNCHANGED <<now, inflight, holders, log>>

(* acquire() returns: its caller runs until it calls release(). *)
Admit(i) ==
    /\ holders[i] < MaxCallers
    /\ ~RateFull(i) /\ ~CountFull(i)
    /\ events' = IF PerMin > 0 THEN Put(events, i, Append(Recent(i), now)) ELSE events
    /\ inflight' = Put(inflight, i, CountOf(i) + 1)
    /\ holders' = [holders EXCEPT ![i] = @ + 1]
    /\ log' = IF PerMin > 0 THEN [log EXCEPT ![i] = Append(@, now)] ELSE log
    /\ UNCHANGED now

Gc_ByCountOnly(i, count) ==
    IF count <= 0
    THEN inflight' = Pop(inflight, i) /\ events' = Pop(events, i)
    ELSE inflight' = Put(inflight, i, count) /\ UNCHANGED events

(* _gc(), after the count has become count. *)
Gc(i, count) ==
    IF count <= 0
    THEN /\ inflight' = Pop(inflight, i)
         /\ events' = IF WindowOf(i) = <<>> THEN Pop(events, i) ELSE events
    ELSE inflight' = Put(inflight, i, count) /\ UNCHANGED events

Release(i) ==
    /\ holders[i] > 0
    /\ holders' = [holders EXCEPT ![i] = @ - 1]
    /\ Gc(i, IF CountOf(i) > 0 THEN CountOf(i) - 1 ELSE 0)
    /\ UNCHANGED <<now, log>>

Tick ==
    /\ now < Horizon
    /\ now' = now + 1
    /\ UNCHANGED <<events, inflight, holders, log>>

Next ==
    \/ \E i \in Identities : Reject(i) \/ Admit(i) \/ Release(i)
    \/ Tick

Spec == Init /\ [][Next]_vars

-----------------------------------------------------------------------------
(* What the limiter keeps stands for: the decision of one that keeps all.    *)
Ideal ==
    INSTANCE Limiter WITH open <- [i \in Identities |-> ~RateFull(i) /\ ~CountFull(i)]

-----------------------------------------------------------------------------
(* Properties                                                               *)

(* Whatever was pruned, dropped and made again, acquire() decides as if it   *)
(* had kept every admission and every holder: it lets no request in that    *)
(* should not be, and turns none away that should (ratelimit.py:38-67).     *)
ImplementsLimiter == Ideal!Spec

(* No window of WINDOW_S, wherever it starts, holds more than PerMin        *)
(* admissions of an identity, although the limiter only keeps, prunes and   *)
(* drops a part of what it admitted (ratelimit.py:42-53, 60-67).            *)
RateBounded ==
    PerMin > 0 =>
        \A i \in Identities : \A j \in 1..(Len(log[i]) - PerMin) :
            log[i][j + PerMin] - log[i][j] >= Window

(* An identity never has more than MaxInflight requests between acquire()   *)
(* and release(), through any sequence of rejections, releases and _gc()    *)
(* (ratelimit.py:49-50, 55-67).                                             *)
InflightBounded ==
    MaxInflight > 0 => \A i \in Identities : holders[i] <= MaxInflight

(* The count of an identity is the number of requests that hold it, and is  *)
(* kept only as long as there are some: nothing is leaked, and no release   *)
(* is lost by dropping an entry (ratelimit.py:53-64).                       *)
CountsExact ==
    /\ DOMAIN inflight = {i \in Identities : holders[i] > 0}
    /\ \A i \in DOMAIN inflight : inflight[i] = holders[i]

(* A caller turned away by the rate cap who waits as told comes back within *)
(* a second of the time a slot is free again (ratelimit.py:46-48).          *)
RetryAfterClose ==
    \A i \in Identities :
        RateFull(i) =>
            LET told == now + RetryAfter(i) * TicksPerSecond
                free == log[i][Len(log[i]) - PerMin + 1] + Window
            IN  told - free \in -TicksPerSecond..TicksPerSecond
=============================================================================
