------------------------------- MODULE Limiter -------------------------------
(***************************************************************************)
(* What a caller of app/api/ratelimit.py may rely on: the limiter that     *)
(* forgets nothing.  It counts, of all admissions ever, those of the last  *)
(* Window, and the requests between acquire() and release(), and lets one  *)
(* more in when neither cap is met: no more, and no less.                  *)
(*                                                                         *)
(* RateLimit.tla, which keeps, prunes and drops entries, implements it     *)
(* (RateLimit!Ideal, theorem LimiterImplemented of RateLimitProofs).       *)
(***************************************************************************)
EXTENDS Integers, Sequences, FiniteSets

CONSTANTS
    Identities,
    PerMin,        \* 0 for no cap
    MaxInflight,   \* 0 for no cap
    Window

VARIABLES
    now,
    log,       \* the times of all admissions, where their rate is capped
    holders,   \* requests admitted and not released
    open       \* would a request of the identity be let in now?

vars == <<now, log, holders, open>>

Counted(i) == {j \in DOMAIN log[i] : now - log[i][j] < Window}

Decision ==
    [i \in Identities |->
        /\ PerMin > 0 => Cardinality(Counted(i)) < PerMin
        /\ MaxInflight > 0 => holders[i] < MaxInflight]

Init ==
    /\ now = 0
    /\ log = [i \in Identities |-> <<>>]
    /\ holders = [i \in Identities |-> 0]
    /\ open = Decision

Admit(i) ==
    /\ open[i]
    /\ holders' = [holders EXCEPT ![i] = @ + 1]
    /\ log' = IF PerMin > 0 THEN [log EXCEPT ![i] = Append(@, now)] ELSE log
    /\ UNCHANGED now

Release(i) ==
    /\ holders[i] > 0
    /\ holders' = [holders EXCEPT ![i] = @ - 1]
    /\ UNCHANGED <<now, log>>

Tick ==
    /\ now' = now + 1
    /\ UNCHANGED <<log, holders>>

Next ==
    /\ Tick \/ \E i \in Identities : Admit(i) \/ Release(i)
    /\ open' = Decision'

Spec == Init /\ [][Next]_vars
=============================================================================
