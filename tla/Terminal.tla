------------------------------ MODULE Terminal ------------------------------
(***************************************************************************)
(* app/executor/terminal.py and terminal_ws() of app/api/routes.py: the    *)
(* interactive sessions, from the WebSocket's handler through start() to   *)
(* the one close() that tears a session down, and the manager's caps.      *)
(*                                                                         *)
(* Any of several tasks may call close(); only the first call does         *)
(* anything (_closed).  One action is the code between two awaits.  The    *)
(* client, runsc and the shell are the environment: a client may leave at  *)
(* any time, or stay and take no data, so that what is sent to it is never *)
(* sent; a launch may fail, a shell may never end.  Whether other tasks    *)
(* run while accept() is awaited is the server's affair: they may.         *)
(* Assumed of runsc: when its "run" process is killed the sandbox ends.    *)
(* The handlers have ended when shutdown() is called (uvicorn waits for    *)
(* them).                                                                  *)
(***************************************************************************)
EXTENDS Integers, FiniteSets

CONSTANTS
    Sessions,          \* the connections that are attempted
    Identities,
    Owner,             \* session -> identity
    Admins,            \* the identities that are is_admin
    MaxTotal,          \* SANDBOX_TERMINAL_MAX_TOTAL
    PerUser,           \* SANDBOX_TERMINAL_PER_USER
    Readers            \* the connections whose client takes what it is sent

ASSUME SessionsAssumption == IsFiniteSet(Sessions) /\ Owner \in [Sessions -> Identities]
ASSUME CapsAssumption == MaxTotal \in Nat /\ PerUser \in Nat /\ Admins \subseteq Identities
ASSUME ReadersAssumption == Readers \subseteq Sessions

VARIABLES
    at,          \* the await each connection's handler stands at
    sandbox,     \* each session's sandbox
    teardown,    \* where the close() that won stands; "none" while not _closed
    watched,     \* have the session's own tasks been started?
    sessions,    \* TerminalManager.sessions
    byIdentity,  \* TerminalManager.by_identity, 0 for no entry
    overtaken,   \* history: who registered while it awaited accept()?
    stop,        \* shutdown(): not called, in its loop, returned
    toStop,      \* the sessions it has not come to
    awaited      \* the session whose close() it waits for

vars == <<at, sandbox, teardown, watched, sessions, byIdentity, overtaken,
          stop, toStop, awaited>>

manager == <<sessions, byIdentity, overtaken>>
stopper == <<stop, toStop, awaited>>

Starting == {"spawning", "console", "handover", "failing"}

Places == {"new", "accepting", "greeting", "serving", "closing", "over"} \cup Starting

Live(s) == sandbox[s] \in {"starting", "up"}

Closed(s) == teardown[s] # "none"

TypeOK ==
    /\ at \in [Sessions -> Places]
    /\ sandbox \in [Sessions -> {"absent", "starting", "failed", "up", "gone"}]
    /\ teardown \in [Sessions -> {"none", "telling", "killing", "finishing", "done"}]
    /\ watched \in [Sessions -> BOOLEAN]
    /\ sessions \subseteq Sessions
    /\ byIdentity \in [Identities -> Nat]
    /\ overtaken \in [Sessions -> {"no", "others", "own"}]
    /\ stop \in {"no", "closing", "done"}
    /\ toStop \subseteq Sessions
    /\ awaited \subseteq Sessions

Init ==
    /\ at = [s \in Sessions |-> "new"]
    /\ sandbox = [s \in Sessions |-> "absent"]
    /\ teardown = [s \in Sessions |-> "none"]
    /\ watched = [s \in Sessions |-> FALSE]
    /\ sessions = {}
    /\ byIdentity = [u \in Identities |-> 0]
    /\ overtaken = [s \in Sessions |-> "no"]
    /\ stop = "no"
    /\ toStop = {}
    /\ awaited = {}

Goto(s, place) == at' = [at EXCEPT ![s] = place]

-----------------------------------------------------------------------------
(* TerminalManager                                                          *)

(* Mutated forms, here and below: stand-ins for a plausible slip in the      *)
(* definition that follows, to see that a property notices it.              *)
Rejected_OffByOne(s) ==
    \/ Cardinality(sessions) > MaxTotal
    \/ Owner[s] \notin Admins /\ byIdentity[Owner[s]] > PerUser

Rejected_TotalOnly(s) == Cardinality(sessions) >= MaxTotal

Rejected(s) ==
    \/ Cardinality(sessions) >= MaxTotal
    \/ Owner[s] \notin Admins /\ byIdentity[Owner[s]] >= PerUser

(* Whoever stands at accept() was admitted without knowledge of s. *)
Overtakes(s, r) == r # s /\ at[r] = "accepting" /\ overtaken[r] # "own"

Register(s) ==
    /\ sessions' = sessions \cup {s}
    /\ byIdentity' = [byIdentity EXCEPT ![Owner[s]] = @ + 1]
    /\ overtaken' = [r \in Sessions |->
                        IF ~Overtakes(s, r) THEN overtaken[r]
                        ELSE IF Owner[r] = Owner[s] THEN "own" ELSE "others"]

(* unregister(), called so many times: a count never falls below 0, but it  *)
(* is the count of all of the identity's sessions.                          *)
Unregister(s, times) ==
    /\ sessions' = sessions \ {s}
    /\ byIdentity' = [byIdentity EXCEPT ![Owner[s]] = IF @ > times THEN @ - times ELSE 0]
    /\ overtaken' = [overtaken EXCEPT ![s] = "no"]

-----------------------------------------------------------------------------
(* terminal_ws() and start()                                                *)

TurnedAway(s) ==
    /\ at[s] = "new" /\ stop = "no"
    /\ Rejected(s)
    /\ Goto(s, "over")
    /\ UNCHANGED <<sandbox, teardown, watched, manager, stopper>>

Connect(s) ==
    /\ at[s] = "new" /\ stop = "no"
    /\ ~Rejected(s)
    /\ Goto(s, "accepting")
    /\ UNCHANGED <<sandbox, teardown, watched, manager, stopper>>

(* register(), and start() as far as create_subprocess_exec(); the files it  *)
(* stages are left out.                                                     *)
Accepted(s) ==
    /\ at[s] = "accepting"
    /\ Register(s)
    /\ Goto(s, "spawning")
    /\ UNCHANGED <<sandbox, teardown, watched, stopper>>

Spawned(s) ==
    /\ at[s] = "spawning"
    /\ sandbox' = [sandbox EXCEPT ![s] = "starting"]
    /\ Goto(s, "console")
    /\ UNCHANGED <<teardown, watched, manager, stopper>>

(* start() raises before there is a process (the files, the socket, the      *)
(* launcher): nothing is closed, the handler unregisters.                   *)
SpawnFails(s) ==
    /\ at[s] = "spawning"
    /\ Unregister(s, 1)
    /\ Goto(s, "over")
    /\ UNCHANGED <<sandbox, teardown, watched, stopper>>

Console(s) ==
    /\ at[s] = "console"
    /\ sandbox[s] \in {"up", "gone"}
    /\ Goto(s, "handover")
    /\ UNCHANGED <<sandbox, teardown, watched, manager, stopper>>

(* sock_accept() times out: start() itself calls close(). *)
ConsoleFails(s) ==
    /\ at[s] = "console"
    /\ sandbox[s] \in {"starting", "failed"}
    /\ teardown' = [teardown EXCEPT ![s] = "killing"]
    /\ Goto(s, "failing")
    /\ UNCHANGED <<sandbox, watched, manager, stopper>>

(* _recv_fd() returns; the session's own tasks are started. *)
Handover(s) ==
    /\ at[s] = "handover"
    /\ watched' = [watched EXCEPT ![s] = TRUE]
    /\ Goto(s, "greeting")
    /\ UNCHANGED <<sandbox, teardown, manager, stopper>>

(* _recv_fd() raises: the handler unregisters, and nobody calls close(). *)
HandoverFails(s) ==
    /\ at[s] = "handover"
    /\ Unregister(s, 1)
    /\ Goto(s, "over")
    /\ UNCHANGED <<sandbox, teardown, watched, stopper>>

Greeted(s) ==
    /\ at[s] = "greeting"
    /\ Goto(s, "serving")
    /\ UNCHANGED <<sandbox, teardown, watched, manager, stopper>>

(* send_json() raises, outside the try: the session is left to its tasks. *)
GreetFails(s) ==
    /\ at[s] = "greeting"
    /\ Goto(s, "over")
    /\ UNCHANGED <<sandbox, teardown, watched, manager, stopper>>

Leave_ClosesAgain(s) ==
    /\ at[s] = "serving"
    /\ Goto(s, "closing")
    /\ teardown' = [teardown EXCEPT ![s] = "killing"]
    /\ UNCHANGED <<sandbox, watched, manager, stopper>>

(* The client has gone, or closed is set: the finally clause. *)
Leave(s) ==
    /\ at[s] = "serving"
    /\ IF Closed(s)
       THEN Goto(s, "over") /\ UNCHANGED teardown
       ELSE Goto(s, "closing") /\ teardown' = [teardown EXCEPT ![s] = "killing"]
    /\ UNCHANGED <<sandbox, watched, manager, stopper>>

-----------------------------------------------------------------------------
(* The session's tasks, and close()                                         *)

Watchdog_WhileServed(s) ==
    /\ watched[s] /\ ~Closed(s) /\ at[s] = "serving"
    /\ teardown' = [teardown EXCEPT ![s] = "telling"]
    /\ UNCHANGED <<at, sandbox, watched, manager, stopper>>

(* The watchdog, after MAX_LIFETIME_S or IDLE_TIMEOUT_S: it tells first. *)
Watchdog(s) ==
    /\ watched[s] /\ ~Closed(s)
    /\ teardown' = [teardown EXCEPT ![s] = "telling"]
    /\ UNCHANGED <<at, sandbox, watched, manager, stopper>>

(* The shell has ended, or what it wrote could not be sent. *)
Ended(s) ==
    /\ watched[s] /\ ~Closed(s)
    /\ teardown' = [teardown EXCEPT ![s] = "killing"]
    /\ UNCHANGED <<at, sandbox, watched, manager, stopper>>

Told(s) ==
    /\ teardown[s] = "telling"
    /\ teardown' = [teardown EXCEPT ![s] = "killing"]
    /\ UNCHANGED <<at, sandbox, watched, manager, stopper>>

(* _kill() and _delete() in the executor; either may raise. *)
Kill(s) ==
    /\ teardown[s] = "killing"
    /\ teardown' = [teardown EXCEPT ![s] = "finishing"]
    /\ \/ sandbox' = [sandbox EXCEPT ![s] = "gone"]
       \/ UNCHANGED sandbox
    /\ UNCHANGED <<at, watched, manager, stopper>>

Finish_TrustsKill(s) ==
    /\ teardown[s] = "finishing"
    /\ teardown' = [teardown EXCEPT ![s] = "done"]
    /\ Unregister(s, IF at[s] = "failing" THEN 2 ELSE 1)
    /\ at' = [at EXCEPT ![s] = IF @ \in {"failing", "closing"} THEN "over" ELSE @]
    /\ UNCHANGED <<sandbox, watched, stopper>>

(* proc.kill() and the rest of close(), with on_close.  If it was start()   *)
(* that called, it raises now, and the handler unregisters again.           *)
Finish(s) ==
    /\ teardown[s] = "finishing"
    /\ teardown' = [teardown EXCEPT ![s] = "done"]
    /\ sandbox' = [sandbox EXCEPT ![s] = "gone"]
    /\ Unregister(s, IF at[s] = "failing" THEN 2 ELSE 1)
    /\ at' = [at EXCEPT ![s] = IF @ \in {"failing", "closing"} THEN "over" ELSE @]
    /\ UNCHANGED <<watched, stopper>>

-----------------------------------------------------------------------------
(* TerminalManager.shutdown()                                               *)

Shutdown ==
    /\ stop = "no"
    /\ \A s \in Sessions : at[s] \in {"new", "over"}
    /\ stop' = "closing"
    /\ toStop' = sessions
    /\ UNCHANGED <<at, sandbox, teardown, watched, manager, awaited>>

StopNext_DoesNotWait(s) ==
    /\ stop = "closing" /\ s \in toStop
    /\ toStop' = toStop \ {s}
    /\ awaited' = {}
    /\ IF Closed(s)
       THEN UNCHANGED <<sandbox, teardown>>
       ELSE /\ teardown' = [teardown EXCEPT ![s] = "done"]
            /\ UNCHANGED sandbox
    /\ UNCHANGED <<at, watched, manager, stop>>

StopNext(s) ==
    /\ stop = "closing" /\ s \in toStop
    /\ \A r \in awaited : teardown[r] = "done"
    /\ toStop' = toStop \ {s}
    /\ IF Closed(s)
       THEN awaited' = {} /\ UNCHANGED teardown
       ELSE awaited' = {s} /\ teardown' = [teardown EXCEPT ![s] = "killing"]
    /\ UNCHANGED <<at, sandbox, watched, manager, stop>>

Stopped ==
    /\ stop = "closing" /\ toStop = {}
    /\ \A r \in awaited : teardown[r] = "done"
    /\ stop' = "done"
    /\ awaited' = {}
    /\ UNCHANGED <<at, sandbox, teardown, watched, manager, toStop>>

-----------------------------------------------------------------------------
(* runsc and the shell                                                      *)

ConsoleOpens(s) ==
    /\ sandbox[s] = "starting"
    /\ sandbox' = [sandbox EXCEPT ![s] = "up"]
    /\ UNCHANGED <<at, teardown, watched, manager, stopper>>

LaunchFails(s) ==
    /\ sandbox[s] = "starting"
    /\ sandbox' = [sandbox EXCEPT ![s] = "failed"]
    /\ UNCHANGED <<at, teardown, watched, manager, stopper>>

ShellExits(s) ==
    /\ sandbox[s] = "up"
    /\ sandbox' = [sandbox EXCEPT ![s] = "gone"]
    /\ UNCHANGED <<at, teardown, watched, manager, stopper>>

-----------------------------------------------------------------------------

HandlerStep(s) ==
    \/ TurnedAway(s) \/ Connect(s) \/ Accepted(s)
    \/ Spawned(s) \/ SpawnFails(s) \/ Console(s) \/ ConsoleFails(s)
    \/ Handover(s) \/ HandoverFails(s) \/ Greeted(s) \/ GreetFails(s)
    \/ Leave(s)

CloseStep(s) == Told(s) \/ Kill(s) \/ Finish(s)

SandboxStep(s) == ConsoleOpens(s) \/ LaunchFails(s) \/ ShellExits(s)

(* The server is gone. *)
Finished == stop = "done" /\ UNCHANGED vars

Next ==
    \/ \E s \in Sessions :
        HandlerStep(s) \/ Watchdog(s) \/ Ended(s) \/ CloseStep(s) \/ SandboxStep(s)
    \/ Shutdown \/ Stopped \/ \E s \in Sessions : StopNext(s)
    \/ Finished

Spec == Init /\ [][Next]_vars

(* What start() awaits comes or times out, the watchdog looks at the clock  *)
(* every two seconds, runsc kill and delete come back or time out.  What is *)
(* sent is sent if the client takes it, and raises once the client has      *)
(* left; a client that does neither holds it (a ping would wait behind it). *)
(* Neither a client that leaves nor a shell that exits is assumed.          *)
StartStep(s) ==
    \/ Spawned(s) \/ SpawnFails(s) \/ Console(s) \/ ConsoleFails(s)
    \/ Handover(s) \/ HandoverFails(s)

Sent(s) == s \in Readers \/ at[s] = "over"

FairSpec ==
    /\ Spec
    /\ \A s \in Sessions :
        /\ WF_vars(StartStep(s))
        /\ WF_vars(ConsoleOpens(s) \/ LaunchFails(s))
        /\ WF_vars(Watchdog(s))
        /\ WF_vars(Sent(s) /\ Told(s))
        /\ WF_vars(Kill(s) \/ Finish(s))

-----------------------------------------------------------------------------
(* Properties                                                               *)

SessionsOf(u) == {s \in sessions : Owner[s] = u}

(* start() called close() because the console never opened: its session is  *)
(* unregistered twice.                                                      *)
Unopened(s) == ~watched[s] /\ Closed(s)

(* start() left without close(): launched or not, nobody will close it.     *)
Abandoned(s) == at[s] = "over" /\ ~watched[s] /\ ~Closed(s)

(* The total cap bounds the sessions, admins' included, whichever of their  *)
(* steps fails (terminal.py:266-285): what exceeds it are sessions that     *)
(* another one overtook between rejection() and register(), while accept()  *)
(* was awaited, each of them by one.                                        *)
TotalBounded ==
    Cardinality(sessions) <= MaxTotal + Cardinality({s \in sessions : overtaken[s] # "no"})

(* The count of an identity is the number of its registered sessions, so    *)
(* that what the per-user cap is compared with is what it is about, whoever *)
(* calls close() and how often, but for sessions whose console never opened.*)
CountsExact ==
    \A u \in Identities :
        (\A s \in Sessions : Owner[s] = u => ~Unopened(s))
            => byIdentity[u] = Cardinality(SessionsOf(u))

(* "enforces concurrency caps" (terminal.py:258): an identity that is not   *)
(* an admin has no more than PerUser sessions, beside those that another    *)
(* one of its own overtook at accept(); with the same exception.            *)
PerUserBounded ==
    \A u \in Identities \ Admins :
        (\A s \in Sessions : Owner[s] = u => ~Unopened(s))
            => Cardinality(SessionsOf(u)) <=
                 PerUser + Cardinality({s \in SessionsOf(u) : overtaken[s] = "own"})

(* "Tracks live terminal sessions" (terminal.py:258): a sandbox that is     *)
(* alive belongs to a registered session, so that the caps count it and     *)
(* shutdown() finds it, unless start() abandoned it.                        *)
LiveTracked == \A s \in Sessions : Live(s) /\ ~Abandoned(s) => s \in sessions

(* "kill any live interactive shells" (main.py:70): when shutdown() returns,*)
(* every shell that is alive is at least being closed by a task of its own, *)
(* which shutdown() does not wait for, or was abandoned by start().         *)
ShutdownReachesAll ==
    stop = "done" =>
        \A s \in Sessions :
            Live(s) /\ ~Abandoned(s) => teardown[s] \in {"telling", "killing", "finishing"}

(* close() has told a client that stays and takes no data. *)
Unread(s) == s \notin Readers /\ teardown[s] = "telling" /\ at[s] # "over"

(* Every session ends and gives its place back, whatever its shell does and *)
(* wherever its handler stands (terminal.py:187-239), unless close() waits  *)
(* for a client that takes no data; and then it ends if that client leaves. *)
EverySessionEnds == \A s \in Sessions : s \in sessions ~> s \notin sessions \/ Unread(s)
=============================================================================
