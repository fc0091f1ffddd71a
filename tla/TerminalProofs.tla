-------------------------- MODULE TerminalProofs --------------------------
(***************************************************************************)
(* Proofs about Terminal, for every finite set of connections and every    *)
(* pair of caps.                                                           *)
(*                                                                         *)
(* The inductive invariant says, for each session, which combinations of   *)
(* handler, teardown and registration are possible (Placed): unregister()  *)
(* is reached once on every path but the one through a failed console.     *)
(***************************************************************************)
EXTENDS Terminal, FiniteSetTheorems, TLAPS

(* Where a session can be, and when it is registered. *)
PlacedAt(s) ==
    /\ at[s] \in {"new", "accepting"} =>
         s \notin sessions /\ teardown[s] = "none" /\ ~watched[s] /\ sandbox[s] = "absent"
    /\ at[s] \in {"spawning", "console", "handover"} =>
         s \in sessions /\ teardown[s] = "none" /\ ~watched[s]
    /\ at[s] = "failing" => teardown[s] \in {"killing", "finishing"}
    /\ at[s] = "failing" => ~watched[s]
    /\ at[s] = "closing" => teardown[s] \in {"killing", "finishing"}
    /\ at[s] \in {"greeting", "serving"} => watched[s]
    /\ teardown[s] \in {"telling", "killing", "finishing"} => s \in sessions
    /\ teardown[s] = "done" => s \notin sessions /\ ~Live(s)
    /\ watched[s] /\ ~Closed(s) => s \in sessions
    /\ s \in toStop /\ ~Closed(s) => s \in sessions
    /\ Live(s) => s \in sessions \/ Abandoned(s)
    /\ at[s] = "spawning" => sandbox[s] = "absent"

Placed == \A s \in Sessions : PlacedAt(s)

(* shutdown() is called when the handlers have ended, and then comes to     *)
(* every session that nobody has closed.                                    *)
Drained ==
    /\ stop # "no" => \A s \in Sessions : at[s] \in {"new", "over"}
    /\ stop = "no" => toStop = {}
    /\ stop = "done" => toStop = {}
    /\ stop # "no" => \A s \in sessions : ~Closed(s) => s \in toStop

Shape == TypeOK /\ Placed /\ Drained

-----------------------------------------------------------------------------

LEMMA ShapeInit == Init => Shape
  BY SessionsAssumption
     DEF Init, Shape, TypeOK, Placed, PlacedAt, Drained, Closed, Abandoned,
         Live, Places, Starting

LEMMA UnregisterType ==
    ASSUME TypeOK, NEW s \in Sessions, NEW n \in Nat, Unregister(s, n)
    PROVE  /\ sessions' \subseteq Sessions /\ byIdentity' \in [Identities -> Nat]
           /\ overtaken' \in [Sessions -> {"no", "others", "own"}]
  <1>1. sessions' \subseteq Sessions /\ byIdentity' \in [Identities -> Nat]
    <2>1. Owner[s] \in Identities /\ byIdentity \in [Identities -> Nat] /\ sessions \subseteq Sessions
      BY SessionsAssumption DEF TypeOK
    <2>2. (IF byIdentity[Owner[s]] > n THEN byIdentity[Owner[s]] - n ELSE 0) \in Nat
      BY <2>1
    <2> QED
      BY <2>1, <2>2 DEF Unregister
  <1>2. overtaken' \in [Sessions -> {"no", "others", "own"}]
    BY DEF TypeOK, Unregister
  <1> QED
    BY <1>1, <1>2

LEMMA RegisterType ==
    ASSUME TypeOK, NEW s \in Sessions, Register(s)
    PROVE  /\ sessions' \subseteq Sessions /\ byIdentity' \in [Identities -> Nat]
           /\ overtaken' \in [Sessions -> {"no", "others", "own"}]
  <1>1. Owner[s] \in Identities /\ byIdentity \in [Identities -> Nat] /\ sessions \subseteq Sessions
    BY SessionsAssumption DEF TypeOK
  <1>2. byIdentity[Owner[s]] + 1 \in Nat
    BY <1>1
  <1>3. byIdentity' \in [Identities -> Nat] /\ sessions' \subseteq Sessions
    BY <1>1, <1>2 DEF Register
  <1>4. overtaken' \in [Sessions -> {"no", "others", "own"}]
    BY DEF Register, TypeOK
  <1> QED
    BY <1>3, <1>4

LEMMA AcceptedStep ==
    ASSUME Shape, NEW s \in Sessions, Accepted(s)
    PROVE  Shape'
  <1>1. /\ sessions' = sessions \cup {s}
        /\ at[s] = "accepting" /\ at' = [at EXCEPT ![s] = "spawning"]
        /\ UNCHANGED <<sandbox, teardown, watched, stop, toStop, awaited>>
    BY DEF Accepted, Register, Goto, stopper
  <1>2. TypeOK'
    <2>1. at' \in [Sessions -> Places]
      BY <1>1 DEF Shape, TypeOK, Places, Starting
    <2> QED
      BY <1>1, <2>1, RegisterType DEF Accepted, Shape, TypeOK
  <1>3. Drained'
    BY <1>1 DEF Shape, TypeOK, Drained, Closed
  <1>4. PlacedAt(s)'
    BY <1>1 DEF Shape, TypeOK, Placed, PlacedAt, Closed, Abandoned, Live
  <1>5. ASSUME NEW r \in Sessions, r # s PROVE PlacedAt(r)'
    BY <1>1, <1>5 DEF Shape, TypeOK, Placed, PlacedAt, Closed, Abandoned, Live
  <1> QED
    BY <1>2, <1>3, <1>4, <1>5 DEF Shape, Placed

LEMMA ShapeStep == Shape /\ [Next]_vars => Shape'
  <1> SUFFICES ASSUME Shape, [Next]_vars PROVE Shape'
    OBVIOUS
  <1> USE DEF Shape, Drained, Closed
  <1>1. ASSUME NEW s \in Sessions, HandlerStep(s) PROVE Shape'
    <2> USE DEF Goto, manager, stopper
    <2>1. CASE TurnedAway(s)
      BY <2>1 DEF TurnedAway, TypeOK, Places, Starting, Placed, PlacedAt, Closed, Abandoned, Live
    <2>2. CASE Connect(s)
      BY <2>2 DEF Connect, TypeOK, Places, Starting, Placed, PlacedAt, Closed, Abandoned, Live
    <2>3. CASE Accepted(s)
      BY <2>3, AcceptedStep
    <2>4. CASE Spawned(s)
      BY <2>4 DEF Spawned, TypeOK, Places, Starting, Placed, PlacedAt, Closed, Abandoned, Live
    <2>5. CASE SpawnFails(s)
      <3>1. TypeOK' /\ Drained'
        BY <2>5, UnregisterType DEF SpawnFails, Unregister, TypeOK, Places, Starting
      <3>2. PlacedAt(s)'
        BY <2>5, UnregisterType DEF SpawnFails, Unregister, TypeOK, Places, Starting, Placed, PlacedAt, Closed, Abandoned, Live
      <3>3. ASSUME NEW r \in Sessions, r # s PROVE PlacedAt(r)'
        BY <2>5, UnregisterType, <3>3 DEF SpawnFails, Unregister, TypeOK, Places, Starting, Placed, PlacedAt, Closed, Abandoned, Live
      <3> QED
        BY <3>1, <3>2, <3>3 DEF Placed
    <2>6. CASE Console(s)
      BY <2>6 DEF Console, TypeOK, Places, Starting, Placed, PlacedAt, Closed, Abandoned, Live
    <2>7. CASE ConsoleFails(s)
      BY <2>7 DEF ConsoleFails, TypeOK, Places, Starting, Placed, PlacedAt, Closed, Abandoned, Live
    <2>8. CASE Handover(s)
      BY <2>8 DEF Handover, TypeOK, Places, Starting, Placed, PlacedAt, Closed, Abandoned, Live
    <2>9. CASE HandoverFails(s)
      <3>1. TypeOK' /\ Drained'
        BY <2>9, UnregisterType DEF HandoverFails, Unregister, TypeOK, Places, Starting
      <3>2. PlacedAt(s)'
        BY <2>9, UnregisterType DEF HandoverFails, Unregister, TypeOK, Places, Starting, Placed, PlacedAt, Closed, Abandoned, Live
      <3>3. ASSUME NEW r \in Sessions, r # s PROVE PlacedAt(r)'
        BY <2>9, UnregisterType, <3>3 DEF HandoverFails, Unregister, TypeOK, Places, Starting, Placed, PlacedAt, Closed, Abandoned, Live
      <3> QED
        BY <3>1, <3>2, <3>3 DEF Placed
    <2>10. CASE Greeted(s)
      BY <2>10 DEF Greeted, TypeOK, Places, Starting, Placed, PlacedAt, Closed, Abandoned, Live
    <2>11. CASE GreetFails(s)
      BY <2>11 DEF GreetFails, TypeOK, Places, Starting, Placed, PlacedAt, Closed, Abandoned, Live
    <2>12. CASE Leave(s)
      BY <2>12 DEF Leave, TypeOK, Places, Starting, Placed, PlacedAt, Closed, Abandoned, Live
    <2> QED
      BY <1>1, <2>1, <2>2, <2>3, <2>4, <2>5, <2>6, <2>7, <2>8, <2>9, <2>10, <2>11, <2>12
      DEF HandlerStep
  <1>2. ASSUME NEW s \in Sessions, Watchdog(s) \/ Ended(s) \/ CloseStep(s) PROVE Shape'
    <2> USE DEF manager, stopper
    <2>1. CASE Watchdog(s)
      BY <2>1 DEF Watchdog, TypeOK, Placed, PlacedAt, Closed, Abandoned, Live
    <2>2. CASE Ended(s)
      BY <2>2 DEF Ended, TypeOK, Placed, PlacedAt, Closed, Abandoned, Live
    <2>3. CASE Told(s)
      BY <2>3 DEF Told, TypeOK, Placed, PlacedAt, Closed, Abandoned, Live
    <2>4. CASE Kill(s)
      BY <2>4 DEF Kill, TypeOK, Placed, PlacedAt, Closed, Abandoned, Live
    <2>5. CASE Finish(s)
      <3>1. /\ teardown[s] = "finishing" /\ sessions' = sessions \ {s}
            /\ teardown' = [teardown EXCEPT ![s] = "done"]
            /\ sandbox' = [sandbox EXCEPT ![s] = "gone"]
            /\ at' = [at EXCEPT ![s] = IF @ \in {"failing", "closing"} THEN "over" ELSE @]
            /\ UNCHANGED <<watched, stop, toStop, awaited>>
        BY <2>5 DEF Finish, Unregister
      <3>2. /\ byIdentity' \in [Identities -> Nat]
            /\ overtaken' \in [Sessions -> {"no", "others", "own"}]
        BY <2>5, UnregisterType DEF Finish
      <3>3. TypeOK'
        BY <3>1, <3>2 DEF TypeOK, Places, Starting
      <3>4. Drained'
        BY <3>1 DEF TypeOK
      <3>5. PlacedAt(s)'
        BY <3>1 DEF TypeOK, Placed, PlacedAt, Closed, Abandoned, Live
      <3>6. ASSUME NEW r \in Sessions, r # s PROVE PlacedAt(r)'
        BY <3>1, <3>6 DEF TypeOK, Placed, PlacedAt, Closed, Abandoned, Live
      <3> QED
        BY <3>3, <3>4, <3>5, <3>6 DEF Placed
    <2> QED
      BY <1>2, <2>1, <2>2, <2>3, <2>4, <2>5 DEF CloseStep
  <1>3. ASSUME NEW s \in Sessions, SandboxStep(s) PROVE Shape'
    BY <1>3 DEF SandboxStep, ConsoleOpens, LaunchFails, ShellExits, manager, stopper, TypeOK, Placed,
                PlacedAt, Closed, Abandoned, Live
  <1>4. CASE Shutdown
    BY <1>4 DEF Shutdown, manager, TypeOK, Placed, PlacedAt, Closed, Abandoned, Live
  <1>5. ASSUME NEW s \in Sessions, StopNext(s) PROVE Shape'
    <2>1. TypeOK' /\ Drained'
      BY <1>5 DEF StopNext, manager, TypeOK
    <2>2. PlacedAt(s)'
      BY <1>5 DEF StopNext, manager, TypeOK, Placed, PlacedAt, Closed, Abandoned, Live
    <2>3. ASSUME NEW r \in Sessions, r # s PROVE PlacedAt(r)'
      BY <1>5, <2>3 DEF StopNext, manager, TypeOK, Placed, PlacedAt, Closed, Abandoned, Live
    <2> QED
      BY <2>1, <2>2, <2>3 DEF Placed
  <1>6. CASE Stopped
    BY <1>6 DEF Stopped, manager, TypeOK, Placed, PlacedAt, Closed, Abandoned, Live
  <1>7. CASE UNCHANGED vars
    BY <1>7 DEF vars, TypeOK, Placed, PlacedAt, Closed, Abandoned, Live
  <1> QED
    BY <1>1, <1>2, <1>3, <1>4, <1>5, <1>6, <1>7 DEF Next, Finished

-----------------------------------------------------------------------------
(* Counting                                                                 *)

(* Every step registers a session that stood at accept(), unregisters one   *)
(* that was registered, or leaves the manager alone.                        *)
LEMMA ManagerSteps ==
    ASSUME Shape, [Next]_vars
    PROVE  \/ \E s \in Sessions : s \notin sessions /\ Accepted(s)
           \/ /\ \E s \in sessions :
                    \E n \in {1, 2} : Unregister(s, n) /\ (n = 1 \/ Unopened(s))
              /\ \A r \in Sessions : at'[r] = "accepting" => at[r] = "accepting"
           \/ /\ UNCHANGED manager
              /\ \A r \in Sessions : at'[r] = "accepting" => at[r] = "accepting" \/ ~Rejected(r)
  <1>1. ASSUME NEW s \in Sessions, Accepted(s)
        PROVE  s \notin sessions
    BY <1>1 DEF Accepted, Shape, Placed, PlacedAt
  <1>2. ASSUME NEW s \in Sessions, SpawnFails(s) \/ HandoverFails(s) \/ Finish(s)
        PROVE  /\ s \in sessions /\ \E n \in {1, 2} : Unregister(s, n) /\ (n = 1 \/ Unopened(s))
               /\ \A r \in Sessions : at'[r] = "accepting" => at[r] = "accepting"
    <2>1. s \in sessions /\ \E n \in {1, 2} : Unregister(s, n) /\ (n = 1 \/ Unopened(s))
      BY <1>2 DEF SpawnFails, HandoverFails, Finish, Shape, Placed, PlacedAt, Unopened, Closed
    <2>2. \A r \in Sessions : at'[r] = "accepting" => at[r] = "accepting"
      BY <1>2 DEF SpawnFails, HandoverFails, Finish, Goto, Shape, TypeOK
    <2> QED
      BY <2>1, <2>2
  <1>3. ASSUME NEW s \in Sessions,
               \/ TurnedAway(s) \/ Spawned(s) \/ Console(s) \/ ConsoleFails(s) \/ Handover(s)
               \/ Greeted(s) \/ GreetFails(s) \/ Leave(s)
        PROVE  UNCHANGED manager /\ \A r \in Sessions : at'[r] = "accepting" => at[r] = "accepting"
    BY <1>3 DEF TurnedAway, Spawned, Console, ConsoleFails, Handover, Greeted, GreetFails, Leave,
                Goto, Shape, TypeOK
  <1>4. ASSUME NEW s \in Sessions, Connect(s)
        PROVE  UNCHANGED manager /\ \A r \in Sessions :
                    at'[r] = "accepting" => at[r] = "accepting" \/ ~Rejected(r)
    BY <1>4 DEF Connect, Goto, Shape, TypeOK
  <1>5. ASSUME NEW s \in Sessions,
               Watchdog(s) \/ Ended(s) \/ Told(s) \/ Kill(s) \/ SandboxStep(s) \/ StopNext(s)
        PROVE  UNCHANGED <<at, manager>>
    BY <1>5 DEF Watchdog, Ended, Told, Kill, SandboxStep, ConsoleOpens, LaunchFails, ShellExits,
                StopNext
  <1>6. CASE Shutdown \/ Stopped \/ UNCHANGED vars
    BY <1>6 DEF Shutdown, Stopped, vars, manager
  <1> QED
    BY <1>1, <1>2, <1>3, <1>4, <1>5, <1>6 DEF Next, HandlerStep, CloseStep, Finished

LEMMA SessionsFinite ==
    ASSUME TypeOK
    PROVE  /\ IsFiniteSet(sessions) /\ Cardinality(sessions) \in Nat
           /\ \A u \in Identities :
                IsFiniteSet(SessionsOf(u)) /\ Cardinality(SessionsOf(u)) \in Nat
  <1>1. IsFiniteSet(sessions)
    BY SessionsAssumption, FS_Subset DEF TypeOK
  <1>2. \A u \in Identities : SessionsOf(u) \subseteq sessions
    BY DEF SessionsOf
  <1> QED
    BY <1>1, <1>2, FS_Subset, FS_CardinalityType

LEMMA RegisterOne ==
    ASSUME TypeOK, NEW s \in Sessions, s \notin sessions, Register(s)
    PROVE  /\ Cardinality(sessions') = Cardinality(sessions) + 1
           /\ \A u \in Identities :
                Cardinality(SessionsOf(u)') =
                    Cardinality(SessionsOf(u)) + (IF Owner[s] = u THEN 1 ELSE 0)
  <1>1. sessions' = sessions \cup {s}
    BY DEF Register
  <1>2. Cardinality(sessions') = Cardinality(sessions) + 1
    BY <1>1, SessionsFinite, FS_AddElement
  <1>3. ASSUME NEW u \in Identities, Owner[s] = u
        PROVE  Cardinality(SessionsOf(u)') = Cardinality(SessionsOf(u)) + 1
    <2>1. SessionsOf(u)' = SessionsOf(u) \cup {s} /\ s \notin SessionsOf(u)
      BY <1>1, <1>3 DEF SessionsOf
    <2> QED
      BY <2>1, SessionsFinite, FS_AddElement
  <1>4. ASSUME NEW u \in Identities, Owner[s] # u
        PROVE  Cardinality(SessionsOf(u)') = Cardinality(SessionsOf(u)) + 0
    <2>1. SessionsOf(u)' = SessionsOf(u)
      BY <1>1, <1>4 DEF SessionsOf
    <2> QED
      BY <2>1, SessionsFinite
  <1> QED
    BY <1>2, <1>3, <1>4

LEMMA UnregisterOne ==
    ASSUME TypeOK, NEW s \in sessions, NEW n \in {1, 2}, Unregister(s, n)
    PROVE  /\ Cardinality(sessions') = Cardinality(sessions) - 1
           /\ \A u \in Identities :
                Cardinality(SessionsOf(u)') =
                    Cardinality(SessionsOf(u)) - (IF Owner[s] = u THEN 1 ELSE 0)
  <1>1. sessions' = sessions \ {s}
    BY DEF Unregister
  <1>2. Cardinality(sessions') = Cardinality(sessions) - 1
    BY <1>1, SessionsFinite, FS_RemoveElement
  <1>3. ASSUME NEW u \in Identities, Owner[s] = u
        PROVE  Cardinality(SessionsOf(u)') = Cardinality(SessionsOf(u)) - 1
    <2>1. SessionsOf(u)' = SessionsOf(u) \ {s} /\ s \in SessionsOf(u)
      BY <1>1, <1>3 DEF SessionsOf
    <2> QED
      BY <2>1, SessionsFinite, FS_RemoveElement
  <1>4. ASSUME NEW u \in Identities, Owner[s] # u
        PROVE  Cardinality(SessionsOf(u)') = Cardinality(SessionsOf(u)) - 0
    <2>1. SessionsOf(u)' = SessionsOf(u)
      BY <1>1, <1>4 DEF SessionsOf
    <2> QED
      BY <2>1, SessionsFinite
  <1> QED
    BY <1>2, <1>3, <1>4

(* The identities the counting is about: a session whose console failed     *)
(* stays one.                                                               *)
AllOpened(u) == \A s \in Sessions : Owner[s] = u => ~Unopened(s)

LEMMA UnopenedStays ==
    ASSUME Shape, [Next]_vars, NEW s \in Sessions, Unopened(s)
    PROVE  Unopened(s)'
  <1> USE DEF Unopened, Closed
  <1>1. ASSUME NEW r \in Sessions, HandlerStep(r) PROVE Unopened(s)'
    <2>1. CASE Handover(r)
      BY <1>1, <2>1 DEF Handover, Shape, TypeOK, Placed, PlacedAt
    <2>2. CASE \/ TurnedAway(r) \/ Connect(r) \/ Accepted(r) \/ Spawned(r) \/ SpawnFails(r)
               \/ Console(r) \/ HandoverFails(r) \/ Greeted(r) \/ GreetFails(r)
      BY <2>2 DEF TurnedAway, Connect, Accepted, Spawned, SpawnFails, Console,
                  HandoverFails, Greeted, GreetFails
    <2>3. CASE ConsoleFails(r) \/ Leave(r)
      BY <1>1, <2>3 DEF ConsoleFails, Leave, Shape, TypeOK
    <2> QED
      BY <1>1, <2>1, <2>2, <2>3 DEF HandlerStep
  <1>2. ASSUME NEW r \in Sessions,
               Watchdog(r) \/ Ended(r) \/ CloseStep(r) \/ SandboxStep(r) \/ StopNext(r)
        PROVE  Unopened(s)'
    BY <1>2 DEF Watchdog, Ended, CloseStep, Told, Kill, Finish, SandboxStep, ConsoleOpens,
                LaunchFails, ShellExits, StopNext, Shape, TypeOK
  <1>3. CASE Shutdown \/ Stopped \/ UNCHANGED vars
    BY <1>3 DEF Shutdown, Stopped, vars
  <1> QED
    BY <1>1, <1>2, <1>3 DEF Next, Finished

LEMMA CountsStep ==
    ASSUME Shape, CountsExact, [Next]_vars
    PROVE  CountsExact'
  <1> SUFFICES ASSUME NEW u \in Identities, AllOpened(u)'
               PROVE  byIdentity'[u] = Cardinality(SessionsOf(u)')
    BY DEF CountsExact, AllOpened
  <1>0. AllOpened(u)
    BY UnopenedStays DEF AllOpened
  <1>1. /\ byIdentity[u] = Cardinality(SessionsOf(u)) /\ byIdentity[u] \in Nat
        /\ TypeOK /\ byIdentity \in [Identities -> Nat]
    BY <1>0 DEF CountsExact, AllOpened, Shape, TypeOK
  <1>2. ASSUME NEW s \in Sessions, s \notin sessions, Accepted(s)
        PROVE  byIdentity'[u] = Cardinality(SessionsOf(u)')
    <2>1. Register(s)
      BY <1>2 DEF Accepted
    <2>2. byIdentity'[u] = byIdentity[u] + (IF Owner[s] = u THEN 1 ELSE 0)
      BY <1>1, <2>1 DEF Register
    <2> QED
      BY <1>1, <1>2, <2>1, <2>2, RegisterOne
  <1>3. ASSUME NEW s \in sessions, Unregister(s, 1)
        PROVE  byIdentity'[u] = Cardinality(SessionsOf(u)')
    <2>1. Owner[s] = u => byIdentity[u] >= 1
      <3> SUFFICES ASSUME Owner[s] = u PROVE byIdentity[u] # 0
        BY <1>1
      <3>1. s \in SessionsOf(u)
        BY DEF SessionsOf
      <3> QED
        BY <1>1, <3>1, SessionsFinite, FS_EmptySet
    <2>2. byIdentity'[u] = byIdentity[u] - (IF Owner[s] = u THEN 1 ELSE 0)
      BY <1>1, <1>3, <2>1 DEF Unregister
    <2> QED
      BY <1>1, <1>3, <2>2, UnregisterOne
  <1>4. ASSUME NEW s \in sessions, Unregister(s, 2), Unopened(s)
        PROVE  byIdentity'[u] = Cardinality(SessionsOf(u)')
    <2>1. Owner[s] # u /\ s \in Sessions
      BY <1>0, <1>1, <1>4 DEF AllOpened, TypeOK
    <2>2. byIdentity'[u] = byIdentity[u]
      BY <1>1, <1>4, <2>1 DEF Unregister
    <2> QED
      BY <1>1, <1>4, <2>1, <2>2, UnregisterOne
  <1>5. CASE UNCHANGED manager
    BY <1>1, <1>5 DEF manager, SessionsOf
  <1> QED
    BY <1>2, <1>3, <1>4, <1>5, ManagerSteps

(* The sessions by which a cap may be exceeded.                             *)
Overtaken == {s \in sessions : overtaken[s] # "no"}
OvertakenOf(u) == {s \in SessionsOf(u) : overtaken[s] = "own"}

LEMMA OvertakenFinite ==
    ASSUME TypeOK
    PROVE  /\ IsFiniteSet(Overtaken) /\ Cardinality(Overtaken) \in Nat
           /\ \A u \in Identities :
                IsFiniteSet(OvertakenOf(u)) /\ Cardinality(OvertakenOf(u)) \in Nat
  <1>1. Overtaken \subseteq sessions /\ \A u \in Identities : OvertakenOf(u) \subseteq SessionsOf(u)
    BY DEF Overtaken, OvertakenOf
  <1> QED
    BY <1>1, SessionsFinite, FS_Subset, FS_CardinalityType

LEMMA AddIf ==
    ASSUME NEW S, IsFiniteSet(S), NEW x, x \notin S, NEW T, NEW c \in BOOLEAN,
           T = IF c THEN S \cup {x} ELSE S
    PROVE  Cardinality(T) = Cardinality(S) + (IF c THEN 1 ELSE 0)
  <1>1. CASE c
    BY <1>1, FS_AddElement
  <1>2. CASE ~c
    BY <1>2, FS_CardinalityType
  <1> QED
    BY <1>1, <1>2

LEMMA RemoveIf ==
    ASSUME NEW S, IsFiniteSet(S), NEW x, NEW T, T = S \ {x}
    PROVE  Cardinality(T) = Cardinality(S) - (IF x \in S THEN 1 ELSE 0)
  <1>1. CASE x \in S
    <2>1. Cardinality(S \ {x}) = Cardinality(S) - 1
      BY <1>1, FS_RemoveElement
    <2> QED
      BY <1>1, <2>1
  <1>2. CASE x \notin S
    <2>1. T = S
      BY <1>2
    <2>2. Cardinality(S) = Cardinality(S) - 0
      BY FS_CardinalityType
    <2> QED
      BY <1>2, <2>1, <2>2
  <1> QED
    BY <1>1, <1>2

(* A session that registers takes its mark along; no other registered one   *)
(* is marked, as none stands at accept().                                   *)
LEMMA OvertakenGrow ==
    ASSUME Shape, NEW s \in Sessions, s \notin sessions, Accepted(s)
    PROVE  /\ Cardinality(Overtaken') =
                Cardinality(Overtaken) + (IF overtaken[s] # "no" THEN 1 ELSE 0)
           /\ \A u \in Identities :
                Cardinality(OvertakenOf(u)') = Cardinality(OvertakenOf(u))
                    + (IF Owner[s] = u /\ overtaken[s] = "own" THEN 1 ELSE 0)
  <1>1. sessions' = sessions \cup {s} /\ TypeOK
    BY DEF Accepted, Register, Shape
  <1>2. \A r \in sessions \cup {s} : overtaken'[r] = overtaken[r]
    BY DEF Accepted, Register, Overtakes, Shape, TypeOK, Placed, PlacedAt
  <1>3. Overtaken' = IF overtaken[s] # "no" THEN Overtaken \cup {s} ELSE Overtaken
    BY <1>1, <1>2 DEF Overtaken
  <1>4. ASSUME NEW u \in Identities
        PROVE  OvertakenOf(u)' = IF Owner[s] = u /\ overtaken[s] = "own"
                                 THEN OvertakenOf(u) \cup {s} ELSE OvertakenOf(u)
    BY <1>1, <1>2 DEF OvertakenOf, SessionsOf
  <1>5. s \notin Overtaken /\ \A u \in Identities : s \notin OvertakenOf(u)
    BY DEF Overtaken, OvertakenOf, SessionsOf
  <1>6. Cardinality(Overtaken') =
            Cardinality(Overtaken) + (IF overtaken[s] # "no" THEN 1 ELSE 0)
    BY <1>1, <1>3, <1>5, OvertakenFinite, AddIf
  <1>7. ASSUME NEW u \in Identities
        PROVE  Cardinality(OvertakenOf(u)') = Cardinality(OvertakenOf(u))
                    + (IF Owner[s] = u /\ overtaken[s] = "own" THEN 1 ELSE 0)
    BY <1>1, <1>4, <1>5, OvertakenFinite, AddIf
  <1> QED
    BY <1>6, <1>7

LEMMA OvertakenShrink ==
    ASSUME TypeOK, NEW s \in sessions, NEW n \in {1, 2}, Unregister(s, n)
    PROVE  /\ Cardinality(Overtaken') =
                Cardinality(Overtaken) - (IF s \in Overtaken THEN 1 ELSE 0)
           /\ \A u \in Identities :
                Cardinality(OvertakenOf(u)') =
                    Cardinality(OvertakenOf(u)) - (IF s \in OvertakenOf(u) THEN 1 ELSE 0)
  <1>1. sessions' = sessions \ {s} /\ \A r \in sessions \ {s} : overtaken'[r] = overtaken[r]
    BY DEF Unregister, TypeOK
  <1>2. Overtaken' = Overtaken \ {s}
    BY <1>1 DEF Overtaken
  <1>3. \A u \in Identities : OvertakenOf(u)' = OvertakenOf(u) \ {s}
    BY <1>1 DEF OvertakenOf, SessionsOf
  <1> QED
    BY <1>2, <1>3, OvertakenFinite, RemoveIf

(* What rejection() found still holds of whoever stands at accept(), but    *)
(* for those who registered meanwhile.                                      *)
AdmittedAt(s) ==
    at[s] = "accepting" =>
        /\ overtaken[s] = "no" => Cardinality(sessions) < MaxTotal
        /\ overtaken[s] # "own" /\ Owner[s] \notin Admins => byIdentity[Owner[s]] < PerUser

Admitted == \A s \in Sessions : AdmittedAt(s)

LEMMA AdmittedStep ==
    ASSUME Shape, Admitted, [Next]_vars
    PROVE  Admitted'
  <1> SUFFICES ASSUME NEW r \in Sessions, at'[r] = "accepting" PROVE AdmittedAt(r)'
    BY DEF Admitted, AdmittedAt
  <1>1. /\ TypeOK /\ AdmittedAt(r) /\ Cardinality(sessions) \in Nat
        /\ Owner[r] \in Identities /\ byIdentity \in [Identities -> Nat]
    BY SessionsFinite, SessionsAssumption DEF Shape, TypeOK, Admitted
  <1>2. ASSUME NEW s \in Sessions, s \notin sessions, Accepted(s)
        PROVE  AdmittedAt(r)'
    <2>1. r # s /\ at[r] = "accepting"
      BY <1>1, <1>2 DEF Accepted, Goto, TypeOK
    <2>2. /\ overtaken'[r] # "no"
          /\ overtaken'[r] # "own" => overtaken[r] # "own" /\ Owner[r] # Owner[s]
      BY <1>1, <1>2, <2>1 DEF Accepted, Register, Overtakes, TypeOK
    <2>3. Owner[r] # Owner[s] => byIdentity'[Owner[r]] = byIdentity[Owner[r]]
      BY <1>1, <1>2 DEF Accepted, Register
    <2> QED
      BY <1>1, <2>1, <2>2, <2>3 DEF AdmittedAt
  <1>3. ASSUME NEW s \in sessions, NEW n \in {1, 2}, Unregister(s, n), at[r] = "accepting"
        PROVE  AdmittedAt(r)'
    <2>1. r # s
      BY <1>3 DEF Shape, Placed, PlacedAt
    <2>2. overtaken'[r] = overtaken[r] /\ byIdentity'[Owner[r]] <= byIdentity[Owner[r]]
      BY <1>1, <1>3, <2>1 DEF Unregister, TypeOK
    <2>3. byIdentity'[Owner[r]] \in Nat
      BY <1>1, <1>3 DEF Unregister
    <2>4. Cardinality(sessions') = Cardinality(sessions) - 1
      BY <1>1, <1>3, UnregisterOne
    <2> QED
      BY <1>1, <1>3, <2>2, <2>3, <2>4, CapsAssumption DEF AdmittedAt
  <1>4. CASE UNCHANGED manager /\ (at[r] = "accepting" \/ ~Rejected(r))
    BY <1>1, <1>4, CapsAssumption DEF manager, AdmittedAt, Rejected
  <1> QED
    BY <1>2, <1>3, <1>4, ManagerSteps

LEMMA TotalStep ==
    ASSUME Shape, Admitted, TotalBounded, [Next]_vars
    PROVE  TotalBounded'
  <1> USE DEF TotalBounded
  <1>1. /\ TypeOK /\ Cardinality(sessions) \in Nat /\ Cardinality(Overtaken) \in Nat
        /\ Cardinality(sessions) <= MaxTotal + Cardinality(Overtaken)
    BY SessionsFinite, OvertakenFinite DEF Shape, Overtaken
  <1> SUFFICES Cardinality(sessions') <= MaxTotal + Cardinality(Overtaken')
    BY DEF Overtaken
  <1>2. ASSUME NEW s \in Sessions, s \notin sessions, Accepted(s)
        PROVE  Cardinality(sessions') <= MaxTotal + Cardinality(Overtaken')
    <2>1. Cardinality(sessions') = Cardinality(sessions) + 1
      BY <1>1, <1>2, RegisterOne DEF Accepted
    <2>2. overtaken[s] = "no" => Cardinality(sessions) < MaxTotal
      BY <1>2 DEF Admitted, AdmittedAt, Accepted
    <2> QED
      BY <1>1, <1>2, <2>1, <2>2, OvertakenGrow, CapsAssumption
  <1>3. ASSUME NEW s \in sessions, NEW n \in {1, 2}, Unregister(s, n)
        PROVE  Cardinality(sessions') <= MaxTotal + Cardinality(Overtaken')
    BY <1>1, <1>3, UnregisterOne, OvertakenShrink, CapsAssumption
  <1>4. CASE UNCHANGED manager
    BY <1>1, <1>4 DEF manager, Overtaken
  <1> QED
    BY <1>2, <1>3, <1>4, ManagerSteps

LEMMA PerUserStep ==
    ASSUME Shape, Admitted, CountsExact, PerUserBounded, [Next]_vars
    PROVE  PerUserBounded'
  <1> SUFFICES ASSUME NEW u \in Identities \ Admins, AllOpened(u)'
               PROVE  Cardinality(SessionsOf(u)') <= PerUser + Cardinality(OvertakenOf(u)')
    BY DEF PerUserBounded, AllOpened, OvertakenOf
  <1>0. AllOpened(u)
    BY UnopenedStays DEF AllOpened
  <1>1. /\ TypeOK /\ Cardinality(SessionsOf(u)) \in Nat /\ Cardinality(OvertakenOf(u)) \in Nat
        /\ Cardinality(SessionsOf(u)) <= PerUser + Cardinality(OvertakenOf(u))
        /\ byIdentity[u] = Cardinality(SessionsOf(u))
    BY <1>0, SessionsFinite, OvertakenFinite
       DEF Shape, PerUserBounded, CountsExact, AllOpened, OvertakenOf
  <1>2. ASSUME NEW s \in Sessions, s \notin sessions, Accepted(s)
        PROVE  Cardinality(SessionsOf(u)') <= PerUser + Cardinality(OvertakenOf(u)')
    <2>1. Cardinality(SessionsOf(u)') =
            Cardinality(SessionsOf(u)) + (IF Owner[s] = u THEN 1 ELSE 0)
      BY <1>1, <1>2, RegisterOne DEF Accepted
    <2>2. Owner[s] = u /\ overtaken[s] # "own" => byIdentity[u] < PerUser
      BY <1>2 DEF Admitted, AdmittedAt, Accepted
    <2> QED
      BY <1>1, <1>2, <2>1, <2>2, OvertakenGrow, CapsAssumption
  <1>3. ASSUME NEW s \in sessions, NEW n \in {1, 2}, Unregister(s, n)
        PROVE  Cardinality(SessionsOf(u)') <= PerUser + Cardinality(OvertakenOf(u)')
    <2>1. s \in OvertakenOf(u) => Owner[s] = u
      BY DEF OvertakenOf, SessionsOf
    <2> QED
      BY <1>1, <1>3, <2>1, UnregisterOne, OvertakenShrink, CapsAssumption
  <1>4. CASE UNCHANGED manager
    <2>1. SessionsOf(u)' = SessionsOf(u) /\ OvertakenOf(u)' = OvertakenOf(u)
      BY <1>4 DEF manager, SessionsOf, OvertakenOf
    <2> QED
      BY <1>1, <2>1
  <1> QED
    BY <1>2, <1>3, <1>4, ManagerSteps

LEMMA CountsInit == Init => CountsExact /\ Admitted /\ TotalBounded /\ PerUserBounded
  <1> SUFFICES ASSUME Init PROVE CountsExact /\ Admitted /\ TotalBounded /\ PerUserBounded
    OBVIOUS
  <1>1. /\ sessions = {} /\ byIdentity = [u \in Identities |-> 0]
        /\ \A s \in Sessions : at[s] = "new"
    BY DEF Init
  <1>2. /\ {s \in sessions : overtaken[s] # "no"} = {}
        /\ \A u \in Identities :
             SessionsOf(u) = {} /\ {s \in SessionsOf(u) : overtaken[s] = "own"} = {}
    BY <1>1 DEF SessionsOf
  <1> QED
    BY <1>1, <1>2, FS_EmptySet, CapsAssumption
       DEF CountsExact, Admitted, AdmittedAt, TotalBounded, PerUserBounded

-----------------------------------------------------------------------------
(* What follows, for every finite set of connections and all caps.          *)

(* Shape is an invariant of the sessions.                                   *)
THEOREM Invariance == Spec => []Shape
  BY ShapeInit, ShapeStep, PTL DEF Spec

(* Types; in particular, a count never becomes negative.                    *)
THEOREM TypeCorrect == Spec => []TypeOK
  <1>1. Shape => TypeOK
    BY DEF Shape
  <1> QED
    BY <1>1, Invariance, PTL

(* Unless start() abandoned it, every sandbox alive belongs to a registered *)
(* session, whoever closes it and whenever.                                 *)
THEOREM LiveAreTracked == Spec => []LiveTracked
  <1>1. Shape => LiveTracked
    BY DEF Shape, Placed, PlacedAt, LiveTracked
  <1> QED
    BY <1>1, Invariance, PTL

(* When shutdown() returns, a shell that is alive is being closed, or was   *)
(* abandoned by start().                                                    *)
THEOREM ShutdownReaches == Spec => []ShutdownReachesAll
  <1>1. Shape => ShutdownReachesAll
    BY DEF Shape, TypeOK, Placed, PlacedAt, Drained, ShutdownReachesAll, Closed
  <1> QED
    BY <1>1, Invariance, PTL

(* What rejection() found keeps its worth until register(), but for those   *)
(* who are overtaken.                                                       *)
LEMMA AdmittedHolds == Spec => []Admitted
  <1>1. Shape /\ Admitted /\ [Next]_vars => Admitted'
    BY AdmittedStep
  <1> QED
    BY <1>1, CountsInit, Invariance, PTL DEF Spec

(* The total cap is exceeded by no more than the sessions that were         *)
(* overtaken between the check and register().                              *)
THEOREM TotalCapHolds == Spec => []TotalBounded
  <1>1. Shape /\ Admitted /\ TotalBounded /\ [Next]_vars => TotalBounded'
    BY TotalStep
  <1> QED
    BY <1>1, CountsInit, AdmittedHolds, Invariance, PTL DEF Spec

(* The count of an identity is exact while its consoles open: unregister()  *)
(* is called once per session, on whichever path it ends.                   *)
THEOREM CountsAreExact == Spec => []CountsExact
  <1>1. Shape /\ CountsExact /\ [Next]_vars => CountsExact'
    BY CountsStep
  <1> QED
    BY <1>1, CountsInit, Invariance, PTL DEF Spec

(* And then the per-user cap is exceeded by no more than the sessions that  *)
(* one of the same identity overtook.                                       *)
THEOREM PerUserCapHolds == Spec => []PerUserBounded
  <1>1. Shape /\ Admitted /\ CountsExact /\ PerUserBounded /\ [Next]_vars => PerUserBounded'
    BY PerUserStep
  <1> QED
    BY <1>1, CountsInit, CountsAreExact, AdmittedHolds, Invariance, PTL DEF Spec
=============================================================================
