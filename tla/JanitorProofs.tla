---------------------------- MODULE JanitorProofs ----------------------------
(***************************************************************************)
(* What sweeping by age leaves alone, and what looking before removing      *)
(* finds, for any number of directories, command lines and sweeps at a      *)
(* time, and any age limit above the longest launch.                        *)
(***************************************************************************)
EXTENDS Janitor, TLAPS

(* What is known of a directory that nobody has made yet. *)
Fresh(r) ==
    owner[r] \in {"new", "sweeping"} =>
        ~dir[r] /\ sandbox[r] = "none" /\ age[r] = 0 /\ elapsed[r] = 0

(* The mtime of an execution's directory is as young as its launch. *)
Young(r) == Bounded(r) /\ dir[r] => age[r] <= elapsed[r]

(* Who serves and who sweeps. *)
Serving(r) ==
    /\ owner[r] = "server" => server = "up"
    /\ mark[Server][r] # "none" => server # "down"

(* Whoever is at work on a directory, or will be, made it for something. *)
Purposed(r) == Owned(r) \/ owner[r] = "sweeping" => kind[r] # "none"

(* What a periodic sweep has listed was somebody's, and what it has judged  *)
(* was no execution's.                                                      *)
Judged(r) ==
    server = "up" /\ mark[Server][r] # "none" =>
        /\ owner[r] \notin {"new", "sweeping"}
        /\ mark[Server][r] # "listed" => ~Bounded(r)

(* Where a sandbox keeps its state while there is a directory. *)
Housed(r) == sandbox[r] # "none" /\ dir[r] => place[r] # "none"

(* Who lives on in a directory that has been looked into. *)
Overlooked(r) ==
    \A p \in Processes :
        mark[p][r] = "looked" /\ Alive(r) /\ dir[r] => place[r] \in {"retry", "state"}

Own(r) ==
    /\ Fresh(r) /\ Young(r) /\ Serving(r) /\ Purposed(r)
    /\ Judged(r) /\ Housed(r) /\ Overlooked(r)

IInv == TypeOK /\ \A r \in Runs : Own(r)

-----------------------------------------------------------------------------

LEMMA InvInit == Init => IInv
  <1> SUFFICES ASSUME Init PROVE IInv
    OBVIOUS
  <1>1. TypeOK
    <2>1. 0 \in 0..MaxAge /\ 0 \in 0..MaxPhase /\ 0 \in 0..MaxLaunches
      BY AgeAssumption, LaunchesAssumption
    <2>2. /\ server \in {"down", "starting", "up"} /\ dir \in [Runs -> BOOLEAN]
          /\ owner \in [Runs -> {"new", "server", "sweeping", "cli", "dead", "done"}]
          /\ kind \in [Runs -> Kinds \cup {"none"}]
          /\ place \in [Runs -> Places \cup {"none"}]
          /\ sandbox \in [Runs -> {"none", "starting", "alive"}]
      BY DEF Init
    <2>3. /\ age \in [Runs -> 0..MaxAge] /\ elapsed \in [Runs -> 0..MaxPhase]
          /\ launches \in [Runs -> 0..MaxLaunches]
      BY <2>1 DEF Init
    <2>4. mark \in [Processes -> [Runs -> Marks]]
      BY DEF Init, NoMarks, Marks
    <2> QED
      BY <2>2, <2>3, <2>4 DEF TypeOK
  <1>2. Server \in Processes
    BY DEF Processes
  <1>3. \A r \in Runs : Own(r)
    BY <1>2 DEF Init, NoMarks, Own, Fresh, Young, Serving, Purposed, Judged, Housed, Overlooked,
            Bounded, Owned, Alive
  <1> QED
    BY <1>1, <1>3 DEF IInv

-----------------------------------------------------------------------------
(* Types are kept                                                           *)

Owners == {"new", "server", "sweeping", "cli", "dead", "done"}

LEMMA OwnerTypes ==
    ASSUME TypeOK, NEW r \in Runs, OwnerStep(r)
    PROVE  TypeOK'
  <1> USE AgeAssumption, LaunchesAssumption DEF TypeOK, Places, Kinds
  <1>1. ASSUME NEW k \in Kinds, Request(r, k) PROVE TypeOK'
    BY <1>1 DEF Request
  <1>2. ASSUME NEW p \in Places, Launch(r, p) PROVE TypeOK'
    BY <1>2 DEF Launch
  <1>3. CASE LaunchShell(r)
    BY <1>3 DEF LaunchShell
  <1>4. CASE Started(r)
    <2>1. mark' \in [Processes -> [Runs -> Marks]]
      BY <1>4 DEF Started, Marks
    <2> QED
      BY <1>4, <2>1 DEF Started
  <1>5. CASE LaunchEnds(r)
    BY <1>5 DEF LaunchEnds
  <1>6. CASE Finish(r)
    BY <1>6 DEF Finish, Released, Gone
  <1>7. CASE GiveUp(r)
    <2>1. /\ owner' \in [Runs -> Owners] /\ kind' \in [Runs -> Kinds \cup {"none"}]
          /\ elapsed' \in [Runs -> 0..MaxPhase] /\ launches' \in [Runs -> 0..MaxLaunches]
      BY <1>7 DEF GiveUp, Released, Owners
    <2>2. /\ dir' \in [Runs -> BOOLEAN] /\ age' \in [Runs -> 0..MaxAge]
          /\ place' \in [Runs -> Places \cup {"none"}]
      <3>1. CASE kind[r] = "terminal"
        <4>1. UNCHANGED <<dir, age, place>>
          BY <1>7, <3>1 DEF GiveUp
        <4> QED
          BY <4>1
      <3>2. CASE kind[r] # "terminal"
        <4>1. Gone(r)
          BY <1>7, <3>2 DEF GiveUp
        <4> QED
          BY <4>1 DEF Gone
      <3> QED
        BY <3>1, <3>2
    <2> QED
      BY <1>7, <2>1, <2>2 DEF GiveUp, Owners
  <1> QED
    BY <1>1, <1>2, <1>3, <1>4, <1>5, <1>6, <1>7 DEF OwnerStep

LEMMA SweepTypes ==
    ASSUME TypeOK,
           \/ \E r \in Runs : SweepStep(r) \/ Execute(r) \/ \E k \in Kinds : CommandLine(r, k)
           \/ Startup \/ Serve \/ PeriodicSweep
    PROVE  TypeOK'
  <1> USE AgeAssumption, LaunchesAssumption DEF TypeOK, Places, Kinds, Marks
  <1>1. ASSUME NEW r \in Runs, Judge(r) PROVE TypeOK'
    BY <1>1 DEF Judge
  <1>2. ASSUME NEW r \in Runs, NEW p \in Processes, Look(p, r) PROVE TypeOK'
    BY <1>2 DEF Look
  <1>3. ASSUME NEW r \in Runs, NEW p \in Processes, LookFails(p, r) PROVE TypeOK'
    BY <1>3 DEF LookFails, NoMarks
  <1>4. ASSUME NEW r \in Runs, NEW p \in Processes, Remove(p, r) PROVE TypeOK'
    BY <1>4 DEF Remove, Gone
  <1>5. ASSUME NEW r \in Runs, Execute(r) PROVE TypeOK'
    BY <1>5 DEF Execute
  <1>6. ASSUME NEW r \in Runs, NEW k \in Kinds, CommandLine(r, k) PROVE TypeOK'
    BY <1>6 DEF CommandLine, ListAll
  <1>7. CASE Startup
    BY <1>7 DEF Startup, ListAll
  <1>8. CASE Serve
    BY <1>8 DEF Serve
  <1>9. CASE PeriodicSweep
    BY <1>9 DEF PeriodicSweep
  <1> QED
    BY <1>1, <1>2, <1>3, <1>4, <1>5, <1>6, <1>7, <1>8, <1>9 DEF SweepStep

LEMMA TypesStep ==
    ASSUME TypeOK, Next
    PROVE  TypeOK'
  <1>1. ASSUME NEW p \in Processes, Crash(p) PROVE TypeOK'
    BY <1>1, AgeAssumption, LaunchesAssumption DEF Crash, TypeOK, NoMarks, Marks
  <1>2. CASE Tick
    BY <1>2, AgeAssumption DEF TypeOK, Tick, Younger, Bounded
  <1>3. CASE Idle
    BY <1>3 DEF Idle, vars, TypeOK
  <1> QED
    BY <1>1, <1>2, <1>3, OwnerTypes, SweepTypes DEF Next

-----------------------------------------------------------------------------
(* So is what is known of each directory                                    *)

LEMMA OwnerOwn ==
    ASSUME TypeOK, NEW q \in Runs, Own(q), NEW r \in Runs, OwnerStep(r)
    PROVE  Own(q)'
  <1> USE DEF Own, Fresh, Young, Serving, Purposed, Judged, Housed, Overlooked, Bounded, Owned,
              Alive, TypeOK
  <1>0. Server \in Processes
    BY DEF Processes
  <1>1. ASSUME NEW k \in Kinds, Request(r, k) PROVE Own(q)'
    <2>1. ~Sweeping(Server) /\ server = "up" /\ owner[r] = "new" /\ k # "none"
      BY <1>1 DEF Request, Kinds
    <2>2. /\ owner'[q] = IF q = r THEN "server" ELSE owner[q]
          /\ dir'[q] = IF q = r THEN TRUE ELSE dir[q]
          /\ kind'[q] = IF q = r THEN k ELSE kind[q]
          /\ UNCHANGED <<server, age, elapsed, place, sandbox, mark>>
      BY <1>1 DEF Request
    <2>3. CASE q = r
      BY <2>1, <2>2, <2>3 DEF Sweeping
    <2>4. CASE q # r
      BY <2>2, <2>4
    <2> QED
      BY <2>3, <2>4
  <1>2. ASSUME NEW p \in Places, Launch(r, p) PROVE Own(q)'
    BY <1>2, AgeAssumption DEF Launch, Runnable, Places
  <1>3. CASE LaunchShell(r)
    BY <1>3 DEF LaunchShell, Runnable
  <1>4. CASE Started(r)
    <2>1. /\ UNCHANGED <<server, owner, kind, dir, age, elapsed, place>>
          /\ sandbox'[q] = IF q = r THEN "alive" ELSE sandbox[q]
          /\ sandbox[r] = "starting"
      BY <1>4 DEF Started
    <2>2. \A p \in Processes :
            mark'[p][q] = IF q = r /\ mark[p][q] = "looked" THEN "late" ELSE mark[p][q]
      BY <1>4 DEF Started
    <2>3. Fresh(q)' /\ Young(q)' /\ Purposed(q)' /\ Housed(q)'
      BY <2>1
    <2>4. Serving(q)' /\ Judged(q)'
      BY <1>0, <2>1, <2>2
    <2>5. Overlooked(q)'
      BY <2>1, <2>2
    <2> QED
      BY <2>3, <2>4, <2>5
  <1>5. CASE LaunchEnds(r)
    BY <1>5 DEF LaunchEnds
  <1>6. CASE Finish(r)
    BY <1>6, AgeAssumption DEF Finish, Released, Gone, Runnable
  <1>7. CASE GiveUp(r)
    <2>1. /\ UNCHANGED <<server, sandbox, mark>> /\ Owned(r)
          /\ owner'[q] = IF q = r THEN "done" ELSE owner[q]
          /\ kind'[q] = IF q = r THEN "none" ELSE kind[q]
          /\ elapsed'[q] = IF q = r THEN 0 ELSE elapsed[q]
      BY <1>7 DEF GiveUp, Released, Runnable
    <2>2. \/ dir'[q] = dir[q] /\ age'[q] = age[q] /\ place'[q] = place[q]
          \/ q = r /\ ~dir'[q]
      BY <1>7 DEF GiveUp, Gone
    <2> QED
      BY <2>1, <2>2
  <1> QED
    BY <1>1, <1>2, <1>3, <1>4, <1>5, <1>6, <1>7 DEF OwnerStep

(* The steps of a sweep. *)
LEMMA SweepOwn ==
    ASSUME TypeOK, NEW q \in Runs, Own(q), NEW r \in Runs, SweepStep(r)
    PROVE  Own(q)'
  <1> USE DEF Own, Fresh, Young, Serving, Purposed, Judged, Housed, Overlooked, Bounded, Owned,
              Alive, TypeOK
  <1>0. Server \in Processes
    BY DEF Processes
  <1>1. CASE Judge(r)
    <2>1. /\ UNCHANGED <<server, owner, kind, dir, age, elapsed, place, sandbox>>
          /\ mark[Server][r] = "listed"
          /\ mark'[Server][q] = IF q = r THEN IF Old(r) THEN "due" ELSE "none"
                                         ELSE mark[Server][q]
      BY <1>0, <1>1 DEF Judge
    <2>2. \A p \in Processes : p # Server => mark'[p] = mark[p]
      BY <1>1 DEF Judge
    <2>3. Old(r) => ~Bounded(r) \/ r # q
      BY AgeAssumption DEF Old
    <2>4. Serving(q)' /\ Judged(q)'
      BY <2>1, <2>3
    <2>5. Overlooked(q)'
      BY <2>1, <2>2
    <2> QED
      BY <2>1, <2>4, <2>5
  <1>2. ASSUME NEW p \in Processes, Look(p, r) PROVE Own(q)'
    <2>1. /\ UNCHANGED <<server, owner, kind, dir, age, elapsed, place>>
          /\ sandbox'[q] = IF q = r /\ sandbox[q] = "alive" /\ Found(q) THEN "none" ELSE sandbox[q]
          /\ mark[p][r] = "due"
          /\ \A s \in Processes :
                mark'[s][q] = IF s = p /\ q = r THEN "looked" ELSE mark[s][q]
      BY <1>2 DEF Look, Next1
    <2>2. Overlooked(q)'
      <3>1. place[q] \in Places \cup {"none"}
        OBVIOUS
      <3> QED
        BY <2>1, <3>1 DEF Found, Places
    <2>3. Serving(q)' /\ Judged(q)'
      BY <1>0, <2>1
    <2> QED
      BY <2>1, <2>2, <2>3
  <1>3. ASSUME NEW p \in Processes, LookFails(p, r) PROVE Own(q)'
    <2>1. /\ UNCHANGED <<dir, age, elapsed, place, sandbox>>
          /\ \A s \in Processes : mark'[s][q] = IF s = p THEN "none" ELSE mark[s][q]
          /\ server' = IF p = Server /\ server = "starting" THEN "down" ELSE server
          /\ owner'[q] = IF q = p THEN "done" ELSE owner[q]
          /\ kind'[q] = IF q = p THEN "none" ELSE kind[q]
      BY <1>3 DEF LookFails, NoMarks
    <2>2. Server # q
      BY ProcessAssumption
    <2>3. Fresh(q)' /\ Young(q)' /\ Purposed(q)' /\ Housed(q)'
      BY <2>1
    <2>4. Serving(q)' /\ Judged(q)'
      BY <1>0, <2>1, <2>2
    <2>5. Overlooked(q)'
      BY <2>1
    <2> QED
      BY <2>3, <2>4, <2>5
  <1>4. ASSUME NEW p \in Processes, Remove(p, r) PROVE Own(q)'
    <2>1. /\ UNCHANGED <<server, owner, kind, elapsed, sandbox>>
          /\ \A s \in Processes : mark'[s][q] = IF s = p /\ q = r THEN "none" ELSE mark[s][q]
          /\ \/ q # r /\ dir'[q] = dir[q] /\ age'[q] = age[q] /\ place'[q] = place[q]
             \/ q = r /\ ~dir'[q] /\ age'[q] = 0
      BY <1>4 DEF Remove, Gone
    <2>2. Serving(q)' /\ Judged(q)'
      BY <1>0, <2>1
    <2> QED
      BY <2>1, <2>2
  <1> QED
    BY <1>1, <1>2, <1>3, <1>4 DEF SweepStep

(* Sweeps that begin and end. *)
LEMMA BeginOwn ==
    ASSUME TypeOK, NEW q \in Runs, Own(q),
           \/ \E r \in Runs : Execute(r) \/ \E k \in Kinds : CommandLine(r, k)
           \/ Startup \/ Serve \/ PeriodicSweep
    PROVE  Own(q)'
  <1> USE DEF Own, Fresh, Young, Serving, Purposed, Judged, Housed, Overlooked, Bounded, Owned,
              Alive, TypeOK
  <1>0. Server \in Processes
    BY DEF Processes
  <1>1. ASSUME NEW r \in Runs, Execute(r) PROVE Own(q)'
    BY <1>1, AgeAssumption DEF Execute
  <1>2. ASSUME NEW r \in Runs, NEW k \in Kinds, CommandLine(r, k) PROVE Own(q)'
    <2>1. /\ UNCHANGED <<server, dir, age, elapsed, place, sandbox>>
          /\ owner[r] = "new" /\ k # "none" /\ r \in Processes
          /\ owner'[q] = IF q = r THEN "sweeping" ELSE owner[q]
          /\ kind'[q] = IF q = r THEN k ELSE kind[q]
      BY <1>2 DEF CommandLine, Processes
    <2>2. /\ \A s \in Processes : s # r => mark'[s] = mark[s]
          /\ mark'[r][q] \in {"due", "none"}
      BY <1>2, <2>1 DEF CommandLine, ListAll
    <2>3. Server # r
      BY ProcessAssumption
    <2>4. Serving(q)' /\ Judged(q)'
      BY <1>0, <2>1, <2>2, <2>3
    <2>5. Overlooked(q)'
      BY <2>1, <2>2
    <2> QED
      BY <2>1, <2>4, <2>5
  <1>3. CASE Startup
    <2>1. /\ UNCHANGED <<owner, kind, dir, age, elapsed, place, sandbox>>
          /\ server = "down" /\ server' = "starting"
          /\ \A s \in Processes : s # Server => mark'[s] = mark[s]
          /\ mark'[Server][q] \in {"due", "none"}
      BY <1>0, <1>3 DEF Startup, ListAll
    <2> QED
      BY <2>1
  <1>4. CASE Serve
    BY <1>4 DEF Serve, Sweeping
  <1>5. CASE PeriodicSweep
    <2>1. /\ UNCHANGED <<server, owner, kind, dir, age, elapsed, place, sandbox>>
          /\ server = "up"
          /\ \A s \in Processes : s # Server => mark'[s] = mark[s]
          /\ mark'[Server][q] = IF q \in Stale THEN "listed" ELSE "none"
      BY <1>0, <1>5 DEF PeriodicSweep
    <2>2. q \in Stale => owner[q] \notin {"new", "sweeping"}
      BY DEF Stale, Old
    <2> QED
      BY <2>1, <2>2
  <1> QED
    BY <1>1, <1>2, <1>3, <1>4, <1>5

LEMMA OwnStep ==
    ASSUME TypeOK, NEW q \in Runs, Own(q), Next
    PROVE  Own(q)'
  <1> USE DEF Own, Fresh, Young, Serving, Purposed, Judged, Housed, Overlooked, Bounded, Owned,
              Alive, TypeOK
  <1>0. Server \in Processes
    BY DEF Processes
  <1>1. ASSUME NEW p \in Processes, Crash(p) PROVE Own(q)'
    <2>1. /\ UNCHANGED <<dir, age, place, sandbox>>
          /\ server' = IF p = Server THEN "down" ELSE server
          /\ owner'[q] = IF WorksFor(p, q) THEN "dead" ELSE owner[q]
          /\ kind'[q] = IF WorksFor(p, q) THEN "none" ELSE kind[q]
          /\ elapsed'[q] = IF WorksFor(p, q) THEN 0 ELSE elapsed[q]
          /\ \A s \in Processes : mark'[s][q] = IF s = p THEN "none" ELSE mark[s][q]
      BY <1>1 DEF Crash, NoMarks
    <2>2. Serving(q)' /\ Judged(q)'
      BY <1>0, <2>1 DEF WorksFor
    <2>3. Overlooked(q)'
      BY <2>1
    <2> QED
      BY <2>1, <2>2, <2>3
  <1>2. CASE Tick
    <2>1. /\ UNCHANGED <<server, owner, kind, dir, place, sandbox, mark>>
          /\ age'[q] = IF Younger(q) THEN age[q] + 1 ELSE age[q]
          /\ elapsed'[q] = IF Bounded(q) THEN elapsed[q] + 1 ELSE elapsed[q]
          /\ age[q] \in 0..MaxAge /\ elapsed[q] \in 0..MaxPhase
      BY <1>2 DEF Tick
    <2>2. Young(q)'
      BY <2>1, AgeAssumption DEF Younger
    <2>3. Fresh(q)'
      BY <2>1 DEF Younger
    <2> QED
      BY <2>1, <2>2, <2>3
  <1>3. CASE Idle
    BY <1>3 DEF Idle, vars
  <1> QED
    BY <1>1, <1>2, <1>3, OwnerOwn, SweepOwn, BeginOwn DEF Next

LEMMA InvStep == IInv /\ [Next]_vars => IInv'
  <1> SUFFICES ASSUME IInv, [Next]_vars PROVE IInv'
    OBVIOUS
  <1>1. CASE Next
    BY <1>1, TypesStep, OwnStep DEF IInv
  <1>2. CASE UNCHANGED vars
    BY <1>2 DEF vars, IInv, TypeOK, Own, Fresh, Young, Serving, Purposed, Judged, Housed, Overlooked,
            Bounded, Owned, Alive
  <1> QED
    BY <1>1, <1>2

LEMMA InvHolds == Spec => []IInv
  BY InvInit, InvStep, PTL DEF Spec

(* Only rmtree() takes a directory off the list of a sweep. *)
LEMMA OnlyRemove ==
    ASSUME TypeOK, [Next]_vars, NEW p \in Processes, NEW r \in Runs, Removes(p, r)
    PROVE  mark[p][r] \in {"looked", "late"} /\ UNCHANGED <<server, owner, kind>>
  <1> USE DEF Removes, TypeOK
  <1>1. ASSUME NEW q \in Runs, OwnerStep(q) PROVE FALSE
    <2>1. CASE Started(q)
      BY <2>1 DEF Started
    <2>2. CASE ~Started(q)
      BY <1>1, <2>2 DEF OwnerStep, Request, Launch, LaunchShell, LaunchEnds, Finish, GiveUp
    <2> QED
      BY <2>1, <2>2
  <1>2. ASSUME NEW q \in Runs, NEW s \in Processes, Remove(s, q)
        PROVE  mark[p][r] \in {"looked", "late"} /\ UNCHANGED <<server, owner, kind>>
    <2>1. /\ mark[s][q] \in {"looked", "late"} /\ UNCHANGED <<server, owner, kind>>
          /\ mark'[p][r] = IF s = p /\ q = r THEN "none" ELSE mark[p][r]
      BY <1>2 DEF Remove
    <2> QED
      BY <2>1
  <1>3. ASSUME NEW q \in Runs, NEW s \in Processes,
               Judge(q) \/ Look(s, q) \/ LookFails(s, q)
        PROVE  FALSE
    BY <1>3 DEF Judge, Look, LookFails
  <1>4. ASSUME NEW q \in Runs, Execute(q) \/ \E k \in Kinds : CommandLine(q, k) PROVE FALSE
    BY <1>4 DEF Execute, CommandLine
  <1>5. ASSUME \/ Startup \/ Serve \/ PeriodicSweep \/ Tick \/ Idle \/ UNCHANGED vars
               \/ \E s \in Processes : Crash(s)
        PROVE  FALSE
    BY <1>5 DEF Startup, Serve, PeriodicSweep, Tick, Idle, vars, Crash
  <1> QED
    BY <1>1, <1>2, <1>3, <1>4, <1>5 DEF Next, SweepStep

-----------------------------------------------------------------------------

(* Every variable keeps its type: no age passes the limit of the janitor, no *)
(* execution its wall timeout (main.py:20, runner.py:213-224).              *)
THEOREM TypeCorrect == Spec => []TypeOK
  <1>1. IInv => TypeOK
    BY DEF IInv
  <1> QED
    BY <1>1, InvHolds, PTL

(* A sandbox that lives on when a sweep removes its directory had not        *)
(* started when the sweep looked into it, or its state is where no sweep     *)
(* looks (runner.py:430-434), however many sweeps and launches interleave.  *)
THEOREM LostOnlyElsewhere == Spec => NoneLost
  <1> DEFINE Kept(p, r) == Removes(p, r) /\ Alive(r) /\ Alive(r)' =>
                mark[p][r] = "late" \/ place[r] \in {"retry", "state"}
  <1>1. ASSUME IInv, [Next]_vars, NEW p \in Processes, NEW r \in Runs PROVE Kept(p, r)
    <2> SUFFICES ASSUME Removes(p, r), Alive(r), mark[p][r] # "late"
                 PROVE  place[r] \in {"retry", "state"}
      OBVIOUS
    <2>1. mark[p][r] = "looked"
      BY <1>1, OnlyRemove DEF IInv
    <2>2. dir[r]
      BY DEF Removes
    <2> QED
      BY <1>1, <2>1, <2>2 DEF IInv, Own, Overlooked
  <1>2. IInv /\ [Next]_vars => [\A p \in Processes, r \in Runs : Kept(p, r)]_vars
    BY <1>1
  <1> QED
    BY <1>2, InvHolds, PTL DEF Spec, NoneLost

(* "active runs ... are never touched" (main.py:27-28), for executions: a   *)
(* launch renews the mtime and ends before the age limit, so a stale        *)
(* directory belongs to no execution, and while the sweep is at it nobody   *)
(* can make it an execution's.                                              *)
THEOREM ExecutionsSpared == Spec => ActiveSpared
  <1> DEFINE Spared(r) == Owned(r) /\ Removes(Server, r) =>
                \/ kind[r] \in {"terminal", "stream", "long"}
                \/ server = "starting" /\ owner[r] = "cli"
  <1>1. ASSUME IInv, [Next]_vars, NEW r \in Runs PROVE Spared(r)
    <2> SUFFICES ASSUME Owned(r), Removes(Server, r) PROVE Spared(r)
      OBVIOUS
    <2>1. Own(r) /\ TypeOK /\ Server \in Processes
      BY <1>1 DEF IInv, Processes
    <2>2. mark[Server][r] \in {"looked", "late"}
      BY <1>1, <2>1, OnlyRemove
    <2>3. server \in {"starting", "up"}
      BY <2>1, <2>2 DEF Own, Serving, TypeOK
    <2>4. CASE server = "up"
      <3>1. kind[r] # "execution"
        BY <2>1, <2>2, <2>4 DEF Own, Judged, Bounded
      <3>2. kind[r] \in Kinds
        BY <2>1 DEF Own, Purposed, TypeOK
      <3> QED
        BY <3>1, <3>2 DEF Kinds
    <2>5. CASE server = "starting"
      BY <2>1, <2>5 DEF Own, Serving, Owned
    <2> QED
      BY <2>3, <2>4, <2>5
  <1>2. IInv /\ [Next]_vars => [\A r \in Runs : Spared(r)]_vars
    BY <1>1
  <1> QED
    BY <1>2, InvHolds, PTL DEF Spec, ActiveSpared
=============================================================================
