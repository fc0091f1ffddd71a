------------------------------- MODULE Janitor -------------------------------
(***************************************************************************)
(* sweep_orphans() of app/executor/runner.py against everything that keeps *)
(* a directory under RUNS_DIR: executions, streams and terminals of the    *)
(* server, and the command line (app/cli.py), which is another process on  *)
(* the same directory, as often as it is started.  The server may crash    *)
(* and is restarted; its sandboxes live in systemd scopes of their own and *)
(* survive it.                                                             *)
(*                                                                         *)
(* A sweep goes through the directories it has listed one by one, and      *)
(* looks into each before it removes it.  The server's sweep blocks its    *)
(* event loop, so that its own requests stand still meanwhile; sandboxes   *)
(* and the other processes do not.  The compile and the run directory are  *)
(* looked into at one moment: a directory has one sandbox at a time, so    *)
(* that of two moments only one can find it.                               *)
(*                                                                         *)
(* The periodic sweep asks for one thing, the age of a directory's mtime,  *)
(* which every entry made in it renews.  Ages are counted in ticks up to   *)
(* MaxAge, where they stay.  How the owner of a directory runs its         *)
(* sandboxes is the subject of Execution, Stream and Terminal; here it is  *)
(* one launch after another, each of at most MaxPhase ticks for what is    *)
(* held to the API's timeouts or the default ones.  A terminal lives       *)
(* longer than the age limit (1200 s to 300 s), a stream whose client does *)
(* not read may, and so may a command line with a --timeout of its own.    *)
(***************************************************************************)
EXTENDS Naturals

CONSTANTS
    Runs,        \* directories under RUNS_DIR, never used twice
    Typed,       \* those that a command line may be started for
    Server,      \* the server process, beside these command lines
    MaxAge,      \* JANITOR_MAX_AGE_S
    MaxPhase,    \* longest launch of an execution, with kill, delete and a sweep
    MaxLaunches  \* bound: launches of one execution, retries included

ASSUME ProcessAssumption == Server \notin Runs /\ Typed \subseteq Runs
ASSUME AgeAssumption == MaxAge \in Nat /\ MaxPhase \in Nat /\ MaxPhase < MaxAge
ASSUME LaunchesAssumption == MaxLaunches \in Nat

VARIABLES
    server,    \* is the server process down, in its first sweep, or up?
    owner,     \* who is at work on the directory: "dead" if that process crashed
    kind,      \* what it was made for, while it has an owner
    dir,       \* does it exist?
    age,       \* ticks since its mtime, at most MaxAge
    elapsed,   \* ticks since an execution made its directory or last launched
    launches,  \* launches so far
    place,     \* where the state of its last sandbox is kept, see Places
    sandbox,   \* its last sandbox: none alive, started, alive
    mark       \* how far the sweep of each process is with each directory

vars == <<server, owner, kind, dir, age, elapsed, launches, place, sandbox, mark>>

Processes == Typed \cup {Server}

(* "long" is a command line whose --timeout has no bound. *)
Kinds == {"execution", "stream", "terminal", "long"}

(* <dir>/compile/state, <dir>/run/state, the same of a retry                 *)
(* (compile-r1, run-r1, ...), a terminal's <dir>/state.                      *)
Places == {"compile", "run", "retry", "state"}

(* Listed, to be removed, looked into; and "late" is a history: looked into, *)
(* and a sandbox started in it since.                                        *)
Marks == {"none", "listed", "due", "looked", "late"}

Owned(r) == owner[r] \in {"server", "cli"}

Alive(r) == sandbox[r] = "alive"

Sweeping(p) == \E r \in Runs : mark[p][r] # "none"

TypeOK ==
    /\ server \in {"down", "starting", "up"}
    /\ owner \in [Runs -> {"new", "server", "sweeping", "cli", "dead", "done"}]
    /\ kind \in [Runs -> Kinds \cup {"none"}]
    /\ dir \in [Runs -> BOOLEAN]
    /\ age \in [Runs -> 0..MaxAge]
    /\ elapsed \in [Runs -> 0..MaxPhase]
    /\ launches \in [Runs -> 0..MaxLaunches]
    /\ place \in [Runs -> Places \cup {"none"}]
    /\ sandbox \in [Runs -> {"none", "starting", "alive"}]
    /\ mark \in [Processes -> [Runs -> Marks]]

NoMarks == [r \in Runs |-> "none"]

Init ==
    /\ server = "down"
    /\ owner = [r \in Runs |-> "new"]
    /\ kind = [r \in Runs |-> "none"]
    /\ dir = [r \in Runs |-> FALSE]
    /\ age = [r \in Runs |-> 0]
    /\ elapsed = [r \in Runs |-> 0]
    /\ launches = [r \in Runs |-> 0]
    /\ place = [r \in Runs |-> "none"]
    /\ sandbox = [r \in Runs |-> "none"]
    /\ mark = [p \in Processes |-> NoMarks]

-----------------------------------------------------------------------------
(* The owners of the directories                                            *)

(* A process at work on r takes a step: the server does so between sweeps.  *)
Runnable(r) == Owned(r) /\ (owner[r] = "server" => ~Sweeping(Server))

(* A directory of its own is made; nothing is launched yet. *)
Request(r, k) ==
    /\ server = "up" /\ ~Sweeping(Server)
    /\ owner[r] = "new" /\ k # "long"
    /\ owner' = [owner EXCEPT ![r] = "server"]
    /\ kind' = [kind EXCEPT ![r] = k]
    /\ dir' = [dir EXCEPT ![r] = TRUE]
    /\ UNCHANGED <<server, age, elapsed, launches, place, sandbox, mark>>

(* Mutated forms, here and below: stand-ins for a plausible slip in the      *)
(* definition that follows, to see that a property notices it.              *)
Launch_KeepsAge(r, p) ==
    /\ Runnable(r) /\ kind[r] # "terminal" /\ sandbox[r] = "none"
    /\ launches[r] < MaxLaunches
    /\ p \in {"compile", "run"} \/ (p = "retry" /\ launches[r] > 0)
    /\ launches' = [launches EXCEPT ![r] = @ + 1]
    /\ dir' = [dir EXCEPT ![r] = TRUE]
    /\ elapsed' = [elapsed EXCEPT ![r] = 0]
    /\ place' = [place EXCEPT ![r] = p]
    /\ sandbox' = [sandbox EXCEPT ![r] = "starting"]
    /\ UNCHANGED <<server, owner, kind, age, mark>>

(* A phase directory with bundle and state, which parents=True makes even   *)
(* if the run's directory has gone, and runsc is on its way.                *)
Launch(r, p) ==
    /\ Runnable(r) /\ kind[r] # "terminal" /\ sandbox[r] = "none"
    /\ launches[r] < MaxLaunches
    /\ p \in {"compile", "run"} \/ (p = "retry" /\ launches[r] > 0)
    /\ launches' = [launches EXCEPT ![r] = @ + 1]
    /\ dir' = [dir EXCEPT ![r] = TRUE]
    /\ age' = [age EXCEPT ![r] = 0]
    /\ elapsed' = [elapsed EXCEPT ![r] = 0]
    /\ place' = [place EXCEPT ![r] = p]
    /\ sandbox' = [sandbox EXCEPT ![r] = "starting"]
    /\ UNCHANGED <<server, owner, kind, mark>>

(* TerminalSession.start(): the state is in the directory itself. *)
LaunchShell(r) ==
    /\ Runnable(r) /\ kind[r] = "terminal" /\ place[r] = "none" /\ dir[r]
    /\ place' = [place EXCEPT ![r] = "state"]
    /\ sandbox' = [sandbox EXCEPT ![r] = "starting"]
    /\ UNCHANGED <<server, owner, kind, dir, age, elapsed, launches, mark>>

(* runsc has read its bundle and the sandbox lives. *)
Started(r) ==
    /\ sandbox[r] = "starting" /\ dir[r]
    /\ sandbox' = [sandbox EXCEPT ![r] = "alive"]
    /\ mark' = [p \in Processes |->
                    [mark[p] EXCEPT ![r] = IF @ = "looked" THEN "late" ELSE @]]
    /\ UNCHANGED <<server, owner, kind, dir, age, elapsed, launches, place>>

(* The launch fails, as it must without its bundle; or the sandbox ends by  *)
(* itself, or its owner ends it: whatever became of its state, proc.kill()  *)
(* does.                                                                    *)
LaunchEnds(r) ==
    /\ sandbox[r] # "none"
    /\ sandbox' = [sandbox EXCEPT ![r] = "none"]
    /\ UNCHANGED <<server, owner, kind, dir, age, elapsed, launches, place, mark>>

Released(r) ==
    /\ owner' = [owner EXCEPT ![r] = "done"]
    /\ kind' = [kind EXCEPT ![r] = "none"]
    /\ elapsed' = [elapsed EXCEPT ![r] = 0]
    /\ launches' = [launches EXCEPT ![r] = 0]

(* The directory goes, with all that is in it. *)
Gone(r) ==
    /\ dir' = [dir EXCEPT ![r] = FALSE]
    /\ age' = [age EXCEPT ![r] = 0]
    /\ place' = [place EXCEPT ![r] = "none"]

Finish(r) ==
    /\ Runnable(r) /\ sandbox[r] = "none"
    /\ Released(r) /\ Gone(r)
    /\ UNCHANGED <<server, sandbox, mark>>

(* The owner is cancelled while its sandbox runs (Execution!Cancel,         *)
(* Stream!Cut): the directory goes, with the state in it.  A terminal's     *)
(* start() that fails (Terminal!SpawnFails, HandoverFails) leaves the       *)
(* directory as well.                                                       *)
GiveUp(r) ==
    /\ Runnable(r)
    /\ Released(r)
    /\ IF kind[r] = "terminal"
       THEN UNCHANGED <<dir, age, place>>
       ELSE sandbox[r] # "none" /\ Gone(r)
    /\ UNCHANGED <<server, sandbox, mark>>

-----------------------------------------------------------------------------
(* sweep_orphans()                                                          *)

(* Everything that is there, for a sweep without an age. *)
ListAll(p) ==
    mark' = [mark EXCEPT ![p] = [r \in Runs |-> IF dir[r] THEN "due" ELSE "none"]]

Old(r) == dir[r] /\ age[r] >= MaxAge

(* The time is read once, before the loop: what is young now stays so.      *)
Stale_WithState == {r \in Runs : Old(r) /\ place[r] \in {"compile", "run"}}

Stale == {r \in Runs : Old(r)}

PeriodicSweep ==
    /\ server = "up" /\ ~Sweeping(Server)
    /\ Stale # {}
    /\ mark' = [mark EXCEPT ![Server] =
                    [r \in Runs |-> IF r \in Stale THEN "listed" ELSE "none"]]
    /\ UNCHANGED <<server, owner, kind, dir, age, elapsed, launches, place, sandbox>>

(* stat(): it may have gone, or be renewed by another process. *)
Judge(r) ==
    /\ mark[Server][r] = "listed"
    /\ \A q \in Runs : mark[Server][q] \in {"none", "listed"}
    /\ mark' = [mark EXCEPT ![Server][r] = IF Old(r) THEN "due" ELSE "none"]
    /\ UNCHANGED <<server, owner, kind, dir, age, elapsed, launches, place, sandbox>>

Found_RunOnly(r) == dir[r] /\ place[r] = "run"

(* The sandboxes a sweep knows where to look for. *)
Found(r) == dir[r] /\ place[r] \in {"compile", "run"}

Next1(p, r) == mark[p][r] = "due" /\ \A q \in Runs : mark[p][q] \notin {"looked", "late"}

(* _delete() of what is found. *)
Look(p, r) ==
    /\ Next1(p, r)
    /\ sandbox' = [sandbox EXCEPT ![r] = IF @ = "alive" /\ Found(r) THEN "none" ELSE @]
    /\ mark' = [mark EXCEPT ![p][r] = "looked"]
    /\ UNCHANGED <<server, owner, kind, dir, age, elapsed, launches, place>>

(* _delete() hangs and raises: what is listed after it is not swept.  In    *)
(* lifespan() the server does not start, the janitor's loop catches it, the *)
(* command line ends.  (A retried launch has the state of its first one.)   *)
LookFails(p, r) ==
    /\ Next1(p, r) /\ dir[r] /\ place[r] \in {"compile", "run", "retry"}
    /\ mark' = [mark EXCEPT ![p] = NoMarks]
    /\ server' = IF p = Server /\ server = "starting" THEN "down" ELSE server
    /\ owner' = [q \in Runs |-> IF q = p THEN "done" ELSE owner[q]]
    /\ kind' = [q \in Runs |-> IF q = p THEN "none" ELSE kind[q]]
    /\ UNCHANGED <<dir, age, elapsed, launches, place, sandbox>>

(* rmtree().  An entry made while it goes on would stay; that is the launch *)
(* that comes after it.                                                     *)
Remove(p, r) ==
    /\ mark[p][r] \in {"looked", "late"}
    /\ mark' = [mark EXCEPT ![p][r] = "none"]
    /\ Gone(r)
    /\ UNCHANGED <<server, owner, kind, elapsed, launches, sandbox>>

(* lifespan() sweeps before it serves. *)
Startup ==
    /\ server = "down"
    /\ server' = "starting"
    /\ ListAll(Server)
    /\ UNCHANGED <<owner, kind, dir, age, elapsed, launches, place, sandbox>>

Serve ==
    /\ server = "starting" /\ ~Sweeping(Server)
    /\ server' = "up"
    /\ UNCHANGED <<owner, kind, dir, age, elapsed, launches, place, sandbox, mark>>

(* The command line: a sweep of everything, then execute(). *)
CommandLine(r, k) ==
    /\ r \in Typed /\ owner[r] = "new" /\ k \in {"execution", "long"}
    /\ owner' = [owner EXCEPT ![r] = "sweeping"]
    /\ kind' = [kind EXCEPT ![r] = k]
    /\ ListAll(r)
    /\ UNCHANGED <<server, dir, age, elapsed, launches, place, sandbox>>

Execute(r) ==
    /\ owner[r] = "sweeping" /\ ~Sweeping(r)
    /\ owner' = [owner EXCEPT ![r] = "cli"]
    /\ dir' = [dir EXCEPT ![r] = TRUE]
    /\ UNCHANGED <<server, kind, age, elapsed, launches, place, sandbox, mark>>

-----------------------------------------------------------------------------
(* Crashes and time                                                         *)

WorksFor(p, r) == IF p = Server THEN owner[r] = "server"
                                ELSE p = r /\ owner[r] \in {"sweeping", "cli"}

Crash(p) ==
    /\ IF p = Server THEN server # "down" ELSE WorksFor(p, p)
    /\ server' = IF p = Server THEN "down" ELSE server
    /\ owner' = [r \in Runs |-> IF WorksFor(p, r) THEN "dead" ELSE owner[r]]
    /\ kind' = [r \in Runs |-> IF WorksFor(p, r) THEN "none" ELSE kind[r]]
    /\ elapsed' = [r \in Runs |-> IF WorksFor(p, r) THEN 0 ELSE elapsed[r]]
    /\ launches' = [r \in Runs |-> IF WorksFor(p, r) THEN 0 ELSE launches[r]]
    /\ mark' = [mark EXCEPT ![p] = NoMarks]
    /\ UNCHANGED <<dir, age, place, sandbox>>

(* The wall timeout ends each launch of an execution, and the next launch   *)
(* or the end of the execution follows: no tick goes by that.               *)
Bounded(r) == Owned(r) /\ kind[r] = "execution"

Younger(r) == dir[r] /\ age[r] < MaxAge

Tick ==
    /\ \A r \in Runs : Bounded(r) => elapsed[r] < MaxPhase
    /\ \E r \in Runs : Bounded(r) \/ Younger(r)
    /\ age' = [r \in Runs |-> IF Younger(r) THEN age[r] + 1 ELSE age[r]]
    /\ elapsed' = [r \in Runs |-> IF Bounded(r) THEN elapsed[r] + 1 ELSE elapsed[r]]
    /\ UNCHANGED <<server, owner, kind, dir, launches, place, sandbox, mark>>

-----------------------------------------------------------------------------
(* Every directory has been used. *)
Idle == (\A r \in Runs : owner[r] # "new") /\ UNCHANGED vars

OwnerStep(r) ==
    \/ \E k \in Kinds : Request(r, k)
    \/ \E p \in Places : Launch(r, p)
    \/ LaunchShell(r) \/ Started(r) \/ LaunchEnds(r) \/ Finish(r) \/ GiveUp(r)

SweepStep(r) ==
    \/ Judge(r)
    \/ \E p \in Processes : Look(p, r) \/ LookFails(p, r) \/ Remove(p, r)

Next ==
    \/ \E r \in Runs : OwnerStep(r) \/ SweepStep(r)
    \/ \E r \in Runs : Execute(r) \/ \E k \in Kinds : CommandLine(r, k)
    \/ Startup \/ Serve \/ PeriodicSweep
    \/ \E p \in Processes : Crash(p)
    \/ Tick
    \/ Idle

Spec == Init /\ [][Next]_vars

(* systemd restarts the server (Restart=on-failure), the janitor wakes      *)
(* every JANITOR_INTERVAL_S, the clock goes on, an execution is held to its *)
(* wall timeout.  Looking and removing happen if they can again and again:  *)
(* a _delete() does not hang every time, nor is the server killed each time *)
(* before its sweep gets that far.                                          *)
FairSpec ==
    /\ Spec
    /\ WF_vars(Startup \/ Serve \/ PeriodicSweep) /\ WF_vars(\E r \in Runs : Judge(r))
    /\ WF_vars(Tick)
    /\ \A r \in Runs :
        /\ SF_vars(Look(Server, r)) /\ SF_vars(Remove(Server, r))
        /\ WF_vars(Bounded(r) /\ (LaunchEnds(r) \/ Finish(r)))

-----------------------------------------------------------------------------
(* Properties                                                               *)

Removes(p, r) == dir[r] /\ ~dir'[r] /\ mark[p][r] # "none" /\ mark'[p][r] = "none"

(* "active runs ... are never touched" (runner.py:417-418, main.py:27-28):  *)
(* the janitor never removes the directory of an execution at work, the     *)
(* server's or a command line's, however long compiling, running and        *)
(* retrying take together and whatever another process does between its     *)
(* looking and removing.  Terminals, streams of a client who does not read  *)
(* and command lines with a --timeout are touched, and what the server's    *)
(* first sweep finds is taken from command lines at work.                   *)
ActiveSpared ==
    [][\A r \in Runs : Owned(r) /\ Removes(Server, r) =>
        \/ kind[r] \in {"terminal", "stream", "long"}
        \/ server = "starting" /\ owner[r] = "cli"]_vars

(* Nobody can find a sandbox without its directory.  A sweep that removes   *)
(* the directory of a sandbox that lives on is one that had looked into it  *)
(* before the sandbox started, or does not look where it is: a terminal's   *)
(* and a retried launch's (runner.py:430-434).                              *)
NoneLost ==
    [][\A p \in Processes, r \in Runs : Removes(p, r) /\ Alive(r) /\ Alive(r)' =>
        mark[p][r] = "late" \/ place[r] \in {"retry", "state"}]_vars

(* "A dir outliving max_age_s is an orphan from a crashed run" (runner.py:  *)
(* 418): whatever a crash of the server or of a command line leaves, at     *)
(* whichever of its steps, is removed in the end.                           *)
OrphansReclaimed == \A r \in Runs : owner[r] = "dead" /\ dir[r] ~> ~dir[r]
=============================================================================
