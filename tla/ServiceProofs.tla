---------------------------- MODULE ServiceProofs ----------------------------
(***************************************************************************)
(* What the routes keep, for any number of requests and workers: places,    *)
(* ids and saves.  The queue is known only by JobService.                   *)
(*                                                                         *)
(* Then the two things they ask about a caller before a request is taken:   *)
(* is his key in the file of keys (KeyFile), for any number of runs of      *)
(* make_key.py, and what is his score (Abuse), for any number of requests.  *)
(***************************************************************************)
EXTENDS Service, KeyFile, Abuse, FiniteSetTheorems, SequenceTheorems, TLAPS

(* The types of the queue's variables. *)
QueueTypes ==
    /\ backlog \in Seq(Reqs)
    /\ slot \in [Workers -> Reqs \cup {NoJob}]
    /\ settled \in SUBSET Reqs /\ aborted \in SUBSET Reqs
    /\ mode \in {"open", "draining", "expired"}

Types == TypeOK /\ QueueTypes

(* The queue has the job, and will execute it or give it up. *)
Carried(r) ==
    \/ \E i \in 1..Len(backlog) : backlog[i] = r
    \/ \E w \in Workers : slot[w] = r

(* A job is at one place of the queue, and in one hook, and a worker has    *)
(* one thing to do.                                                         *)
Once ==
    /\ \A i, j \in 1..Len(backlog) : backlog[i] = backlog[j] => i = j
    /\ \A v, w \in Workers : slot[v] = slot[w] /\ slot[v] # NoJob => v = w
    /\ \A i \in 1..Len(backlog), w \in Workers : backlog[i] # slot[w]
    /\ \A r \in aborted : ~Carried(r)
    /\ \A v, w \in Workers : hook[v] = hook[w] /\ hook[v] # NoJob => v = w
    /\ \A w \in Workers : hook[w] # NoJob => slot[w] = NoJob

(* Where a request has got to says where its job is.  A job of /execute is  *)
(* waited for until it is executed, unless its handler is cut, which none   *)
(* is while the server serves.                                              *)
StoodSync(r) ==
    /\ at[r] # "accepted"
    /\ Carried(r) => at[r] \in {"waiting", "cut"} /\ outcome[r] = "none"
    /\ at[r] = "cut" => life # "serving"

StoodAsync(r) ==
    /\ at[r] # "waiting"
    /\ at[r] = "accepted" <=> Carried(r) \/ r \in aborted
    /\ at[r] = "saving" <=> \E w \in Workers : hook[w] = r

Stood ==
    /\ \A r \in SyncReqs : StoodSync(r)
    /\ \A r \in Reqs \ SyncReqs : StoodAsync(r)
    /\ \A r \in Reqs : at[r] = "new" => outcome[r] = "none"

(* A save under way is awaited or was cut, and what is saved is there, or    *)
(* was.                                                                     *)
SavesKnown ==
    /\ \A r \in Reqs : at[r] \in {"new", "waiting", "accepted"} => thread[r] = "none"
    /\ \A r \in Reqs : thread[r] \in {"ready", "writing"} => at[r] \in {"saving", "cut"}
    /\ \A r \in Reqs : thread[r] = "saved" => r \in rows \cup deleted
    /\ IdHasRow

(* What each step of the shutdown leaves behind it. *)
Stopped ==
    /\ life \notin {"serving", "closing"} =>
         \A r \in SyncReqs : at[r] \notin {"waiting", "saving"}
    /\ conn = (life # "closed")
    /\ life = "closed" => \A w \in Workers : hook[w] = NoJob

(* Who has a place: a handler that waits, and a job of /jobs until its hook *)
(* is over.                                                                 *)
Holds(r) == at[r] \in {"waiting", "accepted"} \/ (r \notin SyncReqs /\ at[r] = "saving")

Holding == {r \in Reqs : Holds(r)}

Places == inflight = Cardinality(Holding) /\ inflight <= MaxInflight

IInv == Types /\ Once /\ Stood /\ SavesKnown /\ Stopped /\ Places

-----------------------------------------------------------------------------
(* Sequences and counts                                                     *)

(* Appending to, and taking from, the backlog. *)
LEMMA AppendFact ==
    ASSUME backlog \in Seq(Reqs), NEW r \in Reqs
    PROVE  /\ Append(backlog, r) \in Seq(Reqs)
           /\ Len(Append(backlog, r)) = Len(backlog) + 1
           /\ \A i \in 1..Len(backlog) : Append(backlog, r)[i] = backlog[i]
           /\ Append(backlog, r)[Len(backlog) + 1] = r
           /\ Len(backlog) \in Nat
  OBVIOUS

LEMMA TailFact ==
    ASSUME backlog \in Seq(Reqs), backlog # <<>>
    PROVE  /\ Tail(backlog) \in Seq(Reqs)
           /\ Len(Tail(backlog)) = Len(backlog) - 1
           /\ \A i \in 1..Len(Tail(backlog)) : Tail(backlog)[i] = backlog[i + 1]
           /\ Head(backlog) = backlog[1] /\ Head(backlog) \in Reqs
           /\ Len(backlog) \in Nat \ {0}
  OBVIOUS

(* A set of requests that gains or loses one. *)
LEMMA CountFact ==
    ASSUME NEW S \in SUBSET Reqs, NEW r \in Reqs
    PROVE  /\ IsFiniteSet(S) /\ Cardinality(S) \in Nat
           /\ r \notin S => Cardinality(S \cup {r}) = Cardinality(S) + 1
           /\ r \in S => Cardinality(S) > 0 /\ Cardinality(S \ {r}) = Cardinality(S) - 1
  <1>1. IsFiniteSet(S) /\ Cardinality(S) \in Nat
    BY ReqsAssumption, FS_Subset, FS_CardinalityType
  <1>2. r \notin S => Cardinality(S \cup {r}) = Cardinality(S) + 1
    BY <1>1, FS_AddElement
  <1>3. ASSUME r \in S
        PROVE  Cardinality(S) > 0 /\ Cardinality(S \ {r}) = Cardinality(S) - 1
    <2>1. Cardinality(S \ {r}) = Cardinality(S) - 1
      BY <1>1, <1>3, FS_RemoveElement
    <2>2. Cardinality(S \ {r}) \in Nat
      BY <1>1, FS_Subset, FS_CardinalityType
    <2> QED
      BY <1>1, <2>1, <2>2
  <1> QED
    BY <1>1, <1>2, <1>3

-----------------------------------------------------------------------------
(* What the steps of the queue do to the jobs it carries                     *)

LEMMA AcceptFact ==
    ASSUME Types, Once, NEW r \in Reqs, Queue!Accept(r), UNCHANGED hook,
           \A w \in Workers : hook[w] # r
    PROVE  /\ QueueTypes' /\ Once'
           /\ ~Carried(r) /\ r \notin aborted
           /\ \A q \in Reqs : Carried(q)' <=> Carried(q) \/ q = r
  <1> USE DEF Types, QueueTypes
  <1>1. /\ \A i \in 1..Len(backlog) : backlog[i] # r
        /\ \A w \in Workers : slot[w] # r
        /\ r \notin aborted
    BY DEF Queue!Accept, Queue!Known
  <1>2. backlog' = Append(backlog, r) /\ UNCHANGED <<slot, settled, aborted, mode>>
    BY DEF Queue!Accept
  <1>3. /\ backlog' \in Seq(Reqs) /\ Len(backlog) \in Nat
        /\ Len(backlog') = Len(backlog) + 1
        /\ \A i \in 1..Len(backlog) : backlog'[i] = backlog[i]
        /\ backlog'[Len(backlog) + 1] = r
    BY <1>2, AppendFact
  <1>4. QueueTypes'
    BY <1>2, <1>3
  <1>5. \A q \in Reqs : Carried(q)' <=> Carried(q) \/ q = r
    <2> TAKE q \in Reqs
    <2>1. (\E i \in 1..Len(backlog') : backlog'[i] = q)
            <=> (\E i \in 1..Len(backlog) : backlog[i] = q) \/ q = r
      BY <1>3
    <2> QED
      BY <1>2, <2>1 DEF Carried
  <1>6. /\ \A i, j \in 1..Len(backlog') : backlog'[i] = backlog'[j] => i = j
        /\ \A i \in 1..Len(backlog'), w \in Workers : backlog'[i] # slot'[w]
    BY <1>1, <1>2, <1>3 DEF Once
  <1>7. \A q \in aborted' : ~Carried(q)'
    BY <1>1, <1>2, <1>5 DEF Once
  <1> QED
    BY <1>1, <1>2, <1>4, <1>5, <1>6, <1>7 DEF Once, Carried

LEMMA BeginFact ==
    ASSUME Types, Once, NEW w \in Workers, Queue!Begin(w), hook[w] = NoJob, UNCHANGED hook
    PROVE  QueueTypes' /\ Once' /\ \A q \in Reqs : Carried(q)' <=> Carried(q)
  <1> USE DEF Types, QueueTypes
  <1>1. /\ slot[w] = NoJob /\ backlog # <<>>
        /\ slot' = [slot EXCEPT ![w] = Head(backlog)] /\ backlog' = Tail(backlog)
        /\ UNCHANGED <<settled, aborted, mode>>
    BY DEF Queue!Begin
  <1>2. /\ backlog' \in Seq(Reqs) /\ Len(backlog) \in Nat \ {0}
        /\ Len(backlog') = Len(backlog) - 1
        /\ \A i \in 1..Len(backlog') : backlog'[i] = backlog[i + 1]
        /\ Head(backlog) = backlog[1] /\ backlog[1] \in Reqs
    BY <1>1, TailFact
  <1>3. QueueTypes'
    BY <1>1, <1>2
  <1>4. /\ slot'[w] = backlog[1]
        /\ \A v \in Workers : v # w => slot'[v] = slot[v]
    BY <1>1, <1>2
  <1>5. \A q \in Reqs : Carried(q)' <=> Carried(q)
    <2> TAKE q \in Reqs
    <2>1. (\E i \in 1..Len(backlog) : backlog[i] = q)
            <=> (\E i \in 1..Len(backlog') : backlog'[i] = q) \/ q = backlog[1]
      <3>1. ASSUME NEW i \in 1..Len(backlog), i # 1
            PROVE  i - 1 \in 1..Len(backlog') /\ backlog'[i - 1] = backlog[i]
        <4>1. i - 1 \in 1..Len(backlog')
          BY <1>2, <3>1
        <4>2. backlog'[i - 1] = backlog[(i - 1) + 1]
          BY <1>2, <4>1
        <4> QED
          BY <4>1, <4>2
      <3>2. ASSUME NEW i \in 1..Len(backlog')
            PROVE  i + 1 \in 1..Len(backlog) /\ backlog'[i] = backlog[i + 1]
        BY <1>2
      <3>3. 1 \in 1..Len(backlog)
        BY <1>2
      <3> QED
        BY <3>1, <3>2, <3>3
    <2>2. (\E v \in Workers : slot'[v] = q) <=> (\E v \in Workers : slot[v] = q) \/ q = backlog[1]
      BY <1>1, <1>4, ReqsAssumption
    <2> QED
      BY <2>1, <2>2 DEF Carried
  <1>6. /\ \A i, j \in 1..Len(backlog') : backlog'[i] = backlog'[j] => i = j
        /\ \A i \in 1..Len(backlog'), v \in Workers : backlog'[i] # slot'[v]
    BY <1>1, <1>2, <1>4 DEF Once
  <1>7. \A v, u \in Workers : slot'[v] = slot'[u] /\ slot'[v] # NoJob => v = u
    BY <1>1, <1>2, <1>4 DEF Once
  <1>8. \A q \in aborted' : ~Carried(q)'
    BY <1>1, <1>5 DEF Once
  <1> QED
    BY <1>1, <1>3, <1>4, <1>5, <1>6, <1>7, <1>8 DEF Once

(* The end of an execution, whichever; what is said of hooks and of aborted  *)
(* jobs is left to where it ends.                                           *)
LEMMA FreedFact ==
    ASSUME Types, Once, NEW w \in Workers, slot[w] # NoJob,
           slot' = [slot EXCEPT ![w] = NoJob], UNCHANGED backlog
    PROVE  /\ slot[w] \in Reqs /\ Carried(slot[w]) /\ slot' \in [Workers -> Reqs \cup {NoJob}]
           /\ \A q \in Reqs : Carried(q)' <=> Carried(q) /\ q # slot[w]
           /\ \A i \in 1..Len(backlog'), v \in Workers : backlog'[i] # slot'[v]
           /\ \A v, u \in Workers : slot'[v] = slot'[u] /\ slot'[v] # NoJob => v = u
           /\ slot'[w] = NoJob /\ \A v \in Workers : v # w => slot'[v] = slot[v]
  <1> USE DEF Types, QueueTypes
  <1>1. slot[w] \in Reqs /\ Carried(slot[w]) /\ slot' \in [Workers -> Reqs \cup {NoJob}]
    BY DEF Carried
  <1>2. slot'[w] = NoJob /\ \A v \in Workers : v # w => slot'[v] = slot[v]
    OBVIOUS
  <1>3. \A i \in 1..Len(backlog) : backlog[i] \in Reqs
    OBVIOUS
  <1>4. \A q \in Reqs : Carried(q)' <=> Carried(q) /\ q # slot[w]
    BY <1>2, ReqsAssumption DEF Carried, Once
  <1> QED
    BY <1>1, <1>2, <1>3, <1>4, ReqsAssumption DEF Once

-----------------------------------------------------------------------------
(* The count of places                                                      *)

LEMMA PlaceStays ==
    ASSUME Places, \A q \in Reqs : Holds(q)' <=> Holds(q), UNCHANGED inflight
    PROVE  Places'
  BY DEF Places, Holding

LEMMA PlaceTaken ==
    ASSUME Types, Places, NEW r \in Reqs, ~Holds(r),
           \A q \in Reqs : Holds(q)' <=> Holds(q) \/ q = r,
           inflight < MaxInflight, inflight' = inflight + 1
    PROVE  Places'
  <1>1. Holding' = Holding \cup {r} /\ r \notin Holding /\ Holding \in SUBSET Reqs
    BY DEF Holding
  <1>2. Cardinality(Holding') = Cardinality(Holding) + 1
    BY <1>1, CountFact
  <1>3. inflight' <= MaxInflight
    BY CapsAssumption DEF Types, TypeOK
  <1> QED
    BY <1>2, <1>3 DEF Places

LEMMA PlaceBack ==
    ASSUME Types, Places, NEW r \in Reqs, Holds(r),
           \A q \in Reqs : Holds(q)' <=> Holds(q) /\ q # r,
           inflight' = Place
    PROVE  Places' /\ inflight' \in Nat
  <1>1. Holding' = Holding \ {r} /\ r \in Holding /\ Holding \in SUBSET Reqs
    BY DEF Holding
  <1>2. Cardinality(Holding) > 0 /\ Cardinality(Holding') = Cardinality(Holding) - 1
    BY <1>1, CountFact
  <1>3. inflight' = inflight - 1 /\ inflight' \in Nat /\ inflight' <= MaxInflight
    BY <1>2, CapsAssumption DEF Place, Places, Types, TypeOK
  <1> QED
    BY <1>2, <1>3 DEF Places

-----------------------------------------------------------------------------
(* The initial state and the steps                                          *)

LEMMA InvInit == Init => IInv
  <1> SUFFICES ASSUME Init PROVE IInv
    OBVIOUS
  <1>1. /\ backlog = <<>> /\ slot = [w \in Workers |-> NoJob] /\ settled = {} /\ aborted = {}
        /\ mode = "open" /\ hook = [w \in Workers |-> NoJob] /\ at = [r \in Reqs |-> "new"]
    BY DEF Init, Queue!Init
  <1>2. Types
    BY <1>1 DEF Init, Types, TypeOK, QueueTypes, Lives, Stages, Threads
  <1>3. \A r \in Reqs : ~Carried(r)
    BY <1>1, ReqsAssumption DEF Carried
  <1>4. Once
    BY <1>1 DEF Once
  <1>5. Stood
    BY <1>1, <1>3, ReqsAssumption DEF Init, Stood, StoodSync, StoodAsync
  <1>6. SavesKnown /\ Stopped
    BY <1>1, ReqsAssumption DEF Init, SavesKnown, Stopped, IdHasRow
  <1>7. Places
    <2>1. Holding = {}
      BY <1>1 DEF Holding, Holds
    <2> QED
      BY <2>1, FS_EmptySet, CapsAssumption DEF Init, Places
  <1> QED
    BY <1>2, <1>4, <1>5, <1>6, <1>7 DEF IInv

(* A request is taken, or refused. *)
LEMMA SubmitStep ==
    ASSUME IInv, NEW r \in Reqs, Submit(r)
    PROVE  IInv'
  <1> USE DEF IInv, Types, TypeOK
  <1>1. /\ life = "serving" /\ at[r] = "new" /\ inflight < MaxInflight /\ Queue!Accept(r)
        /\ inflight' = inflight + 1
        /\ at' = [at EXCEPT ![r] = IF r \in SyncReqs THEN "waiting" ELSE "accepted"]
        /\ UNCHANGED <<life, hook, outcome, thread, conn, rows, deleted, known>>
        /\ aborted' = aborted
    BY DEF Submit, Move, storeVars, Queue!Accept
  <1>2. \A w \in Workers : hook[w] # r
    BY <1>1, ReqsAssumption DEF Stood, StoodAsync
  <1>3. /\ QueueTypes' /\ Once' /\ ~Carried(r) /\ r \notin aborted
        /\ \A q \in Reqs : Carried(q)' <=> Carried(q) \/ q = r
    BY <1>1, <1>2, AcceptFact
  <1>4. Types'
    BY <1>1, <1>3 DEF Stages
  <1>5. Stood'
    <2>1. \A q \in SyncReqs : StoodSync(q)'
      BY <1>1, <1>3, ReqsAssumption DEF Stood, StoodSync
    <2>2. \A q \in Reqs \ SyncReqs : StoodAsync(q)'
      BY <1>1, <1>2, <1>3 DEF Stood, StoodAsync
    <2> QED
      BY <1>1, <2>1, <2>2 DEF Stood
  <1>6. SavesKnown' /\ Stopped'
    BY <1>1 DEF SavesKnown, Stopped, IdHasRow
  <1>7. Places'
    <2>1. ~Holds(r) /\ \A q \in Reqs : Holds(q)' <=> Holds(q) \/ q = r
      BY <1>1 DEF Holds
    <2> QED
      BY <1>1, <2>1, PlaceTaken
  <1> QED
    BY <1>3, <1>4, <1>5, <1>6, <1>7

LEMMA RefuseStep ==
    ASSUME IInv, NEW r \in Reqs, Refuse(r)
    PROVE  IInv'
  <1> USE DEF IInv, Types, TypeOK
  <1>1. /\ at[r] = "new" /\ at' = [at EXCEPT ![r] = "refused"]
        /\ UNCHANGED <<backlog, slot, settled, aborted, mode, life, hook, outcome, inflight,
                       thread, conn, rows, deleted, known>>
    BY DEF Refuse, Move, queueVars, storeVars
  <1>2. Types' /\ Once'
    BY <1>1 DEF Stages, QueueTypes, Once, Carried
  <1>3. Stood'
    BY <1>1, ReqsAssumption DEF Stood, StoodSync, StoodAsync, Carried
  <1>4. SavesKnown' /\ Stopped'
    BY <1>1 DEF SavesKnown, Stopped, IdHasRow
  <1>5. \A q \in Reqs : Holds(q)' <=> Holds(q)
    BY <1>1 DEF Holds
  <1> QED
    BY <1>1, <1>2, <1>3, <1>4, <1>5, PlaceStays

(* The handler of /execute: the result or the exception, the save, the cut. *)
LEMMA ResumeStep ==
    ASSUME IInv, NEW r \in Reqs, Resume(r)
    PROVE  IInv'
  <1> USE DEF IInv, Types, TypeOK
  <1>1. /\ at[r] = "waiting" /\ outcome[r] # "none" /\ inflight' = Place
        /\ \/ /\ at' = [at EXCEPT ![r] = "saving"]
              /\ thread' = [thread EXCEPT ![r] = "ready"]
           \/ at' = [at EXCEPT ![r] = "failed"] /\ UNCHANGED thread
        /\ UNCHANGED <<backlog, slot, settled, aborted, mode, life, hook, outcome, conn, rows,
                       deleted, known>>
    BY DEF Resume, Finalize, Move, queueVars, storeVars
  <1>2. r \in SyncReqs /\ ~Carried(r)
    BY <1>1 DEF Stood, StoodSync, StoodAsync
  <1>3. Places' /\ inflight' \in Nat
    <2>1. Holds(r) /\ \A q \in Reqs : Holds(q)' <=> Holds(q) /\ q # r
      BY <1>1, <1>2 DEF Holds
    <2> QED
      BY <1>1, <2>1, PlaceBack
  <1>4. Types' /\ Once'
    BY <1>1, <1>3 DEF Stages, Threads, QueueTypes, Once, Carried
  <1>5. Stood'
    BY <1>1, <1>2, ReqsAssumption DEF Stood, StoodSync, StoodAsync, Carried
  <1>6. SavesKnown'
    BY <1>1 DEF SavesKnown, IdHasRow
  <1>7. Stopped'
    BY <1>1, <1>2 DEF Stopped
  <1> QED
    BY <1>3, <1>4, <1>5, <1>6, <1>7

LEMMA AnswerStep ==
    ASSUME IInv, NEW r \in Reqs, Answer(r)
    PROVE  IInv'
  <1> USE DEF IInv, Types, TypeOK
  <1>1. /\ r \in SyncReqs /\ at[r] = "saving"
        /\ \/ /\ thread[r] = "saved" /\ at' = [at EXCEPT ![r] = "finished"]
              /\ known' = known \cup {r}
           \/ /\ thread[r] = "failed" /\ at' = [at EXCEPT ![r] = "failed"] /\ UNCHANGED known
        /\ UNCHANGED <<backlog, slot, settled, aborted, mode, life, hook, outcome, inflight,
                       thread, conn, rows, deleted>>
    BY DEF Answer, Saved, Move, queueVars, storeVars
  <1>2. Types' /\ Once'
    BY <1>1 DEF Stages, QueueTypes, Once, Carried
  <1>3. Stood'
    BY <1>1, ReqsAssumption DEF Stood, StoodSync, StoodAsync, Carried
  <1>4. SavesKnown'
    BY <1>1 DEF SavesKnown, IdHasRow
  <1>5. Stopped'
    BY <1>1 DEF Stopped
  <1>6. \A q \in Reqs : Holds(q)' <=> Holds(q)
    BY <1>1 DEF Holds
  <1> QED
    BY <1>1, <1>2, <1>3, <1>4, <1>5, <1>6, PlaceStays

LEMMA CutHandlerStep ==
    ASSUME IInv, NEW r \in Reqs, CutHandler(r)
    PROVE  IInv'
  <1> USE DEF IInv, Types, TypeOK
  <1>1. /\ life = "closing" /\ r \in SyncReqs /\ at[r] \in {"waiting", "saving"}
        /\ at' = [at EXCEPT ![r] = "cut"]
        /\ inflight' = IF at[r] = "waiting" THEN Place ELSE inflight
        /\ UNCHANGED <<backlog, slot, settled, aborted, mode, life, hook, outcome, thread, conn,
                       rows, deleted, known>>
    BY DEF CutHandler, Handling, Move, queueVars, storeVars
  <1>2. Places' /\ inflight' \in Nat
    <2>1. CASE at[r] = "waiting"
      <3>1. Holds(r) /\ \A q \in Reqs : Holds(q)' <=> Holds(q) /\ q # r
        BY <1>1, <2>1 DEF Holds
      <3> QED
        BY <1>1, <2>1, <3>1, ReqsAssumption, PlaceBack
    <2>2. CASE at[r] = "saving"
      <3>1. \A q \in Reqs : Holds(q)' <=> Holds(q)
        BY <1>1, <2>2 DEF Holds
      <3> QED
        BY <1>1, <2>2, <3>1, PlaceStays
    <2> QED
      BY <1>1, <2>1, <2>2
  <1>3. Types' /\ Once'
    BY <1>1, <1>2 DEF Stages, QueueTypes, Once, Carried
  <1>4. Stood'
    BY <1>1, ReqsAssumption DEF Stood, StoodSync, StoodAsync, Carried
  <1>5. SavesKnown'
    BY <1>1 DEF SavesKnown, IdHasRow
  <1>6. Stopped'
    BY <1>1 DEF Stopped
  <1> QED
    BY <1>2, <1>3, <1>4, <1>5, <1>6

(* The workers: an execution begins, ends, is given up; a hook ends, is cut. *)
LEMMA BeginStep ==
    ASSUME IInv, NEW w \in Workers, Begin(w)
    PROVE  IInv'
  <1> USE DEF IInv, Types, TypeOK
  <1>1. /\ hook[w] = NoJob /\ Queue!Begin(w) /\ aborted' = aborted
        /\ UNCHANGED <<life, at, hook, outcome, inflight, thread, conn, rows, deleted, known>>
    BY DEF Begin, storeVars, Queue!Begin
  <1>2. QueueTypes' /\ Once' /\ \A q \in Reqs : Carried(q)' <=> Carried(q)
    BY <1>1, BeginFact
  <1>3. Stood'
    BY <1>1, <1>2, ReqsAssumption DEF Stood, StoodSync, StoodAsync
  <1>4. SavesKnown' /\ Stopped'
    BY <1>1 DEF SavesKnown, Stopped, IdHasRow
  <1>5. \A q \in Reqs : Holds(q)' <=> Holds(q)
    BY <1>1 DEF Holds
  <1> QED
    BY <1>1, <1>2, <1>3, <1>4, <1>5, PlaceStays

LEMMA SettleStep ==
    ASSUME IInv, NEW w \in Workers, Settle(w)
    PROVE  IInv'
  <1> USE DEF IInv, Types, TypeOK
  <1> DEFINE j == slot[w]
  <1>1. /\ life \in {"serving", "closing", "draining"} /\ j # NoJob
        /\ slot' = [slot EXCEPT ![w] = NoJob] /\ settled' = settled \cup {j}
        /\ UNCHANGED <<backlog, aborted, mode, life, conn, rows, deleted, known>>
        /\ \E o \in {"result", "exception"} : outcome' = [outcome EXCEPT ![j] = o]
    BY DEF Settle, Working, Queue!Settle, storeVars
  <1>2. /\ j \in Reqs /\ Carried(j) /\ slot' \in [Workers -> Reqs \cup {NoJob}]
        /\ \A q \in Reqs : Carried(q)' <=> Carried(q) /\ q # j
        /\ \A i \in 1..Len(backlog'), v \in Workers : backlog'[i] # slot'[v]
        /\ \A v, u \in Workers : slot'[v] = slot'[u] /\ slot'[v] # NoJob => v = u
        /\ slot'[w] = NoJob /\ \A v \in Workers : v # w => slot'[v] = slot[v]
    BY <1>1, FreedFact
  <1>3. QueueTypes'
    BY <1>1, <1>2 DEF QueueTypes
  <1>4. /\ outcome' \in [Reqs -> {"none", "result", "exception"}]
        /\ \A q \in Reqs : q # j => outcome'[q] = outcome[q]
    BY <1>1, <1>2
  <1>5. /\ hook[w] = NoJob /\ j \notin aborted
        /\ aborted \in SUBSET Reqs /\ \A q \in aborted : ~Carried(q)
    BY <1>1, <1>2 DEF Once, QueueTypes
  <1>6. CASE j \in SyncReqs
    <2>1. UNCHANGED <<at, hook, inflight, thread>>
      BY <1>6 DEF Settle
    <2>2. Types'
      BY <1>1, <1>3, <1>4, <2>1
    <2>3. Once'
      <3>1. \A q \in aborted' : ~Carried(q)'
        BY <1>1, <1>2, <1>5
      <3> QED
        BY <1>1, <1>2, <2>1, <3>1 DEF Once
    <2>4. Stood'
      <3>1. at[j] # "new"
        BY <1>2, <1>6 DEF Stood, StoodSync
      <3>2. \A q \in SyncReqs : StoodSync(q)'
        BY <1>1, <1>2, <1>4, <2>1, ReqsAssumption DEF Stood, StoodSync
      <3>3. \A q \in Reqs \ SyncReqs : StoodAsync(q)'
        BY <1>1, <1>2, <1>6, <2>1 DEF Stood, StoodAsync
      <3> QED
        BY <1>4, <2>1, <3>1, <3>2, <3>3 DEF Stood
    <2>5. SavesKnown' /\ Stopped'
      BY <1>1, <2>1 DEF SavesKnown, Stopped, IdHasRow
    <2>6. \A q \in Reqs : Holds(q)' <=> Holds(q)
      BY <2>1 DEF Holds
    <2> QED
      BY <2>1, <2>2, <2>3, <2>4, <2>5, <2>6, PlaceStays
  <1>7. CASE j \notin SyncReqs
    <2>1. /\ at[j] = "accepted" /\ thread[j] = "none" /\ \A v \in Workers : hook[v] # j
      BY <1>2, <1>7 DEF Stood, StoodAsync, SavesKnown
    <2>2. \/ /\ at' = [at EXCEPT ![j] = "saving"] /\ thread' = [thread EXCEPT ![j] = "ready"]
             /\ hook' = [hook EXCEPT ![w] = j] /\ UNCHANGED inflight
          \/ /\ at' = [at EXCEPT ![j] = "failed"] /\ UNCHANGED <<thread, hook>>
             /\ inflight' = Place
      <3>1. /\ Finalize(j)
            /\ IF thread' = thread
               THEN inflight' = Place /\ UNCHANGED hook
               ELSE hook' = [hook EXCEPT ![w] = j] /\ UNCHANGED inflight
        BY <1>7 DEF Settle
      <3>2. ASSUME thread' = [thread EXCEPT ![j] = "ready"] PROVE thread' # thread
        BY <1>2, <2>1, <3>2
      <3> QED
        BY <3>1, <3>2 DEF Finalize, Move
    <2>3. CASE hook' = [hook EXCEPT ![w] = j] /\ at' = [at EXCEPT ![j] = "saving"]
                 /\ thread' = [thread EXCEPT ![j] = "ready"] /\ UNCHANGED inflight
      <3>1. Types'
        BY <1>1, <1>2, <1>3, <1>4, <1>7, <2>3 DEF Stages, Threads
      <3>2. Once'
        <4>1. \A q \in aborted' : ~Carried(q)'
          BY <1>1, <1>2, <1>5
        <4>2. \A v, u \in Workers : hook'[v] = hook'[u] /\ hook'[v] # NoJob => v = u
          BY <2>1, <2>3 DEF Once
        <4>3. \A v \in Workers : hook'[v] # NoJob => slot'[v] = NoJob
          BY <1>2, <2>3 DEF Once
        <4> QED
          BY <1>1, <1>2, <4>1, <4>2, <4>3 DEF Once
      <3>3. Stood'
        <4>1. \A q \in SyncReqs : StoodSync(q)'
          BY <1>1, <1>2, <1>4, <1>7, <2>3, ReqsAssumption DEF Stood, StoodSync
        <4>2. \A q \in Reqs \ SyncReqs : (\E v \in Workers : hook'[v] = q)
                                          <=> (\E v \in Workers : hook[v] = q) \/ q = j
          BY <1>5, <2>3, ReqsAssumption
        <4>3. \A q \in Reqs \ SyncReqs : StoodAsync(q)'
          BY <1>1, <1>2, <1>5, <2>3, <4>2 DEF Stood, StoodAsync
        <4> QED
          BY <1>4, <2>3, <4>1, <4>3 DEF Stood
      <3>4. SavesKnown' /\ Stopped'
        BY <1>1, <1>7, <2>3 DEF SavesKnown, Stopped, IdHasRow
      <3>5. \A q \in Reqs : Holds(q)' <=> Holds(q)
        BY <1>7, <2>1, <2>3 DEF Holds
      <3> QED
        BY <2>3, <3>1, <3>2, <3>3, <3>4, <3>5, PlaceStays
    <2>4. CASE at' = [at EXCEPT ![j] = "failed"] /\ inflight' = Place /\ UNCHANGED <<thread, hook>>
      <3>1. Places' /\ inflight' \in Nat
        <4>1. Holds(j) /\ \A q \in Reqs : Holds(q)' <=> Holds(q) /\ q # j
          BY <2>1, <2>4 DEF Holds
        <4> QED
          BY <1>2, <2>4, <4>1, PlaceBack
      <3>2. Types'
        BY <1>1, <1>3, <1>4, <2>4, <3>1 DEF Stages
      <3>3. Once'
        <4>1. \A q \in aborted' : ~Carried(q)'
          BY <1>1, <1>2, <1>5
        <4> QED
          BY <1>1, <1>2, <2>4, <4>1 DEF Once
      <3>4. Stood'
        <4>1. \A q \in SyncReqs : StoodSync(q)'
          BY <1>1, <1>2, <1>4, <1>7, <2>4, ReqsAssumption DEF Stood, StoodSync
        <4>2. \A q \in Reqs \ SyncReqs : StoodAsync(q)'
          BY <1>1, <1>2, <1>5, <2>1, <2>4 DEF Stood, StoodAsync
        <4> QED
          BY <1>4, <2>4, <4>1, <4>2 DEF Stood
      <3>5. SavesKnown' /\ Stopped'
        BY <1>1, <1>7, <2>1, <2>4 DEF SavesKnown, Stopped, IdHasRow
      <3> QED
        BY <3>1, <3>2, <3>3, <3>4, <3>5
    <2> QED
      BY <2>2, <2>3, <2>4
  <1> QED
    BY <1>6, <1>7

(* What a hook leaves, at its end or when it is cut. *)
LEMMA HookGone ==
    ASSUME IInv, NEW w \in Workers, hook[w] # NoJob,
           NEW end \in {"finished", "failed", "cut"}, end = "cut" => life # "serving",
           at' = [at EXCEPT ![hook[w]] = end], hook' = [hook EXCEPT ![w] = NoJob],
           inflight' = Place,
           UNCHANGED <<backlog, slot, settled, aborted, mode, life, outcome, thread, conn, rows,
                       deleted>>
    PROVE  /\ hook[w] \in Reqs \ SyncReqs /\ at[hook[w]] = "saving"
           /\ at' \in [Reqs -> Stages] /\ hook' \in [Workers -> (Reqs \ SyncReqs) \cup {NoJob}]
           /\ inflight' \in Nat /\ QueueTypes' /\ Once' /\ Stood' /\ Stopped' /\ Places'
  <1> USE DEF IInv, Types, TypeOK
  <1> DEFINE j == hook[w]
  <1>1. j \in Reqs \ SyncReqs /\ at[j] = "saving"
    BY DEF Stood, StoodAsync
  <1>2. /\ at' \in [Reqs -> Stages] /\ hook' \in [Workers -> (Reqs \ SyncReqs) \cup {NoJob}]
        /\ QueueTypes'
    BY DEF Stages, QueueTypes
  <1>3. Once'
    BY DEF Once, Carried
  <1>4. Stood'
    <2>1. \A q \in SyncReqs : StoodSync(q)'
      BY <1>1, ReqsAssumption DEF Stood, StoodSync, Carried
    <2>2. \A q \in Reqs \ SyncReqs : (\E v \in Workers : hook'[v] = q)
                                      <=> (\E v \in Workers : hook[v] = q) /\ q # j
      BY ReqsAssumption DEF Once
    <2>3. \A q \in Reqs \ SyncReqs : StoodAsync(q)'
      BY <1>1, <2>2 DEF Stood, StoodAsync, Carried
    <2> QED
      BY <1>1, <2>1, <2>3 DEF Stood
  <1>5. Stopped'
    BY <1>1 DEF Stopped
  <1>6. Places' /\ inflight' \in Nat
    <2>1. Holds(j) /\ \A q \in Reqs : Holds(q)' <=> Holds(q) /\ q # j
      BY <1>1 DEF Holds
    <2> QED
      BY <1>1, <2>1, PlaceBack
  <1> QED
    BY <1>1, <1>2, <1>3, <1>4, <1>5, <1>6

LEMMA HookEndsStep ==
    ASSUME IInv, NEW w \in Workers, HookEnds(w)
    PROVE  IInv'
  <1> USE DEF IInv, Types, TypeOK
  <1> DEFINE j == hook[w]
  <1>1. /\ j # NoJob /\ inflight' = Place /\ hook' = [hook EXCEPT ![w] = NoJob]
        /\ UNCHANGED <<backlog, slot, settled, aborted, mode, life, outcome, thread, conn, rows,
                       deleted>>
    BY DEF HookEnds, queueVars, storeVars
  <1>2. \/ /\ thread[j] = "saved" /\ at' = [at EXCEPT ![j] = "finished"]
           /\ known' = known \cup {j}
        \/ thread[j] = "failed" /\ at' = [at EXCEPT ![j] = "failed"] /\ UNCHANGED known
    BY DEF HookEnds, Saved, Move
  <1>3. /\ j \in Reqs \ SyncReqs /\ at[j] = "saving" /\ at' \in [Reqs -> Stages]
        /\ hook' \in [Workers -> (Reqs \ SyncReqs) \cup {NoJob}] /\ inflight' \in Nat
        /\ QueueTypes' /\ Once' /\ Stood' /\ Stopped' /\ Places'
    <2>1. CASE at' = [at EXCEPT ![j] = "finished"]
      BY <1>1, <2>1, HookGone
    <2>2. CASE at' = [at EXCEPT ![j] = "failed"]
      BY <1>1, <2>2, HookGone
    <2> QED
      BY <1>2, <2>1, <2>2
  <1>4. Types'
    BY <1>1, <1>2, <1>3
  <1>5. SavesKnown'
    BY <1>1, <1>2, <1>3 DEF SavesKnown, IdHasRow
  <1> QED
    BY <1>3, <1>4, <1>5

LEMMA CutHookStep ==
    ASSUME IInv, NEW w \in Workers, CutHook(w)
    PROVE  IInv'
  <1> USE DEF IInv, Types, TypeOK
  <1> DEFINE j == hook[w]
  <1>1. /\ life = "cancelling" /\ j # NoJob /\ at' = [at EXCEPT ![j] = "cut"]
        /\ inflight' = Place /\ hook' = [hook EXCEPT ![w] = NoJob]
        /\ UNCHANGED <<backlog, slot, settled, aborted, mode, life, outcome, thread, conn, rows,
                       deleted, known>>
    BY DEF CutHook, Move, queueVars, storeVars
  <1>2. /\ j \in Reqs \ SyncReqs /\ at[j] = "saving" /\ at' \in [Reqs -> Stages]
        /\ hook' \in [Workers -> (Reqs \ SyncReqs) \cup {NoJob}] /\ inflight' \in Nat
        /\ QueueTypes' /\ Once' /\ Stood' /\ Stopped' /\ Places'
    BY <1>1, HookGone
  <1>3. SavesKnown'
    BY <1>1, <1>2 DEF SavesKnown, IdHasRow
  <1> QED
    BY <1>1, <1>2, <1>3

LEMMA CutExecutionStep ==
    ASSUME IInv, NEW w \in Workers, CutExecution(w)
    PROVE  IInv'
  <1> USE DEF IInv, Types, TypeOK
  <1> DEFINE j == slot[w]
  <1>1. /\ j # NoJob /\ slot' = [slot EXCEPT ![w] = NoJob] /\ aborted' = aborted \cup {j}
        /\ UNCHANGED <<backlog, settled, mode, life, at, hook, outcome, inflight, thread, conn,
                       rows, deleted, known>>
    BY DEF CutExecution, Queue!Abort, storeVars
  <1>2. /\ j \in Reqs /\ Carried(j) /\ slot' \in [Workers -> Reqs \cup {NoJob}]
        /\ \A q \in Reqs : Carried(q)' <=> Carried(q) /\ q # j
        /\ \A i \in 1..Len(backlog'), v \in Workers : backlog'[i] # slot'[v]
        /\ \A v, u \in Workers : slot'[v] = slot'[u] /\ slot'[v] # NoJob => v = u
        /\ slot'[w] = NoJob /\ \A v \in Workers : v # w => slot'[v] = slot[v]
    BY <1>1, FreedFact
  <1>3. Types'
    BY <1>1, <1>2 DEF QueueTypes
  <1>4. Once'
    <2>1. \A q \in aborted' : ~Carried(q)'
      BY <1>1, <1>2 DEF Once, QueueTypes
    <2> QED
      BY <1>1, <1>2, <2>1 DEF Once
  <1>5. Stood'
    <2>1. \A q \in SyncReqs : StoodSync(q)'
      BY <1>1, <1>2, ReqsAssumption DEF Stood, StoodSync
    <2>2. \A q \in Reqs \ SyncReqs : StoodAsync(q)'
      BY <1>1, <1>2 DEF Stood, StoodAsync
    <2> QED
      BY <1>1, <2>1, <2>2 DEF Stood
  <1>6. SavesKnown' /\ Stopped'
    BY <1>1 DEF SavesKnown, Stopped, IdHasRow
  <1>7. \A q \in Reqs : Holds(q)' <=> Holds(q)
    BY <1>1 DEF Holds
  <1> QED
    BY <1>1, <1>3, <1>4, <1>5, <1>6, <1>7, PlaceStays

(* The threads of the store, and the rows that go. *)
LEMMA StoreStep ==
    ASSUME IInv, NEW r \in Reqs, Lock(r) \/ Commit(r) \/ WriteFails(r) \/ DeleteRun(r)
    PROVE  IInv'
  <1> USE DEF IInv, Types, TypeOK
  <1>1. UNCHANGED <<backlog, slot, settled, aborted, mode, life, at, hook, outcome, inflight,
                    conn, known>>
    BY DEF Lock, Commit, WriteFails, DeleteRun, queueVars, storeVars
  <1>2. \/ /\ thread[r] = "ready" /\ thread' = [thread EXCEPT ![r] = "writing"]
           /\ UNCHANGED <<rows, deleted>>
        \/ /\ thread[r] = "writing" /\ thread' = [thread EXCEPT ![r] = "saved"]
           /\ rows' = rows \cup {r} /\ UNCHANGED deleted
        \/ /\ thread[r] = "writing" /\ thread' = [thread EXCEPT ![r] = "failed"]
           /\ UNCHANGED <<rows, deleted>>
        \/ rows' = rows \ {r} /\ deleted' = deleted \cup {r} /\ UNCHANGED thread
    BY DEF Lock, Commit, WriteFails, DeleteRun, storeVars
  <1>3. Types' /\ Once'
    BY <1>1, <1>2 DEF Threads, QueueTypes, Once, Carried
  <1>4. Stood' /\ Stopped'
    BY <1>1 DEF Stood, StoodSync, StoodAsync, Stopped, Carried
  <1>5. SavesKnown'
    BY <1>1, <1>2 DEF SavesKnown, IdHasRow
  <1>6. \A q \in Reqs : Holds(q)' <=> Holds(q)
    BY <1>1 DEF Holds
  <1> QED
    BY <1>1, <1>3, <1>4, <1>5, <1>6, PlaceStays

(* The shutdown: its steps move on, and touch nothing else but the mode of   *)
(* the queue and the connection.                                            *)
LEMMA StopStepKeeps ==
    ASSUME IInv, StopListening \/ StopStep
    PROVE  IInv'
  <1> USE DEF IInv, Types, TypeOK
  <1>1. UNCHANGED <<backlog, slot, settled, aborted, at, hook, outcome, inflight, thread, rows,
                    deleted, known>>
    BY DEF StopListening, StopStep, DrainStarts, JoinReturns, GraceExpires, CloseDb,
           Queue!Drain, Queue!Expire, queueVars, storeVars
  <1>2. \/ life = "serving" /\ life' = "closing" /\ UNCHANGED <<mode, conn>>
        \/ /\ life = "closing" /\ life' = "draining" /\ mode' = "draining" /\ UNCHANGED conn
           /\ \A q \in Reqs : ~Handling(q)
        \/ /\ life = "draining" /\ life' = "cancelling" /\ mode' \in {mode, "expired"}
           /\ UNCHANGED conn
        \/ /\ life = "cancelling" /\ life' = "closed" /\ conn' = FALSE /\ UNCHANGED mode
           /\ \A w \in Workers : hook[w] = NoJob
    BY DEF StopListening, StopStep, DrainStarts, JoinReturns, GraceExpires, CloseDb,
           Queue!Drain, Queue!Expire, queueVars, storeVars
  <1>3. Types' /\ Once'
    BY <1>1, <1>2 DEF Lives, QueueTypes, Once, Carried
  <1>4. Stood'
    BY <1>1, <1>2 DEF Stood, StoodSync, StoodAsync, Carried
  <1>5. SavesKnown'
    BY <1>1 DEF SavesKnown, IdHasRow
  <1>6. Stopped'
    BY <1>1, <1>2, ReqsAssumption DEF Stopped, Handling
  <1>7. \A q \in Reqs : Holds(q)' <=> Holds(q)
    BY <1>1 DEF Holds
  <1> QED
    BY <1>1, <1>3, <1>4, <1>5, <1>6, <1>7, PlaceStays

LEMMA InvStep == IInv /\ [Next]_vars => IInv'
  <1> SUFFICES ASSUME IInv, [Next]_vars PROVE IInv'
    OBVIOUS
  <1>1. ASSUME NEW r \in Reqs, Submit(r) PROVE IInv'
    BY <1>1, SubmitStep
  <1>2. ASSUME NEW r \in Reqs, Refuse(r) PROVE IInv'
    BY <1>2, RefuseStep
  <1>3. ASSUME NEW r \in Reqs, HandlerStep(r) PROVE IInv'
    BY <1>3, ResumeStep, AnswerStep, CutHandlerStep DEF HandlerStep
  <1>4. ASSUME NEW r \in Reqs, ThreadStep(r) \/ DeleteRun(r) PROVE IInv'
    BY <1>4, StoreStep DEF ThreadStep
  <1>5. ASSUME NEW w \in Workers, WorkerStep(w) PROVE IInv'
    BY <1>5, BeginStep, SettleStep, HookEndsStep, CutExecutionStep, CutHookStep DEF WorkerStep
  <1>6. ASSUME StopListening \/ StopStep PROVE IInv'
    BY <1>6, StopStepKeeps
  <1>7. ASSUME UNCHANGED vars PROVE IInv'
    BY <1>7 DEF vars, queueVars, storeVars, IInv, Types, TypeOK, QueueTypes, Once, Carried, Stood,
                StoodSync, StoodAsync, SavesKnown, IdHasRow, Stopped, Places, Holding, Holds
  <1> QED
    BY <1>1, <1>2, <1>3, <1>4, <1>5, <1>6, <1>7 DEF Next, Exited

LEMMA Invariance == Spec => []IInv
  BY InvInit, InvStep, PTL DEF Spec

-----------------------------------------------------------------------------
(* What follows                                                             *)

(* Places and work: who has a place is who waits, and whose job of /jobs the *)
(* queue or a hook has, or dropped.                                         *)
LEMMA PlacesFollow == IInv => PlacesMeanWork
  <1> SUFFICES ASSUME IInv PROVE PlacesMeanWork
    OBVIOUS
  <1> USE DEF IInv, Types, TypeOK, QueueTypes
  <1> DEFINE W == {r \in Reqs : at[r] = "waiting"}
             A == (Work \cup Dropped) \ SyncReqs
  <1>1. \A r \in Reqs : r \in Work <=> Carried(r) \/ \E w \in Workers : hook[w] = r
    BY DEF Work, Carried
  <1>2. \A r \in Reqs : r \in A <=> r \notin SyncReqs /\ at[r] \in {"accepted", "saving"}
    BY <1>1 DEF Stood, StoodAsync, Dropped
  <1>3. A \in SUBSET Reqs
    BY DEF Work, Dropped
  <1>4. W \in SUBSET Reqs /\ W \cap A = {} /\ Holding = W \cup A
    BY <1>2, <1>3 DEF Stood, StoodSync, StoodAsync, Holding, Holds
  <1>5. /\ IsFiniteSet(W) /\ IsFiniteSet(A)
        /\ Cardinality(W) \in Nat /\ Cardinality(A) \in Nat
    BY <1>3, <1>4, CountFact, ReqsAssumption, FS_Subset, FS_CardinalityType
  <1>6. Cardinality(Holding) = Cardinality(W) + Cardinality(A)
    <2>1. Cardinality(W \cup A) = Cardinality(W) + Cardinality(A) - Cardinality(W \cap A)
      BY <1>5, FS_Union
    <2>2. Cardinality(W \cap A) = 0
      BY <1>4, FS_EmptySet
    <2> QED
      BY <1>4, <1>5, <2>1, <2>2
  <1>7. ASSUME life = "serving"
        PROVE  Cardinality(Work) <= inflight /\ inflight <= MaxInflight
    <2>1. Work \subseteq Holding
      BY <1>1, <1>7, ReqsAssumption DEF Work, Holding, Holds, Stood, StoodSync, StoodAsync
    <2>2. IsFiniteSet(Holding)
      BY ReqsAssumption, FS_Subset DEF Holding
    <2> QED
      BY <2>1, <2>2, FS_Subset DEF Places
  <1> QED
    BY <1>6, <1>7 DEF PlacesMeanWork, Places

(* Types, of the queue's variables too, which JobService leaves to its user. *)
THEOREM TypeCorrect == Spec => [](TypeOK /\ QueueTypes)
  BY Invariance, PTL DEF IInv, Types

(* A place of max_inflight is held by work and by nothing else (routes.py:   *)
(* 147, 239, 245), for any number of requests, workers and places.          *)
THEOREM PlacesAreWork == Spec => []PlacesMeanWork
  BY Invariance, PlacesFollow, PTL

(* An id that is given out names a run in the history (routes.py:101-102).   *)
THEOREM IdsHaveRows == Spec => []IdHasRow
  BY Invariance, PTL DEF IInv, SavesKnown

(* Closing the database loses no run but of a handler or hook that was cut   *)
(* (main.py:71-72).                                                         *)
THEOREM OnlyCutAreLost == Spec => []CloseLosesOnlyCut
  <1>1. ASSUME IInv, ~conn, NEW r \in Reqs, thread[r] \in {"ready", "writing"}
        PROVE  at[r] = "cut"
    <2>1. life = "closed" /\ \A w \in Workers : hook[w] = NoJob
      BY <1>1 DEF IInv, Stopped
    <2>2. at[r] \in {"saving", "cut"}
      BY <1>1 DEF IInv, SavesKnown
    <2>3. CASE r \in SyncReqs
      BY <1>1, <2>1, <2>2, <2>3 DEF IInv, Stopped
    <2>4. CASE r \notin SyncReqs
      BY <1>1, <2>1, <2>2, <2>4, ReqsAssumption DEF IInv, Stood, StoodAsync
    <2> QED
      BY <2>3, <2>4
  <1>2. IInv => CloseLosesOnlyCut
    BY <1>1 DEF CloseLosesOnlyCut
  <1> QED
    BY <1>2, Invariance, PTL

(* The steps in which the limiter's release() is called: in the handler, when *)
(* it goes on or is cut, and at the end of a hook, however it ends.         *)
GivesBack ==
    \/ \E r \in Reqs : Resume(r) \/ (at[r] = "waiting" /\ CutHandler(r))
    \/ \E w \in Workers :
         HookEnds(w) \/ CutHook(w) \/ (Settle(w) /\ slot[w] \notin SyncReqs /\ thread' = thread)

(* "On success the caller MUST pair this with release()" (ratelimit.py:39-40): *)
(* no path of routes.py calls release() with no place to give back, so that  *)
(* its guard at 56 never hides one that is called twice.                    *)
NeverTwice == [][GivesBack => inflight > 0 /\ inflight' = inflight - 1]_vars

(* A place that is given back is that of a request that holds one.          *)
THEOREM ReleasesArePaired == Spec => NeverTwice
  <1>1. ASSUME IInv, NEW r \in Reqs, Holds(r), inflight' = Place
        PROVE  inflight > 0 /\ inflight' = inflight - 1
    <2>1. Holding \in SUBSET Reqs /\ r \in Holding
      BY <1>1 DEF Holding
    <2>2. inflight > 0
      BY <1>1, <2>1, CountFact DEF IInv, Places
    <2> QED
      BY <1>1, <2>2 DEF Place
  <1>2. ASSUME IInv, NEW r \in Reqs, Resume(r) \/ (at[r] = "waiting" /\ CutHandler(r))
        PROVE  inflight > 0 /\ inflight' = inflight - 1
    <2>1. Holds(r) /\ inflight' = Place
      BY <1>2 DEF Resume, CutHandler, Holds
    <2> QED
      BY <1>1, <1>2, <2>1
  <1>3. ASSUME IInv, NEW w \in Workers, HookEnds(w) \/ CutHook(w)
        PROVE  inflight > 0 /\ inflight' = inflight - 1
    <2>1. hook[w] \in Reqs \ SyncReqs /\ inflight' = Place
      BY <1>3 DEF HookEnds, CutHook, IInv, Types, TypeOK
    <2>2. Holds(hook[w])
      BY <1>3, <2>1 DEF Holds, IInv, Stood, StoodAsync
    <2> QED
      BY <1>1, <1>3, <2>1, <2>2
  <1>4. ASSUME IInv, NEW w \in Workers, Settle(w), slot[w] \notin SyncReqs, thread' = thread
        PROVE  inflight > 0 /\ inflight' = inflight - 1
    <2>1. slot[w] \in Reqs \ SyncReqs
      BY <1>4 DEF Settle, Queue!Settle, IInv, Types, QueueTypes
    <2>2. inflight' = Place
      BY <1>4 DEF Settle
    <2>3. Holds(slot[w])
      BY <1>4, <2>1 DEF Holds, Carried, IInv, Stood, StoodAsync
    <2> QED
      BY <1>1, <1>4, <2>1, <2>2, <2>3
  <1>5. IInv => (GivesBack => inflight > 0 /\ inflight' = inflight - 1)
    BY <1>2, <1>3, <1>4 DEF GivesBack
  <1> QED
    BY <1>5, Invariance, PTL DEF NeverTwice

-----------------------------------------------------------------------------
(* The file of keys                                                         *)

(* A list of entries that keeps the cap and has each name once.             *)
Fit(E) ==
    /\ IsFiniteSet(E)
    /\ Cardinality(Users(E)) <= MaxUsers
    /\ \A d, e \in E : d.name = e.name => d = e

(* Whatever is in the file, or is to be written over it, is fit.            *)
ListsFit ==
    /\ Fit(stored)
    /\ \A m \in Runs : stage[m] \in {"loaded", "saving"} => Fit(entries[m])

(* Runs in turn: one at most has read and not saved; what it is to write is  *)
(* its change to all saves up to now; the file has these, or a save was      *)
(* begun, and when one was cut no run goes on.                              *)
InTurn ==
    /\ \A m, n \in Runs : {stage[m], stage[n]} \subseteq {"loaded", "saving"} => m = n
    /\ \A m \in Runs : stage[m] = "loaded" => Readable
    /\ \A m \in Runs : stage[m] = "saving" => file = "empty"
    /\ \A m \in Runs : stage[m] \in {"loaded", "saving"} => entries[m] = Changed(issued, m, change[m])
    /\ \A m, n \in Runs : stage[m] = "cut" => ~Readable /\ stage[n] # "saving"
    /\ Readable => stored = issued
    /\ ~Readable => \E m \in Runs : stage[m] \in {"saving", "cut"}

KeyIInv == KeyTypeOK /\ ListsFit /\ (overlapped \/ InTurn)

-----------------------------------------------------------------------------

(* A change that Load() lets through keeps a list fit.                      *)
LEMMA ChangeKeepsFit ==
    ASSUME NEW E \in SUBSET Entries, Fit(E), NEW m \in Runs, NEW c \in Changes,
           \/ /\ c.op = "issue" /\ Named(E, c.name) = {}
              /\ c.role = "user" => ~UsersFull(E)
           \/ c.op = "revoke"
    PROVE  Changed(E, m, c) \in SUBSET Entries /\ Fit(Changed(E, m, c))
  <1>1. IsFiniteSet(E) /\ IsFiniteSet(Users(E)) /\ Cardinality(Users(E)) \in Nat
    BY FS_Subset, FS_CardinalityType DEF Fit, Users
  <1>2. CASE c.op = "issue"
    <2> DEFINE e == [name |-> c.name, role |-> c.role, key |-> m]
    <2>1. /\ c.name \in Names /\ c.role \in Roles
          /\ Named(E, c.name) = {}
          /\ c.role = "user" => ~UsersFull(E)
          /\ Changed(E, m, c) = E \cup {e}
      BY <1>2 DEF Changes, Changed
    <2>2. e \in Entries /\ e.name = c.name /\ e.role = c.role
      BY <2>1 DEF Entries
    <2> HIDE DEF e
    <2>3. IsFiniteSet(E \cup {e})
      BY <1>1, FS_AddElement
    <2>4. \A d, f \in E \cup {e} : d.name = f.name => d = f
      BY <2>1, <2>2 DEF Fit, Named
    <2>5. Cardinality(Users(E \cup {e})) <= MaxUsers
      <3>1. CASE e.role = "admin"
        <4>1. Users(E \cup {e}) = Users(E)
          BY <3>1 DEF Users
        <4> QED
          BY <4>1 DEF Fit
      <3>2. CASE e.role # "admin"
        <4>1. Users(E \cup {e}) = Users(E) \cup {e}
          BY <3>2 DEF Users
        <4>2. e \notin Users(E)
          BY <2>1, <2>2 DEF Users, Named
        <4>3. Cardinality(Users(E \cup {e})) = Cardinality(Users(E)) + 1
          BY <1>1, <4>1, <4>2, FS_AddElement
        <4>4. e.role = "user"
          BY <2>1, <2>2, <3>2 DEF Roles
        <4> QED
          BY <1>1, <2>1, <2>2, <4>3, <4>4, MaxUsersAssumption DEF UsersFull
      <3> QED
        BY <3>1, <3>2
    <2> QED
      BY <2>1, <2>2, <2>3, <2>4, <2>5 DEF Fit
  <1>3. CASE c.op = "revoke"
    <2> DEFINE D == Changed(E, m, c)
    <2>1. D \subseteq E
      BY <1>3 DEF Changed
    <2>2. IsFiniteSet(D) /\ Users(D) \subseteq Users(E)
      BY <1>1, <2>1, FS_Subset DEF Users
    <2> HIDE DEF D
    <2>3. Cardinality(Users(D)) <= Cardinality(Users(E)) /\ Cardinality(Users(D)) \in Nat
      BY <1>1, <2>2, FS_Subset, FS_CardinalityType
    <2> QED
      BY <1>1, <2>1, <2>2, <2>3, MaxUsersAssumption DEF Fit, D
  <1> QED
    BY <1>2, <1>3

LEMMA EmptyFits == Fit({})
  <1>1. Users({}) = {}
    BY DEF Users
  <1> QED
    BY <1>1, FS_EmptySet, MaxUsersAssumption DEF Fit

LEMMA KeyInitHolds == KeyInit => KeyIInv
  BY EmptyFits DEF KeyInit, KeyIInv, KeyTypeOK, ListsFit, InTurn, Readable, Forms, RunStages

LEMMA LoadStep ==
    ASSUME KeyIInv, NEW m \in Runs, NEW c \in Changes, Load(m, c)
    PROVE  KeyIInv'
  <1>1. /\ stage[m] = "new" /\ Readable
        /\ stage' = [stage EXCEPT ![m] = "loaded"]
        /\ change' = [change EXCEPT ![m] = c]
        /\ entries' = [entries EXCEPT ![m] = Changed(stored, m, c)]
        /\ overlapped' = (overlapped \/ Busy)
        /\ UNCHANGED <<file, stored, issued>>
    BY DEF Load, Loadable
  <1>2. Changed(stored, m, c) \in SUBSET Entries /\ Fit(Changed(stored, m, c))
    BY ChangeKeepsFit DEF Load, KeyIInv, KeyTypeOK, ListsFit
  <1>3. KeyTypeOK'
    BY <1>1, <1>2 DEF KeyIInv, KeyTypeOK, RunStages
  <1>4. ListsFit'
    BY <1>1, <1>2 DEF KeyIInv, KeyTypeOK, ListsFit
  <1>5. ASSUME ~overlapped' PROVE InTurn'
    <2>1. InTurn /\ \A n \in Runs : stage[n] \notin {"loaded", "saving"}
      BY <1>1, <1>5 DEF KeyIInv, Busy
    <2> QED
      BY <1>1, <2>1 DEF KeyIInv, KeyTypeOK, InTurn, Readable
  <1> QED
    BY <1>3, <1>4, <1>5 DEF KeyIInv

LEMMA DeclineStep ==
    ASSUME KeyIInv, NEW m \in Runs, Decline(m)
    PROVE  KeyIInv'
  BY DEF Decline, KeyIInv, KeyTypeOK, RunStages, ListsFit, InTurn, Readable

LEMMA TruncateStep ==
    ASSUME KeyIInv, NEW m \in Runs, Truncate(m)
    PROVE  KeyIInv'
  <1>1. KeyTypeOK' /\ ListsFit'
    BY EmptyFits DEF Truncate, KeyIInv, KeyTypeOK, RunStages, Forms, ListsFit
  <1>2. ASSUME InTurn PROVE InTurn'
    BY <1>2 DEF Truncate, KeyIInv, KeyTypeOK, InTurn, Readable
  <1> QED
    BY <1>1, <1>2 DEF KeyIInv, Truncate

LEMMA WriteStep ==
    ASSUME KeyIInv, NEW m \in Runs, Write(m)
    PROVE  KeyIInv'
  <1>1. Changed(issued, m, change[m]) \in SUBSET Entries
    <2> DEFINE c == change[m]
    <2>1. issued \in SUBSET Entries /\ c \in Changes \cup {NoChange}
      BY DEF KeyIInv, KeyTypeOK
    <2> HIDE DEF c
    <2>2. CASE c.op = "issue"
      <3>1. c.name \in Names /\ c.role \in Roles
        BY <2>1, <2>2 DEF Changes, NoChange
      <3>2. [name |-> c.name, role |-> c.role, key |-> m] \in Entries
        BY <3>1 DEF Entries
      <3> QED
        BY <2>1, <2>2, <3>2 DEF Changed, c
    <2>3. CASE c.op # "issue"
      BY <2>1, <2>3 DEF Changed, c
    <2> QED
      BY <2>2, <2>3
  <1>2. KeyTypeOK' /\ ListsFit'
    BY <1>1, EmptyFits DEF Write, KeyIInv, KeyTypeOK, RunStages, Forms, ListsFit
  <1>3. ASSUME InTurn PROVE InTurn'
    BY <1>3 DEF Write, KeyIInv, KeyTypeOK, InTurn, Readable
  <1> QED
    BY <1>2, <1>3 DEF KeyIInv, Write

LEMMA KilledStep ==
    ASSUME KeyIInv, NEW m \in Runs, Killed(m)
    PROVE  KeyIInv'
  <1>1. KeyTypeOK' /\ ListsFit'
    BY EmptyFits DEF Killed, KeyIInv, KeyTypeOK, RunStages, Forms, ListsFit
  <1>2. ASSUME InTurn PROVE InTurn'
    BY <1>2 DEF Killed, KeyIInv, KeyTypeOK, InTurn, Readable
  <1> QED
    BY <1>1, <1>2 DEF KeyIInv, Killed

LEMMA KeyNextStep == KeyIInv /\ [KeyNext]_keyVars => KeyIInv'
  <1> SUFFICES ASSUME KeyIInv, [KeyNext]_keyVars PROVE KeyIInv'
    OBVIOUS
  <1>1. CASE UNCHANGED keyVars
    BY <1>1 DEF keyVars, KeyIInv, KeyTypeOK, ListsFit, InTurn, Readable
  <1>2. ASSUME NEW m \in Runs, NEW c \in Changes, Load(m, c) PROVE KeyIInv'
    BY <1>2, LoadStep
  <1>3. ASSUME NEW m \in Runs, Decline(m) \/ Truncate(m) \/ Write(m) \/ Killed(m) PROVE KeyIInv'
    BY <1>3, DeclineStep, TruncateStep, WriteStep, KilledStep
  <1> QED
    BY <1>1, <1>2, <1>3 DEF KeyNext, Over

(* KeyIInv is an invariant of the runs of make_key.py.                      *)
THEOREM KeyInvariance == KeySpec => []KeyIInv
  BY KeyInitHolds, KeyNextStep, PTL DEF KeySpec

(* The file, and what each run has of it, keep their types.                 *)
THEOREM KeyTypeCorrect == KeySpec => []KeyTypeOK
  <1>1. KeyIInv => KeyTypeOK
    BY DEF KeyIInv
  <1> QED
    BY <1>1, KeyInvariance, PTL

(* Whatever can be read keeps the cap and has each name once, however runs  *)
(* overlap and are interrupted (make_key.py:9, 67).                        *)
THEOREM ReadableIsFit == KeySpec => []CapHolds
  <1>1. KeyIInv => CapHolds
    BY EmptyFits DEF KeyIInv, ListsFit, CapHolds, Served, Fit
  <1> QED
    BY <1>1, KeyInvariance, PTL

(* Without an overlap the server knows all completed saves, except while a   *)
(* save is under way or after one was cut (make_key.py:27-33).              *)
THEOREM InTurnNothingIsLost == KeySpec => []ServedAreIssued
  <1>1. KeyIInv => ServedAreIssued
    BY DEF KeyIInv, InTurn, ServedAreIssued, Served
  <1> QED
    BY <1>1, KeyInvariance, PTL

-----------------------------------------------------------------------------
(* The score of abuse                                                       *)

(* What a tracker has kept: the events of the window, behind some it has not *)
(* pruned yet.                                                              *)
Tracks(events) == \E k \in 0..Len(events) : Old(events) = 1..k /\ past = Drop(events, k)

(* Oldest first. *)
PastSorted == \A i, j \in DOMAIN past : i <= j => past[i].age >= past[j].age

AbuseIInv == AbuseTypeOK /\ PastSorted /\ Tracks(memory) /\ Tracks(redis)

-----------------------------------------------------------------------------

LEMMA DropFact ==
    ASSUME NEW s \in Seq(Scored), NEW n \in 0..Len(s)
    PROVE  /\ Drop(s, n) \in Seq(Scored)
           /\ Len(Drop(s, n)) = Len(s) - n
           /\ \A i \in 1..(Len(s) - n) : Drop(s, n)[i] = s[n + i]
           /\ Len(s) \in Nat
  <1>1. Len(s) \in Nat /\ \A i \in 1..Len(s) : s[i] \in Scored
    BY ElementOfSeq
  <1>2. n + 1 \in Int /\ Len(s) \in Int /\ \A i \in (n + 1)..Len(s) : s[i] \in Scored
    BY <1>1
  <1>3. /\ Drop(s, n) \in Seq(Scored)
        /\ Len(Drop(s, n)) = IF n + 1 <= Len(s) THEN Len(s) - (n + 1) + 1 ELSE 0
    BY <1>2, SubSeqProperties DEF Drop
  <1>4. Len(Drop(s, n)) = Len(s) - n
    BY <1>1, <1>3
  <1>5. \A i \in 1..(Len(s) - n) : Drop(s, n)[i] = s[n + i]
    BY <1>1, <1>3, <1>4 DEF Drop
  <1> QED
    BY <1>1, <1>3, <1>4, <1>5

(* Sequences that agree everywhere are equal. *)
LEMMA SameSeq ==
    ASSUME NEW s \in Seq(Scored), NEW t \in Seq(Scored), Len(s) = Len(t),
           \A i \in 1..Len(s) : s[i] = t[i]
    PROVE  s = t
  BY SeqEqual

LEMMA DropTwice ==
    ASSUME NEW s \in Seq(Scored), NEW k \in 0..Len(s), NEW n \in 0..(Len(s) - k)
    PROVE  Drop(Drop(s, k), n) = Drop(s, k + n)
  <1>1. /\ Drop(s, k) \in Seq(Scored) /\ Len(Drop(s, k)) = Len(s) - k
        /\ \A i \in 1..(Len(s) - k) : Drop(s, k)[i] = s[k + i]
        /\ Len(s) \in Nat
    BY DropFact
  <1>2. k + n \in 0..Len(s) /\ n \in 0..Len(Drop(s, k))
    BY <1>1
  <1>3. /\ Drop(s, k + n) \in Seq(Scored) /\ Len(Drop(s, k + n)) = Len(s) - (k + n)
        /\ \A i \in 1..(Len(s) - (k + n)) : Drop(s, k + n)[i] = s[k + n + i]
    BY <1>2, DropFact
  <1>4. /\ Drop(Drop(s, k), n) \in Seq(Scored)
        /\ Len(Drop(Drop(s, k), n)) = Len(Drop(s, k)) - n
        /\ \A i \in 1..(Len(Drop(s, k)) - n) : Drop(Drop(s, k), n)[i] = Drop(s, k)[n + i]
    BY <1>1, <1>2, DropFact
  <1>5. ASSUME NEW i \in 1..(Len(s) - (k + n))
        PROVE  Drop(Drop(s, k), n)[i] = Drop(s, k + n)[i]
    <2>1. n + i \in 1..(Len(s) - k) /\ i \in 1..(Len(s) - k - n) /\ k + (n + i) = k + n + i
      BY <1>1
    <2>2. Drop(Drop(s, k), n)[i] = Drop(s, k)[n + i]
      BY <1>1, <1>4, <2>1
    <2> QED
      BY <1>1, <1>3, <2>1, <2>2
  <1>6. Len(Drop(Drop(s, k), n)) = Len(Drop(s, k + n))
    <2>1. (Len(s) - k) - n = Len(s) - (k + n)
      BY <1>1
    <2> QED
      BY <1>1, <1>3, <1>4, <2>1
  <1> QED
    BY <1>3, <1>4, <1>5, <1>6, SameSeq

LEMMA DropNone ==
    ASSUME NEW s \in Seq(Scored)
    PROVE  Drop(s, 0) = s
  <1>1. 0 \in 0..Len(s) /\ Len(s) \in Nat
    OBVIOUS
  <1> QED
    BY <1>1, DropFact, SameSeq

(* Both trackers, when asked, prune to the events of the window: memory by   *)
(* popping from the front, Redis by counting.                               *)
LEMMA PrunedIsPast ==
    ASSUME NEW s \in Seq(Scored), Tracks(s)
    PROVE  MemoryPruned(s) = past /\ RedisPruned(s) = past
  <1>1. PICK k \in 0..Len(s) : Old(s) = 1..k /\ past = Drop(s, k)
    BY DEF Tracks
  <1>2. k \in Nat
    OBVIOUS
  <1>3. Cardinality(1..k) = k
    BY <1>2, FS_Interval
  <1>4. {i \in Old(s) : 1..i \subseteq Old(s)} = 1..k
    BY <1>1, <1>2
  <1> QED
    BY <1>1, <1>3, <1>4 DEF MemoryPruned, RedisPruned

(* The set of old events is empty in past, so a pruned tracker tracks it.    *)
LEMMA PastIsYoung ==
    ASSUME AbuseIInv
    PROVE  Old(past) = {}
  <1>1. PICK k \in 0..Len(memory) : Old(memory) = 1..k /\ past = Drop(memory, k)
    BY DEF AbuseIInv, Tracks
  <1>2. memory \in Seq(Scored)
    BY DEF AbuseIInv, AbuseTypeOK
  <1>3. /\ past \in Seq(Scored) /\ Len(past) = Len(memory) - k
        /\ \A i \in 1..(Len(memory) - k) : past[i] = memory[k + i]
        /\ Len(memory) \in Nat
    BY <1>1, <1>2, DropFact
  <1>4. ASSUME NEW i \in Old(past) PROVE FALSE
    <2>1. i \in 1..(Len(memory) - k) /\ past[i].age >= Window
      BY <1>3 DEF Old
    <2>2. k + i \in 1..Len(memory) /\ memory[k + i].age >= Window
      BY <1>3, <2>1
    <2>3. k + i \in Old(memory)
      BY <1>2, <2>2 DEF Old
    <2> QED
      BY <1>1, <1>3, <2>1, <2>3
  <1> QED
    BY <1>4

LEMMA ClassifyType ==
    ASSUME NEW result \in SUBSET Signals
    PROVE  Classify(result).weight \in Nat
  BY DEF Classify, Points, Weight

LEMMA AddedFact ==
    ASSUME NEW s \in Seq(Scored), NEW verdict, verdict.weight \in Nat, NEW t, t = Added(s, verdict)
    PROVE  /\ t \in Seq(Scored)
           /\ Len(t) \in {Len(s), Len(s) + 1} /\ Len(s) \in Nat
           /\ \A i \in 1..Len(s) : t[i] = s[i]
           /\ \A i \in 1..Len(t) : i > Len(s) => t[i].age = 0
  <1> DEFINE e == [age |-> 0, weight |-> verdict.weight]
  <1>1. e \in Scored /\ e.age = 0
    BY WindowAssumption DEF Scored
  <1> HIDE DEF e
  <1>2. CASE t = Append(s, e)
    <2>1. /\ t \in Seq(Scored) /\ Len(t) = Len(s) + 1 /\ Len(s) \in Nat
          /\ \A i \in 1..Len(s) : t[i] = s[i]
          /\ t[Len(s) + 1] = e
      BY <1>1, <1>2, AppendProperties
    <2> QED
      BY <1>1, <2>1
  <1>3. CASE t = s
    BY <1>3
  <1> QED
    BY <1>2, <1>3 DEF Added, e

LEMMA AbuseInitHolds == AbuseInit => AbuseIInv
  <1> SUFFICES ASSUME AbuseInit PROVE AbuseIInv
    OBVIOUS
  <1>1. AbuseTypeOK /\ PastSorted
    BY DEF AbuseInit, AbuseTypeOK, PastSorted
  <1>2. <<>> \in Seq(Scored) /\ Len(<<>>) = 0 /\ Old(<<>>) = 1..0
    BY DEF Old
  <1>3. Drop(<<>>, 0) = <<>>
    BY <1>2, DropNone
  <1> QED
    BY <1>1, <1>2, <1>3 DEF AbuseInit, AbuseIInv, Tracks

(* A tracker that was asked has past itself. *)
LEMMA PastTracks ==
    ASSUME AbuseIInv, Old(past)' = {}, past' \in Seq(Scored)
    PROVE  Tracks(past)'
  <1>1. Drop(past', 0) = past'
    BY DropNone
  <1>2. Old(past)' = 1..0 /\ 0 \in 0..Len(past')
    OBVIOUS
  <1> QED
    BY <1>1, <1>2 DEF Tracks

LEMMA LookedStep ==
    ASSUME AbuseIInv, Looked, past' = past, running' \in SUBSET Requests
    PROVE  AbuseIInv'
  <1>1. memory' = past /\ redis' = past /\ past \in Seq(Scored)
    BY PrunedIsPast DEF AbuseIInv, AbuseTypeOK, Looked
  <1>2. Old(past)' = {}
    BY PastIsYoung DEF Old
  <1>3. Tracks(past)'
    BY <1>1, <1>2, PastTracks
  <1> QED
    BY <1>1, <1>3 DEF AbuseIInv, AbuseTypeOK, PastSorted, Tracks, Old

LEMMA RecordStep ==
    ASSUME AbuseIInv, NEW r \in Requests, NEW result \in Results, Record(r, result)
    PROVE  AbuseIInv'
  <1> DEFINE v == Classify(result)
  <1>1. v.weight \in Nat
    BY ResultsAssumption, ClassifyType
  <1> HIDE DEF v
  <1>2. past' = Added(past, v) /\ memory' = past' /\ redis' = past' /\ running' \in SUBSET Requests
    BY PrunedIsPast DEF AbuseIInv, AbuseTypeOK, Record, RedisAdded, v
  <1>3. past \in Seq(Scored) /\ Old(past) = {}
    BY PastIsYoung DEF AbuseIInv, AbuseTypeOK
  <1>4. /\ past' \in Seq(Scored)
        /\ Len(past') \in {Len(past), Len(past) + 1} /\ Len(past) \in Nat
        /\ \A i \in 1..Len(past) : past'[i] = past[i]
        /\ \A i \in 1..Len(past') : i > Len(past) => past'[i].age = 0
    BY <1>1, <1>2, <1>3, AddedFact
  <1>5. \A i \in 1..Len(past) : past[i].age \in Nat /\ past[i].age < Window
    <2> SUFFICES ASSUME NEW i \in 1..Len(past)
                 PROVE  past[i].age \in Nat /\ past[i].age < Window
      OBVIOUS
    <2>1. past[i] \in Scored /\ i \in DOMAIN past
      BY <1>3, ElementOfSeq
    <2> QED
      BY <1>3, <2>1, WindowAssumption DEF Old, Scored
  <1>6. Old(past)' = {}
    BY <1>4, <1>5, WindowAssumption DEF Old
  <1>7. PastSorted'
    <2> SUFFICES ASSUME NEW i \in DOMAIN past', NEW j \in DOMAIN past', i <= j
                 PROVE  past'[i].age >= past'[j].age
      BY DEF PastSorted
    <2>1. i \in 1..Len(past') /\ j \in 1..Len(past')
      BY <1>4
    <2>2. CASE j <= Len(past)
      BY <1>3, <1>4, <2>1, <2>2 DEF AbuseIInv, PastSorted
    <2>3. CASE j > Len(past)
      BY <1>4, <1>5, <2>1, <2>3
    <2> QED
      BY <1>4, <2>1, <2>2, <2>3
  <1>8. Tracks(past)'
    BY <1>4, <1>6, PastTracks
  <1> QED
    BY <1>2, <1>4, <1>7, <1>8 DEF AbuseIInv, AbuseTypeOK, Tracks, Old

(* A tick is seen alike before and after a cut. *)
LEMMA OlderFact ==
    ASSUME NEW s \in Seq(Scored)
    PROVE  /\ Older(s) \in Seq(Scored) /\ Len(Older(s)) = Len(s) /\ Len(s) \in Nat
           /\ \A i \in 1..Len(s) :
                 /\ s[i].age \in 0..(Window + 1)
                 /\ Older(s)[i].age = IF s[i].age <= Window THEN s[i].age + 1 ELSE s[i].age
  <1>1. Len(s) \in Nat /\ DOMAIN s = 1..Len(s) /\ \A i \in 1..Len(s) : s[i] \in Scored
    BY ElementOfSeq
  <1>2. ASSUME NEW e \in Scored
        PROVE  /\ [e EXCEPT !.age = IF @ <= Window THEN @ + 1 ELSE @] \in Scored
               /\ e.age \in 0..(Window + 1)
               /\ [e EXCEPT !.age = IF @ <= Window THEN @ + 1 ELSE @].age
                    = IF e.age <= Window THEN e.age + 1 ELSE e.age
    BY WindowAssumption DEF Scored
  <1>3. Older(s) = [i \in 1..Len(s) |-> [s[i] EXCEPT !.age = IF @ <= Window THEN @ + 1 ELSE @]]
    BY <1>1 DEF Older
  <1>4. Older(s) \in [1..Len(s) -> Scored]
    BY <1>1, <1>2, <1>3
  <1>5. Older(s) \in Seq(Scored) /\ Len(Older(s)) = Len(s)
    BY <1>1, <1>4
  <1> QED
    BY <1>1, <1>2, <1>3, <1>5

LEMMA OlderDrop ==
    ASSUME NEW s \in Seq(Scored), NEW k \in 0..Len(s)
    PROVE  Older(Drop(s, k)) = Drop(Older(s), k)
  <1>1. /\ Drop(s, k) \in Seq(Scored) /\ Len(Drop(s, k)) = Len(s) - k
        /\ \A i \in 1..(Len(s) - k) : Drop(s, k)[i] = s[k + i]
        /\ Len(s) \in Nat
    BY DropFact
  <1>2. Older(s) \in Seq(Scored) /\ Len(Older(s)) = Len(s)
    BY OlderFact
  <1>3. /\ Drop(Older(s), k) \in Seq(Scored) /\ Len(Drop(Older(s), k)) = Len(s) - k
        /\ \A i \in 1..(Len(s) - k) : Drop(Older(s), k)[i] = Older(s)[k + i]
    BY <1>2, DropFact
  <1>4. Older(Drop(s, k)) \in Seq(Scored) /\ Len(Older(Drop(s, k))) = Len(s) - k
    BY <1>1, OlderFact
  <1>5. ASSUME NEW i \in 1..(Len(s) - k)
        PROVE  Older(Drop(s, k))[i] = Drop(Older(s), k)[i]
    <2>1. k + i \in DOMAIN s /\ i \in DOMAIN Drop(s, k)
      BY <1>1
    <2> QED
      BY <1>1, <1>3, <2>1 DEF Older
  <1> QED
    BY <1>3, <1>4, <1>5, SameSeq

(* A set of positions with all before each is a prefix. *)
LEMMA PrefixFact ==
    ASSUME NEW N \in Nat, NEW P \in SUBSET (1..N), \A i \in P : 1..i \subseteq P
    PROVE  \E n \in 0..N : P = 1..n
  <1> DEFINE c == Cardinality(P)
  <1>1. IsFiniteSet(1..N) /\ Cardinality(1..N) = N
    BY FS_Interval
  <1>2. IsFiniteSet(P) /\ c \in Nat /\ c <= N
    BY <1>1, FS_Subset, FS_CardinalityType
  <1>3. ASSUME NEW i \in P PROVE i \in 1..c
    <2>1. 1..i \subseteq P /\ i \in Nat /\ i >= 1
      OBVIOUS
    <2>2. Cardinality(1..i) = i
      BY <2>1, FS_Interval
    <2>3. Cardinality(1..i) <= c
      BY <1>2, <2>1, FS_Subset
    <2> QED
      BY <1>2, <2>1, <2>2, <2>3
  <1>4. IsFiniteSet(1..c) /\ Cardinality(1..c) = c
    BY <1>2, FS_Interval
  <1>5. P = 1..c
    <2>1. P \subseteq 1..c
      BY <1>3
    <2> QED
      BY <1>4, <2>1, FS_Subset
  <1> QED
    BY <1>2, <1>5

(* A tick later, those of past that are old are again a prefix, and go.     *)
LEMMA PastAges ==
    ASSUME AbuseIInv, Tick
    PROVE  \E n \in 0..Len(past) :
              /\ Old(Older(past)) = 1..n /\ past' = Drop(Older(past), n)
  <1> DEFINE aged == Older(past)
  <1>1. /\ aged \in Seq(Scored) /\ Len(aged) = Len(past) /\ Len(past) \in Nat
        /\ \A i \in 1..Len(past) :
              /\ past[i].age \in 0..(Window + 1)
              /\ aged[i].age = IF past[i].age <= Window THEN past[i].age + 1 ELSE past[i].age
    BY OlderFact DEF AbuseIInv, AbuseTypeOK
  <1>2. \A i, j \in 1..Len(past) : i <= j => past[i].age >= past[j].age
    BY DEF AbuseIInv, AbuseTypeOK, PastSorted
  <1>3. past' = Drop(aged, CHOOSE n \in 0..Len(aged) : Old(aged) = 1..n)
    BY DEF Tick
  <1> HIDE DEF aged
  <1>4. Old(aged) \in SUBSET (1..Len(past))
    BY <1>1 DEF Old
  <1>5. ASSUME NEW i \in Old(aged), NEW j \in 1..i PROVE j \in Old(aged)
    <2>1. i \in 1..Len(past) /\ j \in 1..Len(past) /\ j <= i /\ aged[i].age >= Window
      BY <1>1, <1>4 DEF Old
    <2>2. past[j].age >= past[i].age
      BY <1>2, <2>1
    <2>3. aged[j].age >= Window
      BY <1>1, <2>1, <2>2, WindowAssumption
    <2> QED
      BY <1>1, <2>1, <2>3 DEF Old
  <1>6. \E n \in 0..Len(past) : Old(aged) = 1..n
    BY <1>1, <1>4, <1>5, PrefixFact
  <1> QED
    BY <1>1, <1>3, <1>6 DEF aged

(* ... and of each tracker what it has not pruned, and these.               *)
LEMMA TracksAges ==
    ASSUME AbuseIInv, Tick, NEW s \in Seq(Scored), Tracks(s),
           NEW n \in 0..Len(past), Old(Older(past)) = 1..n, past' = Drop(Older(past), n)
    PROVE  \E k \in 0..Len(Older(s)) : Old(Older(s)) = 1..k /\ past' = Drop(Older(s), k)
  <1>1. PICK k \in 0..Len(s) : Old(s) = 1..k /\ past = Drop(s, k)
    BY DEF Tracks
  <1>2. /\ Older(s) \in Seq(Scored) /\ Len(Older(s)) = Len(s) /\ Len(s) \in Nat
        /\ \A i \in 1..Len(s) :
              /\ s[i].age \in 0..(Window + 1)
              /\ Older(s)[i].age = IF s[i].age <= Window THEN s[i].age + 1 ELSE s[i].age
    BY OlderFact
  <1>3. Older(past) = Drop(Older(s), k)
    BY <1>1, OlderDrop
  <1>4. Len(past) = Len(s) - k /\ k \in Nat /\ n \in Nat
    BY <1>1, DropFact
  <1>5. past' = Drop(Older(s), k + n) /\ k + n \in 0..Len(Older(s))
    BY <1>2, <1>3, <1>4, DropTwice
  <1>6. k \in 0..Len(Older(s))
    BY <1>2
  <1>7. /\ Older(past) \in Seq(Scored) /\ Len(Older(past)) = Len(s) - k
        /\ \A i \in 1..(Len(s) - k) : Older(past)[i] = Older(s)[k + i]
    <2> DEFINE t == Older(s)
    <2>1. /\ Drop(t, k) \in Seq(Scored) /\ Len(Drop(t, k)) = Len(t) - k
          /\ \A i \in 1..(Len(t) - k) : Drop(t, k)[i] = t[k + i]
      <3> HIDE DEF t
      <3> QED
        BY <1>2, <1>6, DropFact DEF t
    <2> QED
      BY <1>2, <1>3, <2>1
  <1>8. ASSUME NEW i \in 1..Len(s) PROVE i \in Old(Older(s)) <=> i \in 1..(k + n)
    <2>1. CASE i <= k
      <3>1. i \in Old(s)
        BY <1>1, <2>1
      <3>2. s[i].age >= Window
        BY <3>1 DEF Old
      <3>3. Older(s)[i].age >= Window
        BY <1>2, <3>2, WindowAssumption
      <3> QED
        BY <1>2, <1>4, <2>1, <3>3 DEF Old
    <2>2. CASE i > k
      <3> DEFINE j == i - k
      <3>1. j \in 1..(Len(s) - k) /\ k + j = i
        BY <1>2, <1>4, <2>2
      <3> HIDE DEF j
      <3>2. Older(past)[j] = Older(s)[i]
        BY <1>7, <3>1
      <3>3. i \in Old(Older(s)) <=> j \in Old(Older(past))
        BY <1>2, <1>7, <3>1, <3>2 DEF Old
      <3> QED
        BY <1>2, <1>4, <3>1, <3>3
    <2> QED
      BY <1>4, <2>1, <2>2
  <1>9. Old(Older(s)) = 1..(k + n)
    <2>1. Old(Older(s)) \subseteq 1..Len(s)
      BY <1>2 DEF Old
    <2>2. 1..(k + n) \subseteq 1..Len(s)
      BY <1>2, <1>4
    <2> QED
      BY <1>8, <2>1, <2>2
  <1> QED
    BY <1>5, <1>9

LEMMA TickAgesStep == ASSUME AbuseIInv, Tick PROVE AbuseIInv'
  <1>0. past \in Seq(Scored) /\ memory \in Seq(Scored) /\ redis \in Seq(Scored)
    BY DEF AbuseIInv, AbuseTypeOK
  <1>1. PICK n \in 0..Len(past) : Old(Older(past)) = 1..n /\ past' = Drop(Older(past), n)
    BY PastAges
  <1>2. /\ Older(past) \in Seq(Scored) /\ Len(Older(past)) = Len(past) /\ Len(past) \in Nat
        /\ \A i \in 1..Len(past) :
              /\ past[i].age \in 0..(Window + 1)
              /\ Older(past)[i].age = IF past[i].age <= Window THEN past[i].age + 1 ELSE past[i].age
    BY <1>0, OlderFact
  <1>3. /\ past' \in Seq(Scored) /\ Len(past') = Len(past) - n
        /\ \A i \in 1..(Len(past) - n) : past'[i] = Older(past)[n + i]
    BY <1>1, <1>2, DropFact
  <1>4. PastSorted'
    <2> SUFFICES ASSUME NEW i \in DOMAIN past', NEW j \in DOMAIN past', i <= j
                 PROVE  past'[i].age >= past'[j].age
      BY DEF PastSorted
    <2>1. n + i \in 1..Len(past) /\ n + j \in 1..Len(past) /\ n + i <= n + j
          /\ i \in 1..(Len(past) - n) /\ j \in 1..(Len(past) - n)
      BY <1>2, <1>3
    <2>2. past[n + i].age >= past[n + j].age
      BY <2>1, <1>0 DEF AbuseIInv, PastSorted
    <2>3. Older(past)[n + i].age >= Older(past)[n + j].age
      <3>1. \A a, b \in 0..(Window + 1) :
               a >= b => (IF a <= Window THEN a + 1 ELSE a) >= (IF b <= Window THEN b + 1 ELSE b)
        BY WindowAssumption
      <3> DEFINE a == past[n + i].age
                 b == past[n + j].age
      <3>2. /\ a \in 0..(Window + 1) /\ b \in 0..(Window + 1) /\ a >= b
            /\ Older(past)[n + i].age = IF a <= Window THEN a + 1 ELSE a
            /\ Older(past)[n + j].age = IF b <= Window THEN b + 1 ELSE b
        BY <1>2, <2>1, <2>2
      <3> HIDE DEF a, b
      <3> QED
        BY <3>1, <3>2
    <2> QED
      BY <1>3, <2>1, <2>3
  <1>5. Tracks(memory)'
    <2>1. memory' = Older(memory)
      BY DEF Tick
    <2>2. \E k \in 0..Len(Older(memory)) :
             Old(Older(memory)) = 1..k /\ past' = Drop(Older(memory), k)
      BY <1>0, <1>1, TracksAges DEF AbuseIInv
    <2> QED
      BY <2>1, <2>2 DEF Tracks
  <1>6. Tracks(redis)' /\ redis' \in Seq(Scored)
    <2>1. CASE redis' = Older(redis)
      <3>1. \E k \in 0..Len(Older(redis)) :
               Old(Older(redis)) = 1..k /\ past' = Drop(Older(redis), k)
        BY <1>0, <1>1, TracksAges DEF AbuseIInv
      <3> QED
        BY <1>0, <2>1, <3>1, OlderFact DEF Tracks
    <2>2. CASE redis # <<>> /\ redis[Len(redis)].age >= Window /\ redis' = <<>>
      <3>1. PICK k \in 0..Len(redis) : Old(redis) = 1..k /\ past = Drop(redis, k)
        BY DEF AbuseIInv, Tracks
      <3>2. Len(redis) \in Nat /\ Len(redis) >= 1 /\ DOMAIN redis = 1..Len(redis)
        BY <1>0, <2>2
      <3>3. Len(redis) \in Old(redis)
        BY <2>2, <3>2 DEF Old
      <3>4. Len(redis) <= k
        BY <3>1, <3>3
      <3>5. Len(past') = 0
        <4>1. Len(past) = Len(redis) - k
          BY <1>0, <3>1, DropFact
        <4>2. Len(past) = 0 /\ n = 0
          BY <1>2, <3>1, <3>2, <3>4, <4>1
        <4> QED
          BY <1>3, <4>2
      <3>6. past' = <<>>
        BY <1>3, <3>5
      <3>7. <<>> \in Seq(Scored) /\ Old(<<>>) = 1..0 /\ 0 \in 0..Len(<<>>)
        BY DEF Old
      <3>8. Drop(<<>>, 0) = <<>>
        BY <3>7, DropNone
      <3>9. Tracks(<<>>)'
        BY <3>6, <3>7, <3>8 DEF Tracks, Old
      <3> QED
        BY <2>2, <3>7, <3>9 DEF Tracks, Old, Drop
    <2> QED
      BY <2>1, <2>2 DEF Tick
  <1>7. memory' \in Seq(Scored) /\ running' = running
    BY <1>0, OlderFact DEF Tick
  <1> QED
    BY <1>3, <1>4, <1>5, <1>6, <1>7 DEF AbuseIInv, AbuseTypeOK

LEMMA AbuseNextStep == AbuseIInv /\ [AbuseNext]_abuseVars => AbuseIInv'
  <1> SUFFICES ASSUME AbuseIInv, [AbuseNext]_abuseVars PROVE AbuseIInv'
    OBVIOUS
  <1>1. CASE UNCHANGED abuseVars
    BY <1>1 DEF abuseVars, AbuseIInv, AbuseTypeOK, PastSorted, Tracks, Old
  <1>2. ASSUME NEW r \in Requests, Admit(r) PROVE AbuseIInv'
    <2>1. Looked /\ past' = past /\ running' \in SUBSET Requests
      BY <1>2 DEF Admit, AbuseIInv, AbuseTypeOK
    <2> QED
      BY <2>1, LookedStep
  <1>3. CASE Look
    <2>1. Looked /\ past' = past /\ running' \in SUBSET Requests
      BY <1>3 DEF Look, AbuseIInv, AbuseTypeOK
    <2> QED
      BY <2>1, LookedStep
  <1>4. ASSUME NEW r \in Requests, Lost(r) PROVE AbuseIInv'
    BY <1>4 DEF Lost, AbuseIInv, AbuseTypeOK, PastSorted, Tracks, Old
  <1>5. ASSUME NEW r \in Requests, NEW result \in Results, Record(r, result) PROVE AbuseIInv'
    BY <1>5, RecordStep
  <1>6. CASE Tick
    BY <1>6, TickAgesStep
  <1> QED
    BY <1>1, <1>2, <1>3, <1>4, <1>5, <1>6 DEF AbuseNext, Ends

(* AbuseIInv is an invariant of the two trackers.                           *)
THEOREM AbuseInvariance == AbuseSpec => []AbuseIInv
  BY AbuseInitHolds, AbuseNextStep, PTL DEF AbuseSpec

(* The trackers keep sequences of scored events.                            *)
THEOREM AbuseTypeCorrect == AbuseSpec => []AbuseTypeOK
  <1>1. AbuseIInv => AbuseTypeOK
    BY DEF AbuseIInv
  <1> QED
    BY <1>1, AbuseInvariance, PTL

(* Both trackers always give the score of exactly the last window.          *)
THEOREM ScoreIsThatOfTheWindow == AbuseSpec => []ScoreIsWindow
  <1>1. AbuseIInv => ScoreIsWindow
    BY PrunedIsPast DEF AbuseIInv, AbuseTypeOK, ScoreIsWindow, MemoryScore, RedisScore
  <1> QED
    BY <1>1, AbuseInvariance, PTL
=============================================================================
