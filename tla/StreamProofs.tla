---------------------------- MODULE StreamProofs ----------------------------
(***************************************************************************)
(* Safety of POST /execute/stream for every finite set of requests, every  *)
(* number of slots and every amount of output: what it takes of the        *)
(* semaphore and of the limiter, and what becomes of its sandboxes.        *)
(***************************************************************************)
EXTENDS Stream, FiniteSetTheorems, TLAPS

Places == Begun \cup {"new", "refused", "admitted", "over"}

Types ==
    /\ at \in [Streams -> Places]
    /\ sandbox \in [Streams -> {"none", "compile", "run", "gone"}]
    /\ faults \in [Streams -> SUBSET Faults]

(* Where no sandbox of the request is alive yet, or any more. *)
Early == {"new", "refused", "admitted", "acquiring", "busy", "spawning", "stderr"}

(* Once nobody is going to end it, a living sandbox has somebody to blame. *)
Lives(s) ==
    /\ at[s] \in Early => ~Alive(s)
    /\ at[s] \in {"saving", "finishing"} /\ Alive(s) => "kill hung" \in faults[s]
    /\ at[s] = "over" /\ Alive(s) => faults[s] \cap {"cut", "kill hung"} # {}

(* A request that holds a place in the limiter is not also a leaked one. *)
Enters(s) == "never begun" \in faults[s] => at[s] = "over"

Own(s) == Lives(s) /\ Enters(s)

Local == \A s \in Streams : Own(s)

Holders == {s \in Streams : at[s] \in Holding}

(* The requests that the limiter's count stands for. *)
Counted ==
    {s \in Streams :
        at[s] \in Begun \cup {"admitted"} \/ "never begun" \in faults[s]}

Counts ==
    /\ free \in Nat /\ free + Cardinality(Holders) = Slots
    /\ inflight = Cardinality(Counted)

IInv == Types /\ Local /\ Counts

-----------------------------------------------------------------------------

LEMMA InvInit == Init => IInv
  <1> SUFFICES ASSUME Init PROVE IInv
    OBVIOUS
  <1> USE DEF Init, Early, Places, Begun, Holding, InnerAwaits
  <1>1. Types
    BY DEF Types
  <1>2. Local
    BY DEF Local, Own, Lives, Enters, Alive
  <1>3. Holders = {} /\ Counted = {}
    BY DEF Holders, Counted
  <1>4. Counts
    BY <1>3, FS_EmptySet, BoundsAssumption DEF Counts
  <1> QED
    BY <1>1, <1>2, <1>4 DEF IInv

-----------------------------------------------------------------------------
(* Every step keeps what is said of each request by itself.                 *)

LEMMA LocalStep ==
    ASSUME Types, Local, Next
    PROVE  Types' /\ Local'
  <1> USE DEF Types, Places, Begun, Holding, InnerAwaits
  <1>1. ASSUME NEW s \in Streams, NeverBegins(s) PROVE Types' /\ Local'
    <2>1. Types'
      BY <1>1 DEF NeverBegins, Goto, Fault, run, Faults
    <2>2. Local'
      BY <1>1
         DEF NeverBegins, Goto, Fault, run, Local, Own, Lives, Enters, Alive,
             Early
    <2> QED
      BY <2>1, <2>2
  <1>2. ASSUME NEW s \in Streams, Begin(s) PROVE Types' /\ Local'
    <2>1. Types'
      BY <1>2 DEF Begin, Goto, run
    <2>2. Local'
      BY <1>2 DEF Begin, Goto, run, Local, Own, Lives, Enters, Alive, Early
    <2> QED
      BY <2>1, <2>2
  <1>3. ASSUME NEW s \in Streams, SlotTimeout(s) PROVE Types' /\ Local'
    <2>1. Types'
      BY <1>3 DEF SlotTimeout, Goto, Tell, run
    <2>2. Local'
      BY <1>3
         DEF SlotTimeout, Goto, Tell, run, Local, Own, Lives, Enters, Alive,
             Early
    <2> QED
      BY <2>1, <2>2
  <1>4. ASSUME NEW s \in Streams, SlotTaken(s) PROVE Types' /\ Local'
    <2>1. Types'
      BY <1>4 DEF SlotTaken, Goto, run
    <2>2. Local'
      BY <1>4 DEF SlotTaken, Goto, run, Local, Own, Lives, Enters, Alive, Early
    <2> QED
      BY <2>1, <2>2
  <1>5. ASSUME NEW s \in Streams, Saved(s) PROVE Types' /\ Local'
    <2>1. Types'
      BY <1>5 DEF Saved, Goto, Tell, run
    <2>2. Local'
      BY <1>5
         DEF Saved, Goto, Tell, run, Local, Own, Lives, Enters, Alive, Early
    <2> QED
      BY <2>1, <2>2
  <1>6. ASSUME NEW s \in Streams, SaveFails(s) PROVE Types' /\ Local'
    <2>1. Types'
      BY <1>6 DEF SaveFails, Goto, Fault, run, Faults
    <2>2. Local'
      BY <1>6
         DEF SaveFails, Goto, Fault, run, Local, Own, Lives, Enters, Alive,
             Early
    <2> QED
      BY <2>1, <2>2
  <1>7. ASSUME NEW s \in Streams, Dropped(s) PROVE Types' /\ Local'
    <2>1. UNCHANGED <<at, sandbox, faults>>
      BY <1>7 DEF Dropped, run
    <2> QED
      BY <2>1 DEF Local, Own, Lives, Enters, Alive
  <1>8. ASSUME NEW s \in Streams, Compiled(s) PROVE Types' /\ Local'
    <2>1. Types'
      BY <1>8 DEF Compiled, Goto, Conclude, run
    <2>2. Local'
      BY <1>8
         DEF Compiled, Goto, Conclude, run, Local, Own, Lives, Enters, Alive,
             Early
    <2> QED
      BY <2>1, <2>2
  <1>9. ASSUME NEW s \in Streams, CompileRaises(s) PROVE Types' /\ Local'
    <2>1. Types'
      BY <1>9 DEF CompileRaises, Goto, Conclude, Fault, run, Faults
    <2>2. Local'
      <3>1. CASE sandbox' = [sandbox EXCEPT ![s] = "none"] /\ UNCHANGED faults
        BY <1>9, <3>1 DEF CompileRaises, Goto, Conclude, Local, Own, Lives,
           Enters, Alive, Early
      <3>2. CASE Fault(s, "kill hung") /\ UNCHANGED sandbox
        BY <1>9, <3>2 DEF CompileRaises, Goto, Conclude, Fault, Local, Own,
           Lives, Enters, Alive, Early
      <3> QED
        BY <1>9, <3>1, <3>2 DEF CompileRaises
    <2> QED
      BY <2>1, <2>2
  <1>10. ASSUME NEW s \in Streams, Spawned(s) PROVE Types' /\ Local'
    <2>1. Types'
      BY <1>10 DEF Spawned, Goto, run
    <2>2. Local'
      BY <1>10 DEF Spawned, Goto, run, Local, Own, Lives, Enters, Alive, Early
    <2> QED
      BY <2>1, <2>2
  <1>11. ASSUME NEW s \in Streams, SpawnFails(s) PROVE Types' /\ Local'
    <2>1. Types'
      BY <1>11 DEF SpawnFails, Goto, Conclude, run
    <2>2. Local'
      BY <1>11
         DEF SpawnFails, Goto, Conclude, run, Local, Own, Lives, Enters,
             Alive, Early
    <2> QED
      BY <2>1, <2>2
  <1>12. ASSUME NEW s \in Streams, TakeEof(s) PROVE Types' /\ Local'
    <2>1. Types'
      BY <1>12 DEF TakeEof, Goto, run
    <2>2. Local'
      BY <1>12 DEF TakeEof, Goto, run, Local, Own, Lives, Enters, Alive, Early
    <2> QED
      BY <2>1, <2>2
  <1>13. ASSUME NEW s \in Streams, TakeChunk(s) PROVE Types' /\ Local'
    <2>1. Types'
      BY <1>13 DEF TakeChunk, Goto, run
    <2>2. Local'
      BY <1>13
         DEF TakeChunk, Goto, run, Local, Own, Lives, Enters, Alive, Early
    <2> QED
      BY <2>1, <2>2
  <1>14. ASSUME NEW s \in Streams, Timeout(s) PROVE Types' /\ Local'
    <2>1. Types'
      BY <1>14 DEF Timeout, Goto, TimedOut, run
    <2>2. Local'
      BY <1>14
         DEF Timeout, Goto, TimedOut, run, Local, Own, Lives, Enters, Alive,
             Early
    <2> QED
      BY <2>1, <2>2
  <1>15. ASSUME NEW s \in Streams, KillHangs(s) PROVE Types' /\ Local'
    <2>1. Types'
      BY <1>15 DEF KillHangs, Goto, TimedOut, Conclude, Fault, run, Faults
    <2>2. Local'
      <3>1. CASE Alive(s) /\ Fault(s, "kill hung")
        BY <1>15, <3>1 DEF KillHangs, Goto, TimedOut, Conclude, Fault, Local, Own,
           Lives, Enters, Alive, Early
      <3>2. CASE ~Alive(s) /\ UNCHANGED faults
        BY <1>15, <3>2 DEF KillHangs, Goto, TimedOut, Conclude, Local, Own, Lives,
           Enters, Alive, Early
      <3> QED
        BY <1>15, <3>1, <3>2 DEF KillHangs
    <2> QED
      BY <2>1, <2>2
  <1>16. ASSUME NEW s \in Streams, ProcKill(s) PROVE Types' /\ Local'
    <2>1. Types'
      BY <1>16 DEF ProcKill, run
    <2>2. Local'
      BY <1>16 DEF ProcKill, run, Local, Own, Lives, Enters, Alive, Early
    <2> QED
      BY <2>1, <2>2
  <1>17. ASSUME NEW s \in Streams, Reaped(s) PROVE Types' /\ Local'
    <2>1. Types'
      BY <1>17 DEF Reaped, Goto, Conclude, run
    <2>2. Local'
      BY <1>17
         DEF Reaped, Goto, Conclude, run, Local, Own, Lives, Enters, Alive,
             Early
    <2> QED
      BY <2>1, <2>2
  <1>18. ASSUME NEW s \in Streams, Refuse(s) PROVE Types' /\ Local'
    <2>1. Types'
      BY <1>18 DEF Refuse, Goto, run
    <2>2. Local'
      BY <1>18 DEF Refuse, Goto, run, Local, Own, Lives, Enters, Alive, Early
    <2> QED
      BY <2>1, <2>2
  <1>19. ASSUME NEW s \in Streams, Admit(s) PROVE Types' /\ Local'
    <2>1. Types'
      BY <1>19 DEF Admit, Goto, run
    <2>2. Local'
      BY <1>19 DEF Admit, Goto, run, Local, Own, Lives, Enters, Alive, Early
    <2> QED
      BY <2>1, <2>2
  <1>20. ASSUME NEW s \in Streams, StderrTaken(s) PROVE Types' /\ Local'
    <2>1. Types'
      BY <1>20 DEF StderrTaken, Goto, Conclude, run
    <2>2. Local'
      BY <1>20
         DEF StderrTaken, Goto, Conclude, run, Local, Own, Lives, Enters,
             Alive, Early
    <2> QED
      BY <2>1, <2>2
  <1>21. ASSUME NEW s \in Streams, ChunkTaken(s) PROVE Types' /\ Local'
    <2>1. Types'
      BY <1>21 DEF ChunkTaken, Goto, run
    <2>2. Local'
      BY <1>21
         DEF ChunkTaken, Goto, run, Local, Own, Lives, Enters, Alive, Early
    <2> QED
      BY <2>1, <2>2
  <1>22. ASSUME NEW s \in Streams, Finish(s) PROVE Types' /\ Local'
    <2>1. Types'
      BY <1>22 DEF Finish, Goto, run
    <2>2. Local'
      BY <1>22 DEF Finish, Goto, run, Local, Own, Lives, Enters, Alive, Early
    <2> QED
      BY <2>1, <2>2
  <1>23. ASSUME NEW s \in Streams, Cut(s) PROVE Types' /\ Local'
    <2>1. Types'
      BY <1>23 DEF Cut, Goto, Fault, run, Faults
    <2>2. Local'
      BY <1>23
         DEF Cut, Goto, Fault, run, Local, Own, Lives, Enters, Alive, Early
    <2> QED
      BY <2>1, <2>2
  <1>24. ASSUME NEW s \in Streams, Chunk(s) PROVE Types' /\ Local'
    <2>1. UNCHANGED <<at, sandbox, faults>>
      BY <1>24 DEF Chunk, Pumping, run
    <2> QED
      BY <2>1 DEF Local, Own, Lives, Enters, Alive
  <1>25. ASSUME NEW s \in Streams, Eof(s) PROVE Types' /\ Local'
    <2>1. UNCHANGED <<at, sandbox, faults>>
      BY <1>25 DEF Eof, Pumping, run
    <2> QED
      BY <2>1 DEF Local, Own, Lives, Enters, Alive
  <1>26. ASSUME NEW s \in Streams, DeadlinePasses(s) PROVE Types' /\ Local'
    <2>1. UNCHANGED <<at, sandbox, faults>>
      BY <1>26 DEF DeadlinePasses, run
    <2> QED
      BY <2>1 DEF Local, Own, Lives, Enters, Alive
  <1>27. ASSUME NEW s \in Streams, SandboxEnds(s) PROVE Types' /\ Local'
    <2>1. Types'
      BY <1>27 DEF SandboxEnds, run
    <2>2. Local'
      BY <1>27 DEF SandboxEnds, run, Local, Own, Lives, Enters, Alive, Early
    <2> QED
      BY <2>1, <2>2
  <1>28. CASE Finished
    BY <1>28 DEF Finished, vars, Local, Own, Lives, Enters, Alive
  <1>29. CASE \E s \in Streams : RouteStep(s)
    BY <1>29, <1>1, <1>2, <1>3, <1>4, <1>5, <1>6, <1>7 DEF RouteStep
  <1>30. CASE \E s \in Streams : ExecutorStep(s)
    BY <1>30, <1>8, <1>9, <1>10, <1>11, <1>12, <1>13, <1>14, <1>15, <1>16,
           <1>17 DEF ExecutorStep
  <1>31. CASE \E s \in Streams : ClientStep(s)
    BY <1>31, <1>18, <1>19, <1>20, <1>21, <1>22, <1>23 DEF ClientStep
  <1>32. CASE \E s \in Streams : PumpStep(s)
    BY <1>32, <1>24, <1>25 DEF PumpStep
  <1> QED
    BY <1>28, <1>29, <1>30, <1>31, <1>32, <1>26, <1>27 DEF Next

-----------------------------------------------------------------------------
(* The counts: most steps leave both sets, and both counts, as they are.    *)

LEMMA Finite == IsFiniteSet(Holders) /\ IsFiniteSet(Counted)
  BY StreamsAssumption, FS_Subset DEF Holders, Counted

Uncounted(s) ==
    \/ NeverBegins(s) \/ Begin(s) \/ SlotTimeout(s) \/ Saved(s) \/ Dropped(s)
    \/ ExecutorStep(s) \/ Refuse(s) \/ StderrTaken(s) \/ ChunkTaken(s) \/ PumpStep(s)
    \/ DeadlinePasses(s) \/ SandboxEnds(s)

LEMMA UncountedStep ==
    ASSUME Types, Local, NEW s \in Streams, Uncounted(s)
    PROVE  Holders' = Holders /\ Counted' = Counted /\ UNCHANGED counts
  <1> USE DEF Types, Places, Begun, Holding, InnerAwaits, Holders, Counted, counts
  <1>1. CASE NeverBegins(s)
    BY <1>1 DEF NeverBegins, Goto, Fault
  <1>2. CASE Begin(s)
    BY <1>2 DEF Begin, Goto
  <1>3. CASE SlotTimeout(s)
    BY <1>3 DEF SlotTimeout, Goto, Tell
  <1>4. CASE Saved(s)
    BY <1>4 DEF Saved, Goto, Tell
  <1>5. CASE Dropped(s)
    BY <1>5 DEF Dropped
  <1>6. CASE Compiled(s)
    BY <1>6 DEF Compiled, Goto, Conclude
  <1>7. CASE CompileRaises(s)
    BY <1>7 DEF CompileRaises, Goto, Conclude, Fault
  <1>8. CASE Spawned(s)
    BY <1>8 DEF Spawned, Goto
  <1>9. CASE SpawnFails(s)
    BY <1>9 DEF SpawnFails, Goto, Conclude
  <1>10. CASE TakeEof(s)
    BY <1>10 DEF TakeEof, Goto
  <1>11. CASE TakeChunk(s)
    BY <1>11 DEF TakeChunk, Goto
  <1>12. CASE Timeout(s)
    BY <1>12 DEF Timeout, Goto, TimedOut
  <1>13. CASE KillHangs(s)
    BY <1>13 DEF KillHangs, Goto, TimedOut, Conclude, Fault
  <1>14. CASE ProcKill(s)
    BY <1>14 DEF ProcKill
  <1>15. CASE Reaped(s)
    BY <1>15 DEF Reaped, Goto, Conclude
  <1>16. CASE Refuse(s)
    BY <1>16 DEF Refuse, Goto
  <1>17. CASE StderrTaken(s)
    BY <1>17 DEF StderrTaken, Goto, Conclude
  <1>18. CASE ChunkTaken(s)
    BY <1>18 DEF ChunkTaken, Goto
  <1>19. CASE Chunk(s)
    BY <1>19 DEF Chunk, Pumping
  <1>20. CASE Eof(s)
    BY <1>20 DEF Eof, Pumping
  <1>21. CASE DeadlinePasses(s)
    BY <1>21 DEF DeadlinePasses
  <1>22. CASE SandboxEnds(s)
    BY <1>22 DEF SandboxEnds
  <1> QED
    BY <1>1, <1>2, <1>3, <1>4, <1>5, <1>6, <1>7, <1>8, <1>9, <1>10, <1>11,
           <1>12, <1>13, <1>14, <1>15, <1>16, <1>17, <1>18, <1>19, <1>20,
           <1>21, <1>22 DEF Uncounted, ExecutorStep, PumpStep

LEMMA CountStep ==
    ASSUME IInv, Next
    PROVE  Counts'
  <1> USE DEF IInv
  <1>1. ASSUME NEW s \in Streams, Uncounted(s) PROVE Counts'
    BY <1>1, UncountedStep DEF Counts, counts
  <1>2. ASSUME NEW s \in Streams, Admit(s) PROVE Counts'
    <2>1. Holders' = Holders /\ UNCHANGED free
      BY <1>2 DEF Admit, Goto, Types, Holders, Holding, InnerAwaits
    <2>2. Counted' = Counted \cup {s} /\ s \notin Counted
      BY <1>2 DEF Admit, Goto, Types, Counted, Begun, Holding, InnerAwaits,
         Local, Own, Enters
    <2>3. inflight' = Cardinality(Counted')
      BY <1>2, <2>2, Finite, FS_AddElement DEF Admit, Counts
    <2> QED
      BY <2>1, <2>3 DEF Counts
  <1>3. ASSUME NEW s \in Streams, SlotTaken(s) PROVE Counts'
    <2>1. Counted' = Counted /\ UNCHANGED inflight
      BY <1>3 DEF SlotTaken, Goto, Types, Counted, Begun, Holding, InnerAwaits
    <2>2. Holders' = Holders \cup {s} /\ s \notin Holders
      BY <1>3 DEF SlotTaken, Goto, Types, Holders, Holding, InnerAwaits
    <2>3. Cardinality(Holders') = Cardinality(Holders) + 1
      BY <2>2, Finite, FS_AddElement
    <2>4. Cardinality(Holders) \in Nat
      BY Finite, FS_CardinalityType
    <2>5. free > 0 /\ free' = free - 1
      BY <1>3 DEF SlotTaken
    <2> QED
      BY <2>1, <2>3, <2>4, <2>5, BoundsAssumption DEF Counts
  <1>4. ASSUME NEW s \in Streams, at[s] \in Begun, Goto(s, "over"), Release(s),
               "never begun" \in faults'[s] => "never begun" \in faults[s],
               \A t \in Streams \ {s} : faults'[t] = faults[t]
        PROVE  Counts'
    <2>1. Counted' = Counted \ {s} /\ s \in Counted
      BY <1>4 DEF Goto, Types, Counted, Begun, Holding, InnerAwaits, Local, Own,
         Enters
    <2>2. inflight' = Cardinality(Counted')
      <3>1. Cardinality(Counted') = Cardinality(Counted) - 1
        BY <2>1, Finite, FS_RemoveElement
      <3> QED
        BY <1>4, <3>1 DEF Release, Counts
    <2>3. CASE at[s] \in Holding
      <3>1. Holders' = Holders \ {s} /\ s \in Holders
        BY <1>4, <2>3 DEF Goto, Types, Holders, Holding, InnerAwaits
      <3>2. Cardinality(Holders') = Cardinality(Holders) - 1
        BY <3>1, Finite, FS_RemoveElement
      <3>3. Cardinality(Holders) \in Nat
        BY Finite, FS_CardinalityType
      <3>4. free' = free + 1
        BY <1>4, <2>3 DEF Release
      <3> QED
        BY <2>2, <3>2, <3>3, <3>4, BoundsAssumption DEF Counts
    <2>4. CASE at[s] \notin Holding
      <3>1. Holders' = Holders
        BY <1>4, <2>4 DEF Goto, Types, Holders, Holding, InnerAwaits
      <3>2. free' = free
        BY <1>4, <2>4 DEF Release
      <3> QED
        BY <2>2, <3>1, <3>2 DEF Counts
    <2> QED
      BY <2>3, <2>4
  <1>5. ASSUME NEW s \in Streams, SaveFails(s) PROVE Counts'
    <2>1. at[s] \in Begun /\ Goto(s, "over") /\ Release(s)
      BY <1>5 DEF SaveFails, Begun, Holding
    <2>2. "never begun" \in faults'[s] => "never begun" \in faults[s]
      BY <1>5 DEF SaveFails, Fault, Types
    <2>3. \A t \in Streams \ {s} : faults'[t] = faults[t]
      BY <1>5 DEF SaveFails, Fault, Types
    <2> QED
      BY <1>4, <2>1, <2>2, <2>3
  <1>6. ASSUME NEW s \in Streams, Finish(s) PROVE Counts'
    <2>1. at[s] \in Begun /\ Goto(s, "over") /\ Release(s) /\ UNCHANGED faults
      BY <1>6 DEF Finish, Begun, Holding
    <2> QED
      BY <1>4, <2>1
  <1>7. ASSUME NEW s \in Streams, Cut(s) PROVE Counts'
    <2>1. at[s] \in Begun /\ Goto(s, "over") /\ Release(s)
      BY <1>7 DEF Cut
    <2>2. "never begun" \in faults'[s] => "never begun" \in faults[s]
      BY <1>7 DEF Cut, Fault, Types
    <2>3. \A t \in Streams \ {s} : faults'[t] = faults[t]
      BY <1>7 DEF Cut, Fault, Types
    <2> QED
      BY <1>4, <2>1, <2>2, <2>3
  <1>8. CASE Finished
    BY <1>8 DEF Finished, vars, Counts, Holders, Counted
  <1>9. CASE \E s \in Streams : ~Uncounted(s) /\ (RouteStep(s) \/ ClientStep(s))
    BY <1>2, <1>3, <1>5, <1>6, <1>7, <1>9 DEF Uncounted, RouteStep, ClientStep
  <1>10. CASE \E s \in Streams : Uncounted(s)
    BY <1>1, <1>10
  <1> QED
    BY <1>8, <1>9, <1>10 DEF Next, Uncounted

-----------------------------------------------------------------------------
(* The output and its end: what the queue between the pumps and the          *)
(* generator holds, and what the client is told.                            *)

FlowTypes ==
    /\ pipes \in [Streams -> 0..2]
    /\ q \in [Streams -> Seq({"chunk", "eof"})]
    /\ eofs \in [Streams -> 0..2]
    /\ late \in [Streams -> BOOLEAN]
    /\ outcome \in [Streams -> Outcomes]
    /\ hasDir \in [Streams -> BOOLEAN]
    /\ written \in [Streams -> 0..MaxChunks]
    /\ sent \in [Streams -> Nat]
    /\ told \in [Streams -> Nat]

(* w holds n ends. *)
Ends(w, n) ==
    \/ n = 0 /\ \A i \in 1..Len(w) : w[i] = "chunk"
    \/ n = 1 /\ \E i \in 1..Len(w) :
                   w[i] = "eof" /\ \A j \in 1..Len(w) : j # i => w[j] = "chunk"
    \/ n = 2 /\ \E i, k \in 1..Len(w) :
                   /\ i < k /\ w[i] = "eof" /\ w[k] = "eof"
                   /\ \A j \in 1..Len(w) : j # i /\ j # k => w[j] = "chunk"

LastIsEof(w) == w # <<>> => w[Len(w)] = "eof"

(* The ends in the queue are those that were neither taken nor are still to  *)
(* come; when both have come, the last entry is one of them.                *)
Waiting(s) == 2 - eofs[s] - pipes[s]

Queued(s) ==
    /\ Ends(q[s], Waiting(s))
    /\ pipes[s] = 0 => LastIsEof(q[s])
    /\ written[s] = sent[s] + Len(q[s]) - Waiting(s)

(* Before the run. *)
Unread == {"new", "refused", "admitted", "acquiring", "compiling", "spawning"}

Flow(s) ==
    /\ at[s] \in Unread => q[s] = <<>> /\ eofs[s] = 0 /\ sent[s] = 0 /\ written[s] = 0
    /\ at[s] \in {"reading", "emitting"} => Queued(s)
    /\ outcome[s] = "exited" =>
         sent[s] = written[s] /\ at[s] \in {"reaping", "saving", "finishing", "over"}

(* Who was told the end, and who was not but could not be. *)
Answered(s) ==
    /\ at[s] \notin {"busy", "finishing", "over"} => told[s] = 0
    /\ at[s] \in {"busy", "finishing"} => told[s] = 1
    /\ at[s] = "over" => told[s] \in {0, 1}
    /\ at[s] = "over" /\ faults[s] \cap {"never begun", "cut", "save failed"} = {} =>
          told[s] = 1

Output == FlowTypes /\ \A s \in Streams : Flow(s) /\ Answered(s)

(* Steps that touch neither the queue nor the counts of what went through.  *)
Quiet(s) ==
    \/ NeverBegins(s) \/ Begin(s) \/ SlotTimeout(s) \/ SlotTaken(s) \/ Saved(s)
    \/ SaveFails(s) \/ Dropped(s) \/ Compiled(s) \/ CompileRaises(s) \/ SpawnFails(s)
    \/ ProcKill(s) \/ Reaped(s) \/ Refuse(s) \/ Admit(s) \/ StderrTaken(s) \/ ChunkTaken(s)
    \/ Finish(s) \/ Cut(s) \/ DeadlinePasses(s) \/ SandboxEnds(s)

LEMMA QueueKept ==
    ASSUME UNCHANGED <<q, pipes, eofs, written, sent>>
    PROVE  \A t \in Streams : Queued(t)' <=> Queued(t)
  BY DEF Queued, Waiting

(* A request goes to another place, and nobody else is concerned. *)
Moves(s, place, o, n, F) ==
    /\ place \in Places /\ o \in Outcomes /\ n \in Nat /\ F \in SUBSET Faults
    /\ UNCHANGED <<q, pipes, eofs, written, sent, late>> /\ hasDir' \in [Streams -> BOOLEAN]
    /\ at' = [at EXCEPT ![s] = place] /\ outcome' = [outcome EXCEPT ![s] = o]
    /\ told' = [told EXCEPT ![s] = n] /\ faults' = [faults EXCEPT ![s] = F]
    /\ place \in Unread => at[s] \in Unread
    /\ place \in {"reading", "emitting"} => at[s] \in {"reading", "emitting"}
    /\ o = "exited" =>
         outcome[s] = "exited" /\ place \in {"reaping", "saving", "finishing", "over"}
    /\ place \notin {"busy", "finishing", "over"} => n = 0
    /\ place \in {"busy", "finishing"} => n = 1
    /\ place = "over" => n \in {0, 1}
    /\ place = "over" /\ F \cap {"never begun", "cut", "save failed"} = {} => n = 1

LEMMA QuietMove ==
    ASSUME Types, Output, NEW s \in Streams, NEW place, NEW o, NEW n, NEW F,
           Moves(s, place, o, n, F)
    PROVE  Output'
  <1>1. \A t \in Streams : Queued(t)' <=> Queued(t)
    BY QueueKept DEF Moves
  <1>2. told' \in [Streams -> Nat]
    BY DEF Output, FlowTypes, Moves
  <1>3. FlowTypes'
    BY <1>2 DEF Output, FlowTypes, Moves
  <1>4. \A t \in Streams : t # s => Flow(t)' /\ Answered(t)'
    BY <1>1 DEF Types, Output, FlowTypes, Flow, Answered, Moves
  <1>5. at'[s] = place /\ outcome'[s] = o /\ told'[s] = n /\ faults'[s] = F
    BY DEF Types, Output, FlowTypes, Moves
  <1>6. Flow(s)'
    BY <1>1, <1>5 DEF Output, Flow, Moves
  <1>7. Answered(s)'
    BY <1>5 DEF Answered, Moves
  <1> QED
    BY <1>3, <1>4, <1>6, <1>7 DEF Output

(* Nobody goes anywhere. *)
LEMMA QuietStay ==
    ASSUME Output, UNCHANGED <<at, outcome, told, faults, q, pipes, eofs, written, sent>>,
           hasDir' \in [Streams -> BOOLEAN], late' \in [Streams -> BOOLEAN]
    PROVE  Output'
  <1>1. FlowTypes'
    BY DEF Output, FlowTypes
  <1>2. \A t \in Streams : Flow(t)' /\ Answered(t)'
    BY QueueKept DEF Output, Flow, Answered
  <1> QED
    BY <1>1, <1>2 DEF Output

LEMMA QuietStep ==
    ASSUME Types, Output, NEW s \in Streams, Quiet(s)
    PROVE  Output'
  <1>1. UNCHANGED <<q, pipes, eofs, written, sent>>
    BY DEF Quiet, run, NeverBegins, Begin, SlotTimeout, SlotTaken, Saved, SaveFails,
           Dropped, Compiled, CompileRaises, SpawnFails, ProcKill, Reaped, Refuse, Admit,
           StderrTaken, ChunkTaken, Finish, Cut, DeadlinePasses, SandboxEnds, Conclude
  <1>2. /\ outcome = [outcome EXCEPT ![s] = outcome[s]] /\ outcome[s] \in Outcomes
        /\ told = [told EXCEPT ![s] = told[s]] /\ told[s] \in Nat
        /\ faults = [faults EXCEPT ![s] = faults[s]] /\ faults[s] \in SUBSET Faults
        /\ at[s] \in Places /\ hasDir \in [Streams -> BOOLEAN] /\ Flow(s) /\ Answered(s)
    BY DEF Types, Output, FlowTypes
  <1> USE DEF Flow, Answered, Unread, Outcomes, Faults, Places, Begun, Holding, InnerAwaits
  <1>3. CASE NeverBegins(s)
    <2>1. /\ at' = [at EXCEPT ![s] = "over"]
          /\ outcome' = [outcome EXCEPT ![s] = outcome[s]]
          /\ told' = [told EXCEPT ![s] = 0]
          /\ faults' = [faults EXCEPT ![s] = faults[s] \cup {"never begun"}]
          /\ hasDir' \in [Streams -> BOOLEAN] /\ UNCHANGED late
      BY <1>3, <1>2 DEF NeverBegins, run, Goto, Fault
    <2>2. Moves(s, "over", outcome[s], 0, faults[s] \cup {"never begun"})
      BY <1>1, <1>2, <1>3, <2>1 DEF Moves, NeverBegins
    <2> QED
      BY <2>2, QuietMove
  <1>4. CASE Begin(s)
    <2>1. /\ at' = [at EXCEPT ![s] = "acquiring"]
          /\ outcome' = [outcome EXCEPT ![s] = outcome[s]]
          /\ told' = [told EXCEPT ![s] = told[s]]
          /\ faults' = [faults EXCEPT ![s] = faults[s]]
          /\ hasDir' \in [Streams -> BOOLEAN] /\ UNCHANGED late
      BY <1>4, <1>2 DEF Begin, run, Goto
    <2>2. Moves(s, "acquiring", outcome[s], told[s], faults[s])
      BY <1>1, <1>2, <1>4, <2>1 DEF Moves, Begin
    <2> QED
      BY <2>2, QuietMove
  <1>5. CASE SlotTimeout(s)
    <2>1. told[s] = 0
      BY <1>2, <1>5 DEF SlotTimeout
    <2>2. told[s] + 1 = 1
      BY <2>1
    <2>3. /\ at' = [at EXCEPT ![s] = "busy"] /\ outcome' = [outcome EXCEPT ![s] = "busy"]
          /\ told' = [told EXCEPT ![s] = 1] /\ faults' = [faults EXCEPT ![s] = faults[s]]
          /\ hasDir' \in [Streams -> BOOLEAN] /\ UNCHANGED late
      BY <1>5, <1>2, <2>2 DEF SlotTimeout, run, Goto, Tell
    <2>4. Moves(s, "busy", "busy", 1, faults[s])
      BY <1>1, <1>2, <1>5, <2>3 DEF Moves, SlotTimeout
    <2> QED
      BY <2>4, QuietMove
  <1>6. CASE SlotTaken(s)
    <2>1. /\ UNCHANGED <<late, told, faults>> /\ hasDir' \in [Streams -> BOOLEAN]
          /\ \/ /\ at' = [at EXCEPT ![s] = "compiling"]
                /\ outcome' = [outcome EXCEPT ![s] = outcome[s]]
             \/ /\ at' = [at EXCEPT ![s] = "spawning"]
                /\ outcome' = [outcome EXCEPT ![s] = outcome[s]]
             \/ /\ at' = [at EXCEPT ![s] = "saving"]
                /\ outcome' = [outcome EXCEPT ![s] = "error"]
      BY <1>6, <1>2 DEF SlotTaken, run, Goto
    <2>2. CASE /\ at' = [at EXCEPT ![s] = "compiling"]
               /\ outcome' = [outcome EXCEPT ![s] = outcome[s]]
      <3>1. Moves(s, "compiling", outcome[s], told[s], faults[s])
        BY <1>1, <1>2, <1>6, <2>1, <2>2 DEF Moves, SlotTaken
      <3> QED
        BY <3>1, QuietMove
    <2>3. CASE /\ at' = [at EXCEPT ![s] = "spawning"]
               /\ outcome' = [outcome EXCEPT ![s] = outcome[s]]
      <3>1. Moves(s, "spawning", outcome[s], told[s], faults[s])
        BY <1>1, <1>2, <1>6, <2>1, <2>3 DEF Moves, SlotTaken
      <3> QED
        BY <3>1, QuietMove
    <2>4. CASE /\ at' = [at EXCEPT ![s] = "saving"]
               /\ outcome' = [outcome EXCEPT ![s] = "error"]
      <3>1. Moves(s, "saving", "error", told[s], faults[s])
        BY <1>1, <1>2, <1>6, <2>1, <2>4 DEF Moves, SlotTaken
      <3> QED
        BY <3>1, QuietMove
    <2> QED
      BY <2>1, <2>2, <2>3, <2>4
  <1>7. CASE Saved(s)
    <2>1. told[s] = 0
      BY <1>2, <1>7 DEF Saved
    <2>2. told[s] + 1 = 1
      BY <2>1
    <2>3. /\ at' = [at EXCEPT ![s] = "finishing"]
          /\ outcome' = [outcome EXCEPT ![s] = outcome[s]]
          /\ told' = [told EXCEPT ![s] = 1] /\ faults' = [faults EXCEPT ![s] = faults[s]]
          /\ hasDir' \in [Streams -> BOOLEAN] /\ UNCHANGED late
      BY <1>7, <1>2, <2>2 DEF Saved, run, Goto, Tell
    <2>4. Moves(s, "finishing", outcome[s], 1, faults[s])
      BY <1>1, <1>2, <1>7, <2>3 DEF Moves, Saved
    <2> QED
      BY <2>4, QuietMove
  <1>8. CASE SaveFails(s)
    <2>1. /\ at' = [at EXCEPT ![s] = "over"]
          /\ outcome' = [outcome EXCEPT ![s] = outcome[s]]
          /\ told' = [told EXCEPT ![s] = 0]
          /\ faults' = [faults EXCEPT ![s] = faults[s] \cup {"save failed"}]
          /\ hasDir' \in [Streams -> BOOLEAN] /\ UNCHANGED late
      BY <1>8, <1>2 DEF SaveFails, run, Goto, Fault
    <2>2. Moves(s, "over", outcome[s], 0, faults[s] \cup {"save failed"})
      BY <1>1, <1>2, <1>8, <2>1 DEF Moves, SaveFails
    <2> QED
      BY <2>2, QuietMove
  <1>9. CASE Dropped(s)
    <2>1. /\ UNCHANGED <<at, outcome, told, faults>>
          /\ hasDir' \in [Streams -> BOOLEAN] /\ late' \in [Streams -> BOOLEAN]
      BY <1>9, <1>2 DEF Output, FlowTypes, Dropped, run
    <2> QED
      BY <1>1, <2>1, QuietStay
  <1>10. CASE Compiled(s)
    <2>1. /\ UNCHANGED <<late, told, faults>> /\ hasDir' \in [Streams -> BOOLEAN]
          /\ \/ /\ at' = [at EXCEPT ![s] = "spawning"]
                /\ outcome' = [outcome EXCEPT ![s] = outcome[s]]
             \/ /\ at' = [at EXCEPT ![s] = "stderr"]
                /\ outcome' = [outcome EXCEPT ![s] = outcome[s]]
             \/ /\ at' = [at EXCEPT ![s] = "saving"]
                /\ outcome' = [outcome EXCEPT ![s] = "compile failed"]
      BY <1>10, <1>2 DEF Compiled, run, Goto, Conclude
    <2>2. CASE /\ at' = [at EXCEPT ![s] = "spawning"]
               /\ outcome' = [outcome EXCEPT ![s] = outcome[s]]
      <3>1. Moves(s, "spawning", outcome[s], told[s], faults[s])
        BY <1>1, <1>2, <1>10, <2>1, <2>2 DEF Moves, Compiled
      <3> QED
        BY <3>1, QuietMove
    <2>3. CASE /\ at' = [at EXCEPT ![s] = "stderr"]
               /\ outcome' = [outcome EXCEPT ![s] = outcome[s]]
      <3>1. Moves(s, "stderr", outcome[s], told[s], faults[s])
        BY <1>1, <1>2, <1>10, <2>1, <2>3 DEF Moves, Compiled
      <3> QED
        BY <3>1, QuietMove
    <2>4. CASE /\ at' = [at EXCEPT ![s] = "saving"]
               /\ outcome' = [outcome EXCEPT ![s] = "compile failed"]
      <3>1. Moves(s, "saving", "compile failed", told[s], faults[s])
        BY <1>1, <1>2, <1>10, <2>1, <2>4 DEF Moves, Compiled
      <3> QED
        BY <3>1, QuietMove
    <2> QED
      BY <2>1, <2>2, <2>3, <2>4
  <1>11. CASE CompileRaises(s)
    <2>1. /\ UNCHANGED <<late, told>> /\ hasDir' \in [Streams -> BOOLEAN]
          /\ at' = [at EXCEPT ![s] = "saving"]
          /\ outcome' = [outcome EXCEPT ![s] = "error"]
          /\ \/ faults' = [faults EXCEPT ![s] = faults[s]]
             \/ faults' = [faults EXCEPT ![s] = faults[s] \cup {"kill hung"}]
      <3>1. CASE UNCHANGED faults
        BY <1>11, <1>2, <3>1 DEF CompileRaises, run, Goto, Conclude
      <3>2. CASE Fault(s, "kill hung")
        BY <1>11, <1>2, <3>2 DEF CompileRaises, run, Goto, Conclude, Fault
      <3> QED
        BY <1>11, <3>1, <3>2 DEF CompileRaises
    <2>2. CASE faults' = [faults EXCEPT ![s] = faults[s]]
      <3>1. Moves(s, "saving", "error", told[s], faults[s])
        BY <1>1, <1>2, <1>11, <2>1, <2>2 DEF Moves, CompileRaises
      <3> QED
        BY <3>1, QuietMove
    <2>3. CASE faults' = [faults EXCEPT ![s] = faults[s] \cup {"kill hung"}]
      <3>1. Moves(s, "saving", "error", told[s], faults[s] \cup {"kill hung"})
        BY <1>1, <1>2, <1>11, <2>1, <2>3 DEF Moves, CompileRaises
      <3> QED
        BY <3>1, QuietMove
    <2> QED
      BY <2>1, <2>2, <2>3
  <1>12. CASE SpawnFails(s)
    <2>1. /\ at' = [at EXCEPT ![s] = "saving"]
          /\ outcome' = [outcome EXCEPT ![s] = "error"]
          /\ told' = [told EXCEPT ![s] = told[s]]
          /\ faults' = [faults EXCEPT ![s] = faults[s]]
          /\ hasDir' \in [Streams -> BOOLEAN] /\ UNCHANGED late
      BY <1>12, <1>2 DEF SpawnFails, run, Goto, Conclude
    <2>2. Moves(s, "saving", "error", told[s], faults[s])
      BY <1>1, <1>2, <1>12, <2>1 DEF Moves, SpawnFails
    <2> QED
      BY <2>2, QuietMove
  <1>13. CASE ProcKill(s)
    <2>1. /\ UNCHANGED <<at, outcome, told, faults>>
          /\ hasDir' \in [Streams -> BOOLEAN] /\ late' \in [Streams -> BOOLEAN]
      BY <1>13, <1>2 DEF Output, FlowTypes, ProcKill, run
    <2> QED
      BY <1>1, <2>1, QuietStay
  <1>14. CASE Reaped(s)
    <2>1. /\ UNCHANGED <<late, told, faults>> /\ hasDir' \in [Streams -> BOOLEAN]
          /\ \/ /\ at' = [at EXCEPT ![s] = "saving"]
                /\ outcome' = [outcome EXCEPT ![s] = outcome[s]]
             \/ /\ at' = [at EXCEPT ![s] = "saving"]
                /\ outcome' = [outcome EXCEPT ![s] = "error"]
      BY <1>14, <1>2 DEF Reaped, run, Goto, Conclude
    <2>2. CASE /\ at' = [at EXCEPT ![s] = "saving"]
               /\ outcome' = [outcome EXCEPT ![s] = outcome[s]]
      <3>1. Moves(s, "saving", outcome[s], told[s], faults[s])
        BY <1>1, <1>2, <1>14, <2>1, <2>2 DEF Moves, Reaped
      <3> QED
        BY <3>1, QuietMove
    <2>3. CASE /\ at' = [at EXCEPT ![s] = "saving"]
               /\ outcome' = [outcome EXCEPT ![s] = "error"]
      <3>1. Moves(s, "saving", "error", told[s], faults[s])
        BY <1>1, <1>2, <1>14, <2>1, <2>3 DEF Moves, Reaped
      <3> QED
        BY <3>1, QuietMove
    <2> QED
      BY <2>1, <2>2, <2>3
  <1>15. CASE Refuse(s)
    <2>1. /\ at' = [at EXCEPT ![s] = "refused"]
          /\ outcome' = [outcome EXCEPT ![s] = outcome[s]]
          /\ told' = [told EXCEPT ![s] = told[s]]
          /\ faults' = [faults EXCEPT ![s] = faults[s]]
          /\ hasDir' \in [Streams -> BOOLEAN] /\ UNCHANGED late
      BY <1>15, <1>2 DEF Refuse, run, Goto
    <2>2. Moves(s, "refused", outcome[s], told[s], faults[s])
      BY <1>1, <1>2, <1>15, <2>1 DEF Moves, Refuse
    <2> QED
      BY <2>2, QuietMove
  <1>16. CASE Admit(s)
    <2>1. /\ at' = [at EXCEPT ![s] = "admitted"]
          /\ outcome' = [outcome EXCEPT ![s] = outcome[s]]
          /\ told' = [told EXCEPT ![s] = told[s]]
          /\ faults' = [faults EXCEPT ![s] = faults[s]]
          /\ hasDir' \in [Streams -> BOOLEAN] /\ UNCHANGED late
      BY <1>16, <1>2 DEF Admit, run, Goto
    <2>2. Moves(s, "admitted", outcome[s], told[s], faults[s])
      BY <1>1, <1>2, <1>16, <2>1 DEF Moves, Admit
    <2> QED
      BY <2>2, QuietMove
  <1>17. CASE StderrTaken(s)
    <2>1. /\ at' = [at EXCEPT ![s] = "saving"]
          /\ outcome' = [outcome EXCEPT ![s] = "compile failed"]
          /\ told' = [told EXCEPT ![s] = told[s]]
          /\ faults' = [faults EXCEPT ![s] = faults[s]]
          /\ hasDir' \in [Streams -> BOOLEAN] /\ UNCHANGED late
      BY <1>17, <1>2 DEF StderrTaken, run, Goto, Conclude
    <2>2. Moves(s, "saving", "compile failed", told[s], faults[s])
      BY <1>1, <1>2, <1>17, <2>1 DEF Moves, StderrTaken
    <2> QED
      BY <2>2, QuietMove
  <1>18. CASE ChunkTaken(s)
    <2>1. /\ at' = [at EXCEPT ![s] = "reading"]
          /\ outcome' = [outcome EXCEPT ![s] = outcome[s]]
          /\ told' = [told EXCEPT ![s] = told[s]]
          /\ faults' = [faults EXCEPT ![s] = faults[s]]
          /\ hasDir' \in [Streams -> BOOLEAN] /\ UNCHANGED late
      BY <1>18, <1>2 DEF ChunkTaken, run, Goto
    <2>2. Moves(s, "reading", outcome[s], told[s], faults[s])
      BY <1>1, <1>2, <1>18, <2>1 DEF Moves, ChunkTaken
    <2> QED
      BY <2>2, QuietMove
  <1>19. CASE Finish(s)
    <2>1. /\ at' = [at EXCEPT ![s] = "over"]
          /\ outcome' = [outcome EXCEPT ![s] = outcome[s]]
          /\ told' = [told EXCEPT ![s] = 1] /\ faults' = [faults EXCEPT ![s] = faults[s]]
          /\ hasDir' \in [Streams -> BOOLEAN] /\ UNCHANGED late
      BY <1>19, <1>2 DEF Finish, run, Goto
    <2>2. Moves(s, "over", outcome[s], 1, faults[s])
      BY <1>1, <1>2, <1>19, <2>1 DEF Moves, Finish
    <2> QED
      BY <2>2, QuietMove
  <1>20. CASE Cut(s)
    <2>1. /\ at' = [at EXCEPT ![s] = "over"]
          /\ outcome' = [outcome EXCEPT ![s] = outcome[s]]
          /\ told' = [told EXCEPT ![s] = told[s]]
          /\ faults' = [faults EXCEPT ![s] = faults[s] \cup {"cut"}]
          /\ hasDir' \in [Streams -> BOOLEAN] /\ UNCHANGED late
      BY <1>20, <1>2 DEF Cut, run, Goto, Fault
    <2>2. Moves(s, "over", outcome[s], told[s], faults[s] \cup {"cut"})
      BY <1>1, <1>2, <1>20, <2>1 DEF Moves, Cut
    <2> QED
      BY <2>2, QuietMove
  <1>21. CASE DeadlinePasses(s)
    <2>1. /\ UNCHANGED <<at, outcome, told, faults>>
          /\ hasDir' \in [Streams -> BOOLEAN] /\ late' \in [Streams -> BOOLEAN]
      BY <1>21, <1>2 DEF Output, FlowTypes, DeadlinePasses, run
    <2> QED
      BY <1>1, <2>1, QuietStay
  <1>22. CASE SandboxEnds(s)
    <2>1. /\ UNCHANGED <<at, outcome, told, faults>>
          /\ hasDir' \in [Streams -> BOOLEAN] /\ late' \in [Streams -> BOOLEAN]
      BY <1>22, <1>2 DEF Output, FlowTypes, SandboxEnds, run
    <2> QED
      BY <1>1, <2>1, QuietStay
  <1> QED
    BY <1>3, <1>4, <1>5, <1>6, <1>7, <1>8, <1>9, <1>10, <1>11, <1>12, <1>13, <1>14,
       <1>15, <1>16, <1>17, <1>18, <1>19, <1>20, <1>21, <1>22 DEF Quiet

-----------------------------------------------------------------------------
(* The steps that read and write the queue.                                 *)

Entries == {"chunk", "eof"}

LEMMA TakesEof ==
    ASSUME NEW w \in Seq(Entries), NEW n \in Int, w # <<>>, Head(w) = "eof", Ends(w, n)
    PROVE  n > 0 /\ Ends(Tail(w), n - 1)
  <1>1. /\ Len(w) \in Nat \ {0} /\ Len(Tail(w)) = Len(w) - 1 /\ w[1] = "eof"
        /\ \A i \in 1..Len(w) - 1 : Tail(w)[i] = w[i + 1]
    BY DEF Entries
  <1>2. n # 0
    BY <1>1 DEF Ends
  <1>3. CASE n = 1
    <2>1. \A j \in 1..Len(w) : j # 1 => w[j] = "chunk"
      BY <1>1, <1>3 DEF Ends
    <2>2. \A i \in 1..Len(Tail(w)) : Tail(w)[i] = "chunk"
      BY <1>1, <2>1
    <2> QED
      BY <1>3, <2>2 DEF Ends
  <1>4. CASE n = 2
    <2>1. PICK k \in 1..Len(w) :
             1 < k /\ w[k] = "eof" /\ \A j \in 1..Len(w) : j # 1 /\ j # k => w[j] = "chunk"
      BY <1>1, <1>4 DEF Ends
    <2>2. k - 1 \in 1..Len(Tail(w)) /\ Tail(w)[k - 1] = "eof"
      BY <1>1, <2>1
    <2>3. \A j \in 1..Len(Tail(w)) : j # k - 1 => Tail(w)[j] = "chunk"
      BY <1>1, <2>1
    <2> QED
      BY <1>4, <2>2, <2>3 DEF Ends
  <1> QED
    BY <1>2, <1>3, <1>4 DEF Ends

LEMMA TakesChunk ==
    ASSUME NEW w \in Seq(Entries), NEW n \in Int, w # <<>>, Head(w) = "chunk", Ends(w, n)
    PROVE  Ends(Tail(w), n)
  <1>1. /\ Len(w) \in Nat \ {0} /\ Len(Tail(w)) = Len(w) - 1 /\ w[1] = "chunk"
        /\ \A i \in 1..Len(w) - 1 : Tail(w)[i] = w[i + 1]
    BY DEF Entries
  <1>2. CASE n = 0
    <2>1. \A i \in 1..Len(Tail(w)) : Tail(w)[i] = "chunk"
      BY <1>1, <1>2 DEF Ends
    <2> QED
      BY <1>2, <2>1 DEF Ends
  <1>3. CASE n = 1
    <2>1. PICK i \in 1..Len(w) :
             w[i] = "eof" /\ \A j \in 1..Len(w) : j # i => w[j] = "chunk"
      BY <1>3 DEF Ends
    <2>2. i - 1 \in 1..Len(Tail(w)) /\ Tail(w)[i - 1] = "eof"
      BY <1>1, <2>1
    <2>3. \A j \in 1..Len(Tail(w)) : j # i - 1 => Tail(w)[j] = "chunk"
      BY <1>1, <2>1
    <2> QED
      BY <1>3, <2>2, <2>3 DEF Ends
  <1>4. CASE n = 2
    <2>1. PICK i, k \in 1..Len(w) :
             /\ i < k /\ w[i] = "eof" /\ w[k] = "eof"
             /\ \A j \in 1..Len(w) : j # i /\ j # k => w[j] = "chunk"
      BY <1>4 DEF Ends
    <2>2. /\ i - 1 \in 1..Len(Tail(w)) /\ Tail(w)[i - 1] = "eof"
          /\ k - 1 \in 1..Len(Tail(w)) /\ Tail(w)[k - 1] = "eof" /\ i - 1 < k - 1
      BY <1>1, <2>1
    <2>3. \A j \in 1..Len(Tail(w)) : j # i - 1 /\ j # k - 1 => Tail(w)[j] = "chunk"
      BY <1>1, <2>1
    <2> QED
      BY <1>4, <2>2, <2>3 DEF Ends
  <1> QED
    BY <1>2, <1>3, <1>4 DEF Ends

LEMMA AppendsChunk ==
    ASSUME NEW w \in Seq(Entries), NEW n \in Int, Ends(w, n)
    PROVE  Ends(Append(w, "chunk"), n)
  <1> DEFINE v == Append(w, "chunk")
  <1>1. /\ Len(w) \in Nat /\ Len(v) = Len(w) + 1 /\ v[Len(w) + 1] = "chunk"
        /\ \A i \in 1..Len(w) : v[i] = w[i]
    BY DEF Entries
  <1> HIDE DEF v
  <1>2. CASE n = 0
    <2>1. \A i \in 1..Len(v) : v[i] = "chunk"
      BY <1>1, <1>2 DEF Ends
    <2> QED
      BY <1>2, <2>1 DEF Ends, v
  <1>3. CASE n = 1
    <2>1. PICK i \in 1..Len(w) :
             w[i] = "eof" /\ \A j \in 1..Len(w) : j # i => w[j] = "chunk"
      BY <1>3 DEF Ends
    <2>2. i \in 1..Len(v) /\ v[i] = "eof" /\ \A j \in 1..Len(v) : j # i => v[j] = "chunk"
      BY <1>1, <2>1
    <2> QED
      BY <1>3, <2>2 DEF Ends, v
  <1>4. CASE n = 2
    <2>1. PICK i, k \in 1..Len(w) :
             /\ i < k /\ w[i] = "eof" /\ w[k] = "eof"
             /\ \A j \in 1..Len(w) : j # i /\ j # k => w[j] = "chunk"
      BY <1>4 DEF Ends
    <2>2. /\ i \in 1..Len(v) /\ k \in 1..Len(v) /\ i < k /\ v[i] = "eof" /\ v[k] = "eof"
          /\ \A j \in 1..Len(v) : j # i /\ j # k => v[j] = "chunk"
      BY <1>1, <2>1
    <2> QED
      BY <1>4, <2>2 DEF Ends, v
  <1> QED
    BY <1>2, <1>3, <1>4 DEF Ends

LEMMA AppendsEof ==
    ASSUME NEW w \in Seq(Entries), NEW n \in Int, n < 2, Ends(w, n)
    PROVE  Ends(Append(w, "eof"), n + 1) /\ LastIsEof(Append(w, "eof"))
  <1> DEFINE v == Append(w, "eof")
  <1>1. /\ Len(w) \in Nat /\ Len(v) = Len(w) + 1 /\ v[Len(w) + 1] = "eof"
        /\ \A i \in 1..Len(w) : v[i] = w[i]
    BY DEF Entries
  <1> HIDE DEF v
  <1>2. LastIsEof(v)
    BY <1>1 DEF LastIsEof
  <1>3. CASE n = 0
    <2>1. Len(v) \in 1..Len(v) /\ v[Len(v)] = "eof"
          /\ \A j \in 1..Len(v) : j # Len(v) => v[j] = "chunk"
      BY <1>1, <1>3 DEF Ends
    <2>2. Ends(v, 1)
      BY <2>1 DEF Ends
    <2> QED
      BY <1>3, <1>2, <2>2 DEF v
  <1>4. CASE n = 1
    <2>1. PICK i \in 1..Len(w) :
             w[i] = "eof" /\ \A j \in 1..Len(w) : j # i => w[j] = "chunk"
      BY <1>4 DEF Ends
    <2>2. /\ i \in 1..Len(v) /\ Len(v) \in 1..Len(v) /\ i < Len(v)
          /\ v[i] = "eof" /\ v[Len(v)] = "eof"
          /\ \A j \in 1..Len(v) : j # i /\ j # Len(v) => v[j] = "chunk"
      BY <1>1, <2>1
    <2>3. Ends(v, 2)
      BY <2>2 DEF Ends
    <2> QED
      BY <1>4, <1>2, <2>3 DEF v
  <1> QED
    BY <1>3, <1>4 DEF Ends

(* What a step between the pumps and the generator has to show. *)
LEMMA LoudMove ==
    ASSUME Types, Output, NEW s \in Streams, FlowTypes', UNCHANGED <<told, faults>>,
           at[s] \notin {"busy", "finishing", "over"},
           at'[s] \notin {"busy", "finishing", "over"}, Flow(s)',
           \A t \in Streams : t # s =>
               /\ at'[t] = at[t] /\ pipes'[t] = pipes[t] /\ q'[t] = q[t]
               /\ eofs'[t] = eofs[t] /\ outcome'[t] = outcome[t]
               /\ written'[t] = written[t] /\ sent'[t] = sent[t]
    PROVE  Output'
  <1>1. \A t \in Streams : t # s => Flow(t)'
    BY DEF Output, Flow, Queued, Waiting
  <1>2. \A t \in Streams : t # s => Answered(t)'
    BY DEF Output, Answered
  <1>3. Answered(s)'
    BY DEF Output, Answered
  <1> QED
    BY <1>1, <1>2, <1>3 DEF Output

LEMMA ReadStep ==
    ASSUME Types, Output, NEW s \in Streams, Spawned(s) \/ TakeEof(s) \/ TakeChunk(s)
    PROVE  Output'
  <1> USE DEF run, Goto
  <1>1. /\ q[s] \in Seq(Entries) /\ pipes[s] \in 0..2 /\ eofs[s] \in 0..2
        /\ sent[s] \in Nat /\ written[s] \in Nat /\ Flow(s) /\ Answered(s)
    BY BoundsAssumption DEF Output, FlowTypes, Entries
  <1>2. Waiting(s) \in Int /\ Len(q[s]) \in Nat
    BY <1>1 DEF Waiting
  <1>3. CASE Spawned(s)
    <2>1. FlowTypes'
      BY <1>3 DEF Output, FlowTypes, Spawned
    <2>2. /\ at'[s] = "reading" /\ q'[s] = <<>> /\ eofs'[s] = 0 /\ pipes'[s] = 2
          /\ sent'[s] = 0 /\ written'[s] = 0 /\ outcome'[s] # "exited"
      BY <1>1, <1>3 DEF Spawned, Types, Output, FlowTypes, Flow, Unread
    <2>3. Waiting(s)' = 0 /\ Ends(<<>>, 0) /\ Len(q'[s]) = 0
      BY <2>2 DEF Waiting, Ends
    <2>4. Flow(s)'
      BY <2>2, <2>3 DEF Flow, Queued, Unread
    <2> QED
      BY <1>3, <2>1, <2>2, <2>4, LoudMove DEF Spawned, Types, Output, FlowTypes
  <1>4. ASSUME at[s] = "reading", q[s] # <<>>
        PROVE  /\ Tail(q[s]) \in Seq(Entries) /\ Len(Tail(q[s])) = Len(q[s]) - 1
               /\ Queued(s)
               /\ LastIsEof(q[s]) => LastIsEof(Tail(q[s]))
    <2>1. Queued(s)
      BY <1>1, <1>4 DEF Flow
    <2>2. Tail(q[s]) \in Seq(Entries) /\ Len(Tail(q[s])) = Len(q[s]) - 1
      BY <1>1, <1>4
    <2>3. ASSUME LastIsEof(q[s]), Tail(q[s]) # <<>> PROVE Tail(q[s])[Len(Tail(q[s]))] = "eof"
      <3>1. Len(Tail(q[s])) \in 1..Len(q[s]) - 1
        BY <1>1, <1>4, <2>2, <2>3
      <3>2. Tail(q[s])[Len(Tail(q[s]))] = q[s][Len(q[s])]
        BY <1>1, <1>4, <2>2, <3>1
      <3> QED
        BY <1>4, <2>3, <3>2 DEF LastIsEof
    <2> QED
      BY <2>1, <2>2, <2>3 DEF LastIsEof
  <1>5. CASE TakeChunk(s)
    <2>1. /\ at[s] = "reading" /\ q[s] # <<>> /\ Head(q[s]) = "chunk"
          /\ q' = [q EXCEPT ![s] = Tail(q[s])] /\ sent' = [sent EXCEPT ![s] = sent[s] + 1]
          /\ at' = [at EXCEPT ![s] = "emitting"]
          /\ UNCHANGED <<sandbox, pipes, eofs, late, written, outcome, hasDir, told, faults>>
      BY <1>5 DEF TakeChunk
    <2>2. Ends(Tail(q[s]), Waiting(s))
      BY <1>1, <1>2, <1>4, <2>1, TakesChunk DEF Queued
    <2>3. FlowTypes'
      BY <1>1, <1>4, <2>1 DEF Output, FlowTypes, Entries
    <2>4. /\ at'[s] = "emitting" /\ q'[s] = Tail(q[s]) /\ sent'[s] = sent[s] + 1
          /\ Waiting(s)' = Waiting(s)
      BY <2>1 DEF Types, Output, FlowTypes, Waiting
    <2>5. Queued(s)'
      <3>1. Ends(q'[s], Waiting(s)')
        BY <2>2, <2>4
      <3>2. pipes'[s] = 0 => LastIsEof(q'[s])
        BY <1>4, <2>1, <2>4 DEF Queued
      <3>3. written'[s] = sent'[s] + Len(q'[s]) - Waiting(s)'
        <4>1. written[s] = sent[s] + Len(q[s]) - Waiting(s)
          BY <1>4, <2>1 DEF Queued
        <4>2. Len(q'[s]) = Len(q[s]) - 1 /\ written'[s] = written[s]
          BY <1>4, <2>1, <2>4
        <4>3. sent[s] \in Int /\ written[s] \in Int
          BY <1>1
        <4> QED
          BY <1>2, <2>1, <4>1, <4>2, <4>3, <2>4
      <3> QED
        BY <3>1, <3>2, <3>3 DEF Queued
    <2>6. Flow(s)'
      BY <1>1, <2>1, <2>4, <2>5 DEF Flow, Unread
    <2> QED
      BY <2>1, <2>3, <2>4, <2>6, LoudMove DEF Types, Output, FlowTypes
  <1>6. CASE TakeEof(s)
    <2>1. /\ at[s] = "reading" /\ q[s] # <<>> /\ Head(q[s]) = "eof"
          /\ q' = [q EXCEPT ![s] = Tail(q[s])] /\ eofs' = [eofs EXCEPT ![s] = eofs[s] + 1]
          /\ UNCHANGED <<sandbox, pipes, late, written, sent, hasDir, told, faults>>
      BY <1>6 DEF TakeEof
    <2>2. Waiting(s) > 0 /\ Ends(Tail(q[s]), Waiting(s) - 1)
      BY <1>1, <1>2, <1>4, <2>1, TakesEof DEF Queued
    <2>3. eofs[s] + 1 \in 1..2 /\ eofs[s] + pipes[s] < 2
      BY <1>1, <2>2 DEF Waiting
    <2>4. eofs' \in [Streams -> 0..2]
      <3>1. eofs[s] + 1 \in 0..2
        BY <1>1, <2>3
      <3> QED
        BY <2>1, <3>1 DEF Output, FlowTypes
    <2>5. /\ q'[s] = Tail(q[s]) /\ eofs'[s] = eofs[s] + 1 /\ pipes'[s] = pipes[s]
          /\ sent'[s] = sent[s] /\ written'[s] = written[s]
      BY <2>1 DEF Output, FlowTypes
    <2>6. Waiting(s)' = Waiting(s) - 1
      BY <1>1, <2>5 DEF Waiting
    <2>7. Queued(s)'
      <3>1. Ends(q'[s], Waiting(s)')
        BY <2>2, <2>5, <2>6
      <3>2. pipes'[s] = 0 => LastIsEof(q'[s])
        BY <1>4, <2>1, <2>5 DEF Queued
      <3>3. written'[s] = sent'[s] + Len(q'[s]) - Waiting(s)'
        <4>1. written[s] = sent[s] + Len(q[s]) - Waiting(s)
          BY <1>4, <2>1 DEF Queued
        <4>2. Len(q'[s]) = Len(q[s]) - 1 /\ written'[s] = written[s]
          BY <1>4, <2>1, <2>5
        <4>3. sent[s] \in Int /\ written[s] \in Int
          BY <1>1
        <4> QED
          BY <1>2, <2>1, <4>1, <4>2, <4>3, <2>5, <2>6
      <3> QED
        BY <3>1, <3>2, <3>3 DEF Queued
    <2>8. CASE eofs[s] = 1
      <3>1. /\ at' = [at EXCEPT ![s] = "reaping"]
            /\ outcome' = [outcome EXCEPT ![s] = "exited"]
        BY <1>6, <2>8 DEF TakeEof
      <3>2. outcome' \in [Streams -> Outcomes]
        BY <3>1 DEF Output, FlowTypes, Outcomes
      <3>3. FlowTypes'
        BY <1>4, <2>1, <2>4, <3>2 DEF Output, FlowTypes, Entries
      <3>4. at'[s] = "reaping" /\ outcome'[s] = "exited"
        BY <3>1 DEF Types, Output, FlowTypes
      <3>5. Waiting(s) = 1 /\ pipes[s] = 0
        BY <1>1, <2>3, <2>8 DEF Waiting
      <3>6. Len(q[s]) = 1
        <4>1. LastIsEof(q[s]) /\ Ends(q[s], 1)
          BY <1>4, <2>1, <3>5 DEF Queued
        <4>2. Len(q[s]) \in 1..Len(q[s]) /\ 1 \in 1..Len(q[s])
          BY <1>1, <2>1
        <4>3. q[s][1] = "eof" /\ q[s][Len(q[s])] = "eof"
          BY <1>1, <2>1, <4>1 DEF LastIsEof
        <4>4. PICK i \in 1..Len(q[s]) : \A j \in 1..Len(q[s]) : j # i => q[s][j] = "chunk"
          BY <4>1 DEF Ends
        <4>5. 1 = i /\ Len(q[s]) = i
          BY <4>2, <4>3, <4>4
        <4> QED
          BY <4>5
      <3>7. sent'[s] = written'[s]
        BY <1>1, <1>4, <2>1, <2>5, <3>5, <3>6 DEF Queued
      <3>8. Flow(s)'
        BY <3>4, <3>7 DEF Flow, Unread
      <3> QED
        BY <2>1, <3>1, <3>3, <3>4, <3>8, LoudMove DEF Types, Output, FlowTypes
    <2>9. CASE eofs[s] # 1
      <3>1. UNCHANGED <<at, outcome>>
        BY <1>6, <2>9 DEF TakeEof
      <3>2. FlowTypes'
        BY <1>1, <1>4, <2>1, <2>3, <3>1 DEF Output, FlowTypes, Entries
      <3>3. Flow(s)'
        BY <1>1, <2>1, <2>7, <3>1 DEF Flow, Unread
      <3> QED
        BY <2>1, <3>1, <3>2, <3>3, LoudMove DEF Types, Output, FlowTypes
    <2> QED
      BY <2>8, <2>9
  <1> QED
    BY <1>3, <1>5, <1>6

LEMMA PumpsStep ==
    ASSUME Types, Output, NEW s \in Streams,
           Timeout(s) \/ KillHangs(s) \/ Chunk(s) \/ Eof(s)
    PROVE  Output'
  <1> USE DEF run, Goto
  <1>1. /\ q[s] \in Seq(Entries) /\ pipes[s] \in 0..2 /\ eofs[s] \in 0..2
        /\ sent[s] \in Nat /\ written[s] \in 0..MaxChunks /\ Flow(s) /\ Answered(s)
    BY BoundsAssumption DEF Output, FlowTypes, Entries
  <1>2. Waiting(s) \in Int /\ Len(q[s]) \in Nat
    BY <1>1 DEF Waiting
  <1>3. CASE Timeout(s)
    <2>1. /\ at[s] = "reading" /\ at' = [at EXCEPT ![s] = "reaping"]
          /\ outcome' = [outcome EXCEPT ![s] = "timed out"] /\ pipes' = [pipes EXCEPT ![s] = 0]
          /\ UNCHANGED <<q, eofs, late, written, sent, hasDir, told, faults>>
      BY <1>3 DEF Timeout, TimedOut
    <2>2. outcome' \in [Streams -> Outcomes] /\ pipes' \in [Streams -> 0..2]
      <3>1. outcome' \in [Streams -> Outcomes]
        BY <2>1 DEF Output, FlowTypes, Outcomes
      <3>2. 0 \in 0..2
        OBVIOUS
      <3>3. pipes' \in [Streams -> 0..2]
        BY <2>1, <3>2 DEF Output, FlowTypes
      <3> QED
        BY <3>1, <3>3
    <2>3. FlowTypes'
      BY <2>1, <2>2 DEF Output, FlowTypes
    <2>4. at'[s] = "reaping" /\ outcome'[s] = "timed out"
      BY <2>1 DEF Types, Output, FlowTypes
    <2>5. Flow(s)'
      BY <2>4 DEF Flow, Unread
    <2> QED
      BY <2>1, <2>3, <2>4, <2>5, LoudMove DEF Types, Output, FlowTypes
  <1>4. CASE KillHangs(s)
    <2>1. /\ at[s] = "reading" /\ at' = [at EXCEPT ![s] = "saving"]
          /\ outcome' = [outcome EXCEPT ![s] = "error"] /\ pipes' = [pipes EXCEPT ![s] = 0]
          /\ UNCHANGED <<q, eofs, late, written, sent, hasDir, told>>
      BY <1>4 DEF KillHangs, TimedOut, Conclude
    <2>2. outcome' \in [Streams -> Outcomes] /\ pipes' \in [Streams -> 0..2]
      <3>1. outcome' \in [Streams -> Outcomes]
        BY <2>1 DEF Output, FlowTypes, Outcomes
      <3>2. 0 \in 0..2
        OBVIOUS
      <3>3. pipes' \in [Streams -> 0..2]
        BY <2>1, <3>2 DEF Output, FlowTypes
      <3> QED
        BY <3>1, <3>3
    <2>3. FlowTypes'
      BY <2>1, <2>2 DEF Output, FlowTypes
    <2>4. at'[s] = "saving" /\ outcome'[s] = "error" /\ told[s] = 0
      BY <1>1, <2>1 DEF Types, Output, FlowTypes, Answered
    <2>5. Flow(s)'
      BY <2>4 DEF Flow, Unread
    <2>6. \A t \in Streams : t # s => faults'[t] = faults[t]
      <3>1. CASE Fault(s, "kill hung")
        BY <3>1 DEF Fault, Types
      <3>2. CASE UNCHANGED faults
        BY <3>2
      <3> QED
        BY <1>4, <3>1, <3>2 DEF KillHangs
    <2>7. \A t \in Streams : t # s => Flow(t)' /\ Answered(t)'
      <3> SUFFICES ASSUME NEW t \in Streams, t # s PROVE Flow(t)' /\ Answered(t)'
        OBVIOUS
      <3>1. /\ at'[t] = at[t] /\ pipes'[t] = pipes[t] /\ outcome'[t] = outcome[t]
            /\ faults'[t] = faults[t]
        BY <2>1, <2>6 DEF Types, Output, FlowTypes
      <3>2. Flow(t)'
        BY <2>1, <3>1 DEF Output, Flow, Queued, Waiting
      <3>3. Answered(t)'
        BY <2>1, <3>1 DEF Output, Answered
      <3> QED
        BY <3>2, <3>3
    <2>8. Answered(s)'
      BY <2>1, <2>4 DEF Answered
    <2> QED
      BY <2>3, <2>5, <2>7, <2>8 DEF Output
  <1>5. ASSUME at[s] \in {"reading", "emitting"} PROVE Queued(s) /\ outcome[s] # "exited"
    BY <1>1, <1>5 DEF Flow
  <1>6. CASE Chunk(s)
    <2>1. /\ at[s] \in {"reading", "emitting"} /\ pipes[s] > 0 /\ written[s] < MaxChunks
          /\ q' = [q EXCEPT ![s] = Append(q[s], "chunk")]
          /\ written' = [written EXCEPT ![s] = written[s] + 1]
          /\ UNCHANGED <<at, pipes, eofs, late, sent, outcome, hasDir, told, faults>>
      BY <1>6 DEF Chunk, Pumping
    <2>2. Append(q[s], "chunk") \in Seq(Entries) /\ Len(Append(q[s], "chunk")) = Len(q[s]) + 1
      BY <1>1 DEF Entries
    <2>3. written[s] + 1 \in 0..MaxChunks
      BY <1>1, <2>1, BoundsAssumption
    <2>4. FlowTypes'
      BY <2>1, <2>2, <2>3 DEF Output, FlowTypes, Entries
    <2>5. q'[s] = Append(q[s], "chunk") /\ written'[s] = written[s] + 1 /\ Waiting(s)' = Waiting(s)
      BY <2>1 DEF Output, FlowTypes, Waiting
    <2>6. Ends(Append(q[s], "chunk"), Waiting(s))
      BY <1>1, <1>2, <1>5, <2>1, AppendsChunk DEF Queued
    <2>7. Queued(s)'
      BY <1>1, <1>2, <1>5, <2>1, <2>2, <2>5, <2>6 DEF Queued
    <2>8. Flow(s)'
      BY <1>5, <2>1, <2>7 DEF Flow, Unread
    <2> QED
      BY <2>1, <2>4, <2>8, LoudMove DEF Types, Output, FlowTypes
  <1>7. CASE Eof(s)
    <2>1. /\ at[s] \in {"reading", "emitting"} /\ pipes[s] > 0
          /\ q' = [q EXCEPT ![s] = Append(q[s], "eof")]
          /\ pipes' = [pipes EXCEPT ![s] = pipes[s] - 1]
          /\ UNCHANGED <<at, eofs, late, written, sent, outcome, hasDir, told, faults>>
      BY <1>7 DEF Eof, Pumping
    <2>2. Append(q[s], "eof") \in Seq(Entries) /\ Len(Append(q[s], "eof")) = Len(q[s]) + 1
      BY <1>1 DEF Entries
    <2>3. FlowTypes'
      BY <1>1, <2>1, <2>2 DEF Output, FlowTypes, Entries
    <2>4. q'[s] = Append(q[s], "eof") /\ Waiting(s)' = Waiting(s) + 1
      BY <1>1, <2>1 DEF Output, FlowTypes, Waiting
    <2>5. Waiting(s) < 2
      BY <1>1, <2>1 DEF Waiting
    <2>6. Ends(Append(q[s], "eof"), Waiting(s) + 1) /\ LastIsEof(Append(q[s], "eof"))
      BY <1>1, <1>2, <1>5, <2>1, <2>5, AppendsEof DEF Queued
    <2>7. Queued(s)'
      BY <1>1, <1>2, <1>5, <2>1, <2>2, <2>4, <2>6 DEF Queued
    <2>8. Flow(s)'
      BY <1>5, <2>1, <2>7 DEF Flow, Unread
    <2> QED
      BY <2>1, <2>3, <2>8, LoudMove DEF Types, Output, FlowTypes
  <1> QED
    BY <1>3, <1>4, <1>6, <1>7

LEMMA OutputStep ==
    ASSUME Types, Output, [Next]_vars
    PROVE  Output'
  <1>1. CASE UNCHANGED vars
    BY <1>1 DEF vars, Output, FlowTypes, Flow, Queued, Waiting, Answered
  <1>2. CASE Next
    <2>1. CASE Finished
      BY <1>1, <2>1 DEF Finished
    <2>2. CASE \E s \in Streams : Quiet(s)
      BY <2>2, QuietStep
    <2>3. CASE \E s \in Streams : Spawned(s) \/ TakeEof(s) \/ TakeChunk(s)
      BY <2>3, ReadStep
    <2>4. CASE \E s \in Streams : Timeout(s) \/ KillHangs(s) \/ Chunk(s) \/ Eof(s)
      BY <2>4, PumpsStep
    <2> QED
      BY <1>2, <2>1, <2>2, <2>3, <2>4
         DEF Next, Quiet, RouteStep, ExecutorStep, ClientStep, PumpStep
  <1> QED
    BY <1>1, <1>2

LEMMA OutputInit == Init => Output
  <1> SUFFICES ASSUME Init PROVE Output
    OBVIOUS
  <1>1. FlowTypes
    BY BoundsAssumption DEF Init, FlowTypes, Outcomes
  <1>2. \A s \in Streams : Flow(s) /\ Answered(s)
    BY DEF Init, Flow, Answered, Unread
  <1> QED
    BY <1>1, <1>2 DEF Output

-----------------------------------------------------------------------------

LEMMA InvStep == IInv /\ [Next]_vars => IInv'
  <1> SUFFICES ASSUME IInv, [Next]_vars PROVE IInv'
    OBVIOUS
  <1>1. CASE Next
    BY <1>1, LocalStep, CountStep DEF IInv
  <1>2. CASE UNCHANGED vars
    BY <1>2 DEF vars, IInv, Types, Local, Own, Lives, Enters, Alive, Counts, Holders,
       Counted
  <1> QED
    BY <1>1, <1>2

(* The inductive invariant: what is known of each request, and that the two *)
(* counts are the numbers of requests they stand for (routes.py:173-204).   *)
THEOREM Invariance == Spec => []IInv
  BY InvInit, InvStep, PTL DEF Spec

(* Every way out of the generator gives back exactly the slot it took       *)
(* (routes.py:174-204), for every number of requests and of slots.          *)
THEOREM SlotsHold == Spec => []SlotsExact
  <1>1. IInv => SlotsExact
    BY DEF IInv, Counts, Holders, SlotsExact
  <1> QED
    BY <1>1, Invariance, PTL

(* The in-flight count is the requests in progress and those whose          *)
(* generator was never entered, and no others (routes.py:168, 201-204).     *)
THEOREM LimiterHolds == Spec => []LimiterExact
  <1>1. IInv => LimiterExact
    BY DEF IInv, Counts, Counted, LimiterExact
  <1> QED
    BY <1>1, Invariance, PTL

(* The streaming semaphore bounds the sandboxes of requests in progress     *)
(* (routes.py:162-163, 178-203).                                            *)
THEOREM SandboxesHold == Spec => []SandboxesBounded
  <1>1. IInv => SandboxesBounded
    <2> SUFFICES ASSUME IInv PROVE SandboxesBounded
      OBVIOUS
    <2> DEFINE L == {s \in Streams : Alive(s) /\ at[s] # "over"}
    <2>1. L \subseteq Holders
      BY DEF IInv, Types, Places, Local, Own, Lives, Early, Holders, Begun, Holding,
         InnerAwaits
    <2>2. Cardinality(L) <= Cardinality(Holders)
      BY <2>1, Finite, FS_Subset
    <2>3. Cardinality(L) \in Nat /\ Cardinality(Holders) \in Nat
      BY <2>1, Finite, FS_Subset, FS_CardinalityType
    <2> HIDE DEF L
    <2>4. Cardinality(L) <= Slots
      BY <2>2, <2>3, BoundsAssumption DEF IInv, Counts
    <2> QED
      BY <2>4 DEF L, SandboxesBounded
  <1> QED
    BY <1>1, Invariance, PTL

(* No sandbox outlives its request unless the client went away or           *)
(* "runsc kill" hung (runner.py:308-322, 371-374).                          *)
THEOREM LeavesNothing == Spec => []NothingLeftBehind
  <1>1. IInv => NothingLeftBehind
    BY DEF IInv, Local, Own, Lives, NothingLeftBehind
  <1> QED
    BY <1>1, Invariance, PTL
(* With what is known of the queue and of the answers, both inductive.      *)
THEOREM OutputInvariance == Spec => [](IInv /\ Output)
  <1>1. IInv /\ Output /\ [Next]_vars => IInv' /\ Output'
    BY InvStep, OutputStep DEF IInv
  <1> QED
    BY <1>1, InvInit, OutputInit, PTL DEF Spec

(* Every reachable state has its type; no generator counts a third end of   *)
(* its two pumps (runner.py:271-306).                                       *)
THEOREM TypeCorrect == Spec => []TypeOK
  <1>1. IInv /\ Output => TypeOK
    <2> SUFFICES ASSUME IInv, Output PROVE TypeOK
      OBVIOUS
    <2>1. free \in 0..Slots
      <3>1. Cardinality(Holders) \in Nat
        BY Finite, FS_CardinalityType
      <3> QED
        BY <3>1, BoundsAssumption DEF IInv, Counts
    <2>2. inflight \in Nat
      BY Finite, FS_CardinalityType DEF IInv, Counts
    <2> QED
      BY <2>1, <2>2 DEF IInv, Types, Places, Output, FlowTypes, TypeOK
  <1> QED
    BY <1>1, OutputInvariance, PTL

(* However the two pumps, the clock and the client interleave, a "done"     *)
(* that reports an exit comes after all that was read (runner.py:271-306).  *)
THEOREM OutputIsComplete == Spec => []OutputComplete
  <1>1. Output => OutputComplete
    BY DEF Output, Flow, OutputComplete
  <1> QED
    BY <1>1, OutputInvariance, PTL

(* The client is told the end once, and nothing after it; who is not told   *)
(* went away or met a failing save (routes.py:174-204, runner.py:326-328).  *)
THEOREM EndToldOnce == Spec => []DoneOnce
  <1>1. Output => DoneOnce
    <2> SUFFICES ASSUME Output, NEW s \in Streams
                 PROVE  /\ told[s] <= 1
                        /\ told[s] = 1 => at[s] \in {"busy", "finishing", "over"}
                        /\ at[s] = "over"
                           /\ faults[s] \cap {"never begun", "cut", "save failed"} = {} =>
                              told[s] = 1
      BY DEF DoneOnce
    <2>1. Answered(s)
      BY DEF Output
    <2>2. told[s] \in {0, 1}
      BY <2>1 DEF Answered
    <2>3. told[s] <= 1
      BY <2>2
    <2>4. at[s] \notin {"busy", "finishing", "over"} => told[s] = 0
      BY <2>1 DEF Answered
    <2>5. told[s] = 1 => at[s] \in {"busy", "finishing", "over"}
      BY <2>4
    <2> QED
      BY <2>1, <2>3, <2>5 DEF Answered
  <1> QED
    BY <1>1, OutputInvariance, PTL
=============================================================================
