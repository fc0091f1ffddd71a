------------------------- MODULE RedisLimiterProofs -------------------------
(***************************************************************************)
(* Both caps of the shared limiter, for any number of nodes and calls, any  *)
(* clocks no more than MaxSkew apart, crashes and lost replies.             *)
(***************************************************************************)
EXTENDS RedisLimiter, FiniteSetTheorems, WellFoundedInduction, TLAPS

(* An admission too young for any clock to call it old is still in the set. *)
Young == \A i \in Recent : log[i].kept

(* No place is held that is not counted, beside those the counter has       *)
(* forgotten, and its expiry was set no earlier than the last place was     *)
(* taken.                                                                   *)
Counted ==
    /\ Cardinality(Holders) <= count + forgotten
    /\ MaxInflight > 0 => count <= MaxInflight
    /\ \A c \in Holders : idle <= held[c]

IInv == TypeOK /\ Young /\ RateCap /\ Counted

-----------------------------------------------------------------------------
(* Sets of numbers and of calls                                             *)

LEMMA LeastNat ==
    ASSUME NEW K \in SUBSET Nat, K # {}
    PROVE  \E m \in K : \A n \in K : m <= n
  <1> DEFINE T == {1..n : n \in K}
  <1>1. T \subseteq FiniteSubsetsOf(Nat) /\ T # {}
    <2>1. \A n \in K : 1..n \in SUBSET Nat /\ IsFiniteSet(1..n)
      BY FS_Interval
    <2> QED
      BY <2>1 DEF FiniteSubsetsOf
  <1>2. PICK x \in T : \A y \in T : <<y, x>> \notin StrictSubsetOrdering(Nat)
    <2> HIDE DEF T
    <2> QED
      BY <1>1, WFMin, FS_StrictSubsetOrderingWellFounded
  <1>3. PICK m \in K : x = 1..m
    BY <1>2
  <1>4. ASSUME NEW n \in K, n < m PROVE FALSE
    <2>1. 1..n \subseteq 1..m /\ 1..n # 1..m /\ 1..n \in T
      BY <1>4
    <2>2. <<1..n, x>> \in StrictSubsetOrdering(Nat)
      BY <2>1, <1>3 DEF StrictSubsetOrdering
    <2> QED
      BY <1>2, <2>1, <2>2
  <1> QED
    BY <1>4

(* A set of indexes is finite, and no larger than one it is part of. *)
LEMMA IndexCount ==
    ASSUME NEW n \in Nat, NEW T \in SUBSET (1..n), NEW S \in SUBSET T
    PROVE  /\ IsFiniteSet(S) /\ IsFiniteSet(T)
           /\ Cardinality(S) \in Nat /\ Cardinality(T) \in Nat
           /\ Cardinality(S) <= Cardinality(T)
  <1>1. IsFiniteSet(1..n)
    BY FS_Interval
  <1>2. IsFiniteSet(T) /\ IsFiniteSet(S) /\ Cardinality(S) <= Cardinality(T)
    BY <1>1, FS_Subset
  <1> QED
    BY <1>2, FS_CardinalityType

LEMMA HoldersCount ==
    ASSUME NEW S \in SUBSET Calls, NEW c \in Calls
    PROVE  /\ IsFiniteSet(S) /\ Cardinality(S) \in Nat
           /\ Cardinality(S \cup {c}) \in Nat /\ Cardinality(S \cup {c}) <= Cardinality(S) + 1
           /\ c \in S => Cardinality(S) > 0 /\ Cardinality(S \ {c}) = Cardinality(S) - 1
           /\ \A T \in SUBSET S : Cardinality(T) \in Nat /\ Cardinality(T) <= Cardinality(S)
  <1>1. IsFiniteSet(S) /\ Cardinality(S) \in Nat
    BY CapsAssumption, FS_Subset, FS_CardinalityType
  <1>2. Cardinality(S \cup {c}) \in Nat /\ Cardinality(S \cup {c}) <= Cardinality(S) + 1
    <2>1. CASE c \in S
      BY <1>1, <2>1, S \cup {c} = S
    <2>2. CASE c \notin S
      <3>1. Cardinality(S \cup {c}) = Cardinality(S) + 1
        BY <1>1, <2>2, FS_AddElement
      <3> QED
        BY <1>1, <3>1
    <2> QED
      BY <2>1, <2>2
  <1>3. \A T \in SUBSET S : Cardinality(T) \in Nat /\ Cardinality(T) <= Cardinality(S)
    BY <1>1, FS_Subset, FS_CardinalityType
  <1>4. ASSUME c \in S
        PROVE  Cardinality(S) > 0 /\ Cardinality(S \ {c}) = Cardinality(S) - 1
    <2>1. Cardinality(S \ {c}) = Cardinality(S) - 1
      BY <1>1, <1>4, FS_RemoveElement
    <2>2. Cardinality(S \ {c}) \in Nat
      BY <1>3
    <2> QED
      BY <1>1, <2>1, <2>2
  <1> QED
    BY <1>1, <1>2, <1>3, <1>4

-----------------------------------------------------------------------------
(* The log                                                                  *)

Entry == [age : 0..MaxAge, skew : 0..MaxSkew, kept : BOOLEAN]

LEMMA Numbers ==
    MaxSkew \in Nat /\ Window \in Nat \ {0} /\ MaxAge \in Nat /\ MaxAge = Window + MaxSkew + 1
  BY SkewAssumption, TimesAssumption DEF MaxAge

LEMMA LogFact ==
    ASSUME TypeOK
    PROVE  /\ Len(log) \in Nat
           /\ \A i \in 1..Len(log) :
                log[i] \in Entry /\ log[i].age \in 0..MaxAge /\ log[i].skew \in 0..MaxSkew
                /\ log[i].kept \in BOOLEAN
  <1>1. log \in Seq(Entry)
    BY DEF TypeOK, Entry
  <1>2. Len(log) \in Nat /\ \A i \in 1..Len(log) : log[i] \in Entry
    BY <1>1
  <1> QED
    BY <1>2 DEF Entry

(* Pruning renames nothing and drops nobody who is young. *)
LEMMA PrunedFact ==
    ASSUME TypeOK, Young, NEW n \in Nodes
    PROVE  /\ Pruned(n) \in Seq(Entry) /\ Len(Pruned(n)) = Len(log)
           /\ \A i \in 1..Len(log) : Pruned(n)[i].age = log[i].age
           /\ \A i \in Recent : Pruned(n)[i].kept
  <1>1. \A i \in 1..Len(log) : /\ Pruned(n)[i] = [log[i] EXCEPT !.kept = @ /\ ~Old(log[i], n)]
                               /\ Pruned(n)[i] \in Entry
                               /\ Pruned(n)[i].age = log[i].age
                               /\ Pruned(n)[i].kept = (log[i].kept /\ ~Old(log[i], n))
    BY LogFact DEF Pruned, Entry
  <1>2. Pruned(n) \in Seq(Entry) /\ Len(Pruned(n)) = Len(log)
    <2>1. Pruned(n) \in [1..Len(log) -> Entry]
      BY <1>1 DEF Pruned
    <2> QED
      BY <2>1, LogFact
  <1>3. \A i \in Recent : ~Old(log[i], n)
    <2>1. Skew[n] \in 0..MaxSkew
      BY SkewAssumption
    <2> QED
      BY <2>1, LogFact, Numbers DEF Recent, Old
  <1> QED
    BY <1>1, <1>2, <1>3 DEF Recent, Young

(* An admission: those that count and the new one are at most PerMin. *)
LEMMA AdmitLog ==
    ASSUME TypeOK, Young, RateCap, NEW n \in Nodes, Admit(n)
    PROVE  log' \in Seq(Entry) /\ Young' /\ RateCap'
  <1> DEFINE new == [age |-> 0, skew |-> Skew[n], kept |-> TRUE]
  <1>1. CASE PerMin > 0
    <2> DEFINE K == {i \in 1..Len(log) : Pruned(n)[i].kept}
    <2>1. log' = Append(Pruned(n), new)
      BY <1>1 DEF Admit
    <2>2. new \in Entry
      BY SkewAssumption, Numbers DEF Entry
    <2>3. /\ log' \in Seq(Entry) /\ Len(log') = Len(log) + 1 /\ Len(log) \in Nat
          /\ \A i \in 1..Len(log) : log'[i] = Pruned(n)[i]
          /\ log'[Len(log) + 1] = new
      BY <2>1, <2>2, PrunedFact, LogFact
    <2>4. \A i \in Recent' : i = Len(log) + 1 \/ (i \in K /\ log'[i] = Pruned(n)[i])
      <3> TAKE i \in Recent'
      <3>1. i \in 1..Len(log) + 1 /\ log'[i].age + MaxSkew < Window
        BY <2>3 DEF Recent
      <3>2. ASSUME i # Len(log) + 1 PROVE i \in K /\ log'[i] = Pruned(n)[i]
        <4>1. i \in 1..Len(log)
          BY <2>3, <3>1, <3>2
        <4>2. i \in Recent
          BY <2>3, <3>1, <4>1, PrunedFact DEF Recent
        <4> QED
          BY <2>3, <4>1, <4>2, PrunedFact
      <3> QED
        BY <3>2
    <2>5. Young'
      BY <2>3, <2>4 DEF Young
    <2>6. Cardinality(K) < PerMin
      <3>1. Cardinality(K) \in Nat
        BY IndexCount, LogFact
      <3> QED
        BY <1>1, <3>1, CapsAssumption DEF Admit, RateFull
    <2>7. Cardinality(Recent') <= PerMin
      <3>1. Recent' \subseteq K \cup {Len(log) + 1} /\ Len(log) + 1 \notin K
        BY <2>3, <2>4
      <3>2. IsFiniteSet(K) /\ Cardinality(K) \in Nat
        BY IndexCount, LogFact
      <3>3. /\ IsFiniteSet(K \cup {Len(log) + 1})
            /\ Cardinality(K \cup {Len(log) + 1}) = Cardinality(K) + 1
        BY <3>1, <3>2, FS_AddElement
      <3>4. Cardinality(Recent') <= Cardinality(K) + 1 /\ Cardinality(Recent') \in Nat
        <4>1. IsFiniteSet(Recent') /\ Cardinality(Recent') <= Cardinality(K \cup {Len(log) + 1})
          BY <3>1, <3>3, FS_Subset
        <4>2. Cardinality(Recent') \in Nat
          BY <4>1, FS_CardinalityType
        <4> QED
          BY <3>3, <4>1, <4>2
      <3> QED
        BY <2>6, <3>2, <3>4, CapsAssumption
    <2> QED
      BY <2>3, <2>5, <2>7 DEF RateCap
  <1>2. CASE ~(PerMin > 0)
    <2>1. log' = log
      BY <1>2 DEF Admit
    <2> QED
      BY <1>2, <2>1 DEF TypeOK, Entry, Young, Recent, RateCap
  <1> QED
    BY <1>1, <1>2

(* A refusal prunes, and changes no age. *)
LEMMA RejectLog ==
    ASSUME TypeOK, Young, RateCap, NEW n \in Nodes, Reject(n)
    PROVE  log' \in Seq(Entry) /\ Young' /\ RateCap'
  <1>1. CASE log' = log
    BY <1>1 DEF TypeOK, Entry, Young, Recent, RateCap
  <1>2. CASE log' = Pruned(n)
    <2>1. log' \in Seq(Entry) /\ Len(log') = Len(log) /\ Recent' = Recent
      BY <1>2, PrunedFact DEF Recent
    <2> QED
      BY <1>2, <2>1, PrunedFact DEF Young, RateCap
  <1> QED
    BY <1>1, <1>2 DEF Reject

(* The log of a tick later begins somewhere in the log as it is. *)
LEMMA StartFact ==
    ASSUME NEW n \in Nat, NEW entries, Len(entries) = n
    PROVE  Start(entries) \in 1..n + 1
  <1> DEFINE Counting == {i \in 1..Len(entries) : entries[i].kept \/ entries[i].age <= Window}
             Starts == Counting \cup {Len(entries) + 1}
  <1>1. Starts \in SUBSET Nat /\ Starts # {} /\ Starts \subseteq 1..n + 1
    OBVIOUS
  <1>2. \E i \in Starts : \A j \in Starts : i <= j
    <2> HIDE DEF Starts
    <2> QED
      BY <1>1, LeastNat
  <1>3. Start(entries) = CHOOSE i \in Starts : \A j \in Starts : i <= j
    BY DEF Start
  <1>4. Start(entries) \in Starts
    <2> HIDE DEF Starts
    <2> QED
      BY <1>2, <1>3
  <1> QED
    BY <1>1, <1>4

(* Time passes: nobody gets younger, and who is recent was recent before.    *)
LEMMA TickLog ==
    ASSUME TypeOK, Young, RateCap, Tick
    PROVE  log' \in Seq(Entry) /\ Young' /\ RateCap'
  <1> DEFINE s == Start(Aged)
  <1>1. /\ Aged \in Seq(Entry) /\ Len(Aged) = Len(log) /\ Len(log) \in Nat
        /\ \A i \in 1..Len(log) :
             /\ Aged[i].kept = log[i].kept
             /\ Aged[i].age \in Nat
             /\ Aged[i].age + MaxSkew < Window => log[i].age + MaxSkew < Window
    <2>1. \A i \in 1..Len(log) :
             /\ Aged[i] = [log[i] EXCEPT !.age = IF @ < MaxAge THEN @ + 1 ELSE @]
             /\ Aged[i] \in Entry /\ Aged[i].kept = log[i].kept
             /\ Aged[i].age = IF log[i].age < MaxAge THEN log[i].age + 1 ELSE log[i].age
      BY LogFact, Numbers DEF Aged, Entry
    <2>2. Aged \in [1..Len(log) -> Entry]
      BY <2>1 DEF Aged
    <2>3. Aged \in Seq(Entry) /\ Len(Aged) = Len(log) /\ Len(log) \in Nat
      BY <2>2, LogFact
    <2>4. ASSUME NEW i \in 1..Len(log)
          PROVE  /\ Aged[i].age \in Nat
                 /\ Aged[i].age + MaxSkew < Window => log[i].age + MaxSkew < Window
      <3> DEFINE a == log[i].age
                 b == Aged[i].age
      <3>1. a \in 0..MaxAge /\ b = IF a < MaxAge THEN a + 1 ELSE a
        BY <2>1, LogFact
      <3> HIDE DEF a, b
      <3>2. b \in Nat /\ (b + MaxSkew < Window => a + MaxSkew < Window)
        BY <3>1, Numbers
      <3> QED
        BY <3>2 DEF a, b
    <2> QED
      BY <2>1, <2>3, <2>4
  <1>2. CASE log' = <<>>
    <2>1. Recent' = {} /\ log' \in Seq(Entry)
      BY <1>2 DEF Recent
    <2> QED
      BY <2>1, FS_EmptySet, CapsAssumption DEF Young, RateCap
  <1>3. CASE log' = SubSeq(Aged, s, Len(log))
    <2>1. s \in 1..Len(log) + 1
      BY <1>1, StartFact
    <2>2. /\ log' \in Seq(Entry) /\ Len(log') = Len(log) + 1 - s
          /\ \A i \in 1..Len(log') : log'[i] = Aged[i + s - 1]
      <3> HIDE DEF s
      <3> QED
        BY <1>1, <1>3, <2>1
    <2>3. \A i \in Recent' : i \in Nat /\ i + s - 1 \in Recent /\ log'[i].kept = log[i + s - 1].kept
      <3> HIDE DEF s
      <3> TAKE i \in Recent'
      <3>1. i \in 1..Len(log') /\ log'[i].age + MaxSkew < Window
        BY DEF Recent
      <3>2. i + s - 1 \in 1..Len(log) /\ log'[i] = Aged[i + s - 1]
        BY <1>1, <2>1, <2>2, <3>1
      <3> QED
        BY <1>1, <3>1, <3>2 DEF Recent
    <2>4. Young'
      BY <2>3 DEF Young
    <2>5. Cardinality(Recent') \in Nat /\ Cardinality(Recent') <= Cardinality(Recent)
      <3> HIDE DEF s
      <3>1. Recent \subseteq 1..Len(log) /\ Recent' \subseteq Nat
        BY <2>3 DEF Recent
      <3>2. IsFiniteSet(Recent)
        BY <1>1, <3>1, IndexCount
      <3>3. [i \in Recent' |-> i + s - 1] \in Injection(Recent', Recent)
        BY <2>1, <2>3, <3>1 DEF Injection, IsInjective
      <3> QED
        BY <3>2, <3>3, FS_Injection, FS_CardinalityType
    <2>6. Cardinality(Recent) \in Nat
      BY <1>1, IndexCount DEF Recent
    <2> QED
      BY <2>2, <2>4, <2>5, <2>6, CapsAssumption DEF RateCap
  <1> QED
    BY <1>2, <1>3 DEF Tick

-----------------------------------------------------------------------------
(* The counter and the invariant                                            *)

LEMMA InvInit == Init => IInv
  <1> SUFFICES ASSUME Init PROVE IInv
    OBVIOUS
  <1>1. Recent = {} /\ Holders = {}
    BY DEF Init, Recent, Holders
  <1> QED
    BY <1>1, FS_EmptySet, CapsAssumption, TimesAssumption
    DEF Init, IInv, TypeOK, Young, RateCap, Counted

LEMMA AcquireStep ==
    ASSUME IInv, NEW n \in Nodes, NEW c \in Calls, Acquire(c, n)
    PROVE  IInv'
  <1> USE DEF IInv, TypeOK
  <1>1. /\ Admit(n) /\ holder' = [holder EXCEPT ![c] = n] /\ held' = [held EXCEPT ![c] = 0]
        /\ ~CountFull /\ count' = count + 1 /\ idle' = 0 /\ UNCHANGED forgotten
    BY DEF Acquire, Admit
  <1>2. log' \in Seq(Entry) /\ Young' /\ RateCap'
    BY <1>1, AdmitLog
  <1>3. TypeOK'
    BY <1>1, <1>2, TimesAssumption DEF Entry
  <1>4. Holders' \subseteq Holders \cup {c} /\ Holders \subseteq Calls
    BY <1>1 DEF Holders
  <1>5. Cardinality(Holders') <= count' + forgotten'
    <2>1. /\ IsFiniteSet(Holders \cup {c}) /\ Holders \cup {c} \in SUBSET Calls
          /\ Cardinality(Holders \cup {c}) <= Cardinality(Holders) + 1
          /\ Cardinality(Holders \cup {c}) \in Nat /\ Cardinality(Holders) \in Nat
      BY <1>4, HoldersCount
    <2>2. Cardinality(Holders') <= Cardinality(Holders \cup {c}) /\ Cardinality(Holders') \in Nat
      BY <1>4, <2>1, HoldersCount
    <2> QED
      BY <1>1, <2>1, <2>2 DEF Counted
  <1>6. MaxInflight > 0 => count' <= MaxInflight
    BY <1>1, CapsAssumption DEF CountFull
  <1>7. \A d \in Holders' : idle' <= held'[d]
    BY <1>1, <1>3, <1>4
  <1> QED
    BY <1>2, <1>3, <1>5, <1>6, <1>7 DEF Counted

LEMMA ReplyLostStep ==
    ASSUME IInv, NEW n \in Nodes, ReplyLost(n)
    PROVE  IInv'
  <1> USE DEF IInv, TypeOK
  <1>1. /\ Admit(n) /\ UNCHANGED <<holder, held, forgotten>>
        /\ ~CountFull /\ count' = count + 1 /\ idle' = 0
    BY DEF ReplyLost, Admit
  <1>2. log' \in Seq(Entry) /\ Young' /\ RateCap'
    BY <1>1, AdmitLog
  <1>3. TypeOK'
    BY <1>1, <1>2, TimesAssumption DEF Entry
  <1>4. Counted'
    <2>1. Holders' = Holders /\ Cardinality(Holders) \in Nat
      BY <1>1, CapsAssumption, FS_Subset, FS_CardinalityType DEF Holders
    <2>2. \A d \in Holders' : idle' <= held'[d]
      BY <1>1, <2>1 DEF Holders
    <2> QED
      BY <1>1, <2>1, <2>2, CapsAssumption DEF Counted, CountFull
  <1> QED
    BY <1>2, <1>3, <1>4

LEMMA RejectStep ==
    ASSUME IInv, NEW n \in Nodes, Reject(n)
    PROVE  IInv'
  <1>1. log' \in Seq(Entry) /\ Young' /\ RateCap'
    BY RejectLog DEF IInv
  <1>2. UNCHANGED <<count, idle, holder, held, forgotten>>
    BY DEF Reject
  <1> QED
    BY <1>1, <1>2 DEF IInv, TypeOK, Entry, Counted, Holders

(* A place is given up, whether or not the counter hears of it. *)
LEMMA LeaveStep ==
    ASSUME IInv, UNCHANGED <<log, idle, held, forgotten>>, holder' \in [Calls -> Nodes \cup {"none"}],
           Holders' \subseteq Holders,
           \/ UNCHANGED count
           \/ /\ \E c \in Holders : Holders' = Holders \ {c}
              /\ count' = IF count > 0 THEN count - 1 ELSE 0
    PROVE  IInv'
  <1> USE DEF IInv, TypeOK
  <1>1. Holders \in SUBSET Calls
    BY DEF Holders
  <1>2. /\ Cardinality(Holders) \in Nat /\ Cardinality(Holders') \in Nat
        /\ Cardinality(Holders') <= Cardinality(Holders)
    BY <1>1, CapsAssumption, FS_Subset, FS_CardinalityType
  <1>3. /\ count' \in Nat /\ Cardinality(Holders') <= count' + forgotten'
        /\ MaxInflight > 0 => count' <= MaxInflight
    <2>1. CASE UNCHANGED count
      BY <1>2, <2>1 DEF Counted
    <2>2. ASSUME NEW c \in Holders, Holders' = Holders \ {c},
                 count' = IF count > 0 THEN count - 1 ELSE 0
          PROVE  /\ count' \in Nat /\ Cardinality(Holders') <= count' + forgotten'
                 /\ MaxInflight > 0 => count' <= MaxInflight
      <3>1. Cardinality(Holders) > 0 /\ Cardinality(Holders') = Cardinality(Holders) - 1
        BY <1>1, <2>2, HoldersCount
      <3> QED
        BY <1>2, <2>2, <3>1, CapsAssumption DEF Counted
    <2> QED
      BY <2>1, <2>2
  <1>4. TypeOK' /\ Young' /\ RateCap'
    BY <1>3 DEF Young, RateCap, Recent
  <1> QED
    BY <1>3, <1>4 DEF Counted

LEMMA ReleaseStep ==
    ASSUME IInv, NEW c \in Calls, Release(c) \/ ReleaseLost(c)
    PROVE  IInv'
  <1>1. /\ c \in Holders /\ holder' = [holder EXCEPT ![c] = "none"]
        /\ UNCHANGED <<log, idle, held, forgotten>>
        /\ UNCHANGED count \/ count' = IF count > 0 THEN count - 1 ELSE 0
    BY DEF Release, ReleaseLost
  <1>2. Holders' = Holders \ {c} /\ holder' \in [Calls -> Nodes \cup {"none"}]
    BY <1>1 DEF IInv, TypeOK, Holders
  <1> QED
    BY <1>1, <1>2, LeaveStep

LEMMA CrashStep ==
    ASSUME IInv, NEW n \in Nodes, NodeCrashes(n)
    PROVE  IInv'
  <1>1. Holders' \subseteq Holders /\ holder' \in [Calls -> Nodes \cup {"none"}]
    BY DEF IInv, TypeOK, NodeCrashes, Holders
  <1> QED
    BY <1>1, LeaveStep DEF NodeCrashes

(* Whoever holds a place when the counter expires has held it for as long   *)
(* as the counter lives.                                                    *)
LEMMA TickStep ==
    ASSUME IInv, Tick
    PROVE  IInv'
  <1> USE DEF IInv, TypeOK
  <1>1. /\ idle' = IF count = 0 \/ Expires THEN 0 ELSE idle + 1
        /\ count' = IF Expires THEN 0 ELSE count
        /\ forgotten' = IF Expires THEN Cardinality(Outlasting) ELSE forgotten
        /\ held' = [c \in Calls |->
                      IF c \notin Holders THEN 0
                      ELSE IF held[c] < Ttl THEN held[c] + 1 ELSE Ttl]
        /\ Holders' = Holders /\ UNCHANGED holder
    BY DEF Tick, Holders
  <1>2. log' \in Seq(Entry) /\ Young' /\ RateCap'
    BY TickLog
  <1>3. Holders \in SUBSET Calls /\ Outlasting \in SUBSET Holders
    BY DEF Holders, Outlasting
  <1>4. Cardinality(Holders) \in Nat /\ Cardinality(Outlasting) \in Nat
    BY <1>3, CapsAssumption, FS_Subset, FS_CardinalityType
  <1>5. held' \in [Calls -> 0..Ttl] /\ \A c \in Holders : idle' <= held'[c]
    <2>1. ASSUME NEW c \in Holders
          PROVE  /\ held'[c] = IF held[c] < Ttl THEN held[c] + 1 ELSE Ttl
                 /\ held'[c] \in 0..Ttl /\ idle' <= held'[c]
      <3>1. held'[c] = IF held[c] < Ttl THEN held[c] + 1 ELSE Ttl
        BY <1>1, <1>3, <2>1
      <3>2. held[c] \in 0..Ttl /\ idle \in 0..Ttl /\ idle <= held[c] /\ count \in Nat
        BY <1>3, <2>1 DEF Counted
      <3>3. idle' <= held'[c] /\ held'[c] \in 0..Ttl
        BY <1>1, <3>1, <3>2, TimesAssumption DEF Expires
      <3> QED
        BY <3>1, <3>3
    <2>2. held' \in [Calls -> 0..Ttl]
      BY <1>1, TimesAssumption
    <2> QED
      BY <2>1, <2>2
  <1>6. TypeOK'
    <2>1. idle' \in 0..Ttl /\ count' \in Nat /\ forgotten' \in Nat
      BY <1>1, <1>4, TimesAssumption DEF Expires
    <2> QED
      BY <1>1, <1>2, <1>5, <2>1 DEF Entry
  <1>7. Cardinality(Holders) <= count' + forgotten'
    <2>1. CASE Expires
      <3>1. \A c \in Holders : held[c] + 1 >= Ttl
        BY <1>3, <2>1, TimesAssumption DEF Counted, Expires
      <3>2. Outlasting = Holders
        BY <3>1 DEF Outlasting
      <3> QED
        BY <1>1, <1>4, <2>1, <3>2
    <2>2. CASE ~Expires
      BY <1>1, <2>2 DEF Counted
    <2> QED
      BY <2>1, <2>2
  <1>8. MaxInflight > 0 => count' <= MaxInflight
    BY <1>1, CapsAssumption DEF Counted
  <1> QED
    BY <1>1, <1>2, <1>5, <1>6, <1>7, <1>8 DEF Counted

LEMMA InvStep == IInv /\ [Next]_vars => IInv'
  <1> SUFFICES ASSUME IInv, [Next]_vars PROVE IInv'
    OBVIOUS
  <1>1. CASE UNCHANGED vars
    BY <1>1 DEF vars, IInv, TypeOK, Young, RateCap, Recent, Counted, Holders
  <1> QED
    BY <1>1, AcquireStep, ReplyLostStep, RejectStep, ReleaseStep, CrashStep, TickStep DEF Next

LEMMA Invariance == Spec => []IInv
  BY InvInit, InvStep, PTL DEF Spec

THEOREM TypeCorrect == Spec => []TypeOK
  BY Invariance, PTL DEF IInv

(* "concurrent nodes can't jointly exceed a cap" (backends.py:12), whatever  *)
(* crashes and gets lost and however long a place is held: that of requests *)
(* at a time, but for as many as outlasted the counter when it last         *)
(* expired, and that of admissions in a window shortened by the             *)
(* disagreement of the clocks.                                              *)
THEOREM CapsAreHeld == Spec => []CapsHold
  <1>1. IInv => CapsHold
    <2> SUFFICES ASSUME IInv PROVE CapsHold
      OBVIOUS
    <2>1. Cardinality(Holders) \in Nat
      BY CapsAssumption, FS_Subset, FS_CardinalityType DEF Holders
    <2> QED
      BY <2>1, CapsAssumption DEF IInv, TypeOK, Counted, CapsHold, ConcurrencyCap
  <1> QED
    BY <1>1, Invariance, PTL

=============================================================================
