-------------------------- MODULE RateLimitProofs --------------------------
(***************************************************************************)
(* Proofs about RateLimit, for every set of identities, every pair of caps *)
(* and every window.                                                       *)
(*                                                                         *)
(* What makes the rate cap inductive is how little the limiter may forget: *)
(* the window it keeps is the end of the log of all admissions, and every  *)
(* admission before that is expired (Suffix).                              *)
(***************************************************************************)
EXTENDS RateLimit, FiniteSetTheorems, SequenceTheorems, TLAPS

Ordered ==
    \A i \in Identities : \A j, k \in DOMAIN log[i] :
        /\ j <= k => log[i][j] <= log[i][k]
        /\ log[i][k] <= now

(* The window is the end of the log, and what came before it is expired.    *)
Suffix ==
    \A i \in Identities :
        LET cut == Len(log[i]) - Len(WindowOf(i))
        IN  /\ cut >= 0
            /\ \A j \in 1..Len(WindowOf(i)) : WindowOf(i)[j] = log[i][cut + j]
            /\ \A j \in 1..cut : Expired(log[i][j])

WindowSmall == PerMin > 0 => \A i \in DOMAIN events : Len(events[i]) <= PerMin

IInv ==
    TypeOK /\ Ordered /\ Suffix /\ WindowSmall /\ RateBounded /\ InflightBounded /\ CountsExact

-----------------------------------------------------------------------------

LEMMA LeastNat ==
    ASSUME NEW K \in SUBSET Nat, K # {}
    PROVE  \E m \in K : \A n \in K : m <= n
  <1> DEFINE T == {1..n : n \in K}
  <1>1. T \subseteq FiniteSubsetsOf(Nat) /\ T # {}
    <2>1. \A n \in K : 1..n \in SUBSET Nat /\ IsFiniteSet(1..n)
      BY FS_Interval
    <2> QED
      BY <2>1 DEF FiniteSubsetsOf
  <1>2. PICK x \in T : \A y \in T : <<y, x>> \notin StrictSubsetOrdering(Nat)
    <2> HIDE DEF T
    <2> QED
      BY <1>1, WFMin, FS_StrictSubsetOrderingWellFounded
  <1>3. PICK m \in K : x = 1..m
    BY <1>2
  <1>4. ASSUME NEW n \in K, n < m PROVE FALSE
    <2>1. 1..n \subseteq 1..m /\ 1..n # 1..m /\ 1..n \in T
      BY <1>4
    <2>2. <<1..n, x>> \in StrictSubsetOrdering(Nat)
      BY <2>1, <1>3 DEF StrictSubsetOrdering
    <2> QED
      BY <1>2, <2>1, <2>2
  <1> QED
    BY <1>4

LEMMA InitHolds == Init => IInv
  BY CapsAssumption, TimeAssumption, CallersAssumption
  DEF Init, IInv, TypeOK, Ordered, Suffix, WindowSmall, RateBounded, InflightBounded, CountsExact, WindowOf

LEMMA TimesOf ==
    ASSUME NEW s \in Seq(0..Horizon)
    PROVE  /\ Len(s) \in Nat /\ DOMAIN s = 1..Len(s)
           /\ \A j \in 1..Len(s) : s[j] \in Int
  <1>1. \A j \in 1..Len(s) : s[j] \in 0..Horizon
    BY ElementOfSeq
  <1> QED
    BY <1>1, TimeAssumption

LEMMA WindowType ==
    ASSUME TypeOK, NEW i \in Identities
    PROVE  WindowOf(i) \in Seq(0..Horizon)
  <1>1. CASE i \in DOMAIN events
    BY <1>1 DEF TypeOK, WindowOf
  <1>2. CASE i \notin DOMAIN events
    BY <1>2 DEF WindowOf
  <1> QED
    BY <1>1, <1>2

(* The loop stops somewhere, and CHOOSE finds where. *)
LEMMA FrontIs ==
    ASSUME TypeOK, NEW i \in Identities, NEW w, w = WindowOf(i)
    PROVE  /\ Front(w) \in 1..(Len(w) + 1)
           /\ \A j \in 1..(Front(w) - 1) : Expired(w[j])
           /\ Front(w) <= Len(w) => ~Expired(w[Front(w)])
  <1> DEFINE Stops(k) == k <= Len(w) => ~Expired(w[k])
             K == {k \in 1..(Len(w) + 1) : Stops(k)}
  <1>1. Len(w) \in Nat
    BY WindowType
  <1>2. K \in SUBSET Nat /\ K # {}
    <2>1. Len(w) + 1 \in K
      BY <1>1
    <2> QED
      BY <2>1, <1>1
  <1>3. PICK m \in K : \A n \in K : m <= n
    <2> HIDE DEF K
    <2> QED
      BY <1>2, LeastNat
  <1>4. \A j \in 1..(m - 1) : Expired(w[j])
    <2> SUFFICES ASSUME NEW j \in 1..(m - 1) PROVE Expired(w[j])
      OBVIOUS
    <2>1. j \in 1..(Len(w) + 1) /\ j \notin K
      BY <1>1, <1>3
    <2> QED
      BY <2>1
  <1>5. m \in 1..(Len(w) + 1) /\ (m <= Len(w) => ~Expired(w[m]))
    BY <1>3
  <1> HIDE DEF K, Stops
  <1> QED
    BY <1>4, <1>5 DEF Front

(* What the loop leaves is still the end of the log, with all before it     *)
(* expired.                                                                 *)
LEMMA RecentIs ==
    ASSUME TypeOK, Suffix, NEW i \in Identities, NEW r, r = Recent(i)
    PROVE  /\ r \in Seq(0..Horizon)
           /\ Len(r) <= Len(WindowOf(i)) /\ Len(r) <= Len(log[i])
           /\ \A j \in 1..Len(r) : r[j] = log[i][Len(log[i]) - Len(r) + j]
           /\ \A j \in 1..(Len(log[i]) - Len(r)) : Expired(log[i][j])
           /\ r # <<>> => ~Expired(r[1])
  <1> DEFINE w == WindowOf(i)
             k == Front(w)
             cut == Len(log[i]) - Len(w)
  <1>1. w \in Seq(0..Horizon) /\ Len(w) \in Nat /\ log[i] \in Seq(0..Horizon) /\ Len(log[i]) \in Nat
    BY WindowType DEF TypeOK
  <1>2. /\ k \in 1..(Len(w) + 1)
        /\ \A j \in 1..(k - 1) : Expired(w[j])
        /\ k <= Len(w) => ~Expired(w[k])
    BY FrontIs
  <1>3. /\ cut >= 0
        /\ \A j \in 1..Len(w) : w[j] = log[i][cut + j]
        /\ \A j \in 1..cut : Expired(log[i][j])
    BY DEF Suffix
  <1>4. r = SubSeq(w, k, Len(w))
    BY DEF Recent
  <1> HIDE DEF w, k, cut
  <1>a. Len(w) \in Nat /\ k \in Nat /\ 1 <= k /\ k <= Len(w) + 1
    BY <1>1, <1>2
  <1>b. cut \in Nat /\ Len(log[i]) \in Nat /\ cut = Len(log[i]) - Len(w)
    BY <1>1, <1>3 DEF cut
  <1>5. /\ r \in Seq(0..Horizon) /\ Len(r) = Len(w) - k + 1
        /\ \A j \in 1..Len(r) : r[j] = w[k + j - 1]
    <2>0. \A j \in 1..Len(w) : w[j] \in 0..Horizon
      BY <1>1, ElementOfSeq
    <2>1. k \in Int /\ Len(w) \in Int /\ \A j \in k..Len(w) : w[j] \in 0..Horizon
      BY <1>a, <2>0
    <2>2. r \in Seq(0..Horizon) /\ Len(r) = IF k <= Len(w) THEN Len(w) - k + 1 ELSE 0
      BY <2>1, <1>4, SubSeqProperties
    <2>3. Len(r) = Len(w) - k + 1
      BY <2>1, <2>2, <1>2
    <2>4. \A j \in 1..Len(r) : r[j] = w[k + j - 1]
      BY <2>1, <2>3, <1>1, <1>2, <1>4
    <2> QED
      BY <2>2, <2>3, <2>4
  <1>6. Len(log[i]) - Len(r) = cut + k - 1
    BY <1>1, <1>2, <1>5 DEF cut
  <1>7. \A j \in 1..Len(r) : r[j] = log[i][Len(log[i]) - Len(r) + j]
    <2> SUFFICES ASSUME NEW j \in 1..Len(r)
                 PROVE  r[j] = log[i][Len(log[i]) - Len(r) + j]
      OBVIOUS
    <2>1. j \in Int /\ 1 <= j /\ j <= Len(w) - k + 1
      BY <1>a, <1>5
    <2>2. k + j - 1 \in 1..Len(w)
      BY <2>1, <1>a
    <2>3. cut + (k + j - 1) = (cut + k - 1) + j
      <3>1. \A x, y, z \in Int : x + (y + z - 1) = (x + y - 1) + z
        OBVIOUS
      <3>2. cut \in Int /\ k \in Int
        BY <1>a, <1>b
      <3> QED
        BY <3>1, <3>2, <2>1, Zenon
    <2>4. r[j] = w[k + j - 1] /\ w[k + j - 1] = log[i][cut + (k + j - 1)]
      BY <2>2, <1>3, <1>5
    <2> QED
      BY <2>3, <2>4, <1>6
  <1>8. \A j \in 1..(Len(log[i]) - Len(r)) : Expired(log[i][j])
    <2> SUFFICES ASSUME NEW j \in 1..(cut + k - 1) PROVE Expired(log[i][j])
      BY <1>6
    <2>1. CASE j <= cut
      BY <2>1, <1>1, <1>3 DEF cut
    <2>2. CASE j > cut
      <3>0. j \in Int /\ j <= cut + k - 1
        BY <1>a, <1>b
      <3>a. PICK m \in Int : cut + m = j
        <4>1. \A x, y \in Int : \E z \in Int : y + z = x
          <5> SUFFICES ASSUME NEW x \in Int, NEW y \in Int PROVE \E z \in Int : y + z = x
            OBVIOUS
          <5> WITNESS x - y \in Int
          <5> QED
            OBVIOUS
        <4>2. cut \in Int /\ j \in Int
          BY <3>0, <1>b
        <4> QED
          BY <4>1, <4>2, Zenon
      <3>1. 1 <= m /\ m <= k - 1 /\ m <= Len(w)
        BY <2>2, <3>0, <3>a, <1>a, <1>b
      <3>2. Expired(w[m]) /\ w[m] = log[i][cut + m]
        BY <3>1, <1>a, <1>2, <1>3
      <3> QED
        BY <3>2, <3>a
    <2> QED
      BY <2>1, <2>2, <1>1, <1>2 DEF cut
  <1>9. r # <<>> => ~Expired(r[1])
    <2> SUFFICES ASSUME r # <<>> PROVE ~Expired(r[1])
      OBVIOUS
    <2>1. Len(r) >= 1
      BY <1>5
    <2>2. k <= Len(w) /\ r[1] = w[k]
      BY <2>1, <1>1, <1>2, <1>5
    <2> QED
      BY <2>2, <1>2
  <1>10. Len(r) <= Len(w) /\ Len(r) <= Len(log[i])
    BY <1>1, <1>2, <1>3, <1>5 DEF cut
  <1> QED
    BY <1>5, <1>7, <1>8, <1>9, <1>10 DEF w

(* Time only makes more of the log expire, and leaves all else alone. *)
LEMMA TickStep == IInv /\ Tick => IInv'
  <1> SUFFICES ASSUME IInv, Tick PROVE IInv'
    OBVIOUS
  <1>1. now' = now + 1 /\ now' \in 0..Horizon /\ UNCHANGED <<events, inflight, holders, log>>
    BY TimeAssumption DEF IInv, TypeOK, Tick
  <1>2. TypeOK'
    BY <1>1 DEF IInv, TypeOK
  <1>3. \A i \in Identities : log[i] \in Seq(0..Horizon) /\ Len(log[i]) \in Nat
    BY DEF IInv, TypeOK
  <1>4. \A i \in Identities : \A j \in DOMAIN log[i] : log[i][j] \in Int
    BY <1>3, TimesOf
  <1>5. Ordered'
    BY <1>1, <1>4 DEF IInv, TypeOK, Ordered
  <1>6. \A i \in Identities : WindowOf(i)' = WindowOf(i)
    BY <1>1 DEF WindowOf
  <1>7. \A t \in Int : Expired(t) => Expired(t)'
    BY <1>1, TimeAssumption DEF IInv, TypeOK, Expired
  <1>8. Suffix'
    <2> SUFFICES ASSUME NEW i \in Identities,
                        NEW j \in 1..(Len(log[i]) - Len(WindowOf(i)))
                 PROVE  Expired(log[i][j])'
      BY <1>1, <1>6 DEF IInv, Suffix
    <2>1. Len(WindowOf(i)) \in Nat
      BY WindowType DEF IInv
    <2>2. j \in DOMAIN log[i]
      BY <1>3, <2>1
    <2> QED
      BY <1>1, <1>4, <1>7, <2>2 DEF IInv, Suffix
  <1>9. WindowSmall' /\ RateBounded' /\ InflightBounded' /\ CountsExact'
    BY <1>1 DEF IInv, WindowSmall, RateBounded, InflightBounded, CountsExact
  <1> QED
    BY <1>2, <1>5, <1>8, <1>9 DEF IInv

(* A rejected acquire() still prunes the window. *)
LEMMA RejectStep == ASSUME NEW i \in Identities PROVE IInv /\ Reject(i) => IInv'
  <1> SUFFICES ASSUME IInv, Reject(i), PerMin > 0 PROVE IInv'
    <2>1. ASSUME IInv, Reject(i), ~(PerMin > 0) PROVE UNCHANGED vars
      BY <2>1 DEF Reject, Pruned, vars
    <2>2. IInv /\ UNCHANGED vars => IInv'
      BY DEF vars, IInv, TypeOK, Ordered, Suffix, WindowOf, Expired, WindowSmall, RateBounded,
             InflightBounded, CountsExact
    <2> QED
      BY <2>1, <2>2
  <1> DEFINE r == Recent(i)
  <1>1. events' = Put(events, i, r) /\ UNCHANGED <<now, inflight, holders, log>>
    BY DEF Reject, Pruned
  <1>2. /\ r \in Seq(0..Horizon)
        /\ Len(r) <= Len(WindowOf(i)) /\ Len(r) <= Len(log[i])
        /\ \A j \in 1..Len(r) : r[j] = log[i][Len(log[i]) - Len(r) + j]
        /\ \A j \in 1..(Len(log[i]) - Len(r)) : Expired(log[i][j])
    BY RecentIs DEF IInv
  <1> HIDE DEF r
  <1>3. /\ DOMAIN events' = DOMAIN events \cup {i}
        /\ events'[i] = r
        /\ \A k \in DOMAIN events : k # i => events'[k] = events[k]
    BY <1>1 DEF Put
  <1>4. TypeOK'
    <2>1. events' \in [DOMAIN events' -> Seq(0..Horizon)]
      BY <1>1, <1>2 DEF IInv, TypeOK, Put
    <2>2. DOMAIN events' \subseteq Identities
      BY <1>3 DEF IInv, TypeOK
    <2> QED
      BY <1>1, <2>1, <2>2 DEF IInv, TypeOK
  <1>5. WindowOf(i)' = r /\ \A k \in Identities : k # i => WindowOf(k)' = WindowOf(k)
    BY <1>3 DEF WindowOf
  <1>6. Suffix'
    <2> SUFFICES ASSUME NEW k \in Identities
                 PROVE  LET cut == Len(log[k]) - Len(WindowOf(k)')
                        IN  /\ cut >= 0
                            /\ \A j \in 1..Len(WindowOf(k)') : WindowOf(k)'[j] = log[k][cut + j]
                            /\ \A j \in 1..cut : Expired(log[k][j])
      BY <1>1 DEF Suffix, Expired
    <2>1. CASE k = i
      <3>1. Len(r) \in Nat /\ Len(log[i]) \in Nat
        BY <1>2 DEF IInv, TypeOK
      <3> QED
        BY <2>1, <3>1, <1>2, <1>5
    <2>2. CASE k # i
      BY <2>2, <1>5 DEF IInv, Suffix
    <2> QED
      BY <2>1, <2>2
  <1>7. WindowSmall'
    <2>1. Len(r) \in Nat /\ Len(WindowOf(i)) \in Nat
      BY <1>2, WindowType DEF IInv
    <2>2. Len(WindowOf(i)) <= PerMin
      BY CapsAssumption DEF IInv, WindowSmall, WindowOf
    <2>3. Len(r) <= PerMin
      BY <1>2, <2>1, <2>2, CapsAssumption
    <2> QED
      BY <1>3, <2>3 DEF IInv, WindowSmall
  <1>8. Ordered' /\ RateBounded' /\ InflightBounded' /\ CountsExact'
    BY <1>1 DEF IInv, Ordered, RateBounded, InflightBounded, CountsExact
  <1> QED
    BY <1>4, <1>6, <1>7, <1>8 DEF IInv

(* An admission is appended to both the window and the log: the PerMin-th   *)
(* before it is not in the window any more, hence expired.                  *)
LEMMA AdmitStep == ASSUME NEW i \in Identities PROVE IInv /\ Admit(i) => IInv'
  <1> SUFFICES ASSUME IInv, Admit(i) PROVE IInv'
    OBVIOUS
  <1>1. /\ holders[i] < MaxCallers /\ ~RateFull(i) /\ ~CountFull(i)
        /\ holders' = [holders EXCEPT ![i] = @ + 1]
        /\ inflight' = Put(inflight, i, CountOf(i) + 1)
        /\ now' = now
    BY DEF Admit
  <1>2. CountOf(i) = holders[i]
    BY DEF IInv, TypeOK, CountsExact, CountOf
  <1>3. /\ holders' \in [Identities -> 0..MaxCallers]
        /\ DOMAIN inflight' \subseteq Identities
        /\ inflight' \in [DOMAIN inflight' -> Nat]
        /\ InflightBounded' /\ CountsExact'
    <2>1. DOMAIN inflight' = DOMAIN inflight \cup {i} /\ inflight'[i] = holders[i] + 1
      BY <1>1, <1>2 DEF Put
    <2>2. \A k \in DOMAIN inflight : k # i => inflight'[k] = inflight[k]
      BY <1>1 DEF Put
    <2>3. holders[i] \in Nat /\ holders' \in [Identities -> 0..MaxCallers]
      BY <1>1, CallersAssumption DEF IInv, TypeOK
    <2>4. DOMAIN inflight' \subseteq Identities /\ inflight' \in [DOMAIN inflight' -> Nat]
      <3>1. DOMAIN inflight' \subseteq Identities
        BY <2>1 DEF IInv, TypeOK
      <3>2. \A k \in DOMAIN inflight' : inflight'[k] \in Nat
        BY <2>1, <2>2, <2>3 DEF IInv, TypeOK
      <3>3. inflight' = [k \in DOMAIN inflight' |-> inflight'[k]]
        BY <1>1 DEF Put
      <3> QED
        BY <3>1, <3>2, <3>3
    <2>5. InflightBounded'
      BY <1>1, <1>2, <2>3, CapsAssumption DEF IInv, TypeOK, InflightBounded, CountFull
    <2>6. CountsExact'
      <3>1. /\ \A k \in Identities : k # i => holders'[k] = holders[k]
            /\ holders'[i] = holders[i] + 1 /\ holders[i] + 1 > 0
        BY <1>1, <2>3 DEF IInv, TypeOK
      <3>2. DOMAIN inflight' = {k \in Identities : holders'[k] > 0}
        BY <2>1, <3>1 DEF IInv, CountsExact
      <3>3. \A k \in DOMAIN inflight' : inflight'[k] = holders'[k]
        BY <2>1, <2>2, <3>1 DEF IInv, TypeOK, CountsExact
      <3> QED
        BY <3>2, <3>3 DEF CountsExact
    <2> QED
      BY <2>3, <2>4, <2>5, <2>6
  <1>4. CASE PerMin = 0
    <2>1. UNCHANGED <<now, events, log>>
      BY <1>1, <1>4 DEF Admit
    <2>2. Ordered' /\ Suffix' /\ WindowSmall' /\ RateBounded'
      BY <2>1 DEF IInv, Ordered, Suffix, WindowOf, Expired, WindowSmall, RateBounded
    <2> QED
      BY <1>3, <2>1, <2>2 DEF IInv, TypeOK
  <1>5. CASE PerMin > 0
    <2> DEFINE r == Recent(i)
               w == Append(r, now)
    <2>1. events' = Put(events, i, w) /\ log' = [log EXCEPT ![i] = Append(@, now)]
      BY <1>5 DEF Admit
    <2>2. /\ r \in Seq(0..Horizon)
          /\ Len(r) <= Len(WindowOf(i)) /\ Len(r) <= Len(log[i])
          /\ \A j \in 1..Len(r) : r[j] = log[i][Len(log[i]) - Len(r) + j]
          /\ \A j \in 1..(Len(log[i]) - Len(r)) : Expired(log[i][j])
      BY RecentIs DEF IInv
    <2>3. Len(r) < PerMin /\ Len(r) \in Nat
      BY <2>2, <1>1, <1>5, CapsAssumption DEF RateFull
    <2> HIDE DEF r
    <2>4. now \in 0..Horizon /\ log[i] \in Seq(0..Horizon) /\ Len(log[i]) \in Nat
      BY DEF IInv, TypeOK
    <2>5. /\ w \in Seq(0..Horizon) /\ Len(w) = Len(r) + 1
          /\ \A j \in 1..Len(r) : w[j] = r[j]
          /\ w[Len(r) + 1] = now
      BY <2>2, <2>4, AppendProperties
    <2>6. /\ log'[i] \in Seq(0..Horizon) /\ Len(log'[i]) = Len(log[i]) + 1
          /\ \A j \in 1..Len(log[i]) : log'[i][j] = log[i][j]
          /\ log'[i][Len(log[i]) + 1] = now
          /\ log' \in [Identities -> Seq(0..Horizon)]
          /\ \A k \in Identities : k # i => log'[k] = log[k]
      <3>1. log'[i] = Append(log[i], now) /\ \A k \in Identities : k # i => log'[k] = log[k]
        BY <2>1 DEF IInv, TypeOK
      <3>2. /\ Append(log[i], now) \in Seq(0..Horizon)
            /\ Len(Append(log[i], now)) = Len(log[i]) + 1
            /\ \A j \in 1..Len(log[i]) : Append(log[i], now)[j] = log[i][j]
            /\ Append(log[i], now)[Len(log[i]) + 1] = now
        BY <2>4, AppendProperties
      <3>3. log' \in [Identities -> Seq(0..Horizon)]
        BY <2>1, <3>2 DEF IInv, TypeOK
      <3> QED
        BY <3>1, <3>2, <3>3
    <2> HIDE DEF w
    <2>7. /\ DOMAIN events' = DOMAIN events \cup {i}
          /\ events'[i] = w
          /\ \A k \in DOMAIN events : k # i => events'[k] = events[k]
      BY <2>1 DEF Put
    <2>8. TypeOK'
      <3>1. events' \in [DOMAIN events' -> Seq(0..Horizon)]
        BY <2>1, <2>5 DEF IInv, TypeOK, Put
      <3>2. DOMAIN events' \subseteq Identities
        BY <2>7 DEF IInv, TypeOK
      <3> QED
        BY <1>1, <1>3, <2>4, <2>6, <3>1, <3>2 DEF TypeOK
    <2>9. Ordered'
      <3>1. \A j \in 1..Len(log[i]) : log[i][j] \in Int /\ log[i][j] <= now
        BY <2>4, TimesOf DEF IInv, Ordered
      <3> SUFFICES ASSUME NEW m \in Identities, NEW j \in DOMAIN log'[m], NEW k \in DOMAIN log'[m]
                   PROVE  (j <= k => log'[m][j] <= log'[m][k]) /\ log'[m][k] <= now
        BY <1>1 DEF Ordered
      <3>2. CASE m # i
        BY <3>2, <2>6 DEF IInv, Ordered
      <3>3. CASE m = i
        <4>1. j \in 1..(Len(log[i]) + 1) /\ k \in 1..(Len(log[i]) + 1)
          BY <3>3, <2>6
        <4>2. CASE k = Len(log[i]) + 1
          BY <4>1, <4>2, <3>1, <3>3, <2>4, <2>6
        <4>3. CASE k # Len(log[i]) + 1
          BY <4>1, <4>3, <3>1, <3>3, <2>4, <2>6 DEF IInv, Ordered
        <4> QED
          BY <4>2, <4>3
      <3> QED
        BY <3>2, <3>3
    <2>10. WindowOf(i)' = w /\ \A k \in Identities : k # i => WindowOf(k)' = WindowOf(k)
      BY <2>7 DEF WindowOf
    <2>11. Suffix'
      <3> SUFFICES ASSUME NEW k \in Identities
                   PROVE  LET cut == Len(log'[k]) - Len(WindowOf(k)')
                          IN  /\ cut >= 0
                              /\ \A j \in 1..Len(WindowOf(k)') : WindowOf(k)'[j] = log'[k][cut + j]
                              /\ \A j \in 1..cut : Expired(log'[k][j])
        BY <1>1 DEF Suffix, Expired
      <3>1. CASE k = i
        <4>1. Len(log'[i]) - Len(w) = Len(log[i]) - Len(r)
          BY <2>3, <2>4, <2>5, <2>6
        <4>2. \A j \in 1..Len(w) : w[j] = log'[i][(Len(log[i]) - Len(r)) + j]
          <5> SUFFICES ASSUME NEW j \in 1..(Len(r) + 1)
                       PROVE  w[j] = log'[i][(Len(log[i]) - Len(r)) + j]
            BY <2>5
          <5>1. CASE j = Len(r) + 1
            <6>1. (Len(log[i]) - Len(r)) + j = Len(log[i]) + 1
              <7>1. \A a, b \in Nat : (a - b) + (b + 1) = a + 1
                OBVIOUS
              <7> QED
                BY <5>1, <7>1, <2>3, <2>4
            <6> QED
              BY <5>1, <6>1, <2>5, <2>6
          <5>2. CASE j # Len(r) + 1
            <6>1. j \in 1..Len(r) /\ (Len(log[i]) - Len(r)) + j \in 1..Len(log[i])
              BY <5>2, <2>2, <2>3, <2>4
            <6> QED
              BY <6>1, <2>2, <2>5, <2>6
          <5> QED
            BY <5>1, <5>2
        <4>3. \A j \in 1..(Len(log[i]) - Len(r)) : Expired(log'[i][j])
          <5> SUFFICES ASSUME NEW j \in 1..(Len(log[i]) - Len(r))
                       PROVE  Expired(log'[i][j])
            OBVIOUS
          <5>1. j \in 1..Len(log[i])
            BY <2>3, <2>4
          <5> QED
            BY <5>1, <2>2, <2>6
        <4>4. Len(log[i]) - Len(r) >= 0
          BY <2>2, <2>3, <2>4
        <4> QED
          BY <3>1, <4>1, <4>2, <4>3, <4>4, <2>10
      <3>2. CASE k # i
        <4>1. log'[k] = log[k] /\ WindowOf(k)' = WindowOf(k)
          BY <3>2, <2>6, <2>10
        <4>2. /\ Len(log[k]) - Len(WindowOf(k)) >= 0
              /\ \A j \in 1..Len(WindowOf(k)) :
                    WindowOf(k)[j] = log[k][Len(log[k]) - Len(WindowOf(k)) + j]
              /\ \A j \in 1..(Len(log[k]) - Len(WindowOf(k))) : Expired(log[k][j])
          BY DEF IInv, Suffix
        <4> QED
          BY <4>1, <4>2
      <3> QED
        BY <3>1, <3>2
    <2>12. WindowSmall'
      BY <2>3, <2>5, <2>7, CapsAssumption DEF IInv, WindowSmall
    <2>13. RateBounded'
      <3> SUFFICES ASSUME NEW k \in Identities, NEW j \in 1..(Len(log'[k]) - PerMin)
                   PROVE  log'[k][j + PerMin] - log'[k][j] >= Window
        BY DEF RateBounded
      <3>1. CASE k # i
        BY <3>1, <2>6, <1>5 DEF IInv, RateBounded
      <3>2. CASE k = i /\ j = Len(log[i]) + 1 - PerMin
        <4>1. j \in 1..(Len(log[i]) - Len(r)) /\ j \in 1..Len(log[i])
              /\ j + PerMin = Len(log[i]) + 1
          BY <3>2, <2>3, <2>4, <2>6, CapsAssumption
        <4>2. Expired(log[i][j]) /\ log'[i][j] = log[i][j] /\ log'[i][j + PerMin] = now
          BY <4>1, <2>2, <2>6
        <4> QED
          BY <3>2, <4>2 DEF Expired
      <3>3. CASE k = i /\ j # Len(log[i]) + 1 - PerMin
        <4>0. /\ j \in Int /\ 1 <= j /\ j <= Len(log[i]) + 1 - PerMin
              /\ Len(log[i]) \in Nat /\ PerMin \in Nat /\ PerMin > 0
          BY <3>3, <2>4, <2>6, <1>5, CapsAssumption
        <4>1. j \in 1..(Len(log[i]) - PerMin) /\ j \in 1..Len(log[i])
              /\ j + PerMin \in 1..Len(log[i])
          BY <3>3, <4>0
        <4> QED
          BY <3>3, <4>1, <2>6, <1>5 DEF IInv, RateBounded
      <3> QED
        BY <3>1, <3>2, <3>3
    <2> QED
      BY <1>3, <2>8, <2>9, <2>11, <2>12, <2>13 DEF IInv
  <1> QED
    BY <1>4, <1>5, CapsAssumption

(* _gc() drops a window only when it is empty, so a release forgets nothing *)
(* of the log; and the entry of a count exactly when its last holder goes.  *)
LEMMA ReleaseStep == ASSUME NEW i \in Identities PROVE IInv /\ Release(i) => IInv'
  <1> SUFFICES ASSUME IInv, Release(i) PROVE IInv'
    OBVIOUS
  <1>1. /\ holders[i] \in Nat /\ holders[i] > 0 /\ CountOf(i) = holders[i]
        /\ holders' = [holders EXCEPT ![i] = holders[i] - 1]
        /\ UNCHANGED <<now, log>>
    BY CallersAssumption DEF Release, IInv, TypeOK, CountsExact, CountOf
  <1>2. Gc(i, holders[i] - 1)
    BY <1>1 DEF Release
  <1>3. /\ holders' \in [Identities -> 0..MaxCallers]
        /\ holders'[i] = holders[i] - 1
        /\ \A k \in Identities : k # i => holders'[k] = holders[k]
    BY <1>1, CallersAssumption DEF IInv, TypeOK
  <1>4. InflightBounded'
    BY <1>1, <1>3, CapsAssumption DEF IInv, TypeOK, InflightBounded
  <1>5. CASE holders[i] = 1
    <2>1. inflight' = Pop(inflight, i)
          /\ events' = IF WindowOf(i) = <<>> THEN Pop(events, i) ELSE events
      BY <1>2, <1>5 DEF Gc
    <2>2. DOMAIN inflight' = DOMAIN inflight \ {i} /\ \A k \in DOMAIN inflight' : inflight'[k] = inflight[k]
      BY <2>1 DEF Pop
    <2>3. inflight' \in [DOMAIN inflight' -> Nat] /\ DOMAIN inflight' \subseteq Identities
      BY <2>1, <2>2 DEF IInv, TypeOK, Pop
    <2>4. CountsExact'
      BY <2>2, <1>3, <1>5 DEF IInv, TypeOK, CountsExact
    <2>5. /\ DOMAIN events' \subseteq DOMAIN events
          /\ events' \in [DOMAIN events' -> Seq(0..Horizon)]
          /\ \A k \in DOMAIN events' : events'[k] = events[k]
          /\ \A k \in DOMAIN events : k \notin DOMAIN events' => events[k] = <<>>
      <3>1. CASE WindowOf(i) = <<>>
        BY <2>1, <3>1 DEF IInv, TypeOK, Pop, WindowOf
      <3>2. CASE WindowOf(i) # <<>>
        BY <2>1, <3>2 DEF IInv, TypeOK
      <3> QED
        BY <3>1, <3>2
    <2>6. \A k \in Identities : WindowOf(k)' = WindowOf(k)
      BY <2>5 DEF WindowOf
    <2>7. TypeOK'
      BY <1>1, <1>3, <2>3, <2>5 DEF IInv, TypeOK
    <2>8. Ordered' /\ RateBounded' /\ WindowSmall'
      BY <1>1, <2>5 DEF IInv, Ordered, RateBounded, WindowSmall
    <2>9. Suffix'
      BY <1>1, <2>6 DEF IInv, Suffix, Expired
    <2> QED
      BY <1>4, <2>4, <2>7, <2>8, <2>9 DEF IInv
  <1>6. CASE holders[i] > 1
    <2>1. inflight' = Put(inflight, i, holders[i] - 1) /\ UNCHANGED events
      BY <1>1, <1>2, <1>6 DEF Gc
    <2>2. i \in DOMAIN inflight
      BY <1>1 DEF IInv, CountsExact
    <2>3. /\ DOMAIN inflight' = DOMAIN inflight /\ inflight'[i] = holders[i] - 1
          /\ \A k \in DOMAIN inflight : k # i => inflight'[k] = inflight[k]
      BY <2>1, <2>2 DEF Put
    <2>4. inflight' \in [DOMAIN inflight' -> Nat]
      <3>1. \A k \in DOMAIN inflight' : inflight'[k] \in Nat
        <4>1. holders[i] - 1 \in Nat
          BY <1>1, <1>6
        <4>2. \A k \in DOMAIN inflight : inflight[k] \in Nat
          BY DEF IInv, TypeOK
        <4> QED
          BY <4>1, <4>2, <2>3
      <3>2. inflight' = [k \in DOMAIN inflight' |-> inflight'[k]]
        BY <2>1 DEF Put
      <3> QED
        BY <3>1, <3>2
    <2>5. CountsExact'
      <3>1. DOMAIN inflight' = {k \in Identities : holders'[k] > 0}
        BY <1>1, <1>3, <1>6, <2>2, <2>3 DEF IInv, TypeOK, CountsExact
      <3>2. \A k \in DOMAIN inflight' : inflight'[k] = holders'[k]
        BY <1>3, <2>3 DEF IInv, TypeOK, CountsExact
      <3> QED
        BY <3>1, <3>2 DEF CountsExact
    <2>6. TypeOK'
      BY <1>1, <1>3, <2>1, <2>3, <2>4 DEF IInv, TypeOK
    <2>7. Ordered' /\ RateBounded' /\ WindowSmall' /\ Suffix'
      BY <1>1, <2>1 DEF IInv, Ordered, RateBounded, WindowSmall, Suffix, WindowOf, Expired
    <2> QED
      BY <1>4, <2>5, <2>6, <2>7 DEF IInv
  <1> QED
    BY <1>1, <1>5, <1>6

LEMMA NextStep == IInv /\ [Next]_vars => IInv'
  <1> SUFFICES ASSUME IInv, [Next]_vars PROVE IInv'
    OBVIOUS
  <1>1. CASE Tick
    BY <1>1, TickStep
  <1>2. CASE \E i \in Identities : Reject(i) \/ Admit(i) \/ Release(i)
    BY <1>2, RejectStep, AdmitStep, ReleaseStep
  <1>3. CASE UNCHANGED vars
    BY <1>3 DEF vars, IInv, TypeOK, Ordered, Suffix, WindowOf, Expired, WindowSmall, RateBounded,
                InflightBounded, CountsExact
  <1> QED
    BY <1>1, <1>2, <1>3 DEF Next

(* What a caller that is turned away is told: between the exact wait and a   *)
(* second more or less, for whole seconds.                                  *)
LEMMA SecondsIn ==
    ASSUME NEW left \in 1..Window
    PROVE  LET secs == left \div TicksPerSecond
               told == IF secs > 1 THEN secs ELSE 1
           IN  told * TicksPerSecond - left \in -TicksPerSecond..TicksPerSecond
  <1> DEFINE s == left \div TicksPerSecond
             T == TicksPerSecond
  <1>1. T \in Nat \ {0} /\ left \in Nat /\ left > 0
    BY TimeAssumption
  <1>2. s \in Nat /\ s * T <= left /\ left < s * T + T
    <2>1. \A a \in Nat, b \in Nat \ {0} :
             a \div b \in Nat /\ (a \div b) * b <= a /\ a < (a \div b) * b + b
      OBVIOUS
    <2> HIDE DEF T
    <2> QED
      BY <1>1, <2>1 DEF T
  <1> HIDE DEF s, T
  <1>3. CASE s > 1
    <2>1. s * T \in Nat
      BY <1>1, <1>2
    <2>2. s * T - left \in -T..T
      BY <1>1, <1>2, <2>1
    <2> QED
      BY <1>3, <2>2 DEF s, T
  <1>4. CASE ~(s > 1)
    <2>1. s = 0 \/ s = 1
      BY <1>2, <1>4
    <2>2. left < T + T
      BY <1>1, <1>2, <2>1
    <2>3. 1 * T - left \in -T..T
      BY <1>1, <2>2
    <2> QED
      BY <1>4, <2>3 DEF s, T
  <1> QED
    BY <1>3, <1>4

(* A full window has just PerMin entries, the first of which is the         *)
(* PerMin-th last of the log and still counts: that is the one to wait for. *)
LEMMA ToldIsClose == IInv => RetryAfterClose
  <1> SUFFICES ASSUME IInv, NEW i \in Identities, RateFull(i)
               PROVE  LET told == now + RetryAfter(i) * TicksPerSecond
                          free == log[i][Len(log[i]) - PerMin + 1] + Window
                      IN  told - free \in -TicksPerSecond..TicksPerSecond
    BY DEF RetryAfterClose
  <1> DEFINE r == Recent(i)
             t == log[i][Len(log[i]) - PerMin + 1]
             left == Window - (now - t)
  <1>1. /\ r \in Seq(0..Horizon)
        /\ Len(r) <= Len(WindowOf(i)) /\ Len(r) <= Len(log[i])
        /\ \A j \in 1..Len(r) : r[j] = log[i][Len(log[i]) - Len(r) + j]
        /\ r # <<>> => ~Expired(r[1])
    BY RecentIs DEF IInv
  <1>2. PerMin \in Nat /\ PerMin > 0 /\ Len(r) >= PerMin /\ Len(r) \in Nat
    BY <1>1, CapsAssumption DEF RateFull
  <1>3. Len(WindowOf(i)) <= PerMin /\ Len(WindowOf(i)) \in Nat
    <2>1. CASE i \in DOMAIN events
      BY <2>1, <1>2 DEF IInv, TypeOK, WindowSmall, WindowOf
    <2>2. CASE i \notin DOMAIN events
      BY <2>2, <1>2 DEF WindowOf
    <2> QED
      BY <2>1, <2>2
  <1>4. Len(r) = PerMin
    BY <1>1, <1>2, <1>3
  <1>5. log[i] \in Seq(0..Horizon) /\ Len(log[i]) \in Nat /\ now \in 0..Horizon
    BY DEF IInv, TypeOK
  <1> HIDE DEF r
  <1>6. r[1] = t /\ r # <<>>
    BY <1>1, <1>2, <1>4
  <1>7. Len(log[i]) - PerMin + 1 \in DOMAIN log[i]
    BY <1>1, <1>2, <1>4, <1>5
  <1>8. t \in 0..Horizon /\ t <= now
    BY <1>5, <1>7, TimesOf, ElementOfSeq DEF IInv, Ordered
  <1> HIDE DEF t
  <1>9. left \in 1..Window
    BY <1>1, <1>5, <1>6, <1>8, TimeAssumption DEF Expired
  <1> DEFINE secs == left \div TicksPerSecond
             told == IF secs > 1 THEN secs ELSE 1
  <1>10. told * TicksPerSecond - left \in -TicksPerSecond..TicksPerSecond
    BY <1>9, SecondsIn
  <1>11. RetryAfter(i) = told
    BY <1>6 DEF RetryAfter, r
  <1>12. told \in Int
    BY <1>9, TimeAssumption
  <1> HIDE DEF told, left
  <1>13. told * TicksPerSecond \in Int
    BY <1>12, TimeAssumption
  <1> DEFINE wait == told * TicksPerSecond
  <1> HIDE DEF wait
  <1>14. (now + wait) - (t + Window) = wait - left
    BY <1>5, <1>8, <1>13, TimeAssumption DEF wait, left
  <1> QED
    BY <1>10, <1>11, <1>14 DEF t, wait

-----------------------------------------------------------------------------
(* The limiter that keeps all                                               *)

(* The admissions that count are the end of the log that the loop leaves:   *)
(* its first is not expired, hence none is.                                 *)
LEMMA CountedIs ==
    ASSUME IInv, NEW i \in Identities
    PROVE  Cardinality(Ideal!Counted(i)) = Len(Recent(i)) /\ Len(Recent(i)) \in Nat
  <1> DEFINE r == Recent(i)
             n == Len(log[i])
             a == n - Len(r) + 1
  <1>1. /\ r \in Seq(0..Horizon)
        /\ Len(r) <= n
        /\ \A j \in 1..Len(r) : r[j] = log[i][n - Len(r) + j]
        /\ \A j \in 1..(n - Len(r)) : Expired(log[i][j])
        /\ r # <<>> => ~Expired(r[1])
    BY RecentIs DEF IInv
  <1>2. /\ log[i] \in Seq(0..Horizon) /\ n \in Nat /\ DOMAIN log[i] = 1..n
        /\ \A j \in 1..n : log[i][j] \in Int
        /\ now \in Int
    BY TimesOf, TimeAssumption DEF IInv, TypeOK
  <1>3. Len(r) \in Nat
    BY <1>1
  <1> HIDE DEF r
  <1>4. ASSUME NEW j \in a..n PROVE ~Expired(log[i][j]) /\ j \in 1..n
    <2>1. Len(r) >= 1 /\ j \in 1..n /\ a \in 1..n /\ a <= j
      BY <1>1, <1>2, <1>3
    <2>2. r # <<>> /\ r[1] = log[i][a]
      BY <1>1, <1>2, <1>3, <2>1
    <2>3. ~Expired(log[i][a]) /\ log[i][a] <= log[i][j]
      BY <1>1, <1>2, <2>1, <2>2 DEF IInv, Ordered
    <2>4. log[i][a] \in Int /\ log[i][j] \in Int
      BY <1>2, <2>1
    <2>5. \A t, u \in Int : t <= u /\ ~(now - t >= Window) => ~(now - u >= Window)
      BY <1>2, TimeAssumption
    <2> QED
      BY <2>1, <2>3, <2>4, <2>5 DEF Expired
  <1>5. ASSUME NEW j \in 1..n, j \notin a..n PROVE Expired(log[i][j])
    <2>1. j \in 1..(n - Len(r))
      BY <1>1, <1>2, <1>3, <1>5
    <2> QED
      BY <1>1, <2>1
  <1>6. \A j \in 1..n : now - log[i][j] < Window <=> ~Expired(log[i][j])
    BY <1>2, TimeAssumption DEF Expired
  <1>7. Ideal!Counted(i) = a..n
    BY <1>2, <1>4, <1>5, <1>6 DEF Ideal!Counted
  <1>8. Cardinality(a..n) = Len(r)
    <2>1. a \in Int /\ n \in Int
      BY <1>2, <1>3
    <2>2. Cardinality(a..n) = IF a > n THEN 0 ELSE n - a + 1
      BY <2>1, FS_Interval
    <2> QED
      BY <1>2, <1>3, <2>2
  <1> QED
    BY <1>3, <1>7, <1>8 DEF r

DecisionSame == [i \in Identities |-> ~RateFull(i) /\ ~CountFull(i)] = Ideal!Decision

LEMMA DecisionIs == IInv => DecisionSame
  <1> SUFFICES ASSUME IInv PROVE DecisionSame
    OBVIOUS
  <1> DEFINE Here(i) == ~RateFull(i) /\ ~CountFull(i)
             There(i) == /\ PerMin > 0 => Cardinality(Ideal!Counted(i)) < PerMin
                         /\ MaxInflight > 0 => holders[i] < MaxInflight
  <1>1. ASSUME NEW i \in Identities PROVE Here(i) <=> There(i)
    <2>1. RateFull(i) <=> PerMin > 0 /\ ~(Cardinality(Ideal!Counted(i)) < PerMin)
      BY CountedIs, CapsAssumption DEF RateFull
    <2>2. CountOf(i) = holders[i] /\ holders[i] \in Nat
      BY DEF IInv, TypeOK, CountsExact, CountOf
    <2>3. CountFull(i) <=> MaxInflight > 0 /\ ~(holders[i] < MaxInflight)
      BY <2>2, CapsAssumption DEF CountFull
    <2> QED
      BY <2>1, <2>3
  <1>2. \A i \in Identities : Here(i) = There(i)
    <2> HIDE DEF Here, There
    <2>1. \A i \in Identities : Here(i) \in BOOLEAN /\ There(i) \in BOOLEAN
      BY DEF Here, There
    <2> QED
      BY <1>1, <2>1
  <1>3. Ideal!Decision = [i \in Identities |-> There(i)]
    BY DEF Ideal!Decision, Ideal!Counted, Ideal!Cardinality, Cardinality
  <1> HIDE DEF There
  <1>4. [i \in Identities |-> Here(i)] = [i \in Identities |-> There(i)]
    BY <1>2
  <1> QED
    BY <1>3, <1>4 DEF DecisionSame

LEMMA LimiterInit == Init => Ideal!Init
  BY InitHolds, DecisionIs DEF DecisionSame, Init, Ideal!Init

(* Each step is one of the limiter that keeps all, or changes nothing of it; *)
(* the decision follows from what both have.                                *)
LEMMA LimiterStep == DecisionSame /\ DecisionSame' /\ [Next]_vars => [Ideal!Next]_Ideal!vars
  <1> SUFFICES ASSUME DecisionSame, DecisionSame', [Next]_vars
               PROVE  [Ideal!Next]_Ideal!vars
    OBVIOUS
  <1> DEFINE open == [i \in Identities |-> ~RateFull(i) /\ ~CountFull(i)]
  <1>1. open = Ideal!Decision /\ open' = Ideal!Decision'
    BY DEF DecisionSame
  <1>2. ASSUME NEW i \in Identities, Admit(i) PROVE Ideal!Next
    <2>1. Ideal!Admit(i)
      BY <1>2 DEF Admit, Ideal!Admit
    <2> QED
      BY <1>1, <2>1 DEF Ideal!Next
  <1>3. ASSUME NEW i \in Identities, Release(i) PROVE Ideal!Next
    <2>1. Ideal!Release(i)
      BY <1>3 DEF Release, Ideal!Release
    <2> QED
      BY <1>1, <2>1 DEF Ideal!Next
  <1>4. CASE Tick
    <2>1. Ideal!Tick
      BY <1>4 DEF Tick, Ideal!Tick
    <2> QED
      BY <1>1, <2>1 DEF Ideal!Next
  <1>5. ASSUME UNCHANGED <<now, log, holders>> PROVE UNCHANGED Ideal!vars
    <2>1. Ideal!Decision' = Ideal!Decision
      BY <1>5 DEF Ideal!Decision, Ideal!Counted
    <2> QED
      BY <1>1, <1>5, <2>1 DEF Ideal!vars
  <1>6. ASSUME NEW i \in Identities, Reject(i) PROVE UNCHANGED Ideal!vars
    BY <1>5, <1>6 DEF Reject
  <1>7. CASE UNCHANGED vars
    BY <1>5, <1>7 DEF vars
  <1> QED
    BY <1>2, <1>3, <1>4, <1>6, <1>7 DEF Next

-----------------------------------------------------------------------------

(* IInv is an invariant of the limiter.                                     *)
THEOREM Invariance == Spec => []IInv
  BY InitHolds, NextStep, PTL DEF Spec

(* The dictionaries keep their shapes.                                      *)
THEOREM TypeCorrect == Spec => []TypeOK
  <1>1. IInv => TypeOK
    BY DEF IInv
  <1> QED
    BY <1>1, Invariance, PTL

(* The request rate is bounded in every window of WINDOW_S, whatever        *)
(* acquire(), release() and _gc() forget (ratelimit.py:38-67).              *)
THEOREM RateCapHolds == Spec => []RateBounded
  <1>1. IInv => RateBounded
    BY DEF IInv
  <1> QED
    BY <1>1, Invariance, PTL

(* The concurrency cap bounds the requests between acquire() and release(). *)
THEOREM ConcurrencyCapHolds == Spec => []InflightBounded
  <1>1. IInv => InflightBounded
    BY DEF IInv
  <1> QED
    BY <1>1, Invariance, PTL

(* The counts are those of the holders, and are kept for holders only.      *)
THEOREM CountsAreExact == Spec => []CountsExact
  <1>1. IInv => CountsExact
    BY DEF IInv
  <1> QED
    BY <1>1, Invariance, PTL

(* The wait a caller is told is that to the next free slot, by a second      *)
(* (ratelimit.py:46-48).                                                    *)
THEOREM WaitIsClose == Spec => []RetryAfterClose
  BY Invariance, ToldIsClose, PTL

(* It decides as the limiter that keeps every admission and every holder.    *)
THEOREM LimiterImplemented == Spec => ImplementsLimiter
  BY LimiterInit, LimiterStep, DecisionIs, Invariance, PTL DEF Spec, Ideal!Spec, ImplementsLimiter
=============================================================================
