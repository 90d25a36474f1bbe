--------------------- MODULE PrioritizedSemaphoreProofs ----------------------
(***************************************************************************)
(* Proofs about PrioritizedSemaphore, for any set of calls and any sizes:  *)
(* the counts are exact and the reserve is kept; then what it promises:    *)
(* each grant is one PermitPool allows, asks of a kind are granted in the  *)
(* order they came, and no dispatch leaves a waiter asleep beside a permit *)
(* it may have.                                                            *)
(***************************************************************************)
EXTENDS PrioritizedSemaphore, FiniteSetTheorems, WellFoundedInduction, TLAPS

(* The sizes the provider computes meet the constructor's assertions, leave *)
(* something outside the reserve, and leave read-ahead a permit beside the  *)
(* repair floor, for any number of connections.                             *)
THEOREM DefaultSizesFit ==
    ASSUME NEW n \in Nat
    PROVE  LET total == PoolTotal(n)
               reserved == PoolReserved(n)
               floor == DefaultRepairFloor(total, reserved)
           IN  /\ total \in Nat /\ reserved \in Nat /\ floor \in Nat
               /\ reserved < total
               /\ reserved + floor < total
BY DEF PoolTotal, PoolReserved, DefaultRepairFloor, CeilDiv, Least, SatSub

-----------------------------------------------------------------------------
(* The invariant.  The type of held (no usize underflow at a release) needs *)
(* the counts to be exact, which need queued clients to be at their tier.   *)

QueuedAtItsTier == \A t \in Tier : \A c \in queue[t] : TierOf[kind[c]] = t

SemInv ==
    /\ TypeOK
    /\ QueuedAtItsTier
    /\ HeldIsExact
    /\ ReserveHeadroom

Counts ==
    [t \in Tier |-> IF t = "Demand" THEN {"demand"}
                    ELSE IF t = "Repair" THEN {"repair"} ELSE {"readahead", "ingest"}]

(* Each tier counts the kinds that queue at it.                             *)
LEMMA TierKinds == \A k \in Kind :
    TierOf[k] \in Tier /\ \A t \in Tier : k \in Counts[t] <=> TierOf[k] = t
BY DEF TierOf, Kind, Tier, Counts

(* The permits out of any set of kinds are finitely many: they are calls.   *)
LEMMA PermitsOutFinite ==
    ASSUME NEW K
    PROVE  IsFiniteSet(PermitsOut(K)) /\ Cardinality(PermitsOut(K)) \in Nat
<1>1. PermitsOut(K) \in SUBSET Client
  BY DEF PermitsOut
<1>2. IsFiniteSet(PermitsOut(K))
  BY <1>1, FS_Subset, SemaphoreAssumption
<1> QED
  BY <1>2, FS_CardinalityType

(* A step that leaves holders alone leaves the permits out alone.           *)
LEMMA SamePermits ==
    ASSUME NEW K,
           \A c \in Client : stage[c] = "holding" <=> stage'[c] = "holding",
           \A c \in Client : stage[c] = "holding" => kind'[c] = kind[c]
    PROVE  PermitsOut(K)' = PermitsOut(K)
BY DEF PermitsOut

(* A grant adds the client to the permits of its kind.                      *)
LEMMA OneMorePermit ==
    ASSUME NEW K, NEW c \in Client, TypeOK, stage[c] = "waiting",
           stage' = [stage EXCEPT ![c] = "holding"], kind' = kind
    PROVE  Cardinality(PermitsOut(K)') =
               Cardinality(PermitsOut(K)) + (IF kind[c] \in K THEN 1 ELSE 0)
<1>1. PermitsOut(K)' = IF kind[c] \in K THEN PermitsOut(K) \union {c} ELSE PermitsOut(K)
  BY DEF PermitsOut, TypeOK
<1>2. c \notin PermitsOut(K)
  BY DEF PermitsOut
<1>3. IsFiniteSet(PermitsOut(K)) /\ Cardinality(PermitsOut(K)) \in Nat
  BY PermitsOutFinite
<1>4. CASE kind[c] \in K
  <2>1. Cardinality(PermitsOut(K) \union {c}) = Cardinality(PermitsOut(K)) + 1
    BY <1>2, <1>3, FS_AddElement
  <2> QED
    BY <1>1, <1>4, <2>1
<1>5. CASE kind[c] \notin K
  BY <1>1, <1>3, <1>5
<1> QED
  BY <1>4, <1>5

(* A release takes the client out of them.                                  *)
LEMMA OnePermitLess ==
    ASSUME NEW K, NEW c \in Client, TypeOK, stage[c] = "holding",
           stage' = [stage EXCEPT ![c] = "idle"], kind' = kind
    PROVE  /\ Cardinality(PermitsOut(K)) =
                  Cardinality(PermitsOut(K)') + (IF kind[c] \in K THEN 1 ELSE 0)
           /\ Cardinality(PermitsOut(K)') \in Nat
<1>1. PermitsOut(K)' = PermitsOut(K) \ {c}
  BY DEF PermitsOut, TypeOK
<1>2. c \in PermitsOut(K) <=> kind[c] \in K
  BY DEF PermitsOut
<1>3. IsFiniteSet(PermitsOut(K)) /\ Cardinality(PermitsOut(K)) \in Nat
  BY PermitsOutFinite
<1>4. IsFiniteSet(PermitsOut(K) \ {c}) /\ Cardinality(PermitsOut(K) \ {c}) \in Nat
  BY <1>3, FS_RemoveElement, FS_CardinalityType
<1>5. Cardinality(PermitsOut(K) \ {c}) =
        IF c \in PermitsOut(K) THEN Cardinality(PermitsOut(K)) - 1 ELSE Cardinality(PermitsOut(K))
  BY <1>3, FS_RemoveElement
<1> QED
  BY <1>1, <1>2, <1>3, <1>4, <1>5

(* What is granted next fits: a permit is free, and an ingest or a repair   *)
(* finds the share not used up by read-ahead, ingest and repair.            *)
LEMMA GrantFits ==
    ASSUME SemInv, NEW c \in Client, NEW t \in Tier, NextGrantable(c, t)
    PROVE  /\ c \in queue[t]
           /\ HeldTotal < Total
           /\ kind[c] \in {"ingest", "repair"} => Others < Share
<1>1. held["Demand"] \in Nat /\ held["ReadAhead"] \in Nat /\ held["Repair"] \in Nat
  BY DEF SemInv, TypeOK, Tier
<1>2. c \in queue[t] /\ Free > 0
  BY DEF NextGrantable, First
<1>3. HeldTotal < Total
  BY <1>1, <1>2, SemaphoreAssumption DEF Free, SatSub, HeldTotal
<1>4. kind[c] \in Kind /\ TierOf[kind[c]] = t
  BY <1>2 DEF SemInv, TypeOK, QueuedAtItsTier
<1>5. ASSUME kind[c] = "ingest" PROVE Others < Share
  <2>1. t = "ReadAhead" /\ MayReadAhead(c)
    BY <1>4, <1>5 DEF NextGrantable, TierOf, Kind
  <2>2. ShareFree > UnmetRepair /\ UnmetRepair \in Nat
    BY <1>1, <1>5, <2>1, SemaphoreAssumption DEF MayReadAhead, UnmetRepair, SatSub
  <2> QED
    BY <1>1, <2>2, SemaphoreAssumption DEF ShareFree, SatSub, Others, Share
<1>6. ASSUME kind[c] = "repair" PROVE Others < Share
  <2>1. Free > ReserveLeft \/ Free > UnmetDemand
    BY <1>4, <1>6 DEF NextGrantable, TierOf, Kind, RepairFloorTurn
  <2> QED
    BY <1>1, <1>3, <2>1, SemaphoreAssumption
    DEF Free, ReserveLeft, UnmetDemand, ReserveBorrowed, SatSub, HeldTotal, Others, Share
<1> QED
  BY <1>2, <1>3, <1>5, <1>6

-----------------------------------------------------------------------------
(* The counters in terms of the kinds of each tier.                         *)
LEMMA HeldByTier ==
    TypeOK => (HeldIsExact <=>
               /\ \A t \in Tier : held[t] = Cardinality(PermitsOut(Counts[t]))
               /\ HeldTotal <= Total)
BY DEF HeldIsExact, Counts, Tier

(* What ingest and repair hold, their tiers hold.                           *)
LEMMA HeadroomFromOthers ==
    TypeOK /\ HeldIsExact => Cardinality(PermitsOut({"ingest", "repair"})) <= Others
<1> SUFFICES ASSUME TypeOK, HeldIsExact
             PROVE  Cardinality(PermitsOut({"ingest", "repair"})) <= Others
  OBVIOUS
<1> DEFINE R == PermitsOut({"readahead", "ingest"})
           P == PermitsOut({"repair"})
<1>1. IsFiniteSet(R) /\ IsFiniteSet(P) /\ Cardinality(R) \in Nat /\ Cardinality(P) \in Nat
  BY PermitsOutFinite
<1>2. IsFiniteSet(R \union P) /\ Cardinality(R \union P) <= Cardinality(R) + Cardinality(P)
  <2>1. Cardinality(R \union P) = Cardinality(R) + Cardinality(P) - Cardinality(R \intersect P)
    BY <1>1, FS_Union
  <2>2. IsFiniteSet(R \union P) /\ IsFiniteSet(R \intersect P)
    BY <1>1, FS_Union, FS_Intersection
  <2>3. Cardinality(R \intersect P) \in Nat /\ Cardinality(R \union P) \in Nat
    BY <2>2, FS_CardinalityType
  <2> QED
    BY <1>1, <2>1, <2>2, <2>3
<1>3. PermitsOut({"ingest", "repair"}) \in SUBSET (R \union P)
  BY DEF PermitsOut
<1>4. Cardinality(PermitsOut({"ingest", "repair"})) <= Cardinality(R \union P)
  BY <1>2, <1>3, FS_Subset
<1>5. /\ Cardinality(PermitsOut({"ingest", "repair"})) \in Nat
      /\ Cardinality(R \union P) \in Nat
  BY <1>2, PermitsOutFinite, FS_CardinalityType
<1> QED
  BY <1>1, <1>2, <1>4, <1>5 DEF HeldIsExact, Others

(* A new semaphore has nothing held and nobody queued.                      *)
LEMMA SemInit == Init => SemInv
<1> SUFFICES ASSUME Init PROVE SemInv
  OBVIOUS
<1>1. \A K : PermitsOut(K) = {}
  BY DEF Init, PermitsOut
<1>2. \A K : Cardinality(PermitsOut(K)) = 0
  BY <1>1, FS_EmptySet
<1>3. TypeOK
  BY DEF Init, TypeOK, Tier, Kind, Stage
<1>4. QueuedAtItsTier
  BY DEF Init, QueuedAtItsTier
<1>5. HeldIsExact
  BY <1>2, SemaphoreAssumption DEF Init, HeldIsExact, HeldTotal, Tier
<1>6. ReserveHeadroom
  BY <1>2, SemaphoreAssumption DEF ReserveHeadroom, Share
<1> QED
  BY <1>3, <1>4, <1>5, <1>6 DEF SemInv

(* Acquire, Cancel and the rest leave the permits out alone.                *)
LEMMA QuietStep ==
    ASSUME SemInv, TypeOK', held' = held,
           \A c \in Client : stage[c] = "holding" <=> stage'[c] = "holding",
           \A c \in Client : stage[c] = "holding" => kind'[c] = kind[c]
    PROVE  HeldIsExact' /\ ReserveHeadroom'
<1>1. \A K : PermitsOut(K)' = PermitsOut(K)
  BY SamePermits
<1> QED
  BY <1>1 DEF SemInv, HeldIsExact, HeldTotal, ReserveHeadroom, Share

(* acquire queues the call at its tier, and holds nothing yet.              *)
LEMMA AcquirePreserves ==
    ASSUME SemInv, NEW c \in Client, NEW k \in Kind, Acquire(c, k)
    PROVE  SemInv'
<1> USE DEF SemInv, Acquire
<1>1. TypeOK'
  BY TierKinds DEF TypeOK, QueuesWithout, AheadWithout, Closed, Stage
<1>2. QueuedAtItsTier'
  <2> SUFFICES ASSUME NEW t \in Tier, NEW d \in queue'[t] PROVE TierOf[kind'[d]] = t
    BY DEF QueuedAtItsTier
  <2>1. TierOf[k] \in Tier /\ d \in Client
    BY <1>1, TierKinds DEF TypeOK
  <2>2. d = c => t = TierOf[k]
    BY <2>1 DEF TypeOK, QueuesWithout, Closed
  <2>3. d # c => d \in queue[t] /\ kind'[d] = kind[d]
    BY <2>1 DEF TypeOK, QueuesWithout
  <2> QED
    BY <2>1, <2>2, <2>3 DEF QueuedAtItsTier, TypeOK
<1>3. HeldIsExact' /\ ReserveHeadroom'
  <2>1. \A d \in Client : stage[d] = "holding" <=> stage'[d] = "holding"
    BY DEF TypeOK
  <2>2. \A d \in Client : stage[d] = "holding" => kind'[d] = kind[d]
    BY DEF TypeOK
  <2> QED
    BY <1>1, <2>1, <2>2, QuietStep
<1> QED
  BY <1>1, <1>2, <1>3

(* A call that stops waiting holds nothing and may stay in its queue.       *)
LEMMA CancelPreserves ==
    ASSUME SemInv, NEW c \in Client, Cancel(c)
    PROVE  SemInv'
<1> USE DEF SemInv, Cancel
<1>1. TypeOK'
  BY DEF TypeOK, Stage
<1>2. QueuedAtItsTier'
  BY DEF QueuedAtItsTier
<1>3. \A d \in Client : stage[d] = "holding" <=> stage'[d] = "holding"
  BY DEF TypeOK
<1> QED
  BY <1>1, <1>2, <1>3, QuietStep

(* A send that fails takes the call out of its queue and counts nothing.    *)
LEMMA SendFailsPreserves ==
    ASSUME SemInv, NEW c \in Client, NEW t \in Tier, SendFails(c, t)
    PROVE  SemInv'
<1> USE DEF SemInv, SendFails, QueuesWithout, AheadWithout
<1>1. TypeOK'
  BY DEF TypeOK
<1>2. QueuedAtItsTier'
  BY DEF QueuedAtItsTier, TypeOK
<1> QED
  BY <1>1, <1>2, QuietStep

(* A grant counts the permit at the tier of the call, and there is room for *)
(* it: that is what next_grantable looks for.                               *)
LEMMA GrantPreserves ==
    ASSUME SemInv, NEW c \in Client, NEW t \in Tier, Grant(c, t)
    PROVE  SemInv'
<1> USE DEF Grant
<1>1. TypeOK'
  BY DEF SemInv, TypeOK, QueuesWithout, AheadWithout, Stage
<1>2. QueuedAtItsTier'
  BY DEF SemInv, QueuedAtItsTier, TypeOK, QueuesWithout
<1>3. /\ c \in queue[t] /\ HeldTotal < Total
      /\ kind[c] \in {"ingest", "repair"} => Others < Share
  BY GrantFits
<1>4. kind[c] \in Kind /\ TierOf[kind[c]] = t
  BY <1>3 DEF SemInv, QueuedAtItsTier, TypeOK
<1>5. \A K : Cardinality(PermitsOut(K)') =
                 Cardinality(PermitsOut(K)) + (IF kind[c] \in K THEN 1 ELSE 0)
  BY OneMorePermit DEF SemInv
<1>6. HeldTotal' = HeldTotal + 1
  BY DEF SemInv, TypeOK, Tier, HeldTotal
<1>7. HeldIsExact'
  <2>1. ASSUME NEW u \in Tier PROVE held'[u] = Cardinality(PermitsOut(Counts[u]))'
    <3>1. held[u] = Cardinality(PermitsOut(Counts[u])) /\ held[u] \in Nat
      BY HeldByTier DEF SemInv, TypeOK
    <3>2. kind[c] \in Counts[u] <=> u = t
      BY <1>4, TierKinds
    <3>3. held'[u] = held[u] + (IF u = t THEN 1 ELSE 0)
      BY <3>1 DEF SemInv, TypeOK
    <3>4. Cardinality(PermitsOut(Counts[u])') = held[u] + (IF u = t THEN 1 ELSE 0)
      BY <1>5, <3>1, <3>2
    <3> QED
      BY <3>3, <3>4
  <2>2. HeldTotal' <= Total
    BY <1>3, <1>6, SemaphoreAssumption DEF SemInv, TypeOK, Tier, HeldTotal
  <2> QED
    BY <2>1, <2>2 DEF HeldIsExact, Counts, Tier
<1>8. ReserveHeadroom'
  <2>1. CASE kind[c] \in {"ingest", "repair"}
    <3>1. Others' <= Share
      <4>1. Others' <= Others + 1 /\ Others \in Nat /\ Others' \in Nat
        BY DEF SemInv, TypeOK, Tier, Others
      <4> QED
        BY <1>3, <2>1, <4>1, SemaphoreAssumption DEF Share
    <3>2. Cardinality(PermitsOut({"ingest", "repair"}))' <= Others'
      <4>1. (TypeOK /\ HeldIsExact =>
                Cardinality(PermitsOut({"ingest", "repair"})) <= Others)'
        BY HeadroomFromOthers, PTL
      <4> QED
        BY <1>1, <1>7, <4>1
    <3>3. Cardinality(PermitsOut({"ingest", "repair"}))' \in Nat /\ Others' \in Nat
      BY <1>1, <1>5, PermitsOutFinite, <2>1 DEF TypeOK, Tier, Others
    <3> QED
      BY <3>1, <3>2, <3>3, SemaphoreAssumption DEF ReserveHeadroom, Share
  <2>2. CASE kind[c] \notin {"ingest", "repair"}
    BY <1>5, <2>2, PermitsOutFinite DEF SemInv, ReserveHeadroom, Share
  <2> QED
    BY <2>1, <2>2
<1> QED
  BY <1>1, <1>2, <1>7, <1>8 DEF SemInv

(* release takes the permit off the counter that its grant added it to.     *)
LEMMA ReleasePreserves ==
    ASSUME SemInv, NEW c \in Client, Release(c)
    PROVE  SemInv'
<1> USE DEF Release
<1> DEFINE u == TierOf[kind[c]]
<1>1. kind[c] \in Kind /\ u \in Tier
  BY TierKinds DEF SemInv, TypeOK
<1>2. \A K : /\ Cardinality(PermitsOut(K)) =
                    Cardinality(PermitsOut(K)') + (IF kind[c] \in K THEN 1 ELSE 0)
             /\ Cardinality(PermitsOut(K)') \in Nat
  BY OnePermitLess DEF SemInv
<1>3. \A t \in Tier : /\ held[t] \in Nat
                      /\ held[t] = Cardinality(PermitsOut(Counts[t]))
                      /\ kind[c] \in Counts[t] <=> t = u
  BY <1>1, TierKinds, HeldByTier DEF SemInv, TypeOK
<1>4. \A t \in Tier : held'[t] = IF t = u THEN held[t] - 1 ELSE held[t]
  BY DEF SemInv, TypeOK
<1>5. \A t \in Tier : held'[t] = Cardinality(PermitsOut(Counts[t]))' /\ held'[t] \in Nat
  BY <1>2, <1>3, <1>4
<1>6. TypeOK'
  <2>1. held' \in [Tier -> Nat]
    BY <1>4, <1>5 DEF SemInv, TypeOK
  <2> QED
    BY <2>1 DEF SemInv, TypeOK, Prune, QueuesWithout, AheadWithout, Stage
<1>7. QueuedAtItsTier'
  BY DEF SemInv, QueuedAtItsTier, TypeOK, Prune, QueuesWithout
<1>8. HeldIsExact'
  <2>1. held["Demand"] \in Nat /\ held["ReadAhead"] \in Nat /\ held["Repair"] \in Nat
    BY <1>3 DEF Tier
  <2>2. \A t \in Tier : held'[t] <= held[t] /\ held'[t] \in Nat
    BY <1>3, <1>4, <1>5
  <2>3. HeldTotal' <= HeldTotal /\ HeldTotal \in Nat /\ HeldTotal' \in Nat
    BY <2>1, <2>2 DEF HeldTotal, Tier
  <2>4. HeldTotal' <= Total
    BY <2>3, SemaphoreAssumption DEF SemInv, HeldIsExact
  <2> QED
    BY <1>5, <2>4 DEF HeldIsExact, Counts, Tier
<1>9. ReserveHeadroom'
  <2>1. /\ Cardinality(PermitsOut({"ingest", "repair"})) \in Nat
        /\ Cardinality(PermitsOut({"ingest", "repair"})') \in Nat
        /\ Cardinality(PermitsOut({"ingest", "repair"})') <= Cardinality(PermitsOut({"ingest", "repair"}))
    BY <1>2, PermitsOutFinite
  <2> QED
    BY <2>1, SemaphoreAssumption DEF SemInv, ReserveHeadroom, Share
<1> QED
  BY <1>6, <1>7, <1>8, <1>9 DEF SemInv

(* The invariant is inductive: Unlock and a stutter change no permit, the   *)
(* other actions have a lemma each.                                         *)
LEMMA SemStep == SemInv /\ [Next]_vars => SemInv'
<1> SUFFICES ASSUME SemInv, [Next]_vars PROVE SemInv'
  OBVIOUS
<1>1. CASE Unlock
  <2>1. TypeOK' /\ QueuedAtItsTier'
    BY <1>1 DEF Unlock, SemInv, TypeOK, QueuedAtItsTier
  <2> QED
    BY <1>1, <2>1, QuietStep DEF Unlock, SemInv
<1>2. CASE UNCHANGED vars
  <2>1. TypeOK' /\ QueuedAtItsTier'
    BY <1>2 DEF vars, SemInv, TypeOK, QueuedAtItsTier
  <2> QED
    BY <1>2, <2>1, QuietStep DEF vars, SemInv
<1> QED
  BY <1>1, <1>2, AcquirePreserves, CancelPreserves, ReleasePreserves, GrantPreserves,
     SendFailsPreserves DEF Next, Dispatch

(* The strengthened invariant holds in every state of prioritized_semaphore *)
(* for any number of calls and any sizes the constructor accepts.           *)
THEOREM SemInvariant == Spec => []SemInv
BY SemInit, SemStep, PTL DEF Spec

(* No counter leaves its range: in particular held never goes below zero    *)
(* at a release.                                                            *)
THEOREM SemaphoreTypes == Spec => []TypeOK
<1>1. SemInv => TypeOK
  BY DEF SemInv
<1> QED
  BY <1>1, SemInvariant, PTL

(* The counters are exact and never exceed the pool.                        *)
THEOREM CountersExact == Spec => []HeldIsExact
<1>1. SemInv => HeldIsExact
  BY DEF SemInv
<1> QED
  BY <1>1, SemInvariant, PTL

(* The demand reserve is never held by ingest or repair.                    *)
THEOREM ReserveKept == Spec => []ReserveHeadroom
<1>1. SemInv => ReserveHeadroom
  BY DEF SemInv
<1> QED
  BY <1>1, SemInvariant, PTL

-----------------------------------------------------------------------------
(* What the semaphore promises.                                             *)

(* A call that waits is in the queue of its tier.                           *)
InLine == \A c \in Client : stage[c] = "waiting" => c \in queue[TierOf[kind[c]]]

(* The queues q, ordered by a: those ahead of a client are in its queue,    *)
(* and who is ahead of one of them is ahead of it.                          *)
OrderedIn(q, a) ==
    \A t \in Tier : \A c \in q[t] :
        /\ a[c] \subseteq q[t] /\ c \notin a[c]
        /\ \A d \in a[c] : a[d] \subseteq a[c]

(* Outside of a dispatch nobody may be granted a permit.                    *)
Settled == mutex = NoClient => \A c \in Client, t \in Tier : ~NextGrantable(c, t)

(* The inductive invariant.                                                 *)
LineInv == SemInv /\ InLine /\ OrderedIn(queue, ahead) /\ Settled

-----------------------------------------------------------------------------
(* The queues.                                                              *)

(* Taking clients out of the queues keeps the order of the rest.            *)
LEMMA WithoutOrdered ==
    ASSUME TypeOK, OrderedIn(queue, ahead), NEW G
    PROVE  OrderedIn(QueuesWithout(G), AheadWithout(G))
<1> DEFINE q == QueuesWithout(G)
           a == AheadWithout(G)
<1>1. /\ \A t \in Tier : q[t] = queue[t] \ G /\ queue[t] \subseteq Client
      /\ \A c \in Client : a[c] = IF c \in G THEN {} ELSE ahead[c] \ G
  BY DEF QueuesWithout, AheadWithout, TypeOK
<1> HIDE DEF q, a
<1>2. ASSUME NEW t \in Tier, NEW c \in q[t]
      PROVE  /\ a[c] \subseteq q[t] /\ c \notin a[c]
             /\ \A d \in a[c] : a[d] \subseteq a[c]
  <2>1. c \in queue[t] /\ c \in Client /\ c \notin G /\ a[c] = ahead[c] \ G
    BY <1>1, <1>2
  <2>2. /\ ahead[c] \subseteq queue[t] /\ c \notin ahead[c]
        /\ \A d \in ahead[c] : ahead[d] \subseteq ahead[c]
    BY <2>1 DEF OrderedIn
  <2>3. ASSUME NEW d \in a[c]
        PROVE  a[d] \subseteq a[c]
    <3>1. d \in ahead[c] /\ d \notin G /\ d \in Client
      BY <2>1, <2>2, <2>3, <1>1
    <3>2. a[d] = ahead[d] \ G
      BY <3>1, <1>1
    <3> QED
      BY <2>1, <2>2, <3>1, <3>2
  <2> QED
    BY <1>1, <2>1, <2>2, <2>3
<1>3. OrderedIn(q, a)
  BY <1>2 DEF OrderedIn
<1> QED
  BY <1>3 DEF q, a

(* Some member of a queue's part has nobody of that part ahead of it.       *)
LEMMA Foremost ==
    ASSUME TypeOK, OrderedIn(queue, ahead), NEW t \in Tier,
           NEW S, S \subseteq queue[t], S # {}
    PROVE  \E c \in S : ahead[c] \intersect S = {}
<1> DEFINE Rank(c) == Cardinality(ahead[c] \intersect S)
           N == {Rank(c) : c \in S}
<1>1. S \subseteq Client /\ IsFiniteSet(S)
  <2>1. S \in SUBSET Client
    BY DEF TypeOK
  <2> QED
    BY <2>1, FS_Subset, SemaphoreAssumption
<1>2. \A c \in S : IsFiniteSet(ahead[c] \intersect S) /\ Rank(c) \in Nat
  <2>1. ASSUME NEW c \in S
        PROVE  IsFiniteSet(ahead[c] \intersect S) /\ Rank(c) \in Nat
    <3>1. ahead[c] \intersect S \in SUBSET S
      OBVIOUS
    <3>2. IsFiniteSet(ahead[c] \intersect S)
      BY <3>1, <1>1, FS_Subset
    <3> QED
      BY <3>2, FS_CardinalityType
  <2> QED
    BY <2>1
<1>3. N \subseteq Nat /\ N # {}
  BY <1>2
<1>4. \E n \in N : \A m \in N : ~(<<m, n>> \in OpToRel(<, Nat))
  <2> HIDE DEF N
  <2> QED
    BY <1>3, WFMin, NatLessThanWellFounded
<1>5. PICK n \in N : \A m \in N : ~(<<m, n>> \in OpToRel(<, Nat))
  BY <1>4
<1>6. \A m \in N : ~(m < n)
  <2> HIDE DEF N
  <2> QED
    BY <1>3, <1>5 DEF OpToRel
<1>7. PICK c \in S : n = Rank(c)
  BY <1>5
<1>8. \A d \in S : ~(Rank(d) < Rank(c))
  BY <1>6, <1>7
<1>9. SUFFICES ASSUME NEW d \in ahead[c] \intersect S
               PROVE  FALSE
  BY <1>7
<1>10. ahead[d] \subseteq ahead[c] /\ d \notin ahead[d]
  <2>1. d \in queue[t] /\ c \in queue[t]
    BY <1>7, <1>9
  <2> QED
    BY <2>1, <1>9 DEF OrderedIn
<1> DEFINE C == ahead[c] \intersect S
           D == ahead[d] \intersect S
<1>11. IsFiniteSet(C \ {d}) /\ Cardinality(C \ {d}) = Cardinality(C) - 1
  <2>1. IsFiniteSet(C) /\ d \in C
    BY <1>2, <1>7, <1>9
  <2> HIDE DEF C
  <2> QED
    BY <2>1, FS_RemoveElement
<1>12. D \in SUBSET (C \ {d})
  BY <1>10
<1>13. Cardinality(D) <= Cardinality(C \ {d})
  <2> HIDE DEF C, D
  <2> QED
    BY <1>11, <1>12, FS_Subset
<1>14. Rank(d) \in Nat /\ Rank(c) \in Nat /\ Rank(d) = Cardinality(D) /\ Rank(c) = Cardinality(C)
  BY <1>2, <1>7, <1>9
<1> HIDE DEF Rank, C, D
<1> QED
  BY <1>8, <1>9, <1>11, <1>13, <1>14

-----------------------------------------------------------------------------
(* The invariant.                                                           *)

(* No queue, no waiter.                                                     *)
LEMMA LineInit == Init => LineInv
<1> SUFFICES ASSUME Init PROVE LineInv
  OBVIOUS
<1>1. SemInv
  BY SemInit
<1>2. InLine /\ OrderedIn(queue, ahead)
  BY DEF Init, InLine, OrderedIn
<1>3. \A c \in Client, t \in Tier : ~NextGrantable(c, t)
  BY DEF Init, NextGrantable, First
<1> QED
  BY <1>1, <1>2, <1>3 DEF LineInv, Settled

(* A new ask goes behind all that are still waiting.                        *)
LEMMA AcquireKeepsLine ==
    ASSUME LineInv, NEW c \in Client, NEW k \in Kind, Acquire(c, k)
    PROVE  InLine' /\ OrderedIn(queue, ahead)' /\ Settled'
<1> DEFINE q == QueuesWithout(Closed)
           a == AheadWithout(Closed)
           u == TierOf[k]
<1>1. TypeOK /\ InLine /\ OrderedIn(queue, ahead) /\ u \in Tier
  BY TierKinds DEF LineInv, SemInv
<1>2. /\ stage[c] = "idle" /\ mutex' = c
      /\ queue' = [q EXCEPT ![u] = @ \union {c}]
      /\ ahead' = [a EXCEPT ![c] = queue[u] \ Closed]
      /\ stage' = [stage EXCEPT ![c] = "waiting"] /\ kind' = [kind EXCEPT ![c] = k]
  BY DEF Acquire
<1>3. OrderedIn(q, a)
  BY <1>1, WithoutOrdered
<1>4. \A t \in Tier : q[t] = queue[t] \ Closed /\ queue[t] \subseteq Client /\ c \notin q[t]
  BY <1>1, <1>2 DEF QueuesWithout, TypeOK, Closed
<1>5. /\ DOMAIN q = Tier /\ DOMAIN a = Client
  BY DEF QueuesWithout, AheadWithout
<1> HIDE DEF q, a, u
<1>6. /\ queue'[u] = q[u] \union {c} /\ \A t \in Tier \ {u} : queue'[t] = q[t]
      /\ ahead'[c] = q[u] /\ \A d \in Client \ {c} : ahead'[d] = a[d]
  BY <1>1, <1>2, <1>4, <1>5
<1>7. InLine'
  <2>1. ASSUME NEW d \in Client, stage'[d] = "waiting"
        PROVE  d \in queue'[TierOf[kind'[d]]]
    <3>1. CASE d = c
      <4>1. kind'[d] = k
        BY <3>1, <1>1, <1>2 DEF TypeOK
      <4> QED
        BY <3>1, <4>1, <1>6 DEF u
    <3>2. CASE d # c
      <4>1. stage[d] = "waiting" /\ kind'[d] = kind[d] /\ kind[d] \in Kind
        BY <3>2, <2>1, <1>1, <1>2 DEF TypeOK
      <4>2. d \in queue[TierOf[kind[d]]] /\ d \notin Closed /\ TierOf[kind[d]] \in Tier
        BY <4>1, <1>1, TierKinds DEF InLine, Closed
      <4>3. d \in q[TierOf[kind[d]]]
        BY <4>2, <1>4
      <4> QED
        BY <4>1, <4>2, <4>3, <1>6
    <3> QED
      BY <3>1, <3>2
  <2> QED
    BY <2>1 DEF InLine
<1>8. OrderedIn(queue', ahead')
  <2>1. ASSUME NEW t \in Tier, NEW e \in queue'[t]
        PROVE  /\ ahead'[e] \subseteq queue'[t] /\ e \notin ahead'[e]
               /\ \A d \in ahead'[e] : ahead'[d] \subseteq ahead'[e]
    <3>1. CASE e = c
      <4>1. t = u /\ ahead'[e] = q[u] /\ c \notin q[u]
        BY <3>1, <2>1, <1>1, <1>4, <1>6
      <4>2. \A d \in q[u] : ahead'[d] = a[d] /\ a[d] \subseteq q[u]
        BY <4>1, <1>1, <1>3, <1>4, <1>6 DEF OrderedIn
      <4> QED
        BY <3>1, <4>1, <4>2, <1>6
    <3>2. CASE e # c
      <4>1. e \in q[t] /\ e \in Client /\ ahead'[e] = a[e]
        BY <3>2, <2>1, <1>4, <1>6
      <4>2. /\ a[e] \subseteq q[t] /\ e \notin a[e]
            /\ \A d \in a[e] : a[d] \subseteq a[e]
        BY <4>1, <1>3 DEF OrderedIn
      <4>3. \A d \in a[e] : ahead'[d] = a[d]
        BY <4>2, <1>4, <1>6
      <4> QED
        BY <4>1, <4>2, <4>3, <1>6
    <3> QED
      BY <3>1, <3>2
  <2> QED
    BY <2>1 DEF OrderedIn
<1>9. Settled'
  BY <1>2, SemaphoreAssumption DEF Settled
<1> QED
  BY <1>7, <1>8, <1>9

(* Dispatch takes a client out of its queue, granted or gone.               *)
LEMMA TurnKeepsLine ==
    ASSUME LineInv, NEW c \in Client, NEW t \in Tier, Grant(c, t) \/ SendFails(c, t)
    PROVE  InLine' /\ OrderedIn(queue, ahead)' /\ Settled'
<1>1. TypeOK /\ InLine /\ OrderedIn(queue, ahead)
  BY DEF LineInv, SemInv
<1>2. /\ queue' = QueuesWithout({c}) /\ ahead' = AheadWithout({c}) /\ kind' = kind
      /\ mutex' = mutex /\ mutex # NoClient
      /\ stage'[c] # "waiting" /\ \A d \in Client \ {c} : stage'[d] = stage[d]
  BY <1>1 DEF Grant, SendFails, TypeOK
<1>3. OrderedIn(queue', ahead')
  BY <1>1, <1>2, WithoutOrdered
<1>4. InLine'
  <2>1. ASSUME NEW d \in Client, stage'[d] = "waiting"
        PROVE  d \in queue'[TierOf[kind'[d]]]
    <3>1. d # c /\ d \in queue[TierOf[kind[d]]] /\ TierOf[kind[d]] \in Tier
      BY <2>1, <1>1, <1>2, TierKinds DEF InLine, TypeOK
    <3> QED
      BY <3>1, <1>2 DEF QueuesWithout
  <2> QED
    BY <2>1 DEF InLine
<1> QED
  BY <1>2, <1>3, <1>4 DEF Settled, OrderedIn

(* A release prunes the clients that left, and no other.                    *)
LEMMA ReleaseKeepsLine ==
    ASSUME LineInv, NEW c \in Client, Release(c)
    PROVE  InLine' /\ OrderedIn(queue, ahead)' /\ Settled'
<1>1. TypeOK /\ InLine /\ OrderedIn(queue, ahead)
  BY DEF LineInv, SemInv
<1>2. /\ queue' = QueuesWithout(Closed) /\ ahead' = AheadWithout(Closed) /\ kind' = kind
      /\ mutex' = c /\ stage' = [stage EXCEPT ![c] = "idle"]
  BY DEF Release, Prune
<1>3. OrderedIn(queue', ahead')
  BY <1>1, <1>2, WithoutOrdered
<1>4. InLine'
  <2>1. ASSUME NEW d \in Client, stage'[d] = "waiting"
        PROVE  d \in queue'[TierOf[kind'[d]]]
    <3>1. stage[d] = "waiting"
      BY <2>1, <1>1, <1>2 DEF TypeOK
    <3>2. d \notin Closed /\ d \in queue[TierOf[kind[d]]] /\ TierOf[kind[d]] \in Tier
      BY <3>1, <1>1, TierKinds DEF InLine, TypeOK, Closed
    <3> QED
      BY <3>2, <1>2 DEF QueuesWithout
  <2> QED
    BY <2>1 DEF InLine
<1>5. Settled'
  BY <1>2, SemaphoreAssumption DEF Settled
<1> QED
  BY <1>3, <1>4, <1>5 DEF OrderedIn

(* Who may be granted a permit depends on the counters and the queues only. *)
LEMMA CancelKeepsLine ==
    ASSUME LineInv, NEW c \in Client, Cancel(c)
    PROVE  InLine' /\ OrderedIn(queue, ahead)' /\ Settled'
<1>1. TypeOK /\ InLine /\ OrderedIn(queue, ahead) /\ Settled
  BY DEF LineInv, SemInv
<1>2. /\ UNCHANGED <<held, queue, ahead, kind, mutex>>
      /\ \A d \in Client : stage'[d] = "waiting" => stage[d] = "waiting"
  BY <1>1 DEF Cancel, TypeOK
<1>3. InLine' /\ OrderedIn(queue, ahead)'
  BY <1>1, <1>2 DEF InLine, OrderedIn
<1>4. ASSUME NEW d \in Client, NEW t \in Tier
      PROVE  NextGrantable(d, t)' <=> NextGrantable(d, t)
  BY <1>2 DEF NextGrantable, Free, HeldTotal, First, Waiting, RepairFloorTurn, ReserveLeft,
      UnmetDemand, ReserveBorrowed, Others, MayReadAhead, UnmetRepair, ShareFree, ReadAheadTurn,
      SatSub, Share
<1>5. Settled'
  BY <1>1, <1>2, <1>4 DEF Settled
<1> QED
  BY <1>3, <1>5

(* The invariant is inductive.                                              *)
LEMMA LineStep == LineInv /\ [Next]_vars => LineInv'
<1> SUFFICES ASSUME LineInv, [Next]_vars PROVE LineInv'
  OBVIOUS
<1>1. SemInv'
  BY SemStep DEF LineInv
<1>2. CASE Unlock
  <2>1. InLine /\ OrderedIn(queue, ahead) /\ UNCHANGED <<held, queue, ahead, stage, kind>>
    BY <1>2 DEF LineInv, Unlock
  <2>2. InLine' /\ OrderedIn(queue, ahead)'
    BY <2>1 DEF InLine, OrderedIn
  <2>3. \A c \in Client, t \in Tier : ~NextGrantable(c, t)
    BY <1>2 DEF Unlock
  <2>4. \A c \in Client, t \in Tier : NextGrantable(c, t)' <=> NextGrantable(c, t)
    BY <2>1 DEF NextGrantable, Free, HeldTotal, First, Waiting, RepairFloorTurn, ReserveLeft,
        UnmetDemand, ReserveBorrowed, Others, MayReadAhead, UnmetRepair, ShareFree, ReadAheadTurn,
        SatSub, Share
  <2>5. Settled'
    BY <2>3, <2>4 DEF Settled
  <2> QED
    BY <1>1, <2>2, <2>5 DEF LineInv
<1>3. CASE UNCHANGED vars
  <2>1. InLine /\ OrderedIn(queue, ahead) /\ Settled
    BY DEF LineInv
  <2>2. InLine' /\ OrderedIn(queue, ahead)' /\ Settled'
    BY <1>3, <2>1 DEF vars, InLine, OrderedIn, Settled, NextGrantable, Free, HeldTotal, First,
        Waiting, RepairFloorTurn, ReserveLeft, UnmetDemand, ReserveBorrowed, Others, MayReadAhead,
        UnmetRepair, ShareFree, ReadAheadTurn, SatSub, Share
  <2> QED
    BY <1>1, <2>2 DEF LineInv
<1> QED
  BY <1>1, <1>2, <1>3, AcquireKeepsLine, TurnKeepsLine, ReleaseKeepsLine, CancelKeepsLine
  DEF Next, Dispatch, LineInv

(* It holds in every state, for any number of calls and any sizes.          *)
THEOREM LineInvariant == Spec => []LineInv
BY LineInit, LineStep, PTL DEF Spec

-----------------------------------------------------------------------------
(* First come, first served.                                                *)

(* Whoever is granted a permit has no call of its kind ahead of it.         *)
LEMMA NoneAhead ==
    ASSUME LineInv, NEW c \in Client, NEW t \in Tier, NextGrantable(c, t),
           NEW d \in ahead[c], d \in queue[t]
    PROVE  kind[d] # kind[c]
<1>1. c \in queue[t] /\ kind[c] \in Kind /\ TierOf[kind[c]] = t
  BY GrantFits DEF LineInv, SemInv, TypeOK, QueuedAtItsTier
<1>2. CASE First(c, t)
  BY <1>2 DEF First
<1>3. CASE t = "ReadAhead" /\ MayReadAhead(c) /\ ~MayReadAhead(d)
  BY <1>3 DEF MayReadAhead
<1> QED
  BY <1>2, <1>3 DEF NextGrantable

(* No waiting call sees a later one of its kind served before it, whatever  *)
(* left the line in between.                                                *)
THEOREM ServedInOrder == Spec => FirstComeFirstServed
<1> DEFINE Fair == \A c, d \in Client : ~Overtakes(c, d)
<1>1. ASSUME LineInv, Next
      PROVE  Fair
  <2>1. SUFFICES ASSUME NEW c \in Client, NEW d \in Client, Overtakes(c, d)
                 PROVE  FALSE
    OBVIOUS
  <2>2. /\ stage[c] = "waiting" /\ stage'[c] = "holding" /\ stage[d] = "waiting"
        /\ kind[c] = kind[d] /\ d \in ahead[c]
    BY <2>1 DEF Overtakes
  <2>3. TypeOK /\ InLine
    BY <1>1 DEF LineInv, SemInv
  <2>4. PICK t \in Tier : Grant(c, t)
    <3>1. ASSUME NEW e \in Client
          PROVE  /\ \A k \in Kind : ~Acquire(e, k)
                 /\ ~Cancel(e) /\ ~Release(e)
                 /\ \A t \in Tier : ~SendFails(e, t) /\ (Grant(e, t) => e = c)
      BY <2>2, <2>3 DEF Acquire, Cancel, Release, SendFails, Grant, TypeOK
    <3>2. ~Unlock
      BY <2>2 DEF Unlock
    <3> QED
      BY <1>1, <3>1, <3>2 DEF Next, Dispatch
  <2>5. NextGrantable(c, t) /\ c \in queue[t]
    BY <1>1, <2>4, GrantFits DEF Grant, LineInv
  <2>6. d \in queue[t]
    <3>1. TierOf[kind[c]] = t
      BY <1>1, <2>5 DEF LineInv, SemInv, QueuedAtItsTier
    <3> QED
      BY <2>2, <2>3, <3>1 DEF InLine
  <2> QED
    BY <1>1, <2>2, <2>5, <2>6, NoneAhead
<1>2. LineInv /\ [Next]_vars => [Fair]_vars
  BY <1>1
<1> QED
  BY <1>2, LineInvariant, PTL DEF Spec, FirstComeFirstServed

-----------------------------------------------------------------------------
(* No lost wake-up.                                                         *)

(* The counters are numbers.                                                *)
LEMMA HeldNumbers ==
    ASSUME LineInv
    PROVE  /\ held["Demand"] \in Nat /\ held["ReadAhead"] \in Nat /\ held["Repair"] \in Nat
           /\ HeldTotal <= Total
BY DEF LineInv, SemInv, TypeOK, Tier, HeldIsExact

(* A tier somebody waits at has a first waiter.                             *)
LEMMA FirstIsThere ==
    ASSUME LineInv, NEW t \in Tier, Waiting(t)
    PROVE  \E c \in Client : First(c, t)
<1>1. TypeOK /\ OrderedIn(queue, ahead) /\ queue[t] # {} /\ queue[t] \subseteq Client
  BY DEF LineInv, SemInv, Waiting, TypeOK
<1>2. PICK c \in queue[t] : ahead[c] \intersect queue[t] = {}
  BY <1>1, Foremost
<1> QED
  BY <1>1, <1>2 DEF First

(* Demand: the first of its queue is granted whatever permit is free.       *)
LEMMA DemandIsServed ==
    ASSUME LineInv, mutex = NoClient, Waiting("Demand")
    PROVE  HeldTotal = Total
<1>1. PICK c \in Client : First(c, "Demand")
  BY FirstIsThere DEF Tier
<1>2. ~NextGrantable(c, "Demand")
  BY DEF LineInv, Settled, Tier
<1>3. ~(Free > 0)
  BY <1>1, <1>2 DEF NextGrantable
<1> QED
  BY <1>3, HeldNumbers, SemaphoreAssumption DEF Free, SatSub, HeldTotal

(* Repair below its floor: what is free outside the reserve is its own.     *)
LEMMA RepairIsServed ==
    ASSUME LineInv, mutex = NoClient, Waiting("Repair"), held["Repair"] < RepairFloor
    PROVE  Others >= Share \/ HeldTotal = Total
<1> SUFFICES ASSUME HeldTotal # Total, ~(Others >= Share)
             PROVE  FALSE
  OBVIOUS
<1>1. ~Waiting("Demand")
  BY DemandIsServed
<1>2. Free > 0 /\ Free > ReserveLeft
  BY HeldNumbers, SemaphoreAssumption
  DEF Free, SatSub, HeldTotal, Others, Share, ReserveLeft, UnmetDemand, ReserveBorrowed
<1>3. PICK c \in Client : First(c, "Repair")
  BY FirstIsThere DEF Tier
<1>4. NextGrantable(c, "Repair")
  BY <1>1, <1>2, <1>3 DEF NextGrantable, RepairFloorTurn
<1> QED
  BY <1>4 DEF LineInv, Settled, Tier

(* An idle pool that is not all reserve serves whoever waits.               *)
LEMMA IdlePoolServes ==
    ASSUME LineInv, mutex = NoClient, HeldTotal = 0, DemandReserved < Total,
           NEW t \in Tier, Waiting(t)
    PROVE  FALSE
<1>1. /\ held["Demand"] = 0 /\ held["ReadAhead"] = 0 /\ held["Repair"] = 0
  BY HeldNumbers DEF HeldTotal
<1>2. /\ Total \in Nat /\ DemandReserved \in Nat /\ RepairFloor \in Nat
      /\ DemandReserved + RepairFloor <= Total
  BY SemaphoreAssumption
<1>3. /\ Free = Total /\ UnmetDemand = DemandReserved /\ ReserveLeft = DemandReserved
      /\ ShareFree = Total - DemandReserved
  BY <1>1, <1>2 DEF Free, SatSub, HeldTotal, Others, Share, ShareFree, ReserveLeft, UnmetDemand,
     ReserveBorrowed
<1>4. ~Waiting("Demand")
  <2>1. HeldTotal # Total
    BY <1>2
  <2> QED
    BY <2>1, DemandIsServed
<1>5. ~RepairFloorTurn
  <2>1. Waiting("Repair") /\ held["Repair"] < RepairFloor => Others >= Share \/ HeldTotal = Total
    BY RepairIsServed
  <2>2. ~(Others >= Share) /\ HeldTotal # Total
    BY <1>1, <1>2 DEF Others, Share
  <2> QED
    BY <2>1, <2>2 DEF RepairFloorTurn
<1>6. UnmetRepair = 0
  BY <1>1, <1>2, <1>3, <1>5 DEF UnmetRepair, RepairFloorTurn, SatSub
<1>7. ~Waiting("ReadAhead")
  <2> SUFFICES ASSUME Waiting("ReadAhead")
               PROVE  FALSE
    OBVIOUS
  <2> DEFINE S == {c \in queue["ReadAhead"] : MayReadAhead(c)}
  <2>1. TypeOK /\ OrderedIn(queue, ahead) /\ queue["ReadAhead"] \subseteq Client
    BY DEF LineInv, SemInv, TypeOK, Tier
  <2>2. \A c \in Client : MayReadAhead(c)
    BY <1>2, <1>3, <1>6 DEF MayReadAhead
  <2>3. S # {} /\ S \subseteq queue["ReadAhead"] /\ "ReadAhead" \in Tier
    BY <2>1, <2>2 DEF Waiting, Tier
  <2>4. PICK c \in S : ahead[c] \intersect S = {}
    <3> HIDE DEF S
    <3> QED
      BY <2>1, <2>3, Foremost
  <2>5. \A d \in ahead[c] \intersect queue["ReadAhead"] : ~MayReadAhead(d)
    BY <2>4
  <2>6. NextGrantable(c, "ReadAhead")
    BY <1>2, <1>3, <1>4, <1>5, <2>4, <2>5 DEF NextGrantable
  <2> QED
    BY <2>1, <2>3, <2>4, <2>6 DEF LineInv, Settled
<1>8. CASE t = "Repair"
  <2>1. ~ReadAheadTurn
    BY <1>7 DEF ReadAheadTurn, Waiting
  <2>2. PICK c \in Client : First(c, "Repair")
    BY <1>8, FirstIsThere
  <2>3. NextGrantable(c, "Repair")
    BY <1>2, <1>3, <1>4, <1>5, <2>1, <2>2 DEF NextGrantable
  <2> QED
    BY <2>2, <2>3 DEF LineInv, Settled, Tier
<1> QED
  BY <1>4, <1>7, <1>8 DEF Tier

(* Outside a dispatch whoever waits, waits for a permit that is out.        *)
THEOREM WakeUpsAreKept == Spec => []NoLostWakeUp
<1>1. ASSUME LineInv, mutex = NoClient
      PROVE  DemandWaitsOnlyWhenFull /\ RepairWaitsOnlyWhenShareFull /\ NoWaiterOnIdlePool
  <2>1. \A c \in Client : stage[c] = "waiting" => Waiting(TierOf[kind[c]]) /\ TierOf[kind[c]] \in Tier
    BY <1>1, TierKinds DEF LineInv, SemInv, TypeOK, InLine, Waiting
  <2>2. DemandWaitsOnlyWhenFull
    <3>1. ASSUME NEW c \in Client, stage[c] = "waiting", kind[c] = "demand"
          PROVE  Waiting("Demand")
      BY <2>1, <3>1 DEF TierOf, Kind
    <3> QED
      BY <1>1, <3>1, DemandIsServed DEF DemandWaitsOnlyWhenFull
  <2>3. RepairWaitsOnlyWhenShareFull
    <3>1. ASSUME NEW c \in Client, stage[c] = "waiting", kind[c] = "repair"
          PROVE  Waiting("Repair")
      BY <2>1, <3>1 DEF TierOf, Kind
    <3> QED
      BY <1>1, <3>1, RepairIsServed DEF RepairWaitsOnlyWhenShareFull
  <2>4. NoWaiterOnIdlePool
    BY <1>1, <2>1, IdlePoolServes DEF NoWaiterOnIdlePool
  <2> QED
    BY <2>2, <2>3, <2>4
<1>2. LineInv => NoLostWakeUp
  BY <1>1 DEF NoLostWakeUp
<1> QED
  BY <1>2, LineInvariant, PTL

-----------------------------------------------------------------------------
(* The refinement of PermitPool.                                            *)

(* The permits out of two sets of kinds that share none add up.             *)
LEMMA PermitsAdd ==
    ASSUME NEW A, NEW B, A \intersect B = {}
    PROVE  Cardinality(PermitsOut(A \union B)) =
               Cardinality(PermitsOut(A)) + Cardinality(PermitsOut(B))
<1>1. /\ IsFiniteSet(PermitsOut(A)) /\ IsFiniteSet(PermitsOut(B))
      /\ Cardinality(PermitsOut(A)) \in Nat /\ Cardinality(PermitsOut(B)) \in Nat
  BY PermitsOutFinite
<1>2. /\ PermitsOut(A \union B) = PermitsOut(A) \union PermitsOut(B)
      /\ PermitsOut(A) \intersect PermitsOut(B) = {}
  BY DEF PermitsOut
<1>3. Cardinality(PermitsOut(A) \union PermitsOut(B)) =
          Cardinality(PermitsOut(A)) + Cardinality(PermitsOut(B))
              - Cardinality(PermitsOut(A) \intersect PermitsOut(B))
  BY <1>1, FS_Union
<1>4. Cardinality(PermitsOut(A) \intersect PermitsOut(B)) = 0
  BY <1>2, FS_EmptySet
<1>5. Cardinality(PermitsOut(A \union B)) = Cardinality(PermitsOut(A) \union PermitsOut(B))
  BY <1>2
<1> DEFINE m == Cardinality(PermitsOut(A))
           n == Cardinality(PermitsOut(B))
<1>6. m \in Nat /\ n \in Nat /\ Cardinality(PermitsOut(A \union B)) = m + n - 0
  BY <1>1, <1>3, <1>4, <1>5
<1>7. m + n - 0 = m + n
  <2> HIDE DEF m, n
  <2> QED
    BY <1>6
<1> QED
  BY <1>6, <1>7

(* What the pool counts by its holders, the counters hold.                  *)
LEMMA PoolCounts ==
    ASSUME LineInv
    PROVE  /\ Pool!Held({"demand"}) = held["Demand"]
           /\ Pool!Held({"repair"}) = held["Repair"]
           /\ Pool!Held({"readahead", "ingest", "repair"}) = Others
           /\ Pool!Held(Pool!Kind) = HeldTotal
<1>1. ASSUME NEW K
      PROVE  Pool!Held(K) = Cardinality(PermitsOut(K))
  <2>1. Pool!Holding(K) = PermitsOut(K)
    BY DEF Pool!Holding, PermitsOut
  <2> QED
    BY <2>1 DEF Pool!Held, Pool!Cardinality, Cardinality
<1>2. /\ held["Demand"] = Cardinality(PermitsOut({"demand"}))
      /\ held["ReadAhead"] = Cardinality(PermitsOut({"readahead", "ingest"}))
      /\ held["Repair"] = Cardinality(PermitsOut({"repair"}))
  BY DEF LineInv, SemInv, HeldIsExact
<1>3. Cardinality(PermitsOut({"readahead", "ingest", "repair"})) = Others
  <2>1. {"readahead", "ingest", "repair"} = {"readahead", "ingest"} \union {"repair"}
    OBVIOUS
  <2>2. {"readahead", "ingest"} \intersect {"repair"} = {}
    OBVIOUS
  <2> QED
    BY <1>2, <2>1, <2>2, PermitsAdd DEF Others
<1>4. Cardinality(PermitsOut(Pool!Kind)) = HeldTotal
  <2>1. Pool!Kind = {"demand"} \union {"readahead", "ingest", "repair"}
    BY DEF Pool!Kind
  <2>2. {"demand"} \intersect {"readahead", "ingest", "repair"} = {}
    OBVIOUS
  <2>3. Cardinality(PermitsOut(Pool!Kind)) = held["Demand"] + Others
    BY <1>2, <1>3, <2>1, <2>2, PermitsAdd
  <2> QED
    BY <2>3, HeldNumbers DEF HeldTotal, Others
<1> QED
  BY <1>1, <1>2, <1>3, <1>4

(* A grant of dispatch is one the pool allows.                              *)
LEMMA GrantIsAllowed ==
    ASSUME LineInv, NEW c \in Client, NEW t \in Tier, Grant(c, t)
    PROVE  Pool!Grant(c)
<1>1. /\ NextGrantable(c, t) /\ stage[c] = "waiting"
      /\ stage' = [stage EXCEPT ![c] = "holding"] /\ kind' = kind
  BY DEF Grant
<1>2. /\ held["Demand"] \in Nat /\ held["ReadAhead"] \in Nat /\ held["Repair"] \in Nat
      /\ Total \in Nat /\ DemandReserved \in Nat /\ RepairFloor \in Nat
      /\ DemandReserved + RepairFloor <= Total
  BY HeldNumbers, SemaphoreAssumption
<1>3. /\ HeldTotal < Total /\ c \in queue[t]
      /\ kind[c] \in {"ingest", "repair"} => Others < Share
  BY <1>1, GrantFits DEF LineInv
<1>4. kind[c] \in Kind /\ TierOf[kind[c]] = t
  BY <1>3 DEF LineInv, SemInv, TypeOK, QueuedAtItsTier
<1>5. \A d \in Client : stage[d] = "waiting" => d \in queue[TierOf[kind[d]]] /\ kind[d] \in Kind
  BY DEF LineInv, SemInv, TypeOK, InLine
<1>6. /\ ~Waiting("Demand") => Pool!WaitingFor({"demand"}) = {}
      /\ ~Waiting("Repair") => Pool!WaitingFor({"repair"}) = {}
  BY <1>5 DEF Pool!WaitingFor, Waiting, TierOf, Kind
<1>7. /\ Pool!Held({"demand"}) = held["Demand"]
      /\ Pool!Held({"repair"}) = held["Repair"]
      /\ Pool!Held({"readahead", "ingest", "repair"}) = Others
      /\ Pool!Held(Pool!Kind) = HeldTotal
  BY PoolCounts
<1>8. Pool!DemandFirst(c)
  BY <1>1, <1>4, <1>6 DEF Pool!DemandFirst, NextGrantable, TierOf, Kind
<1>9. kind[c] \in {"ingest", "repair"} => Free > UnmetDemand
  <2>1. CASE kind[c] = "ingest"
    <3>1. Free > UnmetRepair + UnmetDemand
      BY <2>1, <1>1, <1>4 DEF NextGrantable, MayReadAhead, TierOf, Kind
    <3> QED
      BY <3>1, <1>2 DEF UnmetRepair, UnmetDemand, Free, SatSub, HeldTotal
  <2>2. CASE kind[c] = "repair"
    <3>1. Free > ReserveLeft \/ Free > UnmetDemand
      BY <2>2, <1>1, <1>4 DEF NextGrantable, RepairFloorTurn, TierOf, Kind
    <3>2. Others < Share
      BY <2>2, <1>3
    <3> QED
      BY <3>1, <3>2, <1>2 DEF ReserveLeft, ReserveBorrowed, UnmetDemand, SatSub, Others, Share
  <2> QED
    BY <2>1, <2>2
<1>10. Pool!KeepsReserve(c)
  BY <1>2, <1>3, <1>7, <1>9
  DEF Pool!KeepsReserve, Pool!Share, Share, Free, UnmetDemand, SatSub, HeldTotal
<1>11. Pool!KeepsRepairFloor(c)
  <2>1. SUFFICES ASSUME kind[c] \in {"readahead", "ingest"}, Pool!RepairActive,
                        held["Repair"] < RepairFloor
                 PROVE  /\ Pool!WaitingFor({"repair"}) = {}
                        /\ Others + 1 + (RepairFloor - held["Repair"]) <= Share
    BY <1>7 DEF Pool!KeepsRepairFloor, Pool!Prefetch, Pool!Share, Share
  <2>2. t = "ReadAhead" /\ MayReadAhead(c) /\ ~RepairFloorTurn
    BY <2>1, <1>1, <1>4 DEF NextGrantable, TierOf, Kind
  <2>3. held["Repair"] > 0 \/ Waiting("Repair")
    <3>1. CASE Pool!WaitingFor({"repair"}) # {}
      BY <3>1, <1>6
    <3>2. CASE Pool!Holding({"repair"}) # {}
      <4>1. PermitsOut({"repair"}) # {}
        BY <3>2 DEF Pool!Holding, PermitsOut
      <4>2. Cardinality(PermitsOut({"repair"})) # 0
        BY <4>1, PermitsOutFinite, FS_EmptySet
      <4> QED
        BY <4>2, <1>2 DEF LineInv, SemInv, HeldIsExact
    <3> QED
      BY <2>1, <3>1, <3>2 DEF Pool!RepairActive
  <2>4. UnmetRepair = RepairFloor - held["Repair"] /\ UnmetRepair > 0
    BY <2>1, <2>3, <1>2 DEF UnmetRepair, SatSub
  <2>5. ShareFree > UnmetRepair /\ Free > UnmetRepair + UnmetDemand
    BY <2>2, <2>4, <1>2 DEF MayReadAhead
  <2>6. ~Waiting("Repair")
    <3>1. Free > ReserveLeft
      BY <2>4, <2>5, <1>2 DEF ReserveLeft, ReserveBorrowed, UnmetDemand, Free, SatSub, HeldTotal,
         Others, Share
    <3> QED
      BY <2>1, <2>2, <3>1 DEF RepairFloorTurn
  <2> QED
    BY <2>4, <2>5, <2>6, <1>2, <1>6 DEF ShareFree, SatSub, Others, Share
<1>12. Pool!RepairLast(c)
  <2>1. SUFFICES ASSUME kind[c] = "repair", held["Repair"] >= RepairFloor,
                        NEW d \in Pool!WaitingFor({"readahead", "ingest"})
                 PROVE  FALSE
    BY <1>7 DEF Pool!RepairLast, Pool!Prefetch
  <2>2. ~ReadAheadTurn
    BY <2>1, <1>1, <1>2, <1>4 DEF NextGrantable, RepairFloorTurn, TierOf, Kind
  <2>3. d \in queue["ReadAhead"] /\ kind[d] \in {"readahead", "ingest"}
    BY <2>1, <1>5 DEF Pool!WaitingFor, TierOf, Kind
  <2>4. UnmetRepair = 0
    BY <2>1, <1>2 DEF UnmetRepair, SatSub
  <2>5. ShareFree > 0 /\ Free > UnmetDemand
    BY <2>1, <1>2, <1>3, <1>9 DEF ShareFree, SatSub, Others, Share
  <2>6. MayReadAhead(d)
    BY <2>4, <2>5, <1>2 DEF MayReadAhead, UnmetDemand, SatSub
  <2> QED
    BY <2>2, <2>3, <2>6 DEF ReadAheadTurn
<1> QED
  BY <1>1, <1>3, <1>7, <1>8, <1>10, <1>11, <1>12 DEF Pool!Grant

(* Every step is a step of the pool or a stutter: queues, counters, mutex   *)
(* and waiters that left are the semaphore's own affair.                    *)
THEOREM SemaphoreRefinesPool == Spec => GrantsAsPromised
<1>1. Init => Pool!Init
  BY DEF Init, Pool!Init
<1>2. ASSUME LineInv, [Next]_vars
      PROVE  [Pool!Next]_(Pool!vars)
  <2>1. CASE \E c \in Client, k \in Kind : Acquire(c, k)
    BY <2>1 DEF Acquire, Pool!Next, Pool!Ask, Kind, Pool!Kind
  <2>2. CASE \E c \in Client : Cancel(c) \/ Release(c)
    <3>1. PICK c \in Client : Cancel(c) \/ Release(c)
      BY <2>2
    <3>2. Pool!Leave(c)
      BY <3>1 DEF Cancel, Release, Pool!Leave
    <3> QED
      BY <3>2 DEF Pool!Next
  <2>3. CASE \E c \in Client, t \in Tier : Grant(c, t)
    BY <1>2, <2>3, GrantIsAllowed DEF Pool!Next
  <2>4. CASE \/ \E c \in Client, t \in Tier : SendFails(c, t)
             \/ Unlock \/ UNCHANGED vars
    BY <2>4 DEF SendFails, Unlock, vars, Pool!vars
  <2> QED
    BY <1>2, <2>1, <2>2, <2>3, <2>4 DEF Next, Dispatch
<1>3. LineInv /\ [Next]_vars => [Pool!Next]_(Pool!vars)
  BY <1>2
<1> QED
  BY <1>1, <1>3, LineInvariant, PTL DEF Spec, GrantsAsPromised, Pool!Spec
=============================================================================
