--------------------------- MODULE ServicesProofs ---------------------------
(***************************************************************************)
(* Proofs about the services of the server: what it runs beside a request  *)
(* and what it answers one with.                                           *)
(*                                                                         *)
(* HealthCheck: where a day's batches have room for the library, and for   *)
(* what failed statements cost, no item waits longer than a day, although  *)
(* a batch is always the first due items of the table.                     *)
(*                                                                         *)
(* RepairSchedule: a set never has two repair jobs, a job never waits      *)
(* without the worker, and damage folded into a job before its last look   *)
(* was repaired with it.                                                   *)
(*                                                                         *)
(* ServerSettings: a backup is the database of its own request, and once   *)
(* no rebuild is pending the pools are those of the list, unless the last  *)
(* save failed or crossed another.                                         *)
(*                                                                         *)
(* DavTree: every item is found at its path and listed by the collection   *)
(* its path names, for requests that move files.                           *)
(*                                                                         *)
(* FileStreams: the body of a response is the file, byte for byte: of an   *)
(* archive over its volumes, decrypted if it is encrypted, and of a plain  *)
(* file from a place found by the headers of its segments.                 *)
(***************************************************************************)
EXTENDS HealthCheck, ServerSettings, RepairSchedule, DavTree, FileStreams, FiniteSums, FiniteSetTheorems, SequenceTheorems, WellFoundedInduction, TLAPS

-----------------------------------------------------------------------------
(* The health check: how long an item waits.                                *)

(* The items before i that used a place of the last k batches: they are     *)
(* still in this one, were dated again, or were deleted.                    *)
Used(i, k) ==
    {j \in LibraryItem : /\ j < i
                         /\ \/ j \in batch \/ j = checking \/ due[j] + k > Day
                            \/ j \notin mounted /\ result[j] # "unseen"}

(* Nobody is checking it nor about to.                                      *)
Waits(i) == i \notin batch /\ i # checking

(* The types, as far as the proof needs them.                               *)
HealthTypes ==
    /\ mounted \subseteq LibraryItem /\ batch \subseteq LibraryItem
    /\ checking \in LibraryItem \union {NoItem}
    /\ due \in [LibraryItem -> Nat] /\ overdue \in [LibraryItem -> Nat]
    /\ lost \in [LibraryItem -> Nat]
    /\ DOMAIN result = LibraryItem

(* A day's batches have room for the library and what n places cost.        *)
RoomWith(n) == Cardinality(LibraryItem) + n <= BatchLimit * Day

(* An item overdue for k cycles has k batches of others before it, or the   *)
(* places of those batches were lost.                                       *)
ItemSound(i) ==
    /\ i \in mounted \/ ~Waits(i) => result[i] # "unseen"
    /\ overdue[i] > 0 => i \in mounted /\ due[i] = 0
    /\ overdue[i] > Day => ~RoomWith(lost[i])
    /\ Waits(i) /\ overdue[i] <= Day =>
         Cardinality(Used(i, overdue[i])) + lost[i] >= BatchLimit * overdue[i]

(* The types, and every item's wait.                                        *)
HealthInv == HealthTypes /\ \A i \in LibraryItem : ItemSound(i)

(* A part of the library can be counted.                                    *)
LEMMA LibraryParts ==
    ASSUME NEW S \in SUBSET LibraryItem
    PROVE  /\ IsFiniteSet(S) /\ Cardinality(S) \in Nat
           /\ Cardinality(S) <= Cardinality(LibraryItem)
           /\ Cardinality(LibraryItem) \in Nat
BY HealthAssumption, FS_Subset, FS_CardinalityType

(* Of two parts without a common item the whole has the sum.                *)
LEMMA PartsAdd ==
    ASSUME NEW S \in SUBSET LibraryItem, NEW A \in SUBSET S, NEW B \in SUBSET S,
           A \intersect B = {}
    PROVE  Cardinality(A) + Cardinality(B) <= Cardinality(S)
<1>1. /\ IsFiniteSet(A) /\ IsFiniteSet(B) /\ IsFiniteSet(S)
      /\ Cardinality(A) \in Nat /\ Cardinality(B) \in Nat
  BY LibraryParts
<1>2. Cardinality(A \union B) = Cardinality(A) + Cardinality(B) - Cardinality(A \intersect B)
  BY <1>1, FS_Union
<1>3. Cardinality(A \intersect B) = 0
  BY FS_EmptySet
<1>4. Cardinality(A \union B) <= Cardinality(S)
  BY <1>1, FS_Subset
<1> QED
  BY <1>1, <1>2, <1>3, <1>4

(* Where n items before i are due, the n first ones are before i.           *)
LEMMA FirstOnes ==
    ASSUME NEW D \in SUBSET LibraryItem, NEW i \in Nat, NEW n \in Nat,
           Cardinality({j \in D : j < i}) >= n
    PROVE  Cardinality({j \in D : j < i /\ Cardinality({l \in D : l < j}) < n}) >= n
<1> DEFINE Ahead == {j \in D : j < i}
           First == {j \in D : j < i /\ Cardinality({l \in D : l < j}) < n}
<1>0. /\ First \subseteq Ahead /\ IsFiniteSet(First) /\ IsFiniteSet(Ahead)
      /\ Cardinality(First) \in Nat /\ Cardinality(Ahead) \in Nat
  <2>1. First \in SUBSET LibraryItem /\ Ahead \in SUBSET LibraryItem /\ First \subseteq Ahead
    OBVIOUS
  <2> HIDE DEF First, Ahead
  <2> QED
    BY <2>1, LibraryParts
<1>1. SUFFICES ASSUME Cardinality(First) < n
               PROVE  FALSE
  BY <1>0
<1>2. Cardinality(Ahead) >= n
  OBVIOUS
<1>3. Ahead \ First # {}
  <2> HIDE DEF First, Ahead
  <2>1. Ahead # First
    BY <1>0, <1>1, <1>2
  <2> QED
    BY <1>0, <2>1
<1>4. PICK m \in Ahead \ First : \A k \in Ahead \ First : m <= k
  <2>1. Ahead \ First \in SUBSET Nat
    BY HealthAssumption
  <2> QED
    BY <1>3, <2>1, LeastOf
<1>5. {l \in D : l < m} \subseteq First
  <2>1. ASSUME NEW l \in D, l < m
        PROVE  l \in First
    <3>1. l \in Nat /\ m \in Nat
      BY HealthAssumption
    <3>2. l < i /\ ~(m <= l)
      BY <2>1, <3>1
    <3> QED
      BY <1>4, <3>2
  <2> QED
    BY <2>1
<1>6. Cardinality({l \in D : l < m}) < n
  <2>1. Cardinality({l \in D : l < m}) <= Cardinality(First)
    BY <1>0, <1>5, FS_Subset
  <2>2. Cardinality({l \in D : l < m}) \in Nat
    BY LibraryParts
  <2> QED
    BY <1>0, <1>1, <2>1, <2>2
<1> QED
  BY <1>4, <1>6

(* After the step, of the same items.                                       *)
UsedThen(i, k) ==
    {j \in LibraryItem : /\ j < i
                         /\ \/ j \in batch' \/ j = checking' \/ due'[j] + k > Day
                            \/ j \notin mounted' /\ result'[j] # "unseen"}

(* What is to be shown of how long an item waits after a step.              *)
WaitThen(i) ==
    Cardinality(UsedThen(i, overdue'[i])) + lost'[i] >= BatchLimit * overdue'[i]

(* An item that has not waited yet waits behind nobody.                     *)
LEMMA NotOverdue ==
    ASSUME NEW i \in LibraryItem, overdue'[i] = 0, lost'[i] \in Nat
    PROVE  WaitThen(i)
<1>1. Cardinality(UsedThen(i, overdue'[i])) \in Nat
  <2>1. UsedThen(i, overdue'[i]) \in SUBSET LibraryItem
    BY DEF UsedThen
  <2> QED
    BY <2>1, LibraryParts
<1>2. BatchLimit * 0 = 0
  BY HealthAssumption
<1> QED
  BY <1>1, <1>2 DEF WaitThen

(* Places used or lost before an item stay so.                              *)
LEMMA UsedGrows ==
    ASSUME NEW i \in LibraryItem, ItemSound(i), Waits(i), overdue'[i] = overdue[i],
           overdue[i] \in Nat, overdue[i] <= Day,
           lost[i] \in Nat, lost'[i] \in Nat, lost[i] <= lost'[i],
           Used(i, overdue[i]) \subseteq UsedThen(i, overdue[i])
    PROVE  WaitThen(i)
<1>1. UsedThen(i, overdue[i]) \in SUBSET LibraryItem /\ Used(i, overdue[i]) \in SUBSET LibraryItem
  BY DEF UsedThen, Used
<1>2. /\ Cardinality(Used(i, overdue[i])) <= Cardinality(UsedThen(i, overdue[i]))
      /\ Cardinality(Used(i, overdue[i])) \in Nat /\ Cardinality(UsedThen(i, overdue[i])) \in Nat
  BY <1>1, LibraryParts, FS_Subset
<1>3. Cardinality(Used(i, overdue[i])) + lost[i] >= BatchLimit * overdue[i]
  BY DEF ItemSound
<1>4. BatchLimit * overdue[i] \in Nat
  BY HealthAssumption
<1> QED
  BY <1>2, <1>3, <1>4 DEF WaitThen

(* What is to be shown of an item after a step.                             *)
LEMMA SoundThen ==
    ASSUME NEW i \in LibraryItem,
           i \in mounted' \/ ~Waits(i)' => result'[i] # "unseen",
           overdue'[i] > 0 => i \in mounted' /\ due'[i] = 0,
           overdue'[i] > Day => ~RoomWith(lost'[i]),
           Waits(i)' /\ overdue'[i] <= Day => WaitThen(i)
    PROVE  ItemSound(i)'
BY DEF ItemSound, WaitThen, UsedThen, Used, RoomWith

(* An item a step does not touch waits as before, or lost places.           *)
LEMMA StillSound ==
    ASSUME NEW i \in LibraryItem, ItemSound(i), HealthTypes,
           i \in mounted' \/ ~Waits(i)' => result'[i] # "unseen",
           overdue'[i] = overdue[i], overdue[i] > 0 => i \in mounted' /\ due'[i] = 0,
           lost'[i] \in Nat, overdue[i] > 0 => lost[i] <= lost'[i],
           overdue[i] > 0 /\ Waits(i)' => Waits(i),
           overdue[i] > 0 /\ Waits(i)' => Used(i, overdue[i]) \subseteq UsedThen(i, overdue[i])
    PROVE  ItemSound(i)'
<1>1. overdue[i] \in Nat /\ lost[i] \in Nat /\ BatchLimit * Day \in Nat /\ Day \in Nat
      /\ Cardinality(LibraryItem) \in Nat
  BY HealthAssumption, LibraryParts DEF HealthTypes
<1>2. CASE overdue[i] = 0
  BY <1>1, <1>2, NotOverdue, SoundThen
<1>3. CASE overdue[i] > 0
  <2>1. overdue'[i] > Day => ~RoomWith(lost'[i])
    BY <1>1, <1>3 DEF ItemSound, RoomWith
  <2>2. Waits(i)' /\ overdue'[i] <= Day => WaitThen(i)
    BY <1>1, <1>3, UsedGrows
  <2> QED
    BY <2>1, <2>2, SoundThen
<1> QED
  BY <1>1, <1>2, <1>3

(* What the end of a sleep does to an item that is not due: nothing.        *)
LEMMA NotDueSound ==
    ASSUME HealthInv, SleepEnds, NEW n \in Nat, Costs(n), NEW i \in LibraryItem,
           batch' \subseteq mounted, ~(i \in mounted /\ due[i] = 0)
    PROVE  ItemSound(i)'
<1>1. /\ ItemSound(i) /\ overdue \in [LibraryItem -> Nat] /\ lost \in [LibraryItem -> Nat]
      /\ mounted' = mounted /\ result' = result /\ checking' = checking
      /\ checking = NoItem /\ batch = {} /\ NoItem \notin LibraryItem
  BY HealthAssumption DEF HealthInv, HealthTypes, SleepEnds, NoItem
<1>2. overdue[i] = 0 /\ overdue'[i] = 0
  BY <1>1 DEF SleepEnds, ItemSound
<1>3. lost'[i] \in Nat
  BY <1>1, <1>2 DEF Costs
<1>4. i \in mounted' \/ ~Waits(i)' => result'[i] # "unseen"
  BY <1>1 DEF ItemSound, Waits
<1>5. Day \in Nat
  BY HealthAssumption
<1> QED
  BY <1>2, <1>3, <1>4, <1>5, NotOverdue, SoundThen

(* The first items of the table that are due and not in a batch.            *)
LEMMA BatchAhead ==
    ASSUME HealthInv, StartCycle, NEW i \in LibraryItem, i \in mounted, due'[i] = 0, i \notin batch'
    PROVE  Cardinality({j \in batch' : j < i}) >= BatchLimit
<1> DEFINE D == {j \in mounted : due'[j] = 0}
<1>1. batch' = {j \in D : Cardinality({l \in D : l < j}) < BatchLimit}
  BY DEF StartCycle, SleepEnds, NeedCheck
<1>2. D \in SUBSET LibraryItem /\ BatchLimit \in Nat \ {0} /\ i \in Nat
  BY HealthAssumption DEF HealthInv, HealthTypes
<1>3. Cardinality({j \in D : j < i}) >= BatchLimit
  <2>1. ~(Cardinality({j \in D : j < i}) < BatchLimit)
    BY <1>1
  <2>2. {j \in D : j < i} \in SUBSET LibraryItem
    BY <1>2
  <2>3. Cardinality({j \in D : j < i}) \in Nat
    BY <2>2, LibraryParts
  <2> HIDE DEF D
  <2> QED
    BY <1>2, <2>1, <2>3
<1>4. {j \in batch' : j < i} = {j \in D : j < i /\ Cardinality({l \in D : l < j}) < BatchLimit}
  BY <1>1
<1> HIDE DEF D
<1> QED
  BY <1>2, <1>3, <1>4, FirstOnes

(* A cycle starts: an item that was due goes into the batch, or as many as  *)
(* a batch holds do that are before it and were not counted yet, or the     *)
(* places of the whole batch are lost.                                      *)
LEMMA CycleSound ==
    ASSUME HealthInv, StartCycle \/ StartCycleUnread
    PROVE  HealthInv'
<1>1. /\ batch = {} /\ checking = NoItem
      /\ due' = [i \in LibraryItem |-> IF due[i] > 0 THEN due[i] - 1 ELSE 0]
      /\ overdue' = [i \in LibraryItem |-> IF i \in mounted /\ due[i] = 0 /\ overdue[i] <= Day
                                    THEN overdue[i] + 1 ELSE overdue[i]]
      /\ mounted' = mounted /\ checking' = checking /\ result' = result
  BY DEF StartCycle, StartCycleUnread, SleepEnds, Bound
<1>2. /\ HealthTypes /\ lost \in [LibraryItem -> Nat]
      /\ due \in [LibraryItem -> Nat] /\ overdue \in [LibraryItem -> Nat]
      /\ mounted \subseteq LibraryItem /\ NoItem = 0
  BY DEF HealthInv, HealthTypes, NoItem
<1>3. BatchLimit \in Nat \ {0} /\ Day \in Nat \ {0} /\ LibraryItem \subseteq Nat \ {0}
  BY HealthAssumption
<1>4. PICK n \in Nat : /\ Costs(n)
                       /\ StartCycle \/ (n = BatchLimit /\ batch' = {})
  BY <1>3 DEF StartCycle, StartCycleUnread
<1>5. batch' \subseteq {j \in mounted : due'[j] = 0}
  BY <1>1, <1>4 DEF StartCycle, NeedCheck
<1>6. /\ \A i \in LibraryItem : lost'[i] = IF overdue'[i] > 0 THEN lost[i] + n ELSE 0
      /\ lost' \in [LibraryItem -> Nat]
  BY <1>1, <1>2, <1>4 DEF Costs
<1>7. HealthTypes'
  <2>1. due' \in [LibraryItem -> Nat] /\ overdue' \in [LibraryItem -> Nat]
    BY <1>1, <1>2
  <2>2. batch' \subseteq LibraryItem
    BY <1>2, <1>5
  <2> QED
    BY <1>1, <1>2, <1>6, <2>1, <2>2 DEF HealthTypes
<1>8. ASSUME NEW i \in LibraryItem, i \in mounted /\ due[i] = 0
      PROVE  ItemSound(i)'
  <2> DEFINE k == overdue[i]
             B == {j \in batch' : j < i}
  <2>1. ItemSound(i) /\ Waits(i) /\ k \in Nat /\ i \in Nat \ {0}
    BY <1>1, <1>2, <1>3 DEF HealthInv, Waits
  <2>2. /\ overdue'[i] = IF k <= Day THEN k + 1 ELSE k
        /\ overdue'[i] > 0 /\ lost'[i] = lost[i] + n /\ lost[i] \in Nat /\ due'[i] = 0
    BY <1>1, <1>2, <1>3, <1>6, <1>8, <2>1
  <2>3. Used(i, k) \in SUBSET LibraryItem /\ i \notin Used(i, k)
    BY <2>1 DEF Used
  <2>4. /\ Cardinality(Used(i, k)) \in Nat /\ Cardinality(LibraryItem) \in Nat
        /\ Cardinality(Used(i, k)) < Cardinality(LibraryItem)
    <3>1. /\ Cardinality(Used(i, k)) \in Nat /\ Cardinality(LibraryItem) \in Nat
          /\ Cardinality(Used(i, k)) <= Cardinality(LibraryItem)
      BY <2>3, LibraryParts
    <3>2. Cardinality(Used(i, k)) # Cardinality(LibraryItem)
      BY <2>3, HealthAssumption, FS_Subset
    <3> QED
      BY <3>1, <3>2
  <2>5. k <= Day => Cardinality(Used(i, k)) + lost[i] >= BatchLimit * k
    BY <2>1 DEF ItemSound
  <2>6. overdue'[i] > Day => ~RoomWith(lost'[i])
    <3>1. CASE k > Day
      <4>1. ~RoomWith(lost[i])
        BY <2>1, <3>1 DEF ItemSound
      <4>2. BatchLimit * Day \in Nat
        BY <1>3
      <4> QED
        BY <2>2, <2>4, <4>1, <4>2 DEF RoomWith
    <3>2. CASE k = Day
      <4>1. Cardinality(Used(i, k)) + lost[i] >= BatchLimit * Day
        BY <1>3, <2>5, <3>2
      <4>2. BatchLimit * Day \in Nat
        BY <1>3
      <4> HIDE DEF k
      <4> QED
        BY <2>2, <2>4, <4>1, <4>2 DEF RoomWith
    <3>3. CASE k < Day
      BY <1>3, <2>1, <2>2, <3>3
    <3> QED
      BY <1>3, <2>1, <3>1, <3>2, <3>3
  <2>7. Waits(i)' /\ overdue'[i] <= Day => WaitThen(i)
    <3>1. SUFFICES ASSUME i \notin batch', k < Day
                   PROVE  Cardinality(UsedThen(i, k + 1)) + (lost[i] + n) >= BatchLimit * (k + 1)
      BY <1>3, <2>1, <2>2 DEF Waits, WaitThen
    <3>2. Cardinality(B) + n >= BatchLimit
      <4>1. CASE StartCycle
        <5>1. Cardinality(B) >= BatchLimit
          BY <1>8, <2>2, <3>1, <4>1, BatchAhead
        <5>2. B \in SUBSET LibraryItem
          BY <1>2, <1>5
        <5>3. Cardinality(B) \in Nat
          BY <5>2, LibraryParts
        <5> HIDE DEF B
        <5> QED
          BY <1>3, <5>1, <5>3
      <4>2. CASE n = BatchLimit /\ batch' = {}
        <5>1. B = {}
          BY <4>2
        <5>2. Cardinality(B) = 0
          BY <5>1, FS_EmptySet
        <5> HIDE DEF B
        <5> QED
          BY <1>3, <4>2, <5>2
      <4> QED
        BY <1>4, <4>1, <4>2
    <3>3. B \subseteq UsedThen(i, k + 1)
      BY <1>2, <1>5 DEF UsedThen
    <3>4. Used(i, k) \subseteq UsedThen(i, k + 1) /\ Used(i, k) \intersect B = {}
      <4>1. ASSUME NEW j \in Used(i, k)
            PROVE  j \in UsedThen(i, k + 1) /\ j \notin B
        <5>1. /\ j \in LibraryItem /\ j < i /\ j \in Nat \ {0} /\ due[j] \in Nat
              /\ due'[j] = IF due[j] > 0 THEN due[j] - 1 ELSE 0
              /\ \/ due[j] + k > Day
                 \/ j \notin mounted /\ result[j] # "unseen"
          BY <1>1, <1>2, <1>3 DEF Used
        <5>2. CASE due[j] + k > Day
          <6>1. due[j] > 1 /\ due'[j] + (k + 1) > Day /\ due'[j] # 0
            BY <1>3, <2>1, <3>1, <5>1, <5>2
          <6> QED
            BY <1>5, <5>1, <6>1 DEF UsedThen
        <5>3. CASE j \notin mounted /\ result[j] # "unseen"
          BY <1>1, <1>5, <5>1, <5>3 DEF UsedThen
        <5> QED
          BY <5>1, <5>2, <5>3
      <4> QED
        BY <4>1
    <3>5. UsedThen(i, k + 1) \in SUBSET LibraryItem /\ B \in SUBSET LibraryItem
      BY <1>2, <1>5 DEF UsedThen
    <3> HIDE DEF B
    <3>6. Cardinality(Used(i, k)) + Cardinality(B) <= Cardinality(UsedThen(i, k + 1))
      BY <3>3, <3>4, <3>5, PartsAdd
    <3>7. Cardinality(B) \in Nat /\ Cardinality(UsedThen(i, k + 1)) \in Nat
      BY <3>5, LibraryParts
    <3>8. BatchLimit * (k + 1) = BatchLimit * k + BatchLimit /\ BatchLimit * k \in Nat
      BY <1>3, <2>1
    <3>9. Cardinality(Used(i, k)) + lost[i] >= BatchLimit * k
      BY <1>3, <2>1, <2>5, <3>1
    <3> HIDE DEF k
    <3> QED
      BY <1>3, <2>2, <2>4, <3>2, <3>6, <3>7, <3>8, <3>9
  <2>8. result'[i] # "unseen"
    BY <1>1, <1>8, <2>1 DEF ItemSound
  <2> QED
    BY <1>1, <1>8, <2>2, <2>6, <2>7, <2>8, SoundThen
<1>9. ASSUME NEW i \in LibraryItem
      PROVE  ItemSound(i)'
  <2>1. SleepEnds
    BY DEF StartCycle, StartCycleUnread
  <2>2. batch' \subseteq mounted
    BY <1>5
  <2> QED
    BY <1>4, <1>8, <2>1, <2>2, NotDueSound
<1> QED
  BY <1>7, <1>9 DEF HealthInv

(* The first of the batch is at hand: it still counts as in the batch.      *)
LEMMA CheckItemSound ==
    ASSUME HealthInv, CheckItem
    PROVE  HealthInv'
<1>1. HealthTypes /\ batch # {} /\ checking = NoItem
      /\ checking' = Lowest(batch) /\ batch' = batch \ {Lowest(batch)}
      /\ UNCHANGED <<mounted, due, result, overdue, lost>>
  BY DEF HealthInv, CheckItem
<1>2. /\ batch \in SUBSET Nat /\ NoItem \notin LibraryItem /\ batch \subseteq LibraryItem
      /\ overdue \in [LibraryItem -> Nat] /\ lost \in [LibraryItem -> Nat]
  BY <1>1, HealthAssumption DEF HealthTypes, NoItem
<1>3. Lowest(batch) \in batch
  <2>1. \E i \in batch : \A j \in batch : i <= j
    BY <1>1, <1>2, LeastOf
  <2> QED
    BY <2>1 DEF Lowest
<1>4. HealthTypes'
  BY <1>1, <1>2, <1>3 DEF HealthTypes
<1>5. ASSUME NEW i \in LibraryItem
      PROVE  ItemSound(i)'
  <2>1. ItemSound(i) /\ lost[i] <= lost'[i] /\ lost'[i] \in Nat
    BY <1>1, <1>2 DEF HealthInv
  <2>2. Used(i, overdue[i]) \subseteq UsedThen(i, overdue[i])
    BY <1>1, <1>2, <1>3 DEF Used, UsedThen
  <2>3. Waits(i)' <=> Waits(i)
    BY <1>1, <1>2, <1>3 DEF Waits
  <2>4. /\ i \in mounted' \/ ~Waits(i)' => result'[i] # "unseen"
        /\ overdue[i] > 0 => i \in mounted' /\ due'[i] = 0
    BY <1>1, <2>1, <2>3 DEF ItemSound
  <2> QED
    BY <1>1, <2>1, <2>2, <2>3, <2>4, StillSound
<1> QED
  BY <1>4, <1>5 DEF HealthInv

(* The item at hand was checked, and waits anew.                            *)
LEMMA CheckedSound ==
    ASSUME HealthInv, NEW i \in LibraryItem, checking = i, overdue'[i] = 0, lost'[i] = 0,
           mounted' = mounted, result'[i] \in {result[i], "Healthy", "Unhealthy"}
    PROVE  ItemSound(i)' /\ result'[i] # "unseen"
<1>1. result'[i] # "unseen"
  BY DEF HealthInv, ItemSound, Waits
<1>2. Day \in Nat
  BY HealthAssumption
<1> QED
  BY <1>1, <1>2, NotOverdue, SoundThen

(* A recorded item is dated a day ahead or two, or was deleted meanwhile.   *)
LEMMA RecordSound ==
    ASSUME HealthInv, NEW i \in LibraryItem, NEW outcome, Record(i, outcome)
    PROVE  HealthInv'
<1>1. /\ HealthTypes /\ checking = i
      /\ due' = IF i \in mounted THEN [due EXCEPT ![i] = Backoff(outcome)] ELSE due
      /\ overdue' = [overdue EXCEPT ![i] = 0] /\ Costs(0)
      /\ \/ result' = result
         \/ result' = [result EXCEPT ![i] = IF outcome = "Healthy" THEN "Healthy" ELSE "Unhealthy"]
      /\ checking' = NoItem
      /\ mounted' = mounted /\ batch' = batch
  BY DEF HealthInv, Record
<1>2. /\ Day \in Nat \ {0} /\ NoItem \notin LibraryItem /\ 0 \notin LibraryItem
      /\ due \in [LibraryItem -> Nat] /\ overdue \in [LibraryItem -> Nat]
      /\ lost \in [LibraryItem -> Nat] /\ DOMAIN result = LibraryItem
  BY <1>1, HealthAssumption DEF HealthTypes, NoItem
<1>3. Backoff(outcome) \in Nat /\ Backoff(outcome) >= Day
  BY <1>2 DEF Backoff
<1>4. /\ due' \in [LibraryItem -> Nat] /\ overdue' \in [LibraryItem -> Nat]
      /\ overdue'[i] = 0
      /\ i \in mounted => due'[i] >= Day
      /\ \A j \in LibraryItem \ {i} :
             due'[j] = due[j] /\ overdue'[j] = overdue[j] /\ result'[j] = result[j]
  BY <1>1, <1>2, <1>3
<1>5. /\ lost' \in [LibraryItem -> Nat] /\ lost'[i] = 0
      /\ \A j \in LibraryItem : overdue'[j] > 0 => lost'[j] = lost[j]
  BY <1>1, <1>2, <1>4 DEF Costs
<1>6. result'[i] \in {result[i], "Healthy", "Unhealthy"} /\ DOMAIN result' = LibraryItem
  BY <1>1, <1>2
<1>7. HealthTypes'
  BY <1>1, <1>4, <1>5, <1>6 DEF HealthTypes
<1>8. ItemSound(i)' /\ result'[i] # "unseen"
  BY <1>1, <1>4, <1>5, <1>6, CheckedSound
<1>9. ASSUME NEW j \in LibraryItem \ {i}
      PROVE  ItemSound(j)'
  <2>1. /\ ItemSound(j) /\ overdue'[j] = overdue[j] /\ overdue[j] \in Nat
        /\ due'[j] = due[j] /\ result'[j] = result[j]
    BY <1>2, <1>4 DEF HealthInv
  <2>2. ASSUME overdue[j] > 0
        PROVE  Used(j, overdue[j]) \subseteq UsedThen(j, overdue[j])
    <3>1. ASSUME NEW l \in Used(j, overdue[j])
          PROVE  l \in UsedThen(j, overdue[j])
      <4>1. l \in LibraryItem /\ l < j
        BY DEF Used
      <4>2. CASE l = i /\ i \in mounted
        <5>1. due'[l] \in Nat /\ due'[l] + overdue[j] > Day
          BY <1>2, <1>4, <2>1, <2>2, <4>2
        <5> QED
          BY <4>1, <5>1 DEF UsedThen
      <4>3. CASE l = i /\ i \notin mounted
        BY <1>1, <1>8, <4>1, <4>3 DEF UsedThen
      <4>4. CASE l # i
        BY <1>1, <1>4, <4>1, <4>4 DEF Used, UsedThen
      <4> QED
        BY <4>2, <4>3, <4>4
    <3> QED
      BY <3>1
  <2>3. Waits(j)' <=> Waits(j)
    BY <1>1, <1>2 DEF Waits
  <2>4. /\ j \in mounted' \/ ~Waits(j)' => result'[j] # "unseen"
        /\ overdue[j] > 0 => j \in mounted' /\ due'[j] = 0
    BY <1>1, <2>1, <2>3 DEF ItemSound
  <2>5. lost'[j] \in Nat /\ (overdue[j] > 0 => lost[j] <= lost'[j])
    BY <1>2, <1>5, <2>1
  <2> QED
    BY <1>1, <1>2, <1>5, <2>1, <2>2, <2>3, <2>4, <2>5, StillSound
<1> QED
  BY <1>7, <1>8, <1>9 DEF HealthInv

(* Without its date the item takes a place of the others for nothing, which *)
(* they lose.                                                               *)
LEMMA RecordUndatedSound ==
    ASSUME HealthInv, NEW i \in LibraryItem, NEW outcome, RecordUndated(i, outcome)
    PROVE  HealthInv'
<1>1. /\ HealthTypes /\ checking = i
      /\ overdue' = [overdue EXCEPT ![i] = 0] /\ Costs(1)
      /\ \/ result' = result
         \/ result' = [result EXCEPT ![i] = IF outcome = "Healthy" THEN "Healthy" ELSE "Unhealthy"]
      /\ checking' = NoItem
      /\ mounted' = mounted /\ due' = due /\ batch' = batch
  BY DEF HealthInv, RecordUndated
<1>2. /\ Day \in Nat \ {0} /\ NoItem \notin LibraryItem /\ BatchLimit \in Nat \ {0}
      /\ due \in [LibraryItem -> Nat] /\ overdue \in [LibraryItem -> Nat]
      /\ lost \in [LibraryItem -> Nat] /\ DOMAIN result = LibraryItem
  BY <1>1, HealthAssumption DEF HealthTypes, NoItem
<1>3. /\ overdue' \in [LibraryItem -> Nat] /\ overdue'[i] = 0
      /\ \A j \in LibraryItem \ {i} : overdue'[j] = overdue[j] /\ result'[j] = result[j]
  BY <1>1, <1>2
<1>4. /\ lost' \in [LibraryItem -> Nat] /\ lost'[i] = 0
      /\ \A j \in LibraryItem : overdue'[j] > 0 => lost'[j] = lost[j] + 1
  BY <1>1, <1>2, <1>3 DEF Costs
<1>5. result'[i] \in {result[i], "Healthy", "Unhealthy"} /\ DOMAIN result' = LibraryItem
  BY <1>1, <1>2
<1>6. HealthTypes'
  BY <1>1, <1>3, <1>4, <1>5 DEF HealthTypes
<1>7. ItemSound(i)' /\ result'[i] # "unseen"
  BY <1>1, <1>3, <1>4, <1>5, CheckedSound
<1>8. ASSUME NEW j \in LibraryItem \ {i}
      PROVE  ItemSound(j)'
  <2> DEFINE k == overdue[j]
  <2>1. ItemSound(j) /\ overdue'[j] = k /\ k \in Nat /\ result'[j] = result[j]
    BY <1>2, <1>3 DEF HealthInv
  <2>2. Waits(j)' <=> Waits(j)
    BY <1>1, <1>2 DEF Waits
  <2>3. /\ j \in mounted' \/ ~Waits(j)' => result'[j] # "unseen"
        /\ k > 0 => j \in mounted' /\ due'[j] = 0
    BY <1>1, <2>1, <2>2 DEF ItemSound
  <2>4. CASE k = 0
    BY <1>2, <1>4, <2>1, <2>3, <2>4, NotOverdue, SoundThen
  <2>5. CASE k > 0
    <3>1. lost'[j] = lost[j] + 1 /\ lost[j] \in Nat
      BY <1>2, <1>4, <2>1, <2>5
    <3>2. overdue'[j] > Day => ~RoomWith(lost'[j])
      <4>1. BatchLimit * Day \in Nat /\ Cardinality(LibraryItem) \in Nat
        BY <1>2, LibraryParts
      <4> QED
        BY <2>1, <3>1, <4>1 DEF ItemSound, RoomWith
    <3>3. ASSUME Waits(j), k <= Day
          PROVE  WaitThen(j)
      <4>1. Used(j, k) \subseteq UsedThen(j, k) \union {i}
        BY <1>1, <1>3, <1>7 DEF Used, UsedThen
      <4>2. Used(j, k) \in SUBSET LibraryItem /\ UsedThen(j, k) \in SUBSET LibraryItem
        BY DEF Used, UsedThen
      <4>3. Cardinality(Used(j, k)) <= Cardinality(UsedThen(j, k)) + 1
        <5>1. UsedThen(j, k) \union {i} \in SUBSET LibraryItem
          BY <4>2
        <5>2. Cardinality(Used(j, k)) <= Cardinality(UsedThen(j, k) \union {i})
          BY <4>1, <5>1, LibraryParts, FS_Subset
        <5>3. IsFiniteSet(UsedThen(j, k)) /\ Cardinality(UsedThen(j, k)) \in Nat
          BY <4>2, LibraryParts
        <5>4. Cardinality(UsedThen(j, k) \union {i}) <= Cardinality(UsedThen(j, k)) + 1
          <6> DEFINE U == UsedThen(j, k)
          <6> HIDE DEF U, k
          <6>1. Cardinality(U \union {i}) = IF i \in U THEN Cardinality(U) ELSE Cardinality(U) + 1
            BY <5>3, FS_AddElement DEF U
          <6>2. Cardinality(U) \in Nat
            BY <5>3 DEF U
          <6>3. Cardinality(U \union {i}) <= Cardinality(U) + 1
            BY <6>1, <6>2
          <6> QED
            BY <6>3 DEF U
        <5>5. Cardinality(UsedThen(j, k) \union {i}) \in Nat /\ Cardinality(Used(j, k)) \in Nat
          BY <4>2, <5>1, LibraryParts
        <5> QED
          BY <5>2, <5>3, <5>4, <5>5
      <4>4. Cardinality(Used(j, k)) + lost[j] >= BatchLimit * k
        BY <2>1, <3>3 DEF ItemSound
      <4>5. /\ Cardinality(UsedThen(j, k)) \in Nat /\ Cardinality(Used(j, k)) \in Nat
            /\ BatchLimit * k \in Nat
        BY <1>2, <2>1, <4>2, LibraryParts
      <4>6. Cardinality(UsedThen(j, k)) + lost'[j] >= BatchLimit * k
        <5> HIDE DEF k
        <5> QED
          BY <3>1, <4>3, <4>4, <4>5
      <4> QED
        BY <2>1, <4>6 DEF WaitThen
    <3> QED
      BY <2>1, <2>2, <2>3, <3>2, <3>3, SoundThen
  <2> QED
    BY <2>1, <2>4, <2>5
<1> QED
  BY <1>6, <1>7, <1>8 DEF HealthInv

(* An import comes after every item there has been: nobody who waits is     *)
(* behind it.                                                               *)
LEMMA MountsSound ==
    ASSUME HealthInv, NEW i \in LibraryItem, Mounts(i)
    PROVE  HealthInv'
<1>1. /\ HealthTypes /\ \A j \in LibraryItem : j >= i => result[j] = "unseen"
      /\ mounted' = mounted \union {i}
      /\ result' = [result EXCEPT ![i] = "unchecked"]
      /\ UNCHANGED <<due, batch, checking, overdue, lost>>
  BY DEF HealthInv, Mounts
<1>2. /\ mounted \subseteq LibraryItem /\ overdue \in [LibraryItem -> Nat] /\ lost \in [LibraryItem -> Nat]
      /\ DOMAIN result = LibraryItem /\ LibraryItem \subseteq Nat \ {0} /\ Day \in Nat
  BY <1>1, HealthAssumption DEF HealthTypes
<1>3. /\ result'[i] # "unseen"
      /\ \A j \in LibraryItem \ {i} : result'[j] = result[j]
  BY <1>1, <1>2
<1>4. HealthTypes'
  BY <1>1, <1>2 DEF HealthTypes
<1>5. ASSUME NEW j \in LibraryItem
      PROVE  ItemSound(j)'
  <2>1. ItemSound(j) /\ overdue[j] \in Nat /\ lost'[j] = lost[j] /\ lost[j] \in Nat
    BY <1>1, <1>2 DEF HealthInv
  <2>2. Waits(j)' <=> Waits(j)
    BY <1>1 DEF Waits
  <2>3. /\ j \in mounted' \/ ~Waits(j)' => result'[j] # "unseen"
        /\ overdue[j] > 0 => j \in mounted' /\ due'[j] = 0
    BY <1>1, <1>3, <2>1, <2>2 DEF ItemSound
  <2>4. ASSUME overdue[j] > 0
        PROVE  Used(j, overdue[j]) \subseteq UsedThen(j, overdue[j])
    <3>1. result[j] # "unseen"
      BY <2>1, <2>4 DEF ItemSound
    <3>2. j < i
      <4>1. ~(j >= i) /\ i \in Nat /\ j \in Nat
        BY <1>1, <1>2, <3>1
      <4> QED
        BY <4>1
    <3>3. ASSUME NEW l \in Used(j, overdue[j])
          PROVE  l \in UsedThen(j, overdue[j])
      <4>1. l \in LibraryItem /\ l < j /\ l # i
        BY <1>2, <3>2 DEF Used
      <4> QED
        BY <1>1, <1>3, <4>1 DEF Used, UsedThen
    <3> QED
      BY <3>3
  <2> QED
    BY <1>1, <2>1, <2>2, <2>3, <2>4, StillSound
<1> QED
  BY <1>4, <1>5 DEF HealthInv

(* A deleted item waits no more, and takes no place again.                  *)
LEMMA UnmountsSound ==
    ASSUME HealthInv, NEW i \in LibraryItem, Unmounts(i)
    PROVE  HealthInv'
<1>1. /\ HealthTypes /\ i \in mounted /\ ItemSound(i)
      /\ mounted' = mounted \ {i}
      /\ overdue' = [overdue EXCEPT ![i] = 0] /\ Costs(0)
      /\ UNCHANGED <<due, batch, checking, result>>
  BY DEF HealthInv, Unmounts
<1>2. /\ overdue \in [LibraryItem -> Nat] /\ lost \in [LibraryItem -> Nat]
      /\ mounted \subseteq LibraryItem /\ Day \in Nat
  BY <1>1, HealthAssumption DEF HealthTypes
<1>3. /\ overdue' \in [LibraryItem -> Nat] /\ overdue'[i] = 0
      /\ \A j \in LibraryItem \ {i} : overdue'[j] = overdue[j]
  BY <1>1, <1>2
<1>4. /\ lost' \in [LibraryItem -> Nat]
      /\ \A j \in LibraryItem : overdue'[j] > 0 => lost'[j] = lost[j]
  BY <1>1, <1>2, <1>3 DEF Costs
<1>5. HealthTypes'
  BY <1>1, <1>3, <1>4 DEF HealthTypes
<1>6. ItemSound(i)'
  <2>1. result'[i] # "unseen"
    BY <1>1 DEF ItemSound
  <2> QED
    BY <1>1, <1>2, <1>3, <1>4, <2>1, NotOverdue, SoundThen
<1>7. ASSUME NEW j \in LibraryItem \ {i}
      PROVE  ItemSound(j)'
  <2>1. ItemSound(j) /\ overdue'[j] = overdue[j] /\ overdue[j] \in Nat
    BY <1>2, <1>3 DEF HealthInv
  <2>2. Used(j, overdue[j]) \subseteq UsedThen(j, overdue[j])
    BY <1>1 DEF Used, UsedThen, ItemSound
  <2>3. Waits(j)' <=> Waits(j)
    BY <1>1 DEF Waits
  <2>4. /\ j \in mounted' \/ ~Waits(j)' => result'[j] # "unseen"
        /\ overdue[j] > 0 => j \in mounted' /\ due'[j] = 0
    BY <1>1, <2>1, <2>3 DEF ItemSound
  <2>5. lost'[j] \in Nat /\ (overdue[j] > 0 => lost[j] <= lost'[j])
    BY <1>2, <1>4, <2>1
  <2> QED
    BY <1>1, <1>2, <1>4, <2>1, <2>2, <2>3, <2>4, <2>5, StillSound
<1> QED
  BY <1>5, <1>6, <1>7 DEF HealthInv

(* The inductive invariant of the health check: k cycles of waiting are k   *)
(* batches of other items, or of lost places.                               *)
THEOREM HealthInvariant == HealthSpec => []HealthInv
<1>1. ASSUME HealthInit
      PROVE  HealthInv
  <2>1. /\ mounted = {} /\ batch = {} /\ checking = NoItem
        /\ due = [i \in LibraryItem |-> 0] /\ overdue = [i \in LibraryItem |-> 0]
        /\ lost = [i \in LibraryItem |-> 0]
        /\ result = [i \in LibraryItem |-> "unseen"]
    BY <1>1 DEF HealthInit
  <2>2. HealthTypes
    BY <2>1 DEF HealthTypes
  <2>3. ASSUME NEW i \in LibraryItem
        PROVE  ItemSound(i)
    <3>1. /\ overdue[i] = 0 /\ lost[i] = 0 /\ i \notin mounted /\ Waits(i)
          /\ BatchLimit * 0 = 0 /\ Day \in Nat
      BY <2>1, HealthAssumption DEF Waits, NoItem
    <3>2. Cardinality(Used(i, overdue[i])) \in Nat
      <4>1. Used(i, overdue[i]) \in SUBSET LibraryItem
        BY DEF Used
      <4> QED
        BY <4>1, LibraryParts
    <3> QED
      BY <3>1, <3>2 DEF ItemSound
  <2> QED
    BY <2>2, <2>3 DEF HealthInv
<1>2. ASSUME HealthInv, [HealthNext]_healthVars
      PROVE  HealthInv'
  <2>1. CASE StartCycle \/ StartCycleUnread
    BY <1>2, <2>1, CycleSound
  <2>2. CASE CheckItem
    BY <1>2, <2>2, CheckItemSound
  <2>3. CASE \E i \in LibraryItem :
               \/ Mounts(i) \/ Unmounts(i)
               \/ \E o \in Outcomes(i) : Record(i, o) \/ RecordUndated(i, o)
    BY <1>2, <2>3, MountsSound, UnmountsSound, RecordSound, RecordUndatedSound
  <2>4. CASE UNCHANGED healthVars
    <3>1. UNCHANGED <<mounted, due, batch, checking, result, overdue, lost>>
      BY <2>4 DEF healthVars
    <3>2. \A i \in LibraryItem : ItemSound(i)'
      BY <1>2, <3>1 DEF HealthInv, ItemSound, Used, Waits, RoomWith
    <3> QED
      BY <1>2, <3>1, <3>2 DEF HealthInv, HealthTypes
  <2> QED
    BY <1>2, <2>1, <2>2, <2>3, <2>4 DEF HealthNext
<1> QED
  BY <1>1, <1>2, PTL DEF HealthSpec

(* However many items there are and whatever their checks come to, an item  *)
(* is checked within a day of being due, where a day's batches have room    *)
(* for the library and for the places lost to failed statements meanwhile:  *)
(* the batches are the first due rows of the table, but a row before it     *)
(* cannot take a second place within the day unless its date was not        *)
(* written.                                                                 *)
THEOREM ItemsAreChecked == HealthSpec => []NoItemStarves
<1>1. HealthInv => NoItemStarves
  <2> SUFFICES ASSUME HealthInv, NEW i \in LibraryItem,
                      Cardinality(LibraryItem) + lost[i] <= BatchLimit * Day
               PROVE  overdue[i] <= Bound
    BY DEF NoItemStarves
  <2>1. ~(overdue[i] > Day) /\ overdue[i] \in Nat /\ Day \in Nat
    BY HealthAssumption DEF HealthInv, HealthTypes, ItemSound, RoomWith
  <2> QED
    BY <2>1 DEF Bound
<1> QED
  BY <1>1, HealthInvariant, PTL

-----------------------------------------------------------------------------
(* The server list.                                                         *)

(* A server as the table holds it.                                          *)
ServerRow == [id : {e.id : e \in ServerEntry}, priority : Nat, enabled : BOOLEAN, connections : Nat]

(* The pools of a list are its enabled servers, best priority first.        *)
LEMMA PoolsAreTheList ==
    ASSUME NEW list \in Seq(ServerRow)
    PROVE  /\ \A k \in DOMAIN PoolsOf(list) : PoolsOf(list)[k].enabled
           /\ \A j, k \in DOMAIN PoolsOf(list) :
                j < k => PoolsOf(list)[j].priority <= PoolsOf(list)[k].priority
           /\ \A e : Cardinality({k \in DOMAIN PoolsOf(list) : PoolsOf(list)[k] = e}) =
                IF e.enabled THEN Cardinality({k \in DOMAIN list : list[k] = e}) ELSE 0
<1> DEFINE K == {k \in DOMAIN list : list[k].enabled}
           R == Stably(K, [k \in K |-> list[k].priority])
<1>1. DOMAIN list = 1..Len(list) /\ Len(list) \in Nat /\ \A k \in DOMAIN list : list[k] \in ServerRow
  OBVIOUS
<1>2. \A k \in K : list[k].priority \in Nat /\ k \in Nat
  BY <1>1 DEF ServerRow
<1>3. \A j, k \in K :
        <<j, k>> \in R <=> \/ list[j].priority < list[k].priority
                           \/ list[j].priority = list[k].priority /\ j < k
  BY DEF Stably
<1>4. K \in SUBSET DOMAIN list
  OBVIOUS
<1>5. PoolsOf(list) = Arranged(list, K, R)
  BY DEF PoolsOf
<1> HIDE DEF K, R
<1>6. Orders(R, K)
  BY <1>2, <1>3 DEF Orders
<1>7. IsArrangement(PoolsOf(list), list, K, R)
  <2>1. IsArrangement(Arranged(list, K, R), list, K, R)
    BY <1>4, <1>6, ArrangedHolds
  <2> QED
    BY <1>5, <2>1
<1>8. \A k \in DOMAIN PoolsOf(list) : PoolsOf(list)[k].enabled
  BY <1>7 DEF K, IsArrangement
<1>9. ASSUME NEW j \in DOMAIN PoolsOf(list), NEW k \in DOMAIN PoolsOf(list), j < k
      PROVE  PoolsOf(list)[j].priority <= PoolsOf(list)[k].priority
  <2>1. /\ PositionAt(j, K, R) \in K /\ PositionAt(k, K, R) \in K
        /\ <<PositionAt(j, K, R), PositionAt(k, K, R)>> \in R
    BY <1>7, <1>9 DEF IsArrangement
  <2>2. list[PositionAt(j, K, R)].priority <= list[PositionAt(k, K, R)].priority
    BY <2>1, <1>2, <1>3
  <2> QED
    BY <2>2, <1>7 DEF IsArrangement
<1>10. ASSUME NEW e
       PROVE  Cardinality({k \in DOMAIN PoolsOf(list) : PoolsOf(list)[k] = e}) =
                IF e.enabled THEN Cardinality({k \in DOMAIN list : list[k] = e}) ELSE 0
  <2> DEFINE InPools == {k \in DOMAIN PoolsOf(list) : PoolsOf(list)[k] = e}
             InK == {k \in K : list[k] = e}
             InList == {k \in DOMAIN list : list[k] = e}
  <2>1. Cardinality(InPools) = Cardinality(InK)
    BY <1>7 DEF IsArrangement
  <2>2. CASE e.enabled
    <3>1. InK = InList
      BY <2>2 DEF K
    <3> QED
      BY <2>2, <2>1, <3>1
  <2>3. CASE ~e.enabled
    <3>1. InK = {}
      BY <2>3 DEF K
    <3> QED
      BY <2>3, <2>1, <3>1, FS_EmptySet
  <2>4. Cardinality(InPools) = IF e.enabled THEN Cardinality(InList) ELSE 0
    BY <2>2, <2>3
  <2> QED
    BY <2>4
<1> QED
  BY <1>8, <1>9, <1>10

(* Deleting a server leaves a list of servers.                              *)
LEMMA DeletedList ==
    ASSUME NEW list \in Seq(ServerRow), NEW id
    PROVE  WithoutId(list, id) \in Seq(ServerRow)
<1> DEFINE K == {k \in DOMAIN list : list[k].id # id}
<1>1. K \in SUBSET DOMAIN list
  OBVIOUS
<1>2. Selected(list, K) \in Seq(ServerRow)
  BY <1>1, SelectedIs
<1> QED
  BY <1>2 DEF WithoutId

(* So does overwriting one.                                                 *)
LEMMA UpdatedList ==
    ASSUME NEW list \in Seq(ServerRow), NEW e \in ServerEntry, NEW o \in ServerEntry,
           o.id \in EntryIds(list)
    PROVE  Updated(list, o.id, e) \in Seq(ServerRow)
<1> DEFINE row == [e EXCEPT !.id = o.id]
<1>1. e \in [id : {e.id}, priority : Nat, enabled : BOOLEAN, connections : Nat]
  BY SettingsAssumption
<1>2. row \in ServerRow
  BY <1>1 DEF ServerRow
<1> HIDE DEF row
<1>3. \A k : [list EXCEPT ![k] = row] \in Seq(ServerRow)
  <2>1. DOMAIN list = 1..Len(list) /\ Len(list) \in Nat
    OBVIOUS
  <2>2. ASSUME NEW k
        PROVE  [list EXCEPT ![k] = row] \in [1..Len(list) -> ServerRow]
    <3>1. list \in [1..Len(list) -> ServerRow]
      BY <2>1
    <3> QED
      BY <3>1, <1>2
  <2> QED
    BY <2>1, <2>2
<1> QED
  BY <1>3 DEF Updated, row

(* And adding one.                                                          *)
LEMMA AddedList ==
    ASSUME NEW list \in Seq(ServerRow), NEW e \in ServerEntry
    PROVE  Append(list, e) \in Seq(ServerRow)
<1>1. e \in [id : {e.id}, priority : Nat, enabled : BOOLEAN, connections : Nat]
  BY SettingsAssumption
<1>2. e \in ServerRow
  BY <1>1 DEF ServerRow
<1> QED
  BY <1>2

-----------------------------------------------------------------------------
(* The settings: what the requests may rely on.                             *)

(* A state of the config table.                                             *)
IsDatabase(d) == d = [servers |-> d.servers, other |-> d.other] /\ d.servers \in Seq(ServerRow)

(* Where the request of a client is.                                        *)
Step(c) == request[c].step

(* From VACUUM INTO on the file is the backup's own.                        *)
BackupSound(c) ==
    /\ Step(c) = "vacuum" =>
        /\ request[c] = [step |-> "vacuum", copy |-> request[c].copy]
        /\ IsDatabase(request[c].copy)
    /\ Step(c) = "read" =>
        /\ request[c] = [step |-> "read", copy |-> request[c].copy]
        /\ IsDatabase(request[c].copy) /\ tempFile = request[c].copy
    /\ Step(c) = "remove" =>
        /\ request[c] = [step |-> "remove", copy |-> request[c].copy, data |-> request[c].copy]
        /\ IsDatabase(request[c].copy) /\ tempFile = request[c].copy

(* A change whose save did not cross another holds the list of the table.   *)
ListSound(c) ==
    /\ Step(c) \in {"save", "replace"} =>
        /\ request[c] = [step |-> Step(c), servers |-> request[c].servers]
        /\ request[c].servers \in Seq(ServerRow)
    /\ Step(c) = "replace" /\ ~disturbed => request[c].servers = stored.servers
    /\ ~started => request[c] = NoRequest

(* One client at a time has the file, and one a rebuild.                    *)
Alone(c, d) ==
    /\ Step(c) \in {"read", "remove"} => Step(d) \notin {"read", "remove"}
    /\ Step(c) = "replace" /\ Step(d) = "replace" => disturbed

(* All requests.                                                            *)
Requests ==
    /\ DOMAIN request = Requester
    /\ \A c \in Requester : BackupSound(c) /\ ListSound(c)
    /\ \A c, d \in Requester : c # d => Alone(c, d)

(* Without a pending rebuild the pools are those of the list.               *)
PoolsSound ==
    /\ ~started => pools = <<>>
    /\ started /\ ~disturbed /\ (\A c \in Requester : Step(c) # "replace") =>
        \/ pools = PoolsOf(stored.servers)
        \/ stored.servers = <<>> /\ pools = <<>>

(* The table, its cache, the requests and the pools.                        *)
SettingsInv ==
    /\ IsDatabase(stored) /\ cached = stored
    /\ disturbed \in BOOLEAN /\ started \in BOOLEAN
    /\ Requests /\ PoolsSound

(* A state of the table is not the lack of a file.                          *)
LEMMA DatabaseIsAFile ==
    ASSUME NEW d, IsDatabase(d)
    PROVE  d # NoFile
<1>1. DOMAIN d = {"servers", "other"}
  BY DEF IsDatabase
<1>2. DOMAIN NoFile = {"present"}
  BY DEF NoFile
<1> QED
  BY <1>1, <1>2

(* A new list is one of servers.                                            *)
LEMMA LoadAndChangeSound ==
    ASSUME SettingsInv, NEW c \in Requester, NEW list \in Seq(ServerRow), LoadAndChange(c, list)
    PROVE  SettingsInv'
<1>1. /\ started /\ request[c] = NoRequest
      /\ request' = [request EXCEPT ![c] = [step |-> "save", servers |-> list]]
      /\ UNCHANGED <<stored, cached, pools, started, tempFile, disturbed>>
      /\ DOMAIN request = Requester
  BY DEF LoadAndChange, SettingsInv, Requests
<1>2. /\ DOMAIN request' = Requester
      /\ request'[c] = [step |-> "save", servers |-> list]
      /\ \A d \in Requester \ {c} : request'[d] = request[d]
  BY <1>1
<1>3. Step(c)' = "save" /\ \A d \in Requester \ {c} : Step(d)' = Step(d)
  BY <1>2 DEF Step
<1>4. BackupSound(c)' /\ ListSound(c)'
  BY <1>1, <1>2, <1>3 DEF BackupSound, ListSound
<1>5. \A d \in Requester \ {c} : BackupSound(d)' /\ ListSound(d)'
  BY <1>1, <1>2, <1>3 DEF SettingsInv, Requests, BackupSound, ListSound
<1>6. \A d, e \in Requester : d # e => Alone(d, e)'
  BY <1>1, <1>3 DEF SettingsInv, Requests, Alone
<1>7. Requests'
  BY <1>2, <1>4, <1>5, <1>6 DEF Requests
<1>8. PoolsSound'
  <2>1. Step(c) = "idle"
    BY <1>1 DEF Step, NoRequest
  <2> QED
    BY <1>1, <1>3, <2>1 DEF SettingsInv, PoolsSound
<1> QED
  BY <1>1, <1>7, <1>8 DEF SettingsInv

(* The save, done or failed.                                                *)
LEMMA SaveSound ==
    ASSUME SettingsInv, NEW c \in Requester, SaveServers(c) \/ SaveServersFails(c)
    PROVE  SettingsInv'
<1>1. /\ Step(c) = "save" /\ DOMAIN request = Requester
      /\ request' = [request EXCEPT ![c].step = "replace"]
      /\ UNCHANGED <<pools, started, tempFile>>
  BY DEF SaveServers, SaveServersFails, SettingsInv, Requests, Step
<1>2. ListSound(c) /\ IsDatabase(stored) /\ cached = stored
  BY DEF SettingsInv, Requests
<1>3. request[c] = [step |-> "save", servers |-> request[c].servers] /\ request[c].servers \in Seq(ServerRow)
  BY <1>1, <1>2 DEF ListSound
<1>4. /\ DOMAIN request' = Requester
      /\ request'[c] = [step |-> "replace", servers |-> request[c].servers]
      /\ \A d \in Requester \ {c} : request'[d] = request[d]
  BY <1>1, <1>3
<1>5. Step(c)' = "replace" /\ \A d \in Requester \ {c} : Step(d)' = Step(d)
  BY <1>4 DEF Step
<1>6. /\ IsDatabase(stored)' /\ cached' = stored'
      /\ disturbed' \in BOOLEAN
      /\ ~disturbed' => stored'.servers = request[c].servers
      /\ ~disturbed' => \A d \in Requester : Step(d) # "replace"
  <2>1. CASE SaveServers(c)
    <3>1. stored' = [servers |-> request[c].servers, other |-> stored.other]
      BY <1>2, <2>1 DEF SaveServers, IsDatabase
    <3>2. cached' = stored' /\ disturbed' = (Under("replace") # {})
      BY <1>2, <2>1 DEF SaveServers
    <3> QED
      BY <1>3, <3>1, <3>2 DEF IsDatabase, Under, Step
  <2>2. CASE SaveServersFails(c)
    BY <1>2, <2>2 DEF SaveServersFails, IsDatabase
  <2> QED
    BY <2>1, <2>2
<1>7. started
  BY <1>1, <1>2 DEF ListSound, NoRequest, Step, SettingsInv
<1>8. BackupSound(c)' /\ ListSound(c)'
  BY <1>1, <1>3, <1>4, <1>5, <1>6, <1>7 DEF BackupSound, ListSound
<1>9. \A d \in Requester \ {c} : BackupSound(d)' /\ ListSound(d)'
  BY <1>1, <1>4, <1>5, <1>6, <1>7 DEF SettingsInv, Requests, BackupSound, ListSound
<1>10. \A d, e \in Requester : d # e => Alone(d, e)'
  BY <1>1, <1>5, <1>6 DEF SettingsInv, Requests, Alone
<1>11. Requests'
  BY <1>4, <1>8, <1>9, <1>10 DEF Requests
<1>12. PoolsSound'
  BY <1>1, <1>5, <1>7 DEF PoolsSound
<1> QED
  BY <1>1, <1>6, <1>7, <1>11, <1>12 DEF SettingsInv

(* The pools of the list that was saved.                                    *)
LEMMA ReplacePoolsSound ==
    ASSUME SettingsInv, NEW c \in Requester, ReplacePools(c)
    PROVE  SettingsInv'
<1>1. /\ Step(c) = "replace" /\ DOMAIN request = Requester
      /\ pools' = PoolsOf(request[c].servers)
      /\ request' = [request EXCEPT ![c] = NoRequest]
      /\ UNCHANGED <<stored, cached, started, tempFile, disturbed>>
  BY DEF ReplacePools, SettingsInv, Requests, Step
<1>2. /\ DOMAIN request' = Requester /\ request'[c] = NoRequest /\ Step(c)' = "idle"
      /\ \A d \in Requester \ {c} : request'[d] = request[d] /\ Step(d)' = Step(d)
  BY <1>1 DEF Step, NoRequest
<1>3. BackupSound(c)' /\ ListSound(c)'
  BY <1>2 DEF BackupSound, ListSound
<1>4. \A d \in Requester \ {c} : BackupSound(d)' /\ ListSound(d)'
  BY <1>1, <1>2 DEF SettingsInv, Requests, BackupSound, ListSound
<1>5. \A d, e \in Requester : d # e => Alone(d, e)'
  BY <1>1, <1>2 DEF SettingsInv, Requests, Alone
<1>6. Requests'
  BY <1>2, <1>3, <1>4, <1>5 DEF Requests
<1>7. started /\ (~disturbed => request[c].servers = stored.servers)
  BY <1>1 DEF SettingsInv, Requests, ListSound, Step, NoRequest
<1>8. PoolsSound'
  BY <1>1, <1>7 DEF PoolsSound
<1> QED
  BY <1>1, <1>6, <1>8 DEF SettingsInv

(* A request that leaves the list and the pools alone.                      *)
LEMMA BackupStepSound ==
    ASSUME SettingsInv, NEW c \in Requester, NEW r,
           DOMAIN request' = Requester, request'[c] = r,
           \A d \in Requester \ {c} : request'[d] = request[d],
           UNCHANGED <<stored, cached, pools, started, disturbed>>,
           started, Step(c) \notin {"save", "replace"}, r.step \notin {"save", "replace"},
           BackupSound(c)',
           \A d \in Requester \ {c} : BackupSound(d)',
           \A d \in Requester \ {c} : r.step \in {"read", "remove"} => Step(d) \notin {"read", "remove"}
    PROVE  SettingsInv'
<1>1. Step(c)' = r.step /\ \A d \in Requester \ {c} : Step(d)' = Step(d)
  BY DEF Step
<1>2. \A d \in Requester : ListSound(d)'
  BY <1>1 DEF SettingsInv, Requests, ListSound
<1>3. \A d, e \in Requester : d # e => Alone(d, e)'
  BY <1>1 DEF SettingsInv, Requests, Alone
<1>4. Requests'
  BY <1>2, <1>3 DEF Requests
<1>5. PoolsSound'
  BY <1>1 DEF SettingsInv, PoolsSound
<1> QED
  BY <1>4, <1>5 DEF SettingsInv

(* The steps of a backup.                                                   *)
LEMMA CopyDatabaseSound ==
    ASSUME SettingsInv, NEW c \in Requester, CopyDatabase(c)
    PROVE  SettingsInv'
<1> DEFINE r == [step |-> "vacuum", copy |-> stored]
<1>1. /\ started /\ request[c] = NoRequest /\ DOMAIN request = Requester
      /\ request' = [request EXCEPT ![c] = r]
      /\ UNCHANGED <<stored, cached, pools, started, tempFile, disturbed>>
  BY DEF CopyDatabase, SettingsInv, Requests
<1>2. /\ DOMAIN request' = Requester /\ request'[c] = r
      /\ \A d \in Requester \ {c} : request'[d] = request[d]
  BY <1>1
<1>3. Step(c) = "idle" /\ r.step = "vacuum"
  BY <1>1 DEF Step, NoRequest
<1>4. BackupSound(c)'
  BY <1>2 DEF BackupSound, Step, SettingsInv
<1>5. \A d \in Requester \ {c} : BackupSound(d)'
  BY <1>1, <1>2 DEF SettingsInv, Requests, BackupSound, Step
<1> QED
  BY <1>1, <1>2, <1>3, <1>4, <1>5, BackupStepSound

LEMMA VacuumIntoSound ==
    ASSUME SettingsInv, NEW c \in Requester, VacuumInto(c)
    PROVE  SettingsInv'
<1>1. /\ Step(c) = "vacuum" /\ DOMAIN request = Requester
      /\ BackupSound(c) /\ ListSound(c)
      /\ UNCHANGED <<stored, cached, pools, started, disturbed>>
  BY DEF VacuumInto, SettingsInv, Requests, Step
<1>2. /\ request[c] = [step |-> "vacuum", copy |-> request[c].copy]
      /\ IsDatabase(request[c].copy)
  BY <1>1 DEF BackupSound
<1>3. started
  BY <1>1 DEF ListSound, Step, NoRequest
<1>4. CASE tempFile = NoFile
  <2> DEFINE r == [step |-> "read", copy |-> request[c].copy]
  <2>1. tempFile' = request[c].copy /\ request' = [request EXCEPT ![c].step = "read"]
    BY <1>4 DEF VacuumInto
  <2>2. /\ DOMAIN request' = Requester /\ request'[c] = r
        /\ \A d \in Requester \ {c} : request'[d] = request[d]
    BY <1>1, <1>2, <2>1
  <2>3. \A d \in Requester : Step(d) \notin {"read", "remove"}
    <3>1. ASSUME NEW d \in Requester, Step(d) \in {"read", "remove"}
          PROVE  FALSE
      <4>1. IsDatabase(request[d].copy) /\ tempFile = request[d].copy
        BY <3>1 DEF SettingsInv, Requests, BackupSound
      <4> QED
        BY <1>4, <4>1, DatabaseIsAFile
    <3> QED
      BY <3>1
  <2>4. BackupSound(c)'
    BY <1>2, <2>1, <2>2 DEF BackupSound, Step
  <2>5. \A d \in Requester \ {c} : BackupSound(d)'
    BY <2>2, <2>3 DEF SettingsInv, Requests, BackupSound, Step
  <2>6. r.step = "read"
    OBVIOUS
  <2> QED
    BY <1>1, <1>3, <2>2, <2>3, <2>4, <2>5, <2>6, BackupStepSound
<1>5. CASE tempFile # NoFile
  <2>1. request' = [request EXCEPT ![c] = NoRequest] /\ tempFile' = tempFile
    BY <1>5 DEF VacuumInto
  <2>2. /\ DOMAIN request' = Requester /\ request'[c] = NoRequest
        /\ \A d \in Requester \ {c} : request'[d] = request[d]
    BY <1>1, <2>1
  <2>3. BackupSound(c)' /\ NoRequest.step = "idle"
    BY <2>2 DEF BackupSound, Step, NoRequest
  <2>4. \A d \in Requester \ {c} : BackupSound(d)'
    BY <2>1, <2>2 DEF SettingsInv, Requests, BackupSound, Step
  <2> QED
    BY <1>1, <1>3, <2>2, <2>3, <2>4, BackupStepSound
<1> QED
  BY <1>4, <1>5

LEMMA ReadBackupSound ==
    ASSUME SettingsInv, NEW c \in Requester, ReadBackup(c)
    PROVE  SettingsInv'
<1> DEFINE r == [step |-> "remove", copy |-> request[c].copy, data |-> tempFile]
<1>1. /\ Step(c) = "read" /\ DOMAIN request = Requester
      /\ BackupSound(c) /\ ListSound(c)
      /\ request' = [request EXCEPT ![c] = r]
      /\ UNCHANGED <<stored, cached, pools, started, tempFile, disturbed>>
  BY DEF ReadBackup, SettingsInv, Requests, Step
<1>2. IsDatabase(request[c].copy) /\ tempFile = request[c].copy /\ started
  BY <1>1 DEF BackupSound, ListSound, Step, NoRequest
<1>3. /\ DOMAIN request' = Requester /\ request'[c] = r
      /\ \A d \in Requester \ {c} : request'[d] = request[d]
  BY <1>1
<1>4. BackupSound(c)' /\ r.step = "remove"
  BY <1>1, <1>2, <1>3 DEF BackupSound, Step
<1>5. \A d \in Requester \ {c} : BackupSound(d)' /\ Step(d) \notin {"read", "remove"}
  BY <1>1, <1>3 DEF SettingsInv, Requests, BackupSound, Step, Alone
<1> QED
  BY <1>1, <1>2, <1>3, <1>4, <1>5, BackupStepSound

(* A backup that fails to read leaves the file to nobody; one that is done  *)
(* removes its own.                                                         *)
LEMMA EndBackupSound ==
    ASSUME SettingsInv, NEW c \in Requester, ReadBackupFails(c) \/ RemoveBackup(c)
    PROVE  SettingsInv'
<1>1. /\ Step(c) \in {"read", "remove"} /\ DOMAIN request = Requester /\ ListSound(c)
      /\ request' = [request EXCEPT ![c] = NoRequest]
      /\ UNCHANGED <<stored, cached, pools, started, disturbed>>
  BY DEF ReadBackupFails, RemoveBackup, SettingsInv, Requests, Step
<1>2. /\ DOMAIN request' = Requester /\ request'[c] = NoRequest
      /\ \A d \in Requester \ {c} : request'[d] = request[d]
  BY <1>1
<1>3. BackupSound(c)' /\ NoRequest.step = "idle" /\ started
  BY <1>1, <1>2 DEF BackupSound, Step, NoRequest, ListSound
<1>4. \A d \in Requester \ {c} : Step(d) \notin {"read", "remove"}
  BY <1>1 DEF SettingsInv, Requests, Alone
<1>5. \A d \in Requester \ {c} : BackupSound(d)'
  BY <1>2, <1>4 DEF SettingsInv, Requests, BackupSound, Step
<1> QED
  BY <1>1, <1>2, <1>3, <1>5, BackupStepSound

(* The other settings are beside the list.                                  *)
LEMMA UpdateSettingsSound ==
    ASSUME SettingsInv, NEW c \in Requester, NEW values, NEW written,
           UpdateSettings(c, values, written)
    PROVE  SettingsInv'
<1>1. PICK now : /\ stored' = [stored EXCEPT !.other = now]
                 /\ cached' = [cached EXCEPT !.other = now]
  BY DEF UpdateSettings
<1>2. UNCHANGED <<pools, started, request, tempFile, disturbed>>
  BY DEF UpdateSettings
<1>3. /\ stored' = [servers |-> stored.servers, other |-> now]
      /\ cached' = stored' /\ stored.servers \in Seq(ServerRow)
  BY <1>1 DEF SettingsInv, IsDatabase
<1>4. IsDatabase(stored)' /\ stored'.servers = stored.servers
  BY <1>3 DEF IsDatabase
<1>5. \A d \in Requester : BackupSound(d)' /\ ListSound(d)'
  BY <1>2, <1>4 DEF SettingsInv, Requests, BackupSound, ListSound, Step
<1>6. Requests' /\ PoolsSound'
  BY <1>2, <1>4, <1>5 DEF SettingsInv, Requests, Alone, Step, PoolsSound
<1> QED
  BY <1>2, <1>3, <1>4, <1>6 DEF SettingsInv

(* A restart forgets all requests and loads the table; the start is the     *)
(* pools of the list.                                                       *)
LEMMA ProcessSound ==
    ASSUME SettingsInv, Restart \/ InitPools
    PROVE  SettingsInv'
<1>1. CASE Restart
  <2>1. /\ cached' = stored /\ stored' = stored /\ pools' = <<>> /\ started' = FALSE
        /\ request' = [c \in Requester |-> NoRequest] /\ disturbed' = FALSE
    BY <1>1 DEF Restart
  <2>2. \A c \in Requester : request'[c] = NoRequest /\ Step(c)' = "idle"
    BY <2>1 DEF Step, NoRequest
  <2>3. Requests'
    BY <2>1, <2>2 DEF Requests, BackupSound, ListSound, Alone
  <2> QED
    BY <2>1, <2>3 DEF SettingsInv, PoolsSound, IsDatabase
<1>2. CASE InitPools
  <2>1. /\ ~started /\ started' = TRUE
        /\ pools' = IF stored.servers = <<>> THEN <<>> ELSE PoolsOf(stored.servers)
        /\ UNCHANGED <<stored, cached, request, tempFile, disturbed>>
    BY <1>2 DEF InitPools, SettingsInv, PoolsSound
  <2>2. \A c \in Requester : BackupSound(c)' /\ ListSound(c)'
    BY <2>1 DEF SettingsInv, Requests, BackupSound, ListSound, Step
  <2>3. Requests'
    BY <2>1, <2>2 DEF SettingsInv, Requests, Alone, Step
  <2>4. PoolsSound'
    BY <2>1 DEF PoolsSound
  <2> QED
    BY <2>1, <2>3, <2>4 DEF SettingsInv, IsDatabase
<1> QED
  BY <1>1, <1>2

(* The inductive invariant of the settings: the cache is the table, the     *)
(* file is of one backup, and the pools are those of the list unless a      *)
(* change is pending.                                                       *)
THEOREM SettingsInvariant == SettingsSpec => []SettingsInv
<1>1. ASSUME SettingsInit
      PROVE  SettingsInv
  <2>1. /\ stored = [servers |-> <<>>, other |-> Defaults] /\ cached = stored
        /\ pools = <<>> /\ started = FALSE /\ disturbed = FALSE
        /\ request = [c \in Requester |-> NoRequest]
    BY <1>1 DEF SettingsInit
  <2>2. \A c \in Requester : request[c] = NoRequest /\ Step(c) = "idle"
    BY <2>1 DEF Step, NoRequest
  <2>3. Requests
    BY <2>1, <2>2 DEF Requests, BackupSound, ListSound, Alone
  <2>4. IsDatabase(stored)
    BY <2>1 DEF IsDatabase
  <2> QED
    BY <2>1, <2>3, <2>4 DEF SettingsInv, PoolsSound
<1>2. ASSUME SettingsInv, [SettingsNext]_settingsVars
      PROVE  SettingsInv'
  <2>1. ASSUME NEW c \in Requester, NEW e \in ServerEntry,
               AddServer(c, e) \/ DeleteServer(c, e.id) \/ UpdateServer(c, e.id, e)
        PROVE  SettingsInv'
    <3>1. cached.servers \in Seq(ServerRow)
      BY <1>2 DEF SettingsInv, IsDatabase
    <3>2. PICK list \in Seq(ServerRow) : LoadAndChange(c, list)
      BY <2>1, <3>1, AddedList, DeletedList, UpdatedList
         DEF AddServer, DeleteServer, UpdateServer
    <3> QED
      BY <1>2, <3>2, LoadAndChangeSound
  <2>2. ASSUME NEW c \in Requester, SaveServers(c) \/ SaveServersFails(c) \/ ReplacePools(c)
        PROVE  SettingsInv'
    BY <1>2, <2>2, SaveSound, ReplacePoolsSound
  <2>3. ASSUME NEW c \in Requester, NEW values, NEW written, UpdateSettings(c, values, written)
        PROVE  SettingsInv'
    BY <1>2, <2>3, UpdateSettingsSound
  <2>4. ASSUME NEW c \in Requester,
               \/ CopyDatabase(c) \/ VacuumInto(c) \/ ReadBackup(c)
               \/ ReadBackupFails(c) \/ RemoveBackup(c)
        PROVE  SettingsInv'
    BY <1>2, <2>4, CopyDatabaseSound, VacuumIntoSound, ReadBackupSound, EndBackupSound
  <2>5. CASE FirstFetch \/ UNCHANGED settingsVars
    <3>1. UNCHANGED <<stored, cached, pools, started, request, tempFile, disturbed>>
      BY <2>5 DEF FirstFetch, settingsVars
    <3>2. Requests' /\ PoolsSound'
      BY <1>2, <3>1 DEF SettingsInv, Requests, BackupSound, ListSound, Alone, Step, PoolsSound
    <3> QED
      BY <1>2, <3>1, <3>2 DEF SettingsInv, IsDatabase
  <2>6. CASE Restart \/ InitPools
    BY <1>2, <2>6, ProcessSound
  <2> QED
    BY <1>2, <2>1, <2>2, <2>3, <2>4, <2>5, <2>6 DEF SettingsNext
<1> QED
  BY <1>1, <1>2, PTL DEF SettingsSpec

(* However backups overlap, fail and are cut short, each hands out the      *)
(* database as it was when it was asked for.                                *)
THEOREM BackupsAreOwn == SettingsSpec => []BackupIsOwn
<1>1. ASSUME SettingsInv
      PROVE  BackupIsOwn
  <2>1. ASSUME NEW c \in Under("remove")
        PROVE  request[c].data = request[c].copy
    <3>1. c \in Requester /\ Step(c) = "remove"
      BY DEF Under, Step
    <3> QED
      BY <1>1, <3>1 DEF SettingsInv, Requests, BackupSound
  <2> QED
    BY <2>1 DEF BackupIsOwn
<1> QED
  BY <1>1, SettingsInvariant, PTL

(* Whatever changes clients make and whenever the process restarts, once no *)
(* rebuild is pending the provider's pools are the enabled servers of the   *)
(* table, each as often as it is there, by priority, also where changes     *)
(* were loaded together; unless the last save failed, or came between the   *)
(* save and the rebuild of another.                                         *)
THEOREM PoolsAreTheServers == SettingsSpec => []PoolsFollowList
<1>1. ASSUME SettingsInv
      PROVE  PoolsFollowList
  <2>1. stored = cached /\ stored.servers \in Seq(ServerRow)
    BY <1>1 DEF SettingsInv, IsDatabase
  <2> SUFFICES ASSUME started, ~disturbed, Under("replace") = {}
               PROVE  /\ \A k \in DOMAIN pools : pools[k].enabled
                      /\ \A j, k \in DOMAIN pools : j < k => pools[j].priority <= pools[k].priority
                      /\ \A e \in ServerEntry :
                           Cardinality({k \in DOMAIN pools : pools[k] = e}) =
                              IF e.enabled
                              THEN Cardinality({k \in DOMAIN stored.servers : stored.servers[k] = e})
                              ELSE 0
    BY <2>1 DEF PoolsFollowList
  <2>2. \A c \in Requester : Step(c) # "replace"
    BY DEF Under, Step
  <2>3. CASE pools = PoolsOf(stored.servers)
    <3>1. PICK list \in Seq(ServerRow) : list = stored.servers
      BY <2>1
    <3>2. pools = PoolsOf(list)
      BY <2>3, <3>1
    <3>3. /\ \A k \in DOMAIN pools : pools[k].enabled
          /\ \A j, k \in DOMAIN pools : j < k => pools[j].priority <= pools[k].priority
      BY <3>2, PoolsAreTheList
    <3>4. ASSUME NEW e
          PROVE  Cardinality({k \in DOMAIN pools : pools[k] = e}) =
                    IF e.enabled
                    THEN Cardinality({k \in DOMAIN stored.servers : stored.servers[k] = e})
                    ELSE 0
      <4>1. Cardinality({k \in DOMAIN PoolsOf(list) : PoolsOf(list)[k] = e}) =
               IF e.enabled THEN Cardinality({k \in DOMAIN list : list[k] = e}) ELSE 0
        BY PoolsAreTheList
      <4> QED
        BY <4>1, <3>1, <3>2
    <3> QED
      BY <2>1, <3>3, <3>4
  <2>4. CASE stored.servers = <<>> /\ pools = <<>>
    <3>1. DOMAIN pools = {} /\ DOMAIN stored.servers = {}
      BY <2>4
    <3>2. ASSUME NEW e
          PROVE  /\ {k \in DOMAIN pools : pools[k] = e} = {}
                 /\ {k \in DOMAIN stored.servers : stored.servers[k] = e} = {}
      BY <3>1
    <3>3. ASSUME NEW e
          PROVE  Cardinality({k \in DOMAIN pools : pools[k] = e}) =
                    IF e.enabled
                    THEN Cardinality({k \in DOMAIN stored.servers : stored.servers[k] = e})
                    ELSE 0
      <4>1. Cardinality({}) = 0
        BY FS_EmptySet
      <4> QED
        BY <3>2, <4>1
    <3> QED
      BY <2>1, <3>1, <3>3
  <2> QED
    BY <1>1, <2>2, <2>3, <2>4 DEF SettingsInv, PoolsSound
<1> QED
  BY <1>1, SettingsInvariant, PTL

-----------------------------------------------------------------------------
(* The repair worker.                                                       *)

Keys(q) == {q[i] : i \in DOMAIN q}
Distinct(q) == \A i, j \in DOMAIN q : q[i] = q[j] => i = j

(* A key that is not queued is appended to the queue.                       *)
LEMMA AppendKeys ==
    ASSUME NEW q \in Seq(Key), Distinct(q), NEW k \in Key \ Keys(q)
    PROVE  /\ Append(q, k) \in Seq(Key) /\ Distinct(Append(q, k))
           /\ Keys(Append(q, k)) = Keys(q) \union {k}
<1>1. /\ Append(q, k) \in Seq(Key)
      /\ DOMAIN Append(q, k) = 1..(Len(q) + 1) /\ DOMAIN q = 1..Len(q) /\ Len(q) \in Nat
      /\ \A i \in 1..Len(q) : Append(q, k)[i] = q[i]
      /\ Append(q, k)[Len(q) + 1] = k
  BY AppendProperties, LenProperties
<1>2. Keys(Append(q, k)) = Keys(q) \union {k}
  BY <1>1 DEF Keys
<1>3. Distinct(Append(q, k))
  BY <1>1 DEF Distinct, Keys
<1> QED
  BY <1>1, <1>2, <1>3

(* Popping takes one key out of it.                                         *)
LEMMA TailKeys ==
    ASSUME NEW q \in Seq(Key), q # <<>>, Distinct(q)
    PROVE  /\ Tail(q) \in Seq(Key) /\ Distinct(Tail(q))
           /\ Head(q) \in Keys(q)
           /\ Keys(Tail(q)) = Keys(q) \ {Head(q)}
<1>1. /\ Tail(q) \in Seq(Key) /\ Head(q) = q[1] /\ Len(q) \in Nat \ {0}
      /\ DOMAIN q = 1..Len(q) /\ DOMAIN Tail(q) = 1..(Len(q) - 1)
      /\ \A i \in 1..(Len(q) - 1) : Tail(q)[i] = q[i + 1]
  BY HeadTailProperties, LenProperties, EmptySeq
<1>2. Distinct(Tail(q))
  BY <1>1 DEF Distinct
<1>3. Head(q) \in Keys(q)
  BY <1>1 DEF Keys
<1>4. Keys(Tail(q)) \subseteq Keys(q) \ {Head(q)}
  BY <1>1 DEF Keys, Distinct
<1>5. ASSUME NEW i \in DOMAIN q, q[i] # Head(q) PROVE q[i] \in Keys(Tail(q))
  <2>1. i - 1 \in 1..(Len(q) - 1) /\ Tail(q)[i - 1] = q[i]
    BY <1>1, <1>5
  <2> QED
    BY <1>1, <2>1 DEF Keys
<1> QED
  BY <1>1, <1>2, <1>3, <1>4, <1>5 DEF Keys

-----------------------------------------------------------------------------
(* The invariant.  Damage folded in early is on the job's flag while the    *)
(* job still looks at it, or the job has failed.                            *)

EarlyFoldsSeen ==
    \A k \in Key : "early" \in owed[k] =>
        \E w \in Worker :
            /\ task[w].key = k
            /\ \/ task[w].at \in {"attempt", "look"} /\ folded[k]
               \/ task[w].at = "finish" /\ task[w].outcome # "succeeded"

RepairInv ==
    /\ ScheduleTypeOK
    /\ OneJobPerSet
    /\ OneWorker
    /\ NoOrphanedJob
    /\ EarlyFoldsSeen

(* The queue, the jobs and the slot, in the terms of the lemmas above.      *)
LEMMA JobsByKeys ==
    OneJobPerSet <=> /\ jobs = Keys(job_queue) \union ({running_job} \ {NoKey})
                     /\ Distinct(job_queue)
                     /\ running_job \notin Keys(job_queue)
BY DEF OneJobPerSet, Keys, Distinct

(* Nothing is scheduled at first.                                           *)
LEMMA RepairInit == ScheduleInit => RepairInv
<1> SUFFICES ASSUME ScheduleInit PROVE RepairInv
  OBVIOUS
<1>1. ScheduleTypeOK
  <2>1. job_queue \in Seq(Key)
    BY EmptySeq DEF ScheduleInit
  <2>2. call \in [Reporter -> Call] /\ task \in [Worker -> WorkerTask]
    BY DEF ScheduleInit, NoCall, Jobless, Call, WorkerTask, Outcome
  <2> QED
    BY <2>1, <2>2 DEF ScheduleInit, ScheduleTypeOK
<1>2. Keys(job_queue) = {} /\ Distinct(job_queue)
  BY DEF ScheduleInit, Keys, Distinct
<1>3. OneJobPerSet
  BY <1>2, JobsByKeys DEF ScheduleInit
<1>4. OneWorker
  BY DEF ScheduleInit, Jobless, OneWorker, AliveWorkers, Busy
<1> QED
  BY <1>1, <1>3, <1>4 DEF ScheduleInit, RepairInv, NoOrphanedJob, EarlyFoldsSeen

(* A step that leaves the schedule and the tasks alone, and owes no early   *)
(* fold that was not owed.                                                  *)
LEMMA BystanderPreserves ==
    ASSUME RepairInv, ScheduleTypeOK', UNCHANGED <<scheduleVars, task>>,
           \A k \in Key : "early" \in owed'[k] => "early" \in owed[k]
    PROVE  RepairInv'
<1>1. OneJobPerSet' /\ OneWorker' /\ NoOrphanedJob'
  BY DEF RepairInv, scheduleVars, OneJobPerSet, OneWorker, NoOrphanedJob, AliveWorkers, Busy
<1>2. EarlyFoldsSeen'
  BY DEF RepairInv, scheduleVars, EarlyFoldsSeen
<1> QED
  BY <1>1, <1>2 DEF RepairInv

(* A call of schedule, up to where it inserts a job.                        *)
LEMMA CallPreserves ==
    ASSUME RepairInv, NEW c \in Reporter,
           (\E k \in Key : Schedule(c, k)) \/ CheckSetCooldown(c) \/ CheckSettled(c)
    PROVE  RepairInv'
<1>1. UNCHANGED <<scheduleVars, cooled, settled, task, owed>>
  BY DEF Schedule, CheckSetCooldown, CheckSettled
<1>2. call' \in [Reporter -> Call]
  <2>1. call \in [Reporter -> Call]
    BY DEF RepairInv, ScheduleTypeOK
  <2>2. CASE \E k \in Key : Schedule(c, k)
    BY <2>1, <2>2 DEF Schedule, Call
  <2>3. CASE CheckSetCooldown(c) \/ CheckSettled(c)
    BY <2>1, <2>3 DEF CheckSetCooldown, CheckSettled, GoOn, ReturnCall, NoCall, Call
  <2> QED
    BY <2>2, <2>3
<1>3. ScheduleTypeOK'
  BY <1>1, <1>2 DEF RepairInv, ScheduleTypeOK, scheduleVars
<1> QED
  BY <1>1, <1>3, BystanderPreserves

(* Damage folded into a job while it still looks sets the job's flag.       *)
LEMMA FoldPreserves ==
    ASSUME RepairInv, NEW c \in Reporter, FoldIntoJob(c)
    PROVE  RepairInv'
<1> DEFINE k == call[c].key
<1>1. k \in Key /\ UNCHANGED <<job_queue, jobs, running_job, worker, cooled, settled, task>>
  BY DEF FoldIntoJob, RepairInv, ScheduleTypeOK, Call
<1>2. call' \in [Reporter -> Call]
  BY DEF FoldIntoJob, GoOn, ReturnCall, NoCall, Call, RepairInv, ScheduleTypeOK
<1>3. /\ folded' \in [Key -> BOOLEAN] /\ owed' \in [Key -> SUBSET FoldedHow]
      /\ \A x \in Key : folded[x] => folded'[x]
      /\ \A x \in Key : "early" \in owed'[x] =>
             "early" \in owed[x] \/ (x = k /\ folded'[k] /\ StillLooks(k))
  <2>1. CASE k \notin jobs
    <3>1. folded' = folded /\ owed' = owed
      BY <2>1 DEF FoldIntoJob
    <3> QED
      BY <3>1 DEF RepairInv, ScheduleTypeOK
  <2>2. CASE k \in jobs
    <3>1. folded' = [folded EXCEPT ![k] = folded[k] \/ running_job = k]
      BY <2>2 DEF FoldIntoJob
    <3>2. folded \in [Key -> BOOLEAN] /\ owed \in [Key -> SUBSET FoldedHow]
      BY DEF RepairInv, ScheduleTypeOK
    <3>3. /\ folded' \in [Key -> BOOLEAN]
          /\ \A x \in Key \ {k} : folded'[x] = folded[x]
          /\ folded'[k] = (folded[k] \/ running_job = k)
      BY <1>1, <3>1, <3>2
    <3>4. CASE running_job # k
      BY <2>2, <3>2, <3>3, <3>4 DEF FoldIntoJob
    <3>5. CASE running_job = k
      <4>1. PICK r : r = IF StillLooks(k) THEN "early" ELSE "late"
        OBVIOUS
      <4>2. owed' = [owed EXCEPT ![k] = @ \union {r}]
        BY <2>2, <3>5, <4>1 DEF FoldIntoJob
      <4>3. folded'[k]
        BY <3>3, <3>5
      <4>4. \A x \in Key : folded[x] => folded'[x]
        BY <3>3, <4>3
      <4> QED
        BY <1>1, <3>2, <3>3, <4>1, <4>2, <4>3, <4>4 DEF FoldedHow
    <3> QED
      BY <3>4, <3>5
  <2> QED
    BY <2>1, <2>2
<1> HIDE DEF k
<1>4. ScheduleTypeOK'
  BY <1>1, <1>2, <1>3 DEF RepairInv, ScheduleTypeOK
<1>5. OneJobPerSet' /\ OneWorker' /\ NoOrphanedJob'
  BY <1>1 DEF RepairInv, OneJobPerSet, OneWorker, NoOrphanedJob, AliveWorkers, Busy
<1>6. EarlyFoldsSeen'
  BY <1>1, <1>3 DEF RepairInv, EarlyFoldsSeen, StillLooks
<1> QED
  BY <1>4, <1>5, <1>6 DEF RepairInv

-----------------------------------------------------------------------------
(* The worker.                                                              *)

(* There is no other worker, and what it does says what is in the slot.     *)
LEMMA OnlyWorker ==
    ASSUME RepairInv, NEW w \in Worker, task[w].at # "none"
    PROVE  /\ worker /\ task[w] \in WorkerTask
           /\ \A v \in Worker \ {w} : task[v].at = "none"
           /\ task[w].at = "pop" => running_job = NoKey
           /\ task[w].at # "pop" =>
                  running_job = task[w].key /\ task[w].key \in jobs /\ task[w].key \in Key
<1>1. task[w] \in WorkerTask
  BY DEF RepairInv, ScheduleTypeOK, WorkerTask
<1>2. worker /\ \A v \in Worker \ {w} : task[v].at = "none"
  BY DEF RepairInv, OneWorker, AliveWorkers
<1>3. CASE task[w].at = "pop"
  BY <1>1, <1>2, <1>3 DEF RepairInv, OneWorker, Busy
<1>4. CASE task[w].at # "pop"
  <2>1. w \in Busy
    BY <1>1, <1>4 DEF Busy, WorkerTask
  <2>2. running_job = task[w].key /\ running_job # NoKey /\ running_job \in Key
    BY <2>1 DEF RepairInv, OneWorker, ScheduleTypeOK
  <2> QED
    BY <1>1, <1>2, <1>4, <2>2 DEF RepairInv, OneJobPerSet
<1> QED
  BY <1>1, <1>2, <1>3, <1>4

(* A step of the worker inside its job.                                     *)
LEMMA InJobPreserves ==
    ASSUME RepairInv, NEW w \in Worker, task[w].at \in {"attempt", "look", "finish"},
           NEW t \in WorkerTask, t.at \in {"attempt", "look", "finish"}, t.key = task[w].key,
           task' = [task EXCEPT ![w] = t],
           UNCHANGED <<job_queue, jobs, running_job, worker>>, ScheduleTypeOK',
           "early" \in owed'[t.key] =>
               \/ t.at \in {"attempt", "look"} /\ folded'[t.key]
               \/ t.at = "finish" /\ t.outcome # "succeeded",
           \A k \in Key \ {t.key} : owed'[k] = owed[k] /\ folded'[k] = folded[k]
    PROVE  RepairInv'
<1>1. /\ worker /\ \A v \in Worker \ {w} : task[v].at = "none"
      /\ running_job = task[w].key /\ t.key \in Key
  BY OnlyWorker
<1>2. task'[w] = t /\ \A v \in Worker \ {w} : task'[v] = task[v]
  BY DEF RepairInv, ScheduleTypeOK
<1>3. AliveWorkers' = {w} /\ Busy' = {w}
  BY <1>1, <1>2 DEF AliveWorkers, Busy
<1>4. OneJobPerSet' /\ NoOrphanedJob'
  BY DEF RepairInv, OneJobPerSet, NoOrphanedJob
<1>5. OneWorker'
  <2>1. running_job' = t.key /\ running_job' # NoKey /\ worker'
    BY <1>1, ScheduleAssumption
  <2> QED
    BY <1>2, <1>3, <2>1 DEF OneWorker
<1>6. EarlyFoldsSeen'
  <2>1. ASSUME NEW k \in Key, k # t.key PROVE "early" \notin owed'[k]
    BY <1>1, <2>1 DEF RepairInv, EarlyFoldsSeen
  <2> QED
    BY <1>2, <2>1 DEF EarlyFoldsSeen
<1> QED
  BY <1>4, <1>5, <1>6 DEF RepairInv

(* An attempt that returns leaves the look at the folded damage to come.    *)
LEMMA AttemptEndsPreserves ==
    ASSUME RepairInv, NEW w \in Worker, NEW o \in Outcome, AttemptEnds(w, o)
    PROVE  RepairInv'
<1>1. task[w].at = "attempt" /\ task[w] \in WorkerTask /\ task[w].key \in Key
      /\ \A v \in Worker \ {w} : task[v].at = "none"
  BY OnlyWorker DEF AttemptEnds
<1>2. PICK t : t = [task[w] EXCEPT !.at = "look", !.outcome = o]
  OBVIOUS
<1>3. /\ t \in WorkerTask /\ t.at = "look" /\ t.key = task[w].key
      /\ task' = [task EXCEPT ![w] = t]
  BY <1>1, <1>2 DEF AttemptEnds, WorkerTask
<1>4. ScheduleTypeOK'
  <2>1. settled' \in SUBSET HistoryItem
    BY <1>1, ScheduleAssumption DEF AttemptEnds, RepairInv, ScheduleTypeOK, WorkerTask
  <2> QED
    BY <1>3, <2>1 DEF AttemptEnds, RepairInv, ScheduleTypeOK, scheduleVars, WorkerTask
<1>5. "early" \in owed[t.key] => folded[t.key]
  BY <1>1, <1>3 DEF RepairInv, EarlyFoldsSeen, WorkerTask
<1> QED
  BY <1>1, <1>3, <1>4, <1>5, InJobPreserves DEF AttemptEnds, scheduleVars

(* The deadline of the job changes nothing but what may come next.          *)
LEMMA DeadlinePreserves ==
    ASSUME RepairInv, NEW w \in Worker, DeadlinePasses(w)
    PROVE  RepairInv'
<1>1. task[w].at \in {"attempt", "look"} /\ task[w] \in WorkerTask /\ task[w].key \in Key
      /\ \A v \in Worker \ {w} : task[v].at = "none"
  BY OnlyWorker DEF DeadlinePasses
<1>2. PICK t : t = [task[w] EXCEPT !.expired = TRUE]
  OBVIOUS
<1>3. /\ t \in WorkerTask /\ t.at = task[w].at /\ t.key = task[w].key
      /\ task' = [task EXCEPT ![w] = t]
  BY <1>1, <1>2 DEF DeadlinePasses, WorkerTask
<1>4. ScheduleTypeOK'
  BY <1>3 DEF DeadlinePasses, RepairInv, ScheduleTypeOK, scheduleVars, WorkerTask
<1>5. "early" \in owed[t.key] => folded[t.key]
  BY <1>1, <1>3 DEF RepairInv, EarlyFoldsSeen, WorkerTask
<1>6. UNCHANGED <<job_queue, jobs, running_job, worker, folded, owed>>
  BY DEF DeadlinePasses, scheduleVars
<1>7. t.at \in {"attempt", "look"} /\ task[w].at \in {"attempt", "look", "finish"}
  BY <1>1, <1>3
<1> QED
  BY <1>3, <1>4, <1>5, <1>6, <1>7, InJobPreserves

(* A timeout or a panic fails the job.                                      *)
LEMMA AttemptDiesPreserves ==
    ASSUME RepairInv, NEW w \in Worker, AttemptDies(w)
    PROVE  RepairInv'
<1>1. task[w].at = "attempt" /\ task[w] \in WorkerTask
  BY OnlyWorker DEF AttemptDies
<1>2. PICK t : t = [task[w] EXCEPT !.at = "finish", !.outcome = "failed"]
  OBVIOUS
<1>3. /\ t \in WorkerTask /\ t.at = "finish" /\ t.key = task[w].key /\ t.outcome = "failed"
      /\ task' = [task EXCEPT ![w] = t]
  BY <1>1, <1>2 DEF AttemptDies, WorkerTask, Outcome
<1>4. ScheduleTypeOK'
  BY <1>3 DEF AttemptDies, RepairInv, ScheduleTypeOK, scheduleVars, WorkerTask
<1> QED
  BY <1>1, <1>3, <1>4, InJobPreserves DEF AttemptDies, scheduleVars

(* Taking the folded damage either owes it to the next attempt, which has   *)
(* begun, or the job has failed.                                            *)
LEMMA LookPreserves ==
    ASSUME RepairInv, NEW w \in Worker, LookForFolded(w)
    PROVE  RepairInv'
<1> DEFINE again == task[w].key \in jobs /\ folded[task[w].key]
           goes == again /\ task[w].outcome = "succeeded"
<1>1. /\ task[w].at = "look" /\ task[w] \in WorkerTask /\ task[w].key \in jobs
      /\ task[w].key \in Key
      /\ \A v \in Worker \ {w} : task[v].at = "none"
  BY OnlyWorker DEF LookForFolded
<1>2. PICK t : t = [task[w] EXCEPT !.at = IF goes THEN "attempt" ELSE "finish"]
  OBVIOUS
<1>3. /\ t \in WorkerTask /\ t.key = task[w].key /\ t.outcome = task[w].outcome
      /\ t.at = IF goes THEN "attempt" ELSE "finish"
      /\ task' = [task EXCEPT ![w] = t]
  BY <1>1, <1>2 DEF LookForFolded, WorkerTask
<1>4. /\ folded' = IF again THEN [folded EXCEPT ![t.key] = FALSE] ELSE folded
      /\ owed' = IF goes THEN [owed EXCEPT ![t.key] = {}] ELSE owed
      /\ UNCHANGED <<job_queue, jobs, running_job, worker, cooled, settled, call>>
  BY <1>3 DEF LookForFolded
<1>5. t.key \in Key /\ folded \in [Key -> BOOLEAN] /\ owed \in [Key -> SUBSET FoldedHow]
  BY <1>1, <1>3 DEF RepairInv, ScheduleTypeOK
<1>6. "early" \in owed[t.key] => again
  BY <1>1, <1>3 DEF RepairInv, EarlyFoldsSeen, WorkerTask
<1>7. again => folded[t.key]
  BY <1>3
<1>8. goes <=> again /\ t.outcome = "succeeded"
  BY <1>3
<1> HIDE DEF again, goes
<1>9. ScheduleTypeOK'
  BY <1>3, <1>4, <1>5 DEF RepairInv, ScheduleTypeOK, WorkerTask
<1>10. "early" \in owed'[t.key] => t.at = "finish" /\ t.outcome # "succeeded"
  BY <1>3, <1>4, <1>5, <1>6, <1>8
<1>11. \A k \in Key \ {t.key} : owed'[k] = owed[k] /\ folded'[k] = folded[k]
  BY <1>4, <1>5
<1> QED
  BY <1>1, <1>3, <1>4, <1>9, <1>10, <1>11, InJobPreserves

(* A popped job goes from the queue to the slot, and owes nothing.          *)
LEMMA StartPreserves ==
    ASSUME RepairInv, NEW w \in Worker, StartJob(w)
    PROVE  RepairInv'
<1>1. /\ task[w].at = "pop" /\ task[w] \in WorkerTask /\ worker /\ running_job = NoKey
      /\ \A v \in Worker \ {w} : task[v].at = "none"
  BY OnlyWorker DEF StartJob
<1>2. PICK k : k = Head(job_queue)
  OBVIOUS
<1>3. /\ k \in jobs /\ k \in Key /\ job_queue # <<>> /\ job_queue' = Tail(job_queue) /\ running_job' = k
      /\ owed' = [owed EXCEPT ![k] = {}]
      /\ UNCHANGED <<jobs, folded, worker, cooled, settled, call>>
  BY <1>2 DEF StartJob, RepairInv, ScheduleTypeOK
<1>4. PICK t : t = [task[w] EXCEPT !.at = "attempt", !.key = k]
  OBVIOUS
<1>5. /\ t \in WorkerTask /\ t.at = "attempt" /\ t.key = k
      /\ task' = [task EXCEPT ![w] = t]
  BY <1>1, <1>2, <1>3, <1>4 DEF StartJob, WorkerTask
<1>6. job_queue \in Seq(Key) /\ Distinct(job_queue) /\ jobs = Keys(job_queue)
  BY <1>1, JobsByKeys DEF RepairInv, ScheduleTypeOK
<1>7. /\ job_queue' \in Seq(Key) /\ Distinct(job_queue') /\ Keys(job_queue') = Keys(job_queue) \ {k}
      /\ k \in Keys(job_queue)
  BY <1>2, <1>3, <1>6, TailKeys
<1>8. ScheduleTypeOK'
  BY <1>3, <1>5, <1>7 DEF RepairInv, ScheduleTypeOK, WorkerTask
<1>9. OneJobPerSet'
  <2>1. jobs' = Keys(job_queue') \union ({running_job'} \ {NoKey}) /\ running_job' \notin Keys(job_queue')
    BY <1>3, <1>6, <1>7, ScheduleAssumption
  <2>2. OneJobPerSet' <=> /\ jobs' = Keys(job_queue') \union ({running_job'} \ {NoKey})
                          /\ Distinct(job_queue')
                          /\ running_job' \notin Keys(job_queue')
    BY DEF OneJobPerSet, Keys, Distinct
  <2> QED
    BY <1>7, <2>1, <2>2
<1>10. task'[w] = t /\ \A v \in Worker \ {w} : task'[v] = task[v]
  BY <1>5 DEF RepairInv, ScheduleTypeOK
<1>11. OneWorker'
  <2>1. AliveWorkers' = {w} /\ Busy' = {w}
    BY <1>1, <1>5, <1>10 DEF AliveWorkers, Busy
  <2> QED
    BY <1>1, <1>3, <1>5, <1>10, <2>1, ScheduleAssumption DEF OneWorker
<1>12. NoOrphanedJob'
  BY <1>1, <1>3 DEF NoOrphanedJob
<1>13. EarlyFoldsSeen'
  <2>1. ASSUME NEW x \in Key PROVE "early" \notin owed'[x]
    <3>1. "early" \notin owed[x]
      BY <1>1 DEF RepairInv, EarlyFoldsSeen
    <3> QED
      BY <1>3, <3>1 DEF RepairInv, ScheduleTypeOK
  <2> QED
    BY <2>1 DEF EarlyFoldsSeen
<1> QED
  BY <1>8, <1>9, <1>11, <1>12, <1>13 DEF RepairInv

(* A job that is done leaves the slot and the map.                          *)
LEMMA FinishPreserves ==
    ASSUME RepairInv, NEW w \in Worker, FinishJob(w)
    PROVE  RepairInv'
<1>1. /\ task[w].at = "finish" /\ task[w] \in WorkerTask /\ worker
      /\ running_job = task[w].key /\ \A v \in Worker \ {w} : task[v].at = "none"
  BY OnlyWorker DEF FinishJob
<1>2. PICK k \in Key : k = task[w].key
  BY <1>1, OnlyWorker
<1>3. /\ running_job' = NoKey /\ jobs' = jobs \ {k} /\ owed' = [owed EXCEPT ![k] = {}]
      /\ UNCHANGED <<job_queue, folded, worker, settled, call>>
  BY <1>2 DEF FinishJob
<1>4. PICK t : t = Jobless("pop")
  OBVIOUS
<1>5. /\ t \in WorkerTask /\ t.at = "pop" /\ task' = [task EXCEPT ![w] = t]
  BY <1>4 DEF FinishJob, Jobless, WorkerTask, Outcome
<1>6. ScheduleTypeOK'
  <2>1. cooled' \in SUBSET Key
    BY <1>2 DEF FinishJob, RepairInv, ScheduleTypeOK
  <2> QED
    BY <1>3, <1>5, <2>1 DEF RepairInv, ScheduleTypeOK, WorkerTask
<1>7. OneJobPerSet'
  BY <1>1, <1>2, <1>3, ScheduleAssumption DEF RepairInv, ScheduleTypeOK, OneJobPerSet
<1>8. task'[w] = t /\ \A v \in Worker \ {w} : task'[v] = task[v]
  BY <1>5 DEF RepairInv, ScheduleTypeOK
<1>9. AliveWorkers' = {w} /\ Busy' = {}
  BY <1>1, <1>5, <1>8 DEF AliveWorkers, Busy
<1>10. OneWorker' /\ NoOrphanedJob'
  BY <1>1, <1>3, <1>9 DEF OneWorker, NoOrphanedJob
<1>11. EarlyFoldsSeen'
  <2>1. ASSUME NEW x \in Key PROVE "early" \notin owed'[x]
    <3>1. x # k => "early" \notin owed[x]
      BY <1>1, <1>2 DEF RepairInv, EarlyFoldsSeen
    <3> QED
      BY <1>3, <3>1 DEF RepairInv, ScheduleTypeOK
  <2> QED
    BY <2>1 DEF EarlyFoldsSeen
<1> QED
  BY <1>6, <1>7, <1>10, <1>11 DEF RepairInv

(* The worker leaves nothing behind.                                        *)
LEMMA ReturnPreserves ==
    ASSUME RepairInv, NEW w \in Worker, WorkerReturns(w)
    PROVE  RepairInv'
<1>1. /\ task[w].at = "pop" /\ task[w] \in WorkerTask /\ running_job = NoKey /\ job_queue = <<>>
      /\ \A v \in Worker \ {w} : task[v].at = "none"
      /\ worker' = FALSE
      /\ UNCHANGED <<job_queue, jobs, folded, running_job, cooled, settled, call, owed>>
  BY OnlyWorker DEF WorkerReturns
<1>2. PICK t : t = Jobless("none")
  OBVIOUS
<1>3. /\ t \in WorkerTask /\ t.at = "none" /\ task' = [task EXCEPT ![w] = t]
  BY <1>2 DEF WorkerReturns, Jobless, WorkerTask, Outcome
<1>4. ScheduleTypeOK'
  BY <1>1, <1>3 DEF RepairInv, ScheduleTypeOK, WorkerTask
<1>5. task'[w] = t /\ \A v \in Worker \ {w} : task'[v] = task[v]
  BY <1>3 DEF RepairInv, ScheduleTypeOK
<1>6. AliveWorkers' = {} /\ Busy' = {}
  BY <1>1, <1>3, <1>5 DEF AliveWorkers, Busy
<1>7. OneJobPerSet' /\ jobs = {}
  BY <1>1 DEF RepairInv, OneJobPerSet
<1>8. OneWorker' /\ NoOrphanedJob'
  BY <1>1, <1>6, <1>7 DEF OneWorker, NoOrphanedJob
<1>9. EarlyFoldsSeen'
  BY <1>1 DEF RepairInv, EarlyFoldsSeen
<1> QED
  BY <1>4, <1>7, <1>8, <1>9 DEF RepairInv

(* A job goes to the queue only when its set has none, and a worker is      *)
(* spawned for it only when there is none.                                  *)
LEMMA InsertPreserves ==
    ASSUME RepairInv, NEW c \in Reporter, InsertJob(c)
    PROVE  RepairInv'
<1>1. PICK k \in Key : k = call[c].key
  BY DEF InsertJob, RepairInv, ScheduleTypeOK, Call
<1>2. call' \in [Reporter -> Call]
  BY DEF InsertJob, ReturnCall, NoCall, Call, RepairInv, ScheduleTypeOK
<1>3. UNCHANGED <<cooled, settled>>
  BY DEF InsertJob
<1>4. CASE k \in jobs
  <2>1. UNCHANGED <<scheduleVars, task>>
        /\ owed' = IF running_job = k THEN [owed EXCEPT ![k] = @ \union {"between"}] ELSE owed
    BY <1>1, <1>4 DEF InsertJob
  <2>2. owed' \in [Key -> SUBSET FoldedHow]
        /\ \A x \in Key : "early" \in owed'[x] => "early" \in owed[x]
    BY <1>1, <2>1 DEF RepairInv, ScheduleTypeOK, FoldedHow
  <2>3. ScheduleTypeOK'
    BY <1>2, <1>3, <2>1, <2>2 DEF RepairInv, ScheduleTypeOK, scheduleVars
  <2> QED
    BY <2>1, <2>2, <2>3, BystanderPreserves
<1>5. CASE k \notin jobs
  <2>1. /\ jobs' = jobs \union {k} /\ folded' = [folded EXCEPT ![k] = FALSE]
        /\ job_queue' = Append(job_queue, k) /\ SpawnWorker /\ UNCHANGED <<running_job, owed>>
    BY <1>1, <1>5 DEF InsertJob
  <2>2. job_queue \in Seq(Key) /\ Distinct(job_queue) /\ running_job \notin Keys(job_queue)
        /\ jobs = Keys(job_queue) \union ({running_job} \ {NoKey})
    BY JobsByKeys DEF RepairInv, ScheduleTypeOK
  <2>3. /\ job_queue' \in Seq(Key) /\ Distinct(job_queue') /\ Keys(job_queue') = Keys(job_queue) \union {k}
    BY <1>5, <2>1, <2>2, AppendKeys
  <2>4. running_job # k
    BY <1>5, <2>2, ScheduleAssumption
  <2>5. OneJobPerSet'
    <3>1. jobs' = Keys(job_queue') \union ({running_job'} \ {NoKey}) /\ running_job' \notin Keys(job_queue')
      BY <2>1, <2>2, <2>3, <2>4
    <3> QED
      BY <2>3, <3>1 DEF OneJobPerSet, Keys, Distinct
  <2>6. EarlyFoldsSeen'
    <3>1. ASSUME NEW x \in Key, "early" \in owed'[x]
          PROVE  \E w \in Worker :
                    /\ task'[w].key = x
                    /\ \/ task'[w].at \in {"attempt", "look"} /\ folded'[x]
                       \/ task'[w].at = "finish" /\ task'[w].outcome # "succeeded"
      <4>1. PICK w \in Worker :
              /\ task[w].key = x
              /\ \/ task[w].at \in {"attempt", "look"} /\ folded[x]
                 \/ task[w].at = "finish" /\ task[w].outcome # "succeeded"
        BY <2>1, <3>1 DEF RepairInv, EarlyFoldsSeen
      <4>2. worker /\ x # k
        BY <2>4, <4>1, OnlyWorker
      <4>3. task' = task /\ folded'[x] = folded[x]
        BY <2>1, <4>2 DEF SpawnWorker, RepairInv, ScheduleTypeOK
      <4> QED
        BY <4>1, <4>3
    <3> QED
      BY <3>1 DEF EarlyFoldsSeen
  <2>7. CASE worker
    <3>1. worker' = TRUE /\ task' = task
      BY <2>1, <2>7 DEF SpawnWorker
    <3>2. ScheduleTypeOK'
      BY <1>2, <1>3, <2>1, <2>3, <3>1 DEF RepairInv, ScheduleTypeOK
    <3>3. OneWorker' /\ NoOrphanedJob'
      BY <2>1, <2>7, <3>1 DEF RepairInv, OneWorker, NoOrphanedJob, AliveWorkers, Busy
    <3> QED
      BY <2>5, <2>6, <3>2, <3>3 DEF RepairInv
  <2>8. CASE ~worker
    <3>1. PICK w \in Worker : task[w].at = "none" /\ task' = [task EXCEPT ![w] = Jobless("pop")]
      BY <2>1, <2>8 DEF SpawnWorker
    <3>2. PICK t : t = Jobless("pop")
      OBVIOUS
    <3>3. t \in WorkerTask /\ t.at = "pop" /\ task' = [task EXCEPT ![w] = t]
      BY <3>1, <3>2 DEF Jobless, WorkerTask, Outcome
    <3>4. worker' = TRUE
      BY <2>1 DEF SpawnWorker
    <3>5. ScheduleTypeOK'
      BY <1>2, <1>3, <2>1, <2>3, <3>3, <3>4 DEF RepairInv, ScheduleTypeOK, WorkerTask
    <3>6. task'[w] = t /\ \A v \in Worker \ {w} : task'[v] = task[v]
      BY <3>3 DEF RepairInv, ScheduleTypeOK
    <3>7. \A v \in Worker : task[v].at = "none"
      BY <2>8 DEF RepairInv, OneWorker, AliveWorkers
    <3>8. Busy = {} /\ AliveWorkers' = {w} /\ Busy' = {}
      BY <3>3, <3>6, <3>7 DEF AliveWorkers, Busy
    <3>9. running_job = NoKey
      BY <3>8 DEF RepairInv, OneWorker
    <3>10. OneWorker' /\ NoOrphanedJob'
      BY <2>1, <3>4, <3>8, <3>9 DEF OneWorker, NoOrphanedJob
    <3> QED
      BY <2>5, <2>6, <3>5, <3>10 DEF RepairInv
  <2> QED
    BY <2>7, <2>8
<1> QED
  BY <1>4, <1>5

(* Time lets a set be tried again.                                          *)
LEMMA TimePreserves ==
    ASSUME RepairInv, (\E k \in Key : CooldownEnds(k)) \/ (\E r \in HistoryItem : VerdictEnds(r))
    PROVE  RepairInv'
<1>1. UNCHANGED <<scheduleVars, call, task, owed>>
  BY DEF CooldownEnds, VerdictEnds
<1>2. ScheduleTypeOK'
  BY <1>1 DEF CooldownEnds, VerdictEnds, RepairInv, ScheduleTypeOK, scheduleVars
<1> QED
  BY <1>1, <1>2, BystanderPreserves

-----------------------------------------------------------------------------
(* The invariant is inductive.                                              *)
LEMMA RepairStep == RepairInv /\ [ScheduleNext]_jobVars => RepairInv'
<1> SUFFICES ASSUME RepairInv, [ScheduleNext]_jobVars PROVE RepairInv'
  OBVIOUS
<1>1. CASE UNCHANGED jobVars
  <2>1. ScheduleTypeOK'
    BY <1>1 DEF jobVars, RepairInv, ScheduleTypeOK
  <2> QED
    BY <1>1, <2>1, BystanderPreserves DEF jobVars, scheduleVars
<1>2. CASE \E c \in Reporter : CallerStep(c)
  BY <1>2, CallPreserves, FoldPreserves, InsertPreserves DEF CallerStep
<1>3. CASE \E w \in Worker : WorkerStep(w) \/ DeadlinePasses(w)
  BY <1>3, ReturnPreserves, StartPreserves, AttemptEndsPreserves, AttemptDiesPreserves,
     LookPreserves, FinishPreserves, DeadlinePreserves
  DEF WorkerStep
<1> QED
  BY <1>1, <1>2, <1>3, TimePreserves DEF ScheduleNext

(* The strengthened invariant holds in every state of the scheduler, for    *)
(* any sets, calls and workers.                                             *)
THEOREM RepairInvariant == ScheduleSpec => []RepairInv
BY RepairInit, RepairStep, PTL DEF ScheduleSpec

(* No state of the scheduler is malformed.                                  *)
THEOREM ScheduleTypes == ScheduleSpec => []ScheduleTypeOK
<1>1. RepairInv => ScheduleTypeOK
  BY DEF RepairInv
<1> QED
  BY <1>1, RepairInvariant, PTL

(* A set never has two jobs, and every popped key finds its job.            *)
THEOREM JobsAreSingle == ScheduleSpec => []OneJobPerSet
<1>1. RepairInv => OneJobPerSet
  BY DEF RepairInv
<1> QED
  BY <1>1, RepairInvariant, PTL

(* There is one worker at most, the flag tells, and no job is left without  *)
(* it.                                                                      *)
THEOREM JobsHaveTheirWorker == ScheduleSpec => []JobHasItsWorker
<1>1. RepairInv => JobHasItsWorker
  BY DEF RepairInv, JobHasItsWorker
<1> QED
  BY <1>1, RepairInvariant, PTL

(* A job that succeeds owes nothing that was folded into it while it could  *)
(* see it.                                                                  *)
THEOREM EarlyFoldsRepaired == ScheduleSpec => EarlyFoldRepaired
<1>1. ASSUME RepairInv, [ScheduleNext]_jobVars, NEW k \in Key, Completes(k), Succeeds(k)
      PROVE  "early" \notin owed[k]
  <2>1. PICK w \in Worker : /\ task[w].at = "finish" /\ task[w].key = k
                            /\ task[w].outcome = "succeeded"
    BY <1>1 DEF Succeeds
  <2>2. \A v \in Worker \ {w} : task[v].at = "none"
    BY <1>1, <2>1, OnlyWorker
  <2> QED
    BY <1>1, <2>1, <2>2 DEF RepairInv, EarlyFoldsSeen
<1>2. RepairInv /\ [ScheduleNext]_jobVars =>
        [\A k \in Key : Completes(k) /\ Succeeds(k) => "early" \notin owed[k]]_jobVars
  BY <1>1
<1> QED
  BY <1>2, RepairInvariant, PTL DEF ScheduleSpec, EarlyFoldRepaired

-----------------------------------------------------------------------------
(* The tree: rows and what is below them.                                   *)

(* The rows S and those right below them.                                   *)
WithChildren(R, S) == S \union {x \in DOMAIN R : R[x].parent \in S}

(* f[k] is top and k levels below it.                                       *)
Levels(f, R, top, n) == f = [k \in 0..n |-> IF k = 0 THEN top ELSE WithChildren(R, f[k - 1])]

LEMMA LevelsExist ==
    ASSUME NEW R, NEW top, NEW n \in Nat
    PROVE  \E f : Levels(f, R, top, n)
<1> DEFINE Missing == {m \in Nat : ~\E f : Levels(f, R, top, m)}
<1>1. Missing = {}
  <2> SUFFICES ASSUME Missing # {} PROVE FALSE
    OBVIOUS
  <2>1. PICK m \in Missing : \A k \in Missing : m <= k
    <3>1. Missing \in SUBSET Nat
      OBVIOUS
    <3> QED
      BY <3>1, LeastOf
  <2>2. m \in Nat /\ ~\E f : Levels(f, R, top, m)
    OBVIOUS
  <2>3. CASE m = 0
    <3> DEFINE g == [k \in 0..0 |-> top]
    <3>1. Levels(g, R, top, 0)
      BY DEF Levels
    <3> QED
      BY <2>2, <2>3, <3>1
  <2>4. CASE m > 0
    <3>1. m - 1 \in Nat /\ ~(m <= m - 1)
      BY <2>2, <2>4
    <3>2. m - 1 \notin Missing
      BY <2>1, <3>1
    <3>3. PICK f : Levels(f, R, top, m - 1)
      BY <3>1, <3>2
    <3> DEFINE g == [k \in 0..m |-> IF k = 0 THEN top ELSE WithChildren(R, f[k - 1])]
    <3>4. \A k \in 0..(m - 1) : f[k] = g[k]
      BY <2>2, <3>3 DEF Levels
    <3>5. \A k \in 0..m : k # 0 => k - 1 \in 0..(m - 1)
      BY <2>2
    <3>6. g = [k \in 0..m |-> IF k = 0 THEN top ELSE WithChildren(R, g[k - 1])]
      BY <3>4, <3>5
    <3>7. Levels(g, R, top, m)
      BY <3>6 DEF Levels
    <3> QED
      BY <2>2, <3>7
  <2> QED
    BY <2>2, <2>3, <2>4
<1> QED
  BY <1>1

(* A subtree has its top and, with a row, the rows below it.                *)
LEMMA SubtreeIs ==
    ASSUME NEW R, IsFiniteSet(DOMAIN R), NEW top
    PROVE  /\ top \subseteq Subtree(R, top)
           /\ \A x \in DOMAIN R : R[x].parent \in Subtree(R, top) => x \in Subtree(R, top)
<1> DEFINE N == Cardinality(DOMAIN R)
           Sol(f) == f = [n \in 0..N |-> IF n = 0 THEN top
                             ELSE LET above == f[n - 1]
                                  IN  above \union {x \in DOMAIN R : R[x].parent \in above}]
           it == CHOOSE f : Sol(f)
           Closed(S) == \A x \in DOMAIN R : R[x].parent \in S => x \in S
           Kept(n) == /\ top \subseteq it[n]
                      /\ Closed(it[n]) \/ Cardinality(it[n] \intersect DOMAIN R) >= n
           Broken == {n \in 0..N : ~Kept(n)}
<1>1. N \in Nat
  BY FS_CardinalityType
<1>2. \A f : Sol(f) <=> Levels(f, R, top, N)
  BY DEF Levels, WithChildren
<1>3. Sol(it)
  BY <1>1, <1>2, LevelsExist
<1>4. Subtree(R, top) = it[N]
  BY DEF Subtree
<1>5. it[0] = top /\ \A n \in 0..N : n # 0 => it[n] = WithChildren(R, it[n - 1])
  <2>1. Levels(it, R, top, N)
    BY <1>2, <1>3
  <2> HIDE DEF it, N
  <2> QED
    BY <1>1, <2>1 DEF Levels
<1>6. \A S : IsFiniteSet(S \intersect DOMAIN R) /\ Cardinality(S \intersect DOMAIN R) \in Nat
             /\ Cardinality(S \intersect DOMAIN R) <= N
             /\ (Cardinality(S \intersect DOMAIN R) = N => DOMAIN R \subseteq S)
  <2> SUFFICES ASSUME NEW S
               PROVE  IsFiniteSet(S \intersect DOMAIN R) /\ Cardinality(S \intersect DOMAIN R) \in Nat
                      /\ Cardinality(S \intersect DOMAIN R) <= N
                      /\ (Cardinality(S \intersect DOMAIN R) = N => DOMAIN R \subseteq S)
    OBVIOUS
  <2> DEFINE T == S \intersect DOMAIN R
  <2>1. T \in SUBSET DOMAIN R
    OBVIOUS
  <2>2. /\ IsFiniteSet(T) /\ Cardinality(T) <= Cardinality(DOMAIN R)
        /\ (Cardinality(DOMAIN R) = Cardinality(T) => DOMAIN R = T)
    <3> HIDE DEF T
    <3> QED
      BY <2>1, FS_Subset
  <2>3. Cardinality(T) \in Nat
    BY <2>2, FS_CardinalityType
  <2> QED
    BY <2>2, <2>3
<1> HIDE DEF N, it
<1>7. Broken = {}
  <2> SUFFICES ASSUME Broken # {} PROVE FALSE
    OBVIOUS
  <2>1. PICK m \in Broken : \A k \in Broken : m <= k
    <3>1. Broken \in SUBSET Nat
      BY <1>1
    <3> HIDE DEF Broken
    <3> QED
      BY <3>1, LeastOf
  <2>2. m \in 0..N /\ ~Kept(m)
    OBVIOUS
  <2>3. Kept(0)
    BY <1>5, <1>6
  <2>4. m # 0
    BY <2>2, <2>3
  <2>5. m - 1 \in 0..N /\ ~(m <= m - 1) /\ m \in Nat
    BY <1>1, <2>2, <2>4
  <2>6. Kept(m - 1)
    BY <2>1, <2>5
  <2>7. it[m] = WithChildren(R, it[m - 1])
    BY <1>5, <2>2, <2>4
  <2>8. top \subseteq it[m]
    BY <2>6, <2>7 DEF WithChildren
  <2>9. CASE Closed(it[m - 1])
    <3>1. it[m] = it[m - 1]
      BY <2>7, <2>9 DEF WithChildren
    <3> QED
      BY <2>2, <2>8, <2>9, <3>1
  <2>10. CASE ~Closed(it[m - 1])
    <3>1. PICK x \in DOMAIN R : R[x].parent \in it[m - 1] /\ x \notin it[m - 1]
      BY <2>10
    <3> DEFINE S == it[m - 1] \intersect DOMAIN R
               T == it[m] \intersect DOMAIN R
    <3>2. S \union {x} \subseteq T /\ x \notin S
      BY <2>7, <3>1 DEF WithChildren
    <3>3. /\ IsFiniteSet(S) /\ Cardinality(S) \in Nat
          /\ IsFiniteSet(T) /\ Cardinality(T) \in Nat
      BY <1>6
    <3>4. Cardinality(S) >= m - 1
      BY <2>6, <2>10
    <3> HIDE DEF S, T
    <3>5. Cardinality(S \union {x}) = Cardinality(S) + 1
      BY <3>2, <3>3, FS_AddElement
    <3>6. Cardinality(S \union {x}) <= Cardinality(T)
      BY <3>2, <3>3, FS_Subset
    <3>7. Cardinality(T) >= m
      BY <2>5, <3>3, <3>4, <3>5, <3>6
    <3> QED
      BY <2>2, <2>8, <3>7 DEF T
  <2> QED
    BY <2>9, <2>10
<1>8. Kept(N)
  BY <1>1, <1>7
<1>9. Closed(it[N])
  <2>1. CASE Cardinality(it[N] \intersect DOMAIN R) >= N
    BY <1>1, <1>6, <2>1
  <2> QED
    BY <1>8, <2>1
<1> QED
  BY <1>4, <1>8, <1>9

Shape(row) == row = [parent |-> row.parent, name |-> row.name, path |-> row.path,
                     kind |-> row.kind, release |-> row.release, nzb |-> row.nzb]

RootPath == Path(<<>>, TRUE)

(* Each row but the root is below the row its path names, under the name    *)
(* its path ends with, and no two rows have one path.                       *)
Placed(R, x) ==
    /\ R[x].parent \in DOMAIN R /\ R[R[x].parent].path = ParentOf(R[x].path)
    /\ R[x].name = NameOf(R[x].path) /\ R[x].path.at # <<>>

TreeSound(R) ==
    /\ IsFiniteSet(DOMAIN R) /\ NoRow \notin DOMAIN R
    /\ \A x \in DOMAIN R : Shape(R[x])
    /\ RootId \in DOMAIN R => R[RootId].path = RootPath
    /\ \A x \in DOMAIN R \ {RootId} : Placed(R, x)
    /\ \A x, y \in DOMAIN R : R[x].path = R[y].path => x = y

(* A part of the tree that has the parents of its rows is a tree.           *)
LEMMA PartIsSound ==
    ASSUME NEW R, TreeSound(R), NEW S, S \subseteq DOMAIN R,
           \A x \in S \ {RootId} : R[x].parent \in S
    PROVE  TreeSound([x \in S |-> R[x]])
<1> DEFINE T == [x \in S |-> R[x]]
<1>1. DOMAIN T = S /\ \A x \in S : T[x] = R[x]
  OBVIOUS
<1>2. IsFiniteSet(S)
  <2>1. S \in SUBSET DOMAIN R
    OBVIOUS
  <2> QED
    BY <2>1, FS_Subset DEF TreeSound
<1> HIDE DEF T
<1>3. TreeSound(T)
  BY <1>1, <1>2 DEF TreeSound, Placed
<1> QED
  BY <1>3 DEF T

(* Deleting rows with all below them.                                       *)
LEMMA WithoutIsSound ==
    ASSUME NEW R, TreeSound(R), NEW top
    PROVE  /\ TreeSound(Without(R, top))
           /\ DOMAIN Without(R, top) \subseteq DOMAIN R \ top
           /\ \A x \in DOMAIN Without(R, top) : Without(R, top)[x] = R[x]
<1> DEFINE S == DOMAIN R \ Subtree(R, top)
<1>1. /\ top \subseteq Subtree(R, top)
      /\ \A x \in DOMAIN R : R[x].parent \in Subtree(R, top) => x \in Subtree(R, top)
  <2>1. IsFiniteSet(DOMAIN R)
    BY DEF TreeSound
  <2> QED
    BY <2>1, SubtreeIs
<1>2. \A x \in S \ {RootId} : R[x].parent \in S
  BY <1>1 DEF TreeSound, Placed
<1>3. Without(R, top) = [x \in S |-> R[x]]
  BY DEF Without, Restrict
<1>4. TreeSound([x \in S |-> R[x]])
  <2>1. S \subseteq DOMAIN R
    OBVIOUS
  <2> HIDE DEF S
  <2> QED
    BY <1>2, <2>1, PartIsSound
<1> QED
  BY <1>1, <1>3, <1>4

(* A row inserted below the row its path names, in place of one of its name.*)
LEMMA InsertedIsSound ==
    ASSUME NEW R, TreeSound(R), NEW id, id \notin DOMAIN R \union {NoRow, RootId},
           NEW row, Shape(row), row.path.at # <<>>, row.name = NameOf(row.path),
           row.parent \in DOMAIN Without(R, Clashing(R, row)),
           R[row.parent].path = ParentOf(row.path)
    PROVE  /\ TreeSound(Inserted(R, id, row))
           /\ DOMAIN Inserted(R, id, row) \subseteq DOMAIN R \union {id}
           /\ \A x \in DOMAIN Inserted(R, id, row) \ {id} : Inserted(R, id, row)[x] = R[x]
<1> DEFINE K == Without(R, Clashing(R, row))
           T == Inserted(R, id, row)
<1>1. /\ TreeSound(K) /\ DOMAIN K \subseteq DOMAIN R \ Clashing(R, row)
      /\ \A x \in DOMAIN K : K[x] = R[x]
  BY WithoutIsSound
<1>2. /\ DOMAIN T = DOMAIN K \union {id} /\ T[id] = row
      /\ \A x \in DOMAIN K : T[x] = K[x] /\ x # id
  BY <1>1 DEF Inserted
<1>3. row.parent \in DOMAIN K
  OBVIOUS
<1> HIDE DEF K, T
<1>4. IsFiniteSet(DOMAIN T)
  <2>1. IsFiniteSet(DOMAIN K)
    BY <1>1 DEF TreeSound
  <2> QED
    BY <1>2, <2>1, FS_AddElement
<1>5. ASSUME NEW x \in DOMAIN K, K[x].path = row.path PROVE FALSE
  <2>1. x # RootId
    BY <1>1, <1>5 DEF TreeSound, RootPath, Path
  <2>2. Placed(K, x)
    BY <1>1, <2>1 DEF TreeSound
  <2>3. K[K[x].parent].path = K[row.parent].path
    BY <1>1, <1>3, <1>5, <2>2 DEF Placed
  <2>4. K[x].parent = row.parent
    BY <1>1, <1>3, <2>2, <2>3 DEF TreeSound, Placed
  <2>5. R[x].parent = row.parent /\ R[x].name = row.name /\ x \in DOMAIN R
    BY <1>1, <1>5, <2>2, <2>4 DEF Placed
  <2>6. x \in Clashing(R, row)
    BY <2>5 DEF Clashing
  <2> QED
    BY <1>1, <2>6
<1>6. ASSUME NEW x \in DOMAIN T \ {RootId} PROVE Placed(T, x)
  <2>1. CASE x = id
    BY <1>1, <1>2, <1>3, <2>1 DEF Placed
  <2>2. CASE x # id
    <3>1. x \in DOMAIN K /\ Placed(K, x)
      BY <1>1, <1>2, <2>2 DEF TreeSound
    <3> QED
      BY <1>2, <3>1 DEF Placed
  <2> QED
    BY <2>1, <2>2
<1>7. \A x, y \in DOMAIN T : T[x].path = T[y].path => x = y
  BY <1>1, <1>2, <1>5 DEF TreeSound
<1>8. TreeSound(T)
  <2>1. NoRow \notin DOMAIN T /\ (RootId \in DOMAIN T => T[RootId].path = RootPath)
    BY <1>1, <1>2 DEF TreeSound
  <2>2. \A x \in DOMAIN T : Shape(T[x])
    BY <1>1, <1>2 DEF TreeSound
  <2> QED
    BY <1>4, <1>6, <1>7, <2>1, <2>2 DEF TreeSound
<1> QED
  BY <1>1, <1>2, <1>8 DEF T

(* A file that is given another path.                                       *)
LEMMA MovedIsSound ==
    ASSUME NEW R, TreeSound(R), NEW i \in DOMAIN R, ~R[i].path.slash,
           NEW row, Shape(row), row.path.at # <<>>, row.name = NameOf(row.path), ~row.path.slash,
           row.parent \in DOMAIN R, R[row.parent].path = ParentOf(row.path),
           Clashing(R, row) \subseteq {i}
    PROVE  TreeSound([R EXCEPT ![i] = row])
<1> DEFINE T == [R EXCEPT ![i] = row]
<1>1. DOMAIN T = DOMAIN R /\ T[i] = row /\ \A x \in DOMAIN R \ {i} : T[x] = R[x]
  OBVIOUS
<1> HIDE DEF T
<1>2. i # RootId
  BY DEF TreeSound, RootPath, Path
<1>3. \A p : ParentOf(p) # R[i].path
  <2> SUFFICES ASSUME NEW p, ParentOf(p) = R[i].path PROVE FALSE
    OBVIOUS
  <2>1. ParentOf(p).slash
    BY DEF ParentOf, Path
  <2>2. R[i].path.slash
    BY <2>1
  <2> QED
    BY <2>2
<1>4. row.parent # i /\ \A x \in DOMAIN R \ {RootId} : R[x].parent # i
  BY <1>3 DEF TreeSound, Placed
<1>5. ASSUME NEW x \in DOMAIN R \ {i}, R[x].path = row.path PROVE FALSE
  <2>1. x # RootId
    BY <1>5 DEF TreeSound, RootPath, Path
  <2>2. Placed(R, x)
    BY <2>1 DEF TreeSound
  <2>3. R[x].parent = row.parent
    BY <1>5, <2>2 DEF TreeSound, Placed
  <2>4. x \in Clashing(R, row)
    BY <1>5, <2>2, <2>3 DEF Clashing, Placed
  <2> QED
    BY <2>4
<1>6. ASSUME NEW x \in DOMAIN T \ {RootId} PROVE Placed(T, x)
  <2>1. CASE x = i
    BY <1>1, <1>4, <2>1 DEF Placed
  <2>2. CASE x # i
    <3>1. Placed(R, x)
      BY <1>1 DEF TreeSound
    <3> QED
      BY <1>1, <1>4, <2>2, <3>1 DEF Placed
  <2> QED
    BY <2>1, <2>2
<1>7. \A x, y \in DOMAIN T : T[x].path = T[y].path => x = y
  BY <1>1, <1>5 DEF TreeSound
<1>8. \A x \in DOMAIN T : Shape(T[x])
  BY <1>1 DEF TreeSound
<1>9. TreeSound(T)
  BY <1>1, <1>2, <1>6, <1>7, <1>8 DEF TreeSound
<1> QED
  BY <1>9 DEF T

-----------------------------------------------------------------------------
(* The tree: requests.                                                      *)

(* What a request has read: the parent it found is the row its destination  *)
(* names, as long as it is a row, and MOVE's item is a file.                *)
AskSound(R, q) ==
    q # NoNode =>
        /\ q = [method |-> q.method, from |-> q.from, to |-> q.to, step |-> q.step,
                item |-> q.item, parent |-> q.parent, source |-> q.source]
        /\ [method |-> q.method, from |-> q.from, to |-> q.to] \in Upload
        /\ q.step # "look" =>
              /\ q.parent # NoRow
              /\ q.parent \in DOMAIN R => R[q.parent].path = ParentOf(q.to)
              /\ q.method = "MOVE" /\ q.item \in DOMAIN R => ~R[q.item].path.slash
              /\ q.method = "COPY" => Shape(q.source)
        /\ q.step = "write" /\ q.to.at = <<>> => q.parent \notin DOMAIN R

TreeInv ==
    /\ TreeSound(rows)
    /\ asked = [c \in Client |-> asked[c]]
    /\ \A c \in Client : AskSound(rows, asked[c])

(* The remembered rows that T has are those of R, and files may have moved. *)
Keeps(R, T, ids) ==
    \A x \in DOMAIN T \intersect ids :
        /\ x \in DOMAIN R
        /\ T[x].path = R[x].path \/ (~T[x].path.slash /\ ~R[x].path.slash)

(* A path has a slash after its parent.                                     *)
LEMMA ParentHasSlash == \A p : ParentOf(p).slash = TRUE
BY DEF ParentOf, Path

(* The root is its own parent.                                              *)
LEMMA RootOfRoot ==
    ASSUME NEW p \in Paths, p.at = <<>>
    PROVE  ParentOf(p) = RootPath
<1>1. SubSeq(<<>>, 1, Len(<<>>) - 1) = <<>>
  OBVIOUS
<1> QED
  BY <1>1 DEF ParentOf, RootPath

(* What a request has read stays so.                                        *)
LEMMA AskKept ==
    ASSUME NEW R, NEW T, NEW q, AskSound(R, q), NEW ids, q.item \in ids, q.parent \in ids, Keeps(R, T, ids)
    PROVE  AskSound(T, q)
<1> SUFFICES ASSUME q # NoNode PROVE AskSound(T, q)
  BY DEF AskSound
<1>1. ASSUME q.step # "look", q.parent \in DOMAIN T PROVE T[q.parent].path = ParentOf(q.to)
  <2>1. q.parent \in DOMAIN R /\ R[q.parent].path = ParentOf(q.to)
    BY <1>1 DEF AskSound, Keeps
  <2>2. R[q.parent].path.slash
    BY <2>1, ParentHasSlash
  <2> QED
    BY <1>1, <2>1, <2>2 DEF Keeps
<1>2. ASSUME q.step # "look", q.method = "MOVE", q.item \in DOMAIN T PROVE ~T[q.item].path.slash
  <2>1. q.item \in DOMAIN R /\ ~R[q.item].path.slash
    BY <1>2 DEF AskSound, Keeps
  <2> QED
    BY <1>2, <2>1 DEF Keeps
<1>3. q.step = "write" /\ q.to.at = <<>> => q.parent \notin DOMAIN T
  BY DEF AskSound, Keeps
<1> QED
  BY <1>1, <1>2, <1>3 DEF AskSound

(* The ids requests remember.                                               *)
Remembered == {asked[c].item : c \in Client} \union {asked[c].parent : c \in Client}

(* Where the tree is sound again and the requests keep what they read, so   *)
(* does a step that answers one of them.                                    *)
LEMMA TreeStep ==
    ASSUME TreeInv, TreeSound(rows'), Keeps(rows, rows', Remembered),
           asked' = [c \in Client |-> asked'[c]],
           \A c \in Client : asked'[c] = asked[c] \/ AskSound(rows', asked'[c])
    PROVE  TreeInv'
<1> SUFFICES ASSUME NEW c \in Client PROVE AskSound(rows', asked'[c])
  BY DEF TreeInv
<1>1. CASE asked'[c] = asked[c]
  <2>1. AskSound(rows, asked[c])
    BY DEF TreeInv
  <2>2. asked[c].item \in Remembered /\ asked[c].parent \in Remembered
    BY DEF Remembered
  <2>3. AskSound(rows', asked[c])
    BY <2>1, <2>2, AskKept
  <2> QED
    BY <1>1, <2>3
<1> QED
  BY <1>1

(* An answered request has read nothing, and the others are as they were.   *)
LEMMA AnsweredSound ==
    ASSUME TreeInv, NEW c \in Client, Answered(c), NEW R
    PROVE  /\ asked' = [d \in Client |-> asked'[d]]
           /\ \A d \in Client : asked'[d] = asked[d] \/ AskSound(R, asked'[d])
BY DEF TreeInv, Answered, AskSound

(* Rows that stay as they are.                                              *)
LEMMA WithoutKeeps ==
    ASSUME NEW R, TreeSound(R), NEW top, NEW ids
    PROVE  Keeps(R, Without(R, top), ids)
BY WithoutIsSound DEF Keeps

(* A method's insertion, which a clash or a missing parent may fail.        *)
LEMMA InsertedTree ==
    ASSUME TreeSound(rows), DavAssumption, NEW id \in Fresh, NEW row, Shape(row), row.parent # NoRow,
           CanInsert(rows, row), row.path.at # <<>>, row.name = NameOf(row.path),
           row.parent \in DOMAIN rows => rows[row.parent].path = ParentOf(row.path)
    PROVE  /\ TreeSound(Inserted(rows, id, row))
           /\ Keeps(rows, Inserted(rows, id, row), Remembered)
<1>1. id \notin DOMAIN rows \union {NoRow, RootId} /\ id \notin Remembered
  BY DEF Fresh, DavAssumption, Remembered, Seeded
<1>2. row.parent \in DOMAIN Without(rows, Clashing(rows, row))
  BY DEF CanInsert
<1>3. row.parent \in DOMAIN rows
  BY <1>2, WithoutIsSound
<1>4. rows[row.parent].path = ParentOf(row.path)
  BY <1>3
<1>5. /\ TreeSound(Inserted(rows, id, row))
      /\ DOMAIN Inserted(rows, id, row) \subseteq DOMAIN rows \union {id}
      /\ \A x \in DOMAIN Inserted(rows, id, row) \ {id} : Inserted(rows, id, row)[x] = rows[x]
  BY <1>1, <1>2, <1>4, InsertedIsSound
<1> QED
  BY <1>1, <1>5 DEF Keeps

(* A row below the row its path names.                                      *)
LEMMA RowIs ==
    ASSUME NEW d, NEW p, NEW kind, NEW release, NEW nzb
    PROVE  /\ Shape(Row(d, p, kind, release, nzb))
           /\ Row(d, p, kind, release, nzb).parent = d
           /\ Row(d, p, kind, release, nzb).path = p
           /\ p.at # <<>> => Row(d, p, kind, release, nzb).name = NameOf(p)
BY DEF Row, Shape

(* The write of a request that has a row to insert.                         *)
LEMMA InsertItemSound ==
    ASSUME TreeInv, DavAssumption, OnlyFilesMove, NEW c \in Client, asked[c] # NoNode, asked[c].step = "write",
           NEW row, row.parent = asked[c].parent,
           asked[c].to.at # <<>> => Shape(row) /\ row.path = asked[c].to /\ row.name = NameOf(asked[c].to),
           InsertItem(c, row)
    PROVE  TreeSound(rows') /\ Keeps(rows, rows', Remembered)
<1> DEFINE q == asked[c]
<1>1. AskSound(rows, q) /\ TreeSound(rows)
  BY DEF TreeInv
<1>2. CASE ~CanInsert(rows, row)
  BY <1>1, <1>2 DEF InsertItem, Keeps
<1>3. CASE CanInsert(rows, row)
  <2>1. q.parent # NoRow /\ (q.parent \in DOMAIN rows => rows[q.parent].path = ParentOf(q.to))
    BY <1>1 DEF AskSound
  <2>2. q.parent \in DOMAIN rows
    <3>1. row.parent \in DOMAIN Without(rows, Clashing(rows, row))
      BY <1>3, <2>1 DEF CanInsert
    <3> QED
      BY <1>1, <3>1, WithoutIsSound
  <2>3. q.to.at # <<>>
    BY <1>1, <2>2 DEF AskSound
  <2>4. PICK id \in Fresh : rows' = Inserted(rows, id, row)
    BY <1>3 DEF InsertItem
  <2>5. /\ Shape(row) /\ row.parent # NoRow /\ row.path.at # <<>> /\ row.name = NameOf(row.path)
        /\ row.parent \in DOMAIN rows => rows[row.parent].path = ParentOf(row.path)
    BY <2>1, <2>3
  <2>6. TreeSound(Inserted(rows, id, row)) /\ Keeps(rows, Inserted(rows, id, row), Remembered)
    BY <1>1, <1>3, <2>5, InsertedTree
  <2> QED
    BY <2>4, <2>6
<1> QED
  BY <1>2, <1>3

(* A request that comes in.                                                 *)
LEMMA ReceiveKeeps == ASSUME TreeInv, NEW c \in Client, NEW u \in Upload, DavAssumption, Receive(c, u) PROVE TreeInv'
<1>1. u = [method |-> u.method, from |-> u.from, to |-> u.to]
  BY DEF DavAssumption
<1>2. rows' = rows
  BY DEF Receive
<1>3. AskSound(rows, asked'[c])
  <2>1. asked'[c] = [method |-> u.method, from |-> u.from, to |-> u.to, step |-> "look",
                     item |-> NoRow, parent |-> NoRow, source |-> NoNode]
    BY DEF Receive, TreeInv
  <2> QED
    BY <1>1, <2>1 DEF AskSound
<1>4. asked' = [d \in Client |-> asked'[d]] /\ \A d \in Client \ {c} : asked'[d] = asked[d]
  BY DEF Receive, TreeInv
<1>5. Keeps(rows, rows, Remembered) /\ TreeSound(rows)
  BY DEF Keeps, TreeInv
<1> QED
  BY <1>2, <1>3, <1>4, <1>5, TreeStep

(* The lookup of the parent and the item.                                   *)
LEMMA LookKeeps == ASSUME TreeInv, NEW c \in Client, OnlyFilesMove, Look(c) PROVE TreeInv'
<1> DEFINE q == asked[c]
<1>1. rows' = rows /\ q # NoNode /\ AskSound(rows, q) /\ TreeSound(rows)
  BY DEF Look, TreeInv
<1>2. Keeps(rows, rows, Remembered)
  BY DEF Keeps
<1>3. CASE Answered(c)
  BY <1>1, <1>2, <1>3, AnsweredSound, TreeStep
<1>4. CASE ~Answered(c)
  <2>1. PICK p \in AtPath(ParentOf(q.to)), i \in AtPath(q.from) \union {NoRow} :
           /\ (i = NoRow) <=> q.method \in {"MKCOL", "PUT"}
           /\ asked' = [asked EXCEPT ![c] = [q EXCEPT !.step = "clear", !.item = i, !.parent = p,
                                        !.source = IF q.method = "COPY" THEN rows[i] ELSE NoNode]]
    BY <1>4 DEF Look
  <2> DEFINE n == asked'[c]
  <2>2. n = [q EXCEPT !.step = "clear", !.item = i, !.parent = p,
                      !.source = IF q.method = "COPY" THEN rows[i] ELSE NoNode]
    BY <2>1 DEF TreeInv
  <2>3. n = [method |-> q.method, from |-> q.from, to |-> q.to, step |-> "clear", item |-> i, parent |-> p,
             source |-> IF q.method = "COPY" THEN rows[i] ELSE NoNode]
    BY <1>1, <2>2 DEF AskSound
  <2>4. p \in DOMAIN rows /\ p # NoRow /\ rows[p].path = ParentOf(q.to)
    BY <1>1 DEF AtPath, TreeSound
  <2>5. ASSUME q.method = "MOVE", i \in DOMAIN rows PROVE ~rows[i].path.slash
    <3>1. rows[i].path = q.from
      BY <1>1, <2>5 DEF AtPath, TreeSound
    <3>2. [method |-> q.method, from |-> q.from, to |-> q.to] \in Upload
      BY <1>1 DEF AskSound
    <3>3. ~q.from.slash
      BY <2>5, <3>2 DEF OnlyFilesMove
    <3> QED
      BY <3>1, <3>3
  <2>6. q.method = "COPY" => Shape(rows[i])
    BY <1>1, <2>1 DEF AtPath, TreeSound
  <2>7. [method |-> q.method, from |-> q.from, to |-> q.to] \in Upload
    BY <1>1 DEF AskSound
  <2>8. AskSound(rows, n)
    BY <2>3, <2>4, <2>5, <2>6, <2>7 DEF AskSound
  <2>9. asked' = [d \in Client |-> asked'[d]] /\ \A d \in Client \ {c} : asked'[d] = asked[d]
    BY <2>1 DEF TreeInv
  <2> QED
    BY <1>1, <1>2, <2>8, <2>9, TreeStep
<1> QED
  BY <1>3, <1>4

(* What is at the destination is deleted.                                   *)
LEMMA ClearKeeps == ASSUME TreeInv, DavAssumption, OnlyFilesMove, NEW c \in Client, Clear(c) PROVE TreeInv'
<1> DEFINE q == asked[c]
           there == AtPath(q.to)
           n == asked'[c]
<1>1. q # NoNode /\ q.step = "clear" /\ AskSound(rows, q) /\ TreeSound(rows)
  BY DEF Clear, TreeInv
<1>2. CASE Answered(c)
  <2>1. CASE rows' = rows
    <3>1. Keeps(rows, rows, Remembered)
      BY DEF Keeps
    <3> QED
      BY <1>1, <1>2, <2>1, <3>1, AnsweredSound, TreeStep
  <2>2. CASE \E x \in there : rows' = Without(rows, {x})
    <3>1. TreeSound(rows') /\ Keeps(rows, rows', Remembered)
      BY <1>1, <2>2, WithoutIsSound, WithoutKeeps
    <3> QED
      BY <1>2, <3>1, AnsweredSound, TreeStep
  <2> QED
    BY <2>1, <2>2 DEF Clear
<1>3. CASE asked' = [asked EXCEPT ![c].step = "write"]
  <2>1. n = [q EXCEPT !.step = "write"]
    BY <1>3 DEF TreeInv
  <2>2. n = [method |-> q.method, from |-> q.from, to |-> q.to, step |-> "write", item |-> q.item,
             parent |-> q.parent, source |-> q.source]
    BY <1>1, <2>1 DEF AskSound
  <2>3. q.to \in Paths
    BY <1>1 DEF AskSound, DavAssumption
  <2>4. TreeSound(rows') /\ Keeps(rows, rows', Remembered)
        /\ \A x \in DOMAIN rows' : x \in DOMAIN rows /\ x \notin there
    <3>1. CASE there = {} /\ rows' = rows
      BY <1>1, <3>1 DEF Keeps
    <3>2. CASE \E x \in there : rows' = Without(rows, {x})
      <4>1. PICK x \in there : rows' = Without(rows, {x})
        BY <3>2
      <4>2. /\ TreeSound(rows') /\ Keeps(rows, rows', Remembered)
            /\ DOMAIN rows' \subseteq DOMAIN rows \ {x}
        BY <1>1, <4>1, WithoutIsSound, WithoutKeeps
      <4>3. \A y \in there : y = x
        BY <1>1 DEF AtPath, TreeSound
      <4> QED
        BY <4>2, <4>3
    <3>3. asked'[c] # NoNode
      <4>1. q.method # "none"
        BY <1>1 DEF AskSound, DavAssumption
      <4>2. asked'[c].method # "none"
        BY <2>2, <4>1
      <4> QED
        BY <4>2 DEF NoNode
    <3>4. ~Answered(c)
      BY <3>3 DEF Answered, TreeInv
    <3> QED
      BY <1>1, <3>1, <3>2, <3>4 DEF Clear
  <2>5. AskSound(rows', q)
    <3>1. q.item \in Remembered /\ q.parent \in Remembered
      BY DEF Remembered
    <3> QED
      BY <1>1, <2>4, <3>1, AskKept
  <2>6. q.to.at = <<>> => q.parent \notin DOMAIN rows'
    <3>1. SUFFICES ASSUME q.to.at = <<>>, q.parent \in DOMAIN rows' PROVE FALSE
      OBVIOUS
    <3>2. rows[q.parent].path = RootPath /\ q.parent \in DOMAIN rows
      BY <1>1, <2>3, <2>4, <3>1, RootOfRoot DEF AskSound
    <3>3. q.to = RootPath
      <4>1. [method |-> q.method, from |-> q.from, to |-> q.to] \in Upload
        BY <1>1 DEF AskSound
      <4>2. q.to.slash
        BY <3>1, <4>1 DEF OnlyFilesMove
      <4> QED
        BY <2>3, <3>1, <4>2 DEF Paths, RootPath, Path
    <3> QED
      BY <2>4, <3>1, <3>2, <3>3 DEF AtPath
  <2>7. AskSound(rows', n)
    BY <1>1, <2>2, <2>5, <2>6 DEF AskSound
  <2>8. asked' = [d \in Client |-> asked'[d]] /\ \A d \in Client \ {c} : asked'[d] = asked[d]
    BY <1>3 DEF TreeInv
  <2> QED
    BY <2>4, <2>7, <2>8, TreeStep
<1> QED
  BY <1>2, <1>3 DEF Clear

(* A row that is given another place.                                       *)
Rehung(k, n, p, d) == [k EXCEPT !.name = n, !.path = p, !.parent = d]

(* It is the same item there.                                               *)
LEMMA PlacedRow ==
    ASSUME NEW k, Shape(k), NEW n, NEW p, NEW d
    PROVE  Rehung(k, n, p, d) =
           [parent |-> d, name |-> n, path |-> p, kind |-> k.kind, release |-> k.release, nzb |-> k.nzb]
<1> DEFINE named == [k EXCEPT !.name = n]
           moved == [named EXCEPT !.path = p]
<1>1. named = [parent |-> k.parent, name |-> n, path |-> k.path,
               kind |-> k.kind, release |-> k.release, nzb |-> k.nzb]
  BY DEF Shape
<1>2. Rehung(k, n, p, d) = [moved EXCEPT !.parent = d]
  BY DEF Rehung
<1> HIDE DEF named
<1>3. moved = [parent |-> k.parent, name |-> n, path |-> p,
               kind |-> k.kind, release |-> k.release, nzb |-> k.nzb]
  BY <1>1
<1> HIDE DEF moved
<1>4. [moved EXCEPT !.parent = d] =
      [parent |-> d, name |-> n, path |-> p, kind |-> k.kind, release |-> k.release, nzb |-> k.nzb]
  BY <1>3
<1> QED
  BY <1>2, <1>4

(* MKCOL, PUT and COPY insert.                                              *)
LEMMA WriteKeeps ==
    ASSUME TreeInv, DavAssumption, OnlyFilesMove, NEW c \in Client, MkcolWrite(c) \/ PutWrite(c) \/ CopyWrite(c)
    PROVE  TreeInv'
<1> DEFINE q == asked[c]
<1>1. q # NoNode /\ q.step = "write" /\ Answered(c)
  BY DEF MkcolWrite, PutWrite, CopyWrite
<1>2. TreeSound(rows') /\ Keeps(rows, rows', Remembered)
  <2>1. ASSUME NEW kind, NEW nzb, InsertItem(c, Row(q.parent, q.to, kind, NoRelease, nzb))
        PROVE  TreeSound(rows') /\ Keeps(rows, rows', Remembered)
    <3> DEFINE row == Row(q.parent, q.to, kind, NoRelease, nzb)
    <3>1. row.parent = q.parent
      BY DEF Row
    <3>2. q.to.at # <<>> => Shape(row) /\ row.path = q.to /\ row.name = NameOf(q.to)
      BY RowIs
    <3> HIDE DEF row
    <3>3. InsertItem(c, row)
      BY <2>1 DEF row
    <3> QED
      BY <1>1, <3>1, <3>2, <3>3, InsertItemSound
  <2>2. CASE MkcolWrite(c)
    BY <2>1, <2>2 DEF MkcolWrite
  <2>3. CASE PutWrite(c)
    BY <2>1, <2>3 DEF PutWrite
  <2>4. CASE CopyWrite(c)
    <3> DEFINE row == [q.source EXCEPT !.name = NameOf(q.to), !.path = q.to, !.parent = q.parent]
    <3>1. Shape(q.source)
      <4>1. AskSound(rows, q) /\ q.method = "COPY"
        BY <2>4 DEF CopyWrite, TreeInv
      <4> QED
        BY <1>1, <4>1 DEF AskSound
    <3>2. row = [parent |-> q.parent, name |-> NameOf(q.to), path |-> q.to, kind |-> q.source.kind,
                 release |-> q.source.release, nzb |-> q.source.nzb]
      <4>1. row = Rehung(q.source, NameOf(q.to), q.to, q.parent)
        BY DEF Rehung
      <4> HIDE DEF row
      <4> QED
        BY <3>1, <4>1, PlacedRow
    <3>3. InsertItem(c, row)
      BY <2>4 DEF CopyWrite
    <3> HIDE DEF row
    <3>4. row.parent = q.parent /\ row.path = q.to /\ row.name = NameOf(q.to) /\ Shape(row)
      BY <3>2 DEF Shape
    <3> QED
      BY <1>1, <3>3, <3>4, InsertItemSound
  <2> QED
    BY <2>2, <2>3, <2>4
<1> QED
  BY <1>1, <1>2, AnsweredSound, TreeStep

(* MOVE updates the row of a file, or nothing.                              *)
LEMMA MoveKeeps ==
    ASSUME TreeInv, OnlyFilesMove, NEW c \in Client, MoveWrite(c)
    PROVE  TreeInv'
<1> DEFINE q == asked[c]
           i == q.item
           row == [rows[i] EXCEPT !.name = NameOf(q.to), !.path = q.to, !.parent = q.parent]
<1>1. /\ q # NoNode /\ q.step = "write" /\ q.method = "MOVE" /\ Answered(c)
      /\ AskSound(rows, q) /\ TreeSound(rows)
  BY DEF MoveWrite, TreeInv
<1>2. TreeSound(rows') /\ Keeps(rows, rows', Remembered)
  <2>1. CASE rows' = rows
    BY <1>1, <2>1 DEF Keeps
  <2>2. CASE rows' # rows
    <3>1. /\ i \in DOMAIN rows /\ q.parent \in DOMAIN rows /\ Clashing(rows, row) \subseteq {i}
          /\ rows' = [rows EXCEPT ![i] = row]
      BY <2>2 DEF MoveWrite
    <3>2. Shape(rows[i])
      BY <1>1, <3>1 DEF TreeSound
    <3>3. row = [parent |-> q.parent, name |-> NameOf(q.to), path |-> q.to, kind |-> rows[i].kind,
                 release |-> rows[i].release, nzb |-> rows[i].nzb]
      <4>1. row = Rehung(rows[i], NameOf(q.to), q.to, q.parent)
        BY DEF Rehung
      <4> HIDE DEF row
      <4> QED
        BY <3>2, <4>1, PlacedRow
    <3>4. ~rows[i].path.slash /\ ~q.to.slash /\ q.to.at # <<>> /\ rows[q.parent].path = ParentOf(q.to)
      <4>1. [method |-> q.method, from |-> q.from, to |-> q.to] \in Upload
        BY <1>1 DEF AskSound
      <4> QED
        BY <1>1, <3>1, <4>1 DEF AskSound, OnlyFilesMove
    <3> HIDE DEF row
    <3>5. row.parent = q.parent /\ row.path = q.to /\ row.name = NameOf(q.to) /\ Shape(row)
      BY <3>3 DEF Shape
    <3>6. TreeSound([rows EXCEPT ![i] = row])
      BY <1>1, <3>1, <3>4, <3>5, MovedIsSound
    <3>7. Keeps(rows, rows', Remembered)
      BY <3>1, <3>4, <3>5 DEF Keeps
    <3> QED
      BY <3>1, <3>6, <3>7
  <2> QED
    BY <2>1, <2>2
<1> QED
  BY <1>1, <1>2, AnsweredSound, TreeStep

(* DELETE of a row or of an NZB in the queue.                               *)
LEMMA DeleteKeeps == ASSUME TreeInv, NEW c \in Client, Delete(c) PROVE TreeInv'
<1>1. Answered(c) /\ TreeSound(rows)
  BY DEF Delete, TreeInv
<1>2. CASE rows' = rows
  <2>1. Keeps(rows, rows, Remembered)
    BY DEF Keeps
  <2> QED
    BY <1>1, <1>2, <2>1, AnsweredSound, TreeStep
<1>3. CASE \E x : rows' = Without(rows, {x})
  <2>1. TreeSound(rows') /\ Keeps(rows, rows', Remembered)
    BY <1>1, <1>3, WithoutIsSound, WithoutKeeps
  <2> QED
    BY <1>1, <2>1, AnsweredSound, TreeStep
<1> QED
  BY <1>2, <1>3 DEF Delete

(* An import's directory and file.                                          *)
LEMMA MountKeeps ==
    ASSUME TreeInv, DavAssumption, NEW r \in MountedRelease, MountDirectory(r) \/ Mount(r)
    PROVE  TreeInv'
<1>1. asked' = asked /\ TreeSound(rows)
  BY DEF MountDirectory, Mount, TreeInv
<1>2. PICK p, d, id, kind, release, nzb :
        /\ d \in AtPath(ParentOf(p)) /\ id \in Fresh /\ p.at # <<>>
        /\ CanInsert(rows, Row(d, p, kind, release, nzb))
        /\ rows' = Inserted(rows, id, Row(d, p, kind, release, nzb))
  <2>1. CASE MountDirectory(r)
    <3> DEFINE p == Path(SubSeq(MountPath[r], 1, Len(MountPath[r]) - 1), TRUE)
    <3>1. p.at # <<>>
      <4>1. p.at = <<>> => ParentOf(p) = p
        <5>1. SubSeq(<<>>, 1, Len(<<>>) - 1) = <<>>
          OBVIOUS
        <5> QED
          BY <5>1 DEF ParentOf, Path
      <4>2. AtPath(p) = {} /\ AtPath(ParentOf(p)) # {}
        BY <2>1 DEF MountDirectory
      <4> QED
        BY <4>1, <4>2
    <3>2. PICK d \in AtPath(ParentOf(p)), id \in Fresh :
             /\ CanInsert(rows, Row(d, p, "Directory", NoRelease, FALSE))
             /\ rows' = Inserted(rows, id, Row(d, p, "Directory", NoRelease, FALSE))
      BY <2>1 DEF MountDirectory
    <3> QED
      BY <3>1, <3>2
  <2>2. CASE Mount(r)
    <3> DEFINE p == Path(MountPath[r], FALSE)
    <3>1. p.at # <<>>
      BY DEF DavAssumption, Path
    <3>2. PICK d \in AtPath(ParentOf(p)), id \in Fresh :
             /\ CanInsert(rows, Row(d, p, "MultipartFile", r, TRUE))
             /\ rows' = Inserted(rows, id, Row(d, p, "MultipartFile", r, TRUE))
      BY <2>2 DEF Mount
    <3> QED
      BY <3>1, <3>2
  <2> QED
    BY <2>1, <2>2
<1> DEFINE row == Row(d, p, kind, release, nzb)
<1>3. Shape(row) /\ row.parent = d /\ row.path = p /\ row.name = NameOf(p)
  BY <1>2, RowIs
<1>4. CanInsert(rows, row) /\ rows' = Inserted(rows, id, row) /\ p.at # <<>>
  BY <1>2
<1>5. d # NoRow /\ rows[d].path = ParentOf(p)
  BY <1>1, <1>2 DEF AtPath, TreeSound
<1> HIDE DEF row
<1>6. TreeSound(rows') /\ Keeps(rows, rows', Remembered)
  BY <1>1, <1>2, <1>3, <1>4, <1>5, InsertedTree
<1> QED
  BY <1>1, <1>6, TreeStep DEF TreeInv

(* The tree is sound, whatever requests, imports and deletions do in which  *)
(* order, as long as requests move files.                                   *)
THEOREM TreeInvariant == ASSUME OnlyFilesMove PROVE DavSpec => []TreeInv
<1>1. DavInit => TreeInv
  <2> SUFFICES ASSUME DavInit PROVE TreeInv
    OBVIOUS
  <2>1. DOMAIN rows = {1, 2, 3}
    BY DEF DavInit, Seeded, RootId, NzbsId, ContentId
  <2>2. IsFiniteSet({1, 2, 3})
    <3>1. IsFiniteSet({1} \union {2})
      BY FS_Singleton, FS_AddElement
    <3> DEFINE two == {1} \union {2}
    <3>2. two \union {3} = {1, 2, 3}
      OBVIOUS
    <3> HIDE DEF two
    <3>3. IsFiniteSet(two \union {3})
      BY <3>1, FS_AddElement DEF two
    <3> QED
      BY <3>2, <3>3
  <2> DEFINE noNzb == FALSE
  <2>3. /\ rows[1] = Row(NoRow, RootPath, "Directory", NoRelease, noNzb)
        /\ rows[2] = Row(1, Path(<<"nzbs">>, TRUE), "Directory", NoRelease, noNzb)
        /\ rows[3] = Row(1, Path(<<"content">>, TRUE), "Directory", NoRelease, noNzb)
    BY DEF DavInit, Seeded, RootId, NzbsId, ContentId, RootPath
  <2> HIDE DEF noNzb
  <2>4. /\ Path(<<"nzbs">>, TRUE).at # <<>> /\ Path(<<"content">>, TRUE).at # <<>>
        /\ Path(<<"nzbs">>, TRUE) # Path(<<"content">>, TRUE)
        /\ RootPath.at = <<>>
    BY DEF Path, RootPath
  <2>5. /\ ParentOf(Path(<<"nzbs">>, TRUE)) = RootPath
        /\ ParentOf(Path(<<"content">>, TRUE)) = RootPath
    <3>1. SubSeq(<<"nzbs">>, 1, Len(<<"nzbs">>) - 1) = <<>> /\ SubSeq(<<"content">>, 1, Len(<<"content">>) - 1) = <<>>
      OBVIOUS
    <3> QED
      BY <3>1 DEF ParentOf, Path, RootPath
  <2>6. rows[1].path = RootPath /\ Shape(rows[1])
    BY <2>3, RowIs
  <2>7. ASSUME NEW x \in {2, 3}, NEW p, p.at # <<>>, ParentOf(p) = RootPath,
               rows[x] = Row(1, p, "Directory", NoRelease, noNzb)
        PROVE  Placed(rows, x) /\ Shape(rows[x]) /\ rows[x].path = p
    <3>1. /\ Shape(rows[x]) /\ rows[x].path = p /\ rows[x].parent = 1 /\ rows[x].name = NameOf(p)
      BY <2>7, RowIs
    <3>2. 1 \in DOMAIN rows
      BY <2>1
    <3> QED
      BY <2>6, <2>7, <3>1, <3>2 DEF Placed
  <2>8. /\ Placed(rows, 2) /\ Shape(rows[2]) /\ rows[2].path = Path(<<"nzbs">>, TRUE)
        /\ Placed(rows, 3) /\ Shape(rows[3]) /\ rows[3].path = Path(<<"content">>, TRUE)
    BY <2>3, <2>4, <2>5, <2>7
  <2>9. \A x, y \in DOMAIN rows : rows[x].path = rows[y].path => x = y
    BY <2>1, <2>4, <2>6, <2>8
  <2>10. TreeSound(rows)
    BY <2>1, <2>2, <2>6, <2>8, <2>9 DEF TreeSound, RootId, NoRow
  <2> QED
    BY <2>10 DEF TreeInv, AskSound, DavInit
<1>2. TreeInv /\ [DavNext]_davVars => TreeInv'
  <2> SUFFICES ASSUME TreeInv, [DavNext]_davVars PROVE TreeInv'
    OBVIOUS
  <2>1. CASE UNCHANGED davVars
    BY <2>1 DEF davVars, TreeInv
  <2>2. ASSUME NEW c \in Client, NEW u \in Upload, Receive(c, u) PROVE TreeInv'
    BY <2>2, DavAssumption, ReceiveKeeps
  <2>3. ASSUME NEW c \in Client, Look(c) PROVE TreeInv'
    BY <2>3, LookKeeps
  <2>4. ASSUME NEW c \in Client, Clear(c) PROVE TreeInv'
    BY <2>4, DavAssumption, ClearKeeps
  <2>5. ASSUME NEW c \in Client, MkcolWrite(c) \/ PutWrite(c) \/ CopyWrite(c) PROVE TreeInv'
    BY <2>5, DavAssumption, WriteKeeps
  <2>6. ASSUME NEW c \in Client, MoveWrite(c) PROVE TreeInv'
    BY <2>6, MoveKeeps
  <2>7. ASSUME NEW c \in Client, Delete(c) PROVE TreeInv'
    BY <2>7, DeleteKeeps
  <2>8. ASSUME NEW r \in MountedRelease, MountDirectory(r) \/ Mount(r) PROVE TreeInv'
    BY <2>8, DavAssumption, MountKeeps
  <2>9. ASSUME NEW r \in MountedRelease, AddToQueue(r) PROVE TreeInv'
    BY <2>9 DEF AddToQueue, TreeInv
  <2>10. ASSUME NEW r \in MountedRelease, HistoryDeleted(r) PROVE TreeInv'
    <3>1. asked' = asked /\ TreeSound(rows)
      BY <2>10 DEF HistoryDeleted, TreeInv
    <3>2. PICK own : rows' = Without(rows, own)
      BY <2>10 DEF HistoryDeleted
    <3>3. TreeSound(rows') /\ Keeps(rows, rows', Remembered)
      BY <3>1, <3>2, WithoutIsSound, WithoutKeeps
    <3> QED
      BY <3>1, <3>3, TreeStep DEF TreeInv
  <2> QED
    BY <2>1, <2>2, <2>3, <2>4, <2>5, <2>6, <2>7, <2>8, <2>9, <2>10 DEF DavNext
<1> QED
  BY <1>1, <1>2, PTL DEF DavSpec

(* Every item is found at its path and listed where its path says, alone,   *)
(* under requests that move files.                                          *)
THEOREM ItemsAreFoundWhereListed == ASSUME OnlyFilesMove PROVE DavSpec => []FoundWhereListed
<1>1. TreeInv => FoundWhereListed
  <2> SUFFICES ASSUME TreeInv, NEW x \in DOMAIN rows
               PROVE  /\ GetNode(Href(x)) = {x}
                      /\ x # RootId => x \in ListChildren(ParentOf(rows[x].path))
                      /\ rows[x].kind # "Directory" => Opens(Href(x))
    BY DEF FoundWhereListed
  <2>1. TreeSound(rows)
    BY DEF TreeInv
  <2>2. AtPath(Href(x)) = {x}
    BY <2>1 DEF TreeSound, AtPath, Href
  <2>3. GetNode(Href(x)) = {x}
    BY <2>2 DEF GetNode
  <2>4. ASSUME x # RootId PROVE x \in ListChildren(ParentOf(rows[x].path))
    <3>1. Placed(rows, x)
      BY <2>1, <2>4 DEF TreeSound
    <3>2. Path(ParentOf(rows[x].path).at, TRUE) = ParentOf(rows[x].path)
      BY DEF ParentOf, Path
    <3>3. rows[x].parent \in AtPath(Path(ParentOf(rows[x].path).at, TRUE))
      BY <3>1, <3>2 DEF AtPath, Placed
    <3>4. x \in ChildrenIn(rows, rows[x].parent)
      BY DEF ChildrenIn
    <3> QED
      BY <3>3, <3>4 DEF ListChildren
  <2> QED
    BY <2>3, <2>4 DEF Opens
<1> QED
  BY <1>1, TreeInvariant, PTL

-----------------------------------------------------------------------------
(* The bytes of a file: sizes added up.                                     *)

(* f[i] is the sum of the first i of the numbers s.                         *)
Sums(f, s, n) == f = [j \in 0..n |-> IF j = 0 THEN 0 ELSE f[j - 1] + s[j]]

(* Such a function exists.                                                   *)
LEMMA SumsExist ==
    ASSUME NEW S, NEW s \in Seq(S)
    PROVE  \E f : Sums(f, s, Len(s))
<1> DEFINE Missing == {m \in Nat : ~\E f : Sums(f, s, m)}
<1>1. Missing = {}
  <2> SUFFICES ASSUME Missing # {} PROVE FALSE
    OBVIOUS
  <2>1. PICK m \in Missing : \A k \in Missing : m <= k
    <3>1. Missing \in SUBSET Nat
      OBVIOUS
    <3> QED
      BY <3>1, LeastOf
  <2>2. m \in Nat /\ ~\E f : Sums(f, s, m)
    OBVIOUS
  <2>3. CASE m = 0
    <3> DEFINE g == [j \in 0..0 |-> 0]
    <3>1. Sums(g, s, 0)
      BY DEF Sums
    <3> QED
      BY <2>2, <2>3, <3>1
  <2>4. CASE m > 0
    <3>1. m - 1 \in Nat /\ ~(m <= m - 1)
      BY <2>2, <2>4
    <3>2. PICK f : Sums(f, s, m - 1)
      BY <2>1, <3>1
    <3> DEFINE g == [j \in 0..m |-> IF j = 0 THEN 0 ELSE f[j - 1] + s[j]]
    <3>3. \A j \in 0..(m - 1) : f[j] = g[j]
      BY <2>2, <3>2 DEF Sums
    <3>4. \A j \in 0..m : j # 0 => j - 1 \in 0..(m - 1)
      BY <2>2
    <3>5. g = [j \in 0..m |-> IF j = 0 THEN 0 ELSE g[j - 1] + s[j]]
      BY <3>3, <3>4
    <3>6. Sums(g, s, m)
      BY <3>5 DEF Sums
    <3> QED
      BY <2>2, <3>6
  <2> QED
    BY <2>2, <2>3, <2>4
<1>2. Len(s) \in Nat
  OBVIOUS
<1> QED
  BY <1>1, <1>2

(* The bytes before a segment, as a recursion.                              *)
LEMMA BeforeIs ==
    ASSUME NEW S, NEW s \in Seq(S)
    PROVE  /\ Before(s, 0) = 0
           /\ \A i \in 1..Len(s) : Before(s, i) = Before(s, i - 1) + s[i]
<1> DEFINE Sol(f) == f = [j \in 0..Len(s) |-> IF j = 0 THEN 0 ELSE f[j - 1] + s[j]]
           it == CHOOSE f : Sol(f)
<1>1. \A f : Sol(f) <=> Sums(f, s, Len(s))
  BY DEF Sums
<1>2. Sol(it)
  BY <1>1, SumsExist
<1>3. \A i : Before(s, i) = it[i]
  BY DEF Before
<1>4. it[0] = 0 /\ \A i \in 1..Len(s) : it[i] = it[i - 1] + s[i]
  <2>1. Sums(it, s, Len(s))
    BY <1>1, <1>2
  <2>2. Len(s) \in Nat
    OBVIOUS
  <2> HIDE DEF it
  <2> QED
    BY <2>1, <2>2 DEF Sums
<1> QED
  BY <1>3, <1>4

(* They are a number, and grow from one segment to the next.                *)
LEMMA BeforeGrows ==
    ASSUME NEW s \in Seq(Nat)
    PROVE  /\ Len(s) \in Nat /\ Total(s) \in Nat
           /\ \A i \in 0..Len(s) : Before(s, i) \in Nat
           /\ \A i \in 0..Len(s), j \in 0..Len(s) : i <= j => Before(s, i) <= Before(s, j)
<1> DEFINE n == Len(s)
<1>1. n \in Nat /\ \A i \in 1..n : s[i] \in Nat
  OBVIOUS
<1>2. Before(s, 0) = 0 /\ \A i \in 1..n : Before(s, i) = Before(s, i - 1) + s[i]
  BY BeforeIs
<1> HIDE DEF n
<1>3. \A i \in 0..n : Before(s, i) \in Nat
  <2> DEFINE Broken == {i \in 0..n : Before(s, i) \notin Nat}
  <2> SUFFICES ASSUME Broken # {} PROVE FALSE
    OBVIOUS
  <2>1. PICK i \in Broken : \A k \in Broken : i <= k
    <3>1. Broken \in SUBSET Nat
      BY <1>1
    <3> QED
      BY <3>1, LeastOf
  <2>2. i # 0 /\ i \in 1..n /\ i - 1 \in 0..n /\ ~(i <= i - 1)
    BY <1>1, <1>2
  <2>3. Before(s, i - 1) \in Nat
    BY <2>1, <2>2
  <2>4. Before(s, i) \notin Nat /\ Before(s, i) = Before(s, i - 1) + s[i] /\ s[i] \in Nat
    BY <1>1, <1>2, <2>2
  <2> QED
    BY <2>3, <2>4
<1>4. ASSUME NEW i \in 0..n
      PROVE  \A j \in 0..n : i <= j => Before(s, i) <= Before(s, j)
  <2> DEFINE Broken == {j \in 0..n : i <= j /\ ~(Before(s, i) <= Before(s, j))}
  <2> SUFFICES ASSUME Broken # {} PROVE FALSE
    OBVIOUS
  <2>1. PICK j \in Broken : \A k \in Broken : j <= k
    <3>1. Broken \in SUBSET Nat
      BY <1>1
    <3> QED
      BY <3>1, LeastOf
  <2>2. j # i /\ j \in 1..n /\ j - 1 \in 0..n /\ ~(j <= j - 1) /\ i <= j - 1
    BY <1>1, <1>3
  <2>3. Before(s, i) <= Before(s, j - 1)
    BY <2>1, <2>2
  <2>4. Before(s, j) = Before(s, j - 1) + s[j] /\ s[j] \in Nat
    BY <1>1, <1>2, <2>2
  <2> QED
    BY <1>3, <2>2, <2>3, <2>4
<1> QED
  BY <1>1, <1>3, <1>4 DEF n, Total

(* A read returns what fits, within the file, and nothing only at its end.  *)
LEMMA ChunkIs ==
    ASSUME NEW s \in Seq(Nat), NEW at \in Nat, NEW room \in Nat \ {0}
    PROVE  /\ at < Total(s) => /\ Chunk(s, at, room) \in 1..room
                               /\ at + Chunk(s, at, room) <= Total(s)
           /\ at >= Total(s) => Chunk(s, at, room) = 0
<1> DEFINE Ends == {e \in {Before(s, i) : i \in 1..Len(s)} : e > at}
<1>1. /\ Len(s) \in Nat /\ Total(s) \in Nat
      /\ \A i \in 0..Len(s) : Before(s, i) \in Nat
      /\ \A i \in 0..Len(s), j \in 0..Len(s) : i <= j => Before(s, i) <= Before(s, j)
  BY BeforeGrows
<1>2. CASE at < Total(s)
  <2>1. Len(s) # 0
    <3>1. Before(s, 0) = 0
      BY BeforeIs
    <3> QED
      BY <1>2, <3>1 DEF Total
  <2>2. Ends \in SUBSET Nat /\ Total(s) \in Ends
    BY <1>1, <1>2, <2>1 DEF Total
  <2>3. PICK m \in Ends : \A k \in Ends : m <= k
    BY <2>2, LeastOf
  <2>4. Min(Ends) \in Ends /\ \A k \in Ends : Min(Ends) <= k
    BY <2>3 DEF Min
  <2>5. Min(Ends) \in Nat /\ Min(Ends) > at /\ Min(Ends) <= Total(s)
    BY <2>2, <2>4
  <2>6. Chunk(s, at, room) = AtMost(room, Min(Ends) - at)
    BY <1>1, <1>2 DEF Chunk
  <2> HIDE DEF Ends
  <2> QED
    BY <1>1, <1>2, <2>5, <2>6 DEF AtMost
<1>3. CASE at >= Total(s)
  BY <1>1, <1>3 DEF Chunk
<1> QED
  BY <1>1, <1>2, <1>3

-----------------------------------------------------------------------------
(* The parts of an archived file.                                           *)

(* What is known of a volume.                                               *)
LEMMA VolumesAre ==
    /\ Len(Volume) \in Nat /\ DOMAIN Volume = 1..Len(Volume)
    /\ \A i \in DOMAIN Volume :
         /\ Volume[i].segs \in Seq(Nat) /\ Volume[i].start \in Nat /\ Volume[i].size \in Nat
<1>1. Volume \in Seq([segs : Seq(Nat), start : Nat, size : Nat])
  BY BodyAssumption DEF BodyAssumption
<1>2. \A S : \A s \in Seq(S) : /\ Len(s) \in Nat /\ DOMAIN s = 1..Len(s)
                              /\ \A i \in DOMAIN s : s[i] \in S
  OBVIOUS
<1>3. \A v \in [segs : Seq(Nat), start : Nat, size : Nat] :
         v.segs \in Seq(Nat) /\ v.start \in Nat /\ v.size \in Nat
  OBVIOUS
<1>4. /\ Len(Volume) \in Nat /\ DOMAIN Volume = 1..Len(Volume)
      /\ \A i \in DOMAIN Volume :
           Volume[i] \in [segs : Seq(Nat), start : Nat, size : Nat]
  BY <1>1, <1>2, Zenon
<1> QED
  BY <1>3, <1>4, Zenon

(* Part k is the next of the file, in the data of its volume.               *)
PartIs(k) ==
    /\ VolumeParts[k].segs \in Seq(Nat) /\ VolumeParts[k].start \in Nat
    /\ VolumeParts[k].size \in Nat /\ VolumeParts[k].from \in Nat
    /\ VolumeParts[k].from = Before(Sizes, k - 1)
    /\ VolumeParts[k].from + VolumeParts[k].size = Before(Sizes, k)
    /\ VolumeParts[k].from + VolumeParts[k].size <= ArchivedSize
    /\ VolumesHoldData =>
         VolumeParts[k].start + VolumeParts[k].size <= Total(VolumeParts[k].segs)

(* Each is, with nothing between them.                                       *)
LEMMA PartsAre ==
    /\ Len(Volume) \in Nat /\ DOMAIN VolumeParts = 1..Len(Volume)
    /\ Sizes \in Seq(Nat) /\ Len(Sizes) = Len(Volume) /\ ArchivedSize \in Nat
    /\ \A k \in 1..Len(Volume) : PartIs(k)
<1>1. Len(Volume) \in Nat /\ DOMAIN Volume = 1..Len(Volume)
  BY VolumesAre
<1>2. ASSUME NEW k \in 1..Len(Volume)
      PROVE  /\ Volume[k].segs \in Seq(Nat) /\ Volume[k].start \in Nat /\ Volume[k].size \in Nat
             /\ VolumesHoldData => Volume[k].start + Volume[k].size <= Total(Volume[k].segs)
  BY <1>1, <1>2, VolumesAre DEF VolumesHoldData
<1>3. /\ Sizes \in Seq(Nat) /\ Len(Sizes) = Len(Volume)
      /\ \A k \in 1..Len(Volume) : Sizes[k] = Volume[k].size
  BY <1>1, <1>2 DEF Sizes
<1>4. /\ Before(Sizes, 0) = 0
      /\ \A i \in 1..Len(Sizes) : Before(Sizes, i) = Before(Sizes, i - 1) + Sizes[i]
  BY <1>3, BeforeIs
<1>5. /\ Total(Sizes) \in Nat /\ \A i \in 0..Len(Sizes) : Before(Sizes, i) \in Nat
      /\ \A i \in 0..Len(Sizes), j \in 0..Len(Sizes) : i <= j => Before(Sizes, i) <= Before(Sizes, j)
  BY <1>3, BeforeGrows
<1>6. ASSUME NEW k \in 1..Len(Volume)
      PROVE  PartIs(k)
  <2>1. k - 1 \in 0..Len(Sizes) /\ k \in 1..Len(Sizes) /\ Len(Sizes) \in 0..Len(Sizes) /\ k <= Len(Sizes)
    BY <1>1, <1>3
  <2>2. /\ VolumeParts[k].segs = Volume[k].segs /\ VolumeParts[k].start = Volume[k].start
        /\ VolumeParts[k].size = Volume[k].size /\ VolumeParts[k].from = Before(Sizes, k - 1)
    BY DEF VolumeParts
  <2>3. Before(Sizes, k) <= ArchivedSize
    BY <1>5, <2>1 DEF ArchivedSize, Total
  <2>4. Before(Sizes, k) = Before(Sizes, k - 1) + Volume[k].size /\ Before(Sizes, k - 1) \in Nat
    BY <1>3, <1>4, <1>5, <2>1
  <2> QED
    BY <1>2, <2>2, <2>3, <2>4 DEF PartIs
<1> QED
  BY <1>1, <1>3, <1>5, <1>6 DEF VolumeParts, ArchivedSize

(* Every byte of the file is in one part.                                   *)
LEMMA OnePart ==
    ASSUME NEW p \in Nat, p < ArchivedSize
    PROVE  /\ Min(PartsAt(p)) \in 1..Len(Volume)
           /\ PartsAt(p) = {Min(PartsAt(p))}
           /\ VolumeParts[Min(PartsAt(p))].from <= p
           /\ p < VolumeParts[Min(PartsAt(p))].from + VolumeParts[Min(PartsAt(p))].size
           /\ \A k \in 1..Len(Volume) :
                VolumeParts[k].from <= p /\ p < VolumeParts[k].from + VolumeParts[k].size
                    => k = Min(PartsAt(p))
<1> DEFINE N == Len(Volume)
<1>1. /\ N \in Nat /\ DOMAIN VolumeParts = 1..N /\ Sizes \in Seq(Nat) /\ Len(Sizes) = N
      /\ ArchivedSize \in Nat /\ \A k \in 1..N : PartIs(k)
  BY PartsAre
<1>2. /\ \A i \in 0..N : Before(Sizes, i) \in Nat
      /\ \A i \in 0..N, j \in 0..N : i <= j => Before(Sizes, i) <= Before(Sizes, j)
  BY <1>1, BeforeGrows
<1>3. Before(Sizes, 0) = 0 /\ Before(Sizes, N) = ArchivedSize
  BY <1>1, BeforeIs DEF ArchivedSize, Total
<1> HIDE DEF N
<1>4. \A k \in 1..N : k \in PartsAt(p) <=> Before(Sizes, k - 1) <= p /\ p < Before(Sizes, k)
  BY <1>1 DEF PartsAt, PartIs
<1>5. PICK k \in 1..N : k \in PartsAt(p)
  <2> DEFINE Past == {i \in 0..N : p < Before(Sizes, i)}
  <2>1. Past \in SUBSET Nat /\ N \in Past
    BY <1>1, <1>3
  <2>2. PICK i \in Past : \A j \in Past : i <= j
    BY <2>1, LeastOf
  <2>3. i \in 0..N /\ p < Before(Sizes, i)
    OBVIOUS
  <2>4. i # 0
    BY <1>3, <2>3
  <2>5. i \in 1..N /\ i - 1 \in 0..N /\ ~(i <= i - 1)
    BY <1>1, <2>3, <2>4
  <2>6. Before(Sizes, i - 1) <= p
    BY <1>2, <2>2, <2>5
  <2> QED
    BY <1>4, <2>3, <2>5, <2>6
<1>6. ASSUME NEW j \in 1..N, j \in PartsAt(p)
      PROVE  j = k
  <2>1. k \in 1..N /\ k - 1 \in 0..N /\ j - 1 \in 0..N /\ j \in 0..N /\ k \in 0..N
    BY <1>1
  <2>2. /\ Before(Sizes, k - 1) <= p /\ p < Before(Sizes, k)
        /\ Before(Sizes, j - 1) <= p /\ p < Before(Sizes, j)
    BY <1>4, <1>5, <1>6
  <2>3. ~(k <= j - 1) /\ ~(j <= k - 1)
    BY <1>2, <2>1, <2>2
  <2> QED
    BY <2>1, <2>3
<1>7. PartsAt(p) = {k}
  BY <1>1, <1>5, <1>6 DEF PartsAt
<1>8. Min(PartsAt(p)) = k
  BY <1>1, <1>7 DEF Min
<1>9. VolumeParts[k].from <= p /\ p < VolumeParts[k].from + VolumeParts[k].size
  BY <1>5 DEF PartsAt
<1>10. \A j \in 1..N : VolumeParts[j].from <= p /\ p < VolumeParts[j].from + VolumeParts[j].size
           => j \in PartsAt(p)
  BY <1>1 DEF PartsAt
<1> QED
  BY <1>5, <1>6, <1>7, <1>8, <1>9, <1>10 DEF N

-----------------------------------------------------------------------------
(* DavMultipartFileStream: where it is.                                     *)

(* It reads part m.part: what is left of it, and how far into its volume    *)
(* the inner stream is, skipped bytes counted.                              *)
InPart(m) ==
    LET part == VolumeParts[m.part] IN
    /\ m.part \in 1..Len(Volume)
    /\ m.skip \in Nat /\ m.left \in Nat \ {0} /\ m.inner \in Nat \union {Nothing}
    /\ part.from <= m.pos /\ m.left = part.from + part.size - m.pos
    /\ AtLeast(m.inner, 0) + m.skip = part.start + (m.pos - part.from)

(* It is within the file, in a part of it or at one to be found.            *)
MultipartInv(m) ==
    /\ m.pos \in Nat /\ m.pos <= ArchivedSize
    /\ Unset(m) \/ InPart(m)

(* The fields of the records the stream makes.                              *)
LEMMA MultipartFields ==
    \A pos, part, inner, skip, left :
        /\ Multipart(pos, part, inner, skip, left).pos = pos
        /\ Multipart(pos, part, inner, skip, left).part = part
        /\ Multipart(pos, part, inner, skip, left).inner = inner
        /\ Multipart(pos, part, inner, skip, left).skip = skip
        /\ Multipart(pos, part, inner, skip, left).left = left
BY DEF Multipart

(* A new stream and one after a seek.                                       *)
LEMMA SoughtSound ==
    /\ MultipartInv(NewMultipart) /\ NewMultipart.pos = 0
    /\ \A p \in Nat : p <= ArchivedSize =>
         MultipartInv(SeekMultipart(p)) /\ SeekMultipart(p).pos = p
<1>1. ArchivedSize \in Nat
  BY PartsAre
<1>2. MultipartInv(NewMultipart) /\ NewMultipart.pos = 0
  BY <1>1, MultipartFields DEF NewMultipart, MultipartInv, Unset
<1>3. ASSUME NEW p \in Nat, p <= ArchivedSize
      PROVE  MultipartInv(SeekMultipart(p)) /\ SeekMultipart(p).pos = p
  <2>1. AtMost(p, ArchivedSize) = p
    BY <1>1, <1>3 DEF AtMost
  <2> QED
    BY <1>3, <2>1, MultipartFields DEF SeekMultipart, MultipartInv, Unset
<1> QED
  BY <1>2, <1>3

(* Setting up a part puts the stream into it, with its inner stream open.   *)
LEMMA ReadyInPart ==
    ASSUME NEW m, MultipartInv(m), m.pos < ArchivedSize
    PROVE  InPart(Ready(m)) /\ Ready(m).inner \in Nat /\ Ready(m).pos = m.pos
<1> DEFINE k == Min(PartsAt(m.pos))
           set == IF Unset(m) THEN SetUpPart(k, m.pos) ELSE m
<1>1. m.pos \in Nat /\ ArchivedSize \in Nat
  BY PartsAre DEF MultipartInv
<1>2. InPart(set) /\ set.pos = m.pos
  <2>1. CASE Unset(m)
    <3>1. /\ k \in 1..Len(Volume) /\ VolumeParts[k].from <= m.pos
          /\ m.pos < VolumeParts[k].from + VolumeParts[k].size
      BY <1>1, OnePart
    <3>2. /\ VolumeParts[k].start \in Nat /\ VolumeParts[k].size \in Nat
          /\ VolumeParts[k].from \in Nat
      BY <3>1, PartsAre DEF PartIs
    <3> HIDE DEF k
    <3> DEFINE into == m.pos - VolumeParts[k].from
    <3>3. set = Multipart(m.pos, k, Nothing, AtLeast(VolumeParts[k].start + into, 0),
                          AtLeast(VolumeParts[k].size - into, 0))
      BY <2>1 DEF SetUpPart
    <3> HIDE DEF set
    <3>4. /\ set.pos = m.pos /\ set.part = k /\ set.inner = Nothing
          /\ set.skip = AtLeast(VolumeParts[k].start + into, 0)
          /\ set.left = AtLeast(VolumeParts[k].size - into, 0)
      BY <3>3, MultipartFields
    <3>5. /\ set.skip = VolumeParts[k].start + (m.pos - VolumeParts[k].from)
          /\ set.left = VolumeParts[k].from + VolumeParts[k].size - m.pos
          /\ set.skip \in Nat /\ set.left \in Nat \ {0}
      <4> DEFINE start == VolumeParts[k].start
                 size == VolumeParts[k].size
                 from == VolumeParts[k].from
                 pos == m.pos
                 skip == set.skip
                 left == set.left
      <4>1. /\ start \in Nat /\ size \in Nat /\ from \in Nat /\ pos \in Nat
            /\ from <= pos /\ pos < from + size
        BY <1>1, <3>1, <3>2
      <4>2. skip = AtLeast(start + (pos - from), 0) /\ left = AtLeast(size - (pos - from), 0)
        BY <3>4
      <4> HIDE DEF start, size, from, pos, skip, left
      <4>3. /\ skip = start + (pos - from) /\ left = from + size - pos
            /\ skip \in Nat /\ left \in Nat \ {0}
        BY <4>1, <4>2 DEF AtLeast
      <4> QED
        BY <4>3 DEF start, size, from, pos, skip, left
    <3>6. AtLeast(set.inner, 0) + set.skip = set.skip
      BY <3>4, <3>5 DEF AtLeast, Nothing
    <3> QED
      BY <3>1, <3>4, <3>5, <3>6 DEF InPart
  <2>2. CASE ~Unset(m)
    <3>1. set = m
      BY <2>2
    <3> HIDE DEF set
    <3> QED
      BY <2>2, <3>1 DEF MultipartInv
  <2> QED
    BY <2>1, <2>2
<1>3. Ready(m) = Multipart(set.pos, set.part, AtLeast(set.inner, 0), set.skip, set.left)
  BY DEF Ready
<1> HIDE DEF set, k
<1>4. /\ Ready(m).pos = set.pos /\ Ready(m).part = set.part /\ Ready(m).skip = set.skip
      /\ Ready(m).left = set.left /\ Ready(m).inner = AtLeast(set.inner, 0)
  BY <1>3, MultipartFields
<1>5. AtLeast(set.inner, 0) \in Nat /\ AtLeast(AtLeast(set.inner, 0), 0) = AtLeast(set.inner, 0)
  BY <1>2 DEF InPart, AtLeast, Nothing
<1> QED
  BY <1>2, <1>4, <1>5 DEF InPart

(* What the inner stream is about to return is stored there.                *)
LEMMA InnerIsStored ==
    ASSUME NEW m, InPart(m), m.pos \in Nat, m.inner \in Nat, m.skip = 0,
           NEW i \in Nat, i < m.left
    PROVE  Stored(m.pos + i) = [part |-> m.part, at |-> m.inner + i]
<1> DEFINE k == m.part
           from == VolumeParts[k].from
           size == VolumeParts[k].size
           start == VolumeParts[k].start
           pos == m.pos
           inner == m.inner
           left == m.left
           p == pos + i
<1>1. k \in 1..Len(Volume) /\ PartIs(k) /\ ArchivedSize \in Nat
  BY PartsAre DEF InPart
<1>2. start \in Nat /\ size \in Nat /\ from \in Nat /\ from + size <= ArchivedSize
  BY <1>1 DEF PartIs
<1>3. left \in Nat /\ from <= pos /\ left = from + size - pos
  BY DEF InPart
<1>4. inner = start + (pos - from)
  BY <1>2 DEF InPart, AtLeast
<1>5. pos \in Nat /\ inner \in Nat /\ i < left
  OBVIOUS
<1> HIDE DEF k, from, size, start, pos, inner, left
<1>6. p \in Nat /\ from <= p /\ p < from + size /\ p < ArchivedSize
  BY <1>1, <1>2, <1>3, <1>5
<1>7. start + (p - from) = inner + i
  BY <1>2, <1>4, <1>5
<1> HIDE DEF p
<1>8. k = Min(PartsAt(p))
  BY <1>1, <1>6, OnePart DEF from, size
<1>9. Stored(p) = [part |-> k, at |-> start + (p - from)]
  BY <1>8 DEF Stored, from, start
<1> QED
  BY <1>7, <1>9 DEF p, k, pos, inner

(* What a poll answers that moves a stream from one position to another:    *)
(* the bytes between, at most as many as there is room for, and the end     *)
(* only at the end of the file.                                             *)
Serves(from, to, room, out) ==
    \/ out = End /\ to = from /\ from = ArchivedSize
    \/ out = Again /\ to = from
    \/ /\ out.kind = "bytes" /\ out.good = TRUE /\ out.n \in 1..room /\ out.at \in Nat
       /\ to = from + out.n
       /\ \A i \in 0..(out.n - 1) : Stored(from + i) = [part |-> out.part, at |-> out.at + i]

Delivers(m, room, r) == MultipartInv(r.state) /\ Serves(m.pos, r.state.pos, room, r.out)

(* An inner stream that is not at the end of its data gives some of it.     *)
LEMMA PassedDelivers ==
    ASSUME NEW m, InPart(m), m.pos \in Nat, m.inner \in Nat, NEW room \in Nat \ {0},
           NEW k \in Nat \ {0}, m.skip > 0 => k <= m.skip, m.skip = 0 => k <= m.left /\ k <= room
    PROVE  Delivers(m, room, Passed(m, k))
<1> DEFINE j == m.part
           from == VolumeParts[j].from
           size == VolumeParts[j].size
           start == VolumeParts[j].start
           pos == m.pos
           inner == m.inner
           left == m.left
           skip == m.skip
<1>1. /\ j \in 1..Len(Volume) /\ PartIs(j) /\ ArchivedSize \in Nat
      /\ skip \in Nat /\ left \in Nat \ {0} /\ pos \in Nat /\ inner \in Nat
  BY PartsAre DEF InPart
<1>2. start \in Nat /\ size \in Nat /\ from \in Nat /\ from + size <= ArchivedSize
  BY <1>1 DEF PartIs
<1>3. from <= pos /\ left = from + size - pos
  BY DEF InPart
<1>4. inner + skip = start + (pos - from)
  BY <1>1 DEF InPart, AtLeast
<1>5. (skip > 0 => k <= skip) /\ (skip = 0 => k <= left /\ k <= room)
  OBVIOUS
<1> HIDE DEF j, from, size, start, pos, inner, left, skip
<1>6. pos <= ArchivedSize
  BY <1>1, <1>2, <1>3
<1>7. CASE skip > 0
  <2> DEFINE s == Multipart(pos, j, inner + k, skip - k, left)
  <2>1. Passed(m, k) = PollOutcome(s, Again)
    BY <1>7 DEF Passed, pos, j, inner, skip, left
  <2>2. s.pos = pos /\ s.part = j /\ s.inner = inner + k /\ s.skip = skip - k /\ s.left = left
    BY MultipartFields
  <2> HIDE DEF s
  <2>3. /\ inner + k \in Nat /\ skip - k \in Nat /\ AtLeast(inner + k, 0) = inner + k
        /\ (inner + k) + (skip - k) = inner + skip
    BY <1>1, <1>5, <1>7 DEF AtLeast
  <2>4. /\ s.skip \in Nat /\ s.left \in Nat \ {0} /\ s.inner \in Nat
        /\ AtLeast(s.inner, 0) + s.skip = start + (s.pos - from)
    BY <1>1, <1>4, <2>2, <2>3
  <2>5. /\ s.part \in 1..Len(Volume) /\ from = VolumeParts[s.part].from
        /\ size = VolumeParts[s.part].size /\ start = VolumeParts[s.part].start
    BY <1>1, <2>2 DEF from, size, start
  <2>6. from <= s.pos /\ s.left = from + size - s.pos
    BY <1>3, <2>2
  <2>7. InPart(s)
    BY <2>4, <2>5, <2>6 DEF InPart
  <2>8. MultipartInv(s) /\ s.pos = m.pos
    BY <1>1, <1>6, <2>2, <2>7 DEF MultipartInv, pos
  <2>9. Passed(m, k).out = Again /\ Passed(m, k).state = s
    BY <2>1 DEF PollOutcome
  <2> QED
    BY <2>8, <2>9 DEF Delivers, Serves
<1>8. CASE skip = 0
  <2> DEFINE s == Multipart(pos + k, j, inner + k, skip, left - k)
  <2>1. Passed(m, k) = PollOutcome(s, Got(j, inner, k, TRUE))
    BY <1>8 DEF Passed, Advance, pos, j, inner, skip, left
  <2>2. /\ s.pos = pos + k /\ s.part = j /\ s.inner = inner + k /\ s.skip = 0
        /\ s.left = left - k
    BY <1>8, MultipartFields
  <2> HIDE DEF s
  <2>3. /\ pos + k \in Nat /\ inner + k \in Nat /\ left - k \in Nat
        /\ pos + k <= ArchivedSize /\ from <= pos + k
        /\ left - k = from + size - (pos + k)
        /\ AtLeast(inner + k, 0) = inner + k
        /\ (inner + k) + 0 = start + ((pos + k) - from)
    BY <1>1, <1>2, <1>3, <1>4, <1>5, <1>8 DEF AtLeast
  <2>4. /\ s.part \in 1..Len(Volume) /\ from = VolumeParts[s.part].from
        /\ size = VolumeParts[s.part].size /\ start = VolumeParts[s.part].start
    BY <1>1, <2>2 DEF from, size, start
  <2>5. /\ s.skip \in Nat /\ s.left \in Nat /\ s.inner \in Nat
        /\ AtLeast(s.inner, 0) + s.skip = start + (s.pos - from)
        /\ from <= s.pos /\ s.left = from + size - s.pos
    BY <2>2, <2>3
  <2>6. s.left # 0 => InPart(s)
    BY <2>4, <2>5 DEF InPart
  <2>7. MultipartInv(s)
    BY <2>2, <2>3, <2>6 DEF MultipartInv, Unset
  <2>8. Passed(m, k).state = s /\ Passed(m, k).out = Got(j, inner, k, TRUE)
    BY <2>1 DEF PollOutcome
  <2>9. /\ Passed(m, k).out.kind = "bytes" /\ Passed(m, k).out.good = TRUE
        /\ Passed(m, k).out.n = k /\ Passed(m, k).out.part = j
        /\ Passed(m, k).out.at = inner
    BY <2>8 DEF Got
  <2>10. ASSUME NEW i \in 0..(k - 1)
         PROVE  Stored(pos + i) = [part |-> j, at |-> inner + i]
    <3>1. i \in Nat /\ i < left
      BY <1>1, <1>5, <1>8
    <3> QED
      BY <1>8, <3>1, InnerIsStored DEF pos, j, inner, left, skip
  <2>11. k \in 1..room /\ inner \in Nat
    BY <1>1, <1>5, <1>8
  <2>12. \A i \in 0..(Passed(m, k).out.n - 1) :
           Stored(pos + i) = [part |-> Passed(m, k).out.part, at |-> Passed(m, k).out.at + i]
    BY <2>9, <2>10
  <2> QED
    BY <2>2, <2>7, <2>8, <2>9, <2>11, <2>12 DEF Delivers, Serves, pos
<1> QED
  BY <1>1, <1>7, <1>8

(* While the data of a part is there, its inner stream is never at the end. *)
LEMMA InnerHasMore ==
    ASSUME VolumesHoldData, NEW m, InPart(m), m.pos \in Nat, m.inner \in Nat
    PROVE  VolumeParts[m.part].segs \in Seq(Nat) /\ m.inner < Total(VolumeParts[m.part].segs)
<1> DEFINE j == m.part
           from == VolumeParts[j].from
           size == VolumeParts[j].size
           start == VolumeParts[j].start
           all == Total(VolumeParts[j].segs)
           pos == m.pos
           inner == m.inner
           left == m.left
           skip == m.skip
<1>1. /\ j \in 1..Len(Volume) /\ PartIs(j)
      /\ skip \in Nat /\ left \in Nat \ {0} /\ pos \in Nat /\ inner \in Nat
  BY PartsAre DEF InPart
<1>2. /\ start \in Nat /\ size \in Nat /\ from \in Nat /\ start + size <= all
      /\ VolumeParts[j].segs \in Seq(Nat)
  BY <1>1 DEF PartIs
<1>3. from <= pos /\ left = from + size - pos
  BY DEF InPart
<1>4. inner + skip = start + (pos - from)
  BY <1>1 DEF InPart, AtLeast
<1>5. all \in Nat
  BY <1>2, BeforeGrows
<1> HIDE DEF j, from, size, start, pos, inner, left, skip, all
<1>6. inner < all
  BY <1>1, <1>2, <1>3, <1>4, <1>5
<1> QED
  BY <1>2, <1>6 DEF inner, all, j

(* A poll of the multipart stream gives the next bytes of the file.          *)
LEMMA MultipartDelivers ==
    ASSUME VolumesHoldData, NEW m, MultipartInv(m), NEW room \in Nat \ {0}
    PROVE  Delivers(m, room, PollMultipart(m, room))
<1>1. m.pos \in Nat /\ m.pos <= ArchivedSize /\ ArchivedSize \in Nat
  BY PartsAre DEF MultipartInv
<1>2. CASE m.pos >= ArchivedSize
  <2>1. PollMultipart(m, room) = PollOutcome(m, End)
    BY <1>2 DEF PollMultipart
  <2>2. PollMultipart(m, room).state = m /\ PollMultipart(m, room).out = End
    BY <2>1 DEF PollOutcome
  <2> QED
    BY <1>1, <1>2, <2>2 DEF Delivers, Serves
<1>3. CASE m.pos < ArchivedSize
  <2> DEFINE q == Ready(m)
             s == VolumeParts[q.part].segs
             ask == IF q.skip > 0 THEN AtMost(q.skip, SkipChunk) ELSE AtMost(q.left, room)
  <2>1. InPart(q) /\ q.inner \in Nat /\ q.pos = m.pos
    BY <1>3, ReadyInPart
  <2>2. PartsAt(m.pos) # {}
    BY <1>1, <1>3, OnePart
  <2>3. PollMultipart(m, room) = Passed(q, Chunk(s, q.inner, ask))
    BY <1>1, <1>3, <2>2 DEF PollMultipart, PollInner
  <2> HIDE DEF q
  <2>4. /\ q.part \in 1..Len(Volume) /\ PartIs(q.part) /\ q.skip \in Nat /\ q.left \in Nat \ {0}
    BY <2>1, PartsAre DEF InPart
  <2>5. s \in Seq(Nat) /\ q.inner < Total(s)
    BY <1>1, <2>1, InnerHasMore
  <2> HIDE DEF s
  <2>9. ask \in Nat \ {0} /\ (q.skip > 0 => ask <= q.skip) /\ (q.skip = 0 => ask <= q.left /\ ask <= room)
    <3>1. SkipChunk \in Nat \ {0}
      BY BodyAssumption DEF BodyAssumption
    <3> QED
      BY <2>4, <3>1 DEF AtMost
  <2> HIDE DEF ask
  <2>10. Chunk(s, q.inner, ask) \in 1..ask
    BY <2>1, <2>5, <2>9, ChunkIs
  <2> DEFINE k == Chunk(s, q.inner, ask)
  <2>11. /\ k \in Nat \ {0} /\ (q.skip > 0 => k <= q.skip)
         /\ (q.skip = 0 => k <= q.left /\ k <= room)
    BY <2>4, <2>9, <2>10
  <2> HIDE DEF k
  <2>12. Delivers(q, room, Passed(q, k))
    BY <1>1, <2>1, <2>11, PassedDelivers
  <2>13. q.pos # ArchivedSize
    BY <1>1, <1>3, <2>1
  <2>14. Delivers(m, room, Passed(q, k))
    BY <2>1, <2>12, <2>13 DEF Delivers
  <2> QED
    BY <2>3, <2>14 DEF k
<1> QED
  BY <1>1, <1>2, <1>3

-----------------------------------------------------------------------------
(* AesDecoderStream: whole blocks stay whole.                               *)

(* Numbers of bytes that are whole blocks.                                  *)
LEMMA WholeBlocks ==
    ASSUME NEW b \in Nat \ {0}
    PROVE  /\ 0 % b = 0
           /\ \A n \in Nat : n % b = 0 => (n \div b) * b = n
           /\ \A n \in Nat : n < b /\ n % b = 0 => n = 0
           /\ \A x \in Nat, k \in Nat : x % b = 0 /\ k % b = 0 => (x + k) % b = 0
<1>1. \A n \in Nat : n \div b \in Nat /\ (n % b = 0 => (n \div b) * b = n)
  OBVIOUS
<1>2. \A q \in Nat : (q * b) % b = 0
  OBVIOUS
<1>3. ASSUME NEW x \in Nat, NEW k \in Nat, x % b = 0, k % b = 0
      PROVE  (x + k) % b = 0
  <2>1. PICK q \in Nat : x = q * b
    BY <1>1, <1>3
  <2>2. PICK r \in Nat : k = r * b
    BY <1>1, <1>3
  <2>3. x + k = (q + r) * b /\ q + r \in Nat
    BY <2>1, <2>2
  <2> QED
    BY <1>2, <2>3
<1> QED
  BY <1>1, <1>3

(* The cipher stream has decrypted, from the first byte on and each block   *)
(* with the one before it, all it read, and serves it in order.             *)
CipherInv(c) ==
    /\ MultipartInv(c.inner)
    /\ c.inner.pos % Block = 0 /\ c.iv = c.inner.pos - Block
    /\ c.pos \in Nat /\ c.n \in Nat /\ c.at \in Nat /\ c.pos + c.n = c.inner.pos
    /\ c.n # 0 => c.good = TRUE
    /\ \A i \in 0..(c.n - 1) : Stored(c.pos + i) = [part |-> c.part, at |-> c.at + i]

(* The fields of the records the cipher stream makes.                        *)
LEMMA CipherFields ==
    \A inner, pos, iv, part, at, n, good :
        /\ Cipher(inner, pos, iv, part, at, n, good).inner = inner
        /\ Cipher(inner, pos, iv, part, at, n, good).pos = pos
        /\ Cipher(inner, pos, iv, part, at, n, good).iv = iv
        /\ Cipher(inner, pos, iv, part, at, n, good).part = part
        /\ Cipher(inner, pos, iv, part, at, n, good).at = at
        /\ Cipher(inner, pos, iv, part, at, n, good).n = n
        /\ Cipher(inner, pos, iv, part, at, n, good).good = good
BY DEF Cipher

(* A new one is at the first byte.                                           *)
LEMMA NewCipherSound == CipherInv(NewCipher) /\ NewCipher.pos = 0
<1>1. Block \in Nat \ {0}
  BY BodyAssumption DEF BodyAssumption
<1>2. MultipartInv(NewMultipart) /\ NewMultipart.pos = 0 /\ 0 % Block = 0
  BY <1>1, SoughtSound, WholeBlocks
<1> DEFINE c == NewCipher
<1>3. /\ c.inner = NewMultipart /\ c.pos = 0 /\ c.iv = 0 - Block /\ c.at = 0 /\ c.n = 0
  BY DEF NewCipher, Cipher
<1> HIDE DEF c
<1>4. CipherInv(c) /\ c.pos = 0
  BY <1>2, <1>3 DEF CipherInv
<1> QED
  BY <1>4 DEF c

(* Serving from the buffer.                                                 *)
LEMMA ServeSound ==
    ASSUME NEW c, CipherInv(c), c.n # 0, NEW room \in Nat \ {0}
    PROVE  /\ CipherInv(Serve(c, room).state)
           /\ Serve(c, room).state.inner = c.inner
           /\ Serves(c.pos, Serve(c, room).state.pos, room, Serve(c, room).out)
<1> DEFINE pos == c.pos
           n == c.n
           at == c.at
           k == AtMost(AtMost(n, room), ArchivedSize - pos)
           s == Cipher(c.inner, pos + k, c.iv, c.part, at + k, n - k, c.good)
           out == Got(c.part, at, k, c.good)
<1>1. /\ pos \in Nat /\ n \in Nat \ {0} /\ at \in Nat /\ ArchivedSize \in Nat
      /\ pos + n = c.inner.pos /\ c.inner.pos <= ArchivedSize /\ c.good = TRUE
  BY PartsAre DEF CipherInv, MultipartInv
<1>2. \A i \in 0..(n - 1) : Stored(pos + i) = [part |-> c.part, at |-> at + i]
  BY DEF CipherInv
<1>3. Serve(c, room) = PollOutcome(s, out)
  BY DEF Serve
<1>4. Serve(c, room).state = s /\ Serve(c, room).out = out
  BY <1>3 DEF PollOutcome
<1>5. /\ out.kind = "bytes" /\ out.good = c.good /\ out.n = k /\ out.part = c.part /\ out.at = at
  BY DEF Got
<1>6. /\ s.inner = c.inner /\ s.pos = pos + k /\ s.iv = c.iv /\ s.part = c.part /\ s.at = at + k
      /\ s.n = n - k /\ s.good = c.good
  BY CipherFields
<1>7. k \in 1..room /\ k <= n
  <2> HIDE DEF pos, n
  <2> QED
    BY <1>1 DEF AtMost
<1>8. /\ MultipartInv(c.inner) /\ c.inner.pos % Block = 0 /\ c.iv = c.inner.pos - Block
  BY DEF CipherInv
<1> HIDE DEF s, out, k, pos, n, at
<1>9. \A i \in 0..(k - 1) : Stored(pos + i) = [part |-> out.part, at |-> out.at + i]
  BY <1>1, <1>2, <1>5, <1>7
<1>10. Serves(pos, s.pos, room, out)
  BY <1>1, <1>5, <1>6, <1>7, <1>9 DEF Serves
<1>11. ASSUME NEW i \in 0..((n - k) - 1)
       PROVE  Stored((pos + k) + i) = [part |-> c.part, at |-> (at + k) + i]
  <2>1. k + i \in 0..(n - 1) /\ (pos + k) + i = pos + (k + i) /\ (at + k) + i = at + (k + i)
    BY <1>1, <1>7
  <2> QED
    BY <1>2, <2>1
<1>12. pos + k \in Nat /\ n - k \in Nat /\ at + k \in Nat /\ (pos + k) + (n - k) = pos + n
  BY <1>1, <1>7
<1>13. CipherInv(s)
  BY <1>1, <1>6, <1>8, <1>11, <1>12 DEF CipherInv
<1> QED
  BY <1>4, <1>6, <1>10, <1>13 DEF pos

(* Reading whole blocks with nothing buffered buffers them decrypted.       *)
LEMMA DecryptSound ==
    ASSUME NEW c, CipherInv(c), c.n = 0, NEW r, NEW room \in Nat,
           Delivers(c.inner, room, r), r.out.kind = "bytes", r.out.n \in Nat \ {0},
           (r.state.pos - c.inner.pos) % Block = 0
    PROVE  /\ r.out.n >= Block /\ Decrypt(c, r).n # 0 /\ CipherInv(Decrypt(c, r))
           /\ Decrypt(c, r).pos = c.pos /\ Decrypt(c, r).inner = r.state
<1> DEFINE p == c.inner.pos
           n == r.out.n
           s == Decrypt(c, r)
<1>1. Block \in Nat \ {0}
  BY BodyAssumption DEF BodyAssumption
<1>2. /\ p \in Nat /\ p % Block = 0 /\ c.iv = p - Block /\ c.pos = p
  BY DEF CipherInv, MultipartInv
<1>3. /\ MultipartInv(r.state) /\ r.state.pos = p + n /\ n \in Nat \ {0} /\ r.out.good = TRUE
      /\ r.out.at \in Nat
      /\ \A i \in 0..(n - 1) : Stored(p + i) = [part |-> r.out.part, at |-> r.out.at + i]
  BY DEF Delivers, Serves, End, Again
<1>4. (p + n) - p = n
  BY <1>2, <1>3
<1>5. n % Block = 0
  BY <1>3, <1>4
<1>6. Whole(n) = n /\ n >= Block /\ (p + n) % Block = 0
  <2> HIDE DEF p, n
  <2>1. (n \div Block) * Block = n /\ ~(n < Block)
    BY <1>1, <1>3, <1>5, WholeBlocks
  <2>2. (p + n) % Block = 0
    BY <1>1, <1>2, <1>3, <1>5, WholeBlocks
  <2> QED
    BY <1>1, <1>3, <2>1, <2>2 DEF Whole
<1>7. /\ s.inner = r.state /\ s.pos = c.pos /\ s.iv = p + n - Block /\ s.part = r.out.part
      /\ s.at = r.out.at /\ s.n = n /\ s.good = InStep(c, r)
  <2>1. s = Cipher(r.state, c.pos, p + Whole(n) - Block, r.out.part, r.out.at, Whole(n), InStep(c, r))
    BY DEF Decrypt
  <2> HIDE DEF s, p, n
  <2> QED
    BY <1>6, <2>1, CipherFields
<1>8. s.good = TRUE
  BY <1>2, <1>3, <1>7 DEF InStep
<1> HIDE DEF s, p, n
<1>9. CipherInv(s)
  <2>1. p + n - Block = (p + n) - Block /\ p + n \in Nat
    BY <1>1, <1>2, <1>3
  <2> QED
    BY <1>2, <1>3, <1>6, <1>7, <1>8, <2>1 DEF CipherInv
<1> QED
  BY <1>3, <1>6, <1>7, <1>9 DEF s, n

(* Handed whole blocks, it gives the next bytes of the file.                 *)
LEMMA CipherDelivers ==
    ASSUME VolumesHoldData, NEW c, CipherInv(c), NEW room \in Nat \ {0},
           (PollCipher(c, room).state.inner.pos - c.inner.pos) % Block = 0
    PROVE  /\ CipherInv(PollCipher(c, room).state)
           /\ Serves(c.pos, PollCipher(c, room).state.pos, room, PollCipher(c, room).out)
<1>1. /\ MultipartInv(c.inner) /\ c.inner.pos \in Nat /\ c.inner.pos <= ArchivedSize
      /\ ArchivedSize \in Nat /\ c.pos \in Nat /\ c.n \in Nat /\ c.pos + c.n = c.inner.pos
  BY PartsAre DEF CipherInv, MultipartInv
<1>2. CASE c.pos >= ArchivedSize
  <2>1. PollCipher(c, room) = PollOutcome(c, End)
    BY <1>2 DEF PollCipher
  <2>2. PollCipher(c, room).state = c /\ PollCipher(c, room).out = End
    BY <2>1 DEF PollOutcome
  <2>3. c.pos = ArchivedSize
    BY <1>1, <1>2
  <2> QED
    BY <2>2, <2>3 DEF Serves
<1>3. CASE c.pos < ArchivedSize /\ c.n > 0
  <2>1. ~(c.pos >= ArchivedSize) /\ c.n # 0
    BY <1>1, <1>3
  <2>2. PollCipher(c, room) = Serve(c, room)
    BY <1>3, <2>1 DEF PollCipher
  <2> QED
    BY <2>1, <2>2, ServeSound
<1>4. CASE c.pos < ArchivedSize /\ c.n = 0
  <2> DEFINE amount == ReadBlocks * Block
             r == PollMultipart(c.inner, amount)
  <2>1. amount \in Nat \ {0}
    <3>1. ReadBlocks \in Nat \ {0} /\ Block \in Nat \ {0}
      BY BodyAssumption DEF BodyAssumption
    <3>2. \A x, y \in Nat \ {0} : x * y \in Nat \ {0}
      OBVIOUS
    <3> QED
      BY <3>1, <3>2
  <2>2. PollCipher(c, room) = Deciphered(c, r, room)
    <3>1. ~(c.pos >= ArchivedSize) /\ ~(c.n > 0)
      BY <1>1, <1>4
    <3> QED
      BY <3>1 DEF PollCipher
  <2> HIDE DEF amount
  <2>3. Delivers(c.inner, amount, r)
    BY <1>1, <2>1, MultipartDelivers
  <2> HIDE DEF r
  <2>4. c.inner.pos # ArchivedSize
    BY <1>1, <1>4
  <2> DEFINE s == Polled(c, r.state)
  <2>5. s.inner = r.state /\ s.pos = c.pos /\ s.iv = c.iv /\ s.at = c.at /\ s.n = c.n
    BY CipherFields DEF Polled
  <2> HIDE DEF s
  <2>6. CASE r.out.kind # "bytes"
    <3>1. r.out = Again /\ r.state.pos = c.inner.pos /\ MultipartInv(r.state)
      BY <2>3, <2>4, <2>6 DEF Delivers, Serves
    <3>2. PollCipher(c, room) = PollOutcome(s, Again)
      BY <2>2, <2>6, <3>1 DEF Deciphered, s
    <3>3. PollCipher(c, room).state = s /\ PollCipher(c, room).out = Again
      BY <3>2 DEF PollOutcome
    <3>4. 0..(s.n - 1) = {}
      BY <1>4, <2>5
    <3>5. CipherInv(s)
      BY <1>4, <2>5, <3>1, <3>4 DEF CipherInv
    <3> QED
      BY <2>5, <3>3, <3>5 DEF Serves
  <2>7. CASE r.out.kind = "bytes"
    <3>1. r.out.n \in Nat \ {0}
      BY <2>1, <2>3, <2>7 DEF Delivers, Serves, End, Again
    <3>2. CASE r.out.n < Block
      <4>1. PollCipher(c, room) = PollOutcome(s, End)
        BY <2>2, <2>7, <3>2 DEF Deciphered, s
      <4>2. PollCipher(c, room).state.inner = r.state
        BY <2>5, <4>1 DEF PollOutcome
      <4>3. r.out.n >= Block
        BY <1>4, <2>1, <2>3, <2>7, <3>1, <4>2, DecryptSound
      <4>4. Block \in Nat
        BY BodyAssumption DEF BodyAssumption
      <4> QED
        BY <3>1, <3>2, <4>3, <4>4
    <3>3. CASE ~(r.out.n < Block)
      <4> DEFINE d == Decrypt(c, r)
      <4>1. PollCipher(c, room) = Serve(d, room)
        BY <2>2, <2>7, <3>3 DEF Deciphered
      <4>2. Serve(d, room).state.inner = d.inner
        BY CipherFields DEF Serve, PollOutcome
      <4>3. d.inner = r.state
        BY CipherFields DEF Decrypt
      <4>4. (r.state.pos - c.inner.pos) % Block = 0
        BY <4>1, <4>2, <4>3
      <4>5. d.n # 0 /\ CipherInv(d) /\ d.pos = c.pos
        BY <1>4, <2>1, <2>3, <2>7, <3>1, <4>4, DecryptSound
      <4> HIDE DEF d
      <4> QED
        BY <4>1, <4>5, ServeSound
    <3> QED
      BY <3>2, <3>3
  <2> QED
    BY <2>6, <2>7
<1> QED
  BY <1>1, <1>2, <1>3, <1>4

-----------------------------------------------------------------------------
(* SeekableSegmentStream: the search for a segment.                         *)

(* f[k] is the search after k probes.                                       *)
Searches(f, target, failing, n) ==
    f = [k \in 0..n |-> IF k = 0 THEN Bracket(0, Segments, 0, PlainSize, Nothing, 0)
                        ELSE ProbeSegment(f[k - 1], target, failing)]

(* Such a function exists.                                                   *)
LEMMA SearchesExist ==
    ASSUME NEW target, NEW failing, NEW n \in Nat
    PROVE  \E f : Searches(f, target, failing, n)
<1> DEFINE Missing == {m \in Nat : ~\E f : Searches(f, target, failing, m)}
           Start == Bracket(0, Segments, 0, PlainSize, Nothing, 0)
<1>1. Missing = {}
  <2> SUFFICES ASSUME Missing # {} PROVE FALSE
    OBVIOUS
  <2>1. PICK m \in Missing : \A k \in Missing : m <= k
    <3>1. Missing \in SUBSET Nat
      OBVIOUS
    <3> QED
      BY <3>1, LeastOf
  <2>2. m \in Nat /\ ~\E f : Searches(f, target, failing, m)
    OBVIOUS
  <2>3. CASE m = 0
    <3> DEFINE g == [k \in 0..0 |-> Start]
    <3>1. Searches(g, target, failing, 0)
      BY DEF Searches
    <3> QED
      BY <2>2, <2>3, <3>1
  <2>4. CASE m > 0
    <3>1. m - 1 \in Nat /\ ~(m <= m - 1)
      BY <2>2, <2>4
    <3>2. m - 1 \notin Missing
      BY <2>1, <3>1
    <3>3. PICK f : Searches(f, target, failing, m - 1)
      BY <3>1, <3>2
    <3> DEFINE g == [k \in 0..m |-> IF k = 0 THEN Start
                                    ELSE ProbeSegment(f[k - 1], target, failing)]
    <3>4. \A k \in 0..(m - 1) : f[k] = g[k]
      BY <2>2, <3>3 DEF Searches
    <3>5. \A k \in 0..m : k # 0 => k - 1 \in 0..(m - 1)
      BY <2>2
    <3>6. g = [k \in 0..m |-> IF k = 0 THEN Start ELSE ProbeSegment(g[k - 1], target, failing)]
      BY <3>4, <3>5
    <3>7. Searches(g, target, failing, m)
      BY <3>6 DEF Searches
    <3> QED
      BY <2>2, <3>7
  <2> QED
    BY <2>2, <2>3, <2>4
<1> QED
  BY <1>1

(* After k probes of readable headers: the segment found holds the target;  *)
(* while none is, each probe took a segment away from those that may hold   *)
(* a target within the file.                                                *)
SearchInv(s, k, target) ==
    \/ /\ s.index \in 0..(Segments - 1)
       /\ s.start = Before(Plain, s.index) /\ s.start <= target
    \/ /\ s.index = Nothing
       /\ s.lo \in 0..Segments /\ s.hi \in 0..Segments /\ s.from \in Nat /\ s.to \in Nat
       /\ target < Total(Plain) /\ target < PlainSize =>
            /\ s.from = Before(Plain, s.lo) /\ s.from <= target /\ target < s.to
            /\ target < Before(Plain, s.hi) /\ s.hi - s.lo <= Segments - k

(* The fields of the records the search makes.                               *)
LEMMA BracketFields ==
    \A lo, hi, from, to, index, start :
        /\ Bracket(lo, hi, from, to, index, start).lo = lo
        /\ Bracket(lo, hi, from, to, index, start).hi = hi
        /\ Bracket(lo, hi, from, to, index, start).from = from
        /\ Bracket(lo, hi, from, to, index, start).to = to
        /\ Bracket(lo, hi, from, to, index, start).index = index
        /\ Bracket(lo, hi, from, to, index, start).start = start
BY DEF Bracket

(* The guess is one of the segments left.                                   *)
LEMMA GuessWithin ==
    ASSUME NEW s, NEW target \in Nat, s.lo \in Nat, s.hi \in Nat, s.from \in Nat, s.to \in Nat,
           Probing(s, target)
    PROVE  Guess(s, target) \in s.lo..(s.hi - 1)
<1> DEFINE a == target - s.from
           b == s.hi - s.lo
           d == s.to - s.from
           lo == s.lo
           hi == s.hi
<1>1. a \in Nat /\ b \in Nat \ {0} /\ d \in Nat \ {0} /\ lo \in Nat /\ hi \in Nat /\ lo < hi
  BY DEF Probing
<1>2. Guess(s, target) = AtMost(lo + (a * b) \div d, hi - 1)
  BY DEF Guess
<1> HIDE DEF a, b, d, lo, hi
<1>3. \A x, y \in Nat, z \in Nat \ {0} : (x * y) \div z \in Nat
  OBVIOUS
<1>4. (a * b) \div d \in Nat
  BY <1>1, <1>3
<1> DEFINE q == (a * b) \div d
<1> HIDE DEF q
<1>5. q \in Nat /\ Guess(s, target) = AtMost(lo + q, hi - 1)
  BY <1>2, <1>4 DEF q
<1>6. AtMost(lo + q, hi - 1) \in lo..(hi - 1)
  BY <1>1, <1>5 DEF AtMost
<1> QED
  BY <1>5, <1>6 DEF lo, hi

(* A probe, of a header that can be read, keeps what a search knows.        *)
LEMMA ProbeSound ==
    ASSUME NEW s, NEW k \in Nat, NEW target \in Nat, SearchInv(s, k, target)
    PROVE  SearchInv(ProbeSegment(s, target, {}), k + 1, target)
<1>1. /\ Segments \in Nat /\ Total(Plain) = Before(Plain, Segments) /\ Total(Plain) \in Nat
      /\ \A i \in 0..Segments : Before(Plain, i) \in Nat
      /\ \A i \in 0..Segments, j \in 0..Segments : i <= j => Before(Plain, i) <= Before(Plain, j)
  <2>1. Plain \in Seq(Nat)
    BY BodyAssumption DEF BodyAssumption
  <2> QED
    BY <2>1, BeforeGrows DEF Segments, Total
<1>2. CASE s.index # Nothing
  <2>1. ProbeSegment(s, target, {}) = s
    BY <1>2 DEF ProbeSegment, Probing
  <2> QED
    BY <1>2, <2>1 DEF SearchInv
<1>3. CASE s.index = Nothing
  <2> DEFINE inside == target < Total(Plain) /\ target < PlainSize
  <2>1. /\ s.lo \in 0..Segments /\ s.hi \in 0..Segments /\ s.from \in Nat /\ s.to \in Nat
        /\ inside => /\ s.from = Before(Plain, s.lo) /\ s.from <= target /\ target < s.to
                     /\ target < Before(Plain, s.hi) /\ s.hi - s.lo <= Segments - k
    <3>1. s.index \notin 0..(Segments - 1)
      BY <1>1, <1>3 DEF Nothing
    <3> QED
      BY <3>1 DEF SearchInv
  <2> HIDE DEF inside
  <2>2. CASE ~Probing(s, target)
    <3>1. ~inside
      <4> SUFFICES ASSUME inside PROVE FALSE
        OBVIOUS
      <4>1. s.lo < s.hi
        BY <1>1, <2>1
      <4> QED
        BY <1>3, <2>1, <2>2, <4>1 DEF Probing
    <3>2. ProbeSegment(s, target, {}) = s
      BY <2>2 DEF ProbeSegment
    <3> QED
      BY <1>3, <2>1, <3>1, <3>2 DEF SearchInv, inside
  <2>3. CASE Probing(s, target)
    <3> DEFINE g == Guess(s, target)
               begin == Before(Plain, g)
               end == Before(Plain, g + 1)
               r == ProbeSegment(s, target, {})
    <3>1. g \in s.lo..(s.hi - 1)
      BY <1>1, <2>1, <2>3, GuessWithin
    <3>2. r = Narrowed(s, target, g)
      BY <2>3 DEF ProbeSegment, ProbeGuess
    <3> HIDE DEF g, r
    <3>3. g \in 0..(Segments - 1) /\ g \in 0..Segments /\ g + 1 \in 0..Segments
          /\ begin \in Nat /\ end \in Nat
      BY <1>1, <2>1, <3>1
    <3>4. CASE end <= target
      <4>1. r = Bracket(g + 1, s.hi, end, s.to, Nothing, 0)
        BY <3>2, <3>4 DEF Narrowed, SegmentEnd
      <4>2. r.lo = g + 1 /\ r.hi = s.hi /\ r.from = end /\ r.to = s.to /\ r.index = Nothing
        BY <4>1, BracketFields
      <4> HIDE DEF end
      <4>3. inside => s.hi - (g + 1) <= Segments - (k + 1)
        BY <1>1, <2>1, <3>1, <3>3
      <4>4. SearchInv(r, k + 1, target)
        BY <2>1, <3>3, <3>4, <4>2, <4>3 DEF SearchInv, inside, end
      <4> QED
        BY <4>4 DEF r
    <3>5. CASE end > target /\ begin > target
      <4>1. r = Bracket(s.lo, g, s.from, begin, Nothing, 0)
        <5>1. ~(end <= target)
          BY <3>3, <3>5
        <5> QED
          BY <3>2, <3>5, <5>1 DEF Narrowed, SegmentEnd, SegmentStart
      <4>2. r.lo = s.lo /\ r.hi = g /\ r.from = s.from /\ r.to = begin /\ r.index = Nothing
        BY <4>1, BracketFields
      <4> HIDE DEF begin
      <4>3. inside => g - s.lo <= Segments - (k + 1)
        BY <1>1, <2>1, <3>1, <3>3
      <4>4. target < begin
        BY <3>3, <3>5
      <4>5. SearchInv(r, k + 1, target)
        BY <2>1, <3>3, <4>2, <4>3, <4>4 DEF SearchInv, inside, begin
      <4> QED
        BY <4>5 DEF r
    <3>6. CASE end > target /\ begin <= target
      <4>1. r = Bracket(s.lo, s.hi, s.from, s.to, g, begin)
        <5>1. ~(end <= target) /\ ~(begin > target)
          BY <3>3, <3>6
        <5> QED
          BY <3>2, <5>1 DEF Narrowed, SegmentEnd, SegmentStart
      <4>2. r.index = g /\ r.start = begin
        BY <4>1, BracketFields
      <4>3. SearchInv(r, k + 1, target)
        BY <3>3, <3>6, <4>2 DEF SearchInv
      <4> QED
        BY <4>3 DEF r
    <3> QED
      BY <3>3, <3>4, <3>5, <3>6 DEF r
  <2> QED
    BY <2>2, <2>3
<1> QED
  BY <1>2, <1>3

(* The last probe leaves what a search knows.                                *)
LEMMA SearchSound ==
    ASSUME NEW target \in Nat
    PROVE  SearchInv(Search(target, {}), Probes, target)
<1> DEFINE Start == Bracket(0, Segments, 0, PlainSize, Nothing, 0)
           Sol(f) == f = [k \in 0..Probes |-> IF k = 0 THEN Start
                                              ELSE ProbeSegment(f[k - 1], target, {})]
           it == CHOOSE f : Sol(f)
<1>1. Plain \in Seq(Nat) /\ Plain # <<>> /\ PlainSize \in Nat /\ Probes \in Nat
  BY BodyAssumption DEF BodyAssumption
<1>2. \A f : Sol(f) <=> Searches(f, target, {}, Probes)
  BY DEF Searches
<1>3. Searches(it, target, {}, Probes)
  <2>1. Sol(it)
    BY <1>1, <1>2, SearchesExist
  <2> QED
    BY <1>2, <2>1
<1>4. Search(target, {}) = it[Probes]
  BY DEF Search
<1> HIDE DEF it
<1>5. it[0] = Start /\ \A k \in 1..Probes : it[k] = ProbeSegment(it[k - 1], target, {})
  BY <1>1, <1>3 DEF Searches
<1>6. SearchInv(it[0], 0, target)
  <2>1. /\ Segments \in Nat /\ Total(Plain) = Before(Plain, Segments) /\ Before(Plain, 0) = 0
    BY <1>1, BeforeIs DEF Segments, Total
  <2>2. /\ it[0].lo = 0 /\ it[0].hi = Segments /\ it[0].from = 0 /\ it[0].to = PlainSize
        /\ it[0].index = Nothing
    BY <1>5, BracketFields
  <2> QED
    BY <1>1, <2>1, <2>2 DEF SearchInv
<1>7. \A k \in 0..Probes : SearchInv(it[k], k, target)
  <2> DEFINE Broken == {k \in 0..Probes : ~SearchInv(it[k], k, target)}
  <2> SUFFICES ASSUME Broken # {} PROVE FALSE
    OBVIOUS
  <2>1. PICK k \in Broken : \A j \in Broken : k <= j
    <3>1. Broken \in SUBSET Nat
      BY <1>1
    <3> QED
      BY <3>1, LeastOf
  <2>2. k # 0 /\ k \in 0..Probes /\ ~SearchInv(it[k], k, target)
    BY <1>6
  <2>3. k \in 1..Probes /\ k - 1 \in 0..Probes /\ ~(k <= k - 1) /\ k - 1 \in Nat /\ (k - 1) + 1 = k
    BY <1>1, <2>2
  <2>4. SearchInv(it[k - 1], k - 1, target)
    BY <2>1, <2>3
  <2>5. it[k] = ProbeSegment(it[k - 1], target, {})
    BY <1>5, <2>3
  <2>6. SearchInv(it[k], (k - 1) + 1, target)
    BY <2>3, <2>4, <2>5, ProbeSound
  <2> QED
    BY <2>2, <2>3, <2>6
<1> QED
  BY <1>1, <1>4, <1>7

(* With a probe for each segment every place of the file is found: with the *)
(* header of one segment read, there is one segment less to look in.        *)
THEOREM SegmentsAreFound ==
    ASSUME NEW target \in Nat, target < Total(Plain), target < PlainSize, Segments <= Probes
    PROVE  Search(target, {}).index # Nothing
<1>1. SearchInv(Search(target, {}), Probes, target)
  BY SearchSound
<1>2. Plain \in Seq(Nat) /\ Probes \in Nat
  BY BodyAssumption DEF BodyAssumption
<1>3. /\ Segments \in Nat /\ \A i \in 0..Segments : Before(Plain, i) \in Nat
      /\ \A i \in 0..Segments, j \in 0..Segments : i <= j => Before(Plain, i) <= Before(Plain, j)
  BY <1>2, BeforeGrows DEF Segments
<1> SUFFICES ASSUME Search(target, {}).index = Nothing PROVE FALSE
  OBVIOUS
<1> DEFINE s == Search(target, {})
<1>4. s.index \notin 0..(Segments - 1)
  BY <1>3 DEF Nothing
<1>5. /\ s.lo \in 0..Segments /\ s.hi \in 0..Segments
      /\ Before(Plain, s.lo) <= target /\ target < Before(Plain, s.hi)
      /\ s.hi - s.lo <= Segments - Probes
  BY <1>1, <1>4 DEF SearchInv
<1> HIDE DEF s
<1>6. s.hi <= s.lo
  BY <1>2, <1>3, <1>5
<1> QED
  BY <1>3, <1>5, <1>6

(* A stream aligned to a place its headers lead to is at that place.        *)
LEMMA AlignedThere ==
    ASSUME NEW p \in Nat, NEW failing, Located(p, failing), p < PlainSize
    PROVE  AlignedAt(p, failing) = p
<1>1. CASE p = 0
  BY <1>1 DEF AlignedAt
<1>2. CASE p # 0
  <2> DEFINE s == Search(p, {})
  <2>1. failing = {} /\ s.index # Nothing
    BY <1>2, SegmentsAreFound DEF Located
  <2>2. SearchInv(s, Probes, p)
    BY SearchSound
  <2>3. FindSegment(p, failing) = s
    BY <2>1 DEF FindSegment
  <2>4. AlignedAt(p, failing) = Before(Plain, s.index) + AtLeast(p - s.start, 0)
    BY <1>2, <2>3 DEF AlignedAt, Aligned
  <2> HIDE DEF s
  <2>5. s.index \in 0..(Segments - 1) /\ s.start = Before(Plain, s.index) /\ s.start <= p
    BY <2>1, <2>2 DEF SearchInv
  <2>6. s.start \in Nat
    <3>1. Plain \in Seq(Nat)
      BY BodyAssumption DEF BodyAssumption
    <3>2. s.index \in 0..Len(Plain) /\ \A i \in 0..Len(Plain) : Before(Plain, i) \in Nat
      BY <2>5, <3>1, BeforeGrows DEF Segments
    <3> QED
      BY <2>5, <3>2
  <2>7. AlignedAt(p, failing) = s.start + AtLeast(p - s.start, 0)
    BY <2>4, <2>5
  <2> QED
    BY <2>5, <2>6, <2>7 DEF AtLeast
<1> QED
  BY <1>1, <1>2

-----------------------------------------------------------------------------
(* parse_range.                                                             *)

RangeSpec == [kind : {"suffix", "open", "full"}, n : Nat, start : Nat, end : Nat]

(* A range within the file.                                                 *)
Within(range, size) ==
    /\ range.start \in Nat /\ range.end \in Nat
    /\ range.start <= range.end /\ range.end < size

(* A spec that parses asks for bytes of the file.                           *)
LEMMA ParsedSpec ==
    ASSUME NEW spec \in RangeSpec, NEW size \in Nat, ParseSpec(spec, size).ok
    PROVE  Within(ParseSpec(spec, size), size)
<1>1. /\ spec.n \in Nat /\ spec.start \in Nat /\ spec.end \in Nat
      /\ spec.kind \in {"suffix", "open", "full"}
  BY DEF RangeSpec
<1>2. \A a, b : Good(a, b).start = a /\ Good(a, b).end = b
  BY DEF Good
<1>3. ~Bad.ok
  BY DEF Bad
<1> DEFINE n == spec.n
           start == spec.start
           end == spec.end
<1>4. \/ ParseSpec(spec, size) = Good(size - n, size - 1) /\ n \in 1..size
      \/ ParseSpec(spec, size) = Good(start, size - 1) /\ start < size
      \/ ParseSpec(spec, size) = Good(start, AtMost(end, size - 1)) /\ start <= end /\ start < size
      \/ ParseSpec(spec, size) = Bad
  <2>1. CASE spec.kind = "suffix"
    BY <2>1 DEF ParseSpec
  <2>2. CASE spec.kind = "open"
    BY <2>2 DEF ParseSpec
  <2>3. CASE spec.kind = "full"
    BY <2>3 DEF ParseSpec
  <2> QED
    BY <1>1, <2>1, <2>2, <2>3
<1> HIDE DEF n, start, end
<1>5. n \in Nat /\ start \in Nat /\ end \in Nat
  BY <1>1 DEF n, start, end
<1>6. CASE ParseSpec(spec, size) = Good(size - n, size - 1) /\ n \in 1..size
  BY <1>2, <1>5, <1>6 DEF Within
<1>7. CASE ParseSpec(spec, size) = Good(start, size - 1) /\ start < size
  BY <1>2, <1>5, <1>7 DEF Within
<1>8. CASE /\ ParseSpec(spec, size) = Good(start, AtMost(end, size - 1))
           /\ start <= end /\ start < size
  <2>1. AtMost(end, size - 1) \in Nat /\ start <= AtMost(end, size - 1) /\ AtMost(end, size - 1) < size
    BY <1>5, <1>8 DEF AtMost
  <2> QED
    BY <1>2, <1>5, <1>8, <2>1 DEF Within
<1> QED
  BY <1>3, <1>4, <1>6, <1>7, <1>8

(* So does a header that is honoured.                                       *)
LEMMA ParsedRange ==
    ASSUME NEW specs \in Seq(RangeSpec), NEW size \in Nat, ParseRange(specs, size).ok
    PROVE  Within(ParseRange(specs, size), size)
<1>1. ~Bad.ok
  BY DEF Bad
<1>2. specs # <<>> /\ ParseRange(specs, size) = ParseSpec(specs[1], size)
  BY <1>1 DEF ParseRange
<1>3. specs[1] \in RangeSpec
  BY <1>2
<1> QED
  BY <1>2, <1>3, ParsedSpec

-----------------------------------------------------------------------------
(* The body of a response.                                                  *)

(* Nothing is answered yet, or the range is refused.                        *)
Unsent == want.start = 0 /\ want.n = 0 /\ sent = 0 /\ last = Again

(* What the headers of a response say of the body: all of the file, or a    *)
(* range of it; an archived file is not longer than its parts.              *)
Promised ==
    /\ want.start \in Nat /\ want.n \in Nat
    /\ status = "200" => want.start = 0
    /\ source # "plain" => /\ want.start + want.n <= ArchivedSize
                           /\ status = "200" => want.n = ArchivedSize
    /\ source = "encrypted" => status = "200"

(* The conditions of BodyIsExact.                                           *)
Undisturbed ==
    VolumesHoldData /\ whole /\ (source = "plain" => Located(want.start, unreadable))

(* The stream is at the next byte of the body.                              *)
AtNext ==
    /\ sent \in Nat /\ (status = "206" => sent <= want.n)
    /\ source = "archive" => MultipartInv(stream) /\ stream.pos = want.start + sent
    /\ source = "encrypted" => CipherInv(stream) /\ stream.pos = want.start + sent
    /\ source = "plain" => /\ stream \in Nat /\ stream = want.start + sent
                           /\ stream <= Total(Plain)

BodyInv ==
    /\ source \in {"archive", "encrypted", "plain"} /\ header \in Ranges
    /\ status \in {"none", "200", "206", "416"}
    /\ status \in {"none", "416"} => Unsent
    /\ status \in {"200", "206"} =>
         /\ Promised
         /\ Undisturbed => AtNext /\ InPlace /\ Complete

(* With nothing sent there is nothing to be wrong.                          *)
LEMMA NothingSent == last = Again => InPlace /\ Complete
BY DEF InPlace, Complete, Again

(* The sizes of the files.                                                  *)
LEMMA SizesAre ==
    /\ ArchivedSize \in Nat /\ PlainSize \in Nat /\ BodySize \in Nat
    /\ Plain \in Seq(Nat) /\ Total(Plain) \in Nat
<1>1. ArchivedSize \in Nat
  BY PartsAre
<1>2. PlainSize \in Nat /\ Plain \in Seq(Nat)
  BY BodyAssumption DEF BodyAssumption
<1>3. Total(Plain) \in Nat
  BY <1>2, BeforeGrows
<1> QED
  BY <1>1, <1>2, <1>3 DEF BodySize

(* A full body starts with the first byte of the file.                      *)
LEMMA ServeFullSound == BodyInv /\ ServeFull => BodyInv'
<1> SUFFICES ASSUME BodyInv, ServeFull PROVE BodyInv'
  OBVIOUS
<1>1. /\ status = "none" /\ status' = "200" /\ want' = [start |-> 0, n |-> BodySize]
      /\ stream' = NewStream /\ UNCHANGED <<source, header, unreadable, sent, last, whole>>
  BY DEF ServeFull, Respond
<1>2. /\ source \in {"archive", "encrypted", "plain"} /\ header \in Ranges
      /\ sent = 0 /\ last = Again
  BY <1>1 DEF BodyInv, Unsent
<1>3. want'.start = 0 /\ want'.n = BodySize /\ BodySize \in Nat
  BY <1>1, SizesAre
<1>4. Promised'
  <2>1. source # "plain" => BodySize = ArchivedSize
    BY DEF BodySize
  <2> QED
    BY <1>1, <1>3, <2>1, SizesAre DEF Promised
<1>5. AtNext'
  <2>1. source = "archive" => stream' = NewMultipart
    BY <1>1 DEF NewStream
  <2>2. source = "encrypted" => stream' = NewCipher
    BY <1>1 DEF NewStream
  <2>3. source = "plain" => stream' = 0
    BY <1>1 DEF NewStream
  <2>4. sent' = 0 /\ want'.start + sent' = 0 /\ source' = source /\ status' # "206"
    BY <1>1, <1>2, <1>3
  <2>5. 0 <= Total(Plain)
    BY SizesAre
  <2> QED
    BY <2>1, <2>2, <2>3, <2>4, <2>5, SoughtSound, NewCipherSound DEF AtNext
<1>6. InPlace' /\ Complete'
  BY <1>1, <1>2 DEF InPlace, Complete, Again
<1> QED
  BY <1>1, <1>2, <1>4, <1>5, <1>6 DEF BodyInv

(* A range is served from its first byte: an archived file is sought there, *)
(* a plain one aligned.                                                     *)
LEMMA ServeRangeSound == BodyInv /\ ServeRange => BodyInv'
<1> SUFFICES ASSUME BodyInv, ServeRange PROVE BodyInv'
  OBVIOUS
<1> DEFINE start == Requested.start
<1>1. /\ status = "none" /\ header # <<>> /\ Requested.ok /\ source # "encrypted"
      /\ source = "plain" => AlignedAt(start, unreadable) <= Total(Plain)
      /\ status' = "206" /\ want' = [start |-> start, n |-> ContentLength(Requested)]
      /\ stream' = IF source = "plain" THEN AlignedAt(start, unreadable) ELSE SeekMultipart(start)
      /\ UNCHANGED <<source, header, unreadable, sent, last, whole>>
  BY DEF ServeRange, Ranged, Respond
<1>2. /\ source \in {"archive", "encrypted", "plain"} /\ header \in Ranges
      /\ sent = 0 /\ last = Again
  BY <1>1 DEF BodyInv, Unsent
<1>3. Within(Requested, BodySize)
  <2>1. header \in Seq(RangeSpec)
    BY <1>2, BodyAssumption DEF BodyAssumption, RangeSpec
  <2> QED
    BY <1>1, <2>1, SizesAre, ParsedRange DEF Requested
<1>4. /\ start \in Nat /\ Requested.end \in Nat /\ start <= Requested.end
      /\ Requested.end < BodySize /\ BodySize \in Nat
  BY <1>3, SizesAre DEF Within
<1>5. want'.start = start /\ want'.n = ContentLength(Requested)
  BY <1>1
<1> HIDE DEF start
<1>6. /\ ContentLength(Requested) \in Nat /\ start + ContentLength(Requested) <= BodySize
      /\ start < BodySize
  <2> DEFINE end == Requested.end
  <2>1. ContentLength(Requested) = end - start + 1
    BY DEF ContentLength, start
  <2>2. end \in Nat /\ start <= end /\ end < BodySize
    BY <1>4
  <2> HIDE DEF end
  <2> QED
    BY <1>4, <2>1, <2>2
<1>7. Promised'
  <2>1. source # "plain" => BodySize = ArchivedSize
    BY DEF BodySize
  <2> QED
    BY <1>1, <1>4, <1>5, <1>6, <2>1 DEF Promised
<1>8. ASSUME Undisturbed'
      PROVE  AtNext'
  <2>1. sent' = 0 /\ sent' <= want'.n /\ want'.start + sent' = start /\ source' = source
    BY <1>1, <1>2, <1>4, <1>5, <1>6
  <2>2. CASE source = "archive"
    <3>1. stream' = SeekMultipart(start)
      BY <1>1, <2>2
    <3>2. start <= ArchivedSize
      BY <1>4, <1>6, <2>2 DEF BodySize
    <3>3. MultipartInv(stream') /\ stream'.pos = start
      BY <1>4, <3>1, <3>2, SoughtSound
    <3> QED
      BY <2>1, <2>2, <3>3 DEF AtNext
  <2>3. CASE source = "plain"
    <3>1. stream' = AlignedAt(start, unreadable) /\ stream' <= Total(Plain)
      BY <1>1, <2>3
    <3>2. Located(start, unreadable)
      BY <1>1, <1>5, <1>8, <2>3 DEF Undisturbed, Located
    <3>3. start < PlainSize
      BY <1>6, <2>3 DEF BodySize
    <3>4. stream' = start
      BY <1>4, <3>1, <3>2, <3>3, AlignedThere
    <3> QED
      BY <1>4, <2>1, <2>3, <3>1, <3>4 DEF AtNext
  <2> QED
    BY <1>1, <1>2, <2>2, <2>3
<1>9. InPlace' /\ Complete'
  BY <1>1, <1>2 DEF InPlace, Complete, Again
<1> QED
  BY <1>1, <1>2, <1>7, <1>8, <1>9 DEF BodyInv

(* A refused range has no body.                                             *)
LEMMA RefuseSound == BodyInv /\ (RefuseRange \/ FailToAlign) => BodyInv'
<1> SUFFICES ASSUME BodyInv, RefuseRange \/ FailToAlign PROVE BodyInv'
  OBVIOUS
<1>1. /\ status = "none" /\ status' = "416" /\ want' = [start |-> 0, n |-> 0]
      /\ UNCHANGED <<source, header, unreadable, sent, last, whole>>
  BY DEF RefuseRange, FailToAlign, Ranged, Respond
<1> QED
  BY <1>1 DEF BodyInv, Unsent

(* A body that fails ends early, which is no end it promised.               *)
LEMMA FailBodySound == BodyInv /\ FailBody => BodyInv'
<1> SUFFICES ASSUME BodyInv, FailBody PROVE BodyInv'
  OBVIOUS
<1>1. /\ status \in {"200", "206"} /\ last' = [Again EXCEPT !.kind = "failed"]
      /\ UNCHANGED <<source, header, unreadable, status, want, stream, sent, whole>>
  BY DEF FailBody, Serving
<1>2. last'.kind = "failed"
  BY <1>1 DEF Again
<1>3. InPlace' /\ Complete'
  BY <1>2 DEF InPlace, Complete
<1>4. Promised => Promised'
  BY <1>1 DEF Promised
<1>5. (Undisturbed' => Undisturbed) /\ (AtNext => AtNext')
  BY <1>1 DEF Undisturbed, AtNext, Located
<1> QED
  BY <1>1, <1>3, <1>4, <1>5 DEF BodyInv

(* A poll of a plain file gives the next bytes of it, up to its end.        *)
LEMMA PlainDelivers ==
    ASSUME NEW at \in Nat, at <= Total(Plain), NEW room \in Nat \ {0}
    PROVE  \/ /\ PollPlain(at, room).state = at /\ PollPlain(at, room).out = End
              /\ at = Total(Plain)
           \/ \E k \in 1..room :
                /\ PollPlain(at, room).state = at + k /\ at + k <= Total(Plain)
                /\ PollPlain(at, room).out = Got(0, at, k, TRUE)
<1> DEFINE k == Chunk(Plain, at, room)
<1>1. Plain \in Seq(Nat) /\ Total(Plain) \in Nat
  BY SizesAre
<1>2. /\ at < Total(Plain) => k \in 1..room /\ at + k <= Total(Plain)
      /\ at >= Total(Plain) => k = 0
  BY <1>1, ChunkIs
<1>3. PollPlain(at, room) = ReadPlain(at, k)
  BY DEF PollPlain
<1> HIDE DEF k
<1>4. CASE at < Total(Plain)
  <2>1. k \in 1..room /\ k # 0 /\ at + k <= Total(Plain)
    BY <1>2, <1>4
  <2>2. ReadPlain(at, k) = PollOutcome(at + k, Got(0, at, k, TRUE))
    BY <2>1 DEF ReadPlain
  <2>3. ReadPlain(at, k).state = at + k /\ ReadPlain(at, k).out = Got(0, at, k, TRUE)
    BY <2>2 DEF PollOutcome
  <2> QED
    BY <1>3, <2>1, <2>3
<1>5. CASE at >= Total(Plain)
  <2>1. ReadPlain(at, k) = PollOutcome(at, End)
    BY <1>2, <1>5 DEF ReadPlain
  <2>2. ReadPlain(at, k).state = at /\ ReadPlain(at, k).out = End
    BY <2>1 DEF PollOutcome
  <2>3. at = Total(Plain)
    BY <1>1, <1>5
  <2> QED
    BY <1>3, <2>2, <2>3
<1>6. at < Total(Plain) \/ at >= Total(Plain)
  BY <1>1
<1> QED
  BY <1>4, <1>5, <1>6

(* What the file gives is put where it belongs in the body.                 *)
LEMMA ServedIsExact ==
    ASSUME BodyInv, Promised, status \in {"200", "206"}, source \in {"archive", "encrypted"},
           sent \in Nat, NEW limit \in Nat \ {0}, NEW to,
           status = "206" => limit <= want.n - sent,
           UNCHANGED <<source, status, want>>, sent' = sent + last'.n,
           Serves(want.start + sent, to, limit, last')
    PROVE  /\ sent' \in Nat /\ (status = "206" => sent' <= want.n) /\ to = want.start + sent'
           /\ InPlace' /\ Complete'
<1> DEFINE start == want.start
           n == want.n
           was == sent
           k == last'.n
<1>1. /\ start \in Nat /\ n \in Nat /\ start + n <= ArchivedSize /\ ArchivedSize \in Nat
      /\ status = "200" => start = 0 /\ n = ArchivedSize
  BY SizesAre DEF Promised
<1>2. was \in Nat /\ sent' = was + k /\ (status = "206" => limit <= n - was)
  OBVIOUS
<1>3. want'.start = start /\ want'.n = n /\ source' = source /\ source # "plain"
  OBVIOUS
<1>4. CASE last' = End /\ to = start + was /\ start + was = ArchivedSize
  <2>1. k = 0 /\ last'.kind = "end"
    BY <1>4 DEF End, Again
  <2> HIDE DEF start, n, was, k
  <2>2. was = n
    <3>1. CASE status = "200"
      BY <1>1, <1>2, <1>4, <3>1
    <3>2. CASE status = "206"
      BY <1>1, <1>2, <1>4, <3>2
    <3> QED
      BY <3>1, <3>2
  <2>3. sent' = was /\ sent' = want'.n
    BY <1>2, <1>3, <2>1, <2>2
  <2>4. InPlace' /\ Complete'
    BY <2>1, <2>3 DEF InPlace, Complete
  <2> QED
    BY <1>1, <1>2, <1>4, <2>2, <2>3, <2>4 DEF start, n
<1>5. CASE last' = Again /\ to = start + was
  <2>1. k = 0 /\ last'.kind = "again"
    BY <1>5 DEF Again
  <2>2. InPlace' /\ Complete'
    BY <2>1 DEF InPlace, Complete
  <2> HIDE DEF start, n, was, k
  <2>3. sent' = was /\ (status = "206" => was <= n)
    BY <1>1, <1>2, <2>1
  <2> QED
    BY <1>2, <1>5, <2>2, <2>3 DEF start, n
<1>6. CASE /\ last'.kind = "bytes" /\ last'.good = TRUE /\ k \in 1..limit
           /\ to = (start + was) + k
           /\ \A i \in 0..(k - 1) :
                Stored((start + was) + i) = [part |-> last'.part, at |-> last'.at + i]
  <2>1. /\ k \in Nat /\ (start + sent') - k = start + was /\ start + (sent' - k) = start + was
        /\ start + sent' - k = start + was
    <3> HIDE DEF start, was, k
    <3> QED
      BY <1>1, <1>2, <1>6
  <2>2. Complete'
    BY <1>6 DEF Complete
  <2>3. InPlace'
    BY <1>3, <1>6, <2>1 DEF InPlace
  <2> HIDE DEF start, n, was, k
  <2>4. sent' \in Nat /\ (status = "206" => sent' <= n) /\ to = start + sent'
    BY <1>1, <1>2, <1>6, <2>1
  <2> QED
    BY <2>2, <2>3, <2>4 DEF start, n
<1> QED
  BY <1>4, <1>5, <1>6 DEF Serves

(* A poll sends the next bytes, or ends a body that is complete.            *)
LEMMA PollSound ==
    ASSUME BodyInv, NEW room \in Room, Poll(room)
    PROVE  BodyInv'
<1> DEFINE limit == IF status = "206" THEN AtMost(room, want.n - sent) ELSE room
           r == PollStream(limit)
<1>1. /\ status \in {"200", "206"} /\ Promised
      /\ UNCHANGED <<source, header, unreadable, status, want>>
      /\ source \in {"archive", "encrypted", "plain"} /\ header \in Ranges
  BY DEF Poll, Serving, BodyInv
<1>2. \/ limit = 0 /\ last' = End /\ UNCHANGED <<stream, sent, whole>>
      \/ limit # 0 /\ Send(r)
  BY DEF Poll
<1> HIDE DEF limit, r
<1>3. Promised'
  BY <1>1 DEF Promised
<1>4. Undisturbed' => Undisturbed
  BY <1>1, <1>2 DEF Undisturbed, Located, Send
<1>5. ASSUME Undisturbed'
      PROVE  AtNext' /\ InPlace' /\ Complete'
  <2>1. AtNext
    BY <1>1, <1>4, <1>5 DEF BodyInv
  <2>2. /\ sent \in Nat /\ (status = "206" => sent <= want.n) /\ VolumesHoldData
        /\ want.start \in Nat /\ want.n \in Nat
    BY <1>1, <1>4, <1>5, <2>1 DEF AtNext, Undisturbed, Promised
  <2>3. room \in Nat \ {0}
    BY BodyAssumption DEF BodyAssumption
  <2> DEFINE n == want.n
             was == sent
  <2>4. n \in Nat /\ was \in Nat /\ (status = "206" => was <= n)
    BY <2>2
  <2>5. limit = IF status = "206" THEN AtMost(room, n - was) ELSE room
    BY DEF limit
  <2> HIDE DEF n, was
  <2>6. /\ limit \in Nat /\ (limit = 0 => status = "206" /\ was = n)
        /\ (status = "206" => limit <= n - was)
    BY <1>1, <2>3, <2>4, <2>5 DEF AtMost
  <2>7. CASE limit = 0
    <3>1. /\ last' = End /\ UNCHANGED <<stream, sent, whole>>
      BY <1>2, <2>7
    <3>2. last'.kind = "end"
      BY <3>1 DEF End, Again
    <3>3. sent' = want'.n
      BY <1>1, <2>6, <2>7, <3>1 DEF n, was
    <3>4. InPlace' /\ Complete'
      BY <3>2, <3>3 DEF InPlace, Complete
    <3>5. AtNext'
      BY <1>1, <2>1, <3>1 DEF AtNext
    <3> QED
      BY <3>4, <3>5
  <2>8. CASE limit # 0
    <3>1. stream' = r.state /\ last' = r.out /\ sent' = sent + last'.n
      BY <1>2, <2>8 DEF Send
    <3>2. limit \in Nat \ {0}
      BY <2>6, <2>8
    <3>3. status = "206" => limit <= want.n - sent
      BY <2>6 DEF n, was
    <3>4. CASE source = "archive"
      <4>1. r = PollMultipart(stream, limit)
        BY <3>4 DEF r, PollStream
      <4>2. MultipartInv(stream) /\ stream.pos = want.start + sent
        BY <2>1, <3>4 DEF AtNext
      <4>3. MultipartInv(r.state) /\ Serves(want.start + sent, r.state.pos, limit, last')
        BY <2>2, <3>1, <3>2, <4>1, <4>2, MultipartDelivers DEF Delivers
      <4>4. /\ sent' \in Nat /\ (status = "206" => sent' <= want.n)
            /\ r.state.pos = want.start + sent' /\ InPlace' /\ Complete'
        BY <1>1, <2>2, <3>1, <3>2, <3>3, <3>4, <4>3, ServedIsExact
      <4>5. AtNext'
        BY <1>1, <3>1, <3>4, <4>3, <4>4 DEF AtNext
      <4> QED
        BY <4>4, <4>5
    <3>5. CASE source = "encrypted"
      <4>1. r = PollCipher(stream, limit)
        BY <3>5 DEF r, PollStream
      <4>2. CipherInv(stream) /\ stream.pos = want.start + sent
        BY <2>1, <3>5 DEF AtNext
      <4>3. (r.state.inner.pos - stream.inner.pos) % Block = 0
        BY <1>2, <1>5, <2>8, <3>5 DEF Send, Undisturbed
      <4>4. CipherInv(r.state) /\ Serves(want.start + sent, r.state.pos, limit, last')
        BY <2>2, <3>1, <3>2, <4>1, <4>2, <4>3, CipherDelivers
      <4>5. /\ sent' \in Nat /\ (status = "206" => sent' <= want.n)
            /\ r.state.pos = want.start + sent' /\ InPlace' /\ Complete'
        BY <1>1, <2>2, <3>1, <3>2, <3>3, <3>5, <4>4, ServedIsExact
      <4>6. AtNext'
        BY <1>1, <3>1, <3>5, <4>4, <4>5 DEF AtNext
      <4> QED
        BY <4>5, <4>6
    <3>6. CASE source = "plain"
      <4> DEFINE start == want.start
                 at == stream
                 k == last'.n
      <4>1. r = PollPlain(at, limit)
        BY <3>6 DEF r, PollStream
      <4>2. at \in Nat /\ at = start + was /\ at <= Total(Plain) /\ start \in Nat /\ Total(Plain) \in Nat
        BY <2>1, <2>2, <3>6, SizesAre DEF AtNext, was
      <4>3. /\ want'.start = start /\ want'.n = n /\ source' = "plain" /\ status' = status
            /\ sent' = was + k /\ stream' = r.state /\ last' = r.out
        BY <1>1, <3>1, <3>6 DEF n, was
      <4> HIDE DEF start, at
      <4>4. \/ r.state = at /\ r.out = End /\ at = Total(Plain)
            \/ \E j \in 1..limit : /\ r.state = at + j /\ at + j <= Total(Plain)
                                   /\ r.out = Got(0, at, j, TRUE)
        BY <3>2, <4>1, <4>2, PlainDelivers
      <4>5. CASE r.state = at /\ r.out = End /\ at = Total(Plain)
        <5>1. k = 0 /\ last'.kind = "end"
          BY <4>3, <4>5 DEF End, Again
        <5> HIDE DEF k
        <5>2. sent' = was /\ start + sent' = at
          BY <2>4, <4>2, <4>3, <5>1
        <5>3. InPlace' /\ Complete'
          BY <4>3, <4>5, <5>1, <5>2 DEF InPlace, Complete
        <5>4. AtNext'
          BY <2>4, <4>2, <4>3, <4>5, <5>2 DEF AtNext
        <5> QED
          BY <5>3, <5>4
      <4>6. ASSUME NEW j \in 1..limit, r.state = at + j, at + j <= Total(Plain),
                   r.out = Got(0, at, j, TRUE)
            PROVE  AtNext' /\ InPlace' /\ Complete'
        <5>1. k = j /\ last'.kind = "bytes" /\ last'.good = TRUE /\ last'.at = at
          BY <4>3, <4>6 DEF Got
        <5> HIDE DEF k
        <5>2. /\ k \in Nat /\ k <= limit /\ sent' = was + k /\ sent' \in Nat
              /\ start + sent' - k = at /\ at + k = start + sent' /\ at + k \in Nat
          BY <2>4, <3>2, <4>2, <4>3, <5>1
        <5>3. status = "206" => sent' <= n
          BY <2>4, <2>6, <5>2
        <5>4. Complete'
          BY <5>1 DEF Complete
        <5>5. InPlace'
          BY <4>3, <5>1, <5>2 DEF InPlace, k
        <5>6. stream' = at + k /\ at + k <= Total(Plain)
          BY <4>3, <4>6, <5>1
        <5>7. AtNext'
          BY <4>3, <5>2, <5>3, <5>6 DEF AtNext
        <5> QED
          BY <5>4, <5>5, <5>7
      <4> QED
        BY <4>4, <4>5, <4>6
    <3> QED
      BY <1>1, <3>4, <3>5, <3>6
  <2> QED
    BY <2>7, <2>8
<1> QED
  BY <1>1, <1>3, <1>5 DEF BodyInv

(* A body goes on where it was.                                             *)
THEOREM BodyInvariant == BodySpec => []BodyInv
<1>1. BodyInit => BodyInv
  BY DEF BodyInit, BodyInv, Unsent
<1>2. BodyInv /\ [BodyNext]_bodyVars => BodyInv'
  <2> SUFFICES ASSUME BodyInv, [BodyNext]_bodyVars PROVE BodyInv'
    OBVIOUS
  <2>1. CASE ServeFull
    BY <2>1, ServeFullSound
  <2>2. CASE ServeRange
    BY <2>2, ServeRangeSound
  <2>3. CASE RefuseRange \/ FailToAlign
    BY <2>3, RefuseSound
  <2>4. ASSUME NEW room \in Room, Poll(room)
        PROVE  BodyInv'
    BY <2>4, PollSound
  <2>5. CASE FailBody
    BY <2>5, FailBodySound
  <2>6. CASE UNCHANGED bodyVars
    BY <2>6 DEF bodyVars, BodyInv, Unsent, Promised, Undisturbed, Located, AtNext, InPlace, Complete
  <2> QED
    BY <2>1, <2>2, <2>3, <2>4, <2>5, <2>6 DEF BodyNext
<1> QED
  BY <1>1, <1>2, PTL DEF BodySpec

(* The bytes a client gets are those of the file, in order and all of them, *)
(* whatever the volumes, the segments, the range and the buffers.           *)
THEOREM BodiesAreExact == BodySpec => []BodyIsExact
<1>1. BodyInv => BodyIsExact
  <2> SUFFICES ASSUME BodyInv, Undisturbed PROVE InPlace /\ Complete
    BY DEF BodyIsExact, Undisturbed
  <2>1. CASE status \in {"none", "416"}
    BY <2>1, NothingSent DEF BodyInv, Unsent
  <2>2. CASE status \in {"200", "206"}
    BY <2>2 DEF BodyInv
  <2> QED
    BY <2>1, <2>2 DEF BodyInv
<1> QED
  BY <1>1, BodyInvariant, PTL
=============================================================================
