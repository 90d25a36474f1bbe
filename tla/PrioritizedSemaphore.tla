------------------------ MODULE PrioritizedSemaphore ------------------------
(***************************************************************************)
(* The tiered permit system of nzbdav-stream/src/prioritized_semaphore.rs. *)
(*                                                                         *)
(* A client is one acquire call and the permit it may end up with.  The    *)
(* state proper (held counts and the three queues) sits behind a mutex;    *)
(* dispatch runs under it, but a waiter can leave (drop its oneshot        *)
(* receiver) without it, so every grant of the dispatch loop is a step of  *)
(* its own and departures interleave with the loop.                        *)
(*                                                                         *)
(* A VecDeque of waiters is the set of its clients with, for each of them, *)
(* the set of those queued ahead of it.  A client that left stays in its   *)
(* queue, closed, until the next dispatch prunes it.                       *)
(***************************************************************************)
EXTENDS Naturals, FiniteSets

CONSTANTS
    Client,          \* acquire calls
    NoClient,        \* the mutex is free
    Total,           \* State::total
    DemandReserved,  \* State::demand_reserved
    RepairFloor      \* State::repair_floor

\* The assertions of with_repair_floor; a process has finitely many calls.
ASSUME SemaphoreAssumption ==
    /\ Total \in Nat
    /\ DemandReserved \in Nat
    /\ RepairFloor \in Nat
    /\ DemandReserved + RepairFloor <= Total
    /\ IsFiniteSet(Client)
    /\ NoClient \notin Client

VARIABLES
    held,   \* State::held, permits out at each tier
    queue,  \* State::waiters, the clients queued at each tier
    ahead,  \* the order of those queues
    stage,  \* where each acquire call is
    kind,   \* what each call asks for
    mutex   \* the client that holds Inner::state and is dispatching

vars == <<held, queue, ahead, stage, kind, mutex>>

Tier == {"Demand", "ReadAhead", "Repair"}

\* acquire_high, acquire_readahead, acquire_low and acquire_repair.
Kind == {"demand", "readahead", "ingest", "repair"}

\* Ingest sits on the read-ahead tier and differs in borrows_reserve only.
TierOf == [k \in Kind |-> IF k = "demand" THEN "Demand"
                          ELSE IF k = "repair" THEN "Repair" ELSE "ReadAhead"]

Stage == {"idle", "waiting", "holding"}

TypeOK ==
    /\ held \in [Tier -> Nat]
    /\ queue \in [Tier -> SUBSET Client]
    /\ ahead \in [Client -> SUBSET Client]
    /\ stage \in [Client -> Stage]
    /\ kind \in [Client -> Kind]
    /\ mutex \in Client \union {NoClient}

-----------------------------------------------------------------------------
(* The grant rules: State::next_grantable and the counts it reads.          *)

\* usize::saturating_sub
SatSub(a, b) == IF a > b THEN a - b ELSE 0

HeldTotal == held["Demand"] + held["ReadAhead"] + held["Repair"]
Others == held["ReadAhead"] + held["Repair"]
Free == SatSub(Total, HeldTotal)
Share == Total - DemandReserved
ShareFree == SatSub(Share, Others)

UnmetDemand == SatSub(DemandReserved, held["Demand"])
ReserveBorrowed == SatSub(Others, Share)
ReserveLeft == SatSub(UnmetDemand, ReserveBorrowed)

\* Closed waiters count as waiting until they are pruned.
Waiting(t) == queue[t] # {}

\* Mutant of UnmetRepair: a waiting repair is not active.
UnmetRepairOfHeld == IF held["Repair"] > 0 THEN SatSub(RepairFloor, held["Repair"]) ELSE 0

UnmetRepair ==
    IF held["Repair"] > 0 \/ Waiting("Repair")
    THEN SatSub(RepairFloor, held["Repair"])
    ELSE 0

\* Mutant of First: any live waiter of the tier.
FirstOfAny(c, t) == c \in queue[t]

First(c, t) == c \in queue[t] /\ ahead[c] \intersect queue[t] = {}

RepairFloorTurn ==
    /\ Waiting("Repair")
    /\ held["Repair"] < RepairFloor
    /\ Free > ReserveLeft

\* Mutant of MayReadAhead: ingest borrows the reserve too.
MayReadAheadAll(c) ==
    \/ UnmetRepair = 0
    \/ ShareFree > UnmetRepair /\ Free > UnmetRepair + UnmetDemand

\* Mutant of MayReadAhead: borrowing goes on while repair is below its floor.
MayReadAheadPastFloor(c) ==
    \/ kind[c] = "readahead"
    \/ ShareFree > UnmetRepair /\ Free > UnmetRepair + UnmetDemand

MayReadAhead(c) ==
    \/ kind[c] = "readahead" /\ UnmetRepair = 0
    \/ ShareFree > UnmetRepair /\ Free > UnmetRepair + UnmetDemand

ReadAheadTurn == \E c \in queue["ReadAhead"] : MayReadAhead(c)

\* The waiter that gets the next free permit, and its tier.
NextGrantable(c, t) ==
    /\ Free > 0
    /\ \/ t = "Demand" /\ First(c, "Demand")
       \/ /\ ~Waiting("Demand")
          /\ \/ t = "Repair" /\ RepairFloorTurn /\ First(c, "Repair")
             \/ /\ ~RepairFloorTurn
                /\ \/ /\ t = "ReadAhead"
                      /\ c \in queue["ReadAhead"] /\ MayReadAhead(c)
                      /\ \A d \in ahead[c] \intersect queue["ReadAhead"] : ~MayReadAhead(d)
                   \/ /\ t = "Repair" /\ ~ReadAheadTurn
                      /\ First(c, "Repair") /\ Free > UnmetDemand

-----------------------------------------------------------------------------
(* Sizes.                                                                   *)

CeilDiv(a, b) == (a + b - 1) \div b
Least(a, b) == IF a < b THEN a ELSE b

\* PrioritizedSemaphore::new: a quarter, leaving read-ahead one permit.
DefaultRepairFloor(total, reserved) ==
    Least(CeilDiv(total * 25, 100), SatSub(total - reserved, 1))

\* UsenetArticleProvider::priority_semaphore over the connections of the pools.
PoolTotal(connections) == IF connections > 1 THEN connections ELSE 1
PoolReserved(connections) ==
    Least(CeilDiv(PoolTotal(connections), 4), SatSub(PoolTotal(connections), 1))

-----------------------------------------------------------------------------
(* The queues.                                                              *)

\* Queued waiters whose receiver is gone: tx.is_closed().
Closed == {c \in Client : stage[c] # "waiting" /\ \E t \in Tier : c \in queue[t]}

QueuesWithout(gone) == [t \in Tier |-> queue[t] \ gone]
AheadWithout(gone) == [c \in Client |-> IF c \in gone THEN {} ELSE ahead[c] \ gone]

\* State::prune, the first thing dispatch does.
Prune == queue' = QueuesWithout(Closed) /\ ahead' = AheadWithout(Closed)

-----------------------------------------------------------------------------
Init ==
    /\ held = [t \in Tier |-> 0]
    /\ queue = [t \in Tier |-> {}]
    /\ ahead = [c \in Client |-> {}]
    /\ stage = [c \in Client |-> "idle"]
    /\ kind = [c \in Client |-> "demand"]
    /\ mutex = NoClient

\* acquire_inner up to its await: queue up behind the live waiters and enter
\* dispatch with the queues pruned.
Acquire(c, k) ==
    /\ mutex = NoClient
    /\ stage[c] = "idle"
    /\ queue' = [QueuesWithout(Closed) EXCEPT ![TierOf[k]] = @ \union {c}]
    /\ ahead' = [AheadWithout(Closed) EXCEPT ![c] = queue[TierOf[k]] \ Closed]
    /\ stage' = [stage EXCEPT ![c] = "waiting"]
    /\ kind' = [kind EXCEPT ![c] = k]
    /\ mutex' = c
    /\ UNCHANGED held

\* The acquire future is dropped before a permit was sent: its place in line
\* closes, and nothing else happens.  A task does not drop the future it is
\* polling.
Cancel(c) ==
    /\ mutex # c
    /\ stage[c] = "waiting"
    /\ stage' = [stage EXCEPT ![c] = "idle"]
    /\ UNCHANGED <<held, queue, ahead, kind, mutex>>

\* A turn of the dispatch loop whose waiter is still there.
Grant(c, t) ==
    /\ mutex # NoClient
    /\ NextGrantable(c, t)
    /\ stage[c] = "waiting"
    /\ queue' = QueuesWithout({c})
    /\ ahead' = AheadWithout({c})
    /\ held' = [held EXCEPT ![t] = @ + 1]
    /\ stage' = [stage EXCEPT ![c] = "holding"]
    /\ UNCHANGED <<kind, mutex>>

\* Mutant of SendFails: the count is not put back.
SendFailsNotUndone(c, t) ==
    /\ mutex # NoClient
    /\ NextGrantable(c, t)
    /\ stage[c] # "waiting"
    /\ queue' = QueuesWithout({c})
    /\ ahead' = AheadWithout({c})
    /\ held' = [held EXCEPT ![t] = @ + 1]
    /\ UNCHANGED <<stage, kind, mutex>>

\* Mutant of SendFails: dispatch returns after a failed send.
SendFailsReturns(c, t) ==
    /\ mutex # NoClient
    /\ NextGrantable(c, t)
    /\ stage[c] # "waiting"
    /\ queue' = QueuesWithout({c})
    /\ ahead' = AheadWithout({c})
    /\ mutex' = NoClient
    /\ UNCHANGED <<held, stage, kind>>

\* A turn whose waiter left since the prune: the send fails and the count is
\* put back.
SendFails(c, t) ==
    /\ mutex # NoClient
    /\ NextGrantable(c, t)
    /\ stage[c] # "waiting"
    /\ queue' = QueuesWithout({c})
    /\ ahead' = AheadWithout({c})
    /\ UNCHANGED <<held, stage, kind, mutex>>

\* next_grantable is None: dispatch returns and the guard is dropped.
Unlock ==
    /\ mutex # NoClient
    /\ \A c \in Client, t \in Tier : ~NextGrantable(c, t)
    /\ mutex' = NoClient
    /\ UNCHANGED <<held, queue, ahead, stage, kind>>

\* A permit is dropped, by its holder or still in the channel of an acquire
\* future that is dropped: Inner::release, which enters dispatch.
Release(c) ==
    /\ mutex = NoClient
    /\ stage[c] = "holding"
    /\ held' = [held EXCEPT ![TierOf[kind[c]]] = @ - 1]
    /\ stage' = [stage EXCEPT ![c] = "idle"]
    /\ Prune
    /\ mutex' = c
    /\ UNCHANGED kind

Dispatch ==
    \/ \E c \in Client, t \in Tier : Grant(c, t) \/ SendFails(c, t)
    \/ Unlock

Next ==
    \/ \E c \in Client, k \in Kind : Acquire(c, k)
    \/ \E c \in Client : Cancel(c) \/ Release(c)
    \/ Dispatch

Spec == Init /\ [][Next]_vars

(* dispatch has no await, so it runs on; a fetch ends, by its answer or its *)
(* timeout, and the mutex is eventually fair, so a holder gets to release.  *)
Fairness == WF_vars(Dispatch) /\ \A c \in Client : SF_vars(Release(c))
FairSpec == Spec /\ Fairness

-----------------------------------------------------------------------------
(* Correctness.                                                             *)

PermitsOut(K) == {c \in Client : stage[c] = "holding" /\ kind[c] \in K}

(* The counters of State agree with the permits that are out, through every *)
(* failed send, cancelled acquire and drop, and never exceed the pool.      *)
HeldIsExact ==
    /\ held["Demand"] = Cardinality(PermitsOut({"demand"}))
    /\ held["ReadAhead"] = Cardinality(PermitsOut({"readahead", "ingest"}))
    /\ held["Repair"] = Cardinality(PermitsOut({"repair"}))
    /\ HeldTotal <= Total

(* Ingest and repair together never hold more than the share outside the    *)
(* demand reserve, whatever read-ahead has borrowed in the meantime.        *)
ReserveHeadroom == Cardinality(PermitsOut({"ingest", "repair"})) <= Share

\* A waiting demand call means that every permit is out.
DemandWaitsOnlyWhenFull ==
    \A c \in Client : stage[c] = "waiting" /\ kind[c] = "demand" => HeldTotal = Total

\* A waiting repair below the repair floor means that the share is used up,
\* or that demand is over its reserve with the rest of the pool.
RepairWaitsOnlyWhenShareFull ==
    \A c \in Client :
        stage[c] = "waiting" /\ kind[c] = "repair" /\ held["Repair"] < RepairFloor =>
            Others >= Share \/ HeldTotal = Total

\* An idle pool has no waiter.  A pool that is all reserve (DemandReserved =
\* Total) serves no ingest or repair at all and is left out.
NoWaiterOnIdlePool ==
    HeldTotal = 0 /\ DemandReserved < Total => \A c \in Client : stage[c] # "waiting"

(* No lost wake-up: outside a dispatch, a waiter that is still there waits  *)
(* for a permit that is out.  No failed send, no waiter that left in front  *)
(* of it and no release that found another tier first leaves it asleep      *)
(* beside a permit its rule would give it.                                  *)
NoLostWakeUp ==
    mutex = NoClient =>
        DemandWaitsOnlyWhenFull /\ RepairWaitsOnlyWhenShareFull /\ NoWaiterOnIdlePool

(* Within a kind of ask, first come first served.                           *)
Overtakes(c, d) ==
    /\ stage[c] = "waiting" /\ stage'[c] = "holding"
    /\ stage[d] = "waiting"
    /\ kind[c] = kind[d] /\ d \in ahead[c]
FirstComeFirstServed == [][\A c, d \in Client : ~Overtakes(c, d)]_vars

(* Every grant is one the module's promises allow.                          *)
Pool == INSTANCE PermitPool WITH
    Client <- Client, Total <- Total, DemandReserved <- DemandReserved,
    RepairFloor <- RepairFloor, stage <- stage, kind <- kind
GrantsAsPromised == Pool!Spec

DemandWithinReserve ==
    Cardinality({c \in Client : stage[c] # "idle" /\ kind[c] = "demand"}) <= DemandReserved

(* A demand ask is answered, or given up; and once demand stays within its  *)
(* reserve, a repair waiting below the floor gets a permit (or leaves)      *)
(* however much read-ahead and ingest ask for.  The clients are alike: it   *)
(* is stated of one.                                                        *)
TiersServed ==
    LET c == CHOOSE d \in Client : TRUE IN
    /\ stage[c] = "waiting" /\ kind[c] = "demand" ~> stage[c] # "waiting"
    /\ <>[]DemandWithinReserve =>
           (stage[c] = "waiting" /\ kind[c] = "repair" /\ held["Repair"] < RepairFloor
               ~> stage[c] # "waiting" \/ held["Repair"] >= RepairFloor)
=============================================================================
