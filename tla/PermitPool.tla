----------------------------- MODULE PermitPool -----------------------------
(***************************************************************************)
(* What the prioritized semaphore promises (the header of                  *)
(* nzbdav-stream/src/prioritized_semaphore.rs), without queues, counters,  *)
(* lock or closed waiters: which ask may be granted next, as a function of *)
(* who holds a permit and who is waiting for one.                          *)
(***************************************************************************)
EXTENDS Naturals, FiniteSets

CONSTANTS Client, Total, DemandReserved, RepairFloor

VARIABLES stage, kind

vars == <<stage, kind>>

Kind == {"demand", "readahead", "ingest", "repair"}
Prefetch == {"readahead", "ingest"}

Holding(K) == {c \in Client : stage[c] = "holding" /\ kind[c] \in K}
WaitingFor(K) == {c \in Client : stage[c] = "waiting" /\ kind[c] \in K}

Held(K) == Cardinality(Holding(K))
Share == Total - DemandReserved

Init ==
    /\ stage = [c \in Client |-> "idle"]
    /\ kind = [c \in Client |-> "demand"]

Ask(c, k) ==
    /\ stage[c] = "idle"
    /\ stage' = [stage EXCEPT ![c] = "waiting"]
    /\ kind' = [kind EXCEPT ![c] = k]

\* Gives up its place in line, or its permit.
Leave(c) ==
    /\ stage[c] # "idle"
    /\ stage' = [stage EXCEPT ![c] = "idle"]
    /\ UNCHANGED kind

\* While demand waits, no lower tier is granted a permit.
DemandFirst(c) == kind[c] # "demand" => WaitingFor({"demand"}) = {}

\* Ingest and repair stay out of the demand reserve.
KeepsReserve(c) ==
    kind[c] \in {"ingest", "repair"} =>
        /\ Held({"readahead", "ingest", "repair"}) < Share
        /\ Total - Held(Kind) > DemandReserved - Held({"demand"})

\* Repair below its floor goes before read-ahead and ingest, and while a
\* repair is active they leave the unmet part of its floor free in the share.
RepairActive == Holding({"repair"}) \union WaitingFor({"repair"}) # {}

KeepsRepairFloor(c) ==
    (kind[c] \in Prefetch /\ RepairActive /\ Held({"repair"}) < RepairFloor) =>
        /\ WaitingFor({"repair"}) = {}
        /\ Held({"readahead", "ingest", "repair"}) + 1
               + (RepairFloor - Held({"repair"})) <= Share

\* Repair at its floor is last.
RepairLast(c) ==
    (kind[c] = "repair" /\ Held({"repair"}) >= RepairFloor) => WaitingFor(Prefetch) = {}

Grant(c) ==
    /\ stage[c] = "waiting"
    /\ Held(Kind) < Total
    /\ DemandFirst(c)
    /\ KeepsReserve(c)
    /\ KeepsRepairFloor(c)
    /\ RepairLast(c)
    /\ stage' = [stage EXCEPT ![c] = "holding"]
    /\ UNCHANGED kind

Next == \E c \in Client : Leave(c) \/ Grant(c) \/ \E k \in Kind : Ask(c, k)

Spec == Init /\ [][Next]_vars
=============================================================================
