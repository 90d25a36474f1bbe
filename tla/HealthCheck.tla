----------------------------- MODULE HealthCheck -----------------------------
(***************************************************************************)
(* The health check service of nzbdav-arr/src/health_check.rs: cycles that *)
(* take a batch of the items that are due, check each by a damage census   *)
(* or a plain STAT, record the result and date the next check.             *)
(*                                                                         *)
(* Items are numbered in the order the index on type and creation returns  *)
(* them; the query has no ORDER BY.  Time is counted in cycles, a day is   *)
(* Day of them.  What a census reports is its answer for each release.     *)
(* Any statement may fail; the service logs it and goes on.                *)
(***************************************************************************)
EXTENDS Naturals, FiniteSets

CONSTANTS
    LibraryItem, \* rows of type UsenetFile, numbers
    Bare,        \* the rows without a file blob: readmes and uploaded NZBs
    Releases,    \* releases an item belongs to
    BatchLimit,  \* LIMIT of the query
    Day,         \* cycles in 24 hours
    MaxLost      \* bound: places lost to failed statements while an item is due

ASSUME HealthAssumption ==
    /\ LibraryItem \subseteq Nat \ {0} /\ IsFiniteSet(LibraryItem) /\ Bare \subseteq LibraryItem
    /\ BatchLimit \in Nat \ {0} /\ Day \in Nat \ {0} /\ MaxLost \in Nat

VARIABLES
    mounted,   \* items in the table
    due,       \* cycles until next_health_check, 0 when it is past or not set
    batch,     \* items of this cycle still to be checked
    checking,  \* the item being checked, or none
    result,    \* the last health_check_results row of an item
    overdue,   \* cycles an item has been due for since it was last checked
    lost       \* places of batches that failed statements cost it meanwhile

healthVars == <<mounted, due, batch, checking, result, overdue, lost>>

NoItem == 0

\* The longest wait the batches leave: every item comes up once in a day.
Bound == Day

Lowest(S) == CHOOSE i \in S : \A j \in S : i <= j

\* get_items_needing_check: the first BatchLimit rows that are due.
NeedCheck ==
    LET dueNow == {i \in mounted : due[i] = 0}
    IN  {i \in dueNow : Cardinality({j \in dueNow : j < i}) < BatchLimit}

\* A step costs the items that wait after it n places; the others start anew.
Costs(n) ==
    /\ lost' = [i \in LibraryItem |-> IF overdue'[i] > 0 THEN lost[i] + n ELSE 0]
    /\ \A i \in LibraryItem : lost'[i] <= MaxLost

\* run: the sleep of a cycle ends.
SleepEnds ==
    /\ batch = {} /\ checking = NoItem
    /\ due' = [i \in LibraryItem |-> IF due[i] > 0 THEN due[i] - 1 ELSE 0]
    /\ overdue' = [i \in LibraryItem |-> IF i \in mounted /\ due[i] = 0 /\ overdue[i] <= Bound
                                  THEN overdue[i] + 1 ELSE overdue[i]]
    /\ UNCHANGED <<mounted, checking, result>>

StartCycle == SleepEnds /\ Costs(0) /\ batch' = NeedCheck'

\* The query fails, and the cycle checks nothing.
StartCycleUnread ==
    /\ SleepEnds
    /\ Costs(BatchLimit)
    /\ batch' = {}

CheckItem ==
    /\ batch # {} /\ checking = NoItem
    /\ checking' = Lowest(batch)
    /\ batch' = batch \ {Lowest(batch)}
    /\ UNCHANGED <<mounted, due, result, overdue, lost>>

\* census_outcome: the answers of the releases whose census was not refused;
\* none of them, and the caller falls back to STAT.
CensusOutcome(answers) ==
    IF "missing" \in answers THEN "Unhealthy"
    ELSE IF "unestablished" \in answers THEN "Error"
    ELSE IF "clean" \in answers THEN "Healthy" ELSE "fallback"

\* stat_item: a missing article, all there, or no answer.
StatOutcomes == {"Healthy", "Unhealthy", "Error"}

Outcomes(i) ==
    IF i \in Bare THEN {"Error"}
    ELSE UNION {LET o == CensusOutcome({ans[r] : r \in Releases} \ {"refused"})
                IN  IF o = "fallback" THEN StatOutcomes ELSE {o} :
                  ans \in [Releases -> {"refused", "clean", "missing", "unestablished"}]}

\* consecutive_healthy_count and the backoff: 24 hours, doubled once.
Backoff(outcome) == Day * (IF outcome = "Healthy" THEN 2 ELSE 1)

\* Mutant of Record: an error leaves the date of the next check.
RecordButErrors(i, outcome) ==
    /\ checking = i
    /\ due' = IF i \in mounted /\ outcome # "Error" THEN [due EXCEPT ![i] = Backoff(outcome)] ELSE due
    /\ overdue' = [overdue EXCEPT ![i] = 0]
    /\ Costs(0)
    /\ \/ UNCHANGED result
       \/ result' = [result EXCEPT ![i] = IF outcome = "Healthy" THEN "Healthy" ELSE "Unhealthy"]
    /\ checking' = NoItem
    /\ UNCHANGED <<mounted, batch>>

\* The next check is dated, unless the row went meanwhile; either way the
\* result is inserted, an error as unhealthy, or the insert fails.
Record(i, outcome) ==
    /\ checking = i
    /\ due' = IF i \in mounted THEN [due EXCEPT ![i] = Backoff(outcome)] ELSE due
    /\ overdue' = [overdue EXCEPT ![i] = 0]
    /\ Costs(0)
    /\ \/ UNCHANGED result
       \/ result' = [result EXCEPT ![i] = IF outcome = "Healthy" THEN "Healthy" ELSE "Unhealthy"]
    /\ checking' = NoItem
    /\ UNCHANGED <<mounted, batch>>

\* update_health_check fails: the item stays due, and its check took a place
\* of those that wait.
RecordUndated(i, outcome) ==
    /\ checking = i
    /\ overdue' = [overdue EXCEPT ![i] = 0]
    /\ Costs(1)
    /\ \/ UNCHANGED result
       \/ result' = [result EXCEPT ![i] = IF outcome = "Healthy" THEN "Healthy" ELSE "Unhealthy"]
    /\ checking' = NoItem
    /\ UNCHANGED <<mounted, due, batch>>

\* An item is imported, the latest of all, or deleted.
Mounts(i) ==
    /\ \A j \in LibraryItem : j >= i => result[j] = "unseen"
    /\ mounted' = mounted \union {i}
    /\ result' = [result EXCEPT ![i] = "unchecked"]
    /\ UNCHANGED <<due, batch, checking, overdue, lost>>

Unmounts(i) ==
    /\ i \in mounted
    /\ mounted' = mounted \ {i}
    /\ overdue' = [overdue EXCEPT ![i] = 0]
    /\ Costs(0)
    /\ UNCHANGED <<due, batch, checking, result>>

HealthInit ==
    /\ mounted = {}
    /\ due = [i \in LibraryItem |-> 0]
    /\ batch = {}
    /\ checking = NoItem
    /\ result = [i \in LibraryItem |-> "unseen"]
    /\ overdue = [i \in LibraryItem |-> 0]
    /\ lost = [i \in LibraryItem |-> 0]

HealthNext ==
    \/ StartCycle \/ StartCycleUnread \/ CheckItem
    \/ \E i \in LibraryItem :
        \/ Mounts(i) \/ Unmounts(i)
        \/ \E o \in Outcomes(i) : Record(i, o) \/ RecordUndated(i, o)

HealthSpec == HealthInit /\ [][HealthNext]_healthVars

(* Where a day's batches have room for the library, and for the places that  *)
(* failed statements cost an item meanwhile, it is checked within a day of   *)
(* being due, whatever the others' checks come to.                           *)
NoItemStarves ==
    \A i \in LibraryItem :
        Cardinality(LibraryItem) + lost[i] <= BatchLimit * Day => overdue[i] <= Bound
=============================================================================
