---------------------------- MODULE DamageCensus ----------------------------
(***************************************************************************)
(* Censuses of releases (nzbdav-stream/src/census.rs) and the service that *)
(* starts them (census_service.rs).  A caller surveys the releases of one  *)
(* DAV item after another; a census STATs the articles of a release on one *)
(* pool after another and settles a verdict from what the hole ledger      *)
(* makes of the misses.                                                    *)
(*                                                                         *)
(* Articles and pools are numbered in the order the code visits them.  The *)
(* ledger is the HoleLedger trait: what note and state may answer, with    *)
(* lapses and evictions at any time.  The permit of a STAT is external and *)
(* always granted in the end.                                              *)
(***************************************************************************)
EXTENDS Naturals, FiniteSets, SequencesExt

CONSTANTS
    Caller,         \* tasks that survey items
    Item,           \* DAV items
    Article,        \* message ids, numbers
    Pools,          \* number of pools
    Connections,    \* connections of each pool
    MaxInFlight, SharePercent, TripAfter,            \* CensusConfig
    PresentTtl, MissingTtl, Cooldown, CacheCapacity, \* CensusConfig
    Debounce,       \* HOLE_READ_DEBOUNCE
    Starts,         \* the surveys that start: item and trigger
    SetsOf,         \* per item, the sequence of the PAR2 sets that protect it
    Target          \* per release, its files, its protected files and volumes

Release == DOMAIN Target
Pool == 1..Pools

ASSUME CensusAssumption ==
    /\ IsFiniteSet(Caller) /\ Article \subseteq Nat /\ IsFiniteSet(Article)
    /\ Pools \in Nat /\ Connections \in [Pool -> Nat]
    /\ {MaxInFlight, SharePercent, TripAfter, PresentTtl, MissingTtl, Cooldown,
        CacheCapacity, Debounce} \subseteq Nat
    /\ \A i \in Item : SetsOf[i] \in Seq(Release) /\ (SetsOf[i] = <<>> => i \in Release)

VARIABLES
    cache,       \* DamageCensus::cache: state and time left
    cooling,     \* DamageCensus::cooldowns: time left
    running,     \* DamageCensus::running
    survey,      \* per caller, the census it runs
    recent,      \* CensusService::hole_reads: time left of the debounce
    hole,        \* the ledger's state of each article
    denied       \* the pools that ever answered 430 for an article

censusVars == <<cache, cooling, running, survey, recent, hole, denied>>

Idle == [phase |-> "idle", trigger |-> "HoleRead", todo |-> <<>>, states |-> <<>>,
         pool |-> 0, pending |-> {}, left |-> {}, asked |-> {}, misses |-> 0,
         absentOn |-> <<>>, failed |-> FALSE, missing |-> {}, fresh |-> {}, certain |-> {}, possible |-> {},
         verdict |-> "None", damaged |-> 0]

-----------------------------------------------------------------------------
(* What is surveyed: the record of a PAR2 set (recovery_set.rs), or an item *)
(* on its own, which has no slices.                                         *)

Least(S) == CHOOSE x \in S : \A y \in S : x <= y
Smaller(a, b) == IF a < b THEN a ELSE b
DivCeil(n, d) == (n + d - 1) \div d

\* releases_for_item, survey order.
ReleasesOf(i) == IF SetsOf[i] = <<>> THEN <<i>> ELSE SetsOf[i]

DataIds(r) == UNION {ToSet(f.ids) : f \in Target[r].files}

\* surveyed_ids: data articles, then those of the recovery volumes.
SurveyedIds(r) == DataIds(r) \union UNION {v.ids : v \in Target[r].volumes}

ASSUME TargetAssumption ==
    \A r \in Release :
        /\ SurveyedIds(r) \subseteq Article
        /\ Target[r].slice \in Nat
        /\ IsFiniteSet(Target[r].files) /\ IsFiniteSet(Target[r].volumes)
        /\ \A f \in Target[r].files : f.size \in Nat /\ f.part \in Nat /\ f.ids \in Seq(Article)
        /\ \A v \in Target[r].volumes : v.blocks \in Nat

\* pool_width: none on a pool of one connection.
Width(p) ==
    IF Connections[p] < 2 THEN 0
    ELSE LET share == Smaller(MaxInFlight, (Connections[p] * SharePercent) \div 100)
         IN  IF share < 1 THEN 1 ELSE share

-----------------------------------------------------------------------------
(* assess.                                                                  *)

\* census_file and spread: where the k-th article of a file begins and ends.
Part(f) == IF f.part > 0 THEN f.part ELSE DivCeil(f.size, Len(f.ids))

SpanStart(f, k) == Smaller((k - 1) * Part(f), f.size)

SpanEnd(f, k) == IF k = Len(f.ids) THEN f.size ELSE Smaller(k * Part(f), f.size)

\* The slices the articles S of a protected file touch.
SlicesHit(f, slice, S) ==
    UNION {{<<f.name, x>> : x \in (SpanStart(f, k) \div slice)..((SpanEnd(f, k) - 1) \div slice)} :
             k \in {k \in DOMAIN f.ids : f.ids[k] \in S /\ SpanStart(f, k) < SpanEnd(f, k)}}

\* Damaged and uncertain data, recovery blocks available and uncertain, from
\* the articles lost for certain and those possibly lost.  A release without
\* a set counts articles.
Damage(r, certain, possible) ==
    LET t == Target[r]
        Hit(S) == IF t.slice = 0 THEN DataIds(r) \intersect S
                  ELSE UNION {SlicesHit(f, t.slice, S) : f \in {g \in t.files : g.ids # <<>>}}
        \* The set names a file the NZB does not carry.
        uncarried == UNION {{<<f.name, x>> : x \in 0..(DivCeil(f.size, t.slice) - 1)} :
                              f \in {g \in t.files : g.ids = <<>>}}
        Blocks(V) == FoldSet(LAMBDA v, n : v.blocks + n, 0, V)
        sound == {v \in t.volumes : v.ids \intersect certain = {}}
    IN  [damaged |-> Cardinality(Hit(certain)),
         uncertain |-> Cardinality((Hit(possible) \union uncarried) \ Hit(certain)),
         available |-> Blocks({v \in sound : v.ids \intersect possible = {}}),
         unsure |-> Blocks({v \in sound : v.ids \intersect possible # {}})]

\* Mutant of SettleVerdict: what may be lost counts as lost.
SettleVerdictHastily(d) ==
    IF d.damaged = 0 /\ d.uncertain = 0 THEN "Intact"
    ELSE IF d.damaged + d.uncertain > d.available + d.unsure THEN "BeyondRepair"
    ELSE IF d.damaged + d.uncertain <= d.available THEN "Repairable"
    ELSE "None"

\* settle_verdict.
SettleVerdict(d) ==
    IF d.damaged = 0 /\ d.uncertain = 0 THEN "Intact"
    ELSE IF d.damaged > d.available + d.unsure THEN "BeyondRepair"
    ELSE IF d.damaged + d.uncertain <= d.available THEN "Repairable"
    ELSE "None"

-----------------------------------------------------------------------------
(* The service: who starts a survey, and the guards before a census.        *)

Begin(c, i, trigger) ==
    survey' = [survey EXCEPT ![c] = [Idle EXCEPT !.phase = "next", !.trigger = trigger,
                                                 !.todo = ReleasesOf(i)]]

\* hole_read: one census within the debounce window.
HoleRead(c, i) ==
    /\ survey[c].phase = "idle"
    /\ recent[i] = 0
    /\ recent' = [recent EXCEPT ![i] = Debounce]
    /\ Begin(c, i, "HoleRead")
    /\ UNCHANGED <<cache, cooling, running, hole, denied>>

\* The health check, or an operator (census_api.rs).
Survey(c, i, trigger) ==
    /\ survey[c].phase = "idle"
    /\ Begin(c, i, trigger)
    /\ UNCHANGED <<cache, cooling, running, recent, hole, denied>>

\* The caller is through with a release: on to the next, or done.
Through(s) ==
    IF Len(s.todo) = 1 THEN Idle
    ELSE [Idle EXCEPT !.phase = "next", !.trigger = s.trigger, !.todo = Tail(s.todo)]

\* run: an operator bypasses the cooldown.
CheckCooldown(c) ==
    LET s == survey[c] IN
    /\ s.phase = "next"
    /\ survey' = [survey EXCEPT ![c] =
           IF s.trigger # "Operator" /\ cooling[Head(s.todo)] > 0 THEN Through(s)
           ELSE [s EXCEPT !.phase = "enter"]]
    /\ UNCHANGED <<cache, cooling, running, recent, hole, denied>>

\* The release is taken, and its articles looked up in the cache.
Enter(c) ==
    LET s == survey[c]
        r == Head(s.todo)
        known == SurveyedIds(r) \intersect DOMAIN cache
        pending == SurveyedIds(r) \ known
    IN  /\ s.phase = "enter"
        /\ IF r \in running
           THEN survey' = [survey EXCEPT ![c] = Through(s)] /\ UNCHANGED running
           ELSE /\ running' = running \union {r}
                /\ survey' = [survey EXCEPT ![c] =
                       [s EXCEPT !.phase = "stat", !.pending = pending,
                                 !.states = [a \in known |-> cache[a].state],
                                 !.absentOn = [a \in pending |-> 0]]]
        /\ UNCHANGED <<cache, cooling, recent, hole, denied>>

-----------------------------------------------------------------------------
(* settle and stat_pass.                                                    *)

PassOver(s) == s.phase = "stat" /\ s.left = {} /\ s.asked = {}

\* The next pool, for what the earlier ones did not have.
StartPass(c) ==
    LET s == survey[c] IN
    /\ PassOver(s) /\ s.pending # {} /\ s.pool < Pools
    /\ survey' = [survey EXCEPT ![c] =
           IF Width(s.pool + 1) = 0 THEN [s EXCEPT !.pool = @ + 1, !.failed = TRUE]
           ELSE [s EXCEPT !.pool = @ + 1, !.left = s.pending, !.misses = 0]]
    /\ UNCHANGED <<cache, cooling, running, recent, hole, denied>>

\* The STATs of every census on pool p.
InFlight(p) ==
    LET at == {c \in Caller : survey[c].phase = "stat" /\ survey[c].pool = p}
    IN  FoldSet(LAMBDA c, n : Cardinality(survey[c].asked) + n, 0, at)

Tripped(s) == s.misses >= TripAfter

\* Mutant of Ask: every census has slots of its own.
AskOwnSlots(c) ==
    LET s == survey[c] IN
    /\ s.phase = "stat" /\ s.left # {} /\ ~Tripped(s)
    /\ Cardinality(s.asked) < Width(s.pool)
    /\ survey' = [survey EXCEPT ![c] = [s EXCEPT !.left = @ \ {Least(s.left)},
                                               !.asked = @ \union {Least(s.left)}]]
    /\ UNCHANGED <<cache, cooling, running, recent, hole, denied>>

\* A STAT has its slot and its permit and goes to the pool.
Ask(c) ==
    LET s == survey[c] IN
    /\ s.phase = "stat" /\ s.left # {} /\ ~Tripped(s)
    /\ InFlight(s.pool) < Width(s.pool)
    /\ survey' = [survey EXCEPT ![c] = [s EXCEPT !.left = @ \ {Least(s.left)},
                                               !.asked = @ \union {Least(s.left)}]]
    /\ UNCHANGED <<cache, cooling, running, recent, hole, denied>>

\* The pool tripped: the article fails on it unasked.
Skip(c) ==
    LET s == survey[c] IN
    /\ s.phase = "stat" /\ s.left # {} /\ Tripped(s)
    /\ survey' = [survey EXCEPT ![c] = [s EXCEPT !.left = @ \ {Least(s.left)}, !.failed = TRUE]]
    /\ UNCHANGED <<cache, cooling, running, recent, hole, denied>>

AnswerPresent(c, a) ==
    LET s == survey[c] IN
    /\ a \in s.asked
    /\ survey' = [survey EXCEPT ![c] = [s EXCEPT !.asked = @ \ {a}, !.pending = @ \ {a}, !.misses = 0]]
    /\ UNCHANGED <<cache, cooling, running, recent, hole, denied>>

AnswerAbsent(c, a) ==
    LET s == survey[c] IN
    /\ a \in s.asked
    /\ survey' = [survey EXCEPT ![c] = [s EXCEPT !.asked = @ \ {a}, !.misses = 0, !.absentOn[a] = @ + 1]]
    /\ denied' = [denied EXCEPT ![a] = @ \union {s.pool}]
    /\ UNCHANGED <<cache, cooling, running, recent, hole>>

\* Mutant of Fail: what a pool does not answer, it does not have.
FailAsAbsent(c, a) ==
    LET s == survey[c] IN
    /\ a \in s.asked
    /\ survey' = [survey EXCEPT ![c] = [s EXCEPT !.asked = @ \ {a}, !.misses = @ + 1, !.absentOn[a] = @ + 1]]
    /\ UNCHANGED <<cache, cooling, running, recent, hole, denied>>

\* An error, or no answer within stat_timeout.
Fail(c, a) ==
    LET s == survey[c] IN
    /\ a \in s.asked
    /\ survey' = [survey EXCEPT ![c] = [s EXCEPT !.asked = @ \ {a}, !.misses = @ + 1, !.failed = TRUE]]
    /\ UNCHANGED <<cache, cooling, running, recent, hole, denied>>

\* The operator's client hangs up: the future of the census is dropped with
\* its STATs, and its guard frees the release.
HangUp(c) ==
    LET s == survey[c] IN
    /\ s.phase = "stat" /\ s.trigger = "Operator"
    /\ running' = running \ {Head(s.todo)}
    /\ survey' = [survey EXCEPT ![c] = Idle]
    /\ UNCHANGED <<cache, cooling, recent, hole, denied>>

\* enforce_capacity: the entries kept of the cache ch, soonest to expire first
\* to go.
MayKeep(ch, K) ==
    IF Cardinality(DOMAIN ch) <= CacheCapacity THEN K = DOMAIN ch
    ELSE /\ K \subseteq DOMAIN ch
         /\ Cardinality(K) = CacheCapacity - CacheCapacity \div 10
         /\ \A k \in K, g \in DOMAIN ch \ K : ch[k].left >= ch[g].left

\* The evidence becomes states, the settled ones go to the cache, and every
\* present article is noted to the ledger, remembered ones too.
Settle(c) ==
    LET s == survey[c]
        fresh == DOMAIN s.absentOn
        StateOf(a) == IF a \notin s.pending THEN "Present"
                      ELSE IF Pools > 0 /\ s.absentOn[a] = Pools THEN "Missing"
                      ELSE "Unestablished"
        states == [a \in fresh \union DOMAIN s.states |->
                      IF a \in fresh THEN StateOf(a) ELSE s.states[a]]
        learned == {a \in fresh : states[a] # "Unestablished"}
        merged == [a \in DOMAIN cache \union learned |->
                      IF a \in learned
                      THEN [state |-> states[a],
                            left |-> IF states[a] = "Present" THEN PresentTtl ELSE MissingTtl]
                      ELSE cache[a]]
        With(x) == {a \in DOMAIN states : states[a] = x}
    IN  /\ PassOver(s) /\ (s.pending = {} \/ s.pool = Pools)
        /\ \E K \in SUBSET DOMAIN merged :
               MayKeep(merged, K) /\ cache' = [a \in K |-> merged[a]]
        /\ hole' = [a \in Article |-> IF a \in With("Present") THEN "none" ELSE hole[a]]
        /\ survey' = [survey EXCEPT ![c] =
               [Idle EXCEPT !.phase = "judge", !.trigger = s.trigger, !.todo = s.todo, !.failed = s.failed,
                            !.missing = With("Missing"), !.fresh = With("Missing") \intersect fresh,
                            !.possible = With("Unestablished")]]
        /\ UNCHANGED <<cooling, running, recent, denied>>

-----------------------------------------------------------------------------
(* The ledger, and the verdict.                                             *)

\* What the items' readers read: recovery volumes are not mounted.
Read == UNION {DataIds(r) : r \in Release}

\* What note may make of the refusal of every server at once.
AfterRefusals(a) ==
    CASE hole[a] = "none" -> {"Provisional"}
      [] hole[a] = "Provisional" ->
            {"Provisional"} \union (IF denied[a] = Pool THEN {"Confirmed"} ELSE {})
      [] hole[a] = "Confirmed" -> {"Confirmed", "Provisional"}  \* the TTL ran out

\* The next missing article: a live pass is a refusal of every server, a miss
\* replayed from the cache takes what the ledger holds.
Judge(c) ==
    LET s == survey[c]
        a == Least(s.missing)
    IN  /\ s.phase = "judge" /\ s.missing # {}
        /\ IF a \in s.fresh
           THEN \E h \in AfterRefusals(a) : hole' = [hole EXCEPT ![a] = h]
           ELSE UNCHANGED hole
        /\ survey' = [survey EXCEPT ![c] =
               [s EXCEPT !.missing = @ \ {a}, !.fresh = @ \ {a},
                         !.certain = IF hole'[a] = "Confirmed" THEN @ \union {a} ELSE @,
                         !.possible = IF hole'[a] = "Confirmed" THEN @ ELSE @ \union {a}]]
        /\ UNCHANGED <<cache, cooling, running, recent, denied>>

\* The report; a cooldown unless it is clean; and the release is free again.
Conclude(c) ==
    LET s == survey[c]
        r == Head(s.todo)
        d == Damage(r, s.certain, s.possible)
        clean == SettleVerdict(d) \in {"Intact", "Repairable"} /\ ~s.failed
    IN  /\ s.phase = "judge" /\ s.missing = {}
        /\ cooling' = IF clean THEN cooling ELSE [cooling EXCEPT ![r] = Cooldown]
        /\ running' = running \ {r}
        /\ survey' = [survey EXCEPT ![c] =
               [Idle EXCEPT !.phase = "report", !.trigger = s.trigger, !.todo = s.todo, !.verdict = SettleVerdict(d),
                            !.damaged = d.damaged]]
        /\ UNCHANGED <<cache, recent, hole, denied>>

\* maybe_repair: slices are lost, and not beyond what the set carries.
WantsRepair(s) ==
    /\ s.phase = "report" /\ s.verdict # "BeyondRepair"
    /\ Target[Head(s.todo)].slice > 0 /\ s.damaged > 0

\* The report is handed out; a repair it wants may end in a cooldown at once
\* or later (note_repair_failed).
Report(c) ==
    /\ survey[c].phase = "report"
    /\ survey' = [survey EXCEPT ![c] = Through(survey[c])]
    /\ UNCHANGED <<cache, cooling, running, recent, hole, denied>>

\* The ledger's other callers: a reader's 430, and a record that lapses, is
\* evicted or whose article is served.
ReaderRefused(a, p) ==
    /\ denied' = [denied EXCEPT ![a] = @ \union {p}]
    /\ \E h \in {"Provisional"} \union
                 (IF hole[a] # "none" /\ denied'[a] = Pool THEN {"Confirmed"} ELSE {}) :
           hole' = [hole EXCEPT ![a] = h]
    /\ UNCHANGED <<cache, cooling, running, survey, recent>>

LedgerForgets(a) ==
    /\ hole[a] # "none"
    /\ hole' = [hole EXCEPT ![a] = "none"]
    /\ UNCHANGED <<cache, cooling, running, survey, recent, denied>>

\* note_repair_failed, of a repair scheduled earlier.
RepairFails(r) ==
    /\ Target[r].slice > 0
    /\ cooling' = [cooling EXCEPT ![r] = Cooldown]
    /\ UNCHANGED <<cache, running, survey, recent, hole, denied>>

Less(n) == IF n > 0 THEN n - 1 ELSE 0

\* Time passes; an entry that expired is as good as gone.
CensusTick ==
    LET alive == {a \in DOMAIN cache : cache[a].left > 1} IN
    /\ cache' = [a \in alive |-> [cache[a] EXCEPT !.left = @ - 1]]
    /\ cooling' = [r \in Release |-> Less(cooling[r])]
    /\ recent' = [i \in Item |-> Less(recent[i])]
    /\ <<cache, cooling, recent>>' # <<cache, cooling, recent>>
    /\ UNCHANGED <<running, survey, hole, denied>>

-----------------------------------------------------------------------------
CensusInit ==
    /\ cache = [a \in {} |-> [state |-> "Present", left |-> 0]]
    /\ cooling = [r \in Release |-> 0]
    /\ running = {}
    /\ survey = [c \in Caller |-> Idle]
    /\ recent = [i \in Item |-> 0]
    /\ hole = [a \in Article |-> "none"]
    /\ denied = [a \in Article |-> {}]

CensusNext ==
    \/ \E c \in Caller :
        \/ \E i \in Item :
            \/ <<i, "HoleRead">> \in Starts /\ HoleRead(c, i)
            \/ \E t \in {"HealthCheck", "Operator"} : <<i, t>> \in Starts /\ Survey(c, i, t)
        \/ CheckCooldown(c) \/ Enter(c) \/ StartPass(c) \/ Ask(c) \/ Skip(c)
        \/ \E a \in survey[c].asked : AnswerPresent(c, a) \/ AnswerAbsent(c, a) \/ Fail(c, a)
        \/ HangUp(c) \/ Settle(c) \/ Judge(c) \/ Conclude(c) \/ Report(c)
    \/ \E a \in Article : LedgerForgets(a)
    \/ \E a \in Read, p \in Pool : ReaderRefused(a, p)
    \/ \E r \in Release : RepairFails(r)
    \/ CensusTick

CensusSpec == CensusInit /\ [][CensusNext]_censusVars

-----------------------------------------------------------------------------
(* Correctness.                                                             *)

(* A release is surveyed by one census at a time, and marked as running     *)
(* exactly while one surveys it, whatever ends the census.                  *)
OneCensusPerRelease ==
    LET at == {c \in Caller : survey[c].phase \in {"stat", "judge"}} IN
    /\ running = {Head(survey[c].todo) : c \in at}
    /\ \A c, d \in at : Head(survey[c].todo) = Head(survey[d].todo) => c = d

(* An article is settled as missing, in a census or in what later ones are  *)
(* told by the cache, only if every pool answered 430 for it: a failure, a  *)
(* timeout or a skipped pool is never a miss.                               *)
MissIsWitnessed ==
    /\ \A a \in DOMAIN cache : cache[a].state = "Missing" => denied[a] = Pool
    /\ \A c \in Caller : \A a \in survey[c].missing : denied[a] = Pool

(* A release is declared beyond repair only if the articles that every pool *)
(* refused already cost more slices than the volumes without such an        *)
(* article can restore, and a repair is scheduled only for some of them.    *)
BeyondRepairIsProven ==
    \A c \in {x \in Caller : survey[x].phase = "report"} :
        LET d == Damage(Head(survey[c].todo), {a \in Article : denied[a] = Pool}, {}) IN
        /\ survey[c].verdict = "BeyondRepair" => d.damaged > d.available
        /\ WantsRepair(survey[c]) => d.damaged > 0

(* All censuses together keep within their share of a pool, and leave a     *)
(* pool of one connection alone.                                            *)
ShareKept == \A p \in Pool : InFlight(p) <= Width(p)
=============================================================================
