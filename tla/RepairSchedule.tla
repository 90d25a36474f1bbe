--------------------------- MODULE RepairSchedule ---------------------------
(***************************************************************************)
(* The scheduler of the PAR2 repair service: RepairService::schedule, work *)
(* and run_job in nzbdav-stream/src/repair.rs.                             *)
(*                                                                         *)
(* schedule is called from any thread and takes the schedule's mutex       *)
(* twice, looking at the cooldown and at the release's verdict in between; *)
(* a call is a process that goes through these steps.  The worker is a     *)
(* task, spawned when the flag says there is none; it holds the mutex only *)
(* to pop, to look for folded damage and to finish.                        *)
(*                                                                         *)
(* An attempt is one step with any of its outcomes: what it reads and      *)
(* rebuilds does not touch the schedule.                                   *)
(***************************************************************************)
EXTENDS Naturals, Sequences, FiniteSets

CONSTANTS
    Key,         \* recovery sets, one job per key
    HistoryItem, \* releases (history items)
    ReleaseOf,   \* the release a set belongs to
    Reporter,    \* concurrent calls of schedule
    Worker,      \* worker tasks that could exist at once
    NoKey        \* nothing is running

ASSUME ScheduleAssumption ==
    /\ ReleaseOf \in [Key -> HistoryItem]
    /\ NoKey \notin Key
    /\ IsFiniteSet(Worker)

VARIABLES
    job_queue,   \* Schedule::queue
    jobs,        \* the keys of Schedule::jobs
    folded,      \* Job::folded of those jobs
    running_job, \* Schedule::running
    worker,      \* Schedule::worker
    cooled,      \* sets whose cooldown has not run out
    settled,     \* releases with a terminal verdict that still applies
    call,        \* where each call of schedule is, and for which set
    task,        \* where each worker task is, its set, outcome and deadline
    owed         \* per set: reports answered Folded since its last attempt began

jobVars == <<job_queue, jobs, folded, running_job, worker, cooled, settled, call, task, owed>>
scheduleVars == <<job_queue, jobs, folded, running_job, worker>>

\* RepairOutcome; Repaired and Intact are the successes.
Outcome == {"succeeded", "unrepairable", "failed"}

\* How a report reached a running job: while it could still see it, after it
\* last looked, or by the second Folded of schedule.
FoldedHow == {"early", "late", "between"}

Call == [at : {"fold", "cooldown", "settled", "insert"}, key : Key]
            \union [at : {"idle"}, key : {NoKey}]

WorkerTask == [at : {"none", "pop", "attempt", "look", "finish"}, key : Key \union {NoKey},
               outcome : Outcome, expired : BOOLEAN]

\* A call that has returned, and a task between two jobs or before it is spawned.
NoCall == [at |-> "idle", key |-> NoKey]
Jobless(step) == [at |-> step, key |-> NoKey, outcome |-> "failed", expired |-> FALSE]

ScheduleTypeOK ==
    /\ job_queue \in Seq(Key)
    /\ jobs \in SUBSET Key
    /\ folded \in [Key -> BOOLEAN]
    /\ running_job \in Key \union {NoKey}
    /\ worker \in BOOLEAN
    /\ cooled \in SUBSET Key
    /\ settled \in SUBSET HistoryItem
    /\ call \in [Reporter -> Call]
    /\ task \in [Worker -> WorkerTask]
    /\ owed \in [Key -> SUBSET FoldedHow]

ScheduleInit ==
    /\ job_queue = <<>>
    /\ jobs = {}
    /\ folded = [k \in Key |-> FALSE]
    /\ running_job = NoKey
    /\ worker = FALSE
    /\ cooled = {}
    /\ settled \in SUBSET HistoryItem
    /\ call = [c \in Reporter |-> NoCall]
    /\ task = [w \in Worker |-> Jobless("none")]
    /\ owed = [k \in Key |-> {}]

-----------------------------------------------------------------------------
(* RepairService::schedule.                                                 *)

GoOn(c, step) == call' = [call EXCEPT ![c].at = step]
ReturnCall(c) == call' = [call EXCEPT ![c] = NoCall]

\* Damage of set k is reported to an enabled service; a disabled one returns.
Schedule(c, k) ==
    /\ call[c].at = "idle"
    /\ call' = [call EXCEPT ![c] = [at |-> "fold", key |-> k]]
    /\ UNCHANGED <<scheduleVars, cooled, settled, task, owed>>

\* The job of set k can still see damage folded into it.
StillLooks(k) == \E w \in Worker : task[w].key = k /\ task[w].at \in {"attempt", "look"}

\* First look under the lock: a job of this set takes the damage.
FoldIntoJob(c) ==
    LET k == call[c].key IN
    /\ call[c].at = "fold"
    /\ IF k \in jobs
       THEN /\ folded' = [folded EXCEPT ![k] = @ \/ running_job = k]
            /\ owed' = IF running_job # k THEN owed
                       ELSE [owed EXCEPT ![k] = @ \union
                               {IF StillLooks(k) THEN "early" ELSE "late"}]
            /\ ReturnCall(c)
       ELSE /\ GoOn(c, "cooldown")
            /\ UNCHANGED <<folded, owed>>
    /\ UNCHANGED <<job_queue, jobs, running_job, worker, cooled, settled, task>>

CheckSetCooldown(c) ==
    /\ call[c].at = "cooldown"
    /\ IF call[c].key \in cooled THEN ReturnCall(c) ELSE GoOn(c, "settled")
    /\ UNCHANGED <<scheduleVars, cooled, settled, task, owed>>

CheckSettled(c) ==
    /\ call[c].at = "settled"
    /\ IF ReleaseOf[call[c].key] \in settled THEN ReturnCall(c) ELSE GoOn(c, "insert")
    /\ UNCHANGED <<scheduleVars, cooled, settled, task, owed>>

\* tokio::spawn(work()), only when the flag says no worker is there.
SpawnWorker ==
    /\ worker' = TRUE
    /\ IF worker THEN UNCHANGED task
       ELSE \E w \in Worker : /\ task[w].at = "none"
                              /\ task' = [task EXCEPT ![w] = Jobless("pop")]

\* Mutant of InsertJob: no second look for a job of the set.
InsertJobUnseen(c) ==
    LET k == call[c].key IN
    /\ call[c].at = "insert"
    /\ ReturnCall(c)
    /\ jobs' = jobs \union {k}
    /\ folded' = [folded EXCEPT ![k] = FALSE]
    /\ job_queue' = Append(job_queue, k)
    /\ SpawnWorker
    /\ UNCHANGED <<running_job, owed, cooled, settled>>

\* Second look under the lock: a job that another call put in the meantime
\* answers Folded, and is not told.
InsertJob(c) ==
    LET k == call[c].key IN
    /\ call[c].at = "insert"
    /\ ReturnCall(c)
    /\ IF k \in jobs
       THEN /\ owed' = IF running_job = k THEN [owed EXCEPT ![k] = @ \union {"between"}] ELSE owed
            /\ UNCHANGED <<scheduleVars, task>>
       ELSE /\ jobs' = jobs \union {k}
            /\ folded' = [folded EXCEPT ![k] = FALSE]
            /\ job_queue' = Append(job_queue, k)
            /\ SpawnWorker
            /\ UNCHANGED <<running_job, owed>>
    /\ UNCHANGED <<cooled, settled>>

-----------------------------------------------------------------------------
(* RepairService::work and run_job.                                         *)

\* Mutant of WorkerReturns: the flag is cleared without a look at the queue
\* under the same lock.
WorkerReturnsLate(w) ==
    /\ task[w].at = "pop"
    /\ worker' = FALSE
    /\ task' = [task EXCEPT ![w] = Jobless("none")]
    /\ UNCHANGED <<job_queue, jobs, folded, running_job, cooled, settled, call, owed>>

\* The queue is empty: the worker clears its flag and returns.
WorkerReturns(w) ==
    /\ task[w].at = "pop"
    /\ job_queue = <<>>
    /\ worker' = FALSE
    /\ task' = [task EXCEPT ![w] = Jobless("none")]
    /\ UNCHANGED <<job_queue, jobs, folded, running_job, cooled, settled, call, owed>>

\* jobs[&key] panics on a key without a job: such a pop is not a step.
StartJob(w) ==
    /\ task[w].at = "pop"
    /\ job_queue # <<>>
    /\ Head(job_queue) \in jobs
    /\ job_queue' = Tail(job_queue)
    /\ running_job' = Head(job_queue)
    /\ task' = [task EXCEPT ![w] = [@ EXCEPT !.at = "attempt", !.key = Head(job_queue)]]
    /\ owed' = [owed EXCEPT ![Head(job_queue)] = {}]
    /\ UNCHANGED <<jobs, folded, worker, cooled, settled, call>>

\* The attempt returns; giving up on the release records its verdict.
AttemptEnds(w, o) ==
    /\ task[w].at = "attempt"
    /\ ~task[w].expired
    /\ task' = [task EXCEPT ![w] = [@ EXCEPT !.at = "look", !.outcome = o]]
    /\ settled' = IF o = "unrepairable" THEN settled \union {ReleaseOf[task[w].key]} ELSE settled
    /\ UNCHANGED <<scheduleVars, cooled, call, owed>>

\* The job's deadline passes, and cuts the attempt it is in.
DeadlinePasses(w) ==
    /\ task[w].at \in {"attempt", "look"}
    /\ ~task[w].expired
    /\ task' = [task EXCEPT ![w].expired = TRUE]
    /\ UNCHANGED <<scheduleVars, cooled, settled, call, owed>>

\* A timeout or a panic fails the job at once, without a look at folded.
AttemptDies(w) ==
    /\ task[w].at = "attempt"
    /\ task' = [task EXCEPT ![w] = [@ EXCEPT !.at = "finish", !.outcome = "failed"]]
    /\ UNCHANGED <<scheduleVars, cooled, settled, call, owed>>

\* Mutant of LookForFolded: folded damage does not make the job go again.
LookOnce(w) ==
    /\ task[w].at = "look"
    /\ folded' = [folded EXCEPT ![task[w].key] = FALSE]
    /\ task' = [task EXCEPT ![w].at = "finish"]
    /\ UNCHANGED <<job_queue, jobs, running_job, worker, cooled, settled, call, owed>>

\* Mutant of LookForFolded: every attempt has a deadline of its own.
LookWithNewDeadline(w) ==
    LET k == task[w].key
        goes == k \in jobs /\ folded[k] /\ task[w].outcome = "succeeded"
    IN
    /\ task[w].at = "look"
    /\ folded' = [folded EXCEPT ![k] = FALSE]
    /\ task' = [task EXCEPT ![w].at = IF goes THEN "attempt" ELSE "finish", ![w].expired = FALSE]
    /\ owed' = IF goes THEN [owed EXCEPT ![k] = {}] ELSE owed
    /\ UNCHANGED <<job_queue, jobs, running_job, worker, cooled, settled, call>>

\* Take folded damage out of the job, and go again if the attempt succeeded.
LookForFolded(w) ==
    LET k == task[w].key
        again == k \in jobs /\ folded[k]
        goes == again /\ task[w].outcome = "succeeded"
    IN
    /\ task[w].at = "look"
    /\ folded' = IF again THEN [folded EXCEPT ![k] = FALSE] ELSE folded
    /\ task' = [task EXCEPT ![w].at = IF goes THEN "attempt" ELSE "finish"]
    /\ owed' = IF goes THEN [owed EXCEPT ![k] = {}] ELSE owed
    /\ UNCHANGED <<job_queue, jobs, running_job, worker, cooled, settled, call>>

\* Back in work: free the slot, cool a failed set down, signal the outcome.
FinishJob(w) ==
    LET k == task[w].key IN
    /\ task[w].at = "finish"
    /\ running_job' = NoKey
    /\ cooled' = IF task[w].outcome = "failed" THEN cooled \union {k} ELSE cooled
    /\ jobs' = jobs \ {k}
    /\ owed' = [owed EXCEPT ![k] = {}]
    /\ task' = [task EXCEPT ![w] = Jobless("pop")]
    /\ UNCHANGED <<job_queue, folded, worker, settled, call>>

-----------------------------------------------------------------------------
(* Time.                                                                    *)

CooldownEnds(k) ==
    /\ k \in cooled
    /\ cooled' = cooled \ {k}
    /\ UNCHANGED <<scheduleVars, settled, call, task, owed>>

\* settled(): the verdict's TTL, another set of servers, another NZB.
VerdictEnds(r) ==
    /\ r \in settled
    /\ settled' = settled \ {r}
    /\ UNCHANGED <<scheduleVars, cooled, call, task, owed>>

-----------------------------------------------------------------------------
CallerStep(c) ==
    \/ \E k \in Key : Schedule(c, k)
    \/ FoldIntoJob(c) \/ CheckSetCooldown(c) \/ CheckSettled(c) \/ InsertJob(c)

WorkerStep(w) ==
    \/ WorkerReturns(w) \/ StartJob(w)
    \/ \E o \in Outcome : AttemptEnds(w, o)
    \/ AttemptDies(w) \/ LookForFolded(w) \/ FinishJob(w)

ScheduleNext ==
    \/ \E c \in Reporter : CallerStep(c)
    \/ \E w \in Worker : WorkerStep(w) \/ DeadlinePasses(w)
    \/ \E k \in Key : CooldownEnds(k)
    \/ \E r \in HistoryItem : VerdictEnds(r)

ScheduleSpec == ScheduleInit /\ [][ScheduleNext]_jobVars

(* The runtime polls the worker task, and time passes: an attempt ends by   *)
(* the job's deadline at the latest.                                        *)
ScheduleFairness == \A w \in Worker : WF_jobVars(WorkerStep(w)) /\ WF_jobVars(DeadlinePasses(w))
FairScheduleSpec == ScheduleSpec /\ ScheduleFairness

-----------------------------------------------------------------------------
(* Correctness.                                                             *)

AliveWorkers == {w \in Worker : task[w].at # "none"}
Busy == {w \in Worker : task[w].at \in {"attempt", "look", "finish"}}

(* The queue, the jobs map and the running slot tell one story: the jobs    *)
(* are the queued sets and the running one, none twice, so that popping a   *)
(* key finds its job (an index that would panic and leave the worker flag   *)
(* set for good) and a set never has two jobs.                              *)
OneJobPerSet ==
    /\ jobs = {job_queue[i] : i \in DOMAIN job_queue} \union ({running_job} \ {NoKey})
    /\ \A i, j \in DOMAIN job_queue : job_queue[i] = job_queue[j] => i = j
    /\ \A i \in DOMAIN job_queue : job_queue[i] # running_job

\* At most one worker, the flag says whether there is one, and whoever runs a
\* job runs the one in the slot.
OneWorker ==
    /\ \A v, w \in AliveWorkers : v = w
    /\ worker <=> AliveWorkers # {}
    /\ running_job # NoKey <=> Busy # {}
    /\ \A w \in Busy : task[w].key = running_job

\* Without a worker there is nothing to do.
NoOrphanedJob == ~worker => jobs = {} /\ job_queue = <<>>

(* At most one worker, which the flag knows of, and no job that waits for a *)
(* worker nobody will spawn: flag, slot and queue change under one lock.    *)
JobHasItsWorker == OneWorker /\ NoOrphanedJob

Completes(k) == k \in jobs /\ k \notin jobs'
Succeeds(k) == \E w \in Worker : task[w].at = "finish" /\ task[w].key = k
                                 /\ task[w].outcome = "succeeded"

(* Damage folded in while the job could still see it is attempted again     *)
(* before the job reports success.                                          *)
EarlyFoldRepaired == [][\A k \in Key : Completes(k) /\ Succeeds(k) => "early" \notin owed[k]]_jobVars

(* The same for any damage a call was told is folded into the running job:  *)
(* the header's "folded into that job, which goes again once it is done".   *)
FoldRepaired == [][\A k \in Key : Completes(k) /\ Succeeds(k) => owed[k] = {}]_jobVars

(* Every job that was accepted ends, whatever is folded into it; the sets   *)
(* are alike, and it is stated of one.                                      *)
JobsEnd == LET k == CHOOSE key \in Key : TRUE IN k \in jobs ~> k \notin jobs
=============================================================================
