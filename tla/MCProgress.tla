----------------------------- MODULE MCProgress -----------------------------
(***************************************************************************)
(* What waits is served: clients of the prioritized semaphore, items of    *)
(* the download queue and jobs of the repair scheduler, side by side.      *)
(* They share no state; each behaviour is one of theirs, under its own     *)
(* fairness.                                                               *)
(***************************************************************************)
EXTENDS PrioritizedSemaphore, MCQueueManager, MCRepairSchedule

VARIABLE part    \* whose behaviour this is

progressVars == <<part, vars, queueVars, jobVars>>

InPermits == part = "permits" /\ UNCHANGED <<part, queueVars, jobVars>>
InQueue == part = "queue" /\ UNCHANGED <<part, vars, jobVars>>
InJobs == part = "jobs" /\ UNCHANGED <<part, vars, queueVars>>

\* The other parts wait in one of their initial states.
ProgressInit ==
    /\ part \in {"permits", "queue", "jobs"}
    /\ Init /\ QueueInit /\ ScheduleInit
    /\ part # "jobs" => settled = {}

ProgressNext ==
    \/ \E c \in Client, k \in Kind : InPermits /\ Acquire(c, k)
    \/ \E c \in Client : InPermits /\ Cancel(c)
    \/ \E c \in Client : InPermits /\ Release(c)
    \/ InPermits /\ Dispatch
    \/ \E s \in Slot :
        \/ InQueue /\ StartItem(s)
        \/ InQueue /\ Reap(s)
        \/ InQueue /\ Step(s)
        \/ InQueue /\ Fault(s)
        \/ InQueue /\ Panic(s)
        \/ InQueue /\ InsertHistoryFails(s)
    \/ \E i \in Item :
        \/ InQueue /\ Enqueue(i)
        \/ InQueue /\ DeleteQueued(i)
        \/ InQueue /\ DavDeleteBlob(i)
        \/ InQueue /\ DeleteHistory(i)
        \/ \E new \in Item : InQueue /\ Retry(i, new)
    \/ InQueue /\ DavDeleteRow
    \/ InQueue /\ ClearHistory
    \/ InQueue /\ Crash
    \/ \E c \in Reporter :
        \/ \E k \in Key : InJobs /\ Schedule(c, k)
        \/ InJobs /\ FoldIntoJob(c)
        \/ InJobs /\ CheckSetCooldown(c)
        \/ InJobs /\ CheckSettled(c)
        \/ InJobs /\ InsertJob(c)
    \/ \E w \in Worker :
        \/ InJobs /\ WorkerReturns(w)
        \/ InJobs /\ StartJob(w)
        \/ \E o \in Outcome : InJobs /\ AttemptEnds(w, o)
        \/ InJobs /\ AttemptDies(w)
        \/ InJobs /\ LookForFolded(w)
        \/ InJobs /\ FinishJob(w)
        \/ InJobs /\ DeadlinePasses(w)
    \/ \E k \in Key : InJobs /\ CooldownEnds(k)
    \/ \E r \in HistoryItem : InJobs /\ VerdictEnds(r)

\* Fairness, FairQueueSpec and FairScheduleSpec, each in the behaviours of its part.
ProgressFairness ==
    /\ WF_progressVars(InPermits /\ Dispatch)
    /\ \A c \in Client : SF_progressVars(InPermits /\ Release(c))
    /\ \A s \in Slot : WF_progressVars(InQueue /\ Step(s)) /\ WF_progressVars(InQueue /\ Reap(s))
    /\ WF_progressVars(\E s \in Slot : InQueue /\ StartItem(s))
    /\ \A w \in Worker : WF_progressVars(InJobs /\ WorkerStep(w)) /\ WF_progressVars(InJobs /\ DeadlinePasses(w))

ProgressSpec == ProgressInit /\ [][ProgressNext]_progressVars /\ ProgressFairness
=============================================================================
