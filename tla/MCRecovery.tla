------------------------------ MODULE MCRecovery ------------------------------
(***************************************************************************)
(* What becomes of a damaged release, side by side: the holes on record,   *)
(* the census of its damage, the jobs that repair it, and an attempt of    *)
(* one, each against what it may be told by the others.  Each behaviour is *)
(* one of theirs.                                                          *)
(***************************************************************************)
EXTENDS MCDamageCensus, MCRepairAttempt, MCHoleLedger, MCRepairSchedule

CONSTANTS c1, c2

VARIABLE part    \* whose behaviour this is

Symmetry == Permutations({c1, c2})

InCensus == part = "census" /\ UNCHANGED <<part, repairVars, vars, jobVars>>
InRepair == part = "repair" /\ UNCHANGED <<part, censusVars, vars, jobVars>>
InLedger == part = "ledger" /\ UNCHANGED <<part, censusVars, repairVars, jobVars>>
InJobs == part = "jobs" /\ UNCHANGED <<part, censusVars, repairVars, vars>>

\* The other parts wait in one of their initial states.
RecoveryInit ==
    /\ part \in {"ledger", "census", "repair", "jobs"}
    /\ Init /\ CensusInit /\ RepairInit /\ ScheduleInit
    /\ part # "repair" => confirmed = {} /\ \A a \in SetArticles : articles[a] = "there"
    /\ part # "jobs" => settled = {}

\* The next-state relation of each part, action by action.
RecoveryNext ==
    \/ \E c \in Caller :
        \/ \E <<i, t>> \in Starts : InCensus /\ IF t = "HoleRead" THEN HoleRead(c, i) ELSE Survey(c, i, t)
        \/ InCensus /\ CheckCooldown(c)
        \/ InCensus /\ Enter(c)
        \/ InCensus /\ StartPass(c)
        \/ InCensus /\ Ask(c)
        \/ InCensus /\ Skip(c)
        \/ \E a \in Article :
            \/ InCensus /\ a \in survey[c].asked /\ AnswerPresent(c, a)
            \/ InCensus /\ a \in survey[c].asked /\ AnswerAbsent(c, a)
            \/ InCensus /\ a \in survey[c].asked /\ Fail(c, a)
        \/ InCensus /\ HangUp(c)
        \/ InCensus /\ Settle(c)
        \/ InCensus /\ Judge(c)
        \/ InCensus /\ Conclude(c)
        \/ InCensus /\ Report(c)
    \/ \E a \in Article : InCensus /\ LedgerForgets(a)
    \/ \E a \in Read, p \in Pool : InCensus /\ ReaderRefused(a, p)
    \/ \E r \in Release : InCensus /\ RepairFails(r)
    \/ InCensus /\ CensusTick
    \/ InRepair /\ Plan
    \/ InRepair /\ RowsLoaded
    \/ InRepair /\ ScanEnds
    \/ InRepair /\ PatchesStored
    \/ \E read \in 0..RowBudget, toEnd \in BOOLEAN : InRepair /\ ReadVolume(read, toEnd)
    \/ \E complete \in BOOLEAN : InRepair /\ ScanArticle(complete)
    \/ \E done \in BOOLEAN : InRepair /\ StorePatch(done)
    \/ \E a \in SetArticles :
        \/ InRepair /\ Lose(a)
        \/ InRepair /\ Fails(a)
        \/ InRepair /\ Return(a)
        \/ InRepair /\ Confirm(a)
        \/ InRepair /\ Evict(a)
    \/ \E m \in Message, S \in SUBSET Server :
        \/ InLedger /\ Consult(m, S)
        \/ \E s \in Server : InLedger /\ s \in S /\ NoteFirstRefusal(m, s, S)
        \/ \E s \in Server : InLedger /\ s \in S /\ NoteRefusal(m, s, S)
    \/ \E m \in Message :
        \/ InLedger /\ NotePresent(m)
        \/ \E s \in Server : InLedger /\ NoteTransport(m, s)
        \/ InLedger /\ RestoreOne(m)
    \/ \E M \in Repaired : InLedger /\ RecordHoles(M)
    \/ InLedger /\ Restart
    \/ InLedger /\ Tick
    \/ \E c \in Reporter :
        \/ \E k \in Key : InJobs /\ Schedule(c, k)
        \/ InJobs /\ FoldIntoJob(c)
        \/ InJobs /\ CheckSetCooldown(c)
        \/ InJobs /\ CheckSettled(c)
        \/ InJobs /\ InsertJob(c)
    \/ \E w \in Worker :
        \/ InJobs /\ WorkerReturns(w)
        \/ InJobs /\ StartJob(w)
        \/ \E o \in Outcome : InJobs /\ AttemptEnds(w, o)
        \/ InJobs /\ AttemptDies(w)
        \/ InJobs /\ LookForFolded(w)
        \/ InJobs /\ FinishJob(w)
        \/ InJobs /\ DeadlinePasses(w)
    \/ \E k \in Key : InJobs /\ CooldownEnds(k)
    \/ \E r \in HistoryItem : InJobs /\ VerdictEnds(r)

RecoveryVars == <<part, vars, censusVars, repairVars, jobVars>>

RecoverySpec == RecoveryInit /\ [][RecoveryNext]_RecoveryVars
=============================================================================
