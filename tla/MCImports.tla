------------------------------ MODULE MCImports ------------------------------
(***************************************************************************)
(* How uploads become items, side by side: the queue with the statements   *)
(* of its tasks, and what one import makes of its NZB before it writes.    *)
(* Each behaviour is one of theirs.                                        *)
(***************************************************************************)
EXTENDS MCQueueManager, MCImportPipeline

VARIABLE part    \* whose behaviour this is

ImportsVars == <<part, queueVars, importVars>>

InQueue == part = "queue" /\ UNCHANGED <<part, importVars>>
InImport == part = "import" /\ UNCHANGED <<part, queueVars>>

\* The other part waits in one of its initial states.
ImportsInit ==
    /\ part \in {"queue", "import"}
    /\ QueueInit /\ ImportInit
    /\ part # "import" => release = CHOOSE any \in Submission : TRUE

\* The next-state relation of each part, action by action.
ImportsNext ==
    \/ \E s \in Slot :
        \/ InQueue /\ StartItem(s)
        \/ InQueue /\ Reap(s)
        \/ InQueue /\ Step(s)
        \/ InQueue /\ Fault(s)
        \/ InQueue /\ Panic(s)
        \/ InQueue /\ InsertHistoryFails(s)
    \/ \E i \in Item :
        \/ InQueue /\ Enqueue(i)
        \/ InQueue /\ DeleteQueued(i)
        \/ InQueue /\ DavDeleteBlob(i)
        \/ InQueue /\ DeleteHistory(i)
        \/ \E new \in Item : InQueue /\ Retry(i, new)
    \/ InQueue /\ DavDeleteRow
    \/ InQueue /\ ClearHistory
    \/ InQueue /\ Crash
    \/ InImport /\ ParseDocument
    \/ InImport /\ CollectFirst
    \/ InImport /\ Resolve
    \/ InImport /\ CollectVolumes
    \/ \E outcome \in {"found", "missing", "error"} :
        \/ InImport /\ \E k \in waiting : FetchFirst(k, outcome)
        \/ InImport /\ \E k \in waiting : ParseVolume(k, outcome)
        \/ InImport /\ ReadGroup(outcome)
        \/ InImport /\ ProbeVolume(outcome)
    \/ InImport /\ \E order \in SetToSeqs(Names) : Aggregate(order)

ImportsSpec == ImportsInit /\ [][ImportsNext]_ImportsVars
=============================================================================
