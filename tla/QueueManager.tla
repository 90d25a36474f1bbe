---------------------------- MODULE QueueManager ----------------------------
(***************************************************************************)
(* The download queue: the manager's loop and its tasks                    *)
(* (nzbdav-app/src/queue_manager.rs), the writes a task's pipeline makes   *)
(* (nzbdav-pipeline/src/queue_item_processor.rs) and the SABnzbd and       *)
(* WebDAV requests that change the same tables while they run.             *)
(*                                                                         *)
(* Every statement on the database is a step of its own: a task has its    *)
(* own connection and awaits each of its statements.  Tables outlive a     *)
(* crash, tasks do not.                                                    *)
(***************************************************************************)
EXTENDS Integers, FiniteSets, SequencesExt

CONSTANTS
    Item,          \* ids of queue items, an upload each
    Priority,      \* priority an item is added with
    PathOf,        \* per item, its category (unless empty) and its job name
    Slot,          \* max_concurrent tasks
    FileCount,     \* files an import inserts
    Node,          \* ids of directories
    NoItem,
    MaxMishaps     \* bound on failed statements, panics and process crashes

ASSUME QueueAssumption ==
    /\ Priority \in [Item -> Int]
    /\ \A i \in Item : PathOf[i] \in Seq(STRING) /\ Len(PathOf[i]) \in 1..2
    /\ Node \subseteq Nat \ {0}
    /\ FileCount \in Nat \ {0}
    /\ NoItem \notin Item
    /\ MaxMishaps \in Nat

VARIABLES
    queue_items, \* in the order of created_at
    history,     \* history_items: status and download_dir_id, by id
    blobs,       \* nzb_blobs
    dirs,        \* dav_items: the directories under /content/, by path
    files,       \* dav_items: the files of each directory
    sets,        \* par2_sets: the job directory, by history item
    tasks,       \* active
    active_ids,
    dav_delete,  \* the queue item a WebDAV DELETE is half way through
    mishaps,     \* failed statements, panics and crashes so far
    accepted,    \* items whose upload was answered with their id
    withdrawn,   \* items deleted or retried by the user
    unrecorded,  \* items whose history row could not be inserted
    replaced,    \* directories another import's insert replaced
    shut         \* items whose task panicked in this process

tables == <<queue_items, history, blobs, dirs, files, sets>>
tree == <<dirs, files, sets>>
ghosts == <<accepted, withdrawn, unrecorded, replaced, shut>>
queueVars == <<tables, tasks, active_ids, dav_delete, mishaps, ghosts>>

Root == 0
File == 1..FileCount
Path == UNION {{SubSeq(PathOf[i], 1, k) : k \in 1..Len(PathOf[i])} : i \in Item}
Status == {"Completed", "Failed"}
QueueStage == {"free", "load", "process", "look", "parent", "create", "file", "sets",
          "record", "unqueue", "done", "panicked"}

\* dir: the directory of the step, level: how far down the path it is.
Task == [item : Item \union {NoItem}, at : QueueStage, level : 1..2, dir : Node \union {Root},
         done : 0..FileCount, status : Status]

FreeTask == [item |-> NoItem, at |-> "free", level |-> 1, dir |-> Root, done |-> 0,
         status |-> "Failed"]

Queued == ToSet(queue_items)
Live == {dirs[p] : p \in DOMAIN dirs}
At(s) == tasks[s].at
ItemOf(s) == tasks[s].item
Mishap == mishaps < MaxMishaps /\ mishaps' = mishaps + 1
Goto(s, stage) == tasks' = [tasks EXCEPT ![s].at = stage]

-----------------------------------------------------------------------------
(* The loop.                                                                *)

\* get_next_queue_item(exclude): priority DESC, created_at ASC.
Eligible == {k \in DOMAIN queue_items : queue_items[k] \notin active_ids}
Next_item(k) ==
    /\ k \in Eligible
    /\ \A j \in Eligible \ {k} :
        \/ Priority[queue_items[k]] > Priority[queue_items[j]]
        \/ Priority[queue_items[k]] = Priority[queue_items[j]] /\ k < j

\* Mutant of StartItem: the items in progress are not excluded.
StartAnyItem(s) ==
    /\ At(s) = "free" /\ queue_items # <<>>
    /\ active_ids' = active_ids \union {Head(queue_items)}
    /\ tasks' = [tasks EXCEPT ![s] = [FreeTask EXCEPT !.item = Head(queue_items), !.at = "load"]]
    /\ UNCHANGED <<tables, dav_delete, mishaps, ghosts>>

StartItem(s) ==
    /\ At(s) = "free"
    /\ \E k \in DOMAIN queue_items :
        /\ Next_item(k)
        /\ active_ids' = active_ids \union {queue_items[k]}
        /\ tasks' = [tasks EXCEPT ![s] = [FreeTask EXCEPT !.item = queue_items[k], !.at = "load"]]
    /\ UNCHANGED <<tables, dav_delete, mishaps, ghosts>>

\* Mutant of Reap: the id of a finished task stays in active_ids.
ReapKeepingId(s) ==
    /\ At(s) \in {"done", "panicked"}
    /\ tasks' = [tasks EXCEPT ![s] = FreeTask]
    /\ UNCHANGED <<tables, active_ids, dav_delete, mishaps, ghosts>>

\* A task that panicked does not tell its id, which stays in active_ids.
Reap(s) ==
    /\ At(s) \in {"done", "panicked"}
    /\ active_ids' = IF At(s) = "done" THEN active_ids \ {ItemOf(s)} ELSE active_ids
    /\ tasks' = [tasks EXCEPT ![s] = FreeTask]
    /\ UNCHANGED <<tables, dav_delete, mishaps, ghosts>>

-----------------------------------------------------------------------------
(* A task: process_single_item and the writes of QueueItemProcessor.        *)

Failed(s) == tasks' = [tasks EXCEPT ![s].at = "record", ![s].status = "Failed", ![s].dir = Root]

Imported(s) == tasks' = [tasks EXCEPT ![s].at = "record", ![s].status = "Completed"]

\* The connection, or a statement of the pipeline, fails.
Fault(s) ==
    /\ Mishap
    /\ \/ At(s) = "load" /\ Goto(s, "done")
       \/ At(s) \in {"load", "look", "parent", "create", "file"} /\ Failed(s)
       \/ At(s) = "sets" /\ Imported(s)
    /\ UNCHANGED <<tables, active_ids, dav_delete, ghosts>>

LoadBlob(s) ==
    /\ At(s) = "load"
    /\ IF ItemOf(s) \in blobs THEN Goto(s, "process") ELSE Failed(s)
    /\ UNCHANGED <<tables, active_ids, dav_delete, mishaps, ghosts>>

\* Parsing, fetching and aggregating: reads only.
Process(s) ==
    /\ At(s) = "process"
    /\ Goto(s, "look") \/ Failed(s)
    /\ UNCHANGED <<tables, active_ids, dav_delete, mishaps, ghosts>>

Panic(s) ==
    /\ At(s) = "process" /\ Mishap
    /\ Goto(s, "panicked")
    /\ shut' = shut \union {ItemOf(s)}
    /\ UNCHANGED <<tables, active_ids, dav_delete, accepted, withdrawn, unrecorded, replaced>>

\* The directory of the current level is there, with the given id.
Enter(s, id) ==
    LET t == tasks[s] IN
    tasks' = [tasks EXCEPT ![s] =
        IF t.level = Len(PathOf[t.item])
        THEN [t EXCEPT !.at = "file", !.dir = id]
        ELSE [t EXCEPT !.at = "look", !.level = t.level + 1]]

Here(s) == SubSeq(PathOf[ItemOf(s)], 1, tasks[s].level)

\* Mutant of LookUpDirectory: a job directory that exists was imported.
LookUpImported(s) ==
    /\ At(s) = "look"
    /\ IF Here(s) \notin DOMAIN dirs THEN Goto(s, "parent")
       ELSE IF tasks[s].level < Len(PathOf[ItemOf(s)]) THEN Enter(s, dirs[Here(s)])
       ELSE tasks' = [tasks EXCEPT ![s].at = "sets", ![s].dir = dirs[Here(s)]]
    /\ UNCHANGED <<tables, active_ids, dav_delete, mishaps, ghosts>>

\* ensure_directory: the directory by path, else its parent, else an error.
LookUpDirectory(s) ==
    /\ At(s) = "look"
    /\ IF Here(s) \in DOMAIN dirs THEN Enter(s, dirs[Here(s)]) ELSE Goto(s, "parent")
    /\ UNCHANGED <<tables, active_ids, dav_delete, mishaps, ghosts>>

LookUpParent(s) ==
    LET parent == Front(Here(s)) IN
    /\ At(s) = "parent"
    /\ IF parent = <<>> \/ parent \in DOMAIN dirs
       THEN tasks' = [tasks EXCEPT ![s].at = "create",
                                   ![s].dir = IF parent = <<>> THEN Root ELSE dirs[parent]]
       ELSE Failed(s)
    /\ UNCHANGED <<tables, active_ids, dav_delete, mishaps, ghosts>>

\* Ids no row, task or download_dir_id holds: a new UUID is one of them.
Unused == Node \ (Live \union {tasks[s].dir : s \in Slot} \union replaced
                       \union {history[i].dir : i \in DOMAIN history})

\* INSERT OR REPLACE on (parent_id, name).  Replacing a directory deletes it
\* with all below it: subdirectories, files and PAR2 sets cascade.  Node bounds
\* the directories ever created.
CreateDirectory(s) ==
    LET gone == {p \in DOMAIN dirs : IsPrefix(Here(s), p)}
        lost == {dirs[p] : p \in gone}
        new == CHOOSE n \in Unused : TRUE
    IN
    /\ At(s) = "create" /\ Unused # {}
    /\ IF tasks[s].dir \in Live \union {Root}
       THEN /\ dirs' = [p \in (DOMAIN dirs \ gone) \union {Here(s)} |->
                            IF p = Here(s) THEN new ELSE dirs[p]]
            /\ files' = [n \in Node |-> IF n \in lost THEN {} ELSE files[n]]
            /\ sets' = [i \in {j \in DOMAIN sets : sets[j] \notin lost} |-> sets[i]]
            /\ replaced' = replaced \union lost
            /\ Enter(s, new)
       ELSE Failed(s) /\ UNCHANGED <<tree, replaced>>
    /\ UNCHANGED <<queue_items, history, blobs, active_ids, dav_delete, mishaps,
                   accepted, withdrawn, unrecorded, shut>>

\* A file's blob and its row, under a directory that has to be there still.
InsertFile(s) ==
    /\ At(s) = "file"
    /\ IF tasks[s].dir \in Live
       THEN /\ files' = [files EXCEPT ![tasks[s].dir] = @ \union {tasks[s].done + 1}]
            /\ tasks' = [tasks EXCEPT ![s].done = @ + 1,
                   ![s].at = IF tasks[s].done + 1 = FileCount THEN "sets" ELSE @]
       ELSE Failed(s) /\ UNCHANGED files
    /\ UNCHANGED <<queue_items, history, blobs, dirs, sets, active_ids, dav_delete, mishaps, ghosts>>

\* put_par2_sets, one transaction; its failure never fails the import.
PutSets(s) ==
    /\ At(s) = "sets"
    /\ sets' = IF tasks[s].dir \in Live
               THEN [i \in DOMAIN sets \union {ItemOf(s)} |->
                         IF i = ItemOf(s) THEN tasks[s].dir ELSE sets[i]]
               ELSE sets
    /\ Imported(s)
    /\ UNCHANGED <<queue_items, history, blobs, dirs, files, active_ids, dav_delete, mishaps, ghosts>>

-----------------------------------------------------------------------------
(* move_to_history.                                                         *)

\* Mutant of InsertHistory: INSERT OR REPLACE.
InsertHistoryAnew(s) ==
    /\ At(s) = "record"
    /\ history' = [i \in DOMAIN history \union {ItemOf(s)} |->
                       IF i = ItemOf(s) THEN [status |-> tasks[s].status, dir |-> tasks[s].dir]
                       ELSE history[i]]
    /\ Goto(s, "unqueue")
    /\ UNCHANGED <<queue_items, blobs, tree, active_ids, dav_delete, mishaps, ghosts>>

\* The id is the primary key: a row that is there stays as it is.
InsertHistory(s) ==
    /\ At(s) = "record"
    /\ history' = [i \in DOMAIN history \union {ItemOf(s)} |->
                       IF i \in DOMAIN history THEN history[i]
                       ELSE [status |-> tasks[s].status, dir |-> tasks[s].dir]]
    /\ Goto(s, "unqueue")
    /\ UNCHANGED <<queue_items, blobs, tree, active_ids, dav_delete, mishaps, ghosts>>

\* The error is logged, and the item deleted from the queue all the same.
InsertHistoryFails(s) ==
    /\ At(s) = "record" /\ Mishap
    /\ Goto(s, "unqueue")
    /\ unrecorded' = IF ItemOf(s) \in DOMAIN history THEN unrecorded
                     ELSE unrecorded \union {ItemOf(s)}
    /\ UNCHANGED <<tables, active_ids, dav_delete,
                   accepted, withdrawn, replaced, shut>>

\* The id is the primary key: one row goes, or none.
Place(i) == CHOOSE k \in DOMAIN queue_items : queue_items[k] = i
Without(i) == IF i \in Queued THEN RemoveAt(queue_items, Place(i)) ELSE queue_items

\* Mutant of DeleteFromQueue: the head of the queue goes, whose ever it is.
DeleteFromQueueFirst(s) ==
    /\ At(s) = "unqueue"
    /\ Goto(s, "done")
    /\ queue_items' = IF queue_items = <<>> THEN queue_items ELSE Tail(queue_items)
    /\ UNCHANGED <<history, blobs, tree, active_ids, dav_delete, mishaps, ghosts>>

DeleteFromQueue(s) ==
    /\ At(s) = "unqueue"
    /\ Goto(s, "done")
    /\ \/ queue_items' = Without(ItemOf(s)) /\ UNCHANGED mishaps
       \/ Mishap /\ UNCHANGED queue_items
    /\ UNCHANGED <<history, blobs, tree, active_ids, dav_delete, ghosts>>

-----------------------------------------------------------------------------
(* Requests.                                                                *)

\* enqueue_nzb; the blob alone stays when the row cannot be inserted.
Enqueue(i) ==
    /\ i \notin accepted \union blobs
    /\ blobs' = blobs \union {i}
    /\ \/ queue_items' = Append(queue_items, i) /\ accepted' = accepted \union {i} /\ UNCHANGED mishaps
       \/ Mishap /\ UNCHANGED <<queue_items, accepted>>
    /\ UNCHANGED <<history, tree, tasks, active_ids, dav_delete,
                   withdrawn, unrecorded, replaced, shut>>

\* handle_queue, name=delete.
DeleteQueued(i) ==
    /\ i \in Queued
    /\ queue_items' = Without(i)
    /\ withdrawn' = withdrawn \union {i}
    /\ UNCHANGED <<history, blobs, tree, tasks, active_ids, dav_delete, mishaps,
                   accepted, unrecorded, replaced, shut>>

\* WebDAV DELETE of /nzbs/<file>: the blob, then the row.
DavDeleteBlob(i) ==
    /\ dav_delete = NoItem /\ i \in Queued
    /\ dav_delete' = i
    /\ blobs' = blobs \ {i}
    /\ withdrawn' = withdrawn \union {i}
    /\ UNCHANGED <<queue_items, history, tree, tasks, active_ids, mishaps,
                   accepted, unrecorded, replaced, shut>>

DavDeleteRow ==
    /\ dav_delete # NoItem
    /\ dav_delete' = NoItem
    /\ queue_items' = Without(dav_delete)
    /\ UNCHANGED <<history, blobs, tree, tasks, active_ids, mishaps, ghosts>>

Drop(f, gone) == [i \in DOMAIN f \ gone |-> f[i]]

\* history_items::delete.
DeleteHistory(i) ==
    /\ i \in DOMAIN history
    /\ sets' = Drop(sets, {i})
    /\ history' = Drop(history, {i})
    /\ withdrawn' = withdrawn \union {i}
    /\ UNCHANGED <<queue_items, blobs, dirs, files, tasks, active_ids, dav_delete, mishaps,
                   accepted, unrecorded, replaced, shut>>

\* history_items::delete_all.
ClearHistory ==
    /\ DOMAIN history # {}
    /\ sets' = Drop(sets, Item)
    /\ history' = Drop(history, Item)
    /\ withdrawn' = withdrawn \union DOMAIN history
    /\ UNCHANGED <<queue_items, blobs, dirs, files, tasks, active_ids, dav_delete, mishaps,
                   accepted, unrecorded, replaced, shut>>

\* retry_history_item, under a new id; the old entry may fail to go.
Retry(i, new) ==
    /\ i \in DOMAIN history /\ i \in blobs
    /\ new \notin accepted \union blobs
    /\ Priority[new] = 0 /\ PathOf[new] = PathOf[i]
    /\ blobs' = blobs \union {new}
    /\ queue_items' = Append(queue_items, new)
    /\ accepted' = accepted \union {new}
    /\ \/ /\ sets' = Drop(sets, {i}) /\ history' = Drop(history, {i})
          /\ withdrawn' = withdrawn \union {i}
          /\ UNCHANGED mishaps
       \/ /\ Mishap
          /\ UNCHANGED <<sets, history, withdrawn>>
    /\ UNCHANGED <<dirs, files, tasks, active_ids, dav_delete,
                   unrecorded, replaced, shut>>

\* The process ends, by a crash or its shutdown, and a new one starts.
Crash ==
    /\ Mishap
    /\ tasks' = [s \in Slot |-> FreeTask]
    /\ active_ids' = {}
    /\ dav_delete' = NoItem
    /\ shut' = {}
    /\ UNCHANGED <<tables, accepted, withdrawn, unrecorded, replaced>>

-----------------------------------------------------------------------------
QueueInit ==
    /\ queue_items = <<>> /\ blobs = {}
    /\ history = [i \in {} |-> [status |-> "Failed", dir |-> Root]]
    /\ dirs = [p \in {} |-> Root]
    /\ files = [n \in Node |-> {}]
    /\ sets = [i \in {} |-> Root]
    /\ tasks = [s \in Slot |-> FreeTask]
    /\ active_ids = {} /\ dav_delete = NoItem
    /\ mishaps = 0
    /\ accepted = {} /\ withdrawn = {} /\ unrecorded = {} /\ replaced = {} /\ shut = {}

Step(s) ==
    \/ LoadBlob(s) \/ Process(s)
    \/ LookUpDirectory(s) \/ LookUpParent(s) \/ CreateDirectory(s)
    \/ InsertFile(s) \/ PutSets(s)
    \/ InsertHistory(s) \/ DeleteFromQueue(s)

QueueNext ==
    \/ \E s \in Slot :
        \/ StartItem(s) \/ Reap(s)
        \/ Step(s) \/ Fault(s) \/ Panic(s) \/ InsertHistoryFails(s)
    \/ \E i \in Item :
        \/ Enqueue(i) \/ DeleteQueued(i) \/ DavDeleteBlob(i) \/ DeleteHistory(i)
        \/ \E new \in Item : Retry(i, new)
    \/ DavDeleteRow \/ ClearHistory
    \/ Crash

QueueSpec == QueueInit /\ [][QueueNext]_queueVars

(* The loop polls, and its tasks are run; requests come as they please.     *)
FairQueueSpec ==
    /\ QueueSpec
    /\ \A s \in Slot : WF_queueVars(Step(s)) /\ WF_queueVars(Reap(s))
    /\ WF_queueVars(\E s \in Slot : StartItem(s))

-----------------------------------------------------------------------------
(* Correctness.                                                             *)

(* The manager never works on an item twice at the same time, and its       *)
(* exclusions name every item it works on.                                  *)
OneTaskPerItem ==
    /\ \A s \in Slot : At(s) # "free" => ItemOf(s) \in active_ids
    /\ \A s, t \in Slot : s # t /\ ItemOf(s) = ItemOf(t) => At(s) = "free"

(* An upload that got its id back is queued or in the history until the     *)
(* user takes it out, through every crash and every failed statement but    *)
(* the one that writes its history.                                         *)
NothingLost == accepted \subseteq Queued \union DOMAIN history \union withdrawn \union unrecorded

(* A completed item's directory holds every file of it, whatever crashed or *)
(* was imported again, unless another import replaced that directory.       *)
CompletedIsImported ==
    \A i \in DOMAIN history : history[i].status = "Completed" =>
        \/ history[i].dir \in Live /\ files[history[i].dir] = File
        \/ history[i].dir \in replaced

(* What a client read of an item in the history stays until it is deleted:  *)
(* a second run of the item does not change it.                             *)
HistoryIsFinal ==
    [][\A i \in DOMAIN history \intersect DOMAIN history' : history'[i] = history[i]]_queueVars

(* Every queued item leaves the queue, or is shut out by its task's panic.  *)
QueueDrains == \A i \in Item : i \in Queued ~> i \notin Queued \/ i \in shut

(* ensure_directory only creates what is missing.                           *)
EnsureOnlyCreates ==
    [][\A p \in DOMAIN dirs : p \in DOMAIN dirs' /\ dirs'[p] = dirs[p]]_queueVars
=============================================================================
