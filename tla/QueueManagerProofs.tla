------------------------ MODULE QueueManagerProofs -------------------------
(***************************************************************************)
(* Proofs about QueueManager: no item is worked on twice at once, no       *)
(* upload is lost, and what the history says is final; and about           *)
(* ImportPipeline: the records of an import's PAR2 sets are true.          *)
(***************************************************************************)
EXTENDS QueueManager, ImportPipeline, FiniteSums, FiniteSetTheorems, SequenceTheorems, TLAPS

-----------------------------------------------------------------------------
(* The rows of the queue.                                                   *)

(* RemoveAt closes the gap and keeps the order of the rest.                 *)
LEMMA RemoveAtShifts ==
    ASSUME NEW q \in Seq(Item), NEW k \in 1..Len(q)
    PROVE  /\ RemoveAt(q, k) \in Seq(Item)
           /\ Len(RemoveAt(q, k)) = Len(q) - 1
           /\ \A j \in 1..(Len(q) - 1) :
                  RemoveAt(q, k)[j] = IF j < k THEN q[j] ELSE q[j + 1]
<1> DEFINE before == SubSeq(q, 1, k - 1)
           after == SubSeq(q, k + 1, Len(q))
<1>1. \A j \in 1..Len(q) : q[j] \in Item
    OBVIOUS
<1>2. Len(q) \in Nat
    OBVIOUS
<1>3. /\ before \in Seq(Item) /\ Len(before) = k - 1
      /\ \A j \in 1..(k - 1) : before[j] = q[j]
    <2>1. \A j \in 1..(k - 1) : q[j] \in Item
        BY <1>1, <1>2
    <2>2. /\ before \in Seq(Item)
          /\ Len(before) = IF 1 <= k - 1 THEN (k - 1) - 1 + 1 ELSE 0
          /\ \A j \in 1..((k - 1) - 1 + 1) : before[j] = q[1 + j - 1]
        BY <2>1, SubSeqProperties
    <2> QED BY <2>2, <1>2
<1>4. /\ after \in Seq(Item) /\ Len(after) = Len(q) - k
      /\ \A j \in 1..(Len(q) - k) : after[j] = q[k + j]
    <2>1. \A j \in (k + 1)..Len(q) : q[j] \in Item
        BY <1>1, <1>2
    <2>2. /\ after \in Seq(Item)
          /\ Len(after) = IF k + 1 <= Len(q) THEN Len(q) - (k + 1) + 1 ELSE 0
          /\ \A j \in 1..(Len(q) - (k + 1) + 1) : after[j] = q[(k + 1) + j - 1]
        BY <2>1, <1>2, SubSeqProperties
    <2> QED BY <2>2, <1>2
<1>5. RemoveAt(q, k) = before \o after
    BY DEF RemoveAt
<1> HIDE DEF before, after
<1>6. /\ before \o after \in Seq(Item)
      /\ Len(before \o after) = Len(before) + Len(after)
      /\ \A j \in 1..(Len(before) + Len(after)) : (before \o after)[j] =
             IF j <= Len(before) THEN before[j] ELSE after[j - Len(before)]
    <2>1. before \in Seq(Item) /\ after \in Seq(Item)
        BY <1>3, <1>4
    <2> QED BY <2>1, ConcatProperties
<1>7. Len(before) + Len(after) = Len(q) - 1
    BY <1>2, <1>3, <1>4
<1>8. ASSUME NEW j \in 1..(Len(q) - 1)
      PROVE  (before \o after)[j] = IF j < k THEN q[j] ELSE q[j + 1]
    <2>1. CASE j < k
        BY <2>1, <1>2, <1>3, <1>6, <1>7
    <2>2. CASE ~(j < k)
        <3>1. j \in 1..(Len(before) + Len(after)) /\ ~(j <= Len(before))
            BY <2>2, <1>2, <1>3, <1>7
        <3>3. (before \o after)[j] = after[j - Len(before)]
            BY <3>1, <1>6
        <3>2. j - (k - 1) \in 1..(Len(q) - k) /\ k + (j - (k - 1)) = j + 1
            BY <2>2, <1>2
        <3> QED BY <2>2, <3>3, <3>2, <1>3, <1>4
    <2> QED BY <2>1, <2>2
<1> QED BY <1>5, <1>6, <1>7, <1>8

(* Deleting a row leaves the others, and adds none.                         *)
LEMMA WithoutKeepsOthers ==
    ASSUME queue_items \in Seq(Item), NEW i
    PROVE  /\ Without(i) \in Seq(Item)
           /\ Queued \ {i} \subseteq ToSet(Without(i))
<1> DEFINE q == queue_items
           k == Place(i)
           rest == RemoveAt(q, k)
<1>1. CASE i \notin Queued
    BY <1>1 DEF Without, Queued
<1>2. CASE i \in Queued
    <2>1. k \in 1..Len(q) /\ q[k] = i
        BY <1>2 DEF Queued, ToSet, Place
    <2>2. /\ rest \in Seq(Item) /\ Len(rest) = Len(q) - 1
          /\ \A j \in 1..(Len(q) - 1) : rest[j] = IF j < k THEN q[j] ELSE q[j + 1]
        BY <2>1, RemoveAtShifts
    <2>3. Without(i) = rest
        BY <1>2 DEF Without
    <2> HIDE DEF k, rest
    <2>4. ASSUME NEW j \in 1..Len(q), q[j] # i
          PROVE  \E n \in 1..(Len(q) - 1) : rest[n] = q[j]
        <3>1. CASE j < k
            <4>1. j \in 1..(Len(q) - 1)
                BY <3>1, <2>1
            <4> QED BY <3>1, <4>1, <2>2
        <3>2. CASE j > k
            <4>1. j - 1 \in 1..(Len(q) - 1) /\ ~(j - 1 < k) /\ (j - 1) + 1 = j
                BY <3>2, <2>1
            <4>2. rest[j - 1] = q[j]
                BY <4>1, <2>2
            <4> QED BY <4>1, <4>2
        <3> QED BY <2>4, <3>1, <3>2, <2>1
    <2>5. Queued \ {i} \subseteq ToSet(rest)
        <3>1. DOMAIN rest = 1..(Len(q) - 1)
            BY <2>2
        <3>2. SUFFICES ASSUME NEW x \in Queued, x # i
                       PROVE  x \in ToSet(rest)
            OBVIOUS
        <3>3. PICK j \in 1..Len(q) : x = q[j]
            BY DEF Queued, ToSet
        <3>4. PICK n \in 1..(Len(q) - 1) : rest[n] = q[j]
            BY <3>2, <3>3, <2>4
        <3> QED BY <3>1, <3>3, <3>4 DEF ToSet
    <2> QED BY <2>2, <2>3, <2>5
<1> QED BY <1>1, <1>2

(* Adding a row leaves the others.                                          *)
LEMMA AppendKeepsOthers ==
    ASSUME queue_items \in Seq(Item), NEW i \in Item
    PROVE  /\ Append(queue_items, i) \in Seq(Item)
           /\ ToSet(Append(queue_items, i)) = Queued \union {i}
<1>1. /\ Append(queue_items, i) \in Seq(Item)
      /\ DOMAIN Append(queue_items, i) = 1..(Len(queue_items) + 1)
      /\ \A j \in 1..(Len(queue_items) + 1) :
             Append(queue_items, i)[j] = IF j = Len(queue_items) + 1 THEN i ELSE queue_items[j]
    OBVIOUS
<1>2. \A x \in ToSet(Append(queue_items, i)) : x \in Queued \union {i}
    <2>1. SUFFICES ASSUME NEW j \in 1..(Len(queue_items) + 1)
                   PROVE  Append(queue_items, i)[j] \in Queued \union {i}
        BY <1>1 DEF ToSet
    <2>2. CASE j = Len(queue_items) + 1
        BY <2>2, <1>1
    <2>3. CASE j # Len(queue_items) + 1
        <3>1. j \in DOMAIN queue_items
            BY <2>3
        <3> QED BY <2>3, <3>1, <1>1 DEF Queued, ToSet
    <2> QED BY <2>2, <2>3
<1>3. i \in ToSet(Append(queue_items, i))
    <2>1. Len(queue_items) + 1 \in 1..(Len(queue_items) + 1)
        OBVIOUS
    <2> QED BY <2>1, <1>1 DEF ToSet
<1>4. ASSUME NEW x \in Queued
      PROVE  x \in ToSet(Append(queue_items, i))
    <2>1. PICK j \in 1..Len(queue_items) : x = queue_items[j]
        BY DEF Queued, ToSet
    <2>2. j \in 1..(Len(queue_items) + 1) /\ j # Len(queue_items) + 1
        BY <2>1
    <2> QED BY <2>1, <2>2, <1>1 DEF ToSet
<1> QED BY <1>1, <1>2, <1>3, <1>4

-----------------------------------------------------------------------------
(* The invariant.                                                           *)

(* Every task is a record with these fields; the directory it names is not  *)
(* looked at.                                                               *)
TasksShaped ==
    /\ DOMAIN tasks = Slot /\ tasks = [s \in Slot |-> tasks[s]]
    /\ \A s \in Slot : DOMAIN tasks[s] = {"item", "at", "level", "dir", "done", "status"}

(* A slot is free or works on an item that is excluded and no other slot's. *)
TasksApart ==
    /\ \A s \in Slot :
        \/ At(s) = "free" /\ ItemOf(s) = NoItem
        \/ At(s) # "free" /\ ItemOf(s) \in Item /\ ItemOf(s) \in active_ids
    /\ \A s, t \in Slot : s # t /\ ItemOf(s) = ItemOf(t) => At(s) = "free"

(* Where an item that left the queue may be found.                          *)
Accounted == DOMAIN history \union withdrawn \union unrecorded

(* What is about to be deleted from the queue is accounted for elsewhere,   *)
(* by the task that deletes it or by the request that is half way through.  *)
Recorded ==
    /\ \A s \in Slot : At(s) = "unqueue" => ItemOf(s) \in Accounted
    /\ dav_delete # NoItem => dav_delete \in withdrawn

QueueInv ==
    /\ queue_items \in Seq(Item)
    /\ TasksShaped /\ TasksApart
    /\ Recorded /\ NothingLost

-----------------------------------------------------------------------------
(* What a step of a task does to the tasks.                                 *)

(* The task of s takes a step: its item and the other tasks stay.           *)
Moves(s) ==
    /\ TasksShaped'
    /\ At(s) # "free" /\ At(s)' # "free" /\ ItemOf(s)' = ItemOf(s)
    /\ \A t \in Slot \ {s} : tasks'[t] = tasks[t]

(* A change of the stage is such a step.                                    *)
LEMMA GotoMoves ==
    ASSUME TasksShaped, NEW s \in Slot, At(s) # "free", NEW at, at # "free", Goto(s, at)
    PROVE  Moves(s) /\ At(s)' = at
BY DEF TasksShaped, Goto, Moves, At, ItemOf

(* So is the end of a pipeline that failed.                                 *)
LEMMA FailedMoves ==
    ASSUME TasksShaped, NEW s \in Slot, At(s) # "free", Failed(s)
    PROVE  Moves(s) /\ At(s)' = "record"
BY DEF TasksShaped, Failed, Moves, At, ItemOf

(* So is the end of one that imported its item.                             *)
LEMMA ImportedMoves ==
    ASSUME TasksShaped, NEW s \in Slot, At(s) # "free", Imported(s)
    PROVE  Moves(s) /\ At(s)' = "record"
BY DEF TasksShaped, Imported, Moves, At, ItemOf

(* So is going down into a directory.                                       *)
LEMMA EnterMoves ==
    ASSUME TasksShaped, NEW s \in Slot, At(s) # "free", NEW id, Enter(s, id)
    PROVE  Moves(s) /\ At(s)' \in {"file", "look"}
BY DEF TasksShaped, Enter, Moves, At, ItemOf

-----------------------------------------------------------------------------
(* The two kinds of step.                                                   *)

(* A step of one task that leaves the queue and the exclusions alone keeps  *)
(* the invariant, if an item about to be deleted is accounted for.          *)
LEMMA TaskStepKeeps ==
    ASSUME QueueInv, NEW s \in Slot, Moves(s),
           UNCHANGED <<queue_items, active_ids, dav_delete, accepted, withdrawn>>,
           Accounted \subseteq Accounted',
           At(s)' = "unqueue" => ItemOf(s) \in Accounted'
    PROVE  QueueInv'
<1>1. /\ TasksShaped' /\ At(s) # "free" /\ At(s)' # "free" /\ ItemOf(s)' = ItemOf(s)
      /\ \A t \in Slot \ {s} : At(t)' = At(t) /\ ItemOf(t)' = ItemOf(t)
    BY DEF Moves, At, ItemOf
<1>2. TasksApart'
    <2>1. TasksApart /\ active_ids' = active_ids
        BY DEF QueueInv
    <2>2. ASSUME NEW t \in Slot
          PROVE  \/ At(t)' = "free" /\ ItemOf(t)' = NoItem
                 \/ At(t)' # "free" /\ ItemOf(t)' \in Item /\ ItemOf(t)' \in active_ids'
        BY <1>1, <2>1 DEF TasksApart
    <2>3. ASSUME NEW t \in Slot, NEW u \in Slot, t # u, ItemOf(t)' = ItemOf(u)'
          PROVE  At(t)' = "free"
        <3>1. ItemOf(t) = ItemOf(u)
            BY <1>1, <2>3
        <3>2. At(t) = "free" /\ At(u) = "free"
            BY <3>1, <2>1, <2>3 DEF TasksApart
        <3> QED BY <3>2, <1>1
    <2> QED BY <2>2, <2>3 DEF TasksApart
<1>3. Recorded'
    <2>1. Recorded
        BY DEF QueueInv
    <2>2. ASSUME NEW t \in Slot, At(t)' = "unqueue"
          PROVE  ItemOf(t)' \in Accounted'
        <3>1. CASE t = s
            BY <3>1, <2>2, <1>1
        <3>2. CASE t # s
            BY <3>2, <2>1, <2>2, <1>1 DEF Recorded
        <3> QED BY <3>1, <3>2
    <2> QED BY <2>1, <2>2 DEF Recorded
<1>4. NothingLost'
    BY DEF QueueInv, NothingLost, Accounted, Queued
<1> QED BY <1>1, <1>2, <1>3, <1>4 DEF QueueInv

(* A request, which leaves the tasks alone, keeps the invariant if it takes *)
(* no row but for the user.                                                 *)
LEMMA RequestKeeps ==
    ASSUME QueueInv, UNCHANGED <<tasks, active_ids>>,
           queue_items' \in Seq(Item),
           Accounted \subseteq Accounted',
           dav_delete' # NoItem => dav_delete' \in withdrawn',
           NothingLost'
    PROVE  QueueInv'
<1>1. TasksShaped' /\ TasksApart'
    BY DEF QueueInv, TasksShaped, TasksApart, At, ItemOf
<1>2. Recorded'
    BY DEF QueueInv, Recorded, At, ItemOf
<1> QED BY <1>1, <1>2 DEF QueueInv

-----------------------------------------------------------------------------
(* Every step keeps the invariant.                                          *)

(* Taking an item: the slot was free, and the item is no other slot's.      *)
LEMMA StartItemKeeps ==
    ASSUME QueueInv, NEW s \in Slot, StartItem(s)
    PROVE  QueueInv'
<1>1. PICK k \in DOMAIN queue_items :
          /\ k \in Eligible
          /\ active_ids' = active_ids \union {queue_items[k]}
          /\ tasks' = [tasks EXCEPT ![s] =
                          [FreeTask EXCEPT !.item = queue_items[k], !.at = "load"]]
    BY DEF StartItem, Next_item
<1> DEFINE i == queue_items[k]
<1>2. i \in Item /\ i \notin active_ids
    BY <1>1 DEF QueueInv, Eligible
<1>3. TasksShaped /\ TasksApart /\ Recorded /\ NothingLost
    BY DEF QueueInv
<1>4. /\ UNCHANGED <<queue_items, history, dav_delete, accepted, withdrawn, unrecorded>>
      /\ At(s) = "free"
    BY DEF StartItem, tables, ghosts
<1>5. TasksShaped'
    BY <1>1, <1>3 DEF TasksShaped, FreeTask
<1>6. /\ At(s)' = "load" /\ ItemOf(s)' = i
      /\ \A t \in Slot \ {s} : At(t)' = At(t) /\ ItemOf(t)' = ItemOf(t)
    BY <1>1, <1>3 DEF TasksShaped, FreeTask, At, ItemOf
<1>7. active_ids' = active_ids \union {i}
    BY <1>1
<1> HIDE DEF i
<1>8. TasksApart'
    <2>1. ASSUME NEW t \in Slot
          PROVE  \/ At(t)' = "free" /\ ItemOf(t)' = NoItem
                 \/ At(t)' # "free" /\ ItemOf(t)' \in Item /\ ItemOf(t)' \in active_ids'
        <3>1. CASE t = s
            BY <3>1, <1>2, <1>6, <1>7
        <3>2. CASE t # s
            BY <3>2, <1>3, <1>6, <1>7 DEF TasksApart
        <3> QED BY <3>1, <3>2
    <2>2. ASSUME NEW t \in Slot \ {s}
          PROVE  ItemOf(t)' # i
        BY <1>2, <1>3, <1>6, QueueAssumption DEF TasksApart
    <2>3. ASSUME NEW t \in Slot, NEW u \in Slot, t # u, ItemOf(t)' = ItemOf(u)'
          PROVE  At(t)' = "free"
        <3>1. t # s /\ u # s
            BY <2>2, <2>3, <1>6
        <3> QED BY <3>1, <2>3, <1>3, <1>6 DEF TasksApart
    <2> QED BY <2>1, <2>3 DEF TasksApart
<1>9. Recorded'
    <2>1. ASSUME NEW t \in Slot, At(t)' = "unqueue"
          PROVE  ItemOf(t)' \in Accounted'
        <3>1. t # s
            BY <2>1, <1>6
        <3> QED BY <3>1, <2>1, <1>3, <1>4, <1>6 DEF Recorded, Accounted
    <2> QED BY <2>1, <1>3, <1>4 DEF Recorded
<1>10. NothingLost'
    BY <1>3, <1>4 DEF NothingLost, Queued
<1> QED BY <1>4, <1>5, <1>8, <1>9, <1>10 DEF QueueInv

(* Freeing a slot: the exclusion that goes is that slot's own.              *)
LEMMA ReapKeeps ==
    ASSUME QueueInv, NEW s \in Slot, Reap(s)
    PROVE  QueueInv'
<1>1. TasksShaped /\ TasksApart /\ Recorded /\ NothingLost
    BY DEF QueueInv
<1>2. /\ UNCHANGED <<queue_items, history, dav_delete, accepted, withdrawn, unrecorded>>
      /\ active_ids \ {ItemOf(s)} \subseteq active_ids'
      /\ At(s) # "free"
    BY DEF Reap, tables, ghosts
<1>3. TasksShaped'
    BY <1>1 DEF TasksShaped, FreeTask, Reap
<1>4. /\ At(s)' = "free" /\ ItemOf(s)' = NoItem
      /\ \A t \in Slot \ {s} : At(t)' = At(t) /\ ItemOf(t)' = ItemOf(t)
    BY <1>1 DEF TasksShaped, FreeTask, Reap, At, ItemOf
<1>5. TasksApart'
    <2>1. ASSUME NEW t \in Slot
          PROVE  \/ At(t)' = "free" /\ ItemOf(t)' = NoItem
                 \/ At(t)' # "free" /\ ItemOf(t)' \in Item /\ ItemOf(t)' \in active_ids'
        <3>1. CASE t = s
            BY <3>1, <1>4
        <3>2. CASE t # s /\ At(t) = "free"
            BY <3>2, <1>1, <1>4 DEF TasksApart
        <3>3. CASE t # s /\ At(t) # "free"
            <4>1. ItemOf(t) # ItemOf(s) /\ ItemOf(t) \in Item /\ ItemOf(t) \in active_ids
                BY <3>3, <1>1 DEF TasksApart
            <4> QED BY <4>1, <3>3, <1>2, <1>4
        <3> QED BY <3>1, <3>2, <3>3
    <2>2. ASSUME NEW t \in Slot, NEW u \in Slot, t # u, ItemOf(t)' = ItemOf(u)'
          PROVE  At(t)' = "free"
        <3>1. CASE t = s
            BY <3>1, <1>4
        <3>2. CASE t # s /\ u = s
            <4>1. ItemOf(t) = NoItem
                BY <3>2, <2>2, <1>4
            <4> QED BY <4>1, <3>2, <1>1, <1>4, QueueAssumption DEF TasksApart
        <3>3. CASE t # s /\ u # s
            BY <3>3, <2>2, <1>1, <1>4 DEF TasksApart
        <3> QED BY <3>1, <3>2, <3>3
    <2> QED BY <2>1, <2>2 DEF TasksApart
<1>6. Recorded'
    <2>1. ASSUME NEW t \in Slot, At(t)' = "unqueue"
          PROVE  ItemOf(t)' \in Accounted'
        <3>1. t # s
            BY <2>1, <1>4
        <3> QED BY <3>1, <2>1, <1>1, <1>2, <1>4 DEF Recorded, Accounted
    <2> QED BY <2>1, <1>1, <1>2 DEF Recorded
<1>7. NothingLost'
    BY <1>1, <1>2 DEF NothingLost, Queued
<1> QED BY <1>2, <1>3, <1>5, <1>6, <1>7 DEF QueueInv

(* The steps of a pipeline: none of them touches what is accounted for.     *)
LEMMA PipelineKeeps ==
    ASSUME QueueInv, NEW s \in Slot,
           \/ LoadBlob(s) \/ Process(s) \/ LookUpDirectory(s) \/ LookUpParent(s)
           \/ CreateDirectory(s) \/ InsertFile(s) \/ PutSets(s) \/ Fault(s) \/ Panic(s)
    PROVE  QueueInv'
<1>1. TasksShaped
    BY DEF QueueInv
<1>2. /\ UNCHANGED <<queue_items, active_ids, dav_delete, accepted, withdrawn>>
      /\ Accounted \subseteq Accounted'
    BY DEF LoadBlob, Process, LookUpDirectory, LookUpParent, CreateDirectory, InsertFile,
           PutSets, Fault, Panic, tables, tree, ghosts, Accounted
<1>3. SUFFICES Moves(s) /\ At(s)' # "unqueue"
    BY <1>2, TaskStepKeeps
<1>4. At(s) # "free"
    BY DEF LoadBlob, Process, LookUpDirectory, LookUpParent, CreateDirectory, InsertFile,
           PutSets, Fault, Panic
<1>5. CASE LoadBlob(s)
    BY <1>1, <1>4, <1>5, GotoMoves, FailedMoves DEF LoadBlob
<1>6. CASE Process(s)
    BY <1>1, <1>4, <1>6, GotoMoves, FailedMoves DEF Process
<1>7. CASE LookUpDirectory(s)
    BY <1>1, <1>4, <1>7, GotoMoves, EnterMoves DEF LookUpDirectory
<1>8. CASE LookUpParent(s)
    <2>1. CASE Failed(s)
        BY <2>1, <1>1, <1>4, FailedMoves
    <2>2. CASE ~Failed(s)
        <3>1. PICK d : tasks' = [tasks EXCEPT ![s].at = "create", ![s].dir = d]
            BY <1>8, <2>2 DEF LookUpParent
        <3> QED BY <3>1, <1>1, <1>4 DEF TasksShaped, Moves, At, ItemOf
    <2> QED BY <2>1, <2>2
<1>9. CASE CreateDirectory(s)
    <2>1. Enter(s, CHOOSE n \in Unused : TRUE) \/ Failed(s)
        BY <1>9 DEF CreateDirectory
    <2> QED BY <2>1, <1>1, <1>4, EnterMoves, FailedMoves
<1>10. CASE InsertFile(s)
    <2>1. CASE Failed(s)
        BY <2>1, <1>1, <1>4, FailedMoves
    <2>2. CASE ~Failed(s)
        <3>1. tasks' = [tasks EXCEPT ![s].done = @ + 1,
                  ![s].at = IF tasks[s].done + 1 = FileCount THEN "sets" ELSE @]
            BY <1>10, <2>2 DEF InsertFile
        <3>2. At(s) = "file"
            BY <1>10 DEF InsertFile
        <3> QED BY <3>1, <3>2, <1>1 DEF TasksShaped, Moves, At, ItemOf
    <2> QED BY <2>1, <2>2
<1>11. CASE PutSets(s)
    BY <1>1, <1>4, <1>11, ImportedMoves DEF PutSets
<1>12. CASE Fault(s)
    BY <1>1, <1>4, <1>12, GotoMoves, FailedMoves, ImportedMoves DEF Fault
<1>13. CASE Panic(s)
    BY <1>1, <1>4, <1>13, GotoMoves DEF Panic
<1> QED BY <1>5, <1>6, <1>7, <1>8, <1>9, <1>10, <1>11, <1>12, <1>13

(* move_to_history: written or known to be unwritten before the row goes.   *)
LEMMA InsertHistoryKeeps ==
    ASSUME QueueInv, NEW s \in Slot, InsertHistory(s) \/ InsertHistoryFails(s)
    PROVE  QueueInv'
<1>1. TasksShaped
    BY DEF QueueInv
<1>2. /\ UNCHANGED <<queue_items, active_ids, dav_delete, accepted, withdrawn>>
      /\ At(s) # "free"
    BY DEF InsertHistory, InsertHistoryFails, tables, ghosts
<1>3. Moves(s)
    BY <1>1, <1>2, GotoMoves DEF InsertHistory, InsertHistoryFails
<1>4. Accounted \subseteq Accounted' /\ ItemOf(s) \in Accounted'
    <2>1. CASE InsertHistory(s)
        <3>1. DOMAIN history' = DOMAIN history \union {ItemOf(s)}
            BY <2>1 DEF InsertHistory
        <3>2. UNCHANGED <<withdrawn, unrecorded>>
            BY <2>1 DEF InsertHistory, ghosts
        <3> QED BY <3>1, <3>2 DEF Accounted
    <2>2. CASE InsertHistoryFails(s)
        <3>1. UNCHANGED <<history, withdrawn>>
            BY <2>2 DEF InsertHistoryFails, tables
        <3>2. unrecorded' = IF ItemOf(s) \in DOMAIN history THEN unrecorded
                            ELSE unrecorded \union {ItemOf(s)}
            BY <2>2 DEF InsertHistoryFails
        <3> QED BY <3>1, <3>2 DEF Accounted
    <2> QED BY <2>1, <2>2
<1> QED BY <1>2, <1>3, <1>4, TaskStepKeeps

(* The row that goes is of an item that is accounted for.                   *)
LEMMA DeleteFromQueueKeeps ==
    ASSUME QueueInv, NEW s \in Slot, DeleteFromQueue(s)
    PROVE  QueueInv'
<1>1. /\ queue_items \in Seq(Item) /\ TasksShaped /\ TasksApart /\ Recorded /\ NothingLost
      /\ At(s) = "unqueue"
    BY DEF QueueInv, DeleteFromQueue
<1>2. UNCHANGED <<history, active_ids, dav_delete, accepted, withdrawn, unrecorded>>
    BY DEF DeleteFromQueue, ghosts
<1>3. Goto(s, "done")
    BY DEF DeleteFromQueue
<1>4. TasksShaped' /\ TasksApart' /\ Recorded'
    <2>1. Moves(s) /\ At(s)' = "done"
        BY <1>1, <1>3, GotoMoves
    <2>2. /\ TasksShaped' /\ ItemOf(s)' = ItemOf(s)
          /\ \A t \in Slot \ {s} : At(t)' = At(t) /\ ItemOf(t)' = ItemOf(t)
        BY <2>1 DEF Moves, At, ItemOf
    <2>3. TasksApart'
        <3>1. ASSUME NEW t \in Slot
              PROVE  \/ At(t)' = "free" /\ ItemOf(t)' = NoItem
                     \/ At(t)' # "free" /\ ItemOf(t)' \in Item /\ ItemOf(t)' \in active_ids'
            BY <1>1, <1>2, <2>1, <2>2 DEF TasksApart
        <3>2. ASSUME NEW t \in Slot, NEW u \in Slot, t # u, ItemOf(t)' = ItemOf(u)'
              PROVE  At(t)' = "free"
            <4>1. ItemOf(t) = ItemOf(u)
                BY <2>2, <3>2
            <4>2. At(t) = "free" /\ At(u) = "free"
                BY <4>1, <1>1, <3>2 DEF TasksApart
            <4> QED BY <4>2, <1>1, <2>2
        <3> QED BY <3>1, <3>2 DEF TasksApart
    <2>4. Recorded'
        <3>1. ASSUME NEW t \in Slot, At(t)' = "unqueue"
              PROVE  ItemOf(t)' \in Accounted'
            <4>1. t # s
                BY <3>1, <2>1
            <4> QED BY <4>1, <3>1, <1>1, <1>2, <2>2 DEF Recorded, Accounted
        <3> QED BY <3>1, <1>1, <1>2 DEF Recorded
    <2> QED BY <2>2, <2>3, <2>4
<1>5. queue_items' \in Seq(Item) /\ NothingLost'
    <2>1. CASE queue_items' = Without(ItemOf(s))
        <3>1. queue_items' \in Seq(Item) /\ Queued \ {ItemOf(s)} \subseteq ToSet(queue_items')
            BY <2>1, <1>1, WithoutKeepsOthers
        <3>2. ItemOf(s) \in DOMAIN history \union withdrawn \union unrecorded
            BY <1>1 DEF Recorded, Accounted
        <3> QED BY <3>1, <3>2, <1>1, <1>2 DEF NothingLost, Queued
    <2>2. CASE UNCHANGED queue_items
        BY <2>2, <1>1, <1>2 DEF NothingLost, Queued
    <2> QED BY <2>1, <2>2 DEF DeleteFromQueue
<1> QED BY <1>4, <1>5 DEF QueueInv

(* Requests add rows, or take them for the user.                            *)
LEMMA RequestsKeep ==
    ASSUME QueueInv, NEW i,
           \/ /\ i \in Item
              /\ \/ Enqueue(i) \/ DeleteQueued(i) \/ DavDeleteBlob(i) \/ DeleteHistory(i)
                 \/ \E new \in Item : Retry(i, new)
           \/ DavDeleteRow \/ ClearHistory
    PROVE  QueueInv'
<1>1. queue_items \in Seq(Item) /\ Recorded /\ NothingLost
    BY DEF QueueInv
<1>2. UNCHANGED <<tasks, active_ids>>
    BY DEF Enqueue, DeleteQueued, DavDeleteBlob, DavDeleteRow, DeleteHistory, ClearHistory, Retry
<1>3. SUFFICES /\ queue_items' \in Seq(Item) /\ Accounted \subseteq Accounted'
               /\ dav_delete' # NoItem => dav_delete' \in withdrawn'
               /\ NothingLost'
    BY <1>2, RequestKeeps
<1>4. CASE i \in Item /\ Enqueue(i)
    <2>1. UNCHANGED <<history, dav_delete, withdrawn, unrecorded>>
        BY <1>4 DEF Enqueue
    <2>2. \/ queue_items' = Append(queue_items, i) /\ accepted' = accepted \union {i}
          \/ UNCHANGED <<queue_items, accepted>>
        BY <1>4 DEF Enqueue
    <2>3. queue_items' \in Seq(Item) /\ accepted' \ accepted \subseteq ToSet(queue_items')
          /\ Queued \subseteq ToSet(queue_items')
        <3>1. CASE UNCHANGED <<queue_items, accepted>>
            BY <3>1, <1>1 DEF Queued
        <3>2. CASE queue_items' = Append(queue_items, i) /\ accepted' = accepted \union {i}
            <4>1. queue_items' \in Seq(Item) /\ ToSet(queue_items') = Queued \union {i}
                BY <3>2, <1>1, <1>4, AppendKeepsOthers
            <4> QED BY <3>2, <4>1
        <3> QED BY <2>2, <3>1, <3>2
    <2> QED BY <2>1, <2>3, <1>1 DEF NothingLost, Accounted, Recorded, Queued
<1>5. CASE DeleteQueued(i)
    <2>1. /\ UNCHANGED <<history, dav_delete, accepted, unrecorded>>
          /\ withdrawn' = withdrawn \union {i}
          /\ queue_items' = Without(i)
        BY <1>5 DEF DeleteQueued
    <2>2. queue_items' \in Seq(Item) /\ Queued \ {i} \subseteq ToSet(queue_items')
        BY <2>1, <1>1, WithoutKeepsOthers
    <2> QED BY <2>1, <2>2, <1>1 DEF NothingLost, Accounted, Recorded, Queued
<1>6. CASE DavDeleteBlob(i)
    <2>1. /\ UNCHANGED <<queue_items, history, accepted, unrecorded>>
          /\ withdrawn' = withdrawn \union {i} /\ dav_delete' = i
        BY <1>6 DEF DavDeleteBlob
    <2> QED BY <2>1, <1>1 DEF NothingLost, Accounted, Recorded, Queued
<1>7. CASE DavDeleteRow
    <2>1. /\ UNCHANGED <<history, accepted, withdrawn, unrecorded>>
          /\ dav_delete # NoItem /\ dav_delete' = NoItem
          /\ queue_items' = Without(dav_delete)
        BY <1>7 DEF DavDeleteRow, ghosts
    <2>2. queue_items' \in Seq(Item) /\ Queued \ {dav_delete} \subseteq ToSet(queue_items')
        BY <2>1, <1>1, WithoutKeepsOthers
    <2>3. dav_delete \in withdrawn
        BY <2>1, <1>1 DEF Recorded
    <2> QED BY <2>1, <2>2, <2>3, <1>1 DEF NothingLost, Accounted, Queued
<1>8. CASE DeleteHistory(i)
    <2>1. /\ UNCHANGED <<queue_items, dav_delete, accepted, unrecorded>>
          /\ withdrawn' = withdrawn \union {i}
          /\ DOMAIN history' = DOMAIN history \ {i}
        BY <1>8 DEF DeleteHistory, Drop
    <2> QED BY <2>1, <1>1 DEF NothingLost, Accounted, Recorded, Queued
<1>9. CASE ClearHistory
    <2>1. /\ UNCHANGED <<queue_items, dav_delete, accepted, unrecorded>>
          /\ withdrawn' = withdrawn \union DOMAIN history
        BY <1>9 DEF ClearHistory
    <2> QED BY <2>1, <1>1 DEF NothingLost, Accounted, Recorded, Queued
<1>10. CASE \E new \in Item : Retry(i, new)
    <2>1. PICK new \in Item : Retry(i, new)
        BY <1>10
    <2>2. /\ UNCHANGED <<dav_delete, unrecorded>>
          /\ queue_items' = Append(queue_items, new)
          /\ accepted' = accepted \union {new}
        BY <2>1 DEF Retry
    <2>3. /\ withdrawn \subseteq withdrawn'
          /\ DOMAIN history \union withdrawn \subseteq DOMAIN history' \union withdrawn'
        <3>1. CASE UNCHANGED <<history, withdrawn>>
            BY <3>1
        <3>2. CASE history' = Drop(history, {i}) /\ withdrawn' = withdrawn \union {i}
            BY <3>2 DEF Drop
        <3> QED BY <3>1, <3>2, <2>1 DEF Retry
    <2>4. queue_items' \in Seq(Item) /\ ToSet(queue_items') = Queued \union {new}
        BY <2>2, <1>1, AppendKeepsOthers
    <2> QED BY <2>2, <2>3, <2>4, <1>1 DEF NothingLost, Accounted, Recorded, Queued
<1> QED BY <1>4, <1>5, <1>6, <1>7, <1>8, <1>9, <1>10

(* A new process has no task, and every table of the old one.               *)
LEMMA CrashKeeps ==
    ASSUME QueueInv, Crash
    PROVE  QueueInv'
<1>1. /\ UNCHANGED <<queue_items, history, accepted, withdrawn, unrecorded>>
      /\ tasks' = [s \in Slot |-> FreeTask] /\ dav_delete' = NoItem
    BY DEF Crash, tables
<1>2. \A s \in Slot : At(s)' = "free" /\ ItemOf(s)' = NoItem
    BY <1>1 DEF At, ItemOf, FreeTask
<1>3. TasksShaped'
    BY <1>1 DEF TasksShaped, FreeTask
<1>4. TasksApart' /\ Recorded'
    BY <1>1, <1>2 DEF TasksApart, Recorded
<1> QED BY <1>1, <1>3, <1>4 DEF QueueInv, NothingLost, Queued

-----------------------------------------------------------------------------
(* Together: the invariant holds.                                           *)

(* An empty database, and no task.                                         *)
LEMMA InitQueueInv == QueueInit => QueueInv
<1>1. SUFFICES ASSUME QueueInit
               PROVE  QueueInv
    OBVIOUS
<1>2. tasks = [s \in Slot |-> FreeTask] /\ dav_delete = NoItem /\ accepted = {}
      /\ queue_items = <<>>
    BY <1>1 DEF QueueInit
<1>3. \A s \in Slot : At(s) = "free" /\ ItemOf(s) = NoItem
    BY <1>2 DEF At, ItemOf, FreeTask
<1>4. TasksShaped
    BY <1>2 DEF TasksShaped, FreeTask
<1>5. TasksApart /\ Recorded
    BY <1>2, <1>3 DEF TasksApart, Recorded
<1> QED BY <1>2, <1>4, <1>5 DEF QueueInv, NothingLost

(* Every step keeps the invariant.                                          *)
LEMMA NextQueueInv == QueueInv /\ [QueueNext]_queueVars => QueueInv'
<1>1. SUFFICES ASSUME QueueInv, [QueueNext]_queueVars
               PROVE  QueueInv'
    OBVIOUS
<1>2. CASE \E s \in Slot : StartItem(s) \/ Reap(s) \/ Step(s) \/ Fault(s) \/ Panic(s)
                            \/ InsertHistoryFails(s)
    <2>1. PICK s \in Slot : StartItem(s) \/ Reap(s) \/ Step(s) \/ Fault(s) \/ Panic(s)
                            \/ InsertHistoryFails(s)
        BY <1>2
    <2> QED BY <1>1, <2>1, StartItemKeeps, ReapKeeps, PipelineKeeps, InsertHistoryKeeps,
               DeleteFromQueueKeeps DEF Step
<1>3. CASE \E i \in Item : \/ Enqueue(i) \/ DeleteQueued(i) \/ DavDeleteBlob(i)
                            \/ DeleteHistory(i) \/ \E new \in Item : Retry(i, new)
    BY <1>1, <1>3, RequestsKeep
<1>4. CASE DavDeleteRow \/ ClearHistory
    BY <1>1, <1>4, RequestsKeep
<1>5. CASE Crash
    BY <1>1, <1>5, CrashKeeps
<1>6. CASE UNCHANGED queueVars
    BY <1>1, <1>6 DEF queueVars, tables, ghosts, QueueInv, TasksShaped, TasksApart, Recorded,
        NothingLost, Accounted, Queued, At, ItemOf
<1> QED BY <1>1, <1>2, <1>3, <1>4, <1>5, <1>6 DEF QueueNext

-----------------------------------------------------------------------------
(* What a completed item's directory holds.                                 *)

(* Directory d has the first k files of an import, unless another import    *)
(* replaced it: now, and after the step.                                    *)
Has(d, k, live, gone, content) == d \in gone \/ (d \in live /\ 1..k \subseteq content[d])
Held(d, k) == Has(d, k, Live, replaced, files)
HeldThen(d, k) == Has(d, k, Live', replaced', files')

(* The stages before a task's directory is there.                           *)
Before == {"load", "process", "look", "parent", "create"}

(* The directory a task writes to holds what it wrote; a task that goes     *)
(* into the history as completed wrote every file.                          *)
HoldsFiles(s) ==
    /\ At(s) \in Before =>
           tasks[s].done = 0 /\ tasks[s].level \in 1..Len(PathOf[ItemOf(s)])
    /\ At(s) = "file" =>
           tasks[s].done \in 0..(FileCount - 1) /\ Held(tasks[s].dir, tasks[s].done)
    /\ At(s) = "sets" => Held(tasks[s].dir, FileCount)
    /\ At(s) = "record" /\ tasks[s].status = "Completed" => Held(tasks[s].dir, FileCount)

HistoryHolds ==
    \A i \in DOMAIN history :
        history[i].status = "Completed" => Held(history[i].dir, FileCount)

(* Directories and their files.                                             *)
TreeTypes ==
    /\ files \in [Node -> SUBSET File]
    /\ \A p \in DOMAIN dirs : dirs[p] \in Node

(* The inductive invariant: what a task has imported, and what the history  *)
(* says it has, is there or was replaced.                                   *)
ImportInv ==
    /\ QueueInv /\ TreeTypes /\ HistoryHolds
    /\ \A s \in Slot : HoldsFiles(s)

(* A directory stays with its files, or is replaced.                        *)
TreeKept ==
    /\ replaced \subseteq replaced'
    /\ \A d \in Live : d \in replaced' \/ (d \in Live' /\ files[d] \subseteq files'[d])

(* Then it holds what it held.                                              *)
LEMMA HeldKept ==
    ASSUME TreeKept, NEW d, NEW k, Held(d, k)
    PROVE  HeldThen(d, k)
BY DEF TreeKept, Held, HeldThen, Has

(* A step that leaves the tree alone keeps it.                              *)
LEMMA TreeAlone ==
    ASSUME UNCHANGED <<dirs, files, replaced>>
    PROVE  TreeKept
BY DEF TreeKept, Live

(* A slot whose task does not move keeps what is known of it.               *)
LEMMA OthersHold ==
    ASSUME TreeKept, NEW t \in Slot, HoldsFiles(t), tasks'[t] = tasks[t]
    PROVE  HoldsFiles(t)'
<1>1. At(t)' = At(t) /\ ItemOf(t)' = ItemOf(t)
    BY DEF At, ItemOf
<1>2. \A k : Held(tasks[t].dir, k) => HeldThen(tasks'[t].dir, k)
    BY HeldKept
<1> QED BY <1>1, <1>2 DEF HoldsFiles, Held, HeldThen

(* A step of one task keeps the invariant if it keeps the tree, or lets go  *)
(* of what it replaces, and what is known of that task.                     *)
LEMMA ImportStepKeeps ==
    ASSUME ImportInv, QueueInv', NEW s \in Slot,
           TreeKept, TreeTypes', HoldsFiles(s)', HistoryHolds',
           \A t \in Slot \ {s} : tasks'[t] = tasks[t]
    PROVE  ImportInv'
BY OthersHold DEF ImportInv

(* The history holds what it held when nothing is added to it.              *)
LEMMA HistoryKept ==
    ASSUME TreeKept, HistoryHolds,
           \A i \in DOMAIN history' : i \in DOMAIN history /\ history'[i] = history[i]
    PROVE  HistoryHolds'
<1>1. ASSUME NEW i \in DOMAIN history', history'[i].status = "Completed"
      PROVE  HeldThen(history'[i].dir, FileCount)
    <2>1. i \in DOMAIN history /\ history'[i] = history[i] /\ Held(history[i].dir, FileCount)
        BY <1>1 DEF HistoryHolds
    <2> QED BY <2>1, HeldKept
<1> QED BY <1>1 DEF HistoryHolds, Held, HeldThen

(* Entering a directory that is there: the last of the path is written to.  *)
LEMMA EnterHolds ==
    ASSUME TasksShaped, NEW s \in Slot, NEW id, Enter(s, id), id \in Live',
           tasks[s].done = 0, ItemOf(s) \in Item,
           tasks[s].level \in 1..Len(PathOf[ItemOf(s)])
    PROVE  HoldsFiles(s)'
<1> DEFINE last == Len(PathOf[ItemOf(s)])
           t == tasks[s]
<1>1. last \in Nat /\ t.level \in Nat /\ t.level <= last /\ FileCount \in Nat \ {0}
    <2>1. last \in 1..2
        BY QueueAssumption
    <2> QED BY <2>1, QueueAssumption
<1>2. /\ DOMAIN tasks = Slot
      /\ tasks' = [tasks EXCEPT ![s] =
             IF t.level = last THEN [t EXCEPT !.at = "file", !.dir = id]
             ELSE [t EXCEPT !.at = "look", !.level = t.level + 1]]
    BY DEF TasksShaped, Enter, ItemOf
<1>3. DOMAIN t = {"item", "at", "level", "dir", "done", "status"}
    BY DEF TasksShaped
<1>4. CASE t.level = last
    <2>1. tasks'[s] = [t EXCEPT !.at = "file", !.dir = id]
        BY <1>2, <1>4
    <2>2. tasks'[s].at = "file" /\ tasks'[s].dir = id /\ tasks'[s].done = 0
        BY <2>1, <1>3
    <2>3. HeldThen(id, 0)
        BY DEF HeldThen, Has
    <2> QED BY <2>2, <2>3, <1>1 DEF HoldsFiles, At, Before, Held, HeldThen
<1>5. CASE t.level # last
    <2>1. tasks'[s] = [t EXCEPT !.at = "look", !.level = t.level + 1]
        BY <1>2, <1>5
    <2>2. /\ tasks'[s].at = "look" /\ tasks'[s].level = t.level + 1 /\ tasks'[s].done = 0
          /\ tasks'[s].item = t.item
        BY <2>1, <1>3
    <2>3. t.level + 1 \in 1..last
        BY <1>1, <1>5
    <2> QED BY <2>2, <2>3 DEF HoldsFiles, At, ItemOf, Before
<1> QED BY <1>4, <1>5

(* The stages that write nothing: loading, looking up, and the ways to fail.*)
LEMMA ReadingStepsHold ==
    ASSUME ImportInv, QueueInv', NEW s \in Slot,
           LoadBlob(s) \/ Process(s) \/ LookUpDirectory(s) \/ LookUpParent(s)
           \/ Fault(s) \/ Panic(s) \/ DeleteFromQueue(s) \/ InsertHistoryFails(s)
    PROVE  ImportInv'
<1>1. /\ QueueInv /\ TasksShaped /\ TreeTypes /\ HistoryHolds /\ HoldsFiles(s)
    BY DEF ImportInv, QueueInv
<1>2. UNCHANGED <<dirs, files, replaced, history>>
    BY DEF LoadBlob, Process, LookUpDirectory, LookUpParent, Fault, Panic, DeleteFromQueue,
           InsertHistoryFails, tables, tree, ghosts
<1>3. TreeKept /\ HistoryHolds' /\ TreeTypes'
    BY <1>1, <1>2, TreeAlone, HistoryKept DEF TreeTypes
<1>4. At(s) # "free"
    BY DEF LoadBlob, Process, LookUpDirectory, LookUpParent, Fault, Panic, DeleteFromQueue,
           InsertHistoryFails
<1>5. /\ DOMAIN tasks = Slot
      /\ DOMAIN tasks[s] = {"item", "at", "level", "dir", "done", "status"}
    BY <1>1 DEF TasksShaped
<1>6. ASSUME NEW at, Goto(s, at), At(s) \in Before \/ at \notin Before,
             at \notin {"file", "sets", "record"}
      PROVE  HoldsFiles(s)'
    <2>1. /\ tasks'[s].at = at /\ tasks'[s].level = tasks[s].level
          /\ tasks'[s].done = tasks[s].done /\ tasks'[s].item = tasks[s].item
        BY <1>5, <1>6 DEF Goto
    <2> QED BY <2>1, <1>1, <1>6 DEF HoldsFiles, At, ItemOf, Before
<1>7. ASSUME Failed(s)
      PROVE  HoldsFiles(s)'
    <2>1. tasks'[s].at = "record" /\ tasks'[s].status = "Failed"
        BY <1>5, <1>7 DEF Failed
    <2> QED BY <2>1 DEF HoldsFiles, At, Before
<1>8. ASSUME Imported(s), At(s) = "sets"
      PROVE  HoldsFiles(s)'
    <2>1. tasks'[s].at = "record" /\ tasks'[s].dir = tasks[s].dir
        BY <1>5, <1>8 DEF Imported
    <2>2. Held(tasks[s].dir, FileCount)
        BY <1>1, <1>8 DEF HoldsFiles
    <2>3. HeldThen(tasks[s].dir, FileCount)
        BY <2>2, <1>3, HeldKept
    <2> QED BY <2>1, <2>3 DEF HoldsFiles, At, Before, Held, HeldThen
<1>9. HoldsFiles(s)' /\ \A t \in Slot \ {s} : tasks'[t] = tasks[t]
    <2>1. CASE LoadBlob(s)
        BY <2>1, <1>1, <1>4, <1>6, <1>7, GotoMoves, FailedMoves DEF LoadBlob, Before, Moves
    <2>2. CASE Process(s)
        BY <2>2, <1>1, <1>4, <1>6, <1>7, GotoMoves, FailedMoves DEF Process, Before, Moves
    <2>3. CASE LookUpDirectory(s)
        <3>1. CASE Here(s) \in DOMAIN dirs
            <4>1. /\ At(s) = "look" /\ Enter(s, dirs[Here(s)])
                BY <2>3, <3>1 DEF LookUpDirectory
            <4>2. dirs[Here(s)] \in Live'
                BY <3>1, <1>2 DEF Live
            <4>3. tasks[s].done = 0 /\ tasks[s].level \in 1..Len(PathOf[ItemOf(s)])
                BY <4>1, <1>1 DEF HoldsFiles, Before
            <4>4. ItemOf(s) \in Item
                BY <1>1, <1>4 DEF QueueInv, TasksApart
            <4> QED BY <4>1, <4>2, <4>3, <4>4, <1>1, <1>4, EnterHolds, EnterMoves DEF Moves
        <3>2. CASE Here(s) \notin DOMAIN dirs
            BY <2>3, <3>2, <1>1, <1>4, <1>6, GotoMoves DEF LookUpDirectory, Before, Moves
        <3> QED BY <3>1, <3>2
    <2>4. CASE LookUpParent(s)
        <3>1. CASE Failed(s)
            BY <3>1, <1>1, <1>4, <1>7, FailedMoves DEF Moves
        <3>2. CASE ~Failed(s)
            <4>1. PICK d : tasks' = [tasks EXCEPT ![s].at = "create", ![s].dir = d]
                BY <2>4, <3>2 DEF LookUpParent
            <4>2. /\ tasks'[s].at = "create" /\ tasks'[s].level = tasks[s].level
                  /\ tasks'[s].done = tasks[s].done /\ tasks'[s].item = tasks[s].item
                  /\ \A t \in Slot \ {s} : tasks'[t] = tasks[t]
                BY <4>1, <1>5
            <4>3. At(s) = "parent"
                BY <2>4 DEF LookUpParent
            <4> QED BY <4>2, <4>3, <1>1 DEF HoldsFiles, At, ItemOf, Before
        <3> QED BY <3>1, <3>2
    <2>5. CASE Fault(s)
        BY <2>5, <1>1, <1>4, <1>6, <1>7, <1>8, GotoMoves, FailedMoves, ImportedMoves
           DEF Fault, Before, Moves
    <2>6. CASE Panic(s)
        BY <2>6, <1>1, <1>4, <1>6, GotoMoves DEF Panic, Before, Moves
    <2>7. CASE DeleteFromQueue(s)
        BY <2>7, <1>1, <1>4, <1>6, GotoMoves DEF DeleteFromQueue, Before, Moves
    <2>8. CASE InsertHistoryFails(s)
        BY <2>8, <1>1, <1>4, <1>6, GotoMoves DEF InsertHistoryFails, Before, Moves
    <2> QED BY <2>1, <2>2, <2>3, <2>4, <2>5, <2>6, <2>7, <2>8
<1> QED BY <1>3, <1>9, ImportStepKeeps

(* A directory is replaced with all below it, and what was there is known   *)
(* as replaced; the new one is there.                                       *)
LEMMA CreateDirectoryHolds ==
    ASSUME ImportInv, QueueInv', NEW s \in Slot, CreateDirectory(s)
    PROVE  ImportInv'
<1> DEFINE gone == {p \in DOMAIN dirs : IsPrefix(Here(s), p)}
           lost == {dirs[p] : p \in gone}
           new == CHOOSE n \in Unused : TRUE
<1>1. /\ QueueInv /\ TasksShaped /\ TreeTypes /\ HistoryHolds /\ HoldsFiles(s)
    BY DEF ImportInv, QueueInv
<1>2. At(s) = "create" /\ new \in Node /\ UNCHANGED history
    BY DEF CreateDirectory, Unused
<1>3. tasks[s].done = 0 /\ tasks[s].level \in 1..Len(PathOf[ItemOf(s)]) /\ ItemOf(s) \in Item
    BY <1>1, <1>2 DEF HoldsFiles, Before, QueueInv, TasksApart
<1>4. Len(Here(s)) \in Nat
    <2> DEFINE q == PathOf[ItemOf(s)]
               k == tasks[s].level
    <2>1. q \in Seq(STRING) /\ Len(q) \in Nat /\ k \in Nat /\ k <= Len(q)
        BY <1>3, QueueAssumption
    <2>2. \A j \in 1..k : q[j] \in STRING
        BY <2>1
    <2>3. SubSeq(q, 1, k) \in Seq(STRING)
        BY <2>1, <2>2, SubSeqProperties
    <2> QED BY <2>3, LenProperties DEF Here
<1>5. CASE tasks[s].dir \in Live \union {Root}
    <2>1. /\ dirs' = [p \in (DOMAIN dirs \ gone) \union {Here(s)} |->
                          IF p = Here(s) THEN new ELSE dirs[p]]
          /\ files' = [n \in Node |-> IF n \in lost THEN {} ELSE files[n]]
          /\ replaced' = replaced \union lost
          /\ Enter(s, new)
        BY <1>5 DEF CreateDirectory
    <2>2. Here(s) \in DOMAIN dirs => Here(s) \in gone
        BY <1>4 DEF IsPrefix
    <2>3. TreeTypes'
        BY <1>1, <1>2, <2>1 DEF TreeTypes
    <2>4. TreeKept
        <3>1. ASSUME NEW d \in Live, d \notin lost
              PROVE  d \in Live' /\ files[d] \subseteq files'[d]
            <4>1. PICK p \in DOMAIN dirs : d = dirs[p]
                BY DEF Live
            <4>2. p \notin gone /\ p # Here(s)
                BY <4>1, <3>1, <2>2
            <4>3. p \in DOMAIN dirs' /\ dirs'[p] = d
                BY <4>1, <4>2, <2>1
            <4>4. d \in Node
                BY <4>1, <1>1 DEF TreeTypes
            <4> QED BY <4>3, <4>4, <2>1, <3>1 DEF Live
        <3> QED BY <3>1, <2>1 DEF TreeKept
    <2>5. new \in Live'
        <3>1. Here(s) \in DOMAIN dirs' /\ dirs'[Here(s)] = new
            BY <2>1
        <3> QED BY <3>1 DEF Live
    <2> HIDE DEF new, lost, gone
    <2>6. HoldsFiles(s)' /\ \A t \in Slot \ {s} : tasks'[t] = tasks[t]
        BY <1>1, <1>2, <1>3, <2>1, <2>5, EnterHolds, EnterMoves DEF Moves
    <2>7. HistoryHolds'
        BY <1>1, <1>2, <2>4, HistoryKept
    <2> QED BY <2>3, <2>4, <2>6, <2>7, ImportStepKeeps
<1>6. CASE ~(tasks[s].dir \in Live \union {Root})
    <2>1. Failed(s) /\ UNCHANGED <<dirs, files, replaced>>
        BY <1>6 DEF CreateDirectory, tree
    <2>2. TreeKept /\ HistoryHolds' /\ TreeTypes'
        BY <1>1, <1>2, <2>1, TreeAlone, HistoryKept DEF TreeTypes
    <2>3. tasks'[s].at = "record" /\ tasks'[s].status = "Failed"
        BY <1>1, <2>1 DEF Failed, TasksShaped
    <2>4. HoldsFiles(s)' /\ \A t \in Slot \ {s} : tasks'[t] = tasks[t]
        BY <1>1, <1>2, <2>1, <2>3, FailedMoves DEF Moves, HoldsFiles, At, Before
    <2> QED BY <2>2, <2>4, ImportStepKeeps
<1> QED BY <1>5, <1>6

(* A file more is there, or the directory was deleted and the import fails. *)
LEMMA InsertFileHolds ==
    ASSUME ImportInv, QueueInv', NEW s \in Slot, InsertFile(s)
    PROVE  ImportInv'
<1> DEFINE d == tasks[s].dir
           k == tasks[s].done
<1>1. /\ QueueInv /\ TasksShaped /\ TreeTypes /\ HistoryHolds /\ HoldsFiles(s)
    BY DEF ImportInv, QueueInv
<1>2. At(s) = "file" /\ UNCHANGED <<dirs, history, replaced>>
    BY DEF InsertFile, ghosts
<1>3. k \in 0..(FileCount - 1) /\ Held(d, k) /\ FileCount \in Nat \ {0}
    BY <1>1, <1>2, QueueAssumption DEF HoldsFiles, Before
<1>4. CASE d \in Live
    <2>1. /\ files' = [files EXCEPT ![d] = files[d] \union {k + 1}]
          /\ tasks' = [tasks EXCEPT ![s].done = k + 1,
                 ![s].at = IF k + 1 = FileCount THEN "sets" ELSE tasks[s].at]
        BY <1>4 DEF InsertFile
    <2>2. d \in Node /\ k + 1 \in File
        BY <1>1, <1>3, <1>4 DEF TreeTypes, Live, File
    <2>3. TreeTypes' /\ TreeKept
        BY <1>1, <1>2, <2>1, <2>2 DEF TreeTypes, TreeKept, Live
    <2>4. HeldThen(d, k + 1)
        <3>1. d \in Live' /\ files'[d] = files[d] \union {k + 1}
            BY <1>1, <1>2, <1>4, <2>1, <2>2 DEF TreeTypes, Live
        <3>2. 1..(k + 1) = 1..k \union {k + 1}
            BY <1>3
        <3>3. d \in replaced \/ 1..k \subseteq files[d]
            BY <1>3 DEF Held, Has
        <3> HIDE DEF d, k
        <3> QED BY <1>2, <3>1, <3>2, <3>3 DEF HeldThen, Has
    <2>5. /\ tasks'[s].done = k + 1 /\ tasks'[s].dir = d
          /\ tasks'[s].at = IF k + 1 = FileCount THEN "sets" ELSE "file"
          /\ \A t \in Slot \ {s} : tasks'[t] = tasks[t]
        BY <1>1, <1>2, <2>1 DEF TasksShaped, At
    <2> HIDE DEF d, k
    <2>6. HoldsFiles(s)'
        <3>1. k + 1 # FileCount => k + 1 \in 0..(FileCount - 1)
            BY <1>3
        <3>2. k + 1 = FileCount => HeldThen(d, FileCount)
            BY <2>4
        <3> QED BY <2>4, <2>5, <3>1, <3>2 DEF HoldsFiles, At, Before, Held, HeldThen
    <2>7. HistoryHolds'
        BY <1>1, <1>2, <2>3, HistoryKept
    <2> QED BY <2>3, <2>5, <2>6, <2>7, ImportStepKeeps
<1>5. CASE d \notin Live
    <2>1. Failed(s) /\ UNCHANGED files
        BY <1>5 DEF InsertFile
    <2>2. TreeKept /\ HistoryHolds' /\ TreeTypes'
        BY <1>1, <1>2, <2>1, TreeAlone, HistoryKept DEF TreeTypes
    <2>3. tasks'[s].at = "record" /\ tasks'[s].status = "Failed"
        BY <1>1, <2>1 DEF Failed, TasksShaped
    <2>4. HoldsFiles(s)' /\ \A t \in Slot \ {s} : tasks'[t] = tasks[t]
        BY <1>1, <1>2, <2>1, <2>3, FailedMoves DEF Moves, HoldsFiles, At, Before
    <2> QED BY <2>2, <2>4, ImportStepKeeps
<1> QED BY <1>4, <1>5

(* The PAR2 sets come last, and whether they are written does not matter.   *)
LEMMA PutSetsHolds ==
    ASSUME ImportInv, QueueInv', NEW s \in Slot, PutSets(s)
    PROVE  ImportInv'
<1>1. /\ TasksShaped /\ TreeTypes /\ HistoryHolds /\ HoldsFiles(s)
    BY DEF ImportInv, QueueInv
<1>2. At(s) = "sets" /\ Imported(s) /\ UNCHANGED <<dirs, files, history, replaced>>
    BY DEF PutSets, ghosts
<1>3. TreeKept /\ HistoryHolds' /\ TreeTypes'
    BY <1>1, <1>2, TreeAlone, HistoryKept DEF TreeTypes
<1>4. tasks'[s].at = "record" /\ tasks'[s].dir = tasks[s].dir
    BY <1>1, <1>2 DEF Imported, TasksShaped
<1>5. HeldThen(tasks[s].dir, FileCount)
    BY <1>1, <1>2, <1>3, HeldKept DEF HoldsFiles, Before
<1>6. HoldsFiles(s)' /\ \A t \in Slot \ {s} : tasks'[t] = tasks[t]
    BY <1>1, <1>2, <1>4, <1>5, ImportedMoves DEF Moves, HoldsFiles, At, Before, Held, HeldThen
<1> QED BY <1>3, <1>6, ImportStepKeeps

(* What goes into the history is what the task wrote; a row that is there   *)
(* stays.                                                                   *)
LEMMA InsertHistoryHolds ==
    ASSUME ImportInv, QueueInv', NEW s \in Slot, InsertHistory(s)
    PROVE  ImportInv'
<1>1. /\ TasksShaped /\ TreeTypes /\ HistoryHolds /\ HoldsFiles(s)
    BY DEF ImportInv, QueueInv
<1>2. /\ At(s) = "record" /\ Goto(s, "unqueue") /\ UNCHANGED <<dirs, files, replaced>>
      /\ history' = [i \in DOMAIN history \union {ItemOf(s)} |->
             IF i \in DOMAIN history THEN history[i]
             ELSE [status |-> tasks[s].status, dir |-> tasks[s].dir]]
    BY DEF InsertHistory, tree, ghosts
<1>3. TreeKept /\ TreeTypes'
    BY <1>1, <1>2, TreeAlone DEF TreeTypes
<1>4. tasks'[s].at = "unqueue"
    BY <1>1, <1>2 DEF Goto, TasksShaped
<1>5. HoldsFiles(s)' /\ \A t \in Slot \ {s} : tasks'[t] = tasks[t]
    BY <1>1, <1>2, <1>4, GotoMoves DEF Moves, HoldsFiles, At, Before
<1>6. HistoryHolds'
    <2>1. ASSUME NEW i \in DOMAIN history', history'[i].status = "Completed"
          PROVE  Held(history'[i].dir, FileCount)
        <3>1. CASE i \in DOMAIN history
            BY <2>1, <3>1, <1>1, <1>2 DEF HistoryHolds
        <3>2. CASE i \notin DOMAIN history
            <4>1. history'[i] = [status |-> tasks[s].status, dir |-> tasks[s].dir]
                BY <2>1, <3>2, <1>2
            <4> QED BY <2>1, <4>1, <1>1, <1>2 DEF HoldsFiles
        <3> QED BY <3>1, <3>2
    <2> QED BY <2>1, <1>3, HeldKept DEF HistoryHolds, Held, HeldThen
<1> QED BY <1>3, <1>5, <1>6, ImportStepKeeps

(* A slot that is taken starts over, one that is freed has nothing to keep. *)
LEMMA SlotsHold ==
    ASSUME ImportInv, QueueInv', NEW s \in Slot, StartItem(s) \/ Reap(s)
    PROVE  ImportInv'
<1>1. /\ QueueInv /\ TasksShaped /\ TreeTypes /\ HistoryHolds
    BY DEF ImportInv, QueueInv
<1>2. UNCHANGED <<dirs, files, history, replaced>>
    BY DEF StartItem, Reap, tables, ghosts
<1>3. TreeKept /\ HistoryHolds' /\ TreeTypes'
    BY <1>1, <1>2, TreeAlone, HistoryKept DEF TreeTypes
<1>4. CASE StartItem(s)
    <2>1. PICK k \in DOMAIN queue_items :
              tasks' = [tasks EXCEPT ![s] =
                           [FreeTask EXCEPT !.item = queue_items[k], !.at = "load"]]
        BY <1>4 DEF StartItem
    <2>2. /\ tasks'[s].at = "load" /\ tasks'[s].done = 0 /\ tasks'[s].level = 1
          /\ tasks'[s].item = queue_items[k]
          /\ \A t \in Slot \ {s} : tasks'[t] = tasks[t]
        BY <2>1, <1>1 DEF TasksShaped, FreeTask
    <2>3. queue_items[k] \in Item /\ 1 \in 1..Len(PathOf[queue_items[k]])
        <3>1. queue_items[k] \in Item
            BY <1>1 DEF QueueInv
        <3>2. Len(PathOf[queue_items[k]]) \in 1..2
            BY <3>1, QueueAssumption
        <3>3. \A n \in 1..2 : 1 \in 1..n
            OBVIOUS
        <3> QED BY <3>1, <3>2, <3>3
    <2>4. HoldsFiles(s)'
        BY <2>2, <2>3 DEF HoldsFiles, At, ItemOf, Before
    <2> QED BY <1>3, <2>2, <2>4, ImportStepKeeps
<1>5. CASE Reap(s)
    <2>1. /\ tasks'[s].at = "free" /\ \A t \in Slot \ {s} : tasks'[t] = tasks[t]
        BY <1>5, <1>1 DEF Reap, TasksShaped, FreeTask
    <2>2. HoldsFiles(s)'
        BY <2>1 DEF HoldsFiles, At, Before
    <2> QED BY <1>3, <2>1, <2>2, ImportStepKeeps
<1> QED BY <1>4, <1>5

(* Requests only take rows out of the history.                              *)
LEMMA RequestsHold ==
    ASSUME ImportInv, QueueInv', NEW i,
           \/ Enqueue(i) \/ DeleteQueued(i) \/ DavDeleteBlob(i) \/ DeleteHistory(i)
           \/ \E new \in Item : Retry(i, new)
           \/ DavDeleteRow \/ ClearHistory
    PROVE  ImportInv'
<1>1. /\ TreeTypes /\ HistoryHolds /\ \A s \in Slot : HoldsFiles(s)
    BY DEF ImportInv
<1>2. UNCHANGED <<dirs, files, tasks, replaced>>
    BY DEF Enqueue, DeleteQueued, DavDeleteBlob, DavDeleteRow, DeleteHistory, ClearHistory, Retry,
           tree, ghosts
<1>3. \A j \in DOMAIN history' : j \in DOMAIN history /\ history'[j] = history[j]
    BY DEF Enqueue, DeleteQueued, DavDeleteBlob, DavDeleteRow, DeleteHistory, ClearHistory, Retry,
           Drop
<1>4. TreeKept /\ TreeTypes'
    BY <1>1, <1>2, TreeAlone DEF TreeTypes
<1> QED BY <1>1, <1>2, <1>3, <1>4, HistoryKept, OthersHold DEF ImportInv

(* A crash leaves the tables, and no task.                                  *)
LEMMA CrashHolds ==
    ASSUME ImportInv, QueueInv', Crash
    PROVE  ImportInv'
<1>1. TreeTypes /\ HistoryHolds
    BY DEF ImportInv
<1>2. UNCHANGED <<dirs, files, history, replaced>> /\ tasks' = [s \in Slot |-> FreeTask]
    BY DEF Crash, tables
<1>3. \A s \in Slot : HoldsFiles(s)'
    BY <1>2 DEF HoldsFiles, At, Before, FreeTask
<1>4. TreeTypes' /\ HistoryHolds'
    BY <1>1, <1>2, TreeAlone, HistoryKept DEF TreeTypes
<1> QED BY <1>3, <1>4 DEF ImportInv

(* Every step keeps the invariant.                                          *)
LEMMA NextImportInv ==
    ASSUME ImportInv, [QueueNext]_queueVars
    PROVE  ImportInv'
<1>1. QueueInv'
    BY NextQueueInv DEF ImportInv
<1>2. CASE \E s \in Slot : StartItem(s) \/ Reap(s) \/ Step(s) \/ Fault(s) \/ Panic(s)
                            \/ InsertHistoryFails(s)
    <2>1. PICK s \in Slot : StartItem(s) \/ Reap(s) \/ Step(s) \/ Fault(s) \/ Panic(s)
                            \/ InsertHistoryFails(s)
        BY <1>2
    <2> QED BY <1>1, <2>1, SlotsHold, ReadingStepsHold, CreateDirectoryHolds, InsertFileHolds,
               PutSetsHolds, InsertHistoryHolds DEF Step
<1>3. CASE \E i \in Item : \/ Enqueue(i) \/ DeleteQueued(i) \/ DavDeleteBlob(i)
                            \/ DeleteHistory(i) \/ \E new \in Item : Retry(i, new)
    BY <1>1, <1>3, RequestsHold
<1>4. CASE DavDeleteRow \/ ClearHistory
    BY <1>1, <1>4, RequestsHold
<1>5. CASE Crash
    BY <1>1, <1>5, CrashHolds
<1>6. CASE UNCHANGED queueVars
    <2>1. UNCHANGED <<dirs, files, history, replaced, tasks>>
        BY <1>6 DEF queueVars, tables, ghosts
    <2>2. TreeKept /\ TreeTypes' /\ HistoryHolds'
        BY <2>1, TreeAlone, HistoryKept DEF ImportInv, TreeTypes
    <2> QED BY <1>1, <2>1, <2>2, OthersHold DEF ImportInv
<1> QED BY <1>2, <1>3, <1>4, <1>5, <1>6 DEF QueueNext

(* At first there is no history.                                            *)
LEMMA InitImportInv ==
    ASSUME QueueInit
    PROVE  ImportInv
<1>1. /\ history = [i \in {} |-> [status |-> "Failed", dir |-> Root]]
      /\ dirs = [p \in {} |-> Root] /\ files = [n \in Node |-> {}]
      /\ tasks = [s \in Slot |-> FreeTask]
    BY DEF QueueInit
<1>2. TreeTypes /\ HistoryHolds
    BY <1>1 DEF TreeTypes, HistoryHolds
<1>3. \A s \in Slot : HoldsFiles(s)
    BY <1>1 DEF HoldsFiles, At, Before, FreeTask
<1> QED BY <1>2, <1>3, InitQueueInv DEF ImportInv

-----------------------------------------------------------------------------
(* The import: what is told of its files.                                  *)

(* The set a file's first article belongs to.                               *)
GroupOf(info) == PostOf(info.segments[1]).group

(* The hashes of what was not read from its beginning.                      *)
Unhashed == {NoHash, "other"}

InfoType ==
    [index : Nat, name : Seq(STRING), size : Nat, segments : Seq(DOMAIN Content),
     rar : BOOLEAN, par2 : BOOLEAN, missing : BOOLEAN,
     hash : Unhashed \union {Post[p].hash : p \in DOMAIN Post},
     head : {NoHash} \union {Post[p].group : p \in DOMAIN Post}]

(* A file is told by its name and its first article, as `nzb` lists it.    *)
Told(info, nzb) ==
    /\ info.index \in DOMAIN nzb /\ nzb[info.index].articles # <<>>
    /\ info.name = nzb[info.index].name /\ info.par2 = nzb[info.index].par2
    /\ info.segments = SegmentIds(nzb[info.index])
    /\ info.segments[1] \in DOMAIN Content
    /\ info.hash \notin Unhashed => Begins(info, info.hash)
    /\ info.head # NoHash => info.head = GroupOf(info)

(* The elements of a list.                                                  *)
LEMMA Elements ==
    ASSUME NEW S, NEW list \in Seq(S)
    PROVE  /\ DOMAIN list = 1..Len(list) /\ Len(list) \in Nat
           /\ \A k \in DOMAIN list : list[k] \in S
OBVIOUS

(* The articles of a file, in order.                                        *)
LEMMA SegmentsAre ==
    ASSUME NEW file \in FileType
    PROVE  /\ SegmentIds(file) \in Seq(DOMAIN Content)
           /\ file.articles # <<>> => SegmentIds(file)[1] \in DOMAIN Content
<1> DEFINE list == file.articles
           key == [k \in DOMAIN list |-> list[k].number]
           sorted == Sorted(list, key)
<1>1. list \in Seq(ArticleType)
  BY DEF FileType
<1>2. SegmentIds(file) = [k \in DOMAIN sorted |-> sorted[k].id]
  BY DEF SegmentIds
<1> HIDE DEF list
<1>3. /\ DOMAIN list = 1..Len(list) /\ Len(list) \in Nat
      /\ \A k \in DOMAIN list : list[k] \in ArticleType
  BY <1>1, Elements
<1>4. key \in [DOMAIN list -> Nat]
  BY <1>3 DEF ArticleType
<1> HIDE DEF key
<1>5. sorted \in Seq(ArticleType) /\ DOMAIN sorted = DOMAIN list
  BY <1>1, <1>4, SortedIs
<1> HIDE DEF sorted
<1>6. \A k \in 1..Len(list) : sorted[k].id \in DOMAIN Content
  <2>1. \A k \in 1..Len(list) : sorted[k] \in ArticleType
    BY <1>3, <1>5, Elements
  <2> QED
    BY <2>1 DEF ArticleType
<1>7. SegmentIds(file) = [k \in 1..Len(list) |-> sorted[k].id]
  BY <1>2, <1>3, <1>5
<1>8. list # <<>> => 1 \in 1..Len(list)
  BY <1>1, <1>3
<1> QED
  BY <1>3, <1>6, <1>7, <1>8 DEF list

(* The sum of some numbers.                                                 *)
LEMMA SumOfIs ==
    ASSUME NEW S, IsFiniteSet(S), NEW w \in [S -> Nat]
    PROVE  SumOf(w) = Sum(w, S) /\ SumOf(w) \in Nat
<1> DEFINE Sol(f) == f = [s \in SUBSET S |-> IF s = {} THEN 0 ELSE w[OneOf(s)] + f[Remaining(s)]]
           it == CHOOSE f : Sol(f)
<1>1. w \in [S -> Int] /\ DOMAIN w = S
  OBVIOUS
<1>2. PICK g \in [SUBSET S -> Int] : Partial(g, w, SUBSET S)
  BY <1>1, PartialExists
<1>3. \A f : Sol(f) <=> Partial(f, w, SUBSET S)
  BY DEF Partial
<1>4. Sol(it)
  BY <1>2, <1>3
<1>5. SumOf(w) = it[S]
  BY <1>1 DEF SumOf, MapThenSumSet, MapThenFoldSet, OneOf, Remaining
<1> HIDE DEF Sol, it
<1>6. Sum(w, S) = it[S] /\ Sum(w, S) \in Nat
  BY <1>1, <1>3, <1>4, SumIs, SumIsNat
<1> QED
  BY <1>5, <1>6

(* The bytes of a file.                                                     *)
LEMMA BytesAre ==
    ASSUME NEW file \in FileType
    PROVE  Bytes(file) \in Nat
<1> DEFINE w == [k \in DOMAIN file.articles |-> file.articles[k].bytes]
<1>1. file.articles \in Seq(ArticleType)
  BY DEF FileType
<1>2. IsFiniteSet(DOMAIN file.articles)
  BY <1>1, PositionsAre
<1>3. \A k \in DOMAIN file.articles : file.articles[k] \in ArticleType
  BY <1>1, Elements
<1>4. w \in [DOMAIN file.articles -> Nat]
  BY <1>3 DEF ArticleType
<1> HIDE DEF w
<1>5. SumOf(w) \in Nat
  BY <1>2, <1>4, SumOfIs
<1> QED
  BY <1>5 DEF Bytes, w

(* The files that are looked into, and those that are not.                  *)
LEMMA ExaminedAre ==
    ASSUME job.files \in Seq(FileType)
    PROVE  /\ Examined \in Seq(FileType) /\ DOMAIN Examined \in SUBSET Nat
           /\ \E S : /\ SkippedSingles \in Seq(S)
                     /\ \A k \in DOMAIN SkippedSingles : SkippedSingles[k].hash = NoHash
<1>1. /\ Files \in Seq(FileType) /\ Several \in SUBSET DOMAIN Files
      /\ IsFiniteSet(Singles) /\ Singles \in SUBSET Nat /\ Singles \in SUBSET DOMAIN Files
  <2>1. Files \in Seq(FileType) /\ Singles \in SUBSET DOMAIN Files /\ Several \in SUBSET DOMAIN Files
    BY DEF Files, Singles, Several
  <2> QED
    BY <2>1, PositionsAre
<1>2. Examined \in Seq(FileType)
  BY <1>1, SelectedIs DEF Examined
<1>3. DOMAIN Examined \in SUBSET Nat
  BY <1>2
<1> DEFINE key == [k \in Singles |-> k]
           at == Ordered(Singles, Stably(Singles, key))
           S == {Info(k, Files[k]) : k \in Singles}
<1>4. key \in [Singles -> Nat]
  BY <1>1
<1> HIDE DEF key
<1>5. at \in Seq(Singles)
  BY <1>1, <1>4, StablyOrders, OrderedIs
<1>6. SkippedSingles = IF FastMode THEN [n \in DOMAIN at |-> Info(at[n], Files[at[n]])] ELSE <<>>
  BY DEF SkippedSingles, key
<1> HIDE DEF at
<1>7. DOMAIN at = 1..Len(at) /\ Len(at) \in Nat /\ \A n \in 1..Len(at) : at[n] \in Singles
  BY <1>5
<1>8. \A n \in 1..Len(at) : Info(at[n], Files[at[n]]) \in S
  BY <1>7
<1> HIDE DEF S
<1>9. SkippedSingles \in Seq(S)
  BY <1>6, <1>7, <1>8
<1>10. \A k, f : Info(k, f).hash = NoHash
  BY DEF Info
<1>11. \A k \in DOMAIN SkippedSingles : SkippedSingles[k].hash = NoHash
  BY <1>6, <1>10
<1> QED
  BY <1>2, <1>3, <1>9, <1>11

(* What a first article tells of its file.                                  *)
LEMMA FirstTells ==
    ASSUME NEW nzb \in Seq(FileType), NEW k \in DOMAIN nzb, nzb[k].articles # <<>>,
           NEW outcome \in {"found", "missing", "error"}, NEW par2, par2 = nzb[k].par2
    PROVE  /\ Analysed(Info(k, nzb[k]), par2) \in InfoType
           /\ Told(Analysed(Info(k, nzb[k]), par2), nzb)
           /\ FromName(Info(k, nzb[k]), par2, outcome) \in InfoType
           /\ Told(FromName(Info(k, nzb[k]), par2, outcome), nzb)
           /\ Analysed(Info(k, nzb[k]), par2).index = k
           /\ FromName(Info(k, nzb[k]), par2, outcome).index = k
<1> DEFINE file == nzb[k]
           info == Info(k, file)
<1>1. file \in FileType /\ k \in Nat
  OBVIOUS
<1>2. /\ file.name \in Seq(STRING) /\ par2 \in BOOLEAN /\ Bytes(file) \in Nat
      /\ SegmentIds(file) \in Seq(DOMAIN Content) /\ SegmentIds(file)[1] \in DOMAIN Content
  BY <1>1, BytesAre, SegmentsAre DEF FileType
<1>3. info = [index |-> k, name |-> file.name, size |-> Bytes(file), segments |-> SegmentIds(file),
              rar |-> FALSE, par2 |-> FALSE, hash |-> NoHash, head |-> NoHash, missing |-> FALSE]
  BY DEF Info
<1> DEFINE id == SegmentIds(file)[1]
<1>4. /\ HashOf(id) \in Unhashed \union {Post[p].hash : p \in DOMAIN Post}
      /\ PacketSet(id) \in {NoHash} \union {Post[p].group : p \in DOMAIN Post}
      /\ HashOf(id) \notin Unhashed => BeginsPost(id) /\ PostOf(id).hash = HashOf(id)
      /\ PacketSet(id) # NoHash => PacketSet(id) = PostOf(id).group
      /\ BeginsRar(id) \in BOOLEAN
  BY <1>2, ImportAssumption DEF PostOf, Unhashed, HashOf, PacketSet, BeginsRar
<1>5. /\ info.index = k /\ info.name = file.name /\ info.size = Bytes(file)
      /\ info.segments = SegmentIds(file) /\ info.hash = NoHash /\ info.head = NoHash
      /\ info.rar \in BOOLEAN /\ info.missing \in BOOLEAN
  BY DEF Info
<1>6. info = [index |-> info.index, name |-> info.name, size |-> info.size,
              segments |-> info.segments, rar |-> info.rar, par2 |-> info.par2, hash |-> info.hash,
              head |-> info.head, missing |-> info.missing]
  BY DEF Info
<1> DEFINE told == Analysed(info, par2)
           named == FromName(info, par2, outcome)
           ends == HasExtension(info.name, {".rar", ".r00"})
           missing == outcome = "missing"
<1>7. ends \in BOOLEAN /\ missing \in BOOLEAN
  BY DEF HasExtension
<1> HIDE DEF info
<1>8. told = [index |-> info.index, name |-> info.name, size |-> info.size,
              segments |-> info.segments, rar |-> BeginsRar(id), par2 |-> par2, hash |-> HashOf(id),
              head |-> PacketSet(id), missing |-> info.missing]
  <2>1. info.segments[1] = id
    BY <1>5
  <2> DEFINE rar == BeginsRar(id)
             hash == HashOf(id)
             head == PacketSet(id)
  <2>2. told = [info EXCEPT !.rar = rar, !.par2 = par2, !.hash = hash, !.head = head]
    BY <2>1 DEF Analysed
  <2> HIDE DEF rar, hash, head, told
  <2>3. told = [index |-> info.index, name |-> info.name, size |-> info.size,
                segments |-> info.segments, rar |-> rar, par2 |-> par2, hash |-> hash,
                head |-> head, missing |-> info.missing]
    BY <1>6, <2>2
  <2> QED
    BY <2>3 DEF rar, hash, head
<1>9. named = [index |-> info.index, name |-> info.name, size |-> info.size,
               segments |-> info.segments, rar |-> ends, par2 |-> par2, hash |-> info.hash,
               head |-> info.head, missing |-> missing]
  <2> HIDE DEF ends, missing
  <2>1. named = [info EXCEPT !.rar = ends, !.par2 = par2, !.missing = missing]
    BY DEF FromName, ends, missing
  <2> HIDE DEF named
  <2> QED
    BY <1>6, <2>1
<1> HIDE DEF id, ends, missing, told, named
<1>10. told \in InfoType /\ named \in InfoType
  BY <1>1, <1>2, <1>4, <1>5, <1>7, <1>8, <1>9 DEF InfoType, Unhashed
<1>11. Told(told, nzb)
  BY <1>1, <1>2, <1>4, <1>5, <1>8 DEF Told, Begins, GroupOf, id
<1>12. Told(named, nzb)
  BY <1>1, <1>2, <1>5, <1>9 DEF Told, Unhashed, id
<1>13. told.index = k /\ named.index = k
  BY <1>5, <1>8, <1>9
<1> QED
  BY <1>10, <1>11, <1>12, <1>13 DEF told, named, info

-----------------------------------------------------------------------------
(* The groups of PAR2 files.                                                *)

GroupType == [members : SUBSET Nat, late : {0, 1}, index : Nat]

(* The smallest of some files is one of them.                               *)
LEMMA SmallestIs ==
    ASSUME NEW list, NEW K \in SUBSET Nat, K # {}, \A k \in K : list[k].size \in Nat
    PROVE  SmallestOf(list, K) \in K
<1> DEFINE Sizes_ == {list[k].size : k \in K}
<1>1. Sizes_ \in SUBSET Nat /\ Sizes_ # {}
  OBVIOUS
<1>2. PICK least \in Sizes_ : \A size \in Sizes_ : least <= size
  <2> HIDE DEF Sizes_
  <2> QED
    BY <1>1, LeastOf
<1> DEFINE Small == {k \in K : list[k].size = least}
<1>3. Small \in SUBSET Nat /\ Small # {}
  BY <1>2
<1>4. PICK p \in Small : \A q \in Small : p <= q
  <2> HIDE DEF Small
  <2> QED
    BY <1>3, LeastOf
<1>5. ASSUME NEW q \in K
      PROVE  list[p].size < list[q].size \/ (list[p].size = list[q].size /\ p <= q)
  <2>1. list[p].size = least /\ least <= list[q].size /\ least \in Nat /\ list[q].size \in Nat
    BY <1>2, <1>4
  <2>2. list[q].size = least => p <= q
    BY <1>4
  <2> QED
    BY <2>1, <2>2
<1>6. p \in K
  OBVIOUS
<1> HIDE DEF Small
<1> QED
  BY <1>5, <1>6 DEF SmallestOf

(* The order in which groups are read.                                      *)
LEMMA GroupsOrdered ==
    ASSUME NEW list, NEW K \in SUBSET Nat, NEW group,
           \A k \in K : group[k].late \in {0, 1} /\ list[group[k].index].size \in Nat
    PROVE  Orders({pair \in K \X K :
                      \/ Sooner(list, group[pair[1]], group[pair[2]])
                      \/ ~Sooner(list, group[pair[2]], group[pair[1]]) /\ pair[1] < pair[2]}, K)
<1> DEFINE order == {pair \in K \X K :
                       \/ Sooner(list, group[pair[1]], group[pair[2]])
                       \/ ~Sooner(list, group[pair[2]], group[pair[1]]) /\ pair[1] < pair[2]}
           late(k) == group[k].late
           size(k) == list[group[k].index].size
<1>1. \A j, k \in K : Sooner(list, group[j], group[k]) <=>
                        late(j) < late(k) \/ (late(j) = late(k) /\ size(j) < size(k))
  BY DEF Sooner
<1>2. \A k \in K : k \in Nat /\ late(k) \in Nat /\ size(k) \in Nat
  OBVIOUS
<1> HIDE DEF late, size
<1>3. \A j, k \in K : <<j, k>> \in order <=>
        \/ late(j) < late(k)
        \/ late(j) = late(k) /\ size(j) < size(k)
        \/ late(j) = late(k) /\ size(j) = size(k) /\ j < k
  <2>1. \A j, k \in K : <<j, k>> \in order <=>
          \/ Sooner(list, group[j], group[k])
          \/ ~Sooner(list, group[k], group[j]) /\ j < k
    OBVIOUS
  <2> HIDE DEF order
  <2> SUFFICES ASSUME NEW j \in K, NEW k \in K
               PROVE  <<j, k>> \in order <=>
                        \/ late(j) < late(k)
                        \/ late(j) = late(k) /\ size(j) < size(k)
                        \/ late(j) = late(k) /\ size(j) = size(k) /\ j < k
    OBVIOUS
  <2>2. /\ late(j) \in Nat /\ late(k) \in Nat /\ size(j) \in Nat /\ size(k) \in Nat
        /\ j \in Nat /\ k \in Nat
    BY <1>2
  <2>3. /\ Sooner(list, group[j], group[k]) <=>
             late(j) < late(k) \/ (late(j) = late(k) /\ size(j) < size(k))
        /\ Sooner(list, group[k], group[j]) <=>
             late(k) < late(j) \/ (late(k) = late(j) /\ size(k) < size(j))
    BY <1>1
  <2>4. <<j, k>> \in order <=>
          \/ Sooner(list, group[j], group[k])
          \/ ~Sooner(list, group[k], group[j]) /\ j < k
    BY <2>1
  <2> QED
    BY <2>2, <2>3, <2>4
<1> HIDE DEF order
<1>4. Orders(order, K)
  BY <1>2, <1>3 DEF Orders
<1> QED
  BY <1>4 DEF order

(* A group has the PAR2 files of one name, and no two share a file.         *)
LEMMA GroupsAre ==
    ASSUME NEW list \in Seq(InfoType)
    PROVE  /\ Groups(list) \in Seq(GroupType)
           /\ \A n \in DOMAIN Groups(list) :
                /\ Groups(list)[n].members \in SUBSET Par2Files(list)
                /\ Groups(list)[n].index \in Groups(list)[n].members
                /\ \A j, k \in Groups(list)[n].members : SetName(list, j) = SetName(list, k)
           /\ \A m, n \in DOMAIN Groups(list) :
                m # n => Groups(list)[m].members \intersect Groups(list)[n].members = {}
<1> DEFINE first == {k \in Par2Files(list) : \A j \in Namesakes(list, k) : k <= j}
           group == [k \in first |-> Group(list, Namesakes(list, k))]
           order == {pair \in first \X first :
                       \/ Sooner(list, group[pair[1]], group[pair[2]])
                       \/ ~Sooner(list, group[pair[2]], group[pair[1]]) /\ pair[1] < pair[2]}
           at == Ordered(first, order)
<1>1. /\ DOMAIN list \in SUBSET Nat /\ \A k \in DOMAIN list : list[k].size \in Nat
      /\ Par2Files(list) \in SUBSET DOMAIN list
  <2>1. DOMAIN list = 1..Len(list) /\ Len(list) \in Nat /\ \A k \in DOMAIN list : list[k] \in InfoType
    BY Elements
  <2>2. \A k \in DOMAIN list : list[k].size \in Nat
    BY <2>1 DEF InfoType
  <2>3. DOMAIN list \in SUBSET Nat
    BY <2>1
  <2> QED
    BY <2>2, <2>3 DEF Par2Files
<1>2. ASSUME NEW k \in Par2Files(list)
      PROVE  /\ Namesakes(list, k) \in SUBSET Par2Files(list) /\ k \in Namesakes(list, k)
             /\ Group(list, Namesakes(list, k)) \in GroupType
             /\ Group(list, Namesakes(list, k)).members = Namesakes(list, k)
             /\ Group(list, Namesakes(list, k)).index \in Namesakes(list, k)
  <2> DEFINE members == Namesakes(list, k)
             plain == Plain(list, members)
             from == IF plain = {} THEN members ELSE plain
             index == SmallestOf(list, from)
             late == IF plain = {} THEN 1 ELSE 0
  <2>1. members \in SUBSET Par2Files(list) /\ k \in members
    BY DEF Namesakes
  <2>2. plain \in SUBSET members
    BY DEF Plain
  <2>3. Group(list, members) = [members |-> members, late |-> late, index |-> index]
    BY DEF Group
  <2>4. late \in {0, 1}
    OBVIOUS
  <2> HIDE DEF members, plain, late
  <2>5. from \in SUBSET Nat /\ from # {} /\ from \in SUBSET members /\ \A p \in from : list[p].size \in Nat
    BY <1>1, <2>1, <2>2
  <2> HIDE DEF from
  <2>6. index \in from
    BY <2>5, SmallestIs
  <2> HIDE DEF index
  <2>7. Group(list, members) \in GroupType /\ Group(list, members).members = members
        /\ Group(list, members).index \in members
    BY <1>1, <2>1, <2>3, <2>4, <2>5, <2>6 DEF GroupType
  <2> QED
    BY <2>1, <2>7 DEF members
<1>3. first \in SUBSET Par2Files(list) /\ first \in SUBSET DOMAIN list
  BY <1>1
<1>4. IsFiniteSet(first) /\ first \in SUBSET Nat
  BY <1>3, PositionsAre
<1>5. \A k \in first : group[k] = Group(list, Namesakes(list, k))
  OBVIOUS
<1>6. Groups(list) = [n \in 1..Cardinality(first) |-> group[at[n]]]
  BY DEF Groups, Arranged
<1>7. \A k \in first : Namesakes(list, k) \in SUBSET DOMAIN list /\ \A j \in Namesakes(list, k) : k <= j
  BY <1>1, <1>2
<1> HIDE DEF first, group
<1>8. \A k \in first : /\ group[k] \in GroupType /\ group[k].members = Namesakes(list, k)
                       /\ group[k].index \in Namesakes(list, k)
  BY <1>2, <1>3, <1>5
<1>9. \A k \in first : group[k].late \in {0, 1} /\ list[group[k].index].size \in Nat
  BY <1>1, <1>7, <1>8 DEF GroupType
<1>10. Orders(order, first)
  BY <1>4, <1>9, GroupsOrdered
<1> HIDE DEF order
<1>11. /\ at \in Seq(first) /\ DOMAIN at = 1..Cardinality(first) /\ Cardinality(first) \in Nat
       /\ \A m, n \in DOMAIN at : m # n => at[m] # at[n]
  BY <1>4, <1>10, OrderedIs
<1> HIDE DEF at
<1>12. \A n \in 1..Cardinality(first) : at[n] \in first
  BY <1>11, Elements
<1>13. /\ Groups(list) \in Seq(GroupType) /\ DOMAIN Groups(list) = 1..Cardinality(first)
       /\ \A n \in 1..Cardinality(first) : Groups(list)[n] = group[at[n]]
  <2>1. \A n \in 1..Cardinality(first) : group[at[n]] \in GroupType
    BY <1>8, <1>12
  <2> QED
    BY <1>6, <1>11, <2>1
<1>14. ASSUME NEW n \in DOMAIN Groups(list)
       PROVE  /\ Groups(list)[n].members = Namesakes(list, at[n]) /\ at[n] \in first
              /\ Groups(list)[n].index \in Groups(list)[n].members
  BY <1>8, <1>12, <1>13
<1>15. ASSUME NEW n \in DOMAIN Groups(list)
       PROVE  /\ Groups(list)[n].members \in SUBSET Par2Files(list)
              /\ \A j, k \in Groups(list)[n].members : SetName(list, j) = SetName(list, k)
  BY <1>2, <1>3, <1>14 DEF Namesakes
<1>16. ASSUME NEW m \in DOMAIN Groups(list), NEW n \in DOMAIN Groups(list), m # n
       PROVE  Groups(list)[m].members \intersect Groups(list)[n].members = {}
  <2> SUFFICES ASSUME NEW j \in Namesakes(list, at[m]), j \in Namesakes(list, at[n]) PROVE FALSE
    BY <1>14
  <2>1. Namesakes(list, at[m]) = Namesakes(list, at[n])
    BY DEF Namesakes
  <2>2. at[m] \in Namesakes(list, at[n]) /\ at[n] \in Namesakes(list, at[m])
    BY <1>2, <1>3, <1>14, <2>1
  <2>3. at[m] \in Nat /\ at[n] \in Nat /\ at[n] <= at[m] /\ at[m] <= at[n]
    BY <1>4, <1>7, <1>14, <2>2
  <2>4. at[m] = at[n]
    BY <2>3
  <2> QED
    BY <1>11, <1>13, <1>16, <2>4
<1> QED
  BY <1>13, <1>14, <1>15, <1>16

-----------------------------------------------------------------------------
(* The import: the invariant.                                               *)

SetType == [id : {Post[p].group : p \in DOMAIN Post}, index : Nat, members : SUBSET Nat]

(* All files are told.                                                      *)
AllTold(list, nzb) == list \in Seq(InfoType) /\ \A k \in DOMAIN list : Told(list[k], nzb)

(* The groups to read have files of their own.                              *)
GroupsApart(list, to_read, known) ==
    /\ to_read \in Seq(GroupType)
    /\ \A n \in DOMAIN to_read :
        /\ to_read[n].members \in SUBSET DOMAIN list /\ to_read[n].index \in to_read[n].members
        /\ \A k \in DOMAIN known : to_read[n].members \intersect known[k].members = {}
    /\ \A m, n \in DOMAIN to_read : m # n => to_read[m].members \intersect to_read[n].members = {}

(* The files of a group are of one set.                                     *)
GroupsAlike(list, to_read) ==
    \A n \in DOMAIN to_read : \A j, k \in to_read[n].members : GroupOf(list[j]) = GroupOf(list[k])

(* The sets that were read are different ones, with files of their own.     *)
SetsApart(list, known) ==
    /\ known \in Seq(SetType)
    /\ \A k \in DOMAIN known :
        /\ known[k].members \in SUBSET DOMAIN list /\ known[k].index \in DOMAIN list
        /\ list[known[k].index].segments[1] \in DOMAIN Content
    /\ \A j, k \in DOMAIN known : j # k =>
        /\ known[j].id # known[k].id
        /\ known[j].members \intersect known[k].members = {}

(* The files of a set are those of its packets, but for skipped ones.       *)
SetsAlike(list, known, skipped) ==
    \A k \in DOMAIN known : \A v \in known[k].members \ skipped : GroupOf(list[v]) = known[k].id

(* A file with a hash begins with it.                                       *)
Hashed(list) == \A k \in DOMAIN list : list[k].hash \notin Unhashed => Begins(list[k], list[k].hash)

NothingRead == groups = <<>> /\ index_sets = <<>> /\ unread = {} /\ fetches = 0

RecordsInv ==
    /\ release \in Submission
    /\ stage # "parse" => job.files \in Seq(FileType)
    /\ stage = "parse" => NothingRead /\ infos = <<>>
    /\ stage = "first" => /\ NothingRead /\ AllTold(infos, Examined)
                          /\ waiting \in SUBSET {k \in DOMAIN Examined : Examined[k].articles # <<>>}
    /\ stage = "index" => /\ AllTold(infos, Examined) /\ fetches \in 0..MaxIndexFetches
                          /\ unread \in SUBSET DOMAIN infos
                          /\ GroupsApart(infos, groups, index_sets) /\ SetsApart(infos, index_sets)
                          /\ NamesTellSets => /\ GroupsAlike(infos, groups)
                                              /\ SetsAlike(infos, index_sets, unread)
    /\ stage \in {"probe", "volumes", "aggregate"} =>
            /\ DOMAIN infos \in SUBSET Nat /\ Hashed(infos) /\ fetches \in 0..MaxIndexFetches
            /\ SetsApart(infos, index_sets)
            /\ NamesTellSets => SetsAlike(infos, index_sets, unread)
    /\ RecordsAreTrue

(* Each step after the first leaves the NZB alone.                          *)
LEMMA SameNzb ==
    ASSUME job' = job
    PROVE  Examined' = Examined /\ (NamesTellSets' <=> NamesTellSets)
<1>1. Examined' = Examined
  BY DEF Examined, FastMode, Several, Singles, Files
<1> QED
  BY <1>1 DEF NamesTellSets

(* Nothing but the last step writes records.                                *)
LEMMA NotDone ==
    ASSUME stage' # "done"
    PROVE  RecordsAreTrue'
BY DEF RecordsAreTrue

(* The document is parsed.                                                  *)
LEMMA ParseDocumentKeeps ==
    ASSUME RecordsInv, ParseDocument
    PROVE  RecordsInv'
<1>1. /\ release' = release /\ infos' = <<>> /\ groups' = <<>> /\ index_sets' = <<>>
      /\ unread' = {} /\ fetches' = 0
  BY DEF RecordsInv, NothingRead, ParseDocument
<1>2. job'.files \in Seq(FileType)
  BY ImportAssumption DEF RecordsInv, ParseDocument
<1>3. \/ stage' = "failed"
      \/ stage' = "first" /\ waiting' = {k \in DOMAIN Examined' : Examined'[k].articles # <<>>}
  BY DEF ParseDocument
<1>4. AllTold(<<>>, Examined')
  BY DEF AllTold
<1>5. RecordsAreTrue'
  BY <1>3, NotDone
<1> QED
  BY <1>1, <1>2, <1>3, <1>4, <1>5 DEF RecordsInv, NothingRead

(* A first article is fetched, or not.                                      *)
LEMMA FetchFirstKeeps ==
    ASSUME RecordsInv, NEW outcome \in {"found", "missing", "error"}, NEW k, FetchFirst(k, outcome)
    PROVE  RecordsInv'
<1>1. /\ stage = "first" /\ stage' = "first" /\ job' = job /\ release' = release
      /\ UNCHANGED <<groups, index_sets, unread, fetches>> /\ waiting' = waiting \ {k} /\ k \in waiting
  BY DEF FetchFirst
<1>2. job.files \in Seq(FileType) /\ AllTold(infos, Examined) /\ NothingRead /\ release \in Submission
      /\ waiting \in SUBSET {i \in DOMAIN Examined : Examined[i].articles # <<>>}
  BY <1>1 DEF RecordsInv
<1>3. Examined' = Examined
  BY <1>1, SameNzb
<1>4. Examined \in Seq(FileType) /\ k \in DOMAIN Examined /\ Examined[k].articles # <<>>
  BY <1>1, <1>2, ExaminedAre
<1> DEFINE par2 == Examined[k].par2
           info == IF outcome = "found" THEN Analysed(Info(k, Examined[k]), par2)
                   ELSE FromName(Info(k, Examined[k]), par2, outcome)
<1>5. info \in InfoType /\ Told(info, Examined)
  BY <1>4, FirstTells
<1>6. infos' = Append(infos, info)
  BY DEF FetchFirst
<1> HIDE DEF info
<1>7. AllTold(infos', Examined)
  BY <1>2, <1>5, <1>6 DEF AllTold
<1>8. RecordsAreTrue'
  BY <1>1, NotDone
<1> QED
  BY <1>1, <1>2, <1>3, <1>7, <1>8 DEF RecordsInv, NothingRead

(* The PAR2 files of a name are of one set, as far as names tell.           *)
LEMMA NamesakesAlike ==
    ASSUME NEW list, AllTold(list, Examined), NamesTellSets,
           NEW j \in Par2Files(list), NEW k \in Par2Files(list), SetName(list, j) = SetName(list, k)
    PROVE  GroupOf(list[j]) = GroupOf(list[k])
<1> DEFINE f == list[j].index
           g == list[k].index
<1>1. Told(list[j], Examined) /\ Told(list[k], Examined) /\ list[j].par2 /\ list[k].par2
  BY DEF AllTold, Par2Files
<1>2. /\ f \in DOMAIN Examined /\ Examined[f].articles # <<>> /\ Examined[f].par2
      /\ list[j].name = Examined[f].name /\ list[j].segments = SegmentIds(Examined[f])
  BY <1>1 DEF Told
<1>3. /\ g \in DOMAIN Examined /\ Examined[g].articles # <<>> /\ Examined[g].par2
      /\ list[k].name = Examined[g].name /\ list[k].segments = SegmentIds(Examined[g])
  BY <1>1 DEF Told
<1>4. SetName(Examined, f) = SetName(Examined, g)
  BY <1>2, <1>3 DEF SetName
<1>5. PostOf(SegmentIds(Examined[f])[1]).group = PostOf(SegmentIds(Examined[g])[1]).group
  BY <1>2, <1>3, <1>4 DEF NamesTellSets
<1> QED
  BY <1>2, <1>3, <1>5 DEF GroupOf

(* The first articles are collected, the PAR2 files grouped.                *)
LEMMA CollectFirstKeeps ==
    ASSUME RecordsInv, CollectFirst
    PROVE  RecordsInv'
<1>1. /\ stage = "first" /\ stage' = "index" /\ job' = job /\ release' = release
      /\ index_sets' = index_sets /\ unread' = unread /\ fetches' = fetches
      /\ infos' = ByIndex(infos) /\ groups' = Groups(infos')
  BY DEF CollectFirst
<1>2. /\ job.files \in Seq(FileType) /\ AllTold(infos, Examined) /\ release \in Submission
      /\ index_sets = <<>> /\ unread = {} /\ fetches = 0
  BY <1>1 DEF RecordsInv, NothingRead
<1>3. Examined' = Examined /\ (NamesTellSets' <=> NamesTellSets)
  BY <1>1, SameNzb
<1> DEFINE list == ByIndex(infos)
           S == {info \in InfoType : Told(info, Examined)}
           key == [k \in DOMAIN infos |-> infos[k].index]
<1>4. infos \in Seq(S)
  BY <1>2 DEF AllTold
<1>5. key \in [DOMAIN infos -> Nat]
  <2>1. \A k \in DOMAIN infos : infos[k] \in InfoType
    BY <1>2, Elements DEF AllTold
  <2> QED
    BY <2>1 DEF InfoType
<1>6. list = Sorted(infos, key)
  BY DEF ByIndex
<1> HIDE DEF S, key, list
<1>7. list \in Seq(S)
  BY <1>4, <1>5, <1>6, SortedIs
<1>8. AllTold(list, Examined)
  BY <1>7 DEF AllTold, S
<1>9. infos' = list
  BY <1>1 DEF list
<1>10. list \in Seq(InfoType)
  BY <1>8 DEF AllTold
<1> DEFINE to_read == Groups(list)
<1>11. /\ to_read \in Seq(GroupType)
       /\ \A n \in DOMAIN to_read :
            /\ to_read[n].members \in SUBSET Par2Files(list) /\ to_read[n].index \in to_read[n].members
            /\ \A j, k \in to_read[n].members : SetName(list, j) = SetName(list, k)
       /\ \A m, n \in DOMAIN to_read :
            m # n => to_read[m].members \intersect to_read[n].members = {}
  BY <1>10, GroupsAre
<1>12. groups' = to_read
  BY <1>1, <1>9
<1> HIDE DEF to_read
<1>13. GroupsApart(list, to_read, <<>>)
  BY <1>11 DEF GroupsApart, Par2Files
<1>14. NamesTellSets => GroupsAlike(list, to_read)
  BY <1>8, <1>11, NamesakesAlike DEF GroupsAlike
<1>15. SetsApart(list, <<>>) /\ SetsAlike(list, <<>>, unread')
  BY DEF SetsApart, SetsAlike
<1>16. RecordsAreTrue'
  BY <1>1, NotDone
<1>17. 0 \in 0..MaxIndexFetches
  BY ImportAssumption
<1> QED
  BY <1>1, <1>2, <1>3, <1>8, <1>9, <1>12, <1>13, <1>14, <1>15, <1>16, <1>17 DEF RecordsInv

(* What is left to read, but for the next group.                            *)
LEMMA RestApart ==
    ASSUME NEW list, NEW to_read, NEW known, GroupsApart(list, to_read, known), to_read # <<>>
    PROVE  /\ GroupsApart(list, Tail(to_read), known)
           /\ GroupsAlike(list, to_read) => GroupsAlike(list, Tail(to_read))
           /\ 1 \in DOMAIN to_read /\ Head(to_read) = to_read[1] /\ Head(to_read) \in GroupType
           /\ \A n \in DOMAIN Tail(to_read) :
                Tail(to_read)[n].members \intersect Head(to_read).members = {}
<1> DEFINE rest == Tail(to_read)
<1>1. to_read \in Seq(GroupType)
  BY DEF GroupsApart
<1>2. /\ rest \in Seq(GroupType) /\ 1 \in DOMAIN to_read /\ Head(to_read) = to_read[1]
      /\ Head(to_read) \in GroupType
      /\ \A n \in DOMAIN rest : n \in Nat /\ n + 1 \in DOMAIN to_read /\ n + 1 # 1
                                /\ rest[n] = to_read[n + 1]
  BY <1>1
<1>3. \A m, n \in DOMAIN rest : m # n => m + 1 # n + 1
  BY <1>2
<1> HIDE DEF rest
<1>4. GroupsApart(list, rest, known)
  BY <1>2, <1>3 DEF GroupsApart
<1>5. GroupsAlike(list, to_read) => GroupsAlike(list, rest)
  BY <1>2 DEF GroupsAlike
<1>6. \A n \in DOMAIN rest : rest[n].members \intersect Head(to_read).members = {}
  BY <1>2 DEF GroupsApart
<1> QED
  BY <1>2, <1>4, <1>5, <1>6 DEF rest

(* The index sets with a group that joined those of an id.                  *)
Joined(known, id, more) ==
    [k \in DOMAIN known |-> IF known[k].id = id THEN [known[k] EXCEPT !.members = @ \union more] ELSE known[k]]

(* What joining leaves of a set.                                            *)
LEMMA JoinedAre ==
    ASSUME NEW known \in Seq(SetType), NEW id, NEW more \in SUBSET Nat
    PROVE  /\ Joined(known, id, more) \in Seq(SetType)
           /\ DOMAIN Joined(known, id, more) = DOMAIN known
           /\ \A k \in DOMAIN known :
                /\ Joined(known, id, more)[k].id = known[k].id
                /\ Joined(known, id, more)[k].index = known[k].index
                /\ Joined(known, id, more)[k].members =
                     IF known[k].id = id THEN known[k].members \union more ELSE known[k].members
<1> DEFINE new == Joined(known, id, more)
<1>1. DOMAIN known = 1..Len(known) /\ Len(known) \in Nat /\ \A k \in DOMAIN known : known[k] \in SetType
  BY Elements
<1>2. ASSUME NEW set \in SetType
      PROVE  /\ [set EXCEPT !.members = set.members \union more] \in SetType
             /\ [set EXCEPT !.members = set.members \union more].id = set.id
             /\ [set EXCEPT !.members = set.members \union more].index = set.index
             /\ [set EXCEPT !.members = set.members \union more].members = set.members \union more
  BY DEF SetType
<1> DEFINE set(k) == IF known[k].id = id THEN [known[k] EXCEPT !.members = known[k].members \union more]
                     ELSE known[k]
<1>3. new = [k \in 1..Len(known) |-> set(k)]
  BY <1>1 DEF Joined
<1>4. \A k \in 1..Len(known) : set(k) \in SetType
  BY <1>1, <1>2
<1> HIDE DEF new
<1>5. \A k \in DOMAIN known :
        /\ new[k] \in SetType /\ new[k].id = known[k].id /\ new[k].index = known[k].index
        /\ new[k].members = IF known[k].id = id THEN known[k].members \union more ELSE known[k].members
  BY <1>1, <1>2, <1>3
<1> HIDE DEF set
<1>6. new \in Seq(SetType) /\ DOMAIN new = DOMAIN known
  BY <1>1, <1>3, <1>4
<1> QED
  BY <1>5, <1>6 DEF new

(* A group of a set that was read before joins it.                          *)
LEMMA JoinKeeps ==
    ASSUME NEW list, NEW to_read, NEW known, NEW skipped, NEW id, to_read # <<>>,
           DOMAIN list \in SUBSET Nat,
           GroupsApart(list, to_read, known), SetsApart(list, known),
           id = GroupOf(list[Head(to_read).index])
    PROVE  LET new == Joined(known, id, Head(to_read).members)
           IN  /\ GroupsApart(list, Tail(to_read), new) /\ SetsApart(list, new)
               /\ GroupsAlike(list, to_read) /\ SetsAlike(list, known, skipped)
                    => SetsAlike(list, new, skipped)
<1> DEFINE group == Head(to_read)
           new == Joined(known, id, group.members)
           rest == Tail(to_read)
<1>1. /\ GroupsApart(list, rest, known) /\ 1 \in DOMAIN to_read /\ group = to_read[1]
      /\ \A n \in DOMAIN rest : rest[n].members \intersect group.members = {}
  BY RestApart
<1>2. /\ group.members \in SUBSET DOMAIN list /\ group.index \in group.members
      /\ \A k \in DOMAIN known : group.members \intersect known[k].members = {}
  BY <1>1 DEF GroupsApart
<1>3. /\ new \in Seq(SetType) /\ DOMAIN new = DOMAIN known
      /\ \A k \in DOMAIN known :
           /\ new[k].id = known[k].id /\ new[k].index = known[k].index
           /\ new[k].members =
                IF known[k].id = id THEN known[k].members \union group.members ELSE known[k].members
  <2>1. group.members \in SUBSET Nat /\ known \in Seq(SetType)
    BY <1>2 DEF SetsApart
  <2> HIDE DEF group
  <2> QED
    BY <2>1, JoinedAre
<1> HIDE DEF new, rest, group
<1>4. GroupsApart(list, rest, new)
  BY <1>1, <1>3 DEF GroupsApart
<1>5. SetsApart(list, new)
  <2>1. ASSUME NEW k \in DOMAIN new
        PROVE  /\ new[k].members \in SUBSET DOMAIN list /\ new[k].index \in DOMAIN list
               /\ list[new[k].index].segments[1] \in DOMAIN Content
    BY <1>2, <1>3 DEF SetsApart
  <2>2. ASSUME NEW j \in DOMAIN new, NEW k \in DOMAIN new, j # k
        PROVE  new[j].id # new[k].id /\ new[j].members \intersect new[k].members = {}
    <3>1. known[j].id # known[k].id /\ known[j].members \intersect known[k].members = {}
      BY <1>3, <2>2 DEF SetsApart
    <3>2. /\ group.members \intersect known[j].members = {}
          /\ group.members \intersect known[k].members = {}
      BY <1>2, <1>3
    <3> QED
      BY <1>3, <3>1, <3>2
  <2> QED
    BY <1>3, <2>1, <2>2 DEF SetsApart
<1>6. ASSUME GroupsAlike(list, to_read), SetsAlike(list, known, skipped)
      PROVE  SetsAlike(list, new, skipped)
  <2>1. \A v \in group.members : GroupOf(list[v]) = id
    BY <1>1, <1>2, <1>6 DEF GroupsAlike, group
  <2> QED
    BY <1>3, <1>6, <2>1 DEF SetsAlike
<1> QED
  BY <1>4, <1>5, <1>6 DEF new, rest, group

(* A group of no set that was read before makes one.                        *)
LEMMA PushKeeps ==
    ASSUME NEW list, NEW to_read, NEW known, NEW skipped, NEW id, to_read # <<>>,
           DOMAIN list \in SUBSET Nat,
           GroupsApart(list, to_read, known), SetsApart(list, known),
           id = GroupOf(list[Head(to_read).index]), \A k \in DOMAIN known : known[k].id # id,
           list[Head(to_read).index].segments[1] \in DOMAIN Content
    PROVE  LET new == Append(known, [id |-> id, index |-> Head(to_read).index,
                                    members |-> Head(to_read).members])
           IN  /\ GroupsApart(list, Tail(to_read), new) /\ SetsApart(list, new)
               /\ GroupsAlike(list, to_read) /\ SetsAlike(list, known, skipped)
                    => SetsAlike(list, new, skipped)
<1> DEFINE group == Head(to_read)
           set == [id |-> id, index |-> group.index, members |-> group.members]
           new == Append(known, set)
           rest == Tail(to_read)
<1>1. /\ GroupsApart(list, rest, known) /\ 1 \in DOMAIN to_read /\ group = to_read[1]
      /\ \A n \in DOMAIN rest : rest[n].members \intersect group.members = {}
  BY RestApart
<1>2. /\ group.members \in SUBSET DOMAIN list /\ group.index \in group.members
      /\ \A k \in DOMAIN known : group.members \intersect known[k].members = {}
  BY <1>1 DEF GroupsApart
<1>3. id \in {Post[p].group : p \in DOMAIN Post}
  BY ImportAssumption DEF GroupOf, PostOf
<1>4. set.id = id /\ set.index = group.index /\ set.members = group.members
  OBVIOUS
<1>5. set \in SetType
  BY <1>2, <1>3 DEF SetType
<1> HIDE DEF set
<1>6. /\ new \in Seq(SetType) /\ DOMAIN new = 1..(Len(known) + 1) /\ Len(known) \in Nat
      /\ DOMAIN known = 1..Len(known)
      /\ \A k \in 1..Len(known) : new[k] = known[k] /\ new[Len(known) + 1] = set
      /\ new[Len(known) + 1] = set
  BY <1>5 DEF SetsApart
<1> DEFINE last == Len(known) + 1
<1>7. \A k \in DOMAIN new : (k \in DOMAIN known /\ k # last /\ new[k] = known[k]) \/ (k = last /\ new[k] = set)
  BY <1>6
<1> HIDE DEF new, rest, group, last
<1>8. GroupsApart(list, rest, new)
  BY <1>1, <1>4, <1>7 DEF GroupsApart
<1>9. SetsApart(list, new)
  <2>1. \A k \in DOMAIN new : /\ new[k].members \in SUBSET DOMAIN list /\ new[k].index \in DOMAIN list
                              /\ list[new[k].index].segments[1] \in DOMAIN Content
    BY <1>2, <1>4, <1>7 DEF SetsApart, group
  <2>2. ASSUME NEW j \in DOMAIN new, NEW k \in DOMAIN new, j # k
        PROVE  new[j].id # new[k].id /\ new[j].members \intersect new[k].members = {}
    BY <1>2, <1>4, <1>7, <2>2 DEF SetsApart
  <2> QED
    BY <1>6, <2>1, <2>2 DEF SetsApart
<1>10. ASSUME GroupsAlike(list, to_read), SetsAlike(list, known, skipped)
       PROVE  SetsAlike(list, new, skipped)
  <2>1. \A v \in group.members : GroupOf(list[v]) = id
    BY <1>1, <1>2, <1>10 DEF GroupsAlike, group
  <2> QED
    BY <1>4, <1>7, <1>10, <2>1 DEF SetsAlike
<1> QED
  BY <1>8, <1>9, <1>10 DEF new, rest, group, set

(* The index of a group is read, or not.                                    *)
LEMMA ReadGroupKeeps ==
    ASSUME RecordsInv, NEW outcome \in {"found", "missing", "error"}, ReadGroup(outcome)
    PROVE  RecordsInv'
<1> DEFINE group == Head(groups)
           info == infos[group.index]
           fetched == info.size <= MaxIndexSize /\ ~Known(info.head) /\ fetches < MaxIndexFetches
           post == PostOf(info.segments[1])
<1>1. /\ stage = "index" /\ groups # <<>> /\ groups' = Tail(groups) /\ job' = job /\ release' = release
      /\ infos' = infos
      /\ fetches' = fetches + (IF fetched THEN 1 ELSE 0)
      /\ stage' = IF fetched /\ outcome # "found" /\ fetches = 0 THEN "failed" ELSE stage
  BY DEF ReadGroup
<1>2. \/ SkipIndex(group)
      \/ Known(info.head) /\ Join(group, info.head)
      \/ post.group = GroupOf(info) /\ KeepSet(group, post.group)
  BY DEF ReadGroup, GroupOf
<1>3. /\ job.files \in Seq(FileType) /\ AllTold(infos, Examined) /\ fetches \in 0..MaxIndexFetches
      /\ GroupsApart(infos, groups, index_sets) /\ SetsApart(infos, index_sets)
      /\ NamesTellSets => /\ GroupsAlike(infos, groups)
                          /\ SetsAlike(infos, index_sets, unread)
      /\ release \in Submission /\ unread \in SUBSET DOMAIN infos
  BY <1>1 DEF RecordsInv
<1>4. Examined' = Examined /\ (NamesTellSets' <=> NamesTellSets)
  BY <1>1, SameNzb
<1>5. fetches' \in 0..MaxIndexFetches
  <2>1. fetched => fetches < MaxIndexFetches
    OBVIOUS
  <2>2. MaxIndexFetches \in Nat
    BY ImportAssumption
  <2> HIDE DEF fetched
  <2> QED
    BY <1>1, <1>3, <2>1, <2>2
<1>6. /\ GroupsApart(infos, Tail(groups), index_sets) /\ 1 \in DOMAIN groups /\ group = groups[1]
      /\ GroupsAlike(infos, groups) => GroupsAlike(infos, Tail(groups))
  BY <1>1, <1>3, RestApart
<1>7. group.members \in SUBSET DOMAIN infos /\ group.index \in group.members
  BY <1>3, <1>6 DEF GroupsApart
<1>8. Told(info, Examined) /\ DOMAIN infos \in SUBSET Nat
  BY <1>3, <1>7 DEF AllTold
<1> HIDE DEF fetched
<1>9. ASSUME NEW id, id = GroupOf(info)
      PROVE  LET new == Joined(index_sets, id, group.members)
             IN  /\ GroupsApart(infos, Tail(groups), new) /\ SetsApart(infos, new)
                 /\ NamesTellSets => SetsAlike(infos, new, unread)
  BY <1>1, <1>3, <1>8, <1>9, JoinKeeps
<1>10. ASSUME NEW id, id = GroupOf(info), ~Known(id)
       PROVE  LET new == Append(index_sets, [id |-> id, index |-> group.index, members |-> group.members])
              IN  /\ GroupsApart(infos, Tail(groups), new) /\ SetsApart(infos, new)
                  /\ NamesTellSets => SetsAlike(infos, new, unread)
  <2>1. \A k \in DOMAIN index_sets : index_sets[k].id # id
    BY <1>10 DEF Known
  <2>2. infos[group.index].segments[1] \in DOMAIN Content
    BY <1>8 DEF Told
  <2> QED
    BY <1>1, <1>3, <1>8, <1>10, <2>1, <2>2, PushKeeps
<1>11. /\ GroupsApart(infos, Tail(groups), index_sets') /\ SetsApart(infos, index_sets')
       /\ unread' \in SUBSET DOMAIN infos
       /\ NamesTellSets => SetsAlike(infos, index_sets', unread')
  <2>1. CASE SkipIndex(group)
    <3>1. index_sets' = index_sets /\ unread' = unread \union group.members
      BY <2>1 DEF SkipIndex
    <3>2. NamesTellSets => SetsAlike(infos, index_sets, unread \union group.members)
      BY <1>3 DEF SetsAlike
    <3> QED
      BY <1>3, <1>6, <1>7, <3>1, <3>2
  <2>2. ASSUME NEW id, id = GroupOf(info), Join(group, id)
        PROVE  <1>11
    <3>1. index_sets' = Joined(index_sets, id, group.members) /\ unread' = unread
      BY <2>2 DEF Join, Joined
    <3> QED
      BY <1>3, <1>9, <2>2, <3>1
  <2>3. CASE Known(info.head) /\ Join(group, info.head)
    <3>1. info.head # NoHash
      <4>1. \A k \in DOMAIN index_sets : index_sets[k] \in SetType
        BY <1>3, Elements DEF SetsApart
      <4>2. PICK k \in DOMAIN index_sets : index_sets[k].id = info.head
        BY <2>3 DEF Known
      <4>3. info.head \in {Post[p].group : p \in DOMAIN Post}
        BY <4>1, <4>2 DEF SetType
      <4> HIDE DEF info
      <4> QED
        BY <4>3, ImportAssumption
    <3>2. info.head = GroupOf(info)
      BY <1>8, <3>1 DEF Told
    <3> QED
      BY <2>2, <2>3, <3>2
  <2>4. CASE post.group = GroupOf(info) /\ KeepSet(group, post.group)
    <3>1. CASE Known(post.group)
      BY <2>2, <2>4, <3>1 DEF KeepSet
    <3>2. CASE ~Known(post.group)
      <4>1. index_sets' = Append(index_sets, [id |-> post.group, index |-> group.index,
                                              members |-> group.members]) /\ unread' = unread
        BY <2>4, <3>2 DEF KeepSet, PushSet
      <4> QED
        BY <1>3, <1>10, <2>4, <3>2, <4>1
    <3> QED
      BY <3>1, <3>2
  <2> QED
    BY <1>2, <2>1, <2>3, <2>4
<1>12. stage' \in {"index", "failed"}
  BY <1>1
<1>13. RecordsAreTrue'
  BY <1>12, NotDone
<1> HIDE DEF group, info, post
<1> QED
  BY <1>1, <1>3, <1>4, <1>5, <1>6, <1>11, <1>12, <1>13 DEF RecordsInv

(* Resolving a file gives it a name.                                        *)
LEMMA ResolvedIs ==
    ASSUME NEW info \in InfoType
    PROVE  /\ Resolved(info).hash = info.hash /\ Resolved(info).segments = info.segments
           /\ Resolved(info).index = info.index /\ Resolved(info).rar = info.rar
<1> DEFINE matches == SelectSeq(Descriptors, LAMBDA d : d.hash = info.hash)
           told == info.hash = NoHash \/ matches = <<>>
           name == matches[1].name
<1>1. Resolved(info) = IF told THEN info ELSE [info EXCEPT !.name = name]
  BY DEF Resolved
<1> HIDE DEF told, name
<1>2. /\ [info EXCEPT !.name = name].hash = info.hash
      /\ [info EXCEPT !.name = name].segments = info.segments
      /\ [info EXCEPT !.name = name].index = info.index
      /\ [info EXCEPT !.name = name].rar = info.rar
  BY DEF InfoType
<1> QED
  BY <1>1, <1>2

Merged(known, skipped) == [known EXCEPT ![1].members = known[1].members \union skipped]

(* The only set has what no set could be told for.                          *)
LEMMA OnlySetKeeps ==
    ASSUME NEW list, NEW known, NEW skipped \in SUBSET DOMAIN list, SetsApart(list, known),
           DOMAIN list \in SUBSET Nat, Len(known) = 1
    PROVE  /\ SetsApart(list, Merged(known, skipped))
           /\ SetsAlike(list, known, skipped) => SetsAlike(list, Merged(known, skipped), skipped)
<1> DEFINE new == Merged(known, skipped)
           set == [known[1] EXCEPT !.members = known[1].members \union skipped]
<1>1. known \in Seq(SetType) /\ DOMAIN known = {1} /\ known[1] \in SetType
  BY DEF SetsApart
<1>2. /\ known[1].members \in SUBSET DOMAIN list /\ known[1].index \in DOMAIN list
      /\ list[known[1].index].segments[1] \in DOMAIN Content
  BY <1>1 DEF SetsApart
<1>3. /\ set \in SetType /\ set.id = known[1].id /\ set.index = known[1].index
      /\ set.members = known[1].members \union skipped
  BY <1>1, <1>2 DEF SetType
<1>4. new = [known EXCEPT ![1] = set]
  BY <1>1 DEF Merged
<1> HIDE DEF set, new
<1>5. new \in Seq(SetType) /\ DOMAIN new = {1} /\ new[1] = set
  <2>1. 1 \in 1..Len(known) /\ set \in SetType
    BY <1>3
  <2>2. new \in Seq(SetType)
    BY <1>1, <1>4, <2>1, ExceptSeq
  <2> QED
    BY <1>1, <1>4, <2>2
<1>6. SetsApart(list, new)
  BY <1>2, <1>3, <1>5 DEF SetsApart
<1>7. SetsAlike(list, known, skipped) => SetsAlike(list, new, skipped)
  BY <1>1, <1>3, <1>5 DEF SetsAlike
<1> QED
  BY <1>6, <1>7 DEF new

(* The files get their names, and the other files come after them.          *)
LEMMA ResolveKeeps ==
    ASSUME RecordsInv, Resolve
    PROVE  RecordsInv'
<1>1. /\ stage = "index" /\ stage' \in {"probe", "aggregate"} /\ job' = job /\ release' = release
      /\ unread' = unread /\ fetches' = fetches
      /\ infos' = [k \in DOMAIN infos |-> Resolved(infos[k])] \o SkippedSingles
      /\ index_sets' = IF Len(index_sets) = 1 THEN Merged(index_sets, unread) ELSE index_sets
  BY DEF Resolve, Merged
<1>2. /\ job.files \in Seq(FileType) /\ AllTold(infos, Examined) /\ fetches \in 0..MaxIndexFetches
      /\ unread \in SUBSET DOMAIN infos /\ SetsApart(infos, index_sets)
      /\ NamesTellSets => SetsAlike(infos, index_sets, unread)
      /\ release \in Submission
  BY <1>1 DEF RecordsInv
<1>3. NamesTellSets' <=> NamesTellSets
  BY <1>1, SameNzb
<1>4. infos \in Seq(InfoType) /\ \A k \in DOMAIN infos : Told(infos[k], Examined)
  BY <1>2 DEF AllTold
<1>5. DOMAIN infos = 1..Len(infos) /\ Len(infos) \in Nat /\ \A k \in DOMAIN infos : infos[k] \in InfoType
  BY <1>4, Elements
<1> DEFINE named == [k \in DOMAIN infos |-> Resolved(infos[k])]
           T == {Resolved(infos[k]) : k \in DOMAIN infos}
<1>6. PICK S : SkippedSingles \in Seq(S) /\ \A k \in DOMAIN SkippedSingles : SkippedSingles[k].hash = NoHash
  BY <1>2, ExaminedAre
<1>7. named \in Seq(T) /\ Len(named) = Len(infos) /\ \A k \in DOMAIN infos : named[k] = Resolved(infos[k])
  <2>1. \A k \in 1..Len(infos) : Resolved(infos[k]) \in T
    BY <1>5
  <2>2. named = [k \in 1..Len(infos) |-> Resolved(infos[k])]
    BY <1>5
  <2> HIDE DEF T
  <2> QED
    BY <1>5, <2>1, <2>2
<1>8. \A k \in DOMAIN infos : named[k].hash = infos[k].hash /\ named[k].segments = infos[k].segments
  BY <1>5, <1>7, ResolvedIs
<1> DEFINE skipped == SkippedSingles
           all == named \o skipped
<1> HIDE DEF named, T, skipped
<1>9. /\ skipped \in Seq(S) /\ \A k \in DOMAIN skipped : skipped[k].hash = NoHash
  BY <1>6 DEF skipped
<1>10. /\ DOMAIN all = 1..(Len(named) + Len(skipped)) /\ Len(skipped) \in Nat
       /\ \A k \in 1..Len(named) : all[k] = named[k]
       /\ \A k \in (Len(named) + 1)..(Len(named) + Len(skipped)) : all[k] = skipped[k - Len(named)]
  <2>1. named \in Seq(T \union S) /\ skipped \in Seq(T \union S)
    BY <1>7, <1>9
  <2>2. \A i \in 1..(Len(named) + Len(skipped)) :
          all[i] = IF i <= Len(named) THEN named[i] ELSE skipped[i - Len(named)]
    BY <2>1, ConcatProperties
  <2>3. all \in Seq(T \union S) /\ Len(all) = Len(named) + Len(skipped)
    BY <2>1, ConcatProperties
  <2>4. Len(named) \in Nat /\ Len(skipped) \in Nat
    BY <2>1
  <2>5. DOMAIN all = 1..(Len(named) + Len(skipped))
    BY <2>3
  <2> HIDE DEF all
  <2> QED
    BY <2>2, <2>4, <2>5
<1>11. infos' = all
  BY <1>1 DEF named, skipped
<1> HIDE DEF all
<1>12. ASSUME NEW k \in DOMAIN all
       PROVE  \/ /\ k \in DOMAIN infos /\ all[k].hash = infos[k].hash
                 /\ all[k].segments = infos[k].segments
              \/ all[k].hash = NoHash
  <2>1. CASE k \in 1..Len(infos)
    BY <1>5, <1>7, <1>8, <1>10, <2>1
  <2>2. CASE k \notin 1..Len(infos)
    <3>1. k \in (Len(named) + 1)..(Len(named) + Len(skipped)) /\ k - Len(named) \in 1..Len(skipped)
      BY <1>5, <1>7, <1>10, <2>2
    <3> QED
      BY <1>9, <1>10, <3>1
  <2> QED
    BY <2>1, <2>2
<1>13. /\ DOMAIN infos \in SUBSET DOMAIN all /\ DOMAIN all \in SUBSET Nat
       /\ \A k \in DOMAIN infos : all[k].segments = infos[k].segments
  BY <1>5, <1>7, <1>8, <1>10
<1>14. Hashed(all)
  <2> SUFFICES ASSUME NEW k \in DOMAIN all, all[k].hash \notin Unhashed
               PROVE  Begins(all[k], all[k].hash)
    BY DEF Hashed
  <2>1. k \in DOMAIN infos /\ all[k].hash = infos[k].hash /\ all[k].segments = infos[k].segments
    BY <1>12 DEF Unhashed
  <2>2. Begins(infos[k], infos[k].hash)
    BY <1>4, <2>1 DEF Told
  <2> QED
    BY <2>1, <2>2 DEF Begins
<1>15. /\ SetsApart(infos, index_sets')
       /\ NamesTellSets => SetsAlike(infos, index_sets', unread)
  <2>1. CASE Len(index_sets) = 1
    <3> DEFINE new == Merged(index_sets, unread)
    <3>1. /\ SetsApart(infos, new)
          /\ SetsAlike(infos, index_sets, unread) => SetsAlike(infos, new, unread)
      BY <1>2, <1>5, <2>1, OnlySetKeeps
    <3>2. index_sets' = new
      BY <1>1, <2>1
    <3> HIDE DEF new
    <3> QED
      BY <1>2, <3>1, <3>2
  <2>2. CASE Len(index_sets) # 1
    BY <1>1, <1>2, <2>2
  <2> QED
    BY <2>1, <2>2
<1>16. SetsApart(all, index_sets')
  BY <1>13, <1>15 DEF SetsApart
<1>17. NamesTellSets => SetsAlike(all, index_sets', unread)
  BY <1>13, <1>15 DEF SetsApart, SetsAlike, GroupOf
<1>18. RecordsAreTrue'
  BY <1>1, NotDone
<1> QED
  BY <1>1, <1>2, <1>3, <1>11, <1>13, <1>14, <1>16, <1>17, <1>18 DEF RecordsInv

(* The volumes tell nothing of the PAR2 sets.                               *)
LEMMA VolumesKeep ==
    ASSUME RecordsInv,
           UNCHANGED <<release, job, infos, groups, index_sets, unread, fetches, imported>>,
           stage \in {"probe", "volumes"}, stage' \in {"volumes", "aggregate", "failed"}
    PROVE  RecordsInv'
<1>1. NamesTellSets' <=> NamesTellSets
  BY SameNzb
<1>2. RecordsAreTrue'
  BY NotDone
<1> QED
  BY <1>1, <1>2 DEF RecordsInv

(* The record of a set.                                                     *)
LEMMA RecordIs ==
    ASSUME DOMAIN infos \in SUBSET Nat, Hashed(infos), SetsApart(infos, index_sets),
           NEW k \in DOMAIN index_sets, NEW items
    PROVE  LET record == RecordOf(index_sets[k], items)
           IN  /\ record.id = index_sets[k].id /\ record.volumes \in SUBSET index_sets[k].members
               /\ \A n \in DOMAIN record.files :
                    /\ record.files[n].carrier # <<>>
                         => Begins(record.files[n].carrier[1], record.files[n].hash)
                    /\ record.files[n].items \subseteq DOMAIN items
                    /\ \A i \in DOMAIN items :
                         i \in record.files[n].items <=> Reads(items[i], record.files[n].carrier)
<1> DEFINE set == index_sets[k]
           record == RecordOf(set, items)
           protected == PostOf(infos[set.index].segments[1]).descriptors
           Readers(info) == {i \in DOMAIN items : Articles(items[i]) \intersect ToSet(info.segments) # {}}
<1>1. \A n \in DOMAIN protected : protected[n].hash \notin Unhashed
  <2>1. infos[set.index].segments[1] \in DOMAIN Content
    BY DEF SetsApart
  <2> HIDE DEF set
  <2> QED
    BY <2>1, ImportAssumption DEF PostOf, Unhashed
<1>2. record.id = set.id /\ record.volumes \in SUBSET set.members
  BY DEF RecordOf
<1>3. record.files = [n \in DOMAIN protected |->
            [hash |-> protected[n].hash, carrier |-> Carrier(protected[n]),
             items |-> IF Carrier(protected[n]) = <<>> THEN {} ELSE Readers(Carrier(protected[n])[1])]]
  BY DEF RecordOf
<1> HIDE DEF protected, record, set
<1>4. ASSUME NEW n \in DOMAIN protected, Carrier(protected[n]) # <<>>
      PROVE  Begins(Carrier(protected[n])[1], protected[n].hash)
  <2> DEFINE hash == protected[n].hash
             matches == {j \in DOMAIN infos : ~infos[j].par2 /\ infos[j].hash = hash}
             named == {j \in matches : infos[j].name = protected[n].name}
             from == IF named # {} THEN named ELSE matches
             least == LeastIn(from)
  <2>1. matches # {} /\ Carrier(protected[n]) = <<infos[least]>>
    BY <1>4 DEF Carrier
  <2>2. from \in SUBSET matches /\ from # {} /\ from \in SUBSET Nat
    BY <2>1
  <2> HIDE DEF from
  <2>3. least \in from
    BY <2>2, LeastOf DEF LeastIn
  <2>4. least \in DOMAIN infos /\ infos[least].hash = hash
    BY <2>2, <2>3
  <2> HIDE DEF least, hash
  <2>5. hash \notin Unhashed
    BY <1>1 DEF hash
  <2>6. Begins(infos[least], hash)
    BY <2>4, <2>5 DEF Hashed
  <2> QED
    BY <2>1, <2>6 DEF hash
<1>5. ASSUME NEW n \in DOMAIN record.files
      PROVE  /\ record.files[n].carrier # <<>>
                  => Begins(record.files[n].carrier[1], record.files[n].hash)
             /\ record.files[n].items \subseteq DOMAIN items
             /\ \A i \in DOMAIN items :
                  i \in record.files[n].items <=> Reads(items[i], record.files[n].carrier)
  <2> DEFINE carrier == Carrier(protected[n])
             file == record.files[n]
  <2>1. n \in DOMAIN protected
    BY <1>3
  <2>2. /\ file.hash = protected[n].hash /\ file.carrier = carrier
        /\ file.items = IF carrier = <<>> THEN {} ELSE Readers(carrier[1])
    <3> DEFINE readers == IF carrier = <<>> THEN {} ELSE Readers(carrier[1])
    <3>1. file = [hash |-> protected[n].hash, carrier |-> carrier, items |-> readers]
      BY <1>3, <2>1
    <3> HIDE DEF readers, file
    <3>2. file.hash = protected[n].hash /\ file.carrier = carrier /\ file.items = readers
      BY <3>1
    <3> QED
      BY <3>2 DEF readers
  <2>3. carrier # <<>> => Begins(carrier[1], protected[n].hash)
    BY <1>4, <2>1
  <2> HIDE DEF carrier, file
  <2>4. /\ file.items \subseteq DOMAIN items
        /\ \A i \in DOMAIN items : i \in file.items <=> Reads(items[i], carrier)
    BY <2>2 DEF Reads
  <2> QED
    BY <2>2, <2>3, <2>4 DEF file
<1> QED
  BY <1>2, <1>5 DEF record, set

(* The records are written.                                                 *)
LEMMA AggregateKeeps ==
    ASSUME RecordsInv, NEW order, Aggregate(order)
    PROVE  RecordsInv'
<1>1. /\ stage = "aggregate" /\ UNCHANGED <<release, job, infos, index_sets, unread, fetches>>
      /\ stage' \in {"done", "failed"}
      /\ stage' = "done" => \E items :
            /\ imported'.items = items
            /\ imported'.records = [k \in DOMAIN index_sets |-> RecordOf(index_sets[k], items)]
  <2> DEFINE renamed == Renamed(RarItems(order) \o PlainItems)
             items == Selected(renamed, {k \in DOMAIN renamed : renamed[k].name \notin Blocklist})
             importable == ~VideoRequired \/ \E k \in DOMAIN items : Video(items[k])
             records == [k \in DOMAIN index_sets |-> RecordOf(index_sets[k], items)]
  <2>1. /\ stage = "aggregate" /\ UNCHANGED <<release, job, infos, index_sets, unread, fetches>>
        /\ IF importable
           THEN /\ stage' = "done"
                /\ imported' = [items |-> items, strms |-> Strms(items), records |-> records]
           ELSE stage' = "failed"
    BY DEF Aggregate
  <2> HIDE DEF items, importable, records
  <2>2. stage' = "done" => imported'.items = items /\ imported'.records = records
    BY <2>1
  <2> QED
    BY <2>1, <2>2 DEF records
<1>2. /\ job.files \in Seq(FileType) /\ DOMAIN infos \in SUBSET Nat /\ Hashed(infos)
      /\ fetches \in 0..MaxIndexFetches /\ SetsApart(infos, index_sets)
      /\ NamesTellSets => SetsAlike(infos, index_sets, unread)
      /\ release \in Submission
  BY <1>1 DEF RecordsInv
<1>3. NamesTellSets' <=> NamesTellSets
  BY <1>1, SameNzb
<1>4. ASSUME stage' = "done"
      PROVE  RecordsAreTrue'
  <2> DEFINE records == imported'.records
  <2>1. PICK items : /\ imported'.items = items
                     /\ records = [k \in DOMAIN index_sets |-> RecordOf(index_sets[k], items)]
    BY <1>1, <1>4
  <2> HIDE DEF records
  <2>2. ASSUME NEW k \in DOMAIN records
        PROVE  /\ k \in DOMAIN index_sets
               /\ records[k].id = index_sets[k].id /\ records[k].volumes \in SUBSET index_sets[k].members
               /\ \A n \in DOMAIN records[k].files :
                    /\ records[k].files[n].carrier # <<>>
                         => Begins(records[k].files[n].carrier[1], records[k].files[n].hash)
                    /\ records[k].files[n].items \subseteq DOMAIN items
                    /\ \A i \in DOMAIN items :
                         i \in records[k].files[n].items <=> Reads(items[i], records[k].files[n].carrier)
    <3> DEFINE record == RecordOf(index_sets[k], items)
    <3>1. k \in DOMAIN index_sets /\ records[k] = record
      BY <2>1
    <3>2. /\ record.id = index_sets[k].id /\ record.volumes \in SUBSET index_sets[k].members
          /\ \A n \in DOMAIN record.files :
               /\ record.files[n].carrier # <<>>
                    => Begins(record.files[n].carrier[1], record.files[n].hash)
               /\ record.files[n].items \subseteq DOMAIN items
               /\ \A i \in DOMAIN items :
                    i \in record.files[n].items <=> Reads(items[i], record.files[n].carrier)
      BY <1>2, <3>1, RecordIs
    <3> HIDE DEF record
    <3> QED
      BY <3>1, <3>2
  <2>3. ASSUME NEW j \in DOMAIN records, NEW k \in DOMAIN records, j # k
        PROVE  records[j].id # records[k].id /\ records[j].volumes \intersect records[k].volumes = {}
    BY <1>2, <2>2, <2>3 DEF SetsApart
  <2>4. ASSUME NamesTellSets, NEW k \in DOMAIN records, NEW v \in records[k].volumes \ unread
        PROVE  PostOf(infos[v].segments[1]).group = records[k].id
    BY <1>2, <2>2, <2>4 DEF SetsAlike, GroupOf
  <2>5. fetches <= MaxIndexFetches
    BY <1>2, ImportAssumption
  <2> QED
    <3>1. \A j, k \in DOMAIN imported'.records : j # k =>
            /\ imported'.records[j].id # imported'.records[k].id
            /\ imported'.records[j].volumes \intersect imported'.records[k].volumes = {}
      BY <2>3 DEF records
    <3>2. \A k \in DOMAIN imported'.records : NamesTellSets' =>
            \A v \in imported'.records[k].volumes \ unread' :
                PostOf(infos'[v].segments[1]).group = imported'.records[k].id
      BY <1>1, <1>3, <2>4 DEF records
    <3>3. \A k \in DOMAIN imported'.records : \A n \in DOMAIN imported'.records[k].files :
            /\ imported'.records[k].files[n].carrier # <<>>
                 => Begins(imported'.records[k].files[n].carrier[1], imported'.records[k].files[n].hash)
            /\ imported'.records[k].files[n].items \subseteq DOMAIN imported'.items
            /\ \A i \in DOMAIN imported'.items :
                 i \in imported'.records[k].files[n].items
                   <=> Reads(imported'.items[i], imported'.records[k].files[n].carrier)
      BY <2>1, <2>2 DEF records
    <3>4. fetches' <= MaxIndexFetches
      BY <1>1, <2>5
    <3> QED
      BY <3>1, <3>2, <3>3, <3>4 DEF RecordsAreTrue
<1>5. RecordsAreTrue'
  BY <1>1, <1>4, NotDone
<1>6. stage' \notin {"parse", "first", "index", "probe", "volumes", "aggregate"}
  BY <1>1
<1> QED
  BY <1>1, <1>2, <1>5, <1>6 DEF RecordsInv

(* The invariant holds at first.                                            *)
LEMMA InitRecordsInv == ImportInit => RecordsInv
BY DEF ImportInit, RecordsInv, NothingRead, RecordsAreTrue

(* Every step keeps it.                                                     *)
LEMMA NextRecordsInv == RecordsInv /\ [ImportNext]_importVars => RecordsInv'
<1> SUFFICES ASSUME RecordsInv, [ImportNext]_importVars PROVE RecordsInv'
  OBVIOUS
<1>1. CASE ParseDocument
  BY <1>1, ParseDocumentKeeps
<1>2. CASE CollectFirst
  BY <1>2, CollectFirstKeeps
<1>3. CASE Resolve
  BY <1>3, ResolveKeeps
<1>4. CASE CollectVolumes
  BY <1>4, VolumesKeep DEF CollectVolumes
<1>5. ASSUME NEW outcome \in {"found", "missing", "error"}, NEW k \in waiting, FetchFirst(k, outcome)
      PROVE  RecordsInv'
  BY <1>5, FetchFirstKeeps
<1>6. ASSUME NEW outcome \in {"found", "missing", "error"}, NEW k \in waiting, ParseVolume(k, outcome)
      PROVE  RecordsInv'
  BY <1>6, VolumesKeep DEF ParseVolume
<1>7. ASSUME NEW outcome \in {"found", "missing", "error"}, ReadGroup(outcome)
      PROVE  RecordsInv'
  BY <1>7, ReadGroupKeeps
<1>8. ASSUME NEW outcome \in {"found", "missing", "error"}, ProbeVolume(outcome)
      PROVE  RecordsInv'
  BY <1>8, VolumesKeep DEF ProbeVolume
<1>9. ASSUME NEW order \in SetToSeqs(Names), Aggregate(order)
      PROVE  RecordsInv'
  BY <1>9, AggregateKeeps
<1>10. CASE UNCHANGED importVars
  <2>1. NamesTellSets' <=> NamesTellSets
    BY <1>10, SameNzb DEF importVars
  <2>2. Examined' = Examined
    BY <1>10, SameNzb DEF importVars
  <2>3. RecordsAreTrue'
    BY <1>10, <2>1 DEF importVars, RecordsInv, RecordsAreTrue
  <2> QED
    BY <1>10, <2>1, <2>2, <2>3 DEF importVars, RecordsInv, NothingRead
<1> QED
  BY <1>1, <1>2, <1>3, <1>4, <1>5, <1>6, <1>7, <1>8, <1>9, <1>10 DEF ImportNext

-----------------------------------------------------------------------------
(* The headers of a volume.                                                 *)

(* What each block before the k-th takes.                                   *)
Spans(blocks, k) == [i \in 1..(k - 1) |-> Header + blocks[i].data]

(* Where a block is.                                                        *)
LEMMA BlockAtIs ==
    ASSUME NEW blocks \in Seq(BlockType), NEW from \in Nat, NEW k \in 1..(Len(blocks) + 1)
    PROVE  /\ IsFiniteSet(1..(k - 1)) /\ Spans(blocks, k) \in [1..(k - 1) -> Nat]
           /\ Sum(Spans(blocks, k), 1..(k - 1)) \in Nat
           /\ BlockAt(blocks, from, k) = from + Sum(Spans(blocks, k), 1..(k - 1))
           /\ BlockAt(blocks, from, k) \in Nat
<1>1. \A i \in 1..(k - 1) : i \in DOMAIN blocks
  BY Elements
<1>2. \A i \in 1..(k - 1) : Header + blocks[i].data \in Nat
  <2>1. \A i \in 1..(k - 1) : blocks[i] \in BlockType
    BY <1>1, Elements
  <2> QED
    BY <2>1 DEF BlockType, Header
<1>3. Spans(blocks, k) \in [1..(k - 1) -> Nat]
  BY <1>2 DEF Spans
<1>4. IsFiniteSet(1..(k - 1))
  <2>1. 1 \in Int /\ k - 1 \in Int
    OBVIOUS
  <2> QED
    BY <2>1, FS_Interval
<1>5. SumOf(Spans(blocks, k)) = Sum(Spans(blocks, k), 1..(k - 1)) /\ SumOf(Spans(blocks, k)) \in Nat
  BY <1>3, <1>4, SumOfIs
<1>6. BlockAt(blocks, from, k) = from + SumOf(Spans(blocks, k))
  BY DEF BlockAt, Spans
<1> QED
  BY <1>3, <1>4, <1>5, <1>6

(* A block is behind the header and the data of those before it.            *)
LEMMA BlockAtGrows ==
    ASSUME NEW blocks \in Seq(BlockType), NEW from \in Nat,
           NEW j \in 1..(Len(blocks) + 1), NEW k \in 1..(Len(blocks) + 1), j < k
    PROVE  BlockAt(blocks, from, j) + Header <= BlockAt(blocks, from, k)
<1> DEFINE n == j + 1
           w == Spans(blocks, k)
           v == Spans(blocks, n)
           u == Spans(blocks, j)
<1>1. n \in 1..(Len(blocks) + 1) /\ n - 1 = j /\ j \in Nat /\ j - 1 \in Nat /\ (j - 1) + 1 = j
  OBVIOUS
<1>2. j \in DOMAIN blocks /\ blocks[j].data \in Nat
  <2>1. j \in DOMAIN blocks
    BY Elements
  <2>2. blocks[j] \in BlockType
    BY <2>1, Elements
  <2> QED
    BY <2>1, <2>2 DEF BlockType
<1>3. /\ IsFiniteSet(1..(k - 1)) /\ w \in [1..(k - 1) -> Nat]
      /\ Sum(w, 1..(k - 1)) \in Nat /\ BlockAt(blocks, from, k) = from + Sum(w, 1..(k - 1))
  BY BlockAtIs
<1>4. v \in [1..j -> Nat] /\ Sum(v, 1..j) \in Nat
  BY <1>1, BlockAtIs
<1>5. /\ u \in [1..(j - 1) -> Nat] /\ Sum(u, 1..(j - 1)) \in Nat
      /\ BlockAt(blocks, from, j) = from + Sum(u, 1..(j - 1))
  BY BlockAtIs
<1>6. v[j] = Header + blocks[j].data /\ \A i \in 1..(j - 1) : u[i] = v[i]
  BY <1>1 DEF Spans
<1>7. v = Of(w, 1..j)
  BY <1>1 DEF Spans, Of
<1>8. 1..j \in SUBSET (1..(k - 1))
  OBVIOUS
<1> HIDE DEF n, u, v, w
<1>9. Sum(v, 1..j) <= Sum(w, 1..(k - 1))
  BY <1>3, <1>7, <1>8, SumOfPart
<1>10. Sum(v, 1..j) = Sum(u, 1..(j - 1)) + v[j]
  <2>1. PICK m \in Nat : m = j - 1 /\ m + 1 = j
    BY <1>1
  <2>2. v \in [1..(m + 1) -> Int] /\ u \in [1..m -> Int] /\ \A i \in 1..m : u[i] = v[i]
    BY <1>4, <1>5, <1>6, <2>1
  <2>3. Sum(v, 1..(m + 1)) = Sum(u, 1..m) + v[m + 1]
    BY <2>2, SumOfNext
  <2> QED
    BY <2>1, <2>3
<1>11. Header \in Nat
  BY DEF Header
<1>12. \A a, b, c, d, h \in Nat : c + (h + d) <= b => a + c + h <= a + b
  OBVIOUS
<1>13. Sum(u, 1..(j - 1)) + (Header + blocks[j].data) <= Sum(w, 1..(k - 1))
  BY <1>6, <1>9, <1>10
<1>14. from + Sum(u, 1..(j - 1)) + Header <= from + Sum(w, 1..(k - 1))
  BY <1>2, <1>3, <1>5, <1>11, <1>12, <1>13
<1> QED
  BY <1>3, <1>5, <1>14

(* The headers of all blocks, and why the walk stops at one.                *)
FileHeaders(blocks) == [k \in DOMAIN blocks |-> FileHeader(blocks[k], BlockAt(blocks, Magic, k))]

Reason(blocks, available, version, k) ==
    Stop(blocks[k], BlockAt(blocks, Magic, k), available, version, "wire")

(* The walk ends at the first block with a reason to, or behind the last.   *)
LEMMA WalkIs ==
    ASSUME NEW blocks \in Seq(BlockType), NEW available, NEW version
    PROVE  LET walk == Walked(blocks, Magic, available, version, "wire")
           IN  \E last \in 1..(Len(blocks) + 1) :
                 /\ \A k \in 1..(last - 1) : Reason(blocks, available, version, k) = "none"
                 /\ last \in DOMAIN blocks => /\ walk.stop = Reason(blocks, available, version, last)
                                              /\ walk.stop # "none"
                 /\ last \notin DOMAIN blocks => walk.stop = "none"
                 /\ walk.found = Selected(FileHeaders(blocks), {k \in 1..(last - 1) : blocks[k].type = "file"})
<1> DEFINE walk == Walked(blocks, Magic, available, version, "wire")
           at == [k \in 1..(Len(blocks) + 1) |-> BlockAt(blocks, Magic, k)]
           why == [k \in DOMAIN blocks |-> Stop(blocks[k], at[k], available, version, "wire")]
           ends == {k \in DOMAIN blocks : why[k] # "none"} \union {Len(blocks) + 1}
           last == LeastIn(ends)
           header == [k \in DOMAIN blocks |-> FileHeader(blocks[k], at[k])]
           reached == {k \in 1..(last - 1) : blocks[k].type = "file"}
<1>1. DOMAIN blocks = 1..Len(blocks) /\ Len(blocks) \in Nat
  BY Elements
<1>2. \A k \in DOMAIN blocks : why[k] = Reason(blocks, available, version, k)
  BY <1>1 DEF Reason
<1>3. header = FileHeaders(blocks)
  BY <1>1 DEF FileHeaders
<1>4. walk.found = Selected(header, reached) /\ walk.stop = IF last \in DOMAIN blocks THEN why[last] ELSE "none"
  BY DEF Walked
<1> HIDE DEF walk, why, header
<1>5. ends \in SUBSET Nat /\ ends # {} /\ ends \in SUBSET (1..(Len(blocks) + 1))
  BY <1>1
<1>6. \A k : k \in ends <=> (k \in DOMAIN blocks /\ why[k] # "none") \/ k = Len(blocks) + 1
  OBVIOUS
<1> HIDE DEF ends
<1>7. last \in ends /\ \A k \in ends : last <= k
  BY <1>5, LeastOf DEF LeastIn
<1> HIDE DEF last
<1>8. last \in 1..(Len(blocks) + 1)
  BY <1>5, <1>7
<1>9. \A k \in 1..(last - 1) : k \in DOMAIN blocks /\ k \notin ends
  <2>1. \A k \in 1..(last - 1) : k \in Nat /\ ~(last <= k)
    BY <1>8
  <2>2. \A k \in 1..(last - 1) : k \in DOMAIN blocks
    BY <1>1, <1>8
  <2> QED
    BY <1>7, <2>1, <2>2
<1>10. \A k \in 1..(last - 1) : Reason(blocks, available, version, k) = "none"
  BY <1>2, <1>6, <1>9
<1>11. last \in DOMAIN blocks => /\ walk.stop = Reason(blocks, available, version, last)
                                 /\ walk.stop # "none"
  <2>1. ASSUME last \in DOMAIN blocks PROVE why[last] # "none"
    <3>1. last # Len(blocks) + 1
      BY <1>1, <2>1
    <3> QED
      BY <1>6, <1>7, <3>1
  <2> QED
    BY <1>2, <1>4, <2>1
<1> QED
  BY <1>3, <1>4, <1>8, <1>10, <1>11 DEF walk

(* The files in the part of a volume that is read.                          *)
Wire(blocks, available) ==
    {k \in DOMAIN blocks : /\ blocks[k].type = "file"
                           /\ BlockAt(blocks, Magic, k) + Header <= available
                           /\ \A j \in 1..k : blocks[j].type # "end"}

(* A walk that meets nothing encrypted and ends well finds them.            *)
LEMMA WalkFinds ==
    ASSUME NEW blocks \in Seq(BlockType), NEW available \in Nat, NEW version,
           \A k \in DOMAIN blocks : blocks[k].type # "encryption",
           Walked(blocks, Magic, available, version, "wire").stop \in {"none", "end"}
    PROVE  Walked(blocks, Magic, available, version, "wire").found
             = Selected(FileHeaders(blocks), Wire(blocks, available))
<1> DEFINE walk == Walked(blocks, Magic, available, version, "wire")
           Pos(k) == BlockAt(blocks, Magic, k)
<1>1. PICK last \in 1..(Len(blocks) + 1) :
        /\ \A k \in 1..(last - 1) : Reason(blocks, available, version, k) = "none"
        /\ last \in DOMAIN blocks => /\ walk.stop = Reason(blocks, available, version, last)
                                     /\ walk.stop # "none"
        /\ walk.found = Selected(FileHeaders(blocks), {k \in 1..(last - 1) : blocks[k].type = "file"})
  BY WalkIs
<1> HIDE DEF walk
<1>2. DOMAIN blocks = 1..Len(blocks) /\ Len(blocks) \in Nat
  BY Elements
<1>3. Magic \in Nat /\ \A k \in DOMAIN blocks : k \in 1..(Len(blocks) + 1) /\ Pos(k) \in Nat
  <2>1. Magic \in Nat /\ \A k \in DOMAIN blocks : k \in 1..(Len(blocks) + 1)
    BY <1>2 DEF Magic
  <2> QED
    BY <2>1, BlockAtIs
<1>4. \A j, k \in DOMAIN blocks : j < k => Pos(j) + Header <= Pos(k)
  BY <1>3, BlockAtGrows
<1>5. \A k \in DOMAIN blocks :
        Reason(blocks, available, version, k) = "none" <=>
          /\ Pos(k) + Header <= available
          /\ ~(version = "rar5" /\ ~blocks[k].sound) /\ blocks[k].type # "end"
  <2> SUFFICES ASSUME NEW k \in DOMAIN blocks
               PROVE  Reason(blocks, available, version, k) = "none" <=>
                        /\ Pos(k) + Header <= available
                        /\ ~(version = "rar5" /\ ~blocks[k].sound) /\ blocks[k].type # "end"
    OBVIOUS
  <2> HIDE DEF Pos
  <2>1. Reason(blocks, available, version, k) = Stop(blocks[k], Pos(k), available, version, "wire")
    BY DEF Reason, Pos
  <2>2. Pos(k) \in Nat /\ blocks[k].type # "encryption"
    BY <1>3
  <2> QED
    BY <2>1, <2>2 DEF Stop, CutShort, Header
<1>6. \A k \in DOMAIN blocks :
        Reason(blocks, available, version, k) \in {"none", "end"} /\ Pos(k) + Header <= available =>
          ~(version = "rar5" /\ ~blocks[k].sound)
  <2> SUFFICES ASSUME NEW k \in DOMAIN blocks, Reason(blocks, available, version, k) \in {"none", "end"},
                      Pos(k) + Header <= available
               PROVE  ~(version = "rar5" /\ ~blocks[k].sound)
    OBVIOUS
  <2> HIDE DEF Pos
  <2>1. Reason(blocks, available, version, k) = Stop(blocks[k], Pos(k), available, version, "wire")
    BY DEF Reason, Pos
  <2>2. Pos(k) \in Nat
    BY <1>3
  <2> QED
    BY <2>1, <2>2 DEF Stop, CutShort, Header
<1> HIDE DEF Pos
<1>7. ASSUME NEW k \in 1..(last - 1), blocks[k].type = "file"
      PROVE  k \in Wire(blocks, available)
  <2>1. \A j \in 1..k : j \in DOMAIN blocks /\ Reason(blocks, available, version, j) = "none"
    BY <1>1, <1>2
  <2>2. k \in 1..k
    OBVIOUS
  <2> QED
    BY <1>5, <1>7, <2>1, <2>2 DEF Wire, Pos
<1>8. ASSUME NEW k \in Wire(blocks, available)
      PROVE  k \in 1..(last - 1) /\ blocks[k].type = "file"
  <2>1. /\ k \in DOMAIN blocks /\ blocks[k].type = "file" /\ Pos(k) + Header <= available
        /\ \A j \in 1..k : blocks[j].type # "end"
    BY DEF Wire, Pos
  <2>2. ASSUME last <= k PROVE FALSE
    <3>1. last \in DOMAIN blocks /\ last \in 1..k
      BY <1>2, <2>1, <2>2
    <3>2. Pos(last) + Header <= available
      <4>1. CASE last = k
        BY <2>1, <4>1
      <4>2. CASE last # k
        <5>1. last < k
          BY <1>1, <1>2, <2>1, <2>2, <4>2
        <5>2. Pos(last) + Header <= Pos(k) /\ Pos(k) \in Nat /\ Pos(last) \in Nat
          BY <1>3, <1>4, <2>1, <3>1, <5>1
        <5> QED
          BY <2>1, <5>2 DEF Header
      <4> QED
        BY <4>1, <4>2
    <3>3. Reason(blocks, available, version, last) \in {"none", "end"} /\ Reason(blocks, available, version, last) # "none"
      BY <1>1, <3>1 DEF walk
    <3>4. blocks[last].type # "end"
      BY <2>1, <3>1
    <3> QED
      BY <1>5, <1>6, <3>1, <3>2, <3>3, <3>4
  <2> QED
    BY <1>1, <1>2, <2>1, <2>2
<1>9. {k \in 1..(last - 1) : blocks[k].type = "file"} = Wire(blocks, available)
  BY <1>7, <1>8
<1> QED
  BY <1>1, <1>9 DEF walk

(* What a volume's headers tell when nothing in it is encrypted.            *)
LEMMA ParsedClear ==
    ASSUME NEW volume, volume.blocks \in Seq(BlockType), NEW available \in Nat, NEW password,
           \A k \in DOMAIN volume.blocks : volume.blocks[k].type # "encryption",
           ParseHeaders(volume, available, password).ok
    PROVE  ParseHeaders(volume, available, password).files
             = Selected(FileHeaders(volume.blocks), Wire(volume.blocks, available))
<1> DEFINE blocks == volume.blocks
           plain == Walked(blocks, Magic, available, volume.version, "wire")
           all == IF plain.stop = "encrypted" THEN Unlocked(volume, plain, available, password) ELSE plain
           stored == \A k \in DOMAIN all.found : all.found[k].method = "store"
           headers == ParseHeaders(volume, available, password)
<1>1. headers = IF all.stop \notin {"none", "end"} THEN [ok |-> FALSE, why |-> all.stop, files |-> <<>>]
                ELSE IF ~stored THEN [ok |-> FALSE, why |-> "method", files |-> <<>>]
                ELSE [ok |-> TRUE, why |-> "none", files |-> all.found]
  BY DEF ParseHeaders
<1>2. headers.ok
  OBVIOUS
<1> HIDE DEF headers, stored, all
<1>3. all.stop \in {"none", "end"} /\ headers.files = all.found
  BY <1>1, <1>2
<1>4. plain.stop # "encrypted"
  <2>1. PICK last \in 1..(Len(blocks) + 1) :
          /\ \A k \in 1..(last - 1) : Reason(blocks, available, volume.version, k) = "none"
          /\ last \in DOMAIN blocks => /\ plain.stop = Reason(blocks, available, volume.version, last)
                                       /\ plain.stop # "none"
          /\ last \notin DOMAIN blocks => plain.stop = "none"
          /\ plain.found = Selected(FileHeaders(blocks), {k \in 1..(last - 1) : blocks[k].type = "file"})
    <3> HIDE DEF blocks
    <3> QED
      BY WalkIs DEF blocks
  <2> HIDE DEF plain
  <2>2. CASE last \in DOMAIN blocks
    <3>1. BlockAt(blocks, Magic, last) \in Nat
      BY BlockAtIs DEF Magic
    <3>2. blocks[last].type # "encryption"
      BY <2>2
    <3>3. Reason(blocks, available, volume.version, last) # "encrypted"
      BY <3>1, <3>2 DEF Reason, Stop, CutShort, Header
    <3> QED
      BY <2>1, <2>2, <3>3
  <2>3. CASE last \notin DOMAIN blocks
    BY <2>1, <2>3
  <2> QED
    BY <2>2, <2>3
<1>5. all = plain
  BY <1>4 DEF all
<1>6. plain.found = Selected(FileHeaders(blocks), Wire(blocks, available))
  BY <1>3, <1>5, WalkFinds
<1> QED
  BY <1>3, <1>5, <1>6 DEF headers

(* What a walk finds is a list.                                             *)
LEMMA WalkLists ==
    ASSUME NEW blocks \in Seq(BlockType), NEW from, NEW available, NEW version, NEW source
    PROVE  IsList(Walked(blocks, from, available, version, source).found)
<1> DEFINE walk == Walked(blocks, from, available, version, source)
           at == [k \in 1..(Len(blocks) + 1) |-> BlockAt(blocks, from, k)]
           why == [k \in DOMAIN blocks |-> Stop(blocks[k], at[k], available, version, source)]
           ends == {k \in DOMAIN blocks : why[k] # "none"} \union {Len(blocks) + 1}
           last == LeastIn(ends)
           header == [k \in DOMAIN blocks |-> FileHeader(blocks[k], at[k])]
           reached == {k \in 1..(last - 1) : blocks[k].type = "file"}
<1>1. DOMAIN blocks = 1..Len(blocks) /\ Len(blocks) \in Nat
  BY Elements
<1>2. walk.found = Selected(header, reached)
  BY DEF Walked
<1> HIDE DEF walk, why
<1>3. ends \in SUBSET Nat /\ ends # {} /\ ends \in SUBSET (1..(Len(blocks) + 1))
  BY <1>1
<1> HIDE DEF ends
<1>4. last \in 1..(Len(blocks) + 1)
  BY <1>3, LeastOf DEF LeastIn
<1> HIDE DEF last
<1>5. IsList(header) /\ DOMAIN header = 1..Len(blocks)
  <2>1. header = [k \in 1..Len(blocks) |-> header[k]]
    BY <1>1
  <2> HIDE DEF header
  <2> QED
    BY <1>1, <2>1, ListOf
<1>6. reached \in SUBSET DOMAIN header
  BY <1>1, <1>4, <1>5
<1> HIDE DEF header, reached
<1>7. IsList(Selected(header, reached))
  BY <1>5, <1>6, SelectedLists
<1> QED
  BY <1>2, <1>7 DEF walk

(* The parts of what a walk gives.                                          *)
LEMMA WalkParts ==
    ASSUME NEW blocks, NEW from, NEW available, NEW version, NEW source
    PROVE  LET walk == Walked(blocks, from, available, version, source)
           IN  walk = [position |-> walk.position, found |-> walk.found, stop |-> walk.stop]
<1> DEFINE at == [k \in 1..(Len(blocks) + 1) |-> BlockAt(blocks, from, k)]
           why == [k \in DOMAIN blocks |-> Stop(blocks[k], at[k], available, version, source)]
           last == LeastIn({k \in DOMAIN blocks : why[k] # "none"} \union {Len(blocks) + 1})
           header == [k \in DOMAIN blocks |-> FileHeader(blocks[k], at[k])]
           found == Selected(header, {k \in 1..(last - 1) : blocks[k].type = "file"})
           stop == IF last \in DOMAIN blocks THEN why[last] ELSE "none"
           position == at[last]
           walk == Walked(blocks, from, available, version, source)
<1>1. walk = [position |-> position, found |-> found, stop |-> stop]
  BY DEF Walked
<1> HIDE DEF walk, position, found, stop
<1>2. walk = [position |-> walk.position, found |-> walk.found, stop |-> walk.stop]
  BY <1>1
<1> QED
  BY <1>2 DEF walk

(* So are the files that the headers tell of.                               *)
LEMMA HeadersList ==
    ASSUME NEW volume, volume.blocks \in Seq(BlockType), NEW available, NEW password
    PROVE  IsList(ParseHeaders(volume, available, password).files)
<1> DEFINE blocks == volume.blocks
           plain == Walked(blocks, Magic, available, volume.version, "wire")
           hidden == Hidden(blocks)
           opened == Walked(hidden, 0, (available - (plain.position + Header)) - Vector, "rar5", "decrypted")
           unlocked == Unlocked(volume, plain, available, password)
           all == IF plain.stop = "encrypted" THEN unlocked ELSE plain
           headers == ParseHeaders(volume, available, password)
<1>1. headers.files = all.found \/ headers.files = <<>>
  <2> DEFINE bad == all.stop \notin {"none", "end"}
             stored == \A k \in DOMAIN all.found : all.found[k].method = "store"
  <2>1. headers = IF bad THEN [ok |-> FALSE, why |-> all.stop, files |-> <<>>]
                  ELSE IF ~stored THEN [ok |-> FALSE, why |-> "method", files |-> <<>>]
                  ELSE [ok |-> TRUE, why |-> "none", files |-> all.found]
    BY DEF ParseHeaders
  <2> HIDE DEF headers, bad, stored, all
  <2> QED
    BY <2>1
<1>2. IsList(plain.found)
  BY WalkLists
<1>3. \/ unlocked.found = plain.found \/ unlocked.found = plain.found \o opened.found
  <2> DEFINE skipped == volume.version = "rar4" \/ password = ""
             rest == available - (plain.position + Header)
             right == password = volume.password /\ rest >= Vector + Header /\ hidden # <<>> /\ hidden[1].sound
             after == Walked(hidden, 0, rest - Vector, "rar5", "decrypted")
             found == plain.found \o after.found
  <2>1. unlocked = IF skipped THEN plain
                   ELSE IF right THEN [after EXCEPT !.found = found]
                   ELSE [plain EXCEPT !.stop = "password"]
    BY DEF Unlocked
  <2> DEFINE read(w) == [position |-> w.position, found |-> w.found, stop |-> w.stop]
  <2>2. plain = read(plain) /\ after = read(after)
    BY WalkParts
  <2>3. found = plain.found \o opened.found
    OBVIOUS
  <2> HIDE DEF unlocked, plain, after, skipped, right, found
  <2>4. [after EXCEPT !.found = found].found = found /\ [plain EXCEPT !.stop = "password"].found = plain.found
    BY <2>2
  <2> QED
    BY <2>1, <2>3, <2>4
<1>4. plain.stop = "encrypted" => hidden \in Seq(BlockType)
  <2> SUFFICES ASSUME plain.stop = "encrypted" PROVE hidden \in Seq(BlockType)
    OBVIOUS
  <2> DEFINE locked == {k \in DOMAIN blocks : blocks[k].type = "encryption"}
             First(k) == /\ blocks[k].type = "encryption"
                         /\ \A j \in 1..(k - 1) : blocks[j].type # "encryption"
             at == CHOOSE k \in DOMAIN blocks : First(k)
  <2>1. locked # {}
    <3>1. PICK last \in 1..(Len(blocks) + 1) :
            /\ \A k \in 1..(last - 1) : Reason(blocks, available, volume.version, k) = "none"
            /\ last \in DOMAIN blocks => /\ plain.stop = Reason(blocks, available, volume.version, last)
                                         /\ plain.stop # "none"
            /\ last \notin DOMAIN blocks => plain.stop = "none"
            /\ plain.found = Selected(FileHeaders(blocks), {k \in 1..(last - 1) : blocks[k].type = "file"})
      <4> HIDE DEF blocks
      <4> QED
        BY WalkIs DEF blocks
    <3> HIDE DEF plain
    <3>2. last \in DOMAIN blocks /\ Reason(blocks, available, volume.version, last) = "encrypted"
      BY <3>1
    <3> HIDE DEF blocks
    <3>3. blocks[last].type = "encryption"
      BY <3>2, Zenon DEF Reason, Stop, CutShort
    <3> QED
      BY <3>2, <3>3
  <2>2. DOMAIN blocks = 1..Len(blocks) /\ Len(blocks) \in Nat
    BY Elements
  <2>3. PICK k \in locked : \A j \in locked : k <= j
    <3>1. locked \in SUBSET Nat
      BY <2>2
    <3> HIDE DEF locked
    <3> QED
      BY <2>1, <3>1, LeastOf
  <2> HIDE DEF blocks
  <2>4. k \in DOMAIN blocks /\ First(k)
    <3>1. \A j \in 1..(k - 1) : j \in DOMAIN blocks /\ ~(k <= j)
      BY <2>2
    <3> QED
      BY <2>3, <3>1
  <2> HIDE DEF First
  <2>5. at \in DOMAIN blocks
    BY <2>4
  <2>6. hidden = SubSeq(blocks, at + 1, Len(blocks))
    BY DEF Hidden, First
  <2> HIDE DEF at
  <2>7. blocks \in Seq(BlockType) /\ at \in 1..Len(blocks)
    BY <2>2, <2>5 DEF blocks
  <2> QED
    BY <2>2, <2>6, <2>7
<1>5. IsList(all.found)
  <2>1. CASE plain.stop # "encrypted"
    BY <1>2, <2>1
  <2>2. CASE plain.stop = "encrypted"
    <3>1. hidden \in Seq(BlockType)
      BY <1>4, <2>2
    <3> HIDE DEF hidden
    <3>2. IsList(opened.found)
      BY <3>1, WalkLists
    <3> HIDE DEF opened, plain, unlocked
    <3>3. IsList(plain.found \o opened.found)
      BY <1>2, <3>2, ListsJoined
    <3>4. IsList(unlocked.found)
      BY <1>2, <1>3, <3>3
    <3> QED
      BY <2>2, <3>4
  <2> QED
    BY <2>1, <2>2
<1>6. IsList(<<>>)
  <2>1. <<>> \in Seq({})
    OBVIOUS
  <2> QED
    BY <2>1, ListsAre
<1> HIDE DEF all, headers
<1>7. IsList(headers.files)
  BY <1>1, <1>5, <1>6
<1> QED
  BY <1>7 DEF headers

-----------------------------------------------------------------------------
(* What becomes of the volumes' members.                                    *)

(* The numbers of a file's articles tell how they were posted.              *)
NumbersTell(articles) ==
    \A j, k \in DOMAIN articles :
        LET one == articles[j]
            other == articles[k]
        IN  /\ Content[one.id].post = Content[other.id].post
            /\ one.number < other.number => Content[one.id].part < Content[other.id].part
            /\ one.number = other.number => j = k

(* Articles of one posted file, in posting order.                           *)
InPostingOrder(ids) ==
    \A i, j \in DOMAIN ids :
        /\ Content[ids[i]].post = Content[ids[j]].post
        /\ i < j => Content[ids[i]].part < Content[ids[j]].part

(* As many articles as the file has, and in posting order where the numbers *)
(* tell it.                                                                 *)
LEMMA SegmentsInOrder ==
    ASSUME NEW file \in FileType
    PROVE  /\ IsList(SegmentIds(file)) /\ Len(SegmentIds(file)) = Len(file.articles)
           /\ NumbersTell(file.articles) => InPostingOrder(SegmentIds(file))
<1> DEFINE list == file.articles
           key == [k \in DOMAIN list |-> list[k].number]
           sorted == Sorted(list, key)
           ids == SegmentIds(file)
<1>1. list \in Seq(ArticleType)
  BY DEF FileType
<1>2. ids = [k \in DOMAIN sorted |-> sorted[k].id]
  BY DEF SegmentIds
<1> HIDE DEF ids
<1>3. /\ DOMAIN list = 1..Len(list) /\ Len(list) \in Nat
      /\ \A k \in DOMAIN list : list[k] \in ArticleType
  BY <1>1, Elements
<1>4. key \in [DOMAIN list -> Nat] /\ \A k \in DOMAIN list : key[k] = list[k].number
  BY <1>3 DEF ArticleType
<1> HIDE DEF list, key
<1>5. DOMAIN sorted = DOMAIN list
  BY <1>1, <1>4, SortedIs
<1>6. PICK at : /\ Takes(sorted, list, DOMAIN list, at)
                /\ \A m, n \in DOMAIN list : m < n =>
                     key[at[m]] < key[at[n]] \/ (key[at[m]] = key[at[n]] /\ at[m] < at[n])
  BY <1>1, <1>4, SortedFrom
<1> HIDE DEF sorted
<1>7. /\ \A n \in DOMAIN list : at[n] \in DOMAIN list /\ ids[n] = list[at[n]].id
      /\ DOMAIN ids = DOMAIN list
  BY <1>2, <1>5, <1>6 DEF Takes
<1>8. IsList(ids) /\ Len(ids) = Len(list)
  <2>1. ids = [k \in 1..Len(list) |-> ids[k]]
    BY <1>2, <1>3, <1>5
  <2> QED
    BY <1>3, <2>1, ListOf
<1>9. ASSUME NumbersTell(list) PROVE InPostingOrder(ids)
  <2> SUFFICES ASSUME NEW i \in DOMAIN ids, NEW j \in DOMAIN ids
               PROVE  /\ Content[ids[i]].post = Content[ids[j]].post
                      /\ i < j => Content[ids[i]].part < Content[ids[j]].part
    BY DEF InPostingOrder
  <2>1. /\ at[i] \in DOMAIN list /\ ids[i] = list[at[i]].id
        /\ at[j] \in DOMAIN list /\ ids[j] = list[at[j]].id
    BY <1>7
  <2>2. Content[ids[i]].post = Content[ids[j]].post
    BY <1>9, <2>1 DEF NumbersTell
  <2>3. ASSUME i < j PROVE list[at[i]].number < list[at[j]].number
    <3>1. \/ key[at[i]] < key[at[j]]
          \/ key[at[i]] = key[at[j]] /\ at[i] < at[j]
      BY <1>6, <1>7, <2>3
    <3>2. /\ key[at[i]] = list[at[i]].number /\ key[at[j]] = list[at[j]].number
          /\ at[i] \in Nat /\ at[j] \in Nat
      BY <1>3, <1>4, <2>1
    <3>3. list[at[i]].number = list[at[j]].number => at[i] = at[j]
      BY <1>9, <2>1 DEF NumbersTell
    <3> QED
      BY <3>1, <3>2, <3>3
  <2> QED
    BY <1>9, <2>1, <2>2, <2>3 DEF NumbersTell
<1> QED
  BY <1>8, <1>9 DEF ids, list

(* A list is of articles as a file of the NZB has them.                     *)
OfFile(segments) == \E f \in DOMAIN Files : segments = SegmentIds(Files[f])

(* A part is the k-th block of a volume, a member on the wire.              *)
Places(part, index, k) ==
    /\ k \in OnWire(index) /\ IsBlock(part, index, k)
    /\ part.name = VolumeOf(index).blocks[k].name

(* Members of the volumes that were read, each place once.                  *)
PlacesTold(list, done) ==
    /\ IsList(list) /\ done \in SUBSET DOMAIN Examined
    /\ \A n \in DOMAIN list : list[n].index \in done /\ OfFile(list[n].segments)
    /\ \A n \in DOMAIN list : InClear(list[n].index) =>
         /\ list[n].start \in Nat /\ list[n].size \in Nat
         /\ \E k \in OnWire(list[n].index) : Places(list[n], list[n].index, k)
    /\ \A index \in done : InClear(index) =>
         \A k \in OnWire(index) : \E n \in DOMAIN list : Places(list[n], index, k)
    /\ \A m, n \in DOMAIN list : m < n /\ list[m].index = list[n].index /\ InClear(list[m].index) =>
         list[m].start < list[n].start

(* The files of the import, a volume once.                                  *)
VolumeTold(info) ==
    /\ info.index \in DOMAIN Examined /\ Examined[info.index].articles # <<>>
    /\ info.segments = SegmentIds(Examined[info.index])

FilesTold(list) ==
    /\ IsList(list)
    /\ \A k \in DOMAIN list : OfFile(list[k].segments) /\ (list[k].rar => VolumeTold(list[k]))
    /\ \A j, k \in DOMAIN list : j # k /\ list[j].rar /\ list[k].rar => list[j].index # list[k].index

(* The files that are looked into are files of the NZB.                     *)
LEMMA ExaminedOf ==
    ASSUME job.files \in Seq(FileType), NEW index \in DOMAIN Examined
    PROVE  Examined[index] \in FileType /\ OfFile(SegmentIds(Examined[index]))
<1>1. Files \in Seq(FileType) /\ Several \in SUBSET DOMAIN Files
  BY DEF Files, Several
<1>2. \A n \in DOMAIN Examined : \E k \in DOMAIN Files : Examined[n] = Files[k]
  <2>1. CASE FastMode
    <3>1. Examined = Selected(Files, Several)
      BY <2>1 DEF Examined
    <3>2. \A n \in DOMAIN Selected(Files, Several) : \E k \in Several : Selected(Files, Several)[n] = Files[k]
      BY <1>1, SelectedIs
    <3> QED
      BY <1>1, <3>1, <3>2
  <2>2. CASE ~FastMode
    BY <2>2 DEF Examined
  <2> QED
    BY <2>1, <2>2
<1>3. PICK k \in DOMAIN Files : Examined[index] = Files[k]
  BY <1>2
<1>4. Files[k] \in FileType
  BY <1>1, Elements
<1> QED
  BY <1>3, <1>4 DEF OfFile

(* The members of a volume are told, each in its place.                     *)
LEMMA ProcessedTold ==
    ASSUME job.files \in Seq(FileType), NEW info, VolumeTold(info), HeadersOf(info).ok
    PROVE  /\ PlacesTold(Processed(info, HeadersOf(info).files), {info.index})
           /\ \A n \in DOMAIN Processed(info, HeadersOf(info).files) :
                Processed(info, HeadersOf(info).files)[n].index = info.index
<1> DEFINE index == info.index
           first == info.segments[1]
           volume == PostOf(first).volume
           units == Fewer(HeaderArticles, Len(info.segments)) * ArticleSize
           headers == HeadersOf(info)
           told == headers.files
           inside == {k \in DOMAIN told : ~told[k].directory}
           members == Selected(told, inside)
           list == Processed(info, told)
<1>1. /\ index \in DOMAIN Examined /\ Examined[index].articles # <<>>
      /\ info.segments = SegmentIds(Examined[index]) /\ Examined[index] \in FileType
      /\ OfFile(info.segments)
  BY ExaminedOf DEF VolumeTold
<1>2. /\ first \in DOMAIN Content /\ Len(info.segments) = Len(Examined[index].articles)
      /\ Len(info.segments) \in Nat
  <2>1. Examined[index].articles \in Seq(ArticleType)
    BY <1>1 DEF FileType
  <2> QED
    BY <1>1, <2>1, SegmentsAre, SegmentsInOrder
<1>3. volume = VolumeOf(index)
  BY <1>1 DEF VolumeOf
<1>4. units \in Nat
  <2>1. Fewer(HeaderArticles, Len(info.segments)) \in Nat
    BY <1>2, ImportAssumption DEF Fewer
  <2>2. ArticleSize \in Nat /\ \A a, b \in Nat : a * b \in Nat
    BY ImportAssumption
  <2> QED
    BY <2>1, <2>2
<1>5. BeginsRar(first) /\ headers = ParseHeaders(volume, units, Password)
  <2>1. headers = IF BeginsRar(first) THEN ParseHeaders(volume, units, Password)
                  ELSE [ok |-> FALSE, why |-> "signature", files |-> <<>>]
    BY DEF HeadersOf
  <2>2. headers.ok
    OBVIOUS
  <2> HIDE DEF headers, volume, units, first
  <2> QED
    BY <2>1, <2>2
<1>6. volume.blocks \in Seq(BlockType)
  BY <1>2, <1>5, ImportAssumption DEF BeginsRar, PostOf
<1> HIDE DEF volume, units, headers
<1>7. IsList(told)
  BY <1>5, <1>6, HeadersList
<1> HIDE DEF told
<1>8. inside \in SUBSET DOMAIN told
  OBVIOUS
<1>9. /\ IsList(members)
      /\ \E at : /\ Takes(members, told, inside, at)
                 /\ \A m, n \in DOMAIN members : m < n => at[m] < at[n]
  BY <1>7, <1>8, SelectedLists
<1>10. list = [k \in DOMAIN members |->
                 [name |-> members[k].name, index |-> index, encrypted |-> members[k].encrypted,
                  segments |-> info.segments, start |-> members[k].start, size |-> members[k].size]]
  BY DEF Processed
<1> HIDE DEF inside, members, list, index
<1>11. DOMAIN members = 1..Len(members) /\ Len(members) \in Nat
  BY <1>9, Elements DEF IsList
<1>12. IsList(list) /\ DOMAIN list = DOMAIN members
  <2>1. list = [k \in 1..Len(members) |-> list[k]]
    BY <1>10, <1>11
  <2>2. IsList(list)
    BY <1>11, <2>1, ListOf
  <2> QED
    BY <1>10, <2>2
<1>13. \A n \in DOMAIN list :
         /\ list[n].name = members[n].name /\ list[n].index = index
         /\ list[n].segments = info.segments
         /\ list[n].start = members[n].start /\ list[n].size = members[n].size
  BY <1>10, <1>12
<1>14. ASSUME InClear(index)
       PROVE  \E on :
                /\ \A n \in DOMAIN list :
                     /\ on[n] \in OnWire(index) /\ on[n] \in Nat
                     /\ on[n] \in DOMAIN volume.blocks
                     /\ list[n].name = volume.blocks[on[n]].name
                     /\ list[n].start = BlockAt(volume.blocks, Magic, on[n]) + Header
                     /\ list[n].size = volume.blocks[on[n]].data
                /\ \A m, n \in DOMAIN list : m < n => on[m] < on[n]
                /\ \A k \in OnWire(index) : \E n \in DOMAIN list : on[n] = k
  <2> DEFINE blocks == volume.blocks
             files1 == FileHeaders(blocks)
             wire == Wire(blocks, units)
  <2>1. told = Selected(files1, wire)
    <3>1. \A k \in DOMAIN blocks : blocks[k].type # "encryption"
      BY <1>3, <1>14 DEF InClear
    <3>2. ParseHeaders(volume, units, Password).ok
      BY <1>5 DEF headers
    <3>3. ParseHeaders(volume, units, Password).files = Selected(files1, wire)
      BY <1>4, <1>6, <3>1, <3>2, ParsedClear
    <3> QED
      BY <1>5, <3>3 DEF told
  <2>2. DOMAIN blocks = 1..Len(blocks) /\ Len(blocks) \in Nat
    BY <1>6, Elements
  <2>3. IsList(files1) /\ DOMAIN files1 = DOMAIN blocks
    <3>1. files1 = [k \in 1..Len(blocks) |-> files1[k]]
      BY <2>2 DEF FileHeaders
    <3> HIDE DEF files1
    <3> QED
      BY <2>2, <3>1, ListOf
  <2>4. wire \in SUBSET DOMAIN files1
    BY <2>3 DEF Wire
  <2>5. \A k \in DOMAIN blocks :
          /\ files1[k].name = blocks[k].name /\ files1[k].directory = blocks[k].directory
          /\ files1[k].start = BlockAt(blocks, Magic, k) + Header /\ files1[k].size = blocks[k].data
    BY DEF FileHeaders, FileHeader
  <2>6. OnWire(index) = {k \in wire : ~blocks[k].directory}
    <3> DEFINE read == Fewer(HeaderArticles, Len(Examined[index].articles)) * ArticleSize
    <3>1. read = units
      BY <1>2 DEF units
    <3>2. OnWire(index) = {k \in DOMAIN blocks : /\ blocks[k].type = "file" /\ ~blocks[k].directory
                                                /\ BlockAt(blocks, Magic, k) + Header <= read
                                                /\ \A j \in 1..k : blocks[j].type # "end"}
      BY <1>3 DEF OnWire
    <3> HIDE DEF read, blocks
    <3> QED
      BY <3>1, <3>2 DEF Wire
  <2> HIDE DEF blocks, files1, wire
  <2>7. PICK a : /\ Takes(told, files1, wire, a)
                 /\ \A m, n \in DOMAIN told : m < n => a[m] < a[n]
    BY <2>1, <2>3, <2>4, SelectedLists
  <2>8. PICK b : /\ Takes(members, told, inside, b)
                 /\ \A m, n \in DOMAIN members : m < n => b[m] < b[n]
    BY <1>9
  <2> DEFINE on == [n \in DOMAIN list |-> a[b[n]]]
  <2>9. ASSUME NEW n \in DOMAIN list
        PROVE  /\ b[n] \in DOMAIN told /\ on[n] = a[b[n]] /\ on[n] \in DOMAIN blocks
               /\ on[n] \in OnWire(index) /\ list[n].name = blocks[on[n]].name
               /\ list[n].start = BlockAt(blocks, Magic, on[n]) + Header
               /\ list[n].size = blocks[on[n]].data
    <3>1. /\ b[n] \in DOMAIN told /\ ~told[b[n]].directory /\ members[n] = told[b[n]]
      BY <1>12, <2>8 DEF Takes, inside
    <3>2. a[b[n]] \in wire /\ told[b[n]] = files1[a[b[n]]]
      BY <2>7, <3>1 DEF Takes
    <3>3. a[b[n]] \in DOMAIN blocks
      BY <2>3, <2>4, <3>2
    <3> QED
      BY <1>13, <2>5, <2>6, <3>1, <3>2, <3>3
  <2>10. ASSUME NEW m \in DOMAIN list, NEW n \in DOMAIN list, m < n
         PROVE  on[m] < on[n]
    BY <1>12, <2>7, <2>8, <2>9, <2>10
  <2>11. ASSUME NEW k \in OnWire(index)
         PROVE  \E n \in DOMAIN list : on[n] = k
    <3>1. k \in wire /\ ~blocks[k].directory /\ k \in DOMAIN blocks
      BY <2>3, <2>4, <2>6
    <3>2. PICK j \in DOMAIN told : a[j] = k
      BY <2>7, <3>1 DEF Takes
    <3>3. told[j] = files1[k]
      BY <2>7, <3>2 DEF Takes
    <3>4. j \in inside
      BY <2>5, <3>1, <3>2, <3>3 DEF inside
    <3>5. PICK n \in DOMAIN members : b[n] = j
      BY <2>8, <3>4 DEF Takes
    <3> QED
      BY <1>12, <3>2, <3>5
  <2> HIDE DEF on
  <2> QED
    BY <2>2, <2>9, <2>10, <2>11 DEF blocks
<1>15. \A n \in DOMAIN list : list[n].index \in {index} /\ OfFile(list[n].segments)
  BY <1>1, <1>13 DEF index
<1>16. {index} \in SUBSET DOMAIN Examined
  BY <1>1 DEF index
<1>17. ASSUME InClear(index)
       PROVE  /\ \A n \in DOMAIN list : /\ list[n].start \in Nat /\ list[n].size \in Nat
                                        /\ \E k \in OnWire(index) : Places(list[n], index, k)
              /\ \A k \in OnWire(index) : \E n \in DOMAIN list : Places(list[n], index, k)
              /\ \A m, n \in DOMAIN list : m < n => list[m].start < list[n].start
  <2>1. PICK on :
          /\ \A n \in DOMAIN list :
               /\ on[n] \in OnWire(index) /\ on[n] \in Nat
               /\ on[n] \in DOMAIN volume.blocks
               /\ list[n].name = volume.blocks[on[n]].name
               /\ list[n].start = BlockAt(volume.blocks, Magic, on[n]) + Header
               /\ list[n].size = volume.blocks[on[n]].data
          /\ \A m, n \in DOMAIN list : m < n => on[m] < on[n]
          /\ \A k \in OnWire(index) : \E n \in DOMAIN list : on[n] = k
    BY <1>14, <1>17
  <2>2. \A n \in DOMAIN list : Places(list[n], index, on[n])
    BY <1>3, <1>13, <2>1 DEF Places, IsBlock, index
  <2>3. Magic \in Nat /\ Header \in Nat /\ \A k \in DOMAIN volume.blocks : k \in 1..(Len(volume.blocks) + 1)
    <3>1. DOMAIN volume.blocks = 1..Len(volume.blocks) /\ Len(volume.blocks) \in Nat
      BY <1>6, Elements
    <3> QED
      BY <3>1 DEF Magic, Header
  <2>4. \A k \in DOMAIN volume.blocks : BlockAt(volume.blocks, Magic, k) \in Nat /\ volume.blocks[k].data \in Nat
    <3>1. \A k \in DOMAIN volume.blocks : volume.blocks[k] \in BlockType
      BY <1>6, Elements
    <3>2. \A k \in DOMAIN volume.blocks : volume.blocks[k].data \in Nat
      BY <3>1 DEF BlockType
    <3> QED
      BY <1>6, <2>3, <3>2, BlockAtIs
  <2>5. \A n \in DOMAIN list : list[n].start \in Nat /\ list[n].size \in Nat
    BY <2>1, <2>3, <2>4
  <2>6. ASSUME NEW m \in DOMAIN list, NEW n \in DOMAIN list, m < n
        PROVE  list[m].start < list[n].start
    <3>1. BlockAt(volume.blocks, Magic, on[m]) + Header <= BlockAt(volume.blocks, Magic, on[n])
      BY <1>6, <2>1, <2>3, <2>6, BlockAtGrows
    <3>2. \A x, y \in Nat : x + Header <= y => x + Header < y + Header
      BY DEF Header
    <3> QED
      BY <2>1, <2>4, <3>1, <3>2
  <2> QED
    BY <2>1, <2>2, <2>5, <2>6
<1>18. PlacesTold(list, {index})
  BY <1>12, <1>13, <1>15, <1>16, <1>17 DEF PlacesTold
<1> QED
  BY <1>13, <1>18 DEF list, told, index, headers

(* Those of another volume are told after them.                             *)
LEMMA PlacesJoined ==
    ASSUME NEW one, NEW done, PlacesTold(one, done), NEW other, NEW index, index \notin done,
           PlacesTold(other, {index})
    PROVE  PlacesTold(one \o other, done \union {index})
<1> DEFINE both == one \o other
<1>1. /\ IsList(both)
      /\ DOMAIN one = 1..Len(one) /\ Len(one) \in Nat
      /\ DOMAIN other = 1..Len(other) /\ Len(other) \in Nat
      /\ DOMAIN both = 1..(Len(one) + Len(other))
      /\ \A k \in 1..Len(one) : both[k] = one[k]
      /\ \A k \in 1..Len(other) : both[Len(one) + k] = other[k]
  BY ListsJoined DEF PlacesTold
<1> HIDE DEF both
<1>2. ASSUME NEW n \in DOMAIN both
      PROVE  \/ n \in DOMAIN one /\ both[n] = one[n]
             \/ /\ n \notin DOMAIN one /\ n - Len(one) \in DOMAIN other
                /\ both[n] = other[n - Len(one)]
  <2>1. CASE n <= Len(one)
    BY <1>1, <2>1
  <2>2. CASE ~(n <= Len(one))
    <3>1. n - Len(one) \in 1..Len(other) /\ Len(one) + (n - Len(one)) = n
      BY <1>1, <2>2
    <3> QED
      BY <1>1, <2>2, <3>1
  <2> QED
    BY <2>1, <2>2
<1>3. \A n \in DOMAIN one : n \in DOMAIN both /\ both[n] = one[n]
  BY <1>1
<1>4. \A n \in DOMAIN other : Len(one) + n \in DOMAIN both /\ both[Len(one) + n] = other[n]
  BY <1>1
<1>5. done \union {index} \in SUBSET DOMAIN Examined
  BY DEF PlacesTold
<1>6. ASSUME NEW n \in DOMAIN both
      PROVE  /\ both[n].index \in done \union {index} /\ OfFile(both[n].segments)
             /\ InClear(both[n].index) =>
                  /\ both[n].start \in Nat /\ both[n].size \in Nat
                  /\ \E k \in OnWire(both[n].index) : Places(both[n], both[n].index, k)
  BY <1>2 DEF PlacesTold
<1>7. ASSUME NEW i \in done \union {index}, InClear(i), NEW k \in OnWire(i)
      PROVE  \E n \in DOMAIN both : Places(both[n], i, k)
  <2>1. CASE i \in done
    <3>1. PICK n \in DOMAIN one : Places(one[n], i, k)
      BY <1>7, <2>1 DEF PlacesTold
    <3> QED
      BY <1>3, <3>1
  <2>2. CASE i = index
    <3>1. PICK n \in DOMAIN other : Places(other[n], i, k)
      BY <1>7, <2>2 DEF PlacesTold
    <3> QED
      BY <1>4, <3>1
  <2> QED
    BY <2>1, <2>2
<1>8. ASSUME NEW m \in DOMAIN both, NEW n \in DOMAIN both, m < n, both[m].index = both[n].index,
             InClear(both[m].index)
      PROVE  both[m].start < both[n].start
  <2>1. CASE m \in DOMAIN one /\ n \in DOMAIN one
    BY <1>3, <1>8, <2>1 DEF PlacesTold
  <2>2. CASE m \in DOMAIN one /\ n \notin DOMAIN one
    <3>1. both[m].index \in done
      BY <1>3, <2>2 DEF PlacesTold
    <3>2. both[n].index = index
      BY <1>2, <2>2 DEF PlacesTold
    <3> QED
      BY <1>8, <3>1, <3>2
  <2>3. CASE m \notin DOMAIN one
    <3>1. n \notin DOMAIN one
      BY <1>1, <1>8, <2>3
    <3> DEFINE i == m - Len(one)
               j == n - Len(one)
    <3>2. i \in DOMAIN other /\ j \in DOMAIN other /\ both[m] = other[i] /\ both[n] = other[j]
      BY <1>2, <2>3, <3>1
    <3>3. i < j
      BY <1>1, <1>8
    <3> HIDE DEF i, j
    <3> QED
      BY <1>8, <3>2, <3>3 DEF PlacesTold
  <2> QED
    BY <2>1, <2>2, <2>3
<1>9. PlacesTold(both, done \union {index})
  BY <1>1, <1>5, <1>6, <1>7, <1>8 DEF PlacesTold
<1> QED
  BY <1>9 DEF both

(* Members in the order of the volumes.                                     *)
ByVolume(list) == \A m, n \in DOMAIN list : m < n => list[m].index <= list[n].index

(* Sorted by volume they are the same.                                      *)
LEMMA PlacesSorted ==
    ASSUME job.files \in Seq(FileType), NEW list, NEW done, PlacesTold(list, done)
    PROVE  PlacesTold(ByIndex(list), done) /\ ByVolume(ByIndex(list))
<1> DEFINE key == [k \in DOMAIN list |-> list[k].index]
           sorted == Sorted(list, key)
<1>1. \A k \in DOMAIN list : list[k].index \in Nat /\ list[k].index \in done
  BY ExaminedAre DEF PlacesTold
<1>2. key \in [DOMAIN list -> Nat] /\ \A k \in DOMAIN list : key[k] = list[k].index
  BY <1>1
<1>3. ByIndex(list) = sorted
  BY DEF ByIndex
<1> HIDE DEF key
<1>4. IsList(list)
  BY DEF PlacesTold
<1>5. IsList(sorted) /\ DOMAIN sorted = DOMAIN list
  BY <1>2, <1>4, SortedLists
<1>6. PICK at : /\ Takes(sorted, list, DOMAIN list, at)
                /\ \A m, n \in DOMAIN list : m < n =>
                     key[at[m]] < key[at[n]] \/ (key[at[m]] = key[at[n]] /\ at[m] < at[n])
  BY <1>2, <1>4, SortedLists
<1> HIDE DEF sorted
<1>7. /\ \A n \in DOMAIN list : at[n] \in DOMAIN list /\ sorted[n] = list[at[n]]
      /\ \A k \in DOMAIN list : \E n \in DOMAIN list : at[n] = k
  BY <1>5, <1>6 DEF Takes
<1>8. ASSUME NEW m \in DOMAIN list, NEW n \in DOMAIN list, m < n
      PROVE  /\ sorted[m].index <= sorted[n].index
             /\ sorted[m].index = sorted[n].index => at[m] < at[n]
  <2>1. /\ sorted[m].index = key[at[m]] /\ sorted[n].index = key[at[n]]
        /\ key[at[m]] \in Nat /\ key[at[n]] \in Nat
    BY <1>2, <1>7
  <2>2. key[at[m]] < key[at[n]] \/ (key[at[m]] = key[at[n]] /\ at[m] < at[n])
    BY <1>6, <1>8
  <2> QED
    BY <2>1, <2>2
<1>9. ByVolume(sorted)
  BY <1>5, <1>8 DEF ByVolume
<1>10. ASSUME NEW i \in done, InClear(i), NEW k \in OnWire(i)
       PROVE  \E n \in DOMAIN sorted : Places(sorted[n], i, k)
  <2>1. PICK m \in DOMAIN list : Places(list[m], i, k)
    BY <1>10 DEF PlacesTold
  <2>2. PICK n \in DOMAIN list : at[n] = m
    BY <1>7
  <2> QED
    BY <1>5, <1>7, <2>1, <2>2
<1>11. ASSUME NEW n \in DOMAIN sorted
       PROVE  /\ sorted[n].index \in done /\ OfFile(sorted[n].segments)
              /\ InClear(sorted[n].index) =>
                   /\ sorted[n].start \in Nat /\ sorted[n].size \in Nat
                   /\ \E k \in OnWire(sorted[n].index) : Places(sorted[n], sorted[n].index, k)
  <2>1. at[n] \in DOMAIN list /\ sorted[n] = list[at[n]]
    BY <1>5, <1>7
  <2> QED
    BY <2>1 DEF PlacesTold
<1>12. ASSUME NEW m \in DOMAIN sorted, NEW n \in DOMAIN sorted, m < n,
              sorted[m].index = sorted[n].index, InClear(sorted[m].index)
       PROVE  sorted[m].start < sorted[n].start
  <2>1. /\ at[m] \in DOMAIN list /\ sorted[m] = list[at[m]]
        /\ at[n] \in DOMAIN list /\ sorted[n] = list[at[n]] /\ at[m] < at[n]
    BY <1>5, <1>7, <1>8, <1>12
  <2> QED
    BY <1>12, <2>1 DEF PlacesTold
<1>13. done \in SUBSET DOMAIN Examined
  BY DEF PlacesTold
<1>14. PlacesTold(sorted, done)
  BY <1>5, <1>10, <1>11, <1>12, <1>13 DEF PlacesTold
<1> QED
  BY <1>3, <1>9, <1>14

(* The parts are those of a member, in order and without a gap.             *)
Archived(parts, name) ==
    /\ \A n \in DOMAIN parts : \E index \in parsed : \E b \in OnWire(index) :
         /\ VolumeOf(index).blocks[b].name = name
         /\ IsBlock(parts[n], index, b)
    /\ \A index \in parsed : \A b \in OnWire(index) :
         VolumeOf(index).blocks[b].name = name => \E n \in DOMAIN parts : IsBlock(parts[n], index, b)
    /\ ListedByNumber(name) => InVolumeOrder(parts)
    /\ \A n \in DOMAIN parts :
         parts[n].offset = IF n = 1 THEN 0 ELSE parts[n - 1].offset + parts[n - 1].size

(* The parts of an item are.                                                *)
LEMMA PartsTold ==
    ASSUME job.files \in Seq(FileType), PlacesTold(results, parsed), ByVolume(results), NEW name
    PROVE  /\ \A n \in DOMAIN PartsOf(name) : OfFile(PartsOf(name)[n].segments)
           /\ (\A index \in parsed : InClear(index)) => Archived(PartsOf(name), name)
<1> DEFINE K == {k \in DOMAIN results : results[k].name = name}
           own == Selected(results, K)
           sizes(k) == [j \in 1..(k - 1) |-> own[j].size]
           parts == PartsOf(name)
<1>1. parts = [k \in DOMAIN own |-> [index |-> own[k].index, segments |-> own[k].segments,
                                     start |-> own[k].start, size |-> own[k].size,
                                     offset |-> SumOf(sizes(k))]]
  BY DEF PartsOf
<1>2. IsList(results)
  BY DEF PlacesTold
<1>3. K \in SUBSET DOMAIN results
  OBVIOUS
<1>4. IsList(own)
  BY <1>2, <1>3, SelectedLists
<1>5. PICK at : /\ Takes(own, results, K, at)
                /\ \A m, n \in DOMAIN own : m < n => at[m] < at[n]
  BY <1>2, <1>3, SelectedLists
<1> HIDE DEF own, sizes, parts
<1>6. DOMAIN own = 1..Len(own) /\ Len(own) \in Nat /\ DOMAIN parts = DOMAIN own
  BY <1>1, <1>4, Elements DEF IsList
<1>7. \A n \in DOMAIN parts :
        /\ parts[n].index = own[n].index /\ parts[n].segments = own[n].segments
        /\ parts[n].start = own[n].start /\ parts[n].size = own[n].size
        /\ parts[n].offset = SumOf(sizes(n))
  BY <1>1, <1>6
<1>8. \A n \in DOMAIN own : at[n] \in DOMAIN results /\ own[n] = results[at[n]] /\ own[n].name = name
  BY <1>5 DEF Takes
<1>9. \A k \in DOMAIN results : results[k].name = name => \E n \in DOMAIN own : at[n] = k /\ own[n] = results[k]
  BY <1>5 DEF Takes
<1>10. \A n \in DOMAIN parts : OfFile(parts[n].segments)
  BY <1>6, <1>7, <1>8 DEF PlacesTold
<1>11. ASSUME \A index \in parsed : InClear(index)
       PROVE  Archived(parts, name)
  <2>1. \A n \in DOMAIN own : /\ own[n].index \in parsed /\ own[n].index \in Nat
                              /\ InClear(own[n].index) /\ own[n].start \in Nat /\ own[n].size \in Nat
    BY <1>8, <1>11, ExaminedAre DEF PlacesTold
  <2>2. ASSUME NEW n \in DOMAIN parts
        PROVE  \E index \in parsed : \E b \in OnWire(index) :
                 VolumeOf(index).blocks[b].name = name /\ IsBlock(parts[n], index, b)
    <3> DEFINE index == own[n].index
    <3>1. PICK b \in OnWire(index) : Places(own[n], index, b)
      BY <1>6, <1>8, <2>1 DEF PlacesTold
    <3>2. VolumeOf(index).blocks[b].name = name /\ IsBlock(own[n], index, b)
      BY <1>6, <1>8, <3>1 DEF Places
    <3>3. IsBlock(parts[n], index, b)
      BY <1>7, <3>2 DEF IsBlock
    <3>4. index \in parsed
      BY <1>6, <2>1
    <3> QED
      BY <3>2, <3>3, <3>4
  <2>3. ASSUME NEW index \in parsed, NEW b \in OnWire(index), VolumeOf(index).blocks[b].name = name
        PROVE  \E n \in DOMAIN parts : IsBlock(parts[n], index, b)
    <3>1. PICK k \in DOMAIN results : Places(results[k], index, b)
      BY <1>11 DEF PlacesTold
    <3>2. results[k].name = name /\ IsBlock(results[k], index, b)
      BY <2>3, <3>1 DEF Places
    <3>3. PICK n \in DOMAIN own : own[n] = results[k]
      BY <1>9, <3>2
    <3>4. IsBlock(parts[n], index, b)
      BY <1>6, <1>7, <3>2, <3>3 DEF IsBlock
    <3> QED
      BY <1>6, <3>4
  <2>4. ASSUME NEW m \in DOMAIN parts, NEW n \in DOMAIN parts, m < n
        PROVE  \/ parts[m].index < parts[n].index
               \/ parts[m].index = parts[n].index /\ parts[m].start < parts[n].start
    <3>1. /\ at[m] \in DOMAIN results /\ at[n] \in DOMAIN results /\ at[m] < at[n]
          /\ own[m] = results[at[m]] /\ own[n] = results[at[n]]
      BY <1>5, <1>6, <1>8, <2>4
    <3>2. own[m].index <= own[n].index
      BY <3>1 DEF ByVolume
    <3>3. own[m].index = own[n].index => own[m].start < own[n].start
      BY <1>6, <2>1, <3>1 DEF PlacesTold
    <3>4. own[m].index \in Nat /\ own[n].index \in Nat
      BY <1>6, <2>1
    <3> QED
      BY <1>7, <3>2, <3>3, <3>4
  <2>7. \A n \in DOMAIN parts : parts[n].index \in VolumesWith(name)
    BY <2>2 DEF IsBlock, VolumesWith
  <2>8. ListedByNumber(name) => InVolumeOrder(parts)
    BY <2>4, <2>7 DEF ListedByNumber, InVolumeOrder
  <2>5. \A n \in DOMAIN parts : /\ sizes(n) \in [1..(n - 1) -> Nat] /\ IsFiniteSet(1..(n - 1))
                                /\ SumOf(sizes(n)) = Sum(sizes(n), 1..(n - 1))
    <3> SUFFICES ASSUME NEW n \in DOMAIN parts
                 PROVE  /\ sizes(n) \in [1..(n - 1) -> Nat] /\ IsFiniteSet(1..(n - 1))
                        /\ SumOf(sizes(n)) = Sum(sizes(n), 1..(n - 1))
      OBVIOUS
    <3>1. \A j \in 1..(n - 1) : j \in DOMAIN own
      BY <1>6
    <3>2. sizes(n) \in [1..(n - 1) -> Nat]
      BY <2>1, <3>1 DEF sizes
    <3>3. 1 \in Int /\ n - 1 \in Int
      BY <1>6
    <3>4. IsFiniteSet(1..(n - 1))
      BY <3>3, FS_Interval
    <3> QED
      BY <3>2, <3>4, SumOfIs
  <2>6. ASSUME NEW n \in DOMAIN parts
        PROVE  parts[n].offset = IF n = 1 THEN 0 ELSE parts[n - 1].offset + parts[n - 1].size
    <3>1. CASE n = 1
      <4>1. 1..(n - 1) = {}
        BY <3>1
      <4>2. sizes(n) \in [{} -> Int]
        BY <2>5, <4>1
      <4>3. Sum(sizes(n), {}) = 0
        BY <4>2, SumOfNone
      <4> QED
        BY <1>7, <2>5, <3>1, <4>1, <4>3
    <3>2. CASE n # 1
      <4>1. PICK m \in Nat : m + 1 = n - 1
        <5>1. n - 2 \in Nat /\ (n - 2) + 1 = n - 1
          BY <1>6, <3>2
        <5> QED
          BY <5>1
      <4>2. m + 1 \in DOMAIN parts /\ n = (m + 1) + 1 /\ (m + 1) - 1 = m /\ m + 1 \in DOMAIN own
        BY <1>6, <3>2, <4>1
      <4>3. sizes(n) \in [1..(m + 1) -> Nat] /\ sizes(m + 1) \in [1..m -> Nat]
        BY <2>5, <4>1, <4>2
      <4>4. \A j \in 1..m : sizes(m + 1)[j] = sizes(n)[j]
        BY <4>1, <4>2 DEF sizes
      <4>5. sizes(n)[m + 1] = own[m + 1].size
        BY <4>1, <4>2 DEF sizes
      <4> DEFINE v == sizes(m + 1)
                 w == sizes(n)
      <4> HIDE DEF v, w
      <4>6. w \in [1..(m + 1) -> Int] /\ v \in [1..m -> Int] /\ \A j \in 1..m : v[j] = w[j]
        BY <4>3, <4>4 DEF v, w
      <4>7. Sum(w, 1..(m + 1)) = Sum(v, 1..m) + w[m + 1]
        BY <4>6, SumOfNext
      <4>8. parts[n].offset = Sum(w, 1..(m + 1)) /\ parts[m + 1].offset = Sum(v, 1..m)
        BY <1>7, <2>5, <4>1, <4>2 DEF v, w
      <4>9. parts[n].offset = parts[m + 1].offset + parts[m + 1].size
        BY <1>7, <4>2, <4>5, <4>7, <4>8 DEF w
      <4> QED
        BY <3>2, <4>1, <4>9
    <3> QED
      BY <3>1, <3>2
  <2> QED
    BY <2>2, <2>3, <2>6, <2>8 DEF Archived
<1> QED
  BY <1>10, <1>11 DEF parts

(* Each step after the first leaves the places alone.                       *)
LEMMA SamePlaces ==
    ASSUME job' = job
    PROVE  /\ Files' = Files /\ Examined' = Examined
           /\ \A index : /\ VolumeOf(index)' = VolumeOf(index) /\ OnWire(index)' = OnWire(index)
                         /\ InClear(index)' <=> InClear(index)
           /\ \A part, index, k : IsBlock(part, index, k)' <=> IsBlock(part, index, k)
           /\ NumbersTellParts' <=> NumbersTellParts
<1>1. Files' = Files /\ Examined' = Examined
  BY SameNzb DEF Files
<1>2. \A index : VolumeOf(index)' = VolumeOf(index)
  BY <1>1 DEF VolumeOf, SegmentIds, PostOf
<1>3. \A index : OnWire(index)' = OnWire(index)
  BY <1>1, <1>2 DEF OnWire
<1>4. \A index : InClear(index)' <=> InClear(index)
  BY <1>1, <1>2 DEF InClear
<1>5. \A part, index, k : IsBlock(part, index, k)' <=> IsBlock(part, index, k)
  BY <1>1, <1>2 DEF IsBlock
<1>6. NumbersTellParts' <=> NumbersTellParts
  BY <1>1 DEF NumbersTellParts
<1> QED
  BY <1>1, <1>2, <1>3, <1>4, <1>5, <1>6

(* Neither do the numbers of the volumes change.                            *)
LEMMA SameNumbers ==
    ASSUME job' = job, parsed' = parsed
    PROVE  /\ \A name : ListedByNumber(name)' <=> ListedByNumber(name)
           /\ \A parts : InVolumeOrder(parts)' <=> InVolumeOrder(parts)
<1>1. \A index : VolumeOf(index)' = VolumeOf(index) /\ OnWire(index)' = OnWire(index)
  BY SamePlaces
<1>2. \A index : NumberOf(index)' = NumberOf(index)
  BY SamePlaces DEF NumberOf, SegmentIds, PostOf
<1>3. \A name : VolumesWith(name)' = VolumesWith(name)
  BY <1>1 DEF VolumesWith
<1>4. \A name : ListedByNumber(name)' <=> ListedByNumber(name)
  BY <1>2, <1>3 DEF ListedByNumber
<1>5. \A parts : InVolumeOrder(parts)' <=> InVolumeOrder(parts)
  BY <1>2 DEF InVolumeOrder
<1> QED
  BY <1>4, <1>5

(* What an item of the import is made of.                                   *)
ItemTold(item) ==
    \/ item.member \in Names /\ item.parts = PartsOf(item.member)
    \/ item.member = <<>> /\ \A n \in DOMAIN item.parts : OfFile(item.parts[n].segments)

(* The items of the archives' members, each one of a member of its own.     *)
LEMMA RarItemsAre ==
    ASSUME PlacesTold(results, parsed), NEW order \in SetToSeqs(Names)
    PROVE  /\ IsList(RarItems(order))
           /\ \A k \in DOMAIN RarItems(order) :
                /\ RarItems(order)[k] = [name |-> RarItems(order)[k].name, member |-> RarItems(order)[k].member,
                                         parts |-> RarItems(order)[k].parts]
                /\ RarItems(order)[k].member \in Names
                /\ RarItems(order)[k].parts = PartsOf(RarItems(order)[k].member)
           /\ \A j, k \in DOMAIN RarItems(order) : RarItems(order)[j].member = RarItems(order)[k].member => j = k
<1> DEFINE rar == RarItems(order)
           n == Cardinality(Names)
<1>1. n \in Nat
  <2>1. IsFiniteSet(DOMAIN results)
    BY PositionsAre DEF PlacesTold, IsList
  <2>2. [k \in DOMAIN results |-> results[k].name] \in Surjection(DOMAIN results, Names)
    BY DEF Names, Surjection
  <2>3. IsFiniteSet(Names)
    BY <2>1, <2>2, FS_Surjection
  <2> QED
    BY <2>3, FS_CardinalityType
<1>2. order \in [1..n -> Names] /\ \A i, j \in 1..n : i # j => order[i] # order[j]
  BY DEF SetToSeqs
<1>3. rar = [k \in DOMAIN order |-> [name |-> LeafName(order[k]), member |-> order[k], parts |-> PartsOf(order[k])]]
  BY DEF RarItems
<1> HIDE DEF n, rar
<1>4. DOMAIN rar = 1..n /\ DOMAIN order = 1..n
  BY <1>2, <1>3
<1>5. IsList(rar)
  <2>1. rar = [k \in 1..n |-> rar[k]]
    BY <1>3, <1>4
  <2> QED
    BY <1>1, <2>1, ListOf
<1>6. ASSUME NEW k \in DOMAIN rar
      PROVE  /\ rar[k] = [name |-> rar[k].name, member |-> rar[k].member, parts |-> rar[k].parts]
             /\ rar[k].member = order[k] /\ rar[k].member \in Names /\ rar[k].parts = PartsOf(rar[k].member)
  <2> DEFINE name == LeafName(order[k])
             parts == PartsOf(order[k])
  <2>1. rar[k] = [name |-> name, member |-> order[k], parts |-> parts]
    BY <1>3, <1>4
  <2> HIDE DEF name, parts
  <2>2. /\ rar[k] = [name |-> rar[k].name, member |-> rar[k].member, parts |-> rar[k].parts]
        /\ rar[k].member = order[k] /\ rar[k].parts = parts
    BY <2>1
  <2> QED
    BY <1>2, <1>4, <2>2 DEF parts
<1>7. \A j, k \in DOMAIN rar : rar[j].member = rar[k].member => j = k
  BY <1>2, <1>4, <1>6
<1> QED
  BY <1>5, <1>6, <1>7 DEF rar

(* The items of the other files.                                            *)
LEMMA PlainItemsAre ==
    ASSUME FilesTold(infos)
    PROVE  /\ IsList(PlainItems)
           /\ \A k \in DOMAIN PlainItems :
                /\ PlainItems[k] = [name |-> PlainItems[k].name, member |-> PlainItems[k].member,
                                    parts |-> PlainItems[k].parts]
                /\ PlainItems[k].member = <<>>
                /\ \A n \in DOMAIN PlainItems[k].parts : OfFile(PlainItems[k].parts[n].segments)
<1> DEFINE K == {k \in DOMAIN infos : ~infos[k].rar /\ ~infos[k].par2}
           plain == Selected(infos, K)
           items == PlainItems
           part(k) == [index |-> plain[k].index, segments |-> plain[k].segments,
                       start |-> 0, size |-> plain[k].size, offset |-> 0]
<1>1. items = [k \in DOMAIN plain |-> [name |-> LeafName(plain[k].name), member |-> <<>>, parts |-> <<part(k)>>]]
  BY DEF PlainItems
<1>2. IsList(infos) /\ K \in SUBSET DOMAIN infos
  BY DEF FilesTold
<1>3. IsList(plain)
  BY <1>2, SelectedLists
<1>4. PICK at : Takes(plain, infos, K, at)
  BY <1>2, SelectedLists
<1>5. \A k \in DOMAIN plain : OfFile(plain[k].segments)
  BY <1>2, <1>4 DEF Takes, FilesTold
<1> HIDE DEF plain, items
<1>6. DOMAIN plain = 1..Len(plain) /\ Len(plain) \in Nat /\ DOMAIN items = DOMAIN plain
  BY <1>1, <1>3, Elements DEF IsList
<1>7. IsList(items)
  <2>1. items = [k \in 1..Len(plain) |-> items[k]]
    BY <1>1, <1>6
  <2> QED
    BY <1>6, <2>1, ListOf
<1>8. ASSUME NEW k \in DOMAIN items
      PROVE  /\ items[k] = [name |-> items[k].name, member |-> items[k].member, parts |-> items[k].parts]
             /\ items[k].member = <<>>
             /\ \A n \in DOMAIN items[k].parts : OfFile(items[k].parts[n].segments)
  <2> DEFINE name == LeafName(plain[k].name)
             parts == <<part(k)>>
  <2>1. items[k] = [name |-> name, member |-> <<>>, parts |-> parts]
    BY <1>1, <1>6
  <2>2. \A n \in DOMAIN parts : parts[n].segments = plain[k].segments
    OBVIOUS
  <2> HIDE DEF name, parts
  <2>3. items[k].member = <<>> /\ items[k].parts = parts /\ items[k].name = name
    BY <2>1
  <2> QED
    BY <1>5, <1>6, <2>1, <2>2, <2>3
<1> QED
  BY <1>7, <1>8 DEF items

(* The items of an import, those of members with a member each.             *)
ItemsTold(items) ==
    /\ IsList(items)
    /\ \A k \in DOMAIN items :
         /\ items[k] = [name |-> items[k].name, member |-> items[k].member, parts |-> items[k].parts]
         /\ ItemTold(items[k])
    /\ \A j, k \in DOMAIN items : items[j].member # <<>> /\ items[j].member = items[k].member => j = k

(* All items together.                                                      *)
LEMMA ItemsAre ==
    ASSUME FilesTold(infos), PlacesTold(results, parsed), NEW order \in SetToSeqs(Names)
    PROVE  ItemsTold(RarItems(order) \o PlainItems)
<1> DEFINE rar == RarItems(order)
           plain == PlainItems
           all == rar \o plain
<1>1. /\ IsList(rar)
      /\ \A k \in DOMAIN rar :
           /\ rar[k] = [name |-> rar[k].name, member |-> rar[k].member, parts |-> rar[k].parts]
           /\ rar[k].member \in Names /\ rar[k].parts = PartsOf(rar[k].member)
      /\ \A j, k \in DOMAIN rar : rar[j].member = rar[k].member => j = k
  BY RarItemsAre
<1>2. /\ IsList(plain)
      /\ \A k \in DOMAIN plain :
           /\ plain[k] = [name |-> plain[k].name, member |-> plain[k].member, parts |-> plain[k].parts]
           /\ plain[k].member = <<>>
           /\ \A n \in DOMAIN plain[k].parts : OfFile(plain[k].parts[n].segments)
  BY PlainItemsAre
<1> HIDE DEF rar, plain
<1>3. /\ IsList(all)
      /\ DOMAIN rar = 1..Len(rar) /\ Len(rar) \in Nat
      /\ DOMAIN plain = 1..Len(plain) /\ Len(plain) \in Nat
      /\ DOMAIN all = 1..(Len(rar) + Len(plain))
      /\ \A k \in 1..Len(rar) : all[k] = rar[k]
      /\ \A k \in 1..Len(plain) : all[Len(rar) + k] = plain[k]
  BY <1>1, <1>2, ListsJoined
<1> HIDE DEF all
<1>4. ASSUME NEW k \in DOMAIN all
      PROVE  \/ k \in DOMAIN rar /\ all[k] = rar[k]
             \/ \E n \in DOMAIN plain : all[k] = plain[n]
  <2>1. CASE k <= Len(rar)
    BY <1>3, <2>1
  <2>2. CASE ~(k <= Len(rar))
    <3>1. k - Len(rar) \in 1..Len(plain) /\ Len(rar) + (k - Len(rar)) = k
      BY <1>3, <2>2
    <3> QED
      BY <1>3, <3>1
  <2> QED
    BY <2>1, <2>2
<1>5. ASSUME NEW k \in DOMAIN all
      PROVE  /\ all[k] = [name |-> all[k].name, member |-> all[k].member, parts |-> all[k].parts]
             /\ ItemTold(all[k])
             /\ all[k].member # <<>> => k \in DOMAIN rar /\ all[k].member = rar[k].member
  <2>1. CASE k \in DOMAIN rar /\ all[k] = rar[k]
    BY <1>1, <2>1 DEF ItemTold
  <2>2. ASSUME NEW n \in DOMAIN plain, all[k] = plain[n]
        PROVE  /\ all[k] = [name |-> all[k].name, member |-> all[k].member, parts |-> all[k].parts]
               /\ ItemTold(all[k]) /\ all[k].member = <<>>
    BY <1>2, <2>2 DEF ItemTold
  <2> QED
    BY <1>4, <2>1, <2>2
<1>6. \A j, k \in DOMAIN all : all[j].member # <<>> /\ all[j].member = all[k].member => j = k
  BY <1>1, <1>5
<1> QED
  BY <1>3, <1>5, <1>6 DEF ItemsTold, all, rar, plain

(* A number in its name makes an item no other.                             *)
LEMMA RenamedTold ==
    ASSUME NEW items, ItemsTold(items)
    PROVE  ItemsTold(Renamed(items))
<1> DEFINE count(k) == Cardinality({j \in 1..k : items[j].name = items[k].name})
           own(k) == count(k) = 1
           new(k) == Numbered(items[k].name, " (" \o ToString(count(k)) \o ")")
           all == Renamed(items)
<1>1. all = [k \in DOMAIN items |-> IF own(k) THEN items[k] ELSE [items[k] EXCEPT !.name = new(k)]]
  BY DEF Renamed
<1> HIDE DEF own, new, all
<1>2. DOMAIN items = 1..Len(items) /\ Len(items) \in Nat /\ DOMAIN all = DOMAIN items
  BY <1>1, Elements DEF ItemsTold, IsList
<1>3. IsList(all)
  <2>1. all = [k \in 1..Len(items) |-> all[k]]
    BY <1>1, <1>2
  <2> QED
    BY <1>2, <2>1, ListOf
<1>4. ASSUME NEW k \in DOMAIN items
      PROVE  /\ all[k] = [name |-> all[k].name, member |-> all[k].member, parts |-> all[k].parts]
             /\ all[k].member = items[k].member /\ all[k].parts = items[k].parts
  <2>1. items[k] = [name |-> items[k].name, member |-> items[k].member, parts |-> items[k].parts]
    BY DEF ItemsTold
  <2>2. CASE own(k)
    BY <1>1, <2>1, <2>2
  <2>3. CASE ~own(k)
    <3>1. all[k] = [items[k] EXCEPT !.name = new(k)]
      BY <1>1, <2>3
    <3>2. all[k] = [name |-> new(k), member |-> items[k].member, parts |-> items[k].parts]
      BY <2>1, <3>1
    <3> QED
      BY <3>2
  <2> QED
    BY <2>2, <2>3
<1>5. \A k \in DOMAIN items : ItemTold(all[k])
  BY <1>4 DEF ItemsTold, ItemTold
<1>6. \A j, k \in DOMAIN items : all[j].member # <<>> /\ all[j].member = all[k].member => j = k
  BY <1>4 DEF ItemsTold
<1> QED
  BY <1>2, <1>3, <1>4, <1>5, <1>6 DEF ItemsTold, all

(* What is selected of the items is of them.                                *)
LEMMA SelectedTold ==
    ASSUME NEW items, ItemsTold(items), NEW K \in SUBSET DOMAIN items
    PROVE  ItemsTold(Selected(items, K))
<1> DEFINE some == Selected(items, K)
<1>1. IsList(items)
  BY DEF ItemsTold
<1>2. IsList(some)
  BY <1>1, SelectedLists
<1>3. PICK at : Takes(some, items, K, at) /\ \A m, n \in DOMAIN some : m < n => at[m] < at[n]
  BY <1>1, SelectedLists
<1> HIDE DEF some
<1>4. /\ \A n \in DOMAIN some : at[n] \in K /\ at[n] \in DOMAIN items /\ at[n] \in Nat /\ some[n] = items[at[n]]
      /\ \A n \in DOMAIN some : n \in Nat
  <2>1. DOMAIN some \in SUBSET Nat /\ DOMAIN items \in SUBSET Nat
    BY <1>1, <1>2, PositionsAre DEF IsList
  <2> QED
    BY <1>3, <2>1 DEF Takes
<1>5. \A m, n \in DOMAIN some : m # n => at[m] # at[n]
  <2> SUFFICES ASSUME NEW m \in DOMAIN some, NEW n \in DOMAIN some, m # n PROVE at[m] # at[n]
    OBVIOUS
  <2>1. m < n \/ n < m
    BY <1>4
  <2>2. at[m] < at[n] \/ at[n] < at[m]
    BY <1>3, <2>1
  <2> QED
    BY <1>4, <2>2
<1>6. \A j, k \in DOMAIN some : some[j].member # <<>> /\ some[j].member = some[k].member => j = k
  BY <1>4, <1>5 DEF ItemsTold
<1>7. \A k \in DOMAIN some :
         /\ some[k] = [name |-> some[k].name, member |-> some[k].member, parts |-> some[k].parts]
         /\ ItemTold(some[k])
  BY <1>4 DEF ItemsTold
<1> QED
  BY <1>2, <1>6, <1>7 DEF ItemsTold, some

(* The items are the archive: what the property says of the items written.  *)
ArchiveTold(items) ==
    /\ (\A index \in parsed : InClear(index)) =>
         /\ \A j, k \in DOMAIN items :
              items[j].member # <<>> /\ items[j].member = items[k].member => j = k
         /\ \A k \in DOMAIN items :
              items[k].member # <<>> => Archived(items[k].parts, items[k].member)
    /\ NumbersTellParts =>
         \A k \in DOMAIN items : \A n \in DOMAIN items[k].parts : InPostingOrder(items[k].parts[n].segments)

(* The members and parts of such items are the archive's.                   *)
LEMMA ItemsArchived ==
    ASSUME job.files \in Seq(FileType), PlacesTold(results, parsed), ByVolume(results),
           NEW items, ItemsTold(items)
    PROVE  ArchiveTold(items)
<1>1. ASSUME NEW k \in DOMAIN items
      PROVE  /\ items[k].member # <<>> => items[k].parts = PartsOf(items[k].member)
             /\ \A n \in DOMAIN items[k].parts : OfFile(items[k].parts[n].segments)
  <2>1. ItemTold(items[k])
    BY DEF ItemsTold
  <2>2. \A name : \A n \in DOMAIN PartsOf(name) : OfFile(PartsOf(name)[n].segments)
    BY PartsTold
  <2> QED
    BY <2>1, <2>2 DEF ItemTold
<1>2. ASSUME \A index \in parsed : InClear(index), NEW k \in DOMAIN items, items[k].member # <<>>
      PROVE  Archived(items[k].parts, items[k].member)
  <2>1. Archived(PartsOf(items[k].member), items[k].member)
    BY <1>2, PartsTold
  <2> QED
    BY <1>1, <1>2, <2>1
<1>3. ASSUME NumbersTellParts, NEW segments, OfFile(segments)
      PROVE  InPostingOrder(segments)
  <2>1. PICK f \in DOMAIN Files : segments = SegmentIds(Files[f])
    BY <1>3 DEF OfFile
  <2>2. Files[f] \in FileType
    BY Elements DEF Files
  <2>3. NumbersTell(Files[f].articles)
    BY <1>3 DEF NumbersTellParts, NumbersTell
  <2> QED
    BY <2>1, <2>2, <2>3, SegmentsInOrder
<1>4. \A j, k \in DOMAIN items : items[j].member # <<>> /\ items[j].member = items[k].member => j = k
  BY DEF ItemsTold
<1> QED
  BY <1>1, <1>2, <1>3, <1>4 DEF ArchiveTold

(* Items that are the archive stay so where the places do.                  *)
LEMMA WrittenTold ==
    ASSUME job' = job, parsed' = parsed, NEW all, imported'.items = all, ArchiveTold(all)
    PROVE  ItemsAreTheArchive'
<1>1. /\ Files' = Files /\ Examined' = Examined
      /\ \A index : /\ VolumeOf(index)' = VolumeOf(index) /\ OnWire(index)' = OnWire(index)
                    /\ InClear(index)' <=> InClear(index)
      /\ \A part, index, k : IsBlock(part, index, k)' <=> IsBlock(part, index, k)
      /\ NumbersTellParts' <=> NumbersTellParts
  BY SamePlaces
<1>2. ASSUME \A index \in parsed' : InClear(index)', NEW k \in DOMAIN all, all[k].member # <<>>
      PROVE  /\ \A n \in DOMAIN all[k].parts : \E index \in parsed' : \E b \in OnWire(index)' :
                  /\ VolumeOf(index)'.blocks[b].name = all[k].member
                  /\ IsBlock(all[k].parts[n], index, b)'
             /\ \A index \in parsed' : \A b \in OnWire(index)' :
                  VolumeOf(index)'.blocks[b].name = all[k].member =>
                    \E n \in DOMAIN all[k].parts : IsBlock(all[k].parts[n], index, b)'
             /\ ListedByNumber(all[k].member)' => InVolumeOrder(all[k].parts)'
             /\ \A n \in DOMAIN all[k].parts :
                  all[k].parts[n].offset =
                    IF n = 1 THEN 0 ELSE all[k].parts[n - 1].offset + all[k].parts[n - 1].size
  <2> DEFINE parts == all[k].parts
  <2>1. Archived(parts, all[k].member)
    BY <1>1, <1>2 DEF ArchiveTold
  <2> HIDE DEF parts
  <2>2. \A n \in DOMAIN parts : \E index \in parsed' : \E b \in OnWire(index)' :
           /\ VolumeOf(index)'.blocks[b].name = all[k].member
           /\ IsBlock(parts[n], index, b)'
    BY <1>1, <2>1 DEF Archived
  <2>3. \A index \in parsed' : \A b \in OnWire(index)' :
           VolumeOf(index)'.blocks[b].name = all[k].member =>
             \E n \in DOMAIN parts : IsBlock(parts[n], index, b)'
    BY <1>1, <2>1 DEF Archived
  <2>4. ListedByNumber(all[k].member)' => InVolumeOrder(parts)'
    BY <2>1, SameNumbers DEF Archived
  <2> QED
    BY <2>1, <2>2, <2>3, <2>4 DEF Archived, parts
<1>3. ASSUME \A index \in parsed' : InClear(index)'
      PROVE  LET members == {k \in DOMAIN all : all[k].member # <<>>}
             IN  /\ \A j, k \in members : all[j].member = all[k].member => j = k
                 /\ \A k \in members :
                      LET parts == all[k].parts
                      IN  /\ \A n \in DOMAIN parts : \E index \in parsed' : \E b \in OnWire(index)' :
                               /\ VolumeOf(index)'.blocks[b].name = all[k].member
                               /\ IsBlock(parts[n], index, b)'
                          /\ \A index \in parsed' : \A b \in OnWire(index)' :
                               VolumeOf(index)'.blocks[b].name = all[k].member =>
                                 \E n \in DOMAIN parts : IsBlock(parts[n], index, b)'
                          /\ ListedByNumber(all[k].member)' => InVolumeOrder(parts)'
                          /\ \A n \in DOMAIN parts :
                               parts[n].offset = IF n = 1 THEN 0 ELSE parts[n - 1].offset + parts[n - 1].size
  <2>1. \A j, k \in {k \in DOMAIN all : all[k].member # <<>>} : all[j].member = all[k].member => j = k
    BY <1>1, <1>3 DEF ArchiveTold
  <2> QED
    BY <1>2, <1>3, <2>1
<1>4. NumbersTellParts' =>
        \A k \in DOMAIN all : \A n \in DOMAIN all[k].parts :
           LET ids == all[k].parts[n].segments
           IN  \A i, j \in DOMAIN ids :
                   /\ Content[ids[i]].post = Content[ids[j]].post
                   /\ i < j => Content[ids[i]].part < Content[ids[j]].part
  BY <1>1 DEF ArchiveTold, InPostingOrder
<1> QED
  BY <1>3, <1>4 DEF ItemsAreTheArchive, IsBlock

(* What was written is told so.                                             *)
LEMMA WrittenIs ==
    ASSUME ItemsAreTheArchive, stage = "done"
    PROVE  ArchiveTold(imported.items)
<1>1. ASSUME \A index \in parsed : InClear(index), NEW k \in DOMAIN imported.items, imported.items[k].member # <<>>
      PROVE  Archived(imported.items[k].parts, imported.items[k].member)
  <2> DEFINE parts == imported.items[k].parts
             name == imported.items[k].member
  <2>1. \A n \in DOMAIN parts : \E index \in parsed : \E b \in OnWire(index) :
           /\ VolumeOf(index).blocks[b].name = name
           /\ IsBlock(parts[n], index, b)
    BY <1>1 DEF ItemsAreTheArchive
  <2>2. \A index \in parsed : \A b \in OnWire(index) :
           VolumeOf(index).blocks[b].name = name => \E n \in DOMAIN parts : IsBlock(parts[n], index, b)
    BY <1>1 DEF ItemsAreTheArchive
  <2>3. ListedByNumber(name) => InVolumeOrder(parts)
    BY <1>1 DEF ItemsAreTheArchive
  <2>4. \A n \in DOMAIN parts :
           parts[n].offset = IF n = 1 THEN 0 ELSE parts[n - 1].offset + parts[n - 1].size
    BY <1>1 DEF ItemsAreTheArchive
  <2> HIDE DEF parts, name
  <2>5. Archived(parts, name)
    BY <2>1, <2>2, <2>3, <2>4 DEF Archived
  <2> QED
    BY <2>5 DEF parts, name
<1>2. (\A index \in parsed : InClear(index)) =>
        \A j, k \in DOMAIN imported.items :
           imported.items[j].member # <<>> /\ imported.items[j].member = imported.items[k].member => j = k
  BY DEF ItemsAreTheArchive
<1>3. ASSUME NumbersTellParts, NEW k \in DOMAIN imported.items, NEW n \in DOMAIN imported.items[k].parts
      PROVE  InPostingOrder(imported.items[k].parts[n].segments)
  <2> DEFINE ids == imported.items[k].parts[n].segments
  <2>1. \A i, j \in DOMAIN ids :
           /\ Content[ids[i]].post = Content[ids[j]].post
           /\ i < j => Content[ids[i]].part < Content[ids[j]].part
    BY <1>3 DEF ItemsAreTheArchive
  <2> HIDE DEF ids
  <2>2. InPostingOrder(ids)
    BY <2>1 DEF InPostingOrder
  <2> QED
    BY <2>2 DEF ids
<1> QED
  BY <1>1, <1>2, <1>3 DEF ArchiveTold

(* What is written is the archive.                                          *)
LEMMA AggregateTold ==
    ASSUME job.files \in Seq(FileType), FilesTold(infos), PlacesTold(results, parsed), ByVolume(results),
           NEW order \in SetToSeqs(Names), Aggregate(order)
    PROVE  ItemsAreTheArchive'
<1> DEFINE renamed == Renamed(RarItems(order) \o PlainItems)
           K == {k \in DOMAIN renamed : renamed[k].name \notin Blocklist}
           items == Selected(renamed, K)
           importable == ~VideoRequired \/ \E k \in DOMAIN items : Video(items[k])
           records == [k \in DOMAIN index_sets |-> RecordOf(index_sets[k], items)]
<1>1. /\ job' = job /\ parsed' = parsed
      /\ IF importable
         THEN /\ stage' = "done"
              /\ imported' = [items |-> items, strms |-> Strms(items), records |-> records]
         ELSE stage' = "failed"
  BY DEF Aggregate
<1>2. ItemsTold(renamed)
  BY ItemsAre, RenamedTold
<1> HIDE DEF renamed, importable, records
<1>3. ItemsTold(items)
  BY <1>2, SelectedTold
<1> HIDE DEF items
<1>4. stage' = "done" => \E all : imported'.items = all /\ ItemsTold(all)
  BY <1>1, <1>3
<1>5. CASE stage' # "done"
  BY <1>5 DEF ItemsAreTheArchive
<1>6. CASE stage' = "done"
  <2>1. PICK all : imported'.items = all /\ ItemsTold(all)
    BY <1>4, <1>6
  <2>2. ArchiveTold(all)
    BY <2>1, ItemsArchived
  <2> QED
    BY <1>1, <2>1, <2>2, WrittenTold
<1> QED
  BY <1>5, <1>6

-----------------------------------------------------------------------------
(* The archive: the invariant.                                              *)

(* No file is told twice.                                                   *)
FilesOnce(list) == \A j, k \in DOMAIN list : j # k => list[j].index # list[k].index

(* The volumes to read are none of those that were read.                    *)
VolumesLeft(list, left, done) ==
    \A k \in left : k \in DOMAIN RarInfos(list) /\ RarInfos(list)[k].index \notin done

ArchiveInv ==
    /\ stage \in {"parse", "first", "index", "probe"} => results = <<>> /\ parsed = {}
    /\ stage \in {"first", "index"} => FilesOnce(infos)
    /\ stage = "first" => \A k \in DOMAIN infos : infos[k].index \notin waiting
    /\ stage \in {"probe", "volumes", "aggregate"} => FilesTold(infos)
    /\ stage = "probe" => RarInfos(infos) # <<>>
    /\ stage = "volumes" => VolumesLeft(infos, waiting, parsed)
    /\ stage \in {"volumes", "aggregate"} => PlacesTold(results, parsed)
    /\ stage = "aggregate" => ByVolume(results)
    /\ ItemsAreTheArchive

(* Nothing but the last step writes items.                                  *)
LEMMA NotWritten ==
    ASSUME stage' # "done"
    PROVE  ItemsAreTheArchive'
BY DEF ItemsAreTheArchive

(* What is told of the files holds after a step that leaves the NZB alone.  *)
LEMMA SameFiles ==
    ASSUME job' = job, NEW list, FilesTold(list), infos' = list
    PROVE  FilesTold(infos)'
<1>1. Files' = Files /\ Examined' = Examined
  BY SamePlaces
<1>2. \A segments : OfFile(segments)' <=> OfFile(segments)
  BY <1>1 DEF OfFile
<1>3. \A info : VolumeTold(info)' <=> VolumeTold(info)
  BY <1>1 DEF VolumeTold
<1>4. FilesTold(list)'
  BY <1>2, <1>3 DEF FilesTold
<1> QED
  BY <1>4

(* And what is told of the members.                                         *)
LEMMA SameMembers ==
    ASSUME job' = job, NEW list, NEW done, PlacesTold(list, done), results' = list, parsed' = done
    PROVE  PlacesTold(results, parsed)'
<1>1. /\ Files' = Files /\ Examined' = Examined
      /\ \A index : /\ VolumeOf(index)' = VolumeOf(index) /\ OnWire(index)' = OnWire(index)
                    /\ InClear(index)' <=> InClear(index)
      /\ \A part, index, k : IsBlock(part, index, k)' <=> IsBlock(part, index, k)
  BY SamePlaces
<1>2. \A part, index, k : Places(part, index, k)' <=> Places(part, index, k)
  BY <1>1 DEF Places
<1>3. \A segments : OfFile(segments)' <=> OfFile(segments)
  BY <1>1 DEF OfFile
<1>4. PlacesTold(list, done)'
  BY <1>1, <1>2, <1>3 DEF PlacesTold
<1> QED
  BY <1>4

(* The document is parsed.                                                  *)
LEMMA ParseDocumentTells ==
    ASSUME RecordsInv, ArchiveInv, ParseDocument
    PROVE  ArchiveInv'
<1>1. stage = "parse" /\ stage' \in {"first", "failed"} /\ UNCHANGED <<infos, results, parsed>>
  BY DEF ParseDocument
<1>2. infos' = <<>> /\ results' = <<>> /\ parsed' = {}
  BY <1>1 DEF RecordsInv, ArchiveInv
<1>3. FilesOnce(infos') /\ \A k \in DOMAIN infos' : infos'[k].index \notin waiting'
  BY <1>2 DEF FilesOnce
<1>4. ItemsAreTheArchive'
  BY <1>1, NotWritten
<1> QED
  BY <1>1, <1>2, <1>3, <1>4 DEF ArchiveInv

(* A first article is fetched, or not: its file is told once.               *)
LEMMA FetchFirstTells ==
    ASSUME RecordsInv, ArchiveInv, NEW outcome \in {"found", "missing", "error"}, NEW k, FetchFirst(k, outcome)
    PROVE  ArchiveInv'
<1>1. /\ stage = "first" /\ stage' = "first" /\ job' = job /\ UNCHANGED <<results, parsed>>
      /\ waiting' = waiting \ {k} /\ k \in waiting
  BY DEF FetchFirst
<1>2. /\ job.files \in Seq(FileType) /\ AllTold(infos, Examined)
      /\ waiting \in SUBSET {i \in DOMAIN Examined : Examined[i].articles # <<>>}
      /\ results = <<>> /\ parsed = {}
      /\ FilesOnce(infos) /\ \A n \in DOMAIN infos : infos[n].index \notin waiting
  BY <1>1 DEF RecordsInv, ArchiveInv
<1>3. Examined \in Seq(FileType) /\ k \in DOMAIN Examined /\ Examined[k].articles # <<>>
  BY <1>1, <1>2, ExaminedAre
<1> DEFINE par2 == Examined[k].par2
           info == IF outcome = "found" THEN Analysed(Info(k, Examined[k]), par2)
                   ELSE FromName(Info(k, Examined[k]), par2, outcome)
<1>4. info \in InfoType /\ info.index = k
  BY <1>3, FirstTells
<1>5. infos' = Append(infos, info)
  BY DEF FetchFirst
<1> HIDE DEF info
<1>6. infos \in Seq(InfoType)
  BY <1>2 DEF AllTold
<1>7. /\ DOMAIN infos = 1..Len(infos) /\ Len(infos) \in Nat /\ DOMAIN infos' = 1..(Len(infos) + 1)
      /\ \A n \in DOMAIN infos : infos'[n] = infos[n]
      /\ infos'[Len(infos) + 1] = info
  BY <1>4, <1>5, <1>6
<1>8. \A n \in DOMAIN infos' : n \in DOMAIN infos \/ n = Len(infos) + 1
  BY <1>7
<1>9. FilesOnce(infos')
  BY <1>1, <1>2, <1>4, <1>7, <1>8 DEF FilesOnce
<1>10. \A n \in DOMAIN infos' : infos'[n].index \notin waiting'
  BY <1>1, <1>2, <1>4, <1>7, <1>8
<1>11. ItemsAreTheArchive'
  BY <1>1, NotWritten
<1> QED
  BY <1>1, <1>2, <1>9, <1>10, <1>11 DEF ArchiveInv

(* The first articles are collected.                                        *)
LEMMA CollectFirstTells ==
    ASSUME RecordsInv, ArchiveInv, CollectFirst
    PROVE  ArchiveInv'
<1>1. /\ stage = "first" /\ stage' = "index" /\ UNCHANGED <<results, parsed>> /\ infos' = ByIndex(infos)
  BY DEF CollectFirst
<1>2. AllTold(infos, Examined) /\ results = <<>> /\ parsed = {} /\ FilesOnce(infos)
  BY <1>1 DEF RecordsInv, ArchiveInv
<1> DEFINE key == [k \in DOMAIN infos |-> infos[k].index]
           list == ByIndex(infos)
<1>3. infos \in Seq(InfoType)
  BY <1>2 DEF AllTold
<1>4. key \in [DOMAIN infos -> Nat]
  <2>1. \A k \in DOMAIN infos : infos[k] \in InfoType
    BY <1>3, Elements
  <2> QED
    BY <2>1 DEF InfoType
<1>5. list = Sorted(infos, key)
  BY DEF ByIndex
<1> HIDE DEF key, list
<1>6. DOMAIN list = DOMAIN infos /\ DOMAIN infos \in SUBSET Nat
  BY <1>3, <1>4, <1>5, SortedIs
<1>7. PICK at : /\ Takes(list, infos, DOMAIN infos, at)
                /\ \A m, n \in DOMAIN infos : m < n =>
                     key[at[m]] < key[at[n]] \/ (key[at[m]] = key[at[n]] /\ at[m] < at[n])
  BY <1>3, <1>4, <1>5, SortedFrom
<1>8. \A n \in DOMAIN list : /\ at[n] \in DOMAIN infos /\ list[n] = infos[at[n]]
                            /\ at[n] \in Nat /\ key[at[n]] \in Nat
  BY <1>4, <1>6, <1>7 DEF Takes
<1>9. ASSUME NEW m \in DOMAIN list, NEW n \in DOMAIN list, m # n
      PROVE  list[m].index # list[n].index
  <2>1. m < n \/ n < m
    BY <1>6, <1>9
  <2>2. at[m] # at[n]
    BY <1>6, <1>7, <1>8, <2>1
  <2> QED
    BY <1>2, <1>8, <2>2 DEF FilesOnce
<1>10. infos' = list
  BY <1>1 DEF list
<1>11. FilesOnce(infos')
  BY <1>9, <1>10 DEF FilesOnce
<1>12. ItemsAreTheArchive'
  BY <1>1, NotWritten
<1> QED
  BY <1>1, <1>2, <1>11, <1>12 DEF ArchiveInv

(* An index tells nothing of the volumes.                                   *)
LEMMA ReadGroupTells ==
    ASSUME ArchiveInv, NEW outcome, ReadGroup(outcome)
    PROVE  ArchiveInv'
<1>1. stage = "index" /\ stage' \in {"index", "failed"} /\ UNCHANGED <<infos, results, parsed>>
  BY DEF ReadGroup
<1>2. results' = <<>> /\ parsed' = {} /\ FilesOnce(infos')
  BY <1>1 DEF ArchiveInv
<1>3. ItemsAreTheArchive'
  BY <1>1, NotWritten
<1> QED
  BY <1>1, <1>2, <1>3 DEF ArchiveInv

(* The files of one article that a fast import sets aside are no volumes.   *)
LEMMA SkippedAre ==
    ASSUME job.files \in Seq(FileType)
    PROVE  /\ IsList(SkippedSingles)
           /\ \A k \in DOMAIN SkippedSingles : ~SkippedSingles[k].rar /\ OfFile(SkippedSingles[k].segments)
<1> DEFINE key == [k \in Singles |-> k]
           at == Ordered(Singles, Stably(Singles, key))
           skipped == SkippedSingles
<1>1. Singles \in SUBSET DOMAIN Files /\ IsFiniteSet(Singles) /\ Singles \in SUBSET Nat
  <2>1. Files \in Seq(FileType) /\ Singles \in SUBSET DOMAIN Files
    BY DEF Files, Singles
  <2> QED
    BY <2>1, PositionsAre
<1>2. key \in [Singles -> Nat]
  BY <1>1
<1> HIDE DEF key
<1>3. at \in Seq(Singles)
  BY <1>1, <1>2, StablyOrders, OrderedIs
<1>4. skipped = IF FastMode THEN [n \in DOMAIN at |-> Info(at[n], Files[at[n]])] ELSE <<>>
  BY DEF SkippedSingles, key
<1> HIDE DEF at, skipped
<1>5. DOMAIN at = 1..Len(at) /\ Len(at) \in Nat /\ \A n \in 1..Len(at) : at[n] \in Singles
  BY <1>3
<1>6. \A k, f : ~Info(k, f).rar /\ Info(k, f).segments = SegmentIds(f)
  BY DEF Info
<1>7. CASE FastMode
  <2>1. skipped = [n \in 1..Len(at) |-> skipped[n]] /\ DOMAIN skipped = 1..Len(at)
    BY <1>4, <1>5, <1>7
  <2>2. \A n \in DOMAIN skipped : ~skipped[n].rar /\ skipped[n].segments = SegmentIds(Files[at[n]])
    BY <1>4, <1>5, <1>6, <1>7, <2>1
  <2>3. \A n \in DOMAIN skipped : OfFile(skipped[n].segments)
    BY <1>1, <1>5, <2>1, <2>2 DEF OfFile
  <2>4. IsList(skipped)
    BY <1>5, <2>1, ListOf
  <2> QED
    BY <2>2, <2>3, <2>4 DEF skipped
<1>8. CASE ~FastMode
  <2>1. skipped = <<>>
    BY <1>4, <1>8
  <2>2. skipped \in Seq({})
    BY <2>1
  <2>3. IsList(skipped)
    BY <2>2, ListsAre
  <2> QED
    BY <2>1, <2>3 DEF skipped
<1> QED
  BY <1>7, <1>8

(* The files of the import are told when the sets are read.                 *)
LEMMA ResolvedTold ==
    ASSUME job.files \in Seq(FileType), AllTold(infos, Examined), FilesOnce(infos)
    PROVE  FilesTold([k \in DOMAIN infos |-> Resolved(infos[k])] \o SkippedSingles)
<1> DEFINE named == [k \in DOMAIN infos |-> Resolved(infos[k])]
           skipped == SkippedSingles
           all == named \o skipped
<1>1. /\ DOMAIN infos = 1..Len(infos) /\ Len(infos) \in Nat
      /\ \A k \in DOMAIN infos : infos[k] \in InfoType /\ Told(infos[k], Examined)
  <2>1. infos \in Seq(InfoType)
    BY DEF AllTold
  <2> QED
    BY <2>1, Elements DEF AllTold
<1>2. DOMAIN named = DOMAIN infos /\ named = [k \in 1..Len(infos) |-> named[k]]
  BY <1>1
<1>3. ASSUME NEW k \in DOMAIN infos
      PROVE  /\ named[k].segments = infos[k].segments /\ named[k].index = infos[k].index
             /\ named[k].rar = infos[k].rar
  <2>1. named[k] = Resolved(infos[k])
    OBVIOUS
  <2> QED
    BY <1>1, <2>1, ResolvedIs
<1>4. IsList(skipped) /\ \A k \in DOMAIN skipped : ~skipped[k].rar /\ OfFile(skipped[k].segments)
  BY SkippedAre
<1> HIDE DEF named, skipped
<1>5. Len(named) = Len(infos)
  BY <1>1, <1>2, ListOf
<1>5a. IsList(named)
  BY <1>1, <1>2, ListOf
<1>5b. IsList(skipped)
  BY <1>4
<1>6. ASSUME NEW k \in DOMAIN infos
      PROVE  VolumeTold(named[k]) /\ OfFile(named[k].segments)
  <2>1. /\ infos[k].index \in DOMAIN Examined /\ Examined[infos[k].index].articles # <<>>
        /\ infos[k].segments = SegmentIds(Examined[infos[k].index])
    BY <1>1 DEF Told
  <2>2. OfFile(SegmentIds(Examined[infos[k].index]))
    BY <2>1, ExaminedOf
  <2> QED
    BY <1>3, <2>1, <2>2 DEF VolumeTold
<1>7. /\ IsList(all)
      /\ DOMAIN skipped = 1..Len(skipped) /\ Len(skipped) \in Nat
      /\ DOMAIN all = 1..(Len(named) + Len(skipped))
      /\ \A k \in 1..Len(named) : all[k] = named[k]
      /\ \A k \in 1..Len(skipped) : all[Len(named) + k] = skipped[k]
  BY <1>5a, <1>5b, ListsJoined
<1> HIDE DEF all
<1>8. ASSUME NEW k \in DOMAIN all
      PROVE  \/ k \in DOMAIN infos /\ all[k] = named[k]
             \/ ~all[k].rar /\ OfFile(all[k].segments)
  <2>1. CASE k <= Len(infos)
    BY <1>1, <1>5, <1>7, <2>1
  <2>2. CASE ~(k <= Len(infos))
    <3>1. k - Len(infos) \in 1..Len(skipped) /\ Len(infos) + (k - Len(infos)) = k
      BY <1>1, <1>5, <1>7, <2>2
    <3> QED
      BY <1>4, <1>5, <1>7, <3>1
  <2> QED
    BY <2>1, <2>2
<1>9. \A k \in DOMAIN all : OfFile(all[k].segments) /\ (all[k].rar => VolumeTold(all[k]))
  BY <1>6, <1>8
<1>10. \A j, k \in DOMAIN all : j # k /\ all[j].rar /\ all[k].rar => all[j].index # all[k].index
  BY <1>3, <1>8 DEF FilesOnce
<1> QED
  BY <1>7, <1>9, <1>10 DEF FilesTold, all, named, skipped

(* Nothing is told where nothing was read.                                  *)
LEMMA NothingTold == PlacesTold(<<>>, {}) /\ ByVolume(<<>>)
<1>1. IsList(<<>>)
  <2>1. <<>> \in Seq({})
    OBVIOUS
  <2> QED
    BY <2>1, ListsAre
<1> QED
  BY <1>1 DEF PlacesTold, ByVolume

(* The sets are read.                                                       *)
LEMMA ResolveTells ==
    ASSUME RecordsInv, ArchiveInv, Resolve
    PROVE  ArchiveInv'
<1>1. /\ stage = "index" /\ job' = job /\ UNCHANGED <<results, parsed>>
      /\ infos' = [k \in DOMAIN infos |-> Resolved(infos[k])] \o SkippedSingles
      /\ stage' = IF RarInfos(infos') = <<>> THEN "aggregate" ELSE "probe"
  BY DEF Resolve
<1>2. /\ job.files \in Seq(FileType) /\ AllTold(infos, Examined) /\ FilesOnce(infos)
      /\ results = <<>> /\ parsed = {}
  BY <1>1 DEF RecordsInv, ArchiveInv
<1>3. FilesTold(infos)'
  BY <1>1, <1>2, ResolvedTold, SameFiles
<1>4. PlacesTold(results, parsed)' /\ ByVolume(results')
  BY <1>1, <1>2, NothingTold, SameMembers
<1>5. ItemsAreTheArchive'
  BY <1>1, NotWritten
<1> QED
  BY <1>1, <1>2, <1>3, <1>4, <1>5 DEF ArchiveInv

(* The volumes of the import, each once.                                    *)
LEMMA RarInfosAre ==
    ASSUME NEW list, FilesTold(list)
    PROVE  /\ IsList(RarInfos(list)) /\ DOMAIN RarInfos(list) = 1..Len(RarInfos(list))
           /\ Len(RarInfos(list)) \in Nat
           /\ \A k \in DOMAIN RarInfos(list) : VolumeTold(RarInfos(list)[k])
           /\ \A j, k \in DOMAIN RarInfos(list) : j # k => RarInfos(list)[j].index # RarInfos(list)[k].index
<1> DEFINE K == {k \in DOMAIN list : list[k].rar}
           all == RarInfos(list)
<1>1. IsList(list) /\ K \in SUBSET DOMAIN list
  BY DEF FilesTold
<1>2. all = Selected(list, K)
  BY DEF RarInfos
<1> HIDE DEF all
<1>3. IsList(all)
  BY <1>1, <1>2, SelectedLists
<1>4. PICK at : Takes(all, list, K, at) /\ \A m, n \in DOMAIN all : m < n => at[m] < at[n]
  BY <1>1, <1>2, SelectedLists
<1>5. /\ DOMAIN all = 1..Len(all) /\ Len(all) \in Nat /\ DOMAIN list \in SUBSET Nat
  BY <1>1, <1>3, Elements, PositionsAre DEF IsList
<1>6. \A n \in DOMAIN all : at[n] \in DOMAIN list /\ list[at[n]].rar /\ all[n] = list[at[n]] /\ at[n] \in Nat
  BY <1>4, <1>5 DEF Takes
<1>7. \A k \in DOMAIN all : VolumeTold(all[k])
  BY <1>6 DEF FilesTold
<1>8. ASSUME NEW j \in DOMAIN all, NEW k \in DOMAIN all, j # k
      PROVE  all[j].index # all[k].index
  <2>1. j < k \/ k < j
    BY <1>5, <1>8
  <2>2. at[j] # at[k]
    BY <1>4, <1>6, <2>1
  <2> QED
    BY <1>6, <2>2 DEF FilesTold
<1> QED
  BY <1>3, <1>5, <1>7, <1>8 DEF all

(* The first volume is read, or not.                                        *)
LEMMA ProbeVolumeTells ==
    ASSUME RecordsInv, ArchiveInv, NEW outcome \in {"found", "missing", "error"}, ProbeVolume(outcome)
    PROVE  ArchiveInv'
<1> DEFINE all == RarInfos(infos)
           headers == HeadersOf(all[1])
           failed == outcome = "missing" \/ (outcome = "found" /\ ~headers.ok)
           read == outcome = "found" /\ headers.ok
           told == Processed(all[1], headers.files)
<1>1. /\ stage = "probe" /\ job' = job /\ infos' = infos
      /\ stage' = IF failed THEN "failed" ELSE IF read /\ Len(all) > 1 THEN "volumes" ELSE "aggregate"
      /\ results' = IF read THEN told ELSE results
      /\ parsed' = IF read THEN {all[1].index} ELSE parsed
      /\ waiting' = IF read THEN 2..Len(all) ELSE {}
  BY DEF ProbeVolume
<1>2. /\ job.files \in Seq(FileType) /\ FilesTold(infos) /\ all # <<>>
      /\ results = <<>> /\ parsed = {}
  BY <1>1 DEF RecordsInv, ArchiveInv
<1>3. /\ IsList(all) /\ DOMAIN all = 1..Len(all) /\ Len(all) \in Nat
      /\ \A k \in DOMAIN all : VolumeTold(all[k])
      /\ \A j, k \in DOMAIN all : j # k => all[j].index # all[k].index
  BY <1>2, RarInfosAre
<1>4. 1 \in DOMAIN all
  <2>1. all \in Seq({all[k] : k \in DOMAIN all})
    BY <1>3 DEF IsList
  <2> HIDE DEF all
  <2>2. Len(all) # 0
    BY <1>2, <2>1
  <2> QED
    BY <1>3, <2>2
<1>5. FilesTold(infos)'
  BY <1>1, <1>2, SameFiles
<1>6. ItemsAreTheArchive'
  BY <1>1, NotWritten
<1>7. CASE read
  <2>1. headers.ok /\ VolumeTold(all[1])
    BY <1>3, <1>4, <1>7
  <2>2. PlacesTold(told, {all[1].index}) /\ \A n \in DOMAIN told : told[n].index = all[1].index
    BY <1>2, <2>1, ProcessedTold
  <2>3. \A n \in DOMAIN told : all[1].index \in Nat
    BY <1>2, <2>1, ExaminedAre DEF VolumeTold
  <2>4. /\ results' = told /\ parsed' = {all[1].index} /\ waiting' = 2..Len(all)
        /\ stage' \in {"failed", "volumes", "aggregate"}
    BY <1>1, <1>7
  <2>5. \A k \in 2..Len(all) : k \in DOMAIN all /\ all[k].index # all[1].index
    BY <1>3, <1>4
  <2>6. RarInfos(infos') = all
    BY <1>1
  <2> HIDE DEF all, told, headers
  <2>7. PlacesTold(results, parsed)'
    BY <1>1, <2>2, <2>4, SameMembers
  <2>8. ByVolume(told)
    BY <2>2, <2>3 DEF ByVolume
  <2>9. VolumesLeft(infos', waiting', parsed')
    BY <2>4, <2>5, <2>6 DEF VolumesLeft
  <2>10. ByVolume(results')
    BY <2>4, <2>8
  <2> QED
    BY <1>5, <1>6, <2>4, <2>7, <2>9, <2>10 DEF ArchiveInv
<1>8. CASE ~read
  <2>1. results' = <<>> /\ parsed' = {} /\ stage' \in {"failed", "aggregate"}
    BY <1>1, <1>2, <1>8
  <2>2. PlacesTold(results, parsed)' /\ ByVolume(results')
    BY <1>1, <2>1, NothingTold, SameMembers
  <2> QED
    BY <1>5, <1>6, <2>1, <2>2 DEF ArchiveInv
<1> QED
  BY <1>7, <1>8

(* Another volume is read, or not.                                          *)
LEMMA ParseVolumeTells ==
    ASSUME RecordsInv, ArchiveInv, NEW k, NEW outcome \in {"found", "missing", "error"}, ParseVolume(k, outcome)
    PROVE  ArchiveInv'
<1> DEFINE all == RarInfos(infos)
           info == all[k]
           headers == HeadersOf(info)
           read == outcome = "found" /\ headers.ok
           told == Processed(info, headers.files)
<1>1. /\ stage = "volumes" /\ stage' = "volumes" /\ job' = job /\ infos' = infos
      /\ k \in waiting /\ waiting' = waiting \ {k}
      /\ results' = IF read THEN results \o told ELSE results
      /\ parsed' = IF read THEN parsed \union {info.index} ELSE parsed
  BY DEF ParseVolume
<1>2. /\ job.files \in Seq(FileType) /\ FilesTold(infos) /\ VolumesLeft(infos, waiting, parsed)
      /\ PlacesTold(results, parsed)
  BY <1>1 DEF RecordsInv, ArchiveInv
<1>3. /\ \A n \in DOMAIN all : VolumeTold(all[n])
      /\ \A m, n \in DOMAIN all : m # n => all[m].index # all[n].index
  BY <1>2, RarInfosAre
<1>4. \A n \in waiting : n \in DOMAIN all /\ all[n].index \notin parsed
  BY <1>2 DEF VolumesLeft
<1>5. FilesTold(infos)'
  BY <1>1, <1>2, SameFiles
<1>6. ItemsAreTheArchive'
  BY <1>1, NotWritten
<1>7. RarInfos(infos') = all
  BY <1>1
<1>8. \A n \in waiting' : n \in DOMAIN all /\ all[n].index \notin parsed'
  BY <1>1, <1>3, <1>4
<1>9. VolumesLeft(infos', waiting', parsed')
  BY <1>7, <1>8 DEF VolumesLeft
<1>10. PlacesTold(results, parsed)'
  <2>1. CASE read
    <3>1. headers.ok /\ VolumeTold(info) /\ info.index \notin parsed
      BY <1>1, <1>3, <1>4, <2>1
    <3>2. PlacesTold(told, {info.index})
      BY <1>2, <3>1, ProcessedTold
    <3>3. results' = results \o told /\ parsed' = parsed \union {info.index}
      BY <1>1, <2>1
    <3> HIDE DEF told, info
    <3>4. PlacesTold(results \o told, parsed \union {info.index})
      BY <1>2, <3>1, <3>2, PlacesJoined
    <3> QED
      BY <1>1, <3>3, <3>4, SameMembers
  <2>2. CASE ~read
    <3>1. results' = results /\ parsed' = parsed
      BY <1>1, <2>2
    <3> QED
      BY <1>1, <1>2, <3>1, SameMembers
  <2> QED
    BY <2>1, <2>2
<1> QED
  BY <1>1, <1>5, <1>6, <1>9, <1>10 DEF ArchiveInv

(* The volumes are collected.                                               *)
LEMMA CollectVolumesTells ==
    ASSUME RecordsInv, ArchiveInv, CollectVolumes
    PROVE  ArchiveInv'
<1>1. /\ stage = "volumes" /\ stage' = "aggregate" /\ job' = job /\ infos' = infos /\ parsed' = parsed
      /\ results' = ByIndex(results)
  BY DEF CollectVolumes
<1>2. job.files \in Seq(FileType) /\ FilesTold(infos) /\ PlacesTold(results, parsed)
  BY <1>1 DEF RecordsInv, ArchiveInv
<1>3. FilesTold(infos)'
  BY <1>1, <1>2, SameFiles
<1>4. PlacesTold(ByIndex(results), parsed) /\ ByVolume(ByIndex(results))
  BY <1>2, PlacesSorted
<1>5. PlacesTold(results, parsed)' /\ ByVolume(results')
  BY <1>1, <1>4, SameMembers
<1>6. ItemsAreTheArchive'
  BY <1>1, NotWritten
<1> QED
  BY <1>1, <1>3, <1>5, <1>6 DEF ArchiveInv

(* The items are written.                                                   *)
LEMMA AggregateTells ==
    ASSUME RecordsInv, ArchiveInv, NEW order \in SetToSeqs(Names), Aggregate(order)
    PROVE  ArchiveInv'
<1>1. stage = "aggregate" /\ stage' \in {"done", "failed"}
  BY DEF Aggregate
<1>2. /\ job.files \in Seq(FileType) /\ FilesTold(infos) /\ PlacesTold(results, parsed)
      /\ ByVolume(results)
  BY <1>1 DEF RecordsInv, ArchiveInv
<1>3. ItemsAreTheArchive'
  BY <1>2, AggregateTold
<1> QED
  BY <1>1, <1>3 DEF ArchiveInv

(* The invariant holds at first.                                            *)
LEMMA InitArchiveInv == ImportInit => ArchiveInv
BY DEF ImportInit, ArchiveInv, ItemsAreTheArchive

(* Every step keeps it.                                                     *)
LEMMA NextArchiveInv == RecordsInv /\ ArchiveInv /\ [ImportNext]_importVars => ArchiveInv'
<1> SUFFICES ASSUME RecordsInv, ArchiveInv, [ImportNext]_importVars PROVE ArchiveInv'
  OBVIOUS
<1>1. CASE ParseDocument
  BY <1>1, ParseDocumentTells
<1>2. CASE CollectFirst
  BY <1>2, CollectFirstTells
<1>3. CASE Resolve
  BY <1>3, ResolveTells
<1>4. CASE CollectVolumes
  BY <1>4, CollectVolumesTells
<1>5. ASSUME NEW outcome \in {"found", "missing", "error"}, NEW k \in waiting, FetchFirst(k, outcome)
      PROVE  ArchiveInv'
  BY <1>5, FetchFirstTells
<1>6. ASSUME NEW outcome \in {"found", "missing", "error"}, NEW k \in waiting, ParseVolume(k, outcome)
      PROVE  ArchiveInv'
  BY <1>6, ParseVolumeTells
<1>7. ASSUME NEW outcome \in {"found", "missing", "error"}, ReadGroup(outcome)
      PROVE  ArchiveInv'
  BY <1>7, ReadGroupTells
<1>8. ASSUME NEW outcome \in {"found", "missing", "error"}, ProbeVolume(outcome)
      PROVE  ArchiveInv'
  BY <1>8, ProbeVolumeTells
<1>9. ASSUME NEW order \in SetToSeqs(Names), Aggregate(order)
      PROVE  ArchiveInv'
  BY <1>9, AggregateTells
<1>10. CASE UNCHANGED importVars
  <2>1. UNCHANGED <<job, stage, infos, waiting, results, parsed, imported>>
    BY <1>10 DEF importVars
  <2>2. FilesTold(infos) => FilesTold(infos)'
    BY <2>1, SameFiles
  <2>3. PlacesTold(results, parsed) => PlacesTold(results, parsed)'
    BY <2>1, SameMembers
  <2>4. ItemsAreTheArchive'
    <3>1. CASE stage = "done"
      <4>1. PICK all : all = imported.items
        OBVIOUS
      <4>2. ArchiveTold(all)
        BY <3>1, <4>1, WrittenIs DEF ArchiveInv
      <4> QED
        BY <2>1, <4>1, <4>2, WrittenTold
    <3>2. CASE stage # "done"
      BY <2>1, <3>2, NotWritten
    <3> QED
      BY <3>1, <3>2
  <2> QED
    BY <2>1, <2>2, <2>3, <2>4 DEF ArchiveInv
<1> QED
  BY <1>1, <1>2, <1>3, <1>4, <1>5, <1>6, <1>7, <1>8, <1>9, <1>10 DEF ImportNext

-----------------------------------------------------------------------------
(* The theorems.                                                            *)

(* No item is worked on by two tasks at once, and the manager excludes      *)
(* every item a task works on: for any number of items, slots and mishaps.  *)
THEOREM TasksAreApart == QueueSpec => []OneTaskPerItem
<1>1. QueueInv => OneTaskPerItem
    BY DEF QueueInv, TasksApart, OneTaskPerItem
<1> QED BY <1>1, InitQueueInv, NextQueueInv, PTL DEF QueueSpec

(* An upload that was answered with its id is queued, recorded, withdrawn   *)
(* by the user or unrecorded by a failed statement, whatever crashes.       *)
THEOREM UploadsAreKept == QueueSpec => []NothingLost
<1>1. QueueInv => NothingLost
    BY DEF QueueInv
<1> QED BY <1>1, InitQueueInv, NextQueueInv, PTL DEF QueueSpec

(* No step rewrites a row of the history that is there: INSERT OR IGNORE    *)
(* keeps what an earlier run of the item recorded.                          *)
THEOREM RecordsAreFinal == QueueSpec => HistoryIsFinal
<1> DEFINE Kept == \A i \in DOMAIN history \intersect DOMAIN history' : history'[i] = history[i]
<1>1. ASSUME QueueNext
      PROVE  Kept
    <2>1. CASE \E s \in Slot : InsertHistory(s)
        <3>1. PICK s \in Slot : InsertHistory(s)
            BY <2>1
        <3>2. history' = [i \in DOMAIN history \union {ItemOf(s)} |->
                             IF i \in DOMAIN history THEN history[i]
                             ELSE [status |-> tasks[s].status, dir |-> tasks[s].dir]]
            BY <3>1 DEF InsertHistory
        <3> QED BY <3>2
    <2>2. CASE \E i \in Item : DeleteHistory(i) \/ \E new \in Item : Retry(i, new)
        <3>1. PICK i \in Item : DeleteHistory(i) \/ \E new \in Item : Retry(i, new)
            BY <2>2
        <3>2. history' = Drop(history, {i}) \/ UNCHANGED history
            BY <3>1 DEF DeleteHistory, Retry
        <3> QED BY <3>2 DEF Drop
    <2>3. CASE ClearHistory
        <3>1. history' = Drop(history, Item)
            BY <2>3 DEF ClearHistory
        <3> QED BY <3>1 DEF Drop
    <2>4. CASE \E s \in Slot : \/ StartItem(s) \/ Reap(s) \/ Fault(s) \/ Panic(s)
                                \/ InsertHistoryFails(s) \/ LoadBlob(s) \/ Process(s)
                                \/ LookUpDirectory(s) \/ LookUpParent(s) \/ CreateDirectory(s)
                                \/ InsertFile(s) \/ PutSets(s) \/ DeleteFromQueue(s)
        <3>1. UNCHANGED history
            BY <2>4 DEF StartItem, Reap, Fault, Panic, InsertHistoryFails, LoadBlob, Process,
               LookUpDirectory, LookUpParent, CreateDirectory, InsertFile, PutSets,
               DeleteFromQueue, tables
        <3> QED BY <3>1
    <2>5. CASE \/ \E i \in Item : Enqueue(i) \/ DeleteQueued(i) \/ DavDeleteBlob(i)
               \/ DavDeleteRow \/ Crash
        <3>1. UNCHANGED history
            BY <2>5 DEF Enqueue, DeleteQueued, DavDeleteBlob, DavDeleteRow, Crash, tables
        <3> QED BY <3>1
    <2> QED BY <1>1, <2>1, <2>2, <2>3, <2>4, <2>5 DEF QueueNext, Step
<1>2. [QueueNext]_queueVars => [Kept]_queueVars
    BY <1>1
<1> QED BY <1>2, PTL DEF QueueSpec, HistoryIsFinal

(* An item in the history as completed has every file of it in its          *)
(* directory, unless another import replaced that directory: whatever the   *)
(* tasks, the crashes, the failed statements and the requests between.      *)
THEOREM CompletedAreImported == QueueSpec => []CompletedIsImported
<1>1. QueueInit => ImportInv
    BY InitImportInv
<1>2. ImportInv /\ [QueueNext]_queueVars => ImportInv'
    BY NextImportInv
<1>3. ImportInv => CompletedIsImported
    <2>1. SUFFICES ASSUME ImportInv, NEW i \in DOMAIN history, history[i].status = "Completed",
                          history[i].dir \notin replaced
                   PROVE  history[i].dir \in Live /\ files[history[i].dir] = File
        BY DEF CompletedIsImported
    <2> DEFINE d == history[i].dir
    <2>2. d \in Live /\ 1..FileCount \subseteq files[d]
        BY <2>1 DEF ImportInv, HistoryHolds, Held, Has
    <2>3. d \in Node /\ files[d] \in SUBSET File
        BY <2>1, <2>2 DEF ImportInv, TreeTypes, Live
    <2> QED BY <2>2, <2>3 DEF File
<1> QED BY <1>1, <1>2, <1>3, PTL DEF QueueSpec

(* However an import's articles are read, what is told of its files and of  *)
(* their sets stays of one piece.                                           *)
THEOREM ImportRecordsInvariant == ImportSpec => []RecordsInv
BY InitRecordsInv, NextRecordsInv, PTL DEF ImportSpec

(* The records of an import's PAR2 sets are true.                           *)
THEOREM RecordsAreKept == ImportSpec => []RecordsAreTrue
<1>1. RecordsInv => RecordsAreTrue
  BY DEF RecordsInv
<1> QED
  BY <1>1, ImportRecordsInvariant, PTL
(* However an import's volumes are read, its members are told where they    *)
(* are, volume after volume.                                                *)
THEOREM ImportArchiveInvariant == ImportSpec => []ArchiveInv
<1>1. ImportSpec => [](RecordsInv /\ ArchiveInv)
  BY InitRecordsInv, NextRecordsInv, InitArchiveInv, NextArchiveInv, PTL DEF ImportSpec
<1> QED
  BY <1>1, PTL

(* The items of an import are the archive's members, each of the parts it   *)
(* has in the volumes that were read, and read their articles in order: for *)
(* any NZB, whatever the tasks find and in whatever order they end.         *)
THEOREM ItemsAreKept == ImportSpec => []ItemsAreTheArchive
<1>1. ArchiveInv => ItemsAreTheArchive
  BY DEF ArchiveInv
<1> QED
  BY <1>1, ImportArchiveInvariant, PTL
=============================================================================
