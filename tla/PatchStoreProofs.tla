-------------------------- MODULE PatchStoreProofs --------------------------
(***************************************************************************)
(* Proofs about PatchStore, for any releases, NZBs, files, calls and sizes.*)
(***************************************************************************)
EXTENDS PatchStore, FiniteSums, FiniteSetTheorems, SequenceTheorems, TLAPS

Disjoint(spans) == \A s, t \in spans : Overlaps(s, t) => s = t

(* What holds of a release's spans and verdict in the index and on disk.    *)
Consistent(x) ==
    /\ x.spans \subseteq Span
    /\ Disjoint(x.spans)
    /\ \A s \in x.spans : s.from = x.stamp
    /\ x.verdict \in {NoBlob, x.stamp}

(* An entry, whatever its counters say.                                     *)
Shaped(e) ==
    /\ e = [stamp |-> e.stamp, spans |-> e.spans, holes |-> e.holes, verdict |-> e.verdict,
            data |-> e.data, meta |-> e.meta]
    /\ e.stamp \in Blob
    /\ e.holes \subseteq Hole
    /\ Consistent(e)

(* The directory says what the index says.                                  *)
SaysSame(d, e) ==
    /\ d.spans = e.spans
    /\ e.holes \subseteq d.holes
    /\ d.verdict = e.verdict

Mirrored(r) ==
    IF r \in Held THEN disk[r].stamp = index[r].stamp /\ SaysSame(disk[r], index[r])
    ELSE disk[r].spans = {} /\ disk[r].verdict = NoBlob

Free(e, j) == j.kind = "insert" => \A s \in e.spans : Overlaps(s, j) => SameRange(s, j)

Writer(o) ==
    LET j == call[o].job
        at == call[o].at
        d == disk[j.release]
    IN
    /\ up /\ ~Stale(j) /\ Free(Current(j), j)
    /\ at \in {"layout", "span"} => j.kind = "insert"
    /\ at \in {"holes", "verdict"} => j.kind # "insert"
    /\ at # "evict" => d.stamp = j.blob
    /\ at \in {"span", "index"} /\ j.kind = "insert" => j.file \in d.layouts
    /\ at = "verdict" => After(Current(j), j).holes \subseteq d.holes
    /\ IF at = "index" THEN SaysSame(d, After(Current(j), j)) ELSE Mirrored(j.release)

StoreInv ==
    /\ up \in BOOLEAN
    /\ Held \subseteq Release
    /\ \A r \in Held : Shaped(index[r])
    /\ disk \in [Release -> Directory]
    /\ \A r \in Release : Consistent(disk[r])
                          /\ {s.file : s \in disk[r].spans} \subseteq disk[r].layouts
    /\ call \in [Op -> [at : Step, job : Job \union {NoJob}]]
    /\ \A o \in Op : call[o].at # "idle" => call[o].job \in Job
    /\ ~up => Held = {} /\ \A o \in Op : call[o] = Idle
    /\ \A o, p \in Op : call[o].at \in Writing /\ call[p].at \in Writing => o = p
    /\ \A o \in Op : call[o].at \in Writing => Writer(o)
    /\ up => \A r \in Release :
         (\A o \in Op : call[o].at \in Writing => call[o].job.release # r) => Mirrored(r)

-----------------------------------------------------------------------------
(* What a call makes of an entry.                                           *)

(* A call is of a release and an NZB; only an insert names a file.         *)
LEMMA JobTypes ==
    ASSUME NEW j \in Job
    PROVE  /\ j.release \in Release /\ j.blob \in Blob /\ j.blob # NoBlob
           /\ j.kind \in {"insert", "holes", "verdict"}
           /\ j.kind = "insert" => SpanOf(j) \in Span /\ j.file \in File
           /\ j.kind = "holes" => j.hole \in Hole
BY StoreAssumption DEF Patch, Records, SpanOf, Span

(* A new release has only its stamp.                                       *)
LEMMA BlankIsShaped ==
    ASSUME NEW b \in Blob
    PROVE  Shaped(Blank(b)) /\ Blank(b).stamp = b /\ Blank(b).spans = {}
           /\ Blank(b).verdict = NoBlob /\ Blank(b).holes = {}
BY DEF Shaped, Blank, Consistent, Disjoint

(* A span that is free replaces its like and overlaps no other.             *)
LEMMA SpanAdded ==
    ASSUME NEW e, Shaped(e), NEW j \in Job, j.kind = "insert", e.stamp = j.blob, Free(e, j),
           NEW a, a.spans = {s \in e.spans : ~SameRange(s, j)} \union {SpanOf(j)},
           a.stamp = e.stamp, a.verdict = e.verdict
    PROVE  Consistent(a) /\ e.spans \subseteq a.spans
<1> DEFINE p == SpanOf(j)
<1>1. p \in Span /\ p.from = j.blob /\ p.file = j.file /\ p.offset = j.offset /\ p.len = j.len
  BY JobTypes DEF SpanOf
<1>2. ASSUME NEW s \in e.spans, SameRange(s, j) PROVE s = p
  BY <1>1, <1>2 DEF Shaped, Consistent, Span, SameRange, SpanOf
<1>3. ASSUME NEW s \in e.spans, ~SameRange(s, j) PROVE ~Overlaps(s, p) /\ ~Overlaps(p, s)
  BY <1>1, <1>3 DEF Free, Overlaps
<1>4. Disjoint(a.spans)
  BY <1>3 DEF Shaped, Consistent, Disjoint
<1>5. e.spans \subseteq a.spans
  BY <1>2
<1> QED
  BY <1>1, <1>4, <1>5 DEF Shaped, Consistent

(* An insert changes only the spans and the counters.                      *)
LEMMA AfterInsert ==
    ASSUME NEW e, Shaped(e), NEW j \in Job, j.kind = "insert"
    PROVE  LET a == After(e, j) IN
           /\ a = [stamp |-> a.stamp, spans |-> a.spans, holes |-> a.holes,
                   verdict |-> a.verdict, data |-> a.data, meta |-> a.meta]
           /\ a.spans = {s \in e.spans : ~SameRange(s, j)} \union {SpanOf(j)}
           /\ a.stamp = e.stamp /\ a.holes = e.holes /\ a.verdict = e.verdict
BY DEF After, WithSpan, Shaped

(* Records change no span, keep the holes and may set the verdict.         *)
LEMMA AfterRecords ==
    ASSUME NEW e, Shaped(e), NEW j \in Job, j.kind # "insert"
    PROVE  LET a == After(e, j) IN
           /\ a = [stamp |-> a.stamp, spans |-> a.spans, holes |-> a.holes,
                   verdict |-> a.verdict, data |-> a.data, meta |-> a.meta]
           /\ a.stamp = e.stamp /\ a.spans = e.spans
           /\ e.holes \subseteq a.holes /\ a.holes \subseteq Hole
           /\ a.verdict \in {e.verdict, j.blob}
<1>1. CASE j.kind = "holes"
  BY <1>1, JobTypes DEF After, WithRecords, Shaped
<1>2. CASE j.kind = "verdict"
  BY <1>2, JobTypes DEF After, WithRecords, Shaped
<1> QED
  BY <1>1, <1>2, JobTypes

(* A call that was checked leaves an entry an entry, with all it had.       *)
LEMMA AfterIsShaped ==
    ASSUME NEW e, Shaped(e), NEW j \in Job, e.stamp = j.blob, Free(e, j)
    PROVE  LET a == After(e, j) IN
           /\ Shaped(a) /\ a.stamp = j.blob
           /\ e.spans \subseteq a.spans /\ e.holes \subseteq a.holes
           /\ e.verdict \in {NoBlob, a.verdict}
<1> DEFINE a == After(e, j)
<1>1. CASE j.kind = "insert"
  <2> HIDE DEF a
  <2>1. /\ a = [stamp |-> a.stamp, spans |-> a.spans, holes |-> a.holes,
                verdict |-> a.verdict, data |-> a.data, meta |-> a.meta]
        /\ a.spans = {s \in e.spans : ~SameRange(s, j)} \union {SpanOf(j)}
        /\ a.stamp = e.stamp /\ a.holes = e.holes /\ a.verdict = e.verdict
    BY <1>1, AfterInsert DEF a
  <2>2. Consistent(a) /\ e.spans \subseteq a.spans
    BY <1>1, <2>1, SpanAdded
  <2> QED
    BY <2>1, <2>2 DEF Shaped, a
<1>2. CASE j.kind # "insert"
  <2> HIDE DEF a
  <2>1. /\ a = [stamp |-> a.stamp, spans |-> a.spans, holes |-> a.holes,
                verdict |-> a.verdict, data |-> a.data, meta |-> a.meta]
        /\ a.stamp = e.stamp /\ a.spans = e.spans
        /\ e.holes \subseteq a.holes /\ a.holes \subseteq Hole
        /\ a.verdict \in {e.verdict, j.blob}
    BY <1>2, AfterRecords DEF a
  <2>2. e.verdict \in {NoBlob, j.blob} /\ Consistent(a)
    BY <2>1 DEF Shaped, Consistent
  <2> QED
    BY <2>1, <2>2 DEF Shaped, a
<1> QED
  BY <1>1, <1>2

(* What a call finds is an entry, of its own NZB unless stale.             *)
LEMMA CurrentIsShaped ==
    ASSUME StoreInv, NEW j \in Job
    PROVE  Shaped(Current(j)) /\ (~Stale(j) => Current(j).stamp = j.blob)
BY JobTypes, BlankIsShaped DEF StoreInv, Current, Stale

-----------------------------------------------------------------------------
(* What the invariant says.                                                 *)

(* Before the first process there is nothing.                              *)
LEMMA InvInit == Init => StoreInv
<1> SUFFICES ASSUME Init PROVE StoreInv
  OBVIOUS
<1>1. Held = {} /\ up = FALSE
  BY DEF Init, Held
<1>2. NoDirectory \in Directory /\ Consistent(NoDirectory) /\ {s.file : s \in NoDirectory.spans} = {}
  BY DEF NoDirectory, Directory, Consistent, Disjoint
<1>3. \A r \in Release : disk[r] = NoDirectory
  BY DEF Init
<1>4. disk \in [Release -> Directory]
  BY <1>2 DEF Init
<1>5. \A r \in Release : Consistent(disk[r]) /\ {s.file : s \in disk[r].spans} \subseteq disk[r].layouts
  BY <1>2, <1>3
<1>6. Idle \in [at : Step, job : Job \union {NoJob}] /\ Idle.at = "idle" /\ Idle.at \notin Writing
  BY DEF Idle, Step, Writing
<1>7. call \in [Op -> [at : Step, job : Job \union {NoJob}]] /\ \A o \in Op : call[o] = Idle
  BY <1>6 DEF Init
<1> QED
  BY <1>1, <1>4, <1>5, <1>6, <1>7 DEF StoreInv

(* The invariant implies the three properties.                             *)
LEMMA InvMeans ==
    ASSUME StoreInv
    PROVE  SpansDisjoint /\ OneNzb /\ IndexIsOnDisk
<1>1. SpansDisjoint /\ OneNzb
  BY DEF StoreInv, SpansDisjoint, OneNzb, Shaped, Consistent, Disjoint
<1>2. ASSUME up, NEW r \in Held
      PROVE  LET d == disk[r]
                 e == index[r] IN
             /\ d.stamp = e.stamp /\ e.spans \subseteq d.spans
             /\ e.holes \subseteq d.holes /\ e.verdict \in {NoBlob, d.verdict}
  <2>1. CASE Mirrored(r)
    BY <1>2, <2>1 DEF Mirrored, SaysSame
  <2>2. CASE ~Mirrored(r)
    <3>1. PICK o \in Op : call[o].at \in Writing /\ call[o].job.release = r
      BY <1>2, <2>2 DEF StoreInv
    <3> DEFINE j == call[o].job
    <3>2. j \in Job /\ Writer(o)
      BY <3>1 DEF StoreInv, Writing
    <3>3. call[o].at = "index" /\ disk[r].stamp = j.blob /\ SaysSame(disk[r], After(Current(j), j))
      BY <2>2, <3>1, <3>2 DEF Writer
    <3>4. ~Stale(j) /\ Free(Current(j), j) /\ Current(j) = index[r]
      BY <1>2, <3>1, <3>2 DEF Writer, Current
    <3>5. Shaped(index[r]) /\ index[r].stamp = j.blob
      BY <3>2, <3>4, CurrentIsShaped
    <3> QED
      BY <3>2, <3>3, <3>4, <3>5, AfterIsShaped DEF SaysSame
  <2> QED
    BY <2>1, <2>2
<1>3. ASSUME Unlocked, NEW r \in Release PROVE Mirrored(r)
  BY <1>3 DEF StoreInv, Unlocked
<1>4. \A r \in Release : {s.file : s \in disk[r].spans} \subseteq disk[r].layouts
  BY DEF StoreInv
<1>5. Held \subseteq Release
  BY DEF StoreInv
<1>6. ASSUME up, NEW r \in Release, r \in Held
      PROVE  /\ {s.file : s \in index[r].spans} \subseteq disk[r].layouts
             /\ Unlocked => disk[r].spans = index[r].spans /\ disk[r].verdict = index[r].verdict
  BY <1>2, <1>3, <1>4, <1>6 DEF Mirrored, SaysSame
<1>7. ASSUME Unlocked, NEW r \in Release, r \notin Held
      PROVE  disk[r].spans = {} /\ disk[r].verdict = NoBlob
  BY <1>3, <1>7 DEF Mirrored
<1>8. IndexIsOnDisk
  BY <1>2, <1>6, <1>7 DEF IndexIsOnDisk
<1> QED
  BY <1>1, <1>8

(* Who holds the lock is alone, and all other releases are mirrored.        *)
LEMMA Locked ==
    ASSUME StoreInv, NEW o \in Op, call[o].at \in Writing
    PROVE  /\ up /\ Writer(o) /\ call[o].job \in Job /\ call[o].job.release \in Release
           /\ \A p \in Op : call[p].at \in Writing => p = o
           /\ \A r \in Release : r # call[o].job.release => Mirrored(r)
<1>1. call[o].job \in Job
  BY DEF StoreInv, Writing
<1>2. \A p \in Op : call[p].at \in Writing => p = o
  BY DEF StoreInv
<1>3. up /\ Writer(o)
  BY DEF StoreInv, Writer
<1> QED
  BY <1>1, <1>2, <1>3, JobTypes DEF StoreInv

-----------------------------------------------------------------------------
(* Steps that leave index and disk alone.                                   *)

(* A call that goes on without the lock or returns, in a state where the    *)
(* releases are mirrored.                                                   *)
LEMMA OutsideTheLock ==
    ASSUME StoreInv, up, UNCHANGED <<up, index, disk>>, NEW o \in Op,
           NEW STATE c, c \in [at : Step \ Writing, job : Job \union {NoJob}],
           c.at # "idle" => c.job \in Job,
           call' = [call EXCEPT ![o] = c],
           call[o].at \in Writing => Mirrored(call[o].job.release)
    PROVE  StoreInv'
<1>0. /\ c \in [at : Step, job : Job \union {NoJob}] /\ c.at \notin Writing
      /\ call \in [Op -> [at : Step, job : Job \union {NoJob}]]
  BY DEF StoreInv
<1>1. /\ call' \in [Op -> [at : Step, job : Job \union {NoJob}]]
      /\ \A p \in Op : call'[p].at # "idle" => call'[p].job \in Job
      /\ \A p \in Op : call'[p].at \in Writing => call[p].at \in Writing /\ call'[p] = call[p]
  <2>1. \A p \in Op : call'[p] = IF p = o THEN c ELSE call[p]
    BY <1>0
  <2>2. call' \in [Op -> [at : Step, job : Job \union {NoJob}]]
    BY <1>0
  <2>3. \A p \in Op : call[p].at # "idle" => call[p].job \in Job
    BY DEF StoreInv
  <2> QED
    BY <1>0, <2>1, <2>2, <2>3
<1>2. ASSUME NEW p \in Op, call'[p].at \in Writing PROVE Writer(p)'
  <2>1. call[p].at \in Writing /\ call'[p] = call[p]
    BY <1>1, <1>2
  <2>2. Writer(p)
    BY <2>1 DEF StoreInv
  <2>3. Current(call[p].job)' = Current(call[p].job)
    BY <2>1 DEF Current, Held
  <2> QED
    BY <2>1, <2>2, <2>3 DEF Writer, Stale, Free, Held, SaysSame, Mirrored
<1>3. ASSUME NEW r \in Release, \A p \in Op : call'[p].at \in Writing => call'[p].job.release # r
      PROVE  Mirrored(r)'
  <2>1. Mirrored(r)
    <3>1. CASE call[o].at \in Writing /\ call[o].job.release = r
      BY <3>1
    <3>2. CASE ~(call[o].at \in Writing /\ call[o].job.release = r)
      <4>1. \A p \in Op : p # o => call'[p] = call[p]
        BY DEF StoreInv
      <4> QED
        BY <1>3, <3>2, <4>1 DEF StoreInv
    <3> QED
      BY <3>1, <3>2
  <2> QED
    BY <2>1 DEF Mirrored, SaysSame, Held
<1>4. \A p, q \in Op : call'[p].at \in Writing /\ call'[q].at \in Writing => p = q
  BY <1>1 DEF StoreInv
<1> QED
  BY <1>1, <1>2, <1>3, <1>4 DEF StoreInv, Held, Shaped, Consistent, Disjoint

(* insert and update_records look at the index and leave it alone.         *)
LEMMA CheckStep ==
    ASSUME StoreInv, NEW o \in Op, NEW j \in Job, Check(o, j)
    PROVE  StoreInv'
<1> DEFINE c == [at |-> IF Stale(j) THEN "drop"
                        ELSE IF j.kind = "insert" THEN "stage" ELSE "update", job |-> j]
<1>1. c \in [at : Step \ Writing, job : Job \union {NoJob}] /\ c.at # "idle"
  BY DEF Step, Writing
<1>2. c.job \in Job
  OBVIOUS
<1>3. call' = [call EXCEPT ![o] = c]
  BY DEF Check
<1>4. up /\ UNCHANGED <<up, index, disk>> /\ call[o].at \notin Writing
  BY DEF Check, Unlocked, Writing
<1> HIDE DEF c
<1> QED
  BY <1>1, <1>2, <1>3, <1>4, OutsideTheLock

(* A call that has returned does not hold the lock.                        *)
LEMMA IdleIsOutside ==
    Idle \in [at : Step \ Writing, job : Job \union {NoJob}] /\ Idle.at = "idle"
BY DEF Idle, Step, Writing

(* An insert that is dropped while it stages leaves nothing.               *)
LEMMA AbandonStep ==
    ASSUME StoreInv, NEW o \in Op, Abandon(o)
    PROVE  StoreInv'
<1>1. call' = [call EXCEPT ![o] = Idle] /\ UNCHANGED <<up, index, disk>>
  BY DEF Abandon, Return
<1>2. up /\ call[o].at \notin Writing
  BY DEF StoreInv, Abandon, Idle, Writing
<1> QED
  BY <1>1, <1>2, IdleIsOutside, OutsideTheLock

(* A failed write leaves the release mirrored: it has its stamp, and no     *)
(* span or verdict is written before the last step.                         *)
LEMMA IoErrorStep ==
    ASSUME StoreInv, NEW o \in Op, IoError(o)
    PROVE  StoreInv'
<1>1. call' = [call EXCEPT ![o] = Idle] /\ UNCHANGED <<up, index, disk>>
  BY DEF IoError, Return
<1>2. call[o].at \in Writing /\ call[o].at # "index"
  BY DEF IoError
<1>3. up /\ Mirrored(call[o].job.release)
  BY <1>2, Locked DEF Writer
<1> QED
  BY <1>1, <1>2, <1>3, IdleIsOutside, OutsideTheLock

(* commit takes the lock only with the stamp and the overlap checked.      *)
LEMMA CommitStep ==
    ASSUME StoreInv, NEW o \in Op, Commit(o)
    PROVE  StoreInv'
<1> DEFINE j == call[o].job
<1>1. /\ up /\ UNCHANGED <<up, index, disk>>
      /\ \A p \in Op : call[p].at \notin Writing
      /\ call[o].at # "idle"
  BY DEF Commit, Unlocked
<1>2. CASE call' = [call EXCEPT ![o] = Idle]
  BY <1>1, <1>2, IdleIsOutside, OutsideTheLock
<1>3. CASE ~Stale(j) /\ Fits(Current(j), j) /\ call' = [call EXCEPT ![o].at = "evict"]
  <2>1. j \in Job /\ j.release \in Release
    BY <1>1, JobTypes DEF StoreInv
  <2>2. /\ call' \in [Op -> [at : Step, job : Job \union {NoJob}]]
        /\ \A p \in Op : call'[p].at # "idle" => call'[p].job \in Job
        /\ call'[o].at = "evict" /\ call'[o].job = j
        /\ \A p \in Op : call'[p].at \in Writing => p = o
    BY <1>1, <1>3, <2>1 DEF StoreInv, Step, Writing
  <2>3. \A r \in Release : Mirrored(r)
    BY <1>1 DEF StoreInv
  <2>4. Free(Current(j), j)
    BY <1>3 DEF Fits, Free
  <2>5. Writer(o)'
    BY <1>1, <1>3, <2>1, <2>2, <2>3, <2>4 DEF Writer, Stale, Current, Held, Mirrored, SaysSame, Free
  <2>6. \A r \in Release : Mirrored(r)'
    BY <1>1, <2>3 DEF Mirrored, SaysSame, Held
  <2> QED
    BY <1>1, <2>2, <2>5, <2>6 DEF StoreInv, Held, Shaped, Consistent, Disjoint
<1> QED
  BY <1>2, <1>3 DEF Commit, Goto, Return

(* A read changes only the recency.                                        *)
LEMMA LocateStep ==
    ASSUME StoreInv, UNCHANGED <<up, index, disk, call>>
    PROVE  StoreInv'
<1>1. \A r \in Release : Mirrored(r)' <=> Mirrored(r)
  BY DEF Mirrored, SaysSame, Held
<1>2. ASSUME NEW o \in Op, Writer(o), call[o].job.release \in Release PROVE Writer(o)'
  <2>1. Current(call[o].job)' = Current(call[o].job)
    BY DEF Current, Held
  <2> QED
    BY <1>1, <1>2, <2>1 DEF Writer, Stale, Free, Held, SaysSame
<1>3. \A o \in Op : call[o].at \in Writing => Writer(o)'
  BY <1>2, Locked DEF StoreInv
<1> QED
  BY <1>1, <1>3 DEF StoreInv, Held, Shaped, Consistent, Disjoint

-----------------------------------------------------------------------------
(* Removing a release, whether it is there or not.                          *)
LEMMA Removed ==
    ASSUME StoreInv, NEW STATE x, RemoveRelease(x)
    PROVE  /\ Held' = Held \ {x}
           /\ \A r \in Held' : index'[r] = index[r]
           /\ \A r \in Release : disk'[r] = IF r = x THEN NoDirectory ELSE disk[r]
           /\ Held' \subseteq Release /\ \A r \in Held' : Shaped(index'[r])
           /\ disk' \in [Release -> Directory]
           /\ \A r \in Release : Consistent(disk'[r])
                                 /\ {s.file : s \in disk'[r].spans} \subseteq disk'[r].layouts
           /\ \A r \in Release : Mirrored(r) \/ r = x => Mirrored(r)'
<1>1. /\ Held' = Held \ {x}
      /\ \A r \in Held' : index'[r] = index[r]
  BY DEF RemoveRelease, RemoveEntry, Held
<1>2. /\ disk' \in [Release -> Directory]
      /\ \A r \in Release : disk'[r] = IF r = x THEN NoDirectory ELSE disk[r]
  BY DEF RemoveRelease, StoreInv, NoDirectory, Directory
<1>3. /\ Consistent(NoDirectory) /\ {s.file : s \in NoDirectory.spans} \subseteq NoDirectory.layouts
      /\ NoDirectory.spans = {} /\ NoDirectory.verdict = NoBlob
  BY DEF NoDirectory, Consistent, Disjoint
<1>4. /\ Held' \subseteq Release /\ \A r \in Held' : Shaped(index'[r])
  BY <1>1 DEF StoreInv
<1>5. \A r \in Release : Consistent(disk'[r])
                          /\ {s.file : s \in disk'[r].spans} \subseteq disk'[r].layouts
  BY <1>2, <1>3 DEF StoreInv
<1>6. ASSUME NEW r \in Release, Mirrored(r) \/ r = x PROVE Mirrored(r)'
  BY <1>1, <1>2, <1>3, <1>6 DEF Mirrored, SaysSame
<1> QED
  BY <1>1, <1>2, <1>4, <1>5, <1>6

(* drop_release, by a client.                                              *)
LEMMA DropStep ==
    ASSUME StoreInv, NEW r \in Release, Drop(r)
    PROVE  StoreInv'
<1>1. up /\ RemoveRelease(r) /\ UNCHANGED <<up, call>> /\ \A p \in Op : call[p].at \notin Writing
  BY DEF Drop, Unlocked
<1>2. \A q \in Release : Mirrored(q)
  BY <1>1 DEF StoreInv
<1> QED
  BY <1>1, <1>2, Removed DEF StoreInv

(* drop_release, by a call that found another NZB.                         *)
LEMMA DropStaleStep ==
    ASSUME StoreInv, NEW o \in Op, DropStale(o)
    PROVE  StoreInv'
<1> DEFINE j == call[o].job
<1>1. /\ up /\ RemoveRelease(j.release) /\ UNCHANGED up
      /\ \A p \in Op : call[p].at \notin Writing
      /\ call[o].at # "idle"
  BY DEF DropStale, Unlocked
<1>2. \A q \in Release : Mirrored(q)
  BY <1>1 DEF StoreInv
<1>3. PICK step \in {"stage", "update"} : call' = [call EXCEPT ![o].at = step]
  BY DEF DropStale, Goto
<1>4. /\ call' \in [Op -> [at : Step, job : Job \union {NoJob}]]
      /\ \A p \in Op : call'[p].at # "idle" => call'[p].job \in Job
      /\ \A p \in Op : call'[p].at \notin Writing
  BY <1>1, <1>3 DEF StoreInv, Step, Writing
<1> QED
  BY <1>1, <1>2, <1>4, Removed DEF StoreInv

(* evict_to_fit leaves the release of the call alone.                      *)
LEMMA EvictStep ==
    ASSUME StoreInv, NEW o \in Op, EvictOne(o)
    PROVE  StoreInv'
<1> DEFINE j == call[o].job
<1>1. PICK x \in Others(o) : RemoveRelease(x)
  BY DEF EvictOne
<1>2. x # j.release /\ call[o].at = "evict" /\ UNCHANGED <<up, call>>
  BY DEF EvictOne, Others
<1>3. /\ up /\ Writer(o) /\ j.release \in Release
      /\ \A p \in Op : call[p].at \in Writing => p = o
      /\ \A r \in Release : r # j.release => Mirrored(r)
  BY <1>2, Locked DEF Writing
<1>4. Mirrored(j.release)
  BY <1>2, <1>3 DEF Writer
<1>5. \A r \in Release : Mirrored(r)'
  BY <1>1, <1>3, <1>4, Removed
<1>6. /\ j.release \in Held' <=> j.release \in Held
      /\ j.release \in Held => index'[j.release] = index[j.release]
  BY <1>1, <1>2, Removed
<1>7. Current(j)' = Current(j) /\ ~Stale(j)'
  BY <1>2, <1>3, <1>6 DEF Writer, Current, Stale
<1>8. Writer(o)'
  BY <1>2, <1>3, <1>5, <1>7 DEF Writer, Free
<1> QED
  BY <1>1, <1>2, <1>3, <1>5, <1>8, Removed DEF StoreInv

-----------------------------------------------------------------------------
(* One file is put into place: the directory d of the release it is in.     *)
LEMMA FilePut ==
    ASSUME StoreInv, NEW o \in Op, call[o].at \in Writing, UNCHANGED <<up, index>>,
           NEW STATE d, NEW step \in Writing,
           disk' = [disk EXCEPT ![call[o].job.release] = d],
           call' = [call EXCEPT ![o].at = step],
           d \in Directory, Consistent(d), {s.file : s \in d.spans} \subseteq d.layouts,
           Writer(o)'
    PROVE  StoreInv'
<1> DEFINE j == call[o].job
<1>1. /\ up /\ j \in Job /\ j.release \in Release
      /\ \A p \in Op : call[p].at \in Writing => p = o
      /\ \A r \in Release : r # j.release => Mirrored(r)
  BY Locked
<1>2. /\ call' \in [Op -> [at : Step, job : Job \union {NoJob}]]
      /\ \A p \in Op : call'[p].at # "idle" => call'[p].job \in Job
      /\ \A p \in Op : call'[p].at \in Writing => p = o
      /\ call'[o].at = step /\ call'[o].job = j
  BY <1>1 DEF StoreInv, Step, Writing
<1>3. /\ disk' \in [Release -> Directory]
      /\ \A r \in Release : Consistent(disk'[r])
                            /\ {s.file : s \in disk'[r].spans} \subseteq disk'[r].layouts
  BY <1>1 DEF StoreInv
<1>4. ASSUME NEW r \in Release, r # j.release PROVE Mirrored(r)'
  BY <1>1, <1>4 DEF Mirrored, SaysSame, Held, StoreInv
<1>5. Held' \subseteq Release /\ \A r \in Held' : Shaped(index'[r])
  BY DEF StoreInv, Held
<1> QED
  BY <1>1, <1>2, <1>3, <1>4, <1>5 DEF StoreInv

(* What a call that writes can rely on.                                     *)
LEMMA WriterKnows ==
    ASSUME StoreInv, NEW o \in Op, call[o].at \in Writing
    PROVE  LET j == call[o].job
               d == disk[j.release]
               e == Current(j)
           IN
           /\ j \in Job /\ j.release \in Release /\ ~Stale(j) /\ Free(e, j)
           /\ Shaped(e) /\ e.stamp = j.blob
           /\ d \in Directory /\ Consistent(d) /\ {s.file : s \in d.spans} \subseteq d.layouts
           /\ Mirrored(j.release) =>
                 d.spans = e.spans /\ d.verdict = e.verdict
                 /\ (j.release \in Held => d.stamp = j.blob /\ e.holes \subseteq d.holes)
<1> DEFINE j == call[o].job
<1>1. j \in Job /\ j.release \in Release /\ ~Stale(j) /\ Free(Current(j), j) /\ j.blob \in Blob
  BY Locked, JobTypes DEF Writer
<1>2. Shaped(Current(j)) /\ Current(j).stamp = j.blob
  BY <1>1, CurrentIsShaped
<1>3. /\ disk[j.release] \in Directory /\ Consistent(disk[j.release])
      /\ {s.file : s \in disk[j.release].spans} \subseteq disk[j.release].layouts
  BY <1>1 DEF StoreInv
<1>4. ASSUME Mirrored(j.release)
      PROVE  /\ disk[j.release].spans = Current(j).spans /\ disk[j.release].verdict = Current(j).verdict
             /\ j.release \in Held => /\ disk[j.release].stamp = j.blob
                                      /\ Current(j).holes \subseteq disk[j.release].holes
  <2>1. CASE j.release \in Held
    BY <1>2, <1>4, <2>1 DEF Mirrored, SaysSame, Current
  <2>2. CASE j.release \notin Held
    BY <1>1, <1>4, <2>2, BlankIsShaped DEF Mirrored, Current
  <2> QED
    BY <2>1, <2>2
<1> QED
  BY <1>1, <1>2, <1>3, <1>4

(* Steps that put a file leave the entry and the checks of the call alone.  *)
LEMMA SameEntry ==
    ASSUME NEW o, UNCHANGED index, call'[o].job = call[o].job
    PROVE  /\ Current(call[o].job)' = Current(call[o].job)
           /\ Stale(call[o].job)' = Stale(call[o].job)
BY DEF Current, Stale, Held

(* The effect of PutFile.                                                   *)
LEMMA PutFileDoes ==
    ASSUME StoreInv, NEW o \in Op, NEW at \in Writing, NEW STATE d, NEW next \in Writing,
           PutFile(o, at, d, next)
    PROVE  /\ call[o].at = at /\ call'[o].at = next /\ call'[o].job = call[o].job
           /\ disk' = [disk EXCEPT ![call[o].job.release] = d]
           /\ disk'[call[o].job.release] = d
           /\ call' = [call EXCEPT ![o].at = next]
           /\ UNCHANGED <<up, index>>
<1>1. call[o].at = at /\ call[o].job.release \in Release
  BY Locked DEF PutFile
<1> QED
  BY <1>1 DEF PutFile, Goto, StoreInv

(* A directory with another stamp, or with one more layout.                 *)
LEMMA Restamped ==
    ASSUME NEW x, x \in Directory, NEW b, b \in Blob
    PROVE  LET d == [x EXCEPT !.stamp = b] IN
           /\ d \in Directory /\ d.stamp = b /\ d.spans = x.spans /\ d.holes = x.holes
           /\ d.verdict = x.verdict /\ d.layouts = x.layouts
BY DEF Directory

(* One more layout changes nothing else in a directory.                    *)
LEMMA LayoutAdded ==
    ASSUME NEW x, x \in Directory, NEW f, f \in File
    PROVE  LET d == [x EXCEPT !.layouts = @ \union {f}] IN
           /\ d \in Directory /\ d.stamp = x.stamp /\ d.spans = x.spans /\ d.holes = x.holes
           /\ d.verdict = x.verdict /\ d.layouts = x.layouts \union {f}
BY DEF Directory

(* place and update_records: the stamp, of the same NZB or of an empty one. *)
LEMMA PutStampStep ==
    ASSUME StoreInv, NEW o \in Op, PutStamp(o)
    PROVE  StoreInv'
<1> DEFINE j == call[o].job
           r == j.release
           e == Current(j)
           d == [disk[r] EXCEPT !.stamp = j.blob]
<1>d. d = [disk[r] EXCEPT !.stamp = j.blob]
  OBVIOUS
<1> HIDE DEF d
<1>1. PICK next \in {"layout", "holes"} :
           PutFile(o, "evict", d, next) /\ (next = "layout" <=> j.kind = "insert")
  BY <1>d DEF PutStamp
<1>2. /\ call[o].at = "evict" /\ call'[o].at = next /\ call'[o].job = j
      /\ disk' = [disk EXCEPT ![r] = d] /\ disk'[r] = d
      /\ call' = [call EXCEPT ![o].at = next]
      /\ UNCHANGED <<up, index>>
  <2>1. "evict" \in Writing /\ next \in Writing
    BY DEF Writing
  <2> QED
    BY <1>1, <2>1, PutFileDoes
<1>3. /\ j \in Job /\ r \in Release /\ ~Stale(j) /\ Free(e, j) /\ j.blob \in Blob
      /\ disk[r] \in Directory /\ Consistent(disk[r])
      /\ {s.file : s \in disk[r].spans} \subseteq disk[r].layouts
      /\ up /\ Mirrored(r)
  BY <1>2, WriterKnows, Locked, JobTypes DEF Writer, Writing
<1>4. /\ d \in Directory /\ d.stamp = j.blob /\ d.spans = disk[r].spans /\ d.holes = disk[r].holes
      /\ d.verdict = disk[r].verdict /\ d.layouts = disk[r].layouts
  BY <1>3, <1>d, Restamped
<1>5. r \in Held => disk[r].stamp = j.blob
  BY <1>3 DEF Mirrored, Stale
<1>6. Consistent(d)
  <2>1. CASE r \in Held
    BY <1>3, <1>4, <1>5, <2>1 DEF Consistent
  <2>2. CASE r \notin Held
    BY <1>3, <1>4, <2>2 DEF Consistent, Mirrored
  <2> QED
    BY <2>1, <2>2
<1>7. Mirrored(r)'
  BY <1>2, <1>3, <1>4, <1>5 DEF Mirrored, SaysSame, Held
<1>8. Writer(o)'
  BY <1>1, <1>2, <1>3, <1>4, <1>7, SameEntry DEF Writer, Free
<1>9. call[o].at \in Writing /\ next \in Writing
  BY <1>2 DEF Writing
<1> QED
  BY <1>2, <1>3, <1>4, <1>6, <1>8, <1>9, FilePut

(* place: the layout, before the span.                                     *)
LEMMA PutLayoutStep ==
    ASSUME StoreInv, NEW o \in Op, PutLayout(o)
    PROVE  StoreInv'
<1> DEFINE j == call[o].job
           r == j.release
           e == Current(j)
           d == [disk[r] EXCEPT !.layouts = @ \union {j.file}]
<1>d. d = [disk[r] EXCEPT !.layouts = @ \union {j.file}]
  OBVIOUS
<1> HIDE DEF d
<1>1. PutFile(o, "layout", d, "span")
  BY <1>d DEF PutLayout
<1>2. /\ call[o].at = "layout" /\ call'[o].at = "span" /\ call'[o].job = j
      /\ disk' = [disk EXCEPT ![r] = d] /\ disk'[r] = d
      /\ call' = [call EXCEPT ![o].at = "span"]
      /\ UNCHANGED <<up, index>>
  <2>1. "layout" \in Writing /\ "span" \in Writing
    BY DEF Writing
  <2> QED
    BY <1>1, <2>1, PutFileDoes
<1>3. /\ j \in Job /\ r \in Release /\ ~Stale(j) /\ Free(e, j)
      /\ disk[r] \in Directory /\ Consistent(disk[r])
      /\ {s.file : s \in disk[r].spans} \subseteq disk[r].layouts
      /\ up /\ Mirrored(r) /\ j.kind = "insert" /\ disk[r].stamp = j.blob
  BY <1>2, WriterKnows, Locked DEF Writer, Writing
<1>4. /\ d \in Directory /\ d.stamp = j.blob /\ d.spans = disk[r].spans /\ d.holes = disk[r].holes
      /\ d.verdict = disk[r].verdict /\ d.layouts = disk[r].layouts \union {j.file}
  BY <1>3, <1>d, JobTypes, LayoutAdded
<1>5. Consistent(d)
  BY <1>3, <1>4 DEF Consistent
<1>6. Mirrored(r)'
  <2>1. r' = r /\ Held' = Held /\ disk'[r'] = d /\ index'[r'] = index[r]
    BY <1>2 DEF Held
  <2>2. r \in Held => d.stamp = index[r].stamp /\ SaysSame(d, index[r])
    BY <1>3, <1>4 DEF Mirrored, SaysSame
  <2>3. r \notin Held => d.spans = {} /\ d.verdict = NoBlob
    BY <1>3, <1>4 DEF Mirrored
  <2> QED
    BY <2>1, <2>2, <2>3 DEF Mirrored, SaysSame
<1>7. Writer(o)'
  BY <1>2, <1>3, <1>4, <1>6, SameEntry DEF Writer, Free
<1>9. call[o].at \in Writing /\ "span" \in Writing
  BY <1>2 DEF Writing
<1> QED
  BY <1>2, <1>3, <1>4, <1>5, <1>7, <1>9, FilePut

(* The span is on disk before the index has it.                             *)
LEMMA PutSpanStep ==
    ASSUME StoreInv, NEW o \in Op, PutSpan(o)
    PROVE  StoreInv'
<1> DEFINE j == call[o].job
           r == j.release
           e == Current(j)
           a == After(e, j)
           d == [disk[r] EXCEPT !.spans = {s \in @ : ~SameRange(s, j)} \union {SpanOf(j)}]
<1>d. d = [disk[r] EXCEPT !.spans = {s \in @ : ~SameRange(s, j)} \union {SpanOf(j)}]
  OBVIOUS
<1> HIDE DEF d
<1>1. PutFile(o, "span", d, "index")
  BY <1>d DEF PutSpan
<1>2. /\ call[o].at = "span" /\ call'[o].at = "index" /\ call'[o].job = j
      /\ disk' = [disk EXCEPT ![r] = d] /\ disk'[r] = d
      /\ call' = [call EXCEPT ![o].at = "index"]
      /\ UNCHANGED <<up, index>>
  <2>1. "span" \in Writing /\ "index" \in Writing
    BY DEF Writing
  <2> QED
    BY <1>1, <2>1, PutFileDoes
<1>3. /\ j \in Job /\ r \in Release /\ ~Stale(j) /\ Free(e, j) /\ Shaped(e) /\ e.stamp = j.blob
      /\ disk[r] \in Directory /\ {s.file : s \in disk[r].spans} \subseteq disk[r].layouts
      /\ up /\ Mirrored(r) /\ j.kind = "insert" /\ disk[r].stamp = j.blob
      /\ j.file \in disk[r].layouts
      /\ disk[r].spans = e.spans /\ disk[r].verdict = e.verdict
  BY <1>2, WriterKnows, Locked DEF Writer, Writing
<1>4. e.holes \subseteq disk[r].holes
  <2>1. CASE r \in Held
    BY <1>2, <1>3, <2>1, WriterKnows DEF Writing
  <2>2. CASE r \notin Held
    BY <1>3, <2>2, JobTypes, BlankIsShaped DEF Current
  <2> QED
    BY <2>1, <2>2
<1>5. /\ d.stamp = e.stamp /\ d.spans = {s \in e.spans : ~SameRange(s, j)} \union {SpanOf(j)}
      /\ d.holes = disk[r].holes /\ d.verdict = e.verdict /\ d.layouts = disk[r].layouts
  BY <1>3, <1>d DEF Directory
<1>6. Consistent(d)
  <2> HIDE DEF e
  <2> QED
    BY <1>3, <1>5, SpanAdded
<1>7. d \in Directory /\ {s.file : s \in d.spans} \subseteq d.layouts
  <2>1. \A s \in d.spans : s.file \in d.layouts
    BY <1>3, <1>5 DEF SpanOf
  <2>2. d.spans \in SUBSET Span
    BY <1>6 DEF Consistent
  <2> QED
    BY <1>3, <1>d, <2>1, <2>2 DEF Directory
<1>8. SaysSame(d, a)
  <2> HIDE DEF e
  <2> QED
    BY <1>3, <1>4, <1>5, AfterInsert DEF SaysSame
<1>9. Writer(o)'
  BY <1>2, <1>3, <1>5, <1>8, SameEntry DEF Writer, Free
<1>10. call[o].at \in Writing /\ "index" \in Writing
  BY <1>2 DEF Writing
<1> QED
  BY <1>2, <1>3, <1>6, <1>7, <1>9, <1>10, FilePut

(* update_records: the holes, before the verdict.                          *)
LEMMA PutHolesStep ==
    ASSUME StoreInv, NEW o \in Op, PutHoles(o)
    PROVE  StoreInv'
<1> DEFINE j == call[o].job
           r == j.release
           e == Current(j)
           a == After(e, j)
           d == [disk[r] EXCEPT !.holes = a.holes]
<1>d. d = [disk[r] EXCEPT !.holes = a.holes]
  OBVIOUS
<1> HIDE DEF d
<1>1. PutFile(o, "holes", d, "verdict")
  BY <1>d DEF PutHoles
<1>2. /\ call[o].at = "holes" /\ call'[o].at = "verdict" /\ call'[o].job = j
      /\ disk' = [disk EXCEPT ![r] = d] /\ disk'[r] = d
      /\ call' = [call EXCEPT ![o].at = "verdict"]
      /\ UNCHANGED <<up, index>>
  <2>1. "holes" \in Writing /\ "verdict" \in Writing
    BY DEF Writing
  <2> QED
    BY <1>1, <2>1, PutFileDoes
<1>3. /\ j \in Job /\ r \in Release /\ ~Stale(j) /\ Free(e, j) /\ Shaped(e) /\ e.stamp = j.blob
      /\ disk[r] \in Directory /\ Consistent(disk[r])
      /\ {s.file : s \in disk[r].spans} \subseteq disk[r].layouts
      /\ up /\ Mirrored(r) /\ j.kind # "insert" /\ disk[r].stamp = j.blob
  BY <1>2, WriterKnows, Locked DEF Writer, Writing
<1>4. a.holes \subseteq Hole /\ e.holes \subseteq a.holes
  BY <1>3, AfterRecords
<1>5. /\ d \in Directory /\ d.stamp = j.blob /\ d.spans = disk[r].spans /\ d.holes = a.holes
      /\ d.verdict = disk[r].verdict /\ d.layouts = disk[r].layouts
  <2> HIDE DEF a
  <2> QED
    BY <1>3, <1>4, <1>d DEF Directory
<1>6. Consistent(d)
  BY <1>3, <1>5 DEF Consistent
<1>7. Mirrored(r)'
  <2> HIDE DEF a
  <2>1. r' = r /\ Held' = Held /\ disk'[r'] = d /\ index'[r'] = index[r]
    BY <1>2 DEF Held
  <2>2. r \in Held => e = index[r]
    BY DEF Current
  <2>3. r \in Held => d.stamp = index[r].stamp /\ SaysSame(d, index[r])
    BY <1>3, <1>4, <1>5, <2>2 DEF Mirrored, SaysSame
  <2>4. r \notin Held => d.spans = {} /\ d.verdict = NoBlob
    BY <1>3, <1>5 DEF Mirrored
  <2> QED
    BY <2>1, <2>3, <2>4 DEF Mirrored, SaysSame
<1>8. Writer(o)'
  <2>1. a' = a
    BY <1>2, SameEntry
  <2> QED
    BY <1>2, <1>3, <1>5, <1>7, <2>1, SameEntry DEF Writer, Free
<1>9. call[o].at \in Writing /\ "verdict" \in Writing
  BY <1>2 DEF Writing
<1> QED
  BY <1>2, <1>3, <1>5, <1>6, <1>8, <1>9, FilePut

(* update_records: the verdict, the last file.                             *)
LEMMA PutVerdictStep ==
    ASSUME StoreInv, NEW o \in Op, PutVerdict(o)
    PROVE  StoreInv'
<1> DEFINE j == call[o].job
           r == j.release
           e == Current(j)
           a == After(e, j)
           d == [disk[r] EXCEPT !.verdict = a.verdict]
<1>d. d = [disk[r] EXCEPT !.verdict = a.verdict]
  OBVIOUS
<1> HIDE DEF d
<1>1. PutFile(o, "verdict", d, "index")
  BY <1>d DEF PutVerdict
<1>2. /\ call[o].at = "verdict" /\ call'[o].at = "index" /\ call'[o].job = j
      /\ disk' = [disk EXCEPT ![r] = d] /\ disk'[r] = d
      /\ call' = [call EXCEPT ![o].at = "index"]
      /\ UNCHANGED <<up, index>>
  <2>1. "verdict" \in Writing /\ "index" \in Writing
    BY DEF Writing
  <2> QED
    BY <1>1, <2>1, PutFileDoes
<1>3. /\ j \in Job /\ r \in Release /\ ~Stale(j) /\ Free(e, j) /\ Shaped(e) /\ e.stamp = j.blob
      /\ disk[r] \in Directory /\ Consistent(disk[r])
      /\ {s.file : s \in disk[r].spans} \subseteq disk[r].layouts
      /\ up /\ Mirrored(r) /\ j.kind # "insert" /\ disk[r].stamp = j.blob
      /\ a.holes \subseteq disk[r].holes /\ disk[r].spans = e.spans /\ j.blob \in Blob
  BY <1>2, WriterKnows, Locked, JobTypes DEF Writer, Writing
<1>4. a.spans = e.spans /\ a.verdict \in {e.verdict, j.blob} /\ e.verdict \in {NoBlob, j.blob}
  BY <1>3, AfterRecords DEF Shaped, Consistent
<1>5. /\ d \in Directory /\ d.stamp = j.blob /\ d.spans = e.spans /\ d.holes = disk[r].holes
      /\ d.verdict = a.verdict /\ d.layouts = disk[r].layouts
  <2> HIDE DEF a, e
  <2> QED
    BY <1>3, <1>4, <1>d DEF Directory
<1>6. Consistent(d)
  BY <1>3, <1>4, <1>5 DEF Consistent
<1>7. SaysSame(d, a)
  BY <1>3, <1>4, <1>5 DEF SaysSame
<1>8. Writer(o)'
  <2>1. a' = a
    BY <1>2, SameEntry
  <2> HIDE DEF a
  <2> QED
    BY <1>2, <1>3, <1>5, <1>7, <2>1, SameEntry DEF Writer, Free, a
<1>9. call[o].at \in Writing /\ "index" \in Writing
  BY <1>2 DEF Writing
<1> QED
  BY <1>2, <1>3, <1>5, <1>6, <1>8, <1>9, FilePut

(* The index gets what is on disk, and the lock is free again.              *)
LEMMA UpdateIndexStep ==
    ASSUME StoreInv, NEW o \in Op, UpdateIndex(o)
    PROVE  StoreInv'
<1> DEFINE j == call[o].job
           r == j.release
           a == After(Current(j), j)
<1>1. call[o].at = "index" /\ UNCHANGED <<up, disk>> /\ call' = [call EXCEPT ![o] = Idle]
  BY DEF UpdateIndex, Return
<1>2. /\ Held' = Held \union {r}
      /\ \A q \in Held' : index'[q] = IF q = r THEN a ELSE index[q]
  BY DEF UpdateIndex, Held
<1>3. /\ j \in Job /\ r \in Release /\ up
      /\ Shaped(Current(j)) /\ Current(j).stamp = j.blob /\ Free(Current(j), j)
      /\ SaysSame(disk[r], a) /\ disk[r].stamp = j.blob
      /\ \A p \in Op : call[p].at \in Writing => p = o
      /\ \A q \in Release : q # r => Mirrored(q)
  BY <1>1, WriterKnows, Locked DEF Writer, Writing
<1>4. Shaped(a) /\ a.stamp = j.blob
  BY <1>3, AfterIsShaped
<1> HIDE DEF a
<1>5. Held' \subseteq Release /\ \A q \in Held' : Shaped(index'[q])
  BY <1>2, <1>3, <1>4 DEF StoreInv
<1>6. /\ call' \in [Op -> [at : Step, job : Job \union {NoJob}]]
      /\ \A p \in Op : call'[p].at # "idle" => call'[p].job \in Job
      /\ \A p \in Op : call'[p].at \notin Writing
  BY <1>1, <1>3, IdleIsOutside DEF StoreInv
<1>7. ASSUME NEW q \in Release PROVE Mirrored(q)'
  <2>1. CASE q = r
    BY <1>1, <1>2, <1>3, <1>4, <2>1 DEF Mirrored
  <2>2. CASE q # r
    BY <1>1, <1>2, <1>3, <2>2 DEF Mirrored
  <2> QED
    BY <2>1, <2>2
<1> QED
  BY <1>1, <1>3, <1>5, <1>6, <1>7 DEF StoreInv

-----------------------------------------------------------------------------
(* Crash and open.                                                          *)

(* A crash leaves the directories, each consistent by itself.              *)
LEMMA CrashStep ==
    ASSUME StoreInv, Crash
    PROVE  StoreInv'
<1>1. /\ up' = FALSE /\ disk' = disk /\ Held' = {}
      /\ call' \in [Op -> [at : Step, job : Job \union {NoJob}]]
      /\ \A o \in Op : call'[o] = Idle
  BY DEF Crash, Held, Idle, Step, Writing
<1>2. Idle.at = "idle" /\ Idle.at \notin Writing
  BY DEF Idle, Writing
<1> QED
  BY <1>1, <1>2 DEF StoreInv

(* load_release makes an entry that says what its directory says.          *)
LEMMA LoadedIsShaped ==
    ASSUME NEW d \in Directory, Consistent(d), {s.file : s \in d.spans} \subseteq d.layouts,
           d.stamp # NoBlob
    PROVE  /\ Shaped(Loaded(d)) /\ Loaded(d).stamp = d.stamp
           /\ Cleaned(d) \in Directory /\ Consistent(Cleaned(d))
           /\ {s.file : s \in Cleaned(d).spans} \subseteq Cleaned(d).layouts
           /\ Cleaned(d).stamp = d.stamp /\ SaysSame(Cleaned(d), Loaded(d))
<1>1. Spans(d) = d.spans
  BY DEF Spans
<1>2. /\ Loaded(d).stamp = d.stamp /\ Loaded(d).spans = d.spans /\ Loaded(d).holes = d.holes
      /\ Loaded(d).verdict = d.verdict
  BY <1>1 DEF Loaded
<1>3. Shaped(Loaded(d))
  BY <1>1, <1>2 DEF Shaped, Loaded, Directory, Consistent
<1>4. /\ Cleaned(d).stamp = d.stamp /\ Cleaned(d).spans = d.spans /\ Cleaned(d).holes = d.holes
      /\ Cleaned(d).verdict = d.verdict /\ Cleaned(d).layouts = {s.file : s \in d.spans}
  BY <1>1 DEF Cleaned, Directory
<1>5. {s.file : s \in d.spans} \in SUBSET File
  BY DEF Directory
<1>6. Cleaned(d) \in Directory
  BY <1>1, <1>5 DEF Cleaned, Directory
<1> QED
  BY <1>2, <1>3, <1>4, <1>6 DEF Consistent, SaysSame

(* open loads the directories it keeps and removes the others.             *)
LEMMA OpenStep ==
    ASSUME StoreInv, Open
    PROVE  StoreInv'
<1> DEFINE found == {r \in Release : Usable(disk[r])}
<1>1. PICK kept : /\ kept \subseteq found
                  /\ index' = [r \in kept |-> Loaded(disk[r])]
                  /\ disk' = [r \in Release |-> IF r \in kept THEN Cleaned(disk[r]) ELSE NoDirectory]
  <2>1. PICK order \in SetToSeqs(found), n \in 0..Cardinality(Release) :
          LET kept == {order[i] : i \in n + 1 .. Len(order)} IN
          /\ index' = [r \in kept |-> Loaded(disk[r])]
          /\ disk' = [r \in Release |-> IF r \in kept THEN Cleaned(disk[r]) ELSE NoDirectory]
    BY DEF Open
  <2>2. Cardinality(found) \in Nat /\ Cardinality(Release) \in Nat
    BY FS_Subset, FS_CardinalityType, StoreAssumption
  <2>3. order \in [1..Cardinality(found) -> found]
    BY <2>1 DEF SetToSeqs
  <2>4. Len(order) = Cardinality(found)
    BY <2>2, <2>3, LenProperties, SeqDef
  <2>5. \A i \in n + 1 .. Len(order) : order[i] \in found
    BY <2>2, <2>3, <2>4
  <2> QED
    BY <2>1, <2>5
<1>2. up' = TRUE /\ UNCHANGED call /\ ~up
  BY DEF Open
<1>3. Held' = kept
  BY <1>1 DEF Held
<1>4. \A r \in kept : r \in Release /\ disk[r].stamp # NoBlob
  BY <1>1 DEF Usable
<1>5. \A r \in Release : disk[r] \in Directory /\ Consistent(disk[r])
                         /\ {s.file : s \in disk[r].spans} \subseteq disk[r].layouts
  BY DEF StoreInv
<1>6. /\ NoDirectory \in Directory /\ Consistent(NoDirectory)
      /\ {s.file : s \in NoDirectory.spans} \subseteq NoDirectory.layouts
      /\ NoDirectory.spans = {} /\ NoDirectory.verdict = NoBlob
  BY DEF NoDirectory, Directory, Consistent, Disjoint
<1>7. \A r \in kept : Shaped(index'[r])
  BY <1>1, <1>4, <1>5, LoadedIsShaped
<1>8. /\ disk' \in [Release -> Directory]
      /\ \A r \in Release : Consistent(disk'[r])
                            /\ {s.file : s \in disk'[r].spans} \subseteq disk'[r].layouts
  BY <1>1, <1>4, <1>5, <1>6, LoadedIsShaped
<1>9. ASSUME NEW r \in Release PROVE Mirrored(r)'
  <2>1. CASE r \in kept
    BY <1>1, <1>3, <1>4, <1>5, <2>1, LoadedIsShaped DEF Mirrored
  <2>2. CASE r \notin kept
    BY <1>1, <1>3, <1>6, <2>2 DEF Mirrored
  <2> QED
    BY <2>1, <2>2
<1>10. \A o \in Op : call[o].at = "idle" /\ call[o].at \notin Writing
  BY <1>2 DEF StoreInv, Idle, Writing
<1> QED
  BY <1>2, <1>3, <1>4, <1>7, <1>8, <1>9, <1>10 DEF StoreInv

-----------------------------------------------------------------------------
(* The theorems.                                                            *)

(* Every step preserves the invariant.                                     *)
LEMMA StoreStep == StoreInv /\ [Next]_vars => StoreInv'
<1> SUFFICES ASSUME StoreInv, [Next]_vars PROVE StoreInv'
  OBVIOUS
<1>1. ASSUME NEW o \in Op, CallStep(o) PROVE StoreInv'
  BY <1>1, CheckStep, DropStaleStep, AbandonStep, CommitStep, EvictStep, PutStampStep,
     PutLayoutStep, PutSpanStep, PutHolesStep, PutVerdictStep, IoErrorStep, UpdateIndexStep
     DEF CallStep
<1>2. ASSUME NEW r \in Release, Drop(r) \/ Locate(r) PROVE StoreInv'
  BY <1>2, DropStep, LocateStep DEF Locate
<1>3. CASE UNCHANGED vars
  BY <1>3, LocateStep DEF vars
<1> QED
  BY <1>1, <1>2, <1>3, CrashStep, OpenStep DEF Next

(* The invariant is one of the store, for any sizes and calls.              *)
THEOREM StoreInvariant == Spec => []StoreInv
BY InvInit, StoreStep, PTL DEF Spec

(* Spans of a file never overlap, in the index or on disk.                  *)
THEOREM SpansNeverOverlap == Spec => []SpansDisjoint
<1>1. StoreInv => SpansDisjoint
  BY InvMeans
<1> QED
  BY <1>1, StoreInvariant, PTL

(* All spans and the verdict of a release are of the NZB on its stamp.      *)
THEOREM ReleasesAreOfOneNzb == Spec => []OneNzb
<1>1. StoreInv => OneNzb
  BY InvMeans
<1> QED
  BY <1>1, StoreInvariant, PTL

(* A crash at any moment loses nothing the index holds, and brings nothing  *)
(* back.                                                                    *)
THEOREM PatchesSurvive == Spec => []IndexIsOnDisk
<1>1. StoreInv => IndexIsOnDisk
  BY InvMeans
<1> QED
  BY <1>1, StoreInvariant, PTL
-----------------------------------------------------------------------------

-----------------------------------------------------------------------------
(* What the releases cost.                                                  *)

(* The counters of an entry are those of what it holds.                     *)
Counted(e) ==
    /\ IsFiniteSet(e.spans)
    /\ e.data = DataOf(e.spans) /\ e.meta = MetaOf(e.spans, e.holes, e.verdict)

(* What the entries of an index cost together.                              *)
TotalOf(entries) == MapThenSumSet(LAMBDA r : Size(entries[r]), DOMAIN entries)

(* A writer's release fits alone, and the evictions made the room for it.   *)
Settled(o) ==
    LET j == call[o].job IN
    /\ Size(After(Current(j), j)) <= budget
    /\ call[o].at # "evict" => Others(o) = {} \/ bytes + Growth(j) <= budget

BudgetInv ==
    /\ budget \in Nat
    /\ \A r \in Held : Counted(index[r])
    /\ \A r \in Release : IsFiniteSet(disk[r].spans)
    /\ bytes = TotalOf(index) /\ bytes <= budget
    /\ \A o \in Op : call[o].at \in Writing => Settled(o)

(* The models' sums are sums.                                               *)
LEMMA DataIsSum ==
    ASSUME NEW S, IsFiniteSet(S), NEW w \in [S -> Int], \A s \in S : w[s] = s.len
    PROVE  DataOf(S) = Sum(w, S)
<1> DEFINE Sol(f) == f = [s \in SUBSET S |-> IF s = {} THEN 0 ELSE OneOf(s).len + f[Remaining(s)]]
           it == CHOOSE f : Sol(f)
<1>1. PICK g \in [SUBSET S -> Int] : Partial(g, w, SUBSET S)
  BY PartialExists
<1>2. \A s \in SUBSET S : s # {} => OneOf(s) \in S
  BY OneIsIn
<1>3. \A f : Sol(f) <=> Partial(f, w, SUBSET S)
  <2> SUFFICES ASSUME NEW f PROVE Sol(f) <=> Partial(f, w, SUBSET S)
    OBVIOUS
  <2> QED
   BY <1>2 DEF Partial
<1>4. Sol(it)
  BY <1>1, <1>3
<1>5. DataOf(S) = it[S]
  BY DEF DataOf, MapThenSumSet, MapThenFoldSet, OneOf, Remaining
<1> QED
  BY <1>3, <1>4, <1>5, SumIs

LEMMA TotalIsSum ==
    ASSUME NEW entries, IsFiniteSet(DOMAIN entries), NEW w \in [DOMAIN entries -> Int],
           \A r \in DOMAIN entries : w[r] = Size(entries[r])
    PROVE  TotalOf(entries) = Sum(w, DOMAIN entries)
<1> DEFINE S == DOMAIN entries
           Sol(f) == f = [s \in SUBSET S |->
                            IF s = {} THEN 0 ELSE Size(entries[OneOf(s)]) + f[Remaining(s)]]
           it == CHOOSE f : Sol(f)
<1>1. PICK g \in [SUBSET S -> Int] : Partial(g, w, SUBSET S)
  BY PartialExists
<1>2. \A s \in SUBSET S : s # {} => OneOf(s) \in S
  BY OneIsIn
<1>3. \A f : Sol(f) <=> Partial(f, w, SUBSET S)
  <2> SUFFICES ASSUME NEW f PROVE Sol(f) <=> Partial(f, w, SUBSET S)
    OBVIOUS
  <2> QED
   BY <1>2 DEF Partial
<1>4. Sol(it)
  BY <1>1, <1>3
<1>5. TotalOf(entries) = it[S]
  BY DEF TotalOf, MapThenSumSet, MapThenFoldSet, OneOf, Remaining
<1> QED
  BY <1>3, <1>4, <1>5, SumIs

(* One more span.                                                           *)
LEMMA DataGrows ==
    ASSUME NEW S, S \subseteq Span, IsFiniteSet(S), NEW p \in Span
    PROVE  /\ IsFiniteSet(S \union {p}) /\ DataOf(S) \in Nat
           /\ p \notin S => DataOf(S \union {p}) = DataOf(S) + p.len
<1> DEFINE T == S \union {p}
           v == [s \in S |-> s.len]
           w == [s \in T |-> s.len]
<1>1. IsFiniteSet(T) /\ \A s \in T : s.len \in Nat
  BY FS_AddElement DEF Span
<1>2. v \in [S -> Nat] /\ w \in [T -> Int] /\ \A s \in S : v[s] = w[s] /\ v[s] = s.len
  BY <1>1
<1>3. \A s \in T : w[s] = s.len
  OBVIOUS
<1> HIDE DEF v, w
<1>4. DataOf(S) = Sum(v, S) /\ Sum(v, S) \in Nat
  BY <1>2, DataIsSum, SumIsNat
<1>5. ASSUME p \notin S
      PROVE  DataOf(T) = DataOf(S) + p.len
  <2>1. Sum(w, T) = w[p] + Sum(v, S)
    <3>1. v \in [S -> Int] /\ w \in [S \union {p} -> Int] /\ \A s \in S : v[s] = w[s]
      BY <1>2
    <3> QED
      BY <3>1, <1>5, SumWith
  <2> HIDE DEF T
  <2>2. DataOf(T) = Sum(w, T)
    BY <1>1, <1>2, <1>3, DataIsSum
  <2>3. w[p] = p.len /\ p.len \in Nat
    BY <1>1, <1>3 DEF T
  <2> QED
    BY <1>4, <2>1, <2>2, <2>3
<1> QED
  BY <1>1, <1>4, <1>5

(* The files of finitely many spans can be counted.                         *)
LEMMA FilesCounted ==
    ASSUME NEW S, IsFiniteSet(S)
    PROVE  IsFiniteSet({s.file : s \in S}) /\ Cardinality({s.file : s \in S}) \in Nat
<1> DEFINE F == {s.file : s \in S}
           of == [s \in S |-> s.file]
<1>1. of \in Surjection(S, F)
  BY DEF Surjection
<1> HIDE DEF F
<1>2. IsFiniteSet(F)
  BY <1>1, FS_Surjection
<1> QED
  BY <1>2, FS_CardinalityType DEF F

(* What an entry costs is a number.                                         *)
LEMMA CostIsNat ==
    ASSUME NEW e, Shaped(e), Counted(e)
    PROVE  e.data \in Nat /\ e.meta \in Nat /\ Size(e) \in Nat
<1>1. e.data \in Nat
  <2>1. CASE e.spans = {}
    <3>1. PICK w \in [{} -> Int] : w = [s \in {} |-> 0]
      OBVIOUS
    <3>2. DataOf({}) = Sum(w, {}) /\ Sum(w, {}) = 0
      BY DataIsSum, SumOfNone, FS_EmptySet
    <3> QED
      BY <2>1, <3>2 DEF Counted
  <2>2. CASE e.spans # {}
    BY <2>2, DataGrows DEF Counted, Shaped, Consistent
  <2> QED
    BY <2>1, <2>2
<1>2. e.meta \in Nat
  <2>1. Cardinality({s.file : s \in e.spans}) \in Nat
    BY FilesCounted DEF Counted
  <2>2. Cardinality(e.holes) \in Nat
    BY StoreAssumption, FS_Subset, FS_CardinalityType DEF Shaped
  <2>3. \A a, b \in Nat : a * b \in Nat
    OBVIOUS
  <2> DEFINE x == FileCost * Cardinality({s.file : s \in e.spans})
             y == RecordCost * Cardinality(e.holes)
             z == IF e.verdict = NoBlob THEN 0 ELSE RecordCost
  <2>4. x \in Nat /\ y \in Nat /\ z \in Nat
    BY <2>1, <2>2, <2>3, StoreAssumption
  <2>5. e.meta = x + y + z
    BY DEF Counted, MetaOf
  <2> HIDE DEF x, y, z
  <2> QED
    BY <2>4, <2>5
<1> QED
  BY <1>1, <1>2 DEF Size

(* A call that was checked counts what it adds.                             *)
LEMMA AfterIsCounted ==
    ASSUME NEW e, Shaped(e), Counted(e), NEW j \in Job, e.stamp = j.blob, Free(e, j)
    PROVE  Counted(After(e, j))
<1> DEFINE a == After(e, j)
           p == SpanOf(j)
<1>1. CASE j.kind # "insert"
  <2>1. a.spans = e.spans /\ a.data = e.data /\ a.meta = MetaOf(a.spans, a.holes, a.verdict)
    BY <1>1, JobTypes DEF After, WithRecords, Shaped
  <2> QED
    BY <2>1 DEF Counted
<1>2. CASE j.kind = "insert"
  <2>1. /\ a.spans = {s \in e.spans : ~SameRange(s, j)} \union {p}
        /\ a.holes = e.holes /\ a.verdict = e.verdict
        /\ a.data = e.data + (IF \E s \in e.spans : SameRange(s, j) THEN 0 ELSE j.len)
        /\ a.meta = e.meta + (IF \E s \in e.spans : s.file = j.file THEN 0 ELSE FileCost)
    BY <1>2 DEF After, WithSpan, Shaped
  <2>2. /\ p \in Span /\ p.len = j.len /\ p.file = j.file /\ SameRange(p, j)
        /\ \A s \in e.spans : SameRange(s, j) => s = p
    <3>1. /\ p \in Span /\ p.from = j.blob /\ p.file = j.file
          /\ p.offset = j.offset /\ p.len = j.len
      BY <1>2, JobTypes DEF SpanOf
    <3> HIDE DEF p
    <3>2. \A s \in e.spans : SameRange(s, j) => s = p
      BY <3>1 DEF Shaped, Consistent, Span, SameRange
    <3> QED
      BY <3>1, <3>2 DEF SameRange
  <2> HIDE DEF a, p
  <2>3. a.spans = e.spans \union {p}
    BY <2>1, <2>2
  <2>4. /\ e.spans \subseteq Span /\ IsFiniteSet(e.spans)
        /\ e.data = DataOf(e.spans) /\ e.meta = MetaOf(e.spans, e.holes, e.verdict)
        /\ e.data \in Nat /\ e.meta \in Nat
    BY CostIsNat DEF Shaped, Consistent, Counted
  <2>5. IsFiniteSet(a.spans) /\ a.data = DataOf(a.spans)
    <3>1. CASE p \in e.spans
      <4>1. a.spans = e.spans /\ a.data = e.data
        BY <2>1, <2>2, <2>3, <2>4, <3>1
      <4> QED
        BY <2>4, <4>1
    <3>2. CASE p \notin e.spans
      <4>1. a.data = e.data + p.len
        BY <2>1, <2>2, <3>2
      <4> QED
        BY <2>2, <2>3, <2>4, <3>2, <4>1, DataGrows
    <3> QED
      BY <3>1, <3>2
  <2>6. a.meta = MetaOf(a.spans, a.holes, a.verdict)
    <3> DEFINE F == {s.file : s \in e.spans}
               G == {s.file : s \in a.spans}
               rest == RecordCost * Cardinality(e.holes)
                         + (IF e.verdict = NoBlob THEN 0 ELSE RecordCost)
    <3>1. G = F \union {j.file} /\ (j.file \in F <=> \E s \in e.spans : s.file = j.file)
      BY <2>2, <2>3
    <3>2. IsFiniteSet(F) /\ Cardinality(F) \in Nat
      BY <2>4, FilesCounted
    <3>3. /\ e.meta = FileCost * Cardinality(F) + rest
          /\ MetaOf(a.spans, a.holes, a.verdict) = FileCost * Cardinality(G) + rest
      <4>1. Cardinality(e.holes) \in Nat
        BY StoreAssumption, FS_Subset, FS_CardinalityType DEF Shaped
      <4>2. Cardinality(G) \in Nat
        BY <3>1, <3>2, FS_AddElement, FS_CardinalityType
      <4>3. \A x, y \in Nat : x * y \in Nat
        OBVIOUS
      <4>4. \A x, y, z \in Nat : x + y + z = x + (y + z)
        OBVIOUS
      <4> HIDE DEF F, G
      <4>5. RecordCost * Cardinality(e.holes) \in Nat /\ FileCost * Cardinality(F) \in Nat
            /\ FileCost * Cardinality(G) \in Nat
            /\ (IF e.verdict = NoBlob THEN 0 ELSE RecordCost) \in Nat
        BY <3>2, <4>1, <4>2, <4>3, StoreAssumption
      <4>6. /\ e.meta = FileCost * Cardinality(F) + RecordCost * Cardinality(e.holes)
                          + (IF e.verdict = NoBlob THEN 0 ELSE RecordCost)
            /\ MetaOf(a.spans, a.holes, a.verdict)
                 = FileCost * Cardinality(G) + RecordCost * Cardinality(e.holes)
                          + (IF e.verdict = NoBlob THEN 0 ELSE RecordCost)
        BY <2>1, <2>4 DEF MetaOf, F, G
      <4> QED
        BY <4>4, <4>5, <4>6
    <3>4. rest \in Int
      <4>1. Cardinality(e.holes) \in Nat
        BY StoreAssumption, FS_Subset, FS_CardinalityType DEF Shaped
      <4>2. \A x, y \in Nat : x * y \in Nat
        OBVIOUS
      <4> QED
        BY <4>1, <4>2, StoreAssumption
    <3>5. j.file \notin F => FileCost * Cardinality(G) = FileCost * Cardinality(F) + FileCost
      <4>1. \A x, y \in Nat : x * (y + 1) = x * y + x
        OBVIOUS
      <4>2. j.file \notin F => Cardinality(G) = Cardinality(F) + 1
        BY <3>1, <3>2, FS_AddElement
      <4> HIDE DEF F, G
      <4> QED
        BY <3>2, <4>1, <4>2, StoreAssumption
    <3>6. j.file \in F => G = F
      BY <3>1
    <3>7. FileCost * Cardinality(F) \in Nat
      <4>1. \A x, y \in Nat : x * y \in Nat
        OBVIOUS
      <4> QED
        BY <3>2, <4>1, StoreAssumption
    <3> HIDE DEF F, G, rest
    <3>8. \A x, y, z \in Int : (x + y) + z = (x + z) + y
      OBVIOUS
    <3>9. a.meta = e.meta + (IF j.file \in F THEN 0 ELSE FileCost)
      BY <2>1, <3>1
    <3>10. CASE j.file \in F
      BY <2>4, <3>3, <3>6, <3>9, <3>10
    <3>11. CASE j.file \notin F
      BY <2>4, <3>3, <3>4, <3>5, <3>7, <3>8, <3>9, <3>11, StoreAssumption
    <3> QED
      BY <3>10, <3>11
  <2> QED
    BY <2>5, <2>6 DEF Counted, a
<1> QED
  BY <1>1, <1>2

(* The total without a release.                                             *)
LEMMA TotalWithout ==
    ASSUME NEW f, IsFiniteSet(DOMAIN f), \A r \in DOMAIN f : Size(f[r]) \in Nat,
           NEW x, NEW g, g = [q \in DOMAIN f \ {x} |-> f[q]]
    PROVE  /\ TotalOf(f) \in Nat /\ TotalOf(g) \in Nat
           /\ TotalOf(g) = TotalOf(f) - (IF x \in DOMAIN f THEN Size(f[x]) ELSE 0)
<1> DEFINE S == DOMAIN f
           v == [r \in S |-> Size(f[r])]
           w == [r \in S \ {x} |-> Size(g[r])]
<1>1. /\ v \in [S -> Nat] /\ \A r \in S : v[r] = Size(f[r])
      /\ w \in [S \ {x} -> Nat] /\ \A r \in S \ {x} : w[r] = Size(g[r]) /\ w[r] = v[r]
  OBVIOUS
<1>2. IsFiniteSet(S \ {x}) /\ DOMAIN g = S \ {x}
  BY FS_RemoveElement
<1> HIDE DEF v, w
<1>3. TotalOf(f) = Sum(v, S)
  BY <1>1, TotalIsSum
<1>4. TotalOf(g) = Sum(w, S \ {x})
  <2>1. /\ IsFiniteSet(DOMAIN g) /\ w \in [DOMAIN g -> Int]
        /\ \A r \in DOMAIN g : w[r] = Size(g[r])
    BY <1>1, <1>2
  <2> QED
    BY <1>2, <2>1, TotalIsSum
<1>5. Sum(v, S) \in Nat /\ Sum(w, S \ {x}) \in Nat
  BY <1>1, <1>2, SumIsNat
<1>6. CASE x \in S
  <2>1. /\ v \in [S -> Int] /\ w \in [S \ {x} -> Int] /\ \A r \in S \ {x} : w[r] = v[r]
    BY <1>1
  <2>2. Sum(v, S) = v[x] + Sum(w, S \ {x})
    BY <1>6, <2>1, SumWithout
  <2>3. v[x] = Size(f[x]) /\ v[x] \in Nat
    BY <1>1, <1>6
  <2> QED
    BY <1>3, <1>4, <1>5, <1>6, <2>2, <2>3
<1>7. CASE x \notin S
  <2>1. S \ {x} = S
    BY <1>7
  <2>2. v = w
    BY <1>1, <2>1
  <2> QED
    BY <1>3, <1>4, <1>5, <1>7, <2>1, <2>2
<1> QED
  BY <1>6, <1>7

(* g is f with an entry for x, in place of one if there was one.            *)
PutEntry(f, x, g) ==
    /\ IsFiniteSet(DOMAIN f) /\ \A r \in DOMAIN f : Size(f[r]) \in Nat
    /\ Size(g[x]) \in Nat /\ DOMAIN g = DOMAIN f \union {x}
    /\ \A q \in DOMAIN f \ {x} : g[q] = f[q]

(* What the index counts for a release that may not be there.               *)
CostIn(f, x) == IF x \in DOMAIN f THEN Size(f[x]) ELSE 0

(* The total with a new entry for a release.                                *)
LEMMA TotalWith ==
    ASSUME NEW f, NEW x, NEW g, PutEntry(f, x, g)
    PROVE  TotalOf(g) = TotalOf(f) - CostIn(f, x) + Size(g[x])
<1>0. /\ IsFiniteSet(DOMAIN f) /\ \A r \in DOMAIN f : Size(f[r]) \in Nat
      /\ Size(g[x]) \in Nat /\ DOMAIN g = DOMAIN f \union {x}
      /\ \A q \in DOMAIN f \ {x} : g[q] = f[q]
  BY DEF PutEntry
<1>1. PICK h : h = [q \in DOMAIN f \ {x} |-> f[q]]
  OBVIOUS
<1>2. /\ TotalOf(f) \in Nat /\ TotalOf(h) \in Nat
      /\ TotalOf(h) = TotalOf(f) - CostIn(f, x)
  BY <1>0, <1>1, TotalWithout DEF CostIn
<1>3. IsFiniteSet(DOMAIN g) /\ \A r \in DOMAIN g : Size(g[r]) \in Nat
  BY <1>0, FS_AddElement
<1>4. x \in DOMAIN g /\ h = [q \in DOMAIN g \ {x} |-> g[q]]
  BY <1>0, <1>1
<1>5. TotalOf(g) \in Nat /\ TotalOf(h) = TotalOf(g) - Size(g[x])
  <2>1. TotalOf(h) = TotalOf(g) - (IF x \in DOMAIN g THEN Size(g[x]) ELSE 0)
        /\ TotalOf(g) \in Nat
    BY <1>3, <1>4, TotalWithout
  <2> QED
    BY <1>4, <2>1
<1>6. CostIn(f, x) \in Nat
  BY <1>0 DEF CostIn
<1> QED
  BY <1>0, <1>2, <1>5, <1>6

(* Nothing costs nothing.                                                   *)
LEMMA TotalOfNone ==
    ASSUME NEW f, DOMAIN f = {}
    PROVE  TotalOf(f) = 0
<1>1. PICK w \in [{} -> Int] : w = [s \in {} |-> 0]
  OBVIOUS
<1>2. Sum(w, {}) = 0 /\ IsFiniteSet({})
  BY SumOfNone, FS_EmptySet
<1>3. TotalOf(f) = Sum(w, DOMAIN f)
  <2>1. IsFiniteSet(DOMAIN f) /\ w \in [DOMAIN f -> Int] /\ \A r \in DOMAIN f : w[r] = Size(f[r])
    BY <1>2
  <2> QED
    BY <2>1, TotalIsSum
<1> QED
  BY <1>2, <1>3

-----------------------------------------------------------------------------
(* The steps.                                                               *)

(* The releases of the index can be counted, and so can what they cost.     *)
LEMMA HeldCosts ==
    ASSUME StoreInv, BudgetInv
    PROVE  /\ IsFiniteSet(Held) /\ \A r \in Held : Size(index[r]) \in Nat
           /\ bytes \in Nat /\ budget \in Nat
<1>1. IsFiniteSet(Held)
  BY FS_Subset, StoreAssumption DEF StoreInv
<1>2. \A r \in Held : Size(index[r]) \in Nat
  BY CostIsNat DEF StoreInv, BudgetInv
<1>3. TotalOf(index) \in Nat
  <2>1. PICK g : g = [q \in DOMAIN index \ {0} |-> index[q]]
    OBVIOUS
  <2> QED
    BY <1>1, <1>2, <2>1, TotalWithout DEF Held
<1> QED
  BY <1>1, <1>2, <1>3 DEF BudgetInv

(* A step that leaves the index and the counters alone.                     *)
LEMMA QuietStep ==
    ASSUME StoreInv, BudgetInv, UNCHANGED <<budget, index, bytes>>,
           \A r \in Release : IsFiniteSet(disk'[r].spans),
           \A o \in Op : call'[o].at \in Writing => Settled(o)'
    PROVE  BudgetInv'
<1>1. \A r \in Held' : Counted(index'[r])
  BY DEF BudgetInv, Held
<1>2. bytes' = TotalOf(index') /\ bytes' <= budget' /\ budget' \in Nat
  BY DEF BudgetInv
<1> QED
  BY <1>1, <1>2 DEF BudgetInv

(* A release is removed.                                                    *)
LEMMA RemovedCost ==
    ASSUME StoreInv, BudgetInv, NEW STATE x, RemoveRelease(x), UNCHANGED budget
    PROVE  /\ budget' \in Nat
           /\ \A r \in Held' : Counted(index'[r])
           /\ \A r \in Release : IsFiniteSet(disk'[r].spans)
           /\ bytes' = TotalOf(index') /\ bytes' <= budget'
<1>1. /\ Held' = Held \ {x} /\ \A r \in Held' : index'[r] = index[r]
      /\ \A r \in Release : disk'[r] = IF r = x THEN NoDirectory ELSE disk[r]
  BY Removed
<1>2. /\ index' = [q \in Held \ {x} |-> index[q]]
      /\ bytes' = bytes - (IF x \in Held THEN Size(index[x]) ELSE 0)
  BY DEF RemoveRelease, RemoveEntry
<1>3. \A r \in Held' : Counted(index'[r])
  BY <1>1 DEF BudgetInv
<1>4. IsFiniteSet(NoDirectory.spans)
  BY FS_EmptySet DEF NoDirectory
<1>5. /\ IsFiniteSet(Held) /\ \A r \in Held : Size(index[r]) \in Nat
      /\ bytes \in Nat /\ budget \in Nat
  BY HeldCosts
<1>6. TotalOf(index') = TotalOf(index) - (IF x \in Held THEN Size(index[x]) ELSE 0)
  BY <1>2, <1>5, TotalWithout DEF Held
<1>7. bytes' = TotalOf(index') /\ bytes' <= bytes
  <2>1. (IF x \in Held THEN Size(index[x]) ELSE 0) \in Nat
    BY <1>5
  <2> QED
    BY <1>2, <1>5, <1>6, <2>1 DEF BudgetInv
<1>8. bytes' <= budget'
  <2>1. bytes' \in Int
    BY <1>2, <1>5
  <2> QED
    BY <1>5, <1>7, <2>1 DEF BudgetInv
<1> QED
  BY <1>1, <1>3, <1>4, <1>5, <1>7, <1>8 DEF BudgetInv

(* A call counts what it finds.                                             *)
LEMMA CurrentCounted ==
    ASSUME BudgetInv, NEW j \in Job
    PROVE  Counted(Current(j)) /\ (j.release \notin Held => Size(Current(j)) = 0)
<1>1. CASE j.release \in Held
  BY <1>1 DEF Current, BudgetInv
<1>2. CASE j.release \notin Held
  <2>1. Current(j) = Blank(j.blob)
    BY <1>2 DEF Current
  <2>2. /\ Blank(j.blob).spans = {} /\ Blank(j.blob).holes = {} /\ Blank(j.blob).verdict = NoBlob
        /\ Blank(j.blob).data = 0 /\ Blank(j.blob).meta = 0
    BY DEF Blank
  <2>3. DataOf({}) = 0
    <3>1. PICK w \in [{} -> Int] : w = [s \in {} |-> 0]
      OBVIOUS
    <3> QED
      BY <3>1, DataIsSum, SumOfNone, FS_EmptySet
  <2>4. MetaOf({}, {}, NoBlob) = 0
    <3>1. {s.file : s \in {}} = {} /\ Cardinality({}) = 0
      BY FS_EmptySet
    <3>2. MetaOf({}, {}, NoBlob) = FileCost * 0 + RecordCost * 0 + 0
      BY <3>1 DEF MetaOf
    <3>3. \A x \in Nat : x * 0 = 0
      OBVIOUS
    <3> QED
      BY <3>2, <3>3, StoreAssumption
  <2>5. IsFiniteSet({})
    BY FS_EmptySet
  <2> QED
    BY <1>2, <2>1, <2>2, <2>3, <2>4, <2>5 DEF Counted, Size
<1> QED
  BY <1>1, <1>2

(* A call that does not hold the lock moves or returns.                     *)
LEMMA OutsideSettled ==
    ASSUME StoreInv, BudgetInv, UNCHANGED <<budget, index, bytes, disk>>, NEW o \in Op,
           NEW STATE c, c.at \notin Writing, call' = [call EXCEPT ![o] = c]
    PROVE  BudgetInv'
<1>1. ASSUME NEW p \in Op, call'[p].at \in Writing
      PROVE  Settled(p)'
  <2>1. call'[p] = call[p]
    BY <1>1 DEF StoreInv
  <2>2. Settled(p)
    BY <1>1, <2>1 DEF BudgetInv
  <2> QED
    BY <2>1, <2>2 DEF Settled, Current, Growth, Others, Held
<1> QED
  BY <1>1, QuietStep DEF BudgetInv

(* commit takes the lock for what fits.                                     *)
LEMMA CommitSettled ==
    ASSUME StoreInv, BudgetInv, NEW o \in Op, Commit(o)
    PROVE  BudgetInv'
<1> DEFINE j == call[o].job
<1>1. UNCHANGED <<budget, index, bytes, disk>> /\ \A p \in Op : call[p].at \notin Writing
  BY DEF Commit, Unlocked
<1>2. CASE call' = [call EXCEPT ![o] = Idle]
  BY <1>1, <1>2, IdleIsOutside, OutsideSettled DEF Writing
<1>3. CASE Fits(Current(j), j) /\ call' = [call EXCEPT ![o].at = "evict"]
  <2>1. /\ call'[o].at = "evict" /\ call'[o].job = j
        /\ \A p \in Op : call'[p].at \in Writing => p = o
    BY <1>1, <1>3 DEF StoreInv, Writing
  <2>2. Size(After(Current(j), j)) <= budget
    BY <1>3 DEF Fits
  <2>3. Settled(o)'
    BY <1>1, <2>1, <2>2 DEF Settled, Current, Held
  <2> QED
    BY <1>1, <2>1, <2>3, QuietStep DEF BudgetInv
<1> QED
  BY <1>2, <1>3 DEF Commit, Goto, Return

(* One file is put into place; after the stamp there is room.               *)
LEMMA PutSettled ==
    ASSUME StoreInv, BudgetInv, NEW o \in Op, NEW at \in Writing, NEW STATE d,
           NEW next \in Writing \ {"evict"}, PutFile(o, at, d, next),
           IsFiniteSet(d.spans), at = "evict" => ~NeedsRoom(o)
    PROVE  BudgetInv'
<1> DEFINE j == call[o].job
<1>1. /\ call[o].at = at /\ call'[o].at = next /\ call'[o].job = j
      /\ disk' = [disk EXCEPT ![j.release] = d]
      /\ call' = [call EXCEPT ![o].at = next]
      /\ UNCHANGED <<up, index>>
  BY PutFileDoes
<1>2. UNCHANGED <<budget, bytes>>
  BY DEF PutFile
<1>3. /\ \A p \in Op : call'[p].at \in Writing => p = o
      /\ Settled(o)
  <2>1. \A p \in Op : call[p].at \in Writing => p = o
    BY <1>1, Locked
  <2>2. \A p \in Op \ {o} : call'[p] = call[p]
    BY <1>1
  <2> QED
    BY <1>1, <2>1, <2>2 DEF BudgetInv
<1>4. Others(o) = {} \/ bytes + Growth(j) <= budget
  <2>1. CASE at = "evict"
    <3>1. ~(Others(o) # {} /\ bytes + Growth(j) > budget)
      BY <2>1 DEF NeedsRoom
    <3>2. Growth(j) \in Nat /\ bytes \in Nat /\ budget \in Nat
      <4>1. bytes \in Nat /\ budget \in Nat
        BY HeldCosts
      <4>2. /\ Shaped(Current(j)) /\ Current(j).stamp = j.blob /\ Free(Current(j), j) /\ j \in Job
            /\ ~Stale(j)
        BY <1>1, WriterKnows
      <4>3. Counted(Current(j))
        BY <1>1, <4>2, CurrentCounted
      <4>4. Size(Current(j)) \in Nat /\ Size(After(Current(j), j)) \in Nat
        BY <4>2, <4>3, AfterIsCounted, AfterIsShaped, CostIsNat
      <4>5. \A x, y \in Nat : (IF y - x < 0 THEN 0 ELSE y - x) \in Nat
        OBVIOUS
      <4> QED
        BY <4>1, <4>4, <4>5 DEF Growth
    <3> QED
      BY <3>1, <3>2
  <2>2. CASE at # "evict"
    BY <1>1, <1>3, <2>2 DEF Settled
  <2> QED
    BY <2>1, <2>2
<1>5. Settled(o)'
  BY <1>1, <1>2, <1>3, <1>4 DEF Settled, Current, Growth, Others, Held
<1>6. \A r \in Release : IsFiniteSet(disk'[r].spans)
  BY <1>1 DEF BudgetInv, StoreInv
<1> QED
  BY <1>1, <1>2, <1>3, <1>5, <1>6, QuietStep

(* The files of a call, one after the other.                                *)
LEMMA PutsSettled ==
    ASSUME StoreInv, BudgetInv, NEW o \in Op,
           PutStamp(o) \/ PutLayout(o) \/ PutSpan(o) \/ PutHoles(o) \/ PutVerdict(o)
    PROVE  BudgetInv'
<1> DEFINE j == call[o].job
           d == disk[j.release]
<1>1. /\ {"evict", "layout", "span", "holes", "verdict"} \subseteq Writing
      /\ {"layout", "span", "holes", "verdict", "index"} \subseteq Writing \ {"evict"}
  BY DEF Writing
<1>2. call[o].at \in Writing
  BY <1>1 DEF PutStamp, PutLayout, PutSpan, PutHoles, PutVerdict, PutFile
<1>3. j \in Job /\ j.release \in Release /\ d \in Directory
  BY <1>2, WriterKnows
<1>4. IsFiniteSet(d.spans)
  BY <1>3 DEF BudgetInv
<1>5. CASE PutStamp(o)
  <2>1. [d EXCEPT !.stamp = j.blob].spans = d.spans
    BY <1>3 DEF Directory
  <2>2. PICK next \in Writing \ {"evict"} : PutFile(o, "evict", [d EXCEPT !.stamp = j.blob], next)
    BY <1>1, <1>5 DEF PutStamp
  <2>3. ~NeedsRoom(o)
    BY <1>5 DEF PutStamp
  <2> QED
    BY <1>1, <1>4, <2>1, <2>2, <2>3, PutSettled
<1>6. CASE PutLayout(o)
  <2>1. [d EXCEPT !.layouts = @ \union {j.file}].spans = d.spans
    BY <1>3 DEF Directory
  <2>2. PutFile(o, "layout", [d EXCEPT !.layouts = @ \union {j.file}], "span")
    BY <1>6 DEF PutLayout
  <2> QED
    BY <1>1, <1>4, <2>1, <2>2, PutSettled
<1>7. CASE PutSpan(o)
  <2> DEFINE S == {s \in d.spans : ~SameRange(s, j)} \union {SpanOf(j)}
  <2>1. [d EXCEPT !.spans = S].spans = S
    BY <1>3 DEF Directory
  <2>2. PutFile(o, "span", [d EXCEPT !.spans = S], "index")
    BY <1>7 DEF PutSpan
  <2>3. IsFiniteSet(S)
    <3>1. IsFiniteSet({s \in d.spans : ~SameRange(s, j)})
      BY <1>4, FS_Subset
    <3> QED
      BY <3>1, FS_AddElement
  <2> HIDE DEF S
  <2> QED
    BY <1>1, <2>1, <2>2, <2>3, PutSettled
<1>8. CASE PutHoles(o)
  <2> DEFINE x == After(Current(j), j).holes
  <2>1. [d EXCEPT !.holes = x].spans = d.spans
    BY <1>3 DEF Directory
  <2>2. PutFile(o, "holes", [d EXCEPT !.holes = x], "verdict")
    BY <1>8 DEF PutHoles
  <2> QED
    BY <1>1, <1>4, <2>1, <2>2, PutSettled
<1>9. CASE PutVerdict(o)
  <2> DEFINE x == After(Current(j), j).verdict
  <2>1. [d EXCEPT !.verdict = x].spans = d.spans
    BY <1>3 DEF Directory
  <2>2. PutFile(o, "verdict", [d EXCEPT !.verdict = x], "index")
    BY <1>9 DEF PutVerdict
  <2> QED
    BY <1>1, <1>4, <2>1, <2>2, PutSettled
<1> QED
  BY <1>5, <1>6, <1>7, <1>8, <1>9

(* Dropping a release, be it by a client or by a call.                      *)
LEMMA DropSettled ==
    ASSUME StoreInv, BudgetInv, NEW STATE x, RemoveRelease(x), UNCHANGED budget,
           \A p \in Op : call'[p].at \notin Writing
    PROVE  BudgetInv'
<1>1. /\ budget' \in Nat
      /\ \A r \in Held' : Counted(index'[r])
      /\ \A r \in Release : IsFiniteSet(disk'[r].spans)
      /\ bytes' = TotalOf(index') /\ bytes' <= budget'
  BY RemovedCost
<1> QED
  BY <1>1 DEF BudgetInv

(* An eviction leaves the release of the call, and its room, alone.         *)
LEMMA EvictSettled ==
    ASSUME StoreInv, BudgetInv, NEW o \in Op, EvictOne(o)
    PROVE  BudgetInv'
<1> DEFINE j == call[o].job
<1>1. PICK x \in Others(o) : RemoveRelease(x)
  BY DEF EvictOne
<1>2. x # j.release /\ call[o].at = "evict" /\ UNCHANGED <<up, budget, call>>
  BY DEF EvictOne, Others
<1>3. /\ budget' \in Nat
      /\ \A r \in Held' : Counted(index'[r])
      /\ \A r \in Release : IsFiniteSet(disk'[r].spans)
      /\ bytes' = TotalOf(index') /\ bytes' <= budget'
  BY <1>1, <1>2, RemovedCost
<1>4. Held' = Held \ {x} /\ \A r \in Held' : index'[r] = index[r]
  BY <1>1, Removed
<1>5. Current(j)' = Current(j)
  BY <1>2, <1>4 DEF Current
<1>6. Settled(o)
  BY <1>2 DEF BudgetInv, Writing
<1>7. Settled(o)'
  BY <1>2, <1>5, <1>6 DEF Settled
<1>8. \A p \in Op : call[p].at \in Writing => p = o
  BY <1>2, Locked DEF Writing
<1> QED
  BY <1>2, <1>3, <1>7, <1>8 DEF BudgetInv

(* The counters take what the call adds: it fits alone, or there is room.   *)
LEMMA UpdateSettled ==
    ASSUME StoreInv, BudgetInv, NEW o \in Op, UpdateIndex(o)
    PROVE  BudgetInv'
<1> DEFINE j == call[o].job
           r == j.release
           c == Current(j)
           a == After(c, j)
<1>1. /\ call[o].at = "index" /\ UNCHANGED <<up, budget, disk>>
      /\ call' = [call EXCEPT ![o] = Idle]
      /\ index' = [q \in Held \union {r} |-> IF q = r THEN a ELSE index[q]]
      /\ bytes' = bytes - Size(c) + Size(a)
  BY DEF UpdateIndex, Return
<1>2. /\ j \in Job /\ r \in Release /\ ~Stale(j) /\ Free(c, j) /\ Shaped(c) /\ c.stamp = j.blob
  BY <1>1, WriterKnows DEF Writing
<1>3. Counted(c) /\ (r \notin Held => Size(c) = 0) /\ (r \in Held => c = index[r])
  BY <1>2, CurrentCounted DEF Current
<1>4. Counted(a) /\ Shaped(a) /\ Size(a) \in Nat /\ Size(c) \in Nat
  BY <1>2, <1>3, AfterIsCounted, AfterIsShaped, CostIsNat
<1>5. /\ IsFiniteSet(Held) /\ \A q \in Held : Size(index[q]) \in Nat
      /\ bytes \in Nat /\ budget \in Nat
  BY HeldCosts
<1>6. /\ Size(a) <= budget
      /\ Others(o) = {} \/ bytes + Growth(j) <= budget
      /\ Growth(j) = IF Size(a) - Size(c) < 0 THEN 0 ELSE Size(a) - Size(c)
  <2>1. Settled(o)
    BY <1>1 DEF BudgetInv, Writing
  <2> QED
    BY <1>1, <2>1 DEF Settled, Growth
<1> HIDE DEF a, c
<1>7. Held' = Held \union {r} /\ \A q \in Held' : index'[q] = IF q = r THEN a ELSE index[q]
  BY <1>1 DEF Held
<1>8. \A q \in Held' : Counted(index'[q])
  BY <1>4, <1>7 DEF BudgetInv
<1>9. TotalOf(index') = TotalOf(index) - Size(c) + Size(a) /\ bytes = TotalOf(index)
  <2>1. PutEntry(index, r, index')
    BY <1>4, <1>5, <1>7 DEF PutEntry, Held
  <2>2. TotalOf(index') = TotalOf(index) - CostIn(index, r) + Size(index'[r])
    BY <2>1, TotalWith
  <2>3. CostIn(index, r) = Size(c) /\ index'[r] = a
    BY <1>3, <1>7 DEF Held, CostIn
  <2> QED
    BY <2>2, <2>3 DEF BudgetInv
<1>10. bytes' <= budget'
  <2>1. CASE Others(o) = {}
    <3>1. bytes = Size(c)
      <4>1. Held \subseteq {r}
        BY <2>1 DEF Others
      <4>2. PICK g : g = [q \in DOMAIN index \ {r} |-> index[q]]
        OBVIOUS
      <4>3. TotalOf(g) = 0
        <5>1. DOMAIN g = {}
          BY <4>1, <4>2 DEF Held
        <5> QED
          BY <5>1, TotalOfNone
      <4>4. /\ TotalOf(index) \in Nat
            /\ TotalOf(g) = TotalOf(index) - (IF r \in DOMAIN index THEN Size(index[r]) ELSE 0)
        BY <1>5, <4>2, TotalWithout DEF Held
      <4>5. (IF r \in DOMAIN index THEN Size(index[r]) ELSE 0) = Size(c)
        BY <1>3 DEF Held
      <4> QED
        BY <1>4, <1>9, <4>3, <4>4, <4>5
    <3> QED
      BY <1>1, <1>4, <1>5, <1>6, <3>1
  <2>2. CASE bytes + Growth(j) <= budget
    <3>1. \A x, y, b, m \in Nat :
            b + (IF y - x < 0 THEN 0 ELSE y - x) <= m => b - x + y <= m
      OBVIOUS
    <3> QED
      BY <1>1, <1>4, <1>5, <1>6, <2>2, <3>1
  <2> QED
    BY <1>6, <2>1, <2>2
<1>11. \A p \in Op : call'[p].at \notin Writing
  <2>1. \A p \in Op : call[p].at \in Writing => p = o
    BY <1>1, Locked DEF Writing
  <2> QED
    BY <1>1, <2>1, IdleIsOutside DEF StoreInv, Writing
<1>12. bytes' = TotalOf(index')
  BY <1>1, <1>9
<1> QED
  BY <1>1, <1>5, <1>8, <1>10, <1>11, <1>12 DEF BudgetInv

(* What open counts is what the releases that it keeps cost.                *)
LEMMA CostIsTotal ==
    ASSUME NEW S, IsFiniteSet(S), NEW f, f = [r \in S |-> Loaded(disk[r])],
           \A r \in S : Size(Loaded(disk[r])) \in Nat
    PROVE  Cost(S) = TotalOf(f)
<1> DEFINE w == [r \in S |-> Size(Loaded(disk[r]))]
           Sol(g) == g = [s \in SUBSET S |->
                            IF s = {} THEN 0 ELSE Size(Loaded(disk[OneOf(s)])) + g[Remaining(s)]]
           it == CHOOSE g : Sol(g)
<1>1. w \in [S -> Int] /\ \A r \in S : w[r] = Size(Loaded(disk[r]))
  OBVIOUS
<1> HIDE DEF w
<1>2. PICK first \in [SUBSET S -> Int] : Partial(first, w, SUBSET S)
  BY <1>1, PartialExists
<1>3. \A s \in SUBSET S : s # {} => OneOf(s) \in S
  BY OneIsIn
<1>4. \A g : Sol(g) <=> Partial(g, w, SUBSET S)
  <2> SUFFICES ASSUME NEW g PROVE Sol(g) <=> Partial(g, w, SUBSET S)
    OBVIOUS
  <2> QED
   BY <1>1, <1>3 DEF Partial
<1>5. Sol(it)
  BY <1>2, <1>4
<1>6. Cost(S) = it[S]
  BY DEF Cost, MapThenSumSet, MapThenFoldSet, OneOf, Remaining
<1> HIDE DEF it, Sol
<1>7. Partial(it, w, SUBSET S)
  BY <1>4, <1>5
<1>8. Cost(S) = Sum(w, S)
  BY <1>1, <1>6, <1>7, SumIs
<1>9. TotalOf(f) = Sum(w, S)
  <2>1. DOMAIN f = S /\ \A r \in S : w[r] = Size(f[r])
    BY <1>1
  <2>2. IsFiniteSet(DOMAIN f) /\ w \in [DOMAIN f -> Int] /\ \A r \in DOMAIN f : w[r] = Size(f[r])
    BY <1>1, <2>1
  <2> QED
    BY <2>1, <2>2, TotalIsSum
<1> QED
  BY <1>8, <1>9

(* open keeps what fits, and counts it.                                     *)
LEMMA OpenSettled ==
    ASSUME StoreInv, BudgetInv, Open
    PROVE  BudgetInv'
<1> DEFINE found == {r \in Release : Usable(disk[r])}
<1>1. PICK kept : /\ kept \subseteq found /\ Cost(kept) <= budget' /\ bytes' = Cost(kept)
                  /\ index' = [r \in kept |-> Loaded(disk[r])]
                  /\ disk' = [r \in Release |-> IF r \in kept THEN Cleaned(disk[r]) ELSE NoDirectory]
  <2>1. PICK order \in SetToSeqs(found), n \in 0..Cardinality(Release) :
          LET kept == {order[i] : i \in n + 1 .. Len(order)} IN
          /\ Cost(kept) <= budget' /\ bytes' = Cost(kept)
          /\ index' = [r \in kept |-> Loaded(disk[r])]
          /\ disk' = [r \in Release |-> IF r \in kept THEN Cleaned(disk[r]) ELSE NoDirectory]
    BY DEF Open
  <2>2. Cardinality(found) \in Nat /\ Cardinality(Release) \in Nat
    BY FS_Subset, FS_CardinalityType, StoreAssumption
  <2>3. order \in [1..Cardinality(found) -> found]
    BY <2>1 DEF SetToSeqs
  <2>4. Len(order) = Cardinality(found)
    BY <2>2, <2>3, LenProperties, SeqDef
  <2>5. \A i \in n + 1 .. Len(order) : order[i] \in found
    BY <2>2, <2>3, <2>4
  <2> QED
    BY <2>1, <2>5
<1>2. budget' \in Nat /\ UNCHANGED call /\ ~up
  BY StoreAssumption DEF Open
<1>3. IsFiniteSet(kept) /\ kept \subseteq Release /\ Held' = kept
  <2>1. kept \in SUBSET Release
    BY <1>1
  <2> QED
    BY <1>1, <2>1, FS_Subset, StoreAssumption DEF Held
<1>4. ASSUME NEW r \in kept
      PROVE  /\ Counted(Loaded(disk[r])) /\ IsFiniteSet(Cleaned(disk[r]).spans)
             /\ Size(Loaded(disk[r])) \in Nat
  <2>1. /\ disk[r] \in Directory /\ IsFiniteSet(disk[r].spans) /\ disk[r].stamp # NoBlob
        /\ Consistent(disk[r]) /\ {s.file : s \in disk[r].spans} \subseteq disk[r].layouts
    BY <1>1, <1>3 DEF StoreInv, BudgetInv, Usable
  <2>2. IsFiniteSet(Spans(disk[r]))
    BY <2>1, FS_Subset DEF Spans
  <2>3. Counted(Loaded(disk[r]))
    BY <2>2 DEF Counted, Loaded
  <2>4. Cleaned(disk[r]).spans = Spans(disk[r])
    BY <2>1 DEF Cleaned, Directory
  <2>5. Shaped(Loaded(disk[r]))
    BY <2>1, LoadedIsShaped
  <2> QED
    BY <2>2, <2>3, <2>4, <2>5, CostIsNat
<1>5. \A r \in Held' : Counted(index'[r])
  BY <1>1, <1>3, <1>4
<1>6. \A r \in Release : IsFiniteSet(disk'[r].spans)
  <2>1. IsFiniteSet(NoDirectory.spans)
    BY FS_EmptySet DEF NoDirectory
  <2> QED
    BY <1>1, <1>4, <2>1
<1>7. bytes' = TotalOf(index')
  BY <1>1, <1>3, <1>4, CostIsTotal
<1>8. \A o \in Op : call'[o].at \notin Writing
  BY <1>2 DEF StoreInv, Idle, Writing
<1> QED
  BY <1>1, <1>2, <1>5, <1>6, <1>7, <1>8 DEF BudgetInv

(* Every step keeps the counters right and within the budget.               *)
LEMMA BudgetStep ==
    ASSUME StoreInv, BudgetInv, [Next]_vars
    PROVE  BudgetInv'
<1>1. ASSUME NEW o \in Op, CallStep(o)
      PROVE  BudgetInv'
  <2>1. CASE (\E j \in Job : Check(o, j)) \/ Abandon(o) \/ IoError(o)
    <3>1. PICK c : c.at \notin Writing /\ call' = [call EXCEPT ![o] = c]
      BY <2>1, IdleIsOutside DEF Check, Abandon, IoError, Return, Writing
    <3>2. UNCHANGED <<budget, index, bytes, disk>>
      BY <2>1 DEF Check, Abandon, IoError
    <3> QED
      BY <1>1, <3>1, <3>2, OutsideSettled
  <2>2. CASE DropStale(o)
    <3>1. /\ RemoveRelease(call[o].job.release) /\ UNCHANGED budget
          /\ \A p \in Op : call[p].at \notin Writing
      BY <2>2 DEF DropStale, Unlocked
    <3>2. PICK step \in {"stage", "update"} : call' = [call EXCEPT ![o].at = step]
      BY <2>2 DEF DropStale, Goto
    <3>3. \A p \in Op : call'[p].at \notin Writing
      BY <3>1, <3>2 DEF StoreInv, Writing
    <3> QED
      BY <3>1, <3>3, DropSettled
  <2> QED
    BY <1>1, <2>1, <2>2, CommitSettled, EvictSettled, PutsSettled, UpdateSettled DEF CallStep
<1>2. ASSUME NEW r \in Release, Drop(r)
      PROVE  BudgetInv'
  BY <1>2, DropSettled DEF Drop, Unlocked
<1>3. CASE UNCHANGED vars \/ \E r \in Release : Locate(r)
  <2>1. UNCHANGED <<budget, index, bytes, disk, call>>
    BY <1>3 DEF vars, Locate
  <2>2. \A p \in Op : call'[p].at \in Writing => Settled(p)'
    BY <2>1 DEF BudgetInv, Settled, Current, Growth, Others, Held
  <2> QED
    BY <2>1, <2>2, QuietStep DEF BudgetInv
<1>4. CASE Crash
  <2>1. /\ DOMAIN index' = {} /\ bytes' = 0 /\ UNCHANGED <<budget, disk>>
        /\ \A p \in Op : call'[p] = Idle
    BY <1>4 DEF Crash
  <2>2. TotalOf(index') = 0
    BY <2>1, TotalOfNone
  <2>3. Held' = {}
    BY <2>1 DEF Held
  <2>4. Idle.at \notin Writing
    BY DEF Idle, Writing
  <2> QED
    BY <2>1, <2>2, <2>3, <2>4 DEF BudgetInv
<1> QED
  BY <1>1, <1>2, <1>3, <1>4, OpenSettled DEF Next

(* The store never holds more than its budget, and its counters say what    *)
(* it holds, whatever the calls, failed writes, crashes and restarts.       *)
THEOREM CountersAreTrue == Spec => []WithinBudget
<1>1. ASSUME Init
      PROVE  BudgetInv
  <2>1. DOMAIN index = {} /\ bytes = 0 /\ budget \in Nat
    BY <1>1, StoreAssumption DEF Init
  <2>2. \A r \in Release : disk[r].spans = {}
    BY <1>1 DEF Init, NoDirectory
  <2>3. \A o \in Op : call[o].at \notin Writing
    BY <1>1 DEF Init, Idle, Writing
  <2>4. TotalOf(index) = 0
    BY <2>1, TotalOfNone
  <2>5. Held = {}
    BY <2>1 DEF Held
  <2>6. \A r \in Release : IsFiniteSet(disk[r].spans)
    BY <2>2, FS_EmptySet
  <2>7. 0 <= budget
    BY <2>1
  <2> QED
    BY <2>1, <2>3, <2>4, <2>5, <2>6, <2>7 DEF BudgetInv
<1>2. StoreInv /\ StoreInv' /\ BudgetInv /\ [Next]_vars => BudgetInv'
  BY BudgetStep
<1>3. BudgetInv => WithinBudget
  <2> SUFFICES ASSUME BudgetInv PROVE WithinBudget
    OBVIOUS
  <2>1. bytes = MapThenSumSet(LAMBDA r : Size(index[r]), Held)
    BY DEF BudgetInv, TotalOf, Held
  <2> QED
    BY <2>1 DEF BudgetInv, Counted, WithinBudget
<1> QED
  BY <1>1, <1>2, <1>3, StoreInvariant, PTL DEF Spec
=============================================================================
