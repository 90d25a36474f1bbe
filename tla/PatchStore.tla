----------------------------- MODULE PatchStore -----------------------------
(***************************************************************************)
(* The patch store on disk: nzbdav-stream/src/patches.rs.                  *)
(*                                                                         *)
(* insert and update_records (record_holes, record_verdict) are calls that *)
(* check under the read lock, let go of it, drop a release of another NZB, *)
(* stage what they write and check again under the write lock.  They hold  *)
(* that lock from "evict" to "index", while they rename one file after     *)
(* another into place; only a crash or an I/O error comes in between.      *)
(*                                                                         *)
(* A span's bytes are known by the NZB blob they were rebuilt for.  The    *)
(* in-memory store has the same rules and no disk.                         *)
(***************************************************************************)
EXTENDS Integers, Sequences, FiniteSets, FiniteSetsExt, SequencesExt

CONSTANTS
    Release,    \* history items
    Blob,       \* NZB blobs a release can be imported from
    NoBlob,     \* no stamp, no verdict
    File,       \* files of a release
    FileSize,   \* bytes of each
    Article,    \* articles: where they sit in a file
    Hole,       \* articles that can be on record as holes
    Op,         \* concurrent calls of insert and update_records
    Job,        \* what they are asked to store
    NoJob,      \* a call that has returned
    Budgets,    \* sizes par2_patch_cache_mb can be set to
    FileCost,   \* file_cost
    RecordCost  \* hole_cost, verdict_cost

Patch == [kind : {"insert"}, release : Release, blob : Blob,
          file : File, offset : Nat, len : Nat]
Records == [kind : {"holes"}, release : Release, blob : Blob, hole : Hole]
              \union [kind : {"verdict"}, release : Release, blob : Blob]

ASSUME StoreAssumption ==
    /\ NoBlob \notin Blob
    /\ Job \subseteq Patch \union Records
    /\ Budgets \subseteq Nat
    /\ FileSize \in Nat /\ FileCost \in Nat /\ RecordCost \in Nat
    /\ IsFiniteSet(Release) /\ IsFiniteSet(Hole)

VARIABLES
    up,         \* there is a process
    budget,     \* PatchStore::budget
    index,      \* Inner::releases
    bytes,      \* Inner::data_bytes + Inner::meta_bytes
    lru,        \* the releases of the index, least recently read first
    disk,       \* the directory of each release
    call        \* where each call is, and with what

vars == <<up, budget, index, bytes, lru, disk, call>>

Span == [file : File, offset : Nat, len : Nat, from : Blob]

Entry == [stamp : Blob, spans : SUBSET Span, holes : SUBSET Hole,
          verdict : Blob \union {NoBlob}, data : Nat, meta : Nat]

Directory == [stamp : Blob \union {NoBlob}, layouts : SUBSET File, spans : SUBSET Span,
              holes : SUBSET Hole, verdict : Blob \union {NoBlob}]

\* No directory, and one that holds nothing.
NoDirectory == [stamp |-> NoBlob, layouts |-> {}, spans |-> {}, holes |-> {}, verdict |-> NoBlob]

\* The steps of a call under the write lock, and all of them.
Writing == {"evict", "layout", "span", "holes", "verdict", "index"}
Step == {"idle", "drop", "stage", "update"} \union Writing

\* The releases of the index.
Held == DOMAIN index

TypeOK ==
    /\ up \in BOOLEAN
    /\ budget \in Budgets
    /\ index \in [Held -> Entry] /\ Held \subseteq Release
    /\ bytes \in Nat
    /\ lru \in Seq(Release)
    /\ disk \in [Release -> Directory]
    /\ call \in [Op -> [at : Step, job : Job \union {NoJob}]]

Idle == [at |-> "idle", job |-> NoJob]

Init ==
    /\ up = FALSE
    /\ budget \in Budgets
    /\ index = [r \in {} |-> NoJob]
    /\ bytes = 0
    /\ lru = <<>>
    /\ disk = [r \in Release |-> NoDirectory]
    /\ call = [o \in Op |-> Idle]

Unlocked == up /\ \A o \in Op : call[o].at \notin Writing

Goto(o, step) == call' = [call EXCEPT ![o].at = step]
Return(o) == call' = [call EXCEPT ![o] = Idle]

-----------------------------------------------------------------------------
(* What a release costs, and what a call makes of it.                       *)

DataOf(spans) == MapThenSumSet(LAMBDA s : s.len, spans)
MetaOf(spans, holes, verdict) ==
    FileCost * Cardinality({s.file : s \in spans}) + RecordCost * Cardinality(holes)
      + (IF verdict = NoBlob THEN 0 ELSE RecordCost)

Size(e) == e.data + e.meta

Blank(b) == [stamp |-> b, spans |-> {}, holes |-> {}, verdict |-> NoBlob, data |-> 0, meta |-> 0]

SpanOf(j) == [file |-> j.file, offset |-> j.offset, len |-> j.len, from |-> j.blob]
SameRange(s, j) == s.file = j.file /\ s.offset = j.offset /\ s.len = j.len
Overlaps(s, t) == /\ s.file = t.file
                  /\ s.offset < t.offset + t.len /\ t.offset < s.offset + s.len

\* The span replaces one of the same range; a new file is indexed.
WithSpan(e, j) ==
    [e EXCEPT !.spans = {s \in @ : ~SameRange(s, j)} \union {SpanOf(j)},
              !.data = @ + (IF \E s \in e.spans : SameRange(s, j) THEN 0 ELSE j.len),
              !.meta = @ + (IF \E s \in e.spans : s.file = j.file THEN 0 ELSE FileCost)]

WithRecords(e, holes, verdict) ==
    [e EXCEPT !.holes = holes, !.verdict = verdict, !.meta = MetaOf(e.spans, holes, verdict)]

After(e, j) ==
    CASE j.kind = "insert" -> WithSpan(e, j)
      [] j.kind = "holes" -> WithRecords(e, e.holes \union {j.hole}, e.verdict)
      [] j.kind = "verdict" -> WithRecords(e, e.holes, j.blob)

\* No overlap, and the release alone within the budget.
Fits(e, j) ==
    /\ j.kind = "insert" => \A s \in e.spans : Overlaps(s, j) => SameRange(s, j)
    /\ Size(After(e, j)) <= budget

Stale(j) == j.release \in Held /\ index[j.release].stamp # j.blob

\* The release as the call finds it, or a new one.
Current(j) == IF j.release \in Held THEN index[j.release] ELSE Blank(j.blob)

\* More bytes by the call; records may also shrink.
Growth(j) ==
    LET more == Size(After(Current(j), j)) - Size(Current(j)) IN IF more < 0 THEN 0 ELSE more

-----------------------------------------------------------------------------
(* Evicting and dropping.                                                   *)

RemoveEntry(r) ==
    /\ index' = [q \in Held \ {r} |-> index[q]]
    /\ bytes' = bytes - (IF r \in Held THEN Size(index[r]) ELSE 0)
    /\ lru' = SelectSeq(lru, LAMBDA q : q # r)

\* Mutant of RemoveRelease: the directory stays.
RemoveReleaseFromIndex(r) == RemoveEntry(r) /\ UNCHANGED disk

\* Out of the index, and its directory into the trash.
RemoveRelease(r) == RemoveEntry(r) /\ disk' = [disk EXCEPT ![r] = NoDirectory]

\* drop_release by a client: an item or its history entry was deleted.  clear
\* and drop_if_stale are drops of what they saw before.
Drop(r) ==
    /\ Unlocked
    /\ RemoveRelease(r)
    /\ UNCHANGED <<up, budget, call>>

\* r was read before the others in the set.
Coldest(r, releases) ==
    \E i \in DOMAIN lru : lru[i] = r /\ \A k \in 1 .. i - 1 : lru[k] \notin releases

Others(o) == Held \ {call[o].job.release}

\* Mutant of NeedsRoom: what the call adds is not counted.
NeedsRoomForItself(o) == Others(o) # {} /\ bytes > budget

NeedsRoom(o) ==
    Others(o) # {} /\ bytes + Growth(call[o].job) > budget

EvictOne(o) ==
    /\ call[o].at = "evict"
    /\ NeedsRoom(o)
    /\ \E r \in Others(o) : Coldest(r, Others(o)) /\ RemoveRelease(r)
    /\ UNCHANGED <<up, budget, call>>

-----------------------------------------------------------------------------
(* insert, record_holes and record_verdict.                                 *)

\* The checks under the read lock; an insert that does not fit writes nothing.
Check(o, j) ==
    /\ call[o].at = "idle"
    /\ Unlocked
    /\ j.kind = "insert" =>
         /\ j.len > 0 /\ j.offset + j.len <= FileSize
         /\ Fits(IF Stale(j) THEN Blank(j.blob) ELSE Current(j), j)
    /\ call' = [call EXCEPT ![o] =
                  [at |-> IF Stale(j) THEN "drop"
                          ELSE IF j.kind = "insert" THEN "stage" ELSE "update",
                   job |-> j]]
    /\ UNCHANGED <<up, budget, index, bytes, lru, disk>>

\* The release is dropped, be it still of another NZB or not.
DropStale(o) ==
    /\ call[o].at = "drop"
    /\ Unlocked
    /\ RemoveRelease(call[o].job.release)
    /\ Goto(o, IF call[o].job.kind = "insert" THEN "stage" ELSE "update")
    /\ UNCHANGED <<up, budget>>

\* A file cannot be staged, or the repair gives up on the await.
Abandon(o) ==
    /\ call[o].at = "stage"
    /\ Return(o)
    /\ UNCHANGED <<up, budget, index, bytes, lru, disk>>

\* Mutants of Commit: the second check leaves out the NZB, or the fit.
CommitOfAnyNzb(o) ==
    LET j == call[o].job IN
    /\ call[o].at \in {"stage", "update"}
    /\ Unlocked
    /\ IF Fits(Current(j), j) THEN Goto(o, "evict") ELSE Return(o)
    /\ UNCHANGED <<up, budget, index, bytes, lru, disk>>
CommitUnchecked(o) ==
    LET j == call[o].job IN
    /\ call[o].at \in {"stage", "update"}
    /\ Unlocked
    /\ IF Stale(j) THEN Return(o) ELSE Goto(o, "evict")
    /\ UNCHANGED <<up, budget, index, bytes, lru, disk>>

\* The write lock, with everything checked again.
Commit(o) ==
    LET j == call[o].job IN
    /\ call[o].at \in {"stage", "update"}
    /\ Unlocked
    /\ IF ~Stale(j) /\ Fits(Current(j), j) THEN Goto(o, "evict") ELSE Return(o)
    /\ UNCHANGED <<up, budget, index, bytes, lru, disk>>

\* One file of the release is renamed into place.
PutFile(o, step, directory, next) ==
    /\ call[o].at = step
    /\ disk' = [disk EXCEPT ![call[o].job.release] = directory]
    /\ Goto(o, next)
    /\ UNCHANGED <<up, budget, index, bytes, lru>>

PutStamp(o) ==
    LET j == call[o].job IN
    /\ call[o].at = "evict"
    /\ ~NeedsRoom(o)
    /\ PutFile(o, "evict", [disk[j.release] EXCEPT !.stamp = j.blob],
               IF j.kind = "insert" THEN "layout" ELSE "holes")

PutLayout(o) ==
    LET j == call[o].job IN
    PutFile(o, "layout", [disk[j.release] EXCEPT !.layouts = @ \union {j.file}], "span")

PutSpan(o) ==
    LET j == call[o].job IN
    PutFile(o, "span",
            [disk[j.release] EXCEPT !.spans = {s \in @ : ~SameRange(s, j)} \union {SpanOf(j)}],
            "index")

PutHoles(o) ==
    LET j == call[o].job IN
    PutFile(o, "holes",
            [disk[j.release] EXCEPT !.holes = After(Current(j), j).holes], "verdict")

PutVerdict(o) ==
    LET j == call[o].job IN
    PutFile(o, "verdict",
            [disk[j.release] EXCEPT !.verdict = After(Current(j), j).verdict], "index")

\* A file cannot be written or renamed: the call fails with what it did.
IoError(o) ==
    /\ call[o].at \in Writing \ {"index"}
    /\ call[o].at = "evict" => ~NeedsRoom(o)
    /\ Return(o)
    /\ UNCHANGED <<up, budget, index, bytes, lru, disk>>

\* A span counts as a read, records only if the release is new.
UpdateIndex(o) ==
    LET j == call[o].job
        r == j.release
        e == After(Current(j), j)
    IN
    /\ call[o].at = "index"
    /\ index' = [q \in Held \union {r} |-> IF q = r THEN e ELSE index[q]]
    /\ bytes' = bytes - Size(Current(j)) + Size(e)
    /\ lru' = IF j.kind = "insert" \/ r \notin Held
              THEN Append(SelectSeq(lru, LAMBDA q : q # r), r) ELSE lru
    /\ Return(o)
    /\ UNCHANGED <<up, budget, disk>>

-----------------------------------------------------------------------------
(* Reading.                                                                 *)

Covers(r, a) ==
    \A at \in a.offset .. a.offset + a.len - 1 :
        \E s \in index[r].spans : s.file = a.file /\ at \in s.offset .. s.offset + s.len - 1

\* read_article finds its pieces, under the read lock; it reads them after.
Locate(r) ==
    /\ Unlocked
    /\ r \in Held
    /\ \E a \in Article : a.len > 0 /\ Covers(r, a)
    /\ lru' = Append(SelectSeq(lru, LAMBDA q : q # r), r)
    /\ UNCHANGED <<up, budget, index, bytes, disk, call>>

-----------------------------------------------------------------------------
(* Crash and open.                                                          *)

Crash ==
    /\ up
    /\ up' = FALSE
    /\ index' = [r \in {} |-> NoJob]
    /\ bytes' = 0
    /\ lru' = <<>>
    /\ call' = [o \in Op |-> Idle]
    /\ UNCHANGED <<budget, disk>>

\* load_release: spans of a file without a layout are removed, and releases
\* without a stamp or anything else.  A span is renamed when it is complete,
\* and none overlaps another (SpansDisjoint), so no other span is dropped.
Spans(d) == {s \in d.spans : s.file \in d.layouts}
Usable(d) == d.stamp # NoBlob /\ (Spans(d) # {} \/ d.holes # {} \/ d.verdict # NoBlob)

Loaded(d) ==
    [stamp |-> d.stamp, spans |-> Spans(d), holes |-> d.holes, verdict |-> d.verdict,
     data |-> DataOf(Spans(d)), meta |-> MetaOf(Spans(d), d.holes, d.verdict)]
Cleaned(d) == [d EXCEPT !.spans = Spans(d), !.layouts = {s.file : s \in Spans(d)}]

Cost(releases) == MapThenSumSet(LAMBDA r : Size(Loaded(disk[r])), releases)

\* The releases are ordered by the time of their newest file, which is that
\* of its staging and can be any; the first are evicted if the budget shrank.
Open ==
    /\ ~up
    /\ up' = TRUE
    /\ budget' \in Budgets
    /\ \E order \in SetToSeqs({r \in Release : Usable(disk[r])}), n \in 0..Cardinality(Release) :
         LET kept == {order[i] : i \in n + 1 .. Len(order)} IN
         /\ n <= Len(order)
         /\ Cost(kept) <= budget'
         /\ n > 0 => Cost(kept \union {order[n]}) > budget'
         /\ index' = [r \in kept |-> Loaded(disk[r])]
         /\ bytes' = Cost(kept)
         /\ lru' = SubSeq(order, n + 1, Len(order))
         /\ disk' = [r \in Release |-> IF r \in kept THEN Cleaned(disk[r]) ELSE NoDirectory]
    /\ UNCHANGED call

-----------------------------------------------------------------------------
CallStep(o) ==
    \/ \E j \in Job : Check(o, j)
    \/ DropStale(o) \/ Abandon(o) \/ Commit(o) \/ EvictOne(o)
    \/ PutStamp(o) \/ PutLayout(o) \/ PutSpan(o) \/ PutHoles(o) \/ PutVerdict(o)
    \/ IoError(o) \/ UpdateIndex(o)

Next ==
    \/ \E o \in Op : CallStep(o)
    \/ \E r \in Release : Drop(r) \/ Locate(r)
    \/ Crash \/ Open

Spec == Init /\ [][Next]_vars

-----------------------------------------------------------------------------
(* Correctness.                                                             *)

(* Between two writers the counters are what the releases cost, and within  *)
(* the budget: an entry costs its spans, its files and its records, and the *)
(* store's total is theirs, however inserts, replacements, evictions and    *)
(* failed writes came about.                                                *)
WithinBudget ==
    Unlocked =>
      /\ \A r \in Held : LET e == index[r] IN
           e.data = DataOf(e.spans) /\ e.meta = MetaOf(e.spans, e.holes, e.verdict)
      /\ bytes = MapThenSumSet(LAMBDA r : Size(index[r]), Held)
      /\ bytes <= budget

(* Two spans of one file never overlap, in the index or on disk, although   *)
(* an insert checks long before it writes.                                  *)
SpansDisjoint ==
    \A r \in Release :
      /\ \A s, t \in disk[r].spans : Overlaps(s, t) => s = t
      /\ r \in Held => \A s, t \in index[r].spans : Overlaps(s, t) => s = t

(* The spans and the verdict of a release are those of the NZB its stamp    *)
(* names, also after a crash between two files and under calls that began   *)
(* with another NZB.                                                        *)
OneNzb ==
    \A r \in Release :
      /\ \A s \in disk[r].spans : s.from = disk[r].stamp
      /\ disk[r].verdict \in {NoBlob, disk[r].stamp}
      /\ r \in Held => /\ \A s \in index[r].spans : s.from = index[r].stamp
                       /\ index[r].verdict \in {NoBlob, index[r].stamp}

(* A restart at any moment finds every patch, hole and verdict the index    *)
(* holds; and between two writers it finds no other patch or verdict.       *)
(* Neither a crash nor a write that failed half way loses or resurrects     *)
(* anything that was stored, dropped or evicted.                            *)
IndexIsOnDisk ==
    up => \A r \in Release :
      LET d == disk[r] IN
      IF r \in Held
      THEN LET e == index[r] IN
           /\ d.stamp = e.stamp
           /\ e.spans \subseteq d.spans
           /\ {s.file : s \in e.spans} \subseteq d.layouts
           /\ e.holes \subseteq d.holes
           /\ e.verdict \in {NoBlob, d.verdict}
           /\ Unlocked => d.spans = e.spans /\ d.verdict = e.verdict
      ELSE Unlocked => d.spans = {} /\ d.verdict = NoBlob
=============================================================================
