---------------------------- MODULE RepairAttempt ---------------------------
(***************************************************************************)
(* One attempt at repairing a PAR2 set (nzbdav-stream repair.rs), the step  *)
(* that RepairSchedule leaves open: in up to MaxPasses passes it loads      *)
(* recovery rows, reads every article of the set, and then solves for the   *)
(* damaged slices, asks for more rows, or gives the release up.             *)
(*                                                                         *)
(* Meanwhile the servers, the hole ledger and the patch store change under  *)
(* it.  Articles are read in order, one step each: the code reads a few     *)
(* ahead, and articles change independently, so no other outcome is missed. *)
(* The reader of recovery packets and the solver are external (rust-par2):  *)
(* a volume read to its end gives all its good rows, up to the budget.      *)
(***************************************************************************)
EXTENDS Naturals, Sequences, FiniteSets, FiniteSetsExt

CONSTANTS
    Piece,      \* the set's files: [size, carried, articles], articles [id, offset, len]
    SliceSize,  \* units of a slice
    VolumeRows, \* the volumes, lowest exponent first: their good rows
    ExtraRows,  \* rows loaded beyond the known damage (8)
    RowBudget,  \* rows held at most
    MaxPasses,  \* passes of an attempt (3)
    MaxChanges  \* bound on what happens meanwhile

ASSUME RepairAssumption ==
    /\ Piece \in Seq([size : Nat, carried : BOOLEAN,
                       articles : Seq([id : STRING, offset : Nat, len : Nat])])
    /\ VolumeRows \in Seq(Nat)
    /\ SliceSize \in Nat \ {0} /\ ExtraRows \in Nat /\ RowBudget \in Nat
    /\ MaxPasses \in Nat \ {0} /\ MaxChanges \in Nat

VARIABLES
    phase,     \* "plan", "rows", "scan", "patch" or how the attempt ended
    pass,      \* the pass
    known,     \* slices known to be lost when the pass began
    wanted,    \* rows wanted
    loaded,    \* [kept, next, whole]: rows loaded, next volume, all read to the end
    previous,  \* rows of the last pass, plus one, 0 before the first
    scan,      \* what the pass read
    at,        \* <<file, article>> to read next
    solved,    \* damage and holes of the solved system, holes left to patch
    articles,  \* on the servers: "there", "gone", "down" or "wrong"
    confirmed, \* articles whose holes are confirmed
    patched,   \* articles the store has a patch of
    changes,   \* what happened meanwhile, so far
    wasLost    \* articles seen confirmed and without a patch since the start

attemptVars == <<phase, pass, known, wanted, loaded, previous, scan, at, solved>>
worldVars == <<articles, confirmed, patched, changes>>
repairVars == <<attemptVars, worldVars, wasLost>>

CarriedFiles == {f \in DOMAIN Piece : Piece[f].carried}
SetArticles ==
    UNION {{Piece[f].articles[k].id : k \in DOMAIN Piece[f].articles} : f \in CarriedFiles}


\* census_file: a carried file has articles, one after the other.
ASSUME SpanAssumption ==
    \A f \in CarriedFiles : LET spans == Piece[f].articles IN
        /\ spans # <<>>
        /\ \A k \in DOMAIN spans : spans[k].offset + spans[k].len <= Piece[f].size
        /\ \A j, k \in DOMAIN spans : j < k => spans[j].offset + spans[j].len <= spans[k].offset

-----------------------------------------------------------------------------
(* Plan: slices are numbered through the files.                             *)

Count(f) == (Piece[f].size + SliceSize - 1) \div SliceSize
StartOf(f) == MapThenSumSet(Count, 1..(f - 1))
SlicesOfFile(f) == {StartOf(f) + n : n \in 0..(Count(f) - 1)}
AllSlices == UNION {SlicesOfFile(f) : f \in DOMAIN Piece}

\* Slices of files the release does not carry.
Absent == UNION {SlicesOfFile(f) : f \in DOMAIN Piece \ CarriedFiles}

\* slices_of: both ends are pulled back into the file.
Within(n, f) == IF n < Count(f) THEN n ELSE Count(f) - 1
SlicesOf(f, offset, len) ==
    IF len = 0 \/ Count(f) = 0 THEN {}
    ELSE {StartOf(f) + n : n \in Within(offset \div SliceSize, f)..Within((offset + len - 1) \div SliceSize, f)}

\* known_missing.
KnownMissing ==
    Absent \union UNION {
        UNION {SlicesOf(f, Piece[f].articles[k].offset, Piece[f].articles[k].len) :
                    k \in {n \in DOMAIN Piece[f].articles : Piece[f].articles[n].id \in confirmed \ patched}} :
            f \in CarriedFiles}

-----------------------------------------------------------------------------
(* Assembler: a file's articles cut into its slices.                        *)

Lower(a, b) == IF a < b THEN a ELSE b
Higher(a, b) == IF a < b THEN b ELSE a

\* The slice being assembled: the units it has, and what marks it.
FreshAssembler == [next |-> 0, pos |-> 0, have |-> 0, hole |-> FALSE, unknown |-> FALSE, wrong |-> FALSE]

SliceEnd(n, f) == Lower((n + 1) * SliceSize, Piece[f].size)

\* A slice as it comes out; `slice_matches` of a slice with data.
Finished(a, f) ==
    IF a.hole THEN "hole"
    ELSE IF ~a.unknown /\ ~a.wrong /\ a.have = SliceEnd(a.next, f) - a.next * SliceSize THEN "good"
    ELSE "unknown"

\* Slice n with what the units from..to of an article add to it.
Marked(asm, f, n, from, to, mark) ==
    LET begun == IF n = asm.next THEN asm ELSE FreshAssembler
        units == (Higher(from, n * SliceSize) + 1)..Lower(to, SliceEnd(n, f))
        Touched(marks) == units # {} /\ mark \in marks
    IN  [begun EXCEPT !.next = n, !.pos = to,
                      !.hole = @ \/ Touched({"hole"}), !.unknown = @ \/ Touched({"unknown"}),
                      !.wrong = @ \/ Touched({"wrong"}),
                      !.have = @ + (IF Touched({"data", "wrong"}) THEN Cardinality(units) ELSE 0)]

\* Slices that end by pos.
EndedBy(pos, f) == IF pos = Piece[f].size THEN Count(f) ELSE pos \div SliceSize

\* push: what the spans skip is unknown, up to the end of the first slice
\* skipped; the rest has no data and fails its checksum.
Push(asm, f, article, mark) ==
    LET from == Higher(article.offset, asm.pos)
        to == Lower(article.offset + article.len, Piece[f].size)
        begun == [asm EXCEPT !.unknown = @ \/ article.offset > asm.pos]
    IN  IF to <= from THEN [asm |-> asm, done |-> {}]
        ELSE [asm |-> Marked(begun, f, EndedBy(to, f), from, to, mark),
              done |-> {Marked(begun, f, n, from, to, mark) : n \in asm.next..(EndedBy(to, f) - 1)}]

-----------------------------------------------------------------------------
(* The passes.                                                              *)

FreshScan == [good |-> {}, missing |-> {}, unknown |-> {}, holes |-> {}, asm |-> FreshAssembler,
              solver |-> TRUE]

StartRepairPass(lost, count) ==
    /\ known' = lost
    /\ wanted' = count
    /\ loaded' = [kept |-> 0, next |-> 1, whole |-> TRUE]
    /\ phase' = "rows"

\* attempt, up to its first pass.
Plan ==
    /\ phase = "plan"
    /\ StartRepairPass(KnownMissing, Cardinality(KnownMissing) + ExtraRows)
    /\ pass' = 1
    /\ UNCHANGED <<previous, scan, at, solved, worldVars, wasLost>>

Limit == Lower(wanted, RowBudget)

\* read_volume: an article that fails ends it early.
ReadVolume(read, toEnd) ==
    /\ phase = "rows" /\ loaded.next <= Len(VolumeRows) /\ loaded.kept < Limit
    /\ read <= VolumeRows[loaded.next] /\ (toEnd => read = VolumeRows[loaded.next])
    /\ loaded' = [kept |-> Lower(loaded.kept + read, Limit),
                next |-> loaded.next + 1, whole |-> loaded.whole /\ toEnd]
    /\ UNCHANGED <<phase, pass, known, wanted, previous, scan, at, solved, worldVars, wasLost>>

\* Mutant of Exhausted: volumes that were not read to the end count as read.
ExhaustedAnyway == loaded.next > Len(VolumeRows) /\ loaded.kept < Limit

\* These are all the rows the release carries.
Exhausted == loaded.whole /\ loaded.next > Len(VolumeRows) /\ loaded.kept < Limit

BudgetBound == loaded.kept >= Limit /\ Limit < wanted

\* The first article of the next file that is carried; past the last file.
FirstFrom(f) ==
    LET later == {g \in CarriedFiles : g >= f}
    IN  <<IF later = {} THEN Len(Piece) + 1 ELSE Min(later), 1>>

\* The rows are there: the release is given up, or there is no point in
\* reading again, or the scan begins.
RowsLoaded ==
    /\ phase = "rows" /\ (loaded.next > Len(VolumeRows) \/ loaded.kept >= Limit)
    /\ phase' = IF Exhausted /\ Cardinality(known) > loaded.kept THEN "unrepairable"
                ELSE IF previous # 0 /\ loaded.kept < previous THEN "failed"
                ELSE "scan"
    /\ previous' = loaded.kept + 1
    /\ scan' = [FreshScan EXCEPT !.solver = loaded.kept > 0 /\ Cardinality(Absent) <= loaded.kept]
    /\ at' = FirstFrom(1)
    /\ UNCHANGED <<pass, known, wanted, loaded, solved, worldVars, wasLost>>

\* ArticleReader::read: a fetch, then a patch, then what the ledger says.
Reading(article, whole) ==
    CASE articles[article.id] = "there" -> IF whole THEN "data" ELSE "unknown"
      [] articles[article.id] = "wrong" -> "wrong"
      [] articles[article.id] = "gone" /\ article.id \in patched -> "data"
      [] articles[article.id] = "gone" /\ article.id \in confirmed \ patched -> "hole"
      [] OTHER -> "unknown"

\* check_overflow, once the damage outgrows the rows.
Overflown(s) ==
    IF Cardinality(s.missing) + Cardinality(s.unknown) + Cardinality(Absent) > loaded.kept
    THEN [s EXCEPT !.solver = FALSE] ELSE s

\* What an article finished, and at the end of its file the slices that
\* were never reached.
Counted(s, f, done) ==
    LET Of(kind) == {StartOf(f) + a.next : a \in {b \in done : Finished(b, f) = kind}}
    IN  [s EXCEPT !.good = @ \union Of("good"), !.missing = @ \union Of("hole"),
                  !.unknown = @ \union Of("unknown")]

\* Mutant of Unreached: they are left out.
UnreachedIgnored(f, a) == {}

Unreached(f, a) == {StartOf(f) + n : n \in a.next..(Count(f) - 1)}

\* One article of the scan; a body of another length than expected (`whole`
\* FALSE) is no data.
ScanArticle(whole) ==
    /\ phase = "scan" /\ at[1] <= Len(Piece)
    /\ LET f == at[1]
           k == at[2]
           article == Piece[f].articles[k]
           mark == Reading(article, whole)
           pushed == Push(scan.asm, f, article, mark)
           last == k = Len(Piece[f].articles)
           counted == Counted([scan EXCEPT !.asm = IF last THEN FreshAssembler ELSE pushed.asm,
                                           !.holes = IF mark = "hole" THEN @ \union {<<f, k>>} ELSE @,
                                           !.unknown = IF last THEN @ \union Unreached(f, pushed.asm) ELSE @],
                              f, pushed.done)
       IN  /\ scan' = Overflown(counted)
           /\ at' = IF last THEN FirstFrom(f + 1) ELSE <<f, k + 1>>
    /\ UNCHANGED <<phase, pass, known, wanted, loaded, previous, solved, worldVars, wasLost>>

Certain == scan.missing \union Absent
Damaged == Certain \union scan.unknown

\* The pass is over: intact, solved, given up, failed, or another one.
ScanEnds ==
    /\ phase = "scan" /\ at[1] > Len(Piece)
    /\ LET solvable == scan.solver /\ Cardinality(Damaged) <= loaded.kept
           hopeless == Exhausted /\ Cardinality(Certain) > loaded.kept
           again == ~Exhausted /\ ~BudgetBound /\ pass < MaxPasses
       IN  IF Damaged = {} \/ solvable \/ ~again
           THEN /\ phase' = IF Damaged = {} THEN "intact" ELSE IF solvable THEN "patch"
                            ELSE IF hopeless THEN "unrepairable" ELSE "failed"
                /\ known' = IF hopeless THEN Certain ELSE known
                /\ solved' = IF solvable /\ Damaged # {}
                             THEN [damage |-> Damaged, good |-> scan.good, left |-> scan.holes]
                             ELSE solved
                /\ UNCHANGED <<pass, wanted, loaded>>
           ELSE /\ StartRepairPass(Certain, Cardinality(Damaged) + ExtraRows)
                /\ pass' = pass + 1
                /\ UNCHANGED solved
    /\ UNCHANGED <<previous, scan, at, worldVars, wasLost>>

\* The patch of one hole; one that cannot be stored fails the attempt and
\* those before it stay.
StorePatch(stored) ==
    /\ phase = "patch" /\ solved.left # {}
    /\ LET hole == CHOOSE h \in solved.left : \A g \in solved.left :
                        h[1] < g[1] \/ (h[1] = g[1] /\ h[2] <= g[2])
           article == Piece[hole[1]].articles[hole[2]]
       IN  IF SlicesOf(hole[1], article.offset, article.len) \subseteq solved.damage /\ stored
           THEN /\ patched' = patched \union {article.id}
                /\ solved' = [solved EXCEPT !.left = @ \ {hole}]
                /\ UNCHANGED phase
           ELSE phase' = "failed" /\ UNCHANGED <<patched, solved>>
    /\ UNCHANGED <<pass, known, wanted, loaded, previous, scan, at, articles, confirmed, changes,
                   wasLost>>

PatchesStored ==
    /\ phase = "patch" /\ solved.left = {}
    /\ phase' = "repaired"
    /\ UNCHANGED <<pass, known, wanted, loaded, previous, scan, at, solved, worldVars, wasLost>>

-----------------------------------------------------------------------------
(* Meanwhile.                                                               *)

Change(a, state, holes, kept) ==
    /\ changes < MaxChanges
    /\ changes' = changes + 1
    /\ articles' = [articles EXCEPT ![a] = state]
    /\ confirmed' = holes
    /\ patched' = kept
    /\ wasLost' = wasLost \union (holes \ kept)
    /\ UNCHANGED attemptVars

Lose(a) == articles[a] # "gone" /\ Change(a, "gone", confirmed, patched)
Fails(a) == articles[a] = "there" /\ Change(a, "down", confirmed, patched)
\* An article that is read again is no hole.
Return(a) == articles[a] # "there" /\ Change(a, "there", confirmed \ {a}, patched)
Confirm(a) == articles[a] = "gone" /\ a \notin confirmed /\ Change(a, "gone", confirmed \union {a}, patched)
Evict(a) == a \in patched /\ Change(a, articles[a], confirmed, patched \ {a})

RepairInit ==
    /\ phase = "plan" /\ pass = 0 /\ known = {} /\ wanted = 0
    /\ loaded = [kept |-> 0, next |-> 1, whole |-> TRUE]
    /\ previous = 0 /\ scan = FreshScan /\ at = <<1, 1>>
    /\ solved = [damage |-> {}, good |-> {}, left |-> {}]
    /\ articles \in [SetArticles -> {"there", "gone", "wrong"}]
    /\ confirmed \in SUBSET {a \in SetArticles : articles[a] = "gone"}
    /\ patched \in SUBSET confirmed
    /\ changes = 0
    /\ wasLost = confirmed \ patched

RepairNext ==
    \/ Plan \/ RowsLoaded \/ ScanEnds \/ PatchesStored
    \/ \E read \in 0..RowBudget, toEnd \in BOOLEAN : ReadVolume(read, toEnd)
    \/ \E whole \in BOOLEAN : ScanArticle(whole)
    \/ \E stored \in BOOLEAN : StorePatch(stored)
    \/ \E a \in SetArticles : Lose(a) \/ Fails(a) \/ Return(a) \/ Confirm(a) \/ Evict(a)

RepairAttemptSpec == RepairInit /\ [][RepairNext]_repairVars

-----------------------------------------------------------------------------
(* Correctness.                                                             *)

AllRows == MapThenSumSet(LAMBDA v : VolumeRows[v], DOMAIN VolumeRows)

(* A release is given up only when it is: no volume was cut short, and the   *)
(* slices of files it does not carry and of articles that were confirmed     *)
(* holes with no patch are more than all the good rows of all volumes.       *)
GivenUpIsHopeless ==
    phase = "unrepairable" =>
        /\ Cardinality(known) > AllRows
        /\ known \subseteq Absent \union UNION {
                UNION {SlicesOf(f, Piece[f].articles[k].offset, Piece[f].articles[k].len) :
                        k \in {n \in DOMAIN Piece[f].articles : Piece[f].articles[n].id \in wasLost}} :
                    f \in CarriedFiles}

(* What is solved is a whole system: each slice of the set is damaged, and   *)
(* has a row, or was read and verified, in one pass; and every hole that is  *)
(* patched lies in slices that were solved.                                  *)
SolvesWholeSystem ==
    phase \in {"patch", "repaired"} =>
        /\ solved.damage \union solved.good = AllSlices
        /\ solved.damage \intersect solved.good = {}
        /\ Cardinality(solved.damage) <= loaded.kept
        /\ \A h \in solved.left :
             LET article == Piece[h[1]].articles[h[2]]
             IN  SlicesOf(h[1], article.offset, article.len) \subseteq solved.damage
=============================================================================
