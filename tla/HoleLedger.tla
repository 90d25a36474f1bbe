----------------------------- MODULE HoleLedger -----------------------------
(***************************************************************************)
(* The in-memory hole ledger of nzbdav-stream/src/holes.rs, its persisted  *)
(* copy in the patch store (PatchStore::record_holes) and the restore of a *)
(* new process (UsenetArticleProvider::restore_holes).                     *)
(*                                                                         *)
(* Every operation runs under the ledger's lock and is one step.  Time is  *)
(* the age of what is on record: first_refused_at of a provisional hole,   *)
(* expires_at - ttl of a confirmed one.  The LRU counter of a record is    *)
(* the set of the records used before it.                                  *)
(***************************************************************************)
EXTENDS Naturals, FiniteSets, Functions

CONSTANTS
    Message,          \* articles
    Repaired,         \* the articles of each release under repair
    Server,           \* servers a fetch may have been configured with
    ConfirmAfter,     \* confirm_after
    ProvisionalTtl,   \* provisional_ttl
    Ttl,              \* ttl
    Grace,            \* EXPIRED_GRACE
    ClaimTimeout,     \* REPROBE_CLAIM_TIMEOUT
    SweepInterval,    \* SWEEP_INTERVAL
    Capacity          \* capacity, at least 1 by with_capacity

ASSUME LedgerAssumption ==
    /\ IsFiniteSet(Message)
    /\ Repaired \subseteq SUBSET Message
    /\ {ConfirmAfter, ProvisionalTtl, Ttl, Grace, ClaimTimeout, SweepInterval} \subseteq Nat
    /\ ConfirmAfter < ProvisionalTtl
    /\ Capacity \in Nat \ {0}

VARIABLES
    holes,      \* Inner::holes, a function on the articles on record
    older,      \* per record, the records whose touched is lower
    sweepIn,    \* time left until next_sweep
    stored,     \* the holes kept by the patch store
    restoring,  \* stored holes a new process has yet to hand back
    heard,      \* what the servers really said of each article
    restored    \* records that came from restore

ledgerVars == <<holes, older, sweepIn, stored, restoring>>
vars == <<ledgerVars, heard, restored>>

HoleState == {"Provisional", "Confirmed"}
Evidence == {"none", "Refused", "Transport"}

Entry == [state : HoleState, evidence : [Server -> Evidence], age : Nat,
          print : SUBSET Server, claim : Nat]

\* confirmed: ever; ago: time since the last confirmation; refusers, waited:
\* who refused since the article was last there, and since when.
Heard == [refusers : SUBSET Server, waited : Nat, confirmed : BOOLEAN, ago : Nat]

OnRecord == DOMAIN holes

TypeOK ==
    /\ holes \in [OnRecord -> Entry]
    /\ OnRecord \subseteq Message
    /\ older \in [Message -> SUBSET Message]
    /\ sweepIn \in 0..SweepInterval
    /\ DOMAIN stored \subseteq Message
    /\ stored \in [DOMAIN stored -> Entry]
    /\ restoring \subseteq DOMAIN stored
    /\ heard \in [Message -> Heard]
    /\ restored \subseteq OnRecord
    /\ \A m \in OnRecord : m \notin older[m] /\ older[m] \subseteq OnRecord

-----------------------------------------------------------------------------
(* Entry.                                                                   *)

Lesser(a, b) == IF a < b THEN a ELSE b

Expired(e) == e.state = "Confirmed" /\ e.age >= Ttl

Lapsed(e) == IF e.state = "Provisional" THEN e.age >= ProvisionalTtl
             ELSE e.age >= Ttl + Grace

NewEntry(S) == [state |-> "Provisional", evidence |-> [s \in Server |-> "none"],
                age |-> 0, print |-> S, claim |-> 0]

\* Mutant of Refuse: two refusals in a row confirm at once.
RefuseTwice(e, s, S) ==
    LET seen == [e EXCEPT !.evidence[s] = "Refused"]
        all_refused == S # {} /\ \A x \in S : seen.evidence[x] = "Refused"
    IN  IF e.state = "Provisional" /\ all_refused /\ e.evidence[s] = "Refused"
        THEN [seen EXCEPT !.state = "Confirmed", !.age = 0, !.claim = 0]
        ELSE seen

\* A refusal on a live record; S is every server the caller could have used.
Refuse(e, s, S) ==
    LET seen == [e EXCEPT !.evidence[s] = "Refused"]
        all_refused == S # {} /\ \A x \in S : seen.evidence[x] = "Refused"
    IN  IF e.state = "Provisional" /\ all_refused /\ e.age >= ConfirmAfter
        THEN [seen EXCEPT !.state = "Confirmed", !.age = 0, !.claim = 0]
        ELSE seen

\* A record no conclusive outcome from the servers S can build on.
Void(m, S) ==
    m \in OnRecord => Lapsed(holes[m]) \/ Expired(holes[m]) \/ holes[m].print # S

-----------------------------------------------------------------------------
(* The map: keep, touch and evict.                                          *)

Keep(K) ==
    /\ holes' = Restrict(holes, K)
    /\ older' = [m \in Message |-> IF m \in K THEN older[m] \intersect K ELSE {}]

\* Keep K and put record e of m with them, the last used of all.
PutLast(K, m, e) ==
    /\ holes' = [x \in K \union {m} |-> IF x = m THEN e ELSE holes[x]]
    /\ older' = [x \in Message |-> IF x = m THEN K \ {m}
                                   ELSE IF x \in K THEN (older[x] \intersect K) \ {m} ELSE {}]

SweepDue(R) == Cardinality(R) >= Capacity \/ sweepIn = 0

AfterSweep(R) == IF SweepDue(R) THEN {m \in R : ~Lapsed(holes[m])} ELSE R

KeptWhenFull == Lesser((Capacity * 9) \div 10, Capacity - 1)

\* Mutant of MakesRoom: room is made only beyond the capacity.
MakesRoomLate(R, K) ==
    /\ sweepIn' = IF SweepDue(R) THEN SweepInterval ELSE sweepIn
    /\ IF Cardinality(AfterSweep(R)) <= Capacity THEN K = AfterSweep(R)
       ELSE /\ K \subseteq AfterSweep(R)
            /\ Cardinality(K) = KeptWhenFull
            /\ \A m \in K, d \in AfterSweep(R) \ K : d \in older[m]

\* make_room keeps K of the records R: all that are left after the sweep, or
\* the most recently used of them.
MakesRoom(R, K) ==
    /\ sweepIn' = IF SweepDue(R) THEN SweepInterval ELSE sweepIn
    /\ IF Cardinality(AfterSweep(R)) < Capacity THEN K = AfterSweep(R)
       ELSE /\ K \subseteq AfterSweep(R)
            /\ Cardinality(K) = KeptWhenFull
            /\ \A m \in K, d \in AfterSweep(R) \ K : d \in older[m]

-----------------------------------------------------------------------------
(* note.                                                                    *)

Running == restoring = {}

HearRefusal(m, s, e) ==
    heard' = [heard EXCEPT ![m] =
        [refusers |-> @.refusers \union {s}, waited |-> @.waited,
         confirmed |-> @.confirmed \/ e.state = "Confirmed",
         ago |-> IF e.state = "Confirmed" /\ (Void(m, e.print) \/ holes[m].state = "Provisional")
                 THEN 0 ELSE @.ago]]

\* A refusal that starts a record.
NoteFirstRefusal(m, s, S) ==
    LET e == Refuse(NewEntry(S), s, S) IN
    /\ Running /\ s \in S
    /\ Void(m, S)
    /\ \E K \in SUBSET (OnRecord \ {m}) :
        /\ MakesRoom(OnRecord \ {m}, K)
        /\ PutLast(K, m, e)
        /\ restored' = restored \intersect K
    /\ HearRefusal(m, s, e)
    /\ UNCHANGED <<stored, restoring>>

\* A refusal on a record that stands.
NoteRefusal(m, s, S) ==
    /\ Running /\ s \in S
    /\ ~Void(m, S)
    /\ PutLast(OnRecord, m, Refuse(holes[m], s, S))
    /\ HearRefusal(m, s, Refuse(holes[m], s, S))
    /\ UNCHANGED <<sweepIn, stored, restoring, restored>>

\* Mutant of NotePresent: a confirmed hole stays.
NotePresentOfProvisional(m) ==
    /\ Running
    /\ Keep({x \in OnRecord : x = m => holes[x].state = "Confirmed"})
    /\ heard' = [heard EXCEPT ![m] = [@ EXCEPT !.refusers = {}, !.waited = 0]]
    /\ restored' = restored \ {m}
    /\ UNCHANGED <<sweepIn, stored, restoring>>

NotePresent(m) ==
    /\ Running
    /\ Keep(OnRecord \ {m})
    /\ heard' = [heard EXCEPT ![m] = [@ EXCEPT !.refusers = {}, !.waited = 0]]
    /\ restored' = restored \ {m}
    /\ UNCHANGED <<sweepIn, stored, restoring>>

\* Inconclusive: marks the server, frees a re-probe claim; a lapsed record
\* goes, whatever the outcome.
NoteTransport(m, s) ==
    /\ Running
    /\ IF m \in OnRecord /\ ~Lapsed(holes[m])
       THEN /\ PutLast(OnRecord, m, [holes[m] EXCEPT !.evidence[s] = "Transport", !.claim = 0])
            /\ UNCHANGED restored
       ELSE /\ Keep(OnRecord \ {m})
            /\ restored' = restored \ {m}
    /\ UNCHANGED <<sweepIn, stored, restoring, heard>>

-----------------------------------------------------------------------------
(* consult and holes.                                                       *)

\* What consult answers to a caller with the servers S.
Advice(m, S) ==
    IF m \notin OnRecord \/ holes[m].print # S \/ Lapsed(holes[m]) THEN "Fetch"
    ELSE IF holes[m].state = "Provisional" THEN "Provisional"
    ELSE IF Expired(holes[m]) /\ holes[m].claim = 0 THEN "Reprobe" ELSE "Skip"

\* A claim on a record another caller has to leave alone for ClaimTimeout.
Consult(m, S) ==
    /\ Running
    /\ m \in OnRecord
    /\ CASE Advice(m, S) = "Fetch" ->
              Keep(OnRecord \ {m}) /\ restored' = restored \ {m}
         [] Advice(m, S) = "Reprobe" ->
              PutLast(OnRecord, m, [holes[m] EXCEPT !.claim = ClaimTimeout]) /\ UNCHANGED restored
         [] OTHER -> PutLast(OnRecord, m, holes[m]) /\ UNCHANGED restored
    /\ UNCHANGED <<sweepIn, stored, restoring, heard>>

Alive == {m \in OnRecord : ~Lapsed(holes[m])}

\* StoredHole has no claim.
Unclaimed(e) == [e EXCEPT !.claim = 0]

\* The repair job lists the holes, which sweeps them, and records those of
\* its articles M that are confirmed.
RecordHoles(M) ==
    LET saved == {m \in M \intersect Alive : holes[m].state = "Confirmed"} IN
    /\ Running
    /\ Keep(Alive)
    /\ restored' = restored \intersect Alive
    /\ sweepIn' = SweepInterval
    /\ stored' = [m \in saved \union DOMAIN stored |->
                      IF m \in saved THEN Unclaimed(holes[m]) ELSE stored[m]]
    /\ UNCHANGED <<restoring, heard>>

-----------------------------------------------------------------------------
(* A new process, and time.                                                 *)

Restart ==
    /\ Running
    /\ holes' = Restrict(holes, {})
    /\ older' = [m \in Message |-> {}]
    /\ sweepIn' = 0
    /\ restoring' = DOMAIN stored
    /\ restored' = {}
    /\ UNCHANGED <<stored, heard>>

\* Mutant of RestoredEntry: the TTL starts over with the process.
RestoredEntryAnew(m) == [stored[m] EXCEPT !.age = 0]

RestoredEntry(m) == Unclaimed(stored[m])

\* restore of one stored hole.
RestoreOne(m) ==
    /\ m \in restoring
    /\ restoring' = restoring \ {m}
    /\ IF Expired(stored[m]) \/ m \in OnRecord
       THEN UNCHANGED <<holes, older, sweepIn, restored>>
       ELSE \E K \in SUBSET OnRecord :
                /\ MakesRoom(OnRecord, K)
                /\ PutLast(K, m, RestoredEntry(m))
                /\ restored' = (restored \intersect K) \union {m}
    /\ UNCHANGED <<stored, heard>>

\* The ages a record tells apart end where it lapses.
Older(e) == IF Lapsed(e) THEN e
            ELSE [e EXCEPT !.age = @ + 1, !.claim = IF @ > 0 THEN @ - 1 ELSE 0]

Tick ==
    /\ Running
    /\ holes' = [m \in OnRecord |-> Older(holes[m])]
    /\ stored' = [m \in DOMAIN stored |-> Older(stored[m])]
    /\ sweepIn' = IF sweepIn > 0 THEN sweepIn - 1 ELSE 0
    /\ heard' = [m \in Message |->
           [heard[m] EXCEPT
               !.waited = IF heard[m].refusers = {} THEN 0 ELSE Lesser(@ + 1, ConfirmAfter),
               !.ago = IF heard[m].confirmed THEN Lesser(@ + 1, Ttl + Grace) ELSE 0]]
    /\ UNCHANGED <<older, restoring, restored>>

-----------------------------------------------------------------------------
Init ==
    /\ holes = [m \in {} |-> NewEntry({})]
    /\ older = [m \in Message |-> {}]
    /\ sweepIn = 0
    /\ stored = [m \in {} |-> NewEntry({})]
    /\ restoring = {}
    /\ heard = [m \in Message |-> [refusers |-> {}, waited |-> 0, confirmed |-> FALSE, ago |-> 0]]
    /\ restored = {}

Next ==
    \/ \E m \in Message, S \in SUBSET Server :
        \/ Consult(m, S)
        \/ \E s \in S : NoteFirstRefusal(m, s, S) \/ NoteRefusal(m, s, S)
    \/ \E m \in Message :
        \/ NotePresent(m)
        \/ \E s \in Server : NoteTransport(m, s)
        \/ RestoreOne(m)
    \/ \E M \in Repaired : RecordHoles(M)
    \/ Restart
    \/ Tick

Spec == Init /\ [][Next]_vars

-----------------------------------------------------------------------------
(* Correctness.                                                             *)

(* The ledger is bounded, through every insertion and restore.              *)
Bounded == Cardinality(OnRecord) <= Capacity

(* A caller is told not to fetch only if every one of its servers refused   *)
(* the article since it was last there, and the first of those refusals is  *)
(* at least the confirm delay old; a restored hole brings its evidence.     *)
SkipIsJustified ==
    \A m \in Message, S \in SUBSET Server :
        Advice(m, S) = "Skip" /\ m \notin restored =>
            S \subseteq heard[m].refusers /\ heard[m].waited >= ConfirmAfter

(* A hole is believed for the TTL after it was really confirmed, and only   *)
(* while another caller re-probes it for the grace after that, whatever     *)
(* restarts, restores and later refusals come in between.                   *)
SkipIsFresh ==
    \A m \in Message, S \in SUBSET Server :
        Advice(m, S) = "Skip" =>
            /\ heard[m].confirmed
            /\ heard[m].ago < IF holes[m].claim > 0 THEN Ttl + Grace ELSE Ttl
=============================================================================
