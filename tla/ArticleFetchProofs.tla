------------------------- MODULE ArticleFetchProofs --------------------------
(***************************************************************************)
(* Proofs about HoleLedger, for any articles, servers, times and capacity, *)
(* and about ArticleFetch: the fetches use the ledger only as it allows    *)
(* (so that what is proved of the ledger holds of them), and an article    *)
(* has one confirm, which is registered while a task is at it.             *)
(***************************************************************************)
EXTENDS ArticleFetch, FiniteSetTheorems, SequenceTheorems, TLAPS

(* The records on a subset of the articles are finitely many.               *)
LEMMA RecordsFinite ==
    ASSUME NEW K \in SUBSET Message
    PROVE  IsFiniteSet(K) /\ Cardinality(K) \in Nat
BY FS_Subset, FS_CardinalityType, LedgerAssumption

(* make_room leaves a place: fewer records than the capacity stay, all of   *)
(* them from before.                                                        *)
LEMMA RoomIsMade ==
    ASSUME NEW R \in SUBSET Message, NEW K, MakesRoom(R, K)
    PROVE  /\ K \subseteq R
           /\ Cardinality(K) < Capacity
<1>1. AfterSweep(R) \subseteq R
  BY DEF AfterSweep
<1>2. CASE Cardinality(AfterSweep(R)) < Capacity
  BY <1>1, <1>2 DEF MakesRoom
<1>3. CASE ~(Cardinality(AfterSweep(R)) < Capacity)
  <2>1. K \subseteq AfterSweep(R) /\ Cardinality(K) = KeptWhenFull
    BY <1>3 DEF MakesRoom
  <2>2. KeptWhenFull < Capacity
    BY LedgerAssumption DEF KeptWhenFull, Lesser
  <2> QED
    BY <1>1, <2>1, <2>2
<1> QED
  BY <1>2, <1>3

(* A refusal leaves a record a record, of the same servers.                 *)
LEMMA RefuseType ==
    ASSUME NEW e \in Entry, NEW s \in Server, NEW S \in SUBSET Server
    PROVE  /\ Refuse(e, s, S) \in Entry
           /\ Refuse(e, s, S).print = e.print
<1> DEFINE seen == [e EXCEPT !.evidence[s] = "Refused"]
<1>1. seen \in Entry /\ seen.print = e.print
  BY DEF Entry, Evidence
<1>2. [seen EXCEPT !.state = "Confirmed", !.age = 0, !.claim = 0] \in Entry
  BY <1>1 DEF Entry, HoleState
<1> QED
  BY <1>1, <1>2 DEF Refuse, Entry

(* A record is built from the servers of the caller.                        *)
LEMMA NewEntryType ==
    ASSUME NEW S \in SUBSET Server
    PROVE  NewEntry(S) \in Entry /\ NewEntry(S).print = S
BY DEF NewEntry, Entry, HoleState, Evidence

-----------------------------------------------------------------------------
(* The two ways an operation changes the map.                               *)

Records ==
    /\ holes \in [OnRecord -> Entry]
    /\ OnRecord \subseteq Message
    /\ older \in [Message -> SUBSET Message]
    /\ \A m \in OnRecord : m \notin older[m] /\ older[m] \subseteq OnRecord

(* Dropping records leaves a smaller map.                                   *)
LEMMA KeepRecords ==
    ASSUME Records, NEW K \in SUBSET OnRecord, Keep(K)
    PROVE  /\ Records' /\ OnRecord' = K
           /\ \A x \in K : holes'[x] = holes[x]
BY DEF Records, Keep, OnRecord, Restrict

(* Putting a record last leaves it and the kept ones.                       *)
LEMMA PutLastRecords ==
    ASSUME Records, NEW K \in SUBSET OnRecord, NEW m \in Message, NEW e \in Entry,
           PutLast(K, m, e)
    PROVE  /\ Records' /\ OnRecord' = K \union {m}
           /\ holes'[m] = e
           /\ \A x \in K \ {m} : holes'[x] = holes[x]
<1>1. OnRecord' = K \union {m}
  BY DEF PutLast, OnRecord
<1>2. holes' \in [K \union {m} -> Entry]
  BY DEF PutLast, Records
<1>3. older' \in [Message -> SUBSET Message]
  BY DEF PutLast, Records
<1>4. \A x \in OnRecord' : x \notin older'[x] /\ older'[x] \subseteq OnRecord'
  BY <1>1 DEF PutLast, Records
<1> QED
  BY <1>1, <1>2, <1>3, <1>4 DEF PutLast, Records

-----------------------------------------------------------------------------
(* The invariant.  A confirmed hole is as old as its confirmation, or older *)
(* when the article was confirmed again since; a stored hole too.  A record *)
(* of this process is backed by what the servers said since the article was *)
(* last there, for as long as its age says.                                 *)

Fresh(m, e) == e.state = "Confirmed" => heard[m].confirmed /\ heard[m].ago <= e.age

Backed(m, e) ==
    /\ \A s \in Server : e.evidence[s] = "Refused" => s \in heard[m].refusers
    /\ heard[m].refusers # {}
    /\ e.state = "Provisional" => Lesser(e.age, ConfirmAfter) <= heard[m].waited
    /\ e.state = "Confirmed" => /\ ConfirmAfter <= heard[m].waited
                                /\ e.print \subseteq heard[m].refusers

HolesFresh == \A m \in OnRecord : Fresh(m, holes[m])
StoredFresh == \A m \in DOMAIN stored : Fresh(m, stored[m])
HolesBacked == \A m \in OnRecord \ restored : Backed(m, holes[m])

LedgerInv ==
    /\ TypeOK
    /\ Bounded
    /\ HolesFresh
    /\ StoredFresh
    /\ HolesBacked

(* A new ledger is empty.                                                   *)
LEMMA LedgerInit == Init => LedgerInv
<1> SUFFICES ASSUME Init PROVE LedgerInv
  OBVIOUS
<1>1. OnRecord = {} /\ DOMAIN stored = {}
  BY DEF Init, OnRecord
<1>2. TypeOK
  BY <1>1, LedgerAssumption DEF Init, TypeOK, Heard
<1>3. Bounded
  BY <1>1, FS_EmptySet, LedgerAssumption DEF Bounded
<1> QED
  BY <1>1, <1>2, <1>3 DEF LedgerInv, HolesFresh, StoredFresh, HolesBacked

(* Fewer records than the capacity and one more are no more than that.      *)
LEMMA OneMoreFits ==
    ASSUME NEW K \in SUBSET Message, Cardinality(K) < Capacity, NEW m
    PROVE  Cardinality(K \union {m}) <= Capacity
BY RecordsFinite, FS_AddElement, LedgerAssumption

(* Dropping records keeps the ledger bounded.                               *)
LEMMA KeepBounded ==
    ASSUME Records, Bounded, NEW K \in SUBSET OnRecord, OnRecord' = K
    PROVE  Bounded'
<1>1. IsFiniteSet(OnRecord) /\ Cardinality(OnRecord) \in Nat
  BY RecordsFinite DEF Records
<1>2. Cardinality(K) <= Cardinality(OnRecord)
  BY <1>1, FS_Subset
<1>3. Cardinality(K) \in Nat
  BY RecordsFinite DEF Records
<1> QED
  BY <1>1, <1>2, <1>3, LedgerAssumption DEF Bounded

(* What the refusal of a server adds to what was heard.                     *)
LEMMA RefusalHeard ==
    ASSUME TypeOK, NEW m \in Message, NEW s \in Server, NEW e \in Entry, HearRefusal(m, s, e)
    PROVE  /\ heard' \in [Message -> Heard]
           /\ \A x \in Message \ {m} : heard'[x] = heard[x]
           /\ heard'[m].refusers = heard[m].refusers \union {s}
           /\ heard'[m].waited = heard[m].waited
           /\ (heard[m].confirmed \/ e.state = "Confirmed") => heard'[m].confirmed
           /\ heard'[m].ago =
                  IF e.state = "Confirmed" /\ (Void(m, e.print) \/ holes[m].state = "Provisional")
                  THEN 0 ELSE heard[m].ago
BY DEF TypeOK, HearRefusal, Heard

(* A refusal keeps the evidence, adds the server's, and confirms a record   *)
(* only when all servers S refused and the confirm delay is over.           *)
LEMMA RefuseCases ==
    ASSUME NEW e \in Entry, NEW s \in Server, NEW S \in SUBSET Server
    PROVE  LET n == Refuse(e, s, S) IN
           /\ \A x \in Server : n.evidence[x] = "Refused" => x = s \/ e.evidence[x] = "Refused"
           /\ \/ n.state = e.state /\ n.age = e.age
              \/ /\ e.state = "Provisional" /\ n.state = "Confirmed" /\ n.age = 0
                 /\ ConfirmAfter <= e.age
                 /\ \A x \in S : n.evidence[x] = "Refused"
<1> DEFINE seen == [e EXCEPT !.evidence[s] = "Refused"]
           conf == [seen EXCEPT !.state = "Confirmed", !.age = 0, !.claim = 0]
<1>1. /\ seen.state = e.state /\ seen.age = e.age
      /\ \A x \in Server : seen.evidence[x] = IF x = s THEN "Refused" ELSE e.evidence[x]
  BY DEF Entry, Evidence
<1>2. conf.state = "Confirmed" /\ conf.age = 0 /\ conf.evidence = seen.evidence
  BY DEF Entry, Evidence
<1> HIDE DEF seen, conf
<1>3. Refuse(e, s, S) = seen
      \/ /\ Refuse(e, s, S) = conf /\ e.state = "Provisional" /\ ConfirmAfter <= e.age
         /\ \A x \in S : seen.evidence[x] = "Refused"
  BY LedgerAssumption DEF seen, conf, Refuse, Entry
<1> QED
  BY <1>1, <1>2, <1>3

-----------------------------------------------------------------------------
(* One lemma per operation.                                                 *)

(* The part of TypeOK that is about the map.                                *)
LEMMA TypeRecords == TypeOK => Records
BY DEF TypeOK, Records

(* A refusal that starts a record evicts for it, and says what was heard.   *)
LEMMA FirstRefusalPreserves ==
    ASSUME LedgerInv, NEW m \in Message, NEW S \in SUBSET Server, NEW s \in S,
           NoteFirstRefusal(m, s, S)
    PROVE  LedgerInv'
<1> DEFINE e == Refuse(NewEntry(S), s, S)
<1>1. PICK K \in SUBSET (OnRecord \ {m}) :
        MakesRoom(OnRecord \ {m}, K) /\ PutLast(K, m, e) /\ restored' = restored \intersect K
  BY DEF NoteFirstRefusal
<1>2. Records /\ OnRecord \subseteq Message /\ K \subseteq OnRecord
  BY TypeRecords DEF LedgerInv, Records
<1>3. e \in Entry /\ e.print = S
  BY RefuseType, NewEntryType
<1>4. /\ Records' /\ OnRecord' = K \union {m} /\ holes'[m] = e
      /\ \A x \in K \ {m} : holes'[x] = holes[x]
  BY <1>1, <1>2, <1>3, PutLastRecords
<1>5. UNCHANGED <<stored, restoring>> /\ HearRefusal(m, s, e) /\ Void(m, S)
  BY DEF NoteFirstRefusal
<1>6. /\ heard' \in [Message -> Heard]
      /\ \A x \in Message \ {m} : heard'[x] = heard[x]
      /\ heard'[m].refusers = heard[m].refusers \union {s}
      /\ heard'[m].waited = heard[m].waited
      /\ (heard[m].confirmed \/ e.state = "Confirmed") => heard'[m].confirmed
      /\ heard'[m].ago = IF e.state = "Confirmed" THEN 0 ELSE heard[m].ago
  BY <1>3, <1>5, RefusalHeard DEF LedgerInv
<1>7. TypeOK'
  <2>1. sweepIn' \in 0..SweepInterval
    BY <1>1, LedgerAssumption DEF MakesRoom, LedgerInv, TypeOK
  <2> QED
    BY <1>1, <1>4, <1>5, <1>6, <2>1 DEF LedgerInv, TypeOK, Records
<1>8. Bounded'
  <2>1. K \in SUBSET Message /\ Cardinality(K) < Capacity
    BY <1>1, <1>2, RoomIsMade
  <2> QED
    BY <1>4, <2>1, OneMoreFits DEF Bounded
<1>9. HolesFresh' /\ StoredFresh'
  <2>1. e.age \in Nat /\ heard[m] \in Heard
    BY <1>3 DEF Entry, LedgerInv, TypeOK
  <2>2. \A x \in DOMAIN stored : stored[x].age \in Nat /\ x \in Message
    BY DEF LedgerInv, TypeOK, Entry
  <2>3. Fresh(m, e)'
    <3>1. CASE e.state = "Confirmed"
      BY <1>6, <2>1, <3>1 DEF Fresh
    <3> QED
      BY <3>1 DEF Fresh
  <2>4. HolesFresh'
    BY <1>2, <1>4, <1>6, <2>3 DEF LedgerInv, HolesFresh, Fresh
  <2>5. StoredFresh'
    BY <1>5, <1>6, <2>1, <2>2 DEF LedgerInv, StoredFresh, Fresh
  <2> QED
    BY <2>4, <2>5
<1>10. HolesBacked'
  <2>1. NewEntry(S) \in Entry /\ NewEntry(S).age = 0
        /\ \A x \in Server : NewEntry(S).evidence[x] # "Refused"
    BY NewEntryType DEF NewEntry
  <2>2. heard[m].waited \in Nat /\ ConfirmAfter \in Nat
    BY LedgerAssumption DEF LedgerInv, TypeOK, Heard
  <2>3. /\ \A x \in Server : e.evidence[x] = "Refused" => x = s
        /\ \/ e.state = "Provisional" /\ e.age = 0
           \/ /\ e.state = "Confirmed" /\ e.age = 0 /\ ConfirmAfter <= 0
              /\ \A x \in S : e.evidence[x] = "Refused"
    BY <2>1, RefuseCases DEF NewEntry
  <2> HIDE DEF e
  <2>4. Backed(m, e)'
    BY <1>3, <1>6, <2>2, <2>3 DEF Backed, Lesser
  <2> QED
    BY <1>1, <1>2, <1>4, <1>6, <2>4 DEF LedgerInv, HolesBacked, Backed
<1> QED
  BY <1>7, <1>8, <1>9, <1>10 DEF LedgerInv

(* A refusal on a record that stands, and confirms it at most once.         *)
LEMMA RefusalPreserves ==
    ASSUME LedgerInv, NEW m \in Message, NEW S \in SUBSET Server, NEW s \in S,
           NoteRefusal(m, s, S)
    PROVE  LedgerInv'
<1>1. m \in OnRecord /\ holes[m].print = S /\ ~Void(m, S)
  BY DEF NoteRefusal, Void
<1>2. Records /\ OnRecord \subseteq Message /\ holes[m] \in Entry
  BY <1>1, TypeRecords DEF LedgerInv, Records
<1>3. PICK e : e = Refuse(holes[m], s, S)
  OBVIOUS
<1>4. e \in Entry /\ e.print = S
  BY <1>1, <1>2, <1>3, RefuseType
<1>5. PutLast(OnRecord, m, e) /\ HearRefusal(m, s, e)
      /\ UNCHANGED <<sweepIn, stored, restoring, restored>>
  BY <1>3 DEF NoteRefusal
<1>6. /\ \A x \in Server : e.evidence[x] = "Refused" => x = s \/ holes[m].evidence[x] = "Refused"
      /\ \/ e.state = holes[m].state /\ e.age = holes[m].age
         \/ /\ holes[m].state = "Provisional" /\ e.state = "Confirmed" /\ e.age = 0
            /\ ConfirmAfter <= holes[m].age
            /\ \A x \in S : e.evidence[x] = "Refused"
  BY <1>2, <1>3, RefuseCases
<1>7. /\ Records' /\ OnRecord' = OnRecord /\ holes'[m] = e
      /\ \A x \in OnRecord \ {m} : holes'[x] = holes[x]
  BY <1>1, <1>2, <1>4, <1>5, PutLastRecords
<1>8. /\ heard' \in [Message -> Heard]
      /\ \A x \in Message \ {m} : heard'[x] = heard[x]
      /\ heard'[m].refusers = heard[m].refusers \union {s}
      /\ heard'[m].waited = heard[m].waited
      /\ heard[m].confirmed \/ e.state = "Confirmed" => heard'[m].confirmed
      /\ heard'[m].ago = IF e.state = "Confirmed" /\ holes[m].state = "Provisional"
                         THEN 0 ELSE heard[m].ago
  BY <1>1, <1>4, <1>5, RefusalHeard DEF LedgerInv
<1>9. TypeOK'
  BY <1>5, <1>7, <1>8 DEF LedgerInv, TypeOK, Records
<1>10. Bounded'
  BY <1>7 DEF LedgerInv, Bounded
<1>11. HolesFresh' /\ StoredFresh'
  <2>1. /\ e.age \in Nat /\ heard[m] \in Heard /\ heard'[m] \in Heard
        /\ e.state \in HoleState /\ holes[m].state \in HoleState
    BY <1>2, <1>4, <1>8 DEF Entry, LedgerInv, TypeOK
  <2>2. \A x \in DOMAIN stored : stored[x].age \in Nat /\ x \in Message
    BY DEF LedgerInv, TypeOK, Entry
  <2>3. holes[m].state = "Confirmed" => heard[m].confirmed /\ heard[m].ago <= holes[m].age
    BY <1>1 DEF LedgerInv, HolesFresh, Fresh
  <2>4. e.state = "Confirmed" => heard'[m].confirmed /\ heard'[m].ago <= e.age
    BY <1>6, <1>8, <2>1, <2>3 DEF HoleState
  <2>5. HolesFresh'
    BY <1>2, <1>7, <1>8, <2>4 DEF LedgerInv, HolesFresh, Fresh
  <2>6. StoredFresh'
    BY <1>5, <1>8, <2>1, <2>2 DEF LedgerInv, StoredFresh, Fresh
  <2> QED
    BY <2>5, <2>6
<1>12. HolesBacked'
  <2>1. /\ ConfirmAfter \in Nat /\ holes[m].age \in Nat /\ heard[m].waited \in Nat
        /\ heard[m].refusers \in SUBSET Server
        /\ e.state \in HoleState /\ holes[m].state \in HoleState
    BY <1>2, <1>4, LedgerAssumption DEF Entry, LedgerInv, TypeOK, Heard
  <2>2. ASSUME m \notin restored PROVE Backed(m, e)'
    <3>1. Backed(m, holes[m])
      BY <1>1, <2>2 DEF LedgerInv, HolesBacked
    <3>2. \A x \in Server : e.evidence[x] = "Refused" => x \in heard'[m].refusers
      BY <1>6, <1>8, <3>1 DEF Backed
    <3>3. CASE e.state = holes[m].state /\ e.age = holes[m].age
      BY <1>1, <1>4, <1>8, <2>1, <3>1, <3>2, <3>3 DEF Backed
    <3>4. CASE /\ holes[m].state = "Provisional" /\ e.state = "Confirmed"
               /\ ConfirmAfter <= holes[m].age
               /\ \A x \in S : e.evidence[x] = "Refused"
      BY <1>4, <1>8, <2>1, <3>1, <3>2, <3>4 DEF Backed, Lesser
    <3> QED
      BY <1>6, <3>3, <3>4
  <2> QED
    BY <1>2, <1>5, <1>7, <1>8, <2>2 DEF LedgerInv, HolesBacked, Backed
<1> QED
  BY <1>9, <1>10, <1>11, <1>12 DEF LedgerInv

(* Dropping records and what was noted of them, when nothing else was heard *)
(* but of articles that are no longer on record.                            *)
LEMMA DropPreserves ==
    ASSUME LedgerInv, NEW K \in SUBSET OnRecord, Keep(K),
           restored' \subseteq K, restored \intersect K \subseteq restored',
           sweepIn' \in 0..SweepInterval,
           DOMAIN stored' \subseteq Message, stored' \in [DOMAIN stored' -> Entry],
           restoring' \subseteq DOMAIN stored', StoredFresh',
           heard' \in [Message -> Heard],
           \A x \in K : heard'[x] = heard[x]
    PROVE  LedgerInv'
<1>1. Records /\ OnRecord \subseteq Message
  BY TypeRecords DEF LedgerInv, Records
<1>2. Records' /\ OnRecord' = K /\ \A x \in K : holes'[x] = holes[x]
  BY <1>1, KeepRecords
<1>3. TypeOK'
  BY <1>2 DEF TypeOK, Records
<1>4. Bounded'
  BY <1>1, <1>2, KeepBounded DEF LedgerInv
<1>5. HolesFresh'
  BY <1>2 DEF LedgerInv, HolesFresh, Fresh
<1>6. HolesBacked'
  BY <1>2 DEF LedgerInv, HolesBacked, Backed
<1> QED
  BY <1>3, <1>4, <1>5, <1>6 DEF LedgerInv

(* A present answer drops the record, and what refused it counts no more.   *)
LEMMA PresentPreserves ==
    ASSUME LedgerInv, NEW m \in Message, NotePresent(m)
    PROVE  LedgerInv'
<1>1. OnRecord \ {m} \in SUBSET OnRecord
  OBVIOUS
<1>2. heard' \in [Message -> Heard] /\ \A x \in Message \ {m} : heard'[x] = heard[x]
      /\ heard'[m].confirmed = heard[m].confirmed /\ heard'[m].ago = heard[m].ago
  BY DEF NotePresent, LedgerInv, TypeOK, Heard
<1>3. StoredFresh'
  BY <1>2 DEF NotePresent, LedgerInv, TypeOK, StoredFresh, Fresh
<1> QED
  BY <1>1, <1>2, <1>3, DropPreserves DEF NotePresent, LedgerInv, TypeOK

(* Putting a record that differs in its claim and in what did not answer    *)
(* last is a matter of order.                                               *)
LEMMA TouchPreserves ==
    ASSUME LedgerInv, NEW m \in OnRecord, NEW e \in Entry, PutLast(OnRecord, m, e),
           e.state = holes[m].state, e.age = holes[m].age, e.print = holes[m].print,
           \A x \in Server : e.evidence[x] = "Refused" => holes[m].evidence[x] = "Refused",
           UNCHANGED <<sweepIn, stored, restoring, heard, restored>>
    PROVE  LedgerInv'
<1>1. Records /\ OnRecord \subseteq Message
  BY TypeRecords DEF LedgerInv, Records
<1>2. /\ Records' /\ OnRecord' = OnRecord /\ holes'[m] = e
      /\ \A x \in OnRecord \ {m} : holes'[x] = holes[x]
  BY <1>1, PutLastRecords
<1>3. TypeOK'
  BY <1>2 DEF LedgerInv, TypeOK, Records
<1>4. Bounded'
  BY <1>2 DEF LedgerInv, Bounded
<1>5. HolesFresh' /\ StoredFresh'
  BY <1>2 DEF LedgerInv, HolesFresh, StoredFresh, Fresh
<1>6. HolesBacked'
  BY <1>2 DEF LedgerInv, HolesBacked, Backed
<1> QED
  BY <1>3, <1>4, <1>5, <1>6 DEF LedgerInv

(* A server that does not answer refuses nothing.                           *)
LEMMA TransportPreserves ==
    ASSUME LedgerInv, NEW m \in Message, NEW s \in Server, NoteTransport(m, s)
    PROVE  LedgerInv'
<1>1. CASE m \in OnRecord /\ ~Lapsed(holes[m])
  <2>1. PICK e : e = [holes[m] EXCEPT !.evidence[s] = "Transport", !.claim = 0]
    OBVIOUS
  <2>2. holes[m] \in Entry
    BY <1>1 DEF LedgerInv, TypeOK
  <2>3. /\ e \in Entry /\ e.state = holes[m].state /\ e.age = holes[m].age
        /\ e.print = holes[m].print
        /\ \A x \in Server : e.evidence[x] = "Refused" => holes[m].evidence[x] = "Refused"
    BY <2>1, <2>2 DEF Entry, Evidence
  <2>4. PutLast(OnRecord, m, e) /\ UNCHANGED <<sweepIn, stored, restoring, heard, restored>>
    BY <1>1, <2>1 DEF NoteTransport
  <2> QED
    BY <1>1, <2>3, <2>4, TouchPreserves
<1>2. CASE ~(m \in OnRecord /\ ~Lapsed(holes[m]))
  <2>1. Keep(OnRecord \ {m}) /\ restored' = restored \ {m}
        /\ UNCHANGED <<sweepIn, stored, restoring, heard>>
    BY <1>2 DEF NoteTransport
  <2>2. StoredFresh'
    BY <2>1 DEF LedgerInv, StoredFresh, Fresh
  <2> QED
    BY <2>1, <2>2, DropPreserves DEF LedgerInv, TypeOK
<1> QED
  BY <1>1, <1>2

(* consult drops what lapsed, marks a re-probe, or touches.                 *)
LEMMA ConsultPreserves ==
    ASSUME LedgerInv, NEW m \in Message, NEW S \in SUBSET Server, Consult(m, S)
    PROVE  LedgerInv'
<1>1. m \in OnRecord /\ holes[m] \in Entry /\ UNCHANGED <<sweepIn, stored, restoring, heard>>
  BY DEF Consult, LedgerInv, TypeOK
<1>2. CASE Keep(OnRecord \ {m}) /\ restored' = restored \ {m}
  <2>1. StoredFresh'
    BY <1>1 DEF LedgerInv, StoredFresh, Fresh
  <2> QED
    BY <1>1, <1>2, <2>1, DropPreserves DEF LedgerInv, TypeOK
<1>3. CASE PutLast(OnRecord, m, [holes[m] EXCEPT !.claim = ClaimTimeout]) /\ UNCHANGED restored
  <2>1. PICK e : e = [holes[m] EXCEPT !.claim = ClaimTimeout]
    OBVIOUS
  <2>2. /\ e \in Entry /\ e.state = holes[m].state /\ e.age = holes[m].age
        /\ e.print = holes[m].print /\ e.evidence = holes[m].evidence
    BY <1>1, <2>1, LedgerAssumption DEF Entry
  <2> QED
    BY <1>1, <1>3, <2>1, <2>2, TouchPreserves
<1>4. CASE PutLast(OnRecord, m, holes[m]) /\ UNCHANGED restored
  <2>1. PICK e : e = holes[m]
    OBVIOUS
  <2> QED
    BY <1>1, <1>4, <2>1, TouchPreserves
<1> QED
  BY <1>2, <1>3, <1>4 DEF Consult

(* Without its claim a record is a record, of the same state and age.       *)
LEMMA UnclaimedType ==
    ASSUME NEW e \in Entry
    PROVE  Unclaimed(e) \in Entry /\ Unclaimed(e).state = e.state /\ Unclaimed(e).age = e.age
BY DEF Unclaimed, Entry

(* Only confirmed holes are stored, and as old as they are.                 *)
LEMMA RecordPreserves ==
    ASSUME LedgerInv, NEW M \in SUBSET Message, RecordHoles(M)
    PROVE  LedgerInv'
<1> DEFINE saved == {m \in M \intersect Alive : holes[m].state = "Confirmed"}
<1>1. /\ Keep(Alive) /\ restored' = restored \intersect Alive /\ sweepIn' = SweepInterval
      /\ stored' = [m \in saved \union DOMAIN stored |->
                        IF m \in saved THEN Unclaimed(holes[m]) ELSE stored[m]]
      /\ UNCHANGED <<restoring, heard>>
  BY DEF RecordHoles
<1>2. Alive \in SUBSET OnRecord /\ saved \subseteq OnRecord
  BY DEF Alive
<1> HIDE DEF saved
<1>3. /\ DOMAIN stored' = saved \union DOMAIN stored
      /\ \A x \in DOMAIN stored' : stored'[x] = IF x \in saved THEN Unclaimed(holes[x]) ELSE stored[x]
  BY <1>1
<1>4. DOMAIN stored' \subseteq Message /\ stored' \in [DOMAIN stored' -> Entry]
  BY <1>1, <1>2, UnclaimedType DEF LedgerInv, TypeOK
<1>5. StoredFresh'
  BY <1>1, <1>2, <1>3, UnclaimedType DEF LedgerInv, TypeOK, HolesFresh, StoredFresh, Fresh
<1>6. restoring' \subseteq DOMAIN stored'
  BY <1>1, <1>3 DEF LedgerInv, TypeOK
<1>7. SweepInterval \in 0..SweepInterval
  BY LedgerAssumption
<1> QED
  BY <1>1, <1>2, <1>4, <1>5, <1>6, <1>7, DropPreserves DEF LedgerInv, TypeOK

(* A new process starts with an empty ledger.                               *)
LEMMA RestartPreserves ==
    ASSUME LedgerInv, Restart
    PROVE  LedgerInv'
<1>1. Keep({}) /\ restored' = {} /\ sweepIn' \in 0..SweepInterval
  BY LedgerAssumption DEF Restart, Keep
<1>2. StoredFresh'
  BY DEF Restart, LedgerInv, StoredFresh, Fresh
<1> QED
  BY <1>1, <1>2, DropPreserves DEF Restart, LedgerInv, TypeOK

(* A stored hole comes back as old as it was stored, into a place of its    *)
(* own, unless it expired or the article is on record again.                *)
LEMMA RestorePreserves ==
    ASSUME LedgerInv, NEW m \in Message, RestoreOne(m)
    PROVE  LedgerInv'
<1>1. /\ m \in DOMAIN stored /\ restoring' = restoring \ {m}
      /\ UNCHANGED <<stored, heard>>
  BY DEF RestoreOne, LedgerInv, TypeOK
<1>2. StoredFresh'
  BY <1>1 DEF LedgerInv, StoredFresh, Fresh
<1>3. CASE UNCHANGED <<holes, older, sweepIn, restored>>
  BY <1>1, <1>2, <1>3
  DEF LedgerInv, TypeOK, Bounded, HolesFresh, HolesBacked, Fresh, Backed, OnRecord
<1>4. CASE \E K \in SUBSET OnRecord :
              /\ MakesRoom(OnRecord, K)
              /\ PutLast(K, m, RestoredEntry(m))
              /\ restored' = (restored \intersect K) \union {m}
  <2>1. PICK K \in SUBSET OnRecord :
          MakesRoom(OnRecord, K) /\ PutLast(K, m, RestoredEntry(m))
          /\ restored' = (restored \intersect K) \union {m}
    BY <1>4
  <2>2. PICK e : e = RestoredEntry(m)
    OBVIOUS
  <2>3. stored[m] \in Entry /\ Fresh(m, stored[m])
    BY <1>1 DEF LedgerInv, TypeOK, StoredFresh
  <2>4. e \in Entry /\ e.state = stored[m].state /\ e.age = stored[m].age
    BY <2>2, <2>3, UnclaimedType DEF RestoredEntry
  <2>5. Records /\ OnRecord \subseteq Message
    BY TypeRecords DEF LedgerInv, Records
  <2>6. /\ Records' /\ OnRecord' = K \union {m} /\ holes'[m] = e
        /\ \A x \in K \ {m} : holes'[x] = holes[x]
    BY <2>1, <2>2, <2>4, <2>5, PutLastRecords
  <2>7. TypeOK'
    <3>1. sweepIn' \in 0..SweepInterval
      BY <2>1, LedgerAssumption DEF MakesRoom, LedgerInv, TypeOK
    <3> QED
      BY <1>1, <2>1, <2>6, <3>1 DEF LedgerInv, TypeOK, Records
  <2>8. Bounded'
    <3>1. K \in SUBSET Message /\ Cardinality(K) < Capacity
      BY <2>1, <2>5, RoomIsMade
    <3> QED
      BY <2>6, <3>1, OneMoreFits DEF Bounded
  <2>9. HolesFresh'
    BY <1>1, <2>3, <2>4, <2>6 DEF LedgerInv, HolesFresh, Fresh
  <2>10. HolesBacked'
    BY <1>1, <2>1, <2>6 DEF LedgerInv, HolesBacked, Backed
  <2> QED
    BY <1>2, <2>7, <2>8, <2>9, <2>10 DEF LedgerInv
<1> QED
  BY <1>3, <1>4 DEF RestoreOne

(* A record and its stored copy grow older with the confirmation.           *)
LEMMA OlderFresh ==
    ASSUME NEW e \in Entry, NEW m \in Message, heard \in [Message -> Heard],
           Fresh(m, e),
           heard'[m].confirmed = heard[m].confirmed,
           heard'[m].ago = IF heard[m].confirmed THEN Lesser(heard[m].ago + 1, Ttl + Grace) ELSE 0
    PROVE  /\ Older(e) \in Entry
           /\ Older(e).state = e.state /\ Older(e).print = e.print
           /\ Older(e).evidence = e.evidence
           /\ Older(e).age = IF Lapsed(e) THEN e.age ELSE e.age + 1
           /\ e.state = "Confirmed" => heard'[m].confirmed /\ heard'[m].ago <= Older(e).age
<1>1. /\ Older(e) \in Entry
      /\ Older(e).state = e.state /\ Older(e).print = e.print
      /\ Older(e).evidence = e.evidence
      /\ Older(e).age = IF Lapsed(e) THEN e.age ELSE e.age + 1
  <2>1. CASE Lapsed(e)
    BY <2>1 DEF Older
  <2>2. CASE ~Lapsed(e)
    <3>1. PICK c : c = IF e.claim > 0 THEN e.claim - 1 ELSE 0
      OBVIOUS
    <3>2. c \in Nat /\ e.age + 1 \in Nat
      BY <3>1 DEF Entry
    <3>3. Older(e) = [e EXCEPT !.age = e.age + 1, !.claim = c]
      BY <2>2, <3>1 DEF Older
    <3> QED
      BY <2>2, <3>2, <3>3 DEF Entry
  <2> QED
    BY <2>1, <2>2
<1>2. /\ Ttl \in Nat /\ Grace \in Nat /\ e.age \in Nat
      /\ heard[m].ago \in Nat /\ heard[m].confirmed \in BOOLEAN
  BY LedgerAssumption DEF Entry, Heard
<1>3. ASSUME e.state = "Confirmed"
      PROVE  heard'[m].confirmed /\ heard'[m].ago <= Older(e).age
  <2>1. heard[m].confirmed /\ heard[m].ago <= e.age
    BY <1>3 DEF Fresh
  <2>2. heard'[m].ago = Lesser(heard[m].ago + 1, Ttl + Grace)
    BY <2>1
  <2>3. Lapsed(e) => Ttl + Grace <= e.age
    BY <1>2, <1>3 DEF Lapsed
  <2> QED
    BY <1>1, <1>2, <2>1, <2>2, <2>3 DEF Lesser
<1> QED
  BY <1>1, <1>3

(* Time passes for the records, the stored holes and what was heard alike.  *)
LEMMA TickPreserves ==
    ASSUME LedgerInv, Tick
    PROVE  LedgerInv'
<1>1. /\ OnRecord' = OnRecord /\ DOMAIN stored' = DOMAIN stored
      /\ \A m \in OnRecord : holes'[m] = Older(holes[m])
      /\ \A m \in DOMAIN stored : stored'[m] = Older(stored[m])
      /\ UNCHANGED <<older, restoring, restored>>
      /\ holes' = [m \in OnRecord |-> Older(holes[m])]
      /\ stored' = [m \in DOMAIN stored |-> Older(stored[m])]
  BY DEF Tick, OnRecord
<1>2. /\ OnRecord \subseteq Message /\ \A m \in OnRecord : holes[m] \in Entry
      /\ DOMAIN stored \subseteq Message /\ \A m \in DOMAIN stored : stored[m] \in Entry
      /\ heard \in [Message -> Heard]
  BY DEF LedgerInv, TypeOK
<1>3. ConfirmAfter \in Nat /\ Ttl \in Nat /\ Grace \in Nat /\ SweepInterval \in Nat
  BY LedgerAssumption
<1>4. \A m \in Message :
        /\ heard'[m].refusers = heard[m].refusers
        /\ heard'[m].confirmed = heard[m].confirmed
        /\ heard'[m].waited = IF heard[m].refusers = {} THEN 0
                              ELSE Lesser(heard[m].waited + 1, ConfirmAfter)
        /\ heard'[m].ago = IF heard[m].confirmed THEN Lesser(heard[m].ago + 1, Ttl + Grace) ELSE 0
  BY <1>2 DEF Tick, Heard
<1>5. heard' \in [Message -> Heard]
  <2>1. ASSUME NEW m \in Message PROVE heard'[m] \in Heard
    <3>1. heard[m] \in Heard
      BY <1>2
    <3>2. PICK w, a : /\ w = IF heard[m].refusers = {} THEN 0
                              ELSE Lesser(heard[m].waited + 1, ConfirmAfter)
                      /\ a = IF heard[m].confirmed
                             THEN Lesser(heard[m].ago + 1, Ttl + Grace) ELSE 0
      OBVIOUS
    <3>3. w \in Nat /\ a \in Nat
      BY <1>3, <3>1, <3>2 DEF Heard, Lesser
    <3>4. heard'[m] = [heard[m] EXCEPT !.waited = w, !.ago = a]
      BY <3>2 DEF Tick
    <3> QED
      BY <3>1, <3>3, <3>4 DEF Heard
  <2>2. heard' = [m \in Message |-> heard'[m]]
    BY DEF Tick
  <2> QED
    BY <2>1, <2>2
<1>6. \A m \in OnRecord :
        /\ holes'[m] \in Entry
        /\ holes'[m].state = holes[m].state /\ holes'[m].print = holes[m].print
        /\ holes'[m].evidence = holes[m].evidence
        /\ holes'[m].age = IF Lapsed(holes[m]) THEN holes[m].age ELSE holes[m].age + 1
        /\ holes'[m].state = "Confirmed" => heard'[m].confirmed /\ heard'[m].ago <= holes'[m].age
  BY <1>1, <1>2, <1>4, OlderFresh DEF LedgerInv, HolesFresh
<1>7. \A m \in DOMAIN stored :
        /\ stored'[m] \in Entry
        /\ stored'[m].state = "Confirmed" => heard'[m].confirmed /\ heard'[m].ago <= stored'[m].age
  BY <1>1, <1>2, <1>4, OlderFresh DEF LedgerInv, StoredFresh
<1>8. TypeOK'
  <2>1. holes' \in [OnRecord' -> Entry] /\ stored' \in [DOMAIN stored' -> Entry]
    BY <1>1, <1>6, <1>7
  <2>2. sweepIn' \in 0..SweepInterval
    <3>1. sweepIn \in 0..SweepInterval
      BY DEF LedgerInv, TypeOK
    <3>2. sweepIn' = IF sweepIn > 0 THEN sweepIn - 1 ELSE 0
      BY DEF Tick
    <3> QED
      BY <1>3, <3>1, <3>2
  <2> QED
    BY <1>1, <1>5, <2>1, <2>2 DEF LedgerInv, TypeOK
<1>9. Bounded'
  BY <1>1 DEF LedgerInv, Bounded
<1>10. HolesFresh' /\ StoredFresh'
  BY <1>1, <1>6, <1>7 DEF HolesFresh, StoredFresh, Fresh
<1>11. HolesBacked'
  <2> SUFFICES ASSUME NEW m \in OnRecord \ restored PROVE Backed(m, holes[m])'
    BY <1>1 DEF HolesBacked
  <2>1. Backed(m, holes[m]) /\ m \in Message
    BY <1>2 DEF LedgerInv, HolesBacked
  <2>2. holes[m].age \in Nat /\ heard[m].waited \in Nat
    BY <1>2 DEF Entry, Heard
  <2>3. heard'[m].waited = Lesser(heard[m].waited + 1, ConfirmAfter)
    BY <1>4, <2>1 DEF Backed
  <2>4. holes[m].state = "Provisional" => Lesser(holes'[m].age, ConfirmAfter) <= heard'[m].waited
    BY <1>3, <1>6, <2>1, <2>2, <2>3 DEF Backed, Lesser
  <2>5. holes[m].state = "Confirmed" => ConfirmAfter <= heard'[m].waited
    BY <1>3, <2>1, <2>2, <2>3 DEF Backed, Lesser
  <2> QED
    BY <1>4, <1>6, <2>1, <2>4, <2>5 DEF Backed
<1> QED
  BY <1>8, <1>9, <1>10, <1>11 DEF LedgerInv

-----------------------------------------------------------------------------
(* The invariant is inductive.                                              *)
LEMMA LedgerStep == LedgerInv /\ [Next]_vars => LedgerInv'
<1> SUFFICES ASSUME LedgerInv, [Next]_vars PROVE LedgerInv'
  OBVIOUS
<1>1. CASE UNCHANGED vars
  BY <1>1 DEF vars, ledgerVars, LedgerInv, TypeOK, Bounded, HolesFresh, StoredFresh,
              HolesBacked, Fresh, Backed, OnRecord
<1>2. \A M \in Repaired : M \in SUBSET Message
  BY LedgerAssumption
<1> QED
  BY <1>1, <1>2, FirstRefusalPreserves, RefusalPreserves, PresentPreserves, TransportPreserves,
     ConsultPreserves, RecordPreserves, RestartPreserves, RestorePreserves, TickPreserves
  DEF Next

(* The strengthened invariant holds in every state of the ledger, for any   *)
(* articles, servers and times.                                             *)
THEOREM LedgerInvariant == Spec => []LedgerInv
BY LedgerInit, LedgerStep, PTL DEF Spec

(* Every record is well formed, and the LRU order is over the records.      *)
THEOREM LedgerTypes == Spec => []TypeOK
<1>1. LedgerInv => TypeOK
  BY DEF LedgerInv
<1> QED
  BY <1>1, LedgerInvariant, PTL

(* The ledger never holds more records than its capacity.                   *)
THEOREM LedgerBounded == Spec => []Bounded
<1>1. LedgerInv => Bounded
  BY DEF LedgerInv
<1> QED
  BY <1>1, LedgerInvariant, PTL

(* Nothing is skipped that its servers did not refuse for the confirm       *)
(* delay, unless another process found that they did.                       *)
THEOREM SkipsJustified == Spec => []SkipIsJustified
<1>1. LedgerInv => SkipIsJustified
  <2> SUFFICES ASSUME LedgerInv, NEW m \in Message, NEW S \in SUBSET Server,
                      Advice(m, S) = "Skip", m \notin restored
               PROVE  S \subseteq heard[m].refusers /\ heard[m].waited >= ConfirmAfter
    BY DEF SkipIsJustified
  <2>1. m \in OnRecord /\ holes[m].print = S /\ holes[m].state # "Provisional"
    BY DEF Advice
  <2>2. holes[m].state = "Confirmed" /\ heard[m].waited \in Nat /\ ConfirmAfter \in Nat
    BY <2>1, LedgerAssumption DEF LedgerInv, TypeOK, Entry, HoleState, Heard
  <2> QED
    BY <2>1, <2>2 DEF LedgerInv, HolesBacked, Backed
<1> QED
  BY <1>1, LedgerInvariant, PTL

(* Nothing is skipped for longer than the TTL after it was last confirmed,  *)
(* plus the grace while somebody looks again, across restarts too.          *)
THEOREM SkipsFresh == Spec => []SkipIsFresh
<1>1. LedgerInv => SkipIsFresh
  <2> SUFFICES ASSUME LedgerInv, NEW m \in Message, NEW S \in SUBSET Server,
                      Advice(m, S) = "Skip"
               PROVE  /\ heard[m].confirmed
                      /\ heard[m].ago < IF holes[m].claim > 0 THEN Ttl + Grace ELSE Ttl
    BY DEF SkipIsFresh
  <2>1. /\ m \in OnRecord /\ ~Lapsed(holes[m]) /\ holes[m].state # "Provisional"
        /\ ~(Expired(holes[m]) /\ holes[m].claim = 0)
    BY DEF Advice
  <2>2. /\ holes[m].state = "Confirmed" /\ holes[m].age \in Nat /\ holes[m].claim \in Nat
        /\ heard[m].ago \in Nat /\ Ttl \in Nat /\ Grace \in Nat
    BY <2>1, LedgerAssumption DEF LedgerInv, TypeOK, Entry, HoleState, Heard
  <2>3. heard[m].confirmed /\ heard[m].ago <= holes[m].age
    BY <2>1, <2>2 DEF LedgerInv, HolesFresh, Fresh
  <2> QED
    BY <2>1, <2>2, <2>3 DEF Expired, Lapsed
<1> QED
  BY <1>1, LedgerInvariant, PTL

-----------------------------------------------------------------------------
(* The fetches.                                                             *)

(* A call with answers of servers it knows; before it confirms, and while   *)
(* it waits for a confirm, it is in its first round.                        *)
Shaped(c) ==
    /\ c \in Call
    /\ c.at = "note" /\ c.answer = "Missing" => c.refused # <<>>
    /\ c.at \in {"consult", "lookup", "register", "join"} => c.round = "first"

FetchShaped ==
    /\ pools \in Seq(Server)
    /\ DOMAIN fetch = Fetcher
    /\ \A f \in Fetcher : Shaped(fetch[f])

(* A registration is that of the one task at the confirm of its article.    *)
Registered ==
    /\ DOMAIN confirms = Message
    /\ \A m \in Message, f \in Fetcher :
           confirms[m] = f <=> Confirming(f) /\ Msg(f) = m
    /\ \A m \in Message : confirms[m] \in Fetcher \union {NoFetcher}
    /\ \A f \in Fetcher : At(f) = "join" =>
           fetch[f].on \in Fetcher /\ confirms[Msg(f)] = fetch[f].on

(* The inductive invariant.                                                 *)
FetchInv == FetchShaped /\ Registered

-----------------------------------------------------------------------------
(* Calls.                                                                   *)

(* The fields of a call.                                                    *)
LEMMA CallFields ==
    ASSUME NEW c \in Call
    PROVE  /\ c.at \in Stage /\ c.msg \in Message /\ c.servers \in Seq(Server)
           /\ c.round \in {"first", "confirm"} /\ c.refused \in Seq(Server)
           /\ c.failed \in Seq(Server) /\ c.answer \in Attempt \union {"none"}
           /\ c.on \in Fetcher \union {NoFetcher}
           /\ c.otherwise \in {"permit", "consult"} /\ c.timer \in Nat
BY DEF Call

(* A new call, and one that returned.                                       *)
LEMMA NewCallShaped ==
    ASSUME NEW m \in Message, NEW names \in Seq(Server)
    PROVE  /\ Shaped(NewCall(m, names))
           /\ NewCall(m, names).at = "consult" /\ NewCall(m, names).msg = m
           /\ NewCall(m, names).round = "first"
           /\ \A s \in {"idle", "consult", "permit"} :
                  Shaped([NewCall(m, names) EXCEPT !.at = s])
           /\ \A s \in {"idle", "consult", "permit"}, a \in Attempt \union {"none"} :
                  Shaped([NewCall(m, names) EXCEPT !.at = s, !.answer = a])
<1> DEFINE new == NewCall(m, names)
<1>1. PICK empty \in Seq(Server) : empty = <<>>
  BY EmptySeq
<1>2. new = [at |-> "consult", msg |-> m, servers |-> names, round |-> "first",
             refused |-> empty, failed |-> empty, answer |-> "none",
             on |-> NoFetcher, otherwise |-> "permit", timer |-> 0]
  BY <1>1 DEF NewCall
<1> HIDE DEF new
<1>3. new \in Call /\ new.at = "consult" /\ new.msg = m /\ new.round = "first"
  BY <1>1, <1>2 DEF Call, Stage
<1>4. ASSUME NEW s \in {"idle", "consult", "permit"}, NEW a \in Attempt \union {"none"}
      PROVE  Shaped([new EXCEPT !.at = s, !.answer = a])
  BY <1>3, <1>4 DEF Shaped, Call, Stage
<1>5. ASSUME NEW s \in {"idle", "consult", "permit"}
      PROVE  Shaped([new EXCEPT !.at = s])
  BY <1>3, <1>5 DEF Shaped, Call, Stage
<1> QED
  BY <1>3, <1>4, <1>5 DEF Shaped, new

(* The servers of a call are servers.                                       *)
LEMMA NamesAreServers ==
    ASSUME FetchShaped, NEW f \in Fetcher
    PROVE  Names(f) \subseteq Server
<1>1. fetch[f].servers \in Seq(Server)
  BY CallFields DEF FetchShaped, Shaped
<1> QED
  BY <1>1 DEF Names

-----------------------------------------------------------------------------
(* Steps of one call.                                                       *)

(* A call that goes on, keeps to its registration and waits for a live      *)
(* confirm if for one at all, keeps the invariant.                          *)
LEMMA OwnStepKeeps ==
    ASSUME FetchInv, NEW f \in Fetcher, NEW c, Shaped(c), Become(f, c),
           UNCHANGED <<pools, confirms>>,
           (c.round = "confirm" /\ c.at # "idle") <=> Confirming(f),
           c.msg = Msg(f) \/ ~Confirming(f),
           c.at = "join" => c.on \in Fetcher /\ confirms[c.msg] = c.on
    PROVE  FetchInv'
<1>1. fetch'[f] = c /\ \A g \in Fetcher \ {f} : fetch'[g] = fetch[g]
  BY DEF Become, FetchInv, FetchShaped
<1>2. FetchShaped'
  BY <1>1 DEF Become, FetchInv, FetchShaped
<1>3. \A g \in Fetcher : /\ Confirming(g)' <=> Confirming(g)
                         /\ Confirming(g) => Msg(g)' = Msg(g)
  BY <1>1 DEF Confirming, At, Msg
<1>4. \A m \in Message, g \in Fetcher :
          confirms'[m] = g <=> Confirming(g)' /\ Msg(g)' = m
  BY <1>3 DEF FetchInv, Registered
<1>5. \A g \in Fetcher : At(g)' = "join" =>
          fetch'[g].on \in Fetcher /\ confirms'[Msg(g)'] = fetch'[g].on
  BY <1>1 DEF FetchInv, Registered, At, Msg
<1> QED
  BY <1>2, <1>4, <1>5 DEF FetchInv, Registered

(* A caller starts a fetch.                                                 *)
LEMMA StartKeeps ==
    ASSUME FetchInv, NEW f \in Fetcher, NEW m \in Message, Start(f, m)
    PROVE  FetchInv'
<1>1. pools \in Seq(Server)
  BY DEF FetchInv, FetchShaped
<1>2. ~Confirming(f)
  BY DEF Start, Confirming
<1> QED
  BY <1>1, <1>2, NewCallShaped, OwnStepKeeps DEF Start

(* The ledger's advice.                                                     *)
LEMMA ConsultKeeps ==
    ASSUME FetchInv, NEW f \in Fetcher, ConsultLedger(f)
    PROVE  FetchInv'
<1>1. Shaped(fetch[f]) /\ At(f) = "consult"
  BY DEF FetchInv, FetchShaped, ConsultLedger
<1>2. fetch[f].round = "first" /\ ~Confirming(f) /\ Msg(f) \in Message /\ <<>> \in Seq(Server)
  BY <1>1, CallFields DEF Shaped, Confirming, At, Msg
<1>3. \/ Become(f, Returned(f, "Missing"))
      \/ Goto(f, "lookup") \/ Goto(f, "permit")
  BY DEF ConsultLedger
<1>4. Shaped(Returned(f, "Missing")) /\ Returned(f, "Missing").at = "idle"
  BY <1>2, NewCallShaped DEF Returned, Attempt, NewCall
<1>5. \A s \in {"lookup", "permit"} :
          /\ Shaped([fetch[f] EXCEPT !.at = s])
          /\ [fetch[f] EXCEPT !.at = s].at = s
          /\ [fetch[f] EXCEPT !.at = s].round = "first"
  BY <1>1, <1>2 DEF Shaped, Call, Stage
<1>6. UNCHANGED <<pools, confirms>>
  BY DEF ConsultLedger
<1> QED
  BY <1>2, <1>3, <1>4, <1>5, <1>6, OwnStepKeeps DEF Goto

(* A provisional hole: join the confirm in flight, or fetch.                *)
LEMMA LookUpKeeps ==
    ASSUME FetchInv, NEW f \in Fetcher, LookUpConfirm(f)
    PROVE  FetchInv'
<1> DEFINE g == confirms[Msg(f)]
           c == IF g = NoFetcher THEN [fetch[f] EXCEPT !.at = "permit"]
                ELSE [fetch[f] EXCEPT !.at = "join", !.on = g, !.otherwise = "permit"]
<1>1. Shaped(fetch[f]) /\ At(f) = "lookup"
  BY DEF FetchInv, FetchShaped, LookUpConfirm
<1>2. fetch[f].round = "first" /\ ~Confirming(f) /\ Msg(f) \in Message
  BY <1>1, CallFields DEF Shaped, Confirming, At, Msg
<1>3. g \in Fetcher \union {NoFetcher}
  BY <1>2 DEF FetchInv, Registered
<1>4. /\ Shaped(c) /\ c.round = "first"
      /\ c.at = "join" => c.on \in Fetcher /\ confirms[c.msg] = c.on
  BY <1>1, <1>2, <1>3 DEF Shaped, Call, Stage, Msg
<1>5. Become(f, c) /\ UNCHANGED <<pools, confirms>>
  BY DEF LookUpConfirm, Goto
<1> HIDE DEF c
<1> QED
  BY <1>2, <1>4, <1>5, OwnStepKeeps

(* The semaphore grants.                                                    *)
LEMMA TakePermitKeeps ==
    ASSUME FetchInv, NEW f \in Fetcher, TakePermit(f)
    PROVE  FetchInv'
<1> DEFINE c == [fetch[f] EXCEPT !.at = "ask"]
<1>1. Shaped(fetch[f]) /\ At(f) = "permit"
  BY DEF FetchInv, FetchShaped, TakePermit
<1>2. Shaped(c) /\ c.at = "ask" /\ c.msg = Msg(f) /\ c.round = fetch[f].round
  BY <1>1 DEF Shaped, Call, Stage, Msg
<1>3. (c.round = "confirm" /\ c.at # "idle") <=> Confirming(f)
  BY <1>1, <1>2 DEF Confirming
<1>4. Become(f, c) /\ UNCHANGED <<pools, confirms>>
  BY DEF TakePermit, Goto
<1> HIDE DEF c
<1> QED
  BY <1>2, <1>3, <1>4, OwnStepKeeps

(* A pool answers.                                                          *)
LEMMA AskPoolKeeps ==
    ASSUME FetchInv, NEW f \in Fetcher, NEW reply \in Reply, AskPool(f, reply)
    PROVE  FetchInv'
<1> DEFINE c == fetch[f]
           name == c.servers[NextPool(f)]
           body == [c EXCEPT !.at = "note", !.answer = "Body"]
           refused == [c EXCEPT !.refused = Append(c.refused, name)]
           failed == [c EXCEPT !.failed = Append(c.failed, name)]
<1>1. Shaped(c) /\ c \in Call /\ c.at = "ask"
  BY DEF FetchInv, FetchShaped, AskPool, Shaped, At
<1>2. name \in Server
  <2>1. c.refused \in Seq(Server) /\ c.failed \in Seq(Server) /\ c.servers \in Seq(Server)
    BY <1>1, CallFields
  <2>2. NextPool(f) \in 1..Len(c.servers)
    <3>1. /\ Len(c.refused) \in Nat /\ Len(c.failed) \in Nat /\ Len(c.servers) \in Nat
          /\ NextPool(f) = Len(c.refused) + Len(c.failed) + 1
      BY <2>1, LenProperties DEF NextPool
    <3>2. ~(NextPool(f) > Len(c.servers))
      BY DEF AskPool, AllAsked
    <3>3. \A i, j, n \in Nat : ~(i + j + 1 > n) => i + j + 1 \in 1..n
      OBVIOUS
    <3> QED
      BY <3>1, <3>2, <3>3
  <2> QED
    BY <2>1, <2>2
<1>3. \/ Become(f, body) \/ Become(f, refused) \/ Become(f, failed)
  BY DEF AskPool, Reply
<1>4. \A d \in {body, refused, failed} :
          /\ Shaped(d) /\ d.at \in {"note", "ask"} /\ d.msg = c.msg /\ d.round = c.round
  <2>1. Append(c.refused, name) \in Seq(Server) /\ Append(c.failed, name) \in Seq(Server)
    BY <1>1, <1>2, CallFields
  <2> HIDE DEF name
  <2> QED
    BY <1>1, <2>1 DEF Shaped, Call, Stage, Attempt
<1>5. UNCHANGED <<pools, confirms>> /\ (Confirming(f) <=> c.round = "confirm")
  BY <1>1 DEF AskPool, Confirming, At
<1> HIDE DEF body, refused, failed
<1> QED
  BY <1>3, <1>4, <1>5, OwnStepKeeps DEF Msg

(* No pool had it.                                                          *)
LEMMA NoBodyKeeps ==
    ASSUME FetchInv, NEW f \in Fetcher, NoBody(f)
    PROVE  FetchInv'
<1> DEFINE c == fetch[f]
           d == IF c.failed = <<>> /\ c.refused # <<>>
                THEN [c EXCEPT !.at = "note", !.answer = "Missing"]
                ELSE [c EXCEPT !.at = "note", !.answer = "Transport", !.refused = <<>>]
<1>1. Shaped(c) /\ c \in Call /\ c.at = "ask"
  BY DEF FetchInv, FetchShaped, NoBody, Shaped, At
<1>2. Shaped(d) /\ d.at = "note" /\ d.msg = c.msg /\ d.round = c.round
  <2>1. PICK empty \in Seq(Server) : empty = <<>>
    BY EmptySeq
  <2>2. CASE c.failed = empty /\ c.refused # empty
    <3>1. d = [c EXCEPT !.at = "note", !.answer = "Missing"]
      BY <2>1, <2>2
    <3> HIDE DEF d
    <3> QED
      BY <1>1, <2>1, <2>2, <3>1 DEF Shaped, Call, Stage, Attempt
  <2>3. CASE ~(c.failed = empty /\ c.refused # empty)
    <3>1. d = [c EXCEPT !.at = "note", !.answer = "Transport", !.refused = empty]
      BY <2>1, <2>3
    <3> HIDE DEF d
    <3> QED
      BY <1>1, <2>1, <3>1 DEF Shaped, Call, Stage, Attempt
  <2> QED
    BY <2>2, <2>3
<1>3. Become(f, d) /\ UNCHANGED <<pools, confirms>>
  BY DEF NoBody
<1>4. Confirming(f) <=> c.round = "confirm"
  BY <1>1 DEF Confirming, At
<1> HIDE DEF d
<1> QED
  BY <1>2, <1>3, <1>4, OwnStepKeeps DEF Msg

(* A confirm waits out its delay.                                           *)
LEMMA WakeUpKeeps ==
    ASSUME FetchInv, NEW f \in Fetcher, WakeUp(f)
    PROVE  FetchInv'
<1> DEFINE c == fetch[f]
           d == [c EXCEPT !.at = "permit", !.timer = ConfirmFetch]
<1>1. Shaped(c) /\ c \in Call /\ c.at = "sleep"
  BY DEF FetchInv, FetchShaped, WakeUp, Shaped, At
<1>2. Shaped(d) /\ d.at = "permit" /\ d.msg = c.msg /\ d.round = c.round
  BY <1>1, FetchAssumption DEF Shaped, Call, Stage
<1>3. Become(f, d) /\ UNCHANGED <<pools, confirms>>
  BY DEF WakeUp
<1>4. Confirming(f) <=> c.round = "confirm"
  BY <1>1 DEF Confirming, At
<1> HIDE DEF d
<1> QED
  BY <1>2, <1>3, <1>4, OwnStepKeeps DEF Msg

(* A confirm exceeds its deadline.                                          *)
LEMMA TimeOutKeeps ==
    ASSUME FetchInv, NEW f \in Fetcher, TimeOut(f)
    PROVE  FetchInv'
<1> DEFINE c == fetch[f]
           d == [c EXCEPT !.at = "timeout", !.answer = "Transport",
                          !.refused = <<>>, !.failed = c.servers]
<1>1. Shaped(c) /\ c \in Call /\ c.at \in {"permit", "ask"}
  BY DEF FetchInv, FetchShaped, TimeOut, Shaped, At
<1>2. Shaped(d) /\ d.at = "timeout" /\ d.msg = c.msg /\ d.round = c.round
  <2>1. PICK empty \in Seq(Server) : empty = <<>>
    BY EmptySeq
  <2>2. d = [c EXCEPT !.at = "timeout", !.answer = "Transport",
                      !.refused = empty, !.failed = c.servers]
    BY <2>1
  <2>3. c.servers \in Seq(Server)
    BY <1>1, CallFields
  <2> HIDE DEF d
  <2> QED
    BY <1>1, <2>1, <2>2, <2>3 DEF Shaped, Call, Stage, Attempt
<1>3. Become(f, d) /\ UNCHANGED <<pools, confirms>>
  BY DEF TimeOut
<1>4. Confirming(f) <=> c.round = "confirm"
  BY <1>1 DEF Confirming, At
<1> HIDE DEF d
<1> QED
  BY <1>2, <1>3, <1>4, OwnStepKeeps DEF Msg

-----------------------------------------------------------------------------
(* Notes, and the end of a round.                                           *)

(* A confirm ends, and with it the wait of those who joined it.             *)
LEMMA ConfirmEnds ==
    ASSUME FetchInv, NEW f \in Fetcher, Confirming(f), NEW b, EndRound(f, b), UNCHANGED pools
    PROVE  FetchInv'
<1> DEFINE over(g) == g = f \/ (At(g) = "join" /\ fetch[g].on = f)
           answer == fetch[f].answer
<1>1. /\ fetch' = [g \in Fetcher |-> IF over(g) THEN Returned(g, answer) ELSE fetch[g]]
      /\ confirms' = [confirms EXCEPT ![Msg(f)] = NoFetcher]
  BY DEF EndRound, Confirming
<1>2. \A g \in Fetcher : Shaped(fetch[g]) /\ fetch[g] \in Call /\ Msg(g) \in Message
  BY CallFields DEF FetchInv, FetchShaped, Shaped, Msg
<1>3. answer \in Attempt \union {"none"}
  BY <1>2, CallFields
<1> HIDE DEF answer
<1>4. ASSUME NEW g \in Fetcher
      PROVE  Shaped(Returned(g, answer)) /\ Returned(g, answer).at = "idle"
  <2>1. <<>> \in Seq(Server)
    OBVIOUS
  <2> QED
    BY <1>2, <1>3, <2>1, NewCallShaped DEF Returned, NewCall
<1>5. FetchShaped'
  BY <1>1, <1>2, <1>4 DEF FetchInv, FetchShaped
<1>6. \A g \in Fetcher : IF over(g) THEN At(g)' = "idle" ELSE fetch'[g] = fetch[g]
  BY <1>1, <1>4 DEF At
<1>7. confirms[Msg(f)] = f
  BY <1>2 DEF FetchInv, Registered
<1>8. \A g \in Fetcher : over(g) /\ g # f => ~Confirming(g)
  BY <1>2 DEF Shaped, Confirming, At
<1>9. /\ DOMAIN confirms' = Message /\ confirms'[Msg(f)] = NoFetcher
      /\ \A m \in Message \ {Msg(f)} : confirms'[m] = confirms[m]
  BY <1>1, <1>2 DEF FetchInv, Registered
<1>10. ASSUME NEW m \in Message, NEW g \in Fetcher
       PROVE  confirms'[m] = g <=> Confirming(g)' /\ Msg(g)' = m
  <2>1. NoFetcher # g
    BY FetchAssumption
  <2>2. confirms[m] = g <=> Confirming(g) /\ Msg(g) = m
    BY DEF FetchInv, Registered
  <2>3. CASE over(g)
    <3>1. ~Confirming(g)'
      BY <1>6, <2>3 DEF Confirming
    <3>2. m # Msg(f) => confirms[m] # g
      BY <1>8, <2>2, <2>3
    <3> QED
      BY <3>1, <3>2, <2>1, <1>9
  <2>4. CASE ~over(g)
    <3>1. /\ Confirming(g)' <=> Confirming(g)
          /\ Msg(g)' = Msg(g)
      BY <1>6, <2>4 DEF Confirming, At, Msg
    <3>2. m = Msg(f) => confirms[m] # g
      BY <1>7, <2>4
    <3> QED
      BY <3>1, <3>2, <2>1, <2>2, <1>9
  <2> QED
    BY <2>3, <2>4
<1>11. ASSUME NEW g \in Fetcher, At(g)' = "join"
       PROVE  fetch'[g].on \in Fetcher /\ confirms'[Msg(g)'] = fetch'[g].on
  <2>1. ~over(g) /\ fetch'[g] = fetch[g]
    BY <1>6, <1>11
  <2>2. At(g) = "join" /\ fetch[g].on \in Fetcher /\ confirms[Msg(g)] = fetch[g].on
    BY <1>11, <2>1 DEF FetchInv, Registered, At
  <2>3. Msg(g) # Msg(f)
    BY <1>7, <2>1, <2>2
  <2> QED
    BY <1>2, <1>9, <2>1, <2>2, <2>3 DEF Msg
<1>12. \A m \in Message : confirms'[m] \in Fetcher \union {NoFetcher}
  BY <1>9 DEF FetchInv, Registered
<1> HIDE DEF over
<1> QED
  BY <1>5, <1>9, <1>10, <1>11, <1>12 DEF FetchInv, Registered

(* A round ends.                                                            *)
LEMMA RoundEnds ==
    ASSUME FetchInv, NEW f \in Fetcher, At(f) # "idle", NEW b \in BOOLEAN, EndRound(f, b),
           UNCHANGED pools
    PROVE  FetchInv'
<1>1. Shaped(fetch[f]) /\ fetch[f] \in Call /\ Msg(f) \in Message
  BY CallFields DEF FetchInv, FetchShaped, Shaped, Msg
<1>2. CASE fetch[f].round = "confirm"
  BY <1>2, ConfirmEnds DEF Confirming
<1>3. CASE fetch[f].round # "confirm"
  <2> DEFINE d == IF b THEN [fetch[f] EXCEPT !.at = "register", !.refused = <<>>]
                  ELSE Returned(f, fetch[f].answer)
  <2>1. ~Confirming(f) /\ fetch[f].round = "first"
    BY <1>1, <1>3, CallFields DEF Confirming
  <2>2. Shaped([fetch[f] EXCEPT !.at = "register", !.refused = <<>>])
    <3>1. PICK empty \in Seq(Server) : empty = <<>>
      BY EmptySeq
    <3>2. Shaped([fetch[f] EXCEPT !.at = "register", !.refused = empty])
      BY <1>1, <2>1, <3>1 DEF Shaped, Call, Stage
    <3> QED
      BY <3>1, <3>2
  <2>3. Shaped(Returned(f, fetch[f].answer)) /\ Returned(f, fetch[f].answer).at = "idle"
    <3>1. fetch[f].answer \in Attempt \union {"none"} /\ <<>> \in Seq(Server)
      BY <1>1, CallFields
    <3> QED
      BY <1>1, <3>1, NewCallShaped DEF Returned, NewCall
  <2>4. Shaped(d) /\ ~(d.round = "confirm" /\ d.at # "idle") /\ d.at # "join"
    BY <1>1, <2>1, <2>2, <2>3 DEF Call
  <2>5. Become(f, d) /\ UNCHANGED <<pools, confirms>>
    BY <1>3 DEF EndRound
  <2> HIDE DEF d
  <2> QED
    BY <2>1, <2>4, <2>5, OwnStepKeeps
<1> QED
  BY <1>2, <1>3

(* One more answer of a round is noted.                                     *)
LEMMA NotedStepKeeps ==
    ASSUME FetchInv, NEW f \in Fetcher, At(f) \in {"note", "timeout"},
           NEW refused \in Seq(Server), NEW failed \in Seq(Server),
           fetch[f].answer = "Missing" => refused # <<>>,
           Become(f, [fetch[f] EXCEPT !.refused = refused, !.failed = failed]),
           UNCHANGED <<pools, confirms>>
    PROVE  FetchInv'
<1> DEFINE c == fetch[f]
           d == [c EXCEPT !.refused = refused, !.failed = failed]
<1>1. Shaped(c) /\ c \in Call /\ c.at \in {"note", "timeout"}
  BY DEF FetchInv, FetchShaped, Shaped, At
<1>2. Shaped(d) /\ d.at = c.at /\ d.msg = c.msg /\ d.round = c.round
  BY <1>1 DEF Shaped, Call
<1>3. Become(f, d)
  OBVIOUS
<1>4. Confirming(f) <=> c.round = "confirm"
  BY <1>1 DEF Confirming, At
<1> HIDE DEF d
<1> QED
  BY <1>1, <1>2, <1>3, <1>4, OwnStepKeeps DEF Msg

(* The article is there.                                                    *)
LEMMA NoteBodyKeeps ==
    ASSUME FetchInv, NEW f \in Fetcher, NoteBody(f)
    PROVE  FetchInv'
<1>1. At(f) # "idle" /\ EndRound(f, FALSE) /\ UNCHANGED pools
  BY DEF NoteBody
<1> QED
  BY <1>1, RoundEnds

(* A refusal.                                                               *)
LEMMA NoteRefusedKeeps ==
    ASSUME FetchInv, NEW f \in Fetcher, NoteRefused(f)
    PROVE  FetchInv'
<1> DEFINE c == fetch[f]
<1>1. At(f) = "note" /\ UNCHANGED pools /\ c \in Call /\ c.refused \in Seq(Server)
      /\ c.failed \in Seq(Server) /\ c.refused # <<>>
  BY CallFields DEF NoteRefused, FetchInv, FetchShaped, Shaped, At
<1>2. CASE Len(c.refused) = 1
  <2>1. EndRound(f, holes'[Msg(f)].state = "Provisional")
    BY <1>2 DEF NoteRefused
  <2> DEFINE b == holes'[Msg(f)].state = "Provisional"
  <2>2. b \in BOOLEAN /\ EndRound(f, b)
    BY <2>1
  <2> HIDE DEF b
  <2> QED
    BY <1>1, <2>2, RoundEnds
<1>3. CASE Len(c.refused) # 1
  <2>1. Become(f, [c EXCEPT !.refused = Tail(c.refused)]) /\ UNCHANGED confirms
    BY <1>3 DEF NoteRefused
  <2>2. Tail(c.refused) \in Seq(Server) /\ Tail(c.refused) # <<>>
    <3>1. Len(c.refused) \in Nat /\ (Len(c.refused) = 0 => c.refused = <<>>)
      <4>1. Len(c.refused) \in Nat
        BY <1>1, LenProperties
      <4>2. c.refused # <<>> => Len(c.refused) \in Nat \ {0}
        BY <1>1, EmptySeq
      <4> QED
        BY <4>1, <4>2
    <3>2. Tail(c.refused) \in Seq(Server) /\ Len(Tail(c.refused)) = Len(c.refused) - 1
      BY <1>1, HeadTailProperties
    <3>3. Len(<<>>) = 0
      BY EmptySeq
    <3>4. \A n \in Nat : n - 1 = 0 => n = 1
      OBVIOUS
    <3> QED
      BY <1>3, <3>1, <3>2, <3>3, <3>4
  <2>3. [c EXCEPT !.refused = Tail(c.refused)]
            = [c EXCEPT !.refused = Tail(c.refused), !.failed = c.failed]
    BY <1>1 DEF Call
  <2> QED
    BY <1>1, <2>1, <2>2, <2>3, NotedStepKeeps
<1> QED
  BY <1>2, <1>3

(* A server that failed, or nothing left to note.                           *)
LEMMA NoteFailedKeeps ==
    ASSUME FetchInv, NEW f \in Fetcher, NoteFailed(f)
    PROVE  FetchInv'
<1> DEFINE c == fetch[f]
<1>1. At(f) \in {"note", "timeout"} /\ UNCHANGED pools /\ c \in Call /\ c.refused \in Seq(Server)
      /\ c.failed \in Seq(Server) /\ c.answer = "Transport"
  BY CallFields DEF NoteFailed, FetchInv, FetchShaped, Shaped
<1>2. CASE c.failed = <<>>
  BY <1>1, <1>2, RoundEnds DEF NoteFailed
<1>3. CASE c.failed # <<>>
  <2>1. Become(f, [c EXCEPT !.failed = Tail(c.failed)]) /\ UNCHANGED confirms
    BY <1>3 DEF NoteFailed
  <2>2. Tail(c.failed) \in Seq(Server)
    BY <1>1, <1>3
  <2>3. [c EXCEPT !.failed = Tail(c.failed)]
            = [c EXCEPT !.refused = c.refused, !.failed = Tail(c.failed)]
    BY <1>1 DEF Call
  <2> QED
    BY <1>1, <2>1, <2>2, <2>3, NotedStepKeeps
<1> QED
  BY <1>2, <1>3

-----------------------------------------------------------------------------
(* The registration of confirms.                                            *)

(* Become the one confirm of the article, or join the one in flight.        *)
LEMMA RegisterKeeps ==
    ASSUME FetchInv, NEW f \in Fetcher, Register(f)
    PROVE  FetchInv'
<1> DEFINE c == fetch[f]
           g == confirms[Msg(f)]
<1>1. /\ Shaped(c) /\ c \in Call /\ c.at = "register" /\ c.round = "first"
      /\ Msg(f) \in Message /\ ~Confirming(f) /\ At(f) # "join" /\ UNCHANGED pools
  BY CallFields DEF FetchInv, FetchShaped, Register, Shaped, At, Msg, Confirming
<1>2. CASE g = NoFetcher
  <2> DEFINE d == ToConfirm(f)
  <2>1. Become(f, d) /\ confirms' = [confirms EXCEPT ![Msg(f)] = f]
    BY <1>2 DEF Register
  <2>2. Shaped(d) /\ d.at = "sleep" /\ d.msg = c.msg /\ d.round = "confirm"
    BY <1>1, LedgerAssumption DEF ToConfirm, Shaped, Call, Stage
  <2> HIDE DEF d
  <2>3. fetch'[f] = d /\ \A h \in Fetcher \ {f} : fetch'[h] = fetch[h]
    BY <2>1 DEF Become, FetchInv, FetchShaped
  <2>4. FetchShaped'
    BY <1>1, <2>1, <2>2, <2>3 DEF Become, FetchInv, FetchShaped
  <2>5. /\ Confirming(f)' /\ Msg(f)' = Msg(f)
        /\ \A h \in Fetcher \ {f} : /\ Confirming(h)' <=> Confirming(h)
                                    /\ Msg(h)' = Msg(h)
    BY <2>2, <2>3 DEF Confirming, At, Msg
  <2>6. /\ DOMAIN confirms' = Message /\ confirms'[Msg(f)] = f
        /\ \A m \in Message \ {Msg(f)} : confirms'[m] = confirms[m]
    BY <1>1, <2>1 DEF FetchInv, Registered
  <2>7. ASSUME NEW m \in Message, NEW h \in Fetcher
        PROVE  confirms'[m] = h <=> Confirming(h)' /\ Msg(h)' = m
    <3>1. confirms[m] = h <=> Confirming(h) /\ Msg(h) = m
      BY DEF FetchInv, Registered
    <3>2. confirms[Msg(f)] # h
      BY <1>2, FetchAssumption
    <3> QED
      BY <1>1, <2>5, <2>6, <3>1, <3>2
  <2>8. ASSUME NEW h \in Fetcher, At(h)' = "join"
        PROVE  fetch'[h].on \in Fetcher /\ confirms'[Msg(h)'] = fetch'[h].on
    <3>1. h # f /\ fetch'[h] = fetch[h]
      BY <2>2, <2>3, <2>8 DEF At
    <3>2. fetch[h].on \in Fetcher /\ confirms[Msg(h)] = fetch[h].on /\ Msg(h) \in Message
      BY <2>8, <3>1, CallFields DEF FetchInv, FetchShaped, Shaped, Registered, At, Msg
    <3>3. Msg(h) # Msg(f)
      BY <1>2, <3>2, FetchAssumption
    <3> QED
      BY <2>6, <3>1, <3>2, <3>3 DEF Msg
  <2>9. \A m \in Message : confirms'[m] \in Fetcher \union {NoFetcher}
    BY <2>6 DEF FetchInv, Registered
  <2> QED
    BY <2>4, <2>6, <2>7, <2>8, <2>9 DEF FetchInv, Registered
<1>3. CASE g # NoFetcher
  <2> DEFINE d == [c EXCEPT !.at = "join", !.on = g, !.otherwise = "consult", !.answer = "none"]
  <2>1. g \in Fetcher
    BY <1>1, <1>3 DEF FetchInv, Registered
  <2>2. Shaped(d) /\ d.at = "join" /\ d.msg = c.msg /\ d.round = "first" /\ d.on = g
    BY <1>1, <2>1 DEF Shaped, Call, Stage
  <2>3. Become(f, d) /\ UNCHANGED <<pools, confirms>>
    BY <1>1, <1>3 DEF Register
  <2> HIDE DEF d
  <2> QED
    BY <1>1, <2>1, <2>2, <2>3, OwnStepKeeps DEF Msg
<1> QED
  BY <1>2, <1>3

(* A dropped fetch takes its registration back and frees those who wait.    *)
LEMMA DropKeeps ==
    ASSUME FetchInv, NEW f \in Fetcher, Drop(f)
    PROVE  FetchInv'
<1> DEFINE waits(g) == g # f /\ At(g) = "join" /\ fetch[g].on = f
           again(g) == [NewCall(Msg(g), fetch[g].servers) EXCEPT !.at = fetch[g].otherwise]
<1>1. /\ fetch' = Abandoned(f) /\ UNCHANGED pools
      /\ confirms' = [m \in Message |-> IF confirms[m] = f THEN NoFetcher ELSE confirms[m]]
  BY DEF Drop
<1>2. \A g \in Fetcher : /\ Shaped(fetch[g]) /\ fetch[g] \in Call /\ Msg(g) \in Message
                         /\ fetch[g].servers \in Seq(Server)
                         /\ fetch[g].otherwise \in {"permit", "consult"}
  BY CallFields DEF FetchInv, FetchShaped, Shaped, Msg
<1>3. Shaped(Returned(f, "none")) /\ Returned(f, "none").at = "idle"
  <2>1. <<>> \in Seq(Server)
    BY EmptySeq
  <2> QED
    BY <1>2, <2>1, NewCallShaped DEF Returned, NewCall
<1>4. ASSUME NEW g \in Fetcher
      PROVE  Shaped(again(g)) /\ again(g).round = "first" /\ again(g).at # "join"
  <2>2. Shaped(again(g))
    BY <1>2, NewCallShaped
  <2>3. again(g).round = "first" /\ again(g).at = fetch[g].otherwise
    BY DEF NewCall
  <2> QED
    BY <1>2, <2>2, <2>3
<1>5. /\ fetch'[f] = Returned(f, "none")
      /\ \A g \in Fetcher : waits(g) => fetch'[g] = again(g)
      /\ \A g \in Fetcher \ {f} : ~waits(g) => fetch'[g] = fetch[g]
  BY <1>1 DEF Abandoned
<1> HIDE DEF again, waits
<1>6. FetchShaped'
  <2>1. DOMAIN fetch' = Fetcher
    BY <1>1 DEF Abandoned
  <2>2. \A g \in Fetcher : Shaped(fetch'[g])
    BY <1>2, <1>3, <1>4, <1>5
  <2> QED
    BY <1>1, <2>1, <2>2 DEF FetchInv, FetchShaped
<1>7. /\ ~Confirming(f)'
      /\ \A g \in Fetcher : waits(g) => ~Confirming(g) /\ ~Confirming(g)'
      /\ \A g \in Fetcher \ {f} : ~waits(g) => /\ Confirming(g)' <=> Confirming(g)
                                               /\ Msg(g)' = Msg(g)
  BY <1>2, <1>3, <1>4, <1>5 DEF Confirming, At, Msg, waits, Shaped
<1>8. ASSUME NEW m \in Message, NEW g \in Fetcher
      PROVE  confirms'[m] = g <=> Confirming(g)' /\ Msg(g)' = m
  <2>1. confirms[m] = g <=> Confirming(g) /\ Msg(g) = m
    BY DEF FetchInv, Registered
  <2>2. confirms'[m] = IF confirms[m] = f THEN NoFetcher ELSE confirms[m]
    BY <1>1
  <2>3. g # NoFetcher
    BY FetchAssumption
  <2>4. CASE g = f
    BY <1>7, <2>2, <2>3, <2>4
  <2>5. CASE waits(g)
    BY <1>7, <2>1, <2>2, <2>3, <2>5
  <2>6. CASE g # f /\ ~waits(g)
    BY <1>7, <2>1, <2>2, <2>3, <2>6
  <2> QED
    BY <2>4, <2>5, <2>6
<1>9. ASSUME NEW g \in Fetcher, At(g)' = "join"
      PROVE  fetch'[g].on \in Fetcher /\ confirms'[Msg(g)'] = fetch'[g].on
  <2>1. g # f /\ ~waits(g) /\ fetch'[g] = fetch[g]
    BY <1>3, <1>4, <1>5, <1>9 DEF At
  <2>2. fetch[g].on \in Fetcher /\ confirms[Msg(g)] = fetch[g].on /\ fetch[g].on # f
    BY <1>9, <2>1 DEF FetchInv, Registered, At, waits
  <2> QED
    BY <1>1, <1>2, <2>1, <2>2 DEF Msg
<1>10. /\ DOMAIN confirms' = Message
       /\ \A m \in Message : confirms'[m] \in Fetcher \union {NoFetcher}
  BY <1>1 DEF FetchInv, Registered
<1> QED
  BY <1>6, <1>8, <1>9, <1>10 DEF FetchInv, Registered

(* Timers run down.                                                         *)
LEMMA TimePassesKeeps ==
    ASSUME FetchInv, TimePasses
    PROVE  FetchInv'
<1> DEFINE left(g) == IF fetch[g].timer > 0 THEN fetch[g].timer - 1 ELSE 0
<1>1. /\ fetch' = [g \in Fetcher |-> [fetch[g] EXCEPT !.timer = left(g)]]
      /\ UNCHANGED <<pools, confirms>>
  BY DEF TimePasses
<1>2. ASSUME NEW g \in Fetcher
      PROVE  /\ Shaped(fetch'[g]) /\ fetch'[g].at = fetch[g].at /\ fetch'[g].msg = fetch[g].msg
             /\ fetch'[g].round = fetch[g].round /\ fetch'[g].on = fetch[g].on
  <2>1. Shaped(fetch[g]) /\ fetch[g] \in Call /\ fetch[g].timer \in Nat
    BY CallFields DEF FetchInv, FetchShaped, Shaped
  <2>2. left(g) \in Nat
    BY <2>1
  <2>3. fetch'[g] = [fetch[g] EXCEPT !.timer = left(g)]
    BY <1>1
  <2> HIDE DEF left
  <2> QED
    BY <2>1, <2>2, <2>3 DEF Shaped, Call
<1>3. DOMAIN fetch' = Fetcher
  BY <1>1
<1>4. \A g \in Fetcher : /\ At(g)' = At(g) /\ Msg(g)' = Msg(g)
                         /\ Confirming(g)' <=> Confirming(g)
  BY <1>2 DEF At, Msg, Confirming
<1>5. FetchShaped'
  BY <1>1, <1>2, <1>3 DEF FetchInv, FetchShaped
<1>6. \A m \in Message, g \in Fetcher :
          confirms'[m] = g <=> Confirming(g)' /\ Msg(g)' = m
  BY <1>1, <1>4 DEF FetchInv, Registered
<1>7. ASSUME NEW g \in Fetcher, At(g)' = "join"
      PROVE  fetch'[g].on \in Fetcher /\ confirms'[Msg(g)'] = fetch'[g].on
  <2>1. fetch[g].on \in Fetcher /\ confirms[Msg(g)] = fetch[g].on
    BY <1>4, <1>7 DEF FetchInv, Registered
  <2> QED
    BY <1>1, <1>2, <1>4, <2>1
<1>8. /\ DOMAIN confirms' = Message
      /\ \A m \in Message : confirms'[m] \in Fetcher \union {NoFetcher}
  BY <1>1 DEF FetchInv, Registered
<1> HIDE DEF left
<1> QED
  BY <1>5, <1>6, <1>7, <1>8 DEF FetchInv, Registered

-----------------------------------------------------------------------------
(* The theorems.                                                            *)

(* Nobody fetches at first.                                                 *)
LEMMA FetchInitInv == FetchInit => FetchInv
<1>1. SUFFICES ASSUME FetchInit
               PROVE  FetchInv
  OBVIOUS
<1>2. PICK m \in Message : fetch = [f \in Fetcher |-> [NewCall(m, <<>>) EXCEPT !.at = "idle"]]
  BY <1>1 DEF FetchInit
<1>3. pools \in Seq(Server) /\ confirms = [x \in Message |-> NoFetcher]
  BY <1>1, FetchAssumption DEF FetchInit
<1> DEFINE idle == [NewCall(m, <<>>) EXCEPT !.at = "idle"]
<1>4. Shaped(idle) /\ idle.at = "idle"
  <2>1. <<>> \in Seq(Server)
    BY EmptySeq
  <2>2. idle.at = "idle"
    BY DEF NewCall
  <2> QED
    BY <2>1, <2>2, NewCallShaped
<1> HIDE DEF idle
<1>5. DOMAIN fetch = Fetcher /\ \A f \in Fetcher : fetch[f] = idle
  BY <1>2 DEF idle
<1>6. FetchShaped
  BY <1>3, <1>4, <1>5 DEF FetchShaped
<1>7. Registered
  BY <1>3, <1>4, <1>5, FetchAssumption DEF Registered, Confirming, At
<1> QED
  BY <1>6, <1>7 DEF FetchInv

(* Every step keeps the invariant.                                          *)
LEMMA FetchStepKeeps == FetchInv /\ [FetchNext]_allVars => FetchInv'
<1>1. SUFFICES ASSUME FetchInv, [FetchNext]_allVars
               PROVE  FetchInv'
  OBVIOUS
<1>2. ASSUME NEW f \in Fetcher, (\E m \in Message : Start(f, m)) \/ TakePermit(f) \/ Drop(f)
      PROVE  FetchInv'
  BY <1>1, <1>2, StartKeeps, TakePermitKeeps, DropKeeps
<1>3. ASSUME NEW f \in Fetcher, Proceed(f)
      PROVE  FetchInv'
  BY <1>1, <1>3, ConsultKeeps, LookUpKeeps, AskPoolKeeps, NoBodyKeeps, NoteBodyKeeps,
     NoteRefusedKeeps, NoteFailedKeeps, RegisterKeeps, WakeUpKeeps, TimeOutKeeps DEF Proceed
<1>4. ASSUME NEW list \in PoolLists, ReplacePools(list)
      PROVE  FetchInv'
  <2>1. pools' \in Seq(Server) /\ UNCHANGED <<fetch, confirms>>
    BY <1>4, FetchAssumption DEF ReplacePools
  <2> QED
    BY <1>1, <2>1 DEF FetchInv, FetchShaped, Registered, Confirming, At, Msg
<1>5. CASE UNCHANGED allVars
  BY <1>1, <1>5 DEF allVars, fetchVars, FetchInv, FetchShaped, Registered, Confirming, At, Msg
<1> QED
  BY <1>1, <1>2, <1>3, <1>4, <1>5, TimePassesKeeps DEF FetchNext

(* Each step is one of the ledger's, or leaves the ledger alone.            *)
LEMMA FetchStepIsLedgerStep == FetchInv /\ [FetchNext]_allVars => [Next]_vars
<1>1. SUFFICES ASSUME FetchInv, [FetchNext]_allVars
               PROVE  [Next]_vars
  OBVIOUS
<1>2. ASSUME NEW f \in Fetcher, Proceed(f)
      PROVE  [Next]_vars
  <2> DEFINE c == fetch[f]
  <2>1. /\ Msg(f) \in Message /\ Names(f) \in SUBSET Server
        /\ c.failed \in Seq(Server)
    BY <1>1, NamesAreServers, CallFields DEF FetchInv, FetchShaped, Shaped, Msg
  <2>2. CASE ConsultLedger(f)
    BY <2>1, <2>2 DEF ConsultLedger, Next
  <2>3. CASE NoteBody(f)
    BY <2>1, <2>3 DEF NoteBody, Next
  <2>4. CASE NoteRefused(f)
    <3> DEFINE s == Head(c.refused)
    <3>1. NoteFirstRefusal(Msg(f), s, Names(f)) \/ NoteRefusal(Msg(f), s, Names(f))
      BY <2>4 DEF NoteRefused
    <3>2. s \in Names(f)
      BY <3>1 DEF NoteFirstRefusal, NoteRefusal
    <3> QED
      BY <2>1, <3>1, <3>2 DEF Next
  <2>5. CASE NoteFailed(f)
    <3>1. CASE c.failed = <<>>
      BY <2>5, <3>1 DEF NoteFailed
    <3>2. CASE c.failed # <<>>
      <4>1. NoteTransport(Msg(f), Head(c.failed))
        BY <2>5, <3>2 DEF NoteFailed
      <4>2. Head(c.failed) \in Server
        BY <2>1, <3>2, HeadTailProperties
      <4> QED
        BY <2>1, <4>1, <4>2 DEF Next
    <3> QED
      BY <3>1, <3>2
  <2>6. CASE \/ LookUpConfirm(f) \/ NoBody(f) \/ Register(f) \/ WakeUp(f) \/ TimeOut(f)
             \/ \E reply \in Reply : AskPool(f, reply)
    BY <2>6 DEF LookUpConfirm, NoBody, Register, WakeUp, TimeOut, AskPool
  <2> QED
    BY <1>2, <2>2, <2>3, <2>4, <2>5, <2>6 DEF Proceed
<1>3. ASSUME NEW f \in Fetcher, (\E m \in Message : Start(f, m)) \/ TakePermit(f) \/ Drop(f)
      PROVE  UNCHANGED vars
  BY <1>3 DEF Start, TakePermit, Drop
<1>4. ASSUME NEW list \in PoolLists, ReplacePools(list)
      PROVE  UNCHANGED vars
  BY <1>4 DEF ReplacePools
<1>5. CASE TimePasses
  BY <1>5 DEF TimePasses, Next
<1>6. CASE UNCHANGED allVars
  BY <1>6 DEF allVars
<1> QED
  BY <1>1, <1>2, <1>3, <1>4, <1>5, <1>6 DEF FetchNext

(* The strengthened invariant holds in every state of the fetches.          *)
THEOREM FetchInvariant == FetchSpec => []FetchInv
BY FetchInitInv, FetchStepKeeps, PTL DEF FetchSpec

(* The fetches implement the ledger: whatever is dropped, timed out, joined *)
(* or replaced, the ledger sees only operations it allows.                  *)
THEOREM FetchesUseLedger == FetchSpec => Spec
<1>1. FetchInit => Init
  BY DEF FetchInit
<1> QED
  BY <1>1, FetchInvariant, FetchStepIsLedgerStep, PTL DEF FetchSpec, Spec

(* A fetch is answered without asking only about an article that each of    *)
(* its servers refused, over the confirm delay, since it was last there.    *)
THEOREM FetchesSkipJustly == FetchSpec => []SkipIsJustified
BY FetchesUseLedger, SkipsJustified, PTL

(* An article has one confirm, registered exactly while its task is at it,  *)
(* and who waits for a confirm waits for that one.                          *)
THEOREM ConfirmsAreLive == FetchSpec => []ConfirmIsLive
<1>1. FetchInv => ConfirmIsLive
  <2> SUFFICES ASSUME FetchInv
               PROVE  ConfirmIsLive
    OBVIOUS
  <2>1. \A f \in Fetcher : Msg(f) \in Message
    BY CallFields DEF FetchInv, FetchShaped, Shaped, Msg
  <2> QED
    BY <2>1, FetchAssumption DEF FetchInv, Registered, ConfirmIsLive
<1> QED
  BY <1>1, FetchInvariant, PTL
=============================================================================
