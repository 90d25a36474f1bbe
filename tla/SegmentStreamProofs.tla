------------------------ MODULE SegmentStreamProofs ------------------------
(***************************************************************************)
(* Proofs about SegmentStream, for any streams, sizes, windows and permits:*)
(* only the segment the reader needs next waits as demand, and each stream *)
(* implements the ordered reader of ByteReader.                            *)
(*                                                                         *)
(* Offsets are sums over the segments; what is needed of them is shown of  *)
(* the least segment that would not have it.                               *)
(***************************************************************************)
EXTENDS SegmentStream, SequenceTheorems, WellFoundedInduction, TLAPS

(* Among naturals one is the least.                                         *)
LEMMA SmallestExists ==
    ASSUME NEW T \in SUBSET Nat, T # {}
    PROVE  \E m \in T : \A k \in T : m <= k
<1>1. \E m \in T : \A k \in T : ~(<<k, m>> \in OpToRel(<, Nat))
  BY WFMin, NatLessThanWellFounded
<1>2. PICK m \in T : \A k \in T : ~(<<k, m>> \in OpToRel(<, Nat))
  BY <1>1
<1>3. \A k \in T : ~(k < m)
  BY <1>2 DEF OpToRel
<1> QED
  BY <1>3

(* g adds up the sizes of the segments of s before each of the first n.     *)
Adds(s, n, g) ==
    g = [j \in 1..n |-> IF j = 1 THEN 0 ELSE g[j - 1] + Size[s][j - 1]]

(* The offsets are such a sum.                                              *)
LEMMA OffsetDef ==
    ASSUME NEW s \in Stream, NEW i
    PROVE  Offset(s, i) = (CHOOSE g : Adds(s, Count(s) + 1, g))[i]
BY DEF Offset, Adds

(* There is one, however many segments are added up.                        *)
LEMMA SumsExist ==
    ASSUME NEW s \in Stream, NEW n \in Nat
    PROVE  \E g : Adds(s, n, g)
<1> DEFINE Without == {m \in Nat : ~ \E g : Adds(s, m, g)}
<1>1. SUFFICES ASSUME Without # {}
               PROVE  FALSE
  OBVIOUS
<1>2. PICK m \in Without : \A k \in Without : m <= k
  BY <1>1, SmallestExists
<1>3. CASE m = 0
  <2>1. Adds(s, 0, [j \in 1..0 |-> 0])
    BY DEF Adds
  <2> QED
    BY <1>2, <1>3, <2>1
<1>4. CASE m # 0
  <2>1. m - 1 \in Nat /\ ~(m <= m - 1)
    BY <1>4
  <2>2. PICK g : Adds(s, m - 1, g)
    BY <1>2, <2>1
  <2> DEFINE h == [j \in 1..m |-> IF j = m THEN (IF m = 1 THEN 0 ELSE g[m - 1] + Size[s][m - 1])
                                  ELSE g[j]]
  <2>3. ASSUME NEW j \in 1..m
        PROVE  h[j] = IF j = 1 THEN 0 ELSE h[j - 1] + Size[s][j - 1]
    <3>1. CASE j = 1
      BY <3>1, <2>2 DEF Adds
    <3>2. CASE j # 1
      <4>1. j - 1 \in 1..m /\ j - 1 # m /\ h[j - 1] = g[j - 1]
        BY <3>2
      <4>2. CASE j = m
        BY <4>1, <4>2, <3>2
      <4>3. CASE j # m
        <5>1. j \in 1..(m - 1)
          BY <4>3
        <5>2. g[j] = g[j - 1] + Size[s][j - 1]
          BY <5>1, <2>2, <3>2 DEF Adds
        <5> QED
          BY <4>1, <4>3, <5>2, <3>2
      <4> QED
        BY <4>2, <4>3
    <3> QED
      BY <3>1, <3>2
  <2>4. h = [j \in 1..m |-> h[j]]
    OBVIOUS
  <2> HIDE DEF h
  <2>5. Adds(s, m, h)
    BY <2>3, <2>4 DEF Adds
  <2> QED
    BY <1>2, <2>5
<1> QED
  BY <1>3, <1>4

(* An offset is the one before it and the segment between.                  *)
LEMMA OffsetSteps ==
    ASSUME NEW s \in Stream
    PROVE  /\ Offset(s, 1) = 0
           /\ \A i \in Segment(s) : Offset(s, i + 1) = Offset(s, i) + Size[s][i]
<1>1. Count(s) \in Nat /\ Count(s) + 1 \in Nat
  BY StreamAssumption DEF Count
<1> DEFINE g == CHOOSE g : Adds(s, Count(s) + 1, g)
<1>2. Adds(s, Count(s) + 1, g)
  BY <1>1, SumsExist
<1>3. \A i : Offset(s, i) = g[i]
  BY OffsetDef
<1> HIDE DEF g
<1>4. \A j \in 1..(Count(s) + 1) : g[j] = IF j = 1 THEN 0 ELSE g[j - 1] + Size[s][j - 1]
  BY <1>2 DEF Adds
<1>5. Offset(s, 1) = 0
  BY <1>1, <1>3, <1>4
<1>6. ASSUME NEW i \in Segment(s)
      PROVE  Offset(s, i + 1) = Offset(s, i) + Size[s][i]
  <2>1. i + 1 \in 1..(Count(s) + 1) /\ i + 1 # 1 /\ (i + 1) - 1 = i
    BY <1>1 DEF Segment
  <2> QED
    BY <1>3, <1>4, <2>1
<1> QED
  BY <1>5, <1>6

(* Segments have bytes.                                                     *)
LEMMA SizesPositive ==
    ASSUME NEW s \in Stream
    PROVE  /\ Count(s) \in Nat
           /\ \A i \in Segment(s) : i \in Nat /\ Size[s][i] \in Nat \ {0}
BY StreamAssumption DEF Count, Segment

(* Offsets are numbers.                                                     *)
LEMMA OffsetsAreNat ==
    ASSUME NEW s \in Stream, NEW i \in 1..(Count(s) + 1)
    PROVE  Offset(s, i) \in Nat
<1> DEFINE Without == {m \in 1..(Count(s) + 1) : Offset(s, m) \notin Nat}
<1>1. SUFFICES ASSUME Without # {}
               PROVE  FALSE
  OBVIOUS
<1>2. Without \in SUBSET Nat /\ Count(s) \in Nat
  BY SizesPositive
<1>3. PICK m \in Without : \A k \in Without : m <= k
  BY <1>1, <1>2, SmallestExists
<1>4. m # 1
  BY <1>3, OffsetSteps
<1>5. /\ m - 1 \in Segment(s) /\ m - 1 \in 1..(Count(s) + 1) /\ ~(m <= m - 1)
      /\ (m - 1) + 1 = m
  BY <1>2, <1>4 DEF Segment
<1>6. Offset(s, m - 1) \in Nat
  BY <1>3, <1>5
<1>7. Offset(s, m) = Offset(s, m - 1) + Size[s][m - 1]
  BY <1>5, OffsetSteps
<1> QED
  BY <1>3, <1>5, <1>6, <1>7, SizesPositive

(* None is past the end of the file.                                        *)
LEMMA OffsetsWithinFile ==
    ASSUME NEW s \in Stream, NEW i \in 1..(Count(s) + 1)
    PROVE  Offset(s, i) <= FileLength(s)
<1> DEFINE last == Count(s) + 1
           Beyond == {k \in 0..Count(s) : ~(Offset(s, last - k) <= FileLength(s))}
<1>1. Count(s) \in Nat /\ Beyond \in SUBSET Nat
  BY SizesPositive
<1>2. ASSUME Beyond # {}
      PROVE  FALSE
  <2>1. PICK k \in Beyond : \A j \in Beyond : k <= j
    BY <1>1, <1>2, SmallestExists
  <2>2. Offset(s, last) \in Nat /\ last - 0 = last
    BY <1>1, OffsetsAreNat
  <2>3. k # 0
    BY <2>1, <2>2 DEF FileLength
  <2>4. k - 1 \in 0..Count(s) /\ ~(k <= k - 1)
    BY <1>1, <2>3
  <2>5. Offset(s, last - (k - 1)) <= FileLength(s)
    BY <2>1, <2>4
  <2>6. last - k \in Segment(s) /\ last - (k - 1) = (last - k) + 1 /\ last - k \in 1..last
    BY <1>1, <2>3 DEF Segment
  <2>7. /\ Offset(s, last - (k - 1)) = Offset(s, last - k) + Size[s][last - k]
        /\ Size[s][last - k] \in Nat
    BY <2>6, OffsetSteps, SizesPositive
  <2>8. Offset(s, last - k) \in Nat /\ FileLength(s) \in Nat
    BY <1>1, <2>6, OffsetsAreNat DEF FileLength
  <2> HIDE DEF last
  <2>9. Offset(s, last - k) <= FileLength(s)
    BY <2>5, <2>7, <2>8
  <2> QED
    BY <2>1, <2>9
<1>3. last - i \in 0..Count(s) /\ last - (last - i) = i
  BY <1>1
<1> QED
  BY <1>2, <1>3

-----------------------------------------------------------------------------
(* The invariant.                                                           *)

(* The results of reads.                                                    *)
Outcome == [kind : {"pending", "bytes", "error", "end"}, from : Nat, to : Nat]

StreamTypes ==
    /\ TypeOK
    /\ DOMAIN fetch = Stream /\ DOMAIN taken = Stream
    /\ DOMAIN channel = Stream /\ DOMAIN delivered = Stream
    /\ result \in [Stream -> Outcome]

(* Segments whose result the task has sent.                                 *)
Sent(s) == IF task[s] = "send" THEN taken[s] - 1 ELSE taken[s]

(* What was sent is gone from the window, and the reader is not past it:    *)
(* a promoted fetch is that of the segment it needs next.                   *)
WindowSound(s) ==
    /\ task[s] = "send" => taken[s] >= 1
    /\ \A i \in 1..Sent(s) : fetch[s][i] = "gone"
    /\ delivered[s] + Len(channel[s]) <= Sent(s)
    /\ \A i \in Segment(s) : fetch[s][i] = "demand" => i = delivered[s] + 1

(* While a stream is read the channel holds the segments between those      *)
(* delivered and those sent, in order, and what was read is all before      *)
(* them except for the buffer, the end of the last one delivered.           *)
ReaderSound(s) == Reading(s) =>
    /\ delivered[s] + Len(channel[s]) = Sent(s)
    /\ task[s] = "ended" => taken[s] = Count(s)
    /\ \A k \in 1..Len(channel[s]) : channel[s][k].segment = delivered[s] + k
    /\ read[s] + buffer[s] = Offset(s, delivered[s] + 1)
    /\ buffer[s] > 0 => delivered[s] >= 1 /\ buffer[s] <= Size[s][delivered[s]]

(* The inductive invariant.                                                 *)
StreamInv ==
    /\ StreamTypes
    /\ \A s \in Stream : WindowSound(s) /\ ReaderSound(s)

(* Nothing is sent or read at first.                                        *)
LEMMA InitSound ==
    ASSUME Init
    PROVE  StreamInv
<1>1. PICK none \in [Stream -> {<<>>}] : none = [s \in Stream |-> <<>>]
  OBVIOUS
<1>2. /\ task \in [Stream -> {"next", "send", "ended"}]
      /\ buffer \in [Stream -> Nat] /\ read \in [Stream -> Nat]
      /\ closed \in SUBSET Stream
      /\ DOMAIN fetch = Stream /\ DOMAIN taken = Stream
      /\ DOMAIN channel = Stream /\ DOMAIN delivered = Stream
      /\ result \in [Stream -> Outcome]
  BY DEF Init, Outcome, Readers!Pending
<1>3. ASSUME NEW s \in Stream
      PROVE  /\ fetch[s] \in [Segment(s) -> Fetch] /\ taken[s] \in 0..Count(s)
             /\ channel[s] \in Seq(Answer(s)) /\ delivered[s] \in 0..Count(s)
             /\ WindowSound(s) /\ ReaderSound(s)
  <2>1. Count(s) \in Nat /\ Offset(s, 1) = 0
    BY SizesPositive, OffsetSteps
  <2>2. PICK empty \in Seq(Answer(s)) : empty = <<>> /\ Len(empty) = 0
    BY EmptySeq
  <2>3. /\ taken[s] = 0 /\ delivered[s] = 0 /\ task[s] = "next" /\ channel[s] = empty
        /\ buffer[s] = 0 /\ read[s] = 0
        /\ fetch[s] = [i \in Segment(s) |-> IF i <= Lookahead THEN "new" ELSE "unspawned"]
    BY <2>2 DEF Init
  <2>4. fetch[s] \in [Segment(s) -> Fetch] /\ \A i \in Segment(s) : fetch[s][i] # "demand"
    BY <2>3 DEF Fetch
  <2>5. Sent(s) = 0
    BY <2>3 DEF Sent
  <2>6. WindowSound(s)
    BY <2>2, <2>3, <2>4, <2>5 DEF WindowSound
  <2>7. ReaderSound(s)
    BY <2>1, <2>2, <2>3, <2>5 DEF ReaderSound
  <2> QED
    BY <2>1, <2>2, <2>3, <2>4, <2>6, <2>7
<1> QED
  BY <1>2, <1>3 DEF StreamInv, StreamTypes, TypeOK

(* A step that does not touch a stream keeps what is known of it.           *)
LEMMA Untouched ==
    ASSUME NEW u \in Stream, WindowSound(u), ReaderSound(u),
           fetch'[u] = fetch[u], task'[u] = task[u], taken'[u] = taken[u],
           channel'[u] = channel[u], delivered'[u] = delivered[u],
           buffer'[u] = buffer[u], read'[u] = read[u], result'[u] = result[u],
           u \in closed' <=> u \in closed
    PROVE  WindowSound(u)' /\ ReaderSound(u)'
BY DEF WindowSound, ReaderSound, Sent, Reading

(* A fetch that waits, asks or is answered: nothing that was sent moves,    *)
(* and what becomes demand is the segment the reader needs next.            *)
LEMMA BecomesSound ==
    ASSUME StreamInv, NEW s \in Stream, NEW i \in Segment(s), NEW stage \in Fetch,
           Becomes(s, i, stage), fetch[s][i] # "gone",
           stage = "demand" => i = delivered[s] + 1
    PROVE  StreamInv'
<1> USE DEF StreamInv, StreamTypes
<1>1. /\ fetch' = [fetch EXCEPT ![s] = [fetch[s] EXCEPT ![i] = stage]]
      /\ UNCHANGED <<task, taken, channel, delivered, buffer, read, result, closed>>
  BY DEF Becomes, readerVars
<1>2. /\ fetch'[s] \in [Segment(s) -> Fetch]
      /\ fetch'[s] = [fetch[s] EXCEPT ![i] = stage]
      /\ \A u \in Stream : u # s => fetch'[u] = fetch[u]
      /\ DOMAIN fetch' = Stream
  BY <1>1 DEF TypeOK
<1>3. TypeOK'
  BY <1>1, <1>2 DEF TypeOK
<1>4. WindowSound(s)' /\ ReaderSound(s)'
  <2>1. WindowSound(s) /\ ReaderSound(s) /\ Sent(s)' = Sent(s)
    BY <1>1 DEF Sent
  <2>2. \A k \in Segment(s) : fetch'[s][k] = IF k = i THEN stage ELSE fetch[s][k]
    BY <1>2 DEF TypeOK
  <2>3. \A k \in 1..Sent(s) : k \in Segment(s) /\ fetch'[s][k] = "gone"
    <3>1. Sent(s) \in Int /\ Sent(s) <= Count(s) /\ Count(s) \in Nat
      BY SizesPositive DEF Sent, TypeOK
    <3>2. \A k \in 1..Sent(s) : k \in Segment(s) /\ k # i
      BY <2>1, <3>1 DEF WindowSound, Segment
    <3> QED
      BY <3>2, <2>1, <2>2 DEF WindowSound
  <2>4. WindowSound(s)'
    BY <1>1, <2>1, <2>2, <2>3 DEF WindowSound
  <2>5. ReaderSound(s)'
    BY <1>1, <2>1 DEF ReaderSound, Reading, Sent
  <2> QED
    BY <2>4, <2>5
<1>5. ASSUME NEW u \in Stream, u # s
      PROVE  WindowSound(u)' /\ ReaderSound(u)'
  BY <1>1, <1>2, <1>5, Untouched
<1> QED
  BY <1>1, <1>2, <1>3, <1>4, <1>5

(* The window: promotion is the one step that could make another segment    *)
(* than the head demand.                                                    *)
LEMMA PromoteSound ==
    ASSUME StreamInv, NEW s \in Stream, NEW i \in Segment(s), Promote(s, i)
    PROVE  StreamInv'
<1>1. /\ task[s] = "next" /\ fetch[s][i] = "readahead" /\ delivered[s] >= i - 1
      /\ Becomes(s, i, "demand")
  BY DEF Promote
<1>2. /\ Sent(s) = taken[s] /\ WindowSound(s) /\ taken[s] \in Nat /\ i \in Nat \ {0}
      /\ delivered[s] \in Nat /\ Len(channel[s]) \in Nat
  <2>1. channel[s] \in Seq(Answer(s))
    BY DEF StreamInv, StreamTypes, TypeOK
  <2> QED
    BY <1>1, <2>1, LenProperties, SizesPositive
       DEF Sent, StreamInv, StreamTypes, TypeOK, Segment
<1>3. ~(i <= taken[s])
  BY <1>1, <1>2 DEF WindowSound
<1>4. i = delivered[s] + 1
  BY <1>1, <1>2, <1>3 DEF WindowSound
<1> QED
  BY <1>1, <1>4, BecomesSound DEF Fetch

(* No poll of the window breaks the invariant.                              *)
LEMMA PollWindowSound ==
    ASSUME StreamInv, NEW s \in Stream, PollWindow(s)
    PROVE  StreamInv'
<1>1. PICK i \in Segment(s) : Ask(s, i) \/ Promote(s, i) \/ ServersAnswer(s, i)
  BY DEF PollWindow
<1>2. CASE Ask(s, i)
  BY <1>2, BecomesSound DEF Ask, Fetch
<1>3. CASE ServersAnswer(s, i)
  BY <1>3, BecomesSound DEF ServersAnswer, Fetch
<1> QED
  BY <1>1, <1>2, <1>3, PromoteSound

(* A grant keeps it: who was demand asks, nobody becomes demand.            *)
LEMMA PermitSound ==
    ASSUME StreamInv, NEW s \in Stream, NEW i \in Segment(s), Permit(s, i)
    PROVE  StreamInv'
<1>1. fetch[s][i] # "gone" /\ Becomes(s, i, "asking") /\ "asking" \in Fetch
  BY DEF Permit, Fetch
<1> QED
  BY <1>1, BecomesSound

(* What is known of one stream, in numbers.                                 *)
LEMMA StreamFacts ==
    ASSUME StreamTypes, NEW s \in Stream
    PROVE  /\ Count(s) \in Nat /\ taken[s] \in Nat /\ taken[s] <= Count(s)
           /\ delivered[s] \in Nat /\ delivered[s] <= Count(s)
           /\ Len(channel[s]) \in Nat /\ buffer[s] \in Nat /\ read[s] \in Nat
           /\ Sent(s) \in Int /\ Sent(s) <= Count(s)
           /\ channel[s] \in Seq(Answer(s)) /\ fetch[s] \in [Segment(s) -> Fetch]
           /\ task[s] \in {"next", "send", "ended"}
<1>1. /\ Count(s) \in Nat /\ taken[s] \in 0..Count(s) /\ delivered[s] \in 0..Count(s)
      /\ channel[s] \in Seq(Answer(s)) /\ buffer[s] \in Nat /\ read[s] \in Nat
      /\ fetch[s] \in [Segment(s) -> Fetch] /\ task[s] \in {"next", "send", "ended"}
  BY SizesPositive DEF StreamTypes, TypeOK
<1>2. Len(channel[s]) \in Nat
  BY <1>1, LenProperties
<1> QED
  BY <1>1, <1>2 DEF Sent

(* Taking the next result sends nothing yet.                                *)
LEMMA TakeNextSound ==
    ASSUME StreamInv, NEW s \in Stream, TakeNext(s)
    PROVE  StreamInv'
<1> USE DEF StreamInv, StreamTypes
<1>1. /\ task[s] = "next" /\ taken[s] < Count(s)
      /\ taken' = [taken EXCEPT ![s] = taken[s] + 1]
      /\ task' = [task EXCEPT ![s] = "send"]
      /\ UNCHANGED <<fetch, channel, delivered, buffer, read, result, closed>>
  BY DEF TakeNext, readerVars
<1>2. /\ Count(s) \in Nat /\ taken[s] \in Nat
      /\ taken'[s] = taken[s] + 1 /\ task'[s] = "send"
  BY <1>1, StreamFacts DEF TypeOK
<1>3. TypeOK'
  BY <1>1, <1>2 DEF TypeOK
<1>4. Sent(s) = taken[s] /\ Sent(s)' = taken[s]
  BY <1>1, <1>2 DEF Sent
<1>5. WindowSound(s)'
  BY <1>1, <1>2, <1>4 DEF WindowSound
<1>6. ReaderSound(s)'
  BY <1>1, <1>2, <1>4 DEF ReaderSound, Reading
<1>7. ASSUME NEW u \in Stream, u # s
      PROVE  WindowSound(u)' /\ ReaderSound(u)'
  BY <1>1, <1>7, Untouched DEF TypeOK
<1> QED
  BY <1>1, <1>3, <1>5, <1>6, <1>7

(* The window after a send: what was gone still is, the segment sent is too,*)
(* and the one spawned is new.                                              *)
LEMMA SpawnedWindow ==
    ASSUME NEW s \in Stream, NEW w \in [Segment(s) -> Fetch], NEW t \in Segment(s)
    PROVE  LET n == WithNextSpawned(s, [w EXCEPT ![t] = "gone"]) IN
           /\ n \in [Segment(s) -> Fetch]
           /\ n[t] = "gone"
           /\ \A i \in Segment(s) : /\ w[i] = "gone" => n[i] = "gone"
                                    /\ n[i] = "demand" => w[i] = "demand"
BY DEF WithNextSpawned, Fetch

(* The results are sent in the order of the segments.                       *)
LEMMA SendSound ==
    ASSUME StreamInv, NEW s \in Stream, Send(s)
    PROVE  StreamInv'
<1> USE DEF StreamInv, StreamTypes
<1> DEFINE answer == [segment |-> taken[s], ok |-> fetch[s][taken[s]] = "ok"]
           window == WithNextSpawned(s, [fetch[s] EXCEPT ![taken[s]] = "gone"])
<1>1. /\ task[s] = "send" /\ s \notin closed
      /\ channel' = [channel EXCEPT ![s] = Append(channel[s], answer)]
      /\ fetch' = [fetch EXCEPT ![s] = window]
      /\ task' = [task EXCEPT ![s] = "next"]
      /\ UNCHANGED <<taken, delivered, buffer, read, result, closed>>
  BY DEF Send, readerVars
<1>2. WindowSound(s) /\ ReaderSound(s) /\ taken[s] \in Segment(s)
  BY <1>1, StreamFacts DEF WindowSound, Segment
<1>3. answer \in Answer(s) /\ answer.segment = taken[s]
  BY <1>2 DEF Answer
<1>4. /\ window \in [Segment(s) -> Fetch] /\ window[taken[s]] = "gone"
      /\ \A i \in Segment(s) : /\ fetch[s][i] = "gone" => window[i] = "gone"
                               /\ window[i] = "demand" => fetch[s][i] = "demand"
  <2>1. fetch[s] \in [Segment(s) -> Fetch]
    BY StreamFacts
  <2> HIDE DEF StreamInv, StreamTypes
  <2> QED
    BY <1>2, <2>1, SpawnedWindow
<1> HIDE DEF window, answer
<1>5. /\ Append(channel[s], answer) \in Seq(Answer(s))
      /\ Len(Append(channel[s], answer)) = Len(channel[s]) + 1
      /\ \A k \in 1..Len(channel[s]) : Append(channel[s], answer)[k] = channel[s][k]
      /\ Append(channel[s], answer)[Len(channel[s]) + 1] = answer
  BY <1>3, StreamFacts, AppendProperties
<1>6. /\ channel'[s] = Append(channel[s], answer) /\ fetch'[s] = window /\ task'[s] = "next"
  BY <1>1 DEF TypeOK
<1>7. TypeOK'
  BY <1>1, <1>4, <1>5 DEF TypeOK
<1>8. Sent(s) = taken[s] - 1 /\ Sent(s)' = taken[s]
  BY <1>1, <1>6 DEF Sent
<1>9. WindowSound(s)'
  <2>1. \A i \in 1..taken[s] : window[i] = "gone"
    <3>1. \A i \in 1..taken[s] : i \in Segment(s) /\ (i = taken[s] \/ i \in 1..(taken[s] - 1))
      BY <1>2, StreamFacts DEF Segment
    <3> QED
      BY <3>1, <1>2, <1>4, <1>8 DEF WindowSound
  <2>2. delivered[s] + (Len(channel[s]) + 1) <= taken[s]
    BY <1>2, <1>8, StreamFacts DEF WindowSound
  <2> QED
    BY <1>1, <1>2, <1>4, <1>5, <1>6, <1>8, <2>1, <2>2 DEF WindowSound
<1>10. ReaderSound(s)'
  <2>1. SUFFICES ASSUME Reading(s)'
                 PROVE  /\ delivered[s] + (Len(channel[s]) + 1) = taken[s]
                        /\ \A k \in 1..(Len(channel[s]) + 1) :
                               channel'[s][k].segment = delivered[s] + k
                        /\ read[s] + buffer[s] = Offset(s, delivered[s] + 1)
                        /\ buffer[s] > 0 => delivered[s] >= 1 /\ buffer[s] <= Size[s][delivered[s]]
    BY <1>1, <1>5, <1>6, <1>8 DEF ReaderSound
  <2>2. Reading(s)
    BY <1>1, <2>1 DEF Reading
  <2>3. delivered[s] + (Len(channel[s]) + 1) = taken[s]
    <3>1. delivered[s] + Len(channel[s]) = Sent(s)
      BY <1>2, <2>2 DEF ReaderSound
    <3>2. delivered[s] \in Nat /\ Len(channel[s]) \in Nat /\ taken[s] \in Nat
      BY StreamFacts
    <3> HIDE DEF StreamInv, StreamTypes
    <3> QED
      BY <1>8, <3>1, <3>2
  <2>4. \A k \in 1..(Len(channel[s]) + 1) : channel'[s][k].segment = delivered[s] + k
    <3>1. \A k \in 1..(Len(channel[s]) + 1) : k \in 1..Len(channel[s]) \/ k = Len(channel[s]) + 1
      BY StreamFacts
    <3> QED
      BY <3>1, <1>2, <1>3, <1>5, <1>6, <2>2, <2>3 DEF ReaderSound
  <2> QED
    BY <1>2, <2>2, <2>3, <2>4 DEF ReaderSound
<1>11. ASSUME NEW u \in Stream, u # s
       PROVE  WindowSound(u)' /\ ReaderSound(u)'
  BY <1>1, <1>11, Untouched DEF TypeOK
<1> QED
  BY <1>1, <1>7, <1>9, <1>10, <1>11

(* A task that returns with its stream open has sent everything.            *)
LEMMA EndTaskSound ==
    ASSUME StreamInv, NEW s \in Stream, EndTask(s)
    PROVE  StreamInv'
<1> USE DEF StreamInv, StreamTypes
<1>1. /\ \/ task[s] = "send" /\ s \in closed
         \/ task[s] = "next" /\ taken[s] = Count(s)
      /\ task' = [task EXCEPT ![s] = "ended"]
      /\ fetch' = [fetch EXCEPT ![s] = [i \in Segment(s) |-> "gone"]]
      /\ UNCHANGED <<taken, channel, delivered, buffer, read, result, closed>>
  BY DEF EndTask, readerVars
<1>2. /\ task'[s] = "ended" /\ fetch'[s] = [i \in Segment(s) |-> "gone"]
      /\ fetch'[s] \in [Segment(s) -> Fetch]
  BY <1>1 DEF TypeOK, Fetch
<1>3. TypeOK'
  BY <1>1, <1>2 DEF TypeOK
<1>4. WindowSound(s) /\ ReaderSound(s) /\ Sent(s)' = taken[s] /\ Sent(s) <= taken[s]
  BY <1>1, <1>2, StreamFacts DEF Sent
<1>5. WindowSound(s)'
  <2>1. \A i \in 1..taken[s] : i \in Segment(s)
    BY StreamFacts DEF Segment
  <2>2. delivered[s] + Len(channel[s]) <= taken[s]
    BY <1>4, StreamFacts DEF WindowSound
  <2> QED
    BY <1>1, <1>2, <1>4, <2>1, <2>2 DEF WindowSound
<1>6. ReaderSound(s)'
  BY <1>1, <1>2, <1>4 DEF ReaderSound, Reading, Sent
<1>7. ASSUME NEW u \in Stream, u # s
      PROVE  WindowSound(u)' /\ ReaderSound(u)'
  BY <1>1, <1>7, Untouched DEF TypeOK
<1> QED
  BY <1>1, <1>2, <1>3, <1>5, <1>6, <1>7

-----------------------------------------------------------------------------
(* The reader: each of its steps keeps the invariant, and is one of an      *)
(* ordered reader.                                                          *)

(* Copying from what is left of a segment takes the next bytes of the file. *)
LEMMA CopyReads ==
    ASSUME StreamTypes, NEW s \in Stream, Reading(s),
           NEW i \in Segment(s), NEW left \in Nat, NEW n \in Nat \ {0},
           left <= Size[s][i], n <= left, read[s] + left = Offset(s, i + 1),
           Copy(s, i, left, n)
    PROVE  /\ buffer' \in [Stream -> Nat] /\ read' \in [Stream -> Nat]
           /\ result' \in [Stream -> Outcome]
           /\ \A u \in Stream : u # s =>
                  buffer'[u] = buffer[u] /\ read'[u] = read[u] /\ result'[u] = result[u]
           /\ read'[s] + buffer'[s] = Offset(s, i + 1)
           /\ buffer'[s] <= Size[s][i]
           /\ Readers!Next
<1>1. /\ buffer \in [Stream -> Nat] /\ read \in [Stream -> Nat]
      /\ result \in [Stream -> Outcome]
  BY DEF StreamTypes, TypeOK
<1>2. /\ Count(s) \in Nat /\ Size[s][i] \in Nat \ {0} /\ i \in Nat
      /\ i \in 1..(Count(s) + 1) /\ i + 1 \in 1..(Count(s) + 1)
  BY SizesPositive DEF Segment
<1>3. /\ Offset(s, i) \in Nat /\ Offset(s, i + 1) \in Nat
      /\ FileLength(s) \in Nat /\ Offset(s, i + 1) <= FileLength(s)
      /\ Offset(s, i + 1) = Offset(s, i) + Size[s][i]
  BY <1>2, OffsetsAreNat, OffsetsWithinFile, OffsetSteps DEF FileLength
<1>4. Offset(s, i) + Size[s][i] - left = read[s] /\ read[s] + n <= FileLength(s)
  <2>1. read[s] \in Nat
    BY <1>1
  <2>2. \A o, p, z, l, m, f, r \in Nat :
            (p = o + z /\ r + l = p /\ p <= f /\ m <= l) => o + z - l = r /\ r + m <= f
    OBVIOUS
  <2> QED
    BY <1>2, <1>3, <2>1, <2>2
<1>5. /\ buffer' = [buffer EXCEPT ![s] = left - n]
      /\ read' = [read EXCEPT ![s] = read[s] + n]
      /\ result' = [result EXCEPT ![s] = Readers!Bytes(read[s], read[s] + n)]
  BY <1>4 DEF Copy, Return
<1>6. Readers!Bytes(read[s], read[s] + n) \in Outcome
  BY <1>1 DEF Readers!Bytes, Outcome
<1>7. /\ buffer' \in [Stream -> Nat] /\ read' \in [Stream -> Nat]
      /\ result' \in [Stream -> Outcome]
      /\ \A u \in Stream : u # s =>
             buffer'[u] = buffer[u] /\ read'[u] = read[u] /\ result'[u] = result[u]
      /\ buffer'[s] = left - n /\ read'[s] = read[s] + n
  BY <1>1, <1>5, <1>6
<1>8. Readers!Next
  <2>1. n \in 1..([u \in Stream |-> FileLength(u)][s] - read[s])
    BY <1>1, <1>3, <1>4
  <2>2. Readers!Open(s)
    BY DEF Reading, Readers!Open
  <2>3. Readers!ReadBytes(s)
    BY <1>5, <2>1, <2>2 DEF Readers!ReadBytes
  <2> QED
    BY <2>3 DEF Readers!Next
<1>9. read'[s] + buffer'[s] = Offset(s, i + 1) /\ buffer'[s] <= Size[s][i]
  BY <1>1, <1>2, <1>7
<1> QED
  BY <1>7, <1>8, <1>9

(* Reading on in the buffer.                                                *)
LEMMA ReadBufferSound ==
    ASSUME StreamInv, NEW s \in Stream, NEW room \in 1..FileLength(s), ReadBuffer(s, room)
    PROVE  StreamInv' /\ Readers!Next
<1> DEFINE n == IF room < buffer[s] THEN room ELSE buffer[s]
<1>1. /\ StreamTypes /\ WindowSound(s) /\ ReaderSound(s)
      /\ Reading(s) /\ buffer[s] > 0
      /\ Copy(s, delivered[s], buffer[s], n)
      /\ UNCHANGED <<fetch, task, taken, channel, delivered, closed>>
  BY DEF StreamInv, ReadBuffer, taskVars
<1>2. /\ delivered[s] \in Segment(s) /\ buffer[s] \in Nat
      /\ buffer[s] <= Size[s][delivered[s]]
      /\ read[s] + buffer[s] = Offset(s, delivered[s] + 1)
  <2>1. delivered[s] >= 1 /\ buffer[s] <= Size[s][delivered[s]]
        /\ read[s] + buffer[s] = Offset(s, delivered[s] + 1)
    BY <1>1 DEF ReaderSound
  <2> QED
    BY <1>1, <2>1, StreamFacts DEF Segment
<1>3. room \in Nat \ {0}
  <2>1. FileLength(s) \in Nat
    BY SizesPositive, OffsetsAreNat DEF FileLength
  <2> QED
    BY <2>1
<1>4. n \in Nat \ {0} /\ n <= buffer[s]
  BY <1>1, <1>2, <1>3
<1> HIDE DEF n
<1>5. /\ buffer' \in [Stream -> Nat] /\ read' \in [Stream -> Nat]
      /\ result' \in [Stream -> Outcome]
      /\ \A u \in Stream : u # s =>
             buffer'[u] = buffer[u] /\ read'[u] = read[u] /\ result'[u] = result[u]
      /\ read'[s] + buffer'[s] = Offset(s, delivered[s] + 1)
      /\ buffer'[s] <= Size[s][delivered[s]]
      /\ Readers!Next
  BY <1>1, <1>2, <1>4, CopyReads
<1>6. StreamTypes'
  BY <1>1, <1>5 DEF StreamTypes, TypeOK
<1>7. WindowSound(s)' /\ ReaderSound(s)'
  <2>1. Sent(s)' = Sent(s)
    BY <1>1 DEF Sent
  <2>2. WindowSound(s)'
    BY <1>1, <2>1 DEF WindowSound
  <2>3. delivered[s] >= 1 /\ delivered'[s] = delivered[s]
    BY <1>1, <1>2, StreamFacts DEF Segment
  <2>4. ReaderSound(s)'
    BY <1>1, <1>5, <2>1, <2>3 DEF ReaderSound
  <2> QED
    BY <2>2, <2>4
<1>8. ASSUME NEW u \in Stream, u # s
      PROVE  WindowSound(u)' /\ ReaderSound(u)'
  BY <1>1, <1>5, <1>8, Untouched DEF StreamInv
<1> QED
  BY <1>5, <1>6, <1>7, <1>8 DEF StreamInv

(* The first result in the channel of a stream being read is that of the    *)
(* segment after those delivered.                                           *)
LEMMA HeadOfChannel ==
    ASSUME StreamInv, NEW s \in Stream, Reading(s), channel[s] # <<>>
    PROVE  /\ Head(channel[s]).segment = delivered[s] + 1
           /\ delivered[s] + 1 \in Segment(s)
           /\ Tail(channel[s]) \in Seq(Answer(s))
           /\ Len(Tail(channel[s])) = Len(channel[s]) - 1
           /\ Len(channel[s]) \in Nat \ {0}
           /\ \A k \in 1..Len(Tail(channel[s])) :
                  Tail(channel[s])[k].segment = (delivered[s] + 1) + k
<1>1. StreamTypes /\ ReaderSound(s) /\ WindowSound(s)
  BY DEF StreamInv
<1>2. /\ channel[s] \in Seq(Answer(s)) /\ Len(channel[s]) \in Nat /\ delivered[s] \in Nat
      /\ Sent(s) \in Int /\ Sent(s) <= Count(s) /\ Count(s) \in Nat
  BY <1>1, StreamFacts
<1>3. /\ Len(channel[s]) # 0 /\ Head(channel[s]) = channel[s][1]
      /\ Tail(channel[s]) \in Seq(Answer(s))
      /\ Len(Tail(channel[s])) = Len(channel[s]) - 1
      /\ \A k \in 1..Len(Tail(channel[s])) : Tail(channel[s])[k] = channel[s][k + 1]
  BY <1>2, HeadTailProperties, EmptySeq
<1>4. \A k \in 1..Len(channel[s]) : channel[s][k].segment = delivered[s] + k
  BY <1>1 DEF ReaderSound
<1>5. delivered[s] + Len(channel[s]) <= Sent(s)
  BY <1>1 DEF WindowSound
<1>6. delivered[s] + 1 \in Segment(s)
  BY <1>2, <1>3, <1>5 DEF Segment
<1>7. ASSUME NEW k \in 1..Len(Tail(channel[s]))
      PROVE  Tail(channel[s])[k].segment = (delivered[s] + 1) + k
  <2>1. k + 1 \in 1..Len(channel[s]) /\ delivered[s] + (k + 1) = (delivered[s] + 1) + k
    BY <1>2, <1>3
  <2> QED
    BY <1>3, <1>4, <2>1
<1> QED
  BY <1>2, <1>3, <1>4, <1>6, <1>7

(* Receiving delivers the next segment, or fails before the end of the file.*)
LEMMA ReceiveSound ==
    ASSUME StreamInv, NEW s \in Stream, NEW room \in 1..FileLength(s), Receive(s, room)
    PROVE  StreamInv' /\ Readers!Next
<1> DEFINE answer == Head(channel[s])
           i == delivered[s] + 1
           left == Size[s][i]
           n == IF room < left THEN room ELSE left
<1>1. /\ StreamTypes /\ WindowSound(s) /\ ReaderSound(s)
      /\ Reading(s) /\ buffer[s] = 0 /\ channel[s] # <<>>
      /\ channel' = [channel EXCEPT ![s] = Tail(channel[s])]
      /\ UNCHANGED <<fetch, task, taken, closed>>
  BY DEF StreamInv, Receive, taskVars
<1>2. /\ answer.segment = i /\ i \in Segment(s)
      /\ Tail(channel[s]) \in Seq(Answer(s))
      /\ Len(Tail(channel[s])) = Len(channel[s]) - 1
      /\ Len(channel[s]) \in Nat \ {0}
      /\ \A k \in 1..Len(Tail(channel[s])) : Tail(channel[s])[k].segment = i + k
  BY <1>1, HeadOfChannel
<1>3. /\ delivered[s] \in Nat /\ read[s] \in Nat /\ Count(s) \in Nat /\ i \in Nat /\ i <= Count(s)
      /\ left \in Nat \ {0} /\ Sent(s) \in Int /\ taken[s] \in Nat
  BY <1>1, <1>2, StreamFacts, SizesPositive DEF Segment
<1>4. /\ read[s] = Offset(s, i) /\ read[s] + left = Offset(s, i + 1)
      /\ FileLength(s) \in Nat /\ Offset(s, i + 1) <= FileLength(s)
  <2>1. read[s] + buffer[s] = Offset(s, i)
    BY <1>1 DEF ReaderSound
  <2>2. Offset(s, i + 1) = Offset(s, i) + left
    BY <1>2, OffsetSteps
  <2>3. Count(s) + 1 \in 1..(Count(s) + 1) /\ i + 1 \in 1..(Count(s) + 1)
    BY <1>3
  <2> QED
    BY <1>1, <1>3, <2>1, <2>2, <2>3, OffsetsAreNat, OffsetsWithinFile DEF FileLength
<1>5. n \in Nat \ {0} /\ n <= left
  BY <1>3, <1>4
<1>6. /\ channel'[s] = Tail(channel[s]) /\ DOMAIN channel' = Stream
      /\ \A u \in Stream : u # s => channel'[u] = channel[u]
      /\ Sent(s)' = Sent(s)
      /\ \A u \in Stream : channel'[u] \in Seq(Answer(u))
  BY <1>1, <1>2 DEF StreamTypes, TypeOK, Sent
<1>7. CASE answer.ok
  <2>1. delivered' = [delivered EXCEPT ![s] = i] /\ Copy(s, i, left, n)
    BY <1>2, <1>7 DEF Receive
  <2> HIDE DEF answer, left, n
  <2>2. /\ buffer' \in [Stream -> Nat] /\ read' \in [Stream -> Nat]
        /\ result' \in [Stream -> Outcome]
        /\ \A u \in Stream : u # s =>
               buffer'[u] = buffer[u] /\ read'[u] = read[u] /\ result'[u] = result[u]
        /\ read'[s] + buffer'[s] = Offset(s, i + 1)
        /\ buffer'[s] <= Size[s][i]
        /\ Readers!Next
    <3>1. left \in Nat /\ left <= Size[s][i]
      BY <1>3 DEF left
    <3> HIDE DEF i
    <3> QED
      BY <1>1, <1>2, <1>4, <1>5, <2>1, <3>1, CopyReads
  <2>3. /\ delivered'[s] = i /\ DOMAIN delivered' = Stream
        /\ \A u \in Stream : u # s => delivered'[u] = delivered[u]
        /\ \A u \in Stream : delivered'[u] \in 0..Count(u)
    BY <1>1, <1>3, <2>1 DEF StreamTypes, TypeOK
  <2>4. StreamTypes'
    BY <1>1, <1>6, <2>2, <2>3 DEF StreamTypes, TypeOK
  <2>5. delivered[s] + Len(channel[s]) = i + Len(Tail(channel[s]))
    BY <1>2, <1>3
  <2>6. \A k \in Segment(s) : fetch[s][k] # "demand"
    <3>1. \A k \in Segment(s) : fetch[s][k] = "demand" => k = i
      BY <1>1 DEF WindowSound
    <3>2. i \in 1..Sent(s)
      <4>1. delivered[s] + Len(channel[s]) <= Sent(s)
        BY <1>1 DEF WindowSound
      <4> QED
        BY <1>2, <1>3, <4>1
    <3>3. fetch[s][i] = "gone"
      BY <1>1, <3>2 DEF WindowSound
    <3> QED
      BY <3>1, <3>3
  <2>7. WindowSound(s)'
    BY <1>1, <1>6, <2>3, <2>5, <2>6 DEF WindowSound
  <2>8. ReaderSound(s)'
    <3>1. i + Len(Tail(channel[s])) = Sent(s)
      BY <1>1, <2>5 DEF ReaderSound
    <3>2. task[s] = "ended" => taken[s] = Count(s)
      BY <1>1 DEF ReaderSound
    <3> HIDE DEF i
    <3>3. i >= 1
      BY <1>3 DEF i
    <3> QED
      BY <1>1, <1>2, <1>6, <2>2, <2>3, <3>1, <3>2, <3>3 DEF ReaderSound
  <2>9. ASSUME NEW u \in Stream, u # s
        PROVE  WindowSound(u)' /\ ReaderSound(u)'
    BY <1>1, <1>6, <2>2, <2>3, <2>9, Untouched DEF StreamInv
  <2> QED
    BY <2>2, <2>4, <2>7, <2>8, <2>9 DEF StreamInv
<1>8. CASE ~answer.ok
  <2>1. /\ result' = [result EXCEPT ![s] = Readers!Error]
        /\ UNCHANGED <<delivered, buffer, read>>
    BY <1>8 DEF Receive, Return
  <2> HIDE DEF answer, n
  <2>2. /\ result' \in [Stream -> Outcome]
        /\ result'[s].kind = "error"
        /\ \A u \in Stream : u # s => result'[u] = result[u]
    BY <1>1, <2>1 DEF StreamTypes, Outcome, Readers!Error
  <2>3. StreamTypes'
    BY <1>1, <1>6, <2>1, <2>2 DEF StreamTypes, TypeOK
  <2>4. WindowSound(s)'
    <3>1. delivered[s] + Len(channel[s]) <= Sent(s)
      BY <1>1 DEF WindowSound
    <3>2. delivered[s] + Len(Tail(channel[s])) <= Sent(s)
      BY <1>2, <1>3, <3>1
    <3> QED
      BY <1>1, <1>6, <2>1, <3>2 DEF WindowSound
  <2>5. ReaderSound(s)'
    BY <2>2 DEF ReaderSound, Reading
  <2>6. ASSUME NEW u \in Stream, u # s
        PROVE  WindowSound(u)' /\ ReaderSound(u)'
    BY <1>1, <1>6, <2>1, <2>2, <2>6, Untouched DEF StreamInv
  <2>7. Readers!Next
    <3>1. read[s] < [u \in Stream |-> FileLength(u)][s]
      BY <1>3, <1>4
    <3>2. Readers!Open(s)
      BY <1>1 DEF Reading, Readers!Open
    <3>3. Readers!Fail(s)
      BY <2>1, <3>1, <3>2 DEF Readers!Fail
    <3> QED
      BY <3>3 DEF Readers!Next
  <2> QED
    BY <2>3, <2>4, <2>5, <2>6, <2>7 DEF StreamInv
<1> QED
  BY <1>7, <1>8

(* An end is the end of the file, or comes after an error or an end.        *)
LEMMA ReadEndSound ==
    ASSUME StreamInv, NEW s \in Stream, ReadEnd(s)
    PROVE  StreamInv' /\ Readers!Next
<1>1. /\ StreamTypes /\ WindowSound(s) /\ ReaderSound(s)
      /\ s \notin closed /\ buffer[s] = 0
      /\ \/ result[s].kind \in {"error", "end"}
         \/ task[s] = "ended" /\ channel[s] = <<>>
      /\ result' = [result EXCEPT ![s] = Readers!End]
      /\ UNCHANGED <<fetch, task, taken, channel, delivered, buffer, read, closed>>
  BY DEF StreamInv, ReadEnd, taskVars, Return
<1>2. /\ result' \in [Stream -> Outcome]
      /\ result'[s].kind = "end"
      /\ \A u \in Stream : u # s => result'[u] = result[u]
  BY <1>1 DEF StreamTypes, Outcome, Readers!End
<1>3. StreamTypes'
  BY <1>1, <1>2 DEF StreamTypes, TypeOK
<1>4. WindowSound(s)' /\ ReaderSound(s)'
  BY <1>1, <1>2 DEF WindowSound, ReaderSound, Reading, Sent
<1>5. ASSUME NEW u \in Stream, u # s
      PROVE  WindowSound(u)' /\ ReaderSound(u)'
  BY <1>1, <1>2, <1>5, Untouched DEF StreamInv
<1>6. read[s] = FileLength(s) \/ ~Readers!Open(s)
  <2>1. SUFFICES ASSUME Readers!Open(s)
                 PROVE  read[s] = FileLength(s)
    OBVIOUS
  <2>2. Reading(s) /\ task[s] = "ended" /\ channel[s] = <<>>
    BY <1>1, <2>1 DEF Readers!Open, Reading
  <2>3. Len(channel[s]) = 0 /\ delivered[s] \in Nat /\ taken[s] \in Nat /\ read[s] \in Nat
    BY <1>1, <2>2, StreamFacts, EmptySeq
  <2>4. /\ delivered[s] + Len(channel[s]) = Sent(s) /\ taken[s] = Count(s)
        /\ read[s] + buffer[s] = Offset(s, delivered[s] + 1)
    BY <1>1, <2>2 DEF ReaderSound
  <2>5. Sent(s) = taken[s]
    BY <2>2 DEF Sent
  <2>6. delivered[s] = Count(s) /\ read[s] + buffer[s] = read[s]
    BY <1>1, <2>3, <2>4, <2>5
  <2> QED
    BY <2>4, <2>6 DEF FileLength
<1>7. Readers!ReachEnd(s)
  BY <1>1, <1>6 DEF Readers!ReachEnd
<1> QED
  BY <1>3, <1>4, <1>5, <1>7 DEF StreamInv, Readers!Next

(* A dropped stream is not read any more.                                   *)
LEMMA CloseSound ==
    ASSUME StreamInv, NEW s \in Stream, Close(s)
    PROVE  StreamInv' /\ UNCHANGED <<read, result>>
<1>1. /\ StreamTypes /\ WindowSound(s)
      /\ closed' = closed \union {s}
      /\ channel' = [channel EXCEPT ![s] = <<>>]
      /\ UNCHANGED <<fetch, task, taken, delivered, buffer, read, result>>
  BY DEF StreamInv, Close, taskVars, readerVars
<1>2. PICK empty \in Seq(Answer(s)) : empty = <<>> /\ Len(empty) = 0
  BY EmptySeq
<1>3. /\ channel'[s] = empty /\ DOMAIN channel' = Stream
      /\ \A u \in Stream : u # s => channel'[u] = channel[u]
  BY <1>1, <1>2 DEF StreamTypes, TypeOK
<1>4. StreamTypes'
  BY <1>1, <1>3 DEF StreamTypes, TypeOK
<1>5. WindowSound(s)'
  <2>1. delivered[s] + 0 <= Sent(s)
    <3>1. delivered[s] + Len(channel[s]) <= Sent(s)
      BY <1>1 DEF WindowSound
    <3> QED
      BY <1>1, <3>1, StreamFacts
  <2>2. Sent(s)' = Sent(s)
    BY <1>1 DEF Sent
  <2> QED
    BY <1>1, <1>2, <1>3, <2>1, <2>2 DEF WindowSound
<1>6. ReaderSound(s)'
  BY <1>1 DEF ReaderSound, Reading
<1>7. ASSUME NEW u \in Stream, u # s
      PROVE  WindowSound(u)' /\ ReaderSound(u)'
  BY <1>1, <1>3, <1>7, Untouched DEF StreamInv
<1> QED
  BY <1>1, <1>4, <1>5, <1>6, <1>7 DEF StreamInv

-----------------------------------------------------------------------------
(* The theorems.                                                            *)

(* Every step keeps the invariant, and is a step of the ordered readers or  *)
(* none that they see.                                                      *)
LEMMA StepSound ==
    ASSUME StreamInv, [Next]_vars
    PROVE  StreamInv' /\ [Readers!Next]_(Readers!vars)
<1>1. CASE UNCHANGED vars
  <2>1. UNCHANGED <<fetch, task, taken, channel, delivered, buffer, read, result, closed>>
    BY <1>1 DEF vars
  <2>2. \A u \in Stream : WindowSound(u)' /\ ReaderSound(u)'
    BY <2>1 DEF StreamInv, WindowSound, ReaderSound, Sent, Reading
  <2> QED
    BY <2>1, <2>2 DEF StreamInv, StreamTypes, TypeOK, Readers!vars
<1>2. ASSUME NEW s \in Stream, PollWindow(s)
      PROVE  StreamInv' /\ UNCHANGED Readers!vars
  <2>1. UNCHANGED <<read, result>>
    BY <1>2 DEF PollWindow, Ask, Promote, ServersAnswer, Becomes, readerVars
  <2> QED
    BY <1>2, <2>1, PollWindowSound DEF Readers!vars
<1>3. ASSUME NEW s \in Stream, RunTask(s)
      PROVE  StreamInv' /\ UNCHANGED Readers!vars
  <2>1. UNCHANGED <<read, result>>
    BY <1>3 DEF RunTask, TakeNext, Send, EndTask, readerVars
  <2> QED
    BY <1>3, <2>1, TakeNextSound, SendSound, EndTaskSound DEF RunTask, Readers!vars
<1>4. ASSUME NEW s \in Stream, PollRead(s)
      PROVE  StreamInv' /\ Readers!Next
  BY <1>4, ReadBufferSound, ReceiveSound, ReadEndSound DEF PollRead
<1>5. ASSUME NEW s \in Stream, Close(s)
      PROVE  StreamInv' /\ UNCHANGED Readers!vars
  BY <1>5, CloseSound DEF Readers!vars
<1>6. CASE GrantPermit
  <2>1. PICK s \in Stream : \E i \in Segment(s) : Permit(s, i)
    BY <1>6 DEF GrantPermit
  <2>2. UNCHANGED <<read, result>>
    BY <2>1 DEF Permit, Becomes, readerVars
  <2> QED
    BY <2>1, <2>2, PermitSound DEF Readers!vars
<1> QED
  BY <1>1, <1>2, <1>3, <1>4, <1>5, <1>6 DEF Next

(* The inductive invariant of the streams: what was sent is gone from the   *)
(* window, and the channel and the buffer hold what lies between the reader *)
(* and what was sent.                                                       *)
THEOREM StreamInvariant == Spec => []StreamInv
<1>1. Init => StreamInv
  BY InitSound
<1>2. StreamInv /\ [Next]_vars => StreamInv'
  BY StepSound
<1> QED
  BY <1>1, <1>2, PTL DEF Spec

(* However many streams compete and whatever their windows, a fetch waits   *)
(* as demand only for the segment its reader needs next.                    *)
THEOREM DemandIsTheHead == Spec => []OnlyHeadIsDemand
<1>1. StreamInv => OnlyHeadIsDemand
  BY DEF StreamInv, WindowSound, OnlyHeadIsDemand, In
<1> QED
  BY <1>1, StreamInvariant, PTL

(* Each stream implements the ordered reader: its bytes are those of the    *)
(* file, each once and in order, and it never ends early, whatever the      *)
(* sizes of the segments, the rooms of the reads and the permits.           *)
THEOREM StreamsRefineReader == Spec => ReadsInOrder
<1>1. Init => Readers!Init
  BY DEF Init, Readers!Init, Readers!Pending
<1>2. StreamInv /\ [Next]_vars => [Readers!Next]_(Readers!vars)
  BY StepSound
<1> QED
  BY <1>1, <1>2, StreamInvariant, PTL DEF Spec, ReadsInOrder, Readers!Spec
=============================================================================
