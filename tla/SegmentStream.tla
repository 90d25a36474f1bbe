--------------------------- MODULE SegmentStream ---------------------------
(***************************************************************************)
(* MultiSegmentStream (nzbdav-stream/src/multi_segment_stream.rs): a task  *)
(* per stream fetches a window of segments, sends their bytes in order     *)
(* through a bounded channel, and a reader takes them out.  Streams share  *)
(* the permits of the provider's semaphore.                                *)
(*                                                                         *)
(* The fetches of a window are futures of the task, not tasks: they move   *)
(* only while the task waits for the next of them, and keep the permit     *)
(* they hold when it waits for room in the channel instead.                *)
(***************************************************************************)
EXTENDS Naturals, Sequences, FiniteSets

CONSTANTS
    Stream,     \* open streams
    Size,       \* bytes of each of its segments
    Lookahead,  \* lookahead; zero panics in mpsc::channel
    Permits,    \* permits of the semaphore
    Steady      \* streams whose reader keeps reading until it is served

ASSUME StreamAssumption ==
    /\ Size \in [Stream -> Seq(Nat \ {0})]
    /\ Lookahead \in Nat \ {0}
    /\ Permits \in Nat \ {0}
    /\ Steady \subseteq Stream

VARIABLES
    fetch,      \* the future of each segment
    task,       \* where the prefetch task of a stream is
    taken,      \* results the task has taken from its window
    channel,    \* results sent and not received
    delivered,  \* segments received by the reader; the head it publishes
    buffer,     \* bytes of the last one that are not read yet
    read,       \* bytes_read
    result,     \* what the last poll_read returned
    closed      \* streams dropped by their reader

vars == <<fetch, task, taken, channel, delivered, buffer, read, result, closed>>
taskVars == <<fetch, task, taken>>
readerVars == <<delivered, buffer, read, result>>

\* unspawned, not polled yet, waiting for a permit as read-ahead or as demand,
\* asking the servers under a permit, answered, and gone from the window.
Fetch == {"unspawned", "new", "readahead", "demand", "asking", "ok", "failed", "gone"}
Count(s) == Len(Size[s])
Segment(s) == 1..Count(s)
Answer(s) == [segment : Segment(s), ok : BOOLEAN]

\* First byte of segment i, for i = Count(s) + 1 the length of the file.
Offset(s, i) ==
    LET first[j \in 1..(Count(s) + 1)] == IF j = 1 THEN 0 ELSE first[j - 1] + Size[s][j - 1]
    IN  first[i]
FileLength(s) == Offset(s, Count(s) + 1)

TypeOK ==
    /\ task \in [Stream -> {"next", "send", "ended"}]
    /\ buffer \in [Stream -> Nat]
    /\ read \in [Stream -> Nat]
    /\ \A s \in Stream :
           /\ fetch[s] \in [Segment(s) -> Fetch]
           /\ taken[s] \in 0..Count(s)
           /\ channel[s] \in Seq(Answer(s))
           /\ delivered[s] \in 0..Count(s)
    /\ closed \in SUBSET Stream

In(s, stages) == {i \in Segment(s) : fetch[s][i] \in stages}
PermitsHeld == UNION {{s} \X In(s, {"asking"}) : s \in Stream}
DemandWaits == \E s \in Stream : In(s, {"demand"}) # {}

\* The readers as they are promised to be.
Readers == INSTANCE ByteReader WITH
    Reader <- Stream, Length <- [s \in Stream |-> FileLength(s)],
    pos <- read, result <- result

Init ==
    /\ fetch = [s \in Stream |->
                   [i \in Segment(s) |-> IF i <= Lookahead THEN "new" ELSE "unspawned"]]
    /\ task = [s \in Stream |-> "next"]
    /\ taken = [s \in Stream |-> 0]
    /\ channel = [s \in Stream |-> <<>>]
    /\ delivered = [s \in Stream |-> 0]
    /\ buffer = [s \in Stream |-> 0]
    /\ read = [s \in Stream |-> 0]
    /\ result = [s \in Stream |-> Readers!Pending]
    /\ closed = {}

-----------------------------------------------------------------------------
(* The futures of the window, polled while the task waits for the next one. *)

Becomes(s, i, stage) ==
    /\ fetch' = [fetch EXCEPT ![s][i] = stage]
    /\ UNCHANGED <<task, taken, channel, readerVars, closed>>

\* A fetch asks for a permit, as read-ahead, or is told by the ledger that the
\* article is a hole: then a patch or nothing.
Ask(s, i) ==
    /\ task[s] = "next"
    /\ fetch[s][i] = "new"
    /\ \E stage \in {"readahead", "ok", "failed"} : Becomes(s, i, stage)

\* Mutant of Promote: any segment of the window is promoted.
PromoteWindow(s, i) ==
    /\ task[s] = "next"
    /\ fetch[s][i] = "readahead"
    /\ Becomes(s, i, "demand")

\* The reader has come to a segment that still waits for its permit.
Promote(s, i) ==
    /\ task[s] = "next"
    /\ fetch[s][i] = "readahead"
    /\ delivered[s] >= i - 1
    /\ Becomes(s, i, "demand")

\* The semaphore grants, without the future being polled; demand goes first.
Permit(s, i) ==
    /\ fetch[s][i] \in {"readahead", "demand"}
    /\ Cardinality(PermitsHeld) < Permits
    /\ fetch[s][i] = "readahead" => ~DemandWaits
    /\ Becomes(s, i, "asking")

\* The servers answer, or the connection times out; the permit is released.
ServersAnswer(s, i) ==
    /\ task[s] = "next"
    /\ fetch[s][i] = "asking"
    /\ \E stage \in {"ok", "failed"} : Becomes(s, i, stage)

-----------------------------------------------------------------------------
(* The prefetch task.                                                       *)

\* Mutant of TakeNext: results in the order they come (FuturesUnordered).
TakeAny(s) ==
    /\ task[s] = "next"
    /\ \E i \in In(s, {"ok", "failed"}) :
           /\ taken' = [taken EXCEPT ![s] = i]
           /\ task' = [task EXCEPT ![s] = "send"]
    /\ UNCHANGED <<fetch, channel, readerVars, closed>>

\* pending.next() yields the result of the oldest segment of the window.
TakeNext(s) ==
    /\ task[s] = "next"
    /\ taken[s] < Count(s)
    /\ fetch[s][taken[s] + 1] \in {"ok", "failed"}
    /\ taken' = [taken EXCEPT ![s] = @ + 1]
    /\ task' = [task EXCEPT ![s] = "send"]
    /\ UNCHANGED <<fetch, channel, readerVars, closed>>

\* The next segment after those spawned, if there is one.
WithNextSpawned(s, window) ==
    [i \in Segment(s) |->
        IF window[i] = "unspawned" /\ \A j \in 1..(i - 1) : window[j] # "unspawned"
        THEN "new" ELSE window[i]]

\* The result goes into the channel once there is room, and one more fetch
\* into the window.
Send(s) ==
    /\ task[s] = "send"
    /\ s \notin closed
    /\ Len(channel[s]) < Lookahead
    /\ channel' = [channel EXCEPT ![s] =
           Append(@, [segment |-> taken[s], ok |-> fetch[s][taken[s]] = "ok"])]
    /\ fetch' = [fetch EXCEPT ![s] = WithNextSpawned(s, [fetch[s] EXCEPT ![taken[s]] = "gone"])]
    /\ task' = [task EXCEPT ![s] = "next"]
    /\ UNCHANGED <<taken, readerVars, closed>>

\* Mutant of EndTask: a task that waits for room never learns that its
\* receiver is gone.
EndTaskUnnoticed(s) ==
    /\ task[s] = "next" /\ taken[s] = Count(s)
    /\ task' = [task EXCEPT ![s] = "ended"]
    /\ fetch' = [fetch EXCEPT ![s] = [i \in Segment(s) |-> "gone"]]
    /\ UNCHANGED <<taken, channel, readerVars, closed>>

\* The receiver is gone, or the window is empty: the task returns and drops
\* what is left of its window.
EndTask(s) ==
    /\ \/ task[s] = "send" /\ s \in closed
       \/ task[s] = "next" /\ taken[s] = Count(s)
    /\ task' = [task EXCEPT ![s] = "ended"]
    /\ fetch' = [fetch EXCEPT ![s] = [i \in Segment(s) |-> "gone"]]
    /\ UNCHANGED <<taken, channel, readerVars, closed>>

-----------------------------------------------------------------------------
(* The reader: poll_read, with room for up to n bytes.                      *)

Reading(s) == s \notin closed /\ result[s].kind \in {"pending", "bytes"}

Return(s, outcome) == result' = [result EXCEPT ![s] = outcome]

\* Copies n of the bytes that are left of segment i.
Copy(s, i, left, n) ==
    LET from == Offset(s, i) + Size[s][i] - left IN
    /\ buffer' = [buffer EXCEPT ![s] = left - n]
    /\ read' = [read EXCEPT ![s] = @ + n]
    /\ Return(s, Readers!Bytes(from, from + n))

ReadBuffer(s, room) ==
    LET left == buffer[s] IN
    /\ Reading(s) /\ left > 0
    /\ Copy(s, delivered[s], left, IF room < left THEN room ELSE left)
    /\ UNCHANGED <<taskVars, channel, delivered, closed>>

Receive(s, room) ==
    LET answer == Head(channel[s])
        size == Size[s][answer.segment] IN
    /\ Reading(s) /\ buffer[s] = 0
    /\ channel[s] # <<>>
    /\ channel' = [channel EXCEPT ![s] = Tail(@)]
    /\ IF answer.ok
       THEN /\ delivered' = [delivered EXCEPT ![s] = @ + 1]
            /\ Copy(s, answer.segment, size, IF room < size THEN room ELSE size)
       ELSE Return(s, Readers!Error) /\ UNCHANGED <<delivered, buffer, read>>
    /\ UNCHANGED <<taskVars, closed>>

\* done after an error, or the channel closed by the task and empty.
ReadEnd(s) ==
    /\ s \notin closed
    /\ buffer[s] = 0
    /\ \/ result[s].kind \in {"error", "end"}
       \/ task[s] = "ended" /\ channel[s] = <<>>
    /\ Return(s, Readers!End)
    /\ UNCHANGED <<taskVars, channel, delivered, buffer, read, closed>>

\* The reader drops the stream; the task finds out when it sends.
Close(s) ==
    /\ s \notin closed
    /\ closed' = closed \union {s}
    /\ channel' = [channel EXCEPT ![s] = <<>>]
    /\ UNCHANGED <<taskVars, readerVars>>

-----------------------------------------------------------------------------

PollWindow(s) == \E i \in Segment(s) : Ask(s, i) \/ Promote(s, i) \/ ServersAnswer(s, i)
RunTask(s) == TakeNext(s) \/ Send(s) \/ EndTask(s)
PollRead(s) == (\E room \in 1..FileLength(s) : ReadBuffer(s, room) \/ Receive(s, room))
               \/ ReadEnd(s)

GrantPermit == \E s \in Stream : \E i \in Segment(s) : Permit(s, i)

Next ==
    \/ \E s \in Stream : PollWindow(s) \/ RunTask(s) \/ PollRead(s) \/ Close(s)
    \/ GrantPermit

Spec == Init /\ [][Next]_vars

(* Futures and tasks that are woken are polled, servers answer or time out, *)
(* the semaphore grants what is free; a body that failed or ended is        *)
(* dropped.  Only steady readers go on reading.                             *)
Leave(s) == result[s].kind \in {"error", "end"} /\ Close(s)
Fairness ==
    /\ \A s \in Stream : WF_vars(PollWindow(s) \/ RunTask(s))
    /\ WF_vars(GrantPermit)
    /\ \A s \in Steady : WF_vars(PollRead(s)) /\ WF_vars(Leave(s))
FairSpec == Spec /\ Fairness

-----------------------------------------------------------------------------
(* Correctness.                                                             *)

(* A stream is an ordered reader of its file: prefetching neither reorders  *)
(* nor repeats nor drops a byte, and the end is never read early.           *)
ReadsInOrder == Readers!Spec

(* "Only the head of the window is demand": what waits as demand is the     *)
(* segment the reader needs next.                                           *)
OnlyHeadIsDemand == \A s \in Stream :
    \A i \in In(s, {"demand"}) : i = delivered[s] + 1

(* A reader that goes on reading comes to the end of its stream, or to an   *)
(* error, however many streams compete for the permits.                     *)
SteadyReadersServed == \A s \in Steady :
    <>(s \in closed \/ result[s].kind \in {"error", "end"})
=============================================================================
