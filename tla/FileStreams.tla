---------------------------- MODULE FileStreams ----------------------------
(***************************************************************************)
(* From a GET request to the bytes of its body: the Range header           *)
(* (nzbdav-dav/src/range.rs), the choice of the handler (handler.rs), and  *)
(* the streams it reads (nzbdav-stream): DavMultipartFileStream over the   *)
(* volumes of an archive, AesDecoderStream above it, and                   *)
(* SeekableSegmentStream over the segments of a plain file.                *)
(*                                                                         *)
(* A byte is where it is stored: in the data of a volume, or at a position *)
(* of a plain file.  An inner stream returns at most the rest of the       *)
(* segment it is in, as SegmentStream does.                                *)
(***************************************************************************)
EXTENDS Integers, Sequences, FiniteSetsExt

CONSTANTS
    Volume,     \* volumes with the data of an archived file, as the item lists them
    Plain,      \* segment sizes of a plain file
    PlainSize,  \* its size as the handler estimates it, too large or too small
    Unreadable, \* sets of its segments whose yEnc header cannot be fetched
    Probes,     \* header probes of a search, 20
    Block,      \* AES_BLOCK_SIZE
    ReadBlocks, \* blocks the cipher stream reads at a time
    SkipChunk,  \* bytes skipped by one poll, 8192
    Room,       \* sizes of the caller's buffer
    Ranges      \* Requested headers, <<>> for none

VARIABLES source, header, unreadable, status, want, stream, sent, last, whole

bodyVars == <<source, header, unreadable, status, want, stream, sent, last, whole>>

ASSUME BodyAssumption ==
    /\ Volume \in Seq([segs : Seq(Nat), start : Nat, size : Nat])
    /\ Plain \in Seq(Nat) /\ Plain # <<>>
    /\ {PlainSize, Probes} \subseteq Nat
    /\ {Block, ReadBlocks, SkipChunk} \subseteq Nat \ {0}
    /\ Room \subseteq Nat \ {0}
    /\ Ranges \subseteq Seq([kind : {"suffix", "open", "full"}, n : Nat, start : Nat, end : Nat])

Nothing == -1
AtMost(a, b) == IF a < b THEN a ELSE b
AtLeast(a, b) == IF a > b THEN a ELSE b

-----------------------------------------------------------------------------
(* Segments.                                                                *)

\* Bytes of the first i segments.
Before(segs, i) ==
    LET sum[j \in 0..Len(segs)] == IF j = 0 THEN 0 ELSE sum[j - 1] + segs[j] IN sum[i]
Total(segs) == Before(segs, Len(segs))

\* What a read of up to room bytes returns after at bytes: no more than the
\* rest of the segment, nothing at the end.
Chunk(segs, at, room) ==
    IF at >= Total(segs) THEN 0
    ELSE AtMost(room, Min({e \in {Before(segs, i) : i \in 1..Len(segs)} : e > at}) - at)

-----------------------------------------------------------------------------
(* aggregate_rar_files: the parts of a member, end to end.  Its sort compares *)
(* volume numbers no header of a file carries, so the order stays as read.   *)

Sizes == [k \in 1..Len(Volume) |-> Volume[k].size]

VolumeParts == [k \in 1..Len(Volume) |->
    [segs |-> Volume[k].segs, start |-> Volume[k].start, size |-> Volume[k].size,
     from |-> Before(Sizes, k - 1)]]
ArchivedSize == Total(Sizes)

\* The parts that say they hold byte p of the archived file, and where the
\* first of them has it.
PartsAt(p) ==
    {k \in DOMAIN VolumeParts :
        VolumeParts[k].from <= p /\ p < VolumeParts[k].from + VolumeParts[k].size}
Stored(p) ==
    [part |-> Min(PartsAt(p)),
     at |-> VolumeParts[Min(PartsAt(p))].start + (p - VolumeParts[Min(PartsAt(p))].from)]

-----------------------------------------------------------------------------
(* Outcomes of a poll: nothing yet, the end, or n bytes; bytes are stored   *)
(* at "at" of part "part", good unless they were decrypted out of step.     *)

Again == [kind |-> "again", part |-> 0, at |-> 0, n |-> 0, good |-> TRUE]
End == [Again EXCEPT !.kind = "end"]
Got(part, at, n, good) == [kind |-> "bytes", part |-> part, at |-> at, n |-> n, good |-> good]
PollOutcome(state, out) == [state |-> state, out |-> out]

-----------------------------------------------------------------------------
(* DavMultipartFileStream.                                                  *)

Multipart(pos, part, inner, skip, left) ==
    [pos |-> pos, part |-> part, inner |-> inner, skip |-> skip, left |-> left]
NewMultipart == Multipart(0, 1, Nothing, 0, 0)
SeekMultipart(target) == Multipart(AtMost(target, ArchivedSize), 1, Nothing, 0, 0)

SetUpPart(k, p) ==
    LET into == p - VolumeParts[k].from IN
    Multipart(p, k, Nothing, AtLeast(VolumeParts[k].start + into, 0),
              AtLeast(VolumeParts[k].size - into, 0))

Unset(m) == m.left = 0 /\ m.skip = 0

\* The part is set up and its inner stream is open.
Ready(m) ==
    LET set == IF Unset(m) THEN SetUpPart(Min(PartsAt(m.pos)), m.pos) ELSE m
    IN  Multipart(set.pos, set.part, AtLeast(set.inner, 0), set.skip, set.left)

Advance(m, k) == Multipart(m.pos + k, m.part, m.inner + k, m.skip, m.left - k)

\* The inner stream gave k bytes: its end, skipped, or passed on.
Passed(m, k) ==
    IF k = 0 THEN PollOutcome(Multipart(m.pos, m.part, Nothing, m.skip, m.left), Again)
    ELSE IF m.skip > 0
    THEN PollOutcome(Multipart(m.pos, m.part, m.inner + k, m.skip - k, m.left), Again)
    ELSE PollOutcome(Advance(m, k), Got(m.part, m.inner, k, TRUE))

PollInner(m, room) ==
    Passed(m, Chunk(VolumeParts[m.part].segs, m.inner,
                    IF m.skip > 0 THEN AtMost(m.skip, SkipChunk) ELSE AtMost(m.left, room)))

PollMultipart(m, room) ==
    IF m.pos >= ArchivedSize \/ (Unset(m) /\ PartsAt(m.pos) = {}) THEN PollOutcome(m, End)
    ELSE PollInner(Ready(m), room)

-----------------------------------------------------------------------------
(* AesDecoderStream over a multipart stream.  iv is the position of the     *)
(* ciphertext block kept for the next one, -Block the file's own iv; the    *)
(* buffer is n decrypted bytes, not read yet, from byte "at" of a part.     *)

Cipher(inner, pos, iv, part, at, n, good) ==
    [inner |-> inner, pos |-> pos, iv |-> iv, part |-> part, at |-> at, n |-> n, good |-> good]
NewCipher == Cipher(NewMultipart, 0, 0 - Block, 0, 0, 0, TRUE)

\* The complete blocks of k bytes.
Whole(k) == (k \div Block) * Block

\* What was read begins with a block, and the block kept is the one before.
InStep(c, r) == r.out.good /\ c.inner.pos % Block = 0 /\ c.iv = c.inner.pos - Block

\* Decrypts the complete blocks of what was read; the bytes after them are
\* dropped.
Decrypt(c, r) ==
    Cipher(r.state, c.pos, c.inner.pos + Whole(r.out.n) - Block,
           r.out.part, r.out.at, Whole(r.out.n), InStep(c, r))

Serve(c, room) ==
    LET k == AtMost(AtMost(c.n, room), ArchivedSize - c.pos) IN
    PollOutcome(Cipher(c.inner, c.pos + k, c.iv, c.part, c.at + k, c.n - k, c.good),
            Got(c.part, c.at, k, c.good))

Polled(c, inner) == Cipher(inner, c.pos, c.iv, c.part, c.at, c.n, c.good)

\* The inner stream was polled with outcome r.
Deciphered(c, r, room) ==
    IF r.out.kind # "bytes" THEN PollOutcome(Polled(c, r.state), r.out)
    ELSE IF r.out.n < Block THEN PollOutcome(Polled(c, r.state), End)
    ELSE Serve(Decrypt(c, r), room)

PollCipher(c, room) ==
    IF c.pos >= ArchivedSize THEN PollOutcome(c, End)
    ELSE IF c.n > 0 THEN Serve(c, room)
    ELSE Deciphered(c, PollMultipart(c.inner, ReadBlocks * Block), room)

-----------------------------------------------------------------------------
(* SeekableSegmentStream: find_segment and aligned.  Segments count from 0. *)

Segments == Len(Plain)
Average == PlainSize \div Segments

\* The fall back: the segment before the one a linear estimate names.
Estimate(target) ==
    LET i == AtLeast(AtMost(IF Average = 0 THEN 0 ELSE target \div Average, Segments - 1) - 1, 0)
    IN  [index |-> i, start |-> i * Average]

Bracket(lo, hi, from, to, index, start) ==
    [lo |-> lo, hi |-> hi, from |-> from, to |-> to, index |-> index, start |-> start]

Probing(s, target) ==
    s.index = Nothing /\ s.lo < s.hi /\ s.from <= target /\ target < s.to

\* The segment between the bounds at which a linear interpolation puts byte
\* "target".
Guess(s, target) ==
    AtMost(s.lo + ((target - s.from) * (s.hi - s.lo)) \div (s.to - s.from), s.hi - 1)

\* Mutant of SegmentStart: part_begin is taken as counted from 0.
StartOneBased(g) == Before(Plain, g) + 1

\* The first byte of a segment by its header, whose part_begin counts from 1,
\* and the byte after its last.
SegmentStart(g) == Before(Plain, g)
SegmentEnd(g) == Before(Plain, g + 1)

Narrowed(s, target, g) ==
    IF SegmentEnd(g) <= target THEN Bracket(g + 1, s.hi, SegmentEnd(g), s.to, Nothing, 0)
    ELSE IF SegmentStart(g) > target THEN Bracket(s.lo, g, s.from, SegmentStart(g), Nothing, 0)
    ELSE Bracket(s.lo, s.hi, s.from, s.to, g, SegmentStart(g))

\* One probe: ask for the header of the guess, and narrow the search to it.
ProbeGuess(s, target, g, failing) ==
    IF g \in failing
    THEN Bracket(s.lo, s.hi, s.from, s.to, Estimate(target).index, Estimate(target).start)
    ELSE Narrowed(s, target, g)

ProbeSegment(s, target, failing) ==
    IF Probing(s, target) THEN ProbeGuess(s, target, Guess(s, target), failing) ELSE s

\* The state of the search after its last probe.
Search(target, failing) ==
    LET search[k \in 0..Probes] ==
            IF k = 0 THEN Bracket(0, Segments, 0, PlainSize, Nothing, 0)
            ELSE ProbeSegment(search[k - 1], target, failing)
    IN  search[Probes]

FindSegment(target, failing) ==
    IF Search(target, failing).index = Nothing THEN Estimate(target)
    ELSE Search(target, failing)

\* The position an aligned stream is really at; past the end it fails.
Aligned(found, target) == Before(Plain, found.index) + AtLeast(target - found.start, 0)
AlignedAt(target, failing) ==
    IF target = 0 THEN 0 ELSE Aligned(FindSegment(target, failing), target)

ReadPlain(at, k) == IF k = 0 THEN PollOutcome(at, End) ELSE PollOutcome(at + k, Got(0, at, k, TRUE))
PollPlain(at, room) == ReadPlain(at, Chunk(Plain, at, room))

-----------------------------------------------------------------------------
(* parse_range, of one spec and of a header of several.                     *)

Bad == [ok |-> FALSE, start |-> 0, end |-> 0]
Good(start, end) == [ok |-> TRUE, start |-> start, end |-> end]

ParseSpec(spec, size) ==
    CASE spec.kind = "suffix" /\ spec.n \in 1..size -> Good(size - spec.n, size - 1)
      [] spec.kind = "open" /\ spec.start < size -> Good(spec.start, size - 1)
      [] spec.kind = "full" /\ spec.start <= spec.end /\ spec.start < size ->
             Good(spec.start, AtMost(spec.end, size - 1))
      [] OTHER -> Bad

\* One unsatisfiable spec spoils the header; of several good ones the handler
\* serves the first.
ParseRange(specs, size) ==
    IF specs = <<>> \/ \E i \in DOMAIN specs : ~ParseSpec(specs[i], size).ok THEN Bad
    ELSE ParseSpec(specs[1], size)

-----------------------------------------------------------------------------
(* get and serve_streaming.                                                 *)

BodySize == IF source = "plain" THEN PlainSize ELSE ArchivedSize

NewStream == CASE source = "archive" -> NewMultipart
               [] source = "encrypted" -> NewCipher
               [] OTHER -> 0

Requested == ParseRange(header, BodySize)
ContentLength(range) == range.end - range.start + 1

BodyInit ==
    /\ source \in {"archive", "encrypted", "plain"}
    /\ header \in Ranges
    /\ unreadable \in Unreadable
    /\ status = "none"
    /\ want = [start |-> 0, n |-> 0]
    /\ stream = Nothing
    /\ sent = 0
    /\ last = Again
    /\ whole = TRUE

Respond(code, start, n, body) ==
    /\ status' = code
    /\ want' = [start |-> start, n |-> n]
    /\ stream' = body
    /\ UNCHANGED <<source, header, unreadable, sent, last, whole>>

\* No Range header, or an encrypted file: 200 with the full body.
ServeFull ==
    /\ status = "none"
    /\ header = <<>> \/ (source = "encrypted" /\ Requested.ok)
    /\ Respond("200", 0, BodySize, NewStream)

\* The Range header is honoured: it is satisfiable and the file not encrypted.
Ranged == status = "none" /\ header # <<>> /\ Requested.ok /\ source # "encrypted"

ServeRange ==
    /\ Ranged
    /\ source = "plain" => AlignedAt(Requested.start, unreadable) <= Total(Plain)
    /\ Respond("206", Requested.start, ContentLength(Requested),
               IF source = "plain" THEN AlignedAt(Requested.start, unreadable)
               ELSE SeekMultipart(Requested.start))

\* It cannot be satisfied, aligning a plain file meets its end, or an article
\* to be skipped cannot be fetched.
RefuseRange ==
    /\ status = "none" /\ header # <<>>
    /\ ~Requested.ok \/ (source = "plain" /\ AlignedAt(Requested.start, unreadable) > Total(Plain))
    /\ Respond("416", 0, 0, Nothing)

FailToAlign ==
    /\ Ranged /\ source = "plain" /\ Requested.start # 0
    /\ FindSegment(Requested.start, unreadable).start < Requested.start
    /\ Respond("416", 0, 0, Nothing)

Serving == status \in {"200", "206"} /\ last.kind \notin {"end", "failed"}

\* What the stream answers a poll.
PollStream(limit) ==
    CASE source = "archive" -> PollMultipart(stream, limit)
      [] source = "encrypted" -> PollCipher(stream, limit)
      [] OTHER -> PollPlain(stream, limit)

Send(r) ==
    /\ stream' = r.state
    /\ last' = r.out
    /\ sent' = sent + r.out.n
    /\ whole' = (whole /\ (source = "encrypted" => (r.state.inner.pos - stream.inner.pos) % Block = 0))

\* A poll of the body.  A ranged body is limited to the length of its range.
Poll(room) ==
    LET limit == IF status = "206" THEN AtMost(room, want.n - sent) ELSE room IN
    /\ Serving
    /\ IF limit = 0 THEN last' = End /\ UNCHANGED <<stream, sent, whole>>
       ELSE \E r \in {PollStream(limit)} : Send(r)
    /\ UNCHANGED <<source, header, unreadable, status, want>>

\* An article cannot be fetched: the inner stream fails, and the body with it.
FailBody ==
    /\ Serving
    /\ last' = [Again EXCEPT !.kind = "failed"]
    /\ UNCHANGED <<source, header, unreadable, status, want, stream, sent, whole>>

BodyNext == ServeFull \/ ServeRange \/ RefuseRange \/ FailToAlign \/ (\E room \in Room : Poll(room)) \/ FailBody

BodySpec == BodyInit /\ [][BodyNext]_bodyVars

-----------------------------------------------------------------------------
(* Correctness.                                                             *)

\* Every byte of the last chunk is what is stored at its place in the body.
InPlace ==
    LET p == want.start + sent - last.n IN
    last.kind = "bytes" =>
        /\ last.good
        /\ IF source = "plain" THEN last.at = p
           ELSE \A i \in 0..(last.n - 1) : Stored(p + i) = [part |-> last.part, at |-> last.at + i]

\* A body ends with its last byte; that of a plain file, whose size is not
\* known, with the last of the file.
Complete ==
    last.kind = "end" => \/ sent = want.n
                         \/ source = "plain" /\ want.start + sent = Total(Plain)

\* The data of every volume lies in the articles of that volume.
VolumesHoldData ==
    \A i \in DOMAIN Volume : Volume[i].start + Volume[i].size <= Total(Volume[i].segs)

\* The headers lead to the segment of byte p of a plain file, as they do when
\* there are as many probes as segments.
Located(p, failing) ==
    \/ p = 0
    \/ failing = {} /\ Search(p, failing).index # Nothing
    \/ failing = {} /\ Segments <= Probes /\ p < Total(Plain)

(* Every byte of a body is the byte of the file it stands for and the body  *)
(* is as long as was promised, over parts, skips, seeks and small buffers:  *)
(* of a plain file from a place its headers lead to, of an encrypted one as *)
(* long as the cipher stream is handed whole blocks only.                   *)
BodyIsExact ==
    VolumesHoldData /\ whole /\ (source = "plain" => Located(want.start, unreadable))
        => InPlace /\ Complete

(* A body of an encrypted file is its plaintext, however the segments cut   *)
(* its cipher blocks: of a "Partial block" the cipher stream says "buffer   *)
(* what we have and try again".                                             *)
BodyIsPlaintext == source = "encrypted" => InPlace /\ Complete
=============================================================================
