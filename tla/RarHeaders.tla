----------------------------- MODULE RarHeaders -----------------------------
(***************************************************************************)
(* Reading the headers of a RAR volume from the bytes of its first          *)
(* articles (nzbdav-rar parser.rs, rar4.rs, rar5.rs, crypto.rs).            *)
(*                                                                         *)
(* A volume is [version, blocks].  A block has a type ("archive", "file",   *)
(* "service", "end", "encryption", "unknown"), a header of Header units and *)
(* data of `data` units, of 16 bytes each, so that whole units are whole    *)
(* cipher blocks.  The first unit of a header holds its checksum and size   *)
(* (RAR4: the base header), the second its fixed fields, the third the      *)
(* rest.                                                                    *)
(***************************************************************************)
EXTENDS Naturals, SequencesExt, Lists

Magic == 1    \* units of the signature
Header == 3   \* units of a header
Vector == 1   \* units of the initialization vector of encrypted headers

\* A block; the name, data, method and flags are those of files.
BlockType ==
    [type : {"archive", "file", "service", "end", "encryption", "unknown"}, name : Seq(STRING), data : Nat,
     directory : BOOLEAN, method : STRING, encrypted : BOOLEAN, sound : BOOLEAN]

\* The sum of what a function gives.
SumOf(f) == MapThenSumSet(LAMBDA x : f[x], DOMAIN f)

\* The least of some numbers.
LeastIn(numbers) == CHOOSE n \in numbers : \A other \in numbers : n <= other

\* parse_rar4_file_header, parse_rar5_file_header: no volume number either way.
FileHeader(block, position) ==
    [name |-> block.name, directory |-> block.directory, method |-> block.method,
     encrypted |-> block.encrypted, start |-> position + Header, size |-> block.data]

\* Where the seek past each block before the k-th leads, from the first one on.
BlockAt(blocks, from, k) == from + SumOf([j \in 1..(k - 1) |-> Header + blocks[j].data])

\* A header whose first unit is there and the rest is not: an error, but
\* the end of what was decrypted when only its last unit is missing.
CutShort(here, available, source) ==
    IF source = "decrypted" /\ available - here >= Header - 1 THEN "end" ELSE "io"

\* Why the walk stops at a block, if it does.  RAR4 checks no checksum, and
\* what was decrypted ends with the first that is wrong.
Stop(block, here, available, version, source) ==
    IF available < here + 1 THEN "end"
    ELSE IF available < here + Header THEN CutShort(here, available, source)
    ELSE IF version = "rar5" /\ ~block.sound THEN (IF source = "decrypted" THEN "end" ELSE "checksum")
    ELSE IF block.type = "end" THEN "end"
    ELSE IF block.type = "encryption" THEN "encrypted"
    ELSE "none"

\* The walk over the blocks on the wire or in the decrypted buffer: where it
\* ends, the files before that, and why.
Walked(blocks, from, available, version, source) ==
    LET at == [k \in 1..(Len(blocks) + 1) |-> BlockAt(blocks, from, k)]
        why == [k \in DOMAIN blocks |-> Stop(blocks[k], at[k], available, version, source)]
        last == LeastIn({k \in DOMAIN blocks : why[k] # "none"} \union {Len(blocks) + 1})
        header == [k \in DOMAIN blocks |-> FileHeader(blocks[k], at[k])]
    IN  [position |-> at[last],
         found |-> Selected(header, {k \in 1..(last - 1) : blocks[k].type = "file"}),
         stop |-> IF last \in DOMAIN blocks THEN why[last] ELSE "none"]

\* The blocks behind the encryption header.
Hidden(blocks) ==
    LET at == CHOOSE k \in DOMAIN blocks : /\ blocks[k].type = "encryption"
                                           /\ \A j \in 1..(k - 1) : blocks[j].type # "encryption"
    IN  SubSeq(blocks, at + 1, Len(blocks))

\* derive_rar5_key, decrypt_rar5_headers and parse_rar5_headers_from_data: all
\* that follows the header and its vector is decrypted into a buffer of its
\* own, and positions are positions in that buffer.
Unlocked(volume, walk, available, password) ==
    LET rest == available - (walk.position + Header)
        hidden == Hidden(volume.blocks)
        opened == Walked(hidden, 0, rest - Vector, "rar5", "decrypted")
        right == password = volume.password /\ rest >= Vector + Header /\ hidden # <<>> /\ hidden[1].sound
    IN  IF volume.version = "rar4" \/ password = "" THEN walk
        ELSE IF right THEN [opened EXCEPT !.found = walk.found \o @]
        ELSE [walk EXCEPT !.stop = "password"]

\* parse_headers: the file headers, all of them stored, or why not.
ParseHeaders(volume, available, password) ==
    LET plain == Walked(volume.blocks, Magic, available, volume.version, "wire")
        all == IF plain.stop = "encrypted" THEN Unlocked(volume, plain, available, password) ELSE plain
        stored == \A k \in DOMAIN all.found : all.found[k].method = "store"
    IN  IF all.stop \notin {"none", "end"} THEN [ok |-> FALSE, why |-> all.stop, files |-> <<>>]
        ELSE IF ~stored THEN [ok |-> FALSE, why |-> "method", files |-> <<>>]
        ELSE [ok |-> TRUE, why |-> "none", files |-> all.found]
=============================================================================
