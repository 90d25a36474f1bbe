--------------------------- MODULE ImportPipeline ---------------------------
(***************************************************************************)
(* One import from the NZB to the items it lists (nzbdav-pipeline): the     *)
(* first article of each file and the headers of each RAR volume are        *)
(* fetched by concurrent tasks, the index of each PAR2 set one by one, and  *)
(* what they tell is put together into items and PAR2 set records.          *)
(*                                                                         *)
(* The statements that write them are QueueManager's; here they are one     *)
(* step.  A fetch finds the article, misses it or fails otherwise.  Sizes   *)
(* of articles are counted in the units of RarHeaders.                      *)
(***************************************************************************)
EXTENDS NzbDocument, RarHeaders, FiniteSets, TLC

CONSTANTS
    Submission,      \* what is imported: [document, password, parallel]
    Content,      \* article id -> [post, part], a part of a posted file
    Post,         \* posted file -> [kind, hash, volume, number, group, descriptors, blocks]
    ArticleSize,  \* units an article decodes to
    ManySingles,  \* files of one article that make a release an obfuscated one (100)
    HeaderArticles, \* articles read for the headers of a volume (3)
    MaxIndexSize, \* bytes of a PAR2 index at most
    MaxIndexFetches, \* PAR2 indexes fetched at most (8)
    BlockSize,    \* bytes a recovery block takes in a PAR2 file
    VideoTypes, Blocklist, VideoRequired \* extensions, refused names, the check's switch

VARIABLES
    release,   \* what is imported
    job,       \* NzbJob: the files of the NZB and its password
    stage,     \* where process() is, or how it ended
    infos,     \* NzbFileInfo, in the order of completion and then of the NZB
    waiting,   \* tasks not done
    groups,    \* PAR2 groups to read
    index_sets, \* Par2IndexSet read
    unread,    \* PAR2 files of groups that were not read
    fetches,   \* indexes fetched
    results,   \* ProcessedFile of the volumes
    parsed,    \* volumes whose headers were read, for the properties
    imported   \* the items and records written

importVars == <<release, job, stage, infos, waiting, groups, index_sets, unread, fetches, results, parsed, imported>>

Files == job.files
NoHash == "none"

\* A file of an NZB.
ArticleType == [number : Nat, bytes : Nat, id : DOMAIN Content]
FileType == [name : Seq(STRING), articles : Seq(ArticleType), par2 : BOOLEAN]

\* Set ids and hashes are told from their absence, and no protected file
\* begins like the middle of one.
ASSUME ImportAssumption ==
    /\ {ArticleSize, HeaderArticles, MaxIndexFetches} \subseteq Nat
    /\ \A id \in DOMAIN Content : Content[id].post \in DOMAIN Post
    /\ \A p \in DOMAIN Post :
        /\ Post[p].group # NoHash
        /\ Post[p].kind = "rar" => Post[p].volume.blocks \in Seq(BlockType)
        /\ \A n \in DOMAIN Post[p].descriptors : Post[p].descriptors[n].hash \notin {NoHash, "other"}
    /\ \A s \in Submission : ParseNzb(s.document).files \in Seq(FileType)

-----------------------------------------------------------------------------
(* The files of the NZB.                                                    *)

Numbers(file) == {file.articles[k].number : k \in DOMAIN file.articles}

Greatest(numbers) == CHOOSE n \in numbers : \A other \in numbers : n >= other

\* sort_by_key of the segment number, stable.
SegmentIds(file) ==
    LET sorted == Sorted(file.articles, [k \in DOMAIN file.articles |-> file.articles[k].number])
    IN  [k \in DOMAIN sorted |-> sorted[k].id]

Bytes(file) == SumOf([k \in DOMAIN file.articles |-> file.articles[k].bytes])

\* The first article is not listed, or fewer than half of the others are.
Incomplete(file) ==
    /\ file.articles # <<>>
    /\ LET first == LeastIn(Numbers(file))
           expected == Greatest(Numbers(file)) - first + 1
       IN  first > 1 \/ Len(file.articles) < expected \div 2

MostlyIncomplete(files) ==
    (Len(SelectSeq(files, Incomplete)) * 100) \div Len(files) > 50

\* The fast mode drops files of one article from the files that are looked
\* into, and so numbers these anew.
Singles == {k \in DOMAIN Files : Len(Files[k].articles) <= 1}
Several == DOMAIN Files \ Singles
FastMode == Cardinality(Singles) > ManySingles /\ Cardinality(Singles) > Cardinality(Several)
Examined == IF FastMode THEN Selected(Files, Several) ELSE Files

Info(index, file) ==
    [index |-> index, name |-> file.name, size |-> Bytes(file), segments |-> SegmentIds(file),
     rar |-> FALSE, par2 |-> FALSE, hash |-> NoHash, head |-> NoHash, missing |-> FALSE]

-----------------------------------------------------------------------------
(* fetch_first_segments.                                                    *)

PostOf(id) == Post[Content[id].post]

\* fetch_single_first_segment: what the first bytes of a file's first article
\* tell, and the header of its first packet.
BeginsPost(id) == Content[id].part = 1
BeginsRar(id) == PostOf(id).kind = "rar" /\ BeginsPost(id)
HashOf(id) == IF BeginsPost(id) THEN PostOf(id).hash ELSE "other"
PacketSet(id) == IF PostOf(id).kind = "par2" /\ BeginsPost(id) THEN PostOf(id).group ELSE NoHash

Analysed(info, par2) ==
    LET first == info.segments[1]
    IN  [info EXCEPT !.rar = BeginsRar(first), !.par2 = par2, !.hash = HashOf(first),
                     !.head = PacketSet(first)]

\* fallback_file_info: what the name tells.
FromName(info, par2, outcome) ==
    [info EXCEPT !.rar = HasExtension(info.name, {".rar", ".r00"}), !.par2 = par2,
                 !.missing = outcome = "missing"]

ParseDocument ==
    /\ stage = "parse"
    /\ job' = ParseNzb(release.document)
    /\ IF ~job'.ok \/ MostlyIncomplete(job'.files)
       THEN stage' = "failed" /\ UNCHANGED waiting
       ELSE /\ stage' = "first"
            /\ waiting' = {k \in DOMAIN Examined' : Examined'[k].articles # <<>>}
    /\ UNCHANGED <<release, infos, groups, index_sets, unread, fetches, results, parsed, imported>>

\* With at most two connections one file follows the other.
FetchFirst(k, outcome) ==
    /\ stage = "first" /\ k \in waiting
    /\ release.parallel \/ k = LeastIn(waiting)
    /\ waiting' = waiting \ {k}
    /\ LET info == Info(k, Examined[k])
       IN  infos' = Append(infos, IF outcome = "found" THEN Analysed(info, Examined[k].par2)
                                  ELSE FromName(info, Examined[k].par2, outcome))
    /\ UNCHANGED <<release, job, stage, groups, index_sets, unread, fetches, results, parsed, imported>>

\* sort_by_key of the index.
ByIndex(s) == Sorted(s, [k \in DOMAIN s |-> s[k].index])

-----------------------------------------------------------------------------
(* get_par2_file_descriptors.                                               *)

\* The smallest of some files of a list, the first among equals.
SmallestOf(list, files) ==
    CHOOSE p \in files : \A q \in files :
        list[p].size < list[q].size \/ (list[p].size = list[q].size /\ p <= q)

\* The PAR2 files of a list, those with the set name of one, and of these
\* the ones that are no volumes.
Par2Files(list) == {k \in DOMAIN list : list[k].par2}
SetName(list, k) == Par2Name(list[k].name).set
Namesakes(list, k) == {j \in Par2Files(list) : SetName(list, j) = SetName(list, k)}
Plain(list, members) == {k \in members : ~Par2Name(list[k].name).volume}

\* A group is late if all its files are volumes.
Group(list, members) ==
    [members |-> members,
     late |-> IF Plain(list, members) = {} THEN 1 ELSE 0,
     index |-> SmallestOf(list, IF Plain(list, members) = {} THEN members ELSE Plain(list, members))]

\* Real indexes before others, then small ones before large ones.
Sooner(list, g, h) ==
    \/ g.late < h.late
    \/ g.late = h.late /\ list[g.index].size < list[h.index].size

\* group_par2_files: a group for each set name, its index candidate; sorted,
\* stably, from the order in which their first members are listed.
Groups(list) ==
    LET first == {k \in Par2Files(list) : \A j \in Namesakes(list, k) : k <= j}
        group == [k \in first |-> Group(list, Namesakes(list, k))]
        order == {pair \in first \X first :
                    \/ Sooner(list, group[pair[1]], group[pair[2]])
                    \/ ~Sooner(list, group[pair[2]], group[pair[1]]) /\ pair[1] < pair[2]}
    IN  Arranged(group, first, order)

CollectFirst ==
    /\ stage = "first" /\ waiting = {}
    /\ infos' = ByIndex(infos)
    /\ groups' = Groups(infos')
    /\ stage' = "index"
    /\ UNCHANGED <<release, job, waiting, index_sets, unread, fetches, results, parsed, imported>>

Known(id) == \E k \in DOMAIN index_sets : index_sets[k].id = id

\* The members join the set of an id that was read before.
Join(group, id) ==
    /\ index_sets' = [k \in DOMAIN index_sets |->
            IF index_sets[k].id = id THEN [index_sets[k] EXCEPT !.members = @ \union group.members]
            ELSE index_sets[k]]
    /\ UNCHANGED unread

SkipIndex(group) == unread' = unread \union group.members /\ UNCHANGED index_sets

\* A set of its own (alone, a mutant of KeepSet: the id is not looked up).
PushSet(group, id) ==
    /\ index_sets' = Append(index_sets, [id |-> id, index |-> group.index, members |-> group.members])
    /\ UNCHANGED unread

\* An index that was read and parsed.
KeepSet(group, id) == IF Known(id) THEN Join(group, id) ELSE PushSet(group, id)

\* The next group.  The first index must be there; one that does not parse
\* is skipped, like one that cannot be fetched later.
ReadGroup(outcome) ==
    /\ stage = "index" /\ groups # <<>>
    /\ groups' = Tail(groups)
    /\ LET group == Head(groups)
           info == infos[group.index]
           fetched == info.size <= MaxIndexSize /\ ~Known(info.head) /\ fetches < MaxIndexFetches
           post == PostOf(info.segments[1])
       IN  /\ fetches' = fetches + (IF fetched THEN 1 ELSE 0)
           /\ stage' = IF fetched /\ outcome # "found" /\ fetches = 0 THEN "failed" ELSE stage
           /\ IF info.size > MaxIndexSize THEN SkipIndex(group)
              ELSE IF Known(info.head) THEN Join(group, info.head)
              ELSE IF fetched /\ outcome = "found" /\ post.kind = "par2" /\ post.descriptors # <<>>
              THEN KeepSet(group, post.group)
              ELSE SkipIndex(group)
    /\ UNCHANGED <<release, job, infos, waiting, results, parsed, imported>>

-----------------------------------------------------------------------------
(* get_file_infos, and the two kinds of files.                              *)

Descriptors == FlattenSeq([k \in DOMAIN index_sets |-> PostOf(infos[index_sets[k].index].segments[1]).descriptors])

\* The real name, if a descriptor has the hash.
Resolved(info) ==
    LET matches == SelectSeq(Descriptors, LAMBDA d : d.hash = info.hash)
    IN  IF info.hash = NoHash \/ matches = <<>> THEN info ELSE [info EXCEPT !.name = matches[1].name]

SkippedSingles ==
    IF FastMode
    THEN LET at == Ordered(Singles, Stably(Singles, [k \in Singles |-> k]))
         IN  [n \in DOMAIN at |-> Info(at[n], Files[at[n]])]
    ELSE <<>>

RarInfos(list) == Selected(list, {k \in DOMAIN list : list[k].rar})

\* Files that no set could be told for belong to the only set there is.
Resolve ==
    /\ stage = "index" /\ groups = <<>>
    /\ index_sets' = IF Len(index_sets) = 1 THEN [index_sets EXCEPT ![1].members = @ \union unread] ELSE index_sets
    /\ infos' = [k \in DOMAIN infos |-> Resolved(infos[k])] \o SkippedSingles
    /\ stage' = IF RarInfos(infos') = <<>> THEN "aggregate" ELSE "probe"
    /\ UNCHANGED <<release, job, waiting, groups, unread, fetches, results, parsed, imported>>

-----------------------------------------------------------------------------
(* process_rar_files.                                                       *)

Password == IF release.password # "" THEN release.password ELSE job.password

Fewer(a, b) == IF a < b THEN a ELSE b

\* fetch_and_parse_rar, all articles there: only the first few are read.
HeadersOf(info) ==
    LET post == PostOf(info.segments[1])
        units == Fewer(HeaderArticles, Len(info.segments)) * ArticleSize
    IN  IF BeginsRar(info.segments[1])
        THEN ParseHeaders(post.volume, units, Password)
        ELSE [ok |-> FALSE, why |-> "signature", files |-> <<>>]

\* The members of a volume that are no directories, as ProcessedFile.
Processed(info, files) ==
    LET members == Selected(files, {k \in DOMAIN files : ~files[k].directory})
    IN  [k \in DOMAIN members |-> [name |-> members[k].name, index |-> info.index,
                                   encrypted |-> members[k].encrypted, segments |-> info.segments,
                                   start |-> members[k].start, size |-> members[k].size]]

\* The first volume tells whether the others are worth a try: no member is
\* listed when its articles cannot be had for another reason than missing.
ProbeVolume(outcome) ==
    /\ stage = "probe"
    /\ LET all == RarInfos(infos)
           headers == HeadersOf(all[1])
           failed == outcome = "missing" \/ (outcome = "found" /\ ~headers.ok)
           read == outcome = "found" /\ headers.ok
       IN  /\ stage' = IF failed THEN "failed" ELSE IF read /\ Len(all) > 1 THEN "volumes" ELSE "aggregate"
           /\ results' = IF read THEN Processed(all[1], headers.files) ELSE results
           /\ parsed' = IF read THEN {all[1].index} ELSE parsed
           /\ waiting' = IF read THEN 2..Len(all) ELSE {}
    /\ UNCHANGED <<release, job, infos, groups, index_sets, unread, fetches, imported>>

\* A volume that cannot be had or read is left out.
ParseVolume(k, outcome) ==
    /\ stage = "volumes" /\ k \in waiting
    /\ waiting' = waiting \ {k}
    /\ LET info == RarInfos(infos)[k]
           headers == HeadersOf(info)
           read == outcome = "found" /\ headers.ok
       IN  /\ results' = IF read THEN results \o Processed(info, headers.files) ELSE results
           /\ parsed' = IF read THEN parsed \union {info.index} ELSE parsed
    /\ UNCHANGED <<release, job, stage, infos, groups, index_sets, unread, fetches, imported>>

\* Mutant of CollectVolumes: the results stay in the order the tasks ended.
CollectAsEnded ==
    /\ stage = "volumes" /\ waiting = {}
    /\ stage' = "aggregate"
    /\ UNCHANGED <<release, job, infos, waiting, groups, index_sets, unread, fetches, results, parsed, imported>>

\* Sorted by source file: FileHeader::volume_number, the second key here and
\* the only one of aggregate_rar_files, is None in what both parsers return.
CollectVolumes ==
    /\ stage = "volumes" /\ waiting = {}
    /\ results' = ByIndex(results)
    /\ stage' = "aggregate"
    /\ UNCHANGED <<release, job, infos, waiting, groups, index_sets, unread, fetches, parsed, imported>>

-----------------------------------------------------------------------------
(* The aggregators and the post-processors.                                 *)

\* dav_leaf_name: the last component that is none of "", "." and "..".
LeafName(name) ==
    LET Part(from, to) == SubSeq(name, from, to)
        ends == {n \in 0..Len(name) : n = Len(name) \/ name[n + 1] \in Separator}
        starts == {n \in 1..(Len(name) + 1) : n = 1 \/ name[n - 1] \in Separator}
        parts == {p \in starts \X ends :
                    /\ \A n \in p[1]..p[2] : name[n] \notin Separator
                    /\ Part(p[1], p[2]) \notin {<<>>, <<".">>, <<".", ".">>}}
    IN  IF parts = {} THEN <<"download", ".bin">>
        ELSE LET last == CHOOSE p \in parts : \A q \in parts : q[1] <= p[1]
             IN  Part(last[1], last[2])

\* aggregate_rar_files: one item a name, its parts laid out one after the
\* other as they come, since none has a volume number to be sorted by.
\* `offset` is where a part begins in the file.
PartsOf(name) ==
    LET own == Selected(results, {k \in DOMAIN results : results[k].name = name})
        Offset(k) == SumOf([j \in 1..(k - 1) |-> own[j].size])
    IN  [k \in DOMAIN own |-> [index |-> own[k].index, segments |-> own[k].segments,
                               start |-> own[k].start, size |-> own[k].size, offset |-> Offset(k)]]

Names == {results[k].name : k \in DOMAIN results}

RarItems(order) ==
    [k \in DOMAIN order |-> [name |-> LeafName(order[k]), member |-> order[k], parts |-> PartsOf(order[k])]]

\* process_plain_files and aggregate_plain_files: one part each.
PlainItems ==
    LET plain == Selected(infos, {k \in DOMAIN infos : ~infos[k].rar /\ ~infos[k].par2})
    IN  [k \in DOMAIN plain |->
            [name |-> LeafName(plain[k].name), member |-> <<>>,
             parts |-> <<[index |-> plain[k].index, segments |-> plain[k].segments,
                          start |-> 0, size |-> plain[k].size, offset |-> 0]>>]]

\* split_name_ext: the last token is the extension, a name of one has none.
Numbered(name, count) ==
    IF Len(name) > 1 THEN Front(name) \o <<count, Last(name)>> ELSE Append(name, count)

\* rename_duplicates: the second of a name gets a number, also one that
\* another item has.
Renamed(items) ==
    [k \in DOMAIN items |->
        LET n == Cardinality({j \in 1..k : items[j].name = items[k].name})
            count == " (" \o ToString(n) \o ")"
        IN  IF n = 1 THEN items[k] ELSE [items[k] EXCEPT !.name = Numbered(@, count)]]

Video(item) == Len(item.name) > 1 /\ HasExtension(item.name, VideoTypes)

\* create_strm_items.
Strms(items) ==
    LET videos == SelectSeq(items, Video)
    IN  [k \in DOMAIN videos |-> [name |-> Append(Front(videos[k].name), ".strm"), member |-> <<>>,
                                  parts |-> <<>>]]

-----------------------------------------------------------------------------
(* The PAR2 set records.                                                    *)

Articles(item) == UNION {ToSet(item.parts[k].segments) : k \in DOMAIN item.parts}

\* carrier_of: the first file with the hash, one of the right name before
\* others.
Carrier(descriptor) ==
    LET matches == {k \in DOMAIN infos : ~infos[k].par2 /\ infos[k].hash = descriptor.hash}
        named == {k \in matches : infos[k].name = descriptor.name}
    IN  IF matches = {} THEN <<>>
        ELSE <<infos[LeastIn(IF named # {} THEN named ELSE matches)]>>

\* volume_record: the blocks counted, named or estimated from the size.
Blocks(set, k) ==
    LET info == infos[k]
        post == PostOf(info.segments[1])
    IN  IF k = set.index THEN post.blocks
        ELSE IF Par2Name(info.name).volume THEN Par2Name(info.name).blocks
        ELSE (info.size + BlockSize \div 2) \div BlockSize

\* build_record, over the items that survive the blocklist.
RecordOf(set, items) ==
    LET protected == PostOf(infos[set.index].segments[1]).descriptors
        Readers(info) == {k \in DOMAIN items : Articles(items[k]) \intersect ToSet(info.segments) # {}}
    IN  [id |-> set.id,
         files |-> [n \in DOMAIN protected |->
            LET carrier == Carrier(protected[n])
            IN  [hash |-> protected[n].hash, carrier |-> carrier,
                 items |-> IF carrier = <<>> THEN {} ELSE Readers(carrier[1])]],
         volumes |-> {k \in set.members : Blocks(set, k) > 0}]

\* The code takes the groups of a map and sorts their items by leaf name.  Any
\* order stands for it here: how names compare is not modelled.
Aggregate(order) ==
    /\ stage = "aggregate"
    /\ ToSet(order) = Names /\ Len(order) = Cardinality(Names)
    /\ LET renamed == Renamed(RarItems(order) \o PlainItems)
           items == Selected(renamed, {k \in DOMAIN renamed : renamed[k].name \notin Blocklist})
           importable == ~VideoRequired \/ \E k \in DOMAIN items : Video(items[k])
       IN  IF importable
           THEN /\ stage' = "done"
                /\ imported' = [items |-> items, strms |-> Strms(items),
                                records |-> [k \in DOMAIN index_sets |-> RecordOf(index_sets[k], items)]]
           ELSE stage' = "failed" /\ UNCHANGED imported
    /\ UNCHANGED <<release, job, infos, waiting, groups, index_sets, unread, fetches, results, parsed>>

-----------------------------------------------------------------------------

ImportInit ==
    /\ release \in Submission
    /\ job = [ok |-> FALSE, files |-> <<>>, password |-> ""]
    /\ stage = "parse"
    /\ infos = <<>> /\ waiting = {}
    /\ groups = <<>> /\ index_sets = <<>> /\ unread = {} /\ fetches = 0
    /\ results = <<>> /\ parsed = {}
    /\ imported = [items |-> <<>>, strms |-> <<>>, records |-> <<>>]

ImportNext ==
    \/ ParseDocument \/ CollectFirst \/ Resolve \/ CollectVolumes
    \/ \E outcome \in {"found", "missing", "error"} :
        \/ \E k \in waiting : FetchFirst(k, outcome) \/ ParseVolume(k, outcome)
        \/ ReadGroup(outcome)
        \/ ProbeVolume(outcome)
    \/ \E order \in SetToSeqs(Names) : Aggregate(order)

ImportSpec == ImportInit /\ [][ImportNext]_importVars

-----------------------------------------------------------------------------
(* Correctness.                                                             *)

VolumeOf(index) == PostOf(SegmentIds(Examined[index])[1]).volume

\* Nothing is encrypted before the members of a volume.
InClear(index) == \A k \in DOMAIN VolumeOf(index).blocks : VolumeOf(index).blocks[k].type # "encryption"

\* The members in the part of a volume that is read, on the wire.
OnWire(index) ==
    LET blocks == VolumeOf(index).blocks
        read == Fewer(HeaderArticles, Len(Examined[index].articles)) * ArticleSize
    IN  {k \in DOMAIN blocks : /\ blocks[k].type = "file" /\ ~blocks[k].directory
                               /\ BlockAt(blocks, Magic, k) + Header <= read
                               /\ \A j \in 1..k : blocks[j].type # "end"}

\* A part is the data of the k-th block of a volume.
IsBlock(part, index, k) ==
    /\ part.index = index
    /\ part.start = BlockAt(VolumeOf(index).blocks, Magic, k) + Header
    /\ part.size = VolumeOf(index).blocks[k].data

\* The number of a posted volume in its archive.
NumberOf(index) == PostOf(SegmentIds(Examined[index])[1]).number

\* The volumes that were read and have a part of a member.
VolumesWith(name) ==
    {index \in parsed : \E b \in OnWire(index) : VolumeOf(index).blocks[b].name = name}

\* The NZB lists the volumes of a member in the order of their numbers.
ListedByNumber(name) ==
    \A i, j \in VolumesWith(name) : i < j => NumberOf(i) < NumberOf(j)

\* Parts of a member in the order it was cut in.
InVolumeOrder(parts) ==
    \A m, n \in DOMAIN parts : m < n =>
        \/ NumberOf(parts[m].index) < NumberOf(parts[n].index)
        \/ parts[m].index = parts[n].index /\ parts[m].start < parts[n].start

\* The articles of a posted file are numbered as they were posted.
NumbersTellParts ==
    \A f \in DOMAIN Files : \A j, k \in DOMAIN Files[f].articles :
        LET one == Files[f].articles[j]
            other == Files[f].articles[k]
        IN  /\ Content[one.id].post = Content[other.id].post
            /\ one.number < other.number => Content[one.id].part < Content[other.id].part
            /\ one.number = other.number => j = k

(* Whatever order the tasks end in and whichever volumes they fail to read,  *)
(* an archive's member becomes one item: it has a part for each place it     *)
(* takes in the volumes that were read and no other, laid out without a gap, *)
(* in the order of the volumes' numbers as far as the NZB lists them so, and *)
(* within a volume in that of the wire; and the articles of each part are    *)
(* those of one posted file, in posting order, as far as the NZB numbers     *)
(* them so.  (Members behind encrypted headers are placed in the decrypted   *)
(* buffer, see README.)                                                      *)
ItemsAreTheArchive ==
    stage = "done" =>
        /\ (\A index \in parsed : InClear(index)) =>
            LET items == imported.items
                members == {k \in DOMAIN items : items[k].member # <<>>}
            IN  /\ \A j, k \in members : items[j].member = items[k].member => j = k
                /\ \A k \in members :
                     LET parts == items[k].parts
                     IN  /\ \A n \in DOMAIN parts : \E index \in parsed : \E b \in OnWire(index) :
                              /\ VolumeOf(index).blocks[b].name = items[k].member
                              /\ IsBlock(parts[n], index, b)
                         /\ \A index \in parsed : \A b \in OnWire(index) :
                              VolumeOf(index).blocks[b].name = items[k].member =>
                                \E n \in DOMAIN parts : IsBlock(parts[n], index, b)
                         /\ ListedByNumber(items[k].member) => InVolumeOrder(parts)
                         /\ \A n \in DOMAIN parts :
                              parts[n].offset = IF n = 1 THEN 0 ELSE parts[n - 1].offset + parts[n - 1].size
        /\ NumbersTellParts =>
            \A k \in DOMAIN imported.items : \A n \in DOMAIN imported.items[k].parts :
                LET ids == imported.items[k].parts[n].segments
                IN  \A i, j \in DOMAIN ids :
                        /\ Content[ids[i]].post = Content[ids[j]].post
                        /\ i < j => Content[ids[i]].part < Content[ids[j]].part

(* However the NZB lists the volumes: the parts of a split file are in the   *)
(* order of the volumes' numbers, by which the header of aggregate_rar_files *)
(* says they are sorted.                                                     *)
SplitFilesInOrder ==
    stage = "done" /\ (\A index \in parsed : InClear(index)) =>
        \A k \in DOMAIN imported.items :
            imported.items[k].member # <<>> => InVolumeOrder(imported.items[k].parts)

\* PAR2 files that are named for one set are of one.
NamesTellSets ==
    \A j, k \in DOMAIN Examined :
        /\ Examined[j].par2 /\ Examined[j].articles # <<>>
        /\ Examined[k].par2 /\ Examined[k].articles # <<>>
        /\ SetName(Examined, j) = SetName(Examined, k)
        => PostOf(SegmentIds(Examined[j])[1]).group = PostOf(SegmentIds(Examined[k])[1]).group

\* What a file of the import begins with.
Begins(info, hash) == BeginsPost(info.segments[1]) /\ PostOf(info.segments[1]).hash = hash

\* An item that has an article of the carrier, if there is one.
Reads(item, carrier) ==
    carrier # <<>> /\ Articles(item) \intersect ToSet(carrier[1].segments) # {}

(* A release's PAR2 sets are recorded once each, a PAR2 file in one of them,  *)
(* and in that of its own packets unless its index was never read, however  *)
(* many names a set has (as long as a name has one set); a protected file is *)
(* carried by a file whose first article has its hash, and the items named   *)
(* for it are those of the import that read that file.                       *)
RecordsAreTrue ==
    stage = "done" =>
        LET records == imported.records
        IN  /\ fetches <= MaxIndexFetches
            /\ \A j, k \in DOMAIN records : j # k =>
                 /\ records[j].id # records[k].id
                 /\ records[j].volumes \intersect records[k].volumes = {}
            /\ \A k \in DOMAIN records :
                 /\ NamesTellSets => \A v \in records[k].volumes \ unread :
                        PostOf(infos[v].segments[1]).group = records[k].id
                 /\ \A n \in DOMAIN records[k].files :
                      LET file == records[k].files[n]
                      IN  /\ file.carrier # <<>> => Begins(file.carrier[1], file.hash)
                          /\ file.items \subseteq DOMAIN imported.items
                          /\ \A i \in DOMAIN imported.items :
                                i \in file.items <=> Reads(imported.items[i], file.carrier)
=============================================================================
