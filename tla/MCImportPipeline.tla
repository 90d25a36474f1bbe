-------------------------- MODULE MCImportPipeline --------------------------
EXTENDS ImportPipeline

Subject(name) == [quoted |-> name, marks |-> {}, word |-> <<>>, rest |-> <<>>]
Loose(name) == [quoted |-> <<>>, marks |-> {"."}, word |-> name, rest |-> <<"x">>]

Tag(tag) == [tag |-> tag]
Segment(n, id, as) == <<[tag |-> "segment", number |-> n, bytes |-> 2], [tag |-> as, value |-> id]>>

FileEvents(subject, segments) ==
    <<[tag |-> "file", subject |-> subject], Tag("groups"), [tag |-> "text", value |-> "alt"],
      Tag("/groups"), Tag("segments")>>
    \o segments \o <<Tag("/segments"), Tag("/file")>>

Nzb1(sniffed, events) == [sniffed |-> sniffed, events |-> events]

RarBlock(type, name, data) ==
    [type |-> type, name |-> name, data |-> data, directory |-> FALSE, method |-> "store",
     encrypted |-> FALSE, sound |-> TRUE]

Movie == <<"d", "\\", "movie", ".mkv">>
Sub == <<"sub", ".srt">>

Rar(number, version, password, blocks) ==
    [kind |-> "rar", hash |-> "r", group |-> "", descriptors |-> <<>>, blocks |-> 0, number |-> number,
     volume |-> [version |-> version, password |-> password, blocks |-> blocks]]
PlainPost(hash) == [Rar(0, "", "", <<>>) EXCEPT !.kind = "plain", !.hash = hash]
Par2(group, descriptors, blocks) ==
    [Rar(0, "", "", <<>>) EXCEPT !.kind = "par2", !.group = group, !.descriptors = descriptors, !.blocks = blocks]

Desc(hash, name) == [hash |-> hash, name |-> name]
Protected == <<Desc("m1", <<"movie", ".mkv">>)>>
Other == <<Desc("m2", <<"movie", ".mkv">>)>>

MCPost ==
    [va |-> Rar(0, "rar5", "", <<RarBlock("archive", <<>>, 0), RarBlock("file", Movie, 2), RarBlock("end", <<>>, 0)>>),
     vb |-> Rar(1, "rar5", "", <<RarBlock("archive", <<>>, 0), RarBlock("service", <<>>, 1), RarBlock("file", Movie, 1),
                             [RarBlock("file", <<"d">>, 0) EXCEPT !.directory = TRUE],
                             RarBlock("file", Sub, 1), RarBlock("file", Movie, 1), RarBlock("end", <<>>, 0)>>),
     vc |-> Rar(2, "rar4", "", <<RarBlock("archive", <<>>, 0), RarBlock("file", Movie, 9), RarBlock("file", Sub, 1)>>),
     ve |-> Rar(0, "rar5", "pw", <<RarBlock("encryption", <<>>, 0), RarBlock("archive", <<>>, 0),
                               RarBlock("file", Movie, 2), RarBlock("end", <<>>, 0)>>),
     m1 |-> PlainPost("m1"), m2 |-> PlainPost("m2"), nf |-> PlainPost("nf"),
     pa |-> Par2("A", Protected, 0), pv |-> Par2("A", Protected, 1), pq |-> Par2("A", Protected, 2),
     pb |-> Par2("B", Other, 0), pz |-> Par2("B", Other, 3)]

Parts3 == {"va", "vb", "vc"}
MCContent ==
    [id \in {<<p, k>> : p \in DOMAIN MCPost, k \in 1..7} |-> [post |-> id[1], part |-> id[2]]]

\* A file of n articles, listed from the last to the first.
Listed(p, n, as) ==
    FlattenSeq([k \in 1..n |-> Segment(n + 1 - k, <<p, n + 1 - k>>, as)])

BadSegments == <<[tag |-> "segment", number |-> 0, bytes |-> 2], [tag |-> "text", value |-> <<"nf", 5>>],
         [tag |-> "segment", number |-> 9, bytes |-> 0], Tag("empty")>>

Archive ==
    FileEvents(Subject(<<"r", ":", ".r00">>), Listed("va", 5, "text"))
    \o FileEvents(Subject(<<"a", ".rar">>), Listed("vb", 7, "cdata") \o BadSegments)
    \o FileEvents(Loose(<<"b", ".rar">>), Listed("vc", 7, "text"))

\* The second volume is listed before the first.
Shuffled ==
    FileEvents(Subject(<<"a", ".rar">>), Listed("vb", 7, "text"))
    \o FileEvents(Subject(<<"r", ".r00">>), Listed("va", 5, "text"))

Recovery ==
    FileEvents(Subject(<<"x", ".par2">>), Listed("pa", 1, "text"))
    \o FileEvents(Subject(<<"x", ".vol0+1", ".par2">>), Listed("pv", 2, "text"))
    \o FileEvents(Subject(<<"q", ".par2">>), Listed("pq", 1, "text"))
    \o FileEvents(Subject(<<"y", ".par2">>), Listed("pb", 1, "text"))
    \o FileEvents(Subject(<<"z", ".par2">>), Listed("pz", 4, "text"))
    \o FileEvents(Subject(<<"1f">>), Listed("m1", 2, "text"))
    \o FileEvents(Subject(<<"movie", ".mkv">>), Listed("m2", 2, "text"))

Locked ==
    <<Tag("password"), [tag |-> "text", value |-> "pw"]>>
    \o FileEvents(Subject(<<"v", ".rar">>), Listed("ve", 5, "text"))

EmptyPassword ==
    <<Tag("password")>> \o FileEvents(Subject(<<"v", ".rar">>), Listed("ve", 5, "text"))

Singles3 ==
    FileEvents(Subject(<<"one", ".mkv">>), Listed("m1", 1, "text"))
    \o FileEvents(Subject(<<"two", ".mkv">>), Listed("m2", 1, "text"))
    \o FileEvents(Subject(<<"three", ".mkv">>), Listed("nf", 2, "text"))

Holed ==
    FileEvents(Subject(<<"m", ".mkv">>), Segment(3, <<"m1", 3>>, "text"))

A(document, password, parallel) == [document |-> document, password |-> password, parallel |-> parallel]

MCRelease ==
    {A(Nzb1("xml", Archive), "", TRUE),
     A(Nzb1("xml", Shuffled), "", FALSE),
     A(Nzb1("xml", Recovery), "", FALSE),
     A(Nzb1("xml", Locked), "", TRUE),
     A(Nzb1("xml", Locked), "guess", TRUE),
     A(Nzb1("xml", EmptyPassword), "", TRUE),
     A(Nzb1("xml", EmptyPassword), "pw", TRUE),
     A(Nzb1("xml", Singles3), "", TRUE),
     A(Nzb1("xml", Holed), "", TRUE),
     A(Nzb1("html", <<>>), "", TRUE),
     A(Nzb1("xml", Append(Holed, Tag("error"))), "", TRUE)}
MCVideo == {".mkv"}
MCBlocklist == {<<"sub", ".srt">>}
=============================================================================
