------------------------------- MODULE DavTree -------------------------------
(***************************************************************************)
(* The WebDAV tree: rows of dav_items (nzbdav-core dav_items.rs, db.rs,    *)
(* sqlite_db.rs), the methods of nzbdav-dav store.rs and handler.rs on     *)
(* them, the root items of seed.rs, and the imports and history deletions  *)
(* that add and remove rows.                                               *)
(*                                                                         *)
(* A path is its names and whether it ends in a slash; directories are     *)
(* stored with the slash.  A method is as many steps as other requests can *)
(* come between its database calls; a row's id is never reused.  Foreign   *)
(* keys and INSERT OR REPLACE are SQLite's, external.                      *)
(***************************************************************************)
EXTENDS Naturals, FiniteSets, Sequences, Functions

CONSTANTS
    Client,      \* connections with a request each
    Upload,      \* requests clients make: method, path and destination
    NewId,       \* ids that rows may get, numbers
    MountedRelease, \* releases that are imported
    MountPath    \* per release, the path of its file in a category

VARIABLES
    rows,        \* dav_items
    asked,       \* per client, the request under way
    listed       \* queue_items, by file name

davVars == <<rows, asked, listed>>

NoRow == 0       \* no parent
RootId == 1
NzbsId == 2
ContentId == 3
Seeded == {RootId, NzbsId, ContentId}

Path(at, slash) == [at |-> at, slash |-> slash]
Paths == [at : Seq(STRING), slash : BOOLEAN]

ASSUME DavAssumption ==
    /\ IsFiniteSet(NewId) /\ NewId \subseteq Nat \ (Seeded \union {NoRow})
    /\ MountPath \in [MountedRelease -> Seq(STRING) \ {<<>>}]
    /\ Upload \subseteq [method : {"MKCOL", "PUT", "MOVE", "COPY", "DELETE"}, from : Paths, to : Paths]

\* split_path: the parent always ends in a slash; the name does not count it.
ParentOf(p) == Path(SubSeq(p.at, 1, Len(p.at) - 1), TRUE)
NameOf(p) == p.at[Len(p.at)]

Row(parent, p, kind, release, nzb) ==
    [parent |-> parent, name |-> IF p.at = <<>> THEN "" ELSE NameOf(p), path |-> p,
     kind |-> kind, release |-> release, nzb |-> nzb]

NoRelease == "none"

-----------------------------------------------------------------------------
(* The database.                                                            *)

ChildrenIn(R, id) == {x \in DOMAIN R : R[x].parent = id}

\* ON DELETE CASCADE: a row and all below it.
Subtree(R, top) ==
    LET upTo[n \in 0..Cardinality(DOMAIN R)] ==
            IF n = 0 THEN top
            ELSE LET above == upTo[n - 1]
                 IN  above \union {x \in DOMAIN R : R[x].parent \in above}
    IN  upTo[Cardinality(DOMAIN R)]

Without(R, top) == Restrict(R, DOMAIN R \ Subtree(R, top))

\* The row a unique (parent, name) puts in the way.
Clashing(R, row) == {x \in DOMAIN R : R[x].parent = row.parent /\ R[x].name = row.name}

\* INSERT OR REPLACE; a parent that is gone fails the foreign key.
CanInsert(R, row) == row.parent = NoRow \/ row.parent \in DOMAIN Without(R, Clashing(R, row))

Inserted(R, id, row) ==
    LET kept == Without(R, Clashing(R, row))
    IN  [x \in DOMAIN kept \union {id} |-> IF x = id THEN row ELSE kept[x]]

AtPath(p) == {x \in DOMAIN rows : rows[x].path = p}

-----------------------------------------------------------------------------
(* What the methods read.                                                   *)

\* get_node: the path, the path with a slash, or an NZB in the queue.
GetNode(p) ==
    IF AtPath(p) # {} THEN AtPath(p)
    ELSE IF ~p.slash /\ AtPath(Path(p.at, TRUE)) # {} THEN AtPath(Path(p.at, TRUE))
    ELSE {}

InQueue(p) == Len(p.at) = 2 /\ ~p.slash /\ p.at[1] = "nzbs" /\ p.at[2] \in listed

\* list_children, of a collection named with or without its slash.
ListChildren(p) ==
    UNION {ChildrenIn(rows, d) : d \in AtPath(Path(p.at, TRUE))}

\* multistatus_xml: below the mount a child's href is its own path.
Href(x) == rows[x].path

\* GET and HEAD open a file; a directory or nothing is refused.
Opens(p) == \/ \E x \in GetNode(p) : rows[x].kind # "Directory"
            \/ GetNode(p) = {} /\ InQueue(p)

-----------------------------------------------------------------------------
(* The methods.                                                             *)

NoNode == [method |-> "none", item |-> NoRow, parent |-> NoRow]

Receive(c, u) ==
    /\ asked[c] = NoNode
    /\ asked' = [asked EXCEPT ![c] = [method |-> u.method, from |-> u.from, to |-> u.to,
                                      step |-> "look", item |-> NoRow, parent |-> NoRow,
                                      source |-> NoNode]]
    /\ UNCHANGED <<rows, listed>>

Answered(c) == asked' = [asked EXCEPT ![c] = NoNode]

\* MKCOL, PUT, MOVE and COPY look the parent up, and MOVE and COPY the item.
Look(c) ==
    LET q == asked[c]
        items == AtPath(q.from)
        parents == AtPath(ParentOf(q.to))
        refused == \/ q.method \in {"MOVE", "COPY"} /\ items = {}
                   \/ parents = {}
                   \/ q.method = "MKCOL" /\ \E x \in parents : rows[x].kind # "Directory"
    IN  /\ q # NoNode /\ q.step = "look" /\ q.method # "DELETE"
        /\ IF refused THEN Answered(c)
           ELSE \E p \in parents, i \in items \union {NoRow} :
                  /\ (i = NoRow) <=> q.method \in {"MKCOL", "PUT"}
                  /\ asked' = [asked EXCEPT ![c] =
                         [@ EXCEPT !.step = "clear", !.item = i, !.parent = p,
                                   !.source = IF q.method = "COPY" THEN rows[i] ELSE NoNode]]
        /\ UNCHANGED <<rows, listed>>

\* What is at the destination is deleted with all below it; MKCOL refuses to.
\* get_dav_item_by_path is exact.
Clear(c) ==
    LET q == asked[c]
        there == AtPath(q.to)
    IN  /\ q # NoNode /\ q.step = "clear"
        /\ IF there = {} THEN
              /\ asked' = [asked EXCEPT ![c].step = "write"]
              /\ UNCHANGED rows
           ELSE IF q.method = "MKCOL" THEN Answered(c) /\ UNCHANGED rows
           ELSE \E x \in there :
              /\ rows' = Without(rows, {x})
              /\ asked' = [asked EXCEPT ![c].step = "write"]
        /\ UNCHANGED listed

\* Ids that no row has and no request remembers.
Fresh == NewId \ (DOMAIN rows \union {asked[c].item : c \in Client} \union {asked[c].parent : c \in Client})

InsertItem(c, row) ==
    IF CanInsert(rows, row)
    THEN \E id \in Fresh : /\ \A x \in Fresh : id <= x
                           /\ rows' = Inserted(rows, id, row)
    ELSE UNCHANGED rows

MkcolWrite(c) ==
    LET q == asked[c] IN
    /\ q # NoNode /\ q.method = "MKCOL" /\ q.step = "write"
    /\ InsertItem(c, Row(q.parent, q.to, "Directory", NoRelease, FALSE))
    /\ Answered(c) /\ UNCHANGED listed

\* put_nzb: a row with an NZB blob.
PutWrite(c) ==
    LET q == asked[c] IN
    /\ q # NoNode /\ q.method = "PUT" /\ q.step = "write"
    /\ InsertItem(c, Row(q.parent, q.to, "NzbFile", NoRelease, TRUE))
    /\ Answered(c) /\ UNCHANGED listed

\* Mutant of MoveWrite: the row keeps its path.
MoveWriteName(c) ==
    LET q == asked[c] IN
    /\ q # NoNode /\ q.method = "MOVE" /\ q.step = "write"
    /\ IF q.item \in DOMAIN rows /\ q.parent \in DOMAIN rows
       THEN rows' = [rows EXCEPT ![q.item] = [@ EXCEPT !.name = NameOf(q.to), !.parent = q.parent]]
       ELSE UNCHANGED rows
    /\ Answered(c) /\ UNCHANGED listed

\* move_dav_item: an UPDATE, which fails where the name is taken or the parent
\* is gone, and finds nothing where the item is.
MoveWrite(c) ==
    LET q == asked[c]
        row == [rows[q.item] EXCEPT !.name = NameOf(q.to), !.path = q.to, !.parent = q.parent]
    IN  /\ q # NoNode /\ q.method = "MOVE" /\ q.step = "write"
        /\ IF /\ q.item \in DOMAIN rows /\ q.parent \in DOMAIN rows
              /\ Clashing(rows, row) \subseteq {q.item}
           THEN rows' = [rows EXCEPT ![q.item] = row]
           ELSE UNCHANGED rows
        /\ Answered(c) /\ UNCHANGED listed

\* copy_item: a shallow copy, of the item as it was looked up.
CopyWrite(c) ==
    LET q == asked[c] IN
    /\ q # NoNode /\ q.method = "COPY" /\ q.step = "write"
    /\ InsertItem(c, [q.source EXCEPT !.name = NameOf(q.to), !.path = q.to, !.parent = q.parent])
    /\ Answered(c) /\ UNCHANGED listed

\* delete: an item and what is below it, or an NZB in the queue.
Delete(c) ==
    LET q == asked[c] IN
    /\ q # NoNode /\ q.method = "DELETE"
    /\ IF AtPath(q.from) # {} THEN
          \E x \in AtPath(q.from) : rows' = Without(rows, {x}) /\ UNCHANGED listed
       ELSE /\ listed' = IF InQueue(q.from) THEN listed \ {q.from.at[2]} ELSE listed
            /\ UNCHANGED rows
    /\ Answered(c)

-----------------------------------------------------------------------------
(* The queue, imports and the history, of which the tree sees one step each *)
(* for a directory, a file and a deletion.                                  *)

\* An NZB is added to the queue (addfile).
AddToQueue(r) ==
    /\ r \notin listed /\ r \notin {rows[x].release : x \in DOMAIN rows}
    /\ listed' = listed \union {r}
    /\ UNCHANGED <<rows, asked>>

\* ensure_directory, with the slash.
MountDirectory(r) ==
    LET p == Path(SubSeq(MountPath[r], 1, Len(MountPath[r]) - 1), TRUE) IN
    /\ r \in listed /\ AtPath(p) = {} /\ AtPath(ParentOf(p)) # {}
    /\ \E d \in AtPath(ParentOf(p)), id \in Fresh :
          /\ \A x \in Fresh : id <= x
          /\ CanInsert(rows, Row(d, p, "Directory", NoRelease, FALSE))
          /\ rows' = Inserted(rows, id, Row(d, p, "Directory", NoRelease, FALSE))
    /\ UNCHANGED <<asked, listed>>

Mount(r) ==
    LET p == Path(MountPath[r], FALSE) IN
    /\ r \in listed /\ AtPath(ParentOf(p)) # {}
    /\ \E d \in AtPath(ParentOf(p)), id \in Fresh :
          /\ \A x \in Fresh : id <= x
          /\ CanInsert(rows, Row(d, p, "MultipartFile", r, TRUE))
          /\ rows' = Inserted(rows, id, Row(d, p, "MultipartFile", r, TRUE))
    /\ listed' = listed \ {r}
    /\ UNCHANGED asked

\* delete_by_history_item_id.
HistoryDeleted(r) ==
    LET own == {x \in DOMAIN rows : rows[x].release = r} IN
    /\ own # {}
    /\ rows' = Without(rows, own)
    /\ UNCHANGED <<asked, listed>>

-----------------------------------------------------------------------------
\* seed_root_items, on an empty database.
DavInit ==
    /\ rows = [x \in Seeded |->
                  Row(IF x = RootId THEN NoRow ELSE RootId,
                      Path(CASE x = RootId -> <<>> [] x = NzbsId -> <<"nzbs">> [] x = ContentId -> <<"content">>,
                           TRUE),
                      "Directory", NoRelease, FALSE)]
    /\ asked = [c \in Client |-> NoNode]
    /\ listed = {}

DavNext ==
    \/ \E c \in Client :
        \/ \E u \in Upload : Receive(c, u)
        \/ Look(c) \/ Clear(c)
        \/ MkcolWrite(c) \/ PutWrite(c) \/ MoveWrite(c) \/ CopyWrite(c) \/ Delete(c)
    \/ \E r \in MountedRelease :
        AddToQueue(r) \/ MountDirectory(r) \/ Mount(r) \/ HistoryDeleted(r)

DavSpec == DavInit /\ [][DavNext]_davVars

-----------------------------------------------------------------------------
(* Correctness.                                                             *)

(* Requests whose destination is named from the root on, and that move      *)
(* files: MOVE of a directory leaves the paths below it as they were.       *)
OnlyFilesMove ==
    \A u \in Upload : /\ u.to.at = <<>> => u.to.slash
                      /\ u.method = "MOVE" => ~u.from.slash /\ ~u.to.slash

(* Every item is found at its path and listed by the collection its path    *)
(* names, and there is one item at a path, whatever requests and imports    *)
(* come between the steps of a request.                                     *)
FoundWhereListed ==
    \A x \in DOMAIN rows :
        /\ GetNode(Href(x)) = {x}
        /\ x # RootId => x \in ListChildren(ParentOf(rows[x].path))
        /\ rows[x].kind # "Directory" => Opens(Href(x))
=============================================================================
