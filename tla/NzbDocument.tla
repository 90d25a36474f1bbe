---------------------------- MODULE NzbDocument -----------------------------
(***************************************************************************)
(* Reading an NZB (nzb-core nzb_parser.rs): the events of the XML reader    *)
(* one after the other, and the names taken from subjects.                  *)
(*                                                                         *)
(* A document is [sniffed, events].  An event is a record with a tag:       *)
(* "file" (subject), "/file", "groups", "/groups", "segments", "/segments", *)
(* "segment" (number, bytes), "password" (the start of its meta), "text"    *)
(* and "cdata" (value), "error" (the reader fails); any other tag stands    *)
(* for an event parse_nzb ignores, self-closing elements among them.        *)
(*                                                                         *)
(* A name is a sequence of tokens, <<"movie", ".mkv">>; separators, signs   *)
(* and extensions are tokens of their own.                                  *)
(***************************************************************************)
EXTENDS Naturals, Sequences, SequencesExt

Separator == {"/", "\\"}
NoId == <<>>
Illegal == {"<", ">", ":", "\"", "|", "?", "*", "\\"}

\* parse_par2_filename and parse_par2_name: the tokens of a volume's range.
BlocksNamed == [token \in {".vol0+1", ".vol1+2"} |-> IF token = ".vol0+1" THEN 1 ELSE 2]

HasExtension(name, extensions) == name # <<>> /\ Last(name) \in extensions

-----------------------------------------------------------------------------
(* Names.                                                                   *)

\* extract_filename: between quotes, else the last word before the count in
\* brackets if it has a dot, else all of the subject.
ExtractFilename(subject) ==
    IF subject.quoted # <<>> THEN subject.quoted
    ELSE IF "." \in subject.marks THEN subject.word
    ELSE subject.word \o subject.rest

\* sanitize_filename: no illegal signs, no dots at the end, never empty.
SanitizeFilename(name) ==
    LET legal == SelectSeq(name, LAMBDA token : token \notin Illegal)
        kept == {n \in 1..Len(legal) : legal[n] # "."}
        trimmed == IF kept = {} THEN <<>>
                   ELSE SubSeq(legal, 1, CHOOSE n \in kept : \A other \in kept : other <= n)
    IN  IF trimmed = <<>> THEN <<"unnamed">> ELSE trimmed

\* Set name and blocks; a name without a range has none.
Par2Name(name) ==
    LET stem == Front(name)
        ranged == stem # <<>> /\ Last(stem) \in DOMAIN BlocksNamed
    IN  IF ranged THEN [set |-> Front(stem), volume |-> TRUE, blocks |-> BlocksNamed[Last(stem)]]
        ELSE [set |-> stem, volume |-> FALSE, blocks |-> 0]

-----------------------------------------------------------------------------
(* The reader's loop.                                                       *)

Blank == [files |-> <<>>, subject |-> <<>>, segments |-> <<>>, inGroups |-> FALSE,
          inSegments |-> FALSE, password |-> "", awaited |-> FALSE, failed |-> FALSE]

\* A message id for the last segment, whatever it had.
Named(p, id) ==
    IF p.segments = <<>> THEN p ELSE [p EXCEPT !.segments[Len(p.segments)].id = id]

Valid(segment) == segment.number > 0 /\ segment.bytes > 0 /\ segment.id # NoId

\* The end of a file that was begun; the segments it has no use for are dropped.
Closed(p) ==
    IF p.subject = <<>> THEN p
    ELSE LET name == SanitizeFilename(ExtractFilename(p.subject[1]))
         IN  [p EXCEPT !.files = Append(@, [name |-> name,
                                            articles |-> SelectSeq(p.segments, Valid),
                                            par2 |-> HasExtension(name, {".par2"})]),
                       !.subject = <<>>, !.segments = <<>>]

\* One event.  The text after the start of a password's meta is the password,
\* also when that meta was empty.
ReadEvent(p, e) ==
    CASE p.failed -> p
      [] e.tag = "file" -> [p EXCEPT !.subject = <<e.subject>>, !.segments = <<>>]
      [] e.tag = "/file" -> Closed(p)
      [] e.tag = "segment" ->
            [p EXCEPT !.segments = Append(@, [number |-> e.number, bytes |-> e.bytes, id |-> NoId])]
      [] e.tag \in {"groups", "/groups"} -> [p EXCEPT !.inGroups = e.tag = "groups"]
      [] e.tag \in {"segments", "/segments"} -> [p EXCEPT !.inSegments = e.tag = "segments"]
      [] e.tag = "password" -> [p EXCEPT !.awaited = TRUE]
      [] e.tag = "text" /\ p.awaited -> [p EXCEPT !.password = e.value, !.awaited = FALSE]
      [] e.tag = "text" /\ ~p.awaited ->
            IF p.inSegments /\ ~p.inGroups THEN Named(p, e.value) ELSE p
      [] e.tag = "cdata" -> IF p.inSegments THEN Named(p, e.value) ELSE p
      [] e.tag = "error" -> [p EXCEPT !.failed = TRUE]
      [] OTHER -> p

\* parse_nzb: what is no NZB, what does not parse and what lists no file is
\* refused.
ParseNzb(document) ==
    LET p == FoldLeft(ReadEvent, Blank, document.events)
    IN  [ok |-> document.sniffed = "xml" /\ ~p.failed /\ p.files # <<>>,
         files |-> p.files, password |-> p.password]
=============================================================================
