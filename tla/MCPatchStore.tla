---------------------------- MODULE MCPatchStore ----------------------------
(* A release that is patched under two NZBs, and one that competes for the  *)
(* budget.                                                                  *)
EXTENDS PatchStore

CONSTANTS r1, r2, b1, b2, f, h

Insert(r, b, offset, len) ==
    [kind |-> "insert", release |-> r, blob |-> b, file |-> f, offset |-> offset, len |-> len]
Jobs ==
    {Insert(r1, b1, 0, 1), Insert(r1, b1, 1, 1), Insert(r1, b1, 0, 2),
     Insert(r1, b2, 1, 1), Insert(r2, b1, 0, 2)}
      \union {[kind |-> "holes", release |-> r1, blob |-> b1, hole |-> h],
              [kind |-> "verdict", release |-> r1, blob |-> b2]}
Articles == {[file |-> f, offset |-> 0, len |-> 2]}
=============================================================================
