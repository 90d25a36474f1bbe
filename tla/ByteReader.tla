----------------------------- MODULE ByteReader -----------------------------
(***************************************************************************)
(* What the readers of streams of articles are promised, whatever is       *)
(* fetched ahead of them: the bytes of the file from the first on, in      *)
(* order and each once, and an end only after the last byte or an error.   *)
(***************************************************************************)
EXTENDS Naturals

CONSTANTS
    Reader,  \* streams being read
    Length   \* bytes of the file behind each

VARIABLES
    pos,     \* bytes read so far
    result   \* what the last read returned

vars == <<pos, result>>

Bytes(from, to) == [kind |-> "bytes", from |-> from, to |-> to]
Pending == [kind |-> "pending", from |-> 0, to |-> 0]
Error == [kind |-> "error", from |-> 0, to |-> 0]
End == [kind |-> "end", from |-> 0, to |-> 0]

Init ==
    /\ pos = [r \in Reader |-> 0]
    /\ result = [r \in Reader |-> Pending]

Open(r) == result[r].kind \in {"pending", "bytes"}

ReadBytes(r) == \E n \in 1..(Length[r] - pos[r]) :
    /\ Open(r)
    /\ pos' = [pos EXCEPT ![r] = @ + n]
    /\ result' = [result EXCEPT ![r] = Bytes(pos[r], pos[r] + n)]

Fail(r) ==
    /\ Open(r)
    /\ pos[r] < Length[r]
    /\ result' = [result EXCEPT ![r] = Error]
    /\ UNCHANGED pos

ReachEnd(r) ==
    /\ pos[r] = Length[r] \/ ~Open(r)
    /\ result' = [result EXCEPT ![r] = End]
    /\ UNCHANGED pos

Next == \E r \in Reader : ReadBytes(r) \/ Fail(r) \/ ReachEnd(r)

Spec == Init /\ [][Next]_vars
=============================================================================
