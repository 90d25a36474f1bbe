---------------------------- MODULE ArticleFetch ----------------------------
(***************************************************************************)
(* Fetching an article through the hole ledger: fetch_ledgered, fetch_once *)
(* and confirm of UsenetArticleProvider (nzbdav-stream/src/provider.rs),   *)
(* composed with HoleLedger.                                               *)
(*                                                                         *)
(* A fetcher is a task in one of the fetch_decoded_* calls.  Its steps end *)
(* at its awaits (permit, answer of a pool, sleep, joined confirm), where  *)
(* it can also be dropped, and at each lock it takes.  The notes of one    *)
(* round follow each other without an await, so no time passes among them. *)
(* Tiers are abstracted to a number of permits.                            *)
(***************************************************************************)
EXTENDS HoleLedger, Sequences

CONSTANTS
    Fetcher,       \* tasks that fetch
    NoFetcher,     \* no confirm in flight
    Permits,       \* permits of the priority semaphore
    PoolLists,     \* the pool lists the server settings go through
    ConfirmFetch,  \* hole_config.confirm_fetch; confirm_delay is ConfirmAfter
    MaxDrops       \* bound on fetches dropped by their callers

ASSUME FetchAssumption ==
    /\ NoFetcher \notin Fetcher
    /\ Permits \in Nat \ {0}
    /\ PoolLists \subseteq Seq(Server)
    /\ ConfirmFetch \in Nat
    /\ MaxDrops \in Nat

VARIABLES
    pools,     \* the current pool list, by server name
    fetch,     \* each fetcher's call
    confirms,  \* confirms in flight, by article
    drops,     \* fetches dropped so far
    denied     \* per article, the servers that ever answered 430 for it

fetchVars == <<pools, fetch, confirms, drops, denied>>
allVars == <<vars, fetchVars>>

Stage == {"idle", "consult", "lookup", "permit", "ask", "note", "timeout",
          "register", "sleep", "join"}
Attempt == {"Body", "Missing", "Transport"}

\* refused, failed: servers answered so far, then those yet to be noted.
\* on, otherwise: the confirm a join waits for, and where it goes if that is
\* abandoned.  servers is the snapshot of the pool names.
Call == [at : Stage, msg : Message, servers : Seq(Server), round : {"first", "confirm"},
         refused : Seq(Server), failed : Seq(Server), answer : Attempt \union {"none"},
         on : Fetcher \union {NoFetcher}, otherwise : {"permit", "consult"}, timer : Nat]

At(f) == fetch[f].at
HoldingPermit == {f \in Fetcher : At(f) \in {"ask", "note"}}

Msg(f) == fetch[f].msg
Names(f) == {fetch[f].servers[i] : i \in DOMAIN fetch[f].servers}

NewCall(m, names) ==
    [at |-> "consult", msg |-> m, servers |-> names, round |-> "first",
     refused |-> <<>>, failed |-> <<>>, answer |-> "none",
     on |-> NoFetcher, otherwise |-> "permit", timer |-> 0]

\* The call returns; what is left of it is its answer.
Returned(f, answer) == [NewCall(Msg(f), <<>>) EXCEPT !.at = "idle", !.answer = answer]

Become(f, c) == fetch' = [fetch EXCEPT ![f] = c]
Goto(f, stage) == Become(f, [fetch[f] EXCEPT !.at = stage])

-----------------------------------------------------------------------------
(* fetch_ledgered, up to the permit.                                        *)

Start(f, m) ==
    /\ At(f) = "idle"
    /\ Become(f, NewCall(m, pools))
    /\ UNCHANGED <<vars, pools, confirms, drops, denied>>

\* An article without a record is fetched, and the ledger stays as it is.
ConsultLedger(f) ==
    LET advice == Advice(Msg(f), Names(f)) IN
    /\ At(f) = "consult"
    /\ IF Msg(f) \in OnRecord THEN Consult(Msg(f), Names(f)) ELSE UNCHANGED vars
    /\ CASE advice = "Skip" -> Become(f, Returned(f, "Missing"))
         [] advice = "Provisional" -> Goto(f, "lookup")
         [] OTHER -> Goto(f, "permit")
    /\ UNCHANGED <<pools, confirms, drops, denied>>

\* join_confirm: wait for the confirm in flight; none, or an abandoned one,
\* and the article is fetched.
LookUpConfirm(f) ==
    LET g == confirms[Msg(f)] IN
    /\ At(f) = "lookup"
    /\ IF g = NoFetcher THEN Goto(f, "permit")
       ELSE Become(f, [fetch[f] EXCEPT !.at = "join", !.on = g, !.otherwise = "permit"])
    /\ UNCHANGED <<vars, pools, confirms, drops, denied>>

TakePermit(f) ==
    /\ At(f) = "permit"
    /\ Cardinality(HoldingPermit) < Permits
    /\ Goto(f, "ask")
    /\ UNCHANGED <<vars, pools, confirms, drops, denied>>

-----------------------------------------------------------------------------
(* fetch_once.                                                              *)

NextPool(f) == Len(fetch[f].refused) + Len(fetch[f].failed) + 1
AllAsked(f) == NextPool(f) > Len(fetch[f].servers)

\* attempt_pool asks the pool that is at this index now; the answer is
\* booked under the name the snapshot has there.
AskPool(f, reply) ==
    LET c == fetch[f]
        i == NextPool(f)
    IN
    /\ At(f) = "ask" /\ ~AllAsked(f)
    /\ i > Len(pools) => reply = "Failed"
    /\ CASE reply = "Body" -> Become(f, [c EXCEPT !.at = "note", !.answer = "Body"])
         [] reply = "Refused" ->
              Become(f, [c EXCEPT !.refused = Append(c.refused, c.servers[i])])
         [] reply = "Failed" ->
              Become(f, [c EXCEPT !.failed = Append(c.failed, c.servers[i])])
    /\ denied' = IF reply = "Refused"
                 THEN [denied EXCEPT ![Msg(f)] = @ \union {pools[i]}] ELSE denied
    /\ UNCHANGED <<vars, pools, confirms, drops>>

\* No pool had it.  A round some pool failed to answer notes no refusal.
NoBody(f) ==
    /\ At(f) = "ask" /\ AllAsked(f)
    /\ LET c == fetch[f] IN
       IF c.failed = <<>> /\ c.refused # <<>>
       THEN Become(f, [c EXCEPT !.at = "note", !.answer = "Missing"])
       ELSE Become(f, [c EXCEPT !.at = "note", !.answer = "Transport", !.refused = <<>>])
    /\ UNCHANGED <<vars, pools, confirms, drops, denied>>

\* The round is over.  A confirm answers those who joined it and takes its
\* registration back; a first round that leaves the hole provisional goes on
\* to confirm it.
EndRound(f, confirm_needed) ==
    IF fetch[f].round = "confirm"
    THEN /\ fetch' = [g \in Fetcher |->
                IF g = f \/ (At(g) = "join" /\ fetch[g].on = f)
                THEN Returned(g, fetch[f].answer) ELSE fetch[g]]
         /\ confirms' = [confirms EXCEPT ![Msg(f)] = NoFetcher]
    ELSE /\ IF confirm_needed
            THEN Become(f, [fetch[f] EXCEPT !.at = "register", !.refused = <<>>])
            ELSE Become(f, Returned(f, fetch[f].answer))
         /\ UNCHANGED confirms

NoteBody(f) ==
    /\ At(f) = "note" /\ fetch[f].answer = "Body"
    /\ NotePresent(Msg(f))
    /\ EndRound(f, FALSE)
    /\ UNCHANGED <<pools, drops, denied>>

NoteRefused(f) ==
    LET s == Head(fetch[f].refused) IN
    /\ At(f) = "note" /\ fetch[f].answer = "Missing"
    /\ NoteFirstRefusal(Msg(f), s, Names(f)) \/ NoteRefusal(Msg(f), s, Names(f))
    /\ IF Len(fetch[f].refused) = 1
       THEN EndRound(f, holes'[Msg(f)].state = "Provisional")
       ELSE /\ Become(f, [fetch[f] EXCEPT !.refused = Tail(fetch[f].refused)])
            /\ UNCHANGED confirms
    /\ UNCHANGED <<pools, drops, denied>>

\* Of the pools that failed, or of all when the confirm timed out.
NoteFailed(f) ==
    /\ At(f) \in {"note", "timeout"} /\ fetch[f].answer = "Transport"
    /\ IF fetch[f].failed = <<>>
       THEN EndRound(f, FALSE) /\ UNCHANGED vars
       ELSE /\ NoteTransport(Msg(f), Head(fetch[f].failed))
            /\ Become(f, [fetch[f] EXCEPT !.failed = Tail(fetch[f].failed)])
            /\ UNCHANGED confirms
    /\ UNCHANGED <<pools, drops, denied>>

-----------------------------------------------------------------------------
(* confirm.                                                                 *)

\* The confirm begins with its delay.
ToConfirm(f) == [fetch[f] EXCEPT !.at = "sleep", !.round = "confirm", !.answer = "none",
                                 !.timer = ConfirmAfter]

\* Mutant of Register: the registration of another caller is overwritten.
RegisterOver(f) ==
    /\ At(f) = "register"
    /\ Become(f, ToConfirm(f))
    /\ confirms' = [confirms EXCEPT ![Msg(f)] = f]
    /\ UNCHANGED <<vars, pools, drops, denied>>

\* Confirm the hole, or join the caller that is at it.
Register(f) ==
    LET g == confirms[Msg(f)] IN
    /\ At(f) = "register"
    /\ IF g = NoFetcher
       THEN /\ Become(f, ToConfirm(f))
            /\ confirms' = [confirms EXCEPT ![Msg(f)] = f]
       ELSE /\ Become(f, [fetch[f] EXCEPT !.at = "join", !.on = g,
                                          !.otherwise = "consult", !.answer = "none"])
            /\ UNCHANGED confirms
    /\ UNCHANGED <<vars, pools, drops, denied>>

WakeUp(f) ==
    /\ At(f) = "sleep" /\ fetch[f].timer = 0
    /\ Become(f, [fetch[f] EXCEPT !.at = "permit", !.timer = ConfirmFetch])
    /\ UNCHANGED <<vars, pools, confirms, drops, denied>>

\* The re-ask, with the wait for its permit, exceeds its deadline.
TimeOut(f) ==
    /\ fetch[f].round = "confirm" /\ fetch[f].timer = 0
    /\ At(f) \in {"permit", "ask"}
    /\ Become(f, [fetch[f] EXCEPT !.at = "timeout", !.answer = "Transport",
                                  !.refused = <<>>, !.failed = fetch[f].servers])
    /\ UNCHANGED <<vars, pools, confirms, drops, denied>>

-----------------------------------------------------------------------------
(* The world around.                                                        *)

Abandoned(f) == [g \in Fetcher |->
    IF g = f THEN Returned(f, "none")
    ELSE IF At(g) = "join" /\ fetch[g].on = f
         THEN [NewCall(Msg(g), fetch[g].servers) EXCEPT !.at = fetch[g].otherwise]
         ELSE fetch[g]]

\* Mutant of Drop: no ConfirmGuard.
DropUnguarded(f) ==
    /\ At(f) \in {"permit", "ask", "sleep", "join"}
    /\ drops < MaxDrops
    /\ drops' = drops + 1
    /\ fetch' = Abandoned(f)
    /\ UNCHANGED <<vars, pools, confirms, denied>>

\* A caller drops its fetch at an await.  ConfirmGuard takes a registration
\* back, and whoever joined starts over.
Drop(f) ==
    /\ At(f) \in {"permit", "ask", "sleep", "join"}
    /\ drops < MaxDrops
    /\ drops' = drops + 1
    /\ fetch' = Abandoned(f)
    /\ confirms' = [m \in Message |-> IF confirms[m] = f THEN NoFetcher ELSE confirms[m]]
    /\ UNCHANGED <<vars, pools, denied>>

ReplacePools(list) ==
    /\ list # pools
    /\ pools' = list
    /\ UNCHANGED <<vars, fetch, confirms, drops, denied>>

TimePasses ==
    /\ \A f \in Fetcher : At(f) \notin {"note", "timeout"}
    /\ Tick
    /\ fetch' = [f \in Fetcher |->
           [fetch[f] EXCEPT !.timer = IF fetch[f].timer > 0 THEN fetch[f].timer - 1 ELSE 0]]
    /\ UNCHANGED <<pools, confirms, drops, denied>>

-----------------------------------------------------------------------------
FetchInit ==
    /\ Init
    /\ pools \in PoolLists
    /\ \E m \in Message :
        fetch = [f \in Fetcher |-> [NewCall(m, <<>>) EXCEPT !.at = "idle"]]
    /\ confirms = [m \in Message |-> NoFetcher]
    /\ drops = 0
    /\ denied = [m \in Message |-> {}]

Reply == {"Body", "Refused", "Failed"}

Proceed(f) ==
    \/ ConsultLedger(f) \/ LookUpConfirm(f)
    \/ (\E reply \in Reply : AskPool(f, reply)) \/ NoBody(f)
    \/ NoteBody(f) \/ NoteRefused(f) \/ NoteFailed(f)
    \/ Register(f) \/ WakeUp(f) \/ TimeOut(f)

FetchNext ==
    \/ \E f \in Fetcher :
        \/ \E m \in Message : Start(f, m)
        \/ Proceed(f) \/ TakePermit(f) \/ Drop(f)
    \/ \E list \in PoolLists : ReplacePools(list)
    \/ TimePasses

FetchSpec == FetchInit /\ [][FetchNext]_allVars

(* Tasks are polled and pools answer (their connections time out); the      *)
(* semaphore does not starve a waiter for ever; time passes.                *)
FetchFairness ==
    /\ \A f \in Fetcher : WF_allVars(Proceed(f)) /\ SF_allVars(TakePermit(f))
    /\ SF_allVars(TimePasses)
FairFetchSpec == FetchSpec /\ FetchFairness

-----------------------------------------------------------------------------
(* Correctness.                                                             *)

Confirming(f) == fetch[f].round = "confirm" /\ At(f) # "idle"

(* One confirm per article, registered for exactly as long as its task is   *)
(* at it, and whoever waits for a confirm waits for that one.               *)
ConfirmIsLive ==
    /\ \A f \in Fetcher : Confirming(f) <=> confirms[Msg(f)] = f
    /\ \A f \in Fetcher : At(f) = "join" =>
           fetch[f].on # NoFetcher /\ confirms[Msg(f)] = fetch[f].on

(* A fetch ends, whatever becomes of the confirm it joined; the fetchers    *)
(* are alike, and it is stated of one.                                      *)
FetchEnds ==
    LET f == CHOOSE g \in Fetcher : TRUE IN At(f) # "idle" ~> At(f) = "idle"

(* A confirmed hole was refused by every server its record is keyed to.     *)
EveryServerDenied ==
    \A m \in OnRecord : holes[m].state = "Confirmed" => holes[m].print \subseteq denied[m]
=============================================================================
