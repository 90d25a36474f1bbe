------------------------ MODULE DamageCensusProofs -------------------------
(***************************************************************************)
(* Proofs about finding damage and about repairing it.                     *)
(*                                                                         *)
(* DamageCensus: one census surveys a release at a time, an article is     *)
(* settled as missing only on the word of every pool, a release given up   *)
(* only for such articles, and the censuses together keep within their     *)
(* share of each pool.                                                     *)
(*                                                                         *)
(* RepairAttempt: an attempt gives a release up only when its lost slices  *)
(* outnumber all its recovery rows, and solves only whole systems, while   *)
(* servers, ledger and patch store change under it.                        *)
(***************************************************************************)
EXTENDS DamageCensus, RepairAttempt, FiniteSums, FiniteSetTheorems, SequenceTheorems, TLAPS

(* A nonempty set of numbers has a least one.                               *)
LEMMA LeastIsIn ==
    ASSUME NEW S, S \subseteq Nat, S # {}
    PROVE  Least(S) \in S
BY LeastOf DEF Least

-----------------------------------------------------------------------------
(* What is known of a survey.                                               *)

(* The survey s is in a census of its next release.                         *)
InCensus(s) == s.phase \in {"stat", "judge"}

(* A survey is a record with the fields of Idle, and one that is not idle   *)
(* has a release to look at.                                                *)
Shaped(s) ==
    /\ DOMAIN s = DOMAIN Idle
    /\ s.phase # "idle" => s.todo \in Seq(Release) /\ s.todo # <<>>

(* How many pools have been asked for a: the current one once a is neither  *)
(* waiting for it nor asked of it.                                          *)
Rounds(s, a) == IF a \in s.left \union s.asked THEN s.pool - 1 ELSE s.pool

(* The pass over a pool: who waits, who is asked, and the pool itself.      *)
PassSound(s) ==
    /\ s.pool \in 0..Pools
    /\ DOMAIN s.absentOn \subseteq Article /\ s.pending \subseteq DOMAIN s.absentOn
    /\ s.left \union s.asked \subseteq s.pending /\ s.left \intersect s.asked = {}
    /\ s.left \union s.asked # {} => s.phase = "stat" /\ s.pool > 0

(* The count of absent answers is of different pools: where it is the       *)
(* number of pools asked, each of them answered 430, by d.                  *)
CountSound(s, d) ==
    \A a \in s.pending :
        /\ s.absentOn[a] \in Nat /\ s.absentOn[a] <= Rounds(s, a)
        /\ s.absentOn[a] = Rounds(s, a) => 1..Rounds(s, a) \subseteq d[a]

(* What a survey takes as missing, from the cache or by its own count.      *)
KnownSound(s, d) ==
    /\ DOMAIN s.states \subseteq Article
    /\ \A a \in DOMAIN s.states : s.states[a] = "Missing" => d[a] = Pool
    /\ s.missing \subseteq Article /\ \A a \in s.missing : d[a] = Pool

(* All of it.                                                               *)
Sound(s, d) == Shaped(s) /\ PassSound(s) /\ CountSound(s, d) /\ KnownSound(s, d)

(* What the cache holds as missing every pool answered 430 for, by d.       *)
CacheSound(ch, d) ==
    \A a \in DOMAIN ch :
        /\ a \in Article /\ DOMAIN ch[a] = {"state", "left"}
        /\ ch[a].state = "Missing" => d[a] = Pool

(* The inductive invariant.                                                 *)
CensusInv ==
    /\ DOMAIN survey = Caller
    /\ denied \in [Article -> SUBSET Pool]
    /\ CacheSound(cache, denied)
    /\ \A c \in Caller : Sound(survey[c], denied)
    /\ OneCensusPerRelease

(* Refusals are never taken back.                                           *)
Grows(d, e) == \A a \in Article : d[a] \subseteq e[a] /\ e[a] \subseteq Pool

(* What is sound stays so as refusals come in.                              *)
LEMMA SoundStays ==
    ASSUME NEW s, NEW d, NEW e, Sound(s, d), Grows(d, e)
    PROVE  Sound(s, e)
<1>1. CountSound(s, e)
    <2>1. ASSUME NEW a \in s.pending
          PROVE  d[a] \subseteq e[a]
        BY <2>1 DEF Sound, PassSound, Grows
    <2> QED BY <2>1 DEF Sound, CountSound
<1>2. \A a \in Article : d[a] = Pool => e[a] = Pool
    BY DEF Grows
<1>3. KnownSound(s, e)
    BY <1>2 DEF Sound, KnownSound
<1> QED BY <1>1, <1>3 DEF Sound

(* So does what the cache holds.                                            *)
LEMMA CacheStays ==
    ASSUME NEW ch, NEW d, NEW e, CacheSound(ch, d), Grows(d, e)
    PROVE  CacheSound(ch, e)
BY DEF CacheSound, Grows

(* A survey that does not run knows nothing.                                *)
LEMMA IdleIsSound ==
    ASSUME NEW d
    PROVE  Sound(Idle, d) /\ ~InCensus(Idle)
<1>1. /\ Idle.phase = "idle" /\ Idle.pool = 0 /\ Idle.absentOn = <<>> /\ Idle.states = <<>>
      /\ Idle.pending = {} /\ Idle.left = {} /\ Idle.asked = {} /\ Idle.missing = {}
    BY DEF Idle
<1>2. Pools \in Nat
    BY CensusAssumption
<1>3. DOMAIN <<>> = {}
    OBVIOUS
<1> QED BY <1>1, <1>2, <1>3 DEF Sound, Shaped, PassSound, CountSound, KnownSound, InCensus

(* One caller's step.                                                       *)
LEMMA CallerStepKeeps ==
    ASSUME CensusInv, NEW c \in Caller, NEW t,
           survey' = [survey EXCEPT ![c] = t],
           Sound(t, denied'), denied' \in [Article -> SUBSET Pool], Grows(denied, denied'),
           CacheSound(cache', denied'), OneCensusPerRelease'
    PROVE  CensusInv'
<1>1. DOMAIN survey' = Caller
    BY DEF CensusInv
<1>2. ASSUME NEW b \in Caller
      PROVE  Sound(survey'[b], denied')
    <2>1. CASE b = c
        <3>1. survey'[b] = t
            BY <2>1 DEF CensusInv
        <3> QED BY <3>1
    <2>2. CASE b # c
        <3>1. survey'[b] = survey[b] /\ Sound(survey[b], denied)
            BY <2>2 DEF CensusInv
        <3> QED BY <3>1, SoundStays
    <2> QED BY <2>1, <2>2
<1> QED BY <1>1, <1>2 DEF CensusInv

(* Who is in a census of what stays the same.                               *)
LEMMA StayKeepsOne ==
    ASSUME CensusInv, NEW c \in Caller, NEW t,
           survey' = [survey EXCEPT ![c] = t], UNCHANGED running,
           InCensus(t) <=> InCensus(survey[c]),
           InCensus(t) => Head(t.todo) = Head(survey[c].todo)
    PROVE  OneCensusPerRelease'
<1>1. /\ survey'[c] = t
      /\ \A b \in Caller \ {c} : survey'[b] = survey[b]
    BY DEF CensusInv
<1>2. \A b \in Caller : /\ InCensus(survey'[b]) <=> InCensus(survey[b])
                        /\ InCensus(survey'[b]) => Head(survey'[b].todo) = Head(survey[b].todo)
    BY <1>1
<1>3. /\ running = {Head(survey[b].todo) : b \in {b \in Caller : InCensus(survey[b])}}
      /\ \A a, b \in {b \in Caller : InCensus(survey[b])} :
             Head(survey[a].todo) = Head(survey[b].todo) => a = b
    BY DEF CensusInv, OneCensusPerRelease, InCensus
<1>4. /\ running' = {Head(survey'[b].todo) : b \in {b \in Caller : InCensus(survey'[b])}}
      /\ \A a, b \in {b \in Caller : InCensus(survey'[b])} :
             Head(survey'[a].todo) = Head(survey'[b].todo) => a = b
    BY <1>2, <1>3
<1> QED BY <1>4 DEF OneCensusPerRelease, InCensus

(* A census that ends frees its release.                                    *)
LEMMA LeaveKeepsOne ==
    ASSUME CensusInv, NEW c \in Caller, NEW t,
           survey' = [survey EXCEPT ![c] = t], InCensus(survey[c]), ~InCensus(t),
           running' = running \ {Head(survey[c].todo)}
    PROVE  OneCensusPerRelease'
<1>1. /\ survey'[c] = t
      /\ \A b \in Caller \ {c} : survey'[b] = survey[b]
    BY DEF CensusInv
<1>2. /\ running = {Head(survey[b].todo) : b \in {b \in Caller : InCensus(survey[b])}}
      /\ \A a, b \in {b \in Caller : InCensus(survey[b])} :
             Head(survey[a].todo) = Head(survey[b].todo) => a = b
    BY DEF CensusInv, OneCensusPerRelease, InCensus
<1>3. /\ running' = {Head(survey'[b].todo) : b \in {b \in Caller : InCensus(survey'[b])}}
      /\ \A a, b \in {b \in Caller : InCensus(survey'[b])} :
             Head(survey'[a].todo) = Head(survey'[b].todo) => a = b
    BY <1>1, <1>2
<1> QED BY <1>3 DEF OneCensusPerRelease, InCensus

(* One that begins found its release free.                                  *)
LEMMA EnterKeepsOne ==
    ASSUME CensusInv, NEW c \in Caller, NEW t,
           survey' = [survey EXCEPT ![c] = t], ~InCensus(survey[c]), InCensus(t),
           Head(t.todo) \notin running, running' = running \union {Head(t.todo)}
    PROVE  OneCensusPerRelease'
<1>1. /\ survey'[c] = t
      /\ \A b \in Caller \ {c} : survey'[b] = survey[b]
    BY DEF CensusInv
<1>2. /\ running = {Head(survey[b].todo) : b \in {b \in Caller : InCensus(survey[b])}}
      /\ \A a, b \in {b \in Caller : InCensus(survey[b])} :
             Head(survey[a].todo) = Head(survey[b].todo) => a = b
    BY DEF CensusInv, OneCensusPerRelease, InCensus
<1>3. /\ running' = {Head(survey'[b].todo) : b \in {b \in Caller : InCensus(survey'[b])}}
      /\ \A a, b \in {b \in Caller : InCensus(survey'[b])} :
             Head(survey'[a].todo) = Head(survey'[b].todo) => a = b
    BY <1>1, <1>2
<1> QED BY <1>3 DEF OneCensusPerRelease, InCensus

-----------------------------------------------------------------------------
(* The steps of a caller.                                                   *)

(* The fields of a survey, by name.                                         *)
Fields == {"phase", "trigger", "todo", "states", "pool", "pending", "left", "asked", "misses",
           "absentOn", "failed", "missing", "fresh", "certain", "possible", "verdict", "damaged"}

(* They are those of every survey.                                          *)
LEMMA IdleFields == DOMAIN Idle = Fields
BY DEF Idle, Fields

(* An item has releases to survey.                                          *)
LEMMA BeginSound ==
    ASSUME NEW i \in Item, NEW trigger, NEW d
    PROVE  LET t == [Idle EXCEPT !.phase = "next", !.trigger = trigger, !.todo = ReleasesOf(i)]
           IN  Sound(t, d) /\ ~InCensus(t)
<1> DEFINE t == [Idle EXCEPT !.phase = "next", !.trigger = trigger, !.todo = ReleasesOf(i)]
<1>1. ReleasesOf(i) \in Seq(Release) /\ ReleasesOf(i) # <<>>
    BY CensusAssumption DEF ReleasesOf
<1>2. /\ DOMAIN t = DOMAIN Idle /\ t.phase = "next" /\ t.todo = ReleasesOf(i)
      /\ t.pool = 0 /\ t.absentOn = <<>> /\ t.states = <<>>
      /\ t.pending = {} /\ t.left = {} /\ t.asked = {} /\ t.missing = {}
    BY DEF Idle
<1>3. DOMAIN <<>> = {} /\ Pools \in Nat
    BY CensusAssumption
<1> HIDE DEF t
<1>4. Sound(t, d) /\ ~InCensus(t)
    BY <1>1, <1>2, <1>3 DEF Sound, Shaped, PassSound, CountSound, KnownSound, InCensus
<1> QED BY <1>4 DEF t

(* Through with a release, the caller has others or is idle.                *)
LEMMA ThroughSound ==
    ASSUME NEW s, NEW d, Shaped(s), s.phase # "idle"
    PROVE  Sound(Through(s), d) /\ ~InCensus(Through(s))
<1>1. CASE Len(s.todo) = 1
    BY <1>1, IdleIsSound DEF Through
<1>2. CASE Len(s.todo) # 1
    <2> DEFINE t == [Idle EXCEPT !.phase = "next", !.trigger = s.trigger, !.todo = Tail(s.todo)]
    <2>1. Tail(s.todo) \in Seq(Release) /\ Tail(s.todo) # <<>>
        <3>1. s.todo \in Seq(Release) /\ s.todo # <<>>
            BY DEF Shaped
        <3>2. Len(s.todo) \in Nat /\ Len(s.todo) # 0
            BY <3>1
        <3>3. Tail(s.todo) \in Seq(Release) /\ Len(Tail(s.todo)) = Len(s.todo) - 1
            BY <3>1
        <3>4. Len(Tail(s.todo)) # 0
            BY <1>2, <3>2, <3>3
        <3>5. Len(<<>>) = 0
            OBVIOUS
        <3> QED BY <3>3, <3>4, <3>5
    <2>2. /\ DOMAIN t = DOMAIN Idle /\ t.phase = "next" /\ t.todo = Tail(s.todo)
          /\ t.pool = 0 /\ t.absentOn = <<>> /\ t.states = <<>>
          /\ t.pending = {} /\ t.left = {} /\ t.asked = {} /\ t.missing = {}
        BY DEF Idle
    <2>3. DOMAIN <<>> = {} /\ Pools \in Nat
        BY CensusAssumption
    <2>4. Through(s) = t
        BY <1>2 DEF Through
    <2> HIDE DEF t
    <2>5. Sound(t, d) /\ ~InCensus(t)
        BY <2>1, <2>2, <2>3 DEF Sound, Shaped, PassSound, CountSound, KnownSound, InCensus
    <2> QED BY <2>4, <2>5
<1> QED BY <1>1, <1>2

(* Steps that leave the refusals and the cache alone.                       *)
LEMMA QuietStepKeeps ==
    ASSUME CensusInv, NEW c \in Caller, NEW t,
           survey' = [survey EXCEPT ![c] = t], UNCHANGED <<cache, running, denied>>,
           Sound(t, denied),
           InCensus(t) <=> InCensus(survey[c]),
           InCensus(t) => Head(t.todo) = Head(survey[c].todo)
    PROVE  CensusInv'
<1>1. OneCensusPerRelease'
    BY StayKeepsOne
<1>2. /\ denied \in [Article -> SUBSET Pool] /\ denied' = denied
      /\ CacheSound(cache, denied) /\ cache' = cache
    BY DEF CensusInv
<1>3. Grows(denied, denied')
    BY <1>2 DEF Grows
<1>4. Sound(t, denied') /\ CacheSound(cache', denied') /\ denied' \in [Article -> SUBSET Pool]
    BY <1>2
<1> QED BY <1>1, <1>3, <1>4, CallerStepKeeps

(* A survey starts.                                                         *)
LEMMA BeginKeeps ==
    ASSUME CensusInv, NEW c \in Caller, NEW i \in Item, NEW trigger,
           HoleRead(c, i) \/ Survey(c, i, trigger)
    PROVE  CensusInv'
<1>1. PICK w : Begin(c, i, w)
    BY DEF HoleRead, Survey
<1>2. UNCHANGED <<cache, running, denied>> /\ ~InCensus(survey[c])
    BY DEF HoleRead, Survey, InCensus
<1> QED BY <1>1, <1>2, BeginSound, QuietStepKeeps DEF Begin

(* Within the cooldown the release is passed over.                          *)
LEMMA CheckCooldownKeeps ==
    ASSUME CensusInv, NEW c \in Caller, CheckCooldown(c)
    PROVE  CensusInv'
<1> DEFINE s == survey[c]
           t == [s EXCEPT !.phase = "enter"]
<1>1. Sound(s, denied) /\ s.phase = "next" /\ UNCHANGED <<cache, running, denied>>
    BY DEF CensusInv, CheckCooldown
<1>2. ~InCensus(s)
    BY <1>1 DEF InCensus
<1>3. CASE survey' = [survey EXCEPT ![c] = Through(s)]
    <2>1. Sound(Through(s), denied) /\ ~InCensus(Through(s))
        BY <1>1, ThroughSound DEF Sound
    <2> QED BY <1>1, <1>2, <1>3, <2>1, QuietStepKeeps
<1>4. CASE survey' = [survey EXCEPT ![c] = t]
    <2>1. DOMAIN s = Fields
        BY <1>1, IdleFields DEF Sound, Shaped
    <2>2. /\ DOMAIN t = DOMAIN s /\ t.phase = "enter" /\ t.todo = s.todo /\ t.pool = s.pool
          /\ t.pending = s.pending /\ t.left = s.left /\ t.asked = s.asked
          /\ t.absentOn = s.absentOn /\ t.states = s.states /\ t.missing = s.missing
        BY <2>1 DEF Fields
    <2> HIDE DEF s, t
    <2>3. Sound(t, denied) /\ ~InCensus(t)
        BY <1>1, <2>2 DEF Sound, Shaped, PassSound, CountSound, Rounds, KnownSound, InCensus
    <2> QED BY <1>1, <1>2, <1>4, <2>3, QuietStepKeeps DEF s
<1> QED BY <1>3, <1>4 DEF CheckCooldown

(* The census begins: what the cache holds is known, the rest is pending.   *)
LEMMA EnterKeeps ==
    ASSUME CensusInv, NEW c \in Caller, Enter(c)
    PROVE  CensusInv'
<1> DEFINE s == survey[c]
           r == Head(s.todo)
           cached == SurveyedIds(r) \intersect DOMAIN cache
           pending == SurveyedIds(r) \ cached
           states == [a \in cached |-> cache[a].state]
           counts == [a \in pending |-> 0]
           t == [s EXCEPT !.phase = "stat", !.pending = pending, !.states = states,
                          !.absentOn = counts]
<1>1. /\ Sound(s, denied) /\ s.phase = "enter" /\ UNCHANGED <<cache, denied>>
      /\ CacheSound(cache, denied) /\ denied \in [Article -> SUBSET Pool]
    BY DEF CensusInv, Enter
<1>2. ~InCensus(s)
    BY <1>1 DEF InCensus
<1>3. CASE r \in running
    <2>1. Sound(Through(s), denied) /\ ~InCensus(Through(s))
        BY <1>1, ThroughSound DEF Sound
    <2>2. survey' = [survey EXCEPT ![c] = Through(s)] /\ UNCHANGED running
        BY <1>3 DEF Enter
    <2> QED BY <1>1, <1>2, <2>1, <2>2, QuietStepKeeps
<1>4. CASE r \notin running
    <2>1. survey' = [survey EXCEPT ![c] = t] /\ running' = running \union {r}
        BY <1>4 DEF Enter
    <2>2. SurveyedIds(r) \subseteq Article
        <3>1. s.todo \in Seq(Release) /\ s.todo # <<>>
            BY <1>1 DEF Sound, Shaped
        <3>2. r \in Release
            BY <3>1
        <3> QED BY <3>2, TargetAssumption
    <2>3. DOMAIN s = Fields
        BY <1>1, IdleFields DEF Sound, Shaped
    <2>4. /\ DOMAIN t = DOMAIN s /\ t.phase = "stat" /\ t.todo = s.todo /\ t.pool = s.pool
          /\ t.left = s.left /\ t.asked = s.asked /\ t.missing = s.missing
          /\ t.pending = pending /\ t.absentOn = counts /\ t.states = states
        BY <2>3 DEF Fields
    <2>5. /\ DOMAIN counts = pending /\ \A a \in pending : counts[a] = 0
          /\ pending \subseteq Article
          /\ DOMAIN states \subseteq Article
          /\ \A a \in DOMAIN states : states[a] = "Missing" => denied[a] = Pool
        BY <1>1, <2>2 DEF CacheSound
    <2>6. s.left = {} /\ s.asked = {} /\ s.pool \in 0..Pools
        BY <1>1 DEF Sound, PassSound
    <2> HIDE DEF t, pending, states, counts
    <2>7. CountSound(t, denied)
        BY <2>4, <2>5, <2>6 DEF CountSound, Rounds
    <2>8. Shaped(t) /\ PassSound(t) /\ KnownSound(t, denied)
        BY <1>1, <2>4, <2>5, <2>6 DEF Sound, Shaped, PassSound, KnownSound
    <2>9. Sound(t, denied) /\ InCensus(t)
        BY <2>4, <2>7, <2>8 DEF Sound, InCensus
    <2>10. OneCensusPerRelease'
        BY <1>2, <1>4, <2>1, <2>4, <2>9, EnterKeepsOne
    <2>11. Grows(denied, denied')
        BY <1>1 DEF Grows
    <2>12. Sound(t, denied') /\ CacheSound(cache', denied') /\ denied' \in [Article -> SUBSET Pool]
        BY <1>1, <2>9
    <2> QED BY <2>1, <2>10, <2>11, <2>12, CallerStepKeeps
<1> QED BY <1>3, <1>4

(* A step of the pass over a pool: what changes of the survey s, if its     *)
(* evidence stays sound, is fit to change.                                  *)
LEMMA PassStepKeeps ==
    ASSUME CensusInv, NEW c \in Caller, NEW t,
           survey' = [survey EXCEPT ![c] = t], UNCHANGED <<cache, running>>,
           denied' \in [Article -> SUBSET Pool], Grows(denied, denied'),
           DOMAIN t = DOMAIN survey[c], t.phase = survey[c].phase, t.todo = survey[c].todo,
           t.states = survey[c].states, t.missing = survey[c].missing,
           PassSound(t), CountSound(t, denied')
    PROVE  CensusInv'
<1>1. Sound(survey[c], denied) /\ CacheSound(cache, denied)
    BY DEF CensusInv
<1>2. OneCensusPerRelease'
    BY StayKeepsOne DEF InCensus
<1>3. Sound(survey[c], denied') /\ CacheSound(cache', denied')
    BY <1>1, SoundStays, CacheStays
<1>4. Sound(t, denied')
    BY <1>3 DEF Sound, Shaped, KnownSound
<1> QED BY <1>2, <1>3, <1>4, CallerStepKeeps

(* All that is pending waits for the next pool, or fails on it.             *)
LEMMA StartPassKeeps ==
    ASSUME CensusInv, NEW c \in Caller, StartPass(c)
    PROVE  CensusInv'
<1> DEFINE s == survey[c]
           t == [s EXCEPT !.pool = @ + 1, !.failed = TRUE]
           u == [s EXCEPT !.pool = @ + 1, !.left = s.pending, !.misses = 0]
<1>1. /\ Sound(s, denied) /\ UNCHANGED <<cache, running, denied>>
      /\ denied \in [Article -> SUBSET Pool]
      /\ s.phase = "stat" /\ s.left = {} /\ s.asked = {} /\ s.pool < Pools
    BY DEF CensusInv, StartPass, PassOver
<1>2. Grows(denied, denied') /\ denied' \in [Article -> SUBSET Pool]
    BY <1>1 DEF Grows
<1>3. DOMAIN s = Fields /\ Pools \in Nat
    BY <1>1, IdleFields, CensusAssumption DEF Sound, Shaped
<1>4. \A a \in s.pending : /\ s.absentOn[a] \in Nat /\ s.absentOn[a] <= s.pool
                           /\ s.absentOn[a] = s.pool => 1..s.pool \subseteq denied'[a]
    BY <1>1 DEF Sound, CountSound, Rounds
<1>5. CASE survey' = [survey EXCEPT ![c] = t]
    <2>1. /\ DOMAIN t = DOMAIN s /\ t.phase = s.phase /\ t.todo = s.todo /\ t.pool = s.pool + 1
          /\ t.pending = s.pending /\ t.left = {} /\ t.asked = {}
          /\ t.absentOn = s.absentOn /\ t.states = s.states /\ t.missing = s.missing
        BY <1>1, <1>3 DEF Fields
    <2> HIDE DEF s, t
    <2>2. PassSound(t)
        BY <1>1, <1>3, <2>1 DEF Sound, PassSound
    <2>3. s.pool \in Nat
        BY <1>1 DEF Sound, PassSound
    <2>4. CountSound(t, denied')
        <3>1. ASSUME NEW a \in t.pending
              PROVE  /\ t.absentOn[a] \in Nat /\ t.absentOn[a] <= Rounds(t, a)
                     /\ t.absentOn[a] = Rounds(t, a) => 1..Rounds(t, a) \subseteq denied'[a]
            <4>1. Rounds(t, a) = s.pool + 1 /\ t.absentOn[a] = s.absentOn[a] /\ a \in s.pending
                BY <2>1, <3>1 DEF Rounds
            <4>2. s.absentOn[a] \in Nat /\ s.absentOn[a] <= s.pool
                BY <1>4, <4>1
            <4> QED BY <2>3, <4>1, <4>2
        <3> QED BY <3>1 DEF CountSound
    <2> QED BY <1>1, <1>2, <1>5, <2>1, <2>2, <2>4, PassStepKeeps DEF s
<1>6. CASE survey' = [survey EXCEPT ![c] = u]
    <2>1. /\ DOMAIN u = DOMAIN s /\ u.phase = s.phase /\ u.todo = s.todo /\ u.pool = s.pool + 1
          /\ u.pending = s.pending /\ u.left = s.pending /\ u.asked = {}
          /\ u.absentOn = s.absentOn /\ u.states = s.states /\ u.missing = s.missing
        BY <1>1, <1>3 DEF Fields
    <2> HIDE DEF s, u
    <2>2. PassSound(u)
        BY <1>1, <1>3, <2>1 DEF Sound, PassSound
    <2>3. s.pool \in Nat /\ (s.pool + 1) - 1 = s.pool
        BY <1>1 DEF Sound, PassSound
    <2>4. CountSound(u, denied')
        <3>1. ASSUME NEW a \in u.pending
              PROVE  /\ u.absentOn[a] \in Nat /\ u.absentOn[a] <= Rounds(u, a)
                     /\ u.absentOn[a] = Rounds(u, a) => 1..Rounds(u, a) \subseteq denied'[a]
            <4>1. Rounds(u, a) = s.pool /\ u.absentOn[a] = s.absentOn[a] /\ a \in s.pending
                BY <2>1, <2>3, <3>1 DEF Rounds
            <4> QED BY <1>4, <4>1
        <3> QED BY <3>1 DEF CountSound
    <2> QED BY <1>1, <1>2, <1>6, <2>1, <2>2, <2>4, PassStepKeeps DEF s
<1> QED BY <1>5, <1>6 DEF StartPass

(* An article that waited is asked for.                                     *)
LEMMA AskKeeps ==
    ASSUME CensusInv, NEW c \in Caller, Ask(c)
    PROVE  CensusInv'
<1> DEFINE s == survey[c]
           a == Least(s.left)
           t == [s EXCEPT !.left = @ \ {a}, !.asked = @ \union {a}]
<1>1. /\ Sound(s, denied) /\ UNCHANGED <<cache, running, denied>>
      /\ denied \in [Article -> SUBSET Pool]
      /\ s.left # {} /\ survey' = [survey EXCEPT ![c] = t]
    BY DEF CensusInv, Ask
<1>2. Grows(denied, denied') /\ denied' \in [Article -> SUBSET Pool]
    BY <1>1 DEF Grows
<1>3. DOMAIN s = Fields
    BY <1>1, IdleFields DEF Sound, Shaped
<1>4. a \in s.left
    <2>1. s.left \subseteq Nat
        BY <1>1, CensusAssumption DEF Sound, PassSound
    <2> QED BY <1>1, <2>1, LeastIsIn
<1>5. /\ DOMAIN t = DOMAIN s /\ t.phase = s.phase /\ t.todo = s.todo /\ t.pool = s.pool
      /\ t.pending = s.pending /\ t.left = s.left \ {a} /\ t.asked = s.asked \union {a}
      /\ t.absentOn = s.absentOn /\ t.states = s.states /\ t.missing = s.missing
    BY <1>3 DEF Fields
<1> HIDE DEF s, t, a
<1>6. PassSound(t)
    BY <1>1, <1>4, <1>5 DEF Sound, PassSound
<1>7. \A b \in s.pending : Rounds(t, b) = Rounds(s, b)
    BY <1>4, <1>5 DEF Rounds
<1>8. CountSound(t, denied')
    BY <1>1, <1>5, <1>7 DEF Sound, CountSound
<1> QED BY <1>1, <1>2, <1>5, <1>6, <1>8, PassStepKeeps DEF s

(* An article that fails on the pool, unasked or not, falls behind: its     *)
(* count never reaches the number of pools again.                           *)
LEMMA FallBehind ==
    ASSUME NEW s, NEW d, NEW t, NEW a, PassSound(s), CountSound(s, d),
           t.pool = s.pool, t.phase = s.phase, t.pending = s.pending, t.absentOn = s.absentOn,
           t.left = s.left \ {a}, t.asked = s.asked \ {a}
    PROVE  PassSound(t) /\ CountSound(t, d)
<1>1. PassSound(t)
    BY DEF PassSound
<1>2. ASSUME NEW b \in t.pending
      PROVE  /\ t.absentOn[b] \in Nat /\ t.absentOn[b] <= Rounds(t, b)
             /\ t.absentOn[b] = Rounds(t, b) => 1..Rounds(t, b) \subseteq d[b]
    <2>1. CASE b = a /\ a \in s.left \union s.asked
        <3>1. Rounds(s, b) = s.pool - 1 /\ Rounds(t, b) = s.pool /\ s.pool \in Nat
            BY <2>1 DEF Rounds, PassSound
        <3>2. s.absentOn[b] \in Nat /\ s.absentOn[b] <= Rounds(s, b)
            BY <1>2 DEF CountSound
        <3> QED BY <3>1, <3>2
    <2>2. CASE ~(b = a /\ a \in s.left \union s.asked)
        <3>1. Rounds(t, b) = Rounds(s, b)
            BY <2>2 DEF Rounds
        <3> QED BY <3>1, <1>2 DEF CountSound
    <2> QED BY <2>1, <2>2
<1> QED BY <1>1, <1>2 DEF CountSound

(* A pool that tripped is not asked.                                        *)
LEMMA SkipKeeps ==
    ASSUME CensusInv, NEW c \in Caller, Skip(c)
    PROVE  CensusInv'
<1> DEFINE s == survey[c]
           a == Least(s.left)
           t == [s EXCEPT !.left = @ \ {a}, !.failed = TRUE]
<1>1. /\ Sound(s, denied) /\ UNCHANGED <<cache, running, denied>>
      /\ denied \in [Article -> SUBSET Pool]
      /\ s.left # {} /\ survey' = [survey EXCEPT ![c] = t]
    BY DEF CensusInv, Skip
<1>2. Grows(denied, denied') /\ denied' \in [Article -> SUBSET Pool]
    BY <1>1 DEF Grows
<1>3. DOMAIN s = Fields
    BY <1>1, IdleFields DEF Sound, Shaped
<1>4. a \in s.left
    <2>1. s.left \subseteq Nat
        BY <1>1, CensusAssumption DEF Sound, PassSound
    <2> QED BY <1>1, <2>1, LeastIsIn
<1>5. /\ DOMAIN t = DOMAIN s /\ t.phase = s.phase /\ t.todo = s.todo /\ t.pool = s.pool
      /\ t.pending = s.pending /\ t.left = s.left \ {a} /\ t.asked = s.asked
      /\ t.absentOn = s.absentOn /\ t.states = s.states /\ t.missing = s.missing
    BY <1>3 DEF Fields
<1>6. PassSound(s) /\ CountSound(s, denied') /\ s.asked = s.asked \ {a}
    BY <1>1, <1>4 DEF Sound, PassSound
<1> HIDE DEF s, t, a
<1>7. PassSound(t) /\ CountSound(t, denied')
    BY <1>5, <1>6, FallBehind
<1> QED BY <1>1, <1>2, <1>5, <1>7, PassStepKeeps DEF s

(* Present: the article is pending no more.  An error: it falls behind.     *)
LEMMA AnswerKeeps ==
    ASSUME CensusInv, NEW c \in Caller, NEW a, AnswerPresent(c, a) \/ Fail(c, a)
    PROVE  CensusInv'
<1> DEFINE s == survey[c]
           t == [s EXCEPT !.asked = @ \ {a}, !.pending = @ \ {a}, !.misses = 0]
           u == [s EXCEPT !.asked = @ \ {a}, !.misses = @ + 1, !.failed = TRUE]
<1>1. /\ Sound(s, denied) /\ UNCHANGED <<cache, running, denied>>
      /\ denied \in [Article -> SUBSET Pool] /\ a \in s.asked
    BY DEF CensusInv, AnswerPresent, Fail
<1>2. Grows(denied, denied') /\ denied' \in [Article -> SUBSET Pool]
    BY <1>1 DEF Grows
<1>3. DOMAIN s = Fields
    BY <1>1, IdleFields DEF Sound, Shaped
<1>4. PassSound(s) /\ CountSound(s, denied') /\ s.left = s.left \ {a}
    BY <1>1 DEF Sound, PassSound
<1>5. CASE survey' = [survey EXCEPT ![c] = t]
    <2>1. /\ DOMAIN t = DOMAIN s /\ t.phase = s.phase /\ t.todo = s.todo /\ t.pool = s.pool
          /\ t.pending = s.pending \ {a} /\ t.left = s.left /\ t.asked = s.asked \ {a}
          /\ t.absentOn = s.absentOn /\ t.states = s.states /\ t.missing = s.missing
        BY <1>3 DEF Fields
    <2> HIDE DEF s, t
    <2>2. PassSound(t)
        BY <1>4, <2>1 DEF PassSound
    <2>3. \A b \in t.pending : Rounds(t, b) = Rounds(s, b) /\ b \in s.pending
        BY <2>1 DEF Rounds
    <2>4. CountSound(t, denied')
        BY <1>4, <2>1, <2>3 DEF CountSound
    <2> QED BY <1>1, <1>2, <1>5, <2>1, <2>2, <2>4, PassStepKeeps DEF s
<1>6. CASE survey' = [survey EXCEPT ![c] = u]
    <2>1. /\ DOMAIN u = DOMAIN s /\ u.phase = s.phase /\ u.todo = s.todo /\ u.pool = s.pool
          /\ u.pending = s.pending /\ u.left = s.left /\ u.asked = s.asked \ {a}
          /\ u.absentOn = s.absentOn /\ u.states = s.states /\ u.missing = s.missing
        BY <1>3 DEF Fields
    <2> HIDE DEF s, u
    <2>2. PassSound(u) /\ CountSound(u, denied')
        BY <1>4, <2>1, FallBehind
    <2> QED BY <1>1, <1>2, <1>6, <2>1, <2>2, PassStepKeeps DEF s
<1> QED BY <1>5, <1>6 DEF AnswerPresent, Fail

(* A 430 is one more absent answer, of a pool that had given none yet.      *)
LEMMA AnswerAbsentKeeps ==
    ASSUME CensusInv, NEW c \in Caller, NEW a, AnswerAbsent(c, a)
    PROVE  CensusInv'
<1> DEFINE s == survey[c]
           t == [s EXCEPT !.asked = @ \ {a}, !.misses = 0, !.absentOn[a] = @ + 1]
<1>1. /\ Sound(s, denied) /\ UNCHANGED <<cache, running>>
      /\ denied \in [Article -> SUBSET Pool] /\ a \in s.asked
      /\ survey' = [survey EXCEPT ![c] = t]
      /\ denied' = [denied EXCEPT ![a] = @ \union {s.pool}]
    BY DEF CensusInv, AnswerAbsent
<1>2. /\ PassSound(s) /\ CountSound(s, denied)
      /\ a \in Article /\ a \in s.pending /\ a \in DOMAIN s.absentOn /\ a \notin s.left
      /\ s.pool \in Pool /\ Pools \in Nat
    BY <1>1, CensusAssumption DEF Sound, PassSound, Pool
<1>3. /\ denied' \in [Article -> SUBSET Pool] /\ Grows(denied, denied')
      /\ denied'[a] = denied[a] \union {s.pool}
      /\ \A b \in Article \ {a} : denied'[b] = denied[b]
    BY <1>1, <1>2 DEF Grows
<1>4. DOMAIN s = Fields
    BY <1>1, IdleFields DEF Sound, Shaped
<1>5. /\ DOMAIN t = DOMAIN s /\ t.phase = s.phase /\ t.todo = s.todo /\ t.pool = s.pool
      /\ t.pending = s.pending /\ t.left = s.left /\ t.asked = s.asked \ {a}
      /\ t.absentOn = [s.absentOn EXCEPT ![a] = @ + 1]
      /\ t.states = s.states /\ t.missing = s.missing
    BY <1>4 DEF Fields
<1> HIDE DEF s, t
<1>6. /\ DOMAIN t.absentOn = DOMAIN s.absentOn
      /\ t.absentOn[a] = s.absentOn[a] + 1
      /\ \A b \in s.pending \ {a} : t.absentOn[b] = s.absentOn[b]
    BY <1>2, <1>5 DEF PassSound
<1>7. PassSound(t)
    BY <1>2, <1>5, <1>6 DEF PassSound
<1>8. ASSUME NEW b \in t.pending
      PROVE  /\ t.absentOn[b] \in Nat /\ t.absentOn[b] <= Rounds(t, b)
             /\ t.absentOn[b] = Rounds(t, b) => 1..Rounds(t, b) \subseteq denied'[b]
    <2>1. CASE b = a
        <3>1. Rounds(s, a) = s.pool - 1 /\ Rounds(t, a) = s.pool
            BY <1>1, <1>2, <1>5 DEF Rounds
        <3>2. /\ s.absentOn[a] \in Nat /\ s.absentOn[a] <= s.pool - 1
              /\ s.absentOn[a] = s.pool - 1 => 1..(s.pool - 1) \subseteq denied[a]
            BY <1>2, <3>1 DEF CountSound
        <3>3. s.pool \in Nat /\ s.pool > 0
            BY <1>2 DEF Pool
        <3>4. 1..s.pool = (1..(s.pool - 1)) \union {s.pool}
            BY <3>3
        <3>5. t.absentOn[a] \in Nat /\ t.absentOn[a] <= s.pool
            BY <1>6, <3>2, <3>3
        <3>6. t.absentOn[a] = s.pool => 1..s.pool \subseteq denied'[a]
            BY <1>3, <1>6, <3>2, <3>3, <3>4
        <3> QED BY <2>1, <3>1, <3>5, <3>6
    <2>2. CASE b # a
        <3>1. b \in s.pending /\ b \in Article
            BY <1>2, <1>5, <1>8 DEF PassSound
        <3>2. Rounds(t, b) = Rounds(s, b)
            BY <2>2, <1>5 DEF Rounds
        <3> QED BY <2>2, <3>1, <3>2, <1>2, <1>3, <1>6 DEF CountSound
    <2> QED BY <2>1, <2>2
<1>9. CountSound(t, denied')
    BY <1>8 DEF CountSound
<1> QED BY <1>1, <1>3, <1>5, <1>7, <1>9, PassStepKeeps DEF s

(* The operator hangs up.                                                   *)
LEMMA HangUpKeeps ==
    ASSUME CensusInv, NEW c \in Caller, HangUp(c)
    PROVE  CensusInv'
<1>1. /\ CacheSound(cache, denied) /\ denied \in [Article -> SUBSET Pool]
      /\ UNCHANGED <<cache, denied>> /\ survey' = [survey EXCEPT ![c] = Idle]
    BY DEF CensusInv, HangUp
<1>2. OneCensusPerRelease'
    <2>1. /\ InCensus(survey[c]) /\ ~InCensus(Idle)
          /\ running' = running \ {Head(survey[c].todo)}
        BY IdleIsSound DEF HangUp, InCensus
    <2> QED BY <1>1, <2>1, LeaveKeepsOne
<1>3. /\ Sound(Idle, denied') /\ CacheSound(cache', denied') /\ Grows(denied, denied')
      /\ denied' \in [Article -> SUBSET Pool]
    BY <1>1, IdleIsSound DEF Grows
<1> QED BY <1>1, <1>2, <1>3, CallerStepKeeps

(* What a census settles as missing was refused by every pool: the counts   *)
(* of a pass over all of them, or the cache.                                *)
LEMMA SettleKeeps ==
    ASSUME CensusInv, NEW c \in Caller, Settle(c)
    PROVE  CensusInv'
<1> DEFINE s == survey[c]
           fresh == DOMAIN s.absentOn
           StateOf(a) == IF a \notin s.pending THEN "Present"
                         ELSE IF Pools > 0 /\ s.absentOn[a] = Pools THEN "Missing"
                         ELSE "Unestablished"
           states == [a \in fresh \union DOMAIN s.states |->
                         IF a \in fresh THEN StateOf(a) ELSE s.states[a]]
           learned == {a \in fresh : states[a] # "Unestablished"}
           merged == [a \in DOMAIN cache \union learned |->
                         IF a \in learned
                         THEN [state |-> states[a],
                               left |-> IF states[a] = "Present" THEN PresentTtl ELSE MissingTtl]
                         ELSE cache[a]]
           With(x) == {a \in DOMAIN states : states[a] = x}
           t == [Idle EXCEPT !.phase = "judge", !.trigger = s.trigger, !.todo = s.todo,
                             !.failed = s.failed, !.missing = With("Missing"),
                             !.fresh = With("Missing") \intersect fresh,
                             !.possible = With("Unestablished")]
<1>1. /\ Sound(s, denied) /\ CacheSound(cache, denied) /\ denied \in [Article -> SUBSET Pool]
      /\ UNCHANGED <<running, denied>> /\ survey' = [survey EXCEPT ![c] = t]
      /\ s.phase = "stat" /\ s.left = {} /\ s.asked = {} /\ (s.pending = {} \/ s.pool = Pools)
    BY DEF CensusInv, Settle, PassOver
<1>2. PICK K \in SUBSET DOMAIN merged : cache' = [a \in K |-> merged[a]]
    BY DEF Settle
<1>3. /\ DOMAIN states = fresh \union DOMAIN s.states
      /\ DOMAIN states \subseteq Article
    BY <1>1 DEF Sound, PassSound, KnownSound
<1>4. ASSUME NEW a \in DOMAIN states, states[a] = "Missing"
      PROVE  denied[a] = Pool
    <2>1. CASE a \in fresh
        <3>1. states[a] = StateOf(a)
            BY <2>1, <1>3
        <3>2. a \in s.pending /\ s.absentOn[a] = Pools
            BY <3>1, <1>4
        <3>3. Rounds(s, a) = Pools
            BY <1>1, <3>2 DEF Rounds
        <3>4. 1..Pools \subseteq denied[a]
            BY <1>1, <3>2, <3>3 DEF Sound, CountSound
        <3>5. denied[a] \subseteq Pool
            BY <1>1, <1>3
        <3> QED BY <3>4, <3>5 DEF Pool
    <2>2. CASE a \notin fresh
        <3>1. a \in DOMAIN s.states /\ states[a] = s.states[a]
            BY <2>2, <1>3
        <3> QED BY <3>1, <1>1, <1>4 DEF Sound, KnownSound
    <2> QED BY <2>1, <2>2
<1>5. CacheSound(cache', denied)
    <2>1. ASSUME NEW a \in K
          PROVE  /\ a \in Article /\ DOMAIN merged[a] = {"state", "left"}
                 /\ merged[a].state = "Missing" => denied[a] = Pool
        <3>1. CASE a \in learned
            <4>1. merged[a] = [state |-> states[a],
                               left |-> IF states[a] = "Present" THEN PresentTtl ELSE MissingTtl]
                BY <3>1
            <4>2. a \in DOMAIN states
                BY <3>1, <1>3
            <4> HIDE DEF states, merged
            <4>3. DOMAIN merged[a] = {"state", "left"} /\ merged[a].state = states[a]
                BY <4>1
            <4> QED BY <4>2, <4>3, <1>3, <1>4
        <3>2. CASE a \notin learned
            <4>1. a \in DOMAIN cache /\ merged[a] = cache[a]
                BY <3>2, <2>1
            <4> QED BY <4>1, <1>1 DEF CacheSound
        <3> QED BY <3>1, <3>2
    <2> HIDE DEF merged
    <2>2. DOMAIN cache' = K /\ \A a \in K : cache'[a] = merged[a]
        BY <1>2
    <2> QED BY <2>1, <2>2 DEF CacheSound
<1> HIDE DEF s, states
<1>6. /\ DOMAIN t = DOMAIN Idle /\ t.phase = "judge" /\ t.todo = s.todo
      /\ t.pool = 0 /\ t.absentOn = <<>> /\ t.states = <<>>
      /\ t.pending = {} /\ t.left = {} /\ t.asked = {} /\ t.missing = With("Missing")
    BY DEF Idle
<1>7. /\ With("Missing") \subseteq Article
      /\ \A a \in With("Missing") : denied[a] = Pool
    BY <1>3, <1>4
<1>8. DOMAIN <<>> = {} /\ Pools \in Nat
    BY CensusAssumption
<1> HIDE DEF t, With
<1>9. Sound(t, denied)
    <2>1. Shaped(t)
        BY <1>1, <1>6 DEF Sound, Shaped
    <2> QED BY <2>1, <1>6, <1>7, <1>8 DEF Sound, PassSound, CountSound, KnownSound
<1>10. OneCensusPerRelease'
    BY <1>1, <1>6, StayKeepsOne DEF InCensus, s
<1>11. /\ Grows(denied, denied') /\ Sound(t, denied') /\ CacheSound(cache', denied')
       /\ denied' \in [Article -> SUBSET Pool]
    BY <1>1, <1>5, <1>9 DEF Grows
<1> QED BY <1>1, <1>10, <1>11, CallerStepKeeps

(* Judging takes articles from those missing.                               *)
LEMMA JudgeKeeps ==
    ASSUME CensusInv, NEW c \in Caller, Judge(c)
    PROVE  CensusInv'
<1> DEFINE s == survey[c]
           a == Least(s.missing)
<1>1. /\ Sound(s, denied) /\ UNCHANGED <<cache, running, denied>>
      /\ s.phase = "judge"
    BY DEF CensusInv, Judge
<1>2. PICK x, y :
          survey' = [survey EXCEPT ![c] = [s EXCEPT !.missing = @ \ {a}, !.fresh = @ \ {a},
                                                    !.certain = x, !.possible = y]]
    <2>1. survey' = [survey EXCEPT ![c] =
              [s EXCEPT !.missing = @ \ {a}, !.fresh = @ \ {a},
                        !.certain = IF hole'[a] = "Confirmed" THEN @ \union {a} ELSE @,
                        !.possible = IF hole'[a] = "Confirmed" THEN @ ELSE @ \union {a}]]
        BY DEF Judge
    <2> QED BY <2>1
<1> DEFINE t == [s EXCEPT !.missing = @ \ {a}, !.fresh = @ \ {a}, !.certain = x, !.possible = y]
<1>3. DOMAIN s = Fields
    BY <1>1, IdleFields DEF Sound, Shaped
<1>4. /\ DOMAIN t = DOMAIN s /\ t.phase = s.phase /\ t.todo = s.todo /\ t.pool = s.pool
      /\ t.pending = s.pending /\ t.left = s.left /\ t.asked = s.asked
      /\ t.absentOn = s.absentOn /\ t.states = s.states /\ t.missing = s.missing \ {a}
    BY <1>3 DEF Fields
<1>5. survey' = [survey EXCEPT ![c] = t]
    BY <1>2
<1> HIDE DEF s, t
<1>6. Sound(t, denied)
    BY <1>1, <1>4 DEF Sound, Shaped, PassSound, CountSound, Rounds, KnownSound
<1> QED BY <1>1, <1>4, <1>5, <1>6, QuietStepKeeps DEF InCensus, s

(* The verdict ends the census, and its report the turn of the release.     *)
LEMMA ConcludeKeeps ==
    ASSUME CensusInv, NEW c \in Caller, Conclude(c)
    PROVE  CensusInv'
<1> DEFINE s == survey[c]
<1>1. /\ Sound(s, denied) /\ CacheSound(cache, denied) /\ denied \in [Article -> SUBSET Pool]
      /\ UNCHANGED <<cache, denied>> /\ s.phase = "judge"
      /\ running' = running \ {Head(s.todo)}
    BY DEF CensusInv, Conclude
<1>2. PICK v, n : survey' = [survey EXCEPT ![c] = [Idle EXCEPT
          !.phase = "report", !.trigger = s.trigger, !.todo = s.todo, !.verdict = v, !.damaged = n]]
    BY DEF Conclude
<1> DEFINE t == [Idle EXCEPT !.phase = "report", !.trigger = s.trigger, !.todo = s.todo,
                             !.verdict = v, !.damaged = n]
<1>3. /\ DOMAIN t = DOMAIN Idle /\ t.phase = "report" /\ t.todo = s.todo
      /\ t.pool = 0 /\ t.absentOn = <<>> /\ t.states = <<>>
      /\ t.pending = {} /\ t.left = {} /\ t.asked = {} /\ t.missing = {}
    BY DEF Idle
<1>4. DOMAIN <<>> = {} /\ Pools \in Nat
    BY CensusAssumption
<1>5. survey' = [survey EXCEPT ![c] = t]
    BY <1>2
<1> HIDE DEF s, t
<1>6. Sound(t, denied) /\ ~InCensus(t)
    <2>1. Shaped(t)
        BY <1>1, <1>3 DEF Sound, Shaped
    <2> QED BY <2>1, <1>3, <1>4 DEF Sound, PassSound, CountSound, KnownSound, InCensus
<1>7. OneCensusPerRelease'
    BY <1>1, <1>5, <1>6, LeaveKeepsOne DEF InCensus, s
<1>8. /\ Grows(denied, denied') /\ Sound(t, denied') /\ CacheSound(cache', denied')
      /\ denied' \in [Article -> SUBSET Pool]
    BY <1>1, <1>6 DEF Grows
<1> QED BY <1>5, <1>7, <1>8, CallerStepKeeps

(* The report is handed out.                                                *)
LEMMA ReportKeeps ==
    ASSUME CensusInv, NEW c \in Caller, Report(c)
    PROVE  CensusInv'
<1>1. /\ Sound(survey[c], denied) /\ survey[c].phase = "report"
      /\ UNCHANGED <<cache, running, denied>>
      /\ survey' = [survey EXCEPT ![c] = Through(survey[c])]
    BY DEF CensusInv, Report
<1>2. Sound(Through(survey[c]), denied) /\ ~InCensus(Through(survey[c])) /\ ~InCensus(survey[c])
    BY <1>1, ThroughSound DEF Sound, InCensus
<1> QED BY <1>1, <1>2, QuietStepKeeps

-----------------------------------------------------------------------------
(* The steps of everyone else.                                              *)

(* No survey moves: the cache stays sound, and refusals only come in.       *)
LEMMA OutsideKeeps ==
    ASSUME CensusInv, UNCHANGED <<survey, running>>,
           denied' \in [Article -> SUBSET Pool], Grows(denied, denied'),
           CacheSound(cache', denied)
    PROVE  CensusInv'
<1>1. CacheSound(cache', denied')
    BY CacheStays
<1>2. \A c \in Caller : Sound(survey[c], denied')
    BY SoundStays DEF CensusInv
<1>3. OneCensusPerRelease'
    BY DEF CensusInv, OneCensusPerRelease
<1> QED BY <1>1, <1>2, <1>3 DEF CensusInv

(* The ledger's other callers, repairs and time.                            *)
LEMMA OthersKeep ==
    ASSUME CensusInv,
           \/ \E a \in Article : LedgerForgets(a)
           \/ \E a \in Read, p \in Pool : ReaderRefused(a, p)
           \/ \E r \in Release : RepairFails(r)
           \/ CensusTick
    PROVE  CensusInv'
<1>1. CacheSound(cache, denied) /\ denied \in [Article -> SUBSET Pool]
    BY DEF CensusInv
<1>2. CASE \/ \E a \in Article : LedgerForgets(a)
           \/ \E r \in Release : RepairFails(r)
    <2>1. UNCHANGED <<survey, running, cache, denied>>
        BY <1>2 DEF LedgerForgets, RepairFails
    <2>2. denied' \in [Article -> SUBSET Pool] /\ Grows(denied, denied') /\ CacheSound(cache', denied)
        BY <1>1, <2>1 DEF Grows
    <2> QED BY <2>1, <2>2, OutsideKeeps
<1>3. CASE \E a \in Read, p \in Pool : ReaderRefused(a, p)
    <2>1. PICK a \in Read, p \in Pool : ReaderRefused(a, p)
        BY <1>3
    <2>2. /\ UNCHANGED <<survey, running, cache>>
          /\ denied' = [denied EXCEPT ![a] = @ \union {p}]
        BY <2>1 DEF ReaderRefused
    <2>3. denied' \in [Article -> SUBSET Pool] /\ Grows(denied, denied') /\ CacheSound(cache', denied)
        BY <1>1, <2>2 DEF Grows
    <2> QED BY <2>2, <2>3, OutsideKeeps
<1>4. CASE CensusTick
    <2> DEFINE alive == {a \in DOMAIN cache : cache[a].left > 1}
    <2>1. /\ UNCHANGED <<survey, running, denied>>
          /\ cache' = [a \in alive |-> [cache[a] EXCEPT !.left = @ - 1]]
        BY <1>4 DEF CensusTick
    <2>2. DOMAIN cache' = alive /\ alive \subseteq DOMAIN cache
          /\ \A a \in alive : cache'[a] = [cache[a] EXCEPT !.left = @ - 1]
        BY <2>1
    <2>3. \A a \in alive : /\ DOMAIN cache[a] = {"state", "left"} /\ a \in Article
                           /\ cache[a].state = "Missing" => denied[a] = Pool
        BY <1>1, <2>2 DEF CacheSound
    <2>4. \A a \in alive : DOMAIN cache'[a] = {"state", "left"} /\ cache'[a].state = cache[a].state
        BY <2>2, <2>3
    <2> HIDE DEF alive
    <2>5. CacheSound(cache', denied)
        BY <2>2, <2>3, <2>4 DEF CacheSound
    <2>6. denied' \in [Article -> SUBSET Pool] /\ Grows(denied, denied')
        BY <1>1, <2>1 DEF Grows
    <2> QED BY <2>1, <2>5, <2>6, OutsideKeeps
<1> QED BY <1>2, <1>3, <1>4

-----------------------------------------------------------------------------
(* The theorems.                                                            *)

(* Nothing surveyed, nothing known.                                         *)
LEMMA InitCensusInv == CensusInit => CensusInv
<1>1. SUFFICES ASSUME CensusInit
               PROVE  CensusInv
    OBVIOUS
<1>2. /\ DOMAIN cache = {} /\ running = {}
      /\ survey = [c \in Caller |-> Idle] /\ denied = [a \in Article |-> {}]
    BY <1>1 DEF CensusInit
<1>3. \A c \in Caller : survey[c].phase = "idle"
    BY <1>2 DEF Idle
<1>4. OneCensusPerRelease
    BY <1>2, <1>3 DEF OneCensusPerRelease
<1>5. \A c \in Caller : Sound(survey[c], denied)
    BY <1>2, IdleIsSound
<1> QED BY <1>2, <1>4, <1>5 DEF CensusInv, CacheSound

(* Every step keeps the invariant.                                          *)
LEMMA NextCensusInv == CensusInv /\ [CensusNext]_censusVars => CensusInv'
<1>1. SUFFICES ASSUME CensusInv, [CensusNext]_censusVars
               PROVE  CensusInv'
    OBVIOUS
<1>2. ASSUME NEW c \in Caller, \E i \in Item :
          \/ <<i, "HoleRead">> \in Starts /\ HoleRead(c, i)
          \/ \E t \in {"HealthCheck", "Operator"} : <<i, t>> \in Starts /\ Survey(c, i, t)
      PROVE  CensusInv'
    BY <1>1, <1>2, BeginKeeps
<1>3. ASSUME NEW c \in Caller,
             \/ CheckCooldown(c) \/ Enter(c) \/ StartPass(c) \/ Ask(c) \/ Skip(c)
             \/ HangUp(c) \/ Settle(c) \/ Judge(c) \/ Conclude(c) \/ Report(c)
      PROVE  CensusInv'
    BY <1>1, <1>3, CheckCooldownKeeps, EnterKeeps, StartPassKeeps, AskKeeps, SkipKeeps,
       HangUpKeeps, SettleKeeps, JudgeKeeps, ConcludeKeeps, ReportKeeps
<1>4. ASSUME NEW c \in Caller, NEW a,
             AnswerPresent(c, a) \/ AnswerAbsent(c, a) \/ Fail(c, a)
      PROVE  CensusInv'
    BY <1>1, <1>4, AnswerKeeps, AnswerAbsentKeeps
<1>5. CASE UNCHANGED censusVars
    <2>1. UNCHANGED <<survey, running, cache, denied>>
        BY <1>5 DEF censusVars
    <2> QED BY <1>1, <2>1 DEF CensusInv, OneCensusPerRelease
<1> QED BY <1>1, <1>2, <1>3, <1>4, <1>5, OthersKeep DEF CensusNext

(* A release is surveyed by one census at a time and marked while it is,    *)
(* however many callers survey items that share their releases.             *)
THEOREM CensusesAreSingle == CensusSpec => []OneCensusPerRelease
<1>1. CensusInv => OneCensusPerRelease
    BY DEF CensusInv
<1> QED BY <1>1, InitCensusInv, NextCensusInv, PTL DEF CensusSpec

(* Missing means that every pool answered 430, for any number of pools and  *)
(* in the cache too: errors, timeouts and skipped pools never add up to it. *)
THEOREM MissesAreWitnessed == CensusSpec => []MissIsWitnessed
<1>1. CensusInv => MissIsWitnessed
    BY DEF CensusInv, CacheSound, Sound, KnownSound, MissIsWitnessed
<1> QED BY <1>1, InitCensusInv, NextCensusInv, PTL DEF CensusSpec

-----------------------------------------------------------------------------
(* The share of the pools.                                                  *)

(* What a survey has in flight on pool p.                                   *)
Load(s, p) == IF s.phase = "stat" /\ s.pool = p THEN Cardinality(s.asked) ELSE 0

(* The same of every caller.                                                *)
Loads(surveys, p) == [c \in Caller |-> Load(surveys[c], p)]

(* What all the surveys have in flight on pool p.                           *)
FlightOf(all, p) ==
    FoldSet(LAMBDA c, n : Cardinality(all[c].asked) + n, 0,
            {c \in Caller : all[c].phase = "stat" /\ all[c].pool = p})

(* The model's sum is a sum.                                                *)
LEMMA FlightIsSum ==
    ASSUME NEW all, NEW p, Loads(all, p) \in [Caller -> Nat]
    PROVE  FlightOf(all, p) = Sum(Loads(all, p), Caller)
<1> DEFINE S == {c \in Caller : all[c].phase = "stat" /\ all[c].pool = p}
           w == Of(Loads(all, p), S)
           Sol(f) == f = [s \in SUBSET S |->
                IF s = {} THEN 0 ELSE Cardinality(all[OneOf(s)].asked) + f[Remaining(s)]]
           it == CHOOSE f : Sol(f)
<1>1. IsFiniteSet(Caller) /\ IsFiniteSet(S) /\ S \in SUBSET Caller
  BY CensusAssumption, FS_Subset
<1>2. w \in [S -> Int] /\ \A c \in S : w[c] = Cardinality(all[c].asked)
  BY DEF Of, Loads, Load
<1>3. FlightOf(all, p) = it[S]
  BY DEF FlightOf, FoldSet, MapThenFoldSet, OneOf, Remaining
<1> HIDE DEF S, w
<1>4. PICK g \in [SUBSET S -> Int] : Partial(g, w, SUBSET S)
  BY <1>1, <1>2, PartialExists
<1>5. \A s \in SUBSET S : s # {} => OneOf(s) \in S
  BY OneIsIn
<1>6. \A f : Sol(f) <=> Partial(f, w, SUBSET S)
  <2> SUFFICES ASSUME NEW f PROVE Sol(f) <=> Partial(f, w, SUBSET S)
    OBVIOUS
  <2> QED
    BY <1>2, <1>5 DEF Partial
<1>7. Sol(it)
  BY <1>4, <1>6
<1> HIDE DEF it, Sol
<1>8. FlightOf(all, p) = Sum(w, S)
  BY <1>1, <1>2, <1>3, <1>6, <1>7, SumIs
<1>9. Sum(Of(Loads(all, p), Caller \ S), Caller \ S) = 0
  <2>1. \A c \in Caller \ S : Loads(all, p)[c] = 0
    BY DEF S, Loads, Load
  <2> DEFINE T == Caller \ S
             v == Of(Loads(all, p), T)
  <2>2. IsFiniteSet(T) /\ v \in [T -> Int] /\ \A c \in T : v[c] = 0
    BY <1>1, <2>1, FS_Subset DEF Of
  <2> HIDE DEF T, v
  <2>3. Sum(v, T) = 0
    BY <2>2, SumOfZeros
  <2> QED
    BY <2>3 DEF T, v
<1>10. Loads(all, p) \in [Caller -> Int]
  OBVIOUS
<1>11. Sum(Loads(all, p), Caller) = Sum(w, S) + 0 /\ Sum(w, S) \in Int
  BY <1>1, <1>2, <1>9, <1>10, SumSplit, SumType DEF w
<1> QED
  BY <1>8, <1>11

(* What a caller may have in flight after a step: nothing, or some of what  *)
(* it had.                                                                  *)
Sheds(s, t) ==
    t.phase = "stat" => \/ t.asked = {}
                        \/ s.phase = "stat" /\ t.pool = s.pool /\ t.asked \subseteq s.asked

(* Each survey has finitely many articles in flight.                        *)
LEMMA LoadsAreNumbers ==
    ASSUME NEW all, \A c \in Caller : all[c].asked \subseteq Article, NEW p
    PROVE  /\ Loads(all, p) \in [Caller -> Nat]
           /\ \A c \in Caller : IsFiniteSet(all[c].asked)
<1>1. \A c \in Caller : IsFiniteSet(all[c].asked)
  BY CensusAssumption, FS_Subset
<1> QED
  BY <1>1, FS_CardinalityType DEF Loads, Load

(* What is asked for is an article.                                         *)
LEMMA AskedAreArticles == CensusInv => \A c \in Caller : survey[c].asked \subseteq Article
BY DEF CensusInv, Sound, PassSound

(* A share is a number of connections.                                      *)
LEMMA WidthType == \A p \in Pool : Width(p) \in Nat
<1> SUFFICES ASSUME NEW p \in Pool PROVE Width(p) \in Nat
  OBVIOUS
<1>1. Connections[p] \in Nat /\ SharePercent \in Nat /\ MaxInFlight \in Nat
  BY CensusAssumption
<1>2. Connections[p] * SharePercent \in Nat
  BY <1>1
<1> DEFINE product == Connections[p] * SharePercent
           share == Smaller(MaxInFlight, product \div 100)
<1>3. product \div 100 \in Nat
  <2> HIDE DEF product
  <2> QED
    BY <1>2 DEF product
<1>4. share \in Nat
  <2> HIDE DEF product
  <2> QED
    BY <1>1, <1>3 DEF Smaller
<1>5. Width(p) = IF Connections[p] < 2 THEN 0 ELSE IF share < 1 THEN 1 ELSE share
  BY DEF Width
<1> HIDE DEF share
<1> QED
  BY <1>4, <1>5

(* What a step of one caller does to a pool.                                *)
LEMMA FlightAfter ==
    ASSUME CensusInv, CensusInv', NEW c \in Caller, NEW t, NEW p,
           survey' = [survey EXCEPT ![c] = t]
    PROVE  /\ InFlight(p) \in Nat /\ Load(t, p) \in Nat /\ Load(survey[c], p) \in Nat
           /\ InFlight(p)' = InFlight(p) + (Load(t, p) - Load(survey[c], p))
<1> DEFINE w == Loads(survey, p)
           v == Loads(survey', p)
<1>1. IsFiniteSet(Caller) /\ DOMAIN survey = Caller
  BY CensusAssumption DEF CensusInv
<1>2. w \in [Caller -> Nat] /\ v \in [Caller -> Nat]
  <2>1. \A b \in Caller : survey[b].asked \subseteq Article /\ survey'[b].asked \subseteq Article
    BY DEF CensusInv, Sound, PassSound
  <2> QED
    BY <2>1, LoadsAreNumbers
<1>3. FlightOf(survey, p) = Sum(w, Caller) /\ FlightOf(survey', p) = Sum(v, Caller)
  BY <1>2, FlightIsSum
<1>4. InFlight(p) = FlightOf(survey, p) /\ InFlight(p)' = FlightOf(survey', p)
  BY DEF InFlight, FlightOf, FoldSet, MapThenFoldSet
<1>5. w[c] = Load(survey[c], p) /\ v[c] = Load(t, p)
  BY <1>1 DEF Loads
<1>6. \A b \in Caller \ {c} : v[b] = w[b]
  BY <1>1 DEF Loads
<1> HIDE DEF w, v
<1>7. w \in [Caller -> Int] /\ v \in [Caller -> Int]
  BY <1>2
<1>8. Sum(v, Caller) = Sum(w, Caller) + (v[c] - w[c])
  BY <1>1, <1>6, <1>7, SumChanged
<1>9. Sum(w, Caller) \in Nat /\ v[c] \in Nat /\ w[c] \in Nat
  BY <1>1, <1>2, SumIsNat
<1> QED
  BY <1>3, <1>4, <1>5, <1>8, <1>9

(* A step that takes nothing new in flight keeps the share.                 *)
LEMMA ShedKeepsShare ==
    ASSUME CensusInv, CensusInv', ShareKept, NEW c \in Caller, NEW t,
           survey' = [survey EXCEPT ![c] = t], Sheds(survey[c], t)
    PROVE  ShareKept'
<1> SUFFICES ASSUME NEW p \in Pool PROVE InFlight(p)' <= Width(p)
  BY DEF ShareKept, Width
<1>1. InFlight(p) <= Width(p) /\ Width(p) \in Nat
  BY WidthType DEF ShareKept
<1>2. /\ InFlight(p) \in Nat /\ Load(t, p) \in Nat /\ Load(survey[c], p) \in Nat
      /\ InFlight(p)' = InFlight(p) + (Load(t, p) - Load(survey[c], p))
  BY FlightAfter
<1>3. Load(t, p) <= Load(survey[c], p)
  <2>1. CASE ~(t.phase = "stat" /\ t.pool = p) \/ t.asked = {}
    <3>1. Load(t, p) = 0
      BY <2>1, FS_EmptySet DEF Load
    <3>2. \A n \in Nat : 0 <= n
      OBVIOUS
    <3> QED
      BY <1>2, <3>1, <3>2
  <2>2. CASE t.phase = "stat" /\ t.pool = p /\ t.asked # {}
    <3>1. survey[c].phase = "stat" /\ survey[c].pool = p /\ t.asked \subseteq survey[c].asked
      BY <2>2 DEF Sheds
    <3>2. IsFiniteSet(survey[c].asked)
      BY AskedAreArticles, LoadsAreNumbers
    <3>3. Cardinality(t.asked) <= Cardinality(survey[c].asked)
      BY <3>1, <3>2, FS_Subset
    <3> QED
      BY <2>2, <3>1, <3>3 DEF Load
  <2> QED
    BY <2>1, <2>2
<1>4. \A i, j, k, n \in Nat : i <= n /\ j <= k => i + (j - k) <= n
  OBVIOUS
<1> QED
  BY <1>1, <1>2, <1>3, <1>4

(* One more article where the share has room.                               *)
LEMMA AskKeepsShare ==
    ASSUME CensusInv, CensusInv', ShareKept, NEW c \in Caller, Ask(c)
    PROVE  ShareKept'
<1> DEFINE s == survey[c]
           a == Least(s.left)
           t == [s EXCEPT !.left = @ \ {a}, !.asked = @ \union {a}]
<1>1. /\ s.phase = "stat" /\ InFlight(s.pool) < Width(s.pool)
      /\ survey' = [survey EXCEPT ![c] = t]
  BY DEF Ask
<1>2. DOMAIN s = Fields
  BY IdleFields DEF CensusInv, Sound, Shaped
<1>3. t.phase = "stat" /\ t.pool = s.pool /\ t.asked = s.asked \union {a}
  BY <1>1, <1>2 DEF Fields
<1>4. IsFiniteSet(s.asked)
  BY AskedAreArticles, LoadsAreNumbers
<1> SUFFICES ASSUME NEW p \in Pool PROVE InFlight(p)' <= Width(p)
  BY DEF ShareKept, Width
<1>5. InFlight(p) <= Width(p) /\ Width(p) \in Nat
  BY WidthType DEF ShareKept
<1> HIDE DEF s, a, t
<1>6. /\ InFlight(p) \in Nat /\ Load(t, p) \in Nat /\ Load(s, p) \in Nat
      /\ InFlight(p)' = InFlight(p) + (Load(t, p) - Load(s, p))
  BY <1>1, FlightAfter DEF s
<1>7. CASE p # s.pool
  <2>1. Load(t, p) = 0 /\ Load(s, p) = 0
    BY <1>3, <1>7 DEF Load
  <2> QED
    BY <1>5, <1>6, <2>1
<1>8. CASE p = s.pool
  <2>1. Load(t, p) = Cardinality(s.asked \union {a}) /\ Load(s, p) = Cardinality(s.asked)
    BY <1>1, <1>3, <1>8 DEF Load
  <2>2. Load(t, p) <= Load(s, p) + 1
    <3>1. CASE a \in s.asked
      <4>1. s.asked \union {a} = s.asked
        BY <3>1
      <4>2. Load(t, p) = Load(s, p)
        BY <2>1, <4>1
      <4>3. \A n \in Nat : n <= n + 1
        OBVIOUS
      <4> QED
        BY <1>6, <4>2, <4>3
    <3>2. CASE a \notin s.asked
      <4>1. Cardinality(s.asked \union {a}) = Cardinality(s.asked) + 1
        BY <1>4, <3>2, FS_AddElement
      <4>2. \A n \in Nat : n + 1 <= n + 1
        OBVIOUS
      <4> QED
        BY <1>6, <2>1, <4>1, <4>2
    <3> QED
      BY <3>1, <3>2
  <2>3. \A i, j, k, n \in Nat : i < n /\ j <= k + 1 => i + (j - k) <= n
    OBVIOUS
  <2> QED
    BY <1>1, <1>5, <1>6, <1>8, <2>2, <2>3
<1> QED
  BY <1>7, <1>8

(* Nothing is taken for certain, and nothing reported.                      *)
Quiet(s, t) == t.certain \subseteq s.certain /\ t.phase # "report"

(* Every other step of a caller takes nothing new in flight, and only       *)
(* judging and concluding are not quiet.                                    *)
LEMMA CallerSheds ==
    ASSUME CensusInv, NEW c \in Caller,
           \/ \E i \in Item, trigger \in {"HoleRead", "HealthCheck", "Operator"} :
                  HoleRead(c, i) \/ Survey(c, i, trigger)
           \/ CheckCooldown(c) \/ Enter(c) \/ StartPass(c) \/ Skip(c)
           \/ \E a \in survey[c].asked :
                  AnswerPresent(c, a) \/ AnswerAbsent(c, a) \/ Fail(c, a)
           \/ HangUp(c) \/ Settle(c) \/ Judge(c) \/ Conclude(c) \/ Report(c)
    PROVE  \E t : survey' = [survey EXCEPT ![c] = t] /\ Sheds(survey[c], t)
                  /\ (Judge(c) \/ Conclude(c) \/ Quiet(survey[c], t))
<1> DEFINE s == survey[c]
<1>1. /\ DOMAIN s = Fields /\ PassSound(s)
      /\ Idle.phase = "idle" /\ Idle.asked = {} /\ Idle.certain = {} /\ DOMAIN Idle = Fields
  <2>1. DOMAIN s = Fields /\ PassSound(s)
    BY IdleFields DEF CensusInv, Sound, Shaped
  <2> QED
    BY <2>1 DEF Idle, Fields
<1> HIDE DEF s
<1>2. Through(s).phase \in {"idle", "next"} /\ Through(s).certain = {}
  <2>1. CASE Len(s.todo) = 1
    BY <1>1, <2>1 DEF Through
  <2>2. CASE Len(s.todo) # 1
    <3> DEFINE t == [Idle EXCEPT !.phase = "next", !.trigger = s.trigger, !.todo = Tail(s.todo)]
    <3>1. t.phase = "next" /\ t.certain = {}
      BY <1>1 DEF Fields
    <3>2. Through(s) = t
      BY <2>2 DEF Through
    <3> QED
      BY <3>1, <3>2
  <2> QED
    BY <2>1, <2>2
<1>3. CASE \E i \in Item, trigger \in {"HoleRead", "HealthCheck", "Operator"} :
               HoleRead(c, i) \/ Survey(c, i, trigger)
  <2>1. PICK i, trigger : Begin(c, i, trigger)
    BY <1>3 DEF HoleRead, Survey
  <2> DEFINE t == [Idle EXCEPT !.phase = "next", !.trigger = trigger, !.todo = ReleasesOf(i)]
  <2>2. t.phase = "next" /\ t.certain = {}
    BY <1>1 DEF Fields
  <2> HIDE DEF t
  <2>3. survey' = [survey EXCEPT ![c] = t]
    BY <2>1 DEF Begin, t
  <2> QED
    BY <2>2, <2>3 DEF Sheds, Quiet
<1>4. CASE CheckCooldown(c)
  <2> DEFINE t == [s EXCEPT !.phase = "enter"]
  <2>1. \/ survey' = [survey EXCEPT ![c] = Through(s)]
        \/ survey' = [survey EXCEPT ![c] = t]
    BY <1>4 DEF CheckCooldown, s
  <2>2. t.phase = "enter" /\ t.certain = s.certain
    BY <1>1 DEF Fields
  <2> HIDE DEF t
  <2> QED
    BY <1>2, <2>1, <2>2 DEF Sheds, Quiet, s
<1>5. CASE Enter(c)
  <2>1. s.phase = "enter"
    BY <1>5 DEF Enter, s
  <2>2. s.asked = {}
    BY <1>1, <2>1 DEF PassSound
  <2>3. PICK x, y, z : \/ survey' = [survey EXCEPT ![c] = Through(s)]
                       \/ survey' = [survey EXCEPT ![c] =
                              [s EXCEPT !.phase = "stat", !.pending = x, !.states = y,
                                        !.absentOn = z]]
    BY <1>5 DEF Enter, s
  <2> DEFINE t == [s EXCEPT !.phase = "stat", !.pending = x, !.states = y, !.absentOn = z]
  <2>4. t.asked = {} /\ t.phase = "stat" /\ t.certain = s.certain
    BY <1>1, <2>2 DEF Fields
  <2> HIDE DEF t
  <2>5. \/ survey' = [survey EXCEPT ![c] = Through(s)]
        \/ survey' = [survey EXCEPT ![c] = t]
    BY <2>3 DEF t
  <2> QED
    BY <1>2, <2>4, <2>5 DEF Sheds, Quiet, s
<1>6. CASE StartPass(c)
  <2> DEFINE t == [s EXCEPT !.pool = @ + 1, !.failed = TRUE]
             u == [s EXCEPT !.pool = @ + 1, !.left = s.pending, !.misses = 0]
  <2>1. s.asked = {} /\ s.phase = "stat"
    BY <1>6 DEF StartPass, PassOver, s
  <2>2. /\ t.asked = {} /\ t.phase = "stat" /\ t.certain = s.certain
        /\ u.asked = {} /\ u.phase = "stat" /\ u.certain = s.certain
    BY <1>1, <2>1 DEF Fields
  <2> HIDE DEF t, u
  <2>3. survey' = [survey EXCEPT ![c] = t] \/ survey' = [survey EXCEPT ![c] = u]
    BY <1>6 DEF StartPass, s, t, u
  <2> QED
    BY <2>2, <2>3 DEF Sheds, Quiet, s
<1>7. CASE Skip(c)
  <2> DEFINE t == [s EXCEPT !.left = @ \ {Least(s.left)}, !.failed = TRUE]
  <2>1. t.asked = s.asked /\ t.phase = s.phase /\ t.pool = s.pool /\ t.certain = s.certain
    BY <1>1 DEF Fields
  <2> HIDE DEF t
  <2>2. survey' = [survey EXCEPT ![c] = t] /\ s.phase = "stat"
    BY <1>7 DEF Skip, s, t
  <2> QED
    BY <2>1, <2>2 DEF Sheds, Quiet, s
<1>8. ASSUME NEW a \in s.asked, AnswerPresent(c, a) \/ AnswerAbsent(c, a) \/ Fail(c, a)
      PROVE  \E t : survey' = [survey EXCEPT ![c] = t] /\ Sheds(s, t) /\ Quiet(s, t)
  <2> DEFINE t == [s EXCEPT !.asked = @ \ {a}, !.pending = @ \ {a}, !.misses = 0]
             u == [s EXCEPT !.asked = @ \ {a}, !.misses = 0, !.absentOn[a] = @ + 1]
             v == [s EXCEPT !.asked = @ \ {a}, !.misses = @ + 1, !.failed = TRUE]
  <2>1. /\ t.asked = s.asked \ {a} /\ t.phase = s.phase /\ t.pool = s.pool
        /\ t.certain = s.certain
        /\ u.asked = s.asked \ {a} /\ u.phase = s.phase /\ u.pool = s.pool
        /\ u.certain = s.certain
        /\ v.asked = s.asked \ {a} /\ v.phase = s.phase /\ v.pool = s.pool
        /\ v.certain = s.certain
    BY <1>1 DEF Fields
  <2> HIDE DEF t, u, v
  <2>3. s.phase = "stat"
    BY <1>1, <1>8 DEF PassSound
  <2>2. \/ survey' = [survey EXCEPT ![c] = t]
        \/ survey' = [survey EXCEPT ![c] = u]
        \/ survey' = [survey EXCEPT ![c] = v]
    BY <1>8 DEF AnswerPresent, AnswerAbsent, Fail, s, t, u, v
  <2> QED
    BY <2>1, <2>2, <2>3 DEF Sheds, Quiet
<1>9. CASE HangUp(c)
  BY <1>1, <1>9 DEF HangUp, Sheds, Quiet
<1>10. CASE Settle(c)
  <2>1. PICK x, y, z :
            survey' = [survey EXCEPT ![c] =
               [Idle EXCEPT !.phase = "judge", !.trigger = s.trigger, !.todo = s.todo,
                            !.failed = s.failed, !.missing = x, !.fresh = y, !.possible = z]]
    BY <1>10 DEF Settle, s
  <2> DEFINE t == [Idle EXCEPT !.phase = "judge", !.trigger = s.trigger, !.todo = s.todo,
                               !.failed = s.failed, !.missing = x, !.fresh = y, !.possible = z]
  <2>2. t.phase = "judge" /\ t.certain = {}
    BY <1>1 DEF Fields
  <2> HIDE DEF t
  <2>3. survey' = [survey EXCEPT ![c] = t]
    BY <2>1 DEF t
  <2> QED
    BY <2>2, <2>3 DEF Sheds, Quiet
<1>11. CASE Judge(c)
  <2>1. s.phase = "judge"
    BY <1>11 DEF Judge, s
  <2>2. PICK m, n, x, y :
            survey' = [survey EXCEPT ![c] = [s EXCEPT !.missing = m, !.fresh = n,
                                                      !.certain = x, !.possible = y]]
    BY <1>11 DEF Judge, s
  <2> DEFINE t == [s EXCEPT !.missing = m, !.fresh = n, !.certain = x, !.possible = y]
  <2>3. t.phase = "judge"
    BY <1>1, <2>1 DEF Fields
  <2> HIDE DEF t
  <2>4. survey' = [survey EXCEPT ![c] = t]
    BY <2>2 DEF t
  <2> QED
    BY <1>11, <2>3, <2>4 DEF Sheds
<1>12. CASE Conclude(c)
  <2>1. PICK v, n : survey' = [survey EXCEPT ![c] = [Idle EXCEPT
          !.phase = "report", !.trigger = s.trigger, !.todo = s.todo, !.verdict = v, !.damaged = n]]
    BY <1>12 DEF Conclude, s
  <2> DEFINE t == [Idle EXCEPT !.phase = "report", !.trigger = s.trigger, !.todo = s.todo,
                               !.verdict = v, !.damaged = n]
  <2>2. t.phase = "report"
    BY <1>1 DEF Fields
  <2> HIDE DEF t
  <2>3. survey' = [survey EXCEPT ![c] = t]
    BY <2>1 DEF t
  <2> QED
    BY <1>12, <2>2, <2>3 DEF Sheds
<1>13. CASE Report(c)
  <2>1. survey' = [survey EXCEPT ![c] = Through(s)]
    BY <1>13 DEF Report, s
  <2> QED
    BY <1>2, <2>1 DEF Sheds, Quiet
<1> QED
  BY <1>3, <1>4, <1>5, <1>6, <1>7, <1>8, <1>9, <1>10, <1>11, <1>12, <1>13 DEF s

(* All censuses together keep within their share of a pool, whatever the    *)
(* number of callers and connections: a STAT is sent only where there is    *)
(* room, and a census that moves on to the next pool has none in flight.    *)
THEOREM SharesAreKept == CensusSpec => []ShareKept
<1>1. CensusInit => ShareKept
  <2> SUFFICES ASSUME CensusInit, NEW p \in Pool PROVE InFlight(p) <= Width(p)
    BY DEF ShareKept
  <2>1. survey = [c \in Caller |-> Idle] /\ Idle.asked = {} /\ Idle.phase = "idle"
    BY DEF CensusInit, Idle
  <2> DEFINE w == Loads(survey, p)
  <2>2. w \in [Caller -> Nat] /\ \A c \in Caller : w[c] = 0
    BY <2>1 DEF Loads, Load
  <2>3. FlightOf(survey, p) = Sum(w, Caller)
    BY <2>2, FlightIsSum
  <2> HIDE DEF w
  <2>4. IsFiniteSet(Caller) /\ w \in [Caller -> Int]
    BY <2>2, CensusAssumption
  <2>5. Sum(w, Caller) = 0
    BY <2>2, <2>4, SumOfZeros
  <2>6. InFlight(p) = FlightOf(survey, p)
    BY DEF InFlight, FlightOf, FoldSet, MapThenFoldSet
  <2>7. \A n \in Nat : 0 <= n
    OBVIOUS
  <2> QED
    BY <2>3, <2>5, <2>6, <2>7, WidthType
<1>2. CensusInv /\ CensusInv' /\ ShareKept /\ [CensusNext]_censusVars => ShareKept'
  <2> SUFFICES ASSUME CensusInv, CensusInv', ShareKept, [CensusNext]_censusVars
               PROVE  ShareKept'
    OBVIOUS
  <2>1. CASE UNCHANGED survey
    <3>1. \A p \in Pool : InFlight(p) = FlightOf(survey, p) /\ InFlight(p)' = FlightOf(survey', p)
      BY DEF InFlight, FlightOf, FoldSet, MapThenFoldSet
    <3> QED
      BY <2>1, <3>1 DEF ShareKept, Width
  <2>2. ASSUME NEW c \in Caller, Ask(c)
        PROVE  ShareKept'
    BY <2>2, AskKeepsShare
  <2>3. ASSUME NEW c \in Caller,
               \E t : survey' = [survey EXCEPT ![c] = t] /\ Sheds(survey[c], t)
        PROVE  ShareKept'
    BY <2>3, ShedKeepsShare
  <2>4. CASE UNCHANGED censusVars \/ (\E a \in Article : LedgerForgets(a))
             \/ (\E a \in Read, p \in Pool : ReaderRefused(a, p))
             \/ (\E r \in Release : RepairFails(r)) \/ CensusTick
    BY <2>1, <2>4 DEF censusVars, LedgerForgets, ReaderRefused, RepairFails, CensusTick
  <2>5. ASSUME NEW c \in Caller,
               \/ \E i \in Item :
                   \/ <<i, "HoleRead">> \in Starts /\ HoleRead(c, i)
                   \/ \E t \in {"HealthCheck", "Operator"} : <<i, t>> \in Starts /\ Survey(c, i, t)
               \/ CheckCooldown(c) \/ Enter(c) \/ StartPass(c) \/ Skip(c)
               \/ \E a \in survey[c].asked :
                      AnswerPresent(c, a) \/ AnswerAbsent(c, a) \/ Fail(c, a)
               \/ HangUp(c) \/ Settle(c) \/ Judge(c) \/ Conclude(c) \/ Report(c)
        PROVE  ShareKept'
    <3>1. \E t : survey' = [survey EXCEPT ![c] = t] /\ Sheds(survey[c], t)
      <4>1. \/ \E i \in Item, trigger \in {"HoleRead", "HealthCheck", "Operator"} :
                  HoleRead(c, i) \/ Survey(c, i, trigger)
            \/ CheckCooldown(c) \/ Enter(c) \/ StartPass(c) \/ Skip(c)
            \/ \E a \in survey[c].asked :
                  AnswerPresent(c, a) \/ AnswerAbsent(c, a) \/ Fail(c, a)
            \/ HangUp(c) \/ Settle(c) \/ Judge(c) \/ Conclude(c) \/ Report(c)
        BY <2>5
      <4> QED
        BY <4>1, CallerSheds
    <3> QED
      BY <2>3, <3>1
  <2> QED
    BY <2>2, <2>4, <2>5 DEF CensusNext
<1> QED
  BY <1>1, <1>2, InitCensusInv, NextCensusInv, PTL DEF CensusSpec

-----------------------------------------------------------------------------
(* What the verdict is made of.                                             *)

(* What is hit of a release where the articles S are lost.                  *)
HitOf(r, S) ==
    IF Target[r].slice = 0 THEN DataIds(r) \intersect S
    ELSE UNION {SlicesHit(f, Target[r].slice, S) : f \in {g \in Target[r].files : g.ids # <<>>}}

(* The blocks of the volumes V.                                             *)
BlocksOf(V) == FoldSet(LAMBDA v, n : v.blocks + n, 0, V)

(* The volumes of a release without an article of S.                        *)
Spared(r, S) == {v \in Target[r].volumes : v.ids \intersect S = {}}

(* Of these, the ones that none of P is in, and the others.                 *)
Sure(r, S, P) == {v \in Spared(r, S) : v.ids \intersect P = {}}
Unsure(r, S, P) == {v \in Spared(r, S) : v.ids \intersect P # {}}

(* The counts of an assessment.                                             *)
LEMMA DamageIs ==
    ASSUME NEW r, NEW C, NEW P
    PROVE  /\ Damage(r, C, P).damaged = Cardinality(HitOf(r, C))
           /\ Damage(r, C, P).available = BlocksOf(Sure(r, C, P))
           /\ Damage(r, C, P).unsure = BlocksOf(Unsure(r, C, P))
<1>1. Damage(r, C, P).damaged = Cardinality(HitOf(r, C))
  BY DEF Damage, HitOf
<1>2. Damage(r, C, P).available = BlocksOf(Sure(r, C, P))
  BY DEF Damage, BlocksOf, Spared, Sure, FoldSet, MapThenFoldSet
<1>3. Damage(r, C, P).unsure = BlocksOf(Unsure(r, C, P))
  BY DEF Damage, BlocksOf, Spared, Unsure, FoldSet, MapThenFoldSet
<1> QED
  BY <1>1, <1>2, <1>3

(* A function of finite domain takes finitely many values.                  *)
LEMMA FiniteImage ==
    ASSUME NEW g, IsFiniteSet(DOMAIN g), g = [x \in DOMAIN g |-> g[x]]
    PROVE  IsFiniteSet({g[x] : x \in DOMAIN g})
<1> DEFINE T == {g[x] : x \in DOMAIN g}
<1>1. g \in Surjection(DOMAIN g, T)
  BY DEF Surjection
<1> HIDE DEF T
<1>2. IsFiniteSet(T)
  BY <1>1, FS_Surjection
<1> QED
  BY <1>2 DEF T

(* Where an article begins and ends is a number.                            *)
LEMMA SpansAreNumbers ==
    ASSUME NEW f, f.size \in Nat, f.part \in Nat, f.ids \in Seq(Article), NEW k \in DOMAIN f.ids
    PROVE  SpanStart(f, k) \in Int /\ SpanEnd(f, k) \in Int
<1>1. k \in Nat \ {0} /\ Len(f.ids) \in Nat \ {0}
  OBVIOUS
<1>2. Part(f) \in Int
  <2>1. (f.size + Len(f.ids) - 1) \in Int
    BY <1>1
  <2>2. \A a \in Int, n \in Nat \ {0} : a \div n \in Int
    OBVIOUS
  <2>3. DivCeil(f.size, Len(f.ids)) \in Int
    BY <1>1, <2>1, <2>2 DEF DivCeil
  <2> QED
    BY <2>3 DEF Part
<1>3. \A a \in Int, n \in Nat : n * a \in Int /\ (n - 1) * a \in Int
  OBVIOUS
<1>4. k * Part(f) \in Int /\ (k - 1) * Part(f) \in Int
  BY <1>1, <1>2, <1>3
<1> QED
  BY <1>4 DEF SpanStart, SpanEnd, Smaller

(* A file has finitely many slices to hit, and more lost articles hit more. *)
LEMMA SlicesHitGrow ==
    ASSUME NEW f, f.size \in Nat, f.part \in Nat, f.ids \in Seq(Article),
           NEW slice \in Nat \ {0}, NEW C, NEW D, C \subseteq D
    PROVE  IsFiniteSet(SlicesHit(f, slice, D)) /\ SlicesHit(f, slice, C) \subseteq SlicesHit(f, slice, D)
<1> DEFINE SlicesAt(k) ==
               {<<f.name, x>> : x \in (SpanStart(f, k) \div slice)..((SpanEnd(f, k) - 1) \div slice)}
           Lost(S) == {k \in DOMAIN f.ids : f.ids[k] \in S /\ SpanStart(f, k) < SpanEnd(f, k)}
           g == [k \in Lost(D) |-> SlicesAt(k)]
<1>1. /\ SlicesHit(f, slice, D) = UNION {SlicesAt(k) : k \in Lost(D)}
      /\ SlicesHit(f, slice, C) = UNION {SlicesAt(k) : k \in Lost(C)}
  BY DEF SlicesHit
<1>2. \A k \in DOMAIN f.ids : IsFiniteSet(SlicesAt(k))
  <2> SUFFICES ASSUME NEW k \in DOMAIN f.ids PROVE IsFiniteSet(SlicesAt(k))
    OBVIOUS
  <2>1. SpanStart(f, k) \in Int /\ SpanEnd(f, k) \in Int
    BY SpansAreNumbers
  <2>2. \A a \in Int : a \div slice \in Int /\ (a - 1) \div slice \in Int
    OBVIOUS
  <2> DEFINE I == (SpanStart(f, k) \div slice)..((SpanEnd(f, k) - 1) \div slice)
  <2>3. IsFiniteSet(I)
    BY <2>1, <2>2, FS_Interval
  <2> HIDE DEF I
  <2>4. IsFiniteSet({f.name} \X I)
    BY <2>3, FS_Singleton, FS_Product
  <2>5. {<<f.name, x>> : x \in I} \in SUBSET ({f.name} \X I)
    OBVIOUS
  <2>6. IsFiniteSet({<<f.name, x>> : x \in I})
    BY <2>4, <2>5, FS_Subset
  <2> QED
    BY <2>6 DEF I
<1>3. IsFiniteSet(Lost(D))
  <2>1. Len(f.ids) \in Nat /\ DOMAIN f.ids = 1..Len(f.ids)
    OBVIOUS
  <2>2. IsFiniteSet(DOMAIN f.ids)
    BY <2>1, FS_Interval
  <2> QED
    BY <2>2, FS_Subset
<1>4. Lost(C) \subseteq Lost(D) /\ Lost(D) \subseteq DOMAIN f.ids
  OBVIOUS
<1> HIDE DEF SlicesAt, Lost
<1>5. IsFiniteSet({g[k] : k \in DOMAIN g})
  <2>1. DOMAIN g = Lost(D) /\ g = [k \in DOMAIN g |-> g[k]]
    OBVIOUS
  <2> HIDE DEF g
  <2> QED
    BY <1>3, <2>1, FiniteImage
<1>6. {g[k] : k \in DOMAIN g} = {SlicesAt(k) : k \in Lost(D)}
  OBVIOUS
<1>7. IsFiniteSet(UNION {SlicesAt(k) : k \in Lost(D)})
  BY <1>2, <1>4, <1>5, <1>6, FS_UNION
<1> QED
  BY <1>1, <1>4, <1>7

(* So it is of a release.                                                   *)
LEMMA HitsGrow ==
    ASSUME NEW r \in Release, NEW C, NEW D, C \subseteq D
    PROVE  IsFiniteSet(HitOf(r, D)) /\ HitOf(r, C) \subseteq HitOf(r, D)
<1>1. CASE Target[r].slice = 0
  <2>1. DataIds(r) \subseteq Article
    BY TargetAssumption DEF SurveyedIds
  <2>2. IsFiniteSet(DataIds(r) \intersect D)
    BY <2>1, CensusAssumption, FS_Subset
  <2> QED
    BY <1>1, <2>2 DEF HitOf
<1>2. CASE Target[r].slice # 0
  <2> DEFINE slice == Target[r].slice
             F == {g \in Target[r].files : g.ids # <<>>}
             hits == [f \in F |-> SlicesHit(f, slice, D)]
  <2>1. slice \in Nat \ {0} /\ IsFiniteSet(Target[r].files)
        /\ \A f \in F : f.size \in Nat /\ f.part \in Nat /\ f.ids \in Seq(Article)
    BY <1>2, TargetAssumption
  <2>2. IsFiniteSet(F)
    BY <2>1, FS_Subset
  <2> HIDE DEF slice, F
  <2>3. \A f \in F : /\ IsFiniteSet(SlicesHit(f, slice, D))
                     /\ SlicesHit(f, slice, C) \subseteq SlicesHit(f, slice, D)
    BY <2>1, SlicesHitGrow
  <2>4. IsFiniteSet({hits[f] : f \in DOMAIN hits})
    <3>1. DOMAIN hits = F /\ hits = [f \in DOMAIN hits |-> hits[f]]
      OBVIOUS
    <3> HIDE DEF hits
    <3> QED
      BY <2>2, <3>1, FiniteImage
  <2>5. {hits[f] : f \in DOMAIN hits} = {SlicesHit(f, slice, D) : f \in F}
    OBVIOUS
  <2>6. IsFiniteSet(UNION {SlicesHit(f, slice, D) : f \in F})
    BY <2>3, <2>4, <2>5, FS_UNION
  <2>7. UNION {SlicesHit(f, slice, C) : f \in F} \subseteq UNION {SlicesHit(f, slice, D) : f \in F}
    BY <2>3
  <2> QED
    BY <1>2, <2>6, <2>7 DEF HitOf, slice, F
<1> QED
  BY <1>1, <1>2

(* The model's sum is a sum.                                                *)
LEMMA BlocksIsSum ==
    ASSUME NEW V, IsFiniteSet(V), NEW w \in [V -> Int], \A v \in V : w[v] = v.blocks
    PROVE  BlocksOf(V) = Sum(w, V)
<1> DEFINE Sol(f) == f = [s \in SUBSET V |->
                             IF s = {} THEN 0 ELSE OneOf(s).blocks + f[Remaining(s)]]
           it == CHOOSE f : Sol(f)
<1>1. PICK g \in [SUBSET V -> Int] : Partial(g, w, SUBSET V)
  BY PartialExists
<1>2. \A s \in SUBSET V : s # {} => OneOf(s) \in V
  BY OneIsIn
<1>3. \A f : Sol(f) <=> Partial(f, w, SUBSET V)
  <2> SUFFICES ASSUME NEW f PROVE Sol(f) <=> Partial(f, w, SUBSET V)
    OBVIOUS
  <2> QED
    BY <1>2 DEF Partial
<1>4. Sol(it)
  BY <1>1, <1>3
<1>5. BlocksOf(V) = it[V]
  BY DEF BlocksOf, FoldSet, MapThenFoldSet, OneOf, Remaining
<1> QED
  BY <1>3, <1>4, <1>5, SumIs

(* The blocks of two parts are those of the whole.                          *)
LEMMA BlocksSplit ==
    ASSUME NEW V, IsFiniteSet(V), \A v \in V : v.blocks \in Nat, NEW A \in SUBSET V
    PROVE  /\ BlocksOf(A) \in Nat /\ BlocksOf(V \ A) \in Nat
           /\ BlocksOf(V) = BlocksOf(A) + BlocksOf(V \ A)
<1> DEFINE w == [v \in V |-> v.blocks]
           B == V \ A
<1>1. w \in [V -> Nat] /\ w \in [V -> Int] /\ \A v \in V : w[v] = v.blocks
  OBVIOUS
<1>2. IsFiniteSet(A) /\ IsFiniteSet(B) /\ B \in SUBSET V
  BY FS_Subset
<1> HIDE DEF w, B
<1>3. /\ Of(w, A) \in [A -> Nat] /\ Of(w, A) \in [A -> Int] /\ \A v \in A : Of(w, A)[v] = v.blocks
      /\ Of(w, B) \in [B -> Nat] /\ Of(w, B) \in [B -> Int] /\ \A v \in B : Of(w, B)[v] = v.blocks
  BY <1>1, <1>2 DEF Of
<1>4. BlocksOf(A) = Sum(Of(w, A), A) /\ BlocksOf(B) = Sum(Of(w, B), B) /\ BlocksOf(V) = Sum(w, V)
  BY <1>1, <1>2, <1>3, BlocksIsSum
<1>5. Sum(Of(w, A), A) \in Nat /\ Sum(Of(w, B), B) \in Nat
  BY <1>2, <1>3, SumIsNat
<1>6. Sum(w, V) = Sum(Of(w, A), A) + Sum(Of(w, B), B)
  BY <1>1, SumSplit DEF B
<1> QED
  BY <1>4, <1>5, <1>6 DEF B

(* With more articles lost for certain and none in doubt, no less is        *)
(* damaged and no more can be restored.                                     *)
LEMMA DamageGrows ==
    ASSUME NEW r \in Release, NEW C, NEW D, NEW P, C \subseteq D
    PROVE  LET d == Damage(r, C, P)
               e == Damage(r, D, {})
           IN  /\ d.damaged \in Nat /\ e.damaged \in Nat /\ d.damaged <= e.damaged
               /\ d.available \in Nat /\ d.unsure \in Nat /\ e.available \in Nat
               /\ e.available <= d.available + d.unsure
<1> DEFINE d == Damage(r, C, P)
           e == Damage(r, D, {})
           V == Spared(r, C)
           A == {v \in V : v.ids \intersect P = {}}
           W == Spared(r, D)
<1>1. d.damaged \in Nat /\ e.damaged \in Nat /\ d.damaged <= e.damaged
  <2>1. d.damaged = Cardinality(HitOf(r, C)) /\ e.damaged = Cardinality(HitOf(r, D))
    BY DamageIs
  <2>2. IsFiniteSet(HitOf(r, D)) /\ HitOf(r, C) \in SUBSET HitOf(r, D)
    BY HitsGrow
  <2>3. IsFiniteSet(HitOf(r, C)) /\ Cardinality(HitOf(r, C)) <= Cardinality(HitOf(r, D))
    BY <2>2, FS_Subset
  <2> QED
    BY <2>1, <2>2, <2>3, FS_CardinalityType
<1>2. /\ IsFiniteSet(V) /\ (\A v \in V : v.blocks \in Nat)
      /\ A \in SUBSET V /\ W \in SUBSET V
  <2>1. /\ IsFiniteSet(Target[r].volumes) /\ V \in SUBSET Target[r].volumes
        /\ \A v \in Target[r].volumes : v.blocks \in Nat
    BY TargetAssumption DEF Spared
  <2>2. IsFiniteSet(V)
    BY <2>1, FS_Subset
  <2> QED
    BY <2>1, <2>2 DEF Spared
<1>3. d.available = BlocksOf(A) /\ d.unsure = BlocksOf(V \ A) /\ e.available = BlocksOf(W)
  <2>1. A = Sure(r, C, P) /\ V \ A = Unsure(r, C, P) /\ W = Sure(r, D, {})
    BY DEF Sure, Unsure
  <2>2. d.available = BlocksOf(Sure(r, C, P)) /\ d.unsure = BlocksOf(Unsure(r, C, P))
    BY DamageIs
  <2>3. e.available = BlocksOf(Sure(r, D, {}))
    BY DamageIs
  <2> HIDE DEF d, e, V, A, W
  <2> QED
    BY <2>1, <2>2, <2>3
<1> HIDE DEF d, e, V, A, W
<1>4. BlocksOf(V) = BlocksOf(A) + BlocksOf(V \ A) /\ BlocksOf(A) \in Nat /\ BlocksOf(V \ A) \in Nat
  BY <1>2, BlocksSplit
<1>5. BlocksOf(V) = BlocksOf(W) + BlocksOf(V \ W) /\ BlocksOf(W) \in Nat /\ BlocksOf(V \ W) \in Nat
  BY <1>2, BlocksSplit
<1>6. \A i, j \in Nat : i <= i + j
  OBVIOUS
<1>7. BlocksOf(W) <= BlocksOf(A) + BlocksOf(V \ A)
  BY <1>4, <1>5, <1>6
<1> QED
  BY <1>1, <1>3, <1>4, <1>5, <1>7 DEF d, e

(* No volume is in doubt where no article is.                               *)
LEMMA NoneUnsure == \A r, C : Damage(r, C, {}).unsure = 0
<1> SUFFICES ASSUME NEW r, NEW C PROVE Damage(r, C, {}).unsure = 0
  OBVIOUS
<1>1. Unsure(r, C, {}) = {}
  BY DEF Unsure
<1>2. PICK w : w \in [{} -> Int]
  <2>1. [x \in {} |-> 0] \in [{} -> Int]
    OBVIOUS
  <2> QED
    BY <2>1
<1>3. BlocksOf({}) = Sum(w, {}) /\ Sum(w, {}) = 0
  BY <1>2, FS_EmptySet, BlocksIsSum, SumOfNone
<1> QED
  BY <1>1, <1>3, DamageIs

-----------------------------------------------------------------------------
(* The verdicts.                                                            *)

(* The articles that every pool refused, and what they cost a release.      *)
Denied(d) == {a \in Article : d[a] = Pool}
Proven(r, d) == Damage(r, Denied(d), {})

(* A hole is confirmed only on the word of every pool.                      *)
HolesHold(h, d) ==
    /\ h \in [Article -> {"none", "Provisional", "Confirmed"}]
    /\ \A a \in Article : h[a] = "Confirmed" => d[a] = Pool

(* What a report says is proven.                                            *)
ReportProven(s, d) ==
    LET e == Proven(Head(s.todo), d) IN
    /\ s.verdict = "BeyondRepair" => e.damaged > e.available
    /\ s.damaged \in Nat /\ s.damaged <= e.damaged

(* So is what a survey takes for certain.                                   *)
ReportHolds(s, d) ==
    /\ s.certain \subseteq Denied(d)
    /\ s.phase = "report" => ReportProven(s, d)

(* The inductive invariant, beside CensusInv.                               *)
VerdictInv == HolesHold(hole, denied) /\ \A c \in Caller : ReportHolds(survey[c], denied)

(* More refusals prove no less.                                             *)
LEMMA ReportStays ==
    ASSUME NEW s, NEW d, NEW e, Shaped(s), ReportHolds(s, d), Grows(d, e)
    PROVE  ReportHolds(s, e)
<1>1. Denied(d) \subseteq Denied(e)
  BY DEF Denied, Grows
<1>2. ASSUME s.phase = "report" PROVE ReportProven(s, e)
  <2> DEFINE r == Head(s.todo)
             x == Damage(r, Denied(d), {})
             y == Damage(r, Denied(e), {})
  <2>1. r \in Release
    <3>1. s.todo \in Seq(Release) /\ s.todo # <<>>
      BY <1>2 DEF Shaped
    <3> QED
      BY <3>1
  <2> HIDE DEF r
  <2>2. /\ x.damaged \in Nat /\ y.damaged \in Nat /\ x.damaged <= y.damaged
        /\ x.available \in Nat /\ x.unsure \in Nat /\ y.available \in Nat
        /\ y.available <= x.available + x.unsure
    BY <1>1, <2>1, DamageGrows
  <2>3. x.unsure = 0
    BY NoneUnsure
  <2>4. /\ s.verdict = "BeyondRepair" => x.damaged > x.available
        /\ s.damaged \in Nat /\ s.damaged <= x.damaged
    BY <1>2 DEF ReportHolds, ReportProven, Proven, r
  <2> HIDE DEF x, y
  <2>5. /\ s.verdict = "BeyondRepair" => y.damaged > y.available
        /\ s.damaged \in Nat /\ s.damaged <= y.damaged
    BY <2>2, <2>3, <2>4
  <2> QED
    BY <2>5 DEF ReportProven, Proven, y, r
<1> QED
  BY <1>1, <1>2 DEF ReportHolds

(* The step of one caller.                                                  *)
LEMMA VerdictAfter ==
    ASSUME CensusInv, VerdictInv, NEW c \in Caller, NEW t,
           survey' = [survey EXCEPT ![c] = t], Grows(denied, denied'),
           HolesHold(hole', denied'), ReportHolds(t, denied')
    PROVE  VerdictInv'
<1>1. DOMAIN survey = Caller /\ \A b \in Caller : Shaped(survey[b])
  BY DEF CensusInv, Sound
<1>2. ASSUME NEW b \in Caller PROVE ReportHolds(survey'[b], denied')
  <2>1. CASE b = c
    <3>1. survey'[b] = t
      BY <1>1, <2>1
    <3> QED
      BY <3>1
  <2>2. CASE b # c
    <3>1. survey'[b] = survey[b] /\ Shaped(survey[b]) /\ ReportHolds(survey[b], denied)
      BY <1>1, <2>2 DEF VerdictInv
    <3> QED
      BY <3>1, ReportStays
  <2> QED
    BY <2>1, <2>2
<1> QED
  BY <1>2 DEF VerdictInv

(* Refusals come in and holes are forgotten; confirmed ones stay proven.    *)
LEMMA HolesStay ==
    ASSUME NEW h, NEW d, NEW e, HolesHold(h, d), Grows(d, e)
    PROVE  HolesHold(h, e)
BY DEF HolesHold, Grows

(* A quiet step.                                                            *)
LEMMA QuietKeepsVerdicts ==
    ASSUME CensusInv, VerdictInv, NEW c \in Caller, NEW t,
           survey' = [survey EXCEPT ![c] = t], Quiet(survey[c], t),
           Grows(denied, denied'), HolesHold(hole', denied')
    PROVE  VerdictInv'
<1>1. Shaped(survey[c]) /\ ReportHolds(survey[c], denied)
  BY DEF CensusInv, Sound, VerdictInv
<1>2. ReportHolds(survey[c], denied')
  BY <1>1, ReportStays
<1>3. ReportHolds(t, denied')
  BY <1>2 DEF ReportHolds, Quiet
<1> QED
  BY <1>3, VerdictAfter

(* What a refusal by every server makes of a hole.                          *)
LEMMA RefusalsProve ==
    ASSUME NEW a \in Article, HolesHold(hole, denied), NEW h \in AfterRefusals(a)
    PROVE  /\ h \in {"none", "Provisional", "Confirmed"}
           /\ h = "Confirmed" => denied[a] = Pool
<1>1. CASE hole[a] = "none"
  BY <1>1 DEF AfterRefusals
<1>2. CASE hole[a] = "Provisional"
  BY <1>2 DEF AfterRefusals
<1>3. CASE hole[a] = "Confirmed"
  BY <1>3 DEF AfterRefusals, HolesHold
<1> QED
  BY <1>1, <1>2, <1>3 DEF HolesHold

(* Judging takes for certain what the ledger holds as confirmed.            *)
LEMMA JudgeKeepsVerdicts ==
    ASSUME CensusInv, VerdictInv, NEW c \in Caller, Judge(c)
    PROVE  VerdictInv'
<1> DEFINE s == survey[c]
           a == Least(s.missing)
           more == IF hole'[a] = "Confirmed" THEN s.certain \union {a} ELSE s.certain
           less == IF hole'[a] = "Confirmed" THEN s.possible ELSE s.possible \union {a}
           t == [s EXCEPT !.missing = @ \ {a}, !.fresh = @ \ {a}, !.certain = more,
                          !.possible = less]
<1>1. /\ Sound(s, denied) /\ DOMAIN s = Fields /\ ReportHolds(s, denied)
      /\ HolesHold(hole, denied) /\ Grows(denied, denied)
  BY IdleFields DEF CensusInv, VerdictInv, Sound, Shaped, Grows
<1>2. /\ s.phase = "judge" /\ s.missing # {} /\ denied' = denied
      /\ \/ \E h \in AfterRefusals(a) : hole' = [hole EXCEPT ![a] = h]
         \/ hole' = hole
  BY DEF Judge
<1>3. survey' = [survey EXCEPT ![c] = t]
  BY DEF Judge
<1>4. a \in Article
  <2>1. s.missing \subseteq Article /\ s.missing \subseteq Nat
    BY <1>1, CensusAssumption DEF Sound, KnownSound
  <2> QED
    BY <1>2, <2>1, LeastIsIn
<1>5. t.certain = more /\ t.phase = s.phase
  BY <1>1 DEF Fields
<1> HIDE DEF s, a, t
<1>6. HolesHold(hole', denied)
  <2>1. CASE hole' = hole
    BY <1>1, <2>1
  <2>2. ASSUME NEW h \in AfterRefusals(a), hole' = [hole EXCEPT ![a] = h]
        PROVE  HolesHold(hole', denied)
    <3>1. h \in {"none", "Provisional", "Confirmed"} /\ (h = "Confirmed" => denied[a] = Pool)
      BY <1>1, <1>4, RefusalsProve
    <3> QED
      BY <1>1, <1>4, <2>2, <3>1 DEF HolesHold
  <2> QED
    BY <1>2, <2>1, <2>2
<1>7. ReportHolds(t, denied)
  <2>1. more \subseteq Denied(denied)
    BY <1>1, <1>4, <1>6 DEF ReportHolds, HolesHold, Denied
  <2> QED
    BY <1>2, <1>5, <2>1 DEF ReportHolds
<1> QED
  BY <1>1, <1>2, <1>3, <1>6, <1>7, VerdictAfter

(* The verdict rests on articles taken for certain.                         *)
LEMMA ConcludeKeepsVerdicts ==
    ASSUME CensusInv, VerdictInv, NEW c \in Caller, Conclude(c)
    PROVE  VerdictInv'
<1> DEFINE s == survey[c]
           r == Head(s.todo)
           d == Damage(r, s.certain, s.possible)
           e == Proven(r, denied)
           t == [Idle EXCEPT !.phase = "report", !.trigger = s.trigger, !.todo = s.todo,
                             !.verdict = SettleVerdict(d), !.damaged = d.damaged]
<1>1. /\ Shaped(s) /\ ReportHolds(s, denied) /\ HolesHold(hole, denied) /\ Grows(denied, denied)
  BY DEF CensusInv, VerdictInv, Sound, Grows
<1>2. /\ s.phase = "judge" /\ denied' = denied /\ hole' = hole
      /\ survey' = [survey EXCEPT ![c] = t]
  BY DEF Conclude
<1>3. r \in Release
  <2>1. s.todo \in Seq(Release) /\ s.todo # <<>>
    BY <1>1, <1>2 DEF Shaped
  <2> QED
    BY <2>1
<1>4. s.certain \subseteq Denied(denied)
  BY <1>1 DEF ReportHolds
<1>5. /\ t.certain = {} /\ t.todo = s.todo /\ t.verdict = SettleVerdict(d)
      /\ t.damaged = d.damaged
  BY DEF Idle
<1> HIDE DEF s, r, t
<1>6. /\ d.damaged \in Nat /\ e.damaged \in Nat /\ d.damaged <= e.damaged
      /\ d.available \in Nat /\ d.unsure \in Nat /\ e.available \in Nat
      /\ e.available <= d.available + d.unsure
  BY <1>3, <1>4, DamageGrows DEF Proven
<1> HIDE DEF d, e
<1>7. t.verdict = "BeyondRepair" => d.damaged > d.available + d.unsure
  BY <1>5 DEF SettleVerdict
<1>8. \A i, j, k, n \in Nat : k <= n /\ i > n /\ i <= j => j > k
  OBVIOUS
<1>9. t.verdict = "BeyondRepair" => e.damaged > e.available
  <2>1. d.available + d.unsure \in Nat
    BY <1>6
  <2> QED
    BY <1>6, <1>7, <1>8, <2>1
<1>10. ReportHolds(t, denied)
  <2>1. ReportProven(t, denied)
    BY <1>5, <1>6, <1>9 DEF ReportProven, e, r
  <2> QED
    BY <1>5, <2>1 DEF ReportHolds
<1> QED
  BY <1>1, <1>2, <1>10, VerdictAfter

(* Every step of a caller.                                                  *)
LEMMA CallerKeepsVerdicts ==
    ASSUME CensusInv, VerdictInv, NEW c \in Caller,
           \/ \E i \in Item, trigger \in {"HoleRead", "HealthCheck", "Operator"} :
                  HoleRead(c, i) \/ Survey(c, i, trigger)
           \/ CheckCooldown(c) \/ Enter(c) \/ StartPass(c) \/ Skip(c)
           \/ \E a \in survey[c].asked :
                  AnswerPresent(c, a) \/ AnswerAbsent(c, a) \/ Fail(c, a)
           \/ HangUp(c) \/ Settle(c) \/ Judge(c) \/ Conclude(c) \/ Report(c)
    PROVE  VerdictInv'
<1>1. PICK t : /\ survey' = [survey EXCEPT ![c] = t]
               /\ Judge(c) \/ Conclude(c) \/ Quiet(survey[c], t)
  BY CallerSheds
<1>2. HolesHold(hole, denied) /\ denied \in [Article -> SUBSET Pool] /\ Grows(denied, denied)
  BY DEF CensusInv, VerdictInv, Grows
<1>3. CASE Judge(c) \/ Conclude(c)
  BY <1>3, JudgeKeepsVerdicts, ConcludeKeepsVerdicts
<1>4. CASE Quiet(survey[c], t) /\ ~Judge(c) /\ ~Conclude(c)
  <2>1. Grows(denied, denied')
    <3>1. CASE \E a \in survey[c].asked : AnswerAbsent(c, a)
      <4>1. PICK a \in survey[c].asked : denied' = [denied EXCEPT ![a] = @ \union {survey[c].pool}]
        BY <3>1 DEF AnswerAbsent
      <4>2. survey[c].pool \in Pool
        BY CensusAssumption DEF CensusInv, Sound, PassSound, Pool
      <4> QED
        BY <1>2, <4>1, <4>2 DEF Grows
    <3>2. CASE ~\E a \in survey[c].asked : AnswerAbsent(c, a)
      <4>1. denied' = denied
        BY <1>4, <3>2 DEF HoleRead, Survey, CheckCooldown, Enter, StartPass, Skip, AnswerPresent,
                          Fail, HangUp, Settle, Report
      <4> QED
        BY <1>2, <4>1
    <3> QED
      BY <3>1, <3>2
  <2>2. HolesHold(hole', denied)
    <3>1. CASE Settle(c)
      <4>1. PICK S : hole' = [a \in Article |-> IF a \in S THEN "none" ELSE hole[a]]
        BY <3>1 DEF Settle
      <4> QED
        BY <1>2, <4>1 DEF HolesHold
    <3>2. CASE ~Settle(c)
      <4>1. hole' = hole
        BY <1>4, <3>2 DEF HoleRead, Survey, CheckCooldown, Enter, StartPass, Skip, AnswerPresent,
                          AnswerAbsent, Fail, HangUp, Report
      <4> QED
        BY <1>2, <4>1
    <3> QED
      BY <3>1, <3>2
  <2>3. HolesHold(hole', denied')
    BY <2>1, <2>2, HolesStay
  <2> QED
    BY <1>1, <1>4, <2>1, <2>3, QuietKeepsVerdicts
<1> QED
  BY <1>1, <1>3, <1>4

(* Asking is quiet.                                                         *)
LEMMA AskKeepsVerdicts ==
    ASSUME CensusInv, VerdictInv, NEW c \in Caller, Ask(c)
    PROVE  VerdictInv'
<1> DEFINE s == survey[c]
           t == [s EXCEPT !.left = @ \ {Least(s.left)}, !.asked = @ \union {Least(s.left)}]
<1>1. /\ s.phase = "stat" /\ survey' = [survey EXCEPT ![c] = t]
      /\ denied' = denied /\ hole' = hole
  BY DEF Ask
<1>2. DOMAIN s = Fields /\ HolesHold(hole, denied) /\ Grows(denied, denied)
  BY IdleFields DEF CensusInv, VerdictInv, Sound, Shaped, Grows
<1>3. t.certain = s.certain /\ t.phase = "stat"
  BY <1>1, <1>2 DEF Fields
<1> HIDE DEF t
<1> QED
  BY <1>1, <1>2, <1>3, QuietKeepsVerdicts DEF Quiet

(* The steps of everyone else.                                              *)
LEMMA OthersKeepVerdicts ==
    ASSUME CensusInv, VerdictInv,
           \/ \E a \in Article : LedgerForgets(a)
           \/ \E a \in Read, p \in Pool : ReaderRefused(a, p)
           \/ (\E r \in Release : RepairFails(r)) \/ CensusTick \/ UNCHANGED censusVars
    PROVE  VerdictInv'
<1>1. /\ HolesHold(hole, denied) /\ denied \in [Article -> SUBSET Pool] /\ Grows(denied, denied)
      /\ \A c \in Caller : Shaped(survey[c]) /\ ReportHolds(survey[c], denied)
  BY DEF CensusInv, VerdictInv, Sound, Grows
<1>2. CASE \E a \in Read, p \in Pool : ReaderRefused(a, p)
  <2>1. PICK a \in Read, p \in Pool : ReaderRefused(a, p)
    BY <1>2
  <2>2. a \in Article
    BY TargetAssumption DEF Read, SurveyedIds
  <2>3. denied' = [denied EXCEPT ![a] = @ \union {p}] /\ survey' = survey
    BY <2>1 DEF ReaderRefused
  <2>4. Grows(denied, denied')
    BY <1>1, <2>2, <2>3 DEF Grows
  <2>5. PICK h : /\ hole' = [hole EXCEPT ![a] = h] /\ h \in {"Provisional", "Confirmed"}
                 /\ h = "Confirmed" => denied'[a] = Pool
    BY <2>1 DEF ReaderRefused
  <2>6. HolesHold(hole, denied')
    BY <1>1, <2>4, HolesStay
  <2>7. HolesHold(hole', denied')
    BY <2>2, <2>5, <2>6 DEF HolesHold
  <2>8. \A c \in Caller : ReportHolds(survey'[c], denied')
    BY <1>1, <2>3, <2>4, ReportStays
  <2> QED
    BY <2>7, <2>8 DEF VerdictInv
<1>3. CASE \E a \in Article : LedgerForgets(a)
  <2>1. PICK a \in Article : hole' = [hole EXCEPT ![a] = "none"]
    BY <1>3 DEF LedgerForgets
  <2>2. denied' = denied /\ survey' = survey
    BY <1>3 DEF LedgerForgets
  <2>3. HolesHold(hole', denied)
    BY <1>1, <2>1 DEF HolesHold
  <2> QED
    BY <1>1, <2>2, <2>3 DEF VerdictInv
<1>4. CASE (\E r \in Release : RepairFails(r)) \/ CensusTick \/ UNCHANGED censusVars
  <2>1. denied' = denied /\ survey' = survey /\ hole' = hole
    BY <1>4 DEF RepairFails, CensusTick, censusVars
  <2> QED
    BY <1>1, <2>1 DEF VerdictInv
<1> QED
  BY <1>2, <1>3, <1>4

(* A release is given up, and a repair scheduled, only for articles that    *)
(* every pool refused: what is in doubt counts for the release, and a later *)
(* refusal never makes an earlier verdict wrong.                            *)
THEOREM VerdictsAreProven == CensusSpec => []BeyondRepairIsProven
<1>1. CensusInit => VerdictInv
  <2> SUFFICES ASSUME CensusInit PROVE VerdictInv
    OBVIOUS
  <2>1. /\ survey = [c \in Caller |-> Idle] /\ hole = [a \in Article |-> "none"]
        /\ Idle.certain = {} /\ Idle.phase = "idle"
    BY DEF CensusInit, Idle
  <2>2. HolesHold(hole, denied)
    BY <2>1 DEF HolesHold
  <2>3. \A c \in Caller : ReportHolds(survey[c], denied)
    BY <2>1 DEF ReportHolds
  <2> QED
    BY <2>2, <2>3 DEF VerdictInv
<1>2. CensusInv /\ VerdictInv /\ [CensusNext]_censusVars => VerdictInv'
  <2> SUFFICES ASSUME CensusInv, VerdictInv, [CensusNext]_censusVars
               PROVE  VerdictInv'
    OBVIOUS
  <2>1. ASSUME NEW c \in Caller, Ask(c)
        PROVE  VerdictInv'
    BY <2>1, AskKeepsVerdicts
  <2>2. ASSUME NEW c \in Caller,
               \/ \E i \in Item :
                   \/ <<i, "HoleRead">> \in Starts /\ HoleRead(c, i)
                   \/ \E t \in {"HealthCheck", "Operator"} : <<i, t>> \in Starts /\ Survey(c, i, t)
               \/ CheckCooldown(c) \/ Enter(c) \/ StartPass(c) \/ Skip(c)
               \/ \E a \in survey[c].asked :
                      AnswerPresent(c, a) \/ AnswerAbsent(c, a) \/ Fail(c, a)
               \/ HangUp(c) \/ Settle(c) \/ Judge(c) \/ Conclude(c) \/ Report(c)
        PROVE  VerdictInv'
    <3>1. \/ \E i \in Item, trigger \in {"HoleRead", "HealthCheck", "Operator"} :
                HoleRead(c, i) \/ Survey(c, i, trigger)
          \/ CheckCooldown(c) \/ Enter(c) \/ StartPass(c) \/ Skip(c)
          \/ \E a \in survey[c].asked :
                AnswerPresent(c, a) \/ AnswerAbsent(c, a) \/ Fail(c, a)
          \/ HangUp(c) \/ Settle(c) \/ Judge(c) \/ Conclude(c) \/ Report(c)
      BY <2>2
    <3> QED
      BY <3>1, CallerKeepsVerdicts
  <2>3. ASSUME \/ \E a \in Article : LedgerForgets(a)
               \/ \E a \in Read, p \in Pool : ReaderRefused(a, p)
               \/ (\E r \in Release : RepairFails(r)) \/ CensusTick \/ UNCHANGED censusVars
        PROVE  VerdictInv'
    BY <2>3, OthersKeepVerdicts
  <2> QED
    BY <2>1, <2>2, <2>3 DEF CensusNext
<1>3. CensusInv /\ VerdictInv => BeyondRepairIsProven
  <2> SUFFICES ASSUME CensusInv, VerdictInv,
                      NEW c \in Caller, survey[c].phase = "report"
               PROVE  LET d == Proven(Head(survey[c].todo), denied) IN
                      /\ survey[c].verdict = "BeyondRepair" => d.damaged > d.available
                      /\ WantsRepair(survey[c]) => d.damaged > 0
    BY DEF BeyondRepairIsProven, Proven, Denied
  <2> DEFINE s == survey[c]
             d == Proven(Head(s.todo), denied)
  <2>1. /\ s.verdict = "BeyondRepair" => d.damaged > d.available
        /\ s.damaged \in Nat /\ s.damaged <= d.damaged
    BY DEF VerdictInv, ReportHolds, ReportProven
  <2>2. d.damaged \in Nat
    <3>1. s.todo \in Seq(Release) /\ s.todo # <<>>
      BY DEF CensusInv, Sound, Shaped
    <3>2. Head(s.todo) \in Release
      BY <3>1
    <3> QED
      BY <3>2, DamageGrows DEF Proven
  <2>3. WantsRepair(s) => s.damaged > 0
    BY DEF WantsRepair
  <2> HIDE DEF s, d
  <2>4. WantsRepair(s) => d.damaged > 0
    BY <2>1, <2>2, <2>3
  <2> QED
    BY <2>1, <2>4 DEF s, d
<1> QED
  BY <1>1, <1>2, <1>3, InitCensusInv, NextCensusInv, PTL DEF CensusSpec

-----------------------------------------------------------------------------
(* The repair attempt.                                                      *)

(* The slices an article lies in.                                           *)
SlicesUnder(f, k) == SlicesOf(f, Piece[f].articles[k].offset, Piece[f].articles[k].len)

(* Slices that are lost when the articles L are.                            *)
LostWith(L) ==
    Absent \union UNION {
        UNION {SlicesUnder(f, k) : k \in {n \in DOMAIN Piece[f].articles : Piece[f].articles[n].id \in L}} :
            f \in CarriedFiles}

(* The rows of the volumes before one.                                      *)
RowsBefore(v) == Sum(Of(VolumeRows, 1..(v - 1)), 1..(v - 1))

RowsSound ==
    /\ wanted \in Nat
    /\ loaded \in [kept : Nat, next : 1..(Len(VolumeRows) + 1), whole : BOOLEAN]
    /\ loaded.whole /\ loaded.kept < Limit => loaded.kept = RowsBefore(loaded.next)

(* An assembler, and one that is where its position says.                   *)
Assembler ==
    [next : Nat, pos : Nat, have : Nat, hole : BOOLEAN, unknown : BOOLEAN, wrong : BOOLEAN]

InStep(a, f) == a.pos <= Piece[f].size /\ a.next = EndedBy(a.pos, f)

(* The slices before one of file f, and all those of the files before it.   *)
SlicesBefore(f, next) ==
    {s \in Nat : \E g \in CarriedFiles : \E n \in 0..(Count(g) - 1) :
        s = StartOf(g) + n /\ (g < f \/ (g = f /\ n < next))}

Scan == [good : SUBSET Nat, missing : SUBSET Nat, unknown : SUBSET Nat,
         holes : SUBSET (Nat \X Nat), asm : Assembler, solver : BOOLEAN]

(* What is read is told apart, once, and what was not there is in slices    *)
(* that are not good.                                                       *)
Sifted(s, f) ==
    /\ s.good \union s.missing \union s.unknown = SlicesBefore(f, s.asm.next)
    /\ s.good \intersect (s.missing \union s.unknown) = {}

HolesKnown(s, f) ==
    \A h \in s.holes :
        /\ h[1] \in CarriedFiles /\ h[2] \in DOMAIN Piece[h[1]].articles
        /\ \A x \in SlicesUnder(h[1], h[2]) :
             \/ x \in s.missing \union s.unknown
             \/ h[1] = f /\ s.asm.hole /\ x = StartOf(f) + s.asm.next

HolesLost(s, f, L) ==
    /\ s.missing \subseteq LostWith(L)
    /\ s.asm.hole => StartOf(f) + s.asm.next \in LostWith(L)

(* The assembler is at article k of file f, or all files are read.          *)
Placed(a, f, k) ==
    \/ /\ f \in CarriedFiles /\ k \in DOMAIN Piece[f].articles
       /\ InStep(a, f)
       /\ \A j \in DOMAIN Piece[f].articles : k <= j => a.pos <= Piece[f].articles[j].offset
    \/ f = Len(Piece) + 1 /\ a = FreshAssembler

ScanSound ==
    /\ scan \in Scan /\ at \in Nat \X Nat
    /\ Placed(scan.asm, at[1], at[2])
    /\ Sifted(scan, at[1])
    /\ HolesKnown(scan, at[1])
    /\ HolesLost(scan, at[1], wasLost)

SolvedType == solved \in [damage : SUBSET Nat, good : SUBSET Nat, left : SUBSET (Nat \X Nat)]

AttemptInv ==
    /\ RowsSound
    /\ SolvedType
    /\ confirmed \ patched \subseteq wasLost
    /\ known \subseteq LostWith(wasLost)
    /\ phase = "scan" => ScanSound
    /\ phase = "unrepairable" => Exhausted /\ Cardinality(known) > loaded.kept
    /\ SolvesWholeSystem

-----------------------------------------------------------------------------
(* Slices and articles.                                                     *)

(* What the constants are.                                                  *)
LEMMA PieceTypes ==
    ASSUME NEW f \in DOMAIN Piece
    PROVE  /\ f \in Nat /\ f >= 1 /\ f <= Len(Piece) /\ Len(Piece) \in Nat
           /\ Piece[f].size \in Nat /\ Piece[f].carried \in BOOLEAN
           /\ SliceSize \in Nat /\ SliceSize > 0
           /\ Piece[f].articles \in Seq([id : STRING, offset : Nat, len : Nat])
           /\ \A k \in DOMAIN Piece[f].articles :
                /\ k \in Nat /\ Piece[f].articles[k].offset \in Nat
                /\ Piece[f].articles[k].len \in Nat
<1> DEFINE File == [size : Nat, carried : BOOLEAN,
                    articles : Seq([id : STRING, offset : Nat, len : Nat])]
<1>1. Piece \in Seq(File) /\ SliceSize \in Nat \ {0}
  BY RepairAssumption
<1>2. Piece[f] \in File /\ DOMAIN Piece = 1..Len(Piece) /\ Len(Piece) \in Nat
  <2> HIDE DEF File
  <2> QED
    BY <1>1, ElementOfSeq, LenProperties
<1>3. Piece[f].articles \in Seq([id : STRING, offset : Nat, len : Nat])
  BY <1>2
<1>4. ASSUME NEW k \in DOMAIN Piece[f].articles
      PROVE  /\ k \in Nat /\ Piece[f].articles[k].offset \in Nat
             /\ Piece[f].articles[k].len \in Nat
  <2> DEFINE s == Piece[f].articles
             Span == [id : STRING, offset : Nat, len : Nat]
  <2>1. s \in Seq(Span) /\ k \in DOMAIN s
    BY <1>3, <1>4
  <2> HIDE DEF s, Span
  <2>2. s[k] \in Span /\ k \in Nat
    BY <2>1, ElementOfSeq, LenProperties
  <2> QED
    BY <2>2 DEF s, Span
<1> QED
  BY <1>1, <1>2, <1>3, <1>4

(* A file has the slices that begin before its end.                         *)
LEMMA CountIs ==
    ASSUME NEW f \in DOMAIN Piece
    PROVE  Count(f) \in Nat /\ \A n \in Nat : n < Count(f) <=> n * SliceSize < Piece[f].size
<1>1. Piece[f].size \in Nat /\ SliceSize \in Nat /\ SliceSize > 0
  BY PieceTypes
<1>2. \A size, slice, n \in Nat : slice > 0 =>
        LET count == (size + slice - 1) \div slice IN
        count \in Nat /\ (n < count <=> n * slice < size)
  <2> SUFFICES ASSUME NEW size \in Nat, NEW slice \in Nat, NEW n \in Nat, slice > 0
               PROVE  LET count == (size + slice - 1) \div slice IN
                      count \in Nat /\ (n < count <=> n * slice < size)
    OBVIOUS
  <2> DEFINE count == (size + slice - 1) \div slice
  <2>1. size + slice - 1 \in Nat
    OBVIOUS
  <2>2. \A a \in Nat : a \div slice \in Nat /\ slice * (a \div slice) <= a
                       /\ a < slice * (a \div slice) + slice
    OBVIOUS
  <2>3. /\ count \in Nat /\ slice * count <= size + slice - 1
        /\ size + slice - 1 < slice * count + slice
    BY <2>1, <2>2
  <2> HIDE DEF count
  <2>4. ASSUME n < count PROVE n * slice < size
    <3>1. \A m \in Nat : n < m => n * slice + slice <= slice * m
      OBVIOUS
    <3>2. n * slice + slice <= slice * count
      BY <2>3, <2>4, <3>1
    <3>3. n * slice \in Nat /\ slice * count \in Nat
      BY <2>3
    <3> QED
      BY <2>3, <3>2, <3>3
  <2>5. ASSUME n >= count PROVE ~(n * slice < size)
    <3>1. \A m \in Nat : n >= m => n * slice >= slice * m
      OBVIOUS
    <3>2. n * slice >= slice * count
      BY <2>3, <2>5, <3>1
    <3>3. n * slice \in Nat /\ slice * count \in Nat
      BY <2>3
    <3> QED
      BY <2>3, <3>2, <3>3
  <2>6. count \in Nat /\ (n < count <=> n * slice < size)
    BY <2>3, <2>4, <2>5
  <2> QED
    BY <2>6 DEF count
<1> QED
  BY <1>1, <1>2 DEF Count

(* The slices that have ended at a position of a file, and the one it is in. *)
LEMMA EndedByIs ==
    ASSUME NEW f \in DOMAIN Piece, NEW pos \in Nat, pos <= Piece[f].size
    PROVE  /\ EndedBy(pos, f) \in Nat /\ EndedBy(pos, f) <= Count(f)
           /\ pos < Piece[f].size => EndedBy(pos, f) * SliceSize <= pos
           /\ \A n \in Nat : n >= EndedBy(pos, f) /\ pos < Piece[f].size =>
                                pos < n * SliceSize + SliceSize
           /\ \A n \in Nat : n < EndedBy(pos, f) => SliceEnd(n, f) <= pos
           /\ EndedBy(pos, f) < Count(f) <=> pos < Piece[f].size
<1>1. Piece[f].size \in Nat /\ SliceSize \in Nat /\ SliceSize > 0
  BY PieceTypes
<1>2. Count(f) \in Nat /\ \A n \in Nat : n < Count(f) <=> n * SliceSize < Piece[f].size
  BY CountIs
<1>3. CASE pos = Piece[f].size
  BY <1>1, <1>2, <1>3 DEF EndedBy, SliceEnd, Lower
<1>4. CASE pos < Piece[f].size
  <2> DEFINE e == pos \div SliceSize
  <2>1. EndedBy(pos, f) = e
    BY <1>1, <1>4 DEF EndedBy
  <2>2. \A a, slice \in Nat : slice > 0 =>
           a \div slice \in Nat /\ (a \div slice) * slice <= a /\ a < (a \div slice) * slice + slice
    OBVIOUS
  <2>3. e \in Nat /\ e * SliceSize <= pos /\ pos < e * SliceSize + SliceSize
    BY <1>1, <2>2
  <2> HIDE DEF e
  <2>4. e < Count(f)
    <3>1. e * SliceSize \in Nat
      BY <1>1, <2>3
    <3>2. e * SliceSize < Piece[f].size
      BY <1>1, <1>4, <2>3, <3>1
    <3> QED
      BY <1>2, <2>3, <3>2
  <2>5. ASSUME NEW n \in Nat, n >= e PROVE pos < n * SliceSize + SliceSize
    <3>1. \A m, k, slice \in Nat : m >= k => m * slice >= k * slice
      OBVIOUS
    <3>2. n * SliceSize >= e * SliceSize /\ n * SliceSize \in Nat /\ e * SliceSize \in Nat
      BY <1>1, <2>3, <2>5, <3>1
    <3> QED
      BY <1>1, <2>3, <3>2
  <2>6. ASSUME NEW n \in Nat, n < e PROVE SliceEnd(n, f) <= pos
    <3>1. \A m, k, slice \in Nat : m < k => (m + 1) * slice <= k * slice
      OBVIOUS
    <3>2. (n + 1) * SliceSize <= e * SliceSize /\ (n + 1) * SliceSize \in Nat /\ e * SliceSize \in Nat
      BY <1>1, <2>3, <2>6, <3>1
    <3> QED
      BY <1>1, <1>4, <2>3, <3>2 DEF SliceEnd, Lower
  <2> QED
    BY <1>2, <1>4, <2>1, <2>3, <2>4, <2>5, <2>6
<1> QED
  BY <1>1, <1>3, <1>4

(* A span's slices are those it has units in.                               *)
LEMMA SpanSlices ==
    ASSUME NEW f \in DOMAIN Piece, NEW offset \in Nat, NEW len \in Nat,
           offset + len <= Piece[f].size, NEW x
    PROVE  x \in SlicesOf(f, offset, len) <=>
              \E n \in Nat : /\ n < Count(f) /\ x = StartOf(f) + n /\ len > 0
                             /\ n * SliceSize < offset + len /\ offset < n * SliceSize + SliceSize
<1>1. Piece[f].size \in Nat /\ SliceSize \in Nat /\ SliceSize > 0
  BY PieceTypes
<1>2. Count(f) \in Nat /\ \A n \in Nat : n < Count(f) <=> n * SliceSize < Piece[f].size
  BY CountIs
<1>3. CASE len = 0
  BY <1>3 DEF SlicesOf
<1>4. CASE len > 0
  <2> DEFINE lo == offset \div SliceSize
             hi == (offset + len - 1) \div SliceSize
  <2>1. \A a, slice \in Nat : slice > 0 =>
           a \div slice \in Nat /\ (a \div slice) * slice <= a /\ a < (a \div slice) * slice + slice
    OBVIOUS
  <2>2. /\ lo \in Nat /\ lo * SliceSize <= offset /\ offset < lo * SliceSize + SliceSize
        /\ hi \in Nat /\ hi * SliceSize <= offset + len - 1
        /\ offset + len - 1 < hi * SliceSize + SliceSize
    BY <1>1, <1>4, <2>1
  <2> HIDE DEF lo, hi
  <2>3. \A m, k, slice \in Nat : m < k => m * slice + slice <= k * slice
    OBVIOUS
  <2>4. \A m, k, slice \in Nat : m <= k => m * slice <= k * slice
    OBVIOUS
  <2>5. lo * SliceSize \in Nat /\ hi * SliceSize \in Nat
    BY <1>1, <2>2
  <2>6. lo < Count(f) /\ hi < Count(f)
    <3>1. lo * SliceSize < Piece[f].size /\ hi * SliceSize < Piece[f].size
      BY <1>1, <1>4, <2>2, <2>5
    <3> QED
      BY <1>2, <2>2, <3>1
  <2>7. SlicesOf(f, offset, len) = {StartOf(f) + n : n \in lo..hi}
    BY <1>2, <1>4, <2>2, <2>6 DEF SlicesOf, Within, lo, hi
  <2>8. ASSUME NEW n \in Nat
        PROVE  n \in lo..hi <=> /\ n < Count(f)
                                /\ n * SliceSize < offset + len /\ offset < n * SliceSize + SliceSize
    <3>1. n * SliceSize \in Nat
      BY <1>1
    <3>2. ASSUME n \in lo..hi
          PROVE  /\ n < Count(f)
                 /\ n * SliceSize < offset + len /\ offset < n * SliceSize + SliceSize
      <4>1. lo * SliceSize <= n * SliceSize /\ n * SliceSize <= hi * SliceSize
        BY <1>1, <2>2, <2>4, <3>2
      <4> QED
        BY <1>1, <1>2, <2>2, <2>5, <2>6, <3>1, <3>2, <4>1
    <3>3. ASSUME n < lo PROVE ~(offset < n * SliceSize + SliceSize)
      <4>1. n * SliceSize + SliceSize <= lo * SliceSize
        BY <1>1, <2>2, <2>3, <3>3
      <4> QED
        BY <1>1, <2>2, <2>5, <3>1, <4>1
    <3>4. ASSUME n > hi PROVE ~(n * SliceSize < offset + len)
      <4>1. hi * SliceSize + SliceSize <= n * SliceSize
        BY <1>1, <2>2, <2>3, <3>4
      <4> QED
        BY <1>1, <2>2, <2>5, <3>1, <4>1
    <3> QED
      BY <2>2, <3>2, <3>3, <3>4
  <2>9. \A n \in lo..hi : n \in Nat
    BY <2>2
  <2> QED
    BY <1>4, <2>7, <2>8, <2>9
<1> QED
  BY <1>3, <1>4

(* The number of the first slice of a file is a sum.                        *)
Counts == [f \in DOMAIN Piece |-> Count(f)]

(* The first slice of a file comes after those of the files before it.      *)
LEMMA StartIsSum ==
    ASSUME NEW f \in Nat, f >= 1, f <= Len(Piece) + 1
    PROVE  /\ 1..(f - 1) \in SUBSET DOMAIN Piece /\ IsFiniteSet(1..(f - 1))
           /\ Counts \in [DOMAIN Piece -> Nat]
           /\ Of(Counts, 1..(f - 1)) \in [1..(f - 1) -> Nat]
           /\ StartOf(f) = Sum(Of(Counts, 1..(f - 1)), 1..(f - 1))
           /\ StartOf(f) \in Nat
<1> DEFINE S == 1..(f - 1)
           w == Of(Counts, S)
           Sol(g) == g = [s \in SUBSET S |-> IF s = {} THEN 0 ELSE Count(OneOf(s)) + g[Remaining(s)]]
           it == CHOOSE g : Sol(g)
<1>1. DOMAIN Piece = 1..Len(Piece) /\ Len(Piece) \in Nat
  BY RepairAssumption, LenProperties
<1>2. S \in SUBSET DOMAIN Piece /\ IsFiniteSet(S)
  <2>1. f - 1 \in Int /\ 1 \in Int /\ f - 1 <= Len(Piece)
    BY <1>1
  <2>2. IsFiniteSet(S)
    BY <2>1, FS_Interval
  <2> QED
    BY <1>1, <2>1, <2>2
<1>3. Counts \in [DOMAIN Piece -> Nat]
  BY CountIs DEF Counts
<1>4. w \in [S -> Nat] /\ \A g \in S : w[g] = Count(g)
  BY <1>2, <1>3 DEF Of, Counts
<1>5. StartOf(f) = it[S]
  BY DEF StartOf, MapThenSumSet, MapThenFoldSet, OneOf, Remaining
<1> HIDE DEF S, w
<1>6. w \in [S -> Int]
  BY <1>4
<1>7. PICK first \in [SUBSET S -> Int] : Partial(first, w, SUBSET S)
  BY <1>2, <1>6, PartialExists
<1>8. \A s \in SUBSET S : s # {} => OneOf(s) \in S
  BY OneIsIn
<1>9. \A g : Sol(g) <=> Partial(g, w, SUBSET S)
  <2> SUFFICES ASSUME NEW g PROVE Sol(g) <=> Partial(g, w, SUBSET S)
    OBVIOUS
  <2> QED
    BY <1>4, <1>8 DEF Partial
<1>10. Sol(it)
  BY <1>7, <1>9
<1> HIDE DEF it, Sol
<1>11. StartOf(f) = Sum(w, S)
  BY <1>2, <1>5, <1>6, <1>9, <1>10, SumIs
<1>12. StartOf(f) \in Nat
  BY <1>2, <1>4, <1>11, SumIsNat
<1> QED
  BY <1>2, <1>3, <1>4, <1>11, <1>12 DEF S, w

(* The slices of a file come after those of the files before it.            *)
LEMMA StartsAreApart ==
    ASSUME NEW f \in Nat, NEW g \in Nat, 1 <= g, g < f, f <= Len(Piece) + 1
    PROVE  StartOf(g) + Count(g) <= StartOf(f)
<1> DEFINE S == 1..(f - 1)
           T == 1..(g - 1)
           U == 1..g
           w == Of(Counts, S)
           v == Of(Counts, U)
<1>1. Len(Piece) \in Nat /\ DOMAIN Piece = 1..Len(Piece)
  BY RepairAssumption, LenProperties
<1>2. /\ S \in SUBSET DOMAIN Piece /\ IsFiniteSet(S) /\ Counts \in [DOMAIN Piece -> Nat]
      /\ w \in [S -> Nat] /\ StartOf(f) = Sum(w, S)
  BY <1>1, StartIsSum
<1>3. T \in SUBSET DOMAIN Piece /\ StartOf(g) = Sum(Of(Counts, T), T) /\ StartOf(g) \in Nat
  BY <1>1, StartIsSum
<1>4. U \in SUBSET S /\ g \in U /\ T = U \ {g} /\ U \in SUBSET DOMAIN Piece
  BY <1>1
<1>5. IsFiniteSet(U) /\ v \in [U -> Int] /\ v[g] = Count(g)
  <2>1. IsFiniteSet(U)
    BY <1>2, <1>4, FS_Subset
  <2> QED
    BY <1>1, <1>2, <1>4, <2>1 DEF Of, Counts
<1>6. Of(w, U) = v /\ Of(v, U) = v /\ Of(v, T) = Of(Counts, T)
  BY <1>2, <1>4 DEF Of
<1> HIDE DEF S, T, U, w, v
<1>7. Sum(v, U) \in Nat /\ Sum(v, U) <= Sum(w, S) /\ Sum(w, S) \in Nat
  BY <1>2, <1>4, <1>6, SumOfPart
<1>8. Sum(v, U) = v[g] + Sum(Of(v, T), T)
  <2>1. U \in SUBSET U
    OBVIOUS
  <2>2. Sum(Of(v, U), U) = v[g] + Sum(Of(v, U \ {g}), U \ {g})
    BY <1>4, <1>5, <2>1, SumOfWithout
  <2> QED
    BY <1>4, <1>6, <2>2
<1>9. g \in DOMAIN Piece
  BY <1>4
<1> QED
  BY <1>2, <1>3, <1>5, <1>6, <1>7, <1>8, <1>9, CountIs

(* A slice has one place.                                                   *)
LEMMA OnePlace ==
    ASSUME NEW f \in DOMAIN Piece, NEW g \in DOMAIN Piece, NEW n \in Nat, NEW m \in Nat,
           n < Count(f), m < Count(g), StartOf(f) + n = StartOf(g) + m
    PROVE  f = g /\ n = m
<1>1. /\ f \in Nat /\ g \in Nat /\ 1 <= f /\ 1 <= g /\ f <= Len(Piece) /\ g <= Len(Piece)
      /\ Len(Piece) \in Nat
  BY PieceTypes
<1>2. StartOf(f) \in Nat /\ StartOf(g) \in Nat
  <2>1. f <= Len(Piece) + 1 /\ g <= Len(Piece) + 1
    BY <1>1
  <2> QED
    BY <1>1, <2>1, StartIsSum
<1>3. Count(f) \in Nat /\ Count(g) \in Nat
  BY CountIs
<1>4. ~(f < g)
  <2> SUFFICES ASSUME f < g PROVE FALSE
    OBVIOUS
  <2>1. StartOf(f) + Count(f) <= StartOf(g)
    BY <1>1, StartsAreApart
  <2> QED
    BY <1>2, <1>3, <2>1
<1>5. ~(g < f)
  <2> SUFFICES ASSUME g < f PROVE FALSE
    OBVIOUS
  <2>1. StartOf(g) + Count(g) <= StartOf(f)
    BY <1>1, StartsAreApart
  <2> QED
    BY <1>2, <1>3, <2>1
<1> QED
  BY <1>1, <1>2, <1>4, <1>5

-----------------------------------------------------------------------------
(* The assembler.                                                           *)

(* An article from..to has units in slice n.                                *)
Meets(f, n, from, to) == Higher(from, n * SliceSize) < Lower(to, SliceEnd(n, f))

(* What an article makes of a slice.                                        *)
LEMMA MarkedIs ==
    ASSUME NEW f \in DOMAIN Piece, NEW a \in Assembler, NEW n \in Nat,
           NEW from \in Nat, NEW to \in Nat, NEW mark
    PROVE  LET b == Marked(a, f, n, from, to, mark) IN
           /\ b \in Assembler /\ b.next = n /\ b.pos = to
           /\ b.hole <=> (n = a.next /\ a.hole) \/ (mark = "hole" /\ Meets(f, n, from, to))
<1> DEFINE x == Higher(from, n * SliceSize)
           y == Lower(to, SliceEnd(n, f))
           units == (x + 1)..y
           begun == IF n = a.next THEN a ELSE FreshAssembler
           Touched(marks) == units # {} /\ mark \in marks
           more == IF Touched({"data", "wrong"}) THEN Cardinality(units) ELSE 0
           b == Marked(a, f, n, from, to, mark)
<1>1. Piece[f].size \in Nat /\ SliceSize \in Nat
  BY PieceTypes
<1>2. x \in Nat /\ y \in Nat
  <2>1. n * SliceSize \in Nat /\ (n + 1) * SliceSize \in Nat
    BY <1>1
  <2> QED
    BY <1>1, <2>1 DEF Higher, Lower, SliceEnd
<1>3. /\ begun \in Assembler
      /\ begun.hole <=> n = a.next /\ a.hole
  BY DEF Assembler, FreshAssembler
<1>4. more \in Nat /\ (units # {} <=> Meets(f, n, from, to))
  <2> HIDE DEF x, y
  <2>1. x + 1 \in Int /\ y \in Int
    BY <1>2
  <2>2. IsFiniteSet((x + 1)..y)
    BY <2>1, FS_Interval
  <2>3. Cardinality((x + 1)..y) \in Nat
    BY <2>2, FS_CardinalityType
  <2>4. units # {} <=> x < y
    BY <1>2
  <2>5. more \in Nat
    BY <2>3
  <2> QED
    BY <2>4, <2>5 DEF Meets, x, y
<1>5. b = [begun EXCEPT !.next = n, !.pos = to,
                        !.hole = @ \/ Touched({"hole"}), !.unknown = @ \/ Touched({"unknown"}),
                        !.wrong = @ \/ Touched({"wrong"}), !.have = @ + more]
  BY DEF Marked
<1> HIDE DEF begun, more, b
<1>6. Touched({"hole"}) <=> mark = "hole" /\ Meets(f, n, from, to)
  BY <1>4
<1>7. Touched({"hole"}) \in BOOLEAN /\ Touched({"unknown"}) \in BOOLEAN /\ Touched({"wrong"}) \in BOOLEAN
  OBVIOUS
<1> HIDE DEF Touched
<1>8. /\ b.next = n /\ b.pos = to /\ b.hole = (begun.hole \/ Touched({"hole"}))
      /\ b.unknown = (begun.unknown \/ Touched({"unknown"}))
      /\ b.wrong = (begun.wrong \/ Touched({"wrong"})) /\ b.have = begun.have + more
      /\ b = [next |-> b.next, pos |-> b.pos, have |-> b.have, hole |-> b.hole,
              unknown |-> b.unknown, wrong |-> b.wrong]
  BY <1>3, <1>5 DEF Assembler
<1>9. b.have \in Nat /\ b.hole \in BOOLEAN /\ b.unknown \in BOOLEAN /\ b.wrong \in BOOLEAN
  BY <1>3, <1>4, <1>7, <1>8 DEF Assembler
<1>10. b \in Assembler
  BY <1>8, <1>9 DEF Assembler
<1>11. b.hole <=> (n = a.next /\ a.hole) \/ (mark = "hole" /\ Meets(f, n, from, to))
  BY <1>3, <1>6, <1>7, <1>8
<1> QED
  BY <1>8, <1>10, <1>11 DEF b

(* It has units in the slices it lies in.                                   *)
LEMMA MeetsIs ==
    ASSUME NEW f \in CarriedFiles, NEW k \in DOMAIN Piece[f].articles, NEW n \in Nat
    PROVE  LET from == Piece[f].articles[k].offset
               to == from + Piece[f].articles[k].len
           IN  Meets(f, n, from, to) <=> StartOf(f) + n \in SlicesUnder(f, k)
<1> DEFINE offset == Piece[f].articles[k].offset
           len == Piece[f].articles[k].len
           ns == n * SliceSize
<1>1. /\ f \in DOMAIN Piece /\ Piece[f].size \in Nat /\ SliceSize \in Nat /\ SliceSize > 0
      /\ offset \in Nat /\ len \in Nat /\ offset + len <= Piece[f].size
  BY PieceTypes, SpanAssumption DEF CarriedFiles
<1>2. ns \in Nat /\ (n + 1) * SliceSize = ns + SliceSize
  BY <1>1
<1>3. n < Count(f) <=> ns < Piece[f].size
  BY <1>1, CountIs
<1>4. StartOf(f) \in Nat
  <2>1. f \in Nat /\ f >= 1 /\ f <= Len(Piece) + 1
    BY <1>1, PieceTypes
  <2> QED
    BY <2>1, StartIsSum
<1>5. StartOf(f) + n \in SlicesUnder(f, k) <=>
        n < Count(f) /\ len > 0 /\ ns < offset + len /\ offset < ns + SliceSize
  <2>1. StartOf(f) + n \in SlicesUnder(f, k) <=>
          \E m \in Nat : /\ m < Count(f) /\ StartOf(f) + n = StartOf(f) + m /\ len > 0
                         /\ m * SliceSize < offset + len /\ offset < m * SliceSize + SliceSize
    <3>1. SlicesUnder(f, k) = SlicesOf(f, offset, len)
      BY DEF SlicesUnder
    <3> HIDE DEF offset, len
    <3>2. \A x : x \in SlicesOf(f, offset, len) <=>
              \E m \in Nat : /\ m < Count(f) /\ x = StartOf(f) + m /\ len > 0
                             /\ m * SliceSize < offset + len /\ offset < m * SliceSize + SliceSize
      BY <1>1, SpanSlices
    <3> QED
      BY <3>1, <3>2
  <2>2. \A m \in Nat : StartOf(f) + n = StartOf(f) + m => m = n
    BY <1>4
  <2> QED
    BY <2>1, <2>2
<1>6. Meets(f, n, offset, offset + len) <=>
        n < Count(f) /\ len > 0 /\ ns < offset + len /\ offset < ns + SliceSize
  <2>1. Meets(f, n, offset, offset + len) <=>
          Higher(offset, ns) < Lower(offset + len, Lower(ns + SliceSize, Piece[f].size))
    BY <1>2 DEF Meets, SliceEnd
  <2> HIDE DEF ns, offset, len
  <2> QED
    BY <1>1, <1>2, <1>3, <2>1 DEF Higher, Lower
<1> QED
  BY <1>5, <1>6

(* The slices an article ends, each once, and the one it is left in: a      *)
(* slice is a hole when it was, or when the article is one and lies in it.  *)
PushSound(r, a, f, k, mark) ==
    /\ r.asm \in Assembler /\ InStep(r.asm, f)
    /\ r.asm.pos <= Piece[f].articles[k].offset + Piece[f].articles[k].len
    /\ a.next <= r.asm.next
    /\ \A d \in r.done : d \in Assembler /\ a.next <= d.next /\ d.next < r.asm.next
    /\ \A n \in Nat : a.next <= n /\ n < r.asm.next => \E d \in r.done : d.next = n
    /\ \A d, e \in r.done : d.next = e.next => d = e
    /\ \A d \in r.done \union {r.asm} :
          d.hole <=> \/ d.next = a.next /\ a.hole
                     \/ mark = "hole" /\ StartOf(f) + d.next \in SlicesUnder(f, k)
    /\ mark = "hole" => \A x \in SlicesUnder(f, k) :
          \E n \in Nat : a.next <= n /\ n <= r.asm.next /\ x = StartOf(f) + n

(* What pushing an article does.                                            *)
LEMMA PushIs ==
    ASSUME NEW f \in CarriedFiles, NEW k \in DOMAIN Piece[f].articles, NEW a \in Assembler,
           InStep(a, f), a.pos <= Piece[f].articles[k].offset, NEW mark
    PROVE  PushSound(Push(a, f, Piece[f].articles[k], mark), a, f, k, mark)
<1> DEFINE offset == Piece[f].articles[k].offset
           len == Piece[f].articles[k].len
           size == Piece[f].size
           to == offset + len
           r == Push(a, f, Piece[f].articles[k], mark)
<1>1. /\ f \in DOMAIN Piece /\ size \in Nat /\ SliceSize \in Nat /\ SliceSize > 0
      /\ offset \in Nat /\ len \in Nat /\ to <= size /\ to \in Nat
  <2>1. f \in DOMAIN Piece
    BY DEF CarriedFiles
  <2>2. /\ size \in Nat /\ SliceSize \in Nat /\ SliceSize > 0 /\ offset \in Nat /\ len \in Nat
    BY <2>1, PieceTypes
  <2>3. to <= size
    BY SpanAssumption
  <2> QED
    BY <2>1, <2>2, <2>3
<1>2. a.pos \in Nat /\ a.next \in Nat /\ a.pos <= offset /\ a.pos <= size /\ a.next = EndedBy(a.pos, f)
  BY DEF Assembler, InStep
<1>3. Higher(offset, a.pos) = offset /\ Lower(to, size) = to
  BY <1>1, <1>2 DEF Higher, Lower
<1>4. SlicesUnder(f, k) = SlicesOf(f, offset, len)
  BY DEF SlicesUnder
<1>5. StartOf(f) \in Nat
  <2>1. f \in Nat /\ f >= 1 /\ f <= Len(Piece) + 1
    BY <1>1, PieceTypes
  <2> QED
    BY <2>1, StartIsSum
<1>6. CASE len = 0
  <2>1. r = [asm |-> a, done |-> {}]
    BY <1>1, <1>3, <1>6 DEF Push
  <2>2. SlicesUnder(f, k) = {}
    BY <1>4, <1>6 DEF SlicesOf
  <2>3. r.asm = a /\ r.done = {}
    BY <2>1
  <2> HIDE DEF r
  <2>4. a.pos <= offset + len
    BY <1>1, <1>2
  <2>5. \A n \in Nat : ~(a.next <= n /\ n < a.next)
    BY <1>2
  <2> QED
    BY <1>2, <2>2, <2>3, <2>4, <2>5 DEF PushSound, r
<1>7. CASE len > 0
  <2> DEFINE begun == [a EXCEPT !.unknown = @ \/ offset > a.pos]
             last == EndedBy(to, f)
             Slice(n) == Marked(begun, f, n, offset, to, mark)
  <2>1. begun \in Assembler /\ begun.next = a.next /\ begun.hole = a.hole
    BY DEF Assembler
  <2>2. /\ r.asm = Slice(last)
        /\ r.done = {Slice(n) : n \in a.next..(last - 1)}
    <3>1. ~(to <= offset)
      BY <1>1, <1>7
    <3> QED
      BY <1>3, <3>1 DEF Push
  <2>3. last \in Nat /\ last <= Count(f)
    BY <1>1, EndedByIs
  <2>4. \A n \in Nat : n < last => SliceEnd(n, f) <= to
    BY <1>1, EndedByIs
  <2>5. to < size => \A n \in Nat : n >= last => to < n * SliceSize + SliceSize
    BY <1>1, EndedByIs
  <2>6. a.next < Count(f) /\ a.next * SliceSize <= a.pos
    <3>1. a.pos < size
      BY <1>1, <1>2, <1>7
    <3> QED
      BY <1>1, <1>2, <3>1, EndedByIs
  <2> HIDE DEF begun
  <2>7. \A n \in Nat : /\ Slice(n) \in Assembler /\ Slice(n).next = n /\ Slice(n).pos = to
                       /\ Slice(n).hole <=> (n = a.next /\ a.hole) \/ (mark = "hole" /\ Meets(f, n, offset, to))
    <3> TAKE n \in Nat
    <3> HIDE DEF offset, to
    <3> QED
      BY <1>1, <2>1, MarkedIs
  <2>8. \A n \in Nat : Meets(f, n, offset, to) <=> StartOf(f) + n \in SlicesUnder(f, k)
    BY MeetsIs
  <2>9. a.next <= last
    <3> SUFFICES ASSUME last < a.next PROVE FALSE
      BY <1>2, <2>3
    <3>1. to < size
      <4> SUFFICES ASSUME to = size PROVE FALSE
        BY <1>1
      <4>1. last = Count(f)
        BY DEF EndedBy
      <4> QED
        BY <1>2, <2>3, <2>6, <4>1
    <3>2. to < last * SliceSize + SliceSize
      BY <2>3, <2>5, <3>1
    <3>3. last * SliceSize + SliceSize <= a.next * SliceSize
      <4>1. \A m, n, s \in Nat : m < n => m * s + s <= n * s
        OBVIOUS
      <4> QED
        BY <1>1, <1>2, <2>3, <4>1
    <3>4. last * SliceSize \in Nat /\ a.next * SliceSize \in Nat
      BY <1>1, <1>2, <2>3
    <3> QED
      BY <1>1, <1>2, <2>6, <3>2, <3>3, <3>4
  <2> HIDE DEF r, last, Slice
  <2>10. r.asm \in Assembler /\ r.asm.next = last /\ r.asm.pos = to
    BY <2>2, <2>3, <2>7
  <2>11. InStep(r.asm, f)
    BY <1>1, <2>10 DEF InStep, last
  <2>12. \A n : n \in a.next..(last - 1) => n \in Nat /\ a.next <= n /\ n < last
    BY <1>2, <2>3
  <2>13. \A n \in Nat : a.next <= n /\ n < last => n \in a.next..(last - 1)
    BY <1>2, <2>3
  <2>14. \A d \in r.done : \E n \in Nat : a.next <= n /\ n < last /\ d = Slice(n)
    BY <2>2, <2>12
  <2>15. \A d \in r.done : d \in Assembler /\ a.next <= d.next /\ d.next < r.asm.next
    BY <2>7, <2>10, <2>14
  <2>16. \A n \in Nat : a.next <= n /\ n < r.asm.next => \E d \in r.done : d.next = n
    <3> TAKE n \in Nat
    <3> HAVE a.next <= n /\ n < r.asm.next
    <3>1. Slice(n) \in r.done
      BY <2>2, <2>10, <2>13
    <3> QED
      BY <2>7, <3>1
  <2>17. \A d, e \in r.done : d.next = e.next => d = e
    BY <2>7, <2>14
  <2>18. ASSUME NEW d \in r.done \union {r.asm}
         PROVE  d.hole <=> \/ d.next = a.next /\ a.hole
                           \/ mark = "hole" /\ StartOf(f) + d.next \in SlicesUnder(f, k)
    <3>1. PICK n \in Nat : d = Slice(n)
      BY <2>2, <2>3, <2>14
    <3> QED
      BY <2>7, <2>8, <3>1
  <2>19. ASSUME NEW x \in SlicesUnder(f, k)
         PROVE  \E n \in Nat : a.next <= n /\ n <= r.asm.next /\ x = StartOf(f) + n
    <3>1. PICK n \in Nat : /\ n < Count(f) /\ x = StartOf(f) + n
                           /\ n * SliceSize < to /\ offset < n * SliceSize + SliceSize
      <4> HIDE DEF offset, len
      <4> QED
        BY <1>1, <1>4, SpanSlices
    <3>2. \A m, i, s \in Nat : m < i => m * s + s <= i * s
      OBVIOUS
    <3>3. n * SliceSize \in Nat /\ last * SliceSize \in Nat /\ a.next * SliceSize \in Nat
      BY <1>1, <1>2, <2>3
    <3>4. a.next <= n
      <4> SUFFICES ASSUME n < a.next PROVE FALSE
        BY <1>2
      <4>1. n * SliceSize + SliceSize <= a.next * SliceSize
        BY <1>1, <1>2, <3>2
      <4> QED
        BY <1>1, <1>2, <2>6, <3>1, <3>3, <4>1
    <3>5. n <= last
      <4> SUFFICES ASSUME last < n PROVE FALSE
        BY <2>3
      <4>1. CASE to = size
        <5>1. last = Count(f)
          BY <4>1 DEF EndedBy, last
        <5> QED
          BY <2>3, <3>1, <5>1
      <4>2. CASE to < size
        <5>1. to < last * SliceSize + SliceSize
          BY <2>3, <2>5, <4>2
        <5>2. last * SliceSize + SliceSize <= n * SliceSize
          BY <1>1, <2>3, <3>2
        <5> QED
          BY <1>1, <3>1, <3>3, <5>1, <5>2
      <4> QED
        BY <1>1, <4>1, <4>2
    <3> QED
      BY <2>10, <3>1, <3>4, <3>5
  <2>20. r.asm.pos <= offset + len
    BY <1>1, <2>10
  <2>21. a.next <= r.asm.next
    BY <2>9, <2>10
  <2> HIDE DEF offset, len, to
  <2>22. PushSound(r, a, f, k, mark)
    BY <2>10, <2>11, <2>15, <2>16, <2>17, <2>18, <2>19, <2>20, <2>21 DEF PushSound, offset, len
  <2> QED
    BY <2>22 DEF r
<1> QED
  BY <1>1, <1>6, <1>7

-----------------------------------------------------------------------------
(* The scan.                                                                *)

(* A file's first slice is a number.                                        *)
LEMMA StartType ==
    ASSUME NEW f \in DOMAIN Piece
    PROVE  StartOf(f) \in Nat
<1>1. f \in Nat /\ f >= 1 /\ f <= Len(Piece) + 1
  BY PieceTypes
<1> QED
  BY <1>1, StartIsSum

(* An article's slices are of its file.                                     *)
LEMMA SlicesOfOwnFile ==
    ASSUME NEW f \in CarriedFiles, NEW k \in DOMAIN Piece[f].articles, NEW x \in SlicesUnder(f, k)
    PROVE  \E n \in Nat : n < Count(f) /\ x = StartOf(f) + n
<1> DEFINE offset == Piece[f].articles[k].offset
           len == Piece[f].articles[k].len
<1>1. f \in DOMAIN Piece
  BY DEF CarriedFiles
<1>2. offset \in Nat /\ len \in Nat /\ offset + len <= Piece[f].size
  BY <1>1, PieceTypes, SpanAssumption
<1>3. x \in SlicesOf(f, offset, len)
  BY DEF SlicesUnder
<1> HIDE DEF offset, len
<1> QED
  BY <1>1, <1>2, <1>3, SpanSlices

(* What is before a slice and what is between two slices of a file.         *)
LEMMA SlicesGrow ==
    ASSUME NEW f \in CarriedFiles, NEW n \in Nat, NEW m \in Nat, n <= m, m <= Count(f), NEW x
    PROVE  /\ x \in SlicesBefore(f, m) <=>
                x \in SlicesBefore(f, n) \/ \E i \in Nat : n <= i /\ i < m /\ x = StartOf(f) + i
           /\ \A i \in Nat : n <= i /\ i < m => StartOf(f) + i \notin SlicesBefore(f, n)
<1>1. f \in DOMAIN Piece /\ f \in Nat /\ CarriedFiles \subseteq DOMAIN Piece
  BY PieceTypes DEF CarriedFiles
<1>2. \A g \in CarriedFiles : g \in Nat /\ Count(g) \in Nat /\ StartOf(g) \in Nat
  BY <1>1, PieceTypes, CountIs, StartType
<1>3. \A g \in CarriedFiles : \A i : i \in 0..(Count(g) - 1) <=> i \in Nat /\ i < Count(g)
  BY <1>2
<1>4. \A y, j : y \in SlicesBefore(f, j) <=>
         \E g \in CarriedFiles : \E i \in Nat :
            i < Count(g) /\ y = StartOf(g) + i /\ (g < f \/ (g = f /\ i < j))
  BY <1>2, <1>3 DEF SlicesBefore
<1>5. ASSUME x \in SlicesBefore(f, m)
      PROVE  x \in SlicesBefore(f, n) \/ \E i \in Nat : n <= i /\ i < m /\ x = StartOf(f) + i
  <2>1. PICK g \in CarriedFiles, i \in Nat :
            i < Count(g) /\ x = StartOf(g) + i /\ (g < f \/ (g = f /\ i < m))
    BY <1>4, <1>5
  <2>2. CASE g < f \/ i < n
    BY <1>4, <2>1, <2>2
  <2>3. CASE g = f /\ n <= i
    <3>1. i < m
      BY <1>1, <2>1, <2>3
    <3> QED
      BY <2>1, <2>3, <3>1
  <2> QED
    BY <1>1, <1>2, <2>1, <2>2, <2>3
<1>6. ASSUME x \in SlicesBefore(f, n) PROVE x \in SlicesBefore(f, m)
  <2>1. PICK g \in CarriedFiles, i \in Nat :
            i < Count(g) /\ x = StartOf(g) + i /\ (g < f \/ (g = f /\ i < n))
    BY <1>4, <1>6
  <2>2. g < f \/ (g = f /\ i < m)
    BY <2>1
  <2> QED
    BY <1>4, <2>1, <2>2
<1>7. ASSUME NEW i \in Nat, n <= i, i < m
      PROVE  StartOf(f) + i \in SlicesBefore(f, m) /\ StartOf(f) + i \notin SlicesBefore(f, n)
  <2>1. i < Count(f)
    BY <1>2, <1>7
  <2>2. StartOf(f) + i \in SlicesBefore(f, m)
    BY <1>4, <1>7, <2>1
  <2>3. ASSUME NEW g \in CarriedFiles, NEW j \in Nat,
               j < Count(g), StartOf(f) + i = StartOf(g) + j, g < f \/ (g = f /\ j < n)
        PROVE  FALSE
    <3>1. f = g /\ i = j
      BY <1>1, <2>1, <2>3, OnePlace
    <3> QED
      BY <1>1, <1>7, <2>3, <3>1
  <2> QED
    BY <1>4, <2>2, <2>3
<1> QED
  BY <1>5, <1>6, <1>7

(* Slices finished as a kind.                                               *)
Ended(done, f, kind) == {StartOf(f) + d.next : d \in {b \in done : Finished(b, f) = kind}}

(* They are numbers, and each ended slice is of one kind.                   *)
LEMMA EndedIs ==
    ASSUME NEW f \in DOMAIN Piece, NEW done, \A d \in done : d \in Assembler
    PROVE  /\ Ended(done, f, "good") \in SUBSET Nat /\ Ended(done, f, "hole") \in SUBSET Nat
           /\ Ended(done, f, "unknown") \in SUBSET Nat
           /\ \A x : x \in Ended(done, f, "hole") <=> \E d \in done : d.hole /\ x = StartOf(f) + d.next
           /\ \A x : x \in Ended(done, f, "good") \union Ended(done, f, "hole")
                                                  \union Ended(done, f, "unknown") <=>
                \E d \in done : x = StartOf(f) + d.next
           /\ \A x \in Ended(done, f, "good") :
                \E d \in done : ~d.hole /\ Finished(d, f) = "good" /\ x = StartOf(f) + d.next
           /\ \A x \in Ended(done, f, "unknown") :
                \E d \in done : Finished(d, f) = "unknown" /\ x = StartOf(f) + d.next
<1>1. \A d \in done : /\ Finished(d, f) \in {"hole", "good", "unknown"}
                      /\ Finished(d, f) = "hole" <=> d.hole
  BY DEF Finished, Assembler
<1>2. \A d \in done : StartOf(f) + d.next \in Nat
  BY StartType DEF Assembler
<1> QED
  BY <1>1, <1>2 DEF Ended

(* After an article: what it ended is told apart, and its file's open slice *)
(* is a hole only for an article that is lost.                              *)
LEMMA AfterArticle ==
    ASSUME NEW f \in CarriedFiles, NEW k \in DOMAIN Piece[f].articles, NEW L, NEW mark,
           NEW s \in Scan, NEW t \in Scan, NEW r, PushSound(r, s.asm, f, k, mark),
           Sifted(s, f), HolesKnown(s, f), HolesLost(s, f, L),
           mark = "hole" => Piece[f].articles[k].id \in L,
           t.asm = r.asm,
           t.good = s.good \union Ended(r.done, f, "good"),
           t.missing = s.missing \union Ended(r.done, f, "hole"),
           t.unknown = s.unknown \union Ended(r.done, f, "unknown"),
           t.holes = s.holes \union (IF mark = "hole" THEN {<<f, k>>} ELSE {})
    PROVE  Sifted(t, f) /\ HolesKnown(t, f) /\ HolesLost(t, f, L)
<1> DEFINE a == s.asm
<1>1. f \in DOMAIN Piece /\ a \in Assembler /\ r.asm \in Assembler /\ StartOf(f) \in Nat
  BY StartType DEF CarriedFiles, Scan, PushSound
<1>2. a.next \in Nat /\ r.asm.next \in Nat /\ a.next <= r.asm.next /\ r.asm.next <= Count(f)
  <2>1. r.asm.pos \in Nat /\ InStep(r.asm, f)
    BY <1>1 DEF Assembler, PushSound
  <2>2. r.asm.next <= Count(f)
    BY <1>1, <2>1, EndedByIs DEF InStep
  <2> QED
    BY <1>1, <2>2 DEF Assembler, PushSound
<1>3. /\ \A d \in r.done : d \in Assembler /\ d.next \in Nat /\ a.next <= d.next /\ d.next < r.asm.next
      /\ \A n \in Nat : a.next <= n /\ n < r.asm.next => \E d \in r.done : d.next = n
      /\ \A d, e \in r.done : d.next = e.next => d = e
      /\ \A d \in r.done \union {r.asm} :
            d.hole <=> \/ d.next = a.next /\ a.hole
                       \/ mark = "hole" /\ StartOf(f) + d.next \in SlicesUnder(f, k)
      /\ mark = "hole" => \A x \in SlicesUnder(f, k) :
            \E n \in Nat : a.next <= n /\ n <= r.asm.next /\ x = StartOf(f) + n
  BY DEF PushSound, Assembler
<1> DEFINE G == Ended(r.done, f, "good")
           H == Ended(r.done, f, "hole")
           U == Ended(r.done, f, "unknown")
<1>4. /\ \A x : x \in H <=> \E d \in r.done : d.hole /\ x = StartOf(f) + d.next
      /\ \A x : x \in G \union H \union U <=> \E d \in r.done : x = StartOf(f) + d.next
      /\ \A x \in G : \E d \in r.done : ~d.hole /\ Finished(d, f) = "good" /\ x = StartOf(f) + d.next
      /\ \A x \in U : \E d \in r.done : Finished(d, f) = "unknown" /\ x = StartOf(f) + d.next
  BY <1>1, <1>3, EndedIs
<1>5. /\ s.good \union s.missing \union s.unknown = SlicesBefore(f, a.next)
      /\ s.good \intersect (s.missing \union s.unknown) = {}
  BY DEF Sifted
<1>6. t.good = s.good \union G /\ t.missing = s.missing \union H /\ t.unknown = s.unknown \union U
  OBVIOUS
<1> HIDE DEF a, G, H, U
<1>7. Sifted(t, f)
  <2>1. \A x : x \in G \union H \union U <=>
                  \E i \in Nat : a.next <= i /\ i < r.asm.next /\ x = StartOf(f) + i
    BY <1>3, <1>4
  <2>2. \A x : x \in SlicesBefore(f, r.asm.next) <=>
                  x \in SlicesBefore(f, a.next) \/ x \in G \union H \union U
    BY <1>2, <2>1, SlicesGrow
  <2>3. \A x \in G \union H \union U : x \notin SlicesBefore(f, a.next)
    BY <1>2, <2>1, SlicesGrow
  <2>4. G \intersect (H \union U) = {}
    <3> SUFFICES ASSUME NEW x \in G, x \in H \union U PROVE FALSE
      OBVIOUS
    <3>1. PICK d \in r.done : ~d.hole /\ Finished(d, f) = "good" /\ x = StartOf(f) + d.next
      BY <1>4
    <3>2. PICK e \in r.done : (e.hole \/ Finished(e, f) = "unknown") /\ x = StartOf(f) + e.next
      BY <1>4
    <3>3. d.next = e.next
      BY <1>1, <1>3, <3>1, <3>2
    <3>4. d = e
      BY <1>3, <3>3
    <3> QED
      BY <3>1, <3>2, <3>4
  <2>5. t.good \union t.missing \union t.unknown = SlicesBefore(f, r.asm.next)
    BY <1>5, <1>6, <2>2
  <2>6. t.good \intersect (t.missing \union t.unknown) = {}
    BY <1>5, <1>6, <2>3, <2>4
  <2> QED
    BY <2>5, <2>6 DEF Sifted
<1>8. ASSUME NEW x, NEW n \in Nat, x = StartOf(f) + n, a.next <= n, n <= r.asm.next,
             (n = a.next /\ a.hole) \/ (mark = "hole" /\ x \in SlicesUnder(f, k))
      PROVE  x \in t.missing \/ (r.asm.hole /\ x = StartOf(f) + r.asm.next)
  <2>1. CASE n = r.asm.next
    BY <1>3, <1>8, <2>1
  <2>2. CASE n < r.asm.next
    <3>1. PICK d \in r.done : d.next = n
      BY <1>3, <1>8, <2>2
    <3>2. d.hole
      BY <1>3, <1>8, <3>1
    <3> QED
      BY <1>4, <1>6, <1>8, <3>1, <3>2
  <2> QED
    BY <1>2, <1>8, <2>1, <2>2
<1>9. HolesKnown(t, f)
  <2> SUFFICES ASSUME NEW h \in t.holes
               PROVE  /\ h[1] \in CarriedFiles /\ h[2] \in DOMAIN Piece[h[1]].articles
                      /\ \A x \in SlicesUnder(h[1], h[2]) :
                           \/ x \in t.missing \union t.unknown
                           \/ h[1] = f /\ t.asm.hole /\ x = StartOf(f) + t.asm.next
    BY DEF HolesKnown
  <2>1. CASE h \in s.holes
    <3>1. /\ h[1] \in CarriedFiles /\ h[2] \in DOMAIN Piece[h[1]].articles
          /\ \A x \in SlicesUnder(h[1], h[2]) :
               \/ x \in s.missing \union s.unknown
               \/ h[1] = f /\ a.hole /\ x = StartOf(f) + a.next
      BY <2>1 DEF HolesKnown, a
    <3> SUFFICES ASSUME NEW x \in SlicesUnder(h[1], h[2])
                 PROVE  \/ x \in t.missing \union t.unknown
                        \/ h[1] = f /\ t.asm.hole /\ x = StartOf(f) + t.asm.next
      BY <3>1
    <3>2. CASE x \in s.missing \union s.unknown
      BY <1>6, <3>2
    <3>3. CASE h[1] = f /\ a.hole /\ x = StartOf(f) + a.next
      BY <1>2, <1>8, <3>3
    <3> QED
      BY <3>1, <3>2, <3>3
  <2>2. CASE h \notin s.holes
    <3>1. mark = "hole" /\ h = <<f, k>>
      BY <2>2
    <3>2. h[1] = f /\ h[2] = k
      BY <3>1
    <3> SUFFICES ASSUME NEW x \in SlicesUnder(f, k)
                 PROVE  \/ x \in t.missing \union t.unknown
                        \/ t.asm.hole /\ x = StartOf(f) + t.asm.next
      BY <3>2
    <3>3. PICK n \in Nat : a.next <= n /\ n <= r.asm.next /\ x = StartOf(f) + n
      BY <1>3, <3>1
    <3> QED
      BY <1>8, <3>1, <3>3
  <2> QED
    BY <2>1, <2>2
<1>10. \A x \in SlicesUnder(f, k) : mark = "hole" => x \in LostWith(L)
  BY DEF LostWith
<1>11. a.hole => StartOf(f) + a.next \in LostWith(L)
  BY DEF HolesLost, a
<1>12. HolesLost(t, f, L)
  <2>1. \A d \in r.done \union {r.asm} : d.hole => StartOf(f) + d.next \in LostWith(L)
    BY <1>3, <1>10, <1>11
  <2>2. s.missing \subseteq LostWith(L)
    BY DEF HolesLost
  <2>3. t.missing \subseteq LostWith(L)
    BY <1>4, <1>6, <2>1, <2>2
  <2> QED
    BY <2>1, <2>3 DEF HolesLost
<1> QED
  BY <1>7, <1>9, <1>12

(* The next file that is carried, and past the last one.                    *)
LEMMA NextFile ==
    ASSUME NEW f \in Nat, f >= 1, f <= Len(Piece) + 1
    PROVE  LET g == FirstFrom(f)[1] IN
           /\ FirstFrom(f) \in Nat \X Nat /\ FirstFrom(f)[2] = 1
           /\ g \in CarriedFiles \/ g = Len(Piece) + 1
           /\ g \in Nat /\ g >= f
           /\ \A h \in CarriedFiles : ~(f <= h /\ h < g)
<1> DEFINE later == {h \in CarriedFiles : h >= f}
           g == FirstFrom(f)[1]
<1>1. \A h \in CarriedFiles : h \in Nat /\ h <= Len(Piece) /\ Len(Piece) \in Nat
  BY PieceTypes DEF CarriedFiles
<1>2. Len(Piece) \in Nat
  BY RepairAssumption, LenProperties
<1>3. FirstFrom(f) = <<IF later = {} THEN Len(Piece) + 1 ELSE Min(later), 1>>
  BY DEF FirstFrom
<1>4. CASE later = {}
  <2>1. FirstFrom(f) = <<Len(Piece) + 1, 1>>
    BY <1>3, <1>4
  <2>2. g = Len(Piece) + 1 /\ FirstFrom(f)[2] = 1 /\ FirstFrom(f) \in Nat \X Nat
    BY <1>2, <2>1
  <2> QED
    BY <1>2, <1>4, <2>2
<1>5. CASE later # {}
  <2>1. \E m \in later : \A h \in later : m <= h
    <3>1. later \in SUBSET Nat
      BY <1>1
    <3> HIDE DEF later
    <3> QED
      BY <1>5, <3>1, LeastOf
  <2>2. Min(later) \in later /\ \A h \in later : Min(later) <= h
    <3> HIDE DEF later
    <3> QED
      BY <2>1 DEF Min
  <2>3. FirstFrom(f) = <<Min(later), 1>>
    BY <1>3, <1>5
  <2>4. g = Min(later) /\ FirstFrom(f)[2] = 1
    BY <2>3
  <2>5. g \in CarriedFiles /\ g >= f /\ g \in Nat
    BY <1>1, <2>2, <2>4
  <2>6. FirstFrom(f) \in Nat \X Nat
    BY <2>3, <2>4, <2>5
  <2>7. \A h \in CarriedFiles : f <= h => g <= h
    BY <1>1, <2>2, <2>4
  <2>8. \A h \in CarriedFiles : ~(f <= h /\ h < g)
    BY <1>1, <2>5, <2>7
  <2> HIDE DEF g
  <2> QED
    BY <2>4, <2>5, <2>6, <2>8 DEF g
<1> QED
  BY <1>4, <1>5

(* A file begins with a fresh assembler at its first article.               *)
LEMMA FreshIsPlaced ==
    ASSUME NEW f \in CarriedFiles
    PROVE  Placed(FreshAssembler, f, 1)
<1>1. f \in DOMAIN Piece
  BY DEF CarriedFiles
<1>2. /\ Piece[f].size \in Nat /\ SliceSize \in Nat /\ SliceSize > 0
      /\ \A k \in DOMAIN Piece[f].articles : Piece[f].articles[k].offset \in Nat
      /\ Piece[f].articles \in Seq([id : STRING, offset : Nat, len : Nat])
  BY <1>1, PieceTypes
<1>3. 1 \in DOMAIN Piece[f].articles
  <2> DEFINE spans == Piece[f].articles
  <2>1. spans # <<>>
    BY SpanAssumption
  <2>2. spans \in Seq([id : STRING, offset : Nat, len : Nat])
    BY <1>2
  <2> HIDE DEF spans
  <2>3. Len(spans) \in Nat /\ Len(spans) # 0 /\ DOMAIN spans = 1..Len(spans)
    BY <2>1, <2>2, LenProperties, EmptySeq
  <2> QED
    BY <2>3 DEF spans
<1>4. EndedBy(0, f) = 0
  <2>1. EndedBy(0, f) \in Nat /\ EndedBy(0, f) <= Count(f) /\ Count(f) \in Nat
    <3>1. 0 \in Nat /\ 0 <= Piece[f].size
      BY <1>2
    <3> QED
      BY <1>1, <3>1, EndedByIs, CountIs
  <2>2. CASE Piece[f].size = 0
    <3>1. \A n \in Nat : n < Count(f) <=> n * SliceSize < 0
      BY <1>1, <2>2, CountIs
    <3>2. ~(0 < Count(f))
      BY <1>2, <3>1
    <3> QED
      BY <2>1, <3>2
  <2>3. CASE Piece[f].size > 0
    <3>1. EndedBy(0, f) = 0 \div SliceSize
      BY <1>2, <2>3 DEF EndedBy
    <3>2. \A n \in Nat : n > 0 => 0 \div n = 0
      OBVIOUS
    <3> QED
      BY <1>2, <3>1, <3>2
  <2> QED
    BY <1>2, <2>2, <2>3
<1>5. FreshAssembler.pos = 0 /\ FreshAssembler.next = 0
  BY DEF FreshAssembler
<1>6. InStep(FreshAssembler, f)
  BY <1>2, <1>4, <1>5 DEF InStep
<1>7. \A j \in DOMAIN Piece[f].articles : FreshAssembler.pos <= Piece[f].articles[j].offset
  BY <1>2, <1>5
<1> QED
  BY <1>3, <1>6, <1>7 DEF Placed

(* Nothing lies between two files that follow each other.                   *)
LEMMA BetweenFiles ==
    ASSUME NEW f \in CarriedFiles, NEW g \in Nat, f < g,
           \A h \in CarriedFiles : ~(f + 1 <= h /\ h < g)
    PROVE  SlicesBefore(g, 0) = SlicesBefore(f, Count(f))
<1>1. f \in Nat /\ \A h \in CarriedFiles : h \in Nat /\ Count(h) \in Nat
  BY PieceTypes, CountIs DEF CarriedFiles
<1>2. \A h \in CarriedFiles : h < g <=> h < f \/ h = f
  BY <1>1
<1>3. \A h \in CarriedFiles : \A n \in 0..(Count(h) - 1) :
         (h < g \/ (h = g /\ n < 0)) <=> (h < f \/ (h = f /\ n < Count(f)))
  BY <1>1, <1>2
<1> QED
  BY <1>3 DEF SlicesBefore

(* Nothing lies before the first file.                                      *)
LEMMA NothingBefore ==
    ASSUME NEW g \in Nat, \A h \in CarriedFiles : ~(1 <= h /\ h < g)
    PROVE  SlicesBefore(g, 0) = {}
<1>1. \A h \in CarriedFiles : h \in Nat /\ 1 <= h /\ Count(h) \in Nat
  BY PieceTypes, CountIs DEF CarriedFiles
<1>2. \A h \in CarriedFiles : \A n \in 0..(Count(h) - 1) : ~(h < g \/ (h = g /\ n < 0))
  BY <1>1
<1> QED
  BY <1>2 DEF SlicesBefore

(* After a file: the slices that were never reached are unknown.            *)
LEMMA AfterFile ==
    ASSUME NEW f \in CarriedFiles, NEW g \in Nat, f < g,
           \A h \in CarriedFiles : ~(f + 1 <= h /\ h < g), NEW L,
           NEW t \in Scan, NEW u, t.asm.next <= Count(f),
           Sifted(t, f), HolesKnown(t, f), HolesLost(t, f, L),
           u.asm = FreshAssembler, u.good = t.good, u.missing = t.missing, u.holes = t.holes,
           u.unknown = t.unknown \union Unreached(f, t.asm)
    PROVE  Sifted(u, g) /\ HolesKnown(u, g) /\ HolesLost(u, g, L)
<1> DEFINE n == t.asm.next
           rest == Unreached(f, t.asm)
<1>1. n \in Nat /\ Count(f) \in Nat /\ n <= Count(f) /\ StartOf(f) \in Nat
  BY CountIs, StartType DEF Scan, Assembler, CarriedFiles
<1>2. \A x : x \in rest <=> \E i \in Nat : n <= i /\ i < Count(f) /\ x = StartOf(f) + i
  <2>1. \A i : i \in n..(Count(f) - 1) <=> i \in Nat /\ n <= i /\ i < Count(f)
    BY <1>1
  <2> QED
    BY <2>1 DEF Unreached
<1>3. FreshAssembler.next = 0 /\ FreshAssembler.hole = FALSE
  BY DEF FreshAssembler
<1>4. u.asm.next = 0 /\ u.asm.hole = FALSE
  BY <1>3
<1>5. /\ t.good \union t.missing \union t.unknown = SlicesBefore(f, n)
      /\ t.good \intersect (t.missing \union t.unknown) = {}
  BY DEF Sifted
<1> HIDE DEF n, rest
<1>6. Sifted(u, g)
  <2>1. SlicesBefore(g, 0) = SlicesBefore(f, Count(f))
    BY BetweenFiles
  <2>2. \A x : x \in SlicesBefore(f, Count(f)) <=> x \in SlicesBefore(f, n) \/ x \in rest
    BY <1>1, <1>2, SlicesGrow
  <2>3. \A x \in rest : x \notin SlicesBefore(f, n)
    BY <1>1, <1>2, SlicesGrow
  <2>4. u.unknown = t.unknown \union rest
    BY DEF rest
  <2>5. u.good \union u.missing \union u.unknown = SlicesBefore(g, 0)
    BY <1>5, <2>1, <2>2, <2>4
  <2>6. u.good \intersect (u.missing \union u.unknown) = {}
    BY <1>5, <2>3, <2>4
  <2> QED
    BY <1>4, <2>5, <2>6 DEF Sifted
<1>7. ASSUME NEW h \in t.holes
      PROVE  /\ h[1] \in CarriedFiles /\ h[2] \in DOMAIN Piece[h[1]].articles
             /\ \A x \in SlicesUnder(h[1], h[2]) : x \in u.missing \union u.unknown
  <2>1. /\ h[1] \in CarriedFiles /\ h[2] \in DOMAIN Piece[h[1]].articles
        /\ \A x \in SlicesUnder(h[1], h[2]) :
             \/ x \in t.missing \union t.unknown
             \/ h[1] = f /\ x = StartOf(f) + n
    BY <1>7 DEF HolesKnown, n
  <2>2. ASSUME NEW x \in SlicesUnder(h[1], h[2]), h[1] = f, x = StartOf(f) + n PROVE x \in rest
    <3>1. PICK i \in Nat : i < Count(f) /\ x = StartOf(f) + i
      BY <2>1, <2>2, SlicesOfOwnFile
    <3>2. i = n
      BY <1>1, <2>2, <3>1
    <3> QED
      BY <1>1, <1>2, <2>2, <3>1, <3>2
  <2>3. \A x \in SlicesUnder(h[1], h[2]) : x \in t.missing \union t.unknown \union rest
    BY <2>1, <2>2
  <2> QED
    BY <2>1, <2>3 DEF rest
<1>8. HolesKnown(u, g)
  BY <1>7 DEF HolesKnown
<1>9. HolesLost(u, g, L)
  BY <1>4 DEF HolesLost
<1> QED
  BY <1>6, <1>8, <1>9


-----------------------------------------------------------------------------
(* Rows and slices in all.                                                  *)

(* The volumes' rows are numbers.                                           *)
LEMMA VolumeTypes ==
    /\ VolumeRows \in [1..Len(VolumeRows) -> Nat] /\ VolumeRows \in [1..Len(VolumeRows) -> Int]
    /\ Len(VolumeRows) \in Nat /\ DOMAIN VolumeRows = 1..Len(VolumeRows)
<1>1. VolumeRows \in Seq(Nat)
  BY RepairAssumption
<1>2. /\ VolumeRows \in [1..Len(VolumeRows) -> Nat] /\ Len(VolumeRows) \in Nat
      /\ DOMAIN VolumeRows = 1..Len(VolumeRows)
  BY <1>1, LenProperties
<1>3. \A S : \A w \in [S -> Nat] : w \in [S -> Int]
  OBVIOUS
<1> QED
  BY <1>2, <1>3

(* A sum is that of all but one and this one.                               *)
Weights(w, S) == w \in [S -> Int]

TakesOut(w, T, x) == Sum(Of(w, T), T) = w[x] + Sum(Of(w, T \ {x}), T \ {x})

(* Any element of a set can be taken out of its sum.                        *)
LEMMA TakenOut ==
    ASSUME NEW S, IsFiniteSet(S), NEW w, Weights(w, S), NEW T, T \in SUBSET S, NEW x, x \in T
    PROVE  TakesOut(w, T, x)
BY SumOfWithout DEF TakesOut, Weights

(* A sum up to a number takes in the weight of that number.                 *)
LEMMA SumUpTo ==
    ASSUME NEW N \in Nat, NEW w \in [1..N -> Nat], NEW v \in Nat, v >= 1, v <= N
    PROVE  /\ Sum(Of(w, 1..(v - 1)), 1..(v - 1)) \in Nat /\ w[v] \in Nat
           /\ Sum(Of(w, 1..v), 1..v) = w[v] + Sum(Of(w, 1..(v - 1)), 1..(v - 1))
<1> DEFINE S == 1..N
           T == 1..v
           R == 1..(v - 1)
<1>1. w \in [S -> Nat] /\ Weights(w, S)
  BY DEF Weights
<1>2. IsFiniteSet(S) /\ IsFiniteSet(R)
  <2>1. 1 \in Int /\ N \in Int /\ v - 1 \in Int
    OBVIOUS
  <2> QED
    BY <2>1, FS_Interval
<1>3. T \in SUBSET S /\ v \in T /\ T \ {v} = R /\ v \in S /\ R \in SUBSET S
  OBVIOUS
<1> HIDE DEF S, T, R
<1>4. TakesOut(w, T, v)
  BY <1>1, <1>2, <1>3, TakenOut
<1>5. Of(w, R) \in [R -> Nat] /\ w[v] \in Nat
  BY <1>1, <1>3 DEF Of
<1>6. Sum(Of(w, R), R) \in Nat
  BY <1>2, <1>5, SumIsNat
<1>7. Sum(Of(w, T), T) = w[v] + Sum(Of(w, R), R)
  BY <1>3, <1>4 DEF TakesOut
<1> QED
  BY <1>5, <1>6, <1>7 DEF T, R

(* A volume adds its rows.                                                  *)
LEMMA RowsAdd ==
    ASSUME NEW v \in Nat, v >= 1, v <= Len(VolumeRows)
    PROVE  /\ RowsBefore(v) \in Nat /\ VolumeRows[v] \in Nat
           /\ RowsBefore(v + 1) = RowsBefore(v) + VolumeRows[v]
<1>1. v + 1 - 1 = v
  OBVIOUS
<1>2. /\ Sum(Of(VolumeRows, 1..(v - 1)), 1..(v - 1)) \in Nat /\ VolumeRows[v] \in Nat
      /\ Sum(Of(VolumeRows, 1..v), 1..v) = VolumeRows[v] + Sum(Of(VolumeRows, 1..(v - 1)), 1..(v - 1))
  BY VolumeTypes, SumUpTo
<1> QED
  BY <1>1, <1>2 DEF RowsBefore

(* The first volume comes with none before it.                              *)
LEMMA NoRowsBefore == RowsBefore(1) = 0
<1>1. 1..(1 - 1) = {}
  OBVIOUS
<1>2. Of(VolumeRows, {}) \in [{} -> Int]
  BY DEF Of
<1>3. Sum(Of(VolumeRows, {}), {}) = 0
  BY <1>2, SumOfNone
<1> QED
  BY <1>1, <1>3 DEF RowsBefore

(* All volumes have all rows.                                               *)
LEMMA AllRowsIs == AllRows = RowsBefore(Len(VolumeRows) + 1)
<1> DEFINE S == 1..Len(VolumeRows)
           w == Of(VolumeRows, S)
           Sol(f) == f = [s \in SUBSET S |->
                             IF s = {} THEN 0 ELSE VolumeRows[OneOf(s)] + f[Remaining(s)]]
           it == CHOOSE f : Sol(f)
<1>1. /\ VolumeRows \in [S -> Int] /\ Len(VolumeRows) \in Nat /\ DOMAIN VolumeRows = S
  BY VolumeTypes
<1>2. IsFiniteSet(S)
  <2>1. 1 \in Int /\ Len(VolumeRows) \in Int
    BY <1>1
  <2> QED
    BY <2>1, FS_Interval
<1>3. AllRows = it[S]
  BY <1>1 DEF AllRows, MapThenSumSet, MapThenFoldSet, OneOf, Remaining
<1>4. w \in [S -> Int] /\ \A v \in S : w[v] = VolumeRows[v]
  BY <1>1 DEF Of
<1> HIDE DEF S, w
<1>5. PICK first \in [SUBSET S -> Int] : Partial(first, w, SUBSET S)
  BY <1>2, <1>4, PartialExists
<1>6. \A s \in SUBSET S : s # {} => OneOf(s) \in S
  BY OneIsIn
<1>7. \A g : Sol(g) <=> Partial(g, w, SUBSET S)
  <2> SUFFICES ASSUME NEW g PROVE Sol(g) <=> Partial(g, w, SUBSET S)
    OBVIOUS
  <2> QED
    BY <1>4, <1>6 DEF Partial
<1>8. Sol(it)
  BY <1>5, <1>7
<1> HIDE DEF it, Sol
<1>9. AllRows = Sum(w, S)
  BY <1>2, <1>3, <1>4, <1>7, <1>8, SumIs
<1>10. Len(VolumeRows) + 1 - 1 = Len(VolumeRows)
  BY <1>1
<1> QED
  BY <1>9, <1>10 DEF RowsBefore, S, w

(* Files have different slices, finitely many in all.                       *)
LEMMA SlicesOfFiles ==
    /\ \A f \in DOMAIN Piece : \A x : x \in SlicesOfFile(f) <=>
                                         \E n \in Nat : n < Count(f) /\ x = StartOf(f) + n
    /\ \A f, g \in DOMAIN Piece : f # g => SlicesOfFile(f) \intersect SlicesOfFile(g) = {}
    /\ AllSlices \in SUBSET Nat
    /\ \A S \in SUBSET AllSlices : IsFiniteSet(S) /\ Cardinality(S) \in Nat
<1>1. \A f \in DOMAIN Piece : /\ StartOf(f) \in Nat /\ Count(f) \in Nat
                              /\ f \in Nat /\ f >= 1 /\ f <= Len(Piece)
  BY StartType, CountIs, PieceTypes
<1>2. \A f \in DOMAIN Piece : \A n : n \in 0..(Count(f) - 1) <=> n \in Nat /\ n < Count(f)
  BY <1>1
<1>3. \A f \in DOMAIN Piece : \A x : x \in SlicesOfFile(f) <=>
                                        \E n \in Nat : n < Count(f) /\ x = StartOf(f) + n
  BY <1>2 DEF SlicesOfFile
<1>4. ASSUME NEW f \in DOMAIN Piece, NEW g \in DOMAIN Piece, f # g
      PROVE  SlicesOfFile(f) \intersect SlicesOfFile(g) = {}
  <2> SUFFICES ASSUME NEW x \in SlicesOfFile(f), x \in SlicesOfFile(g) PROVE FALSE
    OBVIOUS
  <2>1. PICK n \in Nat : n < Count(f) /\ x = StartOf(f) + n
    BY <1>3
  <2>2. PICK m \in Nat : m < Count(g) /\ x = StartOf(g) + m
    BY <1>3
  <2>3. StartOf(f) + n = StartOf(g) + m
    BY <2>1, <2>2
  <2> QED
    BY <1>4, <2>1, <2>2, <2>3, OnePlace
<1>5. Len(Piece) \in Nat
  BY RepairAssumption, LenProperties
<1> DEFINE end == StartOf(Len(Piece) + 1)
<1>6. end \in Nat
  <2>1. Len(Piece) + 1 \in Nat /\ Len(Piece) + 1 >= 1 /\ Len(Piece) + 1 <= Len(Piece) + 1
    BY <1>5
  <2> QED
    BY <2>1, StartIsSum
<1>7. \A f \in DOMAIN Piece : StartOf(f) + Count(f) <= end
  <2> SUFFICES ASSUME NEW f \in DOMAIN Piece PROVE StartOf(f) + Count(f) <= end
    OBVIOUS
  <2>1. /\ Len(Piece) + 1 \in Nat /\ f \in Nat /\ 1 <= f /\ f < Len(Piece) + 1
        /\ Len(Piece) + 1 <= Len(Piece) + 1
    BY <1>1, <1>5
  <2> QED
    BY <2>1, StartsAreApart
<1> HIDE DEF end
<1>8. \A x \in AllSlices : x \in Nat /\ x <= end
  <2> SUFFICES ASSUME NEW x \in AllSlices PROVE x \in Nat /\ x <= end
    OBVIOUS
  <2>1. PICK f \in DOMAIN Piece : x \in SlicesOfFile(f)
    BY DEF AllSlices
  <2>2. PICK n \in Nat : n < Count(f) /\ x = StartOf(f) + n
    BY <1>3, <2>1
  <2> QED
    BY <1>1, <1>6, <1>7, <2>2
<1>9. AllSlices \in SUBSET Nat
  BY <1>8
<1>10. IsFiniteSet(AllSlices)
  BY <1>6, <1>8, <1>9, FS_BoundedSetOfNaturals
<1>11. \A S \in SUBSET AllSlices : IsFiniteSet(S) /\ Cardinality(S) \in Nat
  BY <1>10, FS_Subset, FS_CardinalityType
<1> QED
  BY <1>3, <1>4, <1>9, <1>11

(* What a scan can read: all slices but those of files that are not there.  *)
LEMMA SlicesRead ==
    /\ \A g, n : SlicesBefore(g, n) \subseteq AllSlices
    /\ SlicesBefore(Len(Piece) + 1, 0) \union Absent = AllSlices
    /\ SlicesBefore(Len(Piece) + 1, 0) \intersect Absent = {}
    /\ Absent \subseteq AllSlices
<1>1. \A f \in DOMAIN Piece : \A x : x \in SlicesOfFile(f) <=> \E n \in 0..(Count(f) - 1) : x = StartOf(f) + n
  BY DEF SlicesOfFile
<1>2. CarriedFiles \subseteq DOMAIN Piece
  BY DEF CarriedFiles
<1>3. \A x : x \in Absent <=> \E f \in DOMAIN Piece : f \notin CarriedFiles /\ x \in SlicesOfFile(f)
  BY DEF Absent
<1>4. \A x : x \in AllSlices <=> \E f \in DOMAIN Piece : x \in SlicesOfFile(f)
  BY DEF AllSlices
<1>5. \A f \in DOMAIN Piece : f < Len(Piece) + 1
  BY PieceTypes
<1>6. \A x : x \in AllSlices => x \in Nat
  BY SlicesOfFiles
<1>7. \A g, n, x : x \in SlicesBefore(g, n) =>
         \E f \in CarriedFiles : \E m \in 0..(Count(f) - 1) : x = StartOf(f) + m
  BY DEF SlicesBefore
<1>8. \A g, n, x : x \in SlicesBefore(g, n) => \E f \in CarriedFiles : x \in SlicesOfFile(f)
  BY <1>1, <1>2, <1>7
<1>9. ASSUME NEW f \in CarriedFiles, NEW x \in SlicesOfFile(f)
      PROVE  x \in SlicesBefore(Len(Piece) + 1, 0)
  <2>1. PICK n \in 0..(Count(f) - 1) : x = StartOf(f) + n
    BY <1>1, <1>2
  <2>2. x \in Nat
    BY <1>2, <1>4, <1>6
  <2> QED
    BY <1>2, <1>5, <2>1, <2>2 DEF SlicesBefore
<1>10. \A f, g \in DOMAIN Piece : f # g => SlicesOfFile(f) \intersect SlicesOfFile(g) = {}
  BY SlicesOfFiles
<1>11. \A x \in SlicesBefore(Len(Piece) + 1, 0) : x \notin Absent
  BY <1>2, <1>3, <1>8, <1>10
<1>12. \A g, n : SlicesBefore(g, n) \subseteq AllSlices
  BY <1>2, <1>4, <1>8
<1>13. Absent \subseteq AllSlices
  BY <1>3, <1>4
<1>14. \A x \in AllSlices : x \in SlicesBefore(Len(Piece) + 1, 0) \union Absent
  BY <1>3, <1>4, <1>9
<1> QED
  BY <1>11, <1>12, <1>13, <1>14

(* More lost articles, more lost slices.                                    *)
LEMMA MoreIsLost ==
    ASSUME NEW L, NEW M, L \subseteq M
    PROVE  LostWith(L) \subseteq LostWith(M) /\ Absent \subseteq LostWith(L)
<1>1. \A f \in CarriedFiles :
         {n \in DOMAIN Piece[f].articles : Piece[f].articles[n].id \in L}
            \subseteq {n \in DOMAIN Piece[f].articles : Piece[f].articles[n].id \in M}
  OBVIOUS
<1>2. \A x : x \in LostWith(L) <=> x \in Absent \/ \E f \in CarriedFiles :
         \E k \in {n \in DOMAIN Piece[f].articles : Piece[f].articles[n].id \in L} : x \in SlicesUnder(f, k)
  BY DEF LostWith
<1>3. \A x : x \in LostWith(M) <=> x \in Absent \/ \E f \in CarriedFiles :
         \E k \in {n \in DOMAIN Piece[f].articles : Piece[f].articles[n].id \in M} : x \in SlicesUnder(f, k)
  BY DEF LostWith
<1>4. \A x : x \in LostWith(L) => x \in LostWith(M)
  BY <1>1, <1>2, <1>3
<1> QED
  BY <1>2, <1>4

(* What is lost is of the set.                                              *)
LEMMA LostSlices ==
    ASSUME NEW L
    PROVE  LostWith(L) \subseteq AllSlices
<1>1. \A x : x \in LostWith(L) => x \in Absent \/ \E f \in CarriedFiles :
         \E k \in DOMAIN Piece[f].articles : x \in SlicesUnder(f, k)
  BY DEF LostWith
<1>2. \A f \in CarriedFiles : \A k \in DOMAIN Piece[f].articles : \A x \in SlicesUnder(f, k) :
         \E n \in Nat : n < Count(f) /\ x = StartOf(f) + n
  BY SlicesOfOwnFile
<1>3. CarriedFiles \subseteq DOMAIN Piece
  BY DEF CarriedFiles
<1>4. \A f \in CarriedFiles : \A k \in DOMAIN Piece[f].articles : \A x \in SlicesUnder(f, k) :
         x \in SlicesOfFile(f)
  BY <1>2, <1>3, SlicesOfFiles
<1> QED
  BY <1>1, <1>3, <1>4, SlicesRead DEF AllSlices


-----------------------------------------------------------------------------
(* The steps.                                                               *)

(* What is known to be lost when an attempt begins.                         *)
LEMMA KnownIsLost == KnownMissing = LostWith(confirmed \ patched)
BY DEF KnownMissing, LostWith, SlicesUnder

(* A pass begins with no rows.                                              *)
LEMMA PassStarts ==
    ASSUME AttemptInv, NEW lost, NEW count \in Nat, StartRepairPass(lost, count),
           lost \subseteq LostWith(wasLost), UNCHANGED <<solved, confirmed, patched, wasLost>>
    PROVE  AttemptInv'
<1>1. /\ known' = lost /\ wanted' = count /\ phase' = "rows"
      /\ loaded' = [kept |-> 0, next |-> 1, whole |-> TRUE]
  BY DEF StartRepairPass
<1>2. RowsSound'
  <2>1. loaded'.kept = 0 /\ loaded'.next = 1 /\ loaded'.whole
    BY <1>1
  <2>2. 1 \in 1..(Len(VolumeRows) + 1)
    BY VolumeTypes
  <2>3. loaded' \in [kept : Nat, next : 1..(Len(VolumeRows) + 1), whole : BOOLEAN]
    BY <1>1, <2>2
  <2> QED
    BY <1>1, <2>1, <2>3, NoRowsBefore DEF RowsSound
<1>3. SolvedType'
  BY DEF AttemptInv, SolvedType
<1>4. (confirmed \ patched)' \subseteq wasLost' /\ known' \subseteq LostWith(wasLost')
  BY <1>1 DEF AttemptInv
<1>5. SolvesWholeSystem'
  BY <1>1 DEF SolvesWholeSystem
<1> QED
  BY <1>1, <1>2, <1>3, <1>4, <1>5 DEF AttemptInv

(* An attempt begins with what the ledger says is lost.                     *)
LEMMA AttemptPlan ==
    ASSUME AttemptInv, Plan
    PROVE  AttemptInv'
<1>1. /\ StartRepairPass(KnownMissing, Cardinality(KnownMissing) + ExtraRows)
      /\ UNCHANGED <<solved, confirmed, patched, wasLost>>
  BY DEF Plan, worldVars
<1>2. confirmed \ patched \subseteq wasLost
  BY DEF AttemptInv
<1>3. KnownMissing \subseteq LostWith(wasLost) /\ KnownMissing \subseteq AllSlices
  BY <1>2, KnownIsLost, MoreIsLost, LostSlices
<1>4. Cardinality(KnownMissing) + ExtraRows \in Nat
  <2>1. Cardinality(KnownMissing) \in Nat
    BY <1>3, SlicesOfFiles
  <2>2. ExtraRows \in Nat
    BY RepairAssumption
  <2> QED
    BY <2>1, <2>2
<1> QED
  BY <1>1, <1>3, <1>4, PassStarts

(* A volume cut short leaves the rows in doubt, one read to its end adds    *)
(* all.                                                                     *)
LEMMA AttemptReadVolume ==
    ASSUME AttemptInv, NEW read \in 0..RowBudget, NEW toEnd \in BOOLEAN, ReadVolume(read, toEnd)
    PROVE  AttemptInv'
<1>1. /\ phase = "rows" /\ loaded.next <= Len(VolumeRows) /\ loaded.kept < Limit
      /\ toEnd => read = VolumeRows[loaded.next]
      /\ loaded' = [kept |-> Lower(loaded.kept + read, Limit),
                    next |-> loaded.next + 1, whole |-> loaded.whole /\ toEnd]
      /\ phase' = "rows"
      /\ UNCHANGED <<known, wanted, solved, confirmed, patched, wasLost>>
  BY DEF ReadVolume, worldVars
<1>2. /\ wanted \in Nat /\ RowBudget \in Nat /\ read \in Nat
      /\ loaded.kept \in Nat /\ loaded.next \in Nat /\ loaded.next >= 1 /\ loaded.whole \in BOOLEAN
      /\ loaded.whole /\ loaded.kept < Limit => loaded.kept = RowsBefore(loaded.next)
  <2>1. RowsSound
    BY DEF AttemptInv
  <2>2. RowBudget \in Nat /\ Len(VolumeRows) \in Nat
    BY RepairAssumption, VolumeTypes
  <2> QED
    BY <2>1, <2>2 DEF RowsSound
<1>3. Limit \in Nat /\ Limit' = Limit
  BY <1>1, <1>2 DEF Limit, Lower
<1>4. /\ loaded'.kept = Lower(loaded.kept + read, Limit) /\ loaded'.next = loaded.next + 1
      /\ loaded'.whole <=> loaded.whole /\ toEnd
  BY <1>1
<1>5. loaded'.kept \in Nat /\ (loaded'.kept < Limit => loaded'.kept = loaded.kept + read)
  BY <1>2, <1>3, <1>4 DEF Lower
<1>6. loaded' \in [kept : Nat, next : 1..(Len(VolumeRows) + 1), whole : BOOLEAN]
  <2>1. loaded.next + 1 \in 1..(Len(VolumeRows) + 1)
    BY <1>1, <1>2, VolumeTypes
  <2>2. Lower(loaded.kept + read, Limit) \in Nat
    BY <1>4, <1>5
  <2>3. (loaded.whole /\ toEnd) \in BOOLEAN
    BY <1>2
  <2> QED
    BY <1>1, <2>1, <2>2, <2>3
<1>7. ASSUME loaded'.whole, loaded'.kept < Limit PROVE loaded'.kept = RowsBefore(loaded'.next)
  <2>1. loaded.kept = RowsBefore(loaded.next) /\ read = VolumeRows[loaded.next]
    BY <1>1, <1>2, <1>4, <1>7
  <2>2. RowsBefore(loaded.next + 1) = RowsBefore(loaded.next) + VolumeRows[loaded.next]
    BY <1>1, <1>2, RowsAdd
  <2> QED
    BY <1>4, <1>5, <1>7, <2>1, <2>2
<1>8. RowsSound'
  BY <1>1, <1>2, <1>3, <1>6, <1>7 DEF RowsSound
<1>9. SolvedType' /\ (confirmed \ patched)' \subseteq wasLost' /\ known' \subseteq LostWith(wasLost')
  BY <1>1 DEF AttemptInv, SolvedType
<1>10. SolvesWholeSystem'
  BY <1>1 DEF SolvesWholeSystem
<1> QED
  BY <1>1, <1>8, <1>9, <1>10 DEF AttemptInv

(* With the rows there, the release is given up, or a scan begins.          *)
LEMMA AttemptRowsLoaded ==
    ASSUME AttemptInv, RowsLoaded
    PROVE  AttemptInv'
<1>1. /\ phase' = (IF Exhausted /\ Cardinality(known) > loaded.kept THEN "unrepairable"
                   ELSE IF previous # 0 /\ loaded.kept < previous THEN "failed"
                   ELSE "scan")
      /\ scan' = [FreshScan EXCEPT !.solver = loaded.kept > 0 /\ Cardinality(Absent) <= loaded.kept]
      /\ at' = FirstFrom(1)
      /\ UNCHANGED <<known, wanted, loaded, solved, confirmed, patched, wasLost>>
  BY DEF RowsLoaded, worldVars
<1>2. /\ scan'.good = {} /\ scan'.missing = {} /\ scan'.unknown = {} /\ scan'.holes = {}
      /\ scan'.asm = FreshAssembler
  BY <1>1 DEF FreshScan
<1>3. scan' \in Scan
  <2>1. (loaded.kept > 0 /\ Cardinality(Absent) <= loaded.kept) \in BOOLEAN
    OBVIOUS
  <2>2. FreshAssembler \in Assembler
    BY DEF FreshAssembler, Assembler
  <2> QED
    BY <1>1, <2>1, <2>2 DEF FreshScan, Scan
<1> DEFINE g == FirstFrom(1)[1]
<1>4. /\ FirstFrom(1) \in Nat \X Nat /\ FirstFrom(1)[2] = 1
      /\ g \in CarriedFiles \/ g = Len(Piece) + 1
      /\ g \in Nat /\ \A h \in CarriedFiles : ~(1 <= h /\ h < g)
  <2>1. 1 \in Nat /\ 1 >= 1 /\ 1 <= Len(Piece) + 1
    BY RepairAssumption, LenProperties
  <2> QED
    BY <2>1, NextFile
<1>5. Placed(FreshAssembler, g, 1)
  BY <1>4, FreshIsPlaced DEF Placed
<1>6. SlicesBefore(g, 0) = {}
  BY <1>4, NothingBefore
<1>7. FreshAssembler.next = 0 /\ FreshAssembler.hole = FALSE
  BY DEF FreshAssembler
<1>8. ScanSound'
  <2>1. at'[1] = g /\ at'[2] = 1 /\ at' \in Nat \X Nat
    BY <1>1, <1>4
  <2> HIDE DEF g
  <2>2. Sifted(scan', g) /\ HolesKnown(scan', g) /\ HolesLost(scan', g, wasLost')
    BY <1>2, <1>6, <1>7 DEF Sifted, HolesKnown, HolesLost
  <2>3. Placed(scan'.asm, g, 1)
    BY <1>2, <1>5
  <2> QED
    BY <1>3, <2>1, <2>2, <2>3 DEF ScanSound
<1>9. RowsSound' /\ SolvedType' /\ (confirmed \ patched)' \subseteq wasLost' /\ known' \subseteq LostWith(wasLost')
  BY <1>1 DEF AttemptInv, RowsSound, SolvedType, Limit
<1>10. phase' = "unrepairable" => Exhausted' /\ Cardinality(known') > loaded'.kept
  BY <1>1 DEF Exhausted, Limit
<1>11. SolvesWholeSystem'
  BY <1>1 DEF SolvesWholeSystem
<1> QED
  BY <1>8, <1>9, <1>10, <1>11 DEF AttemptInv

(* An article reads as a hole when it is confirmed and has no patch.        *)
LEMMA ReadingHole ==
    ASSUME NEW article, NEW whole, Reading(article, whole) = "hole"
    PROVE  article.id \in confirmed \ patched
BY DEF Reading


(* What counting an article changes.                                        *)
AfterCount(s, f, done, asm, holes, unknown) ==
    Overflown(Counted([s EXCEPT !.asm = asm, !.holes = holes, !.unknown = unknown], f, done))

CountsArticle(s, f, done, asm, holes, unknown) ==
    LET c == AfterCount(s, f, done, asm, holes, unknown) IN
    /\ c \in Scan
    /\ c.asm = asm /\ c.holes = holes
    /\ c.good = s.good \union Ended(done, f, "good")
    /\ c.missing = s.missing \union Ended(done, f, "hole")
    /\ c.unknown = unknown \union Ended(done, f, "unknown")

(* The scan that counted it is a scan, with what the article ended.         *)
LEMMA CountedIs ==
    ASSUME NEW s \in Scan, NEW f \in DOMAIN Piece, NEW done \in SUBSET Assembler,
           NEW asm \in Assembler, NEW holes \in SUBSET (Nat \X Nat), NEW unknown \in SUBSET Nat
    PROVE  CountsArticle(s, f, done, asm, holes, unknown)
<1> DEFINE r == [s EXCEPT !.asm = asm, !.holes = holes, !.unknown = unknown]
           c == Counted(r, f, done)
           o == Overflown(c)
           G == Ended(done, f, "good")
           H == Ended(done, f, "hole")
           U == Ended(done, f, "unknown")
<1>1. G \in SUBSET Nat /\ H \in SUBSET Nat /\ U \in SUBSET Nat
  BY EndedIs
<1>2. /\ r \in Scan /\ r.asm = asm /\ r.holes = holes /\ r.unknown = unknown
      /\ r.good = s.good /\ r.missing = s.missing
  BY DEF Scan
<1>3. c = [r EXCEPT !.good = r.good \union G, !.missing = r.missing \union H,
                    !.unknown = r.unknown \union U]
  BY DEF Counted, Ended
<1> HIDE DEF G, H, U, r, c
<1>4. /\ c \in Scan /\ c.asm = asm /\ c.holes = holes
      /\ c.good = s.good \union G /\ c.missing = s.missing \union H /\ c.unknown = unknown \union U
  BY <1>1, <1>2, <1>3 DEF Scan
<1>5. o = c \/ o = [c EXCEPT !.solver = FALSE]
  BY DEF Overflown
<1>6. /\ o \in Scan /\ o.asm = c.asm /\ o.holes = c.holes
      /\ o.good = c.good /\ o.missing = c.missing /\ o.unknown = c.unknown
  BY <1>4, <1>5 DEF Scan
<1> HIDE DEF o
<1> QED
  BY <1>4, <1>6 DEF AfterCount, CountsArticle, G, H, U, r, c, o

(* The article after one of a file.                                         *)
LEMMA NextArticle ==
    ASSUME NEW f \in CarriedFiles, NEW k \in DOMAIN Piece[f].articles, k # Len(Piece[f].articles),
           NEW a \in Assembler, InStep(a, f),
           a.pos <= Piece[f].articles[k].offset + Piece[f].articles[k].len
    PROVE  Placed(a, f, k + 1)
<1> DEFINE spans == Piece[f].articles
<1>1. f \in DOMAIN Piece
  BY DEF CarriedFiles
<1>2. /\ spans \in Seq([id : STRING, offset : Nat, len : Nat])
      /\ \A j \in DOMAIN spans : j \in Nat /\ spans[j].offset \in Nat /\ spans[j].len \in Nat
  BY <1>1, PieceTypes
<1>3. \A j \in DOMAIN spans : k < j => spans[k].offset + spans[k].len <= spans[j].offset
  BY SpanAssumption
<1>4. a.pos \in Nat
  BY DEF Assembler
<1> HIDE DEF spans
<1>5. DOMAIN spans = 1..Len(spans) /\ Len(spans) \in Nat
  BY <1>2, LenProperties
<1>6. k \in DOMAIN spans /\ k # Len(spans)
  BY DEF spans
<1>7. k + 1 \in DOMAIN spans
  BY <1>5, <1>6
<1>8. a.pos <= spans[k].offset + spans[k].len
  BY DEF spans
<1>9. \A j \in DOMAIN spans : k + 1 <= j => a.pos <= spans[j].offset
  <2> SUFFICES ASSUME NEW j \in DOMAIN spans, k + 1 <= j PROVE a.pos <= spans[j].offset
    OBVIOUS
  <2>1. spans[k].offset + spans[k].len <= spans[j].offset
    BY <1>2, <1>3, <1>6
  <2>2. /\ spans[k].offset \in Nat /\ spans[k].len \in Nat /\ spans[j].offset \in Nat
    BY <1>2, <1>6
  <2> QED
    BY <1>4, <1>8, <2>1, <2>2
<1> QED
  BY <1>7, <1>9 DEF Placed, spans

(* An article read is told apart, up to the end of its file.                *)
LEMMA AttemptScanArticle ==
    ASSUME AttemptInv, NEW whole \in BOOLEAN, ScanArticle(whole)
    PROVE  AttemptInv'
<1> DEFINE f == at[1]
           k == at[2]
           article == Piece[f].articles[k]
           mark == Reading(article, whole)
           pushed == Push(scan.asm, f, article, mark)
           last == k = Len(Piece[f].articles)
           asm == IF last THEN FreshAssembler ELSE pushed.asm
           holes == IF mark = "hole" THEN scan.holes \union {<<f, k>>} ELSE scan.holes
           unknown == IF last THEN scan.unknown \union Unreached(f, pushed.asm) ELSE scan.unknown
<1>1. /\ phase = "scan" /\ f <= Len(Piece)
      /\ scan' = Overflown(Counted([scan EXCEPT !.asm = asm, !.holes = holes, !.unknown = unknown],
                                   f, pushed.done))
      /\ at' = (IF last THEN FirstFrom(f + 1) ELSE <<f, k + 1>>)
      /\ UNCHANGED <<phase, known, wanted, loaded, solved, confirmed, patched, wasLost>>
  BY DEF ScanArticle, worldVars
<1>2. /\ ScanSound /\ confirmed \ patched \subseteq wasLost
  BY <1>1 DEF AttemptInv
<1>3. Len(Piece) \in Nat
  BY RepairAssumption, LenProperties
<1>4. /\ f \in CarriedFiles /\ k \in DOMAIN Piece[f].articles /\ InStep(scan.asm, f)
      /\ \A j \in DOMAIN Piece[f].articles : k <= j => scan.asm.pos <= Piece[f].articles[j].offset
      /\ f \in Nat /\ k \in Nat
  <2>1. Placed(scan.asm, f, k) /\ f \in Nat /\ k \in Nat
    BY <1>2 DEF ScanSound
  <2>2. f # Len(Piece) + 1
    BY <1>1, <1>3, <2>1
  <2> QED
    BY <2>1, <2>2 DEF Placed
<1>5. /\ scan \in Scan /\ scan.asm \in Assembler /\ Sifted(scan, f) /\ HolesKnown(scan, f)
      /\ HolesLost(scan, f, wasLost)
  BY <1>2 DEF ScanSound, Scan
<1>6. scan.asm.pos <= Piece[f].articles[k].offset
  BY <1>4
<1>7. mark = "hole" => Piece[f].articles[k].id \in wasLost
  BY <1>2, ReadingHole
<1> HIDE DEF f, k
<1>8. PushSound(pushed, scan.asm, f, k, mark)
  <2> HIDE DEF mark
  <2> QED
    BY <1>4, <1>5, <1>6, PushIs
<1>9. f \in DOMAIN Piece /\ f >= 1 /\ Count(f) \in Nat /\ StartOf(f) \in Nat
  BY <1>4, PieceTypes, CountIs, StartType DEF CarriedFiles
<1> HIDE DEF mark, pushed, last
<1>10. /\ pushed.asm \in Assembler /\ \A d \in pushed.done : d \in Assembler
       /\ InStep(pushed.asm, f)
       /\ pushed.asm.pos <= Piece[f].articles[k].offset + Piece[f].articles[k].len
  BY <1>8 DEF PushSound
<1>11. pushed.asm.next \in Nat /\ pushed.asm.next <= Count(f)
  <2>1. pushed.asm.pos \in Nat /\ pushed.asm.pos <= Piece[f].size /\ pushed.asm.next = EndedBy(pushed.asm.pos, f)
    BY <1>10 DEF Assembler, InStep
  <2> QED
    BY <1>9, <2>1, EndedByIs
<1>12. /\ asm \in Assembler /\ holes \in SUBSET (Nat \X Nat) /\ unknown \in SUBSET Nat
  <2>1. FreshAssembler \in Assembler
    BY DEF FreshAssembler, Assembler
  <2>2. Unreached(f, pushed.asm) \in SUBSET Nat
    BY <1>9, <1>11 DEF Unreached
  <2>3. scan.holes \in SUBSET (Nat \X Nat) /\ scan.unknown \in SUBSET Nat
    BY <1>5 DEF Scan
  <2>4. <<f, k>> \in Nat \X Nat
    BY <1>4
  <2> QED
    BY <1>10, <2>1, <2>2, <2>3, <2>4
<1> DEFINE t == [good |-> scan.good \union Ended(pushed.done, f, "good"),
                 missing |-> scan.missing \union Ended(pushed.done, f, "hole"),
                 unknown |-> scan.unknown \union Ended(pushed.done, f, "unknown"),
                 holes |-> holes, asm |-> pushed.asm, solver |-> scan.solver]
<1>13. /\ t.good = scan.good \union Ended(pushed.done, f, "good")
       /\ t.missing = scan.missing \union Ended(pushed.done, f, "hole")
       /\ t.unknown = scan.unknown \union Ended(pushed.done, f, "unknown")
       /\ t.holes = holes /\ t.asm = pushed.asm
  OBVIOUS
<1>14. t \in Scan
  <2>1. /\ Ended(pushed.done, f, "good") \in SUBSET Nat /\ Ended(pushed.done, f, "hole") \in SUBSET Nat
        /\ Ended(pushed.done, f, "unknown") \in SUBSET Nat
    BY <1>9, <1>10, EndedIs
  <2>2. /\ scan.good \in SUBSET Nat /\ scan.missing \in SUBSET Nat /\ scan.unknown \in SUBSET Nat
        /\ scan.solver \in BOOLEAN
    BY <1>5 DEF Scan
  <2> HIDE DEF holes
  <2> QED
    BY <1>10, <1>12, <2>1, <2>2 DEF Scan
<1>15. t.holes = scan.holes \union (IF mark = "hole" THEN {<<f, k>>} ELSE {})
  BY <1>13
<1>16. /\ scan' \in Scan /\ scan'.asm = asm /\ scan'.holes = t.holes
       /\ scan'.good = t.good /\ scan'.missing = t.missing
       /\ scan'.unknown = unknown \union Ended(pushed.done, f, "unknown")
  <2> HIDE DEF asm, holes, unknown
  <2> DEFINE done == pushed.done
             c == AfterCount(scan, f, done, asm, holes, unknown)
  <2>1. \A d \in done : d \in Assembler
    BY <1>10
  <2> HIDE DEF done, t, c
  <2>2. /\ c \in Scan
        /\ c.asm = asm /\ c.holes = holes
        /\ c.good = scan.good \union Ended(done, f, "good")
        /\ c.missing = scan.missing \union Ended(done, f, "hole")
        /\ c.unknown = unknown \union Ended(done, f, "unknown")
    <3>1. scan \in Scan /\ f \in DOMAIN Piece /\ done \in SUBSET Assembler
      BY <1>5, <1>9, <2>1
    <3>2. CountsArticle(scan, f, done, asm, holes, unknown)
      BY <1>12, <3>1, CountedIs
    <3> QED
      BY <3>2 DEF CountsArticle, c
  <2>3. scan' = c
    BY <1>1 DEF done, c, AfterCount
  <2> HIDE DEF c
  <2> QED
    BY <1>13, <2>2, <2>3 DEF done
<1> HIDE DEF t, holes
<1>17. Sifted(t, f) /\ HolesKnown(t, f) /\ HolesLost(t, f, wasLost)
  BY <1>4, <1>5, <1>7, <1>8, <1>13, <1>14, <1>15, AfterArticle
<1>18. ScanSound'
  <2>1. CASE last
    <3> DEFINE g == FirstFrom(f + 1)[1]
    <3>1. f + 1 \in Nat /\ f + 1 >= 1 /\ f + 1 <= Len(Piece) + 1
      BY <1>1, <1>3, <1>4
    <3>2. /\ FirstFrom(f + 1) \in Nat \X Nat /\ FirstFrom(f + 1)[2] = 1
          /\ g \in CarriedFiles \/ g = Len(Piece) + 1
          /\ g \in Nat /\ g >= f + 1
          /\ \A h \in CarriedFiles : ~(f + 1 <= h /\ h < g)
      BY <3>1, NextFile
    <3>3. at' = FirstFrom(f + 1) /\ asm = FreshAssembler
          /\ unknown = scan.unknown \union Unreached(f, pushed.asm)
      BY <1>1, <2>1
    <3>4. at' \in Nat \X Nat /\ at'[1] = g /\ at'[2] = 1
      BY <3>2, <3>3
    <3> HIDE DEF g, asm, unknown
    <3>5. f < g
      BY <1>4, <3>2
    <3>6. scan'.unknown = t.unknown \union Unreached(f, t.asm)
      BY <1>13, <1>16, <3>3
    <3>7. Sifted(scan', g) /\ HolesKnown(scan', g) /\ HolesLost(scan', g, wasLost)
      <4>1. t.asm.next <= Count(f)
        BY <1>11, <1>13
      <4> QED
        BY <1>4, <1>14, <1>16, <1>17, <3>2, <3>3, <3>5, <3>6, <4>1, AfterFile
    <3>8. Placed(FreshAssembler, g, 1)
      BY <3>2, FreshIsPlaced DEF Placed
    <3> QED
      BY <1>1, <1>16, <3>3, <3>4, <3>7, <3>8 DEF ScanSound
  <2>2. CASE ~last
    <3>1. at' = <<f, k + 1>> /\ asm = pushed.asm /\ unknown = scan.unknown
      BY <1>1, <2>2
    <3>2. at' \in Nat \X Nat /\ at'[1] = f /\ at'[2] = k + 1
      BY <1>4, <3>1
    <3>3. k # Len(Piece[f].articles)
      BY <2>2 DEF last
    <3>4. Placed(pushed.asm, f, k + 1)
      BY <1>4, <1>10, <3>3, NextArticle
    <3> HIDE DEF asm, unknown
    <3>5. /\ scan'.asm = t.asm /\ scan'.unknown = t.unknown
      BY <1>13, <1>16, <3>1
    <3>6. Sifted(scan', f) /\ HolesKnown(scan', f) /\ HolesLost(scan', f, wasLost)
      BY <1>16, <1>17, <3>5 DEF Sifted, HolesKnown, HolesLost
    <3> QED
      BY <1>1, <1>13, <1>16, <3>2, <3>4, <3>5, <3>6 DEF ScanSound
  <2> QED
    BY <2>1, <2>2
<1>19. RowsSound' /\ SolvedType' /\ (confirmed \ patched)' \subseteq wasLost' /\ known' \subseteq LostWith(wasLost')
  BY <1>1 DEF AttemptInv, RowsSound, SolvedType, Limit
<1>20. SolvesWholeSystem'
  BY <1>1 DEF SolvesWholeSystem
<1> QED
  BY <1>1, <1>18, <1>19, <1>20 DEF AttemptInv

(* The end of a scan solves a whole system or begins a pass from what is    *)
(* lost.                                                                    *)
LEMMA AttemptScanEnds ==
    ASSUME AttemptInv, ScanEnds
    PROVE  AttemptInv'
<1> DEFINE solvable == scan.solver /\ Cardinality(Damaged) <= loaded.kept
           hopeless == Exhausted /\ Cardinality(Certain) > loaded.kept
           again == ~Exhausted /\ ~BudgetBound /\ pass < MaxPasses
           end == Len(Piece) + 1
<1>1. /\ phase = "scan" /\ at[1] > Len(Piece)
      /\ UNCHANGED <<confirmed, patched, wasLost>>
  BY DEF ScanEnds, worldVars
<1>2. ScanSound /\ RowsSound /\ SolvedType /\ confirmed \ patched \subseteq wasLost
      /\ known \subseteq LostWith(wasLost)
  BY <1>1 DEF AttemptInv
<1>3. Len(Piece) \in Nat
  BY RepairAssumption, LenProperties
<1>4. at[1] = end /\ scan.asm = FreshAssembler
  <2>1. Placed(scan.asm, at[1], at[2]) /\ at[1] \in Nat
    BY <1>2 DEF ScanSound
  <2>2. at[1] \notin CarriedFiles
    <3>1. at[1] \in DOMAIN Piece => at[1] <= Len(Piece)
      BY PieceTypes
    <3> QED
      BY <1>1, <1>3, <2>1, <3>1 DEF CarriedFiles
  <2> QED
    BY <2>1, <2>2 DEF Placed
<1>5. FreshAssembler.next = 0 /\ FreshAssembler.hole = FALSE
  BY DEF FreshAssembler
<1>6. /\ scan.good \union scan.missing \union scan.unknown = SlicesBefore(end, 0)
      /\ scan.good \intersect (scan.missing \union scan.unknown) = {}
      /\ \A h \in scan.holes : /\ h[1] \in CarriedFiles /\ h[2] \in DOMAIN Piece[h[1]].articles
                               /\ SlicesUnder(h[1], h[2]) \subseteq scan.missing \union scan.unknown
      /\ scan.missing \subseteq LostWith(wasLost)
  <2>1. Sifted(scan, end) /\ HolesKnown(scan, end) /\ HolesLost(scan, end, wasLost)
    BY <1>2, <1>4 DEF ScanSound
  <2> HIDE DEF end
  <2> QED
    BY <1>4, <1>5, <2>1 DEF Sifted, HolesKnown, HolesLost
<1>7. Certain \subseteq LostWith(wasLost)
  BY <1>6, MoreIsLost DEF Certain
<1>8. Damaged \subseteq AllSlices /\ Cardinality(Damaged) \in Nat
  <2>1. Damaged \subseteq SlicesBefore(end, 0) \union Absent
    BY <1>6 DEF Damaged, Certain
  <2>2. Damaged \in SUBSET AllSlices
    BY <2>1, SlicesRead
  <2> QED
    BY <2>2, SlicesOfFiles
<1>9. CASE Damaged = {} \/ solvable \/ ~again
  <2>1. /\ phase' = (IF Damaged = {} THEN "intact" ELSE IF solvable THEN "patch"
                     ELSE IF hopeless THEN "unrepairable" ELSE "failed")
        /\ known' = (IF hopeless THEN Certain ELSE known)
        /\ solved' = (IF solvable /\ Damaged # {}
                      THEN [damage |-> Damaged, good |-> scan.good, left |-> scan.holes]
                      ELSE solved)
        /\ UNCHANGED <<wanted, loaded>>
    BY <1>9 DEF ScanEnds
  <2>2. RowsSound' /\ (confirmed \ patched)' \subseteq wasLost' /\ Exhausted' = Exhausted
    BY <1>1, <1>2, <2>1 DEF RowsSound, Limit, Exhausted
  <2>3. known' \subseteq LostWith(wasLost')
    BY <1>1, <1>2, <1>7, <2>1
  <2>4. phase' = "unrepairable" => Exhausted' /\ Cardinality(known') > loaded'.kept
    BY <2>1, <2>2
  <2>5. SolvedType' /\ SolvesWholeSystem'
    <3>1. CASE solvable /\ Damaged # {}
      <4>1. solved' = [damage |-> Damaged, good |-> scan.good, left |-> scan.holes]
        BY <2>1, <3>1
      <4>2. Damaged \in SUBSET Nat /\ scan.good \in SUBSET Nat /\ scan.holes \in SUBSET (Nat \X Nat)
        BY <1>2, <1>8, SlicesOfFiles DEF ScanSound, Scan
      <4>3. SolvedType'
        BY <4>1, <4>2 DEF SolvedType
      <4>4. solved'.damage = Damaged /\ solved'.good = scan.good /\ solved'.left = scan.holes
        BY <4>1
      <4>5. Damaged \union scan.good = AllSlices
        BY <1>6, SlicesRead DEF Damaged, Certain
      <4>6. Damaged \intersect scan.good = {}
        <5>1. scan.good \intersect Absent = {}
          BY <1>6, SlicesRead
        <5> QED
          BY <1>6, <5>1 DEF Damaged, Certain
      <4>7. Cardinality(Damaged) <= loaded'.kept
        BY <2>1, <3>1
      <4>8. \A h \in scan.holes :
               SlicesOf(h[1], Piece[h[1]].articles[h[2]].offset, Piece[h[1]].articles[h[2]].len)
                  \subseteq Damaged
        BY <1>6 DEF SlicesUnder, Damaged, Certain
      <4> QED
        BY <4>3, <4>4, <4>5, <4>6, <4>7, <4>8 DEF SolvesWholeSystem
    <3>2. CASE ~(solvable /\ Damaged # {})
      <4>1. solved' = solved
        BY <2>1, <3>2
      <4>2. phase' # "patch" /\ phase' # "repaired"
        BY <2>1, <3>2
      <4> QED
        BY <1>2, <4>1, <4>2 DEF SolvedType, SolvesWholeSystem
    <3> QED
      BY <3>1, <3>2
  <2>6. phase' # "scan"
    BY <2>1
  <2> QED
    BY <2>2, <2>3, <2>4, <2>5, <2>6 DEF AttemptInv
<1>10. CASE ~(Damaged = {} \/ solvable \/ ~again)
  <2>1. StartRepairPass(Certain, Cardinality(Damaged) + ExtraRows) /\ solved' = solved
    BY <1>10 DEF ScanEnds
  <2>2. Cardinality(Damaged) + ExtraRows \in Nat
    BY <1>8, RepairAssumption
  <2> QED
    BY <1>1, <1>7, <2>1, <2>2, PassStarts
<1> QED
  BY <1>9, <1>10

(* A patch stored leaves fewer holes of the same system.                    *)
LEMMA AttemptStorePatch ==
    ASSUME AttemptInv, NEW stored \in BOOLEAN, StorePatch(stored)
    PROVE  AttemptInv'
<1>1. /\ phase = "patch"
      /\ \/ /\ \E id : patched' = patched \union {id}
            /\ \E one : solved' = [solved EXCEPT !.left = @ \ {one}]
            /\ phase' = phase
         \/ phase' = "failed" /\ patched' = patched /\ solved' = solved
      /\ UNCHANGED <<known, wanted, loaded, confirmed, wasLost>>
  BY DEF StorePatch
<1>2. /\ RowsSound' /\ known' \subseteq LostWith(wasLost')
  BY <1>1 DEF AttemptInv, RowsSound, Limit
<1>3. (confirmed \ patched)' \subseteq wasLost'
  BY <1>1 DEF AttemptInv
<1>4. SolvedType /\ SolvesWholeSystem
  BY DEF AttemptInv
<1>5. CASE phase' = "failed" /\ solved' = solved
  BY <1>2, <1>3, <1>4, <1>5 DEF AttemptInv, SolvedType, SolvesWholeSystem
<1>6. CASE phase' = phase /\ \E one : solved' = [solved EXCEPT !.left = @ \ {one}]
  <2>1. PICK one : solved' = [solved EXCEPT !.left = @ \ {one}]
    BY <1>6
  <2>2. /\ solved'.damage = solved.damage /\ solved'.good = solved.good
        /\ solved'.left = solved.left \ {one} /\ SolvedType'
    BY <1>4, <2>1 DEF SolvedType
  <2>3. SolvesWholeSystem'
    BY <1>1, <1>4, <2>2 DEF SolvesWholeSystem
  <2> QED
    BY <1>1, <1>2, <1>3, <1>6, <2>2, <2>3 DEF AttemptInv
<1> QED
  BY <1>1, <1>5, <1>6

(* With all patches stored the system stays the one solved.                 *)
LEMMA AttemptPatchesStored ==
    ASSUME AttemptInv, PatchesStored
    PROVE  AttemptInv'
<1>1. /\ phase = "patch" /\ phase' = "repaired"
      /\ UNCHANGED <<known, wanted, loaded, solved, confirmed, patched, wasLost>>
  BY DEF PatchesStored, worldVars
<1>2. /\ RowsSound' /\ SolvedType' /\ (confirmed \ patched)' \subseteq wasLost' /\ known' \subseteq LostWith(wasLost')
  BY <1>1 DEF AttemptInv, RowsSound, SolvedType, Limit
<1>3. SolvesWholeSystem'
  BY <1>1 DEF AttemptInv, SolvesWholeSystem
<1> QED
  BY <1>1, <1>2, <1>3 DEF AttemptInv

(* What happens meanwhile only adds to what was lost.                       *)
LEMMA AttemptChange ==
    ASSUME AttemptInv, NEW a, NEW state, NEW holes, NEW kept, Change(a, state, holes, kept)
    PROVE  AttemptInv'
<1>1. /\ UNCHANGED <<phase, known, wanted, loaded, scan, at, solved>>
      /\ confirmed' = holes /\ patched' = kept /\ wasLost' = wasLost \union (holes \ kept)
  BY DEF Change, attemptVars
<1>2. LostWith(wasLost) \subseteq LostWith(wasLost')
  BY <1>1, MoreIsLost
<1>3. /\ RowsSound' /\ SolvedType' /\ (confirmed \ patched)' \subseteq wasLost' /\ known' \subseteq LostWith(wasLost')
  BY <1>1, <1>2 DEF AttemptInv, RowsSound, SolvedType, Limit
<1>4. ScanSound => ScanSound'
  BY <1>1, <1>2 DEF ScanSound, HolesLost
<1>5. phase' = "unrepairable" => Exhausted' /\ Cardinality(known') > loaded'.kept
  BY <1>1 DEF AttemptInv, Exhausted, Limit
<1>6. SolvesWholeSystem'
  BY <1>1 DEF AttemptInv, SolvesWholeSystem
<1> QED
  BY <1>1, <1>3, <1>4, <1>5, <1>6 DEF AttemptInv

(* An attempt begins with nothing read.                                     *)
LEMMA AttemptBegins ==
    ASSUME RepairInit
    PROVE  AttemptInv
<1>1. /\ phase = "plan" /\ known = {} /\ wanted = 0
      /\ loaded = [kept |-> 0, next |-> 1, whole |-> TRUE]
      /\ solved = [damage |-> {}, good |-> {}, left |-> {}]
      /\ wasLost = confirmed \ patched
  BY DEF RepairInit
<1>2. RowsSound
  <2>1. loaded.kept = 0 /\ loaded.next = 1 /\ loaded.whole
    BY <1>1
  <2>2. 1 \in 1..(Len(VolumeRows) + 1)
    BY VolumeTypes
  <2> QED
    BY <1>1, <2>1, <2>2, NoRowsBefore DEF RowsSound
<1>3. SolvedType
  BY <1>1 DEF SolvedType
<1> QED
  BY <1>1, <1>2, <1>3 DEF AttemptInv, SolvesWholeSystem

(* The invariant of a repair attempt, of what it read so far and of the     *)
(* recovery rows it loaded (repair.rs attempt and its passes): it holds     *)
(* whatever the servers, the hole ledger and the patch store do meanwhile.  *)
THEOREM AttemptInvariant == RepairAttemptSpec => []AttemptInv
<1>1. RepairInit => AttemptInv
  BY AttemptBegins
<1>2. AttemptInv /\ [RepairNext]_repairVars => AttemptInv'
  <2> SUFFICES ASSUME AttemptInv, [RepairNext]_repairVars PROVE AttemptInv'
    OBVIOUS
  <2>1. CASE Plan
    BY <2>1, AttemptPlan
  <2>2. CASE RowsLoaded
    BY <2>2, AttemptRowsLoaded
  <2>3. CASE ScanEnds
    BY <2>3, AttemptScanEnds
  <2>4. CASE PatchesStored
    BY <2>4, AttemptPatchesStored
  <2>5. CASE \E read \in 0..RowBudget, toEnd \in BOOLEAN : ReadVolume(read, toEnd)
    BY <2>5, AttemptReadVolume
  <2>6. CASE \E whole \in BOOLEAN : ScanArticle(whole)
    BY <2>6, AttemptScanArticle
  <2>7. CASE \E stored \in BOOLEAN : StorePatch(stored)
    BY <2>7, AttemptStorePatch
  <2>8. CASE \E a \in SetArticles : Lose(a) \/ Fails(a) \/ Return(a) \/ Confirm(a) \/ Evict(a)
    <3>1. \E a, state, holes, kept : Change(a, state, holes, kept)
      BY <2>8 DEF Lose, Fails, Return, Confirm, Evict
    <3> QED
      BY <3>1, AttemptChange
  <2>9. CASE UNCHANGED repairVars
    BY <2>9 DEF repairVars, attemptVars, worldVars, AttemptInv, RowsSound, SolvedType, ScanSound,
                HolesLost, Exhausted, Limit, SolvesWholeSystem
  <2> QED
    BY <2>1, <2>2, <2>3, <2>4, <2>5, <2>6, <2>7, <2>8, <2>9 DEF RepairNext
<1> QED
  BY <1>1, <1>2, PTL DEF RepairAttemptSpec

(* A release that an attempt gives up is hopeless: its lost slices are more *)
(* than all the good rows of its volumes, and each is of a file it does not *)
(* carry or of an article seen confirmed and without a patch.               *)
THEOREM GiveUpsAreHopeless == RepairAttemptSpec => []GivenUpIsHopeless
<1>1. AttemptInv => GivenUpIsHopeless
  <2> SUFFICES ASSUME AttemptInv, phase = "unrepairable" PROVE GivenUpIsHopeless
    BY DEF GivenUpIsHopeless
  <2>1. /\ RowsSound /\ known \subseteq LostWith(wasLost)
        /\ Exhausted /\ Cardinality(known) > loaded.kept
    BY DEF AttemptInv
  <2>2. /\ loaded.whole /\ loaded.next > Len(VolumeRows) /\ loaded.kept < Limit
    BY <2>1 DEF Exhausted
  <2>3. loaded.next \in 1..(Len(VolumeRows) + 1) /\ loaded.kept = RowsBefore(loaded.next)
    BY <2>1, <2>2 DEF RowsSound
  <2>4. loaded.next = Len(VolumeRows) + 1
    BY <2>2, <2>3, VolumeTypes
  <2>5. loaded.kept = AllRows
    BY <2>3, <2>4, AllRowsIs
  <2> QED
    BY <2>1, <2>5 DEF GivenUpIsHopeless, LostWith, SlicesUnder
<1> QED
  BY <1>1, AttemptInvariant, PTL

(* What is solved is a whole system: each slice of the set is damaged and   *)
(* has a row, or was verified, and patched holes lie in solved slices.      *)
THEOREM SolvedIsWhole == RepairAttemptSpec => []SolvesWholeSystem
<1>1. AttemptInv => SolvesWholeSystem
  BY DEF AttemptInv
<1> QED
  BY <1>1, AttemptInvariant, PTL
=============================================================================
