---------------------------- MODULE PagesProofs ----------------------------
(***************************************************************************)
(* Proofs about Pages, for any opportunities, rows, calls under way and    *)
(* versions.                                                               *)
(*                                                                         *)
(* PagesInv is inductive.  It has the types (Typed), what the query cache  *)
(* knows of the versions (Kept, for SeesOwn) and which calls may be under  *)
(* way together (Apart, for OneCallPerRow).                                *)
(***************************************************************************)
EXTENDS Pages, SequenceTheorems, TLAPS

Cell == [at : Nat, fresh : BOOLEAN, err : BOOLEAN, fetch : Nat]
Stages == {"none", "sent", "ok", "refused"}
CallRow == [op : Ops \cup {"none"}, o : Opps \cup {Null}, stage : Stages,
            here : BOOLEAN, loose : BOOLEAN, at : Nat]

\* A key is at a version that there is, fetches one that is no older, and has
\* been refetched for one that there is.
Versioned(c) == c.at <= now /\ c.fetch <= now /\ (c.fetch # Idle => c.at <= c.fetch)

VersionsTyped == past \in Seq([Opps -> Row]) /\ now >= 1
CacheTyped ==
  /\ cache \in [Keys -> Cell] /\ \A k \in Keys : Versioned(cache[k])
  /\ need \in [Keys -> Nat] /\ \A k \in Keys : need[k] <= now
WellFormed(c) == c.at <= now /\ (c.stage # "none" => c.op \in Ops /\ c.o \in Opps)
CallsTyped ==
  /\ Slots \subseteq Nat /\ call \in [Slots -> CallRow]
  /\ \A s \in Slots : WellFormed(call[s])
PageTyped ==
  /\ tour \subseteq PageNames /\ page \in PageNames
  /\ selected \in Opps \cup {Null} /\ uploading \in Opps \cup {Null}
  /\ chooser \in {"shut", "open", "rejected"} /\ losses \in Nat
Typed == VersionsTyped /\ CacheTyped /\ CallsTyped /\ PageTyped

\* A key that is behind what a call has done is being fetched again, from a
\* version that has it, or shows its error, or will fetch when it is mounted.
CatchesUp(k, c, n, mounted) ==
  c.at < n => IF c.fetch # Idle THEN c.fetch >= n
              ELSE c.err \/ (k \notin mounted /\ (~c.fresh \/ c.at = 0))
Kept == \A k \in Keys : CatchesUp(k, cache[k], need[k], Mounted)

\* A call of the page that is open.
Own(s) == Active(s) /\ call[s].here

\* An upload that no click may repeat has the mark.
Marked ==
  \A s \in Slots : Own(s) /\ call[s].op = "upload" /\ ~call[s].loose => uploading = call[s].o
\* The chooser was not opened by the card with the mark.
OpenedUnmarked == chooser = "open" /\ selected # Null => uploading # selected
\* What waits for the mutation of the page has one call under way, for whatever
\* row.
OneMutation ==
  \A s, t \in Slots :
    s # t /\ Own(s) /\ Own(t) /\ call[s].op = call[t].op
    => call[s].op \in {"register", "begin", "upload"}
Apart == Marked /\ OpenedUnmarked /\ OneMutation /\ OneCallPerRow

PagesInv == Typed /\ Kept /\ Apart

-----------------------------------------------------------------------------
(* The operators of the model.                                             *)

LEMMA KeysOfPages == \A p \in PageNames : KeysOf(p) \subseteq Keys
  BY DEF PageNames, KeysOf, Keys, CertificationsKeys, PlacementsKeys, TeamLeaderKeys

LEMMA CurrentRows ==
  ASSUME VersionsTyped
  PROVE  now \in Nat \ {0} /\ rows \in [Opps -> Row] /\ \A i \in 1 .. now : past[i] \in [Opps -> Row]
<1>1. now \in Nat /\ \A i \in 1 .. now : past[i] \in [Opps -> Row]
  BY ElementOfSeq, LenProperties DEF VersionsTyped, now
<1> QED
  BY <1>1 DEF VersionsTyped, rows

LEMMA DoneTyped ==
  ASSUME NEW op \in Ops, NEW row \in Row
  PROVE  Done(op, row) \in Row
<1>1. CASE op \in StudentOps \cup ReviewOps
  <2>1. StatusAfter(op) \in Statuses
    BY <1>1 DEF StatusAfter, Statuses, StudentOps, ReviewOps
  <2>2. Done(op, row) = [row EXCEPT !.status = StatusAfter(op), !.decided = @ \/ op \in ReviewOps]
    BY <1>1 DEF Done, StudentOps, ReviewOps, OfficerOps
  <2> QED
    BY <2>1, <2>2 DEF Row
<1>2. CASE op \in OfficerOps \cup {"create"}
  <2>1. StateAfter(op) \in States /\ op \notin StudentOps \cup ReviewOps
    BY <1>2 DEF StateAfter, States, OfficerOps, StudentOps, ReviewOps
  <2>2. Done(op, row) = [row EXCEPT !.state = StateAfter(op)]
    BY <1>2, <2>1 DEF Done, StudentOps, ReviewOps, OfficerOps
  <2> QED
    BY <2>1, <2>2 DEF Row
<1>3. CASE op = "edit"
  BY <1>3 DEF Done, StudentOps, ReviewOps, OfficerOps
<1> QED
  BY <1>1, <1>2, <1>3 DEF Ops, FormOps

\* What becomes of an enrollment or a group leaves rows.
LEMMA ChangedTyped ==
  ASSUME rows \in [Opps -> Row], NEW P
  PROVE  Reenrolled(P) \in [Opps -> Row] /\ Reassigned(P) \in [Opps -> Row]
<1>1. ASSUME NEW o \in Opps, NEW v \in BOOLEAN
      PROVE  [rows[o] EXCEPT !.enrolled = v] \in Row /\ [rows[o] EXCEPT !.leads = v] \in Row
  BY <1>1 DEF Row
<1>2. ASSUME NEW o \in Opps PROVE rows[o].enrolled \in BOOLEAN /\ rows[o].leads \in BOOLEAN
  BY <1>2 DEF Row
<1>3. ASSUME NEW o \in Opps
      PROVE  /\ (IF o \in P THEN ~rows[o].enrolled ELSE rows[o].enrolled) \in BOOLEAN
             /\ (IF o \in P /\ rows[o].status = "none" THEN ~rows[o].leads ELSE rows[o].leads) \in BOOLEAN
  BY <1>2, Zenon
<1> QED
  BY <1>1, <1>3 DEF Reenrolled, Reassigned

LEMMA Appended ==
  ASSUME VersionsTyped, NEW new \in [Opps -> Row], past' = Append(past, new)
  PROVE  VersionsTyped' /\ now' = now + 1 /\ \A i \in 1 .. now : past'[i] = past[i]
<1>1. past \in Seq([Opps -> Row]) /\ Len(past) \in Nat
  BY CurrentRows DEF VersionsTyped, now
<1>2. /\ Append(past, new) \in Seq([Opps -> Row]) /\ Len(Append(past, new)) = Len(past) + 1
      /\ \A i \in 1 .. Len(past) : Append(past, new)[i] = past[i]
  BY <1>1, AppendProperties
<1>3. past' \in Seq([Opps -> Row]) /\ Len(past') = Len(past) + 1
  BY <1>2
<1>4. VersionsTyped' /\ now' = now + 1
  BY <1>1, <1>3 DEF VersionsTyped, now
<1>5. \A i \in 1 .. now : past'[i] = past[i]
  BY <1>2 DEF now
<1> QED
  BY <1>4, <1>5

\* A call that is handled.
LEMMA DoneAppended ==
  ASSUME VersionsTyped, NEW op \in Ops, NEW o \in Opps,
         past' = Append(past, [rows EXCEPT ![o] = Done(op, @)])
  PROVE  VersionsTyped' /\ now' = now + 1 /\ \A i \in 1 .. now : past'[i] = past[i]
<1> DEFINE new == [rows EXCEPT ![o] = Done(op, @)]
<1>1. new \in [Opps -> Row]
  BY CurrentRows, DoneTyped
<1>2. past' = Append(past, new)
  OBVIOUS
<1> HIDE DEF new
<1> QED
  BY <1>1, <1>2, Appended

\* Only a step of the server adds a version; none is lost.
LEMMA VersionsStep ==
  ASSUME VersionsTyped, CallsTyped, [Next]_vars
  PROVE  VersionsTyped' /\ now \in Nat \ {0} /\ now' \in Nat /\ now' >= now
<1>1. now \in Nat \ {0}
  BY CurrentRows
<1>2. CASE past' = past
  BY <1>1, <1>2 DEF VersionsTyped, now
<1>3. CASE \E op \in Ops, o \in Opps : past' = Append(past, [rows EXCEPT ![o] = Done(op, @)])
  <2>1. PICK op \in Ops, o \in Opps : past' = Append(past, [rows EXCEPT ![o] = Done(op, @)])
    BY <1>3
  <2>2. VersionsTyped' /\ now' = now + 1
    BY <2>1, DoneAppended
  <2> QED
    BY <1>1, <2>2
<1>4. CASE Elsewhere
  <2>1. CASE \E P \in Periods : past' = Append(past, Reenrolled(P)) \/ past' = Append(past, Reassigned(P))
    <3>1. PICK new \in [Opps -> Row] : past' = Append(past, new)
      BY <2>1, CurrentRows, ChangedTyped
    <3> QED
      BY <1>1, <3>1, Appended
  <2> QED
    BY <1>4, <1>3, <2>1 DEF Elsewhere
<1>5. ASSUME NEW s \in Slots, Handle(s) PROVE past' = past \/ \E op \in Ops, o \in Opps : past' = Append(past, [rows EXCEPT ![o] = Done(op, @)])
  <2>1. call[s].op \in Ops /\ call[s].o \in Opps
    BY <1>5 DEF Handle, CallsTyped, WellFormed
  <2> QED
    BY <1>5, <2>1 DEF Handle
<1>6. ASSUME NEW k \in Keys, Deliver(k) \/ LoseFetch(k) \/ Expire(k) \/ Collect(k) \/ Retry(k) PROVE past' = past
  BY <1>6 DEF Deliver, LoseFetch, Expire, Collect, Retry
<1>7. ASSUME NEW p \in PageNames, Visit(p) PROVE past' = past
  BY <1>7 DEF Visit
<1>8. ASSUME OpenChooser \/ CancelChooser \/ OpenDialog \/ CloseDialog PROVE past' = past
  BY <1>8 DEF OpenChooser, CancelChooser, OpenDialog, CloseDialog
<1>9. ASSUME NEW s \in Slots, Click(s) \/ ChooseFile(s) \/ Confirm(s) \/ Succeed(s) \/ FailCall(s) PROVE past' = past
  BY <1>9 DEF Click, ChooseFile, Confirm, Succeed, FailCall
<1>10. CASE UNCHANGED vars
  BY <1>2, <1>10 DEF vars
<1> QED
  BY <1>2, <1>3, <1>4, <1>5, <1>6, <1>7, <1>8, <1>9, <1>10 DEF Next

-----------------------------------------------------------------------------
(* The query cache.                                                        *)

\* A fetch that begins has the current version at least.
LEMMA StartedKept ==
  ASSUME now \in Nat \ {0}, NEW c \in Cell, Versioned(c), NEW n \in Nat, n <= now, NEW k, NEW mounted
  PROVE  Started(c) \in Cell /\ Versioned(Started(c)) /\ CatchesUp(k, Started(c), n, mounted)
<1> DEFINE d == Started(c)
<1>1. d \in Cell /\ d.at = c.at /\ d.fetch = now
  BY DEF Started, Cell
<1>2. c.at \in Nat
  BY DEF Cell
<1> HIDE DEF d
<1>3. Versioned(d) /\ CatchesUp(k, d, n, mounted)
  BY <1>1, <1>2 DEF Versioned, CatchesUp, Idle
<1> QED
  BY <1>1, <1>3 DEF d

LEMMA RefetchedKept ==
  ASSUME now \in Nat \ {0}, NEW c \in Cell, Versioned(c),
         NEW n \in Nat, NEW m \in Nat, m <= now, NEW k, NEW old, NEW mounted,
         CatchesUp(k, c, n, old), m # n => c.fetch = Idle \/ c.at # 0
  PROVE  Refetched(c) \in Cell /\ Versioned(Refetched(c)) /\ CatchesUp(k, Refetched(c), m, mounted)
<1>1. CASE c.fetch # Idle /\ c.at = 0
  <2>1. Refetched(c) = c /\ m = n
    BY <1>1 DEF Refetched
  <2> QED
    BY <1>1, <2>1 DEF CatchesUp
<1>2. CASE ~(c.fetch # Idle /\ c.at = 0)
  <2>1. Refetched(c) = Started(c)
    BY <1>2 DEF Refetched
  <2> QED
    BY <2>1, StartedKept
<1> QED
  BY <1>1, <1>2

LEMMA StaleKept ==
  ASSUME NEW c \in Cell, Versioned(c), NEW n \in Nat, NEW k, NEW mounted, CatchesUp(k, c, n, mounted)
  PROVE  LET d == [c EXCEPT !.fresh = FALSE] IN
         /\ d \in Cell /\ d.at = c.at /\ d.fetch = c.fetch /\ d.err = c.err /\ ~d.fresh
         /\ Versioned(d) /\ CatchesUp(k, d, n, mounted)
<1> DEFINE d == [c EXCEPT !.fresh = FALSE]
<1>1. d \in Cell /\ d.at = c.at /\ d.fetch = c.fetch /\ d.err = c.err /\ ~d.fresh
  BY DEF Cell
<1> HIDE DEF d
<1>2. Versioned(d) /\ CatchesUp(k, d, n, mounted)
  BY <1>1 DEF Versioned, CatchesUp
<1> QED
  BY <1>1, <1>2 DEF d

\* A step that leaves the cache and the page alone may add versions.
LEMMA CacheStays ==
  ASSUME CacheTyped, Kept, UNCHANGED <<cache, need, page>>,
         now \in Nat, now' \in Nat, now' >= now
  PROVE  CacheTyped' /\ Kept'
<1>1. Kept'
  BY DEF Kept, Mounted
<1>2. ASSUME NEW k \in Keys PROVE cache[k].at \in Nat /\ cache[k].fetch \in Nat /\ need[k] \in Nat
  BY DEF CacheTyped, Cell
<1>3. \A k \in Keys : Versioned(cache[k])' /\ need'[k] <= now'
  BY <1>2 DEF CacheTyped, Versioned
<1> QED
  BY <1>1, <1>3 DEF CacheTyped

\* A step of the cache, key by key.
LEMMA CacheSteps ==
  ASSUME CacheTyped, now' = now,
         cache' \in [Keys -> Cell], need' \in [Keys -> Nat],
         \A k \in Keys : /\ Versioned(cache'[k]) /\ need'[k] <= now
                         /\ CatchesUp(k, cache'[k], need'[k], KeysOf(page'))
  PROVE  CacheTyped' /\ Kept'
<1>1. \A k \in Keys : Versioned(cache[k])' /\ need'[k] <= now'
  BY DEF Versioned
<1>2. CacheTyped'
  BY <1>1 DEF CacheTyped
<1> QED
  BY <1>2 DEF Kept, Mounted

LEMMA CacheStepsOne ==
  ASSUME CacheTyped, Kept, now' = now, page' = page,
         NEW key \in Keys, NEW c \in Cell, NEW n \in Nat,
         cache' = [cache EXCEPT ![key] = c], need' = [need EXCEPT ![key] = n],
         Versioned(c), n <= now, CatchesUp(key, c, n, Mounted)
  PROVE  CacheTyped' /\ Kept'
<1>1. cache' \in [Keys -> Cell] /\ need' \in [Keys -> Nat]
  BY DEF CacheTyped
<1>2. ASSUME NEW k \in Keys
      PROVE  /\ Versioned(cache'[k]) /\ need'[k] <= now
             /\ CatchesUp(k, cache'[k], need'[k], KeysOf(page'))
  <2>1. CASE k = key
    <3>1. cache'[k] = c /\ need'[k] = n
      BY <2>1 DEF CacheTyped
    <3> QED
      BY <2>1, <3>1 DEF Mounted
  <2>2. CASE k # key
    <3>1. cache'[k] = cache[k] /\ need'[k] = need[k]
      BY <2>2 DEF CacheTyped
    <3> QED
      BY <3>1 DEF CacheTyped, Kept, Mounted
  <2> QED
    BY <2>1, <2>2
<1> QED
  BY <1>1, <1>2, CacheSteps

\* What is known of a key.
LEMMA OfKey ==
  ASSUME CacheTyped, Kept, NEW k \in Keys
  PROVE  /\ cache[k] \in Cell /\ Versioned(cache[k])
         /\ cache[k].at \in Nat /\ cache[k].fetch \in Nat /\ cache[k].err \in BOOLEAN /\ cache[k].fresh \in BOOLEAN
         /\ need[k] \in Nat /\ need[k] <= now /\ need = [need EXCEPT ![k] = need[k]]
         /\ CatchesUp(k, cache[k], need[k], Mounted)
<1>1. cache[k] \in Cell /\ need[k] \in Nat /\ need = [need EXCEPT ![k] = need[k]]
  BY DEF CacheTyped
<1> QED
  BY <1>1 DEF CacheTyped, Kept, Cell

LEMMA DeliverStep ==
  ASSUME VersionsTyped, CacheTyped, Kept, NEW key \in Keys, Deliver(key)
  PROVE  CacheTyped' /\ Kept'
<1>1. now \in Nat \ {0} /\ now' = now /\ page' = page
  BY CurrentRows DEF Deliver, now
<1>2. PICK v \in cache[key].fetch .. now :
        /\ cache' = [cache EXCEPT ![key] = [at |-> v, fresh |-> TRUE, err |-> FALSE, fetch |-> Idle]]
        /\ need' = [need EXCEPT ![key] = IF v >= @ THEN 0 ELSE @]
  BY DEF Deliver
<1> DEFINE c == [at |-> v, fresh |-> TRUE, err |-> FALSE, fetch |-> Idle]
           n == IF v >= need[key] THEN 0 ELSE need[key]
<1>3. v \in Nat /\ v <= now /\ c \in Cell
  BY <1>1, <1>2, OfKey DEF Cell, Idle
<1>4. need' = [need EXCEPT ![key] = n] /\ n \in Nat /\ n <= now
  BY <1>1, <1>2, OfKey DEF CacheTyped
<1>5. Versioned(c)
  BY <1>1, <1>3 DEF Versioned, Idle
<1>6. v >= n
  BY <1>2, <1>1, OfKey DEF Deliver, CatchesUp, Versioned, Idle
<1>7. CatchesUp(key, c, n, Mounted)
  BY <1>3, <1>4, <1>6 DEF CatchesUp
<1> HIDE DEF n
<1>8. cache' = [cache EXCEPT ![key] = c]
  BY <1>2
<1> HIDE DEF c
<1> QED
  BY <1>1, <1>3, <1>4, <1>5, <1>7, <1>8, CacheStepsOne

LEMMA LoseFetchStep ==
  ASSUME VersionsTyped, CacheTyped, Kept, NEW key \in Keys, LoseFetch(key)
  PROVE  CacheTyped' /\ Kept'
<1> DEFINE c == [cache[key] EXCEPT !.fetch = Idle, !.err = TRUE]
<1>1. now \in Nat \ {0} /\ now' = now /\ page' = page
  BY CurrentRows DEF LoseFetch, now
<1>2. cache' = [cache EXCEPT ![key] = c] /\ need' = [need EXCEPT ![key] = need[key]]
  BY OfKey DEF LoseFetch, CacheTyped
<1>3. c \in Cell /\ c.at = cache[key].at /\ c.fetch = Idle /\ c.err
  BY OfKey DEF Cell, Idle
<1> HIDE DEF c
<1>4. Versioned(c) /\ CatchesUp(key, c, need[key], Mounted)
  BY <1>1, <1>3, OfKey DEF Versioned, CatchesUp, Idle
<1> QED
  BY <1>1, <1>2, <1>3, <1>4, OfKey, CacheStepsOne

LEMMA ExpireStep ==
  ASSUME VersionsTyped, CacheTyped, Kept, NEW key \in Keys, Expire(key)
  PROVE  CacheTyped' /\ Kept'
<1> DEFINE c == [cache[key] EXCEPT !.fresh = FALSE]
<1>1. now \in Nat \ {0} /\ now' = now /\ page' = page
  BY CurrentRows DEF Expire, now
<1>2. cache' = [cache EXCEPT ![key] = c] /\ need' = [need EXCEPT ![key] = need[key]]
  BY OfKey DEF Expire, CacheTyped
<1>3. c \in Cell /\ Versioned(c) /\ CatchesUp(key, c, need[key], Mounted)
  <2>1. cache[key] \in Cell /\ Versioned(cache[key]) /\ need[key] \in Nat /\ CatchesUp(key, cache[key], need[key], Mounted)
    BY OfKey
  <2> QED
    BY <2>1, StaleKept
<1> HIDE DEF c
<1> QED
  BY <1>1, <1>2, <1>3, OfKey, CacheStepsOne

LEMMA CollectStep ==
  ASSUME VersionsTyped, CacheTyped, Kept, NEW key \in Keys, Collect(key)
  PROVE  CacheTyped' /\ Kept'
<1>1. now \in Nat \ {0} /\ now' = now /\ page' = page
  BY CurrentRows DEF Collect, now
<1>2. cache' = [cache EXCEPT ![key] = Empty] /\ need' = [need EXCEPT ![key] = need[key]]
  BY OfKey DEF Collect
<1>3. Empty \in Cell /\ Versioned(Empty) /\ CatchesUp(key, Empty, need[key], Mounted)
  BY <1>1 DEF Empty, Cell, Versioned, CatchesUp, Idle, Collect
<1> QED
  BY <1>1, <1>2, <1>3, OfKey, CacheStepsOne

LEMMA RetryStep ==
  ASSUME VersionsTyped, CacheTyped, Kept, NEW key \in Keys, Retry(key)
  PROVE  CacheTyped' /\ Kept'
<1>1. now \in Nat \ {0} /\ now' = now /\ page' = page
  BY CurrentRows DEF Retry, now
<1>2. cache' = [cache EXCEPT ![key] = Refetched(cache[key])] /\ need' = [need EXCEPT ![key] = need[key]]
  BY OfKey DEF Retry
<1>3. /\ Refetched(cache[key]) \in Cell /\ Versioned(Refetched(cache[key]))
      /\ CatchesUp(key, Refetched(cache[key]), need[key], Mounted)
  <2>1. /\ cache[key] \in Cell /\ Versioned(cache[key]) /\ need[key] \in Nat /\ need[key] <= now
        /\ CatchesUp(key, cache[key], need[key], Mounted)
    BY OfKey
  <2> QED
    BY <1>1, <2>1, RefetchedKept
<1> QED
  BY <1>1, <1>2, <1>3, OfKey, CacheStepsOne

\* A page that is opened fetches what is stale; one that is left does not mind.
LEMMA VisitStep ==
  ASSUME VersionsTyped, CacheTyped, Kept, NEW p \in PageNames, Visit(p)
  PROVE  CacheTyped' /\ Kept'
<1>1. now \in Nat \ {0} /\ now' = now /\ page' = p /\ need' = need
  BY CurrentRows DEF Visit, now
<1>2. cache' = [k \in Keys |-> IF k \in KeysOf(p) THEN Mount(cache[k]) ELSE cache[k]]
  BY DEF Visit
<1>3. ASSUME NEW k \in Keys
      PROVE  /\ cache'[k] \in Cell /\ Versioned(cache'[k])
             /\ CatchesUp(k, cache'[k], need[k], KeysOf(p))
  <2>1. CASE k \in KeysOf(p) /\ cache[k].fetch = Idle /\ (cache[k].at = 0 \/ ~cache[k].fresh)
    <3>1. cache'[k] = Started(cache[k])
      BY <1>2, <2>1 DEF Mount
    <3> QED
      <4>1. cache[k] \in Cell /\ Versioned(cache[k]) /\ need[k] \in Nat /\ need[k] <= now
        BY OfKey
      <4> QED
        BY <3>1, <1>1, <4>1, StartedKept
  <2>2. CASE ~(k \in KeysOf(p) /\ cache[k].fetch = Idle /\ (cache[k].at = 0 \/ ~cache[k].fresh))
    <3>1. cache'[k] = cache[k]
      BY <1>2, <2>2 DEF Mount
    <3>2. CatchesUp(k, cache[k], need[k], KeysOf(p))
      BY <2>2, OfKey DEF CatchesUp
    <3> QED
      BY <3>1, <3>2, OfKey
  <2> QED
    BY <2>1, <2>2
<1>4. cache' \in [Keys -> Cell]
  BY <1>2, <1>3
<1>5. need' \in [Keys -> Nat] /\ \A k \in Keys : need'[k] <= now
  BY <1>1 DEF CacheTyped
<1> QED
  BY <1>1, <1>3, <1>4, <1>5, CacheSteps

LEMMA OfCall ==
  ASSUME CallsTyped, NEW s \in Slots
  PROVE  /\ s \in Nat /\ call[s] \in CallRow /\ WellFormed(call[s])
         /\ call[s].at \in Nat /\ call[s].here \in BOOLEAN /\ call[s].loose \in BOOLEAN
         /\ call[s].op \in Ops \cup {"none"} /\ call[s].o \in Opps \cup {Null} /\ call[s].stage \in Stages
<1>1. s \in Nat /\ call[s] \in CallRow /\ WellFormed(call[s])
  BY DEF CallsTyped
<1> QED
  BY <1>1 DEF CallRow

LEMMA FetchedApart == \A op \in Ops : RefetchedFor(op) \cap InvalidatedFor(op) = {}
  BY DEF RefetchedFor, InvalidatedFor, Ops, StudentOps, ReviewOps, OfficerOps, FormOps

\* The refetch after a call begins after the call, unless a first fetch or that
\* of a page that was left is under way: then nothing is needed.
LEMMA SucceedCache ==
  ASSUME VersionsTyped, CacheTyped, Kept, CallsTyped, NEW s \in Slots, Succeed(s)
  PROVE  CacheTyped' /\ Kept'
<1> DEFINE op == call[s].op
           at == call[s].at
<1>1. now \in Nat \ {0} /\ now' = now /\ page' = page
  BY CurrentRows DEF Succeed, now
<1>2. at \in Nat /\ at <= now /\ op \in Ops
  BY OfCall DEF Succeed, WellFormed
<1>3. cache' = [k \in Keys |-> IF k \in RefetchedFor(op) THEN Refetched(cache[k])
                               ELSE IF k \in InvalidatedFor(op) THEN Invalidated(k, cache[k])
                               ELSE cache[k]]
  BY DEF Succeed
<1>4. need' = [k \in Keys |-> IF k \in Superseded(op) /\ at > need[k] THEN at ELSE need[k]]
  BY DEF Succeed
<1> HIDE DEF op, at
<1>5. ASSUME NEW k \in Keys
      PROVE  need'[k] \in Nat /\ need'[k] <= now /\ (need'[k] # need[k] => k \in Superseded(op))
  BY <1>2, <1>4, OfKey
<1>6. ASSUME NEW k \in Keys
      PROVE  /\ cache'[k] \in Cell /\ Versioned(cache'[k])
             /\ CatchesUp(k, cache'[k], need'[k], KeysOf(page'))
  <2> DEFINE c == cache[k]
             d == [c EXCEPT !.fresh = FALSE]
             n == need[k]
             m == need'[k]
  <2>1. c \in Cell /\ Versioned(c) /\ n \in Nat /\ n <= now /\ CatchesUp(k, c, n, Mounted)
    BY OfKey
  <2>2. m \in Nat /\ m <= now /\ (m # n => k \in Superseded(op)) /\ KeysOf(page') = Mounted
    BY <1>1, <1>5 DEF Mounted
  <2>3. /\ d \in Cell /\ d.at = c.at /\ d.fetch = c.fetch /\ d.err = c.err /\ ~d.fresh
        /\ Versioned(d) /\ CatchesUp(k, d, n, Mounted)
    BY <2>1, StaleKept
  <2>4. k \in Superseded(op) <=>
          \/ k \in RefetchedFor(op) /\ (c.fetch = Idle \/ c.at # 0)
          \/ k \in InvalidatedFor(op) /\ (c.fetch = Idle \/ (c.at # 0 /\ k \in Mounted))
    BY DEF Superseded, Has
  <2> HIDE DEF m, n, d
  <2>5. CASE k \in RefetchedFor(op)
    <3>1. cache'[k] = Refetched(c) /\ k \notin InvalidatedFor(op)
      BY <1>2, <1>3, <2>5, FetchedApart
    <3>2. m # n => c.fetch = Idle \/ c.at # 0
      BY <2>2, <2>4, <3>1
    <3> QED
      BY <1>1, <2>1, <2>2, <3>1, <3>2, RefetchedKept DEF m
  <2>6. CASE k \notin RefetchedFor(op) /\ k \in InvalidatedFor(op) /\ k \in Mounted
    <3>1. cache'[k] = Refetched(d)
      BY <1>3, <2>6 DEF Invalidated, d
    <3>2. m # n => d.fetch = Idle \/ d.at # 0
      BY <2>2, <2>3, <2>4, <2>6
    <3> QED
      BY <1>1, <2>1, <2>2, <2>3, <3>1, <3>2, RefetchedKept DEF m
  <2>7. CASE k \notin RefetchedFor(op) /\ k \in InvalidatedFor(op) /\ k \notin Mounted
    <3>1. cache'[k] = d
      BY <1>3, <2>7 DEF Invalidated, d
    <3>2. m # n => d.fetch = Idle
      BY <2>2, <2>3, <2>4, <2>7
    <3>3. CatchesUp(k, d, m, Mounted)
      BY <2>3, <2>7, <3>2 DEF CatchesUp
    <3> QED
      BY <2>2, <2>3, <3>1, <3>3 DEF m
  <2>8. CASE k \notin RefetchedFor(op) /\ k \notin InvalidatedFor(op)
    <3>1. cache'[k] = c /\ m = n
      BY <1>3, <2>2, <2>4, <2>8
    <3> QED
      BY <2>1, <2>2, <3>1 DEF m
  <2> QED
    BY <2>5, <2>6, <2>7, <2>8
<1>7. cache' \in [Keys -> Cell] /\ need' \in [Keys -> Nat]
  BY <1>3, <1>4, <1>5, <1>6
<1> QED
  BY <1>1, <1>5, <1>6, <1>7, CacheSteps

LEMMA CacheStep ==
  ASSUME VersionsTyped, CacheTyped, Kept, CallsTyped, [Next]_vars
  PROVE  CacheTyped' /\ Kept'
<1>1. now \in Nat /\ now' \in Nat /\ now' >= now
  BY VersionsStep
<1>2. CASE UNCHANGED <<cache, need, page>>
  BY <1>1, <1>2, CacheStays
<1>3. ASSUME NEW k \in Keys, Deliver(k) \/ LoseFetch(k) \/ Expire(k) \/ Collect(k) \/ Retry(k)
      PROVE  CacheTyped' /\ Kept'
  BY <1>3, DeliverStep, LoseFetchStep, ExpireStep, CollectStep, RetryStep
<1>4. ASSUME NEW p \in PageNames, Visit(p) PROVE CacheTyped' /\ Kept'
  BY <1>4, VisitStep
<1>5. ASSUME NEW s \in Slots, Succeed(s) PROVE CacheTyped' /\ Kept'
  BY <1>5, SucceedCache
<1>6. ASSUME NEW s \in Slots, Click(s) \/ ChooseFile(s) \/ Confirm(s) \/ Handle(s) \/ FailCall(s)
      PROVE  UNCHANGED <<cache, need, page>>
  BY <1>6 DEF Click, ChooseFile, Confirm, Handle, FailCall
<1>7. ASSUME Elsewhere \/ OpenChooser \/ CancelChooser \/ OpenDialog \/ CloseDialog \/ UNCHANGED vars
      PROVE  UNCHANGED <<cache, need, page>>
  BY <1>7 DEF Elsewhere, OpenChooser, CancelChooser, OpenDialog, CloseDialog, vars
<1> QED
  BY <1>2, <1>3, <1>4, <1>5, <1>6, <1>7 DEF Next

-----------------------------------------------------------------------------
(* The buttons.                                                            *)

\* What is waited for has no button while it is under way.
Awaited == {"approve", "publish", "archive", "create", "edit"}

\* A page offers its own calls, for opportunities.
LEMMA ButtonsTyped ==
  ASSUME page \in PageNames, NEW b \in Buttons
  PROVE  b[1] \in Ops /\ b[2] \in Opps /\ (b[1] \in Awaited => ~Pending(b[1]))
<1> USE DEF Ops, StudentOps, ReviewOps, OfficerOps, FormOps, Awaited
<1>1. CASE page = "certifications" \/ page = "placements"
  <2>1. \A kind : \A x \in CardButtons(kind) :
           x[1] \in {"register", "begin", "upload"} /\ (kind \subseteq Opps => x[2] \in Opps)
    BY DEF CardButtons, AvailableCards, OwnCards, Uploadable
  <2>2. b \in CardButtons(Certs) \/ b \in CardButtons(Placements)
    BY <1>1 DEF Buttons, CertificationsButtons, PlacementsButtons
  <2> QED
    BY <2>1, <2>2 DEF Opps
<1>2. CASE page = "team-leader"
  BY <1>2 DEF Buttons, TeamLeaderButtons
<1>3. CASE page = "opportunities"
  BY <1>3 DEF Buttons, OpportunitiesButtons
<1>4. CASE page = "edit"
  BY <1>4 DEF Buttons, EditForm
<1>5. CASE page = "new"
  BY <1>5 DEF Buttons, CreateForm
<1>6. CASE page = "help"
  BY <1>6 DEF Buttons
<1> QED
  BY <1>1, <1>2, <1>3, <1>4, <1>5, <1>6 DEF PageNames

\* A card in progress that has the mark offers no upload.
LEMMA UploadOffered ==
  ASSUME page \in PageNames, NEW o \in Opps, <<"upload", o>> \in Buttons, Shown("mine")[o].status # "rejected"
  PROVE  o # uploading
<1>1. CASE page = "certifications" \/ page = "placements"
  <2>1. \A kind : <<"upload", o>> \in CardButtons(kind) => o \in Uploadable(kind)
    BY DEF CardButtons
  <2>2. \A kind : o \in Uploadable(kind) => o # uploading
    BY DEF Uploadable, OwnCards
  <2>3. <<"upload", o>> \in CardButtons(Certs) \/ <<"upload", o>> \in CardButtons(Placements)
    BY <1>1 DEF Buttons, CertificationsButtons, PlacementsButtons
  <2> QED
    BY <2>1, <2>2, <2>3
<1>2. CASE page = "team-leader"
  BY <1>2 DEF Buttons, TeamLeaderButtons
<1>3. CASE page = "opportunities"
  BY <1>3 DEF Buttons, OpportunitiesButtons
<1>4. CASE page = "edit"
  BY <1>4 DEF Buttons, EditForm
<1>5. CASE page = "new"
  BY <1>5 DEF Buttons, CreateForm
<1>6. CASE page = "help"
  BY <1>6 DEF Buttons
<1> QED
  BY <1>1, <1>2, <1>3, <1>4, <1>5, <1>6 DEF PageNames

-----------------------------------------------------------------------------
(* The calls of a page.                                                    *)

LEMMA CallsTypedBy ==
  ASSUME CallsTyped, call' \in [Slots -> CallRow], \A t \in Slots : WellFormed(call[t])'
  PROVE  CallsTyped' /\ Slots' = Slots
  BY DEF CallsTyped, Slots

LEMMA CallsStay ==
  ASSUME CallsTyped, call' = call, now \in Nat, now' \in Nat, now' >= now
  PROVE  CallsTyped'
<1>1. \A t \in Slots : WellFormed(call[t])'
  BY OfCall DEF WellFormed
<1> QED
  BY <1>1, CallsTypedBy DEF CallsTyped

LEMMA NoCallTyped == NoCall \in CallRow
  BY DEF NoCall, CallRow, Stages

LEMMA SendingTyped ==
  ASSUME NEW op \in Ops, NEW o \in Opps, NEW loose \in BOOLEAN
  PROVE  LET c == Sending(op, o, loose) IN
         /\ c \in CallRow /\ c.op = op /\ c.o = o /\ c.loose = loose /\ c.stage = "sent" /\ c.here /\ c.at = 0
  BY DEF Sending, CallRow, Stages

\* A call that a step of another one leaves as it is, but for being loose.
Carried(c, d) ==
  /\ d \in CallRow /\ d.op = c.op /\ d.o = c.o /\ d.stage = c.stage /\ d.at = c.at /\ d.here = c.here
  /\ c.loose => d.loose

\* One call is put into its slot or taken out of it.
LEMMA CallsTypedBut ==
  ASSUME CallsTyped, now' = now, call' \in [Slots -> CallRow], NEW s \in Slots,
         WellFormed(call'[s]), \A t \in Slots \ {s} : Carried(call[t], call'[t])
  PROVE  CallsTyped'
<1>1. \A t \in Slots : WellFormed(call[t])'
  BY OfCall DEF WellFormed, Carried
<1> QED
  BY <1>1, CallsTypedBy

LEMMA ReplacedCall ==
  ASSUME CallsTyped, now \in Nat, now' \in Nat, now' >= now, NEW s \in Slots, NEW d \in CallRow,
         d.at <= now', d.stage # "none" => d.op \in Ops /\ d.o \in Opps,
         call' = [call EXCEPT ![s] = d]
  PROVE  CallsTyped' /\ Slots' = Slots /\ call'[s] = d /\ \A t \in Slots \ {s} : call'[t] = call[t]
<1>1. call' \in [Slots -> CallRow] /\ call'[s] = d /\ \A t \in Slots \ {s} : call'[t] = call[t]
  BY DEF CallsTyped
<1>2. WellFormed(call[s])'
  BY <1>1 DEF WellFormed
<1>3. \A t \in Slots \ {s} : WellFormed(call[t])'
  BY <1>1, OfCall DEF WellFormed
<1> QED
  BY <1>1, <1>2, <1>3, CallsTypedBy

LEMMA SentCall ==
  ASSUME VersionsTyped, CallsTyped, NEW s \in Slots, NEW op \in Ops, NEW o \in Opps, Send(s, op, o), past' = past
  PROVE  /\ CallsTyped' /\ Slots' = Slots /\ ~Active(s)
         /\ call'[s] = Sending(op, o, FALSE) /\ \A t \in Slots \ {s} : call'[t] = call[t]
<1> DEFINE d == Sending(op, o, FALSE)
<1>1. now \in Nat /\ now' = now /\ ~Active(s)
  BY CurrentRows DEF now, Send, Free
<1>2. d \in CallRow /\ d.op = op /\ d.o = o /\ d.at = 0 /\ call' = [call EXCEPT ![s] = d]
  BY SendingTyped DEF Send
<1> HIDE DEF d
<1>4. now' \in Nat /\ now' >= now /\ d.at <= now' /\ (d.stage # "none" => d.op \in Ops /\ d.o \in Opps)
  BY <1>1, <1>2
<1>3. /\ CallsTyped' /\ Slots' = Slots /\ call'[s] = d /\ \A t \in Slots \ {s} : call'[t] = call[t]
  BY <1>1, <1>2, <1>4, ReplacedCall, Zenon
<1> QED
  BY <1>1, <1>3 DEF d

LEMMA UploadedCall ==
  ASSUME VersionsTyped, CallsTyped, PageTyped, NEW s \in Slots, selected # Null,
         call' = Uploads(s), past' = past
  PROVE  /\ CallsTyped' /\ Slots' = Slots
         /\ call'[s] = Sending("upload", selected, chooser = "rejected")
         /\ \A t \in Slots \ {s} : /\ Carried(call[t], call'[t])
                                   /\ call[t].op = "upload" /\ call[t].o # selected => call'[t].loose
<1>1. now \in Nat /\ now' = now
  BY CurrentRows DEF now
<1> DEFINE c == Sending("upload", selected, chooser = "rejected")
<1>2. selected \in Opps /\ "upload" \in Ops
  BY DEF PageTyped, Ops, StudentOps
<1>3. c \in CallRow /\ c.op = "upload" /\ c.o = selected /\ c.at = 0
  BY <1>2 DEF Sending, CallRow, Stages
<1> HIDE DEF c
<1>4. call' = [t \in Slots |->
        IF t = s THEN c
        ELSE [call[t] EXCEPT !.loose = @ \/ (call[t].op = "upload" /\ call[t].o # selected)]]
  BY DEF Uploads, c
<1>5. ASSUME NEW t \in Slots \ {s}
      PROVE  /\ Carried(call[t], call'[t])
             /\ call[t].op = "upload" /\ call[t].o # selected => call'[t].loose
  <2>1. call[t] \in CallRow
    BY OfCall
  <2>2. call'[t] = [call[t] EXCEPT !.loose = @ \/ (call[t].op = "upload" /\ call[t].o # selected)]
    BY <1>4
  <2> QED
    BY <2>1, <2>2 DEF Carried, CallRow
<1>6. call'[s] = c
  BY <1>4
<1>7. call' \in [Slots -> CallRow]
  <2>1. \A t \in Slots : call'[t] \in CallRow
    BY <1>3, <1>5, <1>6 DEF Carried
  <2> QED
    BY <1>4, <2>1
<1>8. WellFormed(call'[s])
  BY <1>1, <1>2, <1>3, <1>6 DEF WellFormed
<1> QED
  BY <1>1, <1>5, <1>6, <1>7, <1>8, CallsTypedBut DEF Slots, c

LEMMA SettledCall ==
  ASSUME VersionsTyped, CallsTyped, NEW s \in Slots, call' = Settled(s), past' = past
  PROVE  /\ CallsTyped' /\ Slots' = Slots /\ call'[s] = NoCall
         /\ \A t \in Slots \ {s} :
              /\ Carried(call[t], call'[t])
              /\ call[s].here /\ call[s].op = "upload" /\ call[t].op = "upload" => call'[t].loose
<1>1. now \in Nat /\ now' = now
  BY CurrentRows DEF now
<1>2. call' = [t \in Slots |-> IF t = s THEN NoCall
        ELSE [call[t] EXCEPT !.loose = @ \/ (call[s].op = "upload" /\ call[s].here /\ call[t].op = "upload")]]
  BY DEF Settled
<1>3. ASSUME NEW t \in Slots \ {s}
      PROVE  /\ Carried(call[t], call'[t])
             /\ call[s].here /\ call[s].op = "upload" /\ call[t].op = "upload" => call'[t].loose
  <2>1. call[t] \in CallRow
    BY OfCall
  <2>2. call'[t] = [call[t] EXCEPT !.loose = @ \/ (call[s].op = "upload" /\ call[s].here /\ call[t].op = "upload")]
    BY <1>2
  <2> QED
    BY <2>1, <2>2 DEF Carried, CallRow
<1>4. call'[s] = NoCall
  BY <1>2
<1>5. call' \in [Slots -> CallRow]
  <2>1. \A t \in Slots : call'[t] \in CallRow
    BY <1>3, <1>4, NoCallTyped DEF Carried
  <2> QED
    BY <1>2, <2>1
<1>6. WellFormed(call'[s])
  BY <1>1, <1>4 DEF WellFormed, NoCall
<1> QED
  BY <1>1, <1>3, <1>4, <1>5, <1>6, CallsTypedBut DEF Slots

LEMMA AnsweredTyped ==
  ASSUME NEW c \in CallRow, NEW n \in Nat
  PROVE  LET d == [c EXCEPT !.stage = "ok", !.at = n] IN
         /\ d \in CallRow /\ d.at = n /\ d.stage = "ok"
         /\ d.op = c.op /\ d.o = c.o /\ d.here = c.here /\ d.loose = c.loose
<1> DEFINE e == [c EXCEPT !.stage = "ok"]
           d == [e EXCEPT !.at = n]
<1>1. /\ e \in CallRow /\ e.stage = "ok"
      /\ e.op = c.op /\ e.o = c.o /\ e.here = c.here /\ e.loose = c.loose
  BY DEF CallRow, Stages
<1>2. [c EXCEPT !.stage = "ok", !.at = n] = d
  OBVIOUS
<1> HIDE DEF e
<1>3. /\ d \in CallRow /\ d.at = n /\ d.stage = "ok"
      /\ d.op = e.op /\ d.o = e.o /\ d.here = e.here /\ d.loose = e.loose
  BY <1>1 DEF CallRow
<1> QED
  BY <1>1, <1>2, <1>3

LEMMA HandledCall ==
  ASSUME VersionsTyped, CallsTyped, NEW s \in Slots, Handle(s)
  PROVE  /\ CallsTyped' /\ Slots' = Slots
         /\ \A t \in Slots : /\ call'[t].op = call[t].op /\ call'[t].o = call[t].o
                             /\ call'[t].here = call[t].here /\ call'[t].loose = call[t].loose
                             /\ Active(t)' <=> Active(t)
<1> DEFINE c == call[s]
           Handled(d) == /\ d \in CallRow /\ d.op = c.op /\ d.o = c.o /\ d.here = c.here
                         /\ d.loose = c.loose /\ d.stage # "none" /\ d.at <= now'
<1>1. now \in Nat /\ c \in CallRow /\ WellFormed(c) /\ c.stage = "sent" /\ c.op \in Ops /\ c.o \in Opps
  BY CurrentRows, OfCall DEF Handle, WellFormed
<1>2. ASSUME NEW d, Handled(d), call' = [call EXCEPT ![s] = d], now' \in Nat, now' >= now
      PROVE  /\ CallsTyped' /\ Slots' = Slots
             /\ \A t \in Slots : /\ call'[t].op = call[t].op /\ call'[t].o = call[t].o
                                 /\ call'[t].here = call[t].here /\ call'[t].loose = call[t].loose
                                 /\ Active(t)' <=> Active(t)
  <2>1. CallsTyped' /\ Slots' = Slots /\ call'[s] = d /\ \A t \in Slots \ {s} : call'[t] = call[t]
    BY <1>1, <1>2, ReplacedCall
  <2>2. Active(s) /\ Active(s)'
    BY <1>1, <1>2, <2>1 DEF Active
  <2>3. \A t \in Slots \ {s} : Active(t)' <=> Active(t)
    BY <2>1 DEF Active
  <2> QED
    BY <1>2, <2>1, <2>2, <2>3
<1>3. CASE Accepts(c.op, rows[c.o])
  <2>1. call' = [call EXCEPT ![s] = [c EXCEPT !.stage = "ok", !.at = now + 1]]
    BY <1>3 DEF Handle, CallsTyped
  <2>2. now' = now + 1
    BY <1>1, <1>3, DoneAppended DEF Handle
  <2> DEFINE d == [c EXCEPT !.stage = "ok", !.at = now + 1]
  <2> HIDE DEF c
  <2>3. now + 1 \in Nat
    BY <1>1
  <2>4. /\ d \in CallRow /\ d.at = now + 1 /\ d.stage = "ok"
        /\ d.op = c.op /\ d.o = c.o /\ d.here = c.here /\ d.loose = c.loose
    BY <1>1, <2>3, AnsweredTyped
  <2>5. now' \in Nat /\ now' >= now /\ d.at <= now'
    BY <1>1, <2>2, <2>4
  <2> HIDE DEF d
  <2>6. Handled(d)
    BY <2>4, <2>5
  <2>7. call' = [call EXCEPT ![s] = d]
    BY <2>1 DEF d
  <2> HIDE DEF Handled
  <2> QED
    BY <1>2, <2>5, <2>6, <2>7, Zenon
<1>4. CASE ~Accepts(c.op, rows[c.o])
  <2>1. call' = [call EXCEPT ![s] = [c EXCEPT !.stage = "refused"]]
    BY <1>4 DEF Handle, CallsTyped
  <2>2. now' = now
    BY <1>4 DEF Handle, now
  <2> DEFINE d == [c EXCEPT !.stage = "refused"]
  <2>3. Handled(d)
    BY <1>1, <2>2 DEF CallRow, Stages, WellFormed
  <2>4. now' \in Nat /\ now' >= now
    BY <1>1, <2>2
  <2>5. call' = [call EXCEPT ![s] = d]
    BY <2>1
  <2> HIDE DEF c, d, Handled
  <2> QED
    BY <1>2, <2>3, <2>4, <2>5, Zenon
<1> QED
  BY <1>3, <1>4

LEMMA LeftCalls ==
  ASSUME VersionsTyped, CallsTyped, NEW p \in PageNames, Visit(p)
  PROVE  CallsTyped' /\ Slots' = Slots /\ \A t \in Slots : ~call'[t].here
<1>1. now \in Nat /\ now' = now
  BY CurrentRows DEF now, Visit
<1>2. call' = [t \in Slots |-> [call[t] EXCEPT !.here = FALSE]]
  BY DEF Visit
<1>3. ASSUME NEW t \in Slots PROVE call'[t] \in CallRow /\ WellFormed(call'[t]) /\ ~call'[t].here
  <2>1. call[t] \in CallRow /\ WellFormed(call[t])
    BY OfCall
  <2>2. call'[t] = [call[t] EXCEPT !.here = FALSE]
    BY <1>2
  <2> QED
    BY <2>1, <2>2 DEF CallRow, WellFormed
<1>4. call' \in [Slots -> CallRow]
  BY <1>2, <1>3
<1>5. \A t \in Slots : WellFormed(call[t])'
  BY <1>1, <1>3 DEF WellFormed
<1> QED
  BY <1>3, <1>4, <1>5, CallsTypedBy

\* Which steps have the calls as they were.
Silent ==
  \/ Elsewhere \/ OpenChooser \/ CancelChooser \/ OpenDialog \/ CloseDialog \/ UNCHANGED vars
  \/ \E k \in Keys : Deliver(k) \/ LoseFetch(k) \/ Expire(k) \/ Collect(k) \/ Retry(k)

LEMMA SilentStep == Silent => call' = call
  BY DEF Silent, Elsewhere, OpenChooser, CancelChooser, OpenDialog, CloseDialog, vars,
         Deliver, LoseFetch, Expire, Collect, Retry

LEMMA NextCases ==
  [Next]_vars =>
    \/ Silent
    \/ \E p \in PageNames : Visit(p)
    \/ \E s \in Slots : \/ Click(s) \/ ChooseFile(s) \/ Confirm(s)
                        \/ Handle(s) \/ Succeed(s) \/ FailCall(s)
  BY DEF Next, Silent

\* What a click or a confirmation sends.
LEMMA Clicked ==
  ASSUME PageTyped, NEW s \in Slots, Click(s)
  PROVE  \E op \in Ops \ {"upload"}, o \in Opps :
           Send(s, op, o) /\ (op \in {"register", "begin"} \/ ~Pending(op))
<1>1. PICK b \in Buttons : b[1] \in Direct /\ Send(s, b[1], b[2])
  BY DEF Click
<1>2. b[1] \in Ops /\ b[2] \in Opps /\ (b[1] \in Awaited => ~Pending(b[1]))
  BY <1>1, ButtonsTyped DEF PageTyped
<1>3. b[1] # "upload" /\ (b[1] \in {"register", "begin"} \/ b[1] \in Awaited)
  BY <1>1 DEF Direct, FormOps, Awaited
<1> QED
  BY <1>1, <1>2, <1>3

LEMMA Confirmed ==
  ASSUME PageTyped, NEW s \in Slots, Confirm(s)
  PROVE  \E op \in Ops \ {"upload"}, o \in Opps :
           Send(s, op, o) /\ (op \in {"register", "begin"} \/ ~Pending(op))
<1> DEFINE op == IF page = "team-leader" THEN "reject" ELSE "delete"
<1>1. op \in Ops \ {"upload"} /\ selected \in Opps
  BY DEF Confirm, InFront, PageTyped, Ops, ReviewOps, OfficerOps
<1>2. Send(s, op, selected) /\ ~Pending(op)
  BY DEF Confirm
<1> QED
  BY <1>1, <1>2

LEMMA CallsStep ==
  ASSUME VersionsTyped, CallsTyped, PageTyped, [Next]_vars
  PROVE  CallsTyped'
<1>1. now \in Nat /\ now' \in Nat /\ now' >= now
  BY VersionsStep
<1>2. CASE call' = call
  BY <1>1, <1>2, CallsStay
<1>3. ASSUME NEW p \in PageNames, Visit(p) PROVE CallsTyped'
  BY <1>3, LeftCalls
<1>4. ASSUME NEW s \in Slots, Click(s) \/ Confirm(s) PROVE CallsTyped'
  <2>1. PICK op \in Ops, o \in Opps : Send(s, op, o)
    BY <1>4, Clicked, Confirmed
  <2>2. past' = past
    BY <1>4 DEF Click, Confirm
  <2> QED
    BY <2>1, <2>2, SentCall
<1>5. ASSUME NEW s \in Slots, ChooseFile(s) PROVE CallsTyped'
  <2>1. CASE selected = Null
    BY <1>2, <1>5, <2>1 DEF ChooseFile
  <2>2. CASE selected # Null
    BY <1>5, <2>2, UploadedCall DEF ChooseFile
  <2> QED
    BY <2>1, <2>2
<1>6. ASSUME NEW s \in Slots, Handle(s) PROVE CallsTyped'
  BY <1>6, HandledCall
<1>7. ASSUME NEW s \in Slots, Succeed(s) \/ FailCall(s) PROVE CallsTyped'
  BY <1>7, SettledCall DEF Succeed, FailCall
<1> QED
  BY <1>2, <1>3, <1>4, <1>5, <1>6, <1>7, NextCases, SilentStep

LEMMA PageStep ==
  ASSUME PageTyped, CallsTyped, [Next]_vars
  PROVE  PageTyped'
<1> USE DEF PageTyped
<1>1. CASE UNCHANGED vars
  BY <1>1 DEF vars, local
<1>2. CASE Elsewhere
  BY <1>2 DEF Elsewhere, local
<1>3. ASSUME NEW k \in Keys, Deliver(k) \/ Expire(k) \/ Collect(k) \/ Retry(k) PROVE PageTyped'
  BY <1>3 DEF Deliver, Expire, Collect, Retry, local
<1>4. ASSUME NEW k \in Keys, LoseFetch(k) PROVE PageTyped'
  BY <1>4 DEF LoseFetch, local
<1>5. ASSUME NEW p \in PageNames, Visit(p) PROVE PageTyped'
  BY <1>5 DEF Visit
<1>6. CASE OpenChooser
  BY <1>6 DEF OpenChooser
<1>7. CASE CancelChooser \/ CloseDialog
  BY <1>7 DEF CancelChooser, CloseDialog
<1>8. CASE OpenDialog
  <2>1. selected' \in Opps
    BY <1>8, ButtonsTyped DEF OpenDialog
  <2> QED
    BY <1>8, <2>1 DEF OpenDialog
<1>9. ASSUME NEW s \in Slots, Click(s) \/ Confirm(s) \/ Handle(s) PROVE PageTyped'
  BY <1>9 DEF Click, Confirm, Handle, local
<1>10. ASSUME NEW s \in Slots, ChooseFile(s) PROVE PageTyped'
  BY <1>10 DEF ChooseFile, Chosen
<1>11. ASSUME NEW s \in Slots, Succeed(s) PROVE PageTyped'
  BY <1>11 DEF Succeed, Forget
<1>12. ASSUME NEW s \in Slots, FailCall(s) PROVE PageTyped'
  BY <1>12 DEF FailCall, Forget
<1> QED
  BY <1>1, <1>2, <1>3, <1>4, <1>5, <1>6, <1>7, <1>8, <1>9, <1>10, <1>11, <1>12 DEF Next

-----------------------------------------------------------------------------
(* Calls that are under way together.                                      *)

\* Settled or handled calls, and calls of a page that was left, repeat nothing.
LEMMA FewerCalls ==
  ASSUME OneMutation, OneCallPerRow, Slots' = Slots,
         \A t \in Slots : Own(t)' => /\ Own(t) /\ call'[t].op = call[t].op /\ call'[t].o = call[t].o
                                     /\ call[t].loose => call'[t].loose
  PROVE  OneMutation' /\ OneCallPerRow'
<1>1. OneMutation'
  BY DEF OneMutation
<1>2. OneCallPerRow'
  BY DEF OneCallPerRow, Own
<1> QED
  BY <1>1, <1>2

\* The mark of a card stays where it is.
LEMMA MarkStays ==
  ASSUME Marked, Slots' = Slots, uploading' = uploading,
         \A t \in Slots : Own(t)' => /\ Own(t) /\ call'[t].op = call[t].op /\ call'[t].o = call[t].o
                                     /\ call[t].loose => call'[t].loose
  PROVE  Marked'
  BY DEF Marked

LEMMA ApartSilent ==
  ASSUME PageTyped, Apart, Silent
  PROVE  Apart'
<1>1. call' = call /\ Slots' = Slots
  BY SilentStep DEF Slots
<1>2. \A t \in Slots : Own(t)' => /\ Own(t) /\ call'[t].op = call[t].op /\ call'[t].o = call[t].o
                                  /\ call[t].loose => call'[t].loose
  BY <1>1 DEF Own, Active
<1>3. OneMutation' /\ OneCallPerRow'
  BY <1>1, <1>2, FewerCalls DEF Apart
<1>4. uploading' = uploading
  BY DEF Silent, Elsewhere, OpenChooser, CancelChooser, OpenDialog, CloseDialog, vars, local,
         Deliver, LoseFetch, Expire, Collect, Retry
<1>5. Marked'
  BY <1>1, <1>2, <1>4, MarkStays DEF Apart
<1>6. OpenedUnmarked'
  <2>1. CASE chooser' = "shut"
    BY <2>1 DEF OpenedUnmarked
  <2>2. CASE UNCHANGED <<selected, chooser>>
    BY <1>4, <2>2 DEF OpenedUnmarked, Apart
  <2>3. CASE OpenChooser
    <3>1. PICK o \in Opps :
            /\ <<"upload", o>> \in Buttons /\ selected' = o
            /\ chooser' = IF Shown("mine")[o].status = "rejected" THEN "rejected" ELSE "open"
      BY <2>3 DEF OpenChooser
    <3>2. chooser' = "open" => o # uploading
      BY <3>1, UploadOffered DEF PageTyped
    <3> QED
      BY <1>4, <3>1, <3>2 DEF OpenedUnmarked
  <2>4. CASE OpenDialog \/ CloseDialog
    BY <2>4, <2>1 DEF OpenDialog, CloseDialog, InFront, Choosing
  <2> QED
    BY <2>1, <2>2, <2>3, <2>4 DEF Silent, Elsewhere, CancelChooser, vars, local,
         Deliver, LoseFetch, Expire, Collect, Retry
<1> QED
  BY <1>3, <1>5, <1>6 DEF Apart

LEMMA ApartSent ==
  ASSUME VersionsTyped, CallsTyped, Apart, NEW s \in Slots, NEW op \in Ops \ {"upload"}, NEW o \in Opps,
         Send(s, op, o), op \in {"register", "begin"} \/ ~Pending(op), past' = past, UNCHANGED local
  PROVE  Apart'
<1>1. /\ Slots' = Slots /\ ~Active(s)
      /\ call'[s] = Sending(op, o, FALSE) /\ \A t \in Slots \ {s} : call'[t] = call[t]
  BY SentCall
<1>2. call'[s].op = op
  BY <1>1 DEF Sending
<1>3. \A t \in Slots \ {s} : Own(t)' <=> Own(t)
  BY <1>1 DEF Own, Active
<1>4. \A t \in Slots \ {s} : Own(t) /\ call[t].op = op => op \in {"register", "begin"}
  BY DEF Pending, Own
<1>5. OneMutation'
  BY <1>1, <1>2, <1>3, <1>4 DEF OneMutation, Apart
<1>6. OneCallPerRow'
  <2>1. OneCallPerRow
    BY DEF Apart
  <2>2. ASSUME NEW x \in Slots, NEW y \in Slots, x # y, Own(x)', Own(y)',
               call'[x].op = call'[y].op, call'[x].o = call'[y].o
        PROVE  call'[x].op \in {"register", "begin"} \/ call'[x].loose \/ call'[y].loose
    <3>1. CASE x = s \/ y = s
      BY <1>1, <1>2, <1>3, <1>4, <2>2, <3>1
    <3>2. CASE x # s /\ y # s
      <4>1. Own(x) /\ Own(y) /\ call'[x] = call[x] /\ call'[y] = call[y]
        BY <1>1, <1>3, <2>2, <3>2
      <4> QED
        BY <2>1, <2>2, <4>1 DEF OneCallPerRow, Own
    <3> QED
      BY <3>1, <3>2
  <2> QED
    BY <1>1, <2>2 DEF OneCallPerRow, Own
<1>7. Marked'
  BY <1>1, <1>2, <1>3 DEF Marked, Apart, local
<1>8. OpenedUnmarked'
  BY DEF OpenedUnmarked, Apart, local
<1> QED
  BY <1>5, <1>6, <1>7, <1>8 DEF Apart

\* A second upload takes the mark: the first becomes loose, unless it is for
\* the same card.  Then the click is one that looked away from the mark.
LEMMA ApartUploaded ==
  ASSUME VersionsTyped, CallsTyped, PageTyped, Apart, NEW s \in Slots, ChooseFile(s), selected # Null
  PROVE  Apart'
<1> DEFINE c == Sending("upload", selected, chooser = "rejected")
<1>1. call' = Uploads(s) /\ past' = past /\ Free(s) /\ uploading' = selected /\ chooser' = "shut" /\ Choosing
  BY DEF ChooseFile, Chosen
<1>2. /\ Slots' = Slots /\ call'[s] = c
      /\ \A t \in Slots \ {s} : /\ Carried(call[t], call'[t])
                                /\ call[t].op = "upload" /\ call[t].o # selected => call'[t].loose
  BY <1>1, UploadedCall
<1>3. c.op = "upload" /\ c.o = selected /\ c.loose = (chooser = "rejected")
  BY DEF Sending
<1> HIDE DEF c
<1>4. \A t \in Slots \ {s} : Own(t)' <=> Own(t)
  BY <1>2 DEF Own, Active, Carried
<1>5. \A t \in Slots \ {s} : /\ call'[t].op = call[t].op /\ call'[t].o = call[t].o
                             /\ call[t].loose => call'[t].loose
  BY <1>2 DEF Carried
<1>6. OpenedUnmarked'
  BY <1>1 DEF OpenedUnmarked
<1>7. Marked'
  BY <1>1, <1>2, <1>3, <1>4, <1>5 DEF Marked
<1>8. OneMutation'
  <2>1. OneMutation
    BY DEF Apart
  <2>2. ASSUME NEW x \in Slots, NEW y \in Slots, x # y, Own(x)', Own(y)', call'[x].op = call'[y].op
        PROVE  call'[x].op \in {"register", "begin", "upload"}
    <3>1. CASE x = s \/ y = s
      BY <1>2, <1>3, <2>2, <3>1
    <3>2. CASE x # s /\ y # s
      BY <1>4, <1>5, <2>1, <2>2, <3>2 DEF OneMutation
    <3> QED
      BY <3>1, <3>2
  <2> QED
    BY <1>2, <2>2 DEF OneMutation
<1>9. OneCallPerRow'
  <2>1. OneCallPerRow /\ Marked /\ OpenedUnmarked
    BY DEF Apart
  <2>2. ASSUME NEW t \in Slots \ {s}, Own(t)', call'[t].op = "upload", call'[t].o = selected
        PROVE  call'[t].loose \/ chooser = "rejected"
    <3>1. Own(t) /\ call[t].op = "upload" /\ call[t].o = selected
      BY <1>4, <1>5, <2>2
    <3>2. call[t].loose \/ uploading = selected
      BY <2>1, <3>1 DEF Marked
    <3>3. uploading = selected => chooser = "rejected"
      BY <1>1, <2>1 DEF OpenedUnmarked, Choosing, PageTyped
    <3> QED
      BY <1>5, <3>2, <3>3
  <2>3. ASSUME NEW x \in Slots, NEW y \in Slots, x # y, Own(x)', Own(y)',
               call'[x].op = call'[y].op, call'[x].o = call'[y].o
        PROVE  call'[x].op \in {"register", "begin"} \/ call'[x].loose \/ call'[y].loose
    <3>1. CASE x = s
      BY <1>2, <1>3, <2>2, <2>3, <3>1
    <3>2. CASE y = s
      BY <1>2, <1>3, <2>2, <2>3, <3>2
    <3>3. CASE x # s /\ y # s
      <4>1. Own(x) /\ Own(y) /\ call[x].op = call[y].op /\ call[x].o = call[y].o
        BY <1>4, <1>5, <2>3, <3>3
      <4>2. call[x].op \in {"register", "begin"} \/ call[x].loose \/ call[y].loose
        BY <2>1, <2>3, <4>1 DEF OneCallPerRow, Own
      <4> QED
        BY <1>5, <3>3, <4>2
    <3> QED
      BY <3>1, <3>2, <3>3
  <2> QED
    BY <1>2, <2>3 DEF OneCallPerRow, Own
<1> QED
  BY <1>6, <1>7, <1>8, <1>9 DEF Apart

\* The upload that is settled clears the mark, whosever it is.
LEMMA ApartSettled ==
  ASSUME VersionsTyped, CallsTyped, PageTyped, Apart, NEW s \in Slots, Succeed(s) \/ FailCall(s)
  PROVE  Apart'
<1>1. call' = Settled(s) /\ past' = past /\ Active(s) /\ (Forget(s, TRUE) \/ Forget(s, FALSE))
  BY DEF Succeed, FailCall, Active
<1>2. /\ Slots' = Slots /\ call'[s] = NoCall
      /\ \A t \in Slots \ {s} :
           /\ Carried(call[t], call'[t])
           /\ call[s].here /\ call[s].op = "upload" /\ call[t].op = "upload" => call'[t].loose
  BY <1>1, SettledCall
<1>3. ~Own(s)'
  BY <1>2 DEF Own, Active, NoCall
<1>4. \A t \in Slots : Own(t)' =>
        /\ t # s /\ Own(t) /\ call'[t].op = call[t].op /\ call'[t].o = call[t].o
        /\ call[t].loose => call'[t].loose
  BY <1>2, <1>3 DEF Own, Active, Carried
<1>5. OneMutation' /\ OneCallPerRow'
  BY <1>2, <1>4, FewerCalls DEF Apart
<1>6. chooser' = chooser /\ selected' \in {selected, Null}
  BY <1>1 DEF Forget
<1>7. CASE call[s].here /\ call[s].op = "upload"
  <2>1. uploading' = Null
    BY <1>1, <1>7 DEF Forget
  <2>2. Marked'
    BY <1>2, <1>4, <1>7 DEF Marked
  <2>3. OpenedUnmarked'
    BY <1>6, <2>1 DEF OpenedUnmarked
  <2> QED
    BY <1>5, <2>2, <2>3 DEF Apart
<1>8. CASE ~(call[s].here /\ call[s].op = "upload")
  <2>1. uploading' = uploading
    BY <1>1, <1>8 DEF Forget
  <2>2. Marked'
    BY <1>2, <1>4, <2>1, MarkStays DEF Apart
  <2>3. OpenedUnmarked'
    BY <1>6, <2>1 DEF OpenedUnmarked, Apart
  <2> QED
    BY <1>5, <2>2, <2>3 DEF Apart
<1> QED
  BY <1>7, <1>8

LEMMA ApartHandled ==
  ASSUME VersionsTyped, CallsTyped, Apart, NEW s \in Slots, Handle(s)
  PROVE  Apart'
<1>1. Slots' = Slots /\ UNCHANGED local
  BY HandledCall DEF Handle
<1>2. \A t \in Slots : Own(t)' => /\ Own(t) /\ call'[t].op = call[t].op /\ call'[t].o = call[t].o
                                  /\ call[t].loose => call'[t].loose
  BY HandledCall DEF Own
<1>3. OneMutation' /\ OneCallPerRow'
  BY <1>1, <1>2, FewerCalls DEF Apart
<1>4. Marked'
  BY <1>1, <1>2, MarkStays DEF Apart, local
<1>5. OpenedUnmarked'
  BY <1>1 DEF OpenedUnmarked, Apart, local
<1> QED
  BY <1>3, <1>4, <1>5 DEF Apart

LEMMA ApartLeft ==
  ASSUME VersionsTyped, CallsTyped, Apart, NEW p \in PageNames, Visit(p)
  PROVE  Apart'
<1>1. Slots' = Slots /\ \A t \in Slots : ~Own(t)'
  BY LeftCalls DEF Own
<1>2. OneMutation' /\ OneCallPerRow'
  BY <1>1, FewerCalls DEF Apart
<1>3. Marked'
  BY <1>1 DEF Marked
<1>4. OpenedUnmarked'
  BY DEF OpenedUnmarked, Visit
<1> QED
  BY <1>2, <1>3, <1>4 DEF Apart

LEMMA ApartStep ==
  ASSUME VersionsTyped, CallsTyped, PageTyped, Apart, [Next]_vars
  PROVE  Apart'
<1>1. CASE Silent
  BY <1>1, ApartSilent
<1>2. ASSUME NEW p \in PageNames, Visit(p) PROVE Apart'
  BY <1>2, ApartLeft
<1>3. ASSUME NEW s \in Slots, Click(s) \/ Confirm(s) PROVE Apart'
  <2>1. PICK op \in Ops \ {"upload"}, o \in Opps :
          Send(s, op, o) /\ (op \in {"register", "begin"} \/ ~Pending(op))
    BY <1>3, Clicked, Confirmed
  <2>2. past' = past /\ UNCHANGED local
    BY <1>3 DEF Click, Confirm
  <2> QED
    BY <2>1, <2>2, ApartSent
<1>4. ASSUME NEW s \in Slots, ChooseFile(s) PROVE Apart'
  <2>1. CASE selected # Null
    BY <1>4, <2>1, ApartUploaded
  <2>2. CASE selected = Null
    <3>1. call' = call /\ Slots' = Slots /\ uploading' = uploading /\ selected' = Null /\ chooser' = "shut"
      BY <1>4, <2>2 DEF ChooseFile, Slots
    <3>2. \A t \in Slots : Own(t)' => /\ Own(t) /\ call'[t].op = call[t].op /\ call'[t].o = call[t].o
                                      /\ call[t].loose => call'[t].loose
      BY <3>1 DEF Own, Active
    <3>3. OneMutation' /\ OneCallPerRow' /\ Marked'
      BY <3>1, <3>2, FewerCalls, MarkStays DEF Apart
    <3>4. OpenedUnmarked'
      BY <3>1 DEF OpenedUnmarked
    <3> QED
      BY <3>3, <3>4 DEF Apart
  <2> QED
    BY <2>1, <2>2
<1>5. ASSUME NEW s \in Slots, Handle(s) PROVE Apart'
  BY <1>5, ApartHandled
<1>6. ASSUME NEW s \in Slots, Succeed(s) \/ FailCall(s) PROVE Apart'
  BY <1>6, ApartSettled
<1> QED
  BY <1>1, <1>2, <1>3, <1>4, <1>5, <1>6, NextCases

-----------------------------------------------------------------------------
(* The theorems.                                                           *)

LEMMA InitInv == Init => PagesInv
<1> SUFFICES ASSUME Init PROVE PagesInv
  OBVIOUS
<1>1. PICK start \in Starts :
        /\ past = <<start.rows>> /\ tour = start.tour /\ losses = start.losses
        /\ call = [s \in start.slots |-> NoCall]
  BY DEF Init
<1>2. /\ start.rows \in [Opps -> Row] /\ start.losses \in Nat /\ start.slots \subseteq Nat
      /\ start.tour \subseteq PageNames
  BY StartsAssumption, TourAssumption
<1>3. VersionsTyped /\ now = 1
  BY <1>1, <1>2 DEF VersionsTyped, now
<1>4. \A k \in Keys : /\ cache[k] \in Cell /\ Versioned(cache[k]) /\ cache[k].at = 0 /\ need[k] = 0
  <2>1. Empty \in Cell /\ Versioned(Empty) /\ Empty.at = 0
    BY <1>3 DEF Empty, Idle, Cell, Versioned
  <2>2. Started(Empty) \in Cell /\ Versioned(Started(Empty))
    BY <1>3, <2>1, StartedKept
  <2>3. Started(Empty).at = 0
    BY <2>1 DEF Started, Cell
  <2>4. ASSUME NEW k \in Keys PROVE cache[k] \in {Started(Empty), Empty} /\ need[k] = 0
    BY DEF Init
  <2> QED
    BY <2>1, <2>2, <2>3, <2>4
<1>5. CacheTyped /\ Kept
  <2>1. cache \in [Keys -> Cell] /\ need \in [Keys -> Nat]
    BY <1>4 DEF Init
  <2> QED
    BY <1>3, <1>4, <2>1 DEF CacheTyped, Kept, CatchesUp
<1>6. Slots = start.slots /\ \A s \in Slots : call[s] = NoCall
  BY <1>1 DEF Slots
<1>7. CallsTyped
  <2>1. call \in [Slots -> CallRow]
    BY <1>1, <1>6, NoCallTyped
  <2>2. WellFormed(NoCall)
    BY <1>3 DEF WellFormed, NoCall
  <2> QED
    BY <1>2, <1>6, <2>1, <2>2 DEF CallsTyped
<1>8. PageTyped
  BY <1>1, <1>2 DEF PageTyped, Init
<1>9. Apart
  <2>1. \A s \in Slots : ~Own(s)
    BY <1>6 DEF Own, Active, NoCall
  <2>2. OpenedUnmarked
    BY DEF OpenedUnmarked, Init
  <2> QED
    BY <2>1, <2>2 DEF Apart, Marked, OneMutation, OneCallPerRow, Own
<1> QED
  BY <1>3, <1>5, <1>7, <1>8, <1>9 DEF PagesInv, Typed

LEMMA StepInv == PagesInv /\ [Next]_vars => PagesInv'
  BY VersionsStep, CacheStep, CallsStep, PageStep, ApartStep DEF PagesInv, Typed

\* Every behaviour keeps PagesInv: no page shows or fetches a version that the
\* server never had, and no call is about nothing.
THEOREM PagesInvariant == Spec => []PagesInv
  BY InitInv, StepInv, PTL DEF Spec

\* What a page shows once it has settled after a call of its own has what the
\* call did.
THEOREM SeesOwnSafe == Spec => []SeesOwn
<1>1. PagesInv => SeesOwn
  <2> SUFFICES ASSUME PagesInv, NEW k \in Mounted, cache[k].fetch = Idle, ~cache[k].err
               PROVE  cache[k].at >= need[k]
    BY DEF SeesOwn
  <2>1. k \in Keys
    BY KeysOfPages DEF PagesInv, Typed, PageTyped, Mounted
  <2>2. CatchesUp(k, cache[k], need[k], Mounted) /\ cache[k].at \in Nat /\ need[k] \in Nat
    BY <2>1, OfKey DEF PagesInv, Typed
  <2> QED
    BY <2>2 DEF CatchesUp
<1> QED
  BY <1>1, PagesInvariant, PTL

\* A card that is shown as the server has it offers what the server takes.
LEMMA CardButtonsWork ==
  ASSUME NEW kind, NEW b \in CardButtons(kind), Shown(KeyOf(b[1]))[b[2]] = rows[b[2]],
         b[1] = "register" => rows[b[2]].enrolled,
         b[1] = "upload" => rows[b[2]].state = "published",
         ~(b[1] = "begin" /\ rows[b[2]].status = "in_progress")
  PROVE  Accepts(b[1], rows[b[2]])
<1> DEFINE o == b[2]
           row == rows[o]
<1>1. CASE b[1] = "register"
  <2>1. o \in AvailableCards(kind)
    BY <1>1 DEF CardButtons
  <2>2. row.state = "published" /\ row.status = "none"
    BY <1>1, <2>1 DEF AvailableCards, KeyOf, ReviewOps
  <2> QED
    BY <1>1, <2>2 DEF Accepts, RegisterAccepted, ReviewOps
<1>2. CASE b[1] = "begin"
  <2>1. o \in OwnCards(kind, {"not_started", "in_progress"})
    BY <1>2 DEF CardButtons
  <2>2. row.status = "not_started"
    BY <1>2, <2>1 DEF OwnCards, KeyOf, ReviewOps
  <2> QED
    BY <1>2, <2>2 DEF Accepts, BeginAccepted, ReviewOps
<1>3. CASE b[1] = "upload"
  <2>1. o \in Uploadable(kind)
    BY <1>3 DEF CardButtons
  <2>2. row.status \in {"in_progress", "rejected"}
    BY <1>3, <2>1 DEF Uploadable, OwnCards, KeyOf, ReviewOps
  <2> QED
    BY <1>3, <2>2 DEF Accepts, UploadAccepted, ReviewOps
<1>4. b[1] \in {"register", "begin", "upload"}
  BY DEF CardButtons
<1> QED
  BY <1>1, <1>2, <1>3, <1>4

\* Every page offers only what the server takes, as far as the page knows.
THEOREM ButtonsWorkSafe == Spec => []ButtonsWork
<1>1. PagesInv => ButtonsWork
  <2> SUFFICES ASSUME page \in PageNames, NEW b \in Buttons,
                      b[1] \notin FormOps, Shown(KeyOf(b[1]))[b[2]] = rows[b[2]],
                      b[1] = "register" => rows[b[2]].enrolled,
                      b[1] = "upload" => rows[b[2]].state = "published",
                      b[1] \in ReviewOps => rows[b[2]].leads /\ ~rows[b[2]].decided,
                      ~(b[1] = "begin" /\ rows[b[2]].status = "in_progress")
               PROVE  Accepts(b[1], rows[b[2]])
    BY DEF ButtonsWork, PagesInv, Typed, PageTyped
  <2>1. CASE page = "certifications"
    BY <2>1, CardButtonsWork DEF Buttons, CertificationsButtons
  <2>2. CASE page = "placements"
    BY <2>2, CardButtonsWork DEF Buttons, PlacementsButtons
  <2>3. CASE page = "team-leader"
    <3>1. b[1] \in ReviewOps /\ Shown("pending")[b[2]].status = "submitted"
      BY <2>3 DEF Buttons, TeamLeaderButtons, ReviewOps
    <3> QED
      BY <3>1 DEF Accepts, ReviewAccepted, KeyOf, ReviewOps
  <2>4. CASE page = "opportunities"
    <3>1. \/ b[1] \in {"delete", "publish"} /\ Shown("opportunities")[b[2]].state = "draft"
          \/ b[1] = "archive" /\ Shown("opportunities")[b[2]].state = "published"
      BY <2>4 DEF Buttons, OpportunitiesButtons
    <3> QED
      BY <3>1 DEF Accepts, KeyOf, ReviewOps
  <2>5. CASE page = "edit"
    BY <2>5 DEF Buttons, EditForm, FormOps
  <2>6. CASE page = "new"
    BY <2>6 DEF Buttons, CreateForm, FormOps
  <2>7. CASE page = "help"
    BY <2>7 DEF Buttons
  <2> QED
    BY <2>1, <2>2, <2>3, <2>4, <2>5, <2>6, <2>7 DEF PageNames
<1> QED
  BY <1>1, PagesInvariant, PTL

\* Of what can be clicked once until it is answered, a page has one call under
\* way for a row, whatever the number of calls.
THEOREM OneCallPerRowSafe == Spec => []OneCallPerRow
<1>1. PagesInv => OneCallPerRow
  BY DEF PagesInv, Apart
<1> QED
  BY <1>1, PagesInvariant, PTL

=============================================================================
