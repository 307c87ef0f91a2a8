------------------------------ MODULE Endpoints ------------------------------
(***************************************************************************)
(* Push notification of query results: NCEndpointManager.                  *)
(*                                                                         *)
(* The queue is an Ignite cache keyed by (srvReqId, endpoint).  Futures    *)
(* add to it and cancel entries, one sender thread reads the entries that  *)
(* are due, marks them `processed` and posts them by (user, endpoint), the *)
(* callbacks of a post delete or reschedule its entries, and a cleaner     *)
(* trims the queue.  Only part of this runs in transactions.               *)
(*                                                                         *)
(* The clock is abstract: `wait` is sendTime > now, `stamp` orders         *)
(* createdOn, `expired` is the last createdOn more than lifeTimeMs ago.    *)
(***************************************************************************)
EXTENDS Integers, FiniteSets, FiniteSetsExt, Functions

CONSTANTS
    Req,          \* server request IDs
    Endpoint,     \* endpoint URLs
    User,
    UserOf,       \* the user of a request
    BadJson,      \* requests whose result body is not the JSON it claims to be
    MaxVersion,   \* bound: results set for a request
    MaxResults,   \* bound: results set for all requests together
    DelaysCnt,    \* number of retry delays
    MaxUserSize,  \* queue.maxPerUserSize
    MaxSize,      \* queue.maxSize
    MaxWakers,    \* bound: failed posts about to wake the sender at a time
    MaxFault      \* bound: restarts and failed rounds of the sender

ASSUME EndpointsAssumption ==
    /\ UserOf \in [Req -> User] /\ BadJson \subseteq Req
    /\ MaxVersion \in Nat /\ MaxResults \in Nat /\ DelaysCnt \in Nat \ {0} /\ MaxFault \in Nat
    /\ MaxWakers \in Nat \ {0}
    /\ MaxUserSize \in Nat \ {0} /\ MaxSize \in Nat \ {0}

VARIABLES
    version,   \* results set for a request so far
    live,      \* requests in the query state cache
    eps,       \* endpoints registered by a user
    adds,      \* addNotification futures not yet run
    wakers,    \* how many futures have written and are about to wake the sender
    cancels,   \* cancelNotifications futures not yet run
    queue,     \* endpoint-cache: an entry per key, or NoEntry
    clock,     \* number of additions so far
    expired,   \* additions up to this one are past their lifetime
    work,      \* the sender's wake-up flag
    sender,    \* where the sender thread is
    sleep,     \* its next sleep: none, timed or forever
    ready,     \* its snapshot of the due entries, then the groups to post
    later,     \* keys with a sendTime after the round's `now`
    flights,   \* posts in progress: the version of each key they carry
    posted,    \* versions of a key an endpoint has accepted
    faults

vars == <<version, live, eps, adds, wakers, cancels, queue, clock, expired, work,
          sender, sleep, ready, later, flights, posted, faults>>

Key == Req \X Endpoint
Version == 1 .. MaxVersion
MaxClock == Cardinality(Req) * MaxVersion
Entry == [version : Version, wait : BOOLEAN, attempts : 0 .. DelaysCnt,
          stamp : 1 .. MaxClock, processed : BOOLEAN]
NoEntry == [version |-> 0]
Queued == {k \in Key : queue[k] # NoEntry}
Snapshots == UNION {[K -> Entry] : K \in SUBSET Key}
Nothing == [k \in {} |-> NoEntry]

TypeOK ==
    /\ version \in [Req -> 0 .. MaxVersion]
    /\ live \subseteq Req
    /\ eps \in [User -> SUBSET Endpoint]
    /\ \A a \in adds : /\ a.req \in Req /\ a.version \in Version
                     /\ a.eps \subseteq Endpoint /\ a.stamp \in 0 .. MaxClock
    /\ cancels \subseteq User \X SUBSET Endpoint
    /\ \A k \in Key : queue[k] \in Entry \cup {NoEntry}
    /\ clock \in 0 .. MaxClock /\ expired \in 0 .. clock /\ wakers \in 0 .. MaxWakers
    /\ work \in BOOLEAN
    /\ sender \in {"wait", "mark", "send"}
    /\ sleep \in {"none", "timed", "forever"}
    /\ later \subseteq Key
    /\ DOMAIN ready \subseteq Key /\ \A k \in DOMAIN ready : ready[k] \in Entry
    /\ \A f \in flights : DOMAIN f \subseteq Key /\ \A k \in DOMAIN f : f[k] \in Version
    /\ posted \in [Key -> SUBSET Version]
    /\ faults \in 0 .. MaxFault

Init ==
    /\ version = [r \in Req |-> 0]
    /\ live = Req
    /\ eps = [u \in User |-> Endpoint]
    /\ adds = {} /\ wakers = 0 /\ cancels = {}
    /\ queue = [k \in Key |-> NoEntry]
    /\ clock = 0 /\ expired = 0
    /\ work = FALSE
    /\ sender = "wait" /\ sleep = "none" /\ ready = Nothing /\ later = {}
    /\ flights = {}
    /\ posted = [k \in Key |-> {}]
    /\ faults = 0

query == <<version, live, eps>>
futures == <<adds, wakers, cancels>>
time == <<clock, expired>>
thread == <<sender, sleep, ready, later>>

Without(K) == [k \in Key |-> IF k \in K THEN NoEntry ELSE queue[k]]
------------------------------------------------------------------------------
(* What other managers do to the queue. *)

Results == {x \in Req \X Version : x[2] <= version[x[1]]}

\* setResult / setError of NCQueryManager hand a new state of the query to
\* addNotification.
SetReady(r) ==
    /\ r \in live
    /\ version[r] < MaxVersion /\ Cardinality(Results) < MaxResults
    /\ version' = [version EXCEPT ![r] = @ + 1]
    /\ adds' = adds \cup {[req |-> r, version |-> version[r] + 1, eps |-> eps[UserOf[r]],
                          stamp |-> 0]}
    /\ UNCHANGED <<live, eps, wakers, cancels, queue, time, work, thread, flights,
                   posted, faults>>

\* The query is cancelled, or expires.  cancel0 cancels no notification.  (That a
\* query without a result goes is not a step: the queue never hears of it.)
RemoveQuery(r) ==
    /\ r \in live /\ version[r] # 0
    /\ live' = live \ {r}
    /\ UNCHANGED <<version, eps, futures, queue, time, work, thread, flights, posted,
                   faults>>

\* A session with the endpoints E ends.
SignOut(u, E) ==
    /\ E # {} /\ E \subseteq eps[u]
    /\ eps' = [eps EXCEPT ![u] = @ \ E]
    /\ cancels' = cancels \cup {<<u, E>>}
    /\ UNCHANGED <<version, live, adds, wakers, queue, time, work, thread, flights,
                   posted, faults>>

\* The future of addNotification takes the time and puts an entry per endpoint,
\* one put after the other.  While a round of the sender is on, the entry may be
\* later than the round's `now`.
AddNotification(a, e) ==
    LET k == <<a.req, e>>
        t == IF a.stamp = 0 THEN clock + 1 ELSE a.stamp
    IN
    /\ clock' = IF a.stamp = 0 THEN t ELSE clock
    /\ queue' = [queue EXCEPT ![k] = [version |-> a.version, wait |-> FALSE, attempts |-> 0,
                                     stamp |-> t, processed |-> FALSE]]
    /\ adds' = (adds \ {a}) \cup {[a EXCEPT !.eps = @ \ {e}, !.stamp = t]}
    /\ later' \in IF sender = "wait" THEN {later} ELSE {later \ {k}, later \cup {k}}
    /\ UNCHANGED <<query, wakers, cancels, expired, work, sender, sleep, ready, flights,
                   posted, faults>>

\* The mutant that notifies a sleeping thread but leaves no flag for one that
\* is busy.
WakeSleeper == work' = (work \/ sender = "wait")

\* mux.synchronized { work = true; mux.notifyAll() }
WakeSender == work' = TRUE

\* The last step of that future.
Added(a) ==
    /\ a.eps = {}
    /\ adds' = adds \ {a}
    /\ WakeSender
    /\ UNCHANGED <<query, wakers, cancels, queue, time, thread, flights, posted, faults>>

\* The last step of the thread of a failed post.
Rescheduled ==
    /\ wakers > 0
    /\ wakers' = wakers - 1
    /\ WakeSender
    /\ UNCHANGED <<query, adds, cancels, queue, time, thread, flights, posted, faults>>

\* The future of cancelNotifications.
CancelNotifications(c) ==
    /\ queue' = Without({k \in Key : UserOf[k[1]] = c[1] /\ k[2] \in c[2]})
    /\ cancels' = cancels \ {c}
    /\ UNCHANGED <<query, adds, wakers, time, work, thread, flights, posted, faults>>
------------------------------------------------------------------------------
(* The sender thread. *)

Due == {k \in Queued : ~queue[k].wait /\ ~queue[k].processed}

\* The thread is woken or its sleep is over; it reads the due entries.
Poll ==
    /\ sender = "wait"
    /\ work \/ sleep # "forever"
    /\ work' = FALSE
    /\ ready' = Restrict(queue, Due)
    /\ later' = {k \in Queued : queue[k].wait}
    /\ sender' = IF Due = {} THEN "send" ELSE "mark"
    /\ UNCHANGED <<query, futures, queue, time, sleep, flights, posted, faults>>

\* cache ++= processed: the snapshot, marked, overwrites whatever the keys
\* hold by now.
Mark ==
    /\ sender = "mark"
    /\ queue' = [k \in Key |-> IF k \in DOMAIN ready
                               THEN [ready[k] EXCEPT !.processed = TRUE] ELSE queue[k]]
    /\ later' = later \ DOMAIN ready
    /\ sender' = "send"
    /\ UNCHANGED <<query, futures, time, work, sleep, ready, flights, posted, faults>>

Group(u, e) == {k \in DOMAIN ready : UserOf[k[1]] = u /\ k[2] = e}

\* send: one post of a user's entries for an endpoint.
Send(u, e) ==
    LET G == Group(u, e) IN
    /\ sender = "send"
    /\ G # {} /\ \A k \in G : k[1] \notin BadJson
    /\ flights' = flights \cup {[k \in G |-> ready[k].version]}
    /\ ready' = Restrict(ready, DOMAIN ready \ G)
    /\ UNCHANGED <<query, futures, queue, time, work, sender, sleep, later, posted,
                   faults>>

\* U.js2Obj throws on a malformed body: the round ends, its other groups are
\* not posted, and the next sleep is the last one.
SendThrows(u, e) ==
    /\ sender = "send"
    /\ \E k \in Group(u, e) : k[1] \in BadJson
    /\ faults < MaxFault
    /\ faults' = faults + 1
    /\ ready' = Nothing /\ later' = {}
    /\ sender' = "wait"
    /\ UNCHANGED <<query, futures, queue, time, work, sleep, flights, posted>>

\* The round is over: sleep until the earliest later sendTime, if any.
Rest ==
    /\ sender = "send" /\ DOMAIN ready = {}
    /\ sleep' = IF later \cap Queued # {} THEN "timed" ELSE "forever"
    /\ sender' = "wait" /\ later' = {}
    /\ UNCHANGED <<query, futures, queue, time, work, ready, flights, posted, faults>>
------------------------------------------------------------------------------
(* The callbacks of a post. *)

\* HTTP 200: the keys of the post are removed, whatever they hold by now.
PostOk(f) ==
    /\ flights' = flights \ {f}
    /\ posted' = [k \in Key |-> posted[k] \cup (IF k \in DOMAIN f THEN {f[k]} ELSE {})]
    /\ queue' = Without(DOMAIN f)
    /\ UNCHANGED <<query, futures, time, work, thread, faults>>

Old(k) == k \in Queued /\ queue[k].stamp <= expired

\* The mutant of the failure callback that writes back entries it did not find.
RescheduleMissing(f, drop) ==
    LET missing == (DOMAIN f \ Queued) \ drop IN
    /\ wakers < MaxWakers
    /\ flights' = flights \ {f}
    /\ queue' = [k \in Key |->
         IF k \in missing
         THEN [version |-> f[k], wait |-> TRUE, attempts |-> 1, stamp |-> 0,
               processed |-> FALSE]
         ELSE queue[k]]
    /\ wakers' = wakers + 1
    /\ UNCHANGED <<query, adds, cancels, time, work, thread, posted, faults>>

\* A failed post drops the keys in `drop`, and reschedules and unmarks the
\* others that are still queued; the thread then wakes the sender.
Reschedule(f, drop) ==
    LET retry == (DOMAIN f \cap Queued) \ drop IN
    /\ wakers < MaxWakers
    /\ flights' = flights \ {f}
    /\ queue' = [k \in Key |->
         IF k \in drop THEN NoEntry
         ELSE IF k \in retry
         THEN [queue[k] EXCEPT !.wait = TRUE, !.processed = FALSE,
                               !.attempts = IF @ < DelaysCnt THEN @ + 1 ELSE @]
         ELSE queue[k]]
    /\ wakers' = wakers + (IF retry # {} THEN 1 ELSE 0)
    /\ later' = IF sender = "wait" THEN later ELSE later \cup retry
    /\ UNCHANGED <<query, adds, cancels, time, work, sender, sleep, ready, posted, faults>>

\* The mutant of the failure callback that gives up after the last delay.
PostFailsLastDelay(f) ==
    Reschedule(f, {k \in DOMAIN f : k[1] \notin live \/ Old(k)
                                    \/ (k \in Queued /\ queue[k].attempts = DelaysCnt)})

\* The mutant that fails a post without unmarking its entries.
PostFailsMarked(f) ==
    /\ wakers < MaxWakers
    /\ flights' = flights \ {f}
    /\ queue' = Without({k \in DOMAIN f : k[1] \notin live \/ Old(k)})
    /\ wakers' = wakers + 1
    /\ UNCHANGED <<query, adds, cancels, time, work, thread, posted, faults>>

\* Any other answer, or none: entries of queries that are gone and entries past
\* their lifetime are dropped, the others wait for their next attempt.
PostFails(f) == Reschedule(f, {k \in DOMAIN f : k[1] \notin live \/ Old(k)})
------------------------------------------------------------------------------
(* The cleaner, time and restarts. *)

\* The mutant of clean that orders by createdOn ascending.
Oldest(K, n) ==
    {k[1] : k \in {j \in K : Cardinality({i \in K : queue[i].stamp < queue[j].stamp}) < n}}

\* SELECT srvReqId ... ORDER BY createdOn DESC LIMIT n: requests of the n
\* newest of the rows K (rows of one addition have the same createdOn, any of
\* them comes first).
Newest(K, n) ==
    {k[1] : k \in {j \in K : Cardinality({i \in K : queue[i].stamp > queue[j].stamp}) < n}}

Rows(u) == {k \in Queued : UserOf[k[1]] = u}

OverUserLimit(u) == {k \in Rows(u) : k[1] \notin Newest(Rows(u), MaxUserSize)}

\* clean, one transaction: the per-user limit and the overall limit.  size() and
\* the query of the second do not see what the first has yet to commit.
Clean ==
    LET over == UNION {OverUserLimit(u) : u \in User}
        more == IF Cardinality(Queued) > MaxSize
                THEN {k \in Queued : k[1] \notin Newest(Queued, MaxSize)} ELSE {}
    IN
    /\ over \cup more # {}
    /\ queue' = Without(over \cup more)
    /\ UNCHANGED <<query, futures, time, work, thread, flights, posted, faults>>

\* sendTime is reached.
Elapse(k) ==
    /\ k \in Queued /\ queue[k].wait
    /\ queue' = [queue EXCEPT ![k].wait = FALSE]
    /\ UNCHANGED <<query, futures, time, work, thread, flights, posted, faults>>

\* lifeTimeMs has passed since the next createdOn.
Expire ==
    /\ expired < clock
    /\ expired' = expired + 1
    /\ UNCHANGED <<query, futures, queue, clock, work, thread, flights, posted, faults>>

\* The cache's own expiry policy: a day after the key was created, however often
\* its entry was replaced since.  When that is is left open but for the query,
\* whose own cache has dropped it long before, after three hours.
CacheExpires(k) ==
    /\ k \in Queued /\ k[1] \notin live
    /\ queue' = Without({k})
    /\ UNCHANGED <<query, futures, time, work, thread, flights, posted, faults>>

\* The server restarts: the caches are persistent, threads and posts are not.
Restart ==
    /\ faults < MaxFault
    /\ faults' = faults + 1
    /\ adds' = {} /\ wakers' = 0 /\ cancels' = {} /\ flights' = {}
    /\ work' = FALSE /\ sender' = "wait" /\ sleep' = "none" /\ ready' = Nothing /\ later' = {}
    /\ UNCHANGED <<query, queue, time, posted>>
------------------------------------------------------------------------------
SenderStep ==
    \/ Poll \/ Mark \/ Rest
    \/ \E u \in User, e \in Endpoint : Send(u, e) \/ SendThrows(u, e)

RunFuture ==
    \/ \E a \in adds : Added(a) \/ \E e \in a.eps : AddNotification(a, e)
    \/ \E c \in cancels : CancelNotifications(c)
    \/ Rescheduled

PostEnds == \E f \in flights : PostOk(f) \/ PostFails(f)

Next ==
    \/ \E r \in Req : SetReady(r) \/ RemoveQuery(r)
    \/ \E u \in User, E \in SUBSET Endpoint : SignOut(u, E)
    \/ RunFuture
    \/ SenderStep
    \/ PostEnds
    \/ Clean
    \/ \E k \in Key : Elapse(k) \/ CacheExpires(k)
    \/ Expire
    \/ Restart

Spec == Init /\ [][Next]_vars

\* Futures and the sender run, posts end (well or badly), time passes.  The
\* cleaner, sign-outs, cancellations and restarts may never happen.
Fairness ==
    /\ WF_vars(RunFuture) /\ WF_vars(SenderStep) /\ WF_vars(PostEnds)
    /\ WF_vars(Expire) /\ WF_vars(\E k \in Key : Elapse(k))

FairSpec == Spec /\ Fairness
------------------------------------------------------------------------------
(* Safety. *)

Carried(k) ==
    k \in DOMAIN ready \/ \E f \in flights : k \in DOMAIN f

\* An entry marked `processed` is one the sender is about to post or has a
\* post for: nothing else would ever send it again.
InCharge == \A k \in Queued : queue[k].processed => Carried(k)

\* Without restarts and failed rounds the sender never strands an entry,
\* whatever is added, cancelled, trimmed or rescheduled under its snapshot.
InChargeWithoutFaults == faults = 0 => InCharge

\* An entry leaves the queue for a reason: the endpoint accepted a state of
\* the query, the query is gone, the lifetime is over, the user signed out or
\* the queue was trimmed.  Running out of retry delays is not one of them.  (A
\* query is gone after three hours, though the queue would try for a day; and a
\* newer state may go with the post of the one before.)
NoSilentDrop ==
    [][\A k \in Queued : queue'[k] = NoEntry =>
         \/ posted'[k] # {} \/ k[1] \notin live \/ Old(k)
         \/ Clean \/ \E c \in cancels : CancelNotifications(c)]_vars

\* Trimming never drops a request of a user and keeps an older one of hers.
TrimsOldest ==
    [][Clean =>
         \A j, k \in Queued :
             UserOf[j[1]] = UserOf[k[1]] /\ queue'[j] = NoEntry /\ queue'[k] # NoEntry =>
                 \E e \in Endpoint : LET i == <<k[1], e>> IN
                     i \in Queued /\ queue[i].stamp > queue[j].stamp]_vars

(* Liveness. *)

\* Every notification eventually leaves the queue, posted or dropped, unless
\* a restart or a failed round strands it: no wake-up of the sender is lost.
Drains == \A k \in Key : k \in Queued ~> k \notin Queued \/ faults > 0
==============================================================================
