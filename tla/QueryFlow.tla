------------------------------ MODULE QueryFlow ------------------------------
(***************************************************************************)
(* The life of a query on the server: NCQueryManager (the query state      *)
(* cache), the processing log rows it keeps through NCProcessLogManager,   *)
(* askProbe / processMessageFromProbe of NCProbeManager, and the reply     *)
(* queue of the probe's NCConnectionManager.                               *)
(*                                                                         *)
(* The cache is read and written outside a transaction by setResult and    *)
(* setError, so each of them is three steps (read, write, log).  They run  *)
(* on the future of ask() when it fails and on the p2s readers: a probe    *)
(* that reconnects has two of them for a while (see ProbeLink).            *)
(***************************************************************************)
EXTENDS Integers, Sequences

CONSTANTS
    Req,        \* server request IDs
    Reader,     \* p2s reader threads of the probe's connections
    MaxLoss,    \* bound: messages lost with a broken connection
    MaxDup,     \* bound: replies sent twice by the downlink queue
    MaxSqlFail  \* bound: failed updates of the processing log

ASSUME BoundAssumption ==
    /\ MaxLoss \in Nat /\ MaxDup \in Nat /\ MaxSqlFail \in Nat
    /\ "ask" \notin Reader

VARIABLES
    cache,      \* qry-state-cache: the state of a query, or Absent
    log,        \* proc_log: status and outcome of a query's row
    ask,        \* progress of ask() and of its future
    cancel,     \* progress of cancel0 for a query
    handler,    \* setError / setResult in progress, by query and thread
    asks,       \* S2P_ASK messages on the uplink
    probe,      \* queries the probe works on
    dnQueue,    \* dnLinkQueue of the probe
    replies,    \* P2S_ASK_RESULT messages on the downlink
    told,       \* states handed to NCEndpointManager.addNotification
    missed,     \* queries that lost a message or a log update, or expired
    lost, dups, sqlFails

vars == <<cache, log, ask, cancel, handler, asks, probe, dnQueue, replies,
          told, missed, lost, dups, sqlFails>>

Outcome == {"result", "error"}
Thread == {"ask"} \cup Reader

Absent == [status |-> "absent", result |-> FALSE, error |-> FALSE]
Enlisted == [status |-> "QRY_ENLISTED", result |-> FALSE, error |-> FALSE]
State == {Absent, Enlisted}
         \cup [status : {"QRY_READY"}, result : BOOLEAN, error : BOOLEAN]

\* A call of setResult or setError: copy is the state it has read, last says
\* that no handler catches its failure.
Call == [step : {"idle", "read", "write", "log"}, outcome : Outcome, copy : State,
         last : BOOLEAN]
NoCall == [step |-> "idle", outcome |-> "error", copy |-> Absent, last |-> FALSE]
Begin(outcome, last) ==
    [step |-> "read", outcome |-> outcome, copy |-> Absent, last |-> last]

Message == [req : Req, outcome : Outcome]

TypeOK ==
    /\ cache \in [Req -> State]
    /\ log \in [Req -> {"none", "enlisted", "cancelled"} \cup Outcome]
    /\ ask \in [Req -> {"new", "enlisted", "logged", "sent", "done"}]
    /\ cancel \in [Req -> {"no", "removed", "done"}]
    /\ handler \in [Req \X Thread -> Call]
    /\ asks \subseteq Req /\ probe \subseteq Req /\ missed \subseteq Req
    /\ dnQueue \in Seq(Message) /\ replies \in Seq(Message)
    /\ told \in [Req -> SUBSET State]
    /\ lost \in 0 .. MaxLoss /\ dups \in 0 .. MaxDup /\ sqlFails \in 0 .. MaxSqlFail

Init ==
    /\ cache = [r \in Req |-> Absent]
    /\ log = [r \in Req |-> "none"]
    /\ ask = [r \in Req |-> "new"]
    /\ cancel = [r \in Req |-> "no"]
    /\ handler = [x \in Req \X Thread |-> NoCall]
    /\ asks = {} /\ probe = {} /\ missed = {}
    /\ dnQueue = <<>> /\ replies = <<>>
    /\ told = [r \in Req |-> {}]
    /\ lost = 0 /\ dups = 0 /\ sqlFails = 0

links == <<asks, probe, dnQueue, replies>>
counts == <<lost, dups, sqlFails>>
------------------------------------------------------------------------------
(* ask() and its future. *)

\* The query is enlisted in the cache.
Enlist(r) ==
    /\ ask[r] = "new"
    /\ cache' = [cache EXCEPT ![r] = Enlisted]
    /\ ask' = [ask EXCEPT ![r] = "enlisted"]
    /\ UNCHANGED <<log, cancel, handler, links, told, missed, counts>>

\* NCProcessLogManager.newEntry, then the future is submitted.
NewEntry(r) ==
    /\ ask[r] = "enlisted"
    /\ log' = [log EXCEPT ![r] = "enlisted"]
    /\ ask' = [ask EXCEPT ![r] = "logged"]
    /\ UNCHANGED <<cache, cancel, handler, links, told, missed, counts>>

\* newEntry throws out of ask(), which leaves the query enlisted.
NewEntryFails(r) ==
    /\ ask[r] = "enlisted"
    /\ sqlFails < MaxSqlFail
    /\ sqlFails' = sqlFails + 1
    /\ ask' = [ask EXCEPT ![r] = "done"]
    /\ missed' = missed \cup {r}
    /\ UNCHANGED <<cache, log, cancel, handler, links, told, lost, dups>>

\* The mutant of a future with no onFailure.
AskFailsSilently(r) ==
    /\ ask[r] = "logged"
    /\ ask' = [ask EXCEPT ![r] = "done"]
    /\ UNCHANGED <<cache, log, cancel, handler, links, told, missed, counts>>

\* Enrichment fails or no probe has the model: onFailure calls setError.
AskFails(r) ==
    /\ ask[r] = "logged"
    /\ ask' = [ask EXCEPT ![r] = "done"]
    /\ handler' = [handler EXCEPT ![<<r, "ask">>] = Begin("error", TRUE)]
    /\ UNCHANGED <<cache, log, cancel, links, told, missed, counts>>

\* askProbe: S2P_ASK is written to a probe that has the model.
SendAsk(r) ==
    /\ ask[r] = "logged"
    /\ ask' = [ask EXCEPT ![r] = "sent"]
    /\ asks' = asks \cup {r}
    /\ UNCHANGED <<cache, log, cancel, handler, probe, dnQueue, replies, told,
                   missed, counts>>

\* askProbe: NCProcessLogManager.updateProbe; if it fails, so does the
\* future, after the probe has been asked.
UpdateProbe(r) ==
    /\ ask[r] = "sent"
    /\ ask' = [ask EXCEPT ![r] = "done"]
    /\ \/ UNCHANGED <<handler, sqlFails>>
       \/ /\ sqlFails < MaxSqlFail
          /\ sqlFails' = sqlFails + 1
          /\ handler' = [handler EXCEPT ![<<r, "ask">>] = Begin("error", TRUE)]
    /\ UNCHANGED <<cache, log, cancel, links, told, missed, lost, dups>>
------------------------------------------------------------------------------
(* setResult and setError. *)

\* cache(srvReqId): a missing state is ignored (expired or cancelled).
ReadCache(r, t) ==
    /\ handler[<<r, t>>].step = "read"
    /\ handler' = IF cache[r] = Absent
                  THEN [handler EXCEPT ![<<r, t>>] = NoCall]
                  ELSE [handler EXCEPT ![<<r, t>>].step = "write", ![<<r, t>>].copy = cache[r]]
    /\ UNCHANGED <<cache, log, ask, cancel, links, told, missed, counts>>

\* The mutant of setResult / setError that leaves the status of the copy.
ReadyKeepsStatus(call) ==
    [status |-> call.copy.status,
     result |-> call.copy.result \/ call.outcome = "result",
     error |-> call.copy.error \/ call.outcome = "error"]

\* The copy with the call's outcome; the other outcome is not cleared.
Ready(call) ==
    [status |-> "QRY_READY",
     result |-> call.copy.result \/ call.outcome = "result",
     error |-> call.copy.error \/ call.outcome = "error"]

\* The mutant of setResult / setError that does not go on to the log.
WriteCacheNoLog(r, t) ==
    /\ handler[<<r, t>>].step = "write"
    /\ cache' = [cache EXCEPT ![r] = Ready(handler[<<r, t>>])]
    /\ told' = [told EXCEPT ![r] = @ \cup {Ready(handler[<<r, t>>])}]
    /\ handler' = [handler EXCEPT ![<<r, t>>] = NoCall]
    /\ UNCHANGED <<log, ask, cancel, links, missed, counts>>

\* The mutant of setResult / setError that notifies of the state it has read.
WriteCacheTellsRead(r, t) ==
    /\ handler[<<r, t>>].step = "write"
    /\ cache' = [cache EXCEPT ![r] = Ready(handler[<<r, t>>])]
    /\ told' = [told EXCEPT ![r] = @ \cup {handler[<<r, t>>].copy}]
    /\ handler' = [handler EXCEPT ![<<r, t>>].step = "log", ![<<r, t>>].copy = Absent]
    /\ UNCHANGED <<log, ask, cancel, links, missed, counts>>

\* cache += srvReqId -> copy, addNotification(copy).
WriteCache(r, t) ==
    /\ handler[<<r, t>>].step = "write"
    /\ cache' = [cache EXCEPT ![r] = Ready(handler[<<r, t>>])]
    /\ told' = [told EXCEPT ![r] = @ \cup {Ready(handler[<<r, t>>])}]
    /\ handler' = [handler EXCEPT ![<<r, t>>].step = "log", ![<<r, t>>].copy = Absent]
    /\ UNCHANGED <<log, ask, cancel, links, missed, counts>>

\* The mutant of setResult / setError that puts the state into the cache once
\* more when the row is written.
UpdateReadyPutsAgain(r, t) ==
    /\ handler[<<r, t>>].step = "log"
    /\ cache' = [cache EXCEPT ![r] = Ready(handler[<<r, t>>])]
    /\ log' = [log EXCEPT ![r] = handler[<<r, t>>].outcome]
    /\ handler' = [handler EXCEPT ![<<r, t>>] = NoCall]
    /\ UNCHANGED <<ask, cancel, links, told, missed, counts>>

\* NCProcessLogManager.updateReady overwrites the row's outcome.
UpdateReady(r, t) ==
    /\ handler[<<r, t>>].step = "log"
    /\ log' = [log EXCEPT ![r] = handler[<<r, t>>].outcome]
    /\ handler' = [handler EXCEPT ![<<r, t>>] = NoCall]
    /\ UNCHANGED <<cache, ask, cancel, links, told, missed, counts>>

\* updateReady throws.  processMessageFromProbe answers a failed setResult or
\* setError of its try block with a setError.  The failure of that one ends
\* the p2s thread and its connection (see ProbeLink), that of the one in
\* onFailure is dropped by the future; either way the row stays as it was.
UpdateReadyFails(r, t) ==
    /\ handler[<<r, t>>].step = "log"
    /\ sqlFails < MaxSqlFail
    /\ sqlFails' = sqlFails + 1
    /\ IF handler[<<r, t>>].last
       THEN /\ handler' = [handler EXCEPT ![<<r, t>>] = NoCall]
            /\ missed' = missed \cup {r}
       ELSE /\ handler' = [handler EXCEPT ![<<r, t>>] = Begin("error", TRUE)]
            /\ UNCHANGED missed
    /\ UNCHANGED <<cache, log, ask, cancel, links, told, lost, dups>>
------------------------------------------------------------------------------
(* The probe and the links. *)

\* The probe's uplink thread reads S2P_ASK.
ProbeReceives(r) ==
    /\ r \in asks
    /\ asks' = asks \ {r}
    /\ probe' = probe \cup {r}
    /\ UNCHANGED <<cache, log, ask, cancel, handler, dnQueue, replies, told,
                   missed, counts>>

\* NCProbeNlpManager responds through NCConnectionManager.send.
ProbeResponds(r, o) ==
    /\ r \in probe
    /\ probe' = probe \ {r}
    /\ dnQueue' = Append(dnQueue, [req |-> r, outcome |-> o])
    /\ UNCHANGED <<cache, log, ask, cancel, handler, asks, replies, told,
                   missed, counts>>

\* The downlink thread writes the head, then dequeues it.  If the write
\* reaches the server but fails on the probe, the head is written again on
\* the next connection.
SendReply ==
    /\ dnQueue # <<>>
    /\ replies' = Append(replies, Head(dnQueue))
    /\ \/ dnQueue' = Tail(dnQueue) /\ UNCHANGED dups
       \/ dups < MaxDup /\ dups' = dups + 1 /\ UNCHANGED dnQueue
    /\ UNCHANGED <<cache, log, ask, cancel, handler, asks, probe, told, missed,
                   lost, sqlFails>>

\* A connection breaks with a message in its buffers; neither side resends it.
LoseMessage ==
    /\ lost < MaxLoss
    /\ lost' = lost + 1
    /\ \/ \E r \in asks :
            /\ asks' = asks \ {r}
            /\ missed' = missed \cup {r}
            /\ UNCHANGED replies
       \/ /\ replies # <<>>
          /\ missed' = missed \cup {Head(replies).req}
          /\ replies' = Tail(replies)
          /\ UNCHANGED asks
    /\ UNCHANGED <<cache, log, ask, cancel, handler, probe, dnQueue, told,
                   dups, sqlFails>>

\* A p2s thread reads a reply; it handles one at a time.
ReceiveReply(t) ==
    /\ replies # <<>>
    /\ \A r \in Req : handler[<<r, t>>].step = "idle"
    /\ handler' = [handler EXCEPT ![<<Head(replies).req, t>>] =
                     Begin(Head(replies).outcome, FALSE)]
    /\ replies' = Tail(replies)
    /\ UNCHANGED <<cache, log, ask, cancel, asks, probe, dnQueue, told, missed,
                   counts>>
------------------------------------------------------------------------------
(* cancel0 and expiry. *)

\* The transaction of cancel0: the keys are removed before the states of the
\* cancelled queries are looked up, so none is found and no notification is
\* cancelled.
CancelRemove(r) ==
    /\ ask[r] # "new" /\ cancel[r] = "no"
    /\ cache' = [cache EXCEPT ![r] = Absent]
    /\ cancel' = [cancel EXCEPT ![r] = "removed"]
    /\ UNCHANGED <<log, ask, handler, links, told, missed, counts>>

\* NCProcessLogManager.updateCancel.
CancelLog(r) ==
    /\ cancel[r] = "removed"
    /\ log[r] # "none"
    /\ log' = [log EXCEPT ![r] = "cancelled"]
    /\ cancel' = [cancel EXCEPT ![r] = "done"]
    /\ UNCHANGED <<cache, ask, handler, links, told, missed, counts>>

\* It throws if the update fails, or if no row is updated because ask() has not
\* inserted it yet: the query is gone, its row is or will be enlisted.
CancelLogFails(r) ==
    /\ cancel[r] = "removed"
    /\ IF log[r] = "none" THEN UNCHANGED sqlFails
       ELSE sqlFails < MaxSqlFail /\ sqlFails' = sqlFails + 1
    /\ missed' = missed \cup {r}
    /\ cancel' = [cancel EXCEPT ![r] = "done"]
    /\ UNCHANGED <<cache, log, ask, handler, links, told, lost, dups>>

\* The cache's expiry policy: three hours after the entry was created.
Expire(r) ==
    /\ cache[r] # Absent
    /\ cache' = [cache EXCEPT ![r] = Absent]
    /\ missed' = missed \cup {r}
    /\ UNCHANGED <<log, ask, cancel, handler, links, told, counts>>
------------------------------------------------------------------------------
AskStep(r) == Enlist(r) \/ NewEntry(r) \/ AskFails(r) \/ SendAsk(r) \/ UpdateProbe(r)
HandlerStep(r, t) == ReadCache(r, t) \/ WriteCache(r, t) \/ UpdateReady(r, t)
ProbeStep(r) == ProbeReceives(r) \/ \E o \in Outcome : ProbeResponds(r, o)
CancelEnds(r) == CancelLog(r) \/ CancelLogFails(r)
SendOk == SendReply /\ dnQueue' # dnQueue

Next ==
    \/ \E r \in Req : \/ AskStep(r) \/ ProbeStep(r)
                      \/ NewEntryFails(r) \/ CancelRemove(r) \/ CancelEnds(r) \/ Expire(r)
    \/ \E r \in Req, t \in Thread : HandlerStep(r, t) \/ UpdateReadyFails(r, t)
    \/ SendReply \/ LoseMessage \/ \E t \in Reader : ReceiveReply(t)

Spec == Init /\ [][Next]_vars

\* Threads run, the probe answers what it was asked, and a connection is
\* eventually up for the downlink queue (Stabilises of ProbeLink).
Fairness ==
    /\ \A r \in Req : WF_vars(AskStep(r)) /\ WF_vars(ProbeStep(r)) /\ WF_vars(CancelEnds(r))
    /\ \A r \in Req, t \in Thread : WF_vars(HandlerStep(r, t))
    /\ WF_vars(SendOk) /\ WF_vars(\E t \in Reader : ReceiveReply(t))

FairSpec == Spec /\ Fairness
------------------------------------------------------------------------------
(* Safety. *)

Quiet(r) == \A t \in Thread : handler[<<r, t>>].step = "idle"

\* A cached query that is ready, was not cancelled and is not being updated
\* has a processing log row that is ready too: the two stores agree although
\* they are written by separate calls of several threads.  As long as no
\* update of the log has failed, the row's outcome is one the cache holds.
LogAgrees ==
    \A r \in Req :
        cache[r].status = "QRY_READY" /\ cancel[r] = "no" /\ Quiet(r)
            /\ r \notin missed =>
        /\ log[r] \in Outcome
        /\ sqlFails = 0 => \/ log[r] = "result" /\ cache[r].result
                           \/ log[r] = "error" /\ cache[r].error

\* A cancelled or expired query never comes back: replies that arrive later
\* are ignored ("Safely ignore missing status (cancelled before)").
NoResurrection ==
    [][\A r \in Req : ask[r] # "new" /\ cache[r] = Absent => cache'[r] = Absent]_vars

\* Only a reply that was read before the cancellation can bring the query
\* back: when no handler holds a copy, a query that is gone stays gone.
GoneStaysGone ==
    [][\A r \in Req :
         /\ ask[r] # "new" /\ cache[r] = Absent
         /\ \A t \in Thread : handler[<<r, t>>].step # "write"
         => cache'[r] = Absent /\ told'[r] = told[r]]_vars

(* Refinement: threads, links and log are hidden. *)

NotYet == [status |-> "new", result |-> FALSE, error |-> FALSE]
NoMore == [status |-> "gone", result |-> FALSE, error |-> FALSE]

Seen(r) ==
    IF ask[r] = "new" THEN NotYet ELSE IF cache[r] = Absent THEN NoMore ELSE cache[r]

Giving(r) == {t \in Thread : handler[<<r, t>>].step = "write"}

Life == INSTANCE QueryLife WITH
    Writer <- Thread,
    life <- [r \in Req |-> Seen(r)],
    giving <- [r \in Req |-> Giving(r)]

\* The query manager keeps what QueryLife promises: setResult and setError of
\* several threads, cancel0 and expiry in any order neither enlist a query
\* again nor answer one without an outcome, and the endpoints are told the
\* very states that check() shows.
ImplementsQueryLife == Life!Spec

(* Liveness. *)

\* A query is eventually ready or gone, unless a message about it was lost:
\* failures before and after the probe was asked, rejections by the model and
\* duplicate replies all end in QRY_READY.
Answered ==
    \A r \in Req :
        cache[r].status = "QRY_ENLISTED" ~>
            cache[r].status # "QRY_ENLISTED" \/ r \in missed

\* The processing log row of a query does not stay enlisted either, unless
\* the query also expired or was cancelled before the row was inserted.
LogSettles ==
    \A r \in Req : log[r] = "enlisted" ~> log[r] # "enlisted" \/ r \in missed
==============================================================================
