# NLPCraft: a verification development

NLPCraft answers natural-language questions. A **server** keeps users, queries
and notifications; **probes** (separate processes, often behind a firewall) hold
the data models and answer the queries the server forwards to them. The logic
that is hard to get right is not linguistic: it is the life of connections,
queries and notifications across threads, processes, a replicated cache, a SQL
table and HTTP posts. This directory models that logic in TLA+, checks it with
TLC on small instances and proves part of it with TLAPS.

Paths below are relative to `src/main/scala/org/nlpcraft/` unless they say more.

## 1. Inventory

### Parts, state and operations

| Part | State | Operations | Talks to |
|---|---|---|---|
| Probe manager, `server/probe/NCProbeManager` | maps `pending` and `probes` (key: token, ID, run-time GUID), one reader thread per downlink | uplink and downlink handshake handlers, `sendToProbe`, pinger, `closeAndRemoveHolder`, `askProbe`, `processMessageFromProbe` | probes over two sockets each; query manager; processing log |
| Connection manager, `probe/mgrs/conn/NCConnectionManager` | control thread, two sockets, `dnLinkQueue` | handshakes, retry after 10 s, `abort`, `send`, uplink and downlink threads | probe manager; command manager |
| Query manager, `server/query/NCQueryManager` | `qry-state-cache` (3 h expiry) | `ask`, `setResult`, `setError`, `cancel`, `check` | probe manager, processing log, endpoint manager |
| Processing log, `server/proclog`, `server/sql` | table `proc_log` | `newEntry`, `updateProbe`, `updateReady`, `updateCancel` | SQL |
| Endpoint manager, `server/endpoints/NCEndpointManager` | persistent `endpoint-cache`, `work` flag, sender thread, cleaner | `addNotification`, `cancelNotifications`, sender rounds, post callbacks, `clean` | query manager, users' HTTP endpoints |
| User manager, `server/user/NCUserManager` | sessions by token, tokens by user, user table | sign in and out, password reset, access, endpoint registry, idle-session scanner | endpoint manager, REST API |
| Event push, `server/notification/plugins/restpush` | a bounded queue per endpoint | `onEvent`, timer `flush` | HTTP endpoints |
| Probe NLP manager, `probe/mgrs/nlp` | none of its own | `ask`: validate, enrich, run the model, respond | conversation, connection manager |
| Conversation, `probe/mgrs/nlp/conversation` | short-term memory, last used tokens, context per user and model | `update`, `addItem`, `clear`, hourly cleaner | NLP manager, models |
| Intent solver, `model/intent` | none | `solve`: match intents with variants and conversation, order the matches, call back | models, conversation |
| Enrichers, collapser, macro parser, builders | stateless algorithms | | |

### How they interact

A probe opens an *uplink* (server to probe), gets `S2P_PROBE_OK` and is
`pending`, then opens a *downlink* (probe to server), gets `P2S_PROBE_OK` and is
in `probes`. `ask` enlists a query in the cache, inserts a log row and, in a
future, enriches the text and writes `S2P_ASK` to the uplink of a probe that has
the model. The answer comes back through the probe's downlink queue to the p2s
reader, which calls `setResult` or `setError`: cache, endpoint notification, log.
The notification is an entry of the endpoint cache that the sender thread posts,
with retries, until the endpoint answers 200. All managers report events to the
event push.

### What is hard here

* **Interleaving and atomicity.** A probe that reconnects has stale readers and
  delayed writes on the server which remove its registration *by key*; handshake
  checks and map updates are separate steps; `setResult` reads and writes the
  cache without a transaction; the sender overwrites entries with a snapshot.
* **Failure.** Connections break at any point, with messages in their buffers;
  replies are repeated; SQL updates fail between two related writes; a restart
  forgets threads but not the persistent queue.
* **Waiting.** The wake-up flag of the sender, joins between readers, retries
  whose delay list runs out, timers that must survive an exception.
* **Boundaries.** Queue limits, batches, duplicate counts.
* **Staleness.** A running query answers from a context that was replaced, cleared
  or dropped in the meantime; a session is written back after it has ended.
* **Lock order.** Transactions lock a user's list and the sessions in both orders.

`PROJECT.json` lists each of these hazards at its line with the property that
watches it, or the reason why there is none yet.

### What makes each part correct

* Registration: a registered probe is listened to; an open connection is not
  forgotten; a probe is not refused because of itself; IDs are unique; when the
  network calms down server and probes agree.
* Queries: cache and log agree; a query ends ready or gone; gone means gone.
* Notifications: an entry leaves the queue only for a reason, is never stranded,
  the queue drains and is bounded; the oldest go first.
* Event push: nothing is lost, reordered or repeated without a failed post or a
  full buffer.
* Conversation: the memory has one value of each group; what is not used is
  forgotten; what was forgotten or cleared does not come back; a conversation that
  is not used is dropped.
* Intent solver: a match is found if there is one; the sentence goes before the
  history; what is used of the history stays in the memory.
* Sessions: list and sessions agree; a password reset ends the sessions of the list,
  a sign-out its session for good; idle sessions end.

## 2. Modules

| Module | Models | MC module, runs |
|---|---|---|
| `ProbeLink` | both ends of the probe registration | `MCProbeLink`: ProbeLinkReconnect, ProbeLinkDuplicates, ProbeLinkUnique |
| `ProbeLink_proofs` | theorems about it | |
| `QueryFlow` | query state, log, links, probe | `MCQueryFlow`: QueryFlow, QueryFlowCancel |
| `QueryLife` | what the query manager promises its clients, abstractly | refined in QueryFlow |
| `QueryFlow_proofs`, `QueryRefinement` | theorems about `QueryFlow`; that it implements `QueryLife` | |
| `QueryLog_proofs` | that cache and processing log agree | |
| `Endpoints` | endpoint notifications | `MCEndpoints`: Endpoints, EndpointsCrash |
| `Endpoints_proofs` | theorems about it | |
| `RestPush` | event push of one endpoint | itself: RestPush, RestPushBatches |
| `RestPush_proofs` | theorems about it | |
| `Tokens` | tokens as conversation and solver see them (data only) | |
| `Conversation` | short-term memory, its map and cleaner, the requests that use it | in Dialogue |
| `IntentSolver` | the matching engine, as operators | in Dialogue |
| `Dialogue` | conversations with a model that answers by intents: composes the two | `MCDialogue`: Dialogue |
| `Dialogue_proofs` | theorems about conversations and the intent solver | |
| `Sessions` | sessions of a user under the transactions' locks | `MCSessions`: Sessions, SessionsSignOut |
| `Sessions_proofs` | theorems about it | |

Operators that begin their comment with "The mutant of" are plausible bugs: each
replaces the definition it is named after to show that a property can fail. They
are no part of the specifications.

Sequences are filtered by `Keep` (the elements at given positions) and loops over
them are recursive functions: the library's `SelectSeq` and folds take operators, of
which TLAPS can prove nothing.

### ProbeLink

A probe process is a run-time GUID, so a restarted probe is another value with
the same `IdOf`. Every pass of the probe's control loop is an *attempt* `c` with
two sockets. `up[<<p, c>>]` and `dn[<<p, c>>]` are the stages of the two server
handlers; each handler is split where it releases a lock: `UplinkCheck` (duplicate
and version check), `UplinkRegister` (`pending +=`), `DownlinkTake`
(`pending.remove`), `DownlinkRegister` (`probes +=`, respond, start the reader,
all under one lock). `task[s]` is the p2s reader of a downlink or a `sendToProbe`
future of an uplink; `RemovePending`, `RemoveActive` and `CloseHolder` are the
three steps of `closeAndRemoveHolder`, with the interrupt and the join of
`stopThread`. The join is awaited by writers only: a reader that closes a holder
is interrupted itself, so its join throws at once. A socket is in `closed` when
either end closed it or the network broke it; each end notices in a step of its
own. `HandshakeTimesOut` leaves the socket that was being opened open, as the code
does: it is not yet assigned when `closeAll` runs.

*Abstracted:* the contents of messages (only whether the token and version are
accepted: `Compatible`), the accept loop, socket time-outs outside the handshake
(a reader whose read times out just reads again). At most one write is in flight
per uplink.

### QueryFlow

The query's cached state, its log row, and the way of a query through ask, probe
and reply. `setResult` and `setError` are three steps, `ReadCache`, `WriteCache`
(with `addNotification`) and `UpdateReady`, which run on the future of `ask` or on
one of the p2s readers; two readers stand for a connection and its stale
predecessor, which ProbeLink shows can coexist. The outcome is one of result and
error; `Ready` does not clear the other one, nor does the code. Replies may be
sent twice, as the downlink thread removes the head of its queue after writing it.
`missed` collects the queries whose loss the properties must excuse: a message
lost with its connection, a log update that failed for good, an expiry.
`CancelRemove` cancels no notification since `cancel0` looks the states up after
it has removed them.

*Abstracted:* texts, models and enrichment; the choice among several probes with
the model; a multi-query cancel is one cancel per query.

### Endpoints

The queue entry has the result's version, whether its `sendTime` is still to come
(`wait`), the attempts, the order of its `createdOn` (`stamp`) and `processed`. The
clock is abstract: `Elapse` reaches a send time, `Expire` lets the lifetime of the
next addition end. The sender is `Poll` (wait, clear the flag, read the snapshot),
`Mark` (write it back marked), one `Send` per user and endpoint, and `Rest` (compute
the next sleep); `later` is what the last query of the round sees. The post
callbacks `PostOk` and `PostFails` are transactions and one step each;
`addNotification` puts one entry per step and then wakes the sender. `Restart`
keeps the cache (Ignite persistence, `src/main/resources/ignite.xml:186`) and
forgets threads, futures and posts. `Clean` computes the two things it drops, what is
over a user's limit and what is over the limit of the queue, from the same
committed entries, as neither `cache.size()` nor the SQL query sees the removals its
transaction has yet to commit.

*Abstracted:* the fields of a notification; failures of Ignite itself. The cache
drops an entry a day after its *creation* (`CacheExpires`), while the model
counts no time from there: the action may happen at any time once the query is gone,
which is earlier (three hours, `src/main/resources/ignite.xml:163`). The
sender's catch block can be reached through malformed bodies (`SendThrows`) only.

### RestPush

Events are numbers. `Flush` trims and copies the queue under its lock, `PostOk` or
`PostFails` is a post of the current batch, `Clear` removes as many records from the
head of the queue as the batch had, and `onEvent` may come in between. The bounds
of `subList` are translated as written (`From`, `To`), so a second full batch is
empty and a third throws (`SubListThrows`). `long` remembers whether a flush has
had two full batches.

### QueryLife

The life of a query as clients and endpoints see it, with no threads, links or
log: new, enlisted, ready (perhaps again, with another outcome), gone. `giving` is
who is about to answer; an answer may come after the query is gone, which is the
one promise that `NoResurrection` shows the code does not give. Endpoints are
told the states in which the query became ready and no others. In `QueryFlow` the
refinement mapping is `Seen` (cache and progress of `ask`) and `Giving` (handlers
between their read and their write); what threads, probe, links and log do beside
that is hidden.

### Conversation and Dialogue

One user and one model; other conversations share nothing. `mem[c]` is a
conversation *object*: the map holds at most one (`cur`), running queries may hold
others that the cleaner has dropped. `stm` is a sequence of items, an item a
sequence of tokens with the age of `tokenTypeUsageTime`; `lastUsed`, `ctx`,
`attempt` and `idle` are the other fields, `update`, `addItem`, `clear` and `tokens`
the methods, each under the object's lock and hence one step. Requests come one by
one from the uplink thread, which calls `update` and submits the query (`Ask`);
queries then read the context (`ReadContext`) and add their answer (`Answer`), in
any order, or fail. Times are ages, capped where the code no longer tells them
apart, so the clock needs no bound; names of requests that have left no token are
used again, so requests need none either. `troubles` bounds how often requests
overlap or something is cleared.

`Dialogue` says what a query answers: the tokens of a match that `IntentSolver`
may choose, or tokens the model has set by hand. `IntentSolver` follows the engine:
`collect` fills an item from the sentence and then from the conversation,
`solveTerm` and `addTerm` go through items and terms with the set of used tokens,
and a term of an ordered intent that matched nothing makes the comparison of
indices throw. The order of matches is that of `Weight`, then of variants; equal
ones are chosen freely, as the code orders them by hash codes.

*Abstracted:* a token is its request, variant, position and element; what is asked
of it (group, kind, words, sparsity) is the constant `Info`. An item accepts a set of
elements with one weight; the code adds up three. Enrichment and the rule language
of intents are left out.

### Sessions

One user; users share no keys. `tokenSigninCache` maps tokens to the age of their
last access, `idSigninCache` is the user's list of tokens, `lock` the locks of the
running transactions. `NCTxManager.startTx` uses Ignite's defaults (pessimistic,
repeatable read, no timeout): a transaction locks each key it reads or writes, holds
its locks until it commits and writes then. `NextKeys` is the order in which each
transaction locks: a reset the list and then the sessions, sign-out and scanner a
session, then the list, then further sessions. `signin` writes a key nobody else
knows, so it is one step when the list is free. `getUserIdForAccessToken` and
`updateEndpoints` are not transactions: `Read`, then `WriteBack`, with anything in
between. The two caches expire a day after the *creation* of an entry, so a list
may go while newer sessions stay. The session a list is created for (`first`) is put
before the list (lines 360-365) and may for a moment expire without it. `stray`
remembers tokens written back after their session ended, and those whose list has
expired.

*Abstracted:* users, passwords, endpoint sets; of time only whether a session has
been idle long enough. The scanner's one transaction covers the idle sessions of all
users, so that it waits for, and can deadlock with, more than the model shows.

## 3. Runs

Bounds are constants of the modules and named "bound" there. Deadlock is checked in
Dialogue and Sessions, whose clocks always tick; the other systems may legally stop
(a probe exits for good, all events are pushed, a sender with an empty queue sleeps
for ever).

| Run | Bounds | Shows |
|---|---|---|
| ProbeLinkReconnect | 1 process, 3 attempts, handlers end before the retry | the safety properties and `Stabilises`, with every order of stale readers, writers and handshakes of three consecutive connections |
| ProbeLinkDuplicates | 3 processes of one ID (one refused by version), 1 attempt each, slow handlers | duplicate detection under concurrent handshakes and abandoned attempts |
| ProbeLinkUnique | 2 processes of one ID | **violated**: both are accepted, the count is compared with `> 1` |
| QueryFlow | 1 query, 2 readers, 1 lost message, 1 repeated reply, 2 failed log updates | agreement of cache and log, that every query ends, and that the whole implements `QueryLife` |
| QueryFlowCancel | 1 query, 1 reader, no failures | **violated**: a cancelled query comes back |
| Endpoints | 2 queries of one user, one malformed, 2 results in all, 1 endpoint, 1 delay, 1 waiting wake-up, limits of 1, 1 restart or failed round | no stranding, no silent drop, the cleaner drops the oldest, the queue drains |
| EndpointsCrash | 1 query, 1 restart | **violated**: a marked entry is stranded |
| RestPush | 7 events, batches of 2, buffer of 6, 2 failures | lossless, in order, no repeats, drains |
| RestPushBatches | 5 events, no failure | **violated**: an unsent event is removed |
| Dialogue | 4 elements of 4 groups, 2 sentences (one with two parsings), 2 intents, memory depth 2, 3 requests known and 2 running at a time, 1 overlap or clear | the memory's invariants, that nothing forgotten comes back, that the greedy search is complete and solver and memory agree on groups |
| Sessions | 2 sessions, 2 clients, the scanner, idle after 1 tick | list and sessions agree, a reset ends the listed sessions, idle sessions end |
| SessionsSignOut | 1 session, 2 clients, the scanner | **violated**: a signed-out token is valid again |

*Why the bounds are enough.* Three attempts are needed for a stale reader of the
first connection to meet the pending holder of the second and the active one of
the third. Duplicate detection counts registered holders, so three processes are
the first case in which the count reaches the refusal. Two readers and a repeated
reply are the fewest for two handlers of one query to overlap, two failed log
updates the fewest to fail both the handler and its catch block. Two results
are the fewest for a new entry to be overwritten by an old snapshot, when they are of one
query, and for the cleaner to choose between, with a limit of one, when they are of two. Seven
events in batches of two exceed the buffer, fill three batches and leave a
remainder. In Dialogue three requests are the fewest for one item to be replaced
past an intermediate one (the mutant of `Overridden` that looks at the next item
only is found), a depth of two the least at which `MAX_DEPTH` answers and
`MAX_DEPTH` requests per answer differ from one; the sentences share a group, so that
a memory and a request compete for it, and one has two parsings. One intent may take one or two tokens of
two groups, the other is ordered with an optional term, so that it can throw. In
Sessions two tokens are the fewest for the scanner and a reset to lock in opposite
orders, two clients and the scanner for three transactions to meet.

*Fairness.* Threads and futures run (weak fairness of the probe's control thread,
of each handler, reader and writer, of the sender, of futures and of the timer).
The pinger keeps sending (`Send`), which is what detects a dead uplink. The probe
answers what it has read, as every path of `NCProbeNlpManager.ask` ends in a
response. A post ends, well or badly; time passes. Nothing is assumed of the
network, of users, of restarts, of the cleaner, of expiry in the query cache or of
failures: these may happen or not. Queries of models need not end, so Dialogue has
only a clock and a cleaner that go on. In Sessions the steps of a request that has
begun and of the scanner are strongly fair: Ignite grants a lock in the order of the
requests for it, so a transaction that waits gets a lock that is released again and
again. What is not assumed is that two transactions which wait for each other go on:
`IdleSessionsEnd` excepts them (`Deadlocked`). `ReceiveReply` is fair because ProbeLink's
`Stabilises` gives a connection to read from.

*`Stabilises` and `LiveIsRegistered`* are checked with `SlowHandlers = FALSE`: a
handler has ended before the probe's next attempt, which starts at least 10 s
after the previous one failed. Without it a handler that answers an abandoned
attempt can overwrite the newer registration; both properties then fail. The other
safety properties hold for slow handlers too (run ProbeLinkDuplicates) and are proved
without the hypothesis; `LiveIsRegistered` is proved with it.

## 4. Violations

Five runs end in a counterexample that shows a disagreement of the code with what
the repository says; `PROJECT.json` quotes the lines. In short: a duplicate probe
ID is accepted once; a cancellation that meets `setResult` between its read and
write is undone; a restart strands notifications being sent; a flush with two full batches
discards events it has not sent; a session that a request has read before the
sign-out is written back after it, and the token is valid again.

The properties of the passing runs are stated so that they show what does hold
beside these: `GoneStaysGone` (nothing else revives a query),
`InChargeWithoutFaults` (nothing else strands an entry), `LosslessIfShort`
(nothing else loses an event), `SessionsAreListed` and `ResetEndsSessions` (no
other session is off the list or survives a reset: *strays*, which were written back
or have outlived the list, do survive it, although they were on the list once).

What the passing runs excuse is not shown to be right. `Answered` and `LogSettles`
say nothing of a query in `missed`, `LogAgrees` compares outcomes only if no update of
the log has failed, `InChargeWithoutFaults` and `Drains` say nothing after a restart or a failed
round, `IdleSessionsEnd` nothing of two transactions that wait for each other.
`NoSilentDrop` accepts that an entry goes because an older state of it was
accepted, so that the newer one is never sent, and that it goes because its query has
expired, after three hours, while `src/main/resources/application.conf:157` speaks of a day.

Not made runs, but met while modelling: `maxPerUserSize` limits the requests and not
the entries of a user (`NCEndpointManager` 236), so a user with several endpoints
keeps more entries; the comment on `MAX_DEPTH` ("not used in last 3 requests",
`NCConversation` 56) counts answers with a result, which gives the bound of
`ForgottenInTime`; a password reset and a sign-out of one user can wait for each
other for ever.

## 5. Proofs

TLAPS checks, for every value of the constants:

* `ProbeLink_proofs!TypeCorrect`. `TypeOK` is not inductive. Closing the sockets of
  the current attempt needs that there is one (`Attempting`), and storing a holder
  needs that the handler has taken one (`Taken`); `TypeInv` is the conjunction.
* `ProbeLink_proofs!RegisteredProbesAreRead`. `RegisteredIsRead` is inductive relative
  to `TypeInv`: registration starts the reader in the same step or meets a closed
  socket, a reader stops running only on a closed socket or when interrupted, and
  the interrupt comes in the step that removes its holder from `probes`.
* `ProbeLink_proofs!NoProbeIsItsOwnDuplicate`. The strengthening `DuplicateInv` adds
  that attempts to come have idle handlers (`Fresh`), that the holder in `probes`
  belongs to a handler that has ended (`Completed`). A count above one then names
  a second process (a cardinality argument over the finite set of processes) that
  has completed its handshake, and handlers that ended stay ended.
* `ProbeLink_proofs!ConnectedIsRegistered`: `LiveIsRegistered` for any number of probes
  and attempts, under `~SlowHandlers` (`RETRY_TIMEOUT` is 10 s). The property looks at
  one moment at which removals *by key* by old readers and writers must not have hit
  the new holder, so the invariant follows the current attempt through its two
  handshakes: the server works on no other attempt (`HandlersAreCurrent`), the downlink
  comes after the uplink (`UplinkFirst`), the pending holder is its own or gone
  (`PendingIsCurrent`), the downlink handler has taken that one (`OwnUplink`), and once
  both are done it is in `probes` or with a task that is closing it
  (`AcceptedIsRegistered`, with `Closing`, `Unread` and `LiveIsAccepted`).
* `QueryFlow_proofs!TypeCorrect`: `TypeOK` is inductive as it stands.
* `QueryFlow_proofs!GoneQueriesStayGone`, an action property: of all actions only
  `Enlist` and `WriteCache` put a state into the cache, the first for a new query,
  the second from a handler that is writing.

* `QueryRefinement!Refinement`: `QueryFlow` implements `QueryLife`. Steps that touch
  neither cache, notifications nor the copies of handlers are stutters
  (`HiddenStep`); the others map to one abstract action each. The mapping needs
  that nobody answers a query `ask` has not enlisted, or the write of a reply
  would be the enlisting of a new query: `NothingEarly` says that what is on the
  links, in the probe or with a handler has been asked, and is proved with the
  contents of the queues (`QueueElements`).
* `Sessions_proofs`: `TypeCorrect`, `ListNamesSessions`, `SessionsFound` and the action
  property `ResetIsThorough`. The inductive invariant adds to them that a password
  reset holds the lock of the list and that what it has read is still the list
  (`ResetHasTheList`), and that a scan has found something (`OpsAreOnIssued`), from
  which a transaction that commits holds the list (`CommitHoldsList`). `ListNamesSessions`
  excepts the token a list was created for (`first`), `SessionsFound` and
  `ResetIsThorough` the strays.
* `QueryLog_proofs!CacheAndLogAgree`: `LogAgrees` says nothing of a query that is being
  answered, so it is far from inductive. `LogInv` adds that as long as no update of
  the log has failed everything under way for a query (replies, calls in progress,
  their copies, row and cached state) has one outcome, which holds because the
  query is asked once and answered once (`Unanswered` until then), and that whoever
  made it ready is not done before the row is. Two `setResult` / `setError` calls with
  *different* outcomes could leave the two stores apart; the theorem says that a
  failed update is the only way to get there.
* `Endpoints_proofs!SenderIsInCharge`, with the invariant that a waiting sender has
  nothing left of its last round (`NothingLeft`) and the shape of the entries, and
  `NothingDropsSilently` from the same invariant.
* `Endpoints_proofs!TrimmingDropsTheOldest`: the cleaner's rank of a row is a cardinality,
  which says something of finite sets only. The queue is finite even if the
  requests are not (`FiniteQueue`, which the sender's snapshot must share, as it
  is written back); then a request that goes while another of the user stays has no
  row newer than all rows of that one (`NewestFacts`).
* `Endpoints_proofs!TypeCorrect`, for finitely many requests. What takes work in
  `TypeOK` is the bound on the creation times: the clock never exceeds the number of
  results that have been given a time (`Counted`, `Numbered`), because each result of a
  request has one `addNotification` and that takes the time once for all its entries.
* `Dialogue_proofs`: `TypeCorrect`, `OneItemPerGroupHolds`, `OnlyOwnTokensEnterHolds`,
  `ForgottenInTimeHolds`, `UsedIsRememberedHolds`, `SearchIsCompleteHolds` and
  `SentenceBeforeHistoryHolds`, for any requests, sentences, intents, depth and delays. A step is an update by a request (`Ask`), an answer
  (`Answer`), or leaves every memory as it is, smaller or empty (`QuietSteps`). What
  `update`, `addItem` and `clear` do to a memory is stated once, in `UpdateFacts`,
  `AddItemFacts` and `ClearFacts`, with `KeepFacts` and `FlattenFacts` about sequences;
  their loops are followed by induction over a *set* of numbers, which the least-element
  principle gives (lemma `Induction`).
  - `TypeOK` and the absence of a common group need the shape of memories (`Types`) and that
    the items of a memory are apart after each addition (`AllDistinct`).
  - `ForgottenInTime` bounds requests, the code counts answers: `InTime` bounds a token's
    age by the answers since its last use, each worth at most `MAX_DEPTH` requests, plus
    the requests since the last answer; `addItem`'s list of the last uses is what
    keeps the first number below `MAX_DEPTH`.
  - `UsedIsRemembered` is about two exclusions of groups made at different times, by
    the solver when it matches and by `addItem` when it stores: the tokens of a request
    are nowhere in a memory before it answers (`Apart`), it reads tokens of others only
    (`ReadsOthers`), and a match uses conversation tokens of none of the sentence's
    groups (`SolveIntentFacts`, by induction over terms, items and tokens).
  - `SearchIsComplete` and `SentenceBeforeHistory` rest on what one item takes: the first
    tokens that fit it, in the order of sentence and conversation, as many as it may
    have (`CollectTakes`). That items and terms only add to this without taking back
    preserves the order of preference (`TermPrefers`, `TermsPrefer`). When the intent is
    unordered, items share no element and none accepts user elements together with
    others (`Simple`), each takes what it would take alone (`TermsFind`), and taking
    the first that fit is as good as any assignment (`GreedyIsAsGood`, a counting
    argument: an item that leaves a user's token of the sentence has filled itself with
    such tokens, so an assignment that takes them all gives it too many).
* `RestPush_proofs`: `TypeCorrect`, `NothingIsLost`, `EventsArriveInOrder`,
  `NoEventIsRepeated`. The queue always holds the latest events in order, so one number
  (`Past`, the last event that left it) says which have gone; in short flushes
  the rest of the copy is the head of the queue (`CopyIsHead`), hence the records
  removed are those posted. `BatchType` is where batch arithmetic matters: with two
  full batches `ShortBatch` fails, and run RestPushBatches shows the loss.

The assumptions are those the modules name (`ConnAssumption`, `BoundAssumption`,
`SessionsAssumption`, `EndpointsAssumption`, `PushAssumption`, `TokenAssumption`,
`ConvAssumption`, `DialogueAssumption`). The last includes `IntentOK`, which the
constructors of intents check (`model/intent/NCIntentSolver.java` 1167-1173, 1226-1231
and 1305-1307): an intent has terms, a term has items, an item's limits are in order.
TLC checks the same formulas on the instances of section 3, so a mistake in a
model shows there first.

*Only model-checked:* liveness (`Stabilises`, `Answered`, `LogSettles`, both `Drains`,
`IdleIsDropped`, `IdleSessionsEnd`), which is out of the prover's reach. Every safety
property that a passing run checks is a theorem. `SearchIsComplete` says nothing of
intents that are ordered or whose items share elements or mix user elements with
others: there a search that never goes
back may take a token that a later item needs.

## 6. Not modelled

The linguistic algorithms (enrichers, dictionaries, geo and date parsing, spell
checking, WordNet), the collapser and the macro parser, ciphers and serialisation,
model builders and parsers of model files, REST request handling, start-up, and the
version check: stateless data processing or I/O. Ignite transactions and SQL are
assumed to do what they promise; a call that fails is modelled where it is made.

All of the program is Scala and Java under `src/main`. The JavaScript of the
repository (`docs/`, `javadoc/`) is the vendored syntax highlighter and search of the
generated API documentation: no part of the system, and nothing here is about it.

## 7. Plan

1. Done: registration, query life cycle with its abstract specification and the
   refinement, notifications, event push, conversations with the intent solver,
   sessions; proofs of every safety property of the passing runs.
2. An abstract queue that delivers at least once, implemented by `RestPush` for short
   flushes, with the refinement proved.
3. The endpoint registry: two sessions sharing an endpoint, composed with `Endpoints`,
   whose `SignOut` it would refine.
