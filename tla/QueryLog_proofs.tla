--------------------------- MODULE QueryLog_proofs ---------------------------
(***************************************************************************)
(* The cache of queries and the processing log agree, for any number of    *)
(* queries and reader threads.  The argument: a query is asked once and    *)
(* the probe answers it once, so as long as no update of the log fails all *)
(* that is under way for a query, and all that is stored of it, has one    *)
(* outcome; and who has made a query ready goes on until its row is.       *)
(***************************************************************************)
EXTENDS QueryRefinement

\* The replies on their way.
Pending == {dnQueue[i] : i \in 1 .. Len(dnQueue)} \cup {replies[i] : i \in 1 .. Len(replies)}

\* Nobody has answered the query.
Unanswered(r) ==
    /\ \A m \in Pending : m.req # r
    /\ Quiet(r)
    /\ log[r] \notin Outcome /\ cache[r].status # "QRY_READY"

\* A state has no outcome but o.
Only(s, o) == (s.result => o = "result") /\ (s.error => o = "error")

\* All there is of the query has the outcome o.
Agree(r, o) ==
    /\ \A m \in Pending : m.req = r => m.outcome = o
    /\ \A t \in Thread : handler[<<r, t>>].step # "idle" =>
          handler[<<r, t>>].outcome = o /\ Only(handler[<<r, t>>].copy, o)
    /\ log[r] \in Outcome => log[r] = o
    /\ Only(cache[r], o)

Early(r) == ask[r] \in {"new", "enlisted", "logged"}

LogInv(r) ==
    /\ Early(r) => Unanswered(r) /\ r \notin asks /\ r \notin probe
    /\ ~(r \in asks /\ r \in probe)
    /\ sqlFails = 0 => /\ r \in asks \cup probe => Unanswered(r)
                       /\ \E o \in Outcome : Agree(r, o)
    /\ cache[r].status = "QRY_READY" => cache[r].result \/ cache[r].error
    /\ cache[r].status = "QRY_READY" /\ cancel[r] = "no" /\ r \notin missed =>
          log[r] \in Outcome \/ ~Quiet(r)

IInv == TypeOK /\ \A r \in Req : LogInv(r)
------------------------------------------------------------------------------
(* Facts about states, calls and the replies on their way. *)

LEMMA StateFacts ==
    /\ \A o : Only(Absent, o) /\ Only(Enlisted, o)
    /\ Absent.status # "QRY_READY" /\ Enlisted.status # "QRY_READY"
    /\ \A s \in State, o \in Outcome : s.status # "QRY_READY" => Only(s, o)
BY DEF State, Only, Absent, Enlisted

\* setResult and setError add their outcome to the copy.
LEMMA ReadyFacts ==
    ASSUME NEW c \in Call
    PROVE  /\ Ready(c).status = "QRY_READY"
           /\ Ready(c).result \/ Ready(c).error
           /\ Only(c.copy, c.outcome) => Only(Ready(c), c.outcome)
BY DEF Ready, Call, State, Outcome, Only, Absent, Enlisted

LEMMA SqlFailsGrow ==
    ASSUME TypeOK, sqlFails' = sqlFails \/ sqlFails' = sqlFails + 1
    PROVE  sqlFails' = 0 => sqlFails = 0
BY BoundAssumption DEF TypeOK

LEMMA RespondPending ==
    ASSUME TypeOK, NEW r \in Req, NEW o \in Outcome, ProbeResponds(r, o)
    PROVE  \A m \in Pending' : m \in Pending \/ m = [req |-> r, outcome |-> o]
<1> DEFINE x == [req |-> r, outcome |-> o]
<1>1. x \in Message /\ dnQueue \in Seq(Message)
  BY DEF Message, TypeOK
<1>2. dnQueue' = Append(dnQueue, x) /\ replies' = replies
  BY DEF ProbeResponds
<1> HIDE DEF x
<1>3. \A i \in 1 .. Len(dnQueue') : dnQueue'[i] = x \/ \E j \in 1 .. Len(dnQueue) : dnQueue'[i] = dnQueue[j]
  BY <1>1, <1>2, QueueElements
<1>4. \A m \in Pending' : m \in Pending \/ m = x
  BY <1>2, <1>3 DEF Pending
<1> QED BY <1>4 DEF x

LEMMA LinkPending ==
    ASSUME TypeOK, SendReply \/ LoseMessage \/ \E t \in Reader : ReceiveReply(t)
    PROVE  Pending' \subseteq Pending
<1>0. dnQueue \in Seq(Message) /\ replies \in Seq(Message)
  BY DEF TypeOK
<1>1. CASE SendReply
  <2>1. PICK k \in 1 .. Len(dnQueue) : Head(dnQueue) = dnQueue[k]
    BY <1>0, <1>1, QueueElements DEF SendReply
  <2>2. Head(dnQueue) \in Message
    BY <1>0, <1>1, QueueElements DEF SendReply
  <2>3. \A i \in 1 .. Len(replies') :
           replies'[i] = dnQueue[k] \/ \E j \in 1 .. Len(replies) : replies'[i] = replies[j]
    BY <1>0, <1>1, <2>1, <2>2, QueueElements DEF SendReply
  <2>4. \A i \in 1 .. Len(dnQueue') : \E j \in 1 .. Len(dnQueue) : dnQueue'[i] = dnQueue[j]
    <3>1. CASE dnQueue' = Tail(dnQueue)
      BY <1>0, <1>1, <3>1, QueueElements DEF SendReply
    <3>2. CASE dnQueue' = dnQueue
      BY <3>2
    <3> QED BY <1>1, <3>1, <3>2 DEF SendReply
  <2> QED BY <2>1, <2>3, <2>4 DEF Pending
<1>2. CASE dnQueue' = dnQueue /\ (replies' = replies \/ (replies # <<>> /\ replies' = Tail(replies)))
  <2>1. \A i \in 1 .. Len(replies') : \E j \in 1 .. Len(replies) : replies'[i] = replies[j]
    <3>1. CASE replies # <<>> /\ replies' = Tail(replies)
      BY <1>0, <3>1, QueueElements
    <3>2. CASE replies' = replies
      BY <3>2
    <3> QED BY <1>2, <3>1, <3>2
  <2> QED BY <1>2, <2>1 DEF Pending
<1> QED
  BY <1>1, <1>2 DEF LoseMessage, ReceiveReply

\* The reply a reader takes.
LEMMA HeadPending ==
    ASSUME TypeOK, replies # <<>>
    PROVE  Head(replies) \in Pending /\ Head(replies) \in Message
<1>1. Head(replies) \in Message /\ \E j \in 1 .. Len(replies) : Head(replies) = replies[j]
  BY QueueElements DEF TypeOK
<1> QED BY <1>1 DEF Pending
------------------------------------------------------------------------------
(* Steps that do not bear on the agreement. *)

\* The step is of another query, or only loses what is on its way.
LEMMA Frame ==
    ASSUME NEW q \in Req, LogInv(q), \A m \in Pending' : m.req = q => m \in Pending,
           cache'[q] = cache[q], log'[q] = log[q], ask'[q] = ask[q],
           cancel'[q] = cancel[q] \/ cancel'[q] # "no",
           \A t \in Thread : handler'[<<q, t>>] = handler[<<q, t>>],
           q \in asks' => q \in asks,
           q \in probe' => q \in asks \/ q \in probe, ~(q \in asks' /\ q \in probe'),
           missed \subseteq missed', sqlFails' = 0 => sqlFails = 0
    PROVE  LogInv(q)'
<1>1. Quiet(q)' <=> Quiet(q)
  BY DEF Quiet
<1>2. Unanswered(q) => Unanswered(q)'
  BY <1>1 DEF Unanswered
<1>3. \A o \in Outcome : Agree(q, o) => Agree(q, o)'
  BY DEF Agree
<1> QED
  BY <1>1, <1>2, <1>3 DEF LogInv, Early

\* Nobody has answered the query.
LEMMA StillUnanswered ==
    ASSUME NEW q \in Req, Unanswered(q)', TypeOK',
           Early(q)' => q \notin asks' /\ q \notin probe', ~(q \in asks' /\ q \in probe')
    PROVE  LogInv(q)'
<1>1. Only(cache'[q], "error")
  BY StateFacts DEF Unanswered, TypeOK, Outcome
<1>2. Agree(q, "error")'
  BY <1>1 DEF Agree, Unanswered, Quiet
<1>3. "error" \in Outcome
  BY DEF Outcome
<1> QED
  BY <1>2, <1>3 DEF LogInv, Unanswered
------------------------------------------------------------------------------
(* Every step keeps the invariant, for the query it is about and the others. *)

LEMMA AskLog ==
    ASSUME IInv, TypeOK', NEW r \in Req, AskStep(r) \/ NewEntryFails(r), NEW q \in Req
    PROVE  LogInv(q)'
<1> USE DEF IInv
<1>1. /\ Pending' = Pending /\ UNCHANGED <<cancel, probe>> /\ missed \subseteq missed'
      /\ q # r => /\ cache'[q] = cache[q] /\ log'[q] = log[q] /\ ask'[q] = ask[q]
                  /\ q \in asks' => q \in asks
  <2>1. UNCHANGED <<dnQueue, replies, cancel, probe>> /\ missed \subseteq missed'
    BY DEF AskStep, Enlist, NewEntry, NewEntryFails, AskFails, SendAsk, UpdateProbe, links
  <2>2. q # r => cache'[q] = cache[q]
    BY DEF AskStep, Enlist, NewEntry, NewEntryFails, AskFails, SendAsk, UpdateProbe, TypeOK
  <2>3. q # r => log'[q] = log[q]
    BY DEF AskStep, Enlist, NewEntry, NewEntryFails, AskFails, SendAsk, UpdateProbe, TypeOK
  <2>4. q # r => ask'[q] = ask[q]
    BY DEF AskStep, Enlist, NewEntry, NewEntryFails, AskFails, SendAsk, UpdateProbe, TypeOK
  <2>5. q # r => (q \in asks' => q \in asks)
    BY DEF AskStep, Enlist, NewEntry, NewEntryFails, AskFails, SendAsk, UpdateProbe, links
  <2>6. Pending' = Pending
    BY <2>1 DEF Pending
  <2> QED BY <2>1, <2>2, <2>3, <2>4, <2>5, <2>6
<1>2. sqlFails' = 0 => sqlFails = 0
  <2>1. sqlFails' = sqlFails \/ sqlFails' = sqlFails + 1
    BY DEF AskStep, Enlist, NewEntry, NewEntryFails, AskFails, SendAsk, UpdateProbe, counts
  <2> QED BY <2>1, SqlFailsGrow
<1>3. "ask" \in Thread
  BY DEF Thread
<1>4. handler' = handler \/ handler' = [handler EXCEPT ![<<r, "ask">>] = Begin("error", TRUE)]
  BY DEF AskStep, Enlist, NewEntry, NewEntryFails, AskFails, SendAsk, UpdateProbe, links
<1>5. q # r => \A t \in Thread : handler'[<<q, t>>] = handler[<<q, t>>]
  BY <1>3, <1>4 DEF TypeOK
<1>6. CASE q # r
  <2>1. q \in probe' => q \in probe
    BY <1>1
  <2>2. ~(q \in asks' /\ q \in probe')
    BY <1>1, <1>6 DEF LogInv
  <2> QED BY <1>1, <1>2, <1>5, <1>6, <2>1, <2>2, Frame
<1>7. CASE q = r /\ (Enlist(r) \/ NewEntry(r) \/ NewEntryFails(r) \/ SendAsk(r))
  <2>1. Early(r) /\ Unanswered(r) /\ r \notin asks /\ r \notin probe
    BY <1>7 DEF Enlist, NewEntry, NewEntryFails, SendAsk, Early, LogInv
  <2>2. Unanswered(r)'
    <3>1. cache'[r] = cache[r] \/ cache'[r] = Enlisted
      BY <1>7 DEF Enlist, NewEntry, NewEntryFails, SendAsk, TypeOK
    <3>2. log'[r] = log[r] \/ log'[r] = "enlisted"
      BY <1>7 DEF Enlist, NewEntry, NewEntryFails, SendAsk, TypeOK
    <3>3. handler' = handler
      BY <1>7 DEF Enlist, NewEntry, NewEntryFails, SendAsk
    <3> QED
      BY <1>1, <2>1, <3>1, <3>2, <3>3, StateFacts DEF Unanswered, Quiet, Outcome
  <2>3. Early(r)' => r \notin asks'
    BY <1>7, <2>1 DEF Enlist, NewEntry, NewEntryFails, SendAsk, Early, links, TypeOK
  <2>4. r \notin probe'
    BY <1>1, <2>1
  <2> QED BY <1>7, <2>2, <2>3, <2>4, StillUnanswered
<1>8. CASE q = r /\ AskFails(r)
  <2>1. Unanswered(r) /\ r \notin asks /\ r \notin probe
    BY <1>8 DEF AskFails, Early, LogInv
  <2>2. UNCHANGED <<asks, probe, cache, log>> /\ ~Early(r)'
    BY <1>8 DEF AskFails, links, Early, TypeOK
  <2>3. /\ handler'[<<r, "ask">>] = Begin("error", TRUE)
        /\ \A u \in Thread : u # "ask" => handler'[<<r, u>>] = handler[<<r, u>>]
    BY <1>3, <1>8 DEF AskFails, TypeOK
  <2>4. Only(cache[r], "error")
    BY <2>1, StateFacts DEF Unanswered, TypeOK, Outcome
  <2>5. Agree(r, "error")'
    BY <1>1, <2>1, <2>2, <2>3, <2>4, StateFacts DEF Agree, Unanswered, Quiet, Begin
  <2>6. cache'[r].status # "QRY_READY" /\ "error" \in Outcome
    BY <2>1, <2>2 DEF Unanswered, Outcome
  <2> QED BY <1>8, <2>1, <2>2, <2>5, <2>6 DEF LogInv
<1>9. CASE q = r /\ UpdateProbe(r)
  <2>1. UNCHANGED <<asks, probe, cache, log, cancel, missed>> /\ ~Early(r)'
    BY <1>9 DEF UpdateProbe, links, Early, TypeOK
  <2>2. CASE UNCHANGED <<handler, sqlFails>>
    <3>1. (Unanswered(r)' <=> Unanswered(r)) /\ (Quiet(r)' <=> Quiet(r))
      BY <1>1, <2>1, <2>2 DEF Unanswered, Quiet
    <3>2. \A o \in Outcome : Agree(r, o)' <=> Agree(r, o)
      BY <1>1, <2>1, <2>2 DEF Agree
    <3> QED BY <1>9, <2>1, <2>2, <3>1, <3>2 DEF LogInv
  <2>3. CASE /\ sqlFails' = sqlFails + 1
             /\ handler' = [handler EXCEPT ![<<r, "ask">>] = Begin("error", TRUE)]
    <3>1. sqlFails' # 0
      BY <2>3, BoundAssumption DEF TypeOK
    <3>2. ~Quiet(r)'
      <4>1. handler'[<<r, "ask">>] = Begin("error", TRUE)
        BY <1>3, <2>3 DEF TypeOK
      <4> QED BY <1>3, <4>1 DEF Quiet, Begin
    <3> QED BY <1>9, <2>1, <3>1, <3>2 DEF LogInv
  <2> QED BY <1>9, <2>2, <2>3 DEF UpdateProbe
<1> QED
  BY <1>6, <1>7, <1>8, <1>9 DEF AskStep

LEMMA HandlerLog ==
    ASSUME IInv, TypeOK', NEW r \in Req, NEW t \in Thread, NEW q \in Req,
           HandlerStep(r, t) \/ UpdateReadyFails(r, t)
    PROVE  LogInv(q)'
<1> USE DEF IInv
<1> DEFINE h == handler[<<r, t>>]
<1>0. h \in Call /\ h.step # "idle"
  BY DEF HandlerStep, ReadCache, WriteCache, UpdateReady, UpdateReadyFails, TypeOK
<1>1. /\ Pending' = Pending /\ UNCHANGED <<ask, cancel, asks, probe>> /\ missed \subseteq missed'
      /\ q # r => cache'[q] = cache[q] /\ log'[q] = log[q]
  <2>1. UNCHANGED <<dnQueue, replies, ask, cancel, asks, probe>> /\ missed \subseteq missed'
    BY DEF HandlerStep, ReadCache, WriteCache, UpdateReady, UpdateReadyFails, links
  <2>2. q # r => cache'[q] = cache[q]
    BY DEF HandlerStep, ReadCache, WriteCache, UpdateReady, UpdateReadyFails, TypeOK
  <2>3. q # r => log'[q] = log[q]
    BY DEF HandlerStep, ReadCache, WriteCache, UpdateReady, UpdateReadyFails, TypeOK
  <2>4. Pending' = Pending
    BY <2>1 DEF Pending
  <2> QED BY <2>1, <2>2, <2>3, <2>4
<1>2. sqlFails' = 0 => sqlFails = 0
  <2>1. sqlFails' = sqlFails \/ sqlFails' = sqlFails + 1
    BY DEF HandlerStep, ReadCache, WriteCache, UpdateReady, UpdateReadyFails, counts
  <2> QED BY <2>1, SqlFailsGrow
<1>3. \A u \in Thread : q # r \/ u # t => handler'[<<q, u>>] = handler[<<q, u>>]
  BY DEF HandlerStep, ReadCache, WriteCache, UpdateReady, UpdateReadyFails, TypeOK
<1>4. CASE q # r
  <2>1. ~(q \in asks' /\ q \in probe')
    BY <1>1 DEF LogInv
  <2> QED BY <1>1, <1>2, <1>3, <1>4, <2>1, Frame
<1> SUFFICES ASSUME q = r PROVE LogInv(r)'
  BY <1>4
<1>5. ~Unanswered(r)
  BY <1>0 DEF Unanswered, Quiet
<1>6. /\ ~Early(r)' /\ ~(r \in asks' /\ r \in probe')
      /\ sqlFails = 0 => r \notin asks' /\ r \notin probe'
  BY <1>1, <1>5 DEF LogInv, Early
<1>7. ASSUME sqlFails = 0
      PROVE  \E o \in Outcome : Agree(r, o) /\ h.outcome = o /\ Only(h.copy, o)
  BY <1>0, <1>7 DEF LogInv, Agree
<1>8. CASE ReadCache(r, t)
  <2>1. UNCHANGED <<cache, log, missed, sqlFails>>
    BY <1>8 DEF ReadCache, counts
  <2>2. \/ cache[r] = Absent /\ handler'[<<r, t>>] = NoCall
        \/ /\ handler'[<<r, t>>].step = "write" /\ handler'[<<r, t>>].copy = cache[r]
           /\ handler'[<<r, t>>].outcome = h.outcome
    BY <1>0, <1>8 DEF ReadCache, TypeOK, Call
  <2>3. ASSUME sqlFails = 0 PROVE \E o \in Outcome : Agree(r, o)'
    <3>1. PICK o \in Outcome : Agree(r, o) /\ h.outcome = o
      BY <1>7, <2>3
    <3>2. handler'[<<r, t>>].step # "idle" =>
             handler'[<<r, t>>].outcome = o /\ Only(handler'[<<r, t>>].copy, o)
      BY <2>2, <3>1 DEF NoCall, Agree
    <3> QED BY <1>1, <1>3, <2>1, <3>1, <3>2 DEF Agree
  <2>4. cache[r] = Absent \/ ~Quiet(r)'
    BY <2>2 DEF Quiet
  <2> QED BY <1>6, <2>1, <2>3, <2>4, StateFacts DEF LogInv
<1>9. CASE WriteCache(r, t)
  <2>1. UNCHANGED <<log, missed, sqlFails>> /\ cache'[r] = Ready(h)
    BY <1>9 DEF WriteCache, counts, TypeOK
  <2>2. /\ handler'[<<r, t>>].step = "log" /\ handler'[<<r, t>>].copy = Absent
        /\ handler'[<<r, t>>].outcome = h.outcome
    BY <1>0, <1>9 DEF WriteCache, TypeOK, Call
  <2>3. ASSUME sqlFails = 0 PROVE \E o \in Outcome : Agree(r, o)'
    <3>1. PICK o \in Outcome : Agree(r, o) /\ h.outcome = o /\ Only(h.copy, o)
      BY <1>7, <2>3
    <3>2. Only(cache'[r], o) /\ Only(Absent, o)
      BY <1>0, <2>1, <3>1, ReadyFacts, StateFacts
    <3> QED BY <1>1, <1>3, <2>1, <2>2, <3>1, <3>2 DEF Agree
  <2>4. ~Quiet(r)'
    BY <2>2 DEF Quiet
  <2>5. cache'[r].result \/ cache'[r].error
    BY <1>0, <2>1, ReadyFacts
  <2> QED BY <1>6, <2>1, <2>3, <2>4, <2>5 DEF LogInv
<1>10. CASE UpdateReady(r, t)
  <2>1. UNCHANGED <<cache, missed, sqlFails>> /\ log'[r] = h.outcome
    BY <1>10 DEF UpdateReady, counts, TypeOK
  <2>2. handler'[<<r, t>>].step = "idle" /\ h.outcome \in Outcome
    <3>1. handler'[<<r, t>>] = NoCall
      BY <1>10 DEF UpdateReady, TypeOK
    <3> QED BY <1>0, <3>1 DEF NoCall, Call
  <2>3. ASSUME sqlFails = 0 PROVE \E o \in Outcome : Agree(r, o)'
    <3>1. PICK o \in Outcome : Agree(r, o) /\ h.outcome = o
      BY <1>7, <2>3
    <3> QED BY <1>1, <1>3, <2>1, <2>2, <3>1 DEF Agree
  <2> QED BY <1>6, <2>1, <2>2, <2>3 DEF LogInv
<1>11. CASE UpdateReadyFails(r, t)
  <2>1. UNCHANGED <<cache, log>> /\ sqlFails' # 0
    BY <1>11, BoundAssumption DEF UpdateReadyFails, TypeOK
  <2>2. r \in missed' \/ ~Quiet(r)'
    <3>1. CASE h.last
      BY <1>11, <3>1 DEF UpdateReadyFails
    <3>2. CASE ~h.last
      <4>1. handler'[<<r, t>>] = Begin("error", TRUE)
        BY <1>11, <3>2 DEF UpdateReadyFails, TypeOK
      <4> QED BY <4>1 DEF Quiet, Begin
    <3> QED BY <3>1, <3>2
  <2> QED BY <1>6, <2>1, <2>2 DEF LogInv
<1> QED
  BY <1>8, <1>9, <1>10, <1>11 DEF HandlerStep

LEMMA ProbeLog ==
    ASSUME IInv, NEW r \in Req, ProbeStep(r), NEW q \in Req
    PROVE  LogInv(q)'
<1> USE DEF IInv
<1>1. CASE ProbeReceives(r)
  <2>1. /\ Pending' = Pending /\ asks' = asks \ {r} /\ probe' = probe \cup {r} /\ r \in asks
        /\ UNCHANGED <<cache, log, ask, cancel, handler, missed, sqlFails>>
    BY <1>1 DEF ProbeReceives, Pending, counts
  <2>2. ~(q \in asks' /\ q \in probe')
    BY <2>1 DEF LogInv
  <2> QED BY <2>1, <2>2, Frame
<1>2. ASSUME NEW o \in Outcome, ProbeResponds(r, o)
      PROVE  LogInv(q)'
  <2>1. /\ r \in probe /\ probe' = probe \ {r}
        /\ UNCHANGED <<cache, log, ask, cancel, handler, asks, missed, sqlFails>>
    BY <1>2 DEF ProbeResponds, counts
  <2>2. \A m \in Pending' : m \in Pending \/ m = [req |-> r, outcome |-> o]
    BY <1>2, RespondPending
  <2>3. ~(q \in asks' /\ q \in probe')
    BY <2>1 DEF LogInv
  <2>4. CASE q # r
    BY <2>1, <2>2, <2>3, <2>4, Frame
  <2>5. CASE q = r
    <3>1. ~Early(r)' /\ r \notin asks' /\ r \notin probe'
      BY <2>1 DEF LogInv, Early
    <3>2. ASSUME sqlFails = 0 PROVE Agree(r, o)'
      <4>1. Unanswered(r)
        BY <2>1, <3>2 DEF LogInv
      <4>2. Only(cache[r], o)
        BY <4>1, StateFacts DEF Unanswered, TypeOK
      <4> QED BY <2>1, <2>2, <4>1, <4>2 DEF Agree, Unanswered, Quiet
    <3>3. Quiet(r)' <=> Quiet(r)
      BY <2>1 DEF Quiet
    <3> QED BY <2>1, <2>5, <3>1, <3>2, <3>3 DEF LogInv
  <2> QED BY <2>4, <2>5
<1> QED BY <1>1, <1>2 DEF ProbeStep

LEMMA LinkLog ==
    ASSUME IInv, SendReply \/ LoseMessage \/ \E t \in Reader : ReceiveReply(t), NEW q \in Req
    PROVE  LogInv(q)'
<1> USE DEF IInv
<1>1. Pending' \subseteq Pending
  BY LinkPending
<1>2. CASE SendReply \/ LoseMessage
  <2>1. /\ UNCHANGED <<cache, log, ask, cancel, handler, probe, sqlFails>>
        /\ asks' \subseteq asks /\ missed \subseteq missed'
    BY <1>2 DEF SendReply, LoseMessage
  <2>2. ~(q \in asks' /\ q \in probe')
    BY <2>1 DEF LogInv
  <2> QED BY <1>1, <2>1, <2>2, Frame
<1>3. ASSUME NEW t \in Reader, ReceiveReply(t)
      PROVE  LogInv(q)'
  <2> DEFINE m == Head(replies)
             c == Begin(m.outcome, FALSE)
  <2>1. m \in Pending /\ m.req \in Req /\ m.outcome \in Outcome /\ t \in Thread
    BY <1>3, HeadPending DEF ReceiveReply, Message, Thread
  <2>2. /\ handler' = [handler EXCEPT ![<<m.req, t>>] = c]
        /\ UNCHANGED <<cache, log, ask, cancel, asks, probe, missed, sqlFails>>
    BY <1>3 DEF ReceiveReply, counts
  <2>3. c.step = "read" /\ c.outcome = m.outcome /\ c.copy = Absent
    BY DEF Begin
  <2> HIDE DEF m, c
  <2>4. /\ handler'[<<m.req, t>>] = c
        /\ \A u \in Thread : q # m.req \/ u # t => handler'[<<q, u>>] = handler[<<q, u>>]
    BY <2>1, <2>2 DEF TypeOK
  <2>5. CASE q # m.req
    <3>1. ~(q \in asks' /\ q \in probe')
      BY <2>2 DEF LogInv
    <3> QED BY <1>1, <2>2, <2>4, <2>5, <3>1, Frame
  <2>6. CASE q = m.req
    <3>1. ~Unanswered(q)
      BY <2>1, <2>6 DEF Unanswered
    <3>2. \A o \in Outcome : Agree(q, o) => Agree(q, o)'
      <4> TAKE o \in Outcome
      <4> HAVE Agree(q, o)
      <4>1. m.outcome = o
        BY <2>1, <2>6 DEF Agree
      <4> QED
        BY <1>1, <2>2, <2>3, <2>4, <2>6, <4>1, StateFacts DEF Agree
    <3>3. ~Quiet(q)'
      BY <2>1, <2>3, <2>4, <2>6 DEF Quiet
    <3>4. ~Early(q)' /\ (sqlFails = 0 => q \notin asks' /\ q \notin probe')
      BY <2>2, <3>1 DEF LogInv, Early
    <3> QED BY <2>2, <3>2, <3>3, <3>4 DEF LogInv
  <2> QED BY <2>5, <2>6
<1> QED BY <1>2, <1>3

LEMMA GoLog ==
    ASSUME IInv, NEW r \in Req, CancelRemove(r) \/ CancelEnds(r) \/ Expire(r), NEW q \in Req
    PROVE  LogInv(q)'
<1> USE DEF IInv
<1>1. UNCHANGED <<dnQueue, replies, ask, asks, probe, handler>> /\ missed \subseteq missed'
  BY DEF CancelRemove, CancelEnds, CancelLog, CancelLogFails, Expire, links
<1>2. sqlFails' = 0 => sqlFails = 0
  <2>1. sqlFails' = sqlFails \/ sqlFails' = sqlFails + 1
    BY DEF CancelRemove, CancelEnds, CancelLog, CancelLogFails, Expire, counts
  <2> QED BY <2>1, SqlFailsGrow
<1>3. Pending' = Pending
  BY <1>1 DEF Pending
<1>4. cache'[q] = cache[q] \/ (cache'[q] = Absent /\ q = r)
  BY DEF CancelRemove, CancelEnds, CancelLog, CancelLogFails, Expire, TypeOK
<1>5. log'[q] = log[q] \/ log'[q] = "cancelled"
  BY DEF CancelRemove, CancelEnds, CancelLog, CancelLogFails, Expire, TypeOK
<1>6. cancel'[q] = cancel[q] \/ cancel'[q] # "no"
  BY DEF CancelRemove, CancelEnds, CancelLog, CancelLogFails, Expire, TypeOK
<1>7. log'[q] = log[q] \/ cancel'[q] # "no"
  BY DEF CancelRemove, CancelEnds, CancelLog, CancelLogFails, Expire, TypeOK
<1>8. "cancelled" \notin Outcome
  BY DEF Outcome
<1>9. Unanswered(q) => Unanswered(q)'
  BY <1>1, <1>3, <1>4, <1>5, <1>8, StateFacts DEF Unanswered, Quiet
<1>10. \A o \in Outcome : Agree(q, o) => Agree(q, o)'
  BY <1>1, <1>3, <1>4, <1>5, <1>8, StateFacts DEF Agree
<1>11. Early(q)' <=> Early(q)
  BY <1>1 DEF Early
<1>12. Quiet(q)' <=> Quiet(q)
  BY <1>1 DEF Quiet
<1> QED
  BY <1>1, <1>2, <1>4, <1>6, <1>7, <1>9, <1>10, <1>11, <1>12, StateFacts DEF LogInv

LEMMA NextIInv == IInv /\ [Next]_vars => IInv'
<1> SUFFICES ASSUME IInv, [Next]_vars PROVE IInv'
  OBVIOUS
<1>1. TypeOK'
  BY NextTypeOK DEF IInv
<1>2. ASSUME NEW q \in Req PROVE LogInv(q)'
  <2>1. CASE UNCHANGED vars
    <3>1. /\ UNCHANGED <<cache, log, ask, cancel, handler, asks, probe, missed, sqlFails>>
          /\ Pending' = Pending
      BY <2>1 DEF vars, Pending
    <3>2. ~(q \in asks' /\ q \in probe')
      BY <3>1 DEF IInv, LogInv
    <3> QED BY <3>1, <3>2, Frame DEF IInv
  <2> QED
    BY <1>1, <2>1, AskLog, HandlerLog, ProbeLog, LinkLog, GoLog DEF Next
<1> QED BY <1>1, <1>2 DEF IInv

LEMMA InitIInv == Init => IInv
<1> SUFFICES ASSUME Init PROVE IInv
  OBVIOUS
<1>1. TypeOK
  BY BoundAssumption DEF Init, TypeOK, State, Call, NoCall, Outcome
<1>2. Pending = {}
  <2>1. Len(dnQueue) = 0 /\ Len(replies) = 0
    BY DEF Init
  <2> QED BY <2>1 DEF Pending
<1>3. ASSUME NEW q \in Req PROVE LogInv(q)
  <2>1. Quiet(q)
    BY DEF Init, Quiet, NoCall
  <2>2. cache[q] = Absent /\ log[q] = "none" /\ q \notin asks /\ q \notin probe
    BY DEF Init
  <2>3. Unanswered(q)
    BY <1>2, <2>1, <2>2, StateFacts DEF Unanswered, Outcome
  <2>4. Agree(q, "error") /\ "error" \in Outcome
    BY <1>2, <2>1, <2>2, StateFacts DEF Agree, Quiet, Outcome
  <2> QED BY <2>2, <2>3, <2>4, StateFacts DEF LogInv
<1> QED BY <1>1, <1>3 DEF IInv
------------------------------------------------------------------------------
\* A query that is ready, was not cancelled and is not being updated has a
\* row that is ready too, with an outcome the cache holds unless an update
\* of the log has failed: whichever threads answer it, in whatever order.
THEOREM CacheAndLogAgree == Spec => []LogAgrees
<1>1. IInv => LogAgrees
  <2> SUFFICES ASSUME IInv, NEW r \in Req,
                      cache[r].status = "QRY_READY", cancel[r] = "no", Quiet(r), r \notin missed
               PROVE  /\ log[r] \in Outcome
                      /\ sqlFails = 0 => \/ log[r] = "result" /\ cache[r].result
                                         \/ log[r] = "error" /\ cache[r].error
    BY DEF LogAgrees
  <2>1. LogInv(r)
    BY DEF IInv
  <2>2. log[r] \in Outcome
    BY <2>1 DEF LogInv
  <2>3. ASSUME sqlFails = 0
        PROVE  \/ log[r] = "result" /\ cache[r].result
               \/ log[r] = "error" /\ cache[r].error
    <3>1. PICK o \in Outcome : Agree(r, o)
      BY <2>1, <2>3 DEF LogInv
    <3>2. log[r] = o /\ Only(cache[r], o)
      BY <2>2, <3>1 DEF Agree
    <3>3. cache[r].result \/ cache[r].error
      BY <2>1 DEF LogInv
    <3> QED BY <2>2, <3>2, <3>3 DEF Only, Outcome
  <2> QED BY <2>2, <2>3
<1> QED
  BY InitIInv, NextIInv, <1>1, PTL DEF Spec
==============================================================================
