--------------------------- MODULE QueryFlow_proofs ---------------------------
(***************************************************************************)
(* Proofs about QueryFlow, for every set of queries and reader threads and *)
(* any number of lost or repeated messages and failed log updates.         *)
(***************************************************************************)
EXTENDS QueryFlow, SequenceTheorems, TLAPS

------------------------------------------------------------------------------
(* Type correctness. *)

LEMMA BeginType ==
    ASSUME NEW o \in Outcome, NEW b \in BOOLEAN
    PROVE  Begin(o, b) \in Call /\ NoCall \in Call
BY DEF Begin, NoCall, Call, State, Outcome

\* A call that has read or written a state.
LEMMA CallType ==
    ASSUME NEW x \in Call, NEW y \in State
    PROVE  /\ [x EXCEPT !.step = "write", !.copy = y] \in Call
           /\ [x EXCEPT !.step = "log", !.copy = y] \in Call
BY DEF Call

LEMMA MessageType ==
    ASSUME NEW q \in Seq(Message), q # <<>>
    PROVE  Head(q).req \in Req /\ Head(q).outcome \in Outcome /\ Tail(q) \in Seq(Message)
<1>1. Head(q) \in Message /\ Tail(q) \in Seq(Message)
  BY HeadTailProperties
<1> QED
  BY <1>1 DEF Message

\* A failed update of the log, or none, keeps their count within its bound.
LEMMA SqlFailsType ==
    ASSUME sqlFails \in 0 .. MaxSqlFail,
           sqlFails' = sqlFails \/ (sqlFails < MaxSqlFail /\ sqlFails' = sqlFails + 1)
    PROVE  sqlFails' \in 0 .. MaxSqlFail
BY BoundAssumption

\* Steps of ask() and its future.
LEMMA AskTypeOK ==
    ASSUME TypeOK, NEW r \in Req, AskStep(r) \/ NewEntryFails(r)
    PROVE  TypeOK'
<1> USE BoundAssumption
<1>1. CASE Enlist(r)
  BY <1>1 DEF Enlist, TypeOK, State, links, counts
<1>2. CASE NewEntry(r)
  BY <1>2 DEF NewEntry, TypeOK, links, counts
<1>3. CASE NewEntryFails(r)
  BY <1>3 DEF NewEntryFails, TypeOK, links
<1>4. CASE AskFails(r)
  BY <1>4, BeginType DEF AskFails, TypeOK, Thread, Outcome, links, counts
<1>5. CASE SendAsk(r)
  BY <1>5 DEF SendAsk, TypeOK, counts
<1>6. CASE UpdateProbe(r)
  <2>1. handler' \in [Req \X Thread -> Call]
    BY <1>6, BeginType DEF UpdateProbe, TypeOK, Thread, Outcome
  <2>2. sqlFails' \in 0 .. MaxSqlFail
    BY <1>6, SqlFailsType DEF UpdateProbe, TypeOK
  <2> QED
    BY <1>6, <2>1, <2>2 DEF UpdateProbe, TypeOK, links
<1> QED
  BY <1>1, <1>2, <1>3, <1>4, <1>5, <1>6 DEF AskStep

\* Steps of setResult and setError.
LEMMA HandlerTypeOK ==
    ASSUME TypeOK, NEW r \in Req, NEW t \in Thread, HandlerStep(r, t) \/ UpdateReadyFails(r, t)
    PROVE  TypeOK'
<1> USE BoundAssumption
<1>1. CASE ReadCache(r, t)
  <2>1. handler' \in [Req \X Thread -> Call]
    BY <1>1, BeginType, CallType DEF ReadCache, TypeOK, Outcome
  <2> QED
    BY <1>1, <2>1 DEF ReadCache, TypeOK, links, counts
<1>2. CASE WriteCache(r, t)
  <2>1. handler' \in [Req \X Thread -> Call]
    BY <1>2, CallType DEF WriteCache, TypeOK, State
  <2>2. Ready(handler[<<r, t>>]) \in State
    BY <1>2 DEF WriteCache, TypeOK, Ready, Call, State
  <2> QED
    BY <1>2, <2>1, <2>2 DEF WriteCache, TypeOK, links, counts
<1>3. CASE UpdateReady(r, t)
  <2>1. handler[<<r, t>>].outcome \in Outcome
    BY DEF TypeOK, Call
  <2> QED
    BY <1>3, <2>1, BeginType DEF UpdateReady, TypeOK, Outcome, links, counts
<1>4. CASE UpdateReadyFails(r, t)
  <2>1. handler' \in [Req \X Thread -> Call]
    BY <1>4, BeginType DEF UpdateReadyFails, TypeOK, Outcome
  <2>2. sqlFails' \in 0 .. MaxSqlFail
    BY <1>4, SqlFailsType DEF UpdateReadyFails, TypeOK
  <2>3. missed' \subseteq Req
    BY <1>4 DEF UpdateReadyFails, TypeOK
  <2> QED
    BY <1>4, <2>1, <2>2, <2>3 DEF UpdateReadyFails, TypeOK, links
<1> QED
  BY <1>1, <1>2, <1>3, <1>4 DEF HandlerStep

\* Steps of the probe and of the links.
LEMMA LinkTypeOK ==
    ASSUME TypeOK,
           \/ \E r \in Req : ProbeStep(r)
           \/ SendReply \/ LoseMessage \/ \E t \in Reader : ReceiveReply(t)
    PROVE  TypeOK'
<1> USE BoundAssumption
<1>1. ASSUME NEW r \in Req, ProbeReceives(r) PROVE TypeOK'
  BY <1>1 DEF ProbeReceives, TypeOK, counts
<1>2. ASSUME NEW r \in Req, NEW o \in Outcome, ProbeResponds(r, o) PROVE TypeOK'
  BY <1>2 DEF ProbeResponds, TypeOK, Message, counts
<1>3. CASE SendReply
  <2>1. dnQueue # <<>> /\ dnQueue \in Seq(Message) /\ replies \in Seq(Message)
    BY <1>3 DEF SendReply, TypeOK
  <2>2. Head(dnQueue) \in Message /\ Tail(dnQueue) \in Seq(Message)
    BY <2>1, HeadTailProperties
  <2>3. replies' \in Seq(Message) /\ dnQueue' \in Seq(Message)
    BY <1>3, <2>1, <2>2 DEF SendReply
  <2>4. dups' \in 0 .. MaxDup
    BY <1>3 DEF SendReply, TypeOK
  <2> QED
    BY <1>3, <2>3, <2>4 DEF SendReply, TypeOK
<1>4. CASE LoseMessage
  <2>1. replies # <<>> => Head(replies).req \in Req /\ Tail(replies) \in Seq(Message)
    BY MessageType DEF TypeOK
  <2>2. lost' \in 0 .. MaxLoss
    BY <1>4 DEF LoseMessage, TypeOK
  <2>3. asks' \subseteq Req /\ missed' \subseteq Req /\ replies' \in Seq(Message)
    BY <1>4, <2>1 DEF LoseMessage, TypeOK
  <2> QED
    BY <1>4, <2>2, <2>3 DEF LoseMessage, TypeOK
<1>5. ASSUME NEW t \in Reader, ReceiveReply(t) PROVE TypeOK'
  <2>1. /\ Head(replies).req \in Req /\ Head(replies).outcome \in Outcome
        /\ Tail(replies) \in Seq(Message)
    BY <1>5, MessageType DEF ReceiveReply, TypeOK
  <2>2. handler' \in [Req \X Thread -> Call]
    BY <1>5, <2>1, BeginType DEF ReceiveReply, TypeOK, Thread
  <2> QED
    BY <1>5, <2>1, <2>2 DEF ReceiveReply, TypeOK, counts
<1> QED
  BY <1>1, <1>2, <1>3, <1>4, <1>5 DEF ProbeStep

LEMMA NextTypeOK == TypeOK /\ [Next]_vars => TypeOK'
<1> SUFFICES ASSUME TypeOK, [Next]_vars PROVE TypeOK'
  OBVIOUS
<1> USE BoundAssumption
<1>1. CASE UNCHANGED vars
  BY <1>1 DEF TypeOK, vars
<1>2. ASSUME NEW r \in Req, CancelRemove(r) PROVE TypeOK'
  BY <1>2 DEF CancelRemove, TypeOK, State, links, counts
<1>3. ASSUME NEW r \in Req, CancelEnds(r) PROVE TypeOK'
  <2>1. CASE CancelLog(r)
    BY <2>1 DEF CancelLog, TypeOK, links, counts
  <2>2. CASE CancelLogFails(r)
    <3>1. sqlFails' \in 0 .. MaxSqlFail /\ missed' \subseteq Req
      BY <2>2 DEF CancelLogFails, TypeOK
    <3> QED
      BY <2>2, <3>1 DEF CancelLogFails, TypeOK, links
  <2> QED
    BY <1>3, <2>1, <2>2 DEF CancelEnds
<1>4. ASSUME NEW r \in Req, Expire(r) PROVE TypeOK'
  BY <1>4 DEF Expire, TypeOK, State, links, counts
<1> QED
  BY <1>1, <1>2, <1>3, <1>4, AskTypeOK, HandlerTypeOK, LinkTypeOK DEF Next

\* The cache, the log, the calls in progress and the queues always have values
\* of their types.
THEOREM TypeCorrect == Spec => []TypeOK
<1>1. Init => TypeOK
  BY BoundAssumption DEF Init, TypeOK, State, Call, NoCall, Outcome
<1> QED
  BY <1>1, NextTypeOK, PTL DEF Spec
------------------------------------------------------------------------------
(* A query that is gone stays gone. *)

Gone(r) ==
    /\ ask[r] # "new" /\ cache[r] = Absent
    /\ \A t \in Thread : handler[<<r, t>>].step # "write"

LEMMA GoneStep ==
    ASSUME TypeOK, [Next]_vars, NEW r \in Req, Gone(r)
    PROVE  cache'[r] = Absent /\ told'[r] = told[r]
<1>1. CASE UNCHANGED <<cache, told>>
  BY <1>1 DEF Gone
<1>2. ASSUME NEW q \in Req, Enlist(q) PROVE cache'[r] = Absent /\ told'[r] = told[r]
  BY <1>2 DEF Enlist, Gone, TypeOK
<1>3. ASSUME NEW q \in Req, NEW t \in Thread, WriteCache(q, t)
      PROVE  cache'[r] = Absent /\ told'[r] = told[r]
  BY <1>3 DEF WriteCache, Gone, TypeOK
<1>4. ASSUME NEW q \in Req, CancelRemove(q) \/ Expire(q)
      PROVE  cache'[r] = Absent /\ told'[r] = told[r]
  BY <1>4 DEF CancelRemove, Expire, Gone, TypeOK
<1>5. ASSUME NEW q \in Req,
             NewEntry(q) \/ NewEntryFails(q) \/ AskFails(q) \/ SendAsk(q) \/ UpdateProbe(q)
               \/ ProbeStep(q) \/ CancelEnds(q)
      PROVE  UNCHANGED <<cache, told>>
  BY <1>5 DEF NewEntry, NewEntryFails, AskFails, SendAsk, UpdateProbe, ProbeStep,
              ProbeReceives, ProbeResponds, CancelEnds, CancelLog, CancelLogFails
<1>6. ASSUME NEW q \in Req, NEW t \in Thread,
             ReadCache(q, t) \/ UpdateReady(q, t) \/ UpdateReadyFails(q, t)
      PROVE  UNCHANGED <<cache, told>>
  BY <1>6 DEF ReadCache, UpdateReady, UpdateReadyFails
<1>7. ASSUME SendReply \/ LoseMessage \/ \E t \in Reader : ReceiveReply(t)
      PROVE  UNCHANGED <<cache, told>>
  BY <1>7 DEF SendReply, LoseMessage, ReceiveReply
<1> QED
  BY <1>1, <1>2, <1>3, <1>4, <1>5, <1>6, <1>7 DEF Next, vars, AskStep, HandlerStep

\* Whatever the probe, the links and the other threads do, a query that was
\* cancelled or has expired and whose state no handler has read before stays
\* out of the cache, and no endpoint hears of it.
THEOREM GoneQueriesStayGone == Spec => GoneStaysGone
<1>1. TypeOK /\ [Next]_vars =>
        [\A r \in Req :
         /\ ask[r] # "new" /\ cache[r] = Absent
         /\ \A t \in Thread : handler[<<r, t>>].step # "write"
         => cache'[r] = Absent /\ told'[r] = told[r]]_vars
  BY GoneStep DEF Gone
<1> QED
  BY <1>1, TypeCorrect, PTL DEF Spec, GoneStaysGone
=============================================================================
