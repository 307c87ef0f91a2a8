--------------------------- MODULE QueryRefinement ---------------------------
(***************************************************************************)
(* QueryFlow implements QueryLife for every set of queries and threads and *)
(* any number of faults.  The argument needs that nobody answers a query   *)
(* before ask() has enlisted it.                                           *)
(***************************************************************************)
EXTENDS QueryFlow_proofs

Asked(r) == ask[r] \in {"sent", "done"}

\* What is asked, worked on, answered or being handled has been asked before,
\* and the future of ask() calls setError only at its end.
NothingEarly ==
    /\ \A r \in asks \cup probe : Asked(r)
    /\ \A i \in 1 .. Len(dnQueue) : Asked(dnQueue[i].req)
    /\ \A i \in 1 .. Len(replies) : Asked(replies[i].req)
    /\ \A r \in Req, t \in Thread : handler[<<r, t>>].step # "idle" => Asked(r)
    /\ \A r \in Req : handler[<<r, "ask">>].step # "idle" => ask[r] = "done"

RInv == TypeOK /\ NothingEarly
------------------------------------------------------------------------------
LEMMA AskNothingEarly ==
    ASSUME RInv, NEW r \in Req, AskStep(r) \/ NewEntryFails(r)
    PROVE  NothingEarly'
<1> USE BoundAssumption
<1>1. "ask" \in Thread
  BY DEF Thread
<1>2. CASE Enlist(r)
  BY <1>1, <1>2 DEF Enlist, RInv, TypeOK, NothingEarly, Asked, links
<1>3. CASE NewEntry(r)
  BY <1>1, <1>3 DEF NewEntry, RInv, TypeOK, NothingEarly, Asked, links
<1>4. CASE NewEntryFails(r)
  BY <1>1, <1>4 DEF NewEntryFails, RInv, TypeOK, NothingEarly, Asked, links
<1>5. CASE SendAsk(r)
  BY <1>1, <1>5 DEF SendAsk, RInv, TypeOK, NothingEarly, Asked
\* The two steps that hand the query to setError end ask().
<1>6. CASE AskFails(r) \/ UpdateProbe(r)
  <2>1. ask'[r] = "done" /\ \A q \in Req : q # r => ask'[q] = ask[q]
    BY <1>6 DEF AskFails, UpdateProbe, RInv, TypeOK
  <2>2. \A q \in Req, t \in Thread : q # r => handler'[<<q, t>>] = handler[<<q, t>>]
    BY <1>6 DEF AskFails, UpdateProbe, RInv, TypeOK
  <2>3. UNCHANGED links
    BY <1>6 DEF AskFails, UpdateProbe
  <2>4. \A q \in Req : Asked(q) => Asked(q)'
    BY <2>1 DEF Asked
  <2>5. /\ \A q \in Req, t \in Thread : handler'[<<q, t>>].step # "idle" => Asked(q)'
        /\ \A q \in Req : handler'[<<q, "ask">>].step # "idle" => ask'[q] = "done"
    BY <1>1, <2>1, <2>2, <2>4 DEF RInv, NothingEarly, Asked
  <2>6. /\ asks \cup probe \subseteq Req
        /\ \A i \in 1 .. Len(dnQueue) : dnQueue[i].req \in Req
        /\ \A i \in 1 .. Len(replies) : replies[i].req \in Req
    <3>1. \A m \in Message : m.req \in Req
      BY DEF Message
    <3>2. /\ \A i \in 1 .. Len(dnQueue) : dnQueue[i] \in Message
          /\ \A i \in 1 .. Len(replies) : replies[i] \in Message
      BY ElementOfSeq DEF RInv, TypeOK
    <3> QED BY <3>1, <3>2 DEF RInv, TypeOK
  <2> QED
    BY <2>3, <2>4, <2>5, <2>6 DEF RInv, NothingEarly, links
<1> QED
  BY <1>2, <1>3, <1>4, <1>5, <1>6 DEF AskStep

\* A step of one call of setResult or setError.
LEMMA HandlerFrame ==
    ASSUME RInv, NEW r \in Req, NEW t \in Thread, UNCHANGED <<ask, links>>,
           handler[<<r, t>>].step # "idle",
           \A q \in Req, u \in Thread : q # r \/ u # t => handler'[<<q, u>>] = handler[<<q, u>>]
    PROVE  NothingEarly'
<1>1. "ask" \in Thread
  BY DEF Thread
<1> QED
  BY <1>1 DEF RInv, NothingEarly, Asked, links

LEMMA HandlerNothingEarly ==
    ASSUME RInv, NEW r \in Req, NEW t \in Thread, HandlerStep(r, t) \/ UpdateReadyFails(r, t)
    PROVE  NothingEarly'
<1>1. CASE ReadCache(r, t)
  <2>1. \A q \in Req, u \in Thread : q # r \/ u # t => handler'[<<q, u>>] = handler[<<q, u>>]
    BY <1>1 DEF ReadCache, RInv, TypeOK
  <2> QED BY <1>1, <2>1, HandlerFrame DEF ReadCache
<1>2. CASE WriteCache(r, t)
  <2>1. \A q \in Req, u \in Thread : q # r \/ u # t => handler'[<<q, u>>] = handler[<<q, u>>]
    BY <1>2 DEF WriteCache, RInv, TypeOK
  <2> QED BY <1>2, <2>1, HandlerFrame DEF WriteCache
<1>3. CASE UpdateReady(r, t)
  <2>1. \A q \in Req, u \in Thread : q # r \/ u # t => handler'[<<q, u>>] = handler[<<q, u>>]
    BY <1>3 DEF UpdateReady, RInv, TypeOK
  <2> QED BY <1>3, <2>1, HandlerFrame DEF UpdateReady
<1>4. CASE UpdateReadyFails(r, t)
  <2>1. \A q \in Req, u \in Thread : q # r \/ u # t => handler'[<<q, u>>] = handler[<<q, u>>]
    BY <1>4 DEF UpdateReadyFails, RInv, TypeOK
  <2> QED BY <1>4, <2>1, HandlerFrame DEF UpdateReadyFails
<1> QED
  BY <1>1, <1>2, <1>3, <1>4 DEF HandlerStep

\* What is in a queue after a message came in or the first one was taken.
LEMMA QueueElements ==
    ASSUME NEW q \in Seq(Message)
    PROVE  /\ \A m \in Message : \A i \in 1 .. Len(Append(q, m)) :
                Append(q, m)[i] = m \/ \E j \in 1 .. Len(q) : Append(q, m)[i] = q[j]
           /\ q # <<>> => /\ Head(q) \in Message
                          /\ \E j \in 1 .. Len(q) : Head(q) = q[j]
                          /\ \A i \in 1 .. Len(Tail(q)) : \E j \in 1 .. Len(q) : Tail(q)[i] = q[j]
<1>1. ASSUME NEW m \in Message, NEW i \in 1 .. Len(Append(q, m))
      PROVE  Append(q, m)[i] = m \/ \E j \in 1 .. Len(q) : Append(q, m)[i] = q[j]
  <2>1. /\ Len(Append(q, m)) = Len(q) + 1
        /\ \A j \in 1 .. Len(q) : Append(q, m)[j] = q[j]
        /\ Append(q, m)[Len(q) + 1] = m
    BY AppendProperties
  <2>2. Len(q) \in Nat
    BY LenProperties
  <2>3. i \in 1 .. Len(q) \/ i = Len(q) + 1
    BY <2>1, <2>2
  <2> QED BY <2>1, <2>3
<1>2. ASSUME q # <<>>
      PROVE  /\ Head(q) \in Message
             /\ \E j \in 1 .. Len(q) : Head(q) = q[j]
             /\ \A i \in 1 .. Len(Tail(q)) : \E j \in 1 .. Len(q) : Tail(q)[i] = q[j]
  <2>1. /\ Head(q) \in Message
        /\ Len(Tail(q)) = Len(q) - 1
        /\ \A i \in 1 .. Len(Tail(q)) : Tail(q)[i] = q[i + 1]
    BY <1>2, HeadTailProperties
  <2>2. Len(q) \in Nat \ {0} /\ Head(q) = q[1]
    BY <1>2, EmptySeq, LenProperties
  <2>3. \A i \in 1 .. Len(Tail(q)) : i + 1 \in 1 .. Len(q)
    BY <2>1, <2>2
  <2> QED BY <2>1, <2>2, <2>3
<1> QED BY <1>1, <1>2

LEMMA LinkNothingEarly ==
    ASSUME RInv,
           \/ \E r \in Req : ProbeStep(r)
           \/ SendReply \/ LoseMessage \/ \E t \in Reader : ReceiveReply(t)
    PROVE  NothingEarly'
<1> USE DEF RInv, NothingEarly, Asked
<1>0. dnQueue \in Seq(Message) /\ replies \in Seq(Message)
  BY DEF TypeOK
<1>1. ASSUME NEW r \in Req, ProbeReceives(r) PROVE NothingEarly'
  BY <1>1 DEF ProbeReceives
<1>2. ASSUME NEW r \in Req, NEW o \in Outcome, ProbeResponds(r, o) PROVE NothingEarly'
  <2> DEFINE m == [req |-> r, outcome |-> o]
  <2>1. m \in Message /\ m.req = r
    BY DEF Message
  <2>2. \A i \in 1 .. Len(dnQueue') : dnQueue'[i] = m \/ \E j \in 1 .. Len(dnQueue) : dnQueue'[i] = dnQueue[j]
    BY <1>0, <1>2, <2>1, QueueElements DEF ProbeResponds
  <2>3. Asked(r)
    BY <1>2 DEF ProbeResponds
  <2> HIDE DEF m
  <2>4. \A i \in 1 .. Len(dnQueue') : Asked(dnQueue'[i].req)
    BY <2>1, <2>2, <2>3
  <2> QED BY <1>2, <2>4 DEF ProbeResponds
<1>3. CASE SendReply
  <2>1. PICK k \in 1 .. Len(dnQueue) : Head(dnQueue) = dnQueue[k]
    BY <1>0, <1>3, QueueElements DEF SendReply
  <2>2. Head(dnQueue) \in Message
    BY <1>0, <1>3, QueueElements DEF SendReply
  <2>3. \A i \in 1 .. Len(replies') :
           replies'[i] = dnQueue[k] \/ \E j \in 1 .. Len(replies) : replies'[i] = replies[j]
    BY <1>0, <1>3, <2>1, <2>2, QueueElements DEF SendReply
  <2>4. \A i \in 1 .. Len(dnQueue') : \E j \in 1 .. Len(dnQueue) : dnQueue'[i] = dnQueue[j]
    <3>1. CASE dnQueue' = Tail(dnQueue)
      BY <1>0, <1>3, <3>1, QueueElements DEF SendReply
    <3>2. CASE dnQueue' = dnQueue
      BY <3>2
    <3> QED BY <1>3, <3>1, <3>2 DEF SendReply
  <2> QED BY <1>3, <2>1, <2>3, <2>4 DEF SendReply
<1>4. CASE LoseMessage
  <2>1. \A i \in 1 .. Len(replies') : \E j \in 1 .. Len(replies) : replies'[i] = replies[j]
    <3>1. CASE replies # <<>> /\ replies' = Tail(replies)
      BY <1>0, <3>1, QueueElements
    <3>2. CASE replies' = replies
      BY <3>2
    <3> QED BY <1>4, <3>1, <3>2 DEF LoseMessage
  <2> QED BY <1>4, <2>1 DEF LoseMessage
<1>5. ASSUME NEW t \in Reader, ReceiveReply(t) PROVE NothingEarly'
  <2>1. \A i \in 1 .. Len(replies') : \E j \in 1 .. Len(replies) : replies'[i] = replies[j]
    BY <1>0, <1>5, QueueElements DEF ReceiveReply
  <2>2. Head(replies) \in Message /\ \E j \in 1 .. Len(replies) : Head(replies) = replies[j]
    BY <1>0, <1>5, QueueElements DEF ReceiveReply
  <2>3. Head(replies).req \in Req /\ Asked(Head(replies).req)
    BY <2>2 DEF Message
  <2>4. "ask" \in Thread /\ t \in Thread /\ t # "ask"
    BY BoundAssumption DEF Thread
  <2>5. \A q \in Req, u \in Thread : q # Head(replies).req \/ u # t =>
           handler'[<<q, u>>] = handler[<<q, u>>]
    BY <1>5, <2>3, <2>4 DEF ReceiveReply, TypeOK
  <2>6. /\ \A q \in Req, u \in Thread : handler'[<<q, u>>].step # "idle" => Asked(q)
        /\ \A q \in Req : handler'[<<q, "ask">>].step # "idle" => ask[q] = "done"
    BY <2>3, <2>4, <2>5
  <2> QED BY <1>5, <2>1, <2>6 DEF ReceiveReply
<1> QED
  BY <1>1, <1>2, <1>3, <1>4, <1>5 DEF ProbeStep

LEMMA RInvInductive == Spec => []RInv
<1>1. Init => NothingEarly
  BY DEF Init, NothingEarly, Asked, NoCall, Thread
<1>2. RInv /\ [Next]_vars => NothingEarly'
  <2> SUFFICES ASSUME RInv, [Next]_vars PROVE NothingEarly'
    OBVIOUS
  <2>1. CASE UNCHANGED vars
    BY <2>1 DEF vars, RInv, NothingEarly, Asked
  <2>2. ASSUME NEW r \in Req, CancelRemove(r) \/ CancelEnds(r) \/ Expire(r) PROVE NothingEarly'
    BY <2>2 DEF CancelRemove, CancelEnds, CancelLog, CancelLogFails, Expire, RInv, NothingEarly,
       Asked, links
  <2> QED
    BY <2>1, <2>2, AskNothingEarly, HandlerNothingEarly, LinkNothingEarly DEF Next
<1> QED
  BY <1>1, <1>2, TypeCorrect, PTL DEF Spec, RInv
------------------------------------------------------------------------------
(* Steps of QueryFlow are steps of QueryLife. *)

SeenSame(r) == Seen(r)' = Seen(r) /\ Giving(r)' = Giving(r)

\* What neither the clients nor the endpoints see.
LEMMA Stutter ==
    ASSUME \A r \in Req : SeenSame(r), told' = told
    PROVE  UNCHANGED Life!vars
BY DEF SeenSame, Life!vars

\* A step that leaves cache, told and the copies of the handlers alone, and
\* starts no ask().
LEMMA HiddenStep ==
    ASSUME UNCHANGED <<cache, told>>,
           \A r \in Req : ask[r] = "new" <=> ask'[r] = "new",
           \A r \in Req, t \in Thread :
              handler'[<<r, t>>].step = "write" <=> handler[<<r, t>>].step = "write"
    PROVE  UNCHANGED Life!vars
<1>1. \A r \in Req : SeenSame(r)
  BY DEF SeenSame, Seen, Giving
<1> QED BY <1>1, Stutter

LEMMA AskRefines ==
    ASSUME RInv, NEW r \in Req, AskStep(r) \/ NewEntryFails(r)
    PROVE  Life!Next \/ UNCHANGED Life!vars
<1>1. CASE Enlist(r)
  <2>1. Seen(r) = NotYet /\ Seen(r)' = Enlisted /\ \A q \in Req : q # r => Seen(q)' = Seen(q)
    BY <1>1 DEF Enlist, Seen, RInv, TypeOK, Enlisted, Absent
  <2>2. \A q \in Req : Giving(q)' = Giving(q)
    BY <1>1 DEF Enlist, Giving
  <2>3. Life!Enlist(r)
    BY <1>1, <2>1, <2>2 DEF Life!Enlist, Life!Is, NotYet, Enlisted, Enlist
  <2> QED BY <2>3 DEF Life!Next
<1>2. CASE NewEntry(r) \/ NewEntryFails(r) \/ SendAsk(r)
  <2>1. \A q \in Req : ask[q] = "new" <=> ask'[q] = "new"
    BY <1>2 DEF NewEntry, NewEntryFails, SendAsk, RInv, TypeOK
  <2>2. UNCHANGED <<cache, told, handler>>
    BY <1>2 DEF NewEntry, NewEntryFails, SendAsk
  <2> QED BY <2>1, <2>2, HiddenStep
<1>3. CASE AskFails(r) \/ UpdateProbe(r)
  <2>1. \A q \in Req : ask[q] = "new" <=> ask'[q] = "new"
    BY <1>3 DEF AskFails, UpdateProbe, RInv, TypeOK
  <2>2. handler[<<r, "ask">>].step = "idle" /\ "ask" \in Thread
    BY <1>3 DEF AskFails, UpdateProbe, RInv, NothingEarly, Thread
  <2>3. \A q \in Req, t \in Thread :
           handler'[<<q, t>>].step = "write" <=> handler[<<q, t>>].step = "write"
    <3>1. /\ handler \in [Req \X Thread -> Call]
          /\ handler' = handler \/ handler' = [handler EXCEPT ![<<r, "ask">>] = Begin("error", TRUE)]
      BY <1>3 DEF AskFails, UpdateProbe, RInv, TypeOK
    <3>2. Begin("error", TRUE).step = "read"
      BY DEF Begin
    <3> QED BY <2>2, <3>1, <3>2
  <2> QED BY <1>3, <2>1, <2>3, HiddenStep DEF AskFails, UpdateProbe
<1> QED BY <1>1, <1>2, <1>3 DEF AskStep

LEMMA HandlerRefines ==
    ASSUME RInv, NEW r \in Req, NEW t \in Thread, HandlerStep(r, t) \/ UpdateReadyFails(r, t)
    PROVE  Life!Next \/ UNCHANGED Life!vars
<1>0. /\ handler \in [Req \X Thread -> Call] /\ cache \in [Req -> State]
      /\ told \in [Req -> SUBSET State]
  BY DEF RInv, TypeOK
<1>1. CASE ReadCache(r, t) /\ cache[r] = Absent
  <2>1. \A q \in Req, u \in Thread :
           handler'[<<q, u>>].step = "write" <=> handler[<<q, u>>].step = "write"
    BY <1>0, <1>1 DEF ReadCache, NoCall
  <2> QED BY <1>1, <2>1, HiddenStep DEF ReadCache
<1>2. CASE ReadCache(r, t) /\ cache[r] # Absent
  <2>1. ask[r] # "new"
    BY <1>2 DEF ReadCache, RInv, NothingEarly, Asked
  <2>2. \A q \in Req : Seen(q)' = Seen(q)
    BY <1>2 DEF ReadCache, Seen
  <2>3. Seen(r).status \in {"QRY_ENLISTED", "QRY_READY"}
    BY <1>0, <1>2, <2>1 DEF Seen, State, Enlisted
  <2>4. t \notin Giving(r) /\ Giving(r)' = Giving(r) \cup {t}
    BY <1>0, <1>2 DEF ReadCache, Giving, Call
  <2>5. \A q \in Req : q # r => Giving(q)' = Giving(q)
    BY <1>0, <1>2 DEF ReadCache, Giving
  <2>6. Life!Take(r, t)
    BY <1>2, <2>2, <2>3, <2>4, <2>5 DEF Life!Take, Life!Listed, ReadCache
  <2> QED BY <2>6 DEF Life!Next
<1>3. CASE WriteCache(r, t)
  <2> DEFINE a == Ready(handler[<<r, t>>])
  <2>1. ask[r] # "new"
    BY <1>3 DEF WriteCache, RInv, NothingEarly, Asked
  <2>2. a \in Life!Answers /\ a # Absent
    BY <1>0 DEF Life!Answers, Ready, Call, State, Outcome, Absent, Enlisted
  <2>3. Seen(r)' = a /\ \A q \in Req : q # r => Seen(q)' = Seen(q)
    BY <1>0, <1>3, <2>1, <2>2 DEF WriteCache, Seen
  <2>4. t \in Giving(r) /\ Giving(r)' = Giving(r) \ {t}
    BY <1>0, <1>3 DEF WriteCache, Giving, Call
  <2>5. \A q \in Req : q # r => Giving(q)' = Giving(q)
    BY <1>0, <1>3 DEF WriteCache, Giving
  <2>6. told' = [told EXCEPT ![r] = @ \cup {a}]
    BY <1>3 DEF WriteCache
  <2> HIDE DEF a
  <2>7. Life!Answer(r, t, a)
    BY <2>3, <2>4, <2>5, <2>6 DEF Life!Answer
  <2> QED BY <2>2, <2>7 DEF Life!Next
<1>4. CASE UpdateReady(r, t) \/ UpdateReadyFails(r, t)
  <2>1. \A q \in Req, u \in Thread :
           handler'[<<q, u>>].step = "write" <=> handler[<<q, u>>].step = "write"
    BY <1>0, <1>4 DEF UpdateReady, UpdateReadyFails, NoCall, Begin
  <2> QED BY <1>4, <2>1, HiddenStep DEF UpdateReady, UpdateReadyFails
<1> QED BY <1>1, <1>2, <1>3, <1>4 DEF HandlerStep

LEMMA LinkRefines ==
    ASSUME RInv,
           \/ \E r \in Req : ProbeStep(r)
           \/ SendReply \/ LoseMessage \/ \E t \in Reader : ReceiveReply(t)
    PROVE  UNCHANGED Life!vars
<1>1. CASE (\E r \in Req : ProbeStep(r)) \/ SendReply \/ LoseMessage
  <2>1. UNCHANGED <<cache, told, ask, handler>>
    BY <1>1 DEF ProbeStep, ProbeReceives, ProbeResponds, SendReply, LoseMessage
  <2> QED BY <2>1, HiddenStep
<1>2. ASSUME NEW t \in Reader, ReceiveReply(t)
      PROVE  UNCHANGED Life!vars
  <2>1. replies \in Seq(Message) /\ replies # <<>> /\ t \in Thread
    BY <1>2 DEF ReceiveReply, RInv, TypeOK, Thread
  <2>2. Head(replies).req \in Req
    BY <2>1, MessageType
  <2>3. \A q \in Req, u \in Thread :
           handler'[<<q, u>>].step = "write" <=> handler[<<q, u>>].step = "write"
    BY <1>2, <2>1, <2>2 DEF ReceiveReply, RInv, TypeOK, Begin
  <2> QED BY <1>2, <2>3, HiddenStep DEF ReceiveReply
<1> QED BY <1>1, <1>2

LEMMA GoRefines ==
    ASSUME RInv, NEW r \in Req, CancelRemove(r) \/ CancelEnds(r) \/ Expire(r)
    PROVE  Life!Next \/ UNCHANGED Life!vars
<1>1. CASE CancelEnds(r)
  <2>1. UNCHANGED <<cache, told, ask, handler>>
    BY <1>1 DEF CancelEnds, CancelLog, CancelLogFails
  <2> QED BY <2>1, HiddenStep
<1>2. CASE CancelRemove(r) \/ Expire(r)
  <2>1. \A q \in Req : Giving(q)' = Giving(q)
    BY <1>2 DEF CancelRemove, Expire, Giving
  <2>2. \A q \in Req : q # r => Seen(q)' = Seen(q)
    BY <1>2 DEF CancelRemove, Expire, Seen, RInv, TypeOK
  <2>3. CASE ask[r] = "new" \/ cache[r] = Absent
    <3>1. Seen(r)' = Seen(r)
      BY <1>2, <2>3 DEF CancelRemove, Expire, Seen, RInv, TypeOK
    <3> QED BY <1>2, <2>1, <2>2, <3>1, Stutter DEF SeenSame, CancelRemove, Expire
  <2>4. CASE ask[r] # "new" /\ cache[r] # Absent
    <3>1. Seen(r)' = NoMore /\ Seen(r).status \in {"QRY_ENLISTED", "QRY_READY"}
      BY <1>2, <2>4 DEF CancelRemove, Expire, Seen, RInv, TypeOK, State, Enlisted
    <3>2. Life!Go(r)
      BY <1>2, <2>1, <2>2, <3>1 DEF Life!Go, Life!Listed, Life!Is, NoMore, CancelRemove, Expire
    <3> QED BY <3>2 DEF Life!Next
  <2> QED BY <2>3, <2>4
<1> QED BY <1>1, <1>2

\* The query manager is a correct implementation of QueryLife: every step of
\* ask(), setResult, setError, cancel0, expiry, probe and links is one of
\* its steps or hidden from clients and endpoints.
THEOREM Refinement == Spec => ImplementsQueryLife
<1>1. Init => Life!Init
  BY DEF Init, Life!Init, Life!Is, Seen, Giving, NotYet, NoCall
<1>2. RInv /\ [Next]_vars => [Life!Next]_(Life!vars)
  <2> SUFFICES ASSUME RInv, [Next]_vars PROVE Life!Next \/ UNCHANGED Life!vars
    OBVIOUS
  <2>1. CASE UNCHANGED vars
    BY <2>1, HiddenStep DEF vars
  <2> QED
    BY <2>1, AskRefines, HandlerRefines, LinkRefines, GoRefines DEF Next
<1> QED
  BY <1>1, <1>2, RInvInductive, PTL DEF Spec, ImplementsQueryLife, Life!Spec
==============================================================================
