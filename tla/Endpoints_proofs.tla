-------------------------- MODULE Endpoints_proofs --------------------------
(***************************************************************************)
(* What holds of the queue of notifications for any number of requests,    *)
(* endpoints, users and failures.  The argument: a round of the sender     *)
(* starts with nothing left of the one before, marks only what it has      *)
(* taken, and hands what it has taken to posts group by group; a post that *)
(* ends removes or unmarks the entries it carried.                         *)
(***************************************************************************)
EXTENDS Endpoints, FiniteSetTheorems, TLAPS

\* The proofs need no bound on versions and on the clock, which TypeOK has.
AnyEntry == [version : Nat, wait : BOOLEAN, attempts : Nat, stamp : Nat, processed : BOOLEAN]
Addition == [req : Req, version : Nat, eps : SUBSET Endpoint, stamp : Nat]

Shape ==
    /\ version \in [Req -> Nat]
    /\ eps \in [User -> SUBSET Endpoint]
    /\ adds \subseteq Addition
    /\ queue \in [Key -> AnyEntry \cup {NoEntry}]
    /\ clock \in Nat /\ faults \in Nat
    /\ DOMAIN ready \subseteq Key /\ \A k \in DOMAIN ready : ready[k] \in AnyEntry

\* A sender that waits has posted all it had taken.
NothingLeft == sender = "wait" => DOMAIN ready = {}

IInv == Shape /\ NothingLeft /\ InChargeWithoutFaults
------------------------------------------------------------------------------
(* Entries. *)

LEMMA EntryFacts ==
    ASSUME NEW x \in AnyEntry
    PROVE  /\ x # NoEntry
           /\ x.processed \in BOOLEAN /\ x.attempts \in Nat
           /\ [x EXCEPT !.processed = TRUE] \in AnyEntry
           /\ [x EXCEPT !.wait = FALSE] \in AnyEntry
           /\ [x EXCEPT !.wait = FALSE].processed = x.processed
<1>1. DOMAIN x = {"version", "wait", "attempts", "stamp", "processed"}
  BY DEF AnyEntry
<1>2. DOMAIN NoEntry = {"version"}
  BY DEF NoEntry
<1>3. x # NoEntry
  BY <1>1, <1>2
<1> QED
  BY <1>3 DEF AnyEntry

LEMMA RetryFacts ==
    ASSUME NEW x \in AnyEntry
    PROVE  LET y == [x EXCEPT !.wait = TRUE, !.processed = FALSE,
                              !.attempts = IF @ < DelaysCnt THEN @ + 1 ELSE @]
           IN y \in AnyEntry /\ y.processed = FALSE
<1> DEFINE next == IF x.attempts < DelaysCnt THEN x.attempts + 1 ELSE x.attempts
<1>1. next \in Nat
  <2>1. x.attempts \in Nat
    BY EntryFacts
  <2>2. x.attempts + 1 \in Nat
    BY <2>1
  <2> QED BY <2>1, <2>2, Zenon
<1> HIDE DEF next
<1>2. LET y == [x EXCEPT !.wait = TRUE, !.processed = FALSE, !.attempts = next]
      IN y \in AnyEntry /\ y.processed = FALSE
  BY <1>1 DEF AnyEntry
<1> QED
  BY <1>2 DEF next

LEMMA QueuedFacts ==
    ASSUME Shape
    PROVE  /\ Queued \subseteq Key
           /\ \A k \in Queued : queue[k] \in AnyEntry
           /\ \A k \in Key : k \notin Queued => queue[k] = NoEntry
BY DEF Shape, Queued

\* Steps that remove entries leave the others as they are.
LEMMA WithoutFacts ==
    ASSUME Shape, NEW K, queue' = Without(K)
    PROVE  /\ queue' \in [Key -> AnyEntry \cup {NoEntry}]
           /\ \A k \in Key : queue'[k] = IF k \in K THEN NoEntry ELSE queue[k]
           /\ \A k \in Queued' : k \in Queued /\ k \notin K /\ queue'[k] = queue[k]
<1>1. \A k \in Key : queue'[k] = IF k \in K THEN NoEntry ELSE queue[k]
  BY DEF Without
<1>2. queue' \in [Key -> AnyEntry \cup {NoEntry}]
  BY <1>1 DEF Shape, Without
<1>3. \A k \in Queued' : k \in Queued /\ k \notin K /\ queue'[k] = queue[k]
  BY <1>1 DEF Queued
<1> QED BY <1>1, <1>2, <1>3

LEMMA InitIInv == Init => IInv
<1> SUFFICES ASSUME Init PROVE IInv
  OBVIOUS
<1>1. Shape
  BY DEF Init, Shape, Nothing
<1>2. NothingLeft
  BY DEF Init, NothingLeft, Nothing
<1>3. Queued = {}
  BY DEF Init, Queued
<1> QED
  BY <1>1, <1>2, <1>3 DEF IInv, InChargeWithoutFaults, InCharge
------------------------------------------------------------------------------
(* Entries are put and rescheduled. *)

\* A step that leaves the sender and the posts alone keeps the sender in
\* charge if it marks nothing.
LEMMA Frame ==
    ASSUME IInv, Shape', UNCHANGED <<sender, ready, flights, faults>>,
           \A k \in Key : k \in Queued' /\ queue'[k].processed
                             => k \in Queued /\ queue[k].processed
    PROVE  IInv'
<1>1. NothingLeft'
  BY DEF IInv, NothingLeft
<1>2. ASSUME faults = 0, NEW k \in Queued', queue'[k].processed
      PROVE  Carried(k)'
  <2>1. k \in Key
    BY DEF Queued
  <2>2. Carried(k)
    BY <1>2, <2>1 DEF IInv, InChargeWithoutFaults, InCharge
  <2> QED BY <2>2 DEF Carried
<1> QED
  BY <1>1, <1>2 DEF IInv, InChargeWithoutFaults, InCharge

LEMMA SetReadyInv ==
    ASSUME IInv, NEW r \in Req, SetReady(r)
    PROVE  IInv'
<1> USE EndpointsAssumption DEF EndpointsAssumption
<1> DEFINE a == [req |-> r, version |-> version[r] + 1, eps |-> eps[UserOf[r]], stamp |-> 0]
<1>1. /\ version' = [version EXCEPT ![r] = @ + 1] /\ adds' = adds \cup {a}
      /\ UNCHANGED <<eps, queue, clock, sender, ready, flights, faults>>
  BY DEF SetReady, time, thread
<1>2. a \in Addition
  BY DEF IInv, Shape, Addition
<1>3. version' \in [Req -> Nat]
  BY <1>1 DEF IInv, Shape
<1>4. Shape'
  BY <1>1, <1>2, <1>3 DEF IInv, Shape
<1> QED
  BY <1>1, <1>4, Frame DEF Queued

LEMMA AddNotificationInv ==
    ASSUME IInv, NEW a \in adds, NEW e \in a.eps, AddNotification(a, e)
    PROVE  IInv'
<1> DEFINE k == <<a.req, e>>
           t == IF a.stamp = 0 THEN clock + 1 ELSE a.stamp
           x == [version |-> a.version, wait |-> FALSE, attempts |-> 0, stamp |-> t,
                 processed |-> FALSE]
           b == [a EXCEPT !.eps = @ \ {e}, !.stamp = t]
<1>1. /\ clock' = (IF a.stamp = 0 THEN t ELSE clock)
      /\ queue' = [queue EXCEPT ![k] = x]
      /\ adds' = (adds \ {a}) \cup {b}
      /\ UNCHANGED <<version, eps, sender, ready, flights, faults>>
  BY DEF AddNotification, query
<1>2. a \in Addition
  BY DEF IInv, Shape
<1>3. k \in Key /\ t \in Nat
  BY <1>2 DEF Addition, Key, IInv, Shape
<1> HIDE DEF t
<1>4. x \in AnyEntry /\ b \in Addition
  BY <1>2, <1>3 DEF AnyEntry, Addition
<1>5. clock' \in Nat
  BY <1>1, <1>3 DEF IInv, Shape
<1> HIDE DEF k, x, b
<1>6. queue' \in [Key -> AnyEntry \cup {NoEntry}]
  BY <1>1, <1>3, <1>4 DEF IInv, Shape
<1>7. Shape'
  BY <1>1, <1>4, <1>5, <1>6 DEF IInv, Shape
<1>8. ASSUME NEW j \in Key, j \in Queued', queue'[j].processed
      PROVE  j \in Queued /\ queue[j].processed
  <2>1. x.processed = FALSE
    BY DEF x
  <2>2. j # k
    BY <1>1, <1>8, <2>1 DEF IInv, Shape
  <2>3. queue'[j] = queue[j]
    BY <1>1, <2>2 DEF IInv, Shape
  <2> QED BY <1>8, <2>3 DEF Queued
<1> QED
  BY <1>1, <1>7, <1>8, Frame

LEMMA ElapseInv ==
    ASSUME IInv, NEW k \in Key, Elapse(k)
    PROVE  IInv'
<1>1. /\ k \in Queued /\ queue' = [queue EXCEPT ![k].wait = FALSE]
      /\ UNCHANGED <<version, eps, adds, clock, sender, ready, flights, faults>>
  BY DEF Elapse, query, futures, time, thread
<1>2. queue[k] \in AnyEntry /\ queue \in [Key -> AnyEntry \cup {NoEntry}]
  BY <1>1, QueuedFacts DEF IInv, Shape
<1>3. /\ queue'[k] = [queue[k] EXCEPT !.wait = FALSE]
      /\ \A j \in Key : j # k => queue'[j] = queue[j]
  BY <1>1, <1>2
<1>4. queue'[k] \in AnyEntry /\ queue'[k].processed = queue[k].processed
  BY <1>2, <1>3, EntryFacts
<1>5. queue' \in [Key -> AnyEntry \cup {NoEntry}]
  BY <1>1, <1>2, <1>3, <1>4
<1>6. Shape'
  BY <1>1, <1>5 DEF IInv, Shape
<1>7. ASSUME NEW j \in Key, j \in Queued', queue'[j].processed
      PROVE  j \in Queued /\ queue[j].processed
  BY <1>1, <1>3, <1>4, <1>7 DEF Queued
<1> QED
  BY <1>1, <1>6, <1>7, Frame

\* Entries that are cancelled, trimmed or expire.
LEMMA RemovalInv ==
    ASSUME IInv, NEW K, queue' = Without(K), adds' \subseteq adds,
           UNCHANGED <<version, eps, clock, sender, ready, flights, faults>>
    PROVE  IInv'
<1>1. Shape'
  BY WithoutFacts DEF IInv, Shape
<1> QED
  BY <1>1, WithoutFacts, Frame DEF IInv
------------------------------------------------------------------------------
(* Rounds of the sender and posts. *)

LEMMA PollInv ==
    ASSUME IInv, Poll
    PROVE  IInv'
<1>1. /\ sender = "wait" /\ ready' = Restrict(queue, Due) /\ sender' \in {"send", "mark"}
      /\ UNCHANGED <<version, eps, adds, clock, queue, flights, faults>>
  BY DEF Poll, query, futures, time
<1>2. Due \subseteq Queued
  BY DEF Due
<1>3. DOMAIN ready' = Due /\ \A k \in Due : ready'[k] = queue[k]
  BY <1>1 DEF Restrict
<1>4. Shape'
  BY <1>1, <1>2, <1>3, QueuedFacts DEF IInv, Shape
<1>5. NothingLeft'
  BY <1>1 DEF NothingLeft
<1>6. DOMAIN ready = {}
  BY <1>1 DEF IInv, NothingLeft
<1>7. InChargeWithoutFaults'
  BY <1>1, <1>6 DEF IInv, InChargeWithoutFaults, InCharge, Queued, Carried
<1> QED BY <1>4, <1>5, <1>7 DEF IInv

LEMMA MarkInv ==
    ASSUME IInv, Mark
    PROVE  IInv'
<1>1. /\ queue' = [k \in Key |-> IF k \in DOMAIN ready
                                 THEN [ready[k] EXCEPT !.processed = TRUE] ELSE queue[k]]
      /\ sender' = "send"
      /\ UNCHANGED <<version, eps, adds, clock, ready, flights, faults>>
  BY DEF Mark, query, futures, time
<1>2. \A k \in DOMAIN ready : [ready[k] EXCEPT !.processed = TRUE] \in AnyEntry
  BY EntryFacts DEF IInv, Shape
<1>3. Shape'
  BY <1>1, <1>2 DEF IInv, Shape
<1>4. NothingLeft'
  BY <1>1 DEF NothingLeft
<1>5. ASSUME faults = 0, NEW k \in Queued', queue'[k].processed
      PROVE  Carried(k)'
  <2>1. CASE k \in DOMAIN ready
    BY <1>1, <2>1 DEF Carried
  <2>2. CASE k \notin DOMAIN ready
    <3>1. k \in Queued /\ queue[k].processed
      BY <1>1, <1>5, <2>2 DEF Queued
    <3> QED
      BY <1>1, <1>5, <3>1 DEF IInv, InChargeWithoutFaults, InCharge, Carried
  <2> QED BY <2>1, <2>2
<1> QED
  BY <1>1, <1>3, <1>4, <1>5 DEF IInv, InChargeWithoutFaults, InCharge

LEMMA SendInv ==
    ASSUME IInv, NEW u \in User, NEW e \in Endpoint, Send(u, e)
    PROVE  IInv'
<1> DEFINE G == Group(u, e)
           f == [k \in G |-> ready[k].version]
<1>1. /\ sender = "send" /\ flights' = flights \cup {f}
      /\ ready' = Restrict(ready, DOMAIN ready \ G)
      /\ UNCHANGED <<version, eps, adds, clock, queue, sender, faults>>
  BY DEF Send, query, futures, time
<1>2. G \subseteq DOMAIN ready /\ DOMAIN f = G
  BY DEF Group
<1> HIDE DEF G, f
<1>3. DOMAIN ready' = DOMAIN ready \ G /\ \A k \in DOMAIN ready' : ready'[k] = ready[k]
  BY <1>1 DEF Restrict
<1>4. Shape'
  BY <1>1, <1>3 DEF IInv, Shape
<1>5. NothingLeft'
  BY <1>1 DEF NothingLeft
<1>6. ASSUME NEW k \in Key, Carried(k)
      PROVE  Carried(k)'
  BY <1>1, <1>2, <1>3, <1>6 DEF Carried
<1>7. InChargeWithoutFaults'
  BY <1>1, <1>6 DEF IInv, InChargeWithoutFaults, InCharge, Queued
<1> QED BY <1>4, <1>5, <1>7 DEF IInv

LEMMA RestInv ==
    ASSUME IInv, Rest
    PROVE  IInv'
<1>1. /\ DOMAIN ready = {}
      /\ UNCHANGED <<version, eps, adds, clock, queue, ready, flights, faults>>
  BY DEF Rest, query, futures, time
<1> QED
  BY <1>1 DEF IInv, Shape, NothingLeft, InChargeWithoutFaults, InCharge, Queued, Carried

\* A round that fails, or a restart, is a fault.
LEMMA FaultInv ==
    ASSUME IInv, faults' = faults + 1, ready' = Nothing, sender' = "wait",
           adds' \subseteq adds, UNCHANGED <<version, eps, clock, queue>>
    PROVE  IInv'
<1>1. DOMAIN ready' = {} /\ faults' \in Nat /\ faults' # 0
  BY DEF Nothing, IInv, Shape
<1> QED
  BY <1>1 DEF IInv, Shape, NothingLeft, InChargeWithoutFaults

\* A post that ends takes its keys along.
LEMMA PostEndsInv ==
    ASSUME IInv, Shape', NEW f \in flights, flights' = flights \ {f},
           UNCHANGED <<sender, ready, faults>>,
           \A k \in Key : k \in Queued' /\ queue'[k].processed
               => k \notin DOMAIN f /\ k \in Queued /\ queue[k].processed
    PROVE  IInv'
<1>1. NothingLeft'
  BY DEF IInv, NothingLeft
<1>2. ASSUME faults = 0, NEW k \in Queued', queue'[k].processed
      PROVE  Carried(k)'
  <2>1. k \in Key
    BY DEF Queued
  <2>2. Carried(k) /\ k \notin DOMAIN f
    BY <1>2, <2>1 DEF IInv, InChargeWithoutFaults, InCharge
  <2> QED BY <2>2 DEF Carried
<1> QED
  BY <1>1, <1>2 DEF IInv, InChargeWithoutFaults, InCharge

LEMMA PostOkInv ==
    ASSUME IInv, NEW f \in flights, PostOk(f)
    PROVE  IInv'
<1>1. /\ queue' = Without(DOMAIN f) /\ flights' = flights \ {f}
      /\ UNCHANGED <<version, eps, adds, clock, sender, ready, faults>>
  BY DEF PostOk, query, futures, time, thread
<1>2. Shape'
  BY <1>1, WithoutFacts DEF IInv, Shape
<1>3. \A k \in Queued' : k \in Queued /\ k \notin DOMAIN f /\ queue'[k] = queue[k]
  BY <1>1, WithoutFacts DEF IInv
<1> QED
  BY <1>1, <1>2, <1>3, PostEndsInv

\* What a failed post does to the queue.
LEMMA RescheduleFacts ==
    ASSUME Shape, NEW f \in flights, NEW drop, Reschedule(f, drop)
    PROVE  /\ queue' \in [Key -> AnyEntry \cup {NoEntry}]
           /\ \A k \in drop \cap Key : queue'[k] = NoEntry
           /\ \A k \in (DOMAIN f \cap Queued) \ drop :
                 queue'[k] \in AnyEntry /\ queue'[k].processed = FALSE
           /\ \A k \in Key \ (drop \cup (DOMAIN f \cap Queued)) : queue'[k] = queue[k]
<1> DEFINE retry == (DOMAIN f \cap Queued) \ drop
           late(k) == [queue[k] EXCEPT !.wait = TRUE, !.processed = FALSE,
                                      !.attempts = IF @ < DelaysCnt THEN @ + 1 ELSE @]
<1>1. queue' = [k \in Key |-> IF k \in drop THEN NoEntry
                              ELSE IF k \in retry THEN late(k) ELSE queue[k]]
  BY DEF Reschedule
<1>2. \A k \in retry : k \in Key /\ late(k) \in AnyEntry /\ late(k).processed = FALSE
  BY QueuedFacts, RetryFacts
<1> HIDE DEF late
<1> QED
  BY <1>1, <1>2 DEF Shape

LEMMA PostFailsInv ==
    ASSUME IInv, NEW f \in flights, PostFails(f)
    PROVE  IInv'
<1> DEFINE drop == {k \in DOMAIN f : k[1] \notin live \/ Old(k)}
<1>1. /\ Reschedule(f, drop)
      /\ flights' = flights \ {f}
      /\ UNCHANGED <<version, eps, adds, clock, sender, ready, faults>>
  BY DEF PostFails, Reschedule, query, time
<1>2. drop \subseteq DOMAIN f
  OBVIOUS
<1> HIDE DEF drop
<1>3. /\ queue' \in [Key -> AnyEntry \cup {NoEntry}]
      /\ \A k \in drop \cap Key : queue'[k] = NoEntry
      /\ \A k \in (DOMAIN f \cap Queued) \ drop :
             queue'[k] \in AnyEntry /\ queue'[k].processed = FALSE
      /\ \A k \in Key \ (drop \cup (DOMAIN f \cap Queued)) : queue'[k] = queue[k]
  BY <1>1, RescheduleFacts DEF IInv
<1>4. Shape'
  BY <1>1, <1>3 DEF IInv, Shape
<1>5. ASSUME NEW k \in Key, k \in Queued', queue'[k].processed
      PROVE  k \notin DOMAIN f /\ k \in Queued /\ queue[k].processed
  <2>1. queue'[k] # NoEntry
    BY <1>5 DEF Queued
  <2>2. k \notin drop
    BY <1>3, <2>1
  <2>3. k \notin DOMAIN f \cap Queued
    BY <1>3, <1>5, <2>2
  <2>4. queue'[k] = queue[k]
    BY <1>3, <2>2, <2>3
  <2>5. k \in Queued
    BY <2>1, <2>4 DEF Queued
  <2> QED BY <1>5, <2>3, <2>4, <2>5
<1> QED
  BY <1>1, <1>4, <1>5, PostEndsInv
------------------------------------------------------------------------------
LEMMA NextIInv == IInv /\ [Next]_vars => IInv'
<1> SUFFICES ASSUME IInv, [Next]_vars PROVE IInv'
  OBVIOUS
<1>1. ASSUME NEW r \in Req, RemoveQuery(r) PROVE IInv'
  <2>1. UNCHANGED <<version, eps, adds, clock, queue, sender, ready, flights, faults>>
    BY <1>1 DEF RemoveQuery, futures, time, thread
  <2> QED BY <2>1, Frame DEF IInv, Shape, Queued
<1>2. ASSUME NEW u \in User, NEW E \in SUBSET Endpoint, SignOut(u, E) PROVE IInv'
  <2>1. /\ eps' = [eps EXCEPT ![u] = @ \ E]
        /\ UNCHANGED <<version, adds, clock, queue, sender, ready, flights, faults>>
    BY <1>2 DEF SignOut, time, thread
  <2>2. Shape'
    BY <2>1 DEF IInv, Shape
  <2> QED BY <2>1, <2>2, Frame DEF Queued
<1>3. ASSUME NEW a \in adds, Added(a) PROVE IInv'
  <2>1. /\ adds' \subseteq adds
        /\ UNCHANGED <<version, eps, clock, queue, sender, ready, flights, faults>>
    BY <1>3 DEF Added, query, time, thread
  <2> QED BY <2>1, Frame DEF IInv, Shape, Queued
<1>4. CASE Rescheduled
  <2>1. UNCHANGED <<version, eps, adds, clock, queue, sender, ready, flights, faults>>
    BY <1>4 DEF Rescheduled, query, time, thread
  <2> QED BY <2>1, Frame DEF IInv, Shape, Queued
<1>5. ASSUME NEW c \in cancels, CancelNotifications(c) PROVE IInv'
  BY <1>5, RemovalInv DEF CancelNotifications, query, time, thread
<1>6. ASSUME NEW u \in User, NEW e \in Endpoint, SendThrows(u, e) PROVE IInv'
  BY <1>6, FaultInv DEF SendThrows, query, futures, time
<1>7. CASE Clean
  <2>1. PICK K : queue' = Without(K)
    BY <1>7 DEF Clean
  <2> QED BY <1>7, <2>1, RemovalInv DEF Clean, query, futures, time, thread
<1>8. ASSUME NEW k \in Key, CacheExpires(k) PROVE IInv'
  BY <1>8, RemovalInv DEF CacheExpires, query, futures, time, thread
<1>9. CASE Expire
  <2>1. UNCHANGED <<version, eps, adds, clock, queue, sender, ready, flights, faults>>
    BY <1>9 DEF Expire, query, futures, thread
  <2> QED BY <2>1, Frame DEF IInv, Shape, Queued
<1>10. CASE Restart
  BY <1>10, FaultInv DEF Restart, query, time
<1>11. CASE UNCHANGED vars
  <2>1. UNCHANGED <<version, eps, adds, clock, queue, sender, ready, flights, faults>>
    BY <1>11 DEF vars
  <2> QED BY <2>1, Frame DEF IInv, Shape, Queued
<1>12. CASE RunFuture
  BY <1>3, <1>4, <1>5, <1>12, AddNotificationInv DEF RunFuture
<1>13. CASE SenderStep
  BY <1>6, <1>13, PollInv, MarkInv, RestInv, SendInv DEF SenderStep
<1> QED
  BY SetReadyInv, ElapseInv, PostOkInv, PostFailsInv,
     <1>1, <1>2, <1>7, <1>8, <1>9, <1>10, <1>11, <1>12, <1>13 DEF Next, PostEnds
------------------------------------------------------------------------------
\* As long as the server does not restart and no round fails, every entry
\* marked `processed` is one the sender is about to post or has a post for:
\* no addition, cancellation, trimming or failed post under the sender's
\* snapshot strands an entry.
THEOREM SenderIsInCharge == Spec => []InChargeWithoutFaults
<1>1. IInv => InChargeWithoutFaults
  BY DEF IInv
<1> QED
  BY InitIInv, NextIInv, <1>1, PTL DEF Spec

\* An entry that leaves the queue was accepted, its query is gone, its
\* lifetime is over, or it was cancelled or trimmed: no other step of a
\* future, of the sender or of a post loses it.
THEOREM NothingDropsSilently == Spec => NoSilentDrop
<1> DEFINE Reason(k) == \/ posted'[k] # {} \/ k[1] \notin live \/ Old(k)
                        \/ Clean \/ \E c \in cancels : CancelNotifications(c)
<1>1. ASSUME IInv, [Next]_vars, NEW k \in Queued, queue'[k] = NoEntry
      PROVE  Reason(k)
  <2>1. k \in Key /\ queue[k] \in AnyEntry /\ queue[k] # NoEntry
    BY <1>1, QueuedFacts, EntryFacts DEF IInv
  <2>2. queue' # queue
    BY <1>1, <2>1
  <2>3. ASSUME NEW a \in adds, NEW e \in a.eps, AddNotification(a, e)
        PROVE  FALSE
    <3> DEFINE x == [version |-> a.version, wait |-> FALSE, attempts |-> 0,
                     stamp |-> IF a.stamp = 0 THEN clock + 1 ELSE a.stamp, processed |-> FALSE]
    <3>1. queue' = [queue EXCEPT ![<<a.req, e>>] = x]
      BY <2>3 DEF AddNotification
    <3>2. x # NoEntry
      <4>1. DOMAIN x = {"version", "wait", "attempts", "stamp", "processed"} /\ DOMAIN NoEntry = {"version"}
        BY DEF NoEntry
      <4> HIDE DEF x
      <4> QED BY <4>1
    <3> HIDE DEF x
    <3> QED
      BY <1>1, <2>1, <3>1, <3>2 DEF IInv, Shape
  <2>4. ASSUME NEW j \in Key, Elapse(j)
        PROVE  FALSE
    <3>1. /\ j \in Queued /\ queue' = [queue EXCEPT ![j].wait = FALSE]
      BY <2>4 DEF Elapse
    <3>2. [queue[j] EXCEPT !.wait = FALSE] \in AnyEntry
      BY <1>1, <3>1, QueuedFacts, EntryFacts DEF IInv
    <3>3. [queue[j] EXCEPT !.wait = FALSE] # NoEntry
      BY <3>2, EntryFacts
    <3> QED
      BY <1>1, <2>1, <3>1, <3>3 DEF IInv, Shape
  <2>5. CASE Mark
    <3>1. queue' = [j \in Key |-> IF j \in DOMAIN ready
                                 THEN [ready[j] EXCEPT !.processed = TRUE] ELSE queue[j]]
      BY <2>5 DEF Mark
    <3>2. \A j \in DOMAIN ready : [ready[j] EXCEPT !.processed = TRUE] \in AnyEntry
      BY <1>1, EntryFacts DEF IInv, Shape
    <3>3. \A j \in DOMAIN ready : [ready[j] EXCEPT !.processed = TRUE] # NoEntry
      BY <3>2, EntryFacts
    <3> QED
      BY <1>1, <2>1, <3>1, <3>3
  <2>6. ASSUME NEW f \in flights, PostOk(f)
        PROVE  Reason(k)
    <3>1. /\ queue' = Without(DOMAIN f)
          /\ posted' = [j \in Key |-> posted[j] \cup (IF j \in DOMAIN f THEN {f[j]} ELSE {})]
      BY <2>6 DEF PostOk
    <3>2. k \in DOMAIN f
      BY <1>1, <2>1, <3>1, WithoutFacts DEF IInv
    <3>3. f[k] \in posted'[k]
      BY <2>1, <3>1, <3>2
    <3> QED BY <3>3
  <2>7. ASSUME NEW f \in flights, PostFails(f)
        PROVE  Reason(k)
    <3> DEFINE drop == {j \in DOMAIN f : j[1] \notin live \/ Old(j)}
    <3>1. Reschedule(f, drop)
      BY <2>7 DEF PostFails
    <3>2. CASE k \in drop
      BY <3>2
    <3>3. CASE k \notin drop
      <4> HIDE DEF drop
      <4>1. \A j \in (DOMAIN f \cap Queued) \ drop : queue'[j] \in AnyEntry
        BY <1>1, <3>1, RescheduleFacts DEF IInv
      <4>2. \A j \in Key \ (drop \cup (DOMAIN f \cap Queued)) : queue'[j] = queue[j]
        BY <1>1, <3>1, RescheduleFacts DEF IInv
      <4>3. CASE k \in DOMAIN f
        BY <1>1, <3>3, <4>1, <4>3, EntryFacts
      <4>4. CASE k \notin DOMAIN f
        BY <1>1, <2>1, <3>3, <4>2, <4>4
      <4> QED BY <4>3, <4>4
    <3> QED BY <3>2, <3>3
  <2>8. ASSUME NEW j \in Key, CacheExpires(j)
        PROVE  Reason(k)
    <3>1. j[1] \notin live /\ queue' = Without({j})
      BY <2>8 DEF CacheExpires
    <3>2. k = j
      BY <1>1, <2>1, <3>1, WithoutFacts DEF IInv
    <3> QED BY <3>1, <3>2
  <2>9. CASE RunFuture
    BY <2>2, <2>3, <2>9 DEF RunFuture, Added, Rescheduled
  <2>10. CASE SenderStep
    BY <2>2, <2>5, <2>10 DEF SenderStep, Poll, Rest, Send, SendThrows
  <2> QED
    BY <1>1, <2>2, <2>4, <2>6, <2>7, <2>8, <2>9, <2>10
       DEF Next, PostEnds, SetReady, RemoveQuery, SignOut, Expire, Restart, vars
<1>2. IInv /\ [Next]_vars =>
        [\A k \in Queued : queue'[k] = NoEntry => Reason(k)]_vars
  BY <1>1
<1> QED
  BY InitIInv, NextIInv, <1>2, PTL DEF Spec, NoSilentDrop
------------------------------------------------------------------------------
(* Trimming.  Rows are counted, so the queue has to be finite; it is, though  *)
(* requests and endpoints need not be.                                        *)

FiniteQueue == IsFiniteSet(Queued) /\ IsFiniteSet(DOMAIN ready)

\* A step that puts no entry but at one key, or at those the sender has taken.
LEMMA FiniteFrame ==
    ASSUME FiniteQueue, NEW k, Queued' \subseteq Queued \cup {k} \cup DOMAIN ready,
           DOMAIN ready' \subseteq Queued \cup DOMAIN ready
    PROVE  FiniteQueue'
<1>1. IsFiniteSet(Queued \cup {k}) /\ IsFiniteSet(Queued \cup DOMAIN ready)
  BY FS_AddElement, FS_Union DEF FiniteQueue
<1>2. IsFiniteSet((Queued \cup {k}) \cup DOMAIN ready)
  BY <1>1, FS_Union DEF FiniteQueue
<1> QED
  BY <1>1, <1>2, FS_Subset DEF FiniteQueue

LEMMA FiniteStep == IInv /\ FiniteQueue /\ [Next]_vars => FiniteQueue'
<1> SUFFICES ASSUME IInv, FiniteQueue, [Next]_vars PROVE FiniteQueue'
  OBVIOUS
<1>1. ASSUME NEW K, queue' = Without(K), ready' = ready PROVE FiniteQueue'
  <2>1. Queued' \subseteq Queued
    BY <1>1, WithoutFacts DEF IInv
  <2> QED
    BY <1>1, <2>1, FiniteFrame
<1>2. ASSUME queue' = queue, DOMAIN ready' \subseteq Queued \cup DOMAIN ready PROVE FiniteQueue'
  <2>1. Queued' = Queued
    BY <1>2 DEF Queued
  <2> QED
    BY <1>2, <2>1, FiniteFrame
<1>3. ASSUME NEW a \in adds, NEW e \in a.eps, AddNotification(a, e) PROVE FiniteQueue'
  <2> DEFINE k == <<a.req, e>>
             x == [version |-> a.version, wait |-> FALSE, attempts |-> 0,
                   stamp |-> IF a.stamp = 0 THEN clock + 1 ELSE a.stamp, processed |-> FALSE]
  <2>1. queue' = [queue EXCEPT ![k] = x] /\ ready' = ready
    BY <1>3 DEF AddNotification
  <2> HIDE DEF k, x
  <2>2. Queued' \subseteq Queued \cup {k}
    BY <2>1 DEF IInv, Shape, Queued
  <2> QED
    BY <2>1, <2>2, FiniteFrame
<1>4. ASSUME NEW k \in Key, Elapse(k) PROVE FiniteQueue'
  <2>1. k \in Queued /\ queue' = [queue EXCEPT ![k] = [@ EXCEPT !.wait = FALSE]] /\ ready' = ready
    BY <1>4 DEF Elapse, thread
  <2>2. Queued' \subseteq Queued \cup {k}
    BY <2>1 DEF IInv, Shape, Queued
  <2> QED
    BY <2>1, <2>2, FiniteFrame
<1>5. CASE Mark
  <2>1. /\ queue' = [k \in Key |-> IF k \in DOMAIN ready
                                   THEN [ready[k] EXCEPT !.processed = TRUE] ELSE queue[k]]
        /\ ready' = ready
    BY <1>5 DEF Mark
  <2>2. Queued' \subseteq Queued \cup DOMAIN ready
    BY <2>1 DEF Queued
  <2> QED
    BY <2>1, <2>2, FiniteFrame
<1>6. ASSUME NEW f \in flights, PostFails(f) PROVE FiniteQueue'
  <2> DEFINE drop == {k \in DOMAIN f : k[1] \notin live \/ Old(k)}
  <2>1. Reschedule(f, drop) /\ ready' = ready
    BY <1>6 DEF PostFails, Reschedule
  <2> HIDE DEF drop
  <2>2. \A k \in Key \ (drop \cup (DOMAIN f \cap Queued)) : queue'[k] = queue[k]
    BY <2>1, RescheduleFacts DEF IInv
  <2>3. \A k \in drop \cap Key : queue'[k] = NoEntry
    BY <2>1, RescheduleFacts DEF IInv
  <2>4. Queued' \subseteq Queued
    BY <2>2, <2>3 DEF Queued
  <2> QED
    BY <2>1, <2>4, FiniteFrame
<1>7. CASE Poll
  <2>1. queue' = queue /\ DOMAIN ready' = Due /\ Due \subseteq Queued
    BY <1>7 DEF Poll, Restrict, Due
  <2> QED
    BY <1>2, <2>1
<1>8. ASSUME NEW u \in User, NEW e \in Endpoint, Send(u, e) PROVE FiniteQueue'
  <2>1. queue' = queue /\ DOMAIN ready' \subseteq DOMAIN ready
    BY <1>8 DEF Send, Restrict
  <2> QED
    BY <1>2, <2>1
<1>9. ASSUME queue' = queue, ready' = Nothing \/ ready' = ready PROVE FiniteQueue'
  BY <1>2, <1>9 DEF Nothing
<1>10. CASE RunFuture
  BY <1>1, <1>3, <1>9, <1>10 DEF RunFuture, Added, Rescheduled, CancelNotifications, thread
<1>11. CASE SenderStep
  BY <1>5, <1>7, <1>8, <1>9, <1>11 DEF SenderStep, Rest, SendThrows
<1>12. ASSUME NEW f \in flights, PostOk(f) PROVE FiniteQueue'
  BY <1>1, <1>12 DEF PostOk, thread
<1>13. CASE Clean
  <2>1. PICK K : queue' = Without(K)
    BY <1>13 DEF Clean
  <2> QED
    BY <1>1, <1>13, <2>1 DEF Clean, thread
<1>14. ASSUME NEW k \in Key, CacheExpires(k) PROVE FiniteQueue'
  BY <1>1, <1>14 DEF CacheExpires, thread
<1> QED
  BY <1>4, <1>6, <1>9, <1>10, <1>11, <1>12, <1>13, <1>14
     DEF Next, PostEnds, SetReady, RemoveQuery, SignOut, Expire, Restart, vars, thread

\* A request that is not among the newest is older than some row of one that is.
LEMMA NewestFacts ==
    ASSUME NEW K, IsFiniteSet(K), \A k \in K : queue[k].stamp \in Nat, NEW n \in Nat,
           NEW j \in K, j[1] \notin Newest(K, n), NEW r \in Newest(K, n)
    PROVE  \E i \in K : i[1] = r /\ queue[i].stamp > queue[j].stamp
<1> DEFINE Newer(x) == {i \in K : queue[i].stamp > queue[x].stamp}
<1>1. PICK i \in K : Cardinality(Newer(i)) < n /\ i[1] = r
  BY DEF Newest
<1>2. ~(Cardinality(Newer(j)) < n)
  BY DEF Newest
<1>3. ASSUME queue[i].stamp <= queue[j].stamp PROVE FALSE
  <2>1. Newer(j) \subseteq Newer(i)
    BY <1>3
  <2>2. IsFiniteSet(Newer(i))
    BY FS_Subset
  <2> HIDE DEF Newer
  <2>3. Cardinality(Newer(j)) <= Cardinality(Newer(i)) /\ IsFiniteSet(Newer(j))
    BY <2>1, <2>2, FS_Subset
  <2>4. Cardinality(Newer(j)) \in Nat /\ Cardinality(Newer(i)) \in Nat
    BY <2>2, <2>3, FS_CardinalityType
  <2> QED
    BY <1>1, <1>2, <2>3, <2>4
<1> QED
  BY <1>1, <1>3

\* Trimming never drops a request of a user and keeps an older one of hers,
\* with any number of endpoints and whichever limit is exceeded
\* (NCEndpointManager.clean).
THEOREM TrimmingDropsTheOldest == Spec => TrimsOldest
<1> USE EndpointsAssumption DEF EndpointsAssumption
<1> DEFINE Later(j, k) == \E e \in Endpoint : LET i == <<k[1], e>> IN
                              i \in Queued /\ queue[i].stamp > queue[j].stamp
<1>1. ASSUME IInv, FiniteQueue, Clean, NEW j \in Queued, NEW k \in Queued,
             UserOf[j[1]] = UserOf[k[1]], queue'[j] = NoEntry, queue'[k] # NoEntry
      PROVE  Later(j, k)
  <2> DEFINE over == UNION {OverUserLimit(u) : u \in User}
             more == IF Cardinality(Queued) > MaxSize
                     THEN {i \in Queued : i[1] \notin Newest(Queued, MaxSize)} ELSE {}
             u == UserOf[j[1]]
  <2>1. queue' = Without(over \cup more)
    BY <1>1 DEF Clean
  <2>2. /\ Queued \subseteq Key /\ \A i \in Queued : queue[i] \in AnyEntry
        /\ \A i \in Queued : queue[i].stamp \in Nat /\ queue[i] # NoEntry
    BY <1>1, QueuedFacts, EntryFacts DEF IInv, AnyEntry
  <2>3. j \in over \cup more /\ k \notin over \cup more
    <3> HIDE DEF over, more
    <3>1. \A i \in Key : queue'[i] = IF i \in over \cup more THEN NoEntry ELSE queue[i]
      BY <2>1 DEF Without
    <3> QED
      BY <1>1, <2>2, <3>1
  <2>4. ASSUME NEW K \in SUBSET Queued, NEW n \in Nat, j \in K, j[1] \notin Newest(K, n),
               k[1] \in Newest(K, n)
        PROVE  Later(j, k)
    <3>1. IsFiniteSet(K)
      BY <1>1, FS_Subset DEF FiniteQueue
    <3>2. PICK i \in K : i[1] = k[1] /\ queue[i].stamp > queue[j].stamp
      BY <2>2, <2>4, <3>1, NewestFacts
    <3>3. i = <<k[1], i[2]>> /\ i[2] \in Endpoint
      BY <2>2, <3>2 DEF Key
    <3> QED
      BY <3>2, <3>3
  <2>5. u \in User /\ j \in Rows(u) /\ k \in Rows(u) /\ \A v \in User : Rows(v) \subseteq Queued
    BY <1>1, <2>2 DEF Rows, Key
  <2>6. CASE j \in over
    <3>1. PICK v \in User : j \in OverUserLimit(v)
      BY <2>6
    <3>2. v = u
      BY <3>1 DEF OverUserLimit, Rows
    <3>3. j[1] \notin Newest(Rows(u), MaxUserSize)
      BY <3>1, <3>2 DEF OverUserLimit
    <3>4. k \notin OverUserLimit(u)
      BY <2>3, <2>5
    <3>5. k[1] \in Newest(Rows(u), MaxUserSize)
      BY <2>5, <3>4 DEF OverUserLimit
    <3> QED
      BY <2>4, <2>5, <3>3, <3>5
  <2>7. CASE j \notin over
    <3>1. j \in more /\ k \notin more
      BY <2>3, <2>7, <1>1
    <3>2. j[1] \notin Newest(Queued, MaxSize) /\ k[1] \in Newest(Queued, MaxSize)
      BY <1>1, <3>1
    <3> QED
      BY <2>4, <3>2
  <2> QED
    BY <2>6, <2>7
<1>2. IInv /\ FiniteQueue /\ [Next]_vars =>
        [Clean => \A j, k \in Queued :
            UserOf[j[1]] = UserOf[k[1]] /\ queue'[j] = NoEntry /\ queue'[k] # NoEntry => Later(j, k)]_vars
  BY <1>1
<1>3. Init => FiniteQueue
  <2>1. Init => Queued = {} /\ DOMAIN ready = {}
    BY DEF Init, Queued, Nothing
  <2> QED
    BY <2>1, FS_EmptySet DEF FiniteQueue
<1> QED
  BY InitIInv, NextIInv, FiniteStep, <1>2, <1>3, PTL DEF Spec, TrimsOldest
------------------------------------------------------------------------------
(* Types.  The bound on the clock is a count of additions: each result of a   *)
(* request is added once and takes its time once.                             *)

\* The results that have been given a time, if they have not been forgotten.
Numbered ==
    {x \in Req \X Version : x[2] <= version[x[1]]}
        \ {<<a.req, a.version>> : a \in {b \in adds : b.stamp = 0}}

Counted ==
    /\ \A a \in adds : a.version <= version[a.req]
    /\ \A a, b \in adds : a.req = b.req /\ a.version = b.version => a = b
    /\ clock <= Cardinality(Numbered)

LEMMA NumberedFacts ==
    ASSUME IsFiniteSet(Req), NEW S \in SUBSET (Req \X Version)
    PROVE  /\ IsFiniteSet(S) /\ Cardinality(S) \in Nat /\ Cardinality(S) <= MaxClock
           /\ MaxClock \in Nat
<1>1. IsFiniteSet(Version) /\ Cardinality(Version) = MaxVersion
  BY FS_Interval, EndpointsAssumption DEF EndpointsAssumption, Version
<1>2. IsFiniteSet(Req \X Version) /\ Cardinality(Req \X Version) = MaxClock
  BY <1>1, FS_Product DEF MaxClock
<1>3. IsFiniteSet(S) /\ Cardinality(S) <= MaxClock
  BY <1>2, FS_Subset
<1> QED
  BY <1>2, <1>3, FS_CardinalityType

\* Steps that give no time keep the count if they forget no numbered result.
LEMMA CountedFrame ==
    ASSUME IsFiniteSet(Req), Counted, clock \in Nat, clock' = clock, Numbered \subseteq Numbered',
           \A a \in adds' : a.version <= version'[a.req],
           \A a, b \in adds' : a.req = b.req /\ a.version = b.version => a = b
    PROVE  Counted'
<1>1. Numbered' \in SUBSET (Req \X Version) /\ Numbered \in SUBSET (Req \X Version)
  BY DEF Numbered
<1>2. IsFiniteSet(Numbered')
  BY <1>1, NumberedFacts
<1>3. Cardinality(Numbered) <= Cardinality(Numbered')
  BY <1>2, FS_Subset
<1>4. Cardinality(Numbered) \in Nat /\ Cardinality(Numbered') \in Nat
  BY <1>1, NumberedFacts
<1> QED
  BY <1>3, <1>4 DEF Counted

\* The parts of TypeOK that the count needs, and that IInv has in another form.
LEMMA CountFacts ==
    ASSUME TypeOK, Counted, Shape
    PROVE  /\ version \in [Req -> 0 .. MaxVersion] /\ clock \in Nat
           /\ \A a \in adds : /\ a.req \in Req /\ a.version \in Version
                              /\ a.version <= version[a.req] /\ a.stamp \in Nat
                              /\ a \in Addition
BY DEF TypeOK, Counted, Shape

LEMMA CountedStep ==
    ASSUME IsFiniteSet(Req), TypeOK, Counted, IInv, [Next]_vars
    PROVE  Counted' /\ clock' \in 0 .. MaxClock
<1> USE EndpointsAssumption DEF EndpointsAssumption
<1>0. SUFFICES Counted' /\ clock' \in Nat
  <2>1. Numbered' \in SUBSET (Req \X Version)
    BY DEF Numbered
  <2>2. Cardinality(Numbered') \in Nat /\ Cardinality(Numbered') <= MaxClock /\ MaxClock \in Nat
    BY <2>1, NumberedFacts
  <2> QED
    BY <2>2 DEF Counted
<1>t. /\ version \in [Req -> 0 .. MaxVersion] /\ clock \in Nat
      /\ \A a \in adds : /\ a.req \in Req /\ a.version \in Version
                         /\ a.version <= version[a.req] /\ a.stamp \in Nat /\ a \in Addition
  BY CountFacts DEF IInv
<1>1. ASSUME version' = version, adds' \subseteq adds, clock' = clock PROVE Counted' /\ clock' \in Nat
  <2>1. Numbered \subseteq Numbered'
    BY <1>1 DEF Numbered
  <2> QED
    BY <1>1, <1>t, <2>1, CountedFrame DEF Counted
<1>2. ASSUME NEW r \in Req, SetReady(r) PROVE Counted' /\ clock' \in Nat
  <2> DEFINE n == version[r] + 1
             x == [req |-> r, version |-> n, eps |-> eps[UserOf[r]], stamp |-> 0]
  <2>1. /\ version[r] \in Nat /\ version' = [version EXCEPT ![r] = n] /\ adds' = adds \cup {x}
        /\ clock' = clock
    BY <1>2, <1>t DEF SetReady, time
  <2>2. \A q \in Req : version'[q] = IF q = r THEN n ELSE version[q]
    BY <2>1, <1>t
  <2>3. x.req = r /\ x.version = n /\ x.stamp = 0
    OBVIOUS
  <2> HIDE DEF x
  <2>4. \A a \in adds' : a.version <= version'[a.req]
    BY <2>1, <2>2, <2>3, <1>t DEF Version
  <2>5. \A a \in adds : a.req = r => a.version < n
    BY <2>1, <1>t DEF Version
  <2>6. \A a, b \in adds' : a.req = b.req /\ a.version = b.version => a = b
    <3> SUFFICES ASSUME NEW a \in adds', NEW b \in adds', a.req = b.req, a.version = b.version
                 PROVE  a = b
      OBVIOUS
    <3>1. CASE a \in adds /\ b \in adds
      BY <3>1 DEF Counted
    <3>2. CASE a \in adds /\ b = x
      BY <2>1, <2>3, <2>5, <3>2, <1>t DEF Version
    <3>3. CASE a = x /\ b \in adds
      BY <2>1, <2>3, <2>5, <3>3, <1>t DEF Version
    <3> QED
      BY <2>1, <3>1, <3>2, <3>3
  <2>7. ASSUME NEW y \in Numbered PROVE y \in Numbered'
    <3>1. /\ y \in Req \X Version /\ y[2] <= version[y[1]]
          /\ \A a \in adds : a.stamp = 0 => y # <<a.req, a.version>>
      BY DEF Numbered
    <3>2. y[2] <= version'[y[1]] /\ y # <<r, n>>
      BY <2>1, <2>2, <3>1, <1>t DEF Version
    <3>3. \A a \in adds' : a.stamp = 0 => y # <<a.req, a.version>>
      BY <2>1, <2>3, <3>1, <3>2
    <3> QED
      BY <3>1, <3>2, <3>3 DEF Numbered
  <2> QED
    BY <2>1, <2>4, <2>6, <2>7, <1>t, CountedFrame
<1>3. ASSUME NEW a \in adds, NEW e \in a.eps, AddNotification(a, e) PROVE Counted' /\ clock' \in Nat
  <2> DEFINE t == IF a.stamp = 0 THEN clock + 1 ELSE a.stamp
             b == [a EXCEPT !.eps = @ \ {e}, !.stamp = t]
             x == <<a.req, a.version>>
  <2>1. /\ version' = version /\ adds' = (adds \ {a}) \cup {b}
        /\ clock' = IF a.stamp = 0 THEN t ELSE clock
    BY <1>3 DEF AddNotification, query
  <2>2. t \in Nat \ {0}
    BY <1>t
  <2>3. b.req = a.req /\ b.version = a.version /\ b.stamp # 0
    BY <2>2, <1>t DEF Addition
  <2>4. clock' = IF a.stamp = 0 THEN clock + 1 ELSE clock
    BY <2>1
  <2> HIDE DEF b, t
  <2>5. /\ \A c \in adds' : c.version <= version'[c.req]
        /\ \A c, d \in adds' : c.req = d.req /\ c.version = d.version => c = d
    BY <2>1, <2>3, <1>t DEF Counted
  <2>6. ASSUME NEW y \in Req \X Version
        PROVE  y \in Numbered' <=>
                 y \in Numbered \/ (y = x /\ a.stamp = 0)
    <3>1. y \in Numbered <=> /\ y[2] <= version[y[1]]
                             /\ \A c \in adds : c.stamp = 0 => y # <<c.req, c.version>>
      BY DEF Numbered
    <3>2. y \in Numbered' <=> /\ y[2] <= version[y[1]]
                              /\ \A c \in adds' : c.stamp = 0 => y # <<c.req, c.version>>
      BY <2>1 DEF Numbered
    <3>3. (\A c \in adds' : c.stamp = 0 => y # <<c.req, c.version>>) <=>
             (\A c \in adds \ {a} : c.stamp = 0 => y # <<c.req, c.version>>)
      BY <2>1, <2>3
    <3>4. y = x => /\ y[2] <= version[y[1]]
                   /\ \A c \in adds \ {a} : y # <<c.req, c.version>>
      BY <1>t DEF Counted
    <3> QED
      BY <3>1, <3>2, <3>3, <3>4
  <2>7. x \in Req \X Version
    BY <1>t
  <2>8. Numbered \in SUBSET (Req \X Version) /\ Numbered' \in SUBSET (Req \X Version)
    BY DEF Numbered
  <2>9. CASE a.stamp # 0
    BY <2>4, <2>5, <2>6, <2>8, <2>9, <1>t, CountedFrame
  <2>10. CASE a.stamp = 0
    <3>1. x \notin Numbered
      BY <2>10 DEF Numbered
    <3>2. Numbered' = Numbered \cup {x}
      BY <2>6, <2>7, <2>8, <2>10
    <3>3. Cardinality(Numbered') = Cardinality(Numbered) + 1 /\ Cardinality(Numbered) \in Nat
      <4>1. IsFiniteSet(Numbered) /\ Cardinality(Numbered) \in Nat
        BY <2>8, NumberedFacts
      <4>2. Cardinality(Numbered \cup {x}) = Cardinality(Numbered) + 1
        BY <3>1, <4>1, FS_AddElement
      <4> QED
        BY <3>2, <4>1, <4>2
    <3>4. clock' = clock + 1
      BY <2>4, <2>10
    <3>5. clock' \in Nat /\ clock' <= Cardinality(Numbered')
      BY <3>3, <3>4, <1>t DEF Counted
    <3> QED
      BY <2>5, <3>5 DEF Counted
  <2> QED
    BY <2>9, <2>10
<1>4. CASE RunFuture
  BY <1>1, <1>3, <1>4 DEF RunFuture, Added, Rescheduled, CancelNotifications, query, time
<1>5. CASE SenderStep
  BY <1>1, <1>5 DEF SenderStep, Poll, Mark, Rest, Send, SendThrows, query, futures, time
<1>6. ASSUME NEW f \in flights, PostOk(f) \/ PostFails(f) PROVE Counted' /\ clock' \in Nat
  BY <1>1, <1>6 DEF PostOk, PostFails, Reschedule, query, futures, time
<1>7. CASE Clean
  BY <1>1, <1>7 DEF Clean, query, futures, time
<1>8. ASSUME NEW k \in Key, Elapse(k) \/ CacheExpires(k) PROVE Counted' /\ clock' \in Nat
  BY <1>1, <1>8 DEF Elapse, CacheExpires, query, futures, time
<1>9. CASE Restart
  BY <1>1, <1>9 DEF Restart, query, time
<1>10. CASE Expire \/ UNCHANGED vars
  BY <1>1, <1>10 DEF Expire, vars, query, futures, time
<1>11. ASSUME NEW r \in Req, RemoveQuery(r) PROVE Counted' /\ clock' \in Nat
  BY <1>1, <1>11 DEF RemoveQuery, futures, time
<1>12. ASSUME NEW u \in User, NEW E \in SUBSET Endpoint, SignOut(u, E)
       PROVE  Counted' /\ clock' \in Nat
  BY <1>1, <1>12 DEF SignOut, time
<1> QED
  BY <1>2, <1>4, <1>5, <1>6, <1>7, <1>8, <1>9, <1>10, <1>11, <1>12 DEF Next, PostEnds

\* Entries as TypeOK has them.
LEMMA BoundedEntryFacts ==
    ASSUME NEW x \in Entry
    PROVE  /\ x.version \in Version
           /\ [x EXCEPT !.processed = TRUE] \in Entry
           /\ [x EXCEPT !.wait = FALSE] \in Entry
BY DEF Entry

LEMMA BoundedRetryFacts ==
    ASSUME NEW x \in Entry
    PROVE  [x EXCEPT !.wait = TRUE, !.processed = FALSE,
                     !.attempts = IF @ < DelaysCnt THEN @ + 1 ELSE @] \in Entry
<1> DEFINE next == IF x.attempts < DelaysCnt THEN x.attempts + 1 ELSE x.attempts
<1>1. next \in 0 .. DelaysCnt
  <2>1. x.attempts \in 0 .. DelaysCnt
    BY DEF Entry
  <2> QED
    BY <2>1, EndpointsAssumption DEF EndpointsAssumption
<1> HIDE DEF next
<1>2. [x EXCEPT !.wait = TRUE, !.processed = FALSE, !.attempts = next] \in Entry
  BY <1>1 DEF Entry
<1> QED
  BY <1>2 DEF next

\* TypeOK by what its parts are about.
QueueType == \A k \in Key : queue[k] \in Entry \cup {NoEntry}
RoundType ==
    /\ work \in BOOLEAN /\ sender \in {"wait", "mark", "send"}
    /\ sleep \in {"none", "timed", "forever"} /\ later \subseteq Key
    /\ DOMAIN ready \subseteq Key /\ \A k \in DOMAIN ready : ready[k] \in Entry
PostType ==
    /\ \A f \in flights : DOMAIN f \subseteq Key /\ \A k \in DOMAIN f : f[k] \in Version
    /\ posted \in [Key -> SUBSET Version]
FutureType ==
    /\ \A a \in adds : /\ a.req \in Req /\ a.version \in Version
                       /\ a.eps \subseteq Endpoint /\ a.stamp \in 0 .. MaxClock
    /\ cancels \subseteq User \X SUBSET Endpoint /\ wakers \in 0 .. MaxWakers
QueryType ==
    /\ version \in [Req -> 0 .. MaxVersion] /\ live \subseteq Req
    /\ eps \in [User -> SUBSET Endpoint]
    /\ clock \in 0 .. MaxClock /\ expired \in 0 .. clock /\ faults \in 0 .. MaxFault

LEMMA TypeParts == TypeOK <=> QueueType /\ RoundType /\ PostType /\ FutureType /\ QueryType
BY DEF TypeOK, QueueType, RoundType, PostType, FutureType, QueryType

LEMMA QueueTypeStep ==
    ASSUME TypeOK, IInv, [Next]_vars, clock' \in 0 .. MaxClock
    PROVE  QueueType'
<1> USE DEF QueueType
<1>t. QueueType /\ RoundType /\ FutureType /\ QueryType
  BY TypeParts
<1>1. CASE queue' = queue
  BY <1>1, <1>t
<1>2. ASSUME NEW K, queue' = Without(K) PROVE QueueType'
  BY <1>2, <1>t DEF Without
<1>3. ASSUME NEW a \in adds, NEW e \in a.eps, AddNotification(a, e) PROVE QueueType'
  <2> DEFINE t == IF a.stamp = 0 THEN clock + 1 ELSE a.stamp
             x == [version |-> a.version, wait |-> FALSE, attempts |-> 0, stamp |-> t,
                   processed |-> FALSE]
  <2>1. /\ queue' = [queue EXCEPT ![<<a.req, e>>] = x]
        /\ clock' = IF a.stamp = 0 THEN t ELSE clock
    BY <1>3 DEF AddNotification
  <2>2. t \in 1 .. MaxClock
    BY <2>1, <1>t DEF FutureType, QueryType
  <2> HIDE DEF t
  <2>3. x \in Entry
    BY <2>2, <1>t, EndpointsAssumption DEF EndpointsAssumption, Entry, FutureType
  <2> HIDE DEF x
  <2> QED
    BY <2>1, <2>3, <1>t DEF IInv, Shape
<1>4. ASSUME NEW k \in Key, Elapse(k) PROVE QueueType'
  <2>1. k \in Queued /\ queue' = [queue EXCEPT ![k] = [@ EXCEPT !.wait = FALSE]]
    BY <1>4 DEF Elapse
  <2>2. queue[k] \in Entry
    BY <2>1, <1>t DEF Queued
  <2>3. [queue[k] EXCEPT !.wait = FALSE] \in Entry
    BY <2>2, BoundedEntryFacts
  <2> QED
    BY <2>1, <2>3, <1>t DEF IInv, Shape
<1>5. CASE Mark
  <2>1. queue' = [k \in Key |-> IF k \in DOMAIN ready
                                THEN [ready[k] EXCEPT !.processed = TRUE] ELSE queue[k]]
    BY <1>5 DEF Mark
  <2>2. \A k \in DOMAIN ready : [ready[k] EXCEPT !.processed = TRUE] \in Entry
    BY <1>t, BoundedEntryFacts DEF RoundType
  <2> QED
    BY <2>1, <2>2, <1>t
<1>6. ASSUME NEW f \in flights, PostFails(f) PROVE QueueType'
  <2> DEFINE drop == {k \in DOMAIN f : k[1] \notin live \/ Old(k)}
             retry == (DOMAIN f \cap Queued) \ drop
             late(k) == [queue[k] EXCEPT !.wait = TRUE, !.processed = FALSE,
                                        !.attempts = IF @ < DelaysCnt THEN @ + 1 ELSE @]
  <2>1. queue' = [k \in Key |-> IF k \in drop THEN NoEntry
                                ELSE IF k \in retry THEN late(k) ELSE queue[k]]
    BY <1>6 DEF PostFails, Reschedule
  <2>2. \A k \in Key : k \in retry => queue[k] \in Entry
    BY <1>t DEF Queued
  <2>3. \A k \in Key : k \in retry => late(k) \in Entry
    BY <2>2, BoundedRetryFacts
  <2> HIDE DEF late, drop, retry
  <2> QED
    BY <2>1, <2>3, <1>t
<1>7. CASE RunFuture
  BY <1>1, <1>2, <1>3, <1>7 DEF RunFuture, Added, Rescheduled, CancelNotifications
<1>8. CASE SenderStep
  BY <1>1, <1>5, <1>8 DEF SenderStep, Poll, Rest, Send, SendThrows
<1>9. ASSUME NEW f \in flights, PostOk(f) PROVE QueueType'
  BY <1>2, <1>9 DEF PostOk
<1>10. CASE Clean
  <2>1. PICK K : queue' = Without(K)
    BY <1>10 DEF Clean
  <2> QED
    BY <1>2, <2>1
<1>11. ASSUME NEW k \in Key, CacheExpires(k) PROVE QueueType'
  BY <1>2, <1>11 DEF CacheExpires
<1>12. ASSUME NEW r \in Req, SetReady(r) \/ RemoveQuery(r) PROVE QueueType'
  BY <1>1, <1>12 DEF SetReady, RemoveQuery
<1>13. ASSUME NEW u \in User, NEW E \in SUBSET Endpoint, SignOut(u, E) PROVE QueueType'
  BY <1>1, <1>13 DEF SignOut
<1>14. CASE Expire \/ Restart \/ UNCHANGED vars
  BY <1>1, <1>14 DEF Expire, Restart, vars
<1> QED
  BY <1>4, <1>6, <1>7, <1>8, <1>9, <1>10, <1>11, <1>12, <1>13, <1>14 DEF Next, PostEnds

LEMMA RoundTypeStep ==
    ASSUME TypeOK, IInv, [Next]_vars
    PROVE  RoundType'
<1> USE DEF RoundType
<1>t. QueueType /\ RoundType /\ FutureType /\ Queued \subseteq Key
  BY TypeParts DEF Queued
<1>1. CASE UNCHANGED <<work, thread>>
  BY <1>1, <1>t DEF thread
<1>2. ASSUME NEW a \in adds, NEW e \in a.eps, AddNotification(a, e) PROVE RoundType'
  <2>1. UNCHANGED <<work, sender, sleep, ready>> /\ later' \subseteq later \cup {<<a.req, e>>}
    BY <1>2 DEF AddNotification
  <2>2. <<a.req, e>> \in Key
    BY <1>t DEF FutureType, Key
  <2> QED
    BY <2>1, <2>2, <1>t
<1>3. CASE Poll
  <2>1. DOMAIN ready' = Due /\ \A k \in Due : ready'[k] = queue[k]
    BY <1>3 DEF Poll, Restrict
  <2>2. \A k \in Due : k \in Key /\ queue[k] \in Entry
    BY <1>t DEF Due, Queued, QueueType
  <2>3. work' = FALSE /\ sleep' = sleep /\ later' \subseteq Queued /\ sender' \in {"send", "mark"}
    BY <1>3 DEF Poll
  <2> QED
    BY <2>1, <2>2, <2>3, <1>t
<1>4. CASE Mark
  BY <1>4, <1>t DEF Mark
<1>5. ASSUME NEW u \in User, NEW e \in Endpoint, Send(u, e) PROVE RoundType'
  <2>1. DOMAIN ready' \subseteq DOMAIN ready /\ \A k \in DOMAIN ready' : ready'[k] = ready[k]
    BY <1>5 DEF Send, Restrict
  <2> QED
    BY <1>5, <2>1, <1>t DEF Send
<1>6. CASE sender' = "wait" /\ later' = {} /\ (ready' = Nothing \/ ready' = ready)
           /\ sleep' \in {"none", "timed", "forever"} /\ work' \in BOOLEAN
  BY <1>6, <1>t DEF Nothing
<1>7. CASE Rest \/ Restart
  BY <1>6, <1>7, <1>t DEF Rest, Restart
<1>8. ASSUME NEW u \in User, NEW e \in Endpoint, SendThrows(u, e) PROVE RoundType'
  BY <1>6, <1>8, <1>t DEF SendThrows
<1>9. ASSUME NEW f \in flights, PostFails(f) PROVE RoundType'
  <2>1. UNCHANGED <<work, sender, sleep, ready>> /\ later' \subseteq later \cup Queued
    BY <1>9 DEF PostFails, Reschedule
  <2> QED
    BY <2>1, <1>t
<1>10. ASSUME WakeSender, UNCHANGED thread PROVE RoundType'
  BY <1>10, <1>t DEF WakeSender, thread
<1>11. CASE RunFuture
  BY <1>1, <1>2, <1>10, <1>11 DEF RunFuture, Added, Rescheduled, CancelNotifications
<1>12. CASE SenderStep
  BY <1>3, <1>4, <1>5, <1>7, <1>8, <1>12 DEF SenderStep
<1>13. ASSUME NEW r \in Req, SetReady(r) \/ RemoveQuery(r) PROVE RoundType'
  BY <1>1, <1>13 DEF SetReady, RemoveQuery
<1>14. ASSUME NEW u \in User, NEW E \in SUBSET Endpoint, SignOut(u, E) PROVE RoundType'
  BY <1>1, <1>14 DEF SignOut
<1>15. ASSUME NEW f \in flights, PostOk(f) PROVE RoundType'
  BY <1>1, <1>15 DEF PostOk
<1>16. ASSUME NEW k \in Key, Elapse(k) \/ CacheExpires(k) PROVE RoundType'
  BY <1>1, <1>16 DEF Elapse, CacheExpires
<1>17. CASE Clean \/ Expire \/ UNCHANGED vars
  BY <1>1, <1>17 DEF Clean, Expire, vars, thread
<1> QED
  BY <1>7, <1>9, <1>11, <1>12, <1>13, <1>14, <1>15, <1>16, <1>17 DEF Next, PostEnds

LEMMA PostTypeStep ==
    ASSUME TypeOK, IInv, [Next]_vars
    PROVE  PostType'
<1> USE DEF PostType
<1>t. PostType /\ RoundType
  BY TypeParts
<1>1. CASE flights' \subseteq flights /\ posted' = posted
  BY <1>1, <1>t
<1>2. ASSUME NEW u \in User, NEW e \in Endpoint, Send(u, e) PROVE PostType'
  <2> DEFINE G == Group(u, e)
             f == [k \in G |-> ready[k].version]
  <2>1. flights' = flights \cup {f} /\ posted' = posted
    BY <1>2 DEF Send
  <2>2. G \subseteq DOMAIN ready /\ \A k \in DOMAIN ready : k \in Key /\ ready[k].version \in Version
    BY <1>t, BoundedEntryFacts DEF Group, RoundType
  <2>3. DOMAIN f \subseteq Key /\ \A k \in DOMAIN f : f[k] \in Version
    BY <2>2
  <2> HIDE DEF f
  <2> QED
    BY <2>1, <2>3, <1>t
<1>3. ASSUME NEW f \in flights, PostOk(f) PROVE PostType'
  <2>1. /\ flights' = flights \ {f}
        /\ posted' = [k \in Key |-> posted[k] \cup (IF k \in DOMAIN f THEN {f[k]} ELSE {})]
    BY <1>3 DEF PostOk
  <2> QED
    BY <2>1, <1>t
<1>4. CASE RunFuture
  BY <1>1, <1>4 DEF RunFuture, Added, AddNotification, Rescheduled, CancelNotifications
<1>5. CASE SenderStep
  BY <1>1, <1>2, <1>5 DEF SenderStep, Poll, Mark, Rest, SendThrows
<1>6. ASSUME NEW r \in Req, SetReady(r) \/ RemoveQuery(r) PROVE PostType'
  BY <1>1, <1>6 DEF SetReady, RemoveQuery
<1>7. ASSUME NEW u \in User, NEW E \in SUBSET Endpoint, SignOut(u, E) PROVE PostType'
  BY <1>1, <1>7 DEF SignOut
<1>8. ASSUME NEW f \in flights, PostFails(f) PROVE PostType'
  BY <1>1, <1>8 DEF PostFails, Reschedule
<1>9. ASSUME NEW k \in Key, Elapse(k) \/ CacheExpires(k) PROVE PostType'
  BY <1>1, <1>9 DEF Elapse, CacheExpires
<1>10. CASE Clean \/ Expire \/ Restart \/ UNCHANGED vars
  BY <1>1, <1>10 DEF Clean, Expire, Restart, vars
<1> QED
  BY <1>3, <1>4, <1>5, <1>6, <1>7, <1>8, <1>9, <1>10 DEF Next, PostEnds

LEMMA FutureTypeStep ==
    ASSUME TypeOK, IInv, [Next]_vars, MaxClock \in Nat, clock' \in 0 .. MaxClock
    PROVE  FutureType'
<1> USE EndpointsAssumption DEF EndpointsAssumption, FutureType
<1>t. FutureType /\ QueryType
  BY TypeParts
<1>1. CASE adds' \subseteq adds /\ cancels' \subseteq cancels /\ wakers' \in 0 .. MaxWakers
  BY <1>1, <1>t
<1>2. CASE UNCHANGED futures
  BY <1>1, <1>2, <1>t DEF futures
<1>3. ASSUME NEW r \in Req, SetReady(r) PROVE FutureType'
  <2> DEFINE x == [req |-> r, version |-> version[r] + 1, eps |-> eps[UserOf[r]], stamp |-> 0]
  <2>1. version[r] < MaxVersion /\ adds' = adds \cup {x} /\ UNCHANGED <<wakers, cancels>>
    BY <1>3 DEF SetReady
  <2>2. version[r] + 1 \in Version
    BY <2>1, <1>t DEF QueryType, Version
  <2>3. eps[UserOf[r]] \subseteq Endpoint
    BY <1>t DEF QueryType
  <2>4. /\ x.req \in Req /\ x.version \in Version /\ x.eps \subseteq Endpoint
        /\ x.stamp \in 0 .. MaxClock
    BY <2>2, <2>3
  <2> HIDE DEF x
  <2> QED
    BY <2>1, <2>4, <1>t
<1>4. ASSUME NEW a \in adds, NEW e \in a.eps, AddNotification(a, e) PROVE FutureType'
  <2> DEFINE t == IF a.stamp = 0 THEN clock + 1 ELSE a.stamp
             b == [a EXCEPT !.eps = @ \ {e}, !.stamp = t]
  <2>1. /\ clock' = IF a.stamp = 0 THEN t ELSE clock
        /\ adds' = (adds \ {a}) \cup {b} /\ UNCHANGED <<wakers, cancels>>
    BY <1>4 DEF AddNotification
  <2>2. t \in 0 .. MaxClock
    BY <2>1, <1>t DEF QueryType
  <2> HIDE DEF t
  <2>3. a \in Addition
    BY DEF IInv, Shape
  <2>4. b.req = a.req /\ b.version = a.version /\ b.eps = a.eps \ {e} /\ b.stamp = t
    BY <2>3 DEF Addition
  <2> HIDE DEF b
  <2> QED
    BY <2>1, <2>2, <2>4, <1>t
<1>5. CASE RunFuture
  <2>1. ASSUME NEW a \in adds, Added(a) PROVE FutureType'
    BY <1>1, <2>1, <1>t DEF Added
  <2>2. ASSUME Rescheduled PROVE FutureType'
    BY <1>1, <2>2, <1>t DEF Rescheduled
  <2>3. ASSUME NEW c \in cancels, CancelNotifications(c) PROVE FutureType'
    BY <1>1, <2>3, <1>t DEF CancelNotifications
  <2> QED
    BY <1>4, <1>5, <2>1, <2>2, <2>3 DEF RunFuture
<1>6. ASSUME NEW f \in flights, PostFails(f) PROVE FutureType'
  <2>1. /\ wakers < MaxWakers /\ UNCHANGED <<adds, cancels>>
        /\ wakers' = wakers + 1 \/ wakers' = wakers + 0
    BY <1>6 DEF PostFails, Reschedule
  <2> QED
    BY <1>1, <2>1, <1>t
<1>7. ASSUME NEW u \in User, NEW E \in SUBSET Endpoint, SignOut(u, E) PROVE FutureType'
  BY <1>7, <1>t DEF SignOut
<1>8. CASE Restart
  BY <1>8, <1>t DEF Restart
<1>9. CASE SenderStep
  BY <1>2, <1>9 DEF SenderStep, Poll, Mark, Rest, Send, SendThrows
<1>10. ASSUME NEW r \in Req, RemoveQuery(r) PROVE FutureType'
  BY <1>2, <1>10 DEF RemoveQuery
<1>11. ASSUME NEW f \in flights, PostOk(f) PROVE FutureType'
  BY <1>2, <1>11 DEF PostOk
<1>12. ASSUME NEW k \in Key, Elapse(k) \/ CacheExpires(k) PROVE FutureType'
  BY <1>2, <1>12 DEF Elapse, CacheExpires
<1>13. CASE Clean \/ Expire \/ UNCHANGED vars
  BY <1>2, <1>13 DEF Clean, Expire, vars, futures
<1> QED
  BY <1>3, <1>5, <1>6, <1>7, <1>8, <1>9, <1>10, <1>11, <1>12, <1>13 DEF Next, PostEnds

LEMMA QueryTypeStep ==
    ASSUME TypeOK, IInv, [Next]_vars, MaxClock \in Nat, clock' \in 0 .. MaxClock
    PROVE  QueryType'
<1> USE EndpointsAssumption DEF EndpointsAssumption, QueryType
<1>t. QueryType
  BY TypeParts
<1>1. ASSUME UNCHANGED query, expired' = expired, clock <= clock', faults' \in 0 .. MaxFault
      PROVE  QueryType'
  BY <1>1, <1>t DEF query
<1>2. CASE UNCHANGED query /\ UNCHANGED time /\ UNCHANGED faults
  BY <1>2, <1>t DEF query, time
<1>3. ASSUME NEW r \in Req, SetReady(r) PROVE QueryType'
  <2>1. /\ version[r] + 1 \in 0 .. MaxVersion /\ version' = [version EXCEPT ![r] = @ + 1]
        /\ UNCHANGED <<live, eps, time, faults>>
    BY <1>3, <1>t DEF SetReady
  <2> QED
    BY <2>1, <1>t DEF time
<1>4. ASSUME NEW r \in Req, RemoveQuery(r) PROVE QueryType'
  BY <1>4, <1>t DEF RemoveQuery, time
<1>5. ASSUME NEW u \in User, NEW E \in SUBSET Endpoint, SignOut(u, E) PROVE QueryType'
  <2>1. eps' = [eps EXCEPT ![u] = @ \ E] /\ UNCHANGED <<version, live, time, faults>>
    BY <1>5 DEF SignOut
  <2> QED
    BY <2>1, <1>t DEF time
<1>6. ASSUME NEW a \in adds, NEW e \in a.eps, AddNotification(a, e) PROVE QueryType'
  <2>1. UNCHANGED query /\ expired' = expired /\ faults' = faults
        /\ (clock' = clock + 1 \/ clock' = clock)
    BY <1>6 DEF AddNotification
  <2> QED
    BY <1>1, <2>1, <1>t
<1>7. CASE RunFuture
  <2>1. ASSUME NEW a \in adds, Added(a) PROVE QueryType'
    BY <1>2, <2>1 DEF Added
  <2>2. ASSUME Rescheduled PROVE QueryType'
    BY <1>2, <2>2 DEF Rescheduled
  <2>3. ASSUME NEW c \in cancels, CancelNotifications(c) PROVE QueryType'
    BY <1>2, <2>3 DEF CancelNotifications
  <2> QED
    BY <1>6, <1>7, <2>1, <2>2, <2>3 DEF RunFuture
<1>8. CASE Poll \/ Mark \/ Rest
  BY <1>2, <1>8 DEF Poll, Mark, Rest
<1>9. ASSUME NEW u \in User, NEW e \in Endpoint, Send(u, e) PROVE QueryType'
  BY <1>2, <1>9 DEF Send
<1>10. ASSUME NEW u \in User, NEW e \in Endpoint, SendThrows(u, e) PROVE QueryType'
  BY <1>1, <1>10, <1>t DEF SendThrows, time
<1>11. CASE SenderStep
  BY <1>8, <1>9, <1>10, <1>11 DEF SenderStep
<1>12. CASE Restart
  BY <1>1, <1>12, <1>t DEF Restart, time
<1>13. ASSUME NEW f \in flights, PostOk(f) \/ PostFails(f) PROVE QueryType'
  BY <1>2, <1>13 DEF PostOk, PostFails, Reschedule, time
<1>14. ASSUME NEW k \in Key, Elapse(k) \/ CacheExpires(k) PROVE QueryType'
  BY <1>2, <1>14 DEF Elapse, CacheExpires
<1>15. CASE Clean
  BY <1>2, <1>15 DEF Clean
<1>16. CASE Expire
  BY <1>16, <1>t DEF Expire, query
<1>17. CASE UNCHANGED vars
  BY <1>2, <1>17 DEF vars, query, time
<1> QED
  BY <1>3, <1>4, <1>5, <1>7, <1>11, <1>12, <1>13, <1>14, <1>15, <1>16, <1>17 DEF Next, PostEnds

LEMMA InitTypes == ASSUME IsFiniteSet(Req), Init PROVE TypeOK /\ Counted
<1> USE EndpointsAssumption DEF EndpointsAssumption
<1>1. MaxClock \in Nat
  <2>1. {} \in SUBSET (Req \X Version)
    OBVIOUS
  <2> QED
    BY <2>1, NumberedFacts
<1>2. QueryType /\ FutureType
  BY <1>1 DEF Init, QueryType, FutureType
<1>3. QueueType /\ PostType /\ RoundType
  BY DEF Init, QueueType, PostType, RoundType, Nothing
<1>4. Counted
  <2>1. Numbered \in SUBSET (Req \X Version)
    BY DEF Numbered
  <2>2. Cardinality(Numbered) \in Nat
    BY <2>1, NumberedFacts
  <2> QED
    BY <2>2 DEF Init, Counted
<1> QED
  BY <1>2, <1>3, <1>4, TypeParts

\* Every variable keeps its type.  The bound on the creation times is the claim
\* of weight: each result set for a request is given its time once
\* (NCEndpointManager.addNotification takes `now` once for all its entries).
THEOREM TypeCorrect == ASSUME IsFiniteSet(Req) PROVE Spec => []TypeOK
<1>1. Init => TypeOK /\ Counted /\ IInv
  BY InitTypes, InitIInv
<1>2. TypeOK /\ Counted /\ IInv /\ [Next]_vars => (TypeOK /\ Counted /\ IInv)'
  <2> SUFFICES ASSUME TypeOK, Counted, IInv, [Next]_vars PROVE (TypeOK /\ Counted /\ IInv)'
    OBVIOUS
  <2>1. Counted' /\ clock' \in 0 .. MaxClock
    BY CountedStep
  <2>2. MaxClock \in Nat
    <3>1. {} \in SUBSET (Req \X Version)
      OBVIOUS
    <3> QED
      BY <3>1, NumberedFacts
  <2>3. QueueType' /\ RoundType' /\ PostType' /\ FutureType' /\ QueryType'
    BY <2>1, <2>2, QueueTypeStep, RoundTypeStep, PostTypeStep, FutureTypeStep, QueryTypeStep
  <2>4. TypeOK'
    BY <2>3 DEF TypeOK, QueueType, RoundType, PostType, FutureType, QueryType
  <2> QED
    BY <2>1, <2>4, NextIInv
<1> QED
  BY <1>1, <1>2, PTL DEF Spec
=============================================================================
