-------------------------- MODULE RestPush_proofs --------------------------
(***************************************************************************)
(* What holds of the push of events for any batch size, queue limit and    *)
(* number of events and failures.  The argument: the queue always holds    *)
(* the latest events in the order they were added, so the number of the    *)
(* last event that left it says which did; and while flushes are shorter   *)
(* than two batches the head of the queue is what is left of the copy, so  *)
(* the records removed are those of the batch.                             *)
(***************************************************************************)
EXTENDS RestPush, SequenceTheorems, TLAPS

\* The last event that left the queue.
Past == events - Len(queue)

\* The queue holds the events after it, in order.
QueueIsLatest == Past \in Nat /\ \A k \in 1 .. Len(queue) : queue[k] = Past + k

\* The batch whose records are being removed is one.
ClearsBatch == phase = "clear" => HasBatch /\ From <= To

\* What a short flush has still to post is the head of the queue.
CopyIsShort == ~long /\ phase # "idle" => Len(copy) < 2 * BatchSize

CopyIsHead ==
    ~long /\ phase # "idle" =>
        \A k \in From + 1 .. Len(copy) : k - From <= Len(queue) /\ queue[k - From] = copy[k]

\* What left the queue, and the batch to be removed, has been accepted.
PastIsAccounted == ~long => 1 .. Past \subseteq ToSet(received) \cup dropped

BatchAccepted == ~long /\ phase = "clear" => ToSet(Batch) \subseteq ToSet(received)

\* Without failures nothing has been accepted that is not about to leave.
NothingAhead ==
    ~long /\ fails = 0 =>
        \A k \in DOMAIN received :
            received[k] <= Past + (IF phase = "clear" THEN Len(Batch) ELSE 0)

TypeInv == TypeOK /\ ClearsBatch

HeadInv == QueueIsLatest /\ CopyIsShort /\ CopyIsHead

PushInv ==
    /\ PastIsAccounted /\ BatchAccepted /\ NothingAhead
    /\ InOrderIfShort /\ NoRepeatIfShort

IInv == TypeInv /\ HeadInv /\ PushInv
------------------------------------------------------------------------------
(* Batches. *)

LEMMA Quotient ==
    ASSUME NEW l \in Nat, NEW b \in Nat \ {0}
    PROVE  /\ l \div b \in Nat /\ l % b \in 0 .. b - 1
           /\ l = b * (l \div b) + (l % b)
OBVIOUS

LEMMA Multiples ==
    ASSUME NEW b \in Nat, NEW k \in Nat
    PROVE  /\ b * k \in Nat /\ b * k = k * b
           /\ k = 0 => b * k = 0
           /\ k = 1 => b * k = b
           /\ k >= 1 => b * k >= b
           /\ k >= 2 => b * k >= 2 * b
OBVIOUS

LEMMA BatchCount ==
    ASSUME TypeOK
    PROVE  /\ n \in Nat /\ delta \in 0 .. BatchSize - 1
           /\ Len(copy) = BatchSize * n + delta
           /\ From \in Nat /\ To \in Nat
<1> USE PushAssumption DEF PushAssumption
<1>1. n \in Nat /\ delta \in 0 .. BatchSize - 1 /\ Len(copy) = BatchSize * n + delta
  <2>1. Len(copy) \in Nat /\ BatchSize \in Nat \ {0}
    BY DEF TypeOK
  <2> QED
    BY <2>1, Quotient DEF n, delta
<1>2. i * BatchSize \in Nat
  BY DEF TypeOK
<1> QED
  BY <1>1, <1>2 DEF From, To

\* A batch that subList returns is within the copy.
LEMMA BatchType ==
    ASSUME TypeOK, HasBatch, From <= To
    PROVE  /\ From \in Nat /\ To \in Nat /\ To <= Len(copy)
           /\ Batch \in Seq(Event) /\ Len(Batch) = To - From
           /\ \A k \in 1 .. To - From : Batch[k] = copy[From + k]
<1> USE PushAssumption DEF PushAssumption
<1>1. To <= Len(copy)
  <2>1. CASE i < n
    <3>1. BatchSize * n >= BatchSize
      <4>1. n >= 1
        BY <2>1, BatchCount DEF TypeOK
      <4> QED
        BY <4>1, BatchCount, Multiples
    <3> QED
      BY <2>1, <3>1, BatchCount DEF To
  <2>2. CASE ~(i < n)
    <3>1. i = n /\ BatchSize * n = n * BatchSize
      BY <2>2, BatchCount DEF HasBatch
    <3> QED
      BY <2>2, <3>1, BatchCount DEF To, From
  <2> QED BY <2>1, <2>2
<1>2. \A k \in From + 1 .. To : copy[k] \in Event
  BY <1>1, BatchCount DEF TypeOK
<1>3. /\ SubSeq(copy, From + 1, To) \in Seq(Event)
      /\ Len(SubSeq(copy, From + 1, To)) = IF From + 1 <= To THEN To - (From + 1) + 1 ELSE 0
      /\ \A k \in 1 .. To - (From + 1) + 1 : SubSeq(copy, From + 1, To)[k] = copy[From + 1 + k - 1]
  <2>1. From + 1 \in Int /\ To \in Int
    BY BatchCount
  <2> QED
    BY <1>2, <2>1, SubSeqProperties
<1>4. Len(Batch) = To - From
  <2>1. Len(Batch) = IF From + 1 <= To THEN To - (From + 1) + 1 ELSE 0
    BY <1>3 DEF Batch
  <2> QED
    BY <2>1, BatchCount
<1>5. ASSUME NEW k \in 1 .. To - From
      PROVE  Batch[k] = copy[From + k]
  <2>1. k \in 1 .. To - (From + 1) + 1 /\ From + 1 + k - 1 = From + k
    BY BatchCount
  <2> QED
    BY <1>3, <2>1 DEF Batch
<1> QED
  BY <1>1, <1>3, <1>4, <1>5, BatchCount DEF Batch

\* In a short flush it is the only full batch or the last one.
LEMMA ShortBatch ==
    ASSUME TypeOK, HasBatch, Len(copy) < 2 * BatchSize
    PROVE  From <= To /\ (To = From + BatchSize \/ (To = Len(copy) /\ Len(copy) <= From + BatchSize))
<1> USE PushAssumption DEF PushAssumption
<1>1. n = 0 \/ n = 1
  <2>1. ASSUME n >= 2 PROVE FALSE
    <3>1. BatchSize * n >= BatchSize * 2
      BY <2>1, BatchCount, Multiples
    <3> QED BY <3>1, BatchCount DEF TypeOK
  <2>2. n \in Nat
    BY BatchCount
  <2> QED BY <2>1, <2>2
<1>2. CASE i < n
  <2>1. i = 0 /\ From = 0
    BY <1>1, <1>2 DEF TypeOK, From
  <2> QED BY <1>2, <2>1 DEF To
<1>3. CASE ~(i < n)
  <2>1. i = n /\ From = BatchSize * n
    BY <1>1, <1>3 DEF HasBatch, From
  <2> QED BY <1>3, <2>1, BatchCount DEF To
<1> QED BY <1>2, <1>3

\* What is left of the queue when its first records are removed.
LEMMA Suffix ==
    ASSUME NEW q \in Seq(Event), NEW d \in Nat
    PROVE  LET s == SubSeq(q, d + 1, Len(q))
           IN /\ s \in Seq(Event)
              /\ Len(s) = IF d <= Len(q) THEN Len(q) - d ELSE 0
              /\ \A k \in 1 .. Len(s) : s[k] = q[d + k]
<1> DEFINE s == SubSeq(q, d + 1, Len(q))
<1>1. d + 1 \in Int /\ Len(q) \in Int /\ \A k \in d + 1 .. Len(q) : q[k] \in Event
  OBVIOUS
<1>2. /\ s \in Seq(Event)
      /\ Len(s) = IF d + 1 <= Len(q) THEN Len(q) - (d + 1) + 1 ELSE 0
      /\ \A k \in 1 .. Len(q) - (d + 1) + 1 : s[k] = q[d + 1 + k - 1]
  BY <1>1, SubSeqProperties
<1>3. Len(s) = IF d <= Len(q) THEN Len(q) - d ELSE 0
  BY <1>2
<1>4. ASSUME NEW k \in 1 .. Len(s) PROVE s[k] = q[d + k]
  <2>1. k \in 1 .. Len(q) - (d + 1) + 1 /\ d + 1 + k - 1 = d + k
    BY <1>3
  <2> QED BY <1>2, <2>1
<1> QED BY <1>2, <1>3, <1>4

\* In a short flush the batch is the head of the queue.
LEMMA BatchIsHead ==
    ASSUME TypeInv, HeadInv, ~long, phase # "idle", HasBatch
    PROVE  /\ From <= To /\ Len(Batch) <= Len(queue)
           /\ \A k \in 1 .. Len(Batch) : Batch[k] = Past + k
<1>1. From <= To
  BY ShortBatch DEF TypeInv, HeadInv, CopyIsShort
<1>2. /\ From \in Nat /\ To \in Nat /\ To <= Len(copy) /\ Len(Batch) = To - From
      /\ \A k \in 1 .. To - From : Batch[k] = copy[From + k]
  BY <1>1, BatchType DEF TypeInv
<1>3. ASSUME NEW k \in 1 .. Len(Batch)
      PROVE  k <= Len(queue) /\ Batch[k] = Past + k
  <2> DEFINE j == From + k
  <2>1. j \in From + 1 .. Len(copy) /\ j - From = k
    BY <1>2 DEF TypeInv, TypeOK
  <2>2. k <= Len(queue) /\ queue[k] = copy[j]
    <3> HIDE DEF j
    <3>1. j - From <= Len(queue) /\ queue[j - From] = copy[j]
      BY <2>1 DEF HeadInv, CopyIsHead
    <3> QED BY <2>1, <3>1
  <2> QED
    BY <1>2, <2>2 DEF HeadInv, QueueIsLatest, TypeInv, TypeOK
<1>4. Len(Batch) <= Len(queue)
  <2>1. CASE Len(Batch) = 0
    BY <2>1 DEF TypeInv, TypeOK
  <2>2. CASE Len(Batch) # 0
    BY <1>2, <1>3, <2>2
  <2> QED BY <2>1, <2>2
<1> QED BY <1>1, <1>3, <1>4
------------------------------------------------------------------------------
(* Types. *)

LEMMA InitType == Init => TypeInv
<1> USE PushAssumption DEF PushAssumption
<1> SUFFICES ASSUME Init PROVE TypeInv
  OBVIOUS
<1>1. << >> \in Seq(Event) /\ Len(<< >>) <= MaxBuffer
  OBVIOUS
<1>2. events \in 0 .. MaxEvents /\ i \in Nat /\ fails \in 0 .. MaxFail
  BY DEF Init
<1>3. dropped \subseteq Event /\ long \in BOOLEAN /\ phase \in {"idle", "post", "clear"}
  BY Zenon DEF Init
<1>4. queue \in Seq(Event) /\ received \in Seq(Event) /\ copy \in Seq(Event) /\ Len(copy) <= MaxBuffer
  BY <1>1 DEF Init
<1> QED
  BY <1>2, <1>3, <1>4 DEF Init, TypeInv, TypeOK, ClearsBatch

LEMMA SameBatch ==
    ASSUME UNCHANGED <<copy, i>>
    PROVE  From' = From /\ To' = To /\ Batch' = Batch /\ HasBatch' = HasBatch
BY DEF From, To, Batch, HasBatch, n, delta

LEMMA NextType ==
    ASSUME TypeInv, [Next]_vars
    PROVE  TypeInv'
<1> USE PushAssumption DEF PushAssumption
<1>1. CASE onEvent
  <2>1. events + 1 \in Event
    BY <1>1 DEF onEvent, TypeInv, TypeOK, Event
  <2>2. TypeOK'
    BY <1>1, <2>1 DEF onEvent, TypeInv, TypeOK
  <2> QED
    BY <1>1, <2>2, SameBatch DEF onEvent, TypeInv, ClearsBatch
<1>2. CASE Flush
  <2> DEFINE over == IF Len(queue) > MaxBuffer THEN Len(queue) - MaxBuffer ELSE 0
             rest == SubSeq(queue, over + 1, Len(queue))
  <2>1. over \in Nat /\ over <= Len(queue) /\ Len(queue) - over <= MaxBuffer
    BY DEF TypeInv, TypeOK
  <2>2. rest \in Seq(Event) /\ Len(rest) = Len(queue) - over
    <3> HIDE DEF over
    <3> QED BY <2>1, Suffix DEF TypeInv, TypeOK
  <2>3. ToSet(SubSeq(queue, 1, over)) \subseteq Event
    <3> HIDE DEF over
    <3>1. \A k \in 1 .. over : queue[k] \in Event
      BY <2>1 DEF TypeInv, TypeOK
    <3>2. SubSeq(queue, 1, over) \in Seq(Event)
      BY <2>1, <3>1, SubSeqProperties
    <3> QED BY <3>2 DEF ToSet
  <2>4. /\ queue' = rest /\ copy' = rest /\ dropped' = dropped \cup ToSet(SubSeq(queue, 1, over))
        /\ phase' = "post" /\ i' = 0 /\ long' = (long \/ Len(rest) >= 2 * BatchSize)
        /\ UNCHANGED <<events, received, fails>>
    BY <1>2 DEF Flush
  <2>5. TypeOK'
    <3> HIDE DEF over, rest
    <3> QED BY <2>1, <2>2, <2>3, <2>4 DEF TypeInv, TypeOK
  <2> QED
    BY <2>4, <2>5 DEF TypeInv, ClearsBatch
<1>3. CASE PostOk
  <2>1. received' \in Seq(Event)
    BY <1>3, BatchType DEF PostOk, TypeInv, TypeOK
  <2>2. TypeOK'
    BY <1>3, <2>1 DEF PostOk, TypeInv, TypeOK
  <2> QED
    BY <1>3, <2>2, SameBatch DEF PostOk, TypeInv, ClearsBatch
<1>4. CASE PostFails
  <2>1. received' \in Seq(Event)
    <3>1. Batch \in Seq(Event)
      BY <1>4, BatchType DEF PostFails, TypeInv
    <3>2. received \in Seq(Event) /\ received \o Batch \in Seq(Event)
      BY <3>1 DEF TypeInv, TypeOK
    <3> QED
      BY <1>4, <3>2 DEF PostFails
  <2>2. TypeOK'
    BY <1>4, <2>1 DEF PostFails, TypeInv, TypeOK
  <2> QED
    BY <1>4, <2>2 DEF PostFails, TypeInv, ClearsBatch
<1>5. CASE SubListThrows
  BY <1>5 DEF SubListThrows, TypeInv, TypeOK, ClearsBatch
<1>6. CASE Clear
  <2>1. Len(Batch) \in Nat
    BY <1>6, BatchType DEF Clear, TypeInv, ClearsBatch
  <2>2. queue' \in Seq(Event)
    BY <1>6, <2>1, Suffix DEF Clear, TypeInv, TypeOK
  <2> QED
    BY <1>6, <2>2 DEF Clear, TypeInv, TypeOK, ClearsBatch
<1>7. CASE FlushEnds
  BY <1>7 DEF FlushEnds, TypeInv, TypeOK, ClearsBatch
<1>8. CASE UNCHANGED vars
  BY <1>8, SameBatch DEF vars, TypeInv, TypeOK, ClearsBatch
<1> QED
  BY <1>1, <1>2, <1>3, <1>4, <1>5, <1>6, <1>7, <1>8 DEF Next, Timer

\* Every variable keeps its type, and a batch never reaches outside the copy
\* of the queue it is taken from.
THEOREM TypeCorrect == Spec => []TypeOK
<1>1. TypeInv /\ [Next]_vars => TypeInv'
  BY NextType
<1>2. TypeInv => TypeOK
  BY DEF TypeInv
<1> QED
  BY InitType, <1>1, <1>2, PTL DEF Spec
------------------------------------------------------------------------------
(* The queue and the copy. *)

LEMMA NextBatch ==
    ASSUME TypeOK, copy' = copy, i' = i + 1
    PROVE  From' = From + BatchSize
<1> USE PushAssumption DEF PushAssumption
<1>1. \A k, b \in Nat : (k + 1) * b = k * b + b
  OBVIOUS
<1> QED
  BY <1>1 DEF From, TypeOK

LEMMA OnEventHead ==
    ASSUME TypeInv, HeadInv, onEvent
    PROVE  HeadInv'
<1>1. /\ events' = events + 1 /\ queue' = Append(queue, events + 1)
      /\ UNCHANGED <<phase, copy, i, long>>
  BY DEF onEvent
<1>2. /\ Len(queue') = Len(queue) + 1 /\ queue'[Len(queue) + 1] = events + 1
      /\ \A k \in 1 .. Len(queue) : queue'[k] = queue[k]
  BY <1>1 DEF TypeInv, TypeOK
<1>3. Past' = Past
  BY <1>1, <1>2 DEF Past, TypeInv, TypeOK
<1>4. QueueIsLatest'
  <2>1. ASSUME NEW k \in 1 .. Len(queue')
        PROVE  queue'[k] = Past' + k
    <3>1. CASE k = Len(queue) + 1
      BY <1>2, <1>3, <3>1 DEF Past, TypeInv, TypeOK
    <3>2. CASE k # Len(queue) + 1
      <4>1. k \in 1 .. Len(queue)
        BY <1>2, <3>2 DEF TypeInv, TypeOK
      <4> QED BY <1>2, <1>3, <4>1 DEF HeadInv, QueueIsLatest
    <3> QED BY <3>1, <3>2
  <2> QED
    BY <1>3, <2>1 DEF HeadInv, QueueIsLatest
<1>5. CopyIsHead'
  <2> SUFFICES ASSUME ~long, phase # "idle", NEW k \in From + 1 .. Len(copy)
               PROVE  k - From <= Len(queue') /\ queue'[k - From] = copy[k]
    BY <1>1, SameBatch DEF CopyIsHead
  <2>1. k - From <= Len(queue) /\ queue[k - From] = copy[k]
    BY DEF HeadInv, CopyIsHead
  <2>2. k - From \in 1 .. Len(queue)
    BY <2>1, BatchCount DEF TypeInv, TypeOK
  <2> QED
    BY <1>2, <2>1, <2>2 DEF TypeInv, TypeOK
<1> QED
  BY <1>1, <1>4, <1>5 DEF HeadInv, CopyIsShort

\* What a flush drops and what it keeps.
LEMMA FlushFacts ==
    ASSUME TypeInv, Flush
    PROVE  \E over \in 0 .. Len(queue) :
              /\ queue' \in Seq(Event) /\ Len(queue') = Len(queue) - over
              /\ \A k \in 1 .. Len(queue') : queue'[k] = queue[over + k]
              /\ copy' = queue' /\ i' = 0 /\ phase = "idle" /\ phase' = "post"
              /\ \A k \in 1 .. over : queue[k] \in dropped'
              /\ dropped \subseteq dropped'
              /\ ~long' => ~long /\ Len(queue') < 2 * BatchSize
              /\ UNCHANGED <<events, received, fails>>
<1> USE PushAssumption DEF PushAssumption
<1> DEFINE over == IF Len(queue) > MaxBuffer THEN Len(queue) - MaxBuffer ELSE 0
           rest == SubSeq(queue, over + 1, Len(queue))
<1>1. over \in 0 .. Len(queue)
  BY DEF TypeInv, TypeOK
<1>2. /\ queue' = rest /\ copy' = rest /\ dropped' = dropped \cup ToSet(SubSeq(queue, 1, over))
      /\ phase = "idle" /\ phase' = "post" /\ i' = 0
      /\ long' = (long \/ Len(rest) >= 2 * BatchSize)
      /\ UNCHANGED <<events, received, fails>>
  BY DEF Flush
<1> HIDE DEF over
<1>3. /\ rest \in Seq(Event) /\ Len(rest) = Len(queue) - over
      /\ \A k \in 1 .. Len(rest) : rest[k] = queue[over + k]
  <2>1. over \in Nat /\ over <= Len(queue) /\ queue \in Seq(Event)
    BY <1>1 DEF TypeInv, TypeOK
  <2> QED BY <2>1, Suffix
<1>4. ASSUME NEW k \in 1 .. over
      PROVE  queue[k] \in dropped'
  <2>1. \A j \in 1 .. over : queue[j] \in Event
    BY <1>1 DEF TypeInv, TypeOK
  <2>2. /\ SubSeq(queue, 1, over) \in Seq(Event)
        /\ Len(SubSeq(queue, 1, over)) = IF 1 <= over THEN over - 1 + 1 ELSE 0
        /\ \A j \in 1 .. over - 1 + 1 : SubSeq(queue, 1, over)[j] = queue[1 + j - 1]
    BY <1>1, <2>1, SubSeqProperties
  <2>3. k \in DOMAIN SubSeq(queue, 1, over) /\ SubSeq(queue, 1, over)[k] = queue[k]
    BY <1>1, <2>2
  <2> QED
    BY <1>2, <2>3 DEF ToSet
<1> HIDE DEF rest
<1>5. ~long' => ~long /\ Len(rest) < 2 * BatchSize
  <2> SUFFICES ASSUME ~long' PROVE ~long /\ Len(rest) < 2 * BatchSize
    OBVIOUS
  <2>1. ~long /\ ~(Len(rest) >= 2 * BatchSize)
    BY <1>2, Zenon
  <2>2. Len(rest) \in Nat
    BY <1>3
  <2> QED BY <2>1, <2>2
<1> QED
  BY <1>1, <1>2, <1>3, <1>4, <1>5

LEMMA FlushHead ==
    ASSUME TypeInv, HeadInv, Flush
    PROVE  HeadInv'
<1>1. PICK over \in 0 .. Len(queue) :
              /\ queue' \in Seq(Event) /\ Len(queue') = Len(queue) - over
              /\ \A k \in 1 .. Len(queue') : queue'[k] = queue[over + k]
              /\ copy' = queue' /\ i' = 0
              /\ ~long' => Len(queue') < 2 * BatchSize
              /\ events' = events
  BY FlushFacts
<1>2. Past' = Past + over
  BY <1>1 DEF Past, TypeInv, TypeOK
<1>3. QueueIsLatest'
  <2>1. ASSUME NEW k \in 1 .. Len(queue')
        PROVE  queue'[k] = Past' + k
    <3>1. over + k \in 1 .. Len(queue)
      BY <1>1 DEF TypeInv, TypeOK
    <3>2. queue'[k] = Past + (over + k)
      BY <1>1, <3>1 DEF HeadInv, QueueIsLatest
    <3> QED
      BY <1>2, <3>2 DEF HeadInv, QueueIsLatest
  <2> QED
    BY <1>2, <2>1 DEF HeadInv, QueueIsLatest
<1>4. From' = 0
  BY <1>1, PushAssumption DEF From, PushAssumption
<1>5. CopyIsHead'
  BY <1>1, <1>4 DEF CopyIsHead
<1> QED
  BY <1>1, <1>3, <1>5 DEF HeadInv, CopyIsShort

\* A batch leaves the head of the queue.
LEMMA ClearFacts ==
    ASSUME TypeInv, Clear
    PROVE  /\ Len(Batch) \in Nat /\ queue' \in Seq(Event)
           /\ Len(queue') = IF Len(Batch) <= Len(queue) THEN Len(queue) - Len(Batch) ELSE 0
           /\ \A k \in 1 .. Len(queue') : queue'[k] = queue[Len(Batch) + k]
<1>1. Len(Batch) \in Nat
  BY BatchType DEF Clear, TypeInv, ClearsBatch
<1> QED
  BY <1>1, Suffix DEF Clear, TypeInv, TypeOK

LEMMA ClearHead ==
    ASSUME TypeInv, HeadInv, Clear
    PROVE  HeadInv'
<1>1. /\ phase = "clear" /\ phase' = "post" /\ i' = i + 1
      /\ UNCHANGED <<events, copy, long>>
  BY DEF Clear
<1>2. QueueIsLatest'
  <2>1. Past' \in Nat
    BY <1>1, ClearFacts DEF Past, HeadInv, QueueIsLatest, TypeInv, TypeOK
  <2>2. ASSUME NEW k \in 1 .. Len(queue')
        PROVE  queue'[k] = Past' + k
    <3>1. /\ Len(Batch) \in Nat /\ Len(queue) \in Nat /\ events \in Nat
          /\ Len(queue') = IF Len(Batch) <= Len(queue) THEN Len(queue) - Len(Batch) ELSE 0
          /\ queue'[k] = queue[Len(Batch) + k]
      BY ClearFacts DEF TypeInv, TypeOK
    <3>2. Len(queue') = Len(queue) - Len(Batch)
      BY <3>1
    <3>3. Len(Batch) + k \in 1 .. Len(queue)
      BY <3>1, <3>2
    <3>4. Past' = Past + Len(Batch)
      <4>1. Past' = events - (Len(queue) - Len(Batch))
        BY <1>1, <3>2 DEF Past
      <4>2. Len(Batch) \in Nat /\ Len(queue) \in Nat /\ events \in Nat
        BY <3>1
      <4> QED BY <4>1, <4>2 DEF Past
    <3>5. queue'[k] = Past + (Len(Batch) + k)
      BY <3>1, <3>3 DEF HeadInv, QueueIsLatest
    <3> QED
      BY <3>1, <3>4, <3>5 DEF HeadInv, QueueIsLatest
  <2> QED BY <2>1, <2>2 DEF QueueIsLatest
<1>3. CopyIsHead'
  <2> SUFFICES ASSUME ~long, NEW k \in From' + 1 .. Len(copy)
               PROVE  k - From' <= Len(queue') /\ queue'[k - From'] = copy[k]
    BY <1>1 DEF CopyIsHead
  <2>1. HasBatch /\ From <= To /\ From' = From + BatchSize
    BY <1>1, NextBatch DEF TypeInv, ClearsBatch
  <2>2. /\ From \in Nat /\ BatchSize \in Nat /\ Len(copy) \in Nat /\ Len(queue) \in Nat
        /\ Len(Batch) = To - From
    BY <2>1, BatchType, PushAssumption DEF TypeInv, TypeOK, PushAssumption
  <2>3. To = From'
    BY <1>1, <2>1, <2>2, ShortBatch DEF HeadInv, CopyIsShort, TypeInv
  <2>4. k - From <= Len(queue) /\ queue[k - From] = copy[k]
    <3>1. k \in From + 1 .. Len(copy)
      BY <2>1, <2>2
    <3> QED BY <1>1, <3>1 DEF HeadInv, CopyIsHead
  <2>5. Len(Batch) + (k - From') = k - From /\ k - From' >= 1
    BY <2>1, <2>2, <2>3
  <2>6. Len(queue') = Len(queue) - Len(Batch)
    <3>1. /\ Len(Batch) \in Nat
          /\ Len(queue') = IF Len(Batch) <= Len(queue) THEN Len(queue) - Len(Batch) ELSE 0
      BY ClearFacts
    <3>2. Len(Batch) <= Len(queue)
      BY <2>1, <2>2, <2>4, <2>5
    <3> QED BY <3>1, <3>2
  <2>7. k - From' \in 1 .. Len(queue')
    BY <2>1, <2>2, <2>4, <2>5, <2>6
  <2> QED
    BY <2>4, <2>5, <2>7, ClearFacts
<1> QED
  BY <1>1, <1>2, <1>3 DEF HeadInv, CopyIsShort

LEMMA NextHead ==
    ASSUME TypeInv, HeadInv, [Next]_vars
    PROVE  HeadInv'
<1>1. CASE PostOk
  BY <1>1, SameBatch DEF PostOk, HeadInv, QueueIsLatest, Past, CopyIsShort, CopyIsHead
<1>2. CASE PostFails
  BY <1>2 DEF PostFails, HeadInv, QueueIsLatest, Past, CopyIsShort, CopyIsHead
<1>3. CASE SubListThrows
  BY <1>3 DEF SubListThrows, HeadInv, QueueIsLatest, Past, CopyIsShort, CopyIsHead
<1>4. CASE FlushEnds
  BY <1>4 DEF FlushEnds, HeadInv, QueueIsLatest, Past, CopyIsShort, CopyIsHead
<1>5. CASE UNCHANGED vars
  BY <1>5, SameBatch DEF vars, HeadInv, QueueIsLatest, Past, CopyIsShort, CopyIsHead
<1> QED
  BY OnEventHead, FlushHead, ClearHead, <1>1, <1>2, <1>3, <1>4, <1>5 DEF Next, Timer
------------------------------------------------------------------------------
(* What the endpoint has accepted. *)

LEMMA PrefixSet ==
    ASSUME NEW r \in Seq(Event), NEW k \in 0 .. Len(r)
    PROVE  ToSet(SubSeq(r, 1, k)) = {r[m] : m \in 1 .. k}
<1>1. \A m \in 1 .. k : r[m] \in Event
  OBVIOUS
<1>2. /\ SubSeq(r, 1, k) \in Seq(Event)
      /\ Len(SubSeq(r, 1, k)) = IF 1 <= k THEN k - 1 + 1 ELSE 0
      /\ \A m \in 1 .. k - 1 + 1 : SubSeq(r, 1, k)[m] = r[1 + m - 1]
  BY <1>1, SubSeqProperties
<1>3. DOMAIN SubSeq(r, 1, k) = 1 .. k /\ \A m \in 1 .. k : SubSeq(r, 1, k)[m] = r[m]
  BY <1>2
<1> QED
  BY <1>3 DEF ToSet

LEMMA Elements ==
    ASSUME NEW r \in Seq(Event)
    PROVE  ToSet(r) = {r[m] : m \in 1 .. Len(r)}
BY DEF ToSet

LEMMA SubElements ==
    ASSUME NEW r \in Seq(Event), NEW t \in Seq(Event),
           \A k \in 1 .. Len(r) : \E m \in 1 .. Len(t) : t[m] = r[k]
    PROVE  ToSet(r) \subseteq ToSet(t)
<1>1. ToSet(r) = {r[m] : m \in 1 .. Len(r)} /\ ToSet(t) = {t[m] : m \in 1 .. Len(t)}
  BY Elements
<1> QED BY <1>1

\* Accepting a batch of a short flush appends the events after the last one
\* that left the queue.
LEMMA Accepting ==
    ASSUME TypeInv, HeadInv, ~long, phase = "post", HasBatch, received' = received \o Batch
    PROVE  /\ Len(Batch) \in Nat
           /\ received' \in Seq(Event) /\ Len(received') = Len(received) + Len(Batch)
           /\ \A k \in 1 .. Len(received) : received'[k] = received[k]
           /\ \A k \in 1 .. Len(Batch) : received'[Len(received) + k] = Past + k
<1>1. Batch \in Seq(Event) /\ \A k \in 1 .. Len(Batch) : Batch[k] = Past + k
  BY BatchIsHead, BatchType DEF TypeInv
<1>2. received \in Seq(Event) /\ Len(received) \in Nat /\ Len(Batch) \in Nat
  BY <1>1 DEF TypeInv, TypeOK
<1> QED
  BY <1>1, <1>2

LEMMA AcceptingInOrder ==
    ASSUME TypeInv, HeadInv, PastIsAccounted, InOrderIfShort,
           ~long, phase = "post", HasBatch, received' = received \o Batch, dropped' = dropped
    PROVE  \A k \in DOMAIN received' :
               1 .. received'[k] - 1 \subseteq ToSet(SubSeq(received', 1, k)) \cup dropped'
<1>1. received \in Seq(Event) /\ Len(received) \in Nat /\ Past \in Nat
  BY DEF TypeInv, TypeOK, HeadInv, QueueIsLatest
<1>2. /\ Len(Batch) \in Nat
      /\ received' \in Seq(Event) /\ Len(received') = Len(received) + Len(Batch)
      /\ \A k \in 1 .. Len(received) : received'[k] = received[k]
      /\ \A k \in 1 .. Len(Batch) : received'[Len(received) + k] = Past + k
  BY Accepting
<1> SUFFICES ASSUME NEW k \in 1 .. Len(received'), NEW e \in 1 .. received'[k] - 1, e \notin dropped
             PROVE  \E m \in 1 .. k : received'[m] = e
  <2>1. \A k \in 1 .. Len(received') : ToSet(SubSeq(received', 1, k)) = {received'[m] : m \in 1 .. k}
    <3> TAKE len \in 1 .. Len(received')
    <3>1. len \in 0 .. Len(received')
      OBVIOUS
    <3> QED BY <1>2, <3>1, PrefixSet
  <2>2. DOMAIN received' = 1 .. Len(received')
    BY <1>2
  <2> QED BY <2>1, <2>2
<1>3. CASE k <= Len(received)
  <2>1. k \in 1 .. Len(received) /\ received'[k] = received[k]
    BY <1>1, <1>2, <1>3
  <2>2. e \in ToSet(SubSeq(received, 1, k))
    BY <1>1, <2>1 DEF InOrderIfShort
  <2>3. PICK m \in 1 .. k : received[m] = e
    BY <1>1, <2>1, <2>2, PrefixSet
  <2> QED BY <1>1, <1>2, <2>1, <2>3
<1>4. CASE k > Len(received)
  <2>1. k - Len(received) \in 1 .. Len(Batch) /\ Len(received) + (k - Len(received)) = k
    BY <1>1, <1>2, <1>4
  <2>2. received'[k] = Past + (k - Len(received))
    BY <1>2, <2>1
  <2>3. CASE e <= Past
    <3>1. e \in 1 .. Past
      BY <1>1, <2>2, <2>3
    <3>2. e \in ToSet(received)
      BY <3>1 DEF PastIsAccounted
    <3>3. PICK m \in 1 .. Len(received) : received[m] = e
      BY <1>1, <3>2, Elements
    <3> QED BY <1>1, <1>2, <1>4, <3>3
  <2>4. CASE e > Past
    <3>1. /\ e - Past \in 1 .. Len(Batch) /\ Len(received) + (e - Past) \in 1 .. k
          /\ Past + (e - Past) = e
      BY <1>1, <2>1, <2>2, <2>4
    <3> QED BY <1>2, <3>1
  <2> QED BY <1>1, <2>1, <2>2, <2>3, <2>4
<1> QED BY <1>1, <1>3, <1>4

LEMMA PostOkPush ==
    ASSUME TypeInv, HeadInv, PushInv, PostOk
    PROVE  PushInv'
<1>1. /\ phase = "post" /\ HasBatch /\ phase' = "clear" /\ received' = received \o Batch
      /\ Past' = Past /\ UNCHANGED <<dropped, long, fails, copy, i>>
  BY DEF PostOk, Past
<1> SUFFICES ASSUME ~long PROVE PushInv'
  BY <1>1 DEF PushInv, PastIsAccounted, BatchAccepted, NothingAhead, InOrderIfShort, NoRepeatIfShort
<1>2. /\ received \in Seq(Event) /\ Len(received) \in Nat /\ Past \in Nat
      /\ Batch \in Seq(Event)
  BY <1>1, BatchIsHead, BatchType DEF TypeInv, TypeOK, HeadInv, QueueIsLatest
<1>3. /\ Len(Batch) \in Nat
      /\ received' \in Seq(Event) /\ Len(received') = Len(received) + Len(Batch)
      /\ \A k \in 1 .. Len(received) : received'[k] = received[k]
      /\ \A k \in 1 .. Len(Batch) : received'[Len(received) + k] = Past + k
  BY <1>1, Accepting
<1>4. PastIsAccounted'
  <2>1. ToSet(received) \subseteq ToSet(received')
    <3>1. \A k \in 1 .. Len(received) : k \in 1 .. Len(received') /\ received'[k] = received[k]
      BY <1>2, <1>3
    <3> QED BY <1>2, <1>3, <3>1, SubElements
  <2> QED
    BY <1>1, <2>1 DEF PushInv, PastIsAccounted
<1>5. BatchAccepted'
  <2>1. ToSet(Batch) \subseteq ToSet(received')
    <3>1. \A k \in 1 .. Len(Batch) : Batch[k] = received'[Len(received) + k]
      BY <1>1, <1>3, BatchIsHead
    <3>2. \A k \in 1 .. Len(Batch) : Len(received) + k \in 1 .. Len(received')
      BY <1>2, <1>3
    <3> QED
      BY <1>2, <1>3, <3>1, <3>2, SubElements
  <2> QED
    BY <1>1, <2>1, SameBatch DEF BatchAccepted
<1>6. \A k \in 1 .. Len(received') : k > Len(received) => received'[k] = Past + (k - Len(received))
  <2> TAKE k \in 1 .. Len(received')
  <2> HAVE k > Len(received)
  <2>1. k - Len(received) \in 1 .. Len(Batch) /\ Len(received) + (k - Len(received)) = k
    BY <1>2, <1>3
  <2> QED BY <1>3, <2>1
<1>7. ASSUME fails = 0, NEW k \in 1 .. Len(received)
      PROVE  received[k] \in Nat /\ received[k] <= Past
  <2>1. k \in DOMAIN received /\ received[k] \in Event
    BY <1>2
  <2>2. received[k] <= Past + (IF phase = "clear" THEN Len(Batch) ELSE 0)
    BY <1>7, <2>1 DEF PushInv, NothingAhead
  <2>3. Past + (IF phase = "clear" THEN Len(Batch) ELSE 0) = Past
    BY <1>1, <1>2
  <2> QED
    BY <2>1, <2>2, <2>3 DEF Event
<1>8. NothingAhead'
  <2> SUFFICES ASSUME fails = 0, NEW k \in 1 .. Len(received')
               PROVE  received'[k] <= Past + Len(Batch)
    BY <1>1, <1>3, SameBatch DEF NothingAhead
  <2>1. CASE k <= Len(received)
    BY <1>2, <1>3, <1>7, <2>1
  <2>2. CASE k > Len(received)
    BY <1>2, <1>3, <1>6, <2>2
  <2> QED BY <1>2, <2>1, <2>2
<1>9. NoRepeatIfShort'
  <2> SUFFICES ASSUME fails = 0,
                      NEW j \in 1 .. Len(received'), NEW k \in 1 .. Len(received'),
                      received'[j] = received'[k]
               PROVE  j = k
    BY <1>1, <1>3 DEF NoRepeatIfShort
  <2>1. CASE j <= Len(received) /\ k <= Len(received)
    <3>1. j \in DOMAIN received /\ k \in DOMAIN received /\ received[j] = received[k]
      BY <1>2, <1>3, <2>1
    <3> QED BY <3>1 DEF PushInv, NoRepeatIfShort
  <2>2. CASE j > Len(received) /\ k > Len(received)
    BY <1>2, <1>6, <2>2
  <2>3. ASSUME NEW a \in 1 .. Len(received), NEW b \in 1 .. Len(received'), b > Len(received)
        PROVE  received'[a] # received'[b]
    <3>1. received'[a] = received[a] /\ received[a] \in Nat /\ received[a] <= Past
      BY <1>3, <1>7
    <3>2. received'[b] = Past + (b - Len(received))
      BY <1>6, <2>3
    <3> QED BY <1>2, <2>3, <3>1, <3>2
  <2> QED BY <1>2, <2>1, <2>2, <2>3
<1>10. InOrderIfShort'
  BY <1>1, AcceptingInOrder DEF PushInv, InOrderIfShort
<1> QED
  BY <1>4, <1>5, <1>8, <1>9, <1>10 DEF PushInv

LEMMA PostFailsPush ==
    ASSUME TypeInv, HeadInv, PushInv, PostFails
    PROVE  PushInv'
<1>1. /\ phase = "post" /\ HasBatch /\ phase' = "idle" /\ fails' = fails + 1
      /\ Past' = Past /\ UNCHANGED <<dropped, long>>
  BY DEF PostFails, Past
<1>2. fails' # 0
  BY <1>1 DEF TypeInv, TypeOK
<1>3. CASE received' = received
  BY <1>1, <1>2, <1>3
     DEF PushInv, PastIsAccounted, BatchAccepted, NothingAhead, InOrderIfShort, NoRepeatIfShort
<1>4. CASE received' = received \o Batch
  <2> SUFFICES ASSUME ~long PROVE PushInv'
    BY <1>1 DEF PushInv, PastIsAccounted, BatchAccepted, NothingAhead, InOrderIfShort, NoRepeatIfShort
  <2>1. /\ received \in Seq(Event) /\ Len(received) \in Nat
        /\ Len(Batch) \in Nat
        /\ received' \in Seq(Event) /\ Len(received') = Len(received) + Len(Batch)
        /\ \A k \in 1 .. Len(received) : received'[k] = received[k]
    BY <1>1, <1>4, Accepting DEF TypeInv, TypeOK
  <2>2. ToSet(received) \subseteq ToSet(received')
    <3>1. \A k \in 1 .. Len(received) : k \in 1 .. Len(received') /\ received'[k] = received[k]
      BY <2>1
    <3> QED BY <2>1, <3>1, SubElements
  <2>3. PastIsAccounted'
    BY <1>1, <2>2 DEF PushInv, PastIsAccounted
  <2>4. InOrderIfShort'
    BY <1>1, <1>4, AcceptingInOrder DEF PushInv, InOrderIfShort
  <2> QED
    BY <1>1, <1>2, <2>3, <2>4 DEF PushInv, BatchAccepted, NothingAhead, NoRepeatIfShort
<1> QED
  BY <1>3, <1>4 DEF PostFails

LEMMA FlushPush ==
    ASSUME TypeInv, HeadInv, PushInv, Flush
    PROVE  PushInv'
<1>1. PICK over \in 0 .. Len(queue) :
              /\ Len(queue') = Len(queue) - over
              /\ phase = "idle" /\ phase' = "post"
              /\ \A k \in 1 .. over : queue[k] \in dropped'
              /\ dropped \subseteq dropped'
              /\ ~long' => ~long
              /\ UNCHANGED <<events, received, fails>>
  BY FlushFacts
<1>2. Past \in Nat /\ Past' = Past + over /\ over \in Nat /\ received \in Seq(Event)
  BY <1>1 DEF Past, TypeInv, TypeOK, HeadInv, QueueIsLatest
<1> SUFFICES ASSUME ~long, ~long' PROVE PushInv'
  BY <1>1 DEF PushInv, PastIsAccounted, BatchAccepted, NothingAhead, InOrderIfShort, NoRepeatIfShort
<1>3. PastIsAccounted'
  <2> SUFFICES ASSUME NEW e \in 1 .. Past + over
               PROVE  e \in ToSet(received) \cup dropped'
    BY <1>1, <1>2 DEF PastIsAccounted
  <2>1. CASE e <= Past
    BY <1>1, <1>2, <2>1 DEF PushInv, PastIsAccounted
  <2>2. CASE e > Past
    <3>1. e - Past \in 1 .. over /\ e - Past \in 1 .. Len(queue) /\ Past + (e - Past) = e
      BY <1>2, <2>2 DEF TypeInv, TypeOK
    <3>2. queue[e - Past] = e
      BY <3>1 DEF HeadInv, QueueIsLatest
    <3> QED BY <1>1, <3>1, <3>2
  <2> QED BY <1>2, <2>1, <2>2
<1>4. NothingAhead'
  <2> SUFFICES ASSUME fails = 0, NEW k \in 1 .. Len(received)
               PROVE  received[k] <= Past + over
    BY <1>1, <1>2 DEF NothingAhead
  <2>1. k \in DOMAIN received /\ received[k] \in Event
    BY <1>2
  <2>2. received[k] <= Past + (IF phase = "clear" THEN Len(Batch) ELSE 0)
    BY <2>1 DEF PushInv, NothingAhead
  <2>3. Past + (IF phase = "clear" THEN Len(Batch) ELSE 0) = Past
    BY <1>1, <1>2
  <2> QED BY <1>2, <2>1, <2>2, <2>3 DEF Event
<1> QED
  BY <1>1, <1>3, <1>4 DEF PushInv, BatchAccepted, InOrderIfShort, NoRepeatIfShort

LEMMA ClearPush ==
    ASSUME TypeInv, HeadInv, PushInv, Clear
    PROVE  PushInv'
<1>1. /\ phase = "clear" /\ phase' = "post"
      /\ UNCHANGED <<events, received, dropped, long, fails>>
  BY DEF Clear
<1> SUFFICES ASSUME ~long PROVE PushInv'
  BY <1>1 DEF PushInv, PastIsAccounted, BatchAccepted, NothingAhead, InOrderIfShort, NoRepeatIfShort
<1>2. /\ HasBatch /\ Batch \in Seq(Event) /\ Len(Batch) \in Nat /\ Len(Batch) <= Len(queue)
      /\ \A k \in 1 .. Len(Batch) : Batch[k] = Past + k
  BY <1>1, BatchType, BatchIsHead DEF TypeInv, ClearsBatch
<1>3. Past \in Nat /\ Past' = Past + Len(Batch)
  <2>1. /\ events \in Nat /\ Len(queue) \in Nat
        /\ Len(queue') = IF Len(Batch) <= Len(queue) THEN Len(queue) - Len(Batch) ELSE 0
    BY ClearFacts DEF TypeInv, TypeOK
  <2>2. Len(queue') = Len(queue) - Len(Batch)
    BY <1>2, <2>1
  <2>3. Past' = Past + Len(Batch)
    BY <1>1, <1>2, <2>1, <2>2 DEF Past
  <2> QED
    BY <2>3 DEF HeadInv, QueueIsLatest
<1>4. PastIsAccounted'
  <2> SUFFICES ASSUME NEW e \in 1 .. Past + Len(Batch)
               PROVE  e \in ToSet(received) \cup dropped
    BY <1>1, <1>3 DEF PastIsAccounted
  <2>1. CASE e <= Past
    BY <1>3, <2>1 DEF PushInv, PastIsAccounted
  <2>2. CASE e > Past
    <3>1. e - Past \in 1 .. Len(Batch) /\ Past + (e - Past) = e
      BY <1>2, <1>3, <2>2
    <3>2. e \in ToSet(Batch)
      BY <1>2, <3>1, Elements
    <3> QED BY <1>1, <3>2 DEF PushInv, BatchAccepted
  <2> QED BY <1>3, <2>1, <2>2
<1>5. NothingAhead'
  <2> SUFFICES ASSUME fails = 0, NEW k \in DOMAIN received
               PROVE  received[k] <= Past'
    <3>1. Past' + 0 = Past'
      BY <1>2, <1>3
    <3> QED BY <1>1, <3>1 DEF NothingAhead
  <2> QED
    BY <1>1, <1>3 DEF PushInv, NothingAhead
<1> QED
  BY <1>1, <1>4, <1>5 DEF PushInv, BatchAccepted, InOrderIfShort, NoRepeatIfShort

LEMMA OtherPush ==
    ASSUME TypeInv, HeadInv, PushInv, Past' = Past,
           UNCHANGED <<received, dropped, long, fails>>,
           \/ UNCHANGED <<phase, copy, i>>
           \/ phase = "post" /\ phase' = "idle"
    PROVE  PushInv'
<1>1. CASE UNCHANGED <<phase, copy, i>>
  BY <1>1, SameBatch
     DEF PushInv, PastIsAccounted, BatchAccepted, NothingAhead, InOrderIfShort, NoRepeatIfShort
<1>2. CASE phase = "post" /\ phase' = "idle"
  BY <1>2
     DEF PushInv, PastIsAccounted, BatchAccepted, NothingAhead, InOrderIfShort, NoRepeatIfShort
<1> QED BY <1>1, <1>2

LEMMA NextPush ==
    ASSUME TypeInv, HeadInv, PushInv, [Next]_vars
    PROVE  PushInv'
<1>1. CASE onEvent
  <2>1. Len(queue') = Len(queue) + 1 /\ events' = events + 1
    BY <1>1 DEF onEvent, TypeInv, TypeOK
  <2>2. Past' = Past
    BY <2>1 DEF Past, TypeInv, TypeOK
  <2> QED BY <1>1, <2>2, OtherPush DEF onEvent
<1>2. CASE SubListThrows
  BY <1>2, OtherPush DEF SubListThrows, Past
<1>3. CASE FlushEnds
  BY <1>3, OtherPush DEF FlushEnds, Past
<1>4. CASE UNCHANGED vars
  BY <1>4, OtherPush DEF vars, Past
<1> QED
  BY FlushPush, PostOkPush, PostFailsPush, ClearPush, <1>1, <1>2, <1>3, <1>4 DEF Next, Timer

LEMMA InitIInv == Init => IInv
<1> SUFFICES ASSUME Init PROVE IInv
  OBVIOUS
<1>1. Past = 0 /\ Len(queue) = 0 /\ DOMAIN received = {} /\ phase = "idle"
  <2>1. Len(<< >>) = 0 /\ DOMAIN << >> = {}
    OBVIOUS
  <2>2. events = 0 /\ Len(queue) = 0
    BY <2>1 DEF Init
  <2>3. DOMAIN received = {} /\ phase = "idle"
    BY <2>1, Zenon DEF Init
  <2> QED BY <2>2, <2>3 DEF Past
<1>2. HeadInv
  BY <1>1 DEF HeadInv, QueueIsLatest, CopyIsShort, CopyIsHead
<1>3. PushInv
  BY <1>1
     DEF PushInv, PastIsAccounted, BatchAccepted, NothingAhead, InOrderIfShort, NoRepeatIfShort
<1> QED
  BY <1>2, <1>3, InitType DEF IInv

LEMMA NextIInv == IInv /\ [Next]_vars => IInv'
BY NextType, NextHead, NextPush DEF IInv
------------------------------------------------------------------------------
\* While flushes are shorter than two batches every event that was added is
\* in the queue, has been accepted by the endpoint or was dropped by the
\* queue size limit, whatever is added during a flush and whichever post
\* fails.
THEOREM NothingIsLost == Spec => []LosslessIfShort
<1>1. IInv => LosslessIfShort
  <2> SUFFICES ASSUME IInv, ~long, NEW e \in 1 .. events
               PROVE  e \in ToSet(queue) \cup ToSet(received) \cup dropped
    BY DEF LosslessIfShort, Lossless
  <2>1. Past \in Nat /\ events \in Nat /\ queue \in Seq(Event) /\ Len(queue) \in Nat
    BY DEF IInv, HeadInv, QueueIsLatest, TypeInv, TypeOK
  <2>2. CASE e <= Past
    BY <2>1, <2>2 DEF IInv, PushInv, PastIsAccounted
  <2>3. CASE e > Past
    <3>1. e - Past \in 1 .. Len(queue) /\ Past + (e - Past) = e
      BY <2>1, <2>3 DEF Past
    <3>2. queue[e - Past] = e
      BY <3>1 DEF IInv, HeadInv, QueueIsLatest
    <3> QED BY <2>1, <3>1, <3>2, Elements
  <2> QED BY <2>1, <2>2, <2>3
<1> QED
  BY InitIInv, NextIInv, <1>1, PTL DEF Spec

\* Such flushes deliver the events in the order they were added.
THEOREM EventsArriveInOrder == Spec => []InOrderIfShort
<1>1. IInv => InOrderIfShort
  BY DEF IInv, PushInv
<1> QED
  BY InitIInv, NextIInv, <1>1, PTL DEF Spec

\* And an event is delivered twice only after a post has failed.
THEOREM NoEventIsRepeated == Spec => []NoRepeatIfShort
<1>1. IInv => NoRepeatIfShort
  BY DEF IInv, PushInv
<1> QED
  BY InitIInv, NextIInv, <1>1, PTL DEF Spec
==============================================================================
