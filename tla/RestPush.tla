------------------------------ MODULE RestPush ------------------------------
(***************************************************************************)
(* NCRestPushNotificationPlugin: one endpoint, its bounded queue of events *)
(* and the timer that flushes it in batches.                               *)
(*                                                                         *)
(* Server threads append events while the timer thread posts from a copy   *)
(* of the queue; after a successful post it removes as many records from   *)
(* the head of the queue as the batch had.  An event is its number.        *)
(***************************************************************************)
EXTENDS Integers, Sequences, SequencesExt

CONSTANTS
    BatchSize,   \* batchSize
    MaxBuffer,   \* maxBufferSize
    MaxEvents,   \* bound: events of a run
    MaxFail      \* bound: posts that fail

ASSUME PushAssumption ==
    /\ BatchSize \in Nat \ {0, 1} /\ MaxBuffer \in Nat \ {0}
    /\ MaxEvents \in Nat /\ MaxFail \in Nat

VARIABLES
    events,     \* events added so far
    queue,      \* the endpoint's queue
    phase,      \* of the timer thread: idle, posting a batch or clearing it
    copy,       \* its copy of the queue
    i,          \* number of the batch
    received,   \* what the endpoint has accepted, in order
    dropped,    \* events lost to the queue size limit
    long,       \* whether a flush has copied two full batches or more
    fails

vars == <<events, queue, phase, copy, i, received, dropped, long, fails>>

Event == 1 .. MaxEvents

TypeOK ==
    /\ events \in 0 .. MaxEvents
    /\ queue \in Seq(Event) /\ received \in Seq(Event)
    /\ copy \in Seq(Event) /\ Len(copy) <= MaxBuffer
    /\ phase \in {"idle", "post", "clear"}
    /\ i \in Nat
    /\ dropped \subseteq Event
    /\ long \in BOOLEAN
    /\ fails \in 0 .. MaxFail

Init ==
    /\ events = 0 /\ queue = <<>> /\ phase = "idle" /\ copy = <<>> /\ i = 0
    /\ received = <<>> /\ dropped = {} /\ long = FALSE /\ fails = 0
------------------------------------------------------------------------------
\* onEvent: queue.add, whatever the timer is doing.
onEvent ==
    /\ events < MaxEvents
    /\ events' = events + 1
    /\ queue' = Append(queue, events + 1)
    /\ UNCHANGED <<phase, copy, i, received, dropped, long, fails>>

\* The mutant of flush that forgets the queue size limit.
FlushOversized ==
    /\ phase = "idle" /\ queue # <<>>
    /\ copy' = queue
    /\ phase' = "post" /\ i' = 0
    /\ UNCHANGED <<events, queue, received, dropped, long, fails>>

\* flush: the first records over the limit are removed, the rest is copied.
Flush ==
    LET over == IF Len(queue) > MaxBuffer THEN Len(queue) - MaxBuffer ELSE 0
        rest == SubSeq(queue, over + 1, Len(queue))
    IN
    /\ phase = "idle" /\ queue # <<>>
    /\ queue' = rest /\ copy' = rest
    /\ dropped' = dropped \cup ToSet(SubSeq(queue, 1, over))
    /\ phase' = "post" /\ i' = 0
    /\ long' = (long \/ Len(rest) >= 2 * BatchSize)
    /\ UNCHANGED <<events, received, fails>>

n == Len(copy) \div BatchSize
delta == Len(copy) % BatchSize

\* copy.subList(from, to) of the i-th batch.  For a full batch `to` is the
\* batch size and not from + batchSize.
From == i * BatchSize
To == IF i < n THEN BatchSize ELSE From + delta
Batch == SubSeq(copy, From + 1, To)

HasBatch == i < n \/ (i = n /\ delta # 0)

\* The endpoint answers 200.
PostOk ==
    /\ phase = "post" /\ HasBatch /\ From <= To
    /\ received' = received \o Batch
    /\ phase' = "clear"
    /\ UNCHANGED <<events, queue, copy, i, dropped, long, fails>>

\* The mutant of flush that goes on with the next batch after a failure.
PostFailsGoesOn ==
    /\ phase = "post" /\ HasBatch /\ From <= To
    /\ fails < MaxFail
    /\ fails' = fails + 1
    /\ i' = i + 1
    /\ UNCHANGED <<events, queue, phase, copy, received, dropped, long>>

\* The mutant of flush whose exception ends the timer's schedule.
PostFailsUncaught ==
    /\ phase = "post" /\ HasBatch /\ From <= To
    /\ fails < MaxFail
    /\ fails' = fails + 1
    /\ phase' = "stopped"
    /\ UNCHANGED <<events, queue, copy, i, received, dropped, long>>

\* Another answer, or a broken connection after the endpoint has accepted the
\* batch: the exception ends the flush.
PostFails ==
    /\ phase = "post" /\ HasBatch /\ From <= To
    /\ fails < MaxFail
    /\ fails' = fails + 1
    /\ received' \in {received, received \o Batch}
    /\ phase' = "idle" /\ copy' = <<>>
    /\ UNCHANGED <<events, queue, i, dropped, long>>

\* subList throws: from > to.
SubListThrows ==
    /\ phase = "post" /\ HasBatch /\ From > To
    /\ phase' = "idle" /\ copy' = <<>>
    /\ UNCHANGED <<events, queue, i, received, dropped, long, fails>>

\* The mutant of sendBatch that empties the queue.
ClearAll ==
    /\ phase = "clear"
    /\ queue' = <<>>
    /\ phase' = "post" /\ i' = i + 1
    /\ UNCHANGED <<events, copy, received, dropped, long, fails>>

\* The mutant of sendBatch that removes one record too few.
ClearOneLess ==
    /\ phase = "clear"
    /\ queue' = SubSeq(queue, Len(Batch), Len(queue))
    /\ phase' = "post" /\ i' = i + 1
    /\ UNCHANGED <<events, copy, received, dropped, long, fails>>

\* sendBatch after the post: removes the first records of the queue.
Clear ==
    /\ phase = "clear"
    /\ queue' = SubSeq(queue, Len(Batch) + 1, Len(queue))
    /\ phase' = "post" /\ i' = i + 1
    /\ UNCHANGED <<events, copy, received, dropped, long, fails>>

FlushEnds ==
    /\ phase = "post" /\ ~HasBatch
    /\ phase' = "idle" /\ copy' = <<>>
    /\ UNCHANGED <<events, queue, i, received, dropped, long, fails>>
------------------------------------------------------------------------------
Timer == Flush \/ PostOk \/ SubListThrows \/ Clear \/ FlushEnds

Next == onEvent \/ Timer \/ PostFails

Spec == Init /\ [][Next]_vars

\* The timer fires and a post that does not fail succeeds.
FairSpec == Spec /\ WF_vars(Timer)
------------------------------------------------------------------------------
(* Safety. *)

\* Every event is in the queue, has been accepted by the endpoint or was
\* dropped by the queue size limit ("Sends events batch to endpoint and clear
\* endpoint queue if sending successful").
Lossless == 1 .. events \subseteq ToSet(queue) \cup ToSet(received) \cup dropped

\* That is so, whatever is added between the copy of the queue and the removal
\* of a batch from its head, and whichever post fails, as long as no flush has
\* two full batches.
LosslessIfShort == ~long => Lossless

\* Events then reach the endpoint in the order they were added: when one is
\* accepted, all earlier ones have been accepted or dropped.
InOrderIfShort ==
    ~long => \A k \in DOMAIN received :
        1 .. received[k] - 1 \subseteq ToSet(SubSeq(received, 1, k)) \cup dropped

\* The endpoint then sees an event twice only after a post has failed.
NoRepeatIfShort ==
    ~long /\ fails = 0 =>
        \A j, k \in DOMAIN received : received[j] = received[k] => j = k

(* Liveness. *)

\* Every event eventually leaves the queue although the endpoint may fail for
\* a while and a flush may end with an exception: the schedule goes on.
Drains == \A e \in Event : e \in ToSet(queue) ~> e \notin ToSet(queue)
==============================================================================
