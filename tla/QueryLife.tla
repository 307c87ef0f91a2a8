------------------------------ MODULE QueryLife ------------------------------
(***************************************************************************)
(* What the query manager promises the clients of the REST API about a     *)
(* query, whatever threads, probes and messages do: it is enlisted once,   *)
(* becomes ready with an outcome, maybe again with another one, and is     *)
(* never enlisted again; endpoints are told each state in which it became  *)
(* ready and no other; and when it is gone it comes back only as an answer *)
(* that was being given while it was still there.                          *)
(***************************************************************************)
CONSTANTS Req, Writer

VARIABLES
    life,    \* the state of a query as check() shows it
    giving,  \* who is about to answer the query
    told     \* states handed to the endpoints

vars == <<life, giving, told>>

\* A query's state: its status and the outcomes it has.
Is(status) == [status |-> status, result |-> FALSE, error |-> FALSE]
Answers == {a \in [status : {"QRY_READY"}, result : BOOLEAN, error : BOOLEAN] :
              a.result \/ a.error}

Listed(r) == life[r].status \in {"QRY_ENLISTED", "QRY_READY"}

Init ==
    /\ life = [r \in Req |-> Is("new")]
    /\ giving = [r \in Req |-> {}]
    /\ told = [r \in Req |-> {}]

Enlist(r) ==
    /\ life[r] = Is("new")
    /\ life' = [life EXCEPT ![r] = Is("QRY_ENLISTED")]
    /\ UNCHANGED <<giving, told>>

\* Somebody sees the query and is going to answer it ...
Take(r, w) ==
    /\ Listed(r)
    /\ w \notin giving[r]
    /\ giving' = [giving EXCEPT ![r] = @ \cup {w}]
    /\ UNCHANGED <<life, told>>

\* ... and answers it, though it may be gone by now.
Answer(r, w, a) ==
    /\ w \in giving[r]
    /\ giving' = [giving EXCEPT ![r] = @ \ {w}]
    /\ life' = [life EXCEPT ![r] = a]
    /\ told' = [told EXCEPT ![r] = @ \cup {a}]

\* It is cancelled or expires.
Go(r) ==
    /\ Listed(r)
    /\ life' = [life EXCEPT ![r] = Is("gone")]
    /\ UNCHANGED <<giving, told>>

Next ==
    \E r \in Req :
        \/ Enlist(r) \/ Go(r)
        \/ \E w \in Writer : Take(r, w) \/ \E a \in Answers : Answer(r, w, a)

Spec == Init /\ [][Next]_vars
==============================================================================
