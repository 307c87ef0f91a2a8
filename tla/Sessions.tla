------------------------------ MODULE Sessions ------------------------------
(***************************************************************************)
(* The sessions of one user in NCUserManager: the cache of sessions by     *)
(* access token and the cache of the user's tokens, the operations of the  *)
(* REST API on them, and the scanner that ends idle sessions.              *)
(*                                                                         *)
(* Sign-in, sign-out, password reset and scanner run in Ignite             *)
(* transactions with the defaults of Ignite: pessimistic, repeatable read, *)
(* no timeout.  Such a transaction locks a key when it reads or writes it, *)
(* keeps its locks until it commits, and writes when it commits.  The two  *)
(* read-and-write-back operations run outside of transactions: their reads *)
(* wait for nobody, their writes for the lock of the key.                  *)
(*                                                                         *)
(* Users share no keys and one user is modelled; the scanner's transaction *)
(* is about all of them, so a wait of another user's may hold it up in the *)
(* code, which the model leaves out.  A scan of the caches takes no locks. *)
(***************************************************************************)
EXTENDS Integers, FiniteSets

CONSTANTS
    Tok,      \* access tokens, each issued once
    Client,   \* bound: requests at a time
    Scanner,  \* the timer's thread
    Id,       \* the key of the user in idSigninCache
    Free,     \* nobody
    Expire    \* accessTokenExpireTimeoutMins, in ticks

Proc == Client \cup {Scanner}
Key == Tok \cup {Id}

SessionsAssumption ==
    /\ Scanner \notin Client
    /\ Id \notin Tok
    /\ Free \notin Proc
    /\ Expire \in Nat \ {0}

ASSUME SessionsAssumption

VARIABLES
    tokenSigninCache,  \* the sessions: lastAccessMs as an age, for each token
    idSigninCache,     \* the tokens of the user
    issued,            \* tokens issued so far
    first,             \* (history) the token the list was created for
    lock,              \* who has locked each key
    op,                \* what each process is doing
    stray              \* (history) tokens that were written back after their
                       \* session had ended, or whose list has expired

vars == <<tokenSigninCache, idSigninCache, issued, first, lock, op, stray>>

Session == DOMAIN tokenSigninCache
Age == 0 .. Expire
Older(age) == IF age < Expire THEN age + 1 ELSE age

\* An operation: what it is, the step it is at, the tokens it removes, and
\* the age of the session it has read.
Op == [kind : {"none", "access", "endpoint", "signout", "reset", "scan"},
       toks : SUBSET Tok, age : Age]
None == [kind |-> "none", toks |-> {}, age |-> 0]

Holds(p, k) == lock[k] = p
Unlocked(k) == lock[k] = Free

Begin(p, kind, toks, age) ==
    op' = [op EXCEPT ![p] = [kind |-> kind, toks |-> toks, age |-> age]]

Init ==
    /\ tokenSigninCache = [t \in {} |-> 0]
    /\ idSigninCache = {}
    /\ issued = {} /\ first = {}
    /\ lock = [k \in Key |-> Free]
    /\ op = [p \in Proc |-> None]
    /\ stray = {}
------------------------------------------------------------------------------
\* The mutant that replaces the list of tokens.
ListedReplaced(t) == {t}

Listed(t) == idSigninCache \cup {t}

\* signin: the new key cannot be contended, so all happens when the list is
\* free.
signin(t) ==
    /\ t \notin issued
    /\ Unlocked(Id)
    /\ issued' = issued \cup {t}
    /\ tokenSigninCache' = [s \in Session \cup {t} |-> IF s = t THEN 0 ELSE tokenSigninCache[s]]
    /\ idSigninCache' = Listed(t)
    /\ first' = IF idSigninCache = {} THEN {t} ELSE first
    /\ UNCHANGED <<lock, op, stray>>

\* getUserIdForAccessToken and updateEndpoints: the session is read ...
Read(p, kind, t) ==
    /\ op[p].kind = "none"
    /\ t \in Session
    /\ Begin(p, kind, {t}, tokenSigninCache[t])
    /\ UNCHANGED <<tokenSigninCache, idSigninCache, issued, first, lock, stray>>

\* ... and written back, with the time of this access or of the one read.
WriteBack(p, t) ==
    /\ op[p].kind \in {"access", "endpoint"}
    /\ op[p].toks = {t}
    /\ Unlocked(t)
    /\ tokenSigninCache' =
         [s \in Session \cup {t} |->
            IF s # t THEN tokenSigninCache[s]
            ELSE IF op[p].kind = "access" THEN 0 ELSE op[p].age]
    /\ stray' = IF t \in Session THEN stray ELSE stray \cup {t}
    /\ op' = [op EXCEPT ![p] = None]
    /\ UNCHANGED <<idSigninCache, issued, first, lock>>

\* signout: the session is removed and its token locked, if there is one.
signout(p, t) ==
    /\ op[p].kind = "none"
    /\ t \in Session
    /\ Unlocked(t)
    /\ lock' = [lock EXCEPT ![t] = p]
    /\ Begin(p, "signout", {t}, 0)
    /\ UNCHANGED <<tokenSigninCache, idSigninCache, issued, first, stray>>

\* The mutant that reads the list of tokens without locking it.
LockListNot(p) == UNCHANGED lock

LockList(p) == lock' = [lock EXCEPT ![Id] = p]

\* resetPassword: the list is locked and read.
resetPassword(p) ==
    /\ op[p].kind = "none"
    /\ idSigninCache # {}
    /\ Unlocked(Id)
    /\ LockList(p)
    /\ Begin(p, "reset", idSigninCache, 0)
    /\ UNCHANGED <<tokenSigninCache, idSigninCache, issued, first, stray>>

\* The mutant that goes through the list of the user.
IdleListed == {t \in Session \cap idSigninCache : tokenSigninCache[t] = Expire}

Idle == {t \in Session : tokenSigninCache[t] = Expire}

\* The scanner reads all sessions and takes those that have been idle.
Scan ==
    /\ op[Scanner].kind = "none"
    /\ Idle # {}
    /\ Begin(Scanner, "scan", Idle, 0)
    /\ UNCHANGED <<tokenSigninCache, idSigninCache, issued, first, lock, stray>>

\* The locks a transaction may ask for next.  The scanner locks the list
\* after the first session it removes, a sign-out after its only one.
NextKeys(p) ==
    CASE op[p].kind = "signout" -> IF Holds(p, Id) THEN {} ELSE {Id}
      [] op[p].kind = "reset" -> {t \in op[p].toks : ~Holds(p, t)}
      [] op[p].kind = "scan" ->
            IF Holds(p, Id) \/ \A t \in op[p].toks : ~Holds(p, t)
            THEN {t \in op[p].toks : ~Holds(p, t)} ELSE {Id}
      [] OTHER -> {}

Lock(p, k) ==
    /\ k \in NextKeys(p)
    /\ Unlocked(k)
    /\ lock' = [lock EXCEPT ![k] = p]
    /\ UNCHANGED <<tokenSigninCache, idSigninCache, issued, first, op, stray>>

\* The mutant of clearSigninCache that never runs.
RemainingAll(p) == IF op[p].kind = "reset" THEN {} ELSE idSigninCache

\* What clearSigninCache leaves of the list; a reset removes it.
Remaining(p) == IF op[p].kind = "reset" THEN {} ELSE idSigninCache \ op[p].toks

Transactional(p) == op[p].kind \in {"signout", "reset", "scan"}

\* The mutant that keeps the list locked.
ReleasedTokens(p) == {t \in Tok : Holds(p, t)}

Released(p) == {k \in Key : Holds(p, k)}

\* The transaction writes and releases its locks.
Commit(p) ==
    /\ Transactional(p) /\ NextKeys(p) = {}
    /\ tokenSigninCache' = [t \in Session \ op[p].toks |-> tokenSigninCache[t]]
    /\ idSigninCache' = Remaining(p)
    /\ lock' = [k \in Key |-> IF k \in Released(p) THEN Free ELSE lock[k]]
    /\ op' = [op EXCEPT ![p] = None]
    /\ UNCHANGED <<issued, first, stray>>

\* The caches drop entries a day after they were created, used or not.  The list
\* is created after the session it is created for, and before all others on it.
ListExpires ==
    /\ idSigninCache # {}
    /\ Unlocked(Id)
    /\ idSigninCache' = {}
    /\ stray' = stray \cup idSigninCache
    /\ UNCHANGED <<tokenSigninCache, issued, first, lock, op>>

SessionExpires(t) ==
    /\ t \in Session /\ (t \in idSigninCache => t \in first \ stray)
    /\ Unlocked(t)
    /\ tokenSigninCache' = [s \in Session \ {t} |-> tokenSigninCache[s]]
    /\ UNCHANGED <<idSigninCache, issued, first, lock, op, stray>>

\* The clock.
Elapse ==
    /\ tokenSigninCache' = [t \in Session |-> Older(tokenSigninCache[t])]
    /\ op' = [p \in Proc |-> IF op[p].kind = "endpoint" THEN [op[p] EXCEPT !.age = Older(@)]
                             ELSE op[p]]
    /\ UNCHANGED <<idSigninCache, issued, first, lock, stray>>

Finish(p) ==
    \/ \E t \in Tok : WriteBack(p, t)
    \/ \E k \in Key : Lock(p, k)
    \/ Commit(p)

Request(p) ==
    \/ \E t \in Tok : Read(p, "access", t) \/ Read(p, "endpoint", t) \/ signout(p, t)
    \/ resetPassword(p)

Next ==
    \/ \E t \in Tok : signin(t) \/ SessionExpires(t)
    \/ \E p \in Client : Request(p)
    \/ \E p \in Proc : Finish(p)
    \/ Scan
    \/ ListExpires
    \/ Elapse

Spec == Init /\ [][Next]_vars

\* What was begun goes on: locks are granted in the order they are asked for,
\* so nobody waits for a key that is released again and again.  The timer
\* fires again, and time passes.
FairSpec ==
    /\ Spec
    /\ \A p \in Proc : SF_vars(Finish(p))
    /\ WF_vars(Scan)
    /\ WF_vars(Elapse)
------------------------------------------------------------------------------
(* Properties. *)

\* Types, and that only transactions that run have locks.
TypeOK ==
    /\ issued \subseteq Tok
    /\ Session \subseteq issued
    /\ \A t \in Session : tokenSigninCache[t] \in Age
    /\ idSigninCache \subseteq issued /\ first \subseteq issued
    /\ stray \subseteq issued
    /\ lock \in [Key -> Proc \cup {Free}]
    /\ op \in [Proc -> Op]
    /\ \A k \in Key : ~Unlocked(k) => Transactional(lock[k])

\* Every token on the user's list is a session, whatever commits in whichever
\* order (signin 360-365, signout 244-246, clearSigninCache 608-618, the scanner
\* 128-133), but the one the list was created for, which may expire just before
\* the list does.  (That is about the caches: getUserEndpoints reads the list
\* and the sessions one after the other and may find a session gone.)
ListedAreSessions == idSigninCache \ Session \subseteq first

\* Every session is on the user's list, so that a password reset ends it and
\* its endpoints are notified, but for the two ways out: a request in flight
\* wrote the session back after it had ended, or the list expired first.
SessionsAreListed == Session \subseteq idSigninCache \cup stray

\* A password reset ends every session but the strays: no sign-in comes between
\* reading the list and removing its sessions (resetPassword 498-507).  A stray
\* was on the list once; it is off it since it was written back after its end,
\* or since the list expired, and lives on.
ResetEndsSessions ==
    [][\A p \in Client : op[p].kind = "reset" /\ op'[p].kind = "none" => Session' \subseteq stray]_vars

\* "After this call given access token is no longer valid for authentication"
\* (the description of /signout): once a token that is being signed out is no
\* session, it never is again.
SigningOut(t) == \E p \in Client : op[p].kind = "signout" /\ op[p].toks = {t}

SignOutIsFinal ==
    \A t \in Tok : [](SigningOut(t) => [](t \notin Session => [](t \notin Session)))

Waits(p, q) == \E k \in NextKeys(p) : Holds(q, k)

\* A password reset locks the list and then sessions; sign-outs and the
\* scanner lock sessions and then the list.
Deadlocked == \E p, q \in Proc : p # q /\ Waits(p, q) /\ Waits(q, p)

\* "Access tokens inactive for N min will be invalidated" (the message at
\* NCUserManager 164), unless two transactions wait for each other.
IdleSessionsEnd ==
    \A t \in Tok :
        (t \in Session /\ tokenSigninCache[t] = Expire) ~>
            (t \notin Session \/ tokenSigninCache[t] < Expire \/ Deadlocked)
=============================================================================
