-------------------------- MODULE Sessions_proofs --------------------------
(***************************************************************************)
(* What holds of the sessions of a user for any number of tokens, requests *)
(* at a time and any timeout.  The argument: who holds the lock of the     *)
(* list is the only one to change it, so a password reset still has the    *)
(* list it read when it commits; and a sign-out or the scanner commits     *)
(* only while it holds that lock.                                          *)
(***************************************************************************)
EXTENDS Sessions, TLAPS

\* What a password reset has read is still the list.
ResetHasTheList ==
    \A p \in Proc : op[p].kind = "reset" => Holds(p, Id) /\ op[p].toks = idSigninCache

\* Operations are about tokens that were issued, and a scan about some.
OpsAreOnIssued ==
    \A p \in Proc : /\ op[p].toks \subseteq issued
                    /\ op[p].kind = "scan" => op[p].toks # {}

IInv == TypeOK /\ ResetHasTheList /\ OpsAreOnIssued /\ ListedAreSessions /\ SessionsAreListed
------------------------------------------------------------------------------
LEMMA InitIInv == Init => IInv
<1> USE SessionsAssumption DEF SessionsAssumption
<1> SUFFICES ASSUME Init PROVE IInv
  OBVIOUS
<1>1. Session = {} /\ None \in Op
  BY DEF Init, None, Op, Age, Session
<1>2. TypeOK
  BY <1>1 DEF Init, TypeOK, Unlocked
<1>3. ResetHasTheList /\ OpsAreOnIssued
  BY DEF Init, ResetHasTheList, OpsAreOnIssued, None
<1>4. ListedAreSessions /\ SessionsAreListed
  BY <1>1 DEF Init, ListedAreSessions, SessionsAreListed
<1> QED BY <1>2, <1>3, <1>4 DEF IInv

\* An operation begins with its fields in range, and ends.
LEMMA BeginType ==
    ASSUME op \in [Proc -> Op], NEW p \in Proc,
           NEW kind \in {"access", "endpoint", "signout", "reset", "scan"},
           NEW toks \in SUBSET Tok, NEW age \in Age, Begin(p, kind, toks, age)
    PROVE  /\ op' \in [Proc -> Op]
           /\ op'[p].kind = kind /\ op'[p].toks = toks
           /\ \A q \in Proc : q # p => op'[q] = op[q]
BY DEF Begin, Op

LEMMA EndType ==
    ASSUME op \in [Proc -> Op], NEW p \in Proc, op' = [op EXCEPT ![p] = None], Expire \in Nat
    PROVE  /\ op' \in [Proc -> Op]
           /\ op'[p].kind = "none" /\ op'[p].toks = {}
           /\ \A q \in Proc : q # p => op'[q] = op[q]
<1>1. None \in Op
  BY DEF None, Op, Age
<1> QED
  BY <1>1 DEF None

LEMMA SigninInv ==
    ASSUME IInv, NEW t \in Tok, signin(t)
    PROVE  IInv'
<1> USE SessionsAssumption DEF SessionsAssumption
<1>1. Session' = Session \cup {t}
  BY DEF signin, Session
<1>2. \A s \in Session' : tokenSigninCache'[s] \in Age
  BY <1>1 DEF IInv, TypeOK, signin, Session, Age
<1>3. TypeOK'
  BY <1>1, <1>2 DEF IInv, TypeOK, signin, Listed, Unlocked, Transactional
<1>4. ResetHasTheList' /\ OpsAreOnIssued'
  BY DEF IInv, ResetHasTheList, OpsAreOnIssued, signin, Holds, Unlocked
<1>5. ListedAreSessions' /\ SessionsAreListed'
  BY <1>1 DEF IInv, ListedAreSessions, SessionsAreListed, signin, Listed
<1> QED BY <1>3, <1>4, <1>5 DEF IInv

LEMMA ReadInv ==
    ASSUME IInv, NEW p \in Proc, NEW kind \in {"access", "endpoint"}, NEW t \in Tok,
           Read(p, kind, t)
    PROVE  IInv'
<1> USE SessionsAssumption DEF SessionsAssumption
<1>1. tokenSigninCache[t] \in Age /\ Session' = Session /\ t \in issued
  BY DEF IInv, TypeOK, Read, Session
<1>2. /\ op' \in [Proc -> Op]
      /\ op'[p].kind = kind /\ op'[p].toks = {t}
      /\ \A q \in Proc : q # p => op'[q] = op[q]
  <2>1. op \in [Proc -> Op] /\ Begin(p, kind, {t}, tokenSigninCache[t])
    BY DEF Read, IInv, TypeOK
  <2>2. /\ kind \in {"access", "endpoint", "signout", "reset", "scan"}
        /\ {t} \in SUBSET Tok
    OBVIOUS
  <2> QED BY <2>1, <2>2, <1>1, BeginType
<1>3. \A q \in Proc : Transactional(q) => Transactional(q)'
  BY <1>2 DEF Read, Transactional
<1>4. TypeOK'
  BY <1>1, <1>2, <1>3 DEF IInv, TypeOK, Read, Unlocked, Key
<1>5. ResetHasTheList' /\ OpsAreOnIssued'
  BY <1>1, <1>2 DEF IInv, ResetHasTheList, OpsAreOnIssued, Read, Holds
<1>6. ListedAreSessions' /\ SessionsAreListed'
  BY <1>1 DEF IInv, ListedAreSessions, SessionsAreListed, Read
<1> QED BY <1>4, <1>5, <1>6 DEF IInv

LEMMA WriteBackInv ==
    ASSUME IInv, NEW p \in Proc, NEW t \in Tok, WriteBack(p, t)
    PROVE  IInv'
<1> USE SessionsAssumption DEF SessionsAssumption
<1>1. /\ op' \in [Proc -> Op]
      /\ op'[p].kind = "none" /\ op'[p].toks = {}
      /\ \A q \in Proc : q # p => op'[q] = op[q]
  BY EndType DEF IInv, TypeOK, WriteBack
<1>2. Session' = Session \cup {t} /\ t \in issued
  BY DEF WriteBack, Session, IInv, OpsAreOnIssued
<1>3. \A s \in Session' : tokenSigninCache'[s] \in Age
  BY <1>2 DEF IInv, TypeOK, WriteBack, Session, Age, Op
<1>4. \A q \in Proc : Transactional(q) => Transactional(q)'
  BY <1>1 DEF WriteBack, Transactional
<1>5. TypeOK'
  BY <1>1, <1>2, <1>3, <1>4 DEF IInv, TypeOK, WriteBack, Unlocked, Key
<1>6. ResetHasTheList' /\ OpsAreOnIssued'
  BY <1>1 DEF IInv, ResetHasTheList, OpsAreOnIssued, WriteBack, Holds
<1>7. ListedAreSessions' /\ SessionsAreListed'
  BY <1>2 DEF IInv, ListedAreSessions, SessionsAreListed, WriteBack
<1> QED BY <1>5, <1>6, <1>7 DEF IInv

LEMMA SignoutInv ==
    ASSUME IInv, NEW p \in Proc, NEW t \in Tok, signout(p, t)
    PROVE  IInv'
<1> USE SessionsAssumption DEF SessionsAssumption
<1>1. Session' = Session /\ t \in issued /\ t \in Key /\ t # Id
  BY DEF IInv, TypeOK, signout, Session, Key
<1>2. /\ op' \in [Proc -> Op]
      /\ op'[p].kind = "signout" /\ op'[p].toks = {t}
      /\ \A q \in Proc : q # p => op'[q] = op[q]
  <2>1. op \in [Proc -> Op] /\ Begin(p, "signout", {t}, 0) /\ 0 \in Age /\ {t} \in SUBSET Tok
    BY DEF signout, IInv, TypeOK, Age
  <2> QED BY <2>1, BeginType
<1>3. \A q \in Proc : Transactional(q) => Transactional(q)'
  BY <1>2 DEF signout, Transactional
<1>4. Transactional(p)'
  BY <1>2 DEF Transactional
<1>5. TypeOK'
  BY <1>1, <1>2, <1>3, <1>4 DEF IInv, TypeOK, signout, Unlocked, Session
<1>6. ResetHasTheList' /\ OpsAreOnIssued'
  BY <1>1, <1>2 DEF IInv, TypeOK, ResetHasTheList, OpsAreOnIssued, signout, Holds
<1>7. ListedAreSessions' /\ SessionsAreListed'
  BY <1>1 DEF IInv, ListedAreSessions, SessionsAreListed, signout
<1> QED BY <1>5, <1>6, <1>7 DEF IInv

LEMMA ResetPasswordInv ==
    ASSUME IInv, NEW p \in Proc, resetPassword(p)
    PROVE  IInv'
<1> USE SessionsAssumption DEF SessionsAssumption
<1>1. Session' = Session /\ Id \in Key
  BY DEF resetPassword, Session, Key
<1>2. /\ op' \in [Proc -> Op]
      /\ op'[p].kind = "reset" /\ op'[p].toks = idSigninCache
      /\ \A q \in Proc : q # p => op'[q] = op[q]
  <2>1. /\ op \in [Proc -> Op] /\ Begin(p, "reset", idSigninCache, 0)
        /\ 0 \in Age /\ idSigninCache \in SUBSET Tok
    BY DEF resetPassword, IInv, TypeOK, Age
  <2> QED BY <2>1, BeginType
<1>3. \A q \in Proc : Transactional(q) => Transactional(q)'
  BY <1>2 DEF resetPassword, Transactional
<1>4. Transactional(p)'
  BY <1>2 DEF Transactional
<1>5. TypeOK'
  BY <1>1, <1>2, <1>3, <1>4 DEF IInv, TypeOK, resetPassword, LockList, Unlocked, Session
<1>6. ResetHasTheList' /\ OpsAreOnIssued'
  BY <1>1, <1>2 DEF IInv, TypeOK, ResetHasTheList, OpsAreOnIssued, resetPassword, LockList, Holds,
     Unlocked
<1>7. ListedAreSessions' /\ SessionsAreListed'
  BY <1>1 DEF IInv, ListedAreSessions, SessionsAreListed, resetPassword
<1> QED BY <1>5, <1>6, <1>7 DEF IInv

LEMMA ScanInv ==
    ASSUME IInv, Scan
    PROVE  IInv'
<1> USE SessionsAssumption DEF SessionsAssumption
<1>1. Session' = Session /\ Idle \subseteq issued /\ Scanner \in Proc
  BY DEF IInv, TypeOK, Scan, Session, Idle, Proc
<1>2. /\ op' \in [Proc -> Op]
      /\ op'[Scanner].kind = "scan" /\ op'[Scanner].toks = Idle
      /\ \A q \in Proc : q # Scanner => op'[q] = op[q]
  <2>1. /\ op \in [Proc -> Op] /\ Begin(Scanner, "scan", Idle, 0)
        /\ 0 \in Age /\ Idle \in SUBSET Tok
    BY <1>1 DEF Scan, IInv, TypeOK, Age
  <2> QED BY <2>1, <1>1, BeginType
<1>3. \A q \in Proc : Transactional(q) => Transactional(q)'
  BY <1>2 DEF Scan, Transactional
<1>4. TypeOK'
  BY <1>1, <1>2, <1>3 DEF IInv, TypeOK, Scan, Unlocked, Key, Session
<1>5. ResetHasTheList' /\ OpsAreOnIssued'
  BY <1>1, <1>2 DEF IInv, ResetHasTheList, OpsAreOnIssued, Scan, Holds
<1>6. ListedAreSessions' /\ SessionsAreListed'
  BY <1>1 DEF IInv, ListedAreSessions, SessionsAreListed, Scan
<1> QED BY <1>4, <1>5, <1>6 DEF IInv

LEMMA LockInv ==
    ASSUME IInv, NEW p \in Proc, NEW k \in Key, Lock(p, k)
    PROVE  IInv'
<1> USE SessionsAssumption DEF SessionsAssumption
<1>1. Session' = Session
  BY DEF Lock, Session
<1>2. Transactional(p)
  BY DEF Lock, NextKeys, Transactional
<1>3. TypeOK'
  BY <1>1, <1>2 DEF IInv, TypeOK, Lock, Unlocked, Session, Transactional
<1>4. ResetHasTheList' /\ OpsAreOnIssued'
  BY DEF IInv, TypeOK, ResetHasTheList, OpsAreOnIssued, Lock, Holds, Unlocked, Key
<1>5. ListedAreSessions' /\ SessionsAreListed'
  BY <1>1 DEF IInv, ListedAreSessions, SessionsAreListed, Lock
<1> QED BY <1>3, <1>4, <1>5 DEF IInv

\* A transaction that may commit holds the lock of the list.
LEMMA CommitHoldsList ==
    ASSUME IInv, NEW p \in Proc, Transactional(p), NextKeys(p) = {}
    PROVE  Holds(p, Id)
<1>1. CASE op[p].kind = "signout"
  BY <1>1 DEF NextKeys
<1>2. CASE op[p].kind = "reset"
  BY <1>2 DEF IInv, ResetHasTheList
<1>3. CASE op[p].kind = "scan"
  BY <1>3 DEF NextKeys, IInv, OpsAreOnIssued
<1> QED BY <1>1, <1>2, <1>3 DEF Transactional

LEMMA CommitInv ==
    ASSUME IInv, NEW p \in Proc, Commit(p)
    PROVE  IInv'
<1> USE SessionsAssumption DEF SessionsAssumption
<1>1. Holds(p, Id)
  BY CommitHoldsList DEF Commit
<1>2. Session' = Session \ op[p].toks
  BY DEF Commit, Session
<1>3. /\ op' \in [Proc -> Op]
      /\ op'[p].kind = "none" /\ op'[p].toks = {}
      /\ \A q \in Proc : q # p => op'[q] = op[q]
  BY EndType DEF IInv, TypeOK, Commit
<1>4. \A s \in Session' : tokenSigninCache'[s] \in Age
  BY <1>2 DEF IInv, TypeOK, Commit, Session
<1>5. lock' \in [Key -> Proc \cup {Free}]
  BY DEF IInv, TypeOK, Commit
<1>6. \A k \in Key : lock'[k] # Free => lock'[k] = lock[k] /\ lock[k] # p
  BY DEF Commit, Released, Holds
<1>7. \A k \in Key : ~Unlocked(k)' => Transactional(lock[k])' /\ lock'[k] = lock[k]
  BY <1>3, <1>6 DEF IInv, TypeOK, Transactional, Unlocked, Commit
<1>8. TypeOK'
  BY <1>2, <1>3, <1>4, <1>5, <1>7 DEF IInv, TypeOK, Commit, Remaining
<1>9. ResetHasTheList' /\ OpsAreOnIssued'
  BY <1>1, <1>3 DEF IInv, ResetHasTheList, OpsAreOnIssued, Commit, Holds
<1>10. ListedAreSessions' /\ SessionsAreListed'
  BY <1>2 DEF IInv, ListedAreSessions, SessionsAreListed, ResetHasTheList, Commit, Remaining
<1> QED BY <1>8, <1>9, <1>10 DEF IInv

LEMMA ListExpiresInv ==
    ASSUME IInv, ListExpires
    PROVE  IInv'
<1> USE SessionsAssumption DEF SessionsAssumption
<1>1. Session' = Session
  BY DEF ListExpires, Session
<1>2. TypeOK'
  BY <1>1 DEF IInv, TypeOK, ListExpires, Unlocked, Transactional
<1>3. ResetHasTheList' /\ OpsAreOnIssued'
  BY DEF IInv, ResetHasTheList, OpsAreOnIssued, ListExpires, Holds, Unlocked
<1>4. ListedAreSessions' /\ SessionsAreListed'
  BY <1>1 DEF IInv, ListedAreSessions, SessionsAreListed, ListExpires
<1> QED BY <1>2, <1>3, <1>4 DEF IInv

LEMMA SessionExpiresInv ==
    ASSUME IInv, NEW t \in Tok, SessionExpires(t)
    PROVE  IInv'
<1>1. Session' = Session \ {t} /\ (t \in idSigninCache => t \in first)
  BY DEF SessionExpires, Session
<1>2. \A s \in Session' : tokenSigninCache'[s] \in Age
  BY <1>1 DEF IInv, TypeOK, SessionExpires, Session
<1>3. TypeOK'
  BY <1>1, <1>2 DEF IInv, TypeOK, SessionExpires, Unlocked, Transactional
<1>4. ResetHasTheList' /\ OpsAreOnIssued'
  BY DEF IInv, ResetHasTheList, OpsAreOnIssued, SessionExpires, Holds
<1>5. ListedAreSessions' /\ SessionsAreListed'
  BY <1>1 DEF IInv, ListedAreSessions, SessionsAreListed, SessionExpires
<1> QED BY <1>3, <1>4, <1>5 DEF IInv

LEMMA ElapseInv ==
    ASSUME IInv, Elapse
    PROVE  IInv'
<1> USE SessionsAssumption DEF SessionsAssumption
<1>1. Session' = Session
  BY DEF Elapse, Session
<1>2. \A a \in Age : Older(a) \in Age
  BY DEF Older, Age
<1>3. \A s \in Session' : tokenSigninCache'[s] \in Age
  BY <1>1, <1>2 DEF IInv, TypeOK, Elapse, Session
<1>4. \A q \in Proc : /\ op'[q].kind = op[q].kind /\ op'[q].toks = op[q].toks
                      /\ op'[q] \in Op
  BY <1>2 DEF IInv, TypeOK, Elapse, Op
<1>5. op' \in [Proc -> Op]
  BY <1>4 DEF Elapse
<1>6. TypeOK'
  BY <1>1, <1>3, <1>4, <1>5 DEF IInv, TypeOK, Elapse, Unlocked, Transactional
<1>7. ResetHasTheList' /\ OpsAreOnIssued'
  BY <1>4 DEF IInv, ResetHasTheList, OpsAreOnIssued, Elapse, Holds
<1>8. ListedAreSessions' /\ SessionsAreListed'
  BY <1>1 DEF IInv, ListedAreSessions, SessionsAreListed, Elapse
<1> QED BY <1>6, <1>7, <1>8 DEF IInv

LEMMA NextIInv == IInv /\ [Next]_vars => IInv'
<1> SUFFICES ASSUME IInv, [Next]_vars PROVE IInv'
  OBVIOUS
<1>1. CASE \E t \in Tok : signin(t) \/ SessionExpires(t)
  BY <1>1, SigninInv, SessionExpiresInv
<1>2. CASE \E p \in Client : Request(p)
  <2>1. PICK p \in Client : Request(p)
    BY <1>2
  <2>2. p \in Proc /\ "access" \in {"access", "endpoint"} /\ "endpoint" \in {"access", "endpoint"}
    BY DEF Proc
  <2> QED BY <2>1, <2>2, ReadInv, SignoutInv, ResetPasswordInv DEF Request
<1>3. CASE \E p \in Proc : Finish(p)
  BY <1>3, WriteBackInv, LockInv, CommitInv DEF Finish
<1>4. CASE Scan
  BY <1>4, ScanInv
<1>5. CASE ListExpires
  BY <1>5, ListExpiresInv
<1>6. CASE Elapse
  BY <1>6, ElapseInv
<1>7. CASE UNCHANGED vars
  BY <1>7 DEF vars, IInv, TypeOK, ResetHasTheList, OpsAreOnIssued, ListedAreSessions,
     SessionsAreListed, Session, Unlocked, Transactional, Holds
<1> QED BY <1>1, <1>2, <1>3, <1>4, <1>5, <1>6, <1>7 DEF Next

THEOREM Inductive == Spec => []IInv
<1> QED BY InitIInv, NextIInv, PTL DEF Spec

\* Values keep their types, and only a transaction that runs holds locks:
\* sign-out, password reset and the scanner release what they have locked.
THEOREM TypeCorrect == Spec => []TypeOK
<1>1. IInv => TypeOK
  BY DEF IInv
<1> QED BY <1>1, Inductive, PTL

\* The list of a user's tokens never names a session that has ended, but for
\* the one it was created for, which may expire just before it
\* (clearSigninCache 608-618 and the transactions that call it).
THEOREM ListNamesSessions == Spec => []ListedAreSessions
<1>1. IInv => ListedAreSessions
  BY DEF IInv
<1> QED BY <1>1, Inductive, PTL

\* A session that is not on the list was written back after it had ended, or
\* has outlived the list.
THEOREM SessionsFound == Spec => []SessionsAreListed
<1>1. IInv => SessionsAreListed
  BY DEF IInv
<1> QED BY <1>1, Inductive, PTL

\* A password reset ends every session but the strays: no sign-in comes
\* between reading the list and removing its sessions (resetPassword 498-507).
THEOREM ResetIsThorough == Spec => ResetEndsSessions
<1> DEFINE A == \A p \in Client : op[p].kind = "reset" /\ op'[p].kind = "none" => Session' \subseteq stray
<1>1. IInv /\ [Next]_vars => [A]_vars
  <2> SUFFICES ASSUME IInv, Next, NEW p \in Client, op[p].kind = "reset", op'[p].kind = "none"
               PROVE  Session' \subseteq stray
    OBVIOUS
  <2>1. p \in Proc /\ op \in [Proc -> Op]
    BY DEF Proc, IInv, TypeOK
  <2>2. Commit(p)
    <3>1. ~ \E t \in Tok : signin(t) \/ SessionExpires(t)
      BY DEF signin, SessionExpires
    <3>2. ~ \E q \in Client : Request(q)
      BY <2>1 DEF Request, Read, signout, resetPassword, Begin, Proc
    <3>3. ~ Scan /\ ~ ListExpires
      BY <2>1 DEF Scan, ListExpires, Begin
    <3>4. ~ Elapse
      BY <2>1 DEF Elapse, Op
    <3>5. PICK q \in Proc : Finish(q)
      BY <3>1, <3>2, <3>3, <3>4 DEF Next
    <3>6. ~ \E t \in Tok : WriteBack(q, t)
      BY <2>1 DEF WriteBack, None
    <3>7. ~ \E k \in Key : Lock(q, k)
      BY DEF Lock
    <3>8. Commit(q)
      BY <3>5, <3>6, <3>7 DEF Finish
    <3>9. q = p
      BY <2>1, <3>8 DEF Commit, None
    <3> QED BY <3>8, <3>9
  <2>3. Session' = Session \ idSigninCache
    BY <2>1, <2>2 DEF Commit, Session, IInv, ResetHasTheList
  <2> QED BY <2>3 DEF IInv, SessionsAreListed
<1> QED BY <1>1, Inductive, PTL DEF Spec, ResetEndsSessions
============================================================================
