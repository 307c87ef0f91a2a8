--------------------------- MODULE ProbeLink_proofs ---------------------------
(***************************************************************************)
(* Proofs about ProbeLink, for every set of probe processes, assignment of *)
(* IDs and number of connection attempts, with and without slow handlers.  *)
(***************************************************************************)
EXTENDS ProbeLink, FiniteSetTheorems, TLAPS

------------------------------------------------------------------------------
(* Type correctness. *)

LEMMA InitTypeOK == Init => TypeOK
BY ConnAssumption DEF Init, TypeOK, Conn, Sock, Holder, PendingHolder, NoHolder, UpStage, DnStage, TaskStage

LEMMA SocketsInSock ==
    ASSUME NEW p \in Probe, NEW k \in Conn
    PROVE  Sockets(p, k) \subseteq Sock
BY DEF Sockets, Sock

LEMMA InterruptType ==
    ASSUME TypeOK, NEW s \in Sock, NEW h
    PROVE  Interrupt(s, h) \in [Sock -> TaskStage]
BY DEF TypeOK, Interrupt, TaskStage

\* TypeOK is not inductive: a step that closes the sockets of the current
\* attempt needs to know that there is one, and a handler that registers a
\* holder needs to know that it has taken one.
Attempting ==
    \A p \in Probe : pc[p] \in {"upwait", "dnwait", "live"} => cur[p] # 0
Taken ==
    \A p \in Probe, k \in Conn : dn[<<p, k>>] = "put" => hand[<<p, k>>] # 0

TypeInv == TypeOK /\ Attempting /\ Taken

\* The probe's steps.
LEMMA ProbeTypeOK ==
    ASSUME TypeInv, NEW p \in Probe, ProbeStep(p) \/ HandshakeTimesOut(p) \/ Killed(p)
    PROVE  TypeInv'
<1> USE ConnAssumption DEF TypeInv, Taken
<1>0. cur[p] # 0 => Sockets(p, cur[p]) \subseteq Sock
  BY SocketsInSock DEF TypeOK, Conn
<1>1. CASE OpenUplink(p)
  BY <1>1 DEF OpenUplink, TypeOK, Attempting, Conn, UpStage, server
<1>2. CASE OpenDownlink(p)
  BY <1>2 DEF OpenDownlink, TypeOK, Attempting, DnStage, server
<1>3. CASE Established(p)
  BY <1>3 DEF Established, TypeOK, Attempting, server
<1>4. ASSUME Retry(p), cur[p] # 0 PROVE TypeInv'
  BY <1>0, <1>4 DEF Retry, TypeOK, Attempting, server
<1>5. CASE HandshakeFails(p)
  BY <1>4, <1>5 DEF HandshakeFails, Attempting
<1>6. CASE ConnectionLost(p)
  BY <1>4, <1>6 DEF ConnectionLost, Attempting
<1>7. CASE Exit(p)
  BY <1>7 DEF Exit, TypeOK, Attempting, server
<1>8. CASE HandshakeTimesOut(p)
  <2>1. <<p, cur[p], "up">> \in Sock
    BY <1>8 DEF HandshakeTimesOut, TypeOK, Attempting, Sock, Conn
  <2> QED
    BY <1>8, <2>1 DEF HandshakeTimesOut, TypeOK, Attempting, server
<1> QED
  BY <1>1, <1>2, <1>3, <1>5, <1>6, <1>7, <1>8 DEF ProbeStep, Killed, HandshakeRefused

\* The steps of the handshake handlers.
LEMMA HandlerTypeOK ==
    ASSUME TypeInv, NEW p \in Probe, NEW k \in Conn, HandlerStep(p, k) \/ HandlerDropped(p, k)
    PROVE  TypeInv'
<1> USE ConnAssumption DEF TypeInv, Attempting, Taken
<1>1. CASE UplinkCheck(p, k)
  BY <1>1 DEF UplinkCheck, TypeOK, UpStage, server
<1>2. CASE UplinkRegister(p, k)
  BY <1>2 DEF UplinkRegister, TypeOK, UpStage, Conn
<1>3. CASE DownlinkTake(p, k)
  BY <1>3 DEF DownlinkTake, TypeOK, DnStage, Conn
<1>4. CASE DownlinkRegister(p, k)
  <2>1. /\ [up |-> hand[<<p, k>>], dn |-> k] \in Holder
        /\ <<p, k, "dn">> \in Sock
    BY <1>4 DEF DownlinkRegister, TypeOK, Conn, Holder, Sock
  <2>2. dn' \in [Probe \X Conn -> DnStage] /\ task' \in [Sock -> TaskStage]
    BY <1>4, <2>1 DEF DownlinkRegister, TypeOK, DnStage, TaskStage
  <2>3. TypeOK'
    BY <1>4, <2>1, <2>2 DEF DownlinkRegister, TypeOK
  <2>4. Attempting'
    BY <1>4 DEF DownlinkRegister
  <2>5. dn'[<<p, k>>] # "put"
    BY <1>4 DEF DownlinkRegister, TypeOK
  <2>6. \A q \in Probe, j \in Conn : <<q, j>> # <<p, k>> =>
           dn'[<<q, j>>] = dn[<<q, j>>] /\ hand'[<<q, j>>] = hand[<<q, j>>]
    BY <1>4 DEF DownlinkRegister, TypeOK
  <2>7. Taken'
    BY <2>5, <2>6
  <2> QED
    BY <2>3, <2>4, <2>7
<1>5. CASE HandlerDropped(p, k)
  <2>1. TypeOK'
    BY <1>5 DEF HandlerDropped, TypeOK, UpStage, DnStage, server
  <2>2. Attempting' /\ Taken'
    BY <1>5 DEF HandlerDropped, TypeOK, server
  <2> QED
    BY <2>1, <2>2
<1> QED
  BY <1>1, <1>2, <1>3, <1>4, <1>5 DEF HandlerStep

\* The steps of readers, writers and closeAndRemoveHolder.
LEMMA TaskTypeOK ==
    ASSUME TypeInv, NEW s \in Sock, TaskStep(s)
    PROVE  TypeInv'
<1> USE ConnAssumption DEF TypeInv, Attempting, Taken
<1>0. s[1] \in Probe
  BY DEF Sock
<1>1. CASE Sent(s)
  BY <1>1 DEF Sent, TypeOK, TaskStage, link
<1>2. CASE LinkFails(s)
  BY <1>2 DEF LinkFails, TypeOK, TaskStage, link
<1>3. CASE RemovePending(s)
  <2>1. pending[s[1]] # 0 => [up |-> pending[s[1]], dn |-> 0] \in PendingHolder
    BY <1>0 DEF TypeOK, Conn, PendingHolder
  <2>2. pending' \in [Probe -> 0 .. MaxConn] /\ task' \in [Sock -> TaskStage]
    BY <1>0, <1>3 DEF RemovePending, TypeOK, TaskStage
  <2>3. held' \in [Sock -> Holder \cup PendingHolder \cup {NoHolder}]
    BY <1>3, <2>1 DEF RemovePending, TypeOK
  <2>4. TypeOK' /\ Attempting' /\ Taken'
    BY <1>3, <2>2, <2>3 DEF RemovePending, TypeOK, link
  <2> QED
    BY <2>4
<1>4. CASE RemoveActive(s)
  <2>1. task' \in [Sock -> TaskStage]
    BY <1>4, InterruptType DEF RemoveActive, TypeOK, TaskStage, Idle
  <2>2. /\ probes' \in [Probe -> Holder \cup {NoHolder}]
        /\ held' \in [Sock -> Holder \cup PendingHolder \cup {NoHolder}]
    BY <1>0, <1>4 DEF RemoveActive, TypeOK
  <2> QED
    BY <1>4, <2>1, <2>2 DEF RemoveActive, TypeOK, link
<1>5. CASE CloseHolder(s)
  <2>1. held' \in [Sock -> Holder \cup PendingHolder \cup {NoHolder}] /\ closed' \subseteq Sock
    BY <1>5 DEF CloseHolder, TypeOK
  <2>2. task' \in [Sock -> TaskStage]
    BY <1>5 DEF CloseHolder, TypeOK, TaskStage, Idle
  <2> QED
    BY <1>5, <2>1, <2>2 DEF CloseHolder, TypeOK, link
<1> QED
  BY <1>1, <1>2, <1>3, <1>4, <1>5 DEF TaskStep

LEMMA NextTypeOK == TypeInv /\ [Next]_vars => TypeInv'
<1> SUFFICES ASSUME TypeInv, [Next]_vars PROVE TypeInv'
  OBVIOUS
<1> USE DEF TypeInv, Attempting, Taken
<1>1. CASE UNCHANGED vars
  BY <1>1 DEF TypeOK, vars
<1>2. ASSUME NEW p \in Probe, Send(p) PROVE TypeInv'
  BY <1>2 DEF Send, TypeOK, TaskStage, link
<1>3. ASSUME NEW p \in Probe, NEW k \in {"up", "dn"}, Break(p, k) PROVE TypeInv'
  <2>1. <<p, cur[p], k>> \in Sock
    BY <1>3, ConnAssumption DEF Break, TypeOK, Conn, Sock
  <2> QED
    BY <1>3, <2>1 DEF Break, TypeOK, server
<1> QED
  BY <1>1, <1>2, <1>3, ProbeTypeOK, HandlerTypeOK, TaskTypeOK DEF Next

LEMMA TypeInvariant == Spec => []TypeInv
<1>1. Init => TypeInv
  BY InitTypeOK DEF TypeInv, Attempting, Taken, Init
<1> QED
  BY <1>1, NextTypeOK, PTL DEF Spec

\* The maps, the sockets and the threads always have values of their types.
THEOREM TypeCorrect == Spec => []TypeOK
<1>1. TypeInv => TypeOK
  BY DEF TypeInv
<1> QED
  BY <1>1, TypeInvariant, PTL

------------------------------------------------------------------------------
(* A registered probe is read. *)

LEMMA RegisteredSocket ==
    ASSUME TypeOK, NEW p \in Probe, probes[p] # NoHolder
    PROVE  /\ probes[p].dn \in Conn
           /\ <<p, probes[p].dn, "dn">> \in Sock
BY DEF TypeOK, Holder, Sock

\* A step leaves the property alone if it registers nobody, opens no socket
\* and keeps the readers of the probes that stay registered.
LEMMA ReadersKept ==
    ASSUME TypeOK, RegisteredIsRead, closed \subseteq closed',
           \A p \in Probe : probes'[p] # NoHolder =>
               /\ probes'[p] = probes[p]
               /\ LET s == <<p, probes[p].dn, "dn">> IN
                  task[s] = "run" => task'[s] = "run" \/ s \in closed
    PROVE  RegisteredIsRead'
BY DEF RegisteredIsRead

LEMMA NextRegisteredIsRead ==
    TypeInv /\ RegisteredIsRead /\ [Next]_vars => RegisteredIsRead'
<1> SUFFICES ASSUME TypeInv, RegisteredIsRead, [Next]_vars PROVE RegisteredIsRead'
  OBVIOUS
<1>t. TypeOK
  BY DEF TypeInv
<1>1. CASE UNCHANGED vars
  BY <1>1, <1>t, ReadersKept DEF vars
<1>2. ASSUME NEW p \in Probe, ProbeStep(p) \/ HandshakeTimesOut(p) \/ Killed(p) PROVE RegisteredIsRead'
  <2>1. UNCHANGED server /\ closed \subseteq closed'
    BY <1>2 DEF ProbeStep, Killed, OpenUplink, OpenDownlink, Established, HandshakeFails,
                ConnectionLost, HandshakeTimesOut, HandshakeRefused, Retry, Exit
  <2> QED
    BY <2>1, <1>t, ReadersKept DEF server
<1>3. ASSUME NEW p \in Probe, NEW k \in {"up", "dn"}, Break(p, k) PROVE RegisteredIsRead'
  BY <1>3, <1>t, ReadersKept DEF Break, server
<1>4. ASSUME NEW p \in Probe, Send(p) PROVE RegisteredIsRead'
  BY <1>4, <1>t, ReadersKept DEF Send, TypeOK
<1>5. ASSUME NEW p \in Probe, NEW k \in Conn,
             UplinkCheck(p, k) \/ UplinkRegister(p, k) \/ DownlinkTake(p, k)
               \/ HandlerDropped(p, k)
      PROVE  RegisteredIsRead'
  <2>1. UNCHANGED <<probes, task, closed>>
    BY <1>5 DEF UplinkCheck, UplinkRegister, DownlinkTake, HandlerDropped, server
  <2> QED
    BY <2>1, <1>t, ReadersKept
<1>6. ASSUME NEW p \in Probe, NEW k \in Conn, DownlinkRegister(p, k)
      PROVE  RegisteredIsRead'
  <2> SUFFICES ASSUME NEW q \in Probe, probes'[q] # NoHolder
               PROVE  LET s == <<q, probes'[q].dn, "dn">> IN
                      task'[s] = "run" \/ s \in closed'
    BY DEF RegisteredIsRead
  <2>0. <<p, k, "dn">> \in Sock
    BY DEF Sock
  <2>1. CASE q = p
    <3>1. probes'[q].dn = k
      BY <1>6, <2>1, <1>t DEF DownlinkRegister, TypeOK
    <3>2. task'[<<p, k, "dn">>] = "run" \/ <<p, k, "dn">> \in closed'
      BY <1>6, <2>0, <1>t DEF DownlinkRegister, TypeOK
    <3> QED
      BY <2>1, <3>1, <3>2
  <2>2. CASE q # p
    <3>1. probes'[q] = probes[q] /\ closed' = closed
      BY <1>6, <2>2, <1>t DEF DownlinkRegister, TypeOK
    <3>2. task'[<<q, probes[q].dn, "dn">>] = task[<<q, probes[q].dn, "dn">>]
      BY <1>6, <2>2, <1>t, <3>1, RegisteredSocket DEF DownlinkRegister, TypeOK
    <3> QED
      BY <3>1, <3>2 DEF RegisteredIsRead
  <2> QED
    BY <2>1, <2>2
<1>7. ASSUME NEW s \in Sock, Sent(s) \/ RemovePending(s) \/ CloseHolder(s) \/ LinkFails(s)
      PROVE  RegisteredIsRead'
  <2>1. probes' = probes /\ closed \subseteq closed'
    BY <1>7 DEF Sent, RemovePending, CloseHolder, LinkFails
  <2>2. \A x \in Sock : task[x] = "run" /\ x[3] = "dn" => task'[x] = "run" \/ x \in closed
    BY <1>7, <1>t DEF Sent, RemovePending, CloseHolder, LinkFails, TypeOK
  <2> QED
    BY <2>1, <2>2, <1>t, ReadersKept, RegisteredSocket
<1>8. ASSUME NEW s \in Sock, RemoveActive(s) PROVE RegisteredIsRead'
  <2>0. s[1] \in Probe
    BY DEF Sock
  <2>1. CASE probes[s[1]] = NoHolder
    <3>1. /\ UNCHANGED <<probes, closed>>
          /\ \A x \in Sock : task[x] = "run" => task'[x] = "run"
      BY <1>8, <2>1, <1>t DEF RemoveActive, TypeOK
    <3> QED
      BY <3>1, <1>t, ReadersKept, RegisteredSocket
  <2>2. CASE probes[s[1]] # NoHolder
    <3>1. closed' = closed /\ probes' = [probes EXCEPT ![s[1]] = NoHolder]
          /\ task' = Interrupt(s, probes[s[1]]) /\ task[s] = "act"
      BY <1>8, <2>2 DEF RemoveActive
    <3>2. \A x \in Sock : task[x] = "run" /\ x[1] # s[1] => task'[x] = "run"
      BY <3>1, <1>t DEF Interrupt, TypeOK
    <3> QED
      BY <2>0, <3>1, <3>2, <1>t, ReadersKept, RegisteredSocket DEF TypeOK
  <2> QED
    BY <2>1, <2>2
<1> QED
  BY <1>1, <1>2, <1>3, <1>4, <1>5, <1>6, <1>7, <1>8 DEF Next, HandlerStep, TaskStep

\* The server never lists a probe whose open downlink nobody reads.
THEOREM RegisteredProbesAreRead == Spec => []RegisteredIsRead
<1>1. Init => RegisteredIsRead
  BY DEF Init, RegisteredIsRead
<1> QED
  BY <1>1, TypeInvariant, NextRegisteredIsRead, PTL DEF Spec

------------------------------------------------------------------------------
(* A probe is not its own duplicate. *)

\* A downlink that has not been opened has no handler.
Fresh ==
    /\ \A p \in Probe, k \in Conn : k > cur[p] => dn[<<p, k>>] = "idle"
    /\ \A p \in Probe : pc[p] = "upwait" => dn[<<p, cur[p]>>] = "idle"

\* Whoever is registered has completed a handshake.
Completed ==
    \A p \in Probe : probes[p] # NoHolder =>
        dn[<<p, probes[p].dn>>] \in {"ok", "failed"}

DuplicateInv == TypeInv /\ Fresh /\ Completed /\ NotItsOwnDuplicate

\* The outcome of a downlink handshake does not change, and only the probe
\* starts one.
DnSettled ==
    \A x \in Probe \X Conn : dn[x] \in {"ok", "failed"} => dn'[x] = dn[x]
DnUnopened ==
    \A x \in Probe \X Conn : dn[x] = "idle" => dn'[x] = "idle"

LEMMA ProbeFresh ==
    ASSUME TypeInv, Fresh, NEW p \in Probe, ProbeStep(p) \/ HandshakeTimesOut(p) \/ Killed(p)
    PROVE  Fresh' /\ DnSettled
<1> USE ConnAssumption
<1>t. TypeOK /\ (pc[p] = "upwait" => cur[p] \in Conn)
  BY DEF TypeInv, TypeOK, Attempting, Conn
<1>1. CASE OpenUplink(p)
  <2>1. dn' = dn /\ cur' = [cur EXCEPT ![p] = cur[p] + 1] /\ pc' = [pc EXCEPT ![p] = "upwait"]
        /\ cur[p] + 1 \in Conn
    BY <1>1, <1>t DEF OpenUplink, TypeOK, Conn
  <2>2. DnSettled
    BY <2>1 DEF DnSettled
  <2>3. \A q \in Probe, k \in Conn : k > cur'[q] => k > cur[q]
    BY <2>1, <1>t DEF TypeOK, Conn
  <2>4. \A q \in Probe : pc'[q] = "upwait" => dn'[<<q, cur'[q]>>] = "idle"
    BY <2>1, <1>t DEF TypeOK, Conn, Fresh
  <2> QED
    BY <2>1, <2>2, <2>3, <2>4 DEF Fresh
<1>2. CASE OpenDownlink(p)
  <2>1. /\ dn' = [dn EXCEPT ![<<p, cur[p]>>] = "hs"] /\ cur' = cur
        /\ pc' = [pc EXCEPT ![p] = "dnwait"]
        /\ dn[<<p, cur[p]>>] = "idle" /\ cur[p] \in Conn
    BY <1>2, <1>t DEF OpenDownlink, Fresh
  <2>2. \A x \in Probe \X Conn : x # <<p, cur[p]>> => dn'[x] = dn[x]
    BY <2>1, <1>t DEF TypeOK
  <2>3. DnSettled
    BY <2>1, <2>2 DEF DnSettled
  <2>4. \A q \in Probe, k \in Conn : k > cur'[q] => dn'[<<q, k>>] = "idle"
    BY <2>1, <2>2, <1>t DEF Fresh, TypeOK, Conn
  <2>5. \A q \in Probe : pc'[q] = "upwait" => q # p /\ cur[q] \in Conn
    BY <2>1, <1>t DEF TypeInv, TypeOK, Attempting, Conn
  <2>6. \A q \in Probe : pc'[q] = "upwait" => dn'[<<q, cur'[q]>>] = "idle"
    BY <2>1, <2>2, <2>5, <1>t DEF Fresh, TypeOK
  <2> QED
    BY <2>3, <2>4, <2>6 DEF Fresh
<1>3. CASE \/ Established(p) \/ HandshakeFails(p) \/ HandshakeTimesOut(p)
           \/ ConnectionLost(p) \/ Exit(p)
  <2>1. /\ dn' = dn /\ cur' = cur
        /\ \E v \in {"live", "connect", "dead"} : pc' = [pc EXCEPT ![p] = v]
    BY <1>3 DEF Established, HandshakeFails, HandshakeTimesOut, ConnectionLost, Retry, Exit
  <2>2. \A q \in Probe : pc'[q] = "upwait" => pc[q] = "upwait"
    BY <2>1, <1>t DEF TypeOK
  <2> QED
    BY <2>1, <2>2 DEF Fresh, DnSettled
<1> QED
  BY <1>1, <1>2, <1>3 DEF ProbeStep, Killed, HandshakeRefused

LEMMA ServerFresh ==
    ASSUME TypeOK, Attempting, Fresh, UNCHANGED <<pc, cur>>, DnUnopened
    PROVE  Fresh'
<1>1. \A q \in Probe : pc[q] = "upwait" => <<q, cur[q]>> \in Probe \X Conn
  BY ConnAssumption DEF TypeOK, Attempting, Conn
<1> QED
  BY <1>1 DEF Fresh, DnUnopened

LEMMA HandlerDn ==
    ASSUME TypeOK, NEW p \in Probe, NEW k \in Conn, HandlerStep(p, k) \/ HandlerDropped(p, k)
    PROVE  UNCHANGED <<pc, cur>> /\ DnSettled /\ DnUnopened
BY DEF HandlerStep, HandlerDropped, UplinkCheck, UplinkRegister, DownlinkTake,
       DownlinkRegister, TypeOK, DnSettled, DnUnopened

\* Steps that register nobody keep Completed.
LEMMA CompletedKept ==
    ASSUME TypeOK, Completed, DnSettled,
           \A p \in Probe : probes'[p] # NoHolder => probes'[p] = probes[p]
    PROVE  Completed'
BY RegisteredSocket DEF Completed, DnSettled

\* Steps that turn nobody away as a duplicate keep NotItsOwnDuplicate.
LEMMA DuplicatesKept ==
    ASSUME NotItsOwnDuplicate, DnSettled,
           \A p \in Probe, k \in Conn : up'[<<p, k>>] = "multiple" => up[<<p, k>>] = "multiple"
    PROVE  NotItsOwnDuplicate'
BY DEF NotItsOwnDuplicate, DnSettled

\* If more than one holder is registered for p's ID, one is not p's.
LEMMA AnotherRegistered ==
    ASSUME NEW p \in Probe, isMultipleProbeRegistrations(p)
    PROVE  \E q \in Probe \ {p} : IdOf[q] = IdOf[p] /\ probes[q] # NoHolder
<1> DEFINE S == {q \in Probe : IdOf[q] = IdOf[p] /\ probes[q] # NoHolder}
<1>1. Cardinality(S) > 1
  BY DEF isMultipleProbeRegistrations
<1>2. ASSUME S \subseteq {p} PROVE FALSE
  <2>1. Cardinality({p}) = 1 /\ IsFiniteSet({p})
    BY FS_Singleton
  <2>2. Cardinality(S) <= 1 /\ IsFiniteSet(S)
    BY <1>2, <2>1, FS_Subset
  <2>3. Cardinality(S) \in Nat
    BY <2>2, FS_CardinalityType
  <2> QED
    BY <1>1, <2>2, <2>3
<1> QED
  BY <1>2

LEMMA NextDuplicateInv == DuplicateInv /\ [Next]_vars => DuplicateInv'
<1> SUFFICES ASSUME DuplicateInv, [Next]_vars PROVE (Fresh /\ Completed /\ NotItsOwnDuplicate)'
  BY NextTypeOK DEF DuplicateInv
<1>t. TypeOK /\ Attempting /\ Fresh /\ Completed /\ NotItsOwnDuplicate
  BY DEF DuplicateInv, TypeInv
<1>1. ASSUME UNCHANGED <<pc, cur, up, dn>>,
             \A p \in Probe : probes'[p] # NoHolder => probes'[p] = probes[p]
      PROVE  (Fresh /\ Completed /\ NotItsOwnDuplicate)'
  <2>1. DnSettled /\ DnUnopened
    BY <1>1 DEF DnSettled, DnUnopened
  <2> QED
    BY <1>1, <1>t, <2>1, ServerFresh, CompletedKept, DuplicatesKept
<1>2. CASE UNCHANGED vars
  BY <1>1, <1>2 DEF vars
<1>3. ASSUME NEW p \in Probe, ProbeStep(p) \/ HandshakeTimesOut(p) \/ Killed(p)
      PROVE  (Fresh /\ Completed /\ NotItsOwnDuplicate)'
  <2>1. Fresh' /\ DnSettled
    BY <1>3, ProbeFresh DEF DuplicateInv
  <2>2. UNCHANGED probes
    BY <1>3 DEF ProbeStep, Killed, OpenUplink, OpenDownlink, Established, HandshakeFails,
                ConnectionLost, HandshakeTimesOut, HandshakeRefused, Retry, Exit, server
  <2>3. up' = up \/ up' = [up EXCEPT ![<<p, cur[p] + 1>>] = "hs"]
    BY <1>3 DEF ProbeStep, Killed, OpenUplink, OpenDownlink, Established, HandshakeFails,
                ConnectionLost, HandshakeTimesOut, HandshakeRefused, Retry, Exit
  <2>4. \A q \in Probe, k \in Conn : up'[<<q, k>>] = "multiple" => up[<<q, k>>] = "multiple"
    BY <2>3, <1>t DEF TypeOK
  <2> QED
    BY <2>1, <2>2, <2>4, <1>t, CompletedKept, DuplicatesKept
<1>4. ASSUME NEW p \in Probe, Send(p) PROVE (Fresh /\ Completed /\ NotItsOwnDuplicate)'
  BY <1>1, <1>4 DEF Send, link
<1>5. ASSUME NEW p \in Probe, NEW k \in {"up", "dn"}, Break(p, k)
      PROVE  (Fresh /\ Completed /\ NotItsOwnDuplicate)'
  BY <1>1, <1>5 DEF Break, server
<1>6. ASSUME NEW s \in Sock, TaskStep(s) PROVE (Fresh /\ Completed /\ NotItsOwnDuplicate)'
  <2>1. UNCHANGED <<pc, cur, up, dn>>
    BY <1>6 DEF TaskStep, Sent, LinkFails, RemovePending, RemoveActive, CloseHolder, link
  <2>2. probes' = probes \/ probes' = [probes EXCEPT ![s[1]] = NoHolder]
    BY <1>6 DEF TaskStep, Sent, LinkFails, RemovePending, RemoveActive, CloseHolder
  <2>3. \A p \in Probe : probes'[p] # NoHolder => probes'[p] = probes[p]
    BY <2>2, <1>t DEF TypeOK
  <2> QED
    BY <1>1, <2>1, <2>3
<1>7. ASSUME NEW p \in Probe, NEW k \in Conn, HandlerStep(p, k) \/ HandlerDropped(p, k)
      PROVE  (Fresh /\ Completed /\ NotItsOwnDuplicate)'
  <2>1. Fresh' /\ DnSettled
    BY <1>7, <1>t, HandlerDn, ServerFresh
  <2>2. CASE UplinkCheck(p, k) /\ isMultipleProbeRegistrations(p)
    <3>1. PICK q \in Probe \ {p} : IdOf[q] = IdOf[p] /\ probes[q] # NoHolder
      BY <2>2, AnotherRegistered
    <3>2. dn' = dn /\ probes' = probes /\ up' = [up EXCEPT ![<<p, k>>] = "multiple"]
      BY <2>2 DEF UplinkCheck, server
    <3>3. probes[q].dn \in Conn /\ dn[<<q, probes[q].dn>>] \in {"ok", "failed"}
      BY <3>1, <1>t, RegisteredSocket DEF Completed
    <3>4. NotItsOwnDuplicate'
      <4> SUFFICES ASSUME NEW r \in Probe, NEW j \in Conn, up'[<<r, j>>] = "multiple"
                   PROVE  \E o \in Probe \ {r} :
                            IdOf[o] = IdOf[r] /\ \E e \in Conn : dn'[<<o, e>>] \in {"ok", "failed"}
        BY DEF NotItsOwnDuplicate
      <4>1. CASE r = p
        BY <4>1, <3>1, <3>2, <3>3
      <4>2. CASE r # p
        <5>1. up[<<r, j>>] = "multiple"
          BY <4>2, <3>2, <1>t DEF TypeOK
        <5> QED
          BY <5>1, <3>2, <1>t DEF NotItsOwnDuplicate
      <4> QED
        BY <4>1, <4>2
    <3> QED
      BY <2>1, <3>2, <3>4, <1>t, CompletedKept
  <2>3. CASE ~(UplinkCheck(p, k) /\ isMultipleProbeRegistrations(p))
    <3>1. \A q \in Probe, j \in Conn : up'[<<q, j>>] = "multiple" => up[<<q, j>>] = "multiple"
      BY <1>7, <2>3, <1>t DEF HandlerStep, HandlerDropped, UplinkCheck, UplinkRegister,
                              DownlinkTake, DownlinkRegister, TypeOK
    <3>2. CASE DownlinkRegister(p, k)
      <4>1. /\ dn'[<<p, k>>] \in {"ok", "failed"}
            /\ \A q \in Probe : IF q = p THEN probes'[q].dn = k ELSE probes'[q] = probes[q]
        BY <3>2, <1>t DEF DownlinkRegister, TypeOK
      <4> QED
        BY <2>1, <3>1, <4>1, <1>t, DuplicatesKept, RegisteredSocket DEF Completed, DnSettled
    <3>3. CASE ~DownlinkRegister(p, k)
      <4>1. probes' = probes
        BY <1>7, <3>3 DEF HandlerStep, HandlerDropped, UplinkCheck, UplinkRegister,
                          DownlinkTake, server
      <4> QED
        BY <2>1, <3>1, <4>1, <1>t, DuplicatesKept, CompletedKept
    <3> QED
      BY <3>2, <3>3
  <2> QED
    BY <2>2, <2>3
<1> QED
  BY <1>2, <1>3, <1>4, <1>5, <1>6, <1>7 DEF Next

LEMMA DuplicateInvariant == Spec => []DuplicateInv
<1>1. Init => DuplicateInv
  <2>1. Init => TypeInv
    BY InitTypeOK DEF TypeInv, Attempting, Taken, Init
  <2>2. Init => Fresh /\ Completed /\ NotItsOwnDuplicate
    BY DEF Init, Fresh, Completed, NotItsOwnDuplicate
  <2> QED
    BY <2>1, <2>2 DEF DuplicateInv
<1> QED
  BY <1>1, NextDuplicateInv, PTL DEF Spec

\* A probe is turned away as a duplicate only because of another process: one
\* that reconnects is never refused on account of its own old connection.
THEOREM NoProbeIsItsOwnDuplicate == Spec => []NotItsOwnDuplicate
<1>1. DuplicateInv => NotItsOwnDuplicate
  BY DEF DuplicateInv
<1> QED
  BY <1>1, DuplicateInvariant, PTL

------------------------------------------------------------------------------
(* A connected probe is registered, if no handler outlives its attempt. *)

\* The server works on the current attempt of a probe only.
HandlersAreCurrent ==
    \A p \in Probe, k \in Conn :
        up[<<p, k>>] \in {"hs", "reg"} \/ dn[<<p, k>>] \in {"hs", "put"} => k = cur[p]

\* A downlink is opened when the uplink is accepted.
UplinkFirst ==
    \A p \in Probe, k \in Conn : dn[<<p, k>>] = "hs" => up[<<p, k>>] = "ok"

\* Once the uplink of the current attempt is accepted, no other is pending.
PendingIsCurrent ==
    \A p \in Probe, k \in Conn :
        k = cur[p] /\ up[<<p, k>>] = "ok" => pending[p] \in {0, k}

\* A downlink handler has taken the uplink of its own attempt.
OwnUplink ==
    \A p \in Probe, k \in Conn : dn[<<p, k>>] = "put" => hand[<<p, k>>] = k

HandshakeInv == HandlersAreCurrent /\ UplinkFirst /\ PendingIsCurrent /\ OwnUplink

\* A task that has removed a holder is closing it.
Closing == \A s \in Sock : held[s] # NoHolder => task[s] = "close"

\* A reader starts when the handshake of its downlink completes.
Unread ==
    \A p \in Probe, k \in Conn : dn[<<p, k>>] # "ok" => task[<<p, k, "dn">>] = "none"

\* A probe believes it is connected when both handshakes have completed.
LiveIsAccepted == \A p \in Probe : pc[p] = "live" => dn[<<p, cur[p]>>] = "ok"

\* An attempt whose handshakes have completed, while its sockets are open, is
\* registered or being closed.
AcceptedIsRegistered ==
    \A p \in Probe, k \in Conn :
        k = cur[p] /\ dn[<<p, k>>] = "ok" /\ Sockets(p, k) \cap closed = {} =>
            LET h == [up |-> k, dn |-> k] IN
            probes[p] = h \/ \E s \in Sock : s[1] = p /\ held[s] = h

LEMMA HandshakeStep ==
    ASSUME ~SlowHandlers, TypeInv, HandshakeInv, [Next]_vars
    PROVE  HandshakeInv'
<1>t. TypeOK
  BY DEF TypeInv
<1> USE DEF HandshakeInv
<1>1. ASSUME UNCHANGED <<cur, up, dn, hand>>, \A p \in Probe : pending'[p] \in {0, pending[p]}
      PROVE  HandshakeInv'
  BY <1>1 DEF HandlersAreCurrent, UplinkFirst, PendingIsCurrent, OwnUplink
<1>2. CASE UNCHANGED vars
  BY <1>1, <1>2 DEF vars
<1>3. ASSUME NEW p \in Probe, ProbeStep(p) \/ HandshakeTimesOut(p) \/ Killed(p)
      PROVE  HandshakeInv'
  <2>1. CASE OpenUplink(p)
    <3>1. /\ UNCHANGED <<dn, hand, pending>> /\ HandlersDone(p)
          /\ cur' = [cur EXCEPT ![p] = @ + 1] /\ up' = [up EXCEPT ![<<p, cur[p] + 1>>] = "hs"]
          /\ cur[p] + 1 \in Conn
      BY <2>1, <1>t, ConnAssumption DEF OpenUplink, server, TypeOK, Conn
    <3>2. \A q \in Probe, k \in Conn :
             IF q = p /\ k = cur[p] + 1 THEN up'[<<q, k>>] = "hs" ELSE up'[<<q, k>>] = up[<<q, k>>]
      BY <3>1, <1>t DEF TypeOK
    <3>3. \A q \in Probe : IF q = p THEN cur'[q] = cur[p] + 1 ELSE cur'[q] = cur[q]
      BY <3>1, <1>t DEF TypeOK
    <3> QED
      BY <3>1, <3>2, <3>3 DEF HandlersDone, HandlersAreCurrent, UplinkFirst, PendingIsCurrent, OwnUplink
  <2>2. CASE OpenDownlink(p)
    <3>1. /\ UNCHANGED <<cur, up, hand, pending>> /\ up[<<p, cur[p]>>] = "ok"
          /\ dn' = [dn EXCEPT ![<<p, cur[p]>>] = "hs"]
      BY <2>2 DEF OpenDownlink, server
    <3>2. \A q \in Probe, k \in Conn :
             dn'[<<q, k>>] = dn[<<q, k>>] \/ (q = p /\ k = cur[p] /\ dn'[<<q, k>>] = "hs")
      BY <3>1, <1>t DEF TypeOK
    <3> QED
      BY <3>1, <3>2 DEF HandlersAreCurrent, UplinkFirst, PendingIsCurrent, OwnUplink
  <2>3. CASE ~OpenUplink(p) /\ ~OpenDownlink(p)
    <3>1. UNCHANGED <<cur, up, dn, hand, pending>>
      BY <1>3, <2>3 DEF ProbeStep, Killed, Established, HandshakeFails, ConnectionLost,
                        HandshakeTimesOut, HandshakeRefused, Retry, Exit, server
    <3> QED
      BY <1>1, <3>1
  <2> QED
    BY <2>1, <2>2, <2>3
<1>4. ASSUME NEW p \in Probe, Send(p) PROVE HandshakeInv'
  BY <1>1, <1>4 DEF Send, link
<1>5. ASSUME NEW p \in Probe, NEW k \in {"up", "dn"}, Break(p, k) PROVE HandshakeInv'
  BY <1>1, <1>5 DEF Break, server
<1>6. ASSUME NEW s \in Sock, TaskStep(s) PROVE HandshakeInv'
  <2>1. UNCHANGED <<cur, up, dn, hand>>
    BY <1>6 DEF TaskStep, Sent, LinkFails, RemovePending, RemoveActive, CloseHolder, link
  <2>2. pending' = pending \/ pending' = [pending EXCEPT ![s[1]] = 0]
    BY <1>6 DEF TaskStep, Sent, LinkFails, RemovePending, RemoveActive, CloseHolder
  <2>3. \A p \in Probe : pending'[p] \in {0, pending[p]}
    BY <2>2, <1>t DEF TypeOK
  <2> QED
    BY <1>1, <2>1, <2>3
<1>7. ASSUME NEW p \in Probe, NEW k \in Conn, HandlerStep(p, k) \/ HandlerDropped(p, k)
      PROVE  HandshakeInv'
  <2> USE DEF HandlersAreCurrent, UplinkFirst, PendingIsCurrent, OwnUplink
  <2>1. CASE UplinkCheck(p, k)
    <3>1. /\ up[<<p, k>>] = "hs" /\ UNCHANGED <<cur, dn, hand, pending>>
          /\ \E v \in {"multiple", "refused", "reg"} : up' = [up EXCEPT ![<<p, k>>] = v]
      BY <2>1 DEF UplinkCheck, server
    <3>2. k = cur[p] /\ dn[<<p, k>>] # "hs"
      BY <3>1
    <3>3. \A q \in Probe, j \in Conn :
             \/ up'[<<q, j>>] = up[<<q, j>>]
             \/ q = p /\ j = k /\ up'[<<q, j>>] \in {"multiple", "refused", "reg"}
      BY <3>1, <1>t DEF TypeOK
    <3>4. HandlersAreCurrent'
      BY <3>1, <3>2, <3>3
    <3>5. UplinkFirst' /\ PendingIsCurrent' /\ OwnUplink'
      BY <3>1, <3>2, <3>3
    <3> QED
      BY <3>4, <3>5
  <2>2. CASE UplinkRegister(p, k)
    BY <2>2, <1>t DEF UplinkRegister, TypeOK
  <2>3. CASE DownlinkTake(p, k)
    <3>1. pending[p] \in {0, k} /\ k = cur[p]
      BY <2>3 DEF DownlinkTake
    <3> QED
      BY <2>3, <3>1, <1>t DEF DownlinkTake, TypeOK
  <2>4. CASE DownlinkRegister(p, k)
    <3>1. /\ UNCHANGED <<cur, up, pending>> /\ hand' = [hand EXCEPT ![<<p, k>>] = 0]
          /\ \E v \in {"ok", "failed"} : dn' = [dn EXCEPT ![<<p, k>>] = v]
      BY <2>4 DEF DownlinkRegister
    <3>2. \A q \in Probe, j \in Conn :
             \/ dn'[<<q, j>>] \in {"ok", "failed"}
             \/ dn'[<<q, j>>] = dn[<<q, j>>] /\ hand'[<<q, j>>] = hand[<<q, j>>]
      BY <3>1, <1>t DEF TypeOK
    <3> QED
      BY <3>1, <3>2
  <2>5. CASE HandlerDropped(p, k)
    <3>1. /\ UNCHANGED <<cur, hand, pending>>
          /\ \A q \in Probe, j \in Conn :
                /\ up'[<<q, j>>] = up[<<q, j>>] \/ (up[<<q, j>>] = "hs" /\ up'[<<q, j>>] = "gone")
                /\ dn'[<<q, j>>] \in {dn[<<q, j>>], "gone"}
      BY <2>5, <1>t DEF HandlerDropped, server, TypeOK
    <3> QED
      BY <3>1
  <2> QED
    BY <1>7, <2>1, <2>2, <2>3, <2>4, <2>5 DEF HandlerStep
<1> QED
  BY <1>2, <1>3, <1>4, <1>5, <1>6, <1>7 DEF Next

LEMMA TaskInvStep ==
    ASSUME TypeInv, Fresh, Closing, Unread, [Next]_vars
    PROVE  Closing' /\ Unread'
<1>t. TypeOK
  BY DEF TypeInv
<1>1. ASSUME UNCHANGED <<task, held>>, \A x \in Probe \X Conn : dn'[x] = dn[x] \/ dn[x] # "ok"
      PROVE  Closing' /\ Unread'
  BY <1>1 DEF Closing, Unread
<1>2. CASE UNCHANGED vars
  BY <1>1, <1>2 DEF vars
<1>3. ASSUME NEW p \in Probe, ProbeStep(p) \/ HandshakeTimesOut(p) \/ Killed(p)
      PROVE  Closing' /\ Unread'
  <2>1. UNCHANGED <<task, held>>
    BY <1>3 DEF ProbeStep, Killed, OpenUplink, OpenDownlink, Established, HandshakeFails,
                ConnectionLost, HandshakeTimesOut, HandshakeRefused, Retry, Exit, server
  <2> QED
    BY <1>1, <1>3, <2>1, ProbeFresh DEF DnSettled
<1>4. ASSUME NEW p \in Probe, Send(p) PROVE Closing' /\ Unread'
  <2> DEFINE s == <<p, probes[p].up, "up">>
  <2>1. /\ task[s] = "none" /\ task' = [task EXCEPT ![s] = "run"]
        /\ UNCHANGED <<dn, held>>
    BY <1>4 DEF Send, link
  <2>2. \A x \in Sock : x # s => task'[x] = task[x]
    BY <2>1, <1>t DEF TypeOK
  <2>3. \A q \in Probe, k \in Conn : <<q, k, "dn">> \in Sock /\ <<q, k, "dn">> # s
    BY DEF Sock
  <2> HIDE DEF s
  <2>4. Closing'
    BY <2>1, <2>2 DEF Closing
  <2> QED
    BY <2>1, <2>2, <2>3, <2>4 DEF Unread
<1>5. ASSUME NEW p \in Probe, NEW k \in {"up", "dn"}, Break(p, k) PROVE Closing' /\ Unread'
  BY <1>1, <1>5 DEF Break, server
<1>6. ASSUME NEW p \in Probe, NEW k \in Conn, HandlerStep(p, k) \/ HandlerDropped(p, k)
      PROVE  Closing' /\ Unread'
  <2>1. DnSettled
    BY <1>6, <1>t, HandlerDn
  <2>2. held' = held
    BY <1>6 DEF HandlerStep, HandlerDropped, UplinkCheck, UplinkRegister, DownlinkTake,
                DownlinkRegister, server
  <2>3. CASE UNCHANGED task
    BY <1>1, <2>1, <2>2, <2>3 DEF DnSettled
  <2>4. CASE ~UNCHANGED task
    <3>1. /\ dn[<<p, k>>] = "put" /\ dn' = [dn EXCEPT ![<<p, k>>] = "ok"]
          /\ task' = [task EXCEPT ![<<p, k, "dn">>] = "run"]
      BY <1>6, <2>4 DEF HandlerStep, HandlerDropped, UplinkCheck, UplinkRegister, DownlinkTake,
                        DownlinkRegister, server
    <3>2. <<p, k, "dn">> \in Sock /\ task[<<p, k, "dn">>] = "none"
      BY <3>1 DEF Unread, Sock
    <3>3. Closing'
      BY <2>2, <3>1, <3>2, <1>t DEF Closing, TypeOK
    <3>4. \A q \in Probe, j \in Conn :
             dn'[<<q, j>>] # "ok" => dn[<<q, j>>] # "ok" /\ <<q, j>> # <<p, k>>
      BY <2>1, <3>1, <1>t DEF TypeOK, DnSettled
    <3>5. Unread'
      BY <3>1, <3>4, <1>t DEF Unread, TypeOK, Sock
    <3> QED
      BY <3>3, <3>5
  <2> QED
    BY <2>3, <2>4
<1>7. ASSUME NEW s \in Sock, TaskStep(s) PROVE Closing' /\ Unread'
  <2>0. dn' = dn
    BY <1>7 DEF TaskStep, Sent, LinkFails, RemovePending, RemoveActive, CloseHolder, link
  <2>1. \A x \in Sock : task[x] = "none" /\ x[3] = "dn" => task'[x] = "none"
    BY <1>7, <1>t DEF TaskStep, Sent, LinkFails, RemovePending, RemoveActive, CloseHolder,
                      Interrupt, TypeOK
  <2>2. Unread'
    BY <2>0, <2>1 DEF Unread, Sock
  <2>3. Closing'
    <3>1. CASE Sent(s) \/ LinkFails(s)
      BY <3>1, <1>t DEF Sent, LinkFails, TypeOK, Closing
    <3>2. CASE RemovePending(s)
      BY <3>2, <1>t DEF RemovePending, TypeOK, Closing
    <3>3. CASE RemoveActive(s)
      BY <3>3, <1>t DEF RemoveActive, Interrupt, TypeOK, Closing
    <3>4. CASE CloseHolder(s)
      BY <3>4, <1>t DEF CloseHolder, TypeOK, Closing
    <3> QED
      BY <1>7, <3>1, <3>2, <3>3, <3>4 DEF TaskStep
  <2> QED
    BY <2>2, <2>3
<1> QED
  BY <1>2, <1>3, <1>4, <1>5, <1>6, <1>7 DEF Next

LEMMA LiveIsAcceptedStep ==
    ASSUME TypeInv, Fresh, LiveIsAccepted, [Next]_vars
    PROVE  LiveIsAccepted'
<1>t. TypeOK
  BY DEF TypeInv
<1>l. \A q \in Probe : pc[q] = "live" => <<q, cur[q]>> \in Probe \X Conn
  BY ConnAssumption DEF TypeInv, TypeOK, Attempting, Conn
<1>1. ASSUME UNCHANGED <<pc, cur>>, DnSettled PROVE LiveIsAccepted'
  BY <1>1, <1>l DEF LiveIsAccepted, DnSettled
<1>2. CASE UNCHANGED <<pc, cur, dn>>
  BY <1>2 DEF LiveIsAccepted
<1>3. ASSUME NEW p \in Probe, ProbeStep(p) \/ HandshakeTimesOut(p) \/ Killed(p)
      PROVE  LiveIsAccepted'
  <2>1. DnSettled
    BY <1>3, ProbeFresh
  <2>2. \A q \in Probe \ {p} : pc'[q] = pc[q] /\ cur'[q] = cur[q]
    BY <1>3, <1>t DEF ProbeStep, Killed, OpenUplink, OpenDownlink, Established, HandshakeFails,
                ConnectionLost, HandshakeTimesOut, HandshakeRefused, Retry, Exit, TypeOK
  <2>3. pc'[p] = "live" => cur'[p] = cur[p] /\ dn'[<<p, cur[p]>>] = "ok"
    BY <1>3, <1>t DEF ProbeStep, Killed, OpenUplink, OpenDownlink, Established, HandshakeFails,
                ConnectionLost, HandshakeTimesOut, HandshakeRefused, Retry, Exit, TypeOK
  <2> QED
    BY <2>1, <2>2, <2>3, <1>l DEF LiveIsAccepted, DnSettled
<1>4. ASSUME NEW p \in Probe, NEW k \in Conn, HandlerStep(p, k) \/ HandlerDropped(p, k)
      PROVE  LiveIsAccepted'
  BY <1>1, <1>4, <1>t, HandlerDn
<1>5. ASSUME NEW s \in Sock, TaskStep(s) PROVE LiveIsAccepted'
  BY <1>2, <1>5 DEF TaskStep, Sent, LinkFails, RemovePending, RemoveActive, CloseHolder, link
<1> QED
  BY <1>2, <1>3, <1>4, <1>5 DEF Next, vars, Send, Break, link, server
LEMMA AcceptedStep ==
    ASSUME ~SlowHandlers, TypeInv, Fresh, HandshakeInv, Closing, AcceptedIsRegistered, [Next]_vars
    PROVE  AcceptedIsRegistered'
<1>t. TypeOK
  BY DEF TypeInv
<1>1. ASSUME UNCHANGED <<cur, probes, held>>, closed \subseteq closed',
             \A p \in Probe, k \in Conn : dn'[<<p, k>>] = "ok" => dn[<<p, k>>] = "ok"
      PROVE  AcceptedIsRegistered'
  BY <1>1 DEF AcceptedIsRegistered
<1>2. CASE UNCHANGED vars
  BY <1>1, <1>2 DEF vars
<1>3. ASSUME NEW p \in Probe, ProbeStep(p) \/ HandshakeTimesOut(p) \/ Killed(p)
      PROVE  AcceptedIsRegistered'
  <2>1. UNCHANGED <<probes, held>> /\ closed \subseteq closed'
    BY <1>3 DEF ProbeStep, Killed, OpenUplink, OpenDownlink, Established, HandshakeFails,
                ConnectionLost, HandshakeTimesOut, HandshakeRefused, Retry, Exit, server
  <2>2. CASE OpenUplink(p)
    <3>1. /\ dn' = dn /\ cur' = [cur EXCEPT ![p] = cur[p] + 1]
          /\ cur[p] + 1 \in Conn /\ cur[p] + 1 > cur[p]
      BY <2>2, <1>t, ConnAssumption DEF OpenUplink, TypeOK, Conn
    <3>2. dn'[<<p, cur[p] + 1>>] = "idle"
      BY <3>1 DEF Fresh
    <3>3. \A q \in Probe : IF q = p THEN cur'[q] = cur[p] + 1 ELSE cur'[q] = cur[q]
      BY <3>1, <1>t DEF TypeOK
    <3> QED
      BY <2>1, <3>1, <3>2, <3>3 DEF AcceptedIsRegistered
  <2>3. CASE ~OpenUplink(p)
    <3>1. cur' = cur /\ (dn' = dn \/ dn' = [dn EXCEPT ![<<p, cur[p]>>] = "hs"])
      BY <1>3, <2>3 DEF ProbeStep, Killed, OpenDownlink, Established, HandshakeFails,
                ConnectionLost, HandshakeTimesOut, HandshakeRefused, Retry, Exit
    <3>2. \A q \in Probe, k \in Conn : dn'[<<q, k>>] = "ok" => dn[<<q, k>>] = "ok"
      BY <3>1, <1>t DEF TypeOK
    <3> QED
      BY <1>1, <2>1, <3>1, <3>2
  <2> QED
    BY <2>2, <2>3
<1>4. ASSUME NEW p \in Probe, Send(p) PROVE AcceptedIsRegistered'
  BY <1>1, <1>4 DEF Send, link
<1>5. ASSUME NEW p \in Probe, NEW k \in {"up", "dn"}, Break(p, k) PROVE AcceptedIsRegistered'
  BY <1>1, <1>5 DEF Break, server
<1>6. ASSUME NEW p \in Probe, NEW k \in Conn,
             UplinkCheck(p, k) \/ UplinkRegister(p, k) \/ DownlinkTake(p, k)
               \/ HandlerDropped(p, k)
      PROVE  AcceptedIsRegistered'
  <2>1. UNCHANGED <<cur, probes, held, closed>>
    BY <1>6 DEF UplinkCheck, UplinkRegister, DownlinkTake, HandlerDropped, server
  <2>2. \A q \in Probe, j \in Conn : dn'[<<q, j>>] = "ok" => dn[<<q, j>>] = "ok"
    BY <1>6, <1>t DEF UplinkCheck, UplinkRegister, DownlinkTake, HandlerDropped, TypeOK
  <2> QED
    BY <1>1, <2>1, <2>2
<1>7. ASSUME NEW p \in Probe, NEW k \in Conn, DownlinkRegister(p, k)
      PROVE  AcceptedIsRegistered'
  <2>1. k = cur[p] /\ hand[<<p, k>>] = k
    BY <1>7 DEF DownlinkRegister, HandshakeInv, HandlersAreCurrent, OwnUplink
  <2>2. /\ UNCHANGED <<cur, held, closed>> /\ probes'[p] = [up |-> k, dn |-> k]
        /\ \A q \in Probe : q # p => probes'[q] = probes[q]
        /\ \A q \in Probe, j \in Conn : q # p => dn'[<<q, j>>] = dn[<<q, j>>]
    BY <1>7, <2>1, <1>t DEF DownlinkRegister, TypeOK
  <2> QED
    BY <2>1, <2>2 DEF AcceptedIsRegistered
<1>8. ASSUME NEW s \in Sock, Sent(s) \/ LinkFails(s) PROVE AcceptedIsRegistered'
  BY <1>1, <1>8 DEF Sent, LinkFails, link
<1>9. ASSUME NEW s \in Sock, RemovePending(s) \/ RemoveActive(s) \/ CloseHolder(s)
      PROVE  AcceptedIsRegistered'
  <2> SUFFICES ASSUME NEW p \in Probe, NEW k \in Conn,
                      k = cur'[p] /\ dn'[<<p, k>>] = "ok" /\ Sockets(p, k) \cap closed' = {}
               PROVE  LET h == [up |-> k, dn |-> k] IN
                      probes'[p] = h \/ \E x \in Sock : x[1] = p /\ held'[x] = h
    BY DEF AcceptedIsRegistered
  <2> DEFINE h == [up |-> k, dn |-> k]
  <2>1. UNCHANGED <<cur, dn>> /\ closed \subseteq closed'
    BY <1>9 DEF RemovePending, RemoveActive, CloseHolder, link
  <2>2. probes[p] = h \/ \E x \in Sock : x[1] = p /\ held[x] = h
    BY <2>1 DEF AcceptedIsRegistered
  <2>3. h # NoHolder /\ k # 0
    BY DEF Conn, NoHolder
  <2>4. s[1] \in Probe /\ held \in [Sock -> Holder \cup PendingHolder \cup {NoHolder}]
    BY <1>t DEF TypeOK, Sock
  <2>5. CASE RemovePending(s)
    <3>1. held[s] = NoHolder /\ probes' = probes
          /\ \A x \in Sock : x # s => held'[x] = held[x]
      BY <2>5, <2>4 DEF RemovePending, Closing
    <3> QED
      BY <2>2, <2>3, <3>1
  <2>6. CASE RemoveActive(s)
    <3>1. /\ held[s] = NoHolder
          /\ \A x \in Sock : x # s => held'[x] = held[x]
          /\ \A q \in Probe : q # s[1] => probes'[q] = probes[q]
          /\ probes[s[1]] # NoHolder => held'[s] = probes[s[1]]
      BY <2>6, <2>4, <1>t DEF RemoveActive, Closing, TypeOK
    <3>2. CASE probes[p] = h
      BY <2>3, <3>1, <3>2
    <3>3. CASE probes[p] # h
      BY <2>2, <2>3, <3>1, <3>3
    <3> QED
      BY <3>2, <3>3
  <2>7. CASE CloseHolder(s)
    <3>1. /\ probes' = probes /\ \A x \in Sock : x # s => held'[x] = held[x]
          /\ {<<s[1], held[s].up, "up">>} \cap Sock \subseteq closed'
      BY <2>7, <2>4 DEF CloseHolder
    <3>2. <<p, k, "up">> \in Sock /\ <<p, k, "up">> \notin closed'
      BY DEF Sock, Sockets
    <3>3. ~(s[1] = p /\ held[s] = h)
      BY <3>1, <3>2
    <3> QED
      BY <2>2, <3>1, <3>3
  <2> QED
    BY <1>9, <2>5, <2>6, <2>7
<1> QED
  BY <1>2, <1>3, <1>4, <1>5, <1>6, <1>7, <1>8, <1>9 DEF Next, HandlerStep, TaskStep

\* No open connection is forgotten: a probe that believes it is connected is
\* registered under its current sockets or a task is about to close them.  It
\* is so because a handler ends before the probe's next attempt, which starts
\* RETRY_TIMEOUT after the last one failed (NCConnectionManager); one that did
\* not could put an old holder in the place of the current one.
THEOREM ConnectedIsRegistered ==
    ASSUME ~SlowHandlers
    PROVE  Spec => []LiveIsRegistered
<1> DEFINE Inv == HandshakeInv /\ Closing /\ Unread /\ LiveIsAccepted /\ AcceptedIsRegistered
<1>1. Init => Inv
  BY ConnAssumption
     DEF Init, HandshakeInv, HandlersAreCurrent, UplinkFirst, PendingIsCurrent, OwnUplink,
         Closing, Unread, LiveIsAccepted, AcceptedIsRegistered, Sock, Conn
<1>2. DuplicateInv /\ Inv /\ [Next]_vars => Inv'
  BY HandshakeStep, TaskInvStep, LiveIsAcceptedStep, AcceptedStep DEF DuplicateInv
<1>3. TypeInv /\ Inv => LiveIsRegistered
  <2> SUFFICES ASSUME TypeInv, LiveIsAccepted, AcceptedIsRegistered,
                      NEW p \in Probe, pc[p] = "live", Sockets(p, cur[p]) \cap closed = {}
               PROVE  LET h == [up |-> cur[p], dn |-> cur[p]] IN
                      probes[p] = h \/ \E s \in Sock : s[1] = p /\ held[s] = h
    BY DEF LiveIsRegistered
  <2>1. cur[p] \in Conn
    BY ConnAssumption DEF TypeInv, TypeOK, Attempting, Conn
  <2>2. dn[<<p, cur[p]>>] = "ok"
    BY DEF LiveIsAccepted
  <2> QED
    BY <2>1, <2>2 DEF AcceptedIsRegistered
<1>4. DuplicateInv => TypeInv
  BY DEF DuplicateInv
<1> HIDE DEF Inv
<1> QED
  BY <1>1, <1>2, <1>3, <1>4, DuplicateInvariant, PTL DEF Spec
=============================================================================
