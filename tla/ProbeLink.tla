------------------------------ MODULE ProbeLink ------------------------------
(***************************************************************************)
(* Registration of data probes with the server.                            *)
(*                                                                         *)
(* Server side: NCProbeManager (the maps `pending` and `probes`, the two   *)
(* handshake handlers, one p2s reader thread per downlink, the pinger and  *)
(* closeAndRemoveHolder).  Probe side: the control thread of               *)
(* NCConnectionManager.                                                    *)
(*                                                                         *)
(* A probe process is a value of Probe: it stands for the run-time GUID,   *)
(* so a restarted probe is another value with the same IdOf.  Each pass    *)
(* of the control loop is a connection attempt with an uplink and a        *)
(* downlink socket, <<p, c, "up">> and <<p, c, "dn">>.  A socket is in     *)
(* `closed` once either end has closed it or the network has broken it;    *)
(* each end learns of it in a step of its own, as late as it likes.        *)
(***************************************************************************)
EXTENDS Integers, FiniteSets

CONSTANTS
    Probe,         \* probe processes (run-time GUIDs)
    IdOf,          \* the configured (token, ID) of a process
    Compatible,    \* processes whose token and version the server accepts
    MaxConn,       \* bound: connection attempts of a process
    SlowHandlers   \* a handshake handler may outlive the attempt it serves

ASSUME ConnAssumption ==
    /\ MaxConn \in Nat \ {0}
    /\ Compatible \subseteq Probe
    /\ SlowHandlers \in BOOLEAN
    /\ IsFiniteSet(Probe)
    /\ DOMAIN IdOf = Probe

VARIABLES
    pc,       \* state of the probe's control thread
    cur,      \* the attempt it is in
    up,       \* uplink handler of an attempt on the server
    dn,       \* downlink handler of an attempt on the server
    hand,     \* uplink of the holder a downlink handler took from `pending`
    pending,  \* server map: the uplink attempt of the pending holder, or 0
    probes,   \* server map: the registered holder, or NoHolder
    task,     \* p2s reader of a downlink, message writer of an uplink
    held,     \* holder a task has removed and is closing
    closed    \* sockets that are closed or broken

vars == <<pc, cur, up, dn, hand, pending, probes, task, held, closed>>

Conn == 1 .. MaxConn
Sock == Probe \X Conn \X {"up", "dn"}
Holder == [up : Conn, dn : Conn]
PendingHolder == [up : Conn, dn : {0}]
NoHolder == [up |-> 0, dn |-> 0]

UpStage == {"idle", "hs", "reg", "ok", "multiple", "refused", "gone"}
DnStage == {"idle", "hs", "put", "ok", "notfound", "failed", "gone"}
TaskStage == {"none", "run", "intr", "pend", "act", "close", "done"}

TypeOK ==
    /\ pc \in [Probe -> {"connect", "upwait", "dnwait", "live", "dead"}]
    /\ cur \in [Probe -> 0 .. MaxConn]
    /\ up \in [Probe \X Conn -> UpStage]
    /\ dn \in [Probe \X Conn -> DnStage]
    /\ hand \in [Probe \X Conn -> 0 .. MaxConn]
    /\ pending \in [Probe -> 0 .. MaxConn]
    /\ probes \in [Probe -> Holder \cup {NoHolder}]
    /\ task \in [Sock -> TaskStage]
    /\ held \in [Sock -> Holder \cup PendingHolder \cup {NoHolder}]
    /\ closed \subseteq Sock

Init ==
    /\ pc = [p \in Probe |-> "connect"]
    /\ cur = [p \in Probe |-> 0]
    /\ up = [x \in Probe \X Conn |-> "idle"]
    /\ dn = [x \in Probe \X Conn |-> "idle"]
    /\ hand = [x \in Probe \X Conn |-> 0]
    /\ pending = [p \in Probe |-> 0]
    /\ probes = [p \in Probe |-> NoHolder]
    /\ task = [s \in Sock |-> "none"]
    /\ held = [s \in Sock |-> NoHolder]
    /\ closed = {}

server == <<hand, pending, probes, task, held>>
------------------------------------------------------------------------------
(* The probe's control thread. *)

Sockets(p, c) == {<<p, c, "up">>, <<p, c, "dn">>}

\* The handlers of p's earlier attempts have all ended.
HandlersDone(p) ==
    \A c \in Conn : up[<<p, c>>] \notin {"hs", "reg"} /\ dn[<<p, c>>] \notin {"hs", "put"}

\* openUplinkSocket up to its last read.  The control thread slept
\* RETRY_TIMEOUT since the previous attempt failed.
OpenUplink(p) ==
    /\ pc[p] = "connect"
    /\ cur[p] < MaxConn
    /\ SlowHandlers \/ HandlersDone(p)
    /\ cur' = [cur EXCEPT ![p] = @ + 1]
    /\ up' = [up EXCEPT ![<<p, cur[p] + 1>>] = "hs"]
    /\ pc' = [pc EXCEPT ![p] = "upwait"]
    /\ UNCHANGED <<dn, closed, server>>

\* S2P_PROBE_OK read, openDownLinkSocket up to its read.
OpenDownlink(p) ==
    /\ pc[p] = "upwait"
    /\ up[<<p, cur[p]>>] = "ok"
    /\ dn' = [dn EXCEPT ![<<p, cur[p]>>] = "hs"]
    /\ pc' = [pc EXCEPT ![p] = "dnwait"]
    /\ UNCHANGED <<cur, up, closed, server>>

\* P2S_PROBE_OK read: the uplink and downlink threads start.
Established(p) ==
    /\ pc[p] = "dnwait"
    /\ dn[<<p, cur[p]>>] = "ok"
    /\ pc' = [pc EXCEPT ![p] = "live"]
    /\ UNCHANGED <<cur, up, dn, closed, server>>

\* closeAll, then the next pass of the loop.
Retry(p) ==
    /\ closed' = closed \cup Sockets(p, cur[p])
    /\ pc' = [pc EXCEPT ![p] = "connect"]
    /\ UNCHANGED <<cur, up, dn, server>>

\* An IOException during the handshake.
HandshakeFails(p) ==
    /\ \/ pc[p] = "upwait" /\ <<p, cur[p], "up">> \in closed
       \/ pc[p] = "dnwait" /\ <<p, cur[p], "dn">> \in closed
    /\ Retry(p)

\* The read of a handshake response times out while the handler is still at
\* work.  The socket being opened is not yet one of those closeAll closes, so it
\* stays open.
HandshakeTimesOut(p) ==
    /\ SlowHandlers
    /\ \/ /\ pc[p] = "upwait" /\ up[<<p, cur[p]>>] \in {"hs", "reg"}
          /\ UNCHANGED closed
       \/ /\ pc[p] = "dnwait" /\ dn[<<p, cur[p]>>] \in {"hs", "put"}
          /\ closed' = closed \cup {<<p, cur[p], "up">>}
    /\ pc' = [pc EXCEPT ![p] = "connect"]
    /\ UNCHANGED <<cur, up, dn, server>>

\* One of the two threads of a live connection meets a closed socket.
ConnectionLost(p) ==
    /\ pc[p] = "live"
    /\ Sockets(p, cur[p]) \cap closed # {}
    /\ Retry(p)

\* The process ends: the operating system closes its sockets.
Exit(p) ==
    /\ closed' = closed \cup {s \in Sock : s[1] = p /\ s[2] <= cur[p]}
    /\ pc' = [pc EXCEPT ![p] = "dead"]
    /\ UNCHANGED <<cur, up, dn, server>>

\* A HandshakeError: abort() exits the process.
HandshakeRefused(p) ==
    /\ \/ pc[p] = "upwait" /\ up[<<p, cur[p]>>] \in {"multiple", "refused"}
       \/ pc[p] = "dnwait" /\ dn[<<p, cur[p]>>] = "notfound"
    /\ Exit(p)

\* The probe is stopped or killed.
Killed(p) == pc[p] # "dead" /\ Exit(p)
------------------------------------------------------------------------------
(* Handshake handlers of the server. *)

\* The mutant that counts the caller's own stale registration as a duplicate.
isRegistered(p) ==
    Cardinality({q \in Probe : IdOf[q] = IdOf[p] /\ probes[q] # NoHolder}) > 0

\* The mutant that counts holders that are still pending.
isMultipleCountsPending(p) ==
    Cardinality({q \in Probe : /\ IdOf[q] = IdOf[p]
                              /\ (probes[q] # NoHolder \/ pending[q] # 0)}) > 1

\* Two or more registered holders have p's token and ID.
isMultipleProbeRegistrations(p) ==
    Cardinality({q \in Probe : IdOf[q] = IdOf[p] /\ probes[q] # NoHolder}) > 1

\* upLinkHandler: the checks, made before `pending` is locked.
UplinkCheck(p, c) ==
    /\ up[<<p, c>>] = "hs"
    /\ up' = [up EXCEPT ![<<p, c>>] =
                IF isMultipleProbeRegistrations(p) THEN "multiple"
                ELSE IF p \notin Compatible THEN "refused" ELSE "reg"]
    /\ UNCHANGED <<pc, cur, dn, closed, server>>

\* upLinkHandler: pending += probeKey -> holder, respond S2P_PROBE_OK.
UplinkRegister(p, c) ==
    /\ up[<<p, c>>] = "reg"
    /\ pending' = [pending EXCEPT ![p] = c]
    /\ up' = [up EXCEPT ![<<p, c>>] = "ok"]
    /\ UNCHANGED <<pc, cur, dn, hand, probes, task, held, closed>>

\* downLinkHandler, first locked block: pending.remove(probeKey).
DownlinkTake(p, c) ==
    /\ dn[<<p, c>>] = "hs"
    /\ hand' = [hand EXCEPT ![<<p, c>>] = pending[p]]
    /\ pending' = [pending EXCEPT ![p] = 0]
    /\ dn' = [dn EXCEPT ![<<p, c>>] = IF pending[p] = 0 THEN "notfound" ELSE "put"]
    /\ UNCHANGED <<pc, cur, up, probes, task, held, closed>>

\* The mutant of a handler that registers the probe and forgets its reader.
DownlinkRegisterNoReader(p, c) ==
    /\ dn[<<p, c>>] = "put"
    /\ probes' = [probes EXCEPT ![p] = [up |-> hand[<<p, c>>], dn |-> c]]
    /\ hand' = [hand EXCEPT ![<<p, c>>] = 0]
    /\ dn' = [dn EXCEPT ![<<p, c>>] = "ok"]
    /\ UNCHANGED <<pc, cur, up, pending, task, held, closed>>

\* downLinkHandler, second locked block: probes += probeKey -> holder,
\* respond P2S_PROBE_OK, start the reader.  The response to a closed socket
\* may throw, and then the holder stays in `probes` with no reader.
DownlinkRegister(p, c) ==
    /\ dn[<<p, c>>] = "put"
    /\ probes' = [probes EXCEPT ![p] = [up |-> hand[<<p, c>>], dn |-> c]]
    /\ hand' = [hand EXCEPT ![<<p, c>>] = 0]
    /\ \/ /\ dn' = [dn EXCEPT ![<<p, c>>] = "ok"]
          /\ task' = [task EXCEPT ![<<p, c, "dn">>] = "run"]
       \/ /\ <<p, c, "dn">> \in closed
          /\ dn' = [dn EXCEPT ![<<p, c>>] = "failed"]
          /\ UNCHANGED task
    /\ UNCHANGED <<pc, cur, up, pending, held, closed>>

\* A handler that reads from a closed socket ends with an exception.
HandlerDropped(p, c) ==
    \/ /\ up[<<p, c>>] = "hs" /\ <<p, c, "up">> \in closed
       /\ up' = [up EXCEPT ![<<p, c>>] = "gone"]
       /\ UNCHANGED <<pc, cur, dn, closed, server>>
    \/ /\ dn[<<p, c>>] = "hs" /\ <<p, c, "dn">> \in closed
       /\ dn' = [dn EXCEPT ![<<p, c>>] = "gone"]
       /\ UNCHANGED <<pc, cur, up, closed, server>>
------------------------------------------------------------------------------
(* Reader threads, writers and closeAndRemoveHolder. *)

link == <<pc, cur, up, dn, hand>>

\* A task of a socket that has nothing left to do.
Idle(s) == IF s[3] = "up" THEN "none" ELSE "done"

\* sendToProbe to a registered probe (the pinger): the uplink of the holder
\* is read under the lock, the write runs in a future.
\* Bound: one message in flight on an uplink.
Send(p) ==
    /\ probes[p] # NoHolder
    /\ task[<<p, probes[p].up, "up">>] = "none"
    /\ task' = [task EXCEPT ![<<p, probes[p].up, "up">>] = "run"]
    /\ UNCHANGED <<link, pending, probes, held, closed>>

Sent(s) ==
    /\ s[3] = "up" /\ task[s] = "run" /\ s \notin closed
    /\ task' = [task EXCEPT ![s] = "none"]
    /\ UNCHANGED <<link, pending, probes, held, closed>>

\* A write fails, or a reader meets EOF or finds itself interrupted.
LinkFails(s) ==
    /\ \/ task[s] = "run" /\ s \in closed
       \/ task[s] = "intr"
    /\ task' = [task EXCEPT ![s] = "pend"]
    /\ UNCHANGED <<link, pending, probes, held, closed>>

\* closeAndRemoveHolder: pending.remove(probeKey), by key.
RemovePending(s) ==
    LET p == s[1] IN
    /\ task[s] = "pend"
    /\ pending' = [pending EXCEPT ![p] = 0]
    /\ IF pending[p] = 0
       THEN /\ task' = [task EXCEPT ![s] = "act"]
            /\ UNCHANGED held
       ELSE /\ task' = [task EXCEPT ![s] = "close"]
            /\ held' = [held EXCEPT ![s] = [up |-> pending[p], dn |-> 0]]
    /\ UNCHANGED <<link, probes, closed>>

\* stopThread(h.dnThread): the interrupt, unless the thread is the caller.
Interrupt(s, h) ==
    LET t == <<s[1], h.dn, "dn">> IN
    [x \in Sock |-> IF x = s THEN "close"
                    ELSE IF x = t /\ task[x] = "run" THEN "intr" ELSE task[x]]

\* The mutant of closeAndRemoveHolder that stops the reader of a holder it
\* leaves in `probes`.
RemoveActiveKeeps(s) ==
    LET p == s[1] IN
    /\ task[s] = "act"
    /\ probes[p] # NoHolder
    /\ held' = [held EXCEPT ![s] = probes[p]]
    /\ task' = Interrupt(s, probes[p])
    /\ UNCHANGED <<link, pending, probes, closed>>

\* closeAndRemoveHolder: probes.remove(probeKey), by key.
RemoveActive(s) ==
    LET p == s[1] IN
    /\ task[s] = "act"
    /\ IF probes[p] = NoHolder
       THEN /\ task' = [task EXCEPT ![s] = Idle(s)]
            /\ UNCHANGED <<probes, held>>
       ELSE /\ held' = [held EXCEPT ![s] = probes[p]]
            /\ probes' = [probes EXCEPT ![p] = NoHolder]
            /\ task' = Interrupt(s, probes[p])
    /\ UNCHANGED <<link, pending, closed>>

\* Whether stopThread's join returns: the reader of the holder a task closes
\* has ended or never started.  A reader that closes a holder does not wait: its
\* loop has ended because it is interrupted itself, so its join throws.
Joined(s) ==
    LET t == <<s[1], held[s].dn, "dn">> IN
    s[3] = "up" /\ t \in Sock => task[t] \in {"none", "done"}

\* The mutant of ProbeHolder.close that stops at the thread.
CloseHolderThreadOnly(s) ==
    /\ task[s] = "close"
    /\ Joined(s)
    /\ held' = [held EXCEPT ![s] = NoHolder]
    /\ task' = [task EXCEPT ![s] = Idle(s)]
    /\ UNCHANGED <<link, pending, probes, closed>>

\* The mutant of ProbeHolder.close that assumes there is a downlink socket.
CloseHolderBoth(s) ==
    /\ task[s] = "close"
    /\ Joined(s)
    /\ closed' = closed \cup {<<s[1], held[s].up, "up">>, <<s[1], held[s].dn, "dn">>}
    /\ held' = [held EXCEPT ![s] = NoHolder]
    /\ task' = [task EXCEPT ![s] = Idle(s)]
    /\ UNCHANGED <<link, pending, probes>>

\* ProbeHolder.close after the join: both sockets are closed.
CloseHolder(s) ==
    /\ task[s] = "close"
    /\ Joined(s)
    /\ closed' = closed \cup
         ({<<s[1], held[s].up, "up">>, <<s[1], held[s].dn, "dn">>} \cap Sock)
    /\ held' = [held EXCEPT ![s] = NoHolder]
    /\ task' = [task EXCEPT ![s] = Idle(s)]
    /\ UNCHANGED <<link, pending, probes>>
------------------------------------------------------------------------------
\* The network breaks a socket of an attempt that is under way.
Break(p, k) ==
    /\ pc[p] \in (IF k = "up" THEN {"upwait", "dnwait", "live"} ELSE {"dnwait", "live"})
    /\ closed' = closed \cup {<<p, cur[p], k>>}
    /\ UNCHANGED <<pc, cur, up, dn, server>>

ProbeStep(p) ==
    \/ OpenUplink(p) \/ OpenDownlink(p) \/ Established(p)
    \/ HandshakeFails(p) \/ ConnectionLost(p) \/ HandshakeRefused(p)

HandlerStep(p, c) ==
    \/ UplinkCheck(p, c) \/ UplinkRegister(p, c)
    \/ DownlinkTake(p, c) \/ DownlinkRegister(p, c)

TaskStep(s) ==
    \/ Sent(s) \/ LinkFails(s)
    \/ RemovePending(s) \/ RemoveActive(s) \/ CloseHolder(s)

Next ==
    \/ \E p \in Probe : ProbeStep(p) \/ HandshakeTimesOut(p) \/ Killed(p) \/ Send(p)
    \/ \E p \in Probe, c \in Conn : HandlerStep(p, c) \/ HandlerDropped(p, c)
    \/ \E s \in Sock : TaskStep(s)
    \/ \E p \in Probe, k \in {"up", "dn"} : Break(p, k)

Spec == Init /\ [][Next]_vars

\* Threads and futures run, and the pinger keeps pinging; nothing makes the
\* network break or a process die.
Fairness ==
    /\ \A p \in Probe : WF_vars(ProbeStep(p)) /\ WF_vars(Send(p))
    /\ \A p \in Probe, c \in Conn : WF_vars(HandlerStep(p, c))
    /\ \A s \in Sock : WF_vars(TaskStep(s))

FairSpec == Spec /\ Fairness
------------------------------------------------------------------------------
(* Safety. *)

\* A registered probe has a reader on its downlink, or that downlink is
\* already closed: the server never lists a probe whose open downlink nobody
\* reads (downLinkHandler starts the reader, closeAndRemoveHolder stops it).
RegisteredIsRead ==
    \A p \in Probe : probes[p] # NoHolder =>
        LET s == <<p, probes[p].dn, "dn">> IN task[s] = "run" \/ s \in closed

\* A probe that believes it is connected, over two open sockets, is
\* registered under exactly these sockets, or a task has removed that holder
\* and is about to close it: no open connection is forgotten by the server
\* (stale readers and writers remove holders by key).
LiveIsRegistered ==
    \A p \in Probe :
        pc[p] = "live" /\ Sockets(p, cur[p]) \cap closed = {} =>
            LET h == [up |-> cur[p], dn |-> cur[p]] IN
            probes[p] = h \/ \E s \in Sock : s[1] = p /\ held[s] = h

\* No two probe processes with the same token and ID are registered
\* ("Each probe has to have a unique ID").
UniqueProbeId ==
    \A p, q \in Probe :
        p # q /\ IdOf[p] = IdOf[q] => probes[p] = NoHolder \/ probes[q] = NoHolder

\* A probe is turned away as a duplicate only if another process with its ID
\* has completed a handshake: a probe that reconnects while the server still
\* lists its old connection is not mistaken for its own duplicate.
NotItsOwnDuplicate ==
    \A p \in Probe, c \in Conn : up[<<p, c>>] = "multiple" =>
        \E q \in Probe \ {p} :
            IdOf[q] = IdOf[p] /\ \E e \in Conn : dn[<<q, e>>] \in {"ok", "failed"}

(* Liveness. *)

\* Once connections stop breaking, the server's map and the probes agree: a
\* connected probe is registered under its current sockets, and no holder of
\* a dead or disconnected probe is left in `probes`.
Settled(p) ==
    probes[p] = IF pc[p] = "live" THEN [up |-> cur[p], dn |-> cur[p]] ELSE NoHolder

Stabilises == <>[](\A p \in Probe : Settled(p))
==============================================================================
