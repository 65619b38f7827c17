----------------------------- MODULE TcpServer ------------------------------
(***************************************************************************)
(* The lifecycle of sylar::TcpServer (src/sylar/tcp_server.cpp): bind,     *)
(* start, stop, the accept loops that start() schedules on the accept      *)
(* worker, and the destructor once the last shared_ptr is gone.            *)
(*                                                                         *)
(* The server's owner calls bind/start/stop one at a time from its own     *)
(* thread.  The accept worker (an IOManager) takes scheduled tasks in FIFO *)
(* order; each startAccept task becomes a fiber that loops on             *)
(* `while (!m_isStop) { sock->accept(); ... }`.  Socket::accept blocks the *)
(* fiber until a client arrives, and returns nullptr at once on a socket   *)
(* that is cancelled or closed.  The closer lambda of stop() runs with no  *)
(* suspension point, so it is one step.  Memory accesses to the plain bool *)
(* m_isStop are taken to be sequentially consistent: the loop calls an     *)
(* out-of-line accept() between two reads, so the compiler reloads it.     *)
(*                                                                         *)
(* A socket is a Socket::ptr: m_socks, a queued startAccept task (its      *)
(* std::bind) and a running startAccept fiber each hold one.  Socket is    *)
(* not under src/; its destructor is taken to close the descriptor, so a   *)
(* socket none of them holds any longer is closed.                         *)
(***************************************************************************)
EXTENDS Naturals, Sequences, FiniteSets, SequencesExt

CONSTANTS
  Addrs,        \* addresses passed to bind()
  BadAddrs,     \* addresses on which bind() or listen() fails
  MaxSocks,     \* bound: sockets created
  MaxClients,   \* bound: clients accepted
  MaxCalls,     \* bound: start() and stop() calls
  BindAfterStart \* whether the owner may call bind() after start()

ASSUME BadAddrs \subseteq Addrs /\ MaxSocks \in Nat /\ MaxClients \in Nat
       /\ MaxCalls \in Nat /\ BindAfterStart \in BOOLEAN

\* every startAccept fiber ever created: one per socket per start() call
MaxLoops == MaxCalls * MaxSocks

VARIABLES
  m_isStop,    \* TcpServer::m_isStop
  m_socks,     \* TcpServer::m_socks, as socket ids
  sockState,   \* socket id -> "listening" | "closed"
  queue,       \* tasks scheduled on m_acceptWorker, not yet taken
  loops,       \* the startAccept fibers: [sock, pc]
  accepted,    \* clients accepted so far
  calls,       \* start()/stop() calls so far
  started,     \* whether the owner has called start()
  owned,       \* the owner still holds its TcpServer::ptr
  destroyed    \* ~TcpServer has run

vars == <<m_isStop, m_socks, sockState, queue, loops, accepted, calls, started,
          owned, destroyed>>

SockIds == 1..MaxSocks
AcceptTask(s) == [kind |-> "accept", sock |-> s]
CloseTask == [kind |-> "close", sock |-> 0]
Tasks == {AcceptTask(s) : s \in SockIds} \cup {CloseTask}
LoopPcs == {"check", "accept", "done"}

\* TcpServer::TcpServer: m_isStop(true), no sockets
Init ==
  /\ m_isStop = TRUE
  /\ m_socks = {}
  /\ sockState = <<>>
  /\ queue = <<>>
  /\ loops = <<>>
  /\ accepted = 0
  /\ calls = 0
  /\ started = FALSE
  /\ owned = TRUE
  /\ destroyed = FALSE

\* whether socket x still has a Socket::ptr: in m_socks ms, in a task of
\* queue q, or in a startAccept fiber of l that has not returned
HeldBy(x, ms, q, l) ==
  \/ x \in ms
  \/ \E k \in DOMAIN q : q[k] = AcceptTask(x)
  \/ \E i \in DOMAIN l : l[i].sock = x /\ l[i].pc # "done"

\* the sockets of st after their holders became ms, q and l: one no
\* holder is left for is destroyed, and ~Socket closes it
Released(st, ms, q, l) ==
  [x \in DOMAIN st |-> IF HeldBy(x, ms, q, l) THEN st[x] ELSE "closed"]

\* bind(addr) -> bind({addr}, fails): a socket per address; on a failed
\* bind/listen the address goes to `fails`, and a non-empty `fails` clears
\* m_socks.  The failed socket and every socket bound before are dropped
\* there; a socket a startAccept task or fiber holds stays listening.
Bind(a) ==
  LET s == Len(sockState) + 1 IN
  /\ BindAfterStart \/ ~started
  /\ s <= MaxSocks
  /\ IF a \in BadAddrs
     THEN /\ sockState' = Released(Append(sockState, "closed"), {}, queue, loops)
          /\ m_socks' = {}
     ELSE /\ sockState' = Append(sockState, "listening")
          /\ m_socks' = m_socks \cup {s}
  /\ UNCHANGED <<m_isStop, queue, loops, accepted, calls, started, owned, destroyed>>

\* start(): return if running, else clear m_isStop and schedule one
\* startAccept per socket of m_socks
Start ==
  /\ calls < MaxCalls
  /\ calls' = calls + 1
  /\ started' = TRUE
  /\ IF ~m_isStop
     THEN UNCHANGED <<m_isStop, queue>>
     ELSE /\ m_isStop' = FALSE
          /\ queue' = queue \o [i \in 1..Cardinality(m_socks) |->
                                  AcceptTask(SetToSortSeq(m_socks, <)[i])]
  /\ UNCHANGED <<m_socks, sockState, loops, accepted, owned, destroyed>>

\* a stop() that sets m_isStop but schedules no closer
StopNoCloser ==
  /\ calls < MaxCalls
  /\ calls' = calls + 1
  /\ m_isStop' = TRUE
  /\ UNCHANGED <<queue, m_socks, sockState, loops, accepted, started, owned, destroyed>>

\* stop(): set m_isStop and schedule the closer
Stop ==
  /\ calls < MaxCalls
  /\ calls' = calls + 1
  /\ m_isStop' = TRUE
  /\ queue' = Append(queue, CloseTask)
  /\ UNCHANGED <<m_socks, sockState, loops, accepted, started, owned, destroyed>>

\* a closer that empties m_socks without closing the sockets
RunTaskKeepOpen ==
  /\ queue # <<>>
  /\ queue' = Tail(queue)
  /\ IF Head(queue).kind = "accept"
     THEN /\ loops' = Append(loops, [sock |-> Head(queue).sock, pc |-> "check"])
          /\ UNCHANGED <<m_socks, sockState>>
     ELSE /\ m_socks' = {}
          /\ UNCHANGED <<sockState, loops>>
  /\ UNCHANGED <<m_isStop, accepted, calls, started, owned, destroyed>>

\* a task that is run but left at the head of the queue
RunTaskNoPop ==
  /\ queue # <<>>
  /\ Len(loops) < MaxLoops + 1
  /\ UNCHANGED queue
  /\ IF Head(queue).kind = "accept"
     THEN /\ loops' = Append(loops, [sock |-> Head(queue).sock, pc |-> "check"])
          /\ UNCHANGED <<m_socks, sockState>>
     ELSE /\ sockState' = [x \in DOMAIN sockState |->
                             IF x \in m_socks THEN "closed" ELSE sockState[x]]
          /\ m_socks' = {}
          /\ UNCHANGED loops
  /\ UNCHANGED <<m_isStop, accepted, calls, started, owned, destroyed>>

\* the accept worker takes the next task: a startAccept fiber begins, or
\* the closer cancels and closes every socket of m_socks, then clears it
RunTask ==
  /\ queue # <<>>
  /\ queue' = Tail(queue)
  /\ IF Head(queue).kind = "accept"
     THEN /\ loops' = Append(loops, [sock |-> Head(queue).sock, pc |-> "check"])
          /\ UNCHANGED <<m_socks, sockState>>
     ELSE /\ sockState' = [x \in DOMAIN sockState |->
                             IF x \in m_socks THEN "closed" ELSE sockState[x]]
          /\ m_socks' = {}
          /\ UNCHANGED loops
  /\ UNCHANGED <<m_isStop, accepted, calls, started, owned, destroyed>>

SetPc(i, p) == loops' = [loops EXCEPT ![i].pc = p]

\* `while (!m_isStop)`: once m_isStop is seen the fiber returns, and its
\* bound Socket::ptr goes with it
LoopCheck(i) ==
  /\ i \in DOMAIN loops
  /\ loops[i].pc = "check"
  /\ IF m_isStop
     THEN LET l == [loops EXCEPT ![i].pc = "done"]
          IN /\ loops' = l
             /\ sockState' = Released(sockState, m_socks, queue, l)
     ELSE SetPc(i, "accept") /\ UNCHANGED sockState
  /\ UNCHANGED <<m_isStop, m_socks, queue, accepted, calls, started, owned, destroyed>>

\* accept() returns a client, handed to handleClient on the I/O worker
LoopAcceptClient(i) ==
  /\ i \in DOMAIN loops
  /\ loops[i].pc = "accept"
  /\ sockState[loops[i].sock] = "listening"
  /\ accepted < MaxClients
  /\ accepted' = accepted + 1
  /\ SetPc(i, "check")
  /\ UNCHANGED <<m_isStop, m_socks, sockState, queue, calls, started, owned, destroyed>>

\* accept() on a cancelled or closed socket returns nullptr; the error is
\* logged and the loop goes round again
LoopAcceptFail(i) ==
  /\ i \in DOMAIN loops
  /\ loops[i].pc = "accept"
  /\ sockState[loops[i].sock] = "closed"
  /\ SetPc(i, "check")
  /\ UNCHANGED <<m_isStop, m_socks, sockState, queue, accepted, calls, started, owned, destroyed>>

\* the owner drops its TcpServer::ptr
Release ==
  /\ owned' = FALSE
  /\ UNCHANGED <<m_isStop, m_socks, sockState, queue, loops, accepted, calls,
                 started, destroyed>>

Destruct ==
  /\ ~owned /\ ~destroyed
  /\ queue = <<>> /\ \A i \in DOMAIN loops : loops[i].pc = "done"
  /\ sockState' = [x \in DOMAIN sockState |->
                     IF x \in m_socks THEN "closed" ELSE sockState[x]]
  /\ m_socks' = {}
  /\ destroyed' = TRUE
  /\ UNCHANGED <<m_isStop, queue, loops, accepted, calls, started, owned>>

Owner == owned /\ (Start \/ Stop \/ Release \/ \E a \in Addrs : Bind(a))

Worker ==
  \/ RunTask
  \/ Destruct
  \/ \E i \in DOMAIN loops : LoopCheck(i) \/ LoopAcceptClient(i) \/ LoopAcceptFail(i)

Next == Owner \/ Worker

\* The IOManager keeps running fibers that are ready: a queued task and a
\* fiber that is not blocked in accept() are eventually run.  Clients and
\* the owner's calls are not scheduled fairly.
\* The fiber or thread that drops the last reference runs the destructor
\* at once.
Fairness ==
  /\ WF_vars(RunTask)
  /\ WF_vars(Destruct)
  /\ \A i \in 1..MaxLoops : WF_vars(LoopCheck(i)) /\ WF_vars(LoopAcceptFail(i))

Spec == Init /\ [][Next]_vars /\ Fairness

(***************************************************************************)
(* Properties                                                              *)
(***************************************************************************)
TypeOK ==
  /\ m_isStop \in BOOLEAN
  /\ m_socks \subseteq DOMAIN sockState
  /\ sockState \in Seq({"listening", "closed"}) /\ Len(sockState) <= MaxSocks
  /\ queue \in Seq(Tasks)
  /\ loops \in Seq([sock : SockIds, pc : LoopPcs]) /\ Len(loops) <= MaxLoops
  /\ accepted \in 0..MaxClients /\ calls \in 0..MaxCalls
  /\ owned \in BOOLEAN /\ destroyed \in BOOLEAN

Running(i) == loops[i].pc # "done"

\* stop() can only end the accept loops through the closer, which reaches
\* the sockets of m_socks: every accept fiber still running serves a socket
\* that is in m_socks or already closed (startAccept, stop's closer).
LoopsOnTrackedSockets ==
  \A i \in DOMAIN loops :
    Running(i) => loops[i].sock \in m_socks \/ sockState[loops[i].sock] = "closed"

\* While the server is started and no closer is pending, every accept fiber
\* still running waits on a listening socket (start() after stop()).
RunningLoopsListen ==
  (~m_isStop /\ \A k \in DOMAIN queue : queue[k] # CloseTask) =>
    \A i \in DOMAIN loops : Running(i) => sockState[loops[i].sock] = "listening"

\* No accept fiber is left, running or scheduled.
AcceptStopped ==
  /\ \A i \in DOMAIN loops : ~Running(i)
  /\ \A k \in DOMAIN queue : queue[k].kind # "accept"

\* After stop(), every startAccept fiber ends unless the server is started
\* again (stop's closer cancels the blocked accept() calls).
StopEndsAcceptLoops == m_isStop ~> (~m_isStop \/ AcceptStopped)

=============================================================================
