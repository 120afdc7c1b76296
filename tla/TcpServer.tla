------------------------------ MODULE TcpServer ------------------------------
(***************************************************************************)
(* TcpServer (tcp_server.cpp) and Socket (socket.cpp) on the hooked calls: *)
(* a fiber accepts connections, each is served by a fiber of its own, and  *)
(* stop() schedules a function that closes the listening socket.  Clients  *)
(* are fibers that connect with a timeout and close.                       *)
(*                                                                         *)
(* Worker and accept worker are one IOManager, as by default, which has as *)
(* many threads as there are fibers.  All threads are hooked.              *)
(***************************************************************************)
EXTENDS Hook

CONSTANTS
    SendTimeout,    \* whether handleClient sets a timeout for sending, too
    MaxOpen         \* bound on the connections open when a client opens one more

ASSUME ServerAssumption == SendTimeout \in BOOLEAN /\ MaxOpen \in Nat

VARIABLES
    m_sock,         \* per fiber its Socket's m_sock; the acceptor's is the listening one
    m_isConnected,
    m_isStop

srvVars == <<m_sock, m_isConnected, m_isStop>>
vars == <<fdVars, netVars, pollVars, callVars, pc, srvVars>>

\* CreateTCP, bind and listen have succeeded, on a hooked thread: the first
\* descriptor is the listening socket's.
bind ==
    /\ file = [fd \in Fds |-> IF fd = 1 THEN Listen ELSE Closed]
    /\ nonblock = {1}
    /\ datas = [fd \in Fds |-> IF fd = 1 THEN FdCtx(Listen) ELSE NoCtx]
    /\ m_sock = [f \in Fibers |-> IF f = Acceptor THEN 1 ELSE 0]

Init ==
    /\ HookInit
    /\ bind
    /\ pc = [f \in Fibers |-> "off"]
    /\ m_isConnected = [f \in Fibers |-> FALSE]
    /\ m_isStop = TRUE
-----------------------------------------------------------------------------
(* Socket.                                                                 *)

\* Mutant: m_sock keeps the closed descriptor.
SocketClosedStale(f) == UNCHANGED m_sock

\* The last assignment of Socket::close.
SocketClosed(f) == m_sock' = [m_sock EXCEPT ![f] = 0]

\* Mutant: a socket that was never connected is left open.
NothingToCloseEager(f) == ~m_isConnected[f] \/ m_sock[f] = 0

\* The early return of Socket::close.
NothingToClose(f) == ~m_isConnected[f] /\ m_sock[f] = 0

\* Behind close handleClient may close once more; the destructors of a client's and
\* of the listening Socket find nothing left to close.
Behind(f) == IF f \in Conns THEN "closed" ELSE "done"

\* Socket::close, from close() or the destructor, and the descriptor that f closes:
\* its own or, in the function of stop(), the listening one.
OwnerOf(f) == IF f = Stopper THEN Acceptor ELSE f

Socket_close(f) ==
    /\ IF NothingToClose(OwnerOf(f))
       THEN Goto(f, "done") /\ UNCHANGED m_isConnected
       ELSE /\ m_isConnected' = [m_isConnected EXCEPT ![OwnerOf(f)] = FALSE]
            /\ Goto(f, IF m_sock[OwnerOf(f)] # 0 THEN "close" ELSE Behind(f))
    /\ UNCHANGED <<fdVars, netVars, pollVars, callVars, m_sock, m_isStop>>

\* Mutant: the descriptor is closed before its context is forgotten.
closeStepsSwapped(f, fd) ==
    \/ close_cancelAll(f, fd) /\ UNCHANGED srvVars
    \/ /\ pc[f] = "del"
       /\ CloseFile(f, fd)
       /\ Goto(f, "close_f")
       /\ UNCHANGED <<datas, callVars, srvVars>>
    \/ /\ pc[f] = "close_f"
       /\ del(fd)
       /\ SocketClosed(OwnerOf(f))
       /\ Goto(f, Behind(f))
       /\ UNCHANGED <<file, nonblock, netVars, pollVars, callVars, m_isConnected, m_isStop>>

\* The hooked close, and what Socket::close does after it.
closeSteps(f, fd) ==
    \/ close_cancelAll(f, fd) /\ UNCHANGED srvVars
    \/ close_del(f, fd) /\ UNCHANGED srvVars
    \/ /\ pc[f] = "close_f"
       /\ CloseFile(f, fd)
       /\ SocketClosed(OwnerOf(f))
       /\ Goto(f, Behind(f))
       /\ UNCHANGED <<datas, callVars, m_isConnected, m_isStop>>

Close(f) ==
    /\ pc[f] \in {"close", "del", "close_f"}
    /\ closeSteps(f, m_sock[OwnerOf(f)])
-----------------------------------------------------------------------------
(* The server.                                                             *)

start ==
    /\ pc[Acceptor] = "off"
    /\ m_isStop' = FALSE
    /\ Goto(Acceptor, "queued")
    /\ UNCHANGED <<fdVars, netVars, pollVars, callVars, m_sock, m_isConnected>>

stop ==
    /\ pc[Acceptor] # "off"
    /\ pc[Stopper] = "off"
    /\ m_isStop' = TRUE
    /\ Goto(Stopper, "queued")
    /\ UNCHANGED <<fdVars, netVars, pollVars, callVars, m_sock, m_isConnected>>

\* The scheduled function: cancelAll, then close, then m_socks.clear().
stop_cancelAll ==
    /\ pc[Stopper] = "queued"
    /\ trigger(m_sock[Acceptor], cancelAll(m_sock[Acceptor]))
    /\ Goto(Stopper, "shut")
    /\ UNCHANGED <<fdVars, netVars, reports, callVars, srvVars>>

stop_close == pc[Stopper] = "shut" /\ Socket_close(Stopper)

\* startAccept: the test of its loop, and the call of accept.
startAccept ==
    /\ pc[Acceptor] \in {"queued", "loop", "failed"}
    /\ IF m_isStop
       THEN Goto(Acceptor, "done") /\ UNCHANGED callVars
       ELSE do_io(Acceptor, m_sock[Acceptor], "READ")
    /\ UNCHANGED <<fdVars, netVars, pollVars, srvVars>>

\* accept_f returns a connection; without a free descriptor it fails.
accept ==
    /\ pc[Acceptor] = "call"
    /\ arg[Acceptor] # 0
    /\ file[arg[Acceptor]] = Listen
    /\ backlog # <<>>
    /\ IF TableFull
       THEN Return(Acceptor, "failed") /\ UNCHANGED <<file, backlog>>
       ELSE /\ file' = [file EXCEPT ![NewFd] = Head(backlog)]
            /\ backlog' = Tail(backlog)
            /\ arg' = [arg EXCEPT ![Acceptor] = NewFd]
            /\ Goto(Acceptor, "accepted")
            /\ UNCHANGED <<event, to, cancelled, expired>>
    /\ UNCHANGED <<nonblock, datas, inbox, outbox, link, pollVars, timer, cancels, srvVars>>

\* The hooked accept makes the context, Socket::init takes the descriptor,
\* setRecvTimeout sets its timeout and handleClient is scheduled, which may begin
\* with setSendTimeout.
accept_init ==
    LET fd == arg[Acceptor]
        c  == file[fd]
    IN  /\ pc[Acceptor] = "accepted"
        /\ getOrCreate(fd, TRUE, SendTimeout)
        /\ m_sock' = [m_sock EXCEPT ![c] = fd]
        /\ m_isConnected' = [m_isConnected EXCEPT ![c] = TRUE]
        /\ pc' = [pc EXCEPT ![Acceptor] = "loop", ![c] = "serving"]
        /\ UNCHANGED <<file, netVars, pollVars, callVars, m_isStop>>
-----------------------------------------------------------------------------
(* handleClient of connection c: it receives and sends for as long as it   *)
(* likes and returns, which destroys the Socket; it may close the Socket   *)
(* before.                                                                 *)

recv(c) ==
    /\ pc[c] = "serving"
    /\ do_io(c, m_sock[c], "READ")
    /\ UNCHANGED <<fdVars, netVars, pollVars, srvVars>>

\* recv_f returns data, or 0 because the peer has finished, or ECONNRESET.
recv_f(c) ==
    /\ pc[c] = "call"
    /\ event[c] = "READ"
    /\ file[arg[c]] = c
    /\ Ready(arg[c], "READ")
    /\ Return(c, IF inbox[c] = "data" THEN "serving" ELSE "failed")
    /\ inbox' = [inbox EXCEPT ![c] = IF @ = "data" THEN "empty" ELSE @]
    /\ UNCHANGED <<fdVars, backlog, outbox, link, pollVars, timer, cancels, srvVars>>

send(c) ==
    /\ pc[c] = "serving"
    /\ do_io(c, m_sock[c], "WRITE")
    /\ UNCHANGED <<fdVars, netVars, pollVars, srvVars>>

\* send_f fills the buffer, until the peer reads, or fails.
send_f(c) ==
    /\ pc[c] = "call"
    /\ event[c] = "WRITE"
    /\ file[arg[c]] = c
    /\ Ready(arg[c], "WRITE")
    /\ Return(c, IF inbox[c] = "reset" THEN "failed" ELSE "serving")
    /\ outbox' = [outbox EXCEPT ![c] = IF inbox[c] = "reset" THEN @ ELSE "full"]
    /\ UNCHANGED <<fdVars, backlog, inbox, link, pollVars, timer, cancels, srvVars>>

\* The user asks for O_NONBLOCK, or for blocking calls.
setNonblock(c, flag) ==
    /\ pc[c] = "serving"
    /\ datas[m_sock[c]].m_userNonblock # flag
    /\ fcntl(m_sock[c], flag)
    /\ UNCHANGED <<file, netVars, pollVars, callVars, pc, srvVars>>

handleClient_close(c) ==
    /\ pc[c] \in {"serving", "failed", "closed"}
    /\ Socket_close(c)
-----------------------------------------------------------------------------
(* A client.                                                               *)

\* newSock: socket_f, then the context.
socket(c) ==
    /\ pc[c] = "off"
    /\ TableFull \/ Cardinality({fd \in Fds : file[fd] \in Conns \cup Clients}) < MaxOpen
    /\ IF TableFull THEN Goto(c, "done") /\ UNCHANGED <<file, m_sock>>
       ELSE /\ file' = [file EXCEPT ![NewFd] = c]
            /\ m_sock' = [m_sock EXCEPT ![c] = NewFd]
            /\ Goto(c, "socket")
    /\ UNCHANGED <<nonblock, datas, netVars, pollVars, callVars, m_isConnected, m_isStop>>

socket_get(c) ==
    /\ pc[c] = "socket"
    /\ getOrCreate(m_sock[c], FALSE, FALSE)
    /\ Goto(c, "connect")
    /\ UNCHANGED <<file, netVars, pollVars, callVars, srvVars>>

\* connect_f succeeds, fails, or is in progress; then a timer is added.
\* Socket::connect sets m_isConnected when connect returns 0.
connect_f(c) ==
    /\ pc[c] = "connect"
    /\ link' \in {[link EXCEPT ![c] = l] : l \in {"up", "refused", "pending"}}
    /\ CASE link'[c] = "up"      -> Goto(c, "connected") /\ UNCHANGED callVars
         [] link'[c] = "refused" -> Goto(c, "failed") /\ UNCHANGED callVars
         [] link'[c] = "pending" -> /\ Goto(c, "add")
                                    /\ arg' = [arg EXCEPT ![c] = m_sock[c]]
                                    /\ event' = [event EXCEPT ![c] = "WRITE"]
                                    /\ to' = [to EXCEPT ![c] = "timed"]
                                    /\ timer' = [timer EXCEPT ![c] = TRUE]
                                    /\ UNCHANGED <<cancelled, expired, cancels>>
    /\ m_isConnected' = [m_isConnected EXCEPT ![c] = (link'[c] = "up")]
    /\ UNCHANGED <<fdVars, backlog, inbox, outbox, pollVars, m_sock, m_isStop>>

\* What SO_ERROR says: it is 0 for a connection in progress, too.
SoError(c) == IF link[c] = "refused" THEN "failed" ELSE "connected"

\* connect returns this, with the timer cancelled.
ConnectReturns(c, result) ==
    /\ timer' = [timer EXCEPT ![c] = FALSE]
    /\ Return(c, result)
    /\ m_isConnected' = [m_isConnected EXCEPT ![c] = (result = "connected")]
    /\ UNCHANGED <<fdVars, netVars, cancels, m_sock, m_isStop>>

\* If the event cannot be added, connect looks at SO_ERROR at once.
connect_addEvent(c) ==
    /\ pc[c] = "add"
    /\ IF AddEventWorks(arg[c]) THEN do_io_addEvent(c) /\ UNCHANGED srvVars
       ELSE ConnectReturns(c, SoError(c)) /\ UNCHANGED pollVars

\* ETIMEDOUT, or SO_ERROR.
ConnectResult(c) == IF cancelled[c] THEN "failed" ELSE SoError(c)

connect_resume(c) == SwitchedBack(c) /\ ConnectReturns(c, ConnectResult(c))

\* Socket::connect closes after a failure; the client closes in any case.
client_close(c) == pc[c] \in {"failed", "connected"} /\ Socket_close(c)
-----------------------------------------------------------------------------
(* The peers.                                                              *)

\* The connections wait to be accepted in the order in which they are opened.
PeerConnects(c) ==
    /\ pc[c] = "off"
    /\ Listen \in {file[fd] : fd \in Fds}
    /\ backlog' = Append(backlog, c)
    /\ Goto(c, "opened")
    /\ UNCHANGED <<fdVars, inbox, outbox, link, pollVars, callVars, srvVars>>

\* Something can be received: data, or the end of what the peer sends.
PeerSends(c) ==
    /\ c \in {file[fd] : fd \in Fds}
    /\ inbox[c] = "empty"
    /\ inbox' = [inbox EXCEPT ![c] = "data"]
    /\ UNCHANGED <<fdVars, backlog, outbox, link, pollVars, callVars, pc, srvVars>>

\* The connection is reset, and what was on its way is dropped.
PeerResets(c) ==
    /\ c \in {file[fd] : fd \in Fds}
    /\ inbox[c] # "reset"
    /\ inbox' = [inbox EXCEPT ![c] = "reset"]
    /\ outbox' = [outbox EXCEPT ![c] = "room"]
    /\ UNCHANGED <<fdVars, backlog, link, pollVars, callVars, pc, srvVars>>

PeerReads(c) ==
    /\ outbox[c] = "full"
    /\ outbox' = [outbox EXCEPT ![c] = "room"]
    /\ UNCHANGED <<fdVars, backlog, inbox, link, pollVars, callVars, pc, srvVars>>

PeerAnswers(c) ==
    /\ link[c] = "pending"
    /\ link' \in {[link EXCEPT ![c] = l] : l \in {"up", "refused"}}
    /\ UNCHANGED <<fdVars, backlog, inbox, outbox, pollVars, callVars, pc, srvVars>>
-----------------------------------------------------------------------------
AcceptStep ==
    /\ ~fault
    /\ \/ startAccept \/ accept \/ accept_init
       \/ /\ \/ do_io_error(Acceptor) \/ do_io_again(Acceptor)
             \/ do_io_addEvent(Acceptor) \/ do_io_resume(Acceptor)
          /\ UNCHANGED srvVars

StopStep == ~fault /\ (stop_cancelAll \/ stop_close \/ Close(Stopper))

\* What fiber c does between its calls is up to handleClient, but it ends.
ServeStep(c) ==
    /\ ~fault
    /\ \/ recv_f(c) \/ send_f(c) \/ handleClient_close(c) \/ Close(c)
       \/ /\ do_io_error(c) \/ do_io_again(c) \/ do_io_addEvent(c) \/ do_io_resume(c)
          /\ UNCHANGED srvVars

HandleStep(c) ==
    ~fault /\ (recv(c) \/ send(c) \/ \E flag \in BOOLEAN : setNonblock(c, flag))

ClientStep(c) ==
    /\ ~fault
    /\ \/ socket(c) \/ socket_get(c) \/ connect_f(c) \/ connect_resume(c)
       \/ connect_addEvent(c) \/ client_close(c) \/ Close(c)

TimerStep(f) == ~fault /\ (TimerExpires(f) \/ CallbackCheck(f)) /\ UNCHANGED srvVars

CancelStep(fd) == ~fault /\ \E ev \in Event : CallbackCancel(fd, ev) /\ UNCHANGED srvVars

PollStep(fd) ==
    /\ ~fault
    /\ epoll_wait(fd) \/ \E evs \in SUBSET Event : Process(fd, evs)
    /\ UNCHANGED srvVars

Peers ==
    \/ \E c \in Conns : PeerConnects(c) \/ PeerSends(c) \/ PeerResets(c) \/ PeerReads(c)
    \/ \E c \in Clients : PeerAnswers(c)

\* A process that has crashed makes no step.
Next ==
    \/ ~fault /\ (start \/ stop \/ Peers)
    \/ AcceptStep \/ StopStep
    \/ \E c \in Conns : ServeStep(c) \/ HandleStep(c)
    \/ \E c \in Clients : ClientStep(c)
    \/ \E f \in Conns \cup Clients : TimerStep(f)
    \/ \E fd \in Fds : CancelStep(fd) \/ PollStep(fd)

\* Timers expire and run their callback, as long as the process has not crashed.
TimerFairness ==
    /\ \A f \in Conns \cup Clients : WF_vars(TimerStep(f))
    /\ \A fd \in Fds : WF_vars(CancelStep(fd))

\* Every fiber that can run does, and epoll reports what is ready.  No peer has to do
\* anything, and nobody has to call stop().
FiberFairness ==
    /\ WF_vars(AcceptStep) /\ WF_vars(StopStep)
    /\ \A c \in Conns : WF_vars(ServeStep(c))
    /\ \A c \in Clients : WF_vars(ClientStep(c))
    /\ \A fd \in Fds : WF_vars(PollStep(fd))

TimerSpec == Init /\ [][Next]_vars /\ TimerFairness

Spec == TimerSpec /\ FiberFairness
-----------------------------------------------------------------------------
(* Properties.                                                             *)

\* The tables have their types, a file has one descriptor at most, and a timer, or a
\* callback that has not looked at its call yet, belongs to a timed call under way.
ServerTypeOK ==
    /\ file \in [Fds -> Files \cup {Closed}]
    /\ nonblock \subseteq Fds
    /\ watched \subseteq Fds
    /\ m_events \subseteq Fds \X Event
    /\ \A fd \in Fds : \A ev \in Event : slot[fd][ev] \in Fibers \cup {Nobody}
    /\ tickets \in [Fibers -> Nat]
    /\ m_sock \in [Fibers -> 0..MaxFd]
    /\ arg \in [Fibers -> 0..MaxFd]
    /\ \A f \in Files : Cardinality({fd \in Fds : file[fd] = f}) <= 1
    /\ inbox \in [Conns -> {"empty", "data", "reset"}]
    /\ \A f \in Fibers : timer[f] \/ f \in expired => to[f] = "timed" /\ pc[f] \in InCall

\* A context belongs to the file its descriptor refers to now: close() forgets it
\* before the kernel can give the number to a connection that another thread
\* accepts, so no connection inherits a timeout or a mode.
CtxMatchesFile == \A fd \in Fds : datas[fd] # NoCtx => datas[fd].file = file[fd]

\* A fiber that serves a connection or connects works on its own socket as long as
\* it holds it, although numbers are reused and close() may be called twice.
OwnSocket ==
    \A f \in Conns \cup Clients : m_sock[f] # 0 /\ pc[f] # "closed" => file[m_sock[f]] = f

\* A call on the file it is meant for finds O_NONBLOCK set in the kernel, whatever
\* the user asks for with fcntl and however far a close() has come: no worker thread
\* blocks in a system call.
NeverBlocks ==
    \A f \in Fibers :
        pc[f] \in {"call", "add", "wait"} /\ arg[f] # 0 /\ file[arg[f]] = FileOf(f)
        => arg[f] \in nonblock

\* No wake-up is lost: a fiber with a socket of its own that is switched away has
\* its event registered, with itself in the slot and the descriptor in epoll, whoever
\* triggers or cancels events of the same number, or had it before.  It is not so of
\* the acceptor: see StopEndsAccept.
WaitersWatched ==
    \A f \in Conns \cup Clients :
        pc[f] = "wait" /\ tickets[f] = 0
        => /\ <<arg[f], event[f]>> \in m_events
           /\ slot[arg[f]][event[f]] = f
           /\ arg[f] \in watched

\* A fiber that has ended leaves no descriptor and no context behind.
NoLeak ==
    \A f \in Conns \cup Clients :
        pc[f] = "done" => \A fd \in Fds : file[fd] # f /\ datas[fd].file # f

\* A call with a timeout is not switched away for ever, even if the peer stays silent
\* (unless its timer fired before the event was added).
TimedWaitEnds ==
    \A f \in Conns \cup Clients :
        pc[f] = "wait" /\ to[f] = "timed" /\ ~cancelled[f]
            ~> pc[f] # "wait" \/ tickets[f] > 0 \/ fault

\* stop() stops the service (tcp_server.h): the accept loop ends, whether it
\* was waiting for a connection, accepting one or not yet started.
StopEndsAccept == m_isStop /\ pc[Acceptor] # "off" ~> pc[Acceptor] = "done" \/ fault
=============================================================================
