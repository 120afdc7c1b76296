---------------------------- MODULE ServerProofs ----------------------------
(***************************************************************************)
(* The safety properties of TcpServer, Hook and FdManager, for any numbers *)
(* of connections, clients and descriptors.                                *)
(*                                                                         *)
(* They all rest on one question: whose is a descriptor number?  The       *)
(* kernel gives the lowest free number to the next file, at once after     *)
(* close_f, so a number alone says nothing.  Inv answers it for every      *)
(* position of every fiber: a worker holds the number of a file that is    *)
(* its own from socket() or the acceptor's hand-over until close_f         *)
(* (Sockets), every open file is held by exactly the fiber it belongs to   *)
(* (Table, Accepted, Listening), and a worker that is switched away has a  *)
(* ticket or its registration (Waits).  None of the properties is          *)
(* inductive without the rest: OwnSocket needs the table to be right when  *)
(* accept gives out a number, the table needs the order of the three steps *)
(* of close(), and a registration survives because nobody else can         *)
(* register the same event of the same number: another worker holds        *)
(* another number, and the one number that the acceptor may use after it   *)
(* was closed, the listening socket's, goes to a client at most, which     *)
(* waits to write.                                                         *)
(*                                                                         *)
(* Inv says nothing of what is late: reports is any set, cancels any set   *)
(* of pairs, a slot keeps any fiber, m_events any left-over, and a ticket  *)
(* may come from any of them.  The theorems hold nevertheless.             *)
(***************************************************************************)
EXTENDS TcpServer, FiniteSetTheorems, WellFoundedInduction, TLAPS

\* The fibers with a socket of their own.
Workers == Conns \cup Clients

\* Where a worker holds its socket.
Holding == {"serving", "call", "add", "wait", "failed", "socket",
            "connect", "connected", "close", "del", "close_f"}

Contexts == [file : Files \cup {Closed}, m_userNonblock : BOOLEAN,
             m_recvTimeout : BOOLEAN, m_sendTimeout : BOOLEAN]

Inboxes == {"empty", "data", "reset"}
Links   == {"none", "up", "refused", "pending"}

PollTypes ==
    /\ m_events \subseteq Fds \X Event
    /\ slot \in [Fds -> [Event -> Fibers \cup {Nobody}]]
    /\ watched \subseteq Fds
    /\ tickets \in [Fibers -> Nat]

Types ==
    /\ file \in [Fds -> Files \cup {Closed}]
    /\ nonblock \subseteq Fds
    /\ datas \in [Fds -> Contexts]
    /\ backlog \in Seq(Conns)
    /\ inbox \in [Conns -> Inboxes]
    /\ link \in [Clients -> Links]
    /\ PollTypes
    /\ arg \in [Fibers -> Fds \cup {0}]
    /\ event \in [Fibers -> Event]
    /\ to \in [Fibers -> {"plain", "never", "timed"}]
    /\ timer \in [Fibers -> BOOLEAN]
    /\ expired \subseteq Fibers
    /\ cancels \subseteq Fds \X Event
    /\ m_sock \in [Fibers -> Fds \cup {0}]

\* The positions each kind of fiber can be at.
ConnPC    == {"off", "opened", "serving", "call", "add", "wait", "failed",
              "close", "del", "close_f", "closed", "done"}
ClientPC  == {"off", "socket", "connect", "connected", "add", "wait", "failed",
              "close", "del", "close_f", "done"}
AcceptPC  == {"off", "queued", "loop", "call", "add", "wait", "accepted", "failed", "done"}
StopPC    == {"off", "queued", "shut", "close", "del", "close_f", "done"}

Positions ==
    /\ pc = [f \in Fibers |-> pc[f]]
    /\ \A c \in Conns : pc[c] \in ConnPC
    /\ \A c \in Clients : pc[c] \in ClientPC
    /\ pc[Acceptor] \in AcceptPC
    /\ pc[Stopper] \in StopPC

\* A worker that holds its socket has the descriptor of a file that is its own,
\* with a context from getOrCreate on and until close() forgets it.  A client waits
\* only to write.
SockOK(f) ==
    /\ pc[f] \in Holding => m_sock[f] \in Fds /\ file[m_sock[f]] = f
    /\ pc[f] \notin Holding => m_sock[f] = 0
    /\ pc[f] \in InCall => arg[f] = m_sock[f] /\ (f \in Clients => event[f] = "WRITE")
    /\ pc[f] \in Holding \ {"socket", "close_f"} => datas[m_sock[f]].file = f
    /\ pc[f] \in {"socket", "close_f"} => datas[m_sock[f]] = NoCtx

Sockets == \A f \in Workers : SockOK(f)

\* The connection that the acceptor has just been given and has not yet handed to
\* its fiber.
Fresh(fd) == pc[Acceptor] = "accepted" /\ arg[Acceptor] = fd

\* Every file has one descriptor and whoever works on it knows the number; a
\* context goes with the file its descriptor refers to.
Table ==
    \A fd \in Fds :
        /\ file[fd] \in Workers => m_sock[file[fd]] = fd \/ Fresh(fd)
        /\ file[fd] = Listen => fd = 1 /\ fd \in nonblock
        /\ datas[fd] # NoCtx => /\ file[fd] # Closed
                                /\ datas[fd].file = file[fd]
                                /\ fd \in nonblock

Accepted ==
    pc[Acceptor] = "accepted" =>
        /\ arg[Acceptor] \in Fds
        /\ file[arg[Acceptor]] \in Conns
        /\ pc[file[arg[Acceptor]]] = "opened"
        /\ datas[arg[Acceptor]] = NoCtx

\* A connection in the backlog has no descriptor yet, and is there once.
Queue ==
    \A i \in 1..Len(backlog) :
        /\ pc[backlog[i]] = "opened"
        /\ \A fd \in Fds : file[fd] # backlog[i]
        /\ \A j \in 1..Len(backlog) : backlog[i] = backlog[j] => i = j

\* The listening socket has the first number until the function of stop() closes it.
\* The acceptor may be anywhere in its loop then, so that its call may go on with a
\* number that is somebody else's: a client's, but no connection's.
Listening ==
    /\ pc[Stopper] # "done" => m_sock[Acceptor] = 1 /\ file[1] = Listen
    /\ pc[Stopper] = "done" => m_sock[Acceptor] = 0
    /\ pc[Stopper] \notin {"close_f", "done"} => datas[1] = FdCtx(Listen)
    /\ pc[Stopper] = "close_f" => datas[1] = NoCtx
    /\ file[1] \notin Conns
    /\ pc[Acceptor] \in InCall =>
          arg[Acceptor] \in {0, 1} /\ event[Acceptor] = "READ" /\ to[Acceptor] # "timed"
    /\ pc[Acceptor] \in {"add", "wait"} => arg[Acceptor] = 1

\* Worker f is switched away and nobody has scheduled it: its event is registered,
\* with f in the slot, and epoll watches the descriptor.
WaitOK(f) ==
    pc[f] = "wait" /\ tickets[f] = 0
    => /\ <<arg[f], event[f]>> \in m_events
       /\ slot[arg[f]][event[f]] = f
       /\ arg[f] \in watched

Waits == \A f \in Workers : WaitOK(f)

\* A timer runs only for a call that is under way, and was added behind EAGAIN.
Timing ==
    \A f \in Fibers :
        /\ timer[f] => pc[f] \in {"add", "wait"}
        /\ timer[f] \/ f \in expired => to[f] = "timed" /\ pc[f] \in InCall

Inv ==
    /\ Types /\ Positions /\ Sockets /\ Table /\ Accepted
    /\ Queue /\ Listening /\ Waits /\ Timing

-----------------------------------------------------------------------------
(* Descriptors.                                                            *)

\* 0, which stands for -1, is no descriptor, and 1 is one.
LEMMA FdFacts == 0 \notin Fds /\ 0..MaxFd = Fds \cup {0} /\ 1 \in Fds /\ Fds \subseteq Nat
BY FdAssumption DEF Fds

\* A set of numbers that is not empty has a least element.
LEMMA Lowest ==
    ASSUME NEW S, S \subseteq Nat, S # {}
    PROVE  \E n \in S : \A m \in S : n <= m
<1> DEFINE Less == {pair \in Nat \X Nat : pair[1] < pair[2]}
<1>1. IsWellFoundedOn(Less, Nat) BY NatLessThanWellFounded DEF OpToRel
<1>2. \A x, y \in Nat : <<y, x>> \in Less <=> y < x OBVIOUS
<1> HIDE DEF Less
<1>3. PICK n \in S : \A m \in S : <<m, n>> \notin Less BY <1>1, WFMin
<1>4. \A m \in S : ~(m < n) BY <1>2, <1>3
<1> QED BY <1>4

\* The kernel has a free number to give unless the table is full.
LEMMA NewFdFree ==
    ASSUME ~TableFull
    PROVE  NewFd \in Fds /\ file[NewFd] = Closed
<1> DEFINE Free == {fd \in Fds : file[fd] = Closed}
<1>1. Free \subseteq Nat /\ Free # {} BY FdFacts DEF TableFull
<1>2. \E fd \in Free : \A other \in Free : fd <= other BY <1>1, Lowest
<1> QED BY <1>2 DEF NewFd

\* The registrations stay in order if no more fibers wait, for the same events.
LEMMA WaitsFrame ==
    ASSUME Inv, UNCHANGED <<m_events, slot, watched>>,
           \A g \in Workers : pc'[g] = "wait" =>
               /\ pc[g] = "wait" /\ tickets'[g] = tickets[g]
               /\ arg'[g] = arg[g] /\ event'[g] = event[g]
    PROVE  Waits'
BY DEF Inv, Waits, WaitOK

\* The backlog stays in order while its connections do not move.
LEMMA QueueFrame ==
    ASSUME Inv, UNCHANGED <<backlog, file>>,
           \A i \in 1..Len(backlog) : pc'[backlog[i]] = "opened"
    PROVE  Queue'
BY DEF Inv, Queue

\* A fiber that is under way is not in the backlog.
LEMMA QueueOthers ==
    ASSUME Inv, UNCHANGED <<backlog, file>>, NEW f, pc[f] # "opened",
           \A g \in Fibers \ {f} : pc'[g] = pc[g]
    PROVE  Queue'
<1> SUFFICES ASSUME NEW i \in 1..Len(backlog) PROVE pc'[backlog[i]] = "opened"
  BY QueueFrame
<1>1. backlog[i] \in Fibers BY DEF Inv, Types, Fibers
<1>2. pc[backlog[i]] = "opened" BY DEF Inv, Queue
<1> QED BY <1>1, <1>2

\* Inv holds of a server that is bound and not started.
LEMMA InitInv == Init => Inv
<1> SUFFICES ASSUME Init PROVE Inv OBVIOUS
<1> USE HookAssumption, FdAssumption, FdFacts DEF Init, HookInit, bind, Fibers
<1>1. Types BY DEF Types, PollTypes, Contexts, FdCtx, NoCtx, Event, Inboxes, Links
<1>2. Positions BY DEF Positions, ConnPC, ClientPC, AcceptPC, StopPC
<1>3. Sockets BY DEF Sockets, SockOK, Workers, Holding, InCall
<1>4. Table BY DEF Table, Workers, FdCtx, NoCtx
<1>5. Accepted /\ Queue BY DEF Accepted, Queue
<1>6. Listening BY DEF Listening, InCall
<1>7. Waits BY DEF Waits, WaitOK, Workers
<1>8. Timing BY DEF Timing
<1> QED BY <1>1, <1>2, <1>3, <1>4, <1>5, <1>6, <1>7, <1>8 DEF Inv

-----------------------------------------------------------------------------
(* Steps of the server and the sockets that move one fiber only.           *)

\* start() and stop() only schedule a fiber.
LEMMA StartStopKeeps == ASSUME Inv, start \/ stop PROVE Inv'
<1> USE HookAssumption DEF Inv, fdVars, netVars, pollVars, callVars
<1>1. PICK f \in {Acceptor, Stopper} :
           /\ pc[f] = "off" /\ pc' = [pc EXCEPT ![f] = "queued"]
           /\ UNCHANGED <<fdVars, netVars, pollVars, callVars, m_sock>>
  BY DEF start, stop, Goto
<1>2. f \in Fibers /\ f \notin Workers BY DEF Fibers, Workers
<1>3. Types' BY <1>1 DEF Types, PollTypes
<1>4. Positions'
  BY <1>1, <1>2 DEF Positions, Workers, ConnPC, ClientPC, AcceptPC, StopPC
<1>5. Sockets' BY <1>1, <1>2 DEF Sockets, SockOK, Positions
<1>6. Table' /\ Accepted' BY <1>1, <1>2 DEF Table, Accepted, Positions, Fresh, Types, Workers
<1>7. Queue' BY <1>1, <1>2 DEF Queue, Positions, Types, Workers
<1>8. Listening' BY <1>1, <1>2 DEF Listening, Positions, InCall
<1>9. Waits' BY <1>1, <1>2 DEF Waits, WaitOK, Positions
<1>10. Timing' BY <1>1, <1>2 DEF Timing, Positions, InCall
<1> QED BY <1>3, <1>4, <1>5, <1>6, <1>7, <1>8, <1>9, <1>10

\* Socket::close of a worker: it goes on to close its descriptor, or has none.
LEMMA WorkerCloseKeeps ==
    ASSUME Inv, NEW f \in Workers, Socket_close(f),
           pc[f] \in {"serving", "failed", "connected", "closed"}
    PROVE  Inv'
<1> USE HookAssumption, FdFacts DEF Inv, fdVars, netVars, pollVars, callVars
<1>1. OwnerOf(f) = f /\ f \in Fibers BY DEF OwnerOf, Workers, Fibers
<1>2. PICK l \in {"close", "closed", "done"} :
           /\ pc' = [pc EXCEPT ![f] = l]
           /\ l = "close" <=> m_sock[f] # 0
           /\ l = "closed" => f \in Conns
           /\ UNCHANGED <<fdVars, netVars, pollVars, callVars, m_sock, m_isStop>>
  BY <1>1 DEF Socket_close, Goto, NothingToClose, Behind, Types
<1>3. Types' BY <1>2 DEF Types, PollTypes
<1>4. Positions'
  BY <1>1, <1>2 DEF Positions, Workers, ConnPC, ClientPC, AcceptPC, StopPC
<1>5. Sockets' BY <1>1, <1>2 DEF Sockets, SockOK, Positions, Holding, InCall
<1>6. Table' /\ Accepted'
  BY <1>1, <1>2 DEF Table, Accepted, Positions, Fresh, Types, Workers
<1>7. Queue' BY <1>1, <1>2 DEF Queue, Positions, Types, Workers
<1>8. Listening' BY <1>1, <1>2 DEF Listening, Positions, InCall, Workers
<1>9. Waits' BY <1>1, <1>2 DEF Waits, WaitOK, Positions
<1>10. Timing' BY <1>1, <1>2 DEF Timing, Positions, InCall
<1> QED BY <1>3, <1>4, <1>5, <1>6, <1>7, <1>8, <1>9, <1>10

\* Socket::close of the listening socket, in the function of stop().
LEMMA StopCloseKeeps == ASSUME Inv, stop_close PROVE Inv'
<1> USE HookAssumption, FdFacts DEF Inv, fdVars, netVars, pollVars, callVars
<1>1. /\ OwnerOf(Stopper) = Acceptor /\ Stopper \in Fibers /\ Acceptor \in Fibers
      /\ Stopper \notin Workers
  BY DEF OwnerOf, Fibers, Workers
<1>2. /\ pc' = [pc EXCEPT ![Stopper] = "close"]
      /\ pc[Stopper] = "shut"
      /\ UNCHANGED <<fdVars, netVars, pollVars, callVars, m_sock, m_isStop>>
  <2>1. pc[Stopper] = "shut" /\ Socket_close(Stopper) BY DEF stop_close
  <2>2. m_sock[Acceptor] # 0 BY <2>1 DEF Listening
  <2> QED BY <1>1, <2>1, <2>2 DEF Socket_close, Goto, NothingToClose
<1>3. Types' BY <1>2 DEF Types, PollTypes
<1>4. Positions'
  BY <1>1, <1>2 DEF Positions, Workers, ConnPC, ClientPC, AcceptPC, StopPC
<1>5. Sockets' BY <1>1, <1>2 DEF Sockets, SockOK, Positions
<1>6. Table' /\ Accepted'
  BY <1>1, <1>2 DEF Table, Accepted, Positions, Fresh, Types, Workers
<1>7. Queue' BY <1>1, <1>2 DEF Queue, Positions, Types, Workers
<1>8. Listening' BY <1>1, <1>2 DEF Listening, Positions, InCall, StopPC
<1>9. Waits' BY <1>1, <1>2 DEF Waits, WaitOK, Positions
<1>10. Timing' BY <1>1, <1>2 DEF Timing, Positions, InCall
<1> QED BY <1>3, <1>4, <1>5, <1>6, <1>7, <1>8, <1>9, <1>10

-----------------------------------------------------------------------------
(* Whose is a descriptor.                                                  *)

\* The contexts and files of two fibers are not on the same descriptor.
LEMMA Apart ==
    ASSUME Inv
    PROVE  /\ \A f, g \in Workers :
                 (pc[f] \in Holding /\ pc[g] \in Holding /\ m_sock[f] = m_sock[g]) => f = g
           /\ \A f \in Workers : pc[f] \in Holding => m_sock[f] # m_sock[Acceptor]
<1> USE HookAssumption, FdFacts DEF Inv
<1>1. \A f \in Workers : pc[f] \in Holding => m_sock[f] \in Fds /\ file[m_sock[f]] = f
  BY DEF Sockets, SockOK
<1>2. m_sock[Acceptor] = 0 \/ (m_sock[Acceptor] = 1 /\ file[1] = Listen) BY DEF Listening
<1>3. Listen \notin Workers BY DEF Workers
<1> QED BY <1>1, <1>2, <1>3

\* A worker's socket is in order as long as nobody touches what it refers to.
LEMMA SockFrame ==
    ASSUME Inv, NEW g \in Workers, pc'[g] = pc[g], m_sock'[g] = m_sock[g],
           pc[g] \in InCall => arg'[g] = arg[g] /\ event'[g] = event[g],
           pc[g] \in Holding => /\ file'[m_sock[g]] = file[m_sock[g]]
                                /\ datas'[m_sock[g]] = datas[m_sock[g]]
    PROVE  SockOK(g)'
<1>1. SockOK(g) BY DEF Inv, Sockets
<1>2. NoCtx' = NoCtx BY DEF NoCtx, FdCtx
<1> HIDE DEF NoCtx
<1>3. pc[g] \in InCall \cup {"socket", "close_f"} => pc[g] \in Holding
  BY DEF InCall, Holding
<1> QED BY <1>1, <1>2, <1>3 DEF SockOK

\* A worker that waits does so at its own descriptor.
LEMMA WaitsOwn ==
    ASSUME Inv, NEW g \in Workers, pc[g] = "wait"
    PROVE  arg[g] = m_sock[g] /\ m_sock[g] \in Fds /\ file[m_sock[g]] = g
BY DEF Inv, Sockets, SockOK, InCall, Holding

-----------------------------------------------------------------------------
(* Events that are triggered.                                              *)

\* trigger schedules the fibers it takes out of m_events, so that whoever is still
\* switched away without a ticket keeps its registration.
LEMMA TriggerWakes ==
    ASSUME Inv, NEW fd \in Fds, NEW evs \in SUBSET Event, trigger(fd, evs),
           \A g \in Workers : pc'[g] = "wait" =>
               pc[g] = "wait" /\ arg'[g] = arg[g] /\ event'[g] = event[g]
    PROVE  PollTypes' /\ Waits'
<1> USE HookAssumption DEF Inv
<1>1. /\ m_events' = m_events \ ({fd} \X evs)
      /\ watched' = (IF EventsOf(fd) \subseteq evs THEN watched \ {fd} ELSE watched)
      /\ tickets' = [f \in Fibers |-> IF pc[f] \in {"closed", "done"} THEN 0
                                      ELSE tickets[f] + Times(fd, evs, f)]
      /\ slot' = slot
  BY DEF trigger, WatchedAfter
<1>2. ASSUME NEW f \in Fibers
      PROVE  Times(fd, evs, f) \in Nat /\ (Times(fd, evs, f) = 0 => \A ev \in evs : slot[fd][ev] # f)
  <2> DEFINE S == {ev \in evs : slot[fd][ev] = f}
  <2>1. IsFiniteSet({"READ", "WRITE"})
    <3>1. IsFiniteSet({"READ"}) BY FS_Singleton
    <3>2. IsFiniteSet({"READ"} \cup {"WRITE"}) BY <3>1, FS_AddElement
    <3>3. {"READ", "WRITE"} = {"READ"} \cup {"WRITE"} OBVIOUS
    <3> QED BY <3>2, <3>3
  <2>2. IsFiniteSet(S)
    <3>1. S \subseteq {"READ", "WRITE"} BY DEF Event
    <3> QED BY <2>1, <3>1, FS_Subset
  <2>3. Cardinality(S) \in Nat /\ (Cardinality(S) = 0 <=> S = {})
    BY <2>2, FS_CardinalityType, FS_EmptySet
  <2>4. Times(fd, evs, f) = Cardinality(S) BY DEF Times
  <2> QED BY <2>3, <2>4
<1>3. PollTypes /\ \A g \in Workers : g \in Fibers BY DEF Types, Workers, Fibers
<1>4. PollTypes'
  <2>1. \A f \in Fibers : tickets'[f] \in Nat BY <1>1, <1>2, <1>3 DEF PollTypes
  <2>2. tickets' \in [Fibers -> Nat] BY <1>1, <2>1
  <2> QED BY <1>1, <1>3, <2>2 DEF PollTypes
<1>5. ASSUME NEW g \in Workers, pc'[g] = "wait", tickets'[g] = 0 PROVE WaitOK(g)'
  <2>1. /\ pc[g] = "wait" /\ arg'[g] = arg[g] /\ event'[g] = event[g] /\ g \in Fibers
    BY <1>3, <1>5
  <2>2. tickets'[g] = tickets[g] + Times(fd, evs, g) BY <1>1, <2>1
  <2>3. tickets[g] \in Nat /\ Times(fd, evs, g) \in Nat BY <1>2, <1>3, <2>1 DEF PollTypes
  <2>4. tickets[g] = 0 /\ Times(fd, evs, g) = 0 BY <1>5, <2>2, <2>3
  <2>5. /\ <<arg[g], event[g]>> \in m_events
        /\ slot[arg[g]][event[g]] = g /\ arg[g] \in watched
    BY <2>1, <2>4 DEF Waits, WaitOK
  <2>6. ~(arg[g] = fd /\ event[g] \in evs) BY <1>2, <2>1, <2>4, <2>5
  <2>7. <<arg[g], event[g]>> \in m_events' BY <1>1, <2>5, <2>6
  <2>8. event[g] \in Event BY <2>1 DEF Types
  <2>9. arg[g] \in watched' BY <1>1, <2>5, <2>6, <2>8 DEF EventsOf
  <2> QED BY <1>1, <2>1, <2>5, <2>7, <2>9 DEF WaitOK
<1>6. Waits' BY <1>5 DEF Waits, WaitOK
<1> QED BY <1>4, <1>6

\* Steps that change nothing but what epoll and IOManager know.
LEMMA PollFrame ==
    ASSUME Inv, PollTypes', Waits', cancels' \subseteq cancels,
           UNCHANGED <<fdVars, netVars, pc, arg, event, to, timer, expired, m_sock>>
    PROVE  Inv'
<1> USE DEF Inv, fdVars, netVars
<1>1. Types' BY DEF Types
<1>2. Positions' /\ Queue' BY DEF Positions, Queue
<1>3. Sockets' BY DEF Sockets, SockOK, NoCtx, FdCtx
<1>4. Table' /\ Accepted' BY DEF Table, Accepted, Fresh, NoCtx, FdCtx
<1>5. Listening' BY DEF Listening, NoCtx, FdCtx
<1>6. Timing' BY DEF Timing
<1> QED BY <1>1, <1>2, <1>3, <1>4, <1>5, <1>6

\* epoll reports, idle() processes a report, or a timer's callback cancels an event.
LEMMA PollKeeps ==
    ASSUME Inv, NEW fd \in Fds, CancelStep(fd) \/ PollStep(fd) PROVE Inv'
<1> USE DEF callVars, srvVars
<1>1. CASE CancelStep(fd)
  <2>1. PICK ev \in Event : CallbackCancel(fd, ev) /\ UNCHANGED srvVars
    BY <1>1 DEF CancelStep
  <2>2. cancelEvent(fd, ev) \in SUBSET Event BY DEF cancelEvent
  <2>3. /\ trigger(fd, cancelEvent(fd, ev))
        /\ UNCHANGED <<fdVars, netVars, pc, arg, event, to, timer, expired, m_sock>>
        /\ cancels' \subseteq cancels
    BY <2>1 DEF CallbackCancel
  <2>4. PollTypes' /\ Waits' BY <2>2, <2>3, TriggerWakes
  <2> QED BY <2>3, <2>4, PollFrame
<1>2. CASE PollStep(fd)
  <2>1. CASE epoll_wait(fd)
    <3>1. /\ UNCHANGED <<m_events, slot, watched, tickets>>
          /\ UNCHANGED <<fdVars, netVars, pc, arg, event, to, timer, expired, m_sock>>
          /\ cancels' \subseteq cancels
      BY <1>2, <2>1 DEF PollStep, epoll_wait
    <3>2. PollTypes' BY <3>1 DEF Inv, Types, PollTypes
    <3>3. Waits' BY <3>1, WaitsFrame
    <3> QED BY <3>1, <3>2, <3>3, PollFrame
  <2>2. CASE \E evs \in SUBSET Event : Process(fd, evs)
    <3>1. PICK evs \in SUBSET Event : Process(fd, evs) BY <2>2
    <3>2. /\ UNCHANGED <<fdVars, netVars, pc, arg, event, to, timer, expired, m_sock>>
          /\ cancels' \subseteq cancels
      BY <1>2, <3>1 DEF PollStep, Process
    <3>3. PollTypes' /\ Waits'
      <4>1. CASE trigger(fd, evs) BY <3>2, <4>1, TriggerWakes
      <4>2. CASE UNCHANGED <<m_events, slot, watched, tickets, fault>>
        <5>1. PollTypes' BY <4>2 DEF Inv, Types, PollTypes
        <5>2. Waits' BY <3>2, <4>2, WaitsFrame
        <5> QED BY <5>1, <5>2
      <4> QED BY <3>1, <4>1, <4>2 DEF Process
    <3> QED BY <3>2, <3>3, PollFrame
  <2> QED BY <1>2, <2>1, <2>2 DEF PollStep
<1> QED BY <1>1, <1>2

-----------------------------------------------------------------------------
(* The hooked close.                                                       *)

\* close of a worker's descriptor cancels its events.
LEMMA WorkerCancelKeeps ==
    ASSUME Inv, NEW f \in Workers, close_cancelAll(f, m_sock[f]), UNCHANGED srvVars
    PROVE  Inv'
<1> USE HookAssumption, FdAssumption, FdFacts
    DEF Inv, fdVars, netVars, callVars, srvVars
<1>1. PICK fd \in Fds : fd = m_sock[f] /\ datas[fd] # NoCtx
  BY DEF close_cancelAll, Sockets, SockOK, Holding, Workers, NoCtx, FdCtx
<1>2. /\ pc[f] = "close" /\ f \in Fibers /\ pc' = [pc EXCEPT ![f] = "del"]
      /\ trigger(fd, cancelAll(fd)) /\ UNCHANGED <<fdVars, netVars, callVars>>
  BY <1>1 DEF close_cancelAll, Goto, Workers, Fibers
<1>3. cancelAll(fd) \in SUBSET Event BY DEF cancelAll, EventsOf
<1>4. \A g \in Workers : pc'[g] = "wait" => pc[g] = "wait"
  BY <1>2 DEF Positions, Workers, Fibers
<1>5. PollTypes' /\ Waits' BY <1>2, <1>3, <1>4, TriggerWakes
<1>6. Types' BY <1>2, <1>5 DEF Types
<1>7. Positions'
  BY <1>2 DEF Positions, Workers, ConnPC, ClientPC, AcceptPC, StopPC
<1>8. Sockets'
  <2>1. ASSUME NEW g \in Workers \ {f} PROVE SockOK(g)'
    <3>1. pc'[g] = pc[g] BY <1>2 DEF Positions, Workers, Fibers
    <3> QED BY <1>2, <3>1, SockFrame
  <2>2. SockOK(f)'
    <3>1. pc'[f] = "del" BY <1>2 DEF Positions
    <3> QED BY <1>2, <3>1 DEF Sockets, SockOK, Holding, InCall, NoCtx, FdCtx
  <2> QED BY <2>1, <2>2 DEF Sockets
<1>9. Table' /\ Accepted'
  BY <1>2 DEF Table, Accepted, Positions, Fresh, Types, Workers, NoCtx, FdCtx
<1>10. Queue' BY <1>2 DEF Queue, Positions, Types, Workers
<1>11. Listening' BY <1>2 DEF Listening, Positions, InCall, Workers, NoCtx, FdCtx
<1>12. Timing' BY <1>2 DEF Timing, Positions, InCall
<1> QED BY <1>5, <1>6, <1>7, <1>8, <1>9, <1>10, <1>11, <1>12

\* The function of stop() cancels the events of the listening socket, by cancelAll
\* and again in close.
LEMMA StopCancelKeeps ==
    ASSUME Inv,
           stop_cancelAll \/ (close_cancelAll(Stopper, m_sock[Acceptor]) /\ UNCHANGED srvVars)
    PROVE  Inv'
<1> USE HookAssumption, FdAssumption, FdFacts
    DEF Inv, fdVars, netVars, callVars, srvVars
<1>1. PICK fd \in Fds : fd = m_sock[Acceptor] /\ datas[fd] # NoCtx
  BY DEF stop_cancelAll, close_cancelAll, Listening, NoCtx, FdCtx
<1>2. PICK l \in {"shut", "del"} :
           /\ pc[Stopper] \in {"queued", "close"} /\ pc' = [pc EXCEPT ![Stopper] = l]
           /\ trigger(fd, cancelAll(fd)) /\ UNCHANGED <<fdVars, netVars, callVars, srvVars>>
  BY <1>1 DEF stop_cancelAll, close_cancelAll, Goto
<1>3. Stopper \in Fibers /\ Stopper \notin Workers BY DEF Fibers, Workers
<1>4. cancelAll(fd) \in SUBSET Event BY DEF cancelAll, EventsOf
<1>5. \A g \in Workers : pc'[g] = "wait" => pc[g] = "wait"
  BY <1>2, <1>3 DEF Positions, Workers, Fibers
<1>6. PollTypes' /\ Waits' BY <1>2, <1>4, <1>5, TriggerWakes
<1>7. Types' BY <1>2, <1>6 DEF Types
<1>8. Positions'
  BY <1>2, <1>3 DEF Positions, Workers, ConnPC, ClientPC, AcceptPC, StopPC
<1>9. Sockets'
  <2>1. ASSUME NEW g \in Workers PROVE SockOK(g)'
    <3>1. pc'[g] = pc[g] BY <1>2, <1>3 DEF Positions, Workers, Fibers
    <3> QED BY <1>2, <3>1, SockFrame
  <2> QED BY <2>1 DEF Sockets
<1>10. Table' /\ Accepted'
  BY <1>2, <1>3 DEF Table, Accepted, Positions, Fresh, Types, Workers, NoCtx, FdCtx
<1>11. Queue' BY <1>2, <1>3 DEF Queue, Positions, Types, Workers
<1>12. Listening' BY <1>2, <1>3 DEF Listening, Positions, InCall, NoCtx, FdCtx
<1>13. Timing' BY <1>2, <1>3 DEF Timing, Positions, InCall
<1> QED BY <1>6, <1>7, <1>8, <1>9, <1>10, <1>11, <1>12, <1>13

\* close forgets the context.
LEMMA WorkerDelKeeps ==
    ASSUME Inv, NEW f \in Workers, close_del(f, m_sock[f]), UNCHANGED srvVars
    PROVE  Inv'
<1> USE HookAssumption, FdFacts DEF Inv, fdVars, netVars, pollVars, callVars, srvVars
<1>1. /\ pc[f] = "del" /\ f \in Fibers /\ m_sock[f] \in Fds /\ file[m_sock[f]] = f
      /\ NoCtx \in Contexts
      /\ datas' = [datas EXCEPT ![m_sock[f]] = NoCtx]
      /\ pc' = [pc EXCEPT ![f] = "close_f"]
      /\ UNCHANGED <<file, nonblock, netVars, pollVars, callVars>>
  BY DEF close_del, del, Goto, Sockets, SockOK, Holding, Workers, Fibers, NoCtx, FdCtx, Contexts
<1>2. \A g \in Workers \ {f} : pc[g] \in Holding => m_sock[g] # m_sock[f]
  BY <1>1, Apart DEF Holding
<1>3. m_sock[Acceptor] # m_sock[f] BY <1>1, Apart DEF Holding
<1> HIDE DEF NoCtx
<1>4. Types' BY <1>1 DEF Types, PollTypes
<1>5. Positions'
  BY <1>1 DEF Positions, Workers, ConnPC, ClientPC, AcceptPC, StopPC
<1>6. Sockets'
  <2>1. ASSUME NEW g \in Workers \ {f} PROVE SockOK(g)'
    <3>1. pc'[g] = pc[g] /\ (pc[g] \in Holding => datas'[m_sock[g]] = datas[m_sock[g]])
      BY <1>1, <1>2 DEF Workers, Fibers, Positions, Types, Sockets, SockOK
    <3> QED BY <1>1, <3>1, SockFrame
  <2>2. SockOK(f)'
    BY <1>1 DEF SockOK, Sockets, Positions, Types, Holding, InCall
  <2> QED BY <2>1, <2>2 DEF Sockets
<1>7. Table' BY <1>1 DEF Table, Positions, Fresh, Types, Workers
<1>8. Accepted' BY <1>1 DEF Accepted, Positions, Types, Workers, Sockets, SockOK
<1>9. Queue' BY <1>1 DEF Queue, Positions, Types, Workers
<1>10. Listening'
  BY <1>1, <1>3 DEF Listening, Positions, InCall, Workers, Types
<1>11. Waits'
  <2>1. \A g \in Workers : g \in Fibers /\ (pc'[g] = "wait" => pc[g] = "wait")
    BY <1>1 DEF Positions, Workers, Fibers
  <2> QED BY <1>1, <2>1, WaitsFrame
<1>12. Timing' BY <1>1 DEF Timing, Positions, InCall
<1> QED BY <1>4, <1>5, <1>6, <1>7, <1>8, <1>9, <1>10, <1>11, <1>12

\* The second step of close() in the function of stop(): the context of the
\* listening socket goes, and nobody waits for it any more.
LEMMA StopDelKeeps ==
    ASSUME Inv, close_del(Stopper, m_sock[Acceptor]), UNCHANGED srvVars
    PROVE  Inv'
<1> USE HookAssumption, FdFacts DEF Inv, fdVars, netVars, pollVars, callVars, srvVars
<1>1. /\ pc[Stopper] = "del" /\ Stopper \in Fibers /\ Stopper \notin Workers
      /\ m_sock[Acceptor] \in Fds /\ file[m_sock[Acceptor]] = Listen
      /\ NoCtx \in Contexts
      /\ datas' = [datas EXCEPT ![m_sock[Acceptor]] = NoCtx]
      /\ pc' = [pc EXCEPT ![Stopper] = "close_f"]
      /\ UNCHANGED <<file, nonblock, netVars, pollVars, callVars>>
  BY DEF close_del, del, Goto, Listening, Workers, Fibers, NoCtx, FdCtx, Contexts
<1>2. \A g \in Workers : pc[g] \in Holding => m_sock[g] # m_sock[Acceptor]
  BY Apart
<1> HIDE DEF NoCtx
<1>4. Types' BY <1>1 DEF Types, PollTypes
<1>5. Positions'
  BY <1>1 DEF Positions, Workers, ConnPC, ClientPC, AcceptPC, StopPC
<1>6. Sockets'
  <2>1. ASSUME NEW g \in Workers PROVE SockOK(g)'
    <3>1. pc'[g] = pc[g] /\ (pc[g] \in Holding => datas'[m_sock[g]] = datas[m_sock[g]])
      BY <1>1, <1>2 DEF Workers, Fibers, Positions, Types, Sockets, SockOK
    <3> QED BY <1>1, <3>1, SockFrame
  <2> QED BY <2>1 DEF Sockets
<1>7. Table' BY <1>1 DEF Table, Positions, Fresh, Types, Workers
<1>8. Accepted' BY <1>1 DEF Accepted, Positions, Types, Workers
<1>9. Queue' BY <1>1 DEF Queue, Positions, Types, Workers
<1>10. Listening' BY <1>1 DEF Listening, Positions, InCall, Types
<1>11. Waits'
  <2>1. \A g \in Workers : g \in Fibers /\ (pc'[g] = "wait" => pc[g] = "wait")
    BY <1>1 DEF Positions, Workers, Fibers
  <2> QED BY <1>1, <2>1, WaitsFrame
<1>12. Timing' BY <1>1 DEF Timing, Positions, InCall
<1> QED BY <1>4, <1>5, <1>6, <1>7, <1>8, <1>9, <1>10, <1>11, <1>12

\* The last step of close: the number is free, and the Socket forgets it.
LEMMA WorkerFileKeeps ==
    ASSUME Inv, NEW f \in Workers, pc[f] = "close_f", CloseFile(f, m_sock[f]),
           SocketClosed(f), Goto(f, Behind(f)),
           UNCHANGED <<datas, callVars, m_isConnected, m_isStop>>
    PROVE  Inv'
<1> USE HookAssumption, FdAssumption, FdFacts DEF Inv, fdVars, netVars, callVars
<1>1. /\ f \in Fibers /\ m_sock[f] \in Fds /\ file[m_sock[f]] = f
      /\ datas[m_sock[f]] = NoCtx
  BY DEF Sockets, SockOK, Holding, Workers, Fibers
<1>2. /\ file' = [file EXCEPT ![m_sock[f]] = Closed]
      /\ nonblock' = nonblock \ {m_sock[f]}
      /\ watched' = watched \ {m_sock[f]}
      /\ inbox' \in [Conns -> Inboxes] /\ link' \in [Clients -> Links]
      /\ tickets' = [tickets EXCEPT ![f] = 0]
      /\ m_sock' = [m_sock EXCEPT ![f] = 0]
      /\ UNCHANGED <<backlog, datas, m_events, slot, callVars, m_isConnected, m_isStop>>
  BY <1>1 DEF CloseFile, SocketClosed, Types, Inboxes, Links
<1> DEFINE l == Behind(f)
<1>16. /\ pc' = [pc EXCEPT ![f] = l] /\ l \in {"closed", "done"}
       /\ l = "closed" => f \in Conns
  BY DEF Goto, Behind
<1> HIDE DEF l
<1>3. \A g \in Workers \ {f} : pc[g] \in Holding => m_sock[g] # m_sock[f]
  BY <1>1, Apart DEF Holding
<1>4. m_sock[Acceptor] # m_sock[f] BY <1>1, Apart DEF Holding
<1>6. ~Fresh(m_sock[f])
  BY <1>1 DEF Fresh, Accepted
<1> HIDE DEF NoCtx
<1>7. Types' BY <1>1, <1>2 DEF Types, PollTypes
<1>8. Positions'
  BY <1>1, <1>2, <1>16 DEF Positions, Workers, ConnPC, ClientPC, AcceptPC, StopPC
<1>9. Sockets'
  <2>1. ASSUME NEW g \in Workers \ {f} PROVE SockOK(g)'
    <3>1. /\ pc'[g] = pc[g] /\ m_sock'[g] = m_sock[g]
          /\ pc[g] \in Holding => file'[m_sock[g]] = file[m_sock[g]]
      BY <1>1, <1>2, <1>3, <1>16 DEF Workers, Fibers, Positions, Types, Sockets, SockOK
    <3> QED BY <1>2, <3>1, SockFrame
  <2>2. SockOK(f)' BY <1>1, <1>2, <1>16 DEF SockOK, Positions, Types, Holding, InCall
  <2> QED BY <2>1, <2>2 DEF Sockets
<1>10. Table'
  <2> SUFFICES ASSUME NEW d \in Fds
      PROVE /\ file'[d] \in Workers => m_sock'[file'[d]] = d \/ Fresh(d)'
            /\ file'[d] = Listen => d = 1 /\ d \in nonblock'
            /\ datas'[d] # NoCtx => /\ file'[d] # Closed
                                    /\ datas'[d].file = file'[d]
                                    /\ d \in nonblock'
    BY DEF Table, NoCtx
  <2>1. Fresh(d)' = Fresh(d) BY <1>1, <1>2, <1>16 DEF Fresh, Positions, Workers
  <2>2. CASE d = m_sock[f] BY <1>1, <1>2, <2>2 DEF Types, Workers
  <2>3. CASE d # m_sock[f]
    <3>1. file'[d] = file[d] /\ file[d] # f
      BY <1>1, <1>2, <1>6, <2>3 DEF Types, Table, Accepted, Fresh, Sockets, SockOK, Holding
    <3> QED BY <1>1, <1>2, <2>1, <2>3, <3>1 DEF Types, Table, Workers, Fibers
  <2> QED BY <2>2, <2>3
<1>11. Accepted'
  BY <1>1, <1>2, <1>6, <1>16 DEF Accepted, Fresh, Positions, Types, Workers
<1>12. Queue' BY <1>1, <1>2, <1>16 DEF Queue, Positions, Types, Workers
<1>13. Listening'
  BY <1>1, <1>2, <1>4, <1>16 DEF Listening, Positions, InCall, Workers, Types
<1>14. Waits'
  <2> SUFFICES ASSUME NEW g \in Workers, pc'[g] = "wait", tickets'[g] = 0 PROVE WaitOK(g)'
    BY DEF Waits, WaitOK
  <2>1. g # f /\ pc[g] = "wait" /\ g \in Fibers
    BY <1>1, <1>16 DEF Positions, Workers, Fibers
  <2>2. tickets[g] = 0 BY <1>2, <2>1 DEF Types, PollTypes
  <2>3. arg[g] # m_sock[f] BY <1>3, <2>1, WaitsOwn DEF Holding
  <2> QED BY <1>2, <2>1, <2>2, <2>3 DEF Waits, WaitOK
<1>15. Timing' BY <1>1, <1>2, <1>16 DEF Timing, Positions, InCall
<1> QED BY <1>7, <1>8, <1>9, <1>10, <1>11, <1>12, <1>13, <1>14, <1>15

\* The third step of close() in the function of stop(): the number of the listening
\* socket becomes free, and m_sock forgets it.
LEMMA StopFileKeeps ==
    ASSUME Inv, pc[Stopper] = "close_f", CloseFile(Stopper, m_sock[Acceptor]),
           SocketClosed(Acceptor), Goto(Stopper, "done"),
           UNCHANGED <<datas, callVars, m_isConnected, m_isStop>>
    PROVE  Inv'
<1> USE HookAssumption, FdAssumption, FdFacts DEF Inv, fdVars, netVars, callVars
<1>1. /\ Stopper \in Fibers /\ Stopper \notin Workers /\ Acceptor \in Fibers
      /\ m_sock[Acceptor] \in Fds /\ file[m_sock[Acceptor]] = Listen
      /\ datas[m_sock[Acceptor]] = NoCtx /\ m_sock[Acceptor] = 1
  BY DEF Listening, Workers, Fibers
<1>2. /\ file' = [file EXCEPT ![m_sock[Acceptor]] = Closed]
      /\ nonblock' = nonblock \ {m_sock[Acceptor]}
      /\ watched' = watched \ {m_sock[Acceptor]}
      /\ inbox' \in [Conns -> Inboxes] /\ link' \in [Clients -> Links]
      /\ tickets' = [tickets EXCEPT ![Stopper] = 0]
      /\ pc' = [pc EXCEPT ![Stopper] = "done"]
      /\ m_sock' = [m_sock EXCEPT ![Acceptor] = 0]
      /\ UNCHANGED <<backlog, datas, m_events, slot, callVars, m_isConnected, m_isStop>>
  BY <1>1 DEF CloseFile, SocketClosed, Goto, Types, Inboxes, Links
<1>3. \A g \in Workers : pc[g] \in Holding => m_sock[g] # m_sock[Acceptor] BY Apart
<1> HIDE DEF NoCtx
<1>5. Types' BY <1>1, <1>2 DEF Types, PollTypes
<1>6. Positions'
  BY <1>1, <1>2 DEF Positions, Workers, ConnPC, ClientPC, AcceptPC, StopPC
<1>7. Sockets'
  <2>1. ASSUME NEW g \in Workers PROVE SockOK(g)'
    <3>1. /\ pc'[g] = pc[g] /\ m_sock'[g] = m_sock[g]
          /\ pc[g] \in Holding => file'[m_sock[g]] = file[m_sock[g]]
      BY <1>1, <1>2, <1>3 DEF Workers, Fibers, Positions, Types, Sockets, SockOK
    <3> QED BY <1>2, <3>1, SockFrame
  <2> QED BY <2>1 DEF Sockets
<1>8. Table'
  <2> SUFFICES ASSUME NEW d \in Fds
      PROVE /\ file'[d] \in Workers => m_sock'[file'[d]] = d \/ Fresh(d)'
            /\ file'[d] = Listen => d = 1 /\ d \in nonblock'
            /\ datas'[d] # NoCtx => /\ file'[d] # Closed
                                    /\ datas'[d].file = file'[d]
                                    /\ d \in nonblock'
    BY DEF Table, NoCtx
  <2>1. Fresh(d)' = Fresh(d) BY <1>1, <1>2 DEF Fresh, Positions
  <2>2. CASE d = m_sock[Acceptor] BY <1>1, <1>2, <2>2 DEF Types, Workers
  <2>3. CASE d # m_sock[Acceptor]
    <3>1. file'[d] = file[d] /\ file[d] # Listen
      BY <1>1, <1>2, <2>3 DEF Types, Table
    <3> QED BY <1>1, <1>2, <2>1, <2>3, <3>1 DEF Types, Table, Workers, Fibers
  <2> QED BY <2>2, <2>3
<1>9. Accepted'
  <2>1. pc[Acceptor] = "accepted" => arg[Acceptor] # 1 /\ pc'[Acceptor] = "accepted"
    BY <1>1, <1>2 DEF Accepted, Positions, Workers
  <2> QED BY <1>1, <1>2, <2>1 DEF Accepted, Positions, Types, Workers
<1>10. Queue' BY <1>1, <1>2 DEF Queue, Positions, Types, Workers
<1>11. Listening' BY <1>1, <1>2 DEF Listening, Positions, InCall, Types
<1>12. Waits'
  <2> SUFFICES ASSUME NEW g \in Workers, pc'[g] = "wait", tickets'[g] = 0 PROVE WaitOK(g)'
    BY DEF Waits, WaitOK
  <2>1. pc[g] = "wait" /\ g \in Fibers BY <1>1, <1>2 DEF Positions, Workers, Fibers
  <2>2. tickets[g] = 0 BY <1>1, <1>2, <2>1 DEF Types, PollTypes
  <2>3. arg[g] # m_sock[Acceptor] BY <1>3, <2>1, WaitsOwn DEF Holding
  <2> QED BY <1>2, <2>1, <2>2, <2>3 DEF Waits, WaitOK
<1>13. Timing' BY <1>1, <1>2 DEF Timing, Positions, InCall
<1> QED BY <1>5, <1>6, <1>7, <1>8, <1>9, <1>10, <1>11, <1>12, <1>13

\* All steps of close, of any fiber that closes a Socket.
LEMMA CloseKeeps == ASSUME Inv, NEW f \in Workers \cup {Stopper}, Close(f) PROVE Inv'
<1>1. CASE f = Stopper
  <2>1. OwnerOf(f) = Acceptor /\ Behind(f) = "done"
    BY <1>1, HookAssumption DEF OwnerOf, Behind
  <2> QED BY <1>1, <2>1, StopCancelKeeps, StopDelKeeps, StopFileKeeps DEF Close, closeSteps
<1>2. CASE f # Stopper
  <2>1. OwnerOf(f) = f /\ f \in Workers BY <1>2 DEF OwnerOf
  <2> QED BY <2>1, WorkerCancelKeeps, WorkerDelKeeps, WorkerFileKeeps DEF Close, closeSteps
<1> QED BY <1>1, <1>2

-----------------------------------------------------------------------------
(* The acceptor.                                                           *)

\* startAccept leaves its loop, or calls accept.
LEMMA StartAcceptKeeps == ASSUME Inv, startAccept PROVE Inv'
<1> USE HookAssumption, FdAssumption, FdFacts
    DEF Inv, fdVars, netVars, pollVars, srvVars
<1>1. /\ Acceptor \in Fibers /\ Acceptor \notin Workers
      /\ pc[Acceptor] \in {"queued", "loop", "failed"}
      /\ UNCHANGED <<fdVars, netVars, pollVars, srvVars>>
  BY DEF startAccept, Fibers, Workers
<1>2. ~timer[Acceptor] /\ Acceptor \notin expired BY <1>1 DEF Timing, InCall
<1>3. PICK l \in {"done", "call"}, k \in {"plain", "never"}, d \in {0, 1} :
           /\ pc' = [pc EXCEPT ![Acceptor] = l]
           /\ l = "done" => UNCHANGED <<arg, event, to>>
           /\ l = "call" => /\ arg' = [arg EXCEPT ![Acceptor] = d]
                            /\ event' = [event EXCEPT ![Acceptor] = "READ"]
                            /\ to' = [to EXCEPT ![Acceptor] = k]
           /\ UNCHANGED <<cancelled, timer, expired, cancels>>
  <2>1. CASE m_isStop BY <2>1 DEF startAccept, Goto, callVars
  <2>2. CASE ~m_isStop
    <3> DEFINE d == m_sock[Acceptor]
               ctx == IF d = 0 THEN NoCtx ELSE datas[d]
               k == IF ctx = NoCtx \/ ctx.m_userNonblock THEN "plain"
                    ELSE IF ctx.m_recvTimeout THEN "timed" ELSE "never"
    <3>1. /\ arg' = [arg EXCEPT ![Acceptor] = d] /\ to' = [to EXCEPT ![Acceptor] = k]
          /\ event' = [event EXCEPT ![Acceptor] = "READ"]
          /\ pc' = [pc EXCEPT ![Acceptor] = "call"]
          /\ UNCHANGED <<cancelled, timer, expired, cancels>>
      BY <2>2 DEF startAccept, do_io, Goto
    <3>2. d \in {0, 1} BY DEF Listening
    <3>3. d # 0 => datas[d] = FdCtx(Listen) \/ datas[d] = NoCtx
      BY DEF Listening, Positions, StopPC
    <3>4. k \in {"plain", "never"} BY <3>2, <3>3 DEF FdCtx, NoCtx
    <3> HIDE DEF d, k
    <3> QED BY <3>1, <3>2, <3>4
  <2> QED BY <2>1, <2>2
<1>4. Types'
  <2>1. /\ arg' \in [Fibers -> Fds \cup {0}] /\ event' \in [Fibers -> Event]
        /\ to' \in [Fibers -> {"plain", "never", "timed"}]
    <3>1. CASE l = "done" BY <1>3, <3>1 DEF Types
    <3>2. CASE l = "call"
      <4>1. /\ arg' = [arg EXCEPT ![Acceptor] = d] /\ to' = [to EXCEPT ![Acceptor] = k]
            /\ event' = [event EXCEPT ![Acceptor] = "READ"]
        BY <1>3, <3>2
      <4> QED BY <1>1, <4>1 DEF Types, Event
    <3> QED BY <3>1, <3>2
  <2> QED BY <1>1, <1>3, <2>1 DEF Types, PollTypes
<1>5. Positions'
  BY <1>1, <1>3 DEF Positions, Workers, ConnPC, ClientPC, AcceptPC, StopPC
<1>6. Sockets'
  <2>1. ASSUME NEW g \in Workers PROVE SockOK(g)'
    <3>1. pc'[g] = pc[g] /\ arg'[g] = arg[g] /\ event'[g] = event[g]
      BY <1>1, <1>3 DEF Workers, Fibers, Positions, Types
    <3> QED BY <1>1, <3>1, SockFrame
  <2> QED BY <2>1 DEF Sockets
<1>7. Table' /\ Accepted' BY <1>1, <1>3 DEF Table, Accepted, Positions, Fresh, Types, Workers
<1>8. Queue' BY <1>1, <1>3 DEF Queue, Positions, Types, Workers
<1>9. Listening' BY <1>1, <1>3 DEF Listening, Positions, InCall, Types, NoCtx, FdCtx
<1>10. Waits'
  <2>1. \A g \in Workers : pc'[g] = pc[g] /\ arg'[g] = arg[g] /\ event'[g] = event[g]
    BY <1>1, <1>3 DEF Workers, Fibers, Positions, Types
  <2> QED BY <1>1, <2>1, WaitsFrame
<1>11. Timing' BY <1>1, <1>2, <1>3 DEF Timing, Positions, InCall, Types
<1> QED BY <1>4, <1>5, <1>6, <1>7, <1>8, <1>9, <1>10, <1>11

\* accept_f takes the first connection of the backlog out; it gets a number that was
\* free, so the number has no context and nobody waits for it.
LEMMA AcceptKeeps == ASSUME Inv, accept PROVE Inv'
<1> USE HookAssumption, FdAssumption, FdFacts
    DEF Inv, pollVars, srvVars
<1>1. /\ Acceptor \in Fibers /\ Acceptor \notin Workers /\ Stopper # Acceptor
      /\ pc[Acceptor] = "call" /\ arg[Acceptor] = 1 /\ file[1] = Listen
      /\ UNCHANGED <<nonblock, datas, inbox, link, pollVars, timer, cancels, srvVars>>
      /\ \A g \in Workers : g \in Fibers \ {Acceptor, Stopper}
  BY DEF accept, Fibers, Workers, Listening, InCall
<1>2. CASE TableFull
  <2>1. /\ pc' = [pc EXCEPT ![Acceptor] = "failed"]
        /\ arg' = [arg EXCEPT ![Acceptor] = 0]
        /\ event' = [event EXCEPT ![Acceptor] = "READ"]
        /\ to' = [to EXCEPT ![Acceptor] = "plain"]
        /\ expired' = expired \ {Acceptor}
        /\ UNCHANGED <<file, backlog>>
    BY <1>2 DEF accept, Return, Goto
  <2>2. ~timer[Acceptor] BY <1>1 DEF Timing
  <2>3. Types' BY <1>1, <2>1 DEF Types, PollTypes, Event
  <2>4. Positions'
    BY <1>1, <2>1 DEF Positions, Workers, ConnPC, ClientPC, AcceptPC, StopPC
  <2>5. Sockets'
    <3>1. ASSUME NEW g \in Workers PROVE SockOK(g)'
      <4>1. pc'[g] = pc[g] /\ arg'[g] = arg[g] /\ event'[g] = event[g]
        BY <1>1, <2>1 DEF Positions, Types
      <4> QED BY <1>1, <2>1, <4>1, SockFrame
    <3> QED BY <3>1 DEF Sockets
  <2>6. Table' /\ Accepted'
    BY <1>1, <2>1 DEF Table, Accepted, Positions, Fresh, Types, Workers
  <2>7. Queue' BY <1>1, <2>1 DEF Queue, Positions, Types, Workers
  <2>8. Listening' BY <1>1, <2>1 DEF Listening, Positions, InCall, Types
  <2>9. Waits'
    <3>1. \A g \in Workers : pc'[g] = pc[g] /\ arg'[g] = arg[g] /\ event'[g] = event[g]
      BY <1>1, <2>1 DEF Positions, Types
    <3> QED BY <1>1, <3>1, WaitsFrame
  <2>10. Timing' BY <1>1, <2>1, <2>2 DEF Timing, Positions, InCall, Types
  <2> QED BY <2>3, <2>4, <2>5, <2>6, <2>7, <2>8, <2>9, <2>10
<1>3. CASE ~TableFull
  <2>1. PICK n \in Fds, c \in Conns :
             /\ file[n] = Closed /\ c = backlog[1] /\ Len(backlog) \in Nat \ {0}
             /\ file' = [file EXCEPT ![n] = c]
             /\ backlog' = Tail(backlog)
             /\ arg' = [arg EXCEPT ![Acceptor] = n]
             /\ pc' = [pc EXCEPT ![Acceptor] = "accepted"]
             /\ UNCHANGED <<event, to, cancelled, expired>>
    <3>1. backlog # <<>> /\ backlog \in Seq(Conns) BY DEF accept, Types
    <3>2. /\ Head(backlog) \in Conns /\ Head(backlog) = backlog[1]
          /\ Len(backlog) \in Nat \ {0}
      BY <3>1
    <3>3. NewFd \in Fds /\ file[NewFd] = Closed BY <1>3, NewFdFree
    <3> HIDE DEF NewFd
    <3> QED BY <1>3, <3>2, <3>3 DEF accept, Goto
  <2>2. /\ pc[c] = "opened" /\ m_sock[c] = 0 /\ c \in Fibers \ {Acceptor, Stopper}
        /\ datas[n] = NoCtx /\ \A d \in Fds : file[d] # c
    BY <1>1, <2>1 DEF Queue, Sockets, SockOK, Table, Holding, Workers
  <2> HIDE DEF NoCtx
  <2>3. \A i \in 1..Len(backlog') : i + 1 \in 1..Len(backlog) /\ backlog'[i] = backlog[i + 1]
    BY <2>1 DEF Types
  <2>4. Types' BY <1>1, <2>1 DEF Types, PollTypes
  <2>5. Positions'
    <3>1. /\ pc'[Acceptor] = "accepted"
          /\ \A g \in Fibers \ {Acceptor} : pc'[g] = pc[g]
          /\ pc' = [g \in Fibers |-> pc'[g]]
      BY <1>1, <2>1 DEF Positions
    <3> QED BY <1>1, <3>1 DEF Positions, Workers, Fibers, AcceptPC
  <2>6. Sockets'
    <3>1. ASSUME NEW g \in Workers PROVE SockOK(g)'
      <4>1. pc'[g] = pc[g] /\ arg'[g] = arg[g] BY <1>1, <2>1 DEF Positions, Types
      <4>2. pc[g] \in Holding => m_sock[g] \in Fds /\ file[m_sock[g]] = g
        BY DEF Sockets, SockOK
      <4>3. g # Closed BY DEF Workers
      <4>4. pc[g] \in Holding => file'[m_sock[g]] = file[m_sock[g]]
        BY <2>1, <4>2, <4>3 DEF Types
      <4> QED BY <1>1, <2>1, <4>1, <4>4, SockFrame
    <3> QED BY <3>1 DEF Sockets
  <2>7. Table'
    <3>1. ASSUME NEW d \in Fds \ {n}
          PROVE  /\ file'[d] = file[d]
                 /\ file[d] \in Workers => m_sock[file[d]] = d
      BY <1>1, <2>1 DEF Types, Table, Fresh
    <3>2. file'[n] = c /\ Fresh(n)' BY <1>1, <2>1 DEF Types, Positions, Fresh
    <3>3. datas' = datas /\ nonblock' = nonblock /\ m_sock' = m_sock /\ NoCtx' = NoCtx
      BY <1>1 DEF NoCtx, FdCtx
    <3> QED BY <2>1, <2>2, <3>1, <3>2, <3>3 DEF Table, Workers
  <2>8. Accepted' BY <1>1, <2>1, <2>2 DEF Accepted, Types, Positions, NoCtx
  <2>9. Queue'
    <3>1. ASSUME NEW i \in 1..Len(backlog')
          PROVE  /\ pc'[backlog'[i]] = "opened"
                 /\ \A d \in Fds : file'[d] # backlog'[i]
                 /\ \A j \in 1..Len(backlog') : backlog'[i] = backlog'[j] => i = j
      <4>1. backlog[i + 1] \in Conns /\ backlog[i + 1] # c /\ backlog'[i] = backlog[i + 1]
        BY <2>1, <2>3 DEF Queue, Types
      <4>2. pc'[backlog[i + 1]] = "opened"
        BY <1>1, <2>1, <2>3, <4>1 DEF Queue, Positions, Workers
      <4>3. \A d \in Fds : file'[d] # backlog[i + 1]
        BY <2>1, <2>3, <4>1 DEF Queue, Types
      <4>4. ASSUME NEW j \in 1..Len(backlog'), backlog'[i] = backlog'[j] PROVE i = j
        BY <2>3, <4>4 DEF Queue
      <4> QED BY <4>1, <4>2, <4>3, <4>4
    <3> QED BY <3>1 DEF Queue
  <2>10. Listening'
    <3>1. /\ n # 1 /\ file'[1] = file[1] /\ pc'[Acceptor] = "accepted"
          /\ pc'[Stopper] = pc[Stopper] /\ Stopper \in Fibers
      BY <1>1, <2>1 DEF Types, Positions, Fibers
    <3> QED BY <1>1, <3>1 DEF Listening, InCall, NoCtx, FdCtx
  <2>11. Waits'
    <3>1. \A g \in Workers : pc'[g] = pc[g] /\ arg'[g] = arg[g]
      BY <1>1, <2>1 DEF Positions, Types
    <3> QED BY <1>1, <2>1, <3>1, WaitsFrame
  <2>12. Timing' BY <1>1, <2>1 DEF Timing, Positions, InCall, Types, Listening
  <2> QED BY <2>4, <2>5, <2>6, <2>7, <2>8, <2>9, <2>10, <2>11, <2>12
<1> QED BY <1>2, <1>3

\* The context is made for the file that was accepted, and its fiber is started.
LEMMA AcceptInitKeeps == ASSUME Inv, accept_init PROVE Inv'
<1> USE HookAssumption, FdAssumption, FdFacts, ServerAssumption
    DEF Inv, netVars, pollVars, callVars
<1>1. PICK fd \in Fds, c \in Conns : fd = arg[Acceptor] /\ c = file[fd]
  BY DEF accept_init, Accepted
<1>2. PICK ctx \in Contexts :
           /\ ctx.file = c /\ ctx # NoCtx
           /\ datas' = [datas EXCEPT ![fd] = ctx]
           /\ nonblock' = nonblock \cup {fd}
  <2> DEFINE ctx == [FdCtx(c) EXCEPT !.m_recvTimeout = TRUE, !.m_sendTimeout = SendTimeout]
  <2>1. datas[fd] = NoCtx BY <1>1 DEF accept_init, Accepted
  <2>2. datas' = [datas EXCEPT ![fd] = ctx] /\ nonblock' = nonblock \cup {fd}
    BY <1>1, <2>1 DEF accept_init, getOrCreate
  <2>3. ctx \in Contexts /\ ctx.file = c /\ ctx # NoCtx
    BY <1>1 DEF Contexts, FdCtx, NoCtx
  <2> HIDE DEF ctx
  <2> QED BY <2>2, <2>3
<1>3. /\ pc[Acceptor] = "accepted" /\ pc[c] = "opened" /\ m_sock[c] = 0
      /\ datas[fd] = NoCtx
      /\ c \in Fibers \ {Acceptor, Stopper} /\ Acceptor \in Fibers \ {Stopper} /\ c \in Workers
      /\ Stopper \in Fibers /\ fd # 1
      /\ \A g \in Workers : g \in Fibers \ {Acceptor, Stopper}
  BY <1>1 DEF accept_init, Accepted, Fibers, Workers, Sockets, SockOK, Holding, Listening
<1>4. /\ m_sock' = [m_sock EXCEPT ![c] = fd]
      /\ m_isConnected' = [m_isConnected EXCEPT ![c] = TRUE]
      /\ pc' = [pc EXCEPT ![Acceptor] = "loop", ![c] = "serving"]
      /\ UNCHANGED <<file, netVars, pollVars, callVars>>
  BY <1>1 DEF accept_init
<1> HIDE DEF NoCtx
<1>5. /\ pc'[Acceptor] = "loop" /\ pc'[c] = "serving"
      /\ \A g \in Fibers \ {Acceptor, c} : pc'[g] = pc[g]
      /\ pc' = [g \in Fibers |-> pc'[g]]
  BY <1>3, <1>4 DEF Positions
<1>6. /\ m_sock'[c] = fd /\ \A g \in Fibers \ {c} : m_sock'[g] = m_sock[g]
      /\ m_sock' \in [Fibers -> Fds \cup {0}]
  BY <1>1, <1>3, <1>4 DEF Types
<1>7. /\ datas'[fd] = ctx /\ \A d \in Fds \ {fd} : datas'[d] = datas[d]
      /\ datas' \in [Fds -> Contexts]
  BY <1>1, <1>2 DEF Types
<1>8. Types' BY <1>1, <1>2, <1>4, <1>6, <1>7 DEF Types, PollTypes
<1>9. Positions' BY <1>3, <1>5 DEF Positions, Workers, Fibers, AcceptPC, ConnPC
<1>10. Sockets'
  <2>1. ASSUME NEW g \in Workers \ {c} PROVE SockOK(g)'
    <3>1. pc[g] \in Holding => m_sock[g] \in Fds /\ file[m_sock[g]] = g
      BY DEF Sockets, SockOK
    <3>2. pc[g] \in Holding => m_sock[g] # fd BY <1>1, <3>1
    <3> QED BY <1>3, <1>4, <1>5, <1>6, <1>7, <3>1, <3>2, SockFrame
  <2>2. SockOK(c)' BY <1>1, <1>2, <1>4, <1>5, <1>6, <1>7 DEF SockOK, Holding, InCall
  <2> QED BY <2>1, <2>2 DEF Sockets
<1>11. Table'
  <2> SUFFICES ASSUME NEW d \in Fds
      PROVE /\ file[d] \in Workers => m_sock'[file[d]] = d \/ Fresh(d)'
            /\ file[d] = Listen => d = 1 /\ d \in nonblock'
            /\ datas'[d] # NoCtx => /\ file[d] # Closed
                                    /\ datas'[d].file = file[d]
                                    /\ d \in nonblock'
    BY <1>4 DEF Table, NoCtx
  <2>1. CASE d = fd BY <1>1, <1>2, <1>3, <1>6, <1>7, <2>1
  <2>2. CASE d # fd
    <3>1. file[d] # c BY <1>1, <1>3, <2>2 DEF Table, Fresh
    <3>2. ~Fresh(d) BY <1>1, <2>2 DEF Fresh
    <3> QED BY <1>2, <1>3, <1>6, <1>7, <2>2, <3>1, <3>2 DEF Table
  <2> QED BY <2>1, <2>2
<1>12. Accepted' BY <1>5 DEF Accepted
<1>13. Queue'
  <2>1. \A i \in 1..Len(backlog) : backlog[i] \in Conns /\ backlog[i] # c
    BY <1>1 DEF Queue, Types
  <2>2. \A i \in 1..Len(backlog) : backlog[i] \in Fibers \ {Acceptor, c}
    BY <1>3, <2>1 DEF Workers
  <2>3. \A i \in 1..Len(backlog) : pc'[backlog[i]] = "opened" BY <1>5, <2>2 DEF Queue
  <2> QED BY <1>4, <2>3, QueueFrame
<1>14. Listening'
  <2>1. /\ pc'[Stopper] = pc[Stopper] /\ m_sock'[Acceptor] = m_sock[Acceptor]
        /\ datas'[1] = datas[1]
    BY <1>3, <1>5, <1>6, <1>7
  <2> QED BY <1>3, <1>4, <1>5, <2>1 DEF Listening, InCall, NoCtx, FdCtx
<1>15. Waits' BY <1>3, <1>4, <1>5, WaitsFrame
<1>16. Timing' BY <1>3, <1>4, <1>5 DEF Timing, InCall
<1> QED BY <1>8, <1>9, <1>10, <1>11, <1>12, <1>13, <1>14, <1>15, <1>16

-----------------------------------------------------------------------------
(* The hooked calls.                                                       *)

\* A call returns: tinfo is gone, and so are the timer and the callback's right to
\* look at it.
LEMMA ReturnKeeps ==
    ASSUME Inv, NEW f \in Workers \cup {Acceptor}, NEW l, Return(f, l),
           pc[f] \in InCall,
           f \in Conns => l \in {"serving", "failed"},
           f \in Clients => l \in {"failed", "connected"},
           f = Acceptor => l = "failed",
           timer' \in [Fibers -> BOOLEAN], ~timer'[f],
           \A g \in Fibers \ {f} : timer'[g] = timer[g],
           inbox' \in [Conns -> Inboxes],
           tickets' \in [Fibers -> Nat], \A g \in Fibers \ {f} : tickets'[g] = tickets[g],
           UNCHANGED <<fdVars, backlog, link, m_events, slot, watched, cancels, m_sock>>
    PROVE  Inv'
<1> USE HookAssumption, FdFacts DEF Inv, fdVars
<1>1. /\ f \in Fibers \ {Stopper} /\ Acceptor \in Fibers /\ Stopper \in Fibers
      /\ Acceptor \notin Workers
      /\ \A g \in Workers : g \in Fibers \ {Acceptor, Stopper}
  BY DEF Fibers, Workers
<1>2. /\ pc'[f] = l /\ \A g \in Fibers \ {f} : pc'[g] = pc[g]
      /\ pc' = [g \in Fibers |-> pc'[g]]
  BY <1>1 DEF Return, Goto, Positions
<1>3. /\ \A g \in Fibers \ {f} : arg'[g] = arg[g] /\ event'[g] = event[g] /\ to'[g] = to[g]
      /\ arg' \in [Fibers -> Fds \cup {0}] /\ to' \in [Fibers -> {"plain", "never", "timed"}]
      /\ event' \in [Fibers -> Event]
      /\ expired' = expired \ {f}
  BY <1>1 DEF Return, Types, Event
<1>4. Types' BY <1>3 DEF Types, PollTypes
<1>5. Positions'
  BY <1>1, <1>2 DEF Positions, Workers, Fibers, ConnPC, ClientPC, AcceptPC, StopPC
<1>6. Sockets'
  <2>1. ASSUME NEW g \in Workers \ {f} PROVE SockOK(g)'
    BY <1>1, <1>2, <1>3, SockFrame
  <2>2. ASSUME f \in Workers PROVE SockOK(f)'
    <3>1. l \in {"serving", "failed", "connected"} BY <2>2 DEF Workers
    <3> QED BY <1>2, <2>2, <3>1 DEF Sockets, SockOK, Holding, InCall
  <2> QED BY <2>1, <2>2 DEF Sockets
<1>7. l \notin {"wait", "accepted", "opened", "add", "call"} BY DEF Workers
<1>8. Table' /\ Accepted'
  <2>1. \A d \in Fds : Fresh(d)' <=> Fresh(d) BY <1>1, <1>2, <1>3, <1>7 DEF Fresh, InCall
  <2>2. Table' BY <2>1 DEF Table
  <2>3. Accepted' BY <1>1, <1>2, <1>3, <1>7 DEF Accepted, Workers, InCall
  <2> QED BY <2>2, <2>3
<1>9. Queue'
  <2>1. \A i \in 1..Len(backlog) : backlog[i] \in Fibers /\ backlog[i] # f
    BY <1>1 DEF Queue, Types, Workers, InCall
  <2> QED BY <1>2, <2>1 DEF Queue
<1>10. Listening'
  <2>1. CASE f = Acceptor
    BY <1>1, <1>2, <1>3, <1>7, <2>1 DEF Listening, InCall
  <2>2. CASE f # Acceptor
    BY <1>1, <1>2, <1>3, <2>2 DEF Listening, InCall
  <2> QED BY <2>1, <2>2
<1>11. Waits' BY <1>1, <1>2, <1>3, <1>7, WaitsFrame
<1>12. Timing' BY <1>1, <1>2, <1>3 DEF Timing, InCall
<1> QED BY <1>4, <1>5, <1>6, <1>8, <1>9, <1>10, <1>11, <1>12

\* A fiber that goes on inside its call, not to sleep: it begins the call, adds its
\* timer or tries again.
LEMMA CallKeeps ==
    ASSUME Inv, NEW f \in Workers \cup {Acceptor}, NEW l \in {"call", "add"},
           pc[f] \in {"serving", "connect", "call", "wait"},
           f \in Clients => l = "add" /\ event'[f] = "WRITE",
           pc' = [pc EXCEPT ![f] = l],
           f \in Workers => arg' = [arg EXCEPT ![f] = m_sock[f]],
           f = Acceptor => /\ UNCHANGED <<arg, event, to>>
                           /\ pc[f] \in InCall
                           /\ l = "add" => arg[Acceptor] # 0,
           event' \in [Fibers -> Event],
           \A g \in Fibers \ {f} : event'[g] = event[g],
           to' \in [Fibers -> {"plain", "never", "timed"}],
           \A g \in Fibers \ {f} : to'[g] = to[g],
           f \in expired => to'[f] = to[f],
           timer' \in [Fibers -> BOOLEAN],
           timer'[f] => l = "add" /\ to'[f] = "timed",
           \A g \in Fibers \ {f} : timer'[g] = timer[g],
           link' \in [Clients -> Links],
           tickets' \in [Fibers -> Nat], \A g \in Fibers \ {f} : tickets'[g] = tickets[g],
           UNCHANGED <<fdVars, backlog, inbox, m_events, slot, watched, expired, cancels, m_sock>>
    PROVE  Inv'
<1> USE HookAssumption, FdFacts DEF Inv, fdVars
<1>1. /\ f \in Fibers \ {Stopper} /\ Acceptor \in Fibers /\ Stopper \in Fibers
      /\ Acceptor \notin Workers
      /\ \A g \in Workers : g \in Fibers \ {Acceptor, Stopper}
  BY DEF Fibers, Workers
<1>2. /\ pc'[f] = l /\ \A g \in Fibers \ {f} : pc'[g] = pc[g]
      /\ pc' = [g \in Fibers |-> pc'[g]]
  BY <1>1 DEF Positions
<1>3. /\ arg' \in [Fibers -> Fds \cup {0}]
      /\ \A g \in Fibers \ {f} : arg'[g] = arg[g]
      /\ f \in Workers => arg'[f] = m_sock[f]
      /\ f = Acceptor => arg'[f] = arg[f]
  <2>1. CASE f \in Workers
    <3>1. arg' = [arg EXCEPT ![f] = m_sock[f]] BY <2>1
    <3>2. arg \in [Fibers -> Fds \cup {0}] /\ m_sock[f] \in Fds \cup {0} BY <1>1 DEF Types
    <3> QED BY <1>1, <2>1, <3>1, <3>2
  <2>2. CASE f = Acceptor BY <1>1, <2>2 DEF Types
  <2> QED BY <2>1, <2>2
<1>4. Types' BY <1>3 DEF Types, PollTypes
<1>5. Positions'
  <2>1. f \in Conns \/ f \in Clients \/ f = Acceptor BY DEF Workers
  <2>2. /\ f \in Conns => l \in ConnPC /\ f \notin Clients
        /\ f \in Clients => l \in ClientPC
        /\ f = Acceptor => l \in AcceptPC /\ f \notin Workers
    BY <1>1 DEF ConnPC, ClientPC, AcceptPC
  <2> QED BY <1>1, <1>2, <2>1, <2>2 DEF Positions, Workers
<1>6. Sockets'
  <2>1. ASSUME NEW g \in Workers \ {f} PROVE SockOK(g)'
    BY <1>1, <1>2, <1>3, SockFrame
  <2>2. ASSUME f \in Workers PROVE SockOK(f)'
    BY <1>2, <1>3, <2>2 DEF Sockets, SockOK, Holding, InCall
  <2> QED BY <2>1, <2>2 DEF Sockets
<1>7. Table' /\ Accepted'
  <2>1. \A d \in Fds : Fresh(d)' <=> Fresh(d)
    BY <1>1, <1>2, <1>3 DEF Fresh, InCall
  <2>2. Table' BY <2>1 DEF Table
  <2>3. Accepted' BY <1>1, <1>2, <1>3 DEF Accepted, Workers
  <2> QED BY <2>2, <2>3
<1>8. Queue' BY <1>1, <1>2, QueueOthers
<1>9. Listening'
  <2>1. CASE f = Acceptor
    <3>1. /\ pc'[Stopper] = pc[Stopper] /\ pc'[Acceptor] = l /\ l # "wait"
          /\ UNCHANGED <<arg, event, to>> /\ (l = "add" => arg[Acceptor] = 1)
      BY <1>1, <1>2, <2>1 DEF Listening
    <3> QED BY <1>1, <2>1, <3>1 DEF Listening, InCall
  <2>2. CASE f # Acceptor
    BY <1>1, <1>2, <1>3, <2>2 DEF Listening, InCall
  <2> QED BY <2>1, <2>2
<1>10. Waits' BY <1>1, <1>2, <1>3, WaitsFrame
<1>11. Timing'
  <2>1. f \in expired => to'[f] = "timed" BY <1>1 DEF Timing
  <2> QED BY <1>1, <1>2, <2>1 DEF Timing, InCall
<1> QED BY <1>4, <1>5, <1>6, <1>7, <1>8, <1>9, <1>10, <1>11

\* addEvent: the fiber is registered and switched away in the same step.  Nobody else
\* waits for this event of this number: another worker has another number, and a
\* client that was given the listening socket's waits to write.
LEMMA AddKeeps ==
    ASSUME Inv, NEW f \in Workers \cup {Acceptor}, do_io_addEvent(f), UNCHANGED srvVars
    PROVE  Inv'
<1> USE HookAssumption, FdFacts DEF Inv, fdVars, netVars, srvVars
<1>1. /\ f \in Fibers \ {Stopper} /\ Acceptor \in Fibers /\ Stopper \in Fibers
      /\ Acceptor \notin Workers
      /\ \A g \in Workers : g \in Fibers \ {Acceptor, Stopper}
      /\ pc[f] = "add"
  BY DEF Fibers, Workers, do_io_addEvent
<1>2. PICK fd \in Fds, ev \in Event : fd = arg[f] /\ ev = event[f]
  BY <1>1 DEF Sockets, SockOK, InCall, Holding, Listening, Types
<1>3. CASE ~AddEventWorks(fd)
  <2>1. /\ timer' = [timer EXCEPT ![f] = FALSE] /\ Return(f, "failed")
        /\ UNCHANGED <<fdVars, backlog, inbox, link, pollVars, cancels, m_sock>>
    BY <1>2, <1>3 DEF do_io_addEvent
  <2>2. /\ timer' \in [Fibers -> BOOLEAN] /\ ~timer'[f]
        /\ \A g \in Fibers \ {f} : timer'[g] = timer[g]
        /\ inbox' \in [Conns -> Inboxes]
        /\ tickets' \in [Fibers -> Nat] /\ tickets' = tickets
        /\ UNCHANGED <<m_events, slot, watched>>
    BY <1>1, <2>1 DEF Types, PollTypes, pollVars
  <2>3. pc[f] \in InCall BY <1>1 DEF InCall
  <2> QED BY <1>1, <2>1, <2>2, <2>3, ReturnKeeps
<1>4. CASE AddEventWorks(fd)
  <2>1. /\ m_events' = m_events \cup {<<fd, ev>>}
        /\ slot' = [slot EXCEPT ![fd][ev] = f]
        /\ watched' = watched \cup {fd}
        /\ pc' = [pc EXCEPT ![f] = "wait"]
        /\ UNCHANGED <<tickets, timer, arg, event, to, expired, fdVars, netVars, cancels, srvVars>>
    BY <1>2, <1>4 DEF do_io_addEvent, Goto
  <2>2. /\ pc'[f] = "wait" /\ \A g \in Fibers \ {f} : pc'[g] = pc[g]
        /\ pc' = [g \in Fibers |-> pc'[g]]
    BY <1>1, <2>1 DEF Positions
  <2>3. /\ slot' \in [Fds -> [Event -> Fibers \cup {Nobody}]]
        /\ slot'[fd][ev] = f
        /\ \A d \in Fds, e \in Event : (d # fd \/ e # ev) => slot'[d][e] = slot[d][e]
    BY <1>1, <2>1 DEF Types, PollTypes
  <2>4. Types'
    <3>1. PollTypes' BY <2>1, <2>3 DEF Types, PollTypes
    <3> QED BY <2>1, <3>1 DEF Types
  <2>5. Positions'
    <3>1. f \in Conns \/ f \in Clients \/ f = Acceptor BY DEF Workers
    <3>2. "wait" \in ConnPC /\ "wait" \in ClientPC /\ "wait" \in AcceptPC
      BY DEF ConnPC, ClientPC, AcceptPC
    <3> QED BY <1>1, <2>2, <3>1, <3>2 DEF Positions, Workers
  <2>6. Sockets'
    <3>1. ASSUME NEW g \in Workers \ {f} PROVE SockOK(g)' BY <1>1, <2>1, <2>2, SockFrame
    <3>2. ASSUME f \in Workers PROVE SockOK(f)'
      BY <1>1, <2>1, <2>2, <3>2 DEF Sockets, SockOK, Holding, InCall
    <3> QED BY <3>1, <3>2 DEF Sockets
  <2>7. Table' /\ Accepted'
    <3>1. \A d \in Fds : Fresh(d)' <=> Fresh(d) BY <1>1, <2>1, <2>2 DEF Fresh
    <3>2. Table' BY <2>1, <3>1 DEF Table
    <3>3. Accepted' BY <1>1, <2>1, <2>2 DEF Accepted, Workers
    <3> QED BY <3>2, <3>3
  <2>8. Queue' BY <1>1, <2>1, <2>2, QueueOthers
  <2>9. Listening'
    <3>1. CASE f = Acceptor
      BY <1>1, <2>1, <2>2, <3>1 DEF Listening, InCall
    <3>2. CASE f # Acceptor
      BY <1>1, <2>1, <2>2, <3>2 DEF Listening, InCall
    <3> QED BY <3>1, <3>2
  <2>10. Waits'
    <3> SUFFICES ASSUME NEW g \in Workers, pc'[g] = "wait", tickets'[g] = 0 PROVE WaitOK(g)'
      BY DEF Waits, WaitOK
    <3>1. CASE g = f BY <1>2, <2>1, <2>3, <3>1 DEF WaitOK
    <3>2. CASE g # f
      <4>1. pc[g] = "wait" /\ tickets[g] = 0 BY <1>1, <2>1, <2>2, <3>2
      <4>2. arg[g] = m_sock[g] /\ m_sock[g] \in Fds /\ file[m_sock[g]] = g BY <4>1, WaitsOwn
      <4>3. event[g] \in Event /\ (g \in Clients => event[g] = "WRITE")
        BY <1>1, <4>1 DEF Types, Sockets, SockOK, InCall
      <4>4. ~(arg[g] = fd /\ event[g] = ev)
        <5>1. CASE f \in Workers
          <6>1. file[fd] = f BY <1>1, <1>2, <5>1 DEF Sockets, SockOK, InCall, Holding
          <6> QED BY <3>2, <4>2, <6>1
        <5>2. CASE f = Acceptor
          <6>1. fd = 1 /\ ev = "READ" BY <1>1, <1>2, <5>2 DEF Listening, InCall
          <6>2. file[1] \notin Conns BY DEF Listening
          <6> QED BY <4>2, <4>3, <6>1, <6>2 DEF Workers
        <5> QED BY <5>1, <5>2
      <4>5. slot'[arg[g]][event[g]] = slot[arg[g]][event[g]] BY <2>3, <4>2, <4>3, <4>4
      <4> QED BY <2>1, <4>1, <4>5 DEF Waits, WaitOK
    <3> QED BY <3>1, <3>2
  <2>11. Timing' BY <1>1, <2>1, <2>2 DEF Timing, InCall
  <2> QED BY <2>4, <2>5, <2>6, <2>7, <2>8, <2>9, <2>10, <2>11
<1> QED BY <1>3, <1>4

\* A fiber that is resumed has used one of its tickets.
LEMMA SwitchedBackFacts ==
    ASSUME Inv, NEW f \in Fibers, SwitchedBack(f)
    PROVE  /\ pc[f] = "wait" /\ UNCHANGED <<m_events, slot, watched>>
           /\ tickets' \in [Fibers -> Nat]
           /\ \A g \in Fibers \ {f} : tickets'[g] = tickets[g]
<1>1. tickets \in [Fibers -> Nat] BY DEF Inv, Types, PollTypes
<1>2. tickets[f] > 0 /\ tickets' = [tickets EXCEPT ![f] = tickets[f] - 1]
  BY DEF SwitchedBack
<1>3. tickets[f] - 1 \in Nat BY <1>1, <1>2
<1> QED BY <1>1, <1>2, <1>3 DEF SwitchedBack

\* The steps that do_io has for every caller.
LEMMA DoIoKeeps ==
    ASSUME Inv, NEW f \in Conns \cup {Acceptor}, UNCHANGED srvVars,
           do_io_error(f) \/ do_io_again(f) \/ do_io_addEvent(f) \/ do_io_resume(f)
    PROVE  Inv'
<1> USE HookAssumption, FdFacts DEF Inv, fdVars, netVars, srvVars
<1>1. /\ f \in Fibers \ {Stopper} /\ f \in Workers \cup {Acceptor} /\ f \notin Clients
      /\ f \in Workers <=> f \in Conns
      /\ Acceptor \notin Workers
  BY DEF Fibers, Workers
<1>2. /\ timer \in [Fibers -> BOOLEAN] /\ to \in [Fibers -> {"plain", "never", "timed"}]
      /\ inbox \in [Conns -> Inboxes] /\ link \in [Clients -> Links]
      /\ arg \in [Fibers -> Fds \cup {0}] /\ event \in [Fibers -> Event]
      /\ tickets \in [Fibers -> Nat]
  BY DEF Types, PollTypes
<1>3. pc[f] = "call" => ~timer[f] BY <1>1 DEF Timing
<1>4. pc[f] \in InCall /\ f \in Workers => arg[f] = m_sock[f] BY DEF Sockets, SockOK
<1>5. pc[f] \in {"call", "wait"} => pc[f] \in InCall BY DEF InCall
<1>6. CASE do_io_error(f)
  <2>1. /\ pc[f] = "call" /\ Return(f, "failed")
        /\ UNCHANGED <<fdVars, netVars, timer, cancels, m_events, slot, watched, tickets>>
    BY <1>6 DEF do_io_error, pollVars
  <2> QED BY <1>1, <1>2, <1>3, <1>5, <2>1, ReturnKeeps
<1>7. CASE do_io_again(f)
  <2>1. /\ pc[f] = "call" /\ arg[f] # 0
        /\ UNCHANGED <<fdVars, netVars, cancels, m_events, slot, watched, tickets>>
    BY <1>7 DEF do_io_again, pollVars
  <2>2. CASE to[f] = "plain"
    <3>1. PICK l : l = (IF f = Acceptor THEN "failed" ELSE "serving") OBVIOUS
    <3>2. Return(f, l) /\ UNCHANGED timer BY <1>7, <2>2, <3>1 DEF do_io_again
    <3>3. /\ f \in Conns => l \in {"serving", "failed"}
          /\ f = Acceptor => l = "failed"
      BY <1>1, <3>1
    <3> QED BY <1>1, <1>2, <1>3, <1>5, <2>1, <3>2, <3>3, ReturnKeeps
  <2>3. CASE to[f] # "plain"
    <3>1. /\ pc' = [pc EXCEPT ![f] = "add"]
          /\ timer' = [timer EXCEPT ![f] = (to[f] = "timed")]
          /\ UNCHANGED <<arg, event, to, cancelled, expired>>
      BY <1>7, <2>3 DEF do_io_again, Goto
    <3>2. /\ timer' \in [Fibers -> BOOLEAN] /\ (timer'[f] => to[f] = "timed")
          /\ \A g \in Fibers \ {f} : timer'[g] = timer[g]
      BY <1>1, <1>2, <3>1
    <3>3. f \in Workers => arg' = [arg EXCEPT ![f] = m_sock[f]]
      BY <1>1, <1>2, <1>4, <1>5, <2>1, <3>1
    <3> QED BY <1>1, <1>2, <1>5, <2>1, <3>1, <3>2, <3>3, CallKeeps
  <2> QED BY <2>2, <2>3
<1>8. CASE do_io_addEvent(f) BY <1>1, <1>8, AddKeeps
<1>9. CASE do_io_resume(f)
  <2>1. /\ SwitchedBack(f) /\ timer' = [timer EXCEPT ![f] = FALSE]
        /\ UNCHANGED <<fdVars, netVars, cancels>>
    BY <1>9 DEF do_io_resume
  <2>2. /\ timer' \in [Fibers -> BOOLEAN] /\ ~timer'[f]
        /\ \A g \in Fibers \ {f} : timer'[g] = timer[g]
    BY <1>1, <1>2, <2>1
  <2>3. /\ pc[f] = "wait" /\ UNCHANGED <<m_events, slot, watched>>
        /\ tickets' \in [Fibers -> Nat] /\ \A g \in Fibers \ {f} : tickets'[g] = tickets[g]
    BY <1>1, <2>1, SwitchedBackFacts
  <2>4. CASE cancelled[f]
    <3>1. Return(f, "failed") BY <1>9, <2>4 DEF do_io_resume
    <3> QED BY <1>1, <1>2, <1>5, <2>1, <2>2, <2>3, <3>1, ReturnKeeps
  <2>5. CASE ~cancelled[f]
    <3>1. pc' = [pc EXCEPT ![f] = "call"] /\ UNCHANGED <<arg, event, to, cancelled, expired>>
      BY <1>9, <2>5 DEF do_io_resume, Goto
    <3>2. f \in Workers => arg' = [arg EXCEPT ![f] = m_sock[f]]
      BY <1>1, <1>2, <1>4, <1>5, <2>3, <3>1
    <3> QED BY <1>1, <1>2, <1>5, <2>1, <2>2, <2>3, <3>1, <3>2, CallKeeps
  <2> QED BY <2>4, <2>5
<1> QED BY <1>6, <1>7, <1>8, <1>9

-----------------------------------------------------------------------------
(* The fiber of a connection.                                              *)

\* A call to receive or to send begins, and ends.
LEMMA TransferKeeps ==
    ASSUME Inv, NEW c \in Conns, recv(c) \/ send(c) \/ recv_f(c) \/ send_f(c) PROVE Inv'
<1> USE HookAssumption, FdFacts DEF Inv, fdVars, netVars, srvVars
<1>1. c \in Fibers \ {Stopper} /\ c \in Workers /\ c # Acceptor /\ c \notin Clients
  BY DEF Fibers, Workers
<1>2. /\ timer \in [Fibers -> BOOLEAN] /\ to \in [Fibers -> {"plain", "never", "timed"}]
      /\ inbox \in [Conns -> Inboxes] /\ link \in [Clients -> Links]
      /\ event \in [Fibers -> Event] /\ tickets \in [Fibers -> Nat]
  BY DEF Types, PollTypes
<1>3. CASE recv(c) \/ send(c)
  <2>1. PICK k \in {"plain", "never", "timed"}, ev \in Event :
             /\ pc[c] = "serving" /\ pc' = [pc EXCEPT ![c] = "call"]
             /\ arg' = [arg EXCEPT ![c] = m_sock[c]]
             /\ event' = [event EXCEPT ![c] = ev]
             /\ to' = [to EXCEPT ![c] = k]
             /\ UNCHANGED <<cancelled, timer, expired, cancels>>
             /\ UNCHANGED <<fdVars, netVars, m_events, slot, watched, tickets, srvVars>>
    <3>1. PICK ev \in Event : /\ pc[c] = "serving" /\ do_io(c, m_sock[c], ev)
                              /\ UNCHANGED <<fdVars, netVars, pollVars, srvVars>>
      BY <1>3 DEF recv, send, Event
    <3> QED BY <3>1 DEF do_io, Goto, pollVars
  <2>2. ~timer[c] /\ c \notin expired BY <1>1, <2>1 DEF Timing, InCall
  <2>3. /\ to' \in [Fibers -> {"plain", "never", "timed"}]
        /\ event' \in [Fibers -> Event]
        /\ \A g \in Fibers \ {c} : to'[g] = to[g] /\ event'[g] = event[g]
    BY <1>1, <1>2, <2>1
  <2> QED BY <1>1, <1>2, <2>1, <2>2, <2>3, CallKeeps
<1>4. CASE recv_f(c) \/ send_f(c)
  <2>1. PICK l \in {"serving", "failed"} :
             /\ pc[c] = "call" /\ Return(c, l)
             /\ UNCHANGED <<fdVars, backlog, link, timer, cancels, srvVars>>
             /\ UNCHANGED <<m_events, slot, watched, tickets>>
    BY <1>4 DEF recv_f, send_f, pollVars
  <2>2. inbox' \in [Conns -> Inboxes] BY <1>2, <1>4 DEF recv_f, send_f, Inboxes
  <2>3. ~timer[c] /\ pc[c] \in InCall BY <1>1, <2>1 DEF Timing, InCall
  <2> QED BY <1>1, <1>2, <2>1, <2>2, <2>3, ReturnKeeps
<1> QED BY <1>3, <1>4

\* A context whose m_userNonblock is set is still that of its file.
LEMMA CtxChange ==
    ASSUME NEW r \in Contexts, NEW flag \in BOOLEAN
    PROVE  /\ [r EXCEPT !.m_userNonblock = flag] \in Contexts
           /\ [r EXCEPT !.m_userNonblock = flag].file = r.file
BY DEF Contexts

\* fcntl changes what the context says the user wants, and not the kernel's flag.
LEMMA NonblockKeeps ==
    ASSUME Inv, NEW c \in Conns, NEW flag \in BOOLEAN, setNonblock(c, flag) PROVE Inv'
<1> USE HookAssumption, FdAssumption, FdFacts DEF Inv, netVars, pollVars, callVars, srvVars
<1>1. /\ c \in Fibers /\ c \in Workers /\ pc[c] = "serving"
      /\ m_sock[c] \in Fds /\ file[m_sock[c]] = c /\ datas[m_sock[c]].file = c
      /\ m_sock[c] # 1
      /\ m_sock[c] \in nonblock
  <2>1. c \in Fibers /\ c \in Workers /\ pc[c] = "serving"
    BY DEF Fibers, Workers, setNonblock
  <2>2. m_sock[c] \in Fds /\ file[m_sock[c]] = c /\ datas[m_sock[c]].file = c
    BY <2>1 DEF Sockets, SockOK, Holding
  <2>3. datas[m_sock[c]] # NoCtx BY <2>2 DEF NoCtx, FdCtx
  <2>4. m_sock[c] \in nonblock BY <2>2, <2>3 DEF Table
  <2>5. m_sock[c] # 1 BY <2>2 DEF Listening
  <2> QED BY <2>1, <2>2, <2>4, <2>5
<1>2. PICK ctx \in Contexts :
           /\ ctx.file = c /\ ctx # NoCtx
           /\ datas' = [datas EXCEPT ![m_sock[c]] = ctx]
  <2>1. datas' = [datas EXCEPT ![m_sock[c]].m_userNonblock = flag]
    BY DEF setNonblock, fcntl
  <2> DEFINE ctx == [datas[m_sock[c]] EXCEPT !.m_userNonblock = flag]
  <2>2. datas[m_sock[c]] \in Contexts BY <1>1 DEF Types
  <2>3. datas' = [datas EXCEPT ![m_sock[c]] = ctx] BY <2>1
  <2>4. ctx \in Contexts /\ ctx.file = c BY <1>1, <2>2, CtxChange
  <2>5. ctx # NoCtx
    <3> HIDE DEF ctx
    <3> QED BY <2>4 DEF NoCtx, FdCtx
  <2> HIDE DEF ctx
  <2> QED BY <2>3, <2>4, <2>5
<1>3. /\ nonblock' = nonblock
      /\ UNCHANGED <<file, netVars, pollVars, callVars, pc, srvVars>>
  BY <1>1 DEF setNonblock, fcntl
<1>4. /\ datas'[m_sock[c]] = ctx /\ \A d \in Fds \ {m_sock[c]} : datas'[d] = datas[d]
      /\ datas' \in [Fds -> Contexts]
  BY <1>1, <1>2 DEF Types
<1> HIDE DEF NoCtx
<1>5. Types' BY <1>3, <1>4 DEF Types, PollTypes
<1>6. Positions' /\ Queue' BY <1>3 DEF Positions, Queue
<1>7. Sockets'
  <2>1. ASSUME NEW g \in Workers \ {c} PROVE SockOK(g)'
    <3>1. pc[g] \in Holding => m_sock[g] \in Fds /\ m_sock[g] # m_sock[c]
      BY <1>1, Apart DEF Sockets, SockOK, Holding
    <3> QED BY <1>3, <1>4, <3>1, SockFrame
  <2>2. SockOK(c)' BY <1>1, <1>2, <1>3, <1>4 DEF SockOK, Holding, InCall
  <2> QED BY <2>1, <2>2 DEF Sockets
<1>8. Table'
  <2>1. NoCtx' = NoCtx BY DEF NoCtx, FdCtx
  <2> QED BY <1>1, <1>2, <1>3, <1>4, <2>1 DEF Table, Fresh, Workers
<1>9. Accepted'
  <2>1. pc[Acceptor] = "accepted" => arg[Acceptor] # m_sock[c] BY <1>1 DEF Accepted
  <2> QED BY <1>3, <1>4, <2>1 DEF Accepted, NoCtx, FdCtx
<1>10. Listening'
  <2>1. datas'[1] = datas[1] BY <1>1, <1>4
  <2> QED BY <1>3, <2>1 DEF Listening, InCall, NoCtx, FdCtx
<1>11. Waits' BY <1>3, WaitsFrame
<1>12. Timing' BY <1>3 DEF Timing
<1> QED BY <1>5, <1>6, <1>7, <1>8, <1>9, <1>10, <1>11, <1>12

-----------------------------------------------------------------------------
(* Clients.                                                                *)

\* A client moves outside of any call, and nothing else changes.
LEMMA ClientMoves ==
    ASSUME Inv, NEW c \in Clients, NEW l,
           \/ pc[c] = "off" /\ l = "done"
           \/ pc[c] = "connect" /\ l \in {"connected", "failed"},
           pc' = [pc EXCEPT ![c] = l],
           link' \in [Clients -> Links],
           UNCHANGED <<fdVars, backlog, inbox, pollVars, callVars, m_sock>>
    PROVE  Inv'
<1> USE HookAssumption, FdFacts DEF Inv, fdVars, pollVars, callVars
<1>1. /\ c \in Fibers \ {Acceptor, Stopper} /\ c \in Workers /\ c \notin Conns
      /\ Acceptor \in Fibers /\ Stopper \in Fibers
      /\ \A g \in Conns : g \in Fibers \ {c}
      /\ \A g \in Workers : g \in Fibers
  BY DEF Fibers, Workers
<1>2. /\ pc'[c] = l /\ \A g \in Fibers \ {c} : pc'[g] = pc[g]
      /\ pc' = [g \in Fibers |-> pc'[g]]
  BY <1>1 DEF Positions
<1>3. Types' BY DEF Types, PollTypes
<1>4. Positions' BY <1>1, <1>2 DEF Positions, Workers, ClientPC
<1>5. Sockets'
  <2>1. ASSUME NEW g \in Workers \ {c} PROVE SockOK(g)' BY <1>1, <1>2, SockFrame
  <2>2. SockOK(c)' BY <1>1, <1>2 DEF Sockets, SockOK, Holding, InCall
  <2> QED BY <2>1, <2>2 DEF Sockets
<1>6. Table' /\ Accepted'
  BY <1>1, <1>2 DEF Table, Fresh, Accepted
<1>7. Queue'
  <2>1. \A i \in 1..Len(backlog) : backlog[i] \in Fibers \ {c} BY <1>1 DEF Types
  <2>2. \A i \in 1..Len(backlog) : pc'[backlog[i]] = "opened" BY <1>2, <2>1 DEF Queue
  <2> QED BY <2>2, QueueFrame
<1>8. Listening' BY <1>1, <1>2 DEF Listening, InCall
<1>9. Waits' BY <1>1, <1>2, WaitsFrame
<1>10. Timing' BY <1>1, <1>2 DEF Timing, InCall
<1> QED BY <1>3, <1>4, <1>5, <1>6, <1>7, <1>8, <1>9, <1>10

\* newSock: the number was free, so it has no context and nobody waits for it.
LEMMA SocketKeeps == ASSUME Inv, NEW c \in Clients, socket(c) PROVE Inv'
<1> USE HookAssumption, FdAssumption, FdFacts DEF Inv, fdVars, netVars, pollVars, callVars
<1>1. CASE TableFull
  <2>1. /\ pc[c] = "off" /\ pc' = [pc EXCEPT ![c] = "done"]
        /\ UNCHANGED <<fdVars, netVars, pollVars, callVars, m_sock>>
    BY <1>1 DEF socket, Goto
  <2> QED BY <2>1, ClientMoves DEF Types
<1>2. CASE ~TableFull
  <2>1. PICK n \in Fds :
             /\ file[n] = Closed /\ pc[c] = "off"
             /\ file' = [file EXCEPT ![n] = c]
             /\ m_sock' = [m_sock EXCEPT ![c] = n]
             /\ pc' = [pc EXCEPT ![c] = "socket"]
             /\ UNCHANGED <<nonblock, datas, netVars, pollVars, callVars, m_isConnected>>
    <3>1. NewFd \in Fds /\ file[NewFd] = Closed BY <1>2, NewFdFree
    <3> HIDE DEF NewFd
    <3> QED BY <1>2, <3>1 DEF socket, Goto
  <2>2. /\ c \in Fibers \ {Acceptor, Stopper} /\ c \in Workers /\ c \notin Conns
        /\ Acceptor \in Fibers /\ Stopper \in Fibers /\ c \in Files
        /\ \A g \in Conns : g \in Fibers \ {c}
        /\ \A g \in Workers : g \in Fibers /\ g # Closed
        /\ m_sock[c] = 0 /\ datas[n] = NoCtx
    BY <2>1 DEF Fibers, Workers, Sockets, SockOK, Holding, Table
  <2>3. \A d \in Fds : file[d] # c BY <2>2 DEF Table, Accepted, Fresh
  <2> HIDE DEF NoCtx
  <2>4. /\ pc'[c] = "socket" /\ \A g \in Fibers \ {c} : pc'[g] = pc[g]
        /\ pc' = [g \in Fibers |-> pc'[g]]
    BY <2>1, <2>2 DEF Positions
  <2>5. /\ m_sock'[c] = n /\ \A g \in Fibers \ {c} : m_sock'[g] = m_sock[g]
        /\ m_sock' \in [Fibers -> Fds \cup {0}]
    BY <2>1, <2>2 DEF Types
  <2>6. /\ file'[n] = c /\ \A d \in Fds \ {n} : file'[d] = file[d]
        /\ file' \in [Fds -> Files \cup {Closed}]
    BY <2>1, <2>2 DEF Types
  <2>7. Types' BY <2>1, <2>5, <2>6 DEF Types, PollTypes
  <2>8. Positions' BY <2>2, <2>4 DEF Positions, Workers, ClientPC
  <2>9. Sockets'
    <3>1. ASSUME NEW g \in Workers \ {c} PROVE SockOK(g)'
      <4>1. pc[g] \in Holding => m_sock[g] \in Fds /\ file[m_sock[g]] = g
        BY DEF Sockets, SockOK
      <4>2. pc[g] \in Holding => m_sock[g] # n BY <2>1, <2>2, <4>1
      <4> QED BY <2>1, <2>2, <2>4, <2>5, <2>6, <4>1, <4>2, SockFrame
    <3>2. SockOK(c)' BY <2>1, <2>2, <2>4, <2>5, <2>6 DEF SockOK, Holding, InCall, NoCtx, FdCtx
    <3> QED BY <3>1, <3>2 DEF Sockets
  <2>10. Table'
    <3> SUFFICES ASSUME NEW d \in Fds
        PROVE /\ file'[d] \in Workers => m_sock'[file'[d]] = d \/ Fresh(d)'
              /\ file'[d] = Listen => d = 1 /\ d \in nonblock
              /\ datas[d] # NoCtx => /\ file'[d] # Closed
                                     /\ datas[d].file = file'[d]
                                     /\ d \in nonblock
      BY <2>1 DEF Table, NoCtx
    <3>1. CASE d = n BY <2>2, <2>5, <2>6, <3>1
    <3>2. CASE d # n
      <4>1. file'[d] = file[d] /\ file[d] # c BY <2>3, <2>6, <3>2
      <4>2. Fresh(d)' <=> Fresh(d) BY <2>1, <2>2, <2>4 DEF Fresh
      <4> QED BY <2>2, <2>5, <4>1, <4>2 DEF Table
    <3> QED BY <3>1, <3>2
  <2>11. Accepted'
    <3>1. ASSUME pc[Acceptor] = "accepted"
          PROVE  /\ arg[Acceptor] \in Fds \ {n} /\ file[arg[Acceptor]] \in Conns
      BY <2>1, <3>1 DEF Accepted
    <3> QED BY <2>1, <2>2, <2>4, <2>6, <3>1 DEF Accepted, NoCtx, FdCtx
  <2>12. Queue'
    <3>1. \A i \in 1..Len(backlog) : backlog[i] \in Fibers \ {c} BY <2>2 DEF Types
    <3>2. \A d \in Fds : file'[d] = file[d] \/ file'[d] = c BY <2>6
    <3> QED BY <2>1, <2>4, <3>1, <3>2 DEF Queue
  <2>13. Listening'
    <3>1. /\ m_sock'[Acceptor] = m_sock[Acceptor]
          /\ pc'[Acceptor] = pc[Acceptor] /\ pc'[Stopper] = pc[Stopper]
      BY <2>2, <2>4, <2>5
    <3>2. (file[1] = Listen => file'[1] = Listen) /\ file'[1] \notin Conns
      <4>1. CASE n = 1 BY <2>1, <2>2, <2>6, <4>1
      <4>2. CASE n # 1 BY <2>6, <4>2 DEF Listening
      <4> QED BY <4>1, <4>2
    <3> QED BY <2>1, <3>1, <3>2 DEF Listening, InCall, NoCtx, FdCtx
  <2>14. Waits' BY <2>1, <2>2, <2>4, WaitsFrame
  <2>15. Timing' BY <2>1, <2>2, <2>4 DEF Timing, InCall
  <2> QED BY <2>7, <2>8, <2>9, <2>10, <2>11, <2>12, <2>13, <2>14, <2>15
<1> QED BY <1>1, <1>2

\* The hooked socket makes the context.
LEMMA SocketGetKeeps == ASSUME Inv, NEW c \in Clients, socket_get(c) PROVE Inv'
<1> USE HookAssumption, FdAssumption, FdFacts DEF Inv, netVars, pollVars, callVars, srvVars
<1>1. /\ c \in Fibers \ {Acceptor, Stopper} /\ c \in Workers /\ c \notin Conns
      /\ Acceptor \in Fibers /\ Stopper \in Fibers /\ c \in Files
      /\ \A g \in Conns : g \in Fibers \ {c}
      /\ \A g \in Workers : g \in Fibers
      /\ pc[c] = "socket"
  BY DEF Fibers, Workers, socket_get
<1>2. PICK fd \in Fds : fd = m_sock[c] /\ file[fd] = c /\ datas[fd] = NoCtx
  BY <1>1 DEF Sockets, SockOK, Holding
<1>3. pc[Stopper] # "done" => fd # 1 BY <1>1, <1>2 DEF Listening
<1>4. PICK ctx \in Contexts :
           /\ ctx.file = c /\ ctx # NoCtx
           /\ datas' = [datas EXCEPT ![fd] = ctx]
           /\ nonblock' = nonblock \cup {fd}
  <2> DEFINE ctx == [FdCtx(c) EXCEPT !.m_recvTimeout = FALSE, !.m_sendTimeout = FALSE]
  <2>1. datas' = [datas EXCEPT ![fd] = ctx] /\ nonblock' = nonblock \cup {fd}
    BY <1>2 DEF socket_get, getOrCreate
  <2>2. ctx \in Contexts /\ ctx.file = c /\ ctx # NoCtx
    BY <1>1 DEF Contexts, FdCtx, NoCtx
  <2> HIDE DEF ctx
  <2> QED BY <2>1, <2>2
<1>5. /\ pc' = [pc EXCEPT ![c] = "connect"]
      /\ UNCHANGED <<file, netVars, pollVars, callVars, srvVars>>
  BY DEF socket_get, Goto
<1> HIDE DEF NoCtx
<1>6. /\ pc'[c] = "connect" /\ \A g \in Fibers \ {c} : pc'[g] = pc[g]
      /\ pc' = [g \in Fibers |-> pc'[g]]
  BY <1>1, <1>5 DEF Positions
<1>7. /\ datas'[fd] = ctx /\ \A d \in Fds \ {fd} : datas'[d] = datas[d]
      /\ datas' \in [Fds -> Contexts]
  BY <1>4 DEF Types
<1>8. Types' BY <1>4, <1>5, <1>7 DEF Types, PollTypes
<1>9. Positions' BY <1>1, <1>6 DEF Positions, Workers, ClientPC
<1>10. Sockets'
  <2>1. ASSUME NEW g \in Workers \ {c} PROVE SockOK(g)'
    <3>1. pc[g] \in Holding => m_sock[g] \in Fds /\ m_sock[g] # fd
      BY <1>1, <1>2, Apart DEF Sockets, SockOK, Holding
    <3> QED BY <1>1, <1>5, <1>6, <1>7, <3>1, SockFrame
  <2>2. SockOK(c)' BY <1>2, <1>4, <1>5, <1>6, <1>7 DEF SockOK, Holding, InCall
  <2> QED BY <2>1, <2>2 DEF Sockets
<1>11. Table'
  <2>1. NoCtx' = NoCtx BY DEF NoCtx, FdCtx
  <2>2. \A d \in Fds : Fresh(d)' <=> Fresh(d) BY <1>1, <1>5, <1>6 DEF Fresh
  <2> QED BY <1>1, <1>2, <1>4, <1>5, <1>7, <2>1, <2>2 DEF Table, Workers
<1>12. Accepted'
  <2>1. pc[Acceptor] = "accepted" => arg[Acceptor] # fd BY <1>1, <1>2 DEF Accepted
  <2> QED BY <1>1, <1>5, <1>6, <1>7, <2>1 DEF Accepted, NoCtx, FdCtx
<1>13. Queue' BY <1>1, <1>5, <1>6, QueueOthers
<1>14. Listening'
  <2>1. pc[Stopper] # "done" => datas'[1] = datas[1] BY <1>3, <1>7
  <2> QED BY <1>1, <1>5, <1>6, <2>1 DEF Listening, InCall, NoCtx, FdCtx
<1>15. Waits' BY <1>1, <1>5, <1>6, WaitsFrame
<1>16. Timing' BY <1>1, <1>5, <1>6 DEF Timing, InCall
<1> QED BY <1>8, <1>9, <1>10, <1>11, <1>12, <1>13, <1>14, <1>15, <1>16

\* connect_f answers at once, or the client adds its timer.
LEMMA ConnectKeeps == ASSUME Inv, NEW c \in Clients, connect_f(c) PROVE Inv'
<1> USE HookAssumption, FdFacts DEF Inv, fdVars, pollVars
<1>1. /\ c \in Fibers \ {Acceptor, Stopper} /\ c \in Workers /\ c \notin Conns
      /\ pc[c] = "connect"
      /\ UNCHANGED <<fdVars, backlog, inbox, pollVars, m_sock>>
  BY DEF Fibers, Workers, connect_f
<1>2. PICK r \in {"up", "refused", "pending"} : link' = [link EXCEPT ![c] = r]
  BY DEF connect_f
<1>3. link'[c] = r /\ link' \in [Clients -> Links] BY <1>2 DEF Types, Links
<1>5. CASE r = "up"
  <2>1. Goto(c, "connected") /\ UNCHANGED callVars BY <1>3, <1>5, Zenon DEF connect_f
  <2> QED BY <1>1, <1>3, <2>1, ClientMoves DEF Goto
<1>6. CASE r = "refused"
  <2>1. Goto(c, "failed") /\ UNCHANGED callVars BY <1>3, <1>6, Zenon DEF connect_f
  <2> QED BY <1>1, <1>3, <2>1, ClientMoves DEF Goto
<1>7. CASE r = "pending"
  <2>1. /\ Goto(c, "add")
        /\ arg' = [arg EXCEPT ![c] = m_sock[c]]
        /\ event' = [event EXCEPT ![c] = "WRITE"]
        /\ to' = [to EXCEPT ![c] = "timed"]
        /\ timer' = [timer EXCEPT ![c] = TRUE]
        /\ UNCHANGED <<cancelled, expired, cancels>>
    BY <1>3, <1>7, Zenon DEF connect_f
  <2>2. c \notin expired BY <1>1 DEF Timing, InCall
  <2>3. /\ to' \in [Fibers -> {"plain", "never", "timed"}] /\ to'[c] = "timed"
        /\ \A g \in Fibers \ {c} : to'[g] = to[g]
        /\ timer' \in [Fibers -> BOOLEAN]
        /\ \A g \in Fibers \ {c} : timer'[g] = timer[g]
        /\ event' \in [Fibers -> Event] /\ event'[c] = "WRITE"
        /\ \A g \in Fibers \ {c} : event'[g] = event[g]
        /\ tickets \in [Fibers -> Nat]
    BY <1>1, <2>1 DEF Types, PollTypes, Event
  <2> QED BY <1>1, <1>3, <2>1, <2>2, <2>3, CallKeeps DEF Goto
<1> QED BY <1>5, <1>6, <1>7

\* connect returns, from its wait or because the event could not be added.
LEMMA ConnectReturnKeeps ==
    ASSUME Inv, NEW c \in Clients, connect_addEvent(c) \/ connect_resume(c) PROVE Inv'
<1> USE HookAssumption DEF Inv, fdVars, netVars, pollVars
<1>1. c \in Fibers \ {Acceptor, Stopper} /\ c \in Workers /\ c \notin Conns
  BY DEF Fibers, Workers
<1>2. CASE connect_addEvent(c) /\ AddEventWorks(arg[c])
  BY <1>1, <1>2, AddKeeps DEF connect_addEvent
<1>3. CASE connect_resume(c) \/ (connect_addEvent(c) /\ ~AddEventWorks(arg[c]))
  <2>1. PICK l \in {"failed", "connected"} : ConnectReturns(c, l)
    BY <1>3 DEF connect_resume, connect_addEvent, ConnectResult, SoError
  <2>2. /\ Return(c, l) /\ timer' = [timer EXCEPT ![c] = FALSE]
        /\ UNCHANGED <<fdVars, netVars, cancels, m_sock>>
    BY <2>1 DEF ConnectReturns
  <2>3. /\ timer' \in [Fibers -> BOOLEAN] /\ ~timer'[c]
        /\ \A g \in Fibers \ {c} : timer'[g] = timer[g]
        /\ inbox' \in [Conns -> Inboxes]
    BY <1>1, <2>2 DEF Types
  <2>4. /\ pc[c] \in {"add", "wait"} /\ UNCHANGED <<m_events, slot, watched>>
        /\ tickets' \in [Fibers -> Nat] /\ \A g \in Fibers \ {c} : tickets'[g] = tickets[g]
    <3>1. CASE connect_resume(c) BY <1>1, <3>1, SwitchedBackFacts DEF connect_resume
    <3>2. CASE connect_addEvent(c) /\ ~AddEventWorks(arg[c])
      BY <3>2 DEF connect_addEvent, Types, PollTypes
    <3> QED BY <1>3, <3>1, <3>2
  <2>5. pc[c] \in InCall BY <2>4 DEF InCall
  <2> QED BY <1>1, <2>1, <2>2, <2>3, <2>4, <2>5, ReturnKeeps
<1> QED BY <1>2, <1>3

-----------------------------------------------------------------------------
(* Timers and peers.                                                       *)

\* A timer expires, or its callback looks at the call.
LEMMA TimerKeeps == ASSUME Inv, NEW f \in Workers, TimerStep(f) PROVE Inv'
<1> USE HookAssumption, FdFacts DEF Inv, fdVars, netVars, pollVars, srvVars
<1>1. f \in Fibers BY DEF Workers, Fibers
<1>2. /\ UNCHANGED <<fdVars, netVars, pollVars, pc, arg, event, to, srvVars>>
      /\ timer[f] \/ f \in expired
      /\ timer' \in [Fibers -> BOOLEAN]
      /\ \A g \in Fibers : timer'[g] => timer[g]
      /\ expired' \subseteq expired \cup {f}
      /\ cancels' \subseteq cancels \cup {<<arg[f], event[f]>>}
  BY <1>1 DEF TimerStep, TimerExpires, CallbackCheck, Types
<1>3. to[f] = "timed" /\ pc[f] \in InCall BY <1>1, <1>2 DEF Timing
<1>4. arg[f] \in Fds /\ event[f] \in Event
  BY <1>1, <1>3 DEF Sockets, SockOK, InCall, Holding, Types
<1>5. Types'
  <2>1. cancels' \subseteq Fds \X Event BY <1>2, <1>4 DEF Types
  <2> QED BY <1>1, <1>2, <2>1 DEF Types, PollTypes
<1>6. Positions' /\ Queue' BY <1>2 DEF Positions, Queue
<1>7. Sockets'
  <2>1. ASSUME NEW g \in Workers PROVE SockOK(g)' BY <1>2, SockFrame
  <2> QED BY <2>1 DEF Sockets
<1>8. Table' /\ Accepted' BY <1>2 DEF Table, Accepted, Fresh
<1>9. Listening' BY <1>2 DEF Listening, NoCtx, FdCtx
<1>10. Waits' BY <1>2, WaitsFrame
<1>11. Timing' BY <1>1, <1>2, <1>3 DEF Timing
<1> QED BY <1>5, <1>6, <1>7, <1>8, <1>9, <1>10, <1>11

\* A peer connects: it joins the backlog, where it was not.
LEMMA PeerConnectsKeeps == ASSUME Inv, NEW c \in Conns, PeerConnects(c) PROVE Inv'
<1> USE HookAssumption, FdFacts DEF Inv, fdVars, pollVars, callVars, srvVars
<1>1. /\ pc[c] = "off"
      /\ \A i \in 1..Len(backlog) : backlog[i] # c
      /\ \A fd \in Fds : file[fd] # c
      /\ backlog' = Append(backlog, c)
      /\ pc' = [pc EXCEPT ![c] = "opened"]
      /\ UNCHANGED <<fdVars, inbox, link, pollVars, callVars, srvVars>>
  <2>1. pc[c] = "off" /\ c \in Workers BY DEF PeerConnects, Workers
  <2>2. m_sock[c] = 0 BY <2>1 DEF Sockets, SockOK, Holding
  <2>3. \A fd \in Fds : file[fd] # c BY <2>1, <2>2 DEF Table, Fresh, Accepted
  <2>4. \A i \in 1..Len(backlog) : backlog[i] # c BY <2>1 DEF Queue
  <2> QED BY <2>1, <2>3, <2>4 DEF PeerConnects, Goto
<1>2. /\ c \in Fibers \ {Acceptor, Stopper} /\ c \in Workers
      /\ Acceptor \in Fibers /\ Stopper \in Fibers
      /\ \A g \in Workers : g \in Fibers
  BY DEF Fibers, Workers
<1>3. /\ pc'[c] = "opened" /\ \A g \in Fibers \ {c} : pc'[g] = pc[g]
      /\ pc' = [g \in Fibers |-> pc'[g]]
  BY <1>1, <1>2 DEF Positions
<1>4. /\ backlog' \in Seq(Conns)
      /\ Len(backlog) \in Nat /\ Len(backlog') = Len(backlog) + 1
      /\ backlog'[Len(backlog) + 1] = c
      /\ \A i \in 1..Len(backlog) : backlog'[i] = backlog[i] /\ backlog[i] \in Conns
  BY <1>1 DEF Types
<1>5. Types' BY <1>1, <1>4 DEF Types, PollTypes
<1>6. Positions' BY <1>2, <1>3 DEF Positions, ConnPC, Workers
<1>7. Sockets'
  <2>1. ASSUME NEW g \in Workers \ {c} PROVE SockOK(g)' BY <1>1, <1>2, <1>3, SockFrame
  <2>2. SockOK(c)' BY <1>1, <1>2, <1>3 DEF Sockets, SockOK, Holding, InCall
  <2> QED BY <2>1, <2>2 DEF Sockets
<1>8. Table' BY <1>1, <1>2, <1>3 DEF Table, Fresh
<1>9. Accepted' BY <1>1, <1>2, <1>3 DEF Accepted, Workers, Fibers
<1>10. Queue'
  <2> SUFFICES ASSUME NEW i \in 1..Len(backlog')
      PROVE  /\ pc'[backlog'[i]] = "opened"
             /\ \A fd \in Fds : file[fd] # backlog'[i]
             /\ \A j \in 1..Len(backlog') : backlog'[i] = backlog'[j] => i = j
    BY <1>1 DEF Queue
  <2>1. \A j \in 1..Len(backlog') : j \in 1..Len(backlog) \/ j = Len(backlog) + 1
    BY <1>4
  <2>2. CASE i = Len(backlog) + 1
    BY <1>1, <1>3, <1>4, <2>1, <2>2
  <2>3. CASE i \in 1..Len(backlog)
    <3>1. backlog'[i] = backlog[i] /\ backlog[i] \in Fibers \ {c}
      BY <1>1, <1>2, <1>4, <2>3 DEF Workers
    <3>2. pc'[backlog'[i]] = "opened" /\ \A fd \in Fds : file[fd] # backlog'[i]
      BY <1>3, <2>3, <3>1 DEF Queue
    <3>3. \A j \in 1..Len(backlog) : backlog'[i] = backlog'[j] => i = j
      BY <1>4, <2>3 DEF Queue
    <3> QED BY <1>4, <2>1, <3>1, <3>2, <3>3
  <2> QED BY <2>1, <2>2, <2>3
<1>11. Listening' BY <1>1, <1>2, <1>3 DEF Listening, InCall
<1>12. Waits' BY <1>1, <1>2, <1>3, WaitsFrame
<1>13. Timing' BY <1>1, <1>2, <1>3 DEF Timing, InCall
<1> QED BY <1>5, <1>6, <1>7, <1>8, <1>9, <1>10, <1>11, <1>12, <1>13

\* Data arrives or is read, a connection is reset, a pending one is answered; or
\* nothing happens.
LEMMA QuietKeeps ==
    ASSUME Inv,
           \/ \E c \in Conns : PeerSends(c) \/ PeerResets(c) \/ PeerReads(c)
           \/ \E c \in Clients : PeerAnswers(c)
           \/ UNCHANGED vars
    PROVE  Inv'
<1> USE DEF Inv, fdVars, pollVars, callVars, srvVars, netVars
<1>1. /\ inbox' \in [Conns -> Inboxes] /\ link' \in [Clients -> Links]
      /\ UNCHANGED <<fdVars, backlog, pollVars, callVars, pc, srvVars>>
  <2>1. CASE \E c \in Conns : PeerSends(c) \/ PeerResets(c) \/ PeerReads(c)
    BY <2>1 DEF PeerSends, PeerResets, PeerReads, Types, Inboxes
  <2>2. CASE \E c \in Clients : PeerAnswers(c)
    <3>1. PICK c \in Clients, l \in {"up", "refused"} :
               /\ link' = [link EXCEPT ![c] = l]
               /\ UNCHANGED <<fdVars, backlog, inbox, pollVars, callVars, pc, srvVars>>
      BY <2>2 DEF PeerAnswers
    <3> QED BY <3>1 DEF Types, Links
  <2>3. CASE UNCHANGED vars BY <2>3 DEF vars, Types
  <2> QED BY <2>1, <2>2, <2>3
<1>2. Types' /\ Positions' /\ Queue' BY <1>1 DEF Types, PollTypes, Positions, Queue
<1>3. Sockets'
  <2>1. ASSUME NEW g \in Workers PROVE SockOK(g)' BY <1>1, SockFrame
  <2> QED BY <2>1 DEF Sockets
<1>4. Table' /\ Accepted' BY <1>1 DEF Table, Accepted, Fresh
<1>5. Listening' BY <1>1 DEF Listening, NoCtx, FdCtx
<1>6. Waits' BY <1>1, WaitsFrame
<1>7. Timing' BY <1>1 DEF Timing
<1> QED BY <1>2, <1>3, <1>4, <1>5, <1>6, <1>7

-----------------------------------------------------------------------------
(* The theorems.                                                           *)

\* Inv holds in every state of the server: every step of the acceptor, of stop(), of
\* a connection, a client, a timer's callback, epoll or a peer keeps it.
THEOREM ServerInvariant == Spec => []Inv
<1>1. Inv /\ [Next]_vars => Inv'
  <2> SUFFICES ASSUME Inv, [Next]_vars PROVE Inv' OBVIOUS
  <2> USE DEF Workers
  <2>1. CASE start \/ stop BY <2>1, StartStopKeeps
  <2>2. CASE AcceptStep
    BY <2>2, StartAcceptKeeps, AcceptKeeps, AcceptInitKeeps, DoIoKeeps DEF AcceptStep
  <2>3. CASE StopStep BY <2>3, StopCancelKeeps, StopCloseKeeps, CloseKeeps DEF StopStep
  <2>4. ASSUME NEW c \in Conns,
               ServeStep(c) \/ HandleStep(c)
        PROVE  Inv'
    <3>1. CASE recv(c) \/ send(c) \/ recv_f(c) \/ send_f(c) BY <3>1, TransferKeeps
    <3>2. CASE \E flag \in BOOLEAN : setNonblock(c, flag) BY <3>2, NonblockKeeps
    <3>3. CASE handleClient_close(c) BY <3>3, WorkerCloseKeeps DEF handleClient_close
    <3>4. CASE Close(c) BY <3>4, CloseKeeps
    <3>5. CASE /\ do_io_error(c) \/ do_io_again(c) \/ do_io_addEvent(c) \/ do_io_resume(c)
               /\ UNCHANGED srvVars
      BY <3>5, DoIoKeeps
    <3> QED BY <2>4, <3>1, <3>2, <3>3, <3>4, <3>5 DEF ServeStep, HandleStep
  <2>5. ASSUME NEW c \in Clients, ClientStep(c) PROVE Inv'
    <3>2. CASE socket(c) \/ socket_get(c) BY <3>2, SocketKeeps, SocketGetKeeps
    <3>3. CASE connect_f(c) BY <3>3, ConnectKeeps
    <3>4. CASE connect_addEvent(c) \/ connect_resume(c) BY <3>4, ConnectReturnKeeps
    <3>5. CASE client_close(c) BY <3>5, WorkerCloseKeeps DEF client_close
    <3>6. CASE Close(c) BY <3>6, CloseKeeps
    <3> QED BY <2>5, <3>2, <3>3, <3>4, <3>5, <3>6 DEF ClientStep
  <2>6. CASE \E f \in Conns \cup Clients : TimerStep(f) BY <2>6, TimerKeeps
  <2>7. CASE \E fd \in Fds : CancelStep(fd) \/ PollStep(fd) BY <2>7, PollKeeps
  <2>8. CASE Peers BY <2>8, PeerConnectsKeeps, QuietKeeps DEF Peers
  <2>9. CASE UNCHANGED vars BY <2>9, QuietKeeps
  <2> QED BY <2>1, <2>2, <2>3, <2>4, <2>5, <2>6, <2>7, <2>8, <2>9 DEF Next
<1> QED BY <1>1, InitInv, PTL DEF Spec, TimerSpec

\* A context never outlives the file it was made for: whatever close(), accept() and
\* socket() interleave to, no connection inherits a timeout or a mode from the one
\* that had its number before, for any number of connections, clients, descriptors.
THEOREM ContextsCorrect == Spec => []CtxMatchesFile
<1>1. Inv => CtxMatchesFile BY DEF Inv, Table, CtxMatchesFile
<1> QED BY <1>1, ServerInvariant, PTL

\* A fiber works on its own socket as long as it holds it.
THEOREM OwnSocketCorrect == Spec => []OwnSocket
<1>1. Inv => OwnSocket
  BY DEF Inv, OwnSocket, Sockets, SockOK, Workers, Holding
<1> QED BY <1>1, ServerInvariant, PTL

\* No call on the file it is meant for blocks in the kernel, so no worker thread does,
\* whatever the user asks for with fcntl and however far a close() has come.
THEOREM NeverBlocksCorrect == Spec => []NeverBlocks
<1>1. Inv => NeverBlocks
  <2> USE HookAssumption, FdAssumption DEF Inv
  <2> SUFFICES ASSUME Inv, NEW f \in Fibers, pc[f] \in {"call", "add", "wait"},
                      arg[f] # 0, file[arg[f]] = FileOf(f)
      PROVE  arg[f] \in nonblock
    BY DEF NeverBlocks
  <2>1. f \in Workers \/ f = Acceptor BY DEF Fibers, Workers, Positions, StopPC
  <2>2. CASE f \in Workers
    <3>1. arg[f] \in Fds /\ datas[arg[f]].file = f
      BY <2>2 DEF Sockets, SockOK, InCall, Holding
    <3>2. datas[arg[f]] # NoCtx BY <2>2, <3>1 DEF NoCtx, FdCtx, Workers
    <3> QED BY <3>1, <3>2 DEF Table
  <2>3. CASE f = Acceptor
    <3>1. arg[f] \in Fds /\ file[arg[f]] = Listen BY <2>3 DEF Types, FileOf
    <3> QED BY <3>1 DEF Table
  <2> QED BY <2>1, <2>2, <2>3
<1> QED BY <1>1, ServerInvariant, PTL

\* No wake-up of a fiber with a socket of its own is lost, for any numbers of threads,
\* reports on their way and cancelEvents on their way: until it is scheduled, its
\* registration stands, with the fiber in the slot and the descriptor in epoll, although
\* close() of another fiber, the callbacks of old timers, late reports, a fiber that
\* was left in a slot and the function of stop() touch the same numbers.
THEOREM WaitersCorrect == Spec => []WaitersWatched
<1>1. Inv => WaitersWatched BY DEF Inv, Waits, WaitOK, WaitersWatched, Workers
<1> QED BY <1>1, ServerInvariant, PTL

\* A fiber that has ended has left no descriptor and no context behind, whichever way
\* it ended and however often close() was called.
THEOREM NoLeakCorrect == Spec => []NoLeak
<1>1. Inv => NoLeak
  <2> USE HookAssumption, FdAssumption, FdFacts DEF Inv
  <2> SUFFICES ASSUME Inv, NEW f \in Workers, pc[f] = "done", NEW fd \in Fds
      PROVE  file[fd] # f /\ datas[fd].file # f
    BY DEF NoLeak, Workers
  <2>1. m_sock[f] = 0 BY DEF Sockets, SockOK, Holding
  <2>2. file[fd] # f BY <2>1 DEF Table, Fresh, Accepted
  <2>3. CASE datas[fd] = NoCtx BY <2>2, <2>3 DEF NoCtx, FdCtx, Workers
  <2>4. CASE datas[fd] # NoCtx BY <2>2, <2>4 DEF Table
  <2> QED BY <2>2, <2>3, <2>4
<1> QED BY <1>1, ServerInvariant, PTL

\* Every variable has its type, a file has at most one descriptor, and a timer or an
\* expired timer belongs to a call that is under way.
THEOREM ServerTypeCorrect == Spec => []ServerTypeOK
<1>1. Inv => ServerTypeOK
  <2> USE HookAssumption, FdAssumption, FdFacts DEF Inv
  <2> SUFFICES ASSUME Inv PROVE ServerTypeOK OBVIOUS
  <2>1. ASSUME NEW f \in Files PROVE Cardinality({fd \in Fds : file[fd] = f}) <= 1
    <3> DEFINE S == {fd \in Fds : file[fd] = f}
    <3>1. \A a, b \in S : a = b
      BY DEF Table, Fresh, Accepted, Sockets, SockOK, Holding, Workers
    <3>2. CASE S = {} BY <3>2, FS_EmptySet
    <3>3. CASE S # {}
      <4>1. PICK a \in S : S = {a} BY <3>1, <3>3
      <4>2. Cardinality(S) = 1 BY <4>1, FS_Singleton
      <4> QED BY <4>2
    <3> QED BY <3>2, <3>3
  <2>2. \A fd \in Fds : \A ev \in Event : slot[fd][ev] \in Fibers \cup {Nobody}
    BY DEF Types, PollTypes
  <2> QED BY <2>1, <2>2 DEF ServerTypeOK, Types, PollTypes, Timing, Inboxes
<1> QED BY <1>1, ServerInvariant, PTL

=============================================================================
