-------------------------------- MODULE Hook --------------------------------
(***************************************************************************)
(* The hooked system calls (hook.cpp): a fiber that would block registers  *)
(* an event and a timer and is switched away; the event, or the timer's    *)
(* callback through cancelEvent, resumes it.                               *)
(*                                                                         *)
(* Of IOManager this module has the FdContexts of one instance (m_events,  *)
(* and a slot for each event that keeps its fiber when it was triggered),  *)
(* the descriptors epoll watches, and the reports that idle() has not yet  *)
(* processed.  The kernel takes a descriptor out of epoll when its file is *)
(* closed.  epoll may report a condition that lasts more than once.  What  *)
(* epoll is asked to report is taken to be m_events: the wider mask that   *)
(* cancelEvent can leave behind is in IOManager.                           *)
(* addEvent and YieldToHold are one step.                                  *)
(***************************************************************************)
EXTENDS FdManager, Sequences, FiniteSets

CONSTANTS
    Conns,      \* connections that peers open to the listening socket
    Clients,    \* fibers that connect to a peer, and their sockets
    Listen,     \* the listening socket
    Acceptor,   \* the fiber of startAccept
    Stopper,    \* the fiber of the function that stop() schedules
    Nobody,     \* an empty slot: no scheduler, no fiber
    MaxReports, \* bound on reports that are not processed
    MaxCancels  \* bound on calls of cancelEvent that are under way

\* A connection stands for its socket and for the fiber that serves it.
Fibers == Conns \cup Clients \cup {Acceptor, Stopper}
Event  == {"READ", "WRITE"}

ASSUME HookAssumption ==
    /\ Files = Conns \cup Clients \cup {Listen}
    /\ Nobody \notin Fibers
    /\ Conns \cap Clients = {}
    /\ {Listen, Acceptor, Stopper} \cap (Conns \cup Clients) = {}
    /\ Acceptor # Stopper
    /\ MaxReports \in Nat /\ MaxCancels \in Nat

VARIABLES
    backlog,    \* connections not accepted yet
    inbox,      \* per connection whether something can be received, or a reset
    outbox,     \* per connection whether there is room for what is sent
    link,       \* per client: the state of its connection
    m_events,   \* the registered events of all FdContexts
    slot,       \* the fiber in each EventContext
    watched,    \* the descriptors in the epoll set
    reports,    \* what epoll_wait has returned and idle() has not processed
    tickets,    \* per fiber how often it was scheduled and has not been resumed for it
    fault,      \* a null scheduler was used: the process has crashed
    pc,         \* per fiber
    arg, event, \* the descriptor and the event of the call the fiber is in
    to,         \* what do_io found in the context: "plain", "never" or "timed"
    cancelled,  \* tinfo->cancelled
    timer,      \* whether the timer of the call is in the timer manager
    expired,    \* fibers in a call whose timer has expired: its callback will run
    cancels     \* the calls of cancelEvent that callbacks are about to make

netVars  == <<backlog, inbox, outbox, link>>
pollVars == <<m_events, slot, watched, reports, tickets, fault>>
callVars == <<arg, event, to, cancelled, timer, expired, cancels>>

HookInit ==
    /\ backlog = <<>>
    /\ inbox = [c \in Conns |-> "empty"]
    /\ outbox = [c \in Conns |-> "room"]
    /\ link = [c \in Clients |-> "none"]
    /\ m_events = {}
    /\ slot = [fd \in Fds |-> [ev \in Event |-> Nobody]]
    /\ watched = {}
    /\ reports = {}
    /\ tickets = [f \in Fibers |-> 0]
    /\ fault = FALSE
    /\ arg = [f \in Fibers |-> 0]
    /\ event = [f \in Fibers |-> "READ"]
    /\ to = [f \in Fibers |-> "plain"]
    /\ cancelled = [f \in Fibers |-> FALSE]
    /\ timer = [f \in Fibers |-> FALSE]
    /\ expired = {}
    /\ cancels = {}

Goto(f, l) == pc' = [pc EXCEPT ![f] = l]
-----------------------------------------------------------------------------
(* The kernel, epoll and the events.                                       *)

\* A call on the descriptor would not block.
Ready(fd, ev) ==
    LET f == file[fd]
    IN  \/ ev = "READ"  /\ f = Listen    /\ backlog # <<>>
        \/ ev = "READ"  /\ f \in Conns   /\ inbox[f] # "empty"
        \/ ev = "WRITE" /\ f \in Conns   /\ (outbox[f] = "room" \/ inbox[f] = "reset")
        \/ ev = "WRITE" /\ f \in Clients /\ link[f] \in {"up", "refused"}

\* EPOLLERR or EPOLLHUP, which epoll reports unasked: the peer has reset the
\* connection or refused it, or the socket is not connected at all.
HangsUp(fd) ==
    LET f == file[fd]
    IN  \/ f \in Conns   /\ inbox[f] = "reset"
        \/ f \in Clients /\ link[f] \in {"none", "refused"}

EventsOf(fd) == {ev \in Event : <<fd, ev>> \in m_events}

\* real_events of a report: idle() takes an error or a hang-up for both events.
RealEvents(fd) == IF HangsUp(fd) THEN Event ELSE {ev \in EventsOf(fd) : Ready(fd, ev)}

\* epoll_wait returns descriptor fd to a thread in idle().
epoll_wait(fd) ==
    /\ fd \in watched
    /\ RealEvents(fd) # {}
    /\ <<fd, RealEvents(fd)>> \notin reports
    /\ Cardinality(reports) < MaxReports
    /\ reports' = reports \cup {<<fd, RealEvents(fd)>>}
    /\ UNCHANGED <<fdVars, netVars, callVars, m_events, slot, watched, tickets, fault, pc>>

\* EPOLL_CTL_DEL when these were the last events, else EPOLL_CTL_MOD.
WatchedAfter(fd, evs) == IF EventsOf(fd) \subseteq evs THEN watched \ {fd} ELSE watched

\* Mutant: a report of both events triggers READ only.
TimesElse(fd, evs, f) ==
    IF "READ" \in evs THEN (IF slot[fd]["READ"] = f THEN 1 ELSE 0)
    ELSE Cardinality({ev \in evs : slot[fd][ev] = f})

\* How often triggerEvent, called for each event of evs, schedules fiber f.
Times(fd, evs, f) == Cardinality({ev \in evs : slot[fd][ev] = f})

\* triggerEvent for each event of evs, registered or not: the fiber in the slot is
\* scheduled, whatever it does by now, and stays there; run() drops one that has
\* ended, which waits no more when it has closed.  Without a scheduler in the slot
\* the process crashes.
trigger(fd, evs) ==
    /\ m_events' = m_events \ ({fd} \X evs)
    /\ watched' = WatchedAfter(fd, evs)
    /\ fault' = (\E ev \in evs : slot[fd][ev] = Nobody)
    /\ tickets' = [f \in Fibers |-> IF pc[f] \in {"closed", "done"} THEN 0
                                    ELSE tickets[f] + Times(fd, evs, f)]
    /\ UNCHANGED slot

\* idle() processes a report, of whatever file had the descriptor when it was made:
\* if one of the events is registered by now and epoll knows the descriptor, all of
\* them are triggered.
Process(fd, real_events) ==
    /\ <<fd, real_events>> \in reports
    /\ reports' = reports \ {<<fd, real_events>>}
    /\ IF EventsOf(fd) \cap real_events # {} /\ fd \in watched
       THEN trigger(fd, real_events)
       ELSE UNCHANGED <<m_events, slot, watched, tickets, fault>>
    /\ UNCHANGED <<fdVars, netVars, callVars, pc>>

\* The events triggered by cancelEvent and cancelAll: the registered ones; epoll_ctl
\* fails for a descriptor that epoll no longer knows, and then nothing is triggered.
cancelEvent(fd, ev) == IF fd \in watched THEN {ev} \cap EventsOf(fd) ELSE {}

cancelAll(fd) == IF fd \in watched THEN EventsOf(fd) ELSE {}

\* addEvent succeeds: EPOLL_CTL_ADD for the first event, EPOLL_CTL_MOD for a second.
\* Its assertions, an event not registered yet and an empty slot, are only logged.
AddEventWorks(fd) == file[fd] # Closed /\ (EventsOf(fd) = {} \/ fd \in watched)
-----------------------------------------------------------------------------
(* do_io: read, recv, accept and their relatives with READ, write, send    *)
(* and theirs with WRITE.                                                  *)

InCall == {"call", "add", "wait"}

\* The file a fiber's calls are meant for.
FileOf(f) == IF f = Acceptor THEN Listen ELSE f

\* The call returns and tinfo is gone, so that a callback that has not looked at it
\* yet will do nothing; fiber f goes on at l.
Return(f, l) ==
    /\ Goto(f, l)
    /\ arg' = [arg EXCEPT ![f] = 0]
    /\ event' = [event EXCEPT ![f] = "READ"]
    /\ to' = [to EXCEPT ![f] = "plain"]
    /\ cancelled' = [cancelled EXCEPT ![f] = FALSE]
    /\ expired' = expired \ {f}

\* The call begins: without a context, or if the user wants O_NONBLOCK, it is the
\* plain system call.  A closed Socket passes -1.
do_io(f, fd, ev) ==
    LET ctx  == IF fd = 0 THEN NoCtx ELSE datas[fd]
        has  == IF ev = "READ" THEN ctx.m_recvTimeout ELSE ctx.m_sendTimeout
        kind == IF ctx = NoCtx \/ ctx.m_userNonblock THEN "plain"
                ELSE IF has THEN "timed" ELSE "never"
    IN  /\ arg' = [arg EXCEPT ![f] = fd]
        /\ event' = [event EXCEPT ![f] = ev]
        /\ to' = [to EXCEPT ![f] = kind]
        /\ Goto(f, "call")
        /\ UNCHANGED <<cancelled, timer, expired, cancels>>

\* The system call fails with another error than EAGAIN: the descriptor is closed,
\* or refers to a file of another kind by now.
do_io_error(f) ==
    /\ pc[f] = "call"
    /\ arg[f] # 0 => file[arg[f]] # FileOf(f)
    /\ Return(f, "failed")
    /\ UNCHANGED <<fdVars, netVars, pollVars, timer, cancels>>

\* EAGAIN: a plain call returns it, a hooked one adds its timer, if it has a timeout.
do_io_again(f) ==
    /\ pc[f] = "call"
    /\ arg[f] # 0
    /\ file[arg[f]] = FileOf(f)
    /\ ~Ready(arg[f], event[f])
    /\ IF to[f] = "plain"
       THEN Return(f, IF f = Acceptor THEN "failed" ELSE "serving") /\ UNCHANGED timer
       ELSE /\ Goto(f, "add")
            /\ timer' = [timer EXCEPT ![f] = (to[f] = "timed")]
            /\ UNCHANGED <<arg, event, to, cancelled, expired>>
    /\ UNCHANGED <<fdVars, netVars, pollVars, cancels>>

\* addEvent, then YieldToHold.
do_io_addEvent(f) ==
    LET fd == arg[f]
    IN  /\ pc[f] = "add"
        /\ IF AddEventWorks(fd)
           THEN /\ m_events' = m_events \cup {<<fd, event[f]>>}
                /\ slot' = [slot EXCEPT ![fd][event[f]] = f]
                /\ watched' = watched \cup {fd}
                /\ Goto(f, "wait")
                /\ UNCHANGED <<reports, tickets, fault, timer, arg, event, to, cancelled, expired>>
           ELSE /\ timer' = [timer EXCEPT ![f] = FALSE]
                /\ Return(f, "failed")
                /\ UNCHANGED pollVars
        /\ UNCHANGED <<fdVars, netVars, cancels>>

\* A fiber that was scheduled, after it was switched away or before, is resumed.
SwitchedBack(f) ==
    /\ pc[f] = "wait"
    /\ tickets[f] > 0
    /\ tickets' = [tickets EXCEPT ![f] = @ - 1]
    /\ UNCHANGED <<m_events, slot, watched, reports, fault>>

\* Mutant: the timer of the call is left in the timer manager.
do_io_resumeKeepsTimer(f) ==
    /\ SwitchedBack(f)
    /\ IF cancelled[f] THEN Return(f, "failed")
       ELSE Goto(f, "call") /\ UNCHANGED <<arg, event, to, cancelled, expired>>
    /\ UNCHANGED <<fdVars, netVars, timer, cancels>>

\* The fiber runs again: ETIMEDOUT, or the system call once more.
do_io_resume(f) ==
    /\ SwitchedBack(f)
    /\ timer' = [timer EXCEPT ![f] = FALSE]
    /\ IF cancelled[f] THEN Return(f, "failed")
       ELSE Goto(f, "call") /\ UNCHANGED <<arg, event, to, cancelled, expired>>
    /\ UNCHANGED <<fdVars, netVars, cancels>>
-----------------------------------------------------------------------------
(* The timer's callback, on any thread.                                    *)

TimerExpires(f) ==
    /\ timer[f]
    /\ timer' = [timer EXCEPT ![f] = FALSE]
    /\ expired' = expired \cup {f}
    /\ UNCHANGED <<fdVars, netVars, pollVars, pc, arg, event, to, cancelled, cancels>>

\* Mutant: the callback marks the call and leaves it asleep.
CallbackCheckOnly(f) ==
    /\ f \in expired
    /\ Cardinality(cancels) < MaxCancels
    /\ expired' = expired \ {f}
    /\ cancelled' = [cancelled EXCEPT ![f] = TRUE]
    /\ UNCHANGED <<fdVars, netVars, pollVars, pc, arg, event, to, timer, cancels>>

\* tinfo is alive; unless it is marked already it is marked now, and the event is to
\* be cancelled.
CallbackCheck(f) ==
    /\ f \in expired
    /\ Cardinality(cancels) < MaxCancels
    /\ expired' = expired \ {f}
    /\ cancelled' = [cancelled EXCEPT ![f] = TRUE]
    /\ cancels' = IF cancelled[f] THEN cancels ELSE cancels \cup {<<arg[f], event[f]>>}
    /\ UNCHANGED <<fdVars, netVars, pollVars, pc, arg, event, to, timer>>

\* cancelEvent: whoever waits for this event of this descriptor by now.
CallbackCancel(fd, ev) ==
    /\ <<fd, ev>> \in cancels
    /\ cancels' = cancels \ {<<fd, ev>>}
    /\ trigger(fd, cancelEvent(fd, ev))
    /\ UNCHANGED <<fdVars, netVars, reports, pc, arg, event, to, cancelled, timer, expired>>
-----------------------------------------------------------------------------
(* close: the events, the context, then the descriptor.  The three steps   *)
(* start at "close" and end behind "close_f".                              *)

close_cancelAll(f, fd) ==
    /\ pc[f] = "close"
    /\ IF datas[fd] = NoCtx
       THEN Goto(f, "close_f") /\ UNCHANGED pollVars
       ELSE Goto(f, "del") /\ trigger(fd, cancelAll(fd)) /\ UNCHANGED reports
    /\ UNCHANGED <<fdVars, netVars, callVars>>

close_del(f, fd) ==
    /\ pc[f] = "del"
    /\ del(fd)
    /\ Goto(f, "close_f")
    /\ UNCHANGED <<file, nonblock, netVars, pollVars, callVars>>

\* close_f by fiber f; the kernel takes the descriptor out of epoll and drops what
\* was sent on the connection.
CloseFile(f, fd) ==
    /\ file' = [file EXCEPT ![fd] = Closed]
    /\ nonblock' = nonblock \ {fd}
    /\ watched' = watched \ {fd}
    /\ inbox' = [c \in Conns |-> IF c = file[fd] THEN "empty" ELSE inbox[c]]
    /\ outbox' = [c \in Conns |-> IF c = file[fd] THEN "room" ELSE outbox[c]]
    /\ link' = [c \in Clients |-> IF c = file[fd] THEN "none" ELSE link[c]]
    /\ tickets' = [tickets EXCEPT ![f] = 0]
    /\ UNCHANGED <<backlog, m_events, slot, reports, fault>>
=============================================================================
