------------------------------ MODULE IOManager ------------------------------
(***************************************************************************)
(* Descriptor events (iomanager.cpp, iomanager.h): addEvent, delEvent,     *)
(* cancelEvent, cancelAll and the event half of idle(), over a model of    *)
(* epoll in edge triggered mode.                                           *)
(*                                                                         *)
(* Every operation holds the mutex of the descriptor's FdContext from its  *)
(* test of m_events to its end, and is one step.  idle() does not: what    *)
(* epoll_wait reported is processed later, one descriptor at a time, when  *)
(* the registrations may have changed.                                     *)
(*                                                                         *)
(* A slot is a descriptor and a direction: one bit of m_events, and one    *)
(* EventContext.  A registration is one call of addEvent; it leaves a      *)
(* callback or the calling fiber in the slot.  A descriptor beyond the end *)
(* of m_fdContexts has no events, and addEvent makes its context.          *)
(***************************************************************************)
EXTENDS Integers, FiniteSets

CONSTANTS
    Fds,             \* descriptors
    Directions,      \* the events addEvent is called with, for each descriptor
    Registrations,   \* the calls of addEvent
    Callbacks,       \* those that pass a callback
    Cancellable,     \* the descriptors cancelEvent is called for
    HangsUp,         \* the descriptors whose peer may hang up
    Pollers,         \* the threads in idle()
    SizeT,           \* the number of values of size_t
    Nobody           \* a null fiber or callback

Event == {"READ", "WRITE"}
Slots == Fds \X Event

ASSUME IOAssumption ==
    /\ Directions \in [Fds -> SUBSET Event]
    /\ Callbacks \subseteq Registrations
    /\ Cancellable \subseteq Fds
    /\ HangsUp \subseteq Fds
    /\ Nobody \notin Registrations
    /\ \A fd \in Fds, e \in Event : <<fd, e>> # Nobody
    /\ SizeT \in Nat
    /\ IsFiniteSet(Registrations)
    /\ Cardinality(Registrations) < SizeT

VARIABLES
    m_events,             \* the registered slots
    scheduler,            \* the slots whose EventContext has a scheduler
    fiber, cb,            \* the registration in each EventContext, or Nobody
    m_pendingEventCount,
    home,                 \* the slot of each registration, or Nobody
    scheduled,            \* how often it was handed to the scheduler (2: or more)
    deleted,              \* the registrations delEvent removed
    fault,                \* a null scheduler was used
    interest,             \* epoll: the events watched for each descriptor
    level,                \* epoll: the descriptors watched without EPOLLET
    ready,                \* the condition of each descriptor
    rdlist,               \* epoll: the descriptors to report
    reports               \* what each poller got and has not yet processed

ctxVars    == <<scheduler, fiber, cb>>
epollVars  == <<interest, level, rdlist>>
vars == <<m_events, scheduler, fiber, cb, m_pendingEventCount, home, scheduled,
          deleted, fault, interest, level, ready, rdlist, reports>>

Condition == Event \cup {"HUP"}

EventsOf(fd) == {e \in Event : <<fd, e>> \in m_events}
-----------------------------------------------------------------------------
Init ==
    /\ m_events = {}
    /\ scheduler = {}
    /\ fiber = [s \in Slots |-> Nobody]
    /\ cb = [s \in Slots |-> Nobody]
    /\ m_pendingEventCount = 0
    /\ home = [r \in Registrations |-> Nobody]
    /\ scheduled = [r \in Registrations |-> 0]
    /\ deleted = {}
    /\ fault = FALSE
    /\ interest = [fd \in Fds |-> {}]
    /\ level = {}
    /\ ready = [fd \in Fds |-> {}]
    /\ rdlist = {}
    /\ reports = [p \in Pollers |-> [fd \in Fds |-> {}]]
-----------------------------------------------------------------------------
(* epoll.                                                                  *)

\* The operation the code chooses succeeds: ADD for a descriptor epoll does not
\* know, MOD and DEL for one it knows.
CtlSucceeds(fd, op) == op = "ADD" <=> interest[fd] = {}

\* epoll_ctl: watch fd for the events of mask, or not at all; a condition that
\* holds already is reported again.
EpollCtl(fd, mask, flags) ==
    /\ interest' = [interest EXCEPT ![fd] = mask]
    /\ level' = IF flags = "EPOLLET" \/ mask = {} THEN level \ {fd}
                ELSE level \cup {fd}
    /\ rdlist' = IF mask = {} THEN rdlist \ {fd}
                 ELSE IF ready[fd] \cap (mask \cup {"HUP"}) # {} THEN rdlist \cup {fd}
                 ELSE rdlist

\* Data or room arrives, or the peer hangs up.
BecomeReady(fd, c) ==
    /\ ~fault
    /\ c \in Directions[fd] \/ (c = "HUP" /\ fd \in HangsUp)
    /\ ready' = [ready EXCEPT ![fd] = @ \cup {c}]
    /\ rdlist' = IF interest[fd] # {} /\ c \in interest[fd] \cup {"HUP"}
                 THEN rdlist \cup {fd} ELSE rdlist
    /\ UNCHANGED <<m_events, ctxVars, m_pendingEventCount, home, scheduled,
                   deleted, fault, interest, level, reports>>

\* A fiber reads or writes until EAGAIN.
Consume(fd, e) ==
    /\ ~fault
    /\ e \in ready[fd] \cap Event
    /\ ready' = [ready EXCEPT ![fd] = @ \ {e}]
    /\ UNCHANGED <<m_events, ctxVars, m_pendingEventCount, home, scheduled,
                   deleted, fault, epollVars, reports>>

Revents(fd) == ready[fd] \cap (interest[fd] \cup {"HUP"})

epoll_wait(p) ==
    /\ ~fault
    /\ \A fd \in Fds : reports[p][fd] = {}
    /\ \E fd \in rdlist : Revents(fd) # {}
    /\ reports' = [reports EXCEPT ![p] =
                      [fd \in Fds |-> IF fd \in rdlist THEN Revents(fd) ELSE {}]]
    /\ rdlist' = rdlist \cap level
    /\ UNCHANGED <<m_events, ctxVars, m_pendingEventCount, home, scheduled,
                   deleted, fault, interest, level, ready>>
-----------------------------------------------------------------------------
(* The operations of the IOManager.                                        *)

\* What triggerEvent hands to the scheduler: the callback if there is one.
Target(s) == IF cb[s] # Nobody THEN cb[s] ELSE fiber[s]

\* Mutant: the count is not decremented.
PendingKept(n) == m_pendingEventCount' = m_pendingEventCount

\* --m_pendingEventCount, n times, on a size_t.
PendingMinus(n) == m_pendingEventCount' = (m_pendingEventCount - n) % SizeT

\* Mutant: the event stays in m_events.
triggerEventAgain(S) ==
    /\ m_events' = m_events
    /\ fault' = ~(S \subseteq scheduler)
    /\ scheduled' = [r \in Registrations |->
                        IF scheduled[r] < 2 /\ \E s \in S : Target(s) = r
                        THEN scheduled[r] + 1 ELSE scheduled[r]]
    /\ PendingMinus(Cardinality(S))
    /\ UNCHANGED <<ctxVars, home, deleted>>

\* triggerEvent for each slot of S, with the decrement that follows it.  The
\* EventContext keeps its contents.  Its assertion, that the event is
\* registered, is only logged; without a scheduler the call is undefined.
triggerEvent(S) ==
    /\ m_events' = m_events \ S
    /\ fault' = ~(S \subseteq scheduler)
    /\ scheduled' = [r \in Registrations |->
                        IF scheduled[r] < 2 /\ \E s \in S : Target(s) = r
                        THEN scheduled[r] + 1 ELSE scheduled[r]]
    /\ PendingMinus(Cardinality(S))
    /\ UNCHANGED <<ctxVars, home, deleted>>

\* Mutant: the scheduler is forgotten.
FillContextPartly(s, r) ==
    /\ scheduler' = scheduler
    /\ fiber' = [fiber EXCEPT ![s] = r]
    /\ cb' = cb

\* The registration goes into the EventContext, whether or not it was empty
\* (asserted, and only logged): a callback left there stays if r is a fiber.
FillContext(s, r) ==
    /\ scheduler' = scheduler \cup {s}
    /\ cb' = IF r \in Callbacks THEN [cb EXCEPT ![s] = r] ELSE cb
    /\ fiber' = IF r \in Callbacks THEN fiber ELSE [fiber EXCEPT ![s] = r]

resetContext(s) ==
    /\ scheduler' = scheduler \ {s}
    /\ fiber' = [fiber EXCEPT ![s] = Nobody]
    /\ cb' = [cb EXCEPT ![s] = Nobody]

\* No caller registers an event twice (asserted).
addEvent(r, fd, e) ==
    LET s == <<fd, e>>
    IN  /\ ~fault
        /\ home[r] = Nobody
        /\ e \in Directions[fd]
        /\ s \notin m_events
        /\ CtlSucceeds(fd, IF EventsOf(fd) = {} THEN "ADD" ELSE "MOD")
        /\ EpollCtl(fd, EventsOf(fd) \cup {e}, "EPOLLET")
        /\ m_pendingEventCount' = (m_pendingEventCount + 1) % SizeT
        /\ m_events' = m_events \cup {s}
        /\ FillContext(s, r)
        /\ home' = [home EXCEPT ![r] = s]
        /\ UNCHANGED <<scheduled, deleted, fault, ready, reports>>

\* Mutant: the bits are not cleared.
RemainingAll(fd, gone) == EventsOf(fd)

\* What stays registered when some events are taken away.
Remaining(fd, gone) == EventsOf(fd) \ gone

\* The operation that leaves these events with epoll.
Leaving(mask) == IF mask = {} THEN "DEL" ELSE "MOD"

delEvent(fd, e) ==
    LET s == <<fd, e>>
        new_events == Remaining(fd, {e})
    IN  /\ ~fault
        /\ s \in m_events
        /\ CtlSucceeds(fd, Leaving(new_events))
        /\ EpollCtl(fd, new_events, "EPOLLET")
        /\ PendingMinus(1)
        /\ m_events' = m_events \ {s}
        /\ deleted' = deleted \cup ({Target(s)} \cap Registrations)
        /\ resetContext(s)
        /\ UNCHANGED <<home, scheduled, fault, ready, reports>>

\* The mask is m_events | new_events, which is m_events, without EPOLLET.
cancelEvent(fd, e) ==
    LET new_events == Remaining(fd, {e})
    IN  /\ ~fault
        /\ fd \in Cancellable
        /\ <<fd, e>> \in m_events
        /\ CtlSucceeds(fd, Leaving(new_events))
        /\ EpollCtl(fd, IF new_events = {} THEN {} ELSE EventsOf(fd), "level")
        /\ triggerEvent({<<fd, e>>})
        /\ UNCHANGED <<ready, reports>>

cancelAll(fd) ==
    /\ ~fault
    /\ EventsOf(fd) # {}
    /\ CtlSucceeds(fd, "DEL")
    /\ EpollCtl(fd, {}, "EPOLLET")
    /\ triggerEvent({fd} \X EventsOf(fd))
    /\ UNCHANGED <<ready, reports>>

\* Mutant: EPOLLOUT is not translated.
RealEventsReadOnly(revents) == revents \cap {"READ"}

\* The events a report stands for: an error or a hang-up means both.
RealEvents(revents) == IF "HUP" \in revents THEN Event ELSE revents

\* idle() processes one reported descriptor.  All real events are triggered
\* when any of them is registered; a failing epoll_ctl drops the report.
Process(p, fd) ==
    LET real_events == RealEvents(reports[p][fd])
        left_events == Remaining(fd, real_events)
    IN  /\ ~fault
        /\ reports[p][fd] # {}
        /\ reports' = [reports EXCEPT ![p][fd] = {}]
        /\ IF /\ EventsOf(fd) \cap real_events # {}
              /\ CtlSucceeds(fd, Leaving(left_events))
           THEN /\ EpollCtl(fd, left_events, "EPOLLET")
                /\ triggerEvent({fd} \X real_events)
           ELSE UNCHANGED <<m_events, ctxVars, m_pendingEventCount, home,
                            scheduled, deleted, fault, epollVars>>
        /\ UNCHANGED ready
-----------------------------------------------------------------------------
Environment ==
    \E fd \in Fds :
        \/ \E c \in Condition : BecomeReady(fd, c)
        \/ \E e \in Event : Consume(fd, e)

Callers ==
    \E fd \in Fds :
        \/ \E e \in Event : delEvent(fd, e) \/ cancelEvent(fd, e)
        \/ \E e \in Event, r \in Registrations : addEvent(r, fd, e)
        \/ cancelAll(fd)

idle(p) == epoll_wait(p) \/ \E fd \in Fds : Process(p, fd)

Next == Environment \/ Callers \/ \E p \in Pollers : idle(p)

\* The threads that poll go on; nobody needs to call or to send anything.
Fairness == \A p \in Pollers : WF_vars(idle(p))

Spec == Init /\ [][Next]_vars /\ Fairness
-----------------------------------------------------------------------------
(* Properties.                                                             *)

\* Every variable has its type; a registered event has a scheduler to go to,
\* and epoll reports only what it watches.
IOTypeOK ==
    /\ m_events \subseteq scheduler
    /\ scheduler \subseteq Slots
    /\ fiber \in [Slots -> Registrations \cup {Nobody}]
    /\ cb \in [Slots -> Registrations \cup {Nobody}]
    /\ m_pendingEventCount \in 0..(SizeT - 1)
    /\ home \in [Registrations -> Slots \cup {Nobody}]
    /\ scheduled \in [Registrations -> 0..2]
    /\ deleted \subseteq Registrations
    /\ fault \in BOOLEAN
    /\ interest \in [Fds -> SUBSET Event]
    /\ level \subseteq Fds
    /\ ready \in [Fds -> SUBSET Condition]
    /\ rdlist \subseteq {fd \in Fds : interest[fd] # {}}
    /\ reports \in [Pollers -> [Fds -> SUBSET Condition]]

\* m_pendingEventCount is the number of registered events, so that stopping()
\* neither returns before an event nor waits for one that is gone, whatever
\* idle() was told before the registrations changed.
PendingMatchesEvents == m_pendingEventCount = Cardinality(m_events)

\* epoll watches every registered event, and knows a descriptor exactly as long as
\* an event of it is registered: the choices of ADD, MOD and DEL by the four
\* operations and idle() never fail and leave no waiter unwatched.  It may watch
\* more: cancelEvent leaves the cancelled event in the mask of the other one.
InterestCoversEvents ==
    \A fd \in Fds :
        /\ EventsOf(fd) \subseteq interest[fd]
        /\ EventsOf(fd) = {} => interest[fd] = {}

Waiting(r) == home[r] \in m_events /\ Target(home[r]) = r

\* A registration is waiting in its slot, was handed to the scheduler once, or
\* was deleted: no waiting fiber is forgotten and no callback runs twice.
RegistrationOnce ==
    \A r \in Registrations :
        home[r] # Nobody =>
            \/ Waiting(r) /\ scheduled[r] = 0 /\ r \notin deleted
            \/ ~Waiting(r) /\ scheduled[r] = 1 /\ r \notin deleted
            \/ ~Waiting(r) /\ scheduled[r] = 0 /\ r \in deleted

\* A registered event whose condition lasts is served although epoll reports
\* an edge only once and the report may have been used up by another thread.
ReadyEventServed ==
    \A fd \in Fds, e \in Event :
        <<fd, e>> \in m_events /\ e \in ready[fd]
        ~> <<fd, e>> \notin m_events \/ e \notin ready[fd]
=============================================================================
