------------------------------- MODULE IOProofs -------------------------------
(***************************************************************************)
(* Proofs about IOManager for any number of descriptors, registrations and *)
(* polling threads.                                                        *)
(*                                                                         *)
(* The types, and that epoll watches what is registered, hold of every     *)
(* use.  The other properties do not: run stale_report shows idle()        *)
(* triggering an event nobody registered once a descriptor is used in both *)
(* directions or its peer hangs up, and an EventContext keeps a callback   *)
(* that a later fiber then waits behind.  Their theorems name the uses     *)
(* they are about: OneWay, HangsUp = {} and OneKind.                       *)
(***************************************************************************)
EXTENDS IOManager, FiniteSetTheorems, TLAPS

\* The descriptors of S are waited for in one direction.
OneWay(S) == \A fd \in S : \E e \in Event : Directions[fd] \subseteq {e}

\* Either fibers wait or callbacks are passed: the EventContext that
\* triggerEvent leaves filled is overwritten by the next registration.
OneKind == Callbacks = {} \/ Callbacks = Registrations
-----------------------------------------------------------------------------
(* size_t.                                                                 *)

\* There are more values of size_t than registrations.
LEMMA SizeTPositive == SizeT \in Nat /\ SizeT > 0
  BY IOAssumption, FS_CardinalityType

\* Arithmetic on size_t stays in its range.
LEMMA ModRange == \A a \in Int : a % SizeT \in 0..(SizeT - 1)
  BY SizeTPositive

\* And is exact inside it.
LEMMA ModExact == \A a \in 0..(SizeT - 1) : a % SizeT = a
  BY SizeTPositive
-----------------------------------------------------------------------------
(* Types.                                                                  *)

\* What epoll_ctl does to the watched events.
LEMMA EpollCtlType ==
  ASSUME IOTypeOK, NEW fd \in Fds, NEW mask \in SUBSET Event, NEW flags,
         EpollCtl(fd, mask, flags)
  PROVE  /\ interest' \in [Fds -> SUBSET Event]
         /\ interest'[fd] = mask
         /\ \A g \in Fds : g # fd => interest'[g] = interest[g]
         /\ level' \subseteq Fds
         /\ rdlist' \subseteq {g \in Fds : interest'[g] # {}}
<1>1. interest' = [interest EXCEPT ![fd] = mask] /\ interest \in [Fds -> SUBSET Event]
  BY DEF EpollCtl, IOTypeOK
<1>2. /\ interest' \in [Fds -> SUBSET Event]
      /\ interest'[fd] = mask
      /\ \A g \in Fds : g # fd => interest'[g] = interest[g]
  BY <1>1
<1>3. level' \subseteq Fds
  BY DEF EpollCtl, IOTypeOK
<1>4. rdlist' \subseteq {g \in Fds : interest'[g] # {}}
  BY <1>2 DEF EpollCtl, IOTypeOK
<1> QED BY <1>2, <1>3, <1>4

\* Handing a finite set of slots to the scheduler.
LEMMA TriggerType ==
  ASSUME IOTypeOK, NEW S, S \subseteq Slots, IsFiniteSet(S), triggerEvent(S)
  PROVE  /\ m_events' \subseteq scheduler' /\ scheduler' \subseteq Slots
         /\ fiber' \in [Slots -> Registrations \cup {Nobody}]
         /\ cb' \in [Slots -> Registrations \cup {Nobody}]
         /\ m_pendingEventCount' \in 0..(SizeT - 1)
         /\ home' \in [Registrations -> Slots \cup {Nobody}]
         /\ scheduled' \in [Registrations -> 0..2]
         /\ deleted' \subseteq Registrations
         /\ fault' \in BOOLEAN
<1>1. Cardinality(S) \in Nat
  BY FS_CardinalityType
<1>2. m_pendingEventCount' \in 0..(SizeT - 1)
  BY <1>1, ModRange DEF triggerEvent, PendingMinus, IOTypeOK
<1>3. scheduled' \in [Registrations -> 0..2]
  BY DEF triggerEvent, IOTypeOK
<1> QED BY <1>2, <1>3 DEF triggerEvent, ctxVars, IOTypeOK

\* The slots of one descriptor are finite.
LEMMA SlotsOf ==
  ASSUME NEW fd \in Fds, NEW E \in SUBSET Event
  PROVE  IsFiniteSet({fd} \X E) /\ {fd} \X E \subseteq Slots
<1>1. IsFiniteSet({"READ"} \cup {"WRITE"})
  BY FS_Singleton, FS_AddElement
<1>2. E \in SUBSET ({"READ"} \cup {"WRITE"})
  BY DEF Event
<1>3. IsFiniteSet(E)
  BY <1>1, <1>2, FS_Subset
<1>4. IsFiniteSet({fd})
  BY FS_Singleton
<1>5. IsFiniteSet({fd} \X E)
  BY <1>3, <1>4, FS_Product
<1>6. {fd} \X E \subseteq Slots
  BY DEF Slots
<1> QED BY <1>5, <1>6

\* The operations of the callers keep the types.
LEMMA CallersType == IOTypeOK /\ Callers => IOTypeOK'
<1> SUFFICES ASSUME IOTypeOK, NEW fd \in Fds,
                    \/ \E e \in Event : delEvent(fd, e) \/ cancelEvent(fd, e)
                    \/ \E e \in Event, r \in Registrations : addEvent(r, fd, e)
                    \/ cancelAll(fd)
             PROVE  IOTypeOK'
  BY DEF Callers
<1> USE IOAssumption
<1>0. EventsOf(fd) \subseteq Event /\ m_pendingEventCount \in Int
  BY DEF EventsOf, IOTypeOK
<1>1. ASSUME NEW e \in Event, delEvent(fd, e) PROVE IOTypeOK'
  <2>1. Remaining(fd, {e}) \subseteq Event
    BY <1>0 DEF Remaining
  <2>2. EpollCtl(fd, Remaining(fd, {e}), "EPOLLET")
    BY <1>1 DEF delEvent
  <2>3. /\ interest' \in [Fds -> SUBSET Event] /\ level' \subseteq Fds
        /\ rdlist' \subseteq {g \in Fds : interest'[g] # {}}
    BY <2>1, <2>2, EpollCtlType
  <2>4. m_pendingEventCount' \in 0..(SizeT - 1)
    BY <1>0, <1>1, ModRange DEF delEvent, PendingMinus
  <2>5. /\ m_events' \subseteq scheduler' /\ scheduler' \subseteq Slots
        /\ fiber' \in [Slots -> Registrations \cup {Nobody}]
        /\ cb' \in [Slots -> Registrations \cup {Nobody}]
        /\ deleted' \subseteq Registrations
    BY <1>1 DEF delEvent, resetContext, IOTypeOK
  <2> QED BY <1>1, <2>3, <2>4, <2>5 DEF delEvent, IOTypeOK
<1>2. ASSUME NEW e \in Event, cancelEvent(fd, e) PROVE IOTypeOK'
  <2> DEFINE mask == IF Remaining(fd, {e}) = {} THEN {} ELSE EventsOf(fd)
  <2>1. mask \subseteq Event
    BY <1>0
  <2>2. EpollCtl(fd, mask, "level")
    BY <1>2 DEF cancelEvent
  <2> HIDE DEF mask
  <2>3. /\ interest' \in [Fds -> SUBSET Event] /\ level' \subseteq Fds
        /\ rdlist' \subseteq {g \in Fds : interest'[g] # {}}
    BY <2>1, <2>2, EpollCtlType
  <2>4. triggerEvent({<<fd, e>>}) /\ {<<fd, e>>} \subseteq Slots /\ IsFiniteSet({<<fd, e>>})
    <3>1. triggerEvent({<<fd, e>>})
      BY <1>2 DEF cancelEvent
    <3>2. {<<fd, e>>} \subseteq Slots
      BY DEF Slots
    <3>3. IsFiniteSet({<<fd, e>>})
      BY FS_Singleton
    <3> QED BY <3>1, <3>2, <3>3
  <2> QED BY <1>2, <2>3, <2>4, TriggerType DEF cancelEvent, IOTypeOK
<1>3. ASSUME NEW e \in Event, NEW r \in Registrations, addEvent(r, fd, e) PROVE IOTypeOK'
  <2>1. EventsOf(fd) \cup {e} \subseteq Event
    BY <1>0
  <2>2. EpollCtl(fd, EventsOf(fd) \cup {e}, "EPOLLET")
    BY <1>3 DEF addEvent
  <2>3. /\ interest' \in [Fds -> SUBSET Event] /\ level' \subseteq Fds
        /\ rdlist' \subseteq {g \in Fds : interest'[g] # {}}
    BY <2>1, <2>2, EpollCtlType
  <2>4. m_pendingEventCount' \in 0..(SizeT - 1)
    BY <1>0, <1>3, ModRange DEF addEvent
  <2>5. <<fd, e>> \in Slots
    BY DEF Slots
  <2>6. /\ m_events' \subseteq scheduler' /\ scheduler' \subseteq Slots
        /\ fiber' \in [Slots -> Registrations \cup {Nobody}]
        /\ cb' \in [Slots -> Registrations \cup {Nobody}]
        /\ home' \in [Registrations -> Slots \cup {Nobody}]
    BY <1>3, <2>5 DEF addEvent, FillContext, IOTypeOK
  <2> QED BY <1>3, <2>3, <2>4, <2>6 DEF addEvent, IOTypeOK
<1>4. CASE cancelAll(fd)
  <2>1. EpollCtl(fd, {}, "EPOLLET") /\ triggerEvent({fd} \X EventsOf(fd))
    BY <1>4 DEF cancelAll
  <2>2. /\ interest' \in [Fds -> SUBSET Event] /\ level' \subseteq Fds
        /\ rdlist' \subseteq {g \in Fds : interest'[g] # {}}
    BY <2>1, EpollCtlType
  <2>3. IsFiniteSet({fd} \X EventsOf(fd)) /\ {fd} \X EventsOf(fd) \subseteq Slots
    BY <1>0, SlotsOf
  <2> QED BY <1>4, <2>1, <2>2, <2>3, TriggerType DEF cancelAll, IOTypeOK
<1> QED BY <1>1, <1>2, <1>3, <1>4

\* A condition of a descriptor stands for events it can have.
LEMMA RealEventsType == \A c \in SUBSET Condition : RealEvents(c) \subseteq Event
  BY DEF RealEvents, Condition

\* The polling threads keep the types.
LEMMA IdleType ==
  ASSUME IOTypeOK, NEW p \in Pollers, idle(p)
  PROVE  IOTypeOK'
<1>1. CASE epoll_wait(p)
  <2>1. \A fd \in Fds : Revents(fd) \subseteq Condition
    BY DEF Revents, IOTypeOK
  <2>2. [fd \in Fds |-> IF fd \in rdlist THEN Revents(fd) ELSE {}] \in [Fds -> SUBSET Condition]
    BY <2>1
  <2>3. reports' \in [Pollers -> [Fds -> SUBSET Condition]]
    BY <1>1, <2>2 DEF epoll_wait, IOTypeOK
  <2> QED BY <1>1, <2>3 DEF epoll_wait, ctxVars, IOTypeOK
<1>2. ASSUME NEW fd \in Fds, Process(p, fd) PROVE IOTypeOK'
  <2> DEFINE real == RealEvents(reports[p][fd])
             left == Remaining(fd, real)
  <2>1. real \subseteq Event
    BY RealEventsType DEF IOTypeOK
  <2>2. left \subseteq Event
    BY DEF Remaining, EventsOf
  <2>3. reports' \in [Pollers -> [Fds -> SUBSET Condition]]
    BY <1>2 DEF Process, IOTypeOK
  <2>4. CASE EpollCtl(fd, left, "EPOLLET") /\ triggerEvent({fd} \X real)
    <3> HIDE DEF real, left
    <3>1. /\ interest' \in [Fds -> SUBSET Event] /\ level' \subseteq Fds
          /\ rdlist' \subseteq {g \in Fds : interest'[g] # {}}
      BY <2>2, <2>4, EpollCtlType
    <3>2. IsFiniteSet({fd} \X real) /\ {fd} \X real \subseteq Slots
      BY <2>1, SlotsOf
    <3>3. ready' = ready
      BY <1>2 DEF Process
    <3> QED BY <2>3, <2>4, <3>1, <3>2, <3>3, TriggerType DEF IOTypeOK
  <2>5. CASE UNCHANGED <<m_events, ctxVars, m_pendingEventCount, home,
                         scheduled, deleted, fault, epollVars>>
    BY <1>2, <2>3, <2>5 DEF Process, ctxVars, epollVars, IOTypeOK
  <2> QED BY <1>2, <2>4, <2>5 DEF Process
<1> QED BY <1>1, <1>2 DEF idle

\* So does what happens to the descriptors.
LEMMA EnvironmentType == IOTypeOK /\ Environment => IOTypeOK'
<1> SUFFICES ASSUME IOTypeOK, NEW fd \in Fds,
                    \/ \E c \in Condition : BecomeReady(fd, c)
                    \/ \E e \in Event : Consume(fd, e)
             PROVE  IOTypeOK'
  BY DEF Environment
<1>1. ASSUME NEW c \in Condition, BecomeReady(fd, c) PROVE IOTypeOK'
  <2>1. ready' \in [Fds -> SUBSET Condition]
    BY <1>1 DEF BecomeReady, IOTypeOK
  <2>2. rdlist' \subseteq {g \in Fds : interest'[g] # {}}
    BY <1>1 DEF BecomeReady, IOTypeOK
  <2> QED BY <1>1, <2>1, <2>2 DEF BecomeReady, ctxVars, IOTypeOK
<1>2. ASSUME NEW e \in Event, Consume(fd, e) PROVE IOTypeOK'
  <2>1. ready' \in [Fds -> SUBSET Condition]
    BY <1>2 DEF Consume, IOTypeOK
  <2> QED BY <1>2, <2>1 DEF Consume, ctxVars, epollVars, IOTypeOK
<1> QED BY <1>1, <1>2

\* Types, and a scheduler in every registered event, for every use: no step
\* of the callers or of idle() makes the count leave its size_t, and epoll
\* reports only descriptors it watches.
THEOREM IOTypeCorrect == Spec => []IOTypeOK
<1>1. ASSUME Init PROVE IOTypeOK
  <2>1. /\ fiber \in [Slots -> Registrations \cup {Nobody}]
        /\ cb \in [Slots -> Registrations \cup {Nobody}]
        /\ home \in [Registrations -> Slots \cup {Nobody}]
        /\ scheduled \in [Registrations -> 0..2]
    BY <1>1 DEF Init
  <2>2. /\ interest \in [Fds -> SUBSET Event]
        /\ ready \in [Fds -> SUBSET Condition]
        /\ reports \in [Pollers -> [Fds -> SUBSET Condition]]
    BY <1>1 DEF Init
  <2>3. m_pendingEventCount \in 0..(SizeT - 1)
    BY <1>1, SizeTPositive DEF Init
  <2> QED BY <1>1, <2>1, <2>2, <2>3 DEF Init, IOTypeOK
<1>2. IOTypeOK /\ UNCHANGED vars => IOTypeOK'
  BY DEF vars, IOTypeOK
<1>3. IOTypeOK /\ [Next]_vars => IOTypeOK'
  BY <1>2, CallersType, IdleType, EnvironmentType DEF Next
<1> QED BY <1>1, <1>3, PTL DEF Spec
-----------------------------------------------------------------------------
(* What epoll watches.                                                     *)

\* epoll watches nothing else.
InterestMatchesEvents == \A fd \in Fds : interest[fd] = EventsOf(fd)

\* Only the directions a descriptor is used in are registered.
Directed == \A fd \in Fds : EventsOf(fd) \subseteq Directions[fd]

Watch == Directed /\ InterestMatchesEvents

\* Taking slots of one descriptor away.
LEMMA EventsWithout ==
  ASSUME NEW fd \in Fds, NEW E, m_events' = m_events \ ({fd} \X E)
  PROVE  /\ EventsOf(fd)' = EventsOf(fd) \ E
         /\ \A g \in Fds : g # fd => EventsOf(g)' = EventsOf(g)
<1>1. \A g \in Fds, e \in Event : <<g, e>> \in {fd} \X E <=> g = fd /\ e \in E
  OBVIOUS
<1> QED BY <1>1 DEF EventsOf

\* Adding a slot.
LEMMA EventsWith ==
  ASSUME NEW fd \in Fds, NEW e \in Event, m_events' = m_events \cup {<<fd, e>>}
  PROVE  /\ EventsOf(fd)' = EventsOf(fd) \cup {e}
         /\ \A g \in Fds : g # fd => EventsOf(g)' = EventsOf(g)
<1>1. \A g \in Fds, d \in Event : <<g, d>> = <<fd, e>> <=> g = fd /\ d = e
  OBVIOUS
<1> QED BY <1>1 DEF EventsOf

\* epoll_ctl with exactly the events that are left keeps the two in step.
LEMMA WatchLess ==
  ASSUME IOTypeOK, Watch, NEW fd \in Fds, NEW E, NEW flags,
         m_events' = m_events \ ({fd} \X E),
         EpollCtl(fd, Remaining(fd, E), flags)
  PROVE  Watch'
<1>1. Remaining(fd, E) \in SUBSET Event
  BY DEF Remaining, EventsOf
<1>2. /\ interest'[fd] = EventsOf(fd) \ E
      /\ \A g \in Fds : g # fd => interest'[g] = interest[g]
  BY <1>1, EpollCtlType DEF Remaining
<1> QED BY <1>2, EventsWithout DEF Watch, Directed, InterestMatchesEvents

\* The mask cancelEvent computes, m_events | new_events, is what is left only
\* because nothing is.
LEMMA CancelsLast ==
  ASSUME OneWay(Cancellable), Watch, NEW fd \in Cancellable, NEW e \in Event,
         <<fd, e>> \in m_events
  PROVE  EventsOf(fd) = {e} /\ Remaining(fd, {e}) = {}
<1>1. fd \in Fds
  BY IOAssumption
<1>2. e \in EventsOf(fd)
  BY DEF EventsOf
<1>3. PICK d \in Event : Directions[fd] \subseteq {d}
  BY DEF OneWay
<1>4. EventsOf(fd) \subseteq {d}
  BY <1>1, <1>3 DEF Watch, Directed
<1> QED BY <1>2, <1>4 DEF Remaining

\* The operations keep epoll in step with m_events.
LEMMA WatchStep ==
  ASSUME OneWay(Cancellable), IOTypeOK, Watch, [Next]_vars
  PROVE  Watch'
<1>0. ASSUME UNCHANGED <<m_events, interest>> PROVE Watch'
  BY <1>0 DEF Watch, Directed, InterestMatchesEvents, EventsOf
<1>1. ASSUME NEW fd \in Fds, NEW e \in Event, delEvent(fd, e) PROVE Watch'
  <2>1. {<<fd, e>>} = {fd} \X {e}
    OBVIOUS
  <2> QED BY <1>1, <2>1, WatchLess DEF delEvent
<1>2. ASSUME NEW fd \in Fds, NEW e \in Event, cancelEvent(fd, e) PROVE Watch'
  <2>1. {<<fd, e>>} = {fd} \X {e}
    OBVIOUS
  <2>2. EpollCtl(fd, Remaining(fd, {e}), "level")
    BY <1>2, CancelsLast DEF cancelEvent
  <2> QED BY <1>2, <2>1, <2>2, WatchLess DEF cancelEvent, triggerEvent
<1>3. ASSUME NEW fd \in Fds, NEW e \in Event, NEW r \in Registrations, addEvent(r, fd, e)
      PROVE  Watch'
  <2>1. EventsOf(fd) \cup {e} \in SUBSET Event
    BY DEF EventsOf
  <2>2. EpollCtl(fd, EventsOf(fd) \cup {e}, "EPOLLET")
    BY <1>3 DEF addEvent
  <2>3. /\ interest'[fd] = EventsOf(fd) \cup {e}
        /\ \A g \in Fds : g # fd => interest'[g] = interest[g]
    BY <2>1, <2>2, EpollCtlType
  <2>4. e \in Directions[fd] /\ m_events' = m_events \cup {<<fd, e>>}
    BY <1>3 DEF addEvent
  <2> QED BY <2>3, <2>4, EventsWith DEF Watch, Directed, InterestMatchesEvents
<1>4. ASSUME NEW fd \in Fds, cancelAll(fd) PROVE Watch'
  <2>1. Remaining(fd, EventsOf(fd)) = {}
    BY DEF Remaining
  <2> QED BY <1>4, <2>1, WatchLess DEF cancelAll, triggerEvent
<1>5. ASSUME NEW p \in Pollers, NEW fd \in Fds, Process(p, fd) PROVE Watch'
  <2>1. CASE EpollCtl(fd, Remaining(fd, RealEvents(reports[p][fd])), "EPOLLET")
             /\ triggerEvent({fd} \X RealEvents(reports[p][fd]))
    BY <2>1, WatchLess DEF triggerEvent
  <2>2. CASE UNCHANGED <<m_events, ctxVars, m_pendingEventCount, home,
                         scheduled, deleted, fault, epollVars>>
    BY <1>0, <2>2 DEF epollVars
  <2> QED BY <1>5, <2>1, <2>2 DEF Process
<1>6. ASSUME NEW p \in Pollers, epoll_wait(p) PROVE Watch'
  BY <1>0, <1>6 DEF epoll_wait
<1>7. CASE Environment
  BY <1>0, <1>7 DEF Environment, BecomeReady, Consume, epollVars
<1>8. CASE UNCHANGED vars
  BY <1>0, <1>8 DEF vars
<1> QED BY <1>1, <1>2, <1>3, <1>4, <1>5, <1>6, <1>7, <1>8 DEF Next, Callers, idle

\* epoll_ctl with a mask that has the events that are left, and is empty only
\* with them.
LEMMA CoverLess ==
  ASSUME IOTypeOK, InterestCoversEvents, NEW fd \in Fds, NEW E, NEW flags,
         NEW mask \in SUBSET Event, Remaining(fd, E) \subseteq mask,
         Remaining(fd, E) = {} => mask = {},
         m_events' = m_events \ ({fd} \X E),
         EpollCtl(fd, mask, flags)
  PROVE  InterestCoversEvents'
<1>1. /\ interest'[fd] = mask
      /\ \A g \in Fds : g # fd => interest'[g] = interest[g]
  BY EpollCtlType
<1>2. EventsOf(fd)' = Remaining(fd, E)
  BY EventsWithout DEF Remaining
<1>3. \A g \in Fds : g # fd => EventsOf(g)' = EventsOf(g)
  BY EventsWithout
<1> QED BY <1>1, <1>2, <1>3 DEF InterestCoversEvents

\* Every step keeps all registered events watched.
LEMMA CoverStep ==
  ASSUME IOTypeOK, InterestCoversEvents, [Next]_vars
  PROVE  InterestCoversEvents'
<1>0. ASSUME UNCHANGED <<m_events, interest>> PROVE InterestCoversEvents'
  BY <1>0 DEF InterestCoversEvents, EventsOf
<1>1. \A fd \in Fds : \A E : Remaining(fd, E) \in SUBSET Event
  BY DEF Remaining, EventsOf
<1>2. ASSUME NEW fd \in Fds, NEW e \in Event, delEvent(fd, e)
      PROVE  InterestCoversEvents'
  <2>1. {<<fd, e>>} = {fd} \X {e}
    OBVIOUS
  <2> QED BY <1>1, <1>2, <2>1, CoverLess DEF delEvent
<1>3. ASSUME NEW fd \in Fds, NEW e \in Event, cancelEvent(fd, e)
      PROVE  InterestCoversEvents'
  <2> DEFINE mask == IF Remaining(fd, {e}) = {} THEN {} ELSE EventsOf(fd)
  <2>1. {<<fd, e>>} = {fd} \X {e}
    OBVIOUS
  <2>2. EpollCtl(fd, mask, "level") /\ m_events' = m_events \ {<<fd, e>>}
    BY <1>3 DEF cancelEvent, triggerEvent
  <2>3. /\ mask \in SUBSET Event
        /\ Remaining(fd, {e}) \subseteq mask
        /\ Remaining(fd, {e}) = {} => mask = {}
    BY DEF Remaining, EventsOf
  <2> HIDE DEF mask
  <2> QED BY <2>1, <2>2, <2>3, CoverLess
<1>4. ASSUME NEW fd \in Fds, NEW e \in Event, NEW r \in Registrations, addEvent(r, fd, e)
      PROVE  InterestCoversEvents'
  <2>1. EventsOf(fd) \cup {e} \in SUBSET Event
    BY DEF EventsOf
  <2>2. EpollCtl(fd, EventsOf(fd) \cup {e}, "EPOLLET") /\ m_events' = m_events \cup {<<fd, e>>}
    BY <1>4 DEF addEvent
  <2>3. /\ interest'[fd] = EventsOf(fd) \cup {e}
        /\ \A g \in Fds : g # fd => interest'[g] = interest[g]
    BY <2>1, <2>2, EpollCtlType
  <2> QED BY <2>2, <2>3, EventsWith DEF InterestCoversEvents
<1>5. ASSUME NEW fd \in Fds, cancelAll(fd) PROVE InterestCoversEvents'
  <2>1. Remaining(fd, EventsOf(fd)) = {}
    BY DEF Remaining
  <2> QED BY <1>5, <2>1, CoverLess DEF cancelAll, triggerEvent
<1>6. ASSUME NEW p \in Pollers, NEW fd \in Fds, Process(p, fd)
      PROVE  InterestCoversEvents'
  <2>1. CASE EpollCtl(fd, Remaining(fd, RealEvents(reports[p][fd])), "EPOLLET")
             /\ triggerEvent({fd} \X RealEvents(reports[p][fd]))
    BY <1>1, <2>1, CoverLess DEF triggerEvent
  <2>2. CASE UNCHANGED <<m_events, ctxVars, m_pendingEventCount, home,
                         scheduled, deleted, fault, epollVars>>
    BY <1>0, <2>2 DEF epollVars
  <2> QED BY <1>6, <2>1, <2>2 DEF Process
<1>7. ASSUME NEW p \in Pollers, epoll_wait(p) PROVE InterestCoversEvents'
  BY <1>0, <1>7 DEF epoll_wait
<1>8. CASE Environment
  BY <1>0, <1>8 DEF Environment, BecomeReady, Consume, epollVars
<1>9. CASE UNCHANGED vars
  BY <1>0, <1>9 DEF vars
<1> QED BY <1>2, <1>3, <1>4, <1>5, <1>6, <1>7, <1>8, <1>9 DEF Next, Callers, idle

\* epoll watches every registered event and forgets a descriptor with its last one,
\* for every use: both directions, hang-ups, cancelEvent of one of two events, and
\* reports that idle() processes late.
THEOREM InterestCorrect == Spec => []InterestCoversEvents
<1>1. Init => InterestCoversEvents
  BY DEF Init, InterestCoversEvents, EventsOf
<1>2. IOTypeOK /\ InterestCoversEvents /\ [Next]_vars => InterestCoversEvents'
  BY CoverStep
<1> QED BY <1>1, <1>2, IOTypeCorrect, PTL DEF Spec
-----------------------------------------------------------------------------
(* The pending count.                                                      *)

\* Conditions and reports are about directions the descriptor is used in.
Seen ==
    \A fd \in Fds :
        /\ ready[fd] \subseteq Directions[fd]
        /\ \A p \in Pollers : reports[p][fd] \subseteq Directions[fd]

\* The registrations made so far; there are not more events than that, so the
\* count of events does not wrap around.
Used == {r \in Registrations : home[r] # Nobody}

Pending ==
    /\ IsFiniteSet(m_events)
    /\ Cardinality(m_events) <= Cardinality(Used)
    /\ PendingMatchesEvents

\* What is not in the record of a descriptor used one way has no effect: a set
\* of events that meets the registered ones is the one registered slot.
LEMMA OneSlot ==
  ASSUME OneWay(Fds), Directed, NEW fd \in Fds, NEW E, E \subseteq Directions[fd],
         EventsOf(fd) \cap E # {}
  PROVE  \E e \in Event : /\ {fd} \X E = {<<fd, e>>}
                          /\ E = {e} /\ EventsOf(fd) = {e}
                          /\ <<fd, e>> \in m_events
<1>1. PICK d \in Event : Directions[fd] \subseteq {d}
  BY DEF OneWay
<1>2. E = {d} /\ EventsOf(fd) = {d}
  BY <1>1 DEF Directed
<1>3. <<fd, d>> \in m_events
  BY <1>2 DEF EventsOf
<1>4. {fd} \X E = {<<fd, d>>}
  BY <1>2
<1> QED BY <1>2, <1>3, <1>4

\* Only conditions of the used directions are ever seen.
LEMMA SeenStep ==
  ASSUME HangsUp = {}, IOTypeOK, Seen, [Next]_vars
  PROVE  Seen'
<1>0. ASSUME UNCHANGED <<ready, reports>> PROVE Seen'
  BY <1>0 DEF Seen
<1>1. ASSUME NEW fd \in Fds, NEW c \in Condition, BecomeReady(fd, c) PROVE Seen'
  <2>1. /\ \A g \in Fds : ready'[g] = IF g = fd THEN ready[g] \cup {c} ELSE ready[g]
        /\ c \in Directions[fd] /\ reports' = reports
    BY <1>1 DEF BecomeReady, IOTypeOK
  <2> QED BY <2>1 DEF Seen
<1>2. ASSUME NEW fd \in Fds, NEW e \in Event, Consume(fd, e) PROVE Seen'
  <2>1. /\ \A g \in Fds : ready'[g] \subseteq ready[g]
        /\ reports' = reports
    BY <1>2 DEF Consume, IOTypeOK
  <2> QED BY <2>1 DEF Seen
<1>3. ASSUME NEW p \in Pollers, epoll_wait(p) PROVE Seen'
  <2>1. /\ \A q \in Pollers, g \in Fds : reports'[q][g] \subseteq reports[q][g] \cup ready[g]
        /\ ready' = ready
    BY <1>3 DEF epoll_wait, Revents, IOTypeOK
  <2> QED BY <2>1 DEF Seen
<1>4. ASSUME NEW p \in Pollers, NEW fd \in Fds, Process(p, fd) PROVE Seen'
  <2>1. /\ \A q \in Pollers, g \in Fds : reports'[q][g] \subseteq reports[q][g]
        /\ ready' = ready
    BY <1>4 DEF Process, IOTypeOK
  <2> QED BY <2>1 DEF Seen
<1>5. CASE Callers
  BY <1>0, <1>5 DEF Callers, delEvent, cancelEvent, addEvent, cancelAll
<1>6. CASE UNCHANGED vars
  BY <1>0, <1>6 DEF vars
<1> QED BY <1>1, <1>2, <1>3, <1>4, <1>5, <1>6 DEF Next, Environment, idle

\* The number of registrations made is below the size of size_t.
LEMMA UsedBound ==
  /\ IsFiniteSet(Used) /\ Cardinality(Used) \in Nat
  /\ Cardinality(Used) < SizeT
<1>1. Used \in SUBSET Registrations
  BY DEF Used
<1>2. IsFiniteSet(Used) /\ Cardinality(Used) <= Cardinality(Registrations)
  BY <1>1, IOAssumption, FS_Subset
<1>3. Cardinality(Used) \in Nat /\ Cardinality(Registrations) \in Nat
  BY <1>2, IOAssumption, FS_CardinalityType
<1> QED BY <1>2, <1>3, IOAssumption

\* One registered slot is taken away, and the count decremented once.
LEMMA PendingLess ==
  ASSUME Pending, NEW s \in m_events, m_events' = m_events \ {s}, PendingMinus(1), home' = home
  PROVE  Pending'
<1>1. /\ IsFiniteSet(m_events') /\ Cardinality(m_events') = Cardinality(m_events) - 1
      /\ Cardinality(m_events) \in Nat
  BY FS_RemoveElement, FS_CardinalityType DEF Pending
<1>2. Cardinality(m_events) # 0
  BY FS_EmptySet DEF Pending
<1>3. Cardinality(m_events) - 1 \in 0..(SizeT - 1) /\ Cardinality(Used) \in Nat
  BY <1>1, <1>2, UsedBound, SizeTPositive DEF Pending
<1>4. m_pendingEventCount' = Cardinality(m_events) - 1
  BY <1>3, ModExact DEF PendingMinus, Pending, PendingMatchesEvents
<1>5. Used' = Used
  BY DEF Used
<1> QED BY <1>1, <1>3, <1>4, <1>5 DEF Pending, PendingMatchesEvents

\* A registration adds one slot and is one more registration made.
LEMMA PendingMore ==
  ASSUME IOTypeOK, Pending, NEW r \in Registrations, NEW fd \in Fds, NEW e \in Event,
         addEvent(r, fd, e)
  PROVE  Pending'
<1>1. /\ m_events' = m_events \cup {<<fd, e>>} /\ <<fd, e>> \notin m_events
      /\ home' = [home EXCEPT ![r] = <<fd, e>>] /\ home[r] = Nobody
      /\ m_pendingEventCount' = (m_pendingEventCount + 1) % SizeT
  BY DEF addEvent
<1>2. /\ IsFiniteSet(m_events') /\ Cardinality(m_events') = Cardinality(m_events) + 1
      /\ Cardinality(m_events) \in Nat
  BY <1>1, FS_AddElement, FS_CardinalityType DEF Pending
<1>3. r \notin Used /\ Used' = Used \cup {r}
  BY <1>1, IOAssumption DEF Used, IOTypeOK
<1>4. Cardinality(Used') = Cardinality(Used) + 1
  BY <1>3, UsedBound, FS_AddElement
<1>5. Used' \in SUBSET Registrations
  BY DEF Used
<1>6. Cardinality(Used') <= Cardinality(Registrations) /\ Cardinality(Registrations) \in Nat
  BY <1>5, IOAssumption, FS_Subset, FS_CardinalityType
<1>7. Cardinality(m_events) + 1 \in 0..(SizeT - 1) /\ Cardinality(m_events') <= Cardinality(Used')
  BY <1>2, <1>4, <1>6, UsedBound, IOAssumption DEF Pending
<1>8. m_pendingEventCount' = Cardinality(m_events) + 1
  BY <1>1, <1>7, ModExact DEF Pending, PendingMatchesEvents
<1> QED BY <1>2, <1>7, <1>8 DEF Pending, PendingMatchesEvents

\* What a step does to the registered slots, when descriptors are used one way
\* and do not hang up: the slot of the new registration comes, one registered
\* slot is deleted or triggered, or all stays.
SlotStep ==
    \/ \E r \in Registrations, fd \in Fds, e \in Event : addEvent(r, fd, e)
    \/ \E fd \in Fds, e \in Event : delEvent(fd, e)
    \/ \E s \in m_events : triggerEvent({s})
    \/ UNCHANGED <<m_events, ctxVars, m_pendingEventCount, home, scheduled, deleted>>

\* Every step is of that form: a report that comes late triggers a registered
\* event or nothing.
LEMMA EveryStepIsSlotStep ==
  ASSUME OneWay(Fds), HangsUp = {}, IOTypeOK, Watch, Seen, [Next]_vars
  PROVE  SlotStep
<1>1. ASSUME NEW fd \in Fds, NEW e \in Event, cancelEvent(fd, e) PROVE SlotStep
  BY <1>1 DEF cancelEvent, SlotStep
<1>2. ASSUME NEW fd \in Fds, cancelAll(fd) PROVE SlotStep
  <2>1. EventsOf(fd) \subseteq Directions[fd] /\ EventsOf(fd) # {}
    BY <1>2 DEF cancelAll, Watch, Directed
  <2>2. PICK e \in Event : {fd} \X EventsOf(fd) = {<<fd, e>>} /\ <<fd, e>> \in m_events
    BY <2>1, OneSlot DEF Watch
  <2> QED BY <1>2, <2>2 DEF cancelAll, SlotStep
<1>3. ASSUME NEW p \in Pollers, NEW fd \in Fds, Process(p, fd) PROVE SlotStep
  <2> DEFINE real == RealEvents(reports[p][fd])
  <2>1. reports[p][fd] \subseteq Directions[fd] /\ Directions[fd] \subseteq Event
    BY IOAssumption DEF Seen
  <2>2. real \subseteq Directions[fd]
    BY <2>1 DEF RealEvents, Event
  <2>3. CASE EventsOf(fd) \cap real # {} /\ triggerEvent({fd} \X real)
    <3> HIDE DEF real
    <3>1. PICK e \in Event : {fd} \X real = {<<fd, e>>} /\ <<fd, e>> \in m_events
      BY <2>2, <2>3, OneSlot DEF Watch
    <3> QED BY <2>3, <3>1 DEF SlotStep
  <2>4. CASE UNCHANGED <<m_events, ctxVars, m_pendingEventCount, home,
                         scheduled, deleted, fault, epollVars>>
    BY <2>4 DEF SlotStep
  <2> QED BY <1>3, <2>3, <2>4 DEF Process
<1>4. CASE Environment \/ \E p \in Pollers : epoll_wait(p)
  BY <1>4 DEF Environment, BecomeReady, Consume, epoll_wait, SlotStep
<1>5. CASE UNCHANGED vars
  BY <1>5 DEF vars, ctxVars, SlotStep
<1>6. ASSUME NEW fd \in Fds, NEW e \in Event,
             delEvent(fd, e) \/ \E r \in Registrations : addEvent(r, fd, e)
      PROVE  SlotStep
  BY <1>6 DEF SlotStep
<1> QED BY <1>1, <1>2, <1>3, <1>4, <1>5, <1>6 DEF Next, Callers, idle

\* The invariant of descriptors used one way.
LEMMA SeenInvariant ==
  ASSUME OneWay(Fds), HangsUp = {}
  PROVE  Spec => [](IOTypeOK /\ Watch /\ Seen)
<1>0. OneWay(Cancellable)
  BY IOAssumption DEF OneWay
<1>1. Init => Watch /\ Seen
  BY IOAssumption DEF Init, Watch, Directed, InterestMatchesEvents, EventsOf, Seen
<1>2. IOTypeOK /\ Watch /\ [Next]_vars => Watch'
  BY <1>0, WatchStep
<1>3. IOTypeOK /\ Seen /\ [Next]_vars => Seen'
  BY SeenStep
<1> QED BY <1>1, <1>2, <1>3, IOTypeCorrect, PTL DEF Spec

\* The count keeps in step with the registered slots.
LEMMA PendingStep ==
  ASSUME IOTypeOK, Pending, SlotStep
  PROVE  Pending'
<1>1. ASSUME NEW r \in Registrations, NEW fd \in Fds, NEW e \in Event, addEvent(r, fd, e)
      PROVE  Pending'
  BY <1>1, PendingMore
<1>2. ASSUME NEW fd \in Fds, NEW e \in Event, delEvent(fd, e) PROVE Pending'
  BY <1>2, PendingLess DEF delEvent
<1>3. ASSUME NEW s \in m_events, triggerEvent({s}) PROVE Pending'
  <2>1. Cardinality({s}) = 1
    BY FS_Singleton
  <2> QED BY <1>3, <2>1, PendingLess DEF triggerEvent
<1>4. CASE UNCHANGED <<m_events, ctxVars, m_pendingEventCount, home, scheduled, deleted>>
  BY <1>4 DEF Pending, PendingMatchesEvents, Used
<1> QED BY <1>1, <1>2, <1>3, <1>4 DEF SlotStep

\* The count stopping() reads is the number of registered events, for any
\* number of descriptors and threads, when descriptors are used one way.
THEOREM PendingCorrect ==
  ASSUME OneWay(Fds), HangsUp = {}
  PROVE  Spec => []PendingMatchesEvents
<1>1. Init => Pending
  <2> SUFFICES ASSUME Init PROVE Pending
    OBVIOUS
  <2>1. m_events = {} /\ m_pendingEventCount = 0
    BY DEF Init
  <2> QED BY <2>1, UsedBound, FS_EmptySet DEF Pending, PendingMatchesEvents
<1>2. IOTypeOK /\ Watch /\ Seen /\ Pending /\ [Next]_vars => Pending'
  BY EveryStepIsSlotStep, PendingStep
<1>3. Pending => PendingMatchesEvents
  BY DEF Pending
<1> QED BY <1>1, <1>2, <1>3, SeenInvariant, PTL DEF Spec
-----------------------------------------------------------------------------
(* Each registration is served once.                                       *)

\* Whom a registered slot hands over is the registration made for it; one that
\* was not made yet has not been served.
Owned ==
    /\ \A s \in m_events : Target(s) \in Registrations /\ home[Target(s)] = s
    /\ \A r \in Registrations : home[r] = Nobody => scheduled[r] = 0 /\ r \notin deleted
    /\ Callbacks = {} => \A s \in Slots : cb[s] = Nobody

Ledger == Owned /\ RegistrationOnce

\* The registration of a registered slot is waiting there, and nobody else.
LEMMA WaitingIn ==
  ASSUME IOTypeOK, Ledger, NEW s \in m_events
  PROVE  /\ \A r \in Registrations : Waiting(r) /\ home[r] = s <=> r = Target(s)
         /\ scheduled[Target(s)] = 0 /\ Target(s) \notin deleted
<1>1. Target(s) \in Registrations /\ home[Target(s)] = s
  BY DEF Ledger, Owned
<1>2. s # Nobody
  BY IOAssumption DEF IOTypeOK, Slots
<1>3. Waiting(Target(s))
  BY <1>1 DEF Waiting
<1> QED BY <1>1, <1>2, <1>3 DEF Ledger, RegistrationOnce, Waiting

\* addEvent starts a registration's life; those that were in the slot before
\* have been served or deleted.
LEMMA LedgerAdd ==
  ASSUME OneKind, IOTypeOK, Ledger, NEW r \in Registrations, NEW fd \in Fds, NEW e \in Event,
         addEvent(r, fd, e)
  PROVE  Ledger'
<1>0. PICK s \in Slots : s = <<fd, e>>
  BY DEF Slots
<1>1. /\ home[r] = Nobody /\ s \notin m_events /\ m_events' = m_events \cup {s}
      /\ FillContext(s, r) /\ home' = [home EXCEPT ![r] = s]
      /\ UNCHANGED <<scheduled, deleted>>
  BY <1>0 DEF addEvent
<1>2. s # Nobody /\ r # Nobody
  BY <1>0, IOAssumption
<1>3. /\ home'[r] = s
      /\ \A q \in Registrations : q # r => home'[q] = home[q]
  BY <1>1 DEF IOTypeOK
<1>4. /\ Callbacks = {} => cb' = cb /\ fiber' = [fiber EXCEPT ![s] = r]
      /\ Callbacks = Registrations => cb' = [cb EXCEPT ![s] = r] /\ fiber' = fiber
  BY <1>1, <1>2 DEF FillContext
<1>5. Target(s)' = r
  BY <1>2, <1>4 DEF OneKind, Target, IOTypeOK, Ledger, Owned
<1>6. \A u \in Slots : u # s => Target(u)' = Target(u)
  BY <1>4 DEF OneKind, Target, IOTypeOK
<1>7. Owned'
  <2>1. ASSUME NEW u \in m_events' PROVE Target(u)' \in Registrations /\ home'[Target(u)'] = u
    <3>1. CASE u = s
      BY <1>3, <1>5, <3>1
    <3>2. CASE u # s
      <4>1. u \in m_events /\ u \in Slots /\ Target(u)' = Target(u)
        BY <1>1, <1>6, <3>2 DEF IOTypeOK
      <4>2. Target(u) \in Registrations /\ home[Target(u)] = u /\ u # Nobody
        BY <4>1, IOAssumption DEF Ledger, Owned, Slots
      <4> QED BY <1>1, <1>3, <4>1, <4>2
    <3> QED BY <3>1, <3>2
  <2>2. \A q \in Registrations : home'[q] = Nobody => scheduled'[q] = 0 /\ q \notin deleted'
    BY <1>1, <1>2, <1>3 DEF Ledger, Owned
  <2>3. Callbacks = {} => \A u \in Slots : cb'[u] = Nobody
    BY <1>4 DEF Ledger, Owned
  <2> QED BY <2>1, <2>2, <2>3 DEF Owned
<1>8. RegistrationOnce'
  <2> SUFFICES ASSUME NEW q \in Registrations, home'[q] # Nobody
               PROVE  \/ Waiting(q)' /\ scheduled'[q] = 0 /\ q \notin deleted'
                      \/ ~Waiting(q)' /\ scheduled'[q] = 1 /\ q \notin deleted'
                      \/ ~Waiting(q)' /\ scheduled'[q] = 0 /\ q \in deleted'
    BY DEF RegistrationOnce
  <2>1. CASE q = r
    <3>1. Waiting(q)'
      BY <1>1, <1>3, <1>5, <2>1 DEF Waiting
    <3> QED BY <1>1, <2>1, <3>1 DEF Ledger, Owned
  <2>2. CASE q # r
    <3>1. home'[q] = home[q] /\ home[q] \in Slots
      BY <1>3, <2>2 DEF IOTypeOK
    <3>2. Waiting(q)' <=> Waiting(q)
      BY <1>1, <1>5, <1>6, <2>2, <3>1 DEF Waiting
    <3> QED BY <1>1, <3>1, <3>2 DEF Ledger, RegistrationOnce
  <2> QED BY <2>1, <2>2
<1> QED BY <1>7, <1>8 DEF Ledger

\* Triggering a registered slot serves the registration that waits in it.
LEMMA LedgerTrigger ==
  ASSUME IOTypeOK, Ledger, NEW s \in m_events, triggerEvent({s})
  PROVE  Ledger'
<1>1. /\ m_events' = m_events \ {s} /\ UNCHANGED <<scheduler, fiber, cb, home, deleted>>
      /\ \A r \in Registrations : scheduled'[r] = IF scheduled[r] < 2 /\ Target(s) = r
                                                  THEN scheduled[r] + 1 ELSE scheduled[r]
  BY DEF triggerEvent, ctxVars
<1>2. \A u : Target(u)' = Target(u)
  BY <1>1 DEF Target
<1>3. s \in Slots /\ s # Nobody /\ Target(s) \in Registrations /\ home[Target(s)] = s
  BY IOAssumption DEF IOTypeOK, Slots, Ledger, Owned
<1>4. \A r \in Registrations : home[r] = Nobody => r # Target(s)
  BY <1>3
<1>5. Owned'
  <2>1. \A u \in m_events' : Target(u)' \in Registrations /\ home'[Target(u)'] = u
    BY <1>1, <1>2 DEF Ledger, Owned
  <2>2. \A q \in Registrations : home'[q] = Nobody => scheduled'[q] = 0 /\ q \notin deleted'
    BY <1>1, <1>4 DEF Ledger, Owned
  <2> QED BY <1>1, <2>1, <2>2 DEF Ledger, Owned
<1>6. RegistrationOnce'
  <2> SUFFICES ASSUME NEW q \in Registrations, home'[q] # Nobody
               PROVE  \/ Waiting(q)' /\ scheduled'[q] = 0 /\ q \notin deleted'
                      \/ ~Waiting(q)' /\ scheduled'[q] = 1 /\ q \notin deleted'
                      \/ ~Waiting(q)' /\ scheduled'[q] = 0 /\ q \in deleted'
    BY DEF RegistrationOnce
  <2>1. CASE q = Target(s)
    <3>1. ~Waiting(q)'
      BY <1>1, <1>3, <2>1 DEF Waiting
    <3>2. scheduled[q] = 0 /\ q \notin deleted
      BY <2>1, WaitingIn
    <3> QED BY <1>1, <2>1, <3>1, <3>2
  <2>2. CASE q # Target(s)
    <3>1. Waiting(q)' <=> Waiting(q)
      BY <1>1, <1>2, <2>2 DEF Waiting
    <3> QED BY <1>1, <2>2, <3>1 DEF Ledger, RegistrationOnce
  <2> QED BY <2>1, <2>2
<1> QED BY <1>5, <1>6 DEF Ledger

\* delEvent deletes the registration that waits in the slot.
LEMMA LedgerDel ==
  ASSUME IOTypeOK, Ledger, NEW fd \in Fds, NEW e \in Event, delEvent(fd, e)
  PROVE  Ledger'
<1>0. PICK s \in Slots : s = <<fd, e>>
  BY DEF Slots
<1>1. /\ s \in m_events /\ m_events' = m_events \ {s} /\ UNCHANGED <<home, scheduled>>
      /\ deleted' = deleted \cup ({Target(s)} \cap Registrations)
      /\ fiber' = [fiber EXCEPT ![s] = Nobody] /\ cb' = [cb EXCEPT ![s] = Nobody]
  BY <1>0 DEF delEvent, resetContext
<1>2. \A u \in Slots : u # s => Target(u)' = Target(u)
  BY <1>1 DEF Target, IOTypeOK
<1>3. s # Nobody /\ Target(s) \in Registrations /\ home[Target(s)] = s
  BY <1>0, <1>1, IOAssumption DEF Ledger, Owned
<1>4. deleted' = deleted \cup {Target(s)}
  BY <1>1, <1>3
<1>5. Owned'
  <2>1. \A u \in m_events' : Target(u)' \in Registrations /\ home'[Target(u)'] = u
    BY <1>1, <1>2 DEF Ledger, Owned, IOTypeOK
  <2>2. \A q \in Registrations : home'[q] = Nobody => scheduled'[q] = 0 /\ q \notin deleted'
    BY <1>1, <1>3, <1>4 DEF Ledger, Owned
  <2>3. Callbacks = {} => \A u \in Slots : cb'[u] = Nobody
    BY <1>1 DEF Ledger, Owned, IOTypeOK
  <2> QED BY <2>1, <2>2, <2>3 DEF Owned
<1>6. RegistrationOnce'
  <2> SUFFICES ASSUME NEW q \in Registrations, home'[q] # Nobody
               PROVE  \/ Waiting(q)' /\ scheduled'[q] = 0 /\ q \notin deleted'
                      \/ ~Waiting(q)' /\ scheduled'[q] = 1 /\ q \notin deleted'
                      \/ ~Waiting(q)' /\ scheduled'[q] = 0 /\ q \in deleted'
    BY DEF RegistrationOnce
  <2>1. CASE q = Target(s)
    <3>1. ~Waiting(q)'
      BY <1>1, <1>3, <2>1 DEF Waiting
    <3>2. scheduled[q] = 0
      BY <1>1, <2>1, WaitingIn
    <3> QED BY <1>1, <1>4, <2>1, <3>1, <3>2
  <2>2. CASE q # Target(s)
    <3>1. home'[q] = home[q] /\ home[q] \in Slots
      BY <1>1 DEF IOTypeOK
    <3>2. Waiting(q)' <=> Waiting(q)
      BY <1>1, <1>2, <2>2, <3>1 DEF Waiting
    <3> QED BY <1>1, <1>4, <2>2, <3>1, <3>2 DEF Ledger, RegistrationOnce
  <2> QED BY <2>1, <2>2
<1> QED BY <1>5, <1>6 DEF Ledger

\* No waiting fiber is forgotten and none is scheduled twice, although idle()
\* works on reports that may be older than the registrations: every addEvent
\* is answered by one triggerEvent or one delEvent.
THEOREM OnceCorrect ==
  ASSUME OneWay(Fds), HangsUp = {}, OneKind
  PROVE  Spec => []RegistrationOnce
<1>1. Init => Ledger
  BY DEF Init, Ledger, Owned, RegistrationOnce
<1>2. ASSUME IOTypeOK, Watch, Seen, Ledger, [Next]_vars PROVE Ledger'
  <2>1. SlotStep
    BY <1>2, EveryStepIsSlotStep
  <2>2. CASE UNCHANGED <<m_events, ctxVars, m_pendingEventCount, home, scheduled, deleted>>
    BY <1>2, <2>2 DEF ctxVars, Ledger, Owned, RegistrationOnce, Waiting, Target
  <2> QED BY <1>2, <2>1, <2>2, LedgerAdd, LedgerDel, LedgerTrigger DEF SlotStep
<1>3. IOTypeOK /\ Watch /\ Seen /\ Ledger /\ [Next]_vars => Ledger'
  BY <1>2
<1>4. Ledger => RegistrationOnce
  BY DEF Ledger
<1> QED BY <1>1, <1>3, <1>4, SeenInvariant, PTL DEF Spec
=============================================================================
