---------------------------- MODULE TimerProofs ----------------------------
(***************************************************************************)
(* RegisteredIffCallback, CancelOrFire and TimerTypeOK of TimerManager,    *)
(* for any number of timers and polling threads and any bounds.            *)
(*                                                                         *)
(* None is inductive.  addTimer needs to know that a timer still being     *)
(* made has its callback and is nowhere else (BeforeAdd), and              *)
(* listExpiredCb that a thread about to collect holds no callback from     *)
(* before (the last conjunct of TimerShape).  No arithmetic on the clock   *)
(* is involved: which timers expire does not matter, only that they come   *)
(* from the set.  The types need the arithmetic: refresh takes m_ms off    *)
(* m_next, so m_next is never less than m_ms (TimerTypes), and begin() of  *)
(* a set that is not empty exists (FirstExists).                           *)
(***************************************************************************)
EXTENDS TimerManager, WellFoundedInduction, TLAPS

TimerShape ==
    /\ tpc \in [Timers -> TimerPC]
    /\ m_timers \subseteq Timers
    /\ m_cb \subseteq Timers
    /\ ppc \in [Pollers -> PollerPC]
    /\ cbs \in [Pollers -> SUBSET Timers]
    /\ fired \in [Timers -> Nat]
    /\ cancelled \subseteq Timers
    /\ \A p \in Pollers : cbs[p] # {} => ppc[p] = "collected"

\* A timer that addTimer has not yet inserted is in none of the places.
BeforeAdd ==
    \A t \in Timers :
        ~Added(t) => /\ t \in m_cb <=> tpc[t] = "made"
                     /\ t \notin m_timers
                     /\ t \notin cancelled
                     /\ fired[t] = 0
                     /\ \A p \in Pollers : t \notin cbs[p]

\* CancelOrFire for one timer, without the set Collected.
OnePlace(t) ==
    /\ t \in m_timers => fired[t] = 0 /\ t \notin cancelled
    /\ t \in m_timers => \A p \in Pollers : t \notin cbs[p]
    /\ \A p \in Pollers : t \in cbs[p] => fired[t] = 0 /\ t \notin cancelled
    /\ \A p, q \in Pollers : t \in cbs[p] /\ t \in cbs[q] => p = q
    /\ fired[t] # 0 => fired[t] = 1 /\ t \notin cancelled
    /\ Added(t) => \/ t \in m_timers \cup cancelled
                   \/ \E p \in Pollers : t \in cbs[p]
                   \/ fired[t] = 1

TimerInv ==
    /\ TimerShape
    /\ BeforeAdd
    /\ RegisteredIffCallback
    /\ \A t \in Timers \ Recurring : OnePlace(t)

-----------------------------------------------------------------------------
\* What listExpiredCb takes are timers of the set, rollover or not.
LEMMA ExpiredRegistered ==
    ASSUME NEW now, NEW expired \in ExpiredSets(now)
    PROVE  expired \subseteq m_timers
BY DEF ExpiredSets

\* The invariant holds of a new manager.
LEMMA InitTimer == Init => TimerInv
BY DEF Init, TimerInv, TimerShape, BeforeAdd, RegisteredIffCallback, OnePlace,
       Added, TimerPC, PollerPC

\* The steps of addTimer keep the invariant: the timer is made with its
\* callback, enters the set, and its owner gets it when it is there.
LEMMA AddKeeps ==
    ASSUME TimerInv, NEW t \in Timers,
           (\E ms \in Delays : MakeTimer(t, ms)) \/ addTimer(t)
           \/ onTimerInsertedAtFront(t)
    PROVE  TimerInv'
<1> USE DEF TimerInv, TimerShape, TimerPC
<1>1. CASE \E ms \in Delays : MakeTimer(t, ms)
  <2>1. PICK ms \in Delays : MakeTimer(t, ms) BY <1>1
  <2>2. TimerShape' BY <2>1 DEF MakeTimer, pollVars
  <2>3. BeforeAdd' BY <2>1 DEF MakeTimer, pollVars, BeforeAdd, Added
  <2>4. RegisteredIffCallback'
    BY <2>1 DEF MakeTimer, RegisteredIffCallback, Added
  <2>5. \A u \in Timers \ Recurring : OnePlace(u)'
    BY <2>1 DEF MakeTimer, pollVars, OnePlace, Added
  <2> QED BY <2>2, <2>3, <2>4, <2>5
<1>2. CASE addTimer(t)
  <2>1. /\ tpc[t] = "made" /\ m_timers' = m_timers \cup {t}
        /\ tpc' \in [Timers -> TimerPC] /\ tpc'[t] \in {"front", "live"}
        /\ \A u \in Timers \ {t} : tpc'[u] = tpc[u]
        /\ UNCHANGED <<m_cb, ppc, cbs, fired, cancelled>>
    BY <1>2 DEF addTimer, pollVars
  <2> QED BY <2>1 DEF BeforeAdd, RegisteredIffCallback, OnePlace, Added
<1>3. CASE onTimerInsertedAtFront(t)
  <2>1. /\ tpc[t] = "front" /\ tpc' = [tpc EXCEPT ![t] = "live"]
        /\ UNCHANGED <<m_timers, m_cb, ppc, cbs, fired, cancelled>>
    BY <1>3 DEF onTimerInsertedAtFront, timerVars, pollVars
  <2> QED BY <2>1 DEF BeforeAdd, RegisteredIffCallback, OnePlace, Added
<1> QED BY <1>1, <1>2, <1>3

\* cancel, refresh and reset keep the invariant: only cancel moves the timer,
\* out of the set, and it takes the callback away with it.
LEMMA OwnerKeeps ==
    ASSUME TimerInv, NEW t \in Timers,
           cancel(t) \/ refresh(t)
           \/ \E ms \in Delays, from_now \in BOOLEAN : reset(t, ms, from_now)
    PROVE  TimerInv'
<1> USE DEF TimerInv, TimerShape
<1>1. CASE cancel(t)
  <2>1. /\ tpc[t] = "live" /\ t \in m_cb
        /\ m_cb' = m_cb \ {t} /\ m_timers' = m_timers \ {t}
        /\ cancelled' = cancelled \cup {t}
        /\ UNCHANGED <<tpc, ppc, cbs, fired>>
    BY <1>1 DEF cancel, pollVars
  <2>2. Added(t) /\ t \in m_timers BY <2>1 DEF Added, RegisteredIffCallback
  <2>3. TimerShape' BY <2>1
  <2>4. BeforeAdd' BY <2>1 DEF BeforeAdd, Added
  <2>5. RegisteredIffCallback' BY <2>1 DEF RegisteredIffCallback, Added
  <2>6. ASSUME NEW u \in Timers \ Recurring PROVE OnePlace(u)'
    <3>1. CASE u = t BY <3>1, <2>1, <2>2 DEF OnePlace, Added
    <3>2. CASE u # t BY <3>2, <2>1 DEF OnePlace, Added
    <3> QED BY <3>1, <3>2
  <2> QED BY <2>3, <2>4, <2>5, <2>6
<1>2. CASE refresh(t) \/ \E ms \in Delays, from_now \in BOOLEAN : reset(t, ms, from_now)
  <2>1. UNCHANGED <<tpc, m_timers, m_cb, ppc, cbs, fired, cancelled>>
    BY <1>2 DEF refresh, reset, Reinsert, pollVars
  <2> QED BY <2>1 DEF BeforeAdd, RegisteredIffCallback, OnePlace, Added
<1> QED BY <1>1, <1>2

\* listExpiredCb keeps the invariant: the expired one-shot timers go from the
\* set to the collecting thread and lose their callback on the way.
LEMMA ExpireKeeps ==
    ASSUME TimerInv, NEW p \in Pollers, listExpiredCb(p)
    PROVE  TimerInv'
<1> USE DEF TimerInv, TimerShape, PollerPC, PGoto
<1>1. UNCHANGED <<tpc, fired, cancelled>> /\ ppc[p] = "read"
  BY DEF listExpiredCb
<1>2. CASE m_timers = {}
  <2>1. ppc' = [ppc EXCEPT ![p] = "running"] /\ UNCHANGED <<m_timers, m_cb, cbs>>
    BY <1>2 DEF listExpiredCb, timerVars
  <2> QED BY <1>1, <2>1 DEF BeforeAdd, RegisteredIffCallback, OnePlace, Added
<1>3. CASE m_timers # {}
  <2>1. PICK expired \in ExpiredSets(now_ms[p]) :
             /\ m_timers' = m_timers \ (expired \ Recurring)
             /\ m_cb' = m_cb \ (expired \ Recurring)
             /\ cbs' = [cbs EXCEPT ![p] = expired]
             /\ ppc' = [ppc EXCEPT ![p] = "collected"]
    BY <1>3 DEF listExpiredCb, DropCallbacks
  <2>2. expired \subseteq m_timers BY ExpiredRegistered
  <2>3. cbs[p] = {} BY <1>1
  <2>4. TimerShape' BY <1>1, <2>1, <2>2
  <2>5. BeforeAdd' BY <1>1, <2>1, <2>2 DEF BeforeAdd, Added
  <2>6. RegisteredIffCallback' BY <1>1, <2>1 DEF RegisteredIffCallback, Added
  <2>7. ASSUME NEW u \in Timers \ Recurring PROVE OnePlace(u)'
    <3>1. CASE u \in expired
      BY <1>1, <2>1, <2>2, <3>1 DEF OnePlace, Added
    <3>2. CASE u \notin expired
      BY <1>1, <2>1, <2>2, <2>3, <3>2 DEF OnePlace, Added
    <3> QED BY <3>1, <3>2
  <2> QED BY <2>4, <2>5, <2>6, <2>7
<1> QED BY <1>2, <1>3

\* Handing the callbacks to the scheduler keeps the invariant: what one thread
\* collected is fired once, and nobody else holds it.
LEMMA ScheduleKeeps ==
    ASSUME TimerInv, NEW p \in Pollers, ScheduleExpired(p)
    PROVE  TimerInv'
<1> USE DEF TimerInv, TimerShape, PollerPC
<1>1. /\ fired' = [t \in Timers |-> IF t \in cbs[p] /\ fired[t] < 2
                                    THEN fired[t] + 1 ELSE fired[t]]
      /\ cbs' = [cbs EXCEPT ![p] = {}]
      /\ ppc' = [ppc EXCEPT ![p] = "running"]
      /\ UNCHANGED <<tpc, m_timers, m_cb, cancelled>>
  BY DEF ScheduleExpired, PGoto, timerVars
<1>2. TimerShape' BY <1>1
<1>3. BeforeAdd' BY <1>1 DEF BeforeAdd, Added
<1>4. RegisteredIffCallback' BY <1>1 DEF RegisteredIffCallback, Added
<1>5. ASSUME NEW u \in Timers \ Recurring PROVE OnePlace(u)'
  <2>1. CASE u \in cbs[p]
    <3>1. fired'[u] = 1 BY <1>1, <2>1 DEF OnePlace
    <3> QED BY <1>1, <2>1, <3>1 DEF OnePlace, Added
  <2>2. CASE u \notin cbs[p]
    <3>1. fired'[u] = fired[u] BY <1>1, <2>2
    <3> QED BY <1>1, <2>2, <3>1 DEF OnePlace, Added
  <2> QED BY <2>1, <2>2
<1> QED BY <1>2, <1>3, <1>4, <1>5

\* The other steps of the pollers, the clock and stuttering touch none of the
\* places a timer can be in.
LEMMA RestKeeps ==
    ASSUME TimerInv,
           \/ Tick \/ SetBack \/ UNCHANGED vars
           \/ \E p \in Pollers : \/ getNextTimer(p) \/ epoll_wait(p)
                                 \/ DescriptorReady(p) \/ ReadClock(p)
    PROVE  TimerInv'
<1> USE DEF TimerInv, TimerShape, PollerPC
<1>1. CASE Tick \/ SetBack \/ UNCHANGED vars
  <2>1. UNCHANGED <<tpc, m_timers, m_cb, ppc, cbs, fired, cancelled>>
    BY <1>1 DEF Tick, SetBack, vars, timerVars, pollVars
  <2> QED BY <2>1 DEF BeforeAdd, RegisteredIffCallback, OnePlace, Added
<1>2. CASE \E p \in Pollers : \/ getNextTimer(p) \/ epoll_wait(p)
                              \/ DescriptorReady(p) \/ ReadClock(p)
  <2>1. PICK p \in Pollers : \/ getNextTimer(p) \/ epoll_wait(p)
                             \/ DescriptorReady(p) \/ ReadClock(p)
    BY <1>2
  <2>2. /\ ppc[p] # "collected"
        /\ \E l \in {"polling", "woken", "read"} : ppc' = [ppc EXCEPT ![p] = l]
        /\ UNCHANGED <<tpc, m_timers, m_cb, cbs, fired, cancelled>>
    BY <2>1 DEF getNextTimer, epoll_wait, DescriptorReady, ReadClock, PGoto, timerVars
  <2>3. TimerShape' BY <2>2
  <2> QED BY <2>2, <2>3 DEF BeforeAdd, RegisteredIffCallback, OnePlace, Added
<1> QED BY <1>1, <1>2

-----------------------------------------------------------------------------
\* TimerInv is an invariant of the timers: it holds of a new manager and every
\* step of an owner, a polling thread or the clock keeps it.
THEOREM TimerInvariant == Spec => []TimerInv
<1>1. TimerInv /\ [Next]_vars => TimerInv'
  <2> SUFFICES ASSUME TimerInv, [Next]_vars PROVE TimerInv' OBVIOUS
  <2>1. CASE \E t \in Timers : Owner(t)
    BY <2>1, AddKeeps, OwnerKeeps DEF Owner
  <2>2. CASE \E p \in Pollers : Poll(p) \/ DescriptorReady(p)
    BY <2>2, ExpireKeeps, ScheduleKeeps, RestKeeps DEF Poll
  <2>3. CASE Tick \/ SetBack \/ UNCHANGED vars
    BY <2>3, RestKeeps
  <2> QED BY <2>1, <2>2, <2>3 DEF Next
<1> QED BY <1>1, InitTimer, PTL DEF Spec

\* cancel()'s assertion holds: a timer its owner can reach has a callback
\* exactly while it is in m_timers, for any number of timers and threads.
THEOREM RegisteredIffCallbackCorrect == Spec => []RegisteredIffCallback
<1>1. TimerInv => RegisteredIffCallback BY DEF TimerInv
<1> QED BY <1>1, TimerInvariant, PTL

\* A one-shot timer is cancelled or fired, and never fired twice, whatever the
\* number of threads in listExpiredCb.
THEOREM CancelOrFireCorrect == Spec => []CancelOrFire
<1>1. TimerInv => CancelOrFire
  <2> SUFFICES ASSUME TimerInv, NEW t \in Timers \ Recurring
      PROVE  /\ t \in m_timers => Collected(t) = {} /\ fired[t] = 0 /\ t \notin cancelled
             /\ Collected(t) # {} => fired[t] = 0 /\ t \notin cancelled
             /\ \A p, q \in Collected(t) : p = q
             /\ fired[t] # 0 => fired[t] = 1 /\ t \notin cancelled
             /\ Added(t) => \/ t \in m_timers \cup cancelled
                            \/ Collected(t) # {}
                            \/ fired[t] = 1
    BY Zenon DEF CancelOrFire
  <2>1. OnePlace(t) BY DEF TimerInv
  <2> QED BY <2>1 DEF OnePlace, Collected
<1> QED BY <1>1, TimerInvariant, PTL

-----------------------------------------------------------------------------
(* Types.  reset() without from_now takes m_ms off m_next, and the type of *)
(* the result needs the order between the two.                             *)

TimerTypes ==
    /\ TimerTypeOK
    /\ \A t \in Timers : m_ms[t] <= m_next[t]

\* A set of numbers that is not empty has a least element.
LEMMA Lowest ==
    ASSUME NEW S, S \subseteq Nat, S # {}
    PROVE  \E n \in S : \A m \in S : n <= m
<1> DEFINE Less == {pair \in Nat \X Nat : pair[1] < pair[2]}
<1>1. IsWellFoundedOn(Less, Nat) BY NatLessThanWellFounded DEF OpToRel
<1>2. \A x, y \in Nat : <<y, x>> \in Less <=> y < x OBVIOUS
<1> HIDE DEF Less
<1>3. PICK n \in S : \A m \in S : <<m, n>> \notin Less BY <1>1, WFMin
<1>4. \A m \in S : ~(m < n) BY <1>2, <1>3
<1> QED BY <1>4

\* A set of timers has a first one, so begin() is defined.
LEMMA FirstExists ==
    ASSUME TimerTypeOK, NEW S \in SUBSET Timers, S # {}
    PROVE  \E t \in S : IsFirst(t, S)
<1> DEFINE Times == {m_next[t] : t \in S}
<1>1. Times \subseteq Nat /\ Times # {} BY DEF TimerTypeOK
<1>2. PICK n \in Times : \A m \in Times : n <= m BY <1>1, Lowest
<1> QED BY <1>2 DEF IsFirst

\* The deadline of a thread that sleeps for ever, or not at all, is an integer.
LEMMA NeverType == Never \in Int
BY TimerAssumption DEF Never

\* What idle() passes to epoll_wait is an integer, the cast included.
LEMMA TimeoutType == ASSUME TimerTypeOK PROVE Timeout \in Int
<1>1. CASE m_timers = {} BY <1>1, TimerAssumption DEF Timeout
<1>2. CASE m_timers # {}
  <2> DEFINE first == CHOOSE t \in m_timers : IsFirst(t, m_timers)
             wait == IF m_next[first] <= clock THEN 0 ELSE m_next[first] - clock
  <2>1. m_timers \in SUBSET Timers BY DEF TimerTypeOK
  <2>2. first \in m_timers BY <1>2, <2>1, FirstExists
  <2>3. m_next[first] \in Nat /\ clock \in Nat BY <2>1, <2>2 DEF TimerTypeOK
  <2>4. wait \in Nat BY <2>3
  <2>5. CastInt(wait) \in Int
    <3> HIDE DEF wait
    <3> QED BY <2>4, TimerAssumption DEF CastInt
  <2>6. Timeout = IF CastInt(wait) > MaxTimeout THEN MaxTimeout ELSE CastInt(wait)
    BY <1>2 DEF Timeout
  <2> QED BY <2>5, <2>6, TimerAssumption
<1> QED BY <1>1, <1>2

\* The owners' operations keep the types.
LEMMA OwnerTypes ==
    ASSUME TimerTypes, NEW t \in Timers, Owner(t)
    PROVE  TimerTypes'
<1> USE TimerAssumption DEF TimerTypes, TimerTypeOK, TimerPC, pollVars, timerVars
<1>1. CASE \E ms \in Delays : MakeTimer(t, ms) BY <1>1 DEF MakeTimer
<1>2. CASE addTimer(t) BY <1>2 DEF addTimer
<1>3. CASE onTimerInsertedAtFront(t)
  BY <1>3 DEF onTimerInsertedAtFront, tickle, hasIdleThreads
<1>4. CASE cancel(t) BY <1>4 DEF cancel
<1>5. CASE refresh(t) BY <1>5 DEF refresh, Reinsert
<1>6. CASE \E ms \in Delays, from_now \in BOOLEAN : reset(t, ms, from_now)
  <2>1. PICK ms \in Delays, from_now \in BOOLEAN : reset(t, ms, from_now) BY <1>6
  <2> DEFINE begin == IF from_now THEN clock ELSE m_next[t] - m_ms[t]
  <2>2. begin \in Nat OBVIOUS
  <2>3. Reinsert(t, begin + ms) /\ m_ms' = [m_ms EXCEPT ![t] = ms] BY <2>1 DEF reset
  <2> HIDE DEF begin
  <2> QED BY <2>2, <2>3 DEF Reinsert
<1> QED BY <1>1, <1>2, <1>3, <1>4, <1>5, <1>6 DEF Owner

\* The polling threads keep the types.
LEMMA PollTypes ==
    ASSUME TimerTypes, NEW p \in Pollers, Poll(p) \/ DescriptorReady(p)
    PROVE  TimerTypes'
<1> USE DEF TimerTypes, TimerTypeOK, PollerPC, timerVars, PGoto
<1>0. Never \in Int BY NeverType
<1>1. CASE getNextTimer(p)
  <2>1. Timeout \in Int BY TimeoutType
  <2> DEFINE d == IF Timeout < 0 THEN Never ELSE clock + Timeout
  <2>2. d \in Int BY <1>0, <2>1
  <2>3. /\ ppc[p] = "running" /\ ppc' = [ppc EXCEPT ![p] = "polling"]
        /\ m_tickled' = FALSE
        /\ deadline' = [deadline EXCEPT ![p] = d]
        /\ UNCHANGED <<clock, tpc, timerVars, m_previouseTime, now_ms, cbs, pipe,
                       fired, cancelled, ops, setBacks>>
    BY <1>1 DEF getNextTimer
  <2> HIDE DEF d
  <2> QED BY <2>2, <2>3
<1>2. CASE epoll_wait(p) BY <1>0, <1>2 DEF epoll_wait
<1>3. CASE DescriptorReady(p) BY <1>0, <1>3 DEF DescriptorReady
<1>4. CASE ReadClock(p) BY <1>4 DEF ReadClock
<1>5. CASE listExpiredCb(p)
  <2>1. CASE m_timers = {} BY <1>5, <2>1 DEF listExpiredCb
  <2>2. CASE m_timers # {}
    <3>1. PICK expired \in ExpiredSets(now_ms[p]) :
             /\ m_previouseTime' = now_ms[p]
             /\ m_timers' = m_timers \ (expired \ Recurring)
             /\ m_next' = [t \in Timers |-> IF t \in expired \cap Recurring
                                            THEN now_ms[p] + m_ms[t]
                                            ELSE m_next[t]]
             /\ m_cb' = m_cb \ (expired \ Recurring)
             /\ cbs' = [cbs EXCEPT ![p] = expired]
             /\ ppc' = [ppc EXCEPT ![p] = "collected"]
             /\ UNCHANGED m_ms
      BY <1>5, <2>2 DEF listExpiredCb, DropCallbacks
    <3>2. expired \subseteq Timers BY ExpiredRegistered
    <3>3. /\ ppc[p] = "read"
          /\ UNCHANGED <<clock, tpc, m_tickled, deadline, now_ms, pipe, fired,
                         cancelled, ops, setBacks>>
      BY <1>5 DEF listExpiredCb
    <3> QED BY <3>1, <3>2, <3>3
  <2> QED BY <2>1, <2>2
<1>6. CASE ScheduleExpired(p) BY <1>6 DEF ScheduleExpired
<1> QED BY <1>1, <1>2, <1>3, <1>4, <1>5, <1>6 DEF Poll

\* The clock keeps the types, also when it is set back.
LEMMA ClockTypes ==
    ASSUME TimerTypes, Tick \/ SetBack \/ UNCHANGED vars
    PROVE  TimerTypes'
<1> USE TimerAssumption DEF TimerTypes, TimerTypeOK, timerVars, pollVars
<1>1. CASE Tick BY <1>1 DEF Tick
<1>2. CASE SetBack
  <2>1. clock' \in Nat BY <1>2 DEF SetBack
  <2>2. /\ deadline' \in [Pollers -> Int]
        /\ \A p \in Pollers : deadline'[p] # Never => deadline[p] # Never
    BY <1>2, <2>1, NeverType DEF SetBack
  <2> QED BY <1>2, <2>1, <2>2 DEF SetBack
<1>3. CASE UNCHANGED vars BY <1>3 DEF vars
<1> QED BY <1>1, <1>2, <1>3

\* Every variable of the timers keeps its type, a thread holds callbacks only
\* between listExpiredCb and schedule, and no due time is negative, for any
\* number of timers and threads and a clock that may be set back.
THEOREM TimerTypeCorrect == Spec => []TimerTypeOK
<1>1. Init => TimerTypes
  <2> SUFFICES ASSUME Init PROVE TimerTypes OBVIOUS
  <2>1. /\ clock \in Nat /\ m_previouseTime \in Nat /\ setBacks \in 0..MaxSetBacks
        /\ ops \in [Timers -> 0..MaxOps]
    BY TimerAssumption DEF Init
  <2>2. deadline \in [Pollers -> Int] /\ \A p \in Pollers : deadline[p] = Never
    BY NeverType DEF Init
  <2>3. /\ m_next \in [Timers -> Nat] /\ m_ms \in [Timers -> Nat]
        /\ fired \in [Timers -> Nat] /\ now_ms \in [Pollers -> Nat]
        /\ \A t \in Timers : m_ms[t] <= m_next[t]
    BY DEF Init
  <2>4. /\ tpc \in [Timers -> TimerPC] /\ ppc \in [Pollers -> PollerPC]
        /\ cbs \in [Pollers -> SUBSET Timers] /\ \A p \in Pollers : cbs[p] = {}
        /\ m_timers = {} /\ m_cb = {} /\ cancelled = {}
        /\ m_tickled \in BOOLEAN /\ pipe \in BOOLEAN
    BY DEF Init, TimerPC, PollerPC
  <2> QED BY <2>1, <2>2, <2>3, <2>4 DEF TimerTypes, TimerTypeOK
<1>2. TimerTypes /\ [Next]_vars => TimerTypes'
  BY OwnerTypes, PollTypes, ClockTypes DEF Next
<1>3. TimerTypes => TimerTypeOK BY DEF TimerTypes
<1> QED BY <1>1, <1>2, <1>3, PTL DEF Spec
=============================================================================
