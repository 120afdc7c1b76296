---------------------------- MODULE TimerManager ----------------------------
(***************************************************************************)
(* Timers (timer.cpp, timer.h) and the threads that serve them: the timer  *)
(* part of IOManager::idle, IOManager::tickle and onTimerInsertedAtFront   *)
(* (iomanager.cpp).                                                        *)
(*                                                                         *)
(* m_timers is a std::set ordered by (m_next, address of the timer).  The  *)
(* operations of a Timer run under the write lock and are one step each;   *)
(* addTimer and listExpiredCb do part of their work outside of it and are  *)
(* split there.  Addresses are not modelled: where only they decide (two   *)
(* timers with equal m_next; a timer whose m_next equals now_ms against    *)
(* the probe now_timer of lower_bound) both outcomes are possible.         *)
(*                                                                         *)
(* Time is a small number of milliseconds; HourMs stands for the hour of   *)
(* detectClockRollover and MaxTimeout for the 3 seconds of the poll.  The  *)
(* manager is running: stop() has not been called, and no idle() ends.     *)
(***************************************************************************)
EXTENDS Integers

CONSTANTS
    Timers,       \* the Timer objects of one life of the manager
    Recurring,    \* those made with recurring = true
    Pollers,      \* the scheduler's threads, which poll when they are idle
    Delays,       \* the ms arguments of addTimer and reset
    MaxTimeout,   \* MAX_TIMEOUT
    HourMs,       \* the clock step back that counts as a rollover
    StartMs,      \* the clock when the manager is made
    IntLimit,     \* 2^31: the int that next_timeout is cast to
    MaxMs,        \* bound on the clock
    MaxOps,       \* bound on refresh and reset calls per timer
    MaxSetBacks   \* bound on steps back of the wall clock

ASSUME TimerAssumption ==
    /\ Recurring \subseteq Timers
    /\ Delays \subseteq Nat
    /\ MaxTimeout \in Nat /\ HourMs \in Nat /\ StartMs \in Nat
    /\ IntLimit \in Nat \ {0}
    /\ MaxMs \in Nat /\ MaxOps \in Nat /\ MaxSetBacks \in Nat
    /\ HourMs <= StartMs   \* the clock is far beyond its first hour

VARIABLES
    clock,            \* what GetCurrentMS returns
    tpc,              \* how far addTimer has come for each timer
    m_timers,         \* the ordered set
    m_cb,             \* the timers whose callback is not null
    m_next, m_ms,
    m_tickled,
    m_previouseTime,
    ppc,              \* where each poller is
    deadline,         \* when its epoll_wait times out, or Never
    now_ms,           \* the clock it read in listExpiredCb
    cbs,              \* the callbacks it collected and has not yet scheduled
    pipe,             \* an unread byte in the tickle pipe
    fired,            \* how often each callback was scheduled (2: or more)
    cancelled,        \* the timers a cancel() returned true for
    ops,              \* refresh and reset calls so far
    setBacks          \* steps back of the clock so far

timerVars == <<m_timers, m_cb, m_next, m_ms>>
pollVars  == <<ppc, deadline, now_ms, cbs>>
vars == <<clock, tpc, m_timers, m_cb, m_next, m_ms, m_tickled,
          m_previouseTime, ppc, deadline, now_ms, cbs, pipe, fired,
          cancelled, ops, setBacks>>

TimerPC  == {"none", "made", "front", "live"}
PollerPC == {"running", "polling", "woken", "read", "collected"}

\* m_idleThreadCount > 0: the thread is inside its idle fiber.
hasIdleThreads == \E p \in Pollers : ppc[p] # "running"

Never == -1 - MaxMs

IsFirst(t, S) == t \in S /\ \A u \in S : m_next[t] <= m_next[u]
-----------------------------------------------------------------------------
Init ==
    /\ clock = StartMs
    /\ tpc = [t \in Timers |-> "none"]
    /\ m_timers = {}
    /\ m_cb = {}
    /\ m_next = [t \in Timers |-> 0]
    /\ m_ms = [t \in Timers |-> 0]
    /\ m_tickled = FALSE
    /\ m_previouseTime = StartMs
    /\ ppc = [p \in Pollers |-> "running"]
    /\ deadline = [p \in Pollers |-> Never]
    /\ now_ms = [p \in Pollers |-> 0]
    /\ cbs = [p \in Pollers |-> {}]
    /\ pipe = FALSE
    /\ fired = [t \in Timers |-> 0]
    /\ cancelled = {}
    /\ ops = [t \in Timers |-> 0]
    /\ setBacks = 0

Tick ==
    /\ clock < MaxMs
    /\ clock' = clock + 1
    /\ UNCHANGED <<tpc, timerVars, m_tickled, m_previouseTime, pollVars, pipe,
                   fired, cancelled, ops, setBacks>>

\* The wall clock is set back; epoll_wait measures its time on another clock,
\* so in wall time the sleepers' deadlines move with it.
SetBack ==
    /\ setBacks < MaxSetBacks
    /\ setBacks' = setBacks + 1
    /\ clock' \in HourMs..(clock - 1)
    /\ deadline' = [p \in Pollers |-> IF deadline[p] = Never THEN Never
                                      ELSE deadline[p] - (clock - clock')]
    /\ UNCHANGED <<tpc, timerVars, m_tickled, m_previouseTime, ppc, now_ms, cbs,
                   pipe, fired, cancelled, ops>>
-----------------------------------------------------------------------------
(* addTimer: the timer is made before the lock is taken, and               *)
(* onTimerInsertedAtFront is called after it is released.                  *)

MakeTimer(t, ms) ==
    /\ tpc[t] = "none"
    /\ tpc' = [tpc EXCEPT ![t] = "made"]
    /\ m_ms' = [m_ms EXCEPT ![t] = ms]
    /\ m_next' = [m_next EXCEPT ![t] = clock + ms]
    /\ m_cb' = m_cb \cup {t}
    /\ UNCHANGED <<clock, m_timers, m_tickled, m_previouseTime, pollVars, pipe,
                   fired, cancelled, ops, setBacks>>

addTimer(t) ==
    /\ tpc[t] = "made"
    /\ m_timers' = m_timers \cup {t}
    /\ \E begin \in {u \in m_timers' : IsFirst(u, m_timers')} :
          LET at_front == begin = t /\ ~m_tickled
          IN  /\ m_tickled' = (m_tickled \/ at_front)
              /\ tpc' = [tpc EXCEPT ![t] = IF at_front THEN "front" ELSE "live"]
    /\ UNCHANGED <<clock, m_cb, m_next, m_ms, m_previouseTime, pollVars, pipe,
                   fired, cancelled, ops, setBacks>>

\* tickle() as it is: the byte is written only if no thread is idle.
tickle == pipe' = (pipe \/ ~hasIdleThreads)

onTimerInsertedAtFront(t) ==
    /\ tpc[t] = "front"
    /\ tickle
    /\ tpc' = [tpc EXCEPT ![t] = "live"]
    /\ UNCHANGED <<clock, timerVars, m_tickled, m_previouseTime, pollVars,
                   fired, cancelled, ops, setBacks>>
-----------------------------------------------------------------------------
(* The operations of a Timer its owner calls once addTimer has returned it. *)

\* Mutant: the timer stays in the set.
cancelKeepsEntry(t) ==
    /\ tpc[t] = "live"
    /\ t \in m_cb
    /\ m_cb' = m_cb \ {t}
    /\ cancelled' = cancelled \cup {t}
    /\ UNCHANGED <<clock, tpc, m_timers, m_next, m_ms, m_tickled,
                   m_previouseTime, pollVars, pipe, fired, ops, setBacks>>

cancel(t) ==
    /\ tpc[t] = "live"
    /\ t \in m_cb
    /\ m_cb' = m_cb \ {t}
    /\ m_timers' = m_timers \ {t}
    /\ cancelled' = cancelled \cup {t}
    /\ UNCHANGED <<clock, tpc, m_next, m_ms, m_tickled, m_previouseTime,
                   pollVars, pipe, fired, ops, setBacks>>

\* Erase, change m_next, insert again; nobody is told about a new first timer.
Reinsert(t, next) ==
    /\ tpc[t] = "live"
    /\ t \in m_cb
    /\ t \in m_timers
    /\ ops[t] < MaxOps
    /\ ops' = [ops EXCEPT ![t] = @ + 1]
    /\ m_next' = [m_next EXCEPT ![t] = next]
    /\ UNCHANGED <<clock, tpc, m_timers, m_cb, m_tickled, m_previouseTime,
                   pollVars, pipe, fired, cancelled, setBacks>>

refresh(t) == Reinsert(t, clock + m_ms[t]) /\ UNCHANGED m_ms

reset(t, ms, from_now) ==
    /\ ms # m_ms[t] \/ from_now
    /\ LET begin == IF from_now THEN clock ELSE m_next[t] - m_ms[t]
       IN  Reinsert(t, begin + ms)
    /\ m_ms' = [m_ms EXCEPT ![t] = ms]
-----------------------------------------------------------------------------
(* A poller: getNextTimer, epoll_wait, listExpiredCb, schedule.            *)

PGoto(p, l) == ppc' = [ppc EXCEPT ![p] = l]

\* A uint64_t cast to int.
CastInt(x) ==
    LET low == x % (2 * IntLimit)
    IN  IF low < IntLimit THEN low ELSE low - 2 * IntLimit

\* Mutant: without a timer the poll is not capped, and (int)~0ull is -1.
TimeoutUncapped ==
    IF m_timers = {} THEN -1
    ELSE LET first == CHOOSE t \in m_timers : IsFirst(t, m_timers)
         IN  IF m_next[first] <= clock THEN 0 ELSE m_next[first] - clock

\* What idle() passes to epoll_wait: the time until the first timer, cast to
\* int and then capped, or the cap without a timer.
Timeout ==
    IF m_timers = {} THEN MaxTimeout
    ELSE LET first == CHOOSE t \in m_timers : IsFirst(t, m_timers)
             next_timeout == IF m_next[first] <= clock THEN 0
                             ELSE m_next[first] - clock
         IN  IF CastInt(next_timeout) > MaxTimeout THEN MaxTimeout
             ELSE CastInt(next_timeout)

\* The time from here to the start of epoll_wait does not lengthen the sleep.
getNextTimer(p) ==
    /\ ppc[p] = "running"
    /\ m_tickled' = FALSE
    /\ deadline' = [deadline EXCEPT ![p] = IF Timeout < 0 THEN Never
                                           ELSE clock + Timeout]
    /\ PGoto(p, "polling")
    /\ UNCHANGED <<clock, tpc, timerVars, m_previouseTime, now_ms, cbs, pipe,
                   fired, cancelled, ops, setBacks>>

\* epoll_wait returns because its time is over or the pipe is readable; the
\* byte is read by the thread it wakes (no byte is written until that thread
\* leaves idle()).  MaxMs stands for all later times.
epoll_wait(p) ==
    /\ ppc[p] = "polling"
    /\ \/ pipe
       \/ deadline[p] # Never /\ (deadline[p] <= clock \/ clock = MaxMs)
    /\ pipe' = FALSE
    /\ deadline' = [deadline EXCEPT ![p] = Never]
    /\ PGoto(p, "woken")
    /\ UNCHANGED <<clock, tpc, timerVars, m_tickled, m_previouseTime, now_ms,
                   cbs, fired, cancelled, ops, setBacks>>

\* epoll_wait returns because some descriptor is ready; with a byte in the pipe
\* it returns both.
DescriptorReady(p) ==
    /\ ppc[p] = "polling"
    /\ ~pipe
    /\ deadline' = [deadline EXCEPT ![p] = Never]
    /\ PGoto(p, "woken")
    /\ UNCHANGED <<clock, tpc, timerVars, m_tickled, m_previouseTime, now_ms,
                   cbs, pipe, fired, cancelled, ops, setBacks>>

\* listExpiredCb reads the clock before it takes any lock.
ReadClock(p) ==
    /\ ppc[p] = "woken"
    /\ now_ms' = [now_ms EXCEPT ![p] = clock]
    /\ PGoto(p, "read")
    /\ UNCHANGED <<clock, tpc, timerVars, m_tickled, m_previouseTime, deadline,
                   cbs, pipe, fired, cancelled, ops, setBacks>>

detectClockRollover(now) == now < m_previouseTime /\ now < m_previouseTime - HourMs

\* The timers listExpiredCb may take at time now: all after a rollover, else
\* those before lower_bound(now).
ExpiredSets(now) ==
    IF detectClockRollover(now) THEN {m_timers}
    ELSE {{t \in m_timers : m_next[t] < now} \cup S :
             S \in SUBSET {t \in m_timers : m_next[t] = now}}

\* Mutant: expired timers keep their callback.
KeepCallbacks(expired) == m_cb' = m_cb

\* An expired timer that does not recur loses its callback.
DropCallbacks(expired) == m_cb' = m_cb \ (expired \ Recurring)

\* Under the write lock: the expired timers leave the set, the recurring ones
\* come back later, the others lose their callback.  An empty set ends the call
\* at the first look, under the read lock, or at this one; both change nothing.
listExpiredCb(p) ==
    /\ ppc[p] = "read"
    /\ IF m_timers = {}
       THEN PGoto(p, "running") /\ UNCHANGED <<timerVars, m_previouseTime, cbs>>
       ELSE \E expired \in ExpiredSets(now_ms[p]) :
              /\ m_previouseTime' = now_ms[p]
              /\ m_timers' = m_timers \ (expired \ Recurring)
              /\ m_next' = [t \in Timers |-> IF t \in expired \cap Recurring
                                             THEN now_ms[p] + m_ms[t]
                                             ELSE m_next[t]]
              /\ DropCallbacks(expired)
              /\ cbs' = [cbs EXCEPT ![p] = expired]
              /\ PGoto(p, "collected")
              /\ UNCHANGED m_ms
    /\ UNCHANGED <<clock, tpc, m_tickled, deadline, now_ms, pipe, fired,
                   cancelled, ops, setBacks>>

\* Mutant: the collected callbacks are not cleared.
ScheduleExpiredAgain(p) ==
    /\ ppc[p] = "collected"
    /\ fired' = [t \in Timers |-> IF t \in cbs[p] /\ fired[t] < 2
                                  THEN fired[t] + 1 ELSE fired[t]]
    /\ PGoto(p, "running")
    /\ UNCHANGED <<clock, tpc, timerVars, m_tickled, m_previouseTime, deadline,
                   now_ms, cbs, pipe, cancelled, ops, setBacks>>

\* idle() hands the callbacks to the scheduler and switches away.
ScheduleExpired(p) ==
    /\ ppc[p] = "collected"
    /\ fired' = [t \in Timers |-> IF t \in cbs[p] /\ fired[t] < 2
                                  THEN fired[t] + 1 ELSE fired[t]]
    /\ now_ms' = [now_ms EXCEPT ![p] = 0]
    /\ cbs' = [cbs EXCEPT ![p] = {}]
    /\ PGoto(p, "running")
    /\ UNCHANGED <<clock, tpc, timerVars, m_tickled, m_previouseTime, deadline,
                   pipe, cancelled, ops, setBacks>>
-----------------------------------------------------------------------------
Owner(t) ==
    \/ \E ms \in Delays : MakeTimer(t, ms)
    \/ addTimer(t) \/ onTimerInsertedAtFront(t)
    \/ cancel(t) \/ refresh(t)
    \/ \E ms \in Delays, from_now \in BOOLEAN : reset(t, ms, from_now)

Poll(p) ==
    \/ getNextTimer(p) \/ epoll_wait(p) \/ ReadClock(p)
    \/ listExpiredCb(p) \/ ScheduleExpired(p)

Next ==
    \/ Tick \/ SetBack
    \/ \E t \in Timers : Owner(t)
    \/ \E p \in Pollers : Poll(p) \/ DescriptorReady(p)

(***************************************************************************)
(* Time passes; a thread inside addTimer goes on; a poller goes on, with   *)
(* epoll_wait as soon as its time is over.  Owners need not call anything, *)
(* and no descriptor needs to become ready.                                *)
(***************************************************************************)
Fairness ==
    /\ WF_vars(Tick)
    /\ \A t \in Timers : WF_vars(addTimer(t) \/ onTimerInsertedAtFront(t))
    /\ \A p \in Pollers : WF_vars(Poll(p))

Spec == Init /\ [][Next]_vars /\ Fairness
-----------------------------------------------------------------------------
(* Properties.                                                             *)

\* Every variable has its type; a thread holds callbacks only between
\* listExpiredCb and schedule, and a deadline only inside epoll_wait.
TimerTypeOK ==
    /\ clock \in Nat
    /\ tpc \in [Timers -> TimerPC]
    /\ m_timers \subseteq Timers
    /\ m_cb \subseteq Timers
    /\ m_next \in [Timers -> Nat]
    /\ m_ms \in [Timers -> Nat]
    /\ m_tickled \in BOOLEAN
    /\ m_previouseTime \in Nat
    /\ ppc \in [Pollers -> PollerPC]
    /\ deadline \in [Pollers -> Int]
    /\ now_ms \in [Pollers -> Nat]
    /\ cbs \in [Pollers -> SUBSET Timers]
    /\ pipe \in BOOLEAN
    /\ fired \in [Timers -> Nat]
    /\ cancelled \subseteq Timers
    /\ ops \in [Timers -> 0..MaxOps]
    /\ setBacks \in 0..MaxSetBacks
    /\ \A p \in Pollers :
          /\ cbs[p] # {} => ppc[p] = "collected"
          /\ deadline[p] # Never => ppc[p] = "polling"

Added(t) == tpc[t] \in {"front", "live"}

\* A timer its owner can reach has a callback exactly while it is in the set:
\* cancel() and its assertion rely on it, across expiry, reinsertion of
\* recurring timers and concurrent calls.
RegisteredIffCallback ==
    \A t \in Timers : Added(t) => (t \in m_cb <=> t \in m_timers)

Collected(t) == {p \in Pollers : t \in cbs[p]}

\* A timer that does not recur is, once added, in exactly one place: waiting
\* in the set, collected by one thread, scheduled once, or cancelled.  So
\* cancel() returning true means the callback never runs, and no two threads
\* in listExpiredCb run it twice.
CancelOrFire ==
    \A t \in Timers \ Recurring :
        /\ t \in m_timers => Collected(t) = {} /\ fired[t] = 0 /\ t \notin cancelled
        /\ Collected(t) # {} => fired[t] = 0 /\ t \notin cancelled
        /\ \A p, q \in Collected(t) : p = q
        /\ fired[t] # 0 => fired[t] = 1 /\ t \notin cancelled
        /\ Added(t) => \/ t \in m_timers \cup cancelled
                       \/ Collected(t) # {}
                       \/ fired[t] = 1

Due(t) == t \in m_timers /\ m_next[t] < MaxMs

\* A timer does not stay in the set with the same deadline for ever: although
\* no sleeping thread is woken for a new first timer, the cap on the poll
\* makes some thread look again.
DueTimersServed == \A t \in Timers \ Recurring : Due(t) ~> ~Due(t)
=============================================================================
