------------------------------ MODULE Scheduler ------------------------------
(***************************************************************************)
(* The coroutine scheduler (scheduler.cpp, scheduler.h) with the fiber     *)
(* states it drives (fiber.cpp).                                           *)
(*                                                                         *)
(* A worker thread executes Scheduler::run: it takes a ticket (the         *)
(* ScheduleTask of the code) from the shared list m_fibers, switches to    *)
(* the fiber, and when the fiber switches back decides what becomes of it. *)
(* Every access to shared state that another thread can observe in between *)
(* is a step of its own: erasing the ticket, counting the worker active,   *)
(* testing the state, setting it to EXEC, setting it to HOLD before the    *)
(* context is saved, saving the context, counting the worker inactive,     *)
(* testing the state again.  m_mutex is held between the steps Take and    *)
(* Count only; stopping() reads its four operands after releasing it.      *)
(*                                                                         *)
(* Assertions are those of the NDEBUG build: they log and continue.        *)
(* A fiber is identified with the task it runs: the reuse of the stack of  *)
(* a finished callback by the next callback of the same worker             *)
(* (cb_fiber) is memory management and is left out.                        *)
(***************************************************************************)
EXTENDS Integers, Sequences, FiniteSets, SequencesExt

CONSTANTS
    Children,     \* the threads start() creates (m_threadCount of them)
    Caller,       \* the thread that constructs the scheduler and calls stop()
    UseCaller,    \* the constructor's use_caller
    Tasks,        \* what is scheduled during one life of the scheduler
    Callbacks,    \* the tasks handed over as a function, not as a Fiber
    Waiters,      \* the tasks that wait for an event (addEvent; YieldToHold)
    Rescheduled,  \* the fibers the main thread hands over a second time
    AnyThread,          \* the thread argument -1
    Targets,      \* the thread arguments schedule() is called with
    IOStopping,   \* whether stopping() is IOManager's override
    MaxYields     \* bound on the YieldToReady or waits of one task

Workers == Children \cup (IF UseCaller THEN {Caller} ELSE {})

ASSUME ConstantsAssumption ==
    /\ Caller \notin Children
    /\ UseCaller \in BOOLEAN
    /\ IOStopping \in BOOLEAN
    /\ Workers # {}
    /\ IsFiniteSet(Children)
    /\ Callbacks \subseteq Tasks
    /\ Waiters \subseteq Tasks
    /\ Rescheduled \subseteq Tasks \ Callbacks
    /\ AnyThread \notin Workers
    /\ Targets \subseteq Workers \cup {AnyThread}
    /\ MaxYields \in Nat

(***************************************************************************)
(* A ticket is a ScheduleTask: what to run, on which thread, and whether   *)
(* it holds a function (cb) or a fiber.                                    *)
(***************************************************************************)
Ticket == [task : Tasks, thread : Workers \cup {AnyThread}, cb : BOOLEAN]

NoTicket == [task |-> "none"]

FiberState == {"INIT", "HOLD", "EXEC", "TERM", "READY", "EXCEPT"}

VARIABLES
    pc,                     \* where each worker is in run() or stopping()
    mpc,                    \* where the main thread is in its calls
    ft,                     \* the ticket each worker has taken
    m_fibers,               \* the shared list of tickets
    m_state,                \* the state of each task's fiber
    m_activateThreadCount,
    m_idleThreadCount,
    m_stopping,
    m_autoStop,
    idleTerm,               \* the workers whose idle fiber has terminated
    armed,                  \* the fibers an event is registered for
    inTrigger,              \* triggered events not yet subtracted from pending
    m_pendingEventCount,    \* IOManager's count, read by its stopping()
    submitted,              \* the tasks schedule() has been called with
    yields                  \* how often each task has yielded

fiberVars == <<m_state, yields>>
eventVars == <<armed, inTrigger, m_pendingEventCount>>
stopVars  == <<m_stopping, m_autoStop>>
vars == <<pc, mpc, ft, m_fibers, m_state, m_activateThreadCount,
          m_idleThreadCount, m_stopping, m_autoStop, idleTerm, armed,
          inTrigger, m_pendingEventCount, submitted, yields>>

WorkerPC == {"off", "pick", "count", "dispatch", "swapIn", "exec", "hold",
             "swapOut", "returned", "settle", "putOnHold", "idle", "pend",
             "flags", "empty", "active", "idleOut", "exited"}

MainPC == {"constructed", "started", "stop", "probe", "call", "join", "stopped"}

\* The worker is between its ++m_activateThreadCount and the decrement.
Counted == {"dispatch", "swapIn", "exec", "hold", "swapOut", "returned"}

\* The worker holds a ticket.
Holding == Counted \cup {"count", "settle", "putOnHold"}

\* The worker's stack pointer is inside the stack of the fiber it runs.
OnStack == {"exec", "hold", "swapOut"}

\* The worker is inside the body of its idle fiber.
Idling == {"pend", "flags", "empty", "active", "idleOut"}

Ended(f) == m_state[f] \in {"TERM", "EXCEPT"}
-----------------------------------------------------------------------------
Goto(t, l) == pc' = [pc EXCEPT ![t] = l]

(***************************************************************************)
(* m_mutex is held by the worker that has erased a ticket and not yet      *)
(* counted itself active; every other critical section is one step.        *)
(***************************************************************************)
MutexFree == \A t \in Workers : pc[t] # "count"

\* Both scheduleNoLock under m_mutex and the call around it; tickle() is never
\* reached because need_tickle stays false.
schedule(tk) ==
    /\ MutexFree
    /\ m_fibers' = Append(m_fibers, tk)

Init ==
    /\ pc = [t \in Workers |-> "off"]
    /\ mpc = "constructed"
    /\ ft = [t \in Workers |-> NoTicket]
    /\ m_fibers = <<>>
    /\ m_state = [f \in Tasks |-> "INIT"]
    /\ m_activateThreadCount = 0
    /\ m_idleThreadCount = 0
    /\ m_stopping = TRUE
    /\ m_autoStop = FALSE
    /\ idleTerm = {}
    /\ armed = {}
    /\ inTrigger = 0
    /\ m_pendingEventCount = 0
    /\ submitted = {}
    /\ yields = [f \in Tasks |-> 0]
-----------------------------------------------------------------------------
(* The main thread: schedule, start, stop.                                 *)

\* A ticket for f as a caller of schedule() builds it.
NewTicket(f, th) == [task |-> f, thread |-> th, cb |-> f \in Callbacks]

MainSchedule(f, th) ==
    /\ mpc \in {"constructed", "started"}
    /\ f \notin submitted
    /\ schedule(NewTicket(f, th))
    /\ submitted' = submitted \cup {f}
    /\ UNCHANGED <<pc, mpc, ft, m_activateThreadCount, m_idleThreadCount,
                   idleTerm, fiberVars, eventVars, stopVars>>

\* The same Fiber handed over again; at most two of its tickets are queued.
MainReschedule(f) ==
    /\ mpc \in {"constructed", "started"}
    /\ f \in submitted \cap Rescheduled
    /\ Cardinality({i \in 1..Len(m_fibers) : m_fibers[i].task = f}) < 2
    /\ schedule(NewTicket(f, AnyThread))
    /\ UNCHANGED <<pc, mpc, ft, m_activateThreadCount, m_idleThreadCount,
                   idleTerm, submitted, fiberVars, eventVars, stopVars>>

\* The threads are created under m_mutex: none reaches the list before the
\* end of start().
start ==
    /\ mpc = "constructed"
    /\ m_stopping
    /\ m_stopping' = FALSE
    /\ mpc' = "started"
    /\ pc' = [t \in Workers |-> IF t \in Children THEN "pick" ELSE pc[t]]
    /\ UNCHANGED <<ft, m_fibers, m_activateThreadCount, m_idleThreadCount,
                   m_autoStop, idleTerm, submitted, fiberVars, eventVars>>

stop ==
    /\ mpc = "started"
    /\ m_autoStop' = TRUE
    /\ mpc' = "stop"
    /\ UNCHANGED <<pc, ft, m_fibers, m_activateThreadCount, m_idleThreadCount,
                   m_stopping, idleTerm, submitted, fiberVars, eventVars>>

StoppingEntry == IF IOStopping THEN "pend" ELSE "flags"

\* With use_caller the main thread now evaluates stopping() itself: as the
\* early return when it is the only thread, and before m_rootFiber->call().
StopFlag ==
    /\ mpc = "stop"
    /\ m_stopping' = TRUE
    /\ IF UseCaller
       THEN mpc' = "probe" /\ Goto(Caller, StoppingEntry)
       ELSE mpc' = "join" /\ pc' = pc
    /\ UNCHANGED <<ft, m_fibers, m_activateThreadCount, m_idleThreadCount,
                   m_autoStop, idleTerm, submitted, fiberVars, eventVars>>

\* run() has ended on the caller's thread: CallerMainFunc goes back().
RootFiberBack ==
    /\ mpc = "call"
    /\ pc[Caller] = "exited"
    /\ mpc' = "join"
    /\ UNCHANGED <<pc, ft, m_fibers, m_activateThreadCount, m_idleThreadCount,
                   idleTerm, submitted, fiberVars, eventVars, stopVars>>

\* Mutant: stop() returns without joining the threads.
JoinSkipped ==
    /\ mpc = "join"
    /\ mpc' = "stopped"
    /\ UNCHANGED <<pc, ft, m_fibers, m_activateThreadCount, m_idleThreadCount,
                   idleTerm, submitted, fiberVars, eventVars, stopVars>>

Join ==
    /\ mpc = "join"
    /\ \A t \in Children : pc[t] = "exited"
    /\ mpc' = "stopped"
    /\ UNCHANGED <<pc, ft, m_fibers, m_activateThreadCount, m_idleThreadCount,
                   idleTerm, submitted, fiberVars, eventVars, stopVars>>
-----------------------------------------------------------------------------
(* run(): looking for a ticket.                                            *)

Eligible(tk, t) ==
    /\ tk.thread \in {AnyThread, t}
    /\ tk.cb \/ m_state[tk.task] # "EXEC"

Take(t) ==
    /\ pc[t] = "pick"
    /\ MutexFree
    /\ \E i \in 1..Len(m_fibers) :
          /\ Eligible(m_fibers[i], t)
          /\ \A j \in 1..(i - 1) : ~Eligible(m_fibers[j], t)
          /\ ft' = [ft EXCEPT ![t] = m_fibers[i]]
          /\ m_fibers' = RemoveAt(m_fibers, i)
    /\ Goto(t, "count")
    /\ UNCHANGED <<mpc, m_activateThreadCount, m_idleThreadCount, idleTerm,
                   submitted, fiberVars, eventVars, stopVars>>

Count(t) ==
    /\ pc[t] = "count"
    /\ m_activateThreadCount' = m_activateThreadCount + 1
    /\ Goto(t, "dispatch")
    /\ UNCHANGED <<mpc, ft, m_fibers, m_idleThreadCount, idleTerm, submitted,
                   fiberVars, eventVars, stopVars>>

\* Nothing to take: leave run() when the idle fiber has terminated.
NothingToTake(t) ==
    /\ pc[t] = "pick"
    /\ MutexFree
    /\ \A i \in 1..Len(m_fibers) : ~Eligible(m_fibers[i], t)
    /\ Goto(t, IF t \in idleTerm THEN "exited" ELSE "idle")
    /\ UNCHANGED <<mpc, ft, m_fibers, m_activateThreadCount, m_idleThreadCount,
                   idleTerm, submitted, fiberVars, eventVars, stopVars>>
-----------------------------------------------------------------------------
(* run(): running the fiber of the ticket.                                 *)

\* The state of a fiber is tested without a lock; a function always gets a
\* fresh or reset fiber.
Dispatch(t) ==
    /\ pc[t] = "dispatch"
    /\ ft[t].cb \/ ~Ended(ft[t].task)
    /\ Goto(t, "swapIn")
    /\ UNCHANGED <<mpc, ft, m_fibers, m_activateThreadCount, m_idleThreadCount,
                   idleTerm, submitted, fiberVars, eventVars, stopVars>>

\* Mutant: the dropped ticket does not give back its active count.
DropStaysActive(t) ==
    /\ pc[t] = "dispatch"
    /\ ~ft[t].cb
    /\ Ended(ft[t].task)
    /\ ft' = [ft EXCEPT ![t] = NoTicket]
    /\ Goto(t, "pick")
    /\ UNCHANGED <<mpc, m_fibers, m_activateThreadCount, m_idleThreadCount,
                   idleTerm, submitted, fiberVars, eventVars, stopVars>>

\* A ticket for a fiber that has ended meanwhile is dropped.
Drop(t) ==
    /\ pc[t] = "dispatch"
    /\ ~ft[t].cb
    /\ Ended(ft[t].task)
    /\ m_activateThreadCount' = m_activateThreadCount - 1
    /\ ft' = [ft EXCEPT ![t] = NoTicket]
    /\ Goto(t, "pick")
    /\ UNCHANGED <<mpc, m_fibers, m_idleThreadCount, idleTerm, submitted,
                   fiberVars, eventVars, stopVars>>

SwapIn(t) ==
    /\ pc[t] = "swapIn"
    /\ m_state' = [m_state EXCEPT ![ft[t].task] = "EXEC"]
    /\ Goto(t, "exec")
    /\ UNCHANGED <<mpc, ft, m_fibers, m_activateThreadCount, m_idleThreadCount,
                   idleTerm, submitted, yields, eventVars, stopVars>>

\* The second half of swapOut(): the context is saved and run() resumes
\* behind its swapIn().
SwapOut(t) ==
    /\ pc[t] = "swapOut"
    /\ Goto(t, "returned")
    /\ UNCHANGED <<mpc, ft, m_fibers, m_activateThreadCount, m_idleThreadCount,
                   idleTerm, submitted, fiberVars, eventVars, stopVars>>

\* Mutant: a fiber that threw skips the decrement.
UncountUnlessExcept(t) ==
    /\ pc[t] = "returned"
    /\ m_activateThreadCount' = IF m_state[ft[t].task] = "EXCEPT"
                                THEN m_activateThreadCount
                                ELSE m_activateThreadCount - 1
    /\ Goto(t, "settle")
    /\ UNCHANGED <<mpc, ft, m_fibers, m_idleThreadCount, idleTerm, submitted,
                   fiberVars, eventVars, stopVars>>

Uncount(t) ==
    /\ pc[t] = "returned"
    /\ m_activateThreadCount' = m_activateThreadCount - 1
    /\ Goto(t, "settle")
    /\ UNCHANGED <<mpc, ft, m_fibers, m_idleThreadCount, idleTerm, submitted,
                   fiberVars, eventVars, stopVars>>

\* A fiber that yielded READY goes to the end of the list, for any thread.
SettleReady(t) ==
    /\ pc[t] = "settle"
    /\ m_state[ft[t].task] = "READY"
    /\ schedule([task |-> ft[t].task, thread |-> AnyThread, cb |-> FALSE])
    /\ ft' = [ft EXCEPT ![t] = NoTicket]
    /\ Goto(t, "pick")
    /\ UNCHANGED <<mpc, m_activateThreadCount, m_idleThreadCount, idleTerm,
                   submitted, fiberVars, eventVars, stopVars>>

\* Mutant: the ticket is not reset.
SettleEndedKeepsTicket(t) ==
    /\ pc[t] = "settle"
    /\ Ended(ft[t].task)
    /\ Goto(t, "pick")
    /\ UNCHANGED <<mpc, ft, m_fibers, m_activateThreadCount, m_idleThreadCount,
                   idleTerm, submitted, fiberVars, eventVars, stopVars>>

\* A fiber that has ended is let go.
SettleEnded(t) ==
    /\ pc[t] = "settle"
    /\ Ended(ft[t].task)
    /\ ft' = [ft EXCEPT ![t] = NoTicket]
    /\ Goto(t, "pick")
    /\ UNCHANGED <<mpc, m_fibers, m_activateThreadCount, m_idleThreadCount,
                   idleTerm, submitted, fiberVars, eventVars, stopVars>>

\* Mutant: only TERM counts as ended.
SettleOtherUnlessTerm(t) ==
    /\ pc[t] = "settle"
    /\ m_state[ft[t].task] \notin {"TERM", "READY"}
    /\ Goto(t, "putOnHold")
    /\ UNCHANGED <<mpc, ft, m_fibers, m_activateThreadCount, m_idleThreadCount,
                   idleTerm, submitted, fiberVars, eventVars, stopVars>>

\* A fiber found neither ended nor ready is put on HOLD; the test and the
\* assignment are two steps.
SettleOther(t) ==
    /\ pc[t] = "settle"
    /\ ~Ended(ft[t].task)
    /\ m_state[ft[t].task] # "READY"
    /\ Goto(t, "putOnHold")
    /\ UNCHANGED <<mpc, ft, m_fibers, m_activateThreadCount, m_idleThreadCount,
                   idleTerm, submitted, fiberVars, eventVars, stopVars>>

PutOnHold(t) ==
    /\ pc[t] = "putOnHold"
    /\ m_state' = [m_state EXCEPT ![ft[t].task] = "HOLD"]
    /\ ft' = [ft EXCEPT ![t] = NoTicket]
    /\ Goto(t, "pick")
    /\ UNCHANGED <<mpc, m_fibers, m_activateThreadCount, m_idleThreadCount,
                   idleTerm, submitted, yields, eventVars, stopVars>>
-----------------------------------------------------------------------------
(* What a task does while it runs.                                         *)

\* MainFunc: the function returned, or threw.
Finish(t) ==
    /\ pc[t] = "exec"
    /\ \E s \in {"TERM", "EXCEPT"} :
          m_state' = [m_state EXCEPT ![ft[t].task] = s]
    /\ Goto(t, "swapOut")
    /\ UNCHANGED <<mpc, ft, m_fibers, m_activateThreadCount, m_idleThreadCount,
                   idleTerm, submitted, yields, eventVars, stopVars>>

\* Mutant: the fiber puts itself into the list before it has switched away.
YieldToReadySchedules(t) ==
    LET f == ft[t].task
    IN  /\ pc[t] = "exec"
        /\ yields[f] < MaxYields
        /\ yields' = [yields EXCEPT ![f] = @ + 1]
        /\ m_state' = [m_state EXCEPT ![f] = "READY"]
        /\ schedule([task |-> f, thread |-> AnyThread, cb |-> FALSE])
        /\ Goto(t, "swapOut")
        /\ UNCHANGED <<mpc, ft, m_activateThreadCount, m_idleThreadCount,
                       idleTerm, submitted, eventVars, stopVars>>

YieldToReady(t) ==
    LET f == ft[t].task
    IN  /\ pc[t] = "exec"
        /\ yields[f] < MaxYields
        /\ yields' = [yields EXCEPT ![f] = @ + 1]
        /\ m_state' = [m_state EXCEPT ![f] = "READY"]
        /\ Goto(t, "swapOut")
        /\ UNCHANGED <<mpc, ft, m_fibers, m_activateThreadCount,
                       m_idleThreadCount, idleTerm, submitted, eventVars,
                       stopVars>>

\* The task registers itself for an event (IOManager::addEvent without a
\* callback); from here on another thread may schedule it.
Wait(t) ==
    LET f == ft[t].task
    IN  /\ pc[t] = "exec"
        /\ f \in Waiters \ armed
        /\ yields[f] < MaxYields
        /\ yields' = [yields EXCEPT ![f] = @ + 1]
        /\ armed' = armed \cup {f}
        /\ m_pendingEventCount' = m_pendingEventCount + 1
        /\ Goto(t, "hold")
        /\ UNCHANGED <<mpc, ft, m_fibers, m_state, m_activateThreadCount,
                       m_idleThreadCount, idleTerm, inTrigger, submitted,
                       stopVars>>

\* The state becomes HOLD while the worker is still on the fiber's stack.
YieldToHold(t) ==
    /\ pc[t] = "hold"
    /\ m_state' = [m_state EXCEPT ![ft[t].task] = "HOLD"]
    /\ Goto(t, "swapOut")
    /\ UNCHANGED <<mpc, ft, m_fibers, m_activateThreadCount, m_idleThreadCount,
                   idleTerm, submitted, yields, eventVars, stopVars>>

TaskSchedule(t, f, th) ==
    /\ pc[t] = "exec"
    /\ f \notin submitted
    /\ schedule(NewTicket(f, th))
    /\ submitted' = submitted \cup {f}
    /\ UNCHANGED <<pc, mpc, ft, m_activateThreadCount, m_idleThreadCount,
                   idleTerm, fiberVars, eventVars, stopVars>>
-----------------------------------------------------------------------------
(* The event source: any thread that triggers the event of a waiting fiber.*)

\* Mutant: no ticket for a fiber that is still executing.
TriggerUnlessExec(f) ==
    /\ f \in armed
    /\ IF m_state[f] = "EXEC"
       THEN m_fibers' = m_fibers
       ELSE schedule([task |-> f, thread |-> AnyThread, cb |-> FALSE])
    /\ armed' = armed \ {f}
    /\ inTrigger' = inTrigger + 1
    /\ UNCHANGED <<pc, mpc, ft, m_activateThreadCount, m_idleThreadCount,
                   idleTerm, m_pendingEventCount, submitted, fiberVars,
                   stopVars>>

Trigger(f) ==
    /\ f \in armed
    /\ schedule([task |-> f, thread |-> AnyThread, cb |-> FALSE])
    /\ armed' = armed \ {f}
    /\ inTrigger' = inTrigger + 1
    /\ UNCHANGED <<pc, mpc, ft, m_activateThreadCount, m_idleThreadCount,
                   idleTerm, m_pendingEventCount, submitted, fiberVars,
                   stopVars>>

\* Mutant: the pending count is not decremented.
TriggeredStaysPending ==
    /\ inTrigger > 0
    /\ inTrigger' = inTrigger - 1
    /\ UNCHANGED <<pc, mpc, ft, m_fibers, m_activateThreadCount,
                   m_idleThreadCount, idleTerm, armed, m_pendingEventCount,
                   submitted, fiberVars, stopVars>>

Triggered ==
    /\ inTrigger > 0
    /\ inTrigger' = inTrigger - 1
    /\ m_pendingEventCount' = m_pendingEventCount - 1
    /\ UNCHANGED <<pc, mpc, ft, m_fibers, m_activateThreadCount,
                   m_idleThreadCount, idleTerm, armed, submitted, fiberVars,
                   stopVars>>
-----------------------------------------------------------------------------
(* run(): the idle fiber, and stopping().                                  *)

EnterIdle(t) ==
    /\ pc[t] = "idle"
    /\ m_idleThreadCount' = m_idleThreadCount + 1
    /\ Goto(t, StoppingEntry)
    /\ UNCHANGED <<mpc, ft, m_fibers, m_activateThreadCount, idleTerm,
                   submitted, fiberVars, eventVars, stopVars>>

\* stopping() returns b to whoever called it: stop() on the caller's thread,
\* or idle(), which ends when b is true and otherwise yields.
StoppingReturns(t, b) ==
    IF t = Caller /\ mpc = "probe"
    THEN /\ mpc' = IF b THEN "join" ELSE "call"
         /\ Goto(t, IF b THEN "off" ELSE "pick")
         /\ UNCHANGED idleTerm
    ELSE /\ idleTerm' = IF b THEN idleTerm \cup {t} ELSE idleTerm
         /\ Goto(t, "idleOut")
         /\ UNCHANGED mpc

\* One operand of the conjunction: false ends it, true goes on with the next.
Operand(t, here, holds, next) ==
    /\ pc[t] = here
    /\ IF holds
       THEN Goto(t, next) /\ UNCHANGED <<mpc, idleTerm>>
       ELSE StoppingReturns(t, FALSE)
    /\ UNCHANGED <<ft, m_fibers, m_activateThreadCount, m_idleThreadCount,
                   submitted, fiberVars, eventVars, stopVars>>

\* Mutant: the override forgets the pending events.
ReadPendingIgnored(t) == Operand(t, "pend", TRUE, "flags")

\* IOManager's operands come first; no timer is set here (see TimerManager).
ReadPending(t) == Operand(t, "pend", m_pendingEventCount = 0, "flags")

\* m_autoStop and m_stopping are read in one step: both only become true
\* while workers run.
ReadFlags(t) == MutexFree /\ Operand(t, "flags", m_autoStop /\ m_stopping, "empty")

ReadEmpty(t) == Operand(t, "empty", m_fibers = <<>>, "active")

ReadActive(t) ==
    /\ pc[t] = "active"
    /\ StoppingReturns(t, m_activateThreadCount = 0)
    /\ UNCHANGED <<ft, m_fibers, m_activateThreadCount, m_idleThreadCount,
                   submitted, fiberVars, eventVars, stopVars>>

LeaveIdle(t) ==
    /\ pc[t] = "idleOut"
    /\ m_idleThreadCount' = m_idleThreadCount - 1
    /\ Goto(t, "pick")
    /\ UNCHANGED <<mpc, ft, m_fibers, m_activateThreadCount, idleTerm,
                   submitted, fiberVars, eventVars, stopVars>>
-----------------------------------------------------------------------------
Main ==
    \/ start \/ stop \/ StopFlag \/ RootFiberBack \/ Join

Submit ==
    \/ \E f \in Tasks, th \in Targets : MainSchedule(f, th)
    \/ \E f \in Tasks : MainReschedule(f)

Run(t) ==
    \/ Take(t) \/ Count(t) \/ NothingToTake(t)
    \/ Dispatch(t) \/ Drop(t) \/ SwapIn(t) \/ SwapOut(t)
    \/ Uncount(t) \/ SettleReady(t) \/ SettleEnded(t)
    \/ SettleOther(t) \/ PutOnHold(t)
    \/ EnterIdle(t) \/ ReadPending(t) \/ ReadFlags(t) \/ ReadEmpty(t)
    \/ ReadActive(t) \/ LeaveIdle(t)

Body(t) ==
    \/ Finish(t) \/ YieldToReady(t) \/ Wait(t) \/ YieldToHold(t)
    \/ \E f \in Tasks, th \in Targets : TaskSchedule(t, f, th)

Events ==
    \/ \E f \in Tasks : Trigger(f)
    \/ Triggered

\* The program has nothing left to do once stop() has returned.
Terminated == mpc = "stopped" /\ UNCHANGED vars

Next ==
    \/ Main \/ Submit \/ Events \/ Terminated
    \/ \E t \in Workers : Run(t) \/ Body(t)

(***************************************************************************)
(* The operating system runs every thread that can run; tasks do not run   *)
(* for ever; an event that a fiber waits for arrives.  The main thread     *)
(* need not schedule anything, and need not call stop().                   *)
(***************************************************************************)
Fairness ==
    /\ WF_vars(StopFlag \/ RootFiberBack \/ Join)
    /\ \A t \in Workers : WF_vars(Run(t) \/ Body(t))
    /\ \A f \in Tasks : WF_vars(Trigger(f))
    /\ WF_vars(Triggered)

Spec == Init /\ [][Next]_vars /\ Fairness
-----------------------------------------------------------------------------
(* Properties.                                                             *)

\* Every variable has its type; a worker holds a ticket exactly while run()
\* works on one, and the counters are never decremented below zero.
TypeOK ==
    /\ pc \in [Workers -> WorkerPC]
    /\ mpc \in MainPC
    /\ ft \in [Workers -> Ticket \cup {NoTicket}]
    /\ m_fibers \in Seq(Ticket)
    /\ m_state \in [Tasks -> FiberState]
    /\ m_activateThreadCount \in Nat
    /\ m_idleThreadCount \in Nat
    /\ m_stopping \in BOOLEAN
    /\ m_autoStop \in BOOLEAN
    /\ idleTerm \subseteq Workers
    /\ armed \subseteq Tasks
    /\ inTrigger \in Nat
    /\ m_pendingEventCount \in Nat
    /\ submitted \subseteq Tasks
    /\ yields \in [Tasks -> 0..MaxYields]
    /\ \A t \in Workers : pc[t] \in Holding <=> ft[t] \in Ticket

\* m_activateThreadCount, which stopping() trusts and which every worker
\* updates outside m_mutex, is the number of workers between taking a ticket
\* and returning from its fiber.
ActiveCountExact ==
    m_activateThreadCount = Cardinality({t \in Workers : pc[t] \in Counted})

\* m_pendingEventCount, incremented by addEvent and decremented after
\* triggerEvent, counts the registered events and those being triggered, so
\* it is not zero before the ticket of the woken fiber is in the list.
PendingCountExact ==
    m_pendingEventCount = Cardinality(armed) + inTrigger

\* No two workers are on the stack of the same fiber: swapIn() never enters a
\* fiber another worker has not left (the reason run() skips fibers in EXEC).
ExclusiveRun ==
    \A t, u \in Workers :
        /\ t # u
        /\ pc[t] \in OnStack
        /\ pc[u] \in OnStack
        => ft[t].task # ft[u].task

Queued(f) == \E i \in 1..Len(m_fibers) : m_fibers[i].task = f

HeldByWorker(f) == \E t \in Workers : pc[t] \in Holding /\ ft[t].task = f

\* A task that was scheduled and has not ended is in the list, with a worker,
\* or registered for an event: no path through run() drops it.
NoTaskLost ==
    \A f \in submitted : Ended(f) \/ Queued(f) \/ HeldByWorker(f) \/ f \in armed

\* When stop() returns the list is empty and every scheduled task has ended,
\* although idle workers leave run() on an unlocked reading of the list and
\* the counter.
StopDrains ==
    mpc = "stopped" => m_fibers = <<>> /\ \A f \in submitted : Ended(f)

\* Only the worker on its stack takes a fiber out of EXEC: the HOLD written by
\* run() after swapIn() never hits a fiber another worker has resumed.
ExecLeftByRunner ==
    [][\A f \in Tasks :
          m_state[f] = "EXEC" /\ m_state'[f] # "EXEC"
          => \E t \in Workers :
                pc[t] \in {"exec", "hold"} /\ ft[t].task = f /\ pc'[t] = "swapOut"]_vars

\* stop() returns: the workers and the caller drain the list, leave run() and
\* are joined, whatever the workers read while they decide to leave.
StopReturns == mpc = "stop" ~> mpc = "stopped"
(***************************************************************************)
(* The scheduler seen as a TaskPool.  A task has ended when its fiber says *)
(* so, whatever tickets are left; it runs from the moment a worker takes   *)
(* its ticket until that worker has settled what becomes of it.            *)
(***************************************************************************)
PhaseOf(f) ==
    CASE Ended(f)                                           -> "ended"
      [] ~Ended(f) /\ HeldByWorker(f)                       -> "running"
      [] ~Ended(f) /\ ~HeldByWorker(f) /\ Queued(f)         -> "queued"
      [] ~Ended(f) /\ ~HeldByWorker(f) /\ ~Queued(f)
                  /\ f \in submitted                        -> "held"
      [] OTHER                                              -> "new"

Pool == INSTANCE TaskPool WITH phase <- [f \in Tasks |-> PhaseOf(f)],
                               closed <- (mpc = "stopped")

\* Every step of run(), of the tasks and of stop() is a step of the pool or
\* leaves the pool as it is: the scheduler implements TaskPool.
ImplementsTaskPool == Pool!PoolSpec
=============================================================================
