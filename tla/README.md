# A TLA+ model of CorReactor

CorReactor is a C++ coroutine server framework: an N:M fiber scheduler, timers and
epoll merged into one IO scheduler, hooks that make blocking calls yield, and
sockets, a TCP server, a serialisation buffer, HTTP parsing and hot configuration
on top. This directory models it in TLA+, checks the models with TLC and proves the
safety properties of the scheduler, the timers, the IO manager, the hooked calls with
the TCP server, the buffer, HTTP and the configuration with TLAPS. Source paths below are relative to
the repository.

## The system

| part | state it keeps | operations | hard behaviour |
|---|---|---|---|
| Scheduler (`src/scheduler.cpp`) | `m_fibers`, `m_activateThreadCount`, `m_idleThreadCount`, `m_stopping`, `m_autoStop` | `schedule`, `start`, `run`, `idle`, `stopping`, `stop` | threads racing for tickets, counters changed outside the lock, an unlocked stop test |
| Fiber (`src/fiber.cpp`) | `m_state`, the saved context | `swapIn`, `swapOut`, `YieldToReady`, `YieldToHold`, `MainFunc`, `call`, `back` | the state changes before the context is saved |
| TimerManager (`src/timer.cpp`) | `m_timers`, each timer's `m_next`, `m_ms`, `m_cb`, `m_tickled`, `m_previouseTime` | `addTimer`, `cancel`, `refresh`, `reset`, `getNextTimer`, `listExpiredCb` | expiry against cancel, sleepers that are not woken, a clock set back |
| IOManager (`src/iomanager.cpp`) | one `FdContext` per descriptor, `m_pendingEventCount`, the epoll set, the tickle pipe | `addEvent`, `delEvent`, `cancelEvent`, `cancelAll`, `idle`, `tickle`, `stopping` | reports processed after the registrations changed, edge triggering |
| Hook (`src/hook.cpp`) | per call: `timer_info` | `do_io`, `connect_with_timeout`, `accept`, `close`, `sleep`, `fcntl` | a timeout racing the event, callbacks with stale descriptors |
| FdManager (`src/fd_manager.cpp`) | `m_datas`: an `FdCtx` per descriptor | `get`, `del`, `setTimeout` | numbers are reused by the kernel |
| Socket, TcpServer (`src/socket.cpp`, `src/tcp_server.cpp`) | `m_sock`, `m_isConnected`; `m_isStop`, `m_socks` | `accept`, `connect`, `recv`, `send`, `close`; `start`, `startAccept`, `stop` | stop against the accept loop, closing twice, descriptors running out |
| ByteArray (`src/bytearray.cpp`) | a list of nodes, `m_cur`, `m_position`, `m_size`, `m_capacity`, `m_endian` | `write*`, `read*`, `setPosition`, `addCapacity`, `clear`, buffers and files | node boundaries, a cursor kept twice |
| Config (`include/config.h`, `src/config.cpp`) | variables and listeners, `s_file2modifytime` | `LoadFromConfDir`, `fromString`, `setValue` | the file changes while it is loaded; notify and assign under separate locks |
| daemon (`src/daemon.cpp`) | `restart_count` | `real_deamon` | crash and restart |
| HTTP (`src/http/`, `include/http/`) | messages; the parsers' `m_data`, `m_error`, `m_parser` | setters, `dump`, `execute` | stale headers, parsers started again for chunks |
| Address, Env, logging, utilities | mostly per call | conversions and wrappers | prefix arithmetic |

The scheduler runs fibers on its threads. A thread with nothing to do runs an idle
fiber; IOManager's idle fiber sleeps in `epoll_wait` until the first timer, an
event or a byte in the tickle pipe, and turns expired timers and ready events into
tickets by calling `schedule`. A hooked call that would block adds a timer, calls
`addEvent` and yields; the event resumes the fiber, or the timer's callback does
through `cancelEvent`. TcpServer and Socket are written on these calls. Config is
independent of them, and its listeners keep copies of values (`http_parser.cpp`).

## The modules

| module | models |
|---|---|
| `Scheduler` | threads in `run()`, the fibers' states, `stopping()` of both classes, `start` and `stop`, events that wake waiting fibers |
| `TaskPool` | the abstract specification: a task is handed over, runs, waits, ends once; the pool closes when nothing is unfinished |
| `SchedulerProofs` | proofs about `Scheduler`: types and counters |
| `PoolProofs` | EXTENDS `SchedulerProofs`: exclusive running, draining, the refinement of `TaskPool`; the same for one thread with waiting tasks |
| `TimerManager` | timers, their owners, and the threads polling for them |
| `TimerProofs` | proofs about `TimerManager` |
| `IOManager` | `FdContext`, the four event operations and the event half of `idle()`, over a model of epoll |
| `IOProofs` | proofs about `IOManager` |
| `FdManager` | the kernel's descriptor table and `FdManager`'s contexts |
| `Hook` | EXTENDS `FdManager`: `do_io`, its timer's callback, `close`, over the slots of IOManager and epoll's late reports |
| `TcpServer` | EXTENDS `Hook`: `TcpServer`, `Socket`, the fibers that serve connections, clients and peers |
| `ServerProofs` | proofs about `TcpServer`, `Hook` and `FdManager` |
| `ByteArray` | the buffer, its encodings, sockets' buffers and files |
| `ByteArrayProofs` | proofs about `ByteArray` |
| `Config` | hot configuration in a process that the daemon restarts |
| `ConfigProofs` | proofs about `Config` |
| `Http` | messages, their text and the two parsers |
| `HttpProofs` | proofs about `Http` |
| `MC...` | small sets for TLC, one module per specification |

Definitions keep the names of the code (`m_fibers`, `stopping`, `listExpiredCb`,
`triggerEvent`...); `PROJECT.json` maps each to its lines. An operator whose comment
starts with "Mutant:" is a wrong version of the definition below it; it is part of
no specification and shows that some property would notice that mistake.

**Scheduler.** `pc[t]` is a thread's place in `run()`. Each access to shared data that
another thread can see in between is a step: erasing the ticket (`Take`), counting
(`Count`), testing the state (`Dispatch`, `Drop`), `EXEC` (`SwapIn`), the task's own
steps (`Finish`, `YieldToReady`, `Wait`, `YieldToHold`, `TaskSchedule`), the end of the
context switch (`SwapOut`), uncounting (`Uncount`), and what becomes of the fiber
(`SettleReady`, `SettleEnded`, `SettleOther`, `PutOnHold`). `m_mutex` is held from
`Take` to `Count` only. The four operands of `stopping()` are read one by one.
`schedule` never calls `tickle()`, because its `need_tickle` never becomes true.
A fiber is identified with its task; the reuse of a finished callback's stack
is left out. Assertions log and continue, as in the release build.

**TimerManager.** An operation of a Timer holds the write lock and is one step.
`addTimer` is split into making the timer, inserting it and the notification after
the unlock; `listExpiredCb` into reading the clock, the work under the write lock and
the scheduling. Where the code compares heap addresses (equal deadlines), both
results are possible. `HourMs` and `MaxTimeout` stand for the hour of
`detectClockRollover` and the three seconds of the poll.

**IOManager.** Each operation holds the descriptor's mutex and is one step; epoll's
report and its processing are separate steps. `interest`, `level`, `rdlist` and
`ready` are epoll and the descriptors themselves (external). A trigger without
a scheduler is undefined behaviour in the code and ends the model (`fault`).
`Scheduler` sees a waiting fiber's event as one step that schedules it (`Trigger`) and
one that lowers the pending count (`Triggered`): this is what `IOManager` does in
`triggerEvent` and the decrement after it.

**FdManager, Hook, TcpServer** are one specification. `file` is the kernel's table,
which gives the lowest free number to a new file; `datas` is `m_datas`. A fiber's `pc`
is its place in a call: "call" (the system call itself), "add" (the timer is there, the
event is not), "wait" (switched away), then "failed" or what follows. Of IOManager the
module has `m_events`, a `slot` for each event that keeps its fiber after it was triggered, the
descriptors epoll knows (`watched`), and `reports`: what `epoll_wait` has returned to some
thread and `idle()` has not processed. A report is processed at any later time, against
the registrations the number has by then, and a hang-up counts as both events, as in
`iomanager.cpp:386-426`; a trigger of an empty slot ends the model (`fault`). A fiber that is
triggered gets a ticket (`tickets`), whatever it is doing, and a ticket resumes it when it is
next switched away. `addEvent` and `YieldToHold` are one step: the race between them is the
subject of `resume_race`. The timer's callback has two steps, the look at `tinfo` and
`cancelEvent` (`cancels`), for the fiber may return, close and the number be reused in between.
`close` has three steps (events, context, file), which interleave with every other fiber:
both workers are one IOManager, the default of `tcp_server.h:29`, with a thread for each
fiber. `accept` is split before the context is made. `recv` waits for READ with the receive
timeout, `send` for WRITE with the send timeout. A connection and a client have one life each.

**ByteArray.** The nodes are one sequence `mem`, `m_cur` the number of a node, 0 being
NULL. Bytes and words are narrow (`Radix`, `WordSize`), so that varints of three bytes
and overflowing zigzag values fit small instances. The loops of `write`, `read` and `setPosition`
move `m_cur` to the next node after each round that uses up its node, and after the last
round only if it ends with its node (`NodeBehind`); that this is the node of the new position
(`NodeAt`) is what `CursorAgrees` says. A pointer that is followed behind
the list ends the model (`fault`). A call of `write()` or `read()`, a byte of a varint that is
encoded (`writeUint`) or decoded (`GetVarint`) and a round of `writeToFile` or `readFromFile` is a
step; `call` says what is under way. `items` is a history variable: what was written and not
overwritten, each with the bytes in front of its text. A write that would pass `MaxBytes` is
not made; a varint whose bytes turn out not to fit stops there.

**Config.** `Edit` changes the file at any moment; `LoadFromConfDir` is split at each point
where the file or the process may change (`lstat`, the record, the read, each variable,
and the two locks of `setValue`). One thread loads; `Callers` are the threads that call
`setValue` themselves, at once with it and with each other: comparing and notifying share the
read lock (`setValue`), assigning is a step of its own (`assign`). `mixed` is a history variable,
the variables whose last call began while another had notified and not assigned. A crash
loses everything but the file; `restart_count` and the supervisor survive. Texts are
numbers modulo `Limit`, the width of `uint64_t`. Each edit gets a time stamp of its own.

**Http.** A text is its first line, its header lines in order and the size of its body.
`execute` gives it to a fresh parser: the callbacks of the first line are one step
(`requestLine`, `responseLine`), each header line is another (`http_field`), and the blank line
ends the call (`header_done`). `todo` is what the automaton has not come to; `cs` and `left`
say what it returns. What the automata take is used as a verdict: versions
other than 1.0 and 1.1, and the method that is printed with blanks, are not accepted.
Header values are not empty and have no blanks.

## The runs

| run | instance | shows |
|---|---|---|
| `pool` | 2 threads and the caller, a fiber and a callback | `ActiveCountExact`, `ExclusiveRun`, `ExecLeftByRunner`, `StopDrains`, `StopReturns`, the refinement `ImplementsTaskPool` |
| `events` | 1 thread, 2 waiting tasks, one scheduled twice | `PendingCountExact`, `NoTaskLost`, `StopDrains`, `StopReturns` under IOManager's `stopping()` |
| `timers` | 1 poller, a one-shot and a recurring timer, one refresh or reset each, one step back of the clock | `RegisteredIffCallback`, `CancelOrFire`, `DueTimersServed` |
| `io_events` | 2 pollers, 2 descriptors used in one direction, 3 registrations | `PendingMatchesEvents`, `RegistrationOnce`, `InterestCoversEvents`, `ReadyEventServed` |
| `server` | a listening socket, a connection with both timeouts and a client for 2 descriptors | `CtxMatchesFile`, `OwnSocket`, `NeverBlocks`, `WaitersWatched`, `NoLeak`, `TimedWaitEnds` |
| `bytearray` | nodes of 2 bytes, 4 positions, 2 writes of 6 kinds of values | `CursorAgrees`, `ItemsReadBack`, `PeekIsUnread` |
| `config` | 2 variables, 4 files, 3 edits, 1 crash, 2 threads that set a variable beside the loading one | `CopiesAgree`, `RecordedMeansLoaded`, `LoadTakesEffect` |
| `http` | 3 header names in 5 spellings, 4 changes, 2 hops | `ArrivesIntact`, `BodyDelimited`, `OneConnectionLine` |

Each run but `events` has the type invariant of its module too (in
`bytearray` it is part of `CursorAgrees`). What the newer properties say:

- `io_events`: epoll watches every registered event and no descriptor without one. It may
  watch more than is registered, see the observations.
- `server`: a descriptor number that one fiber closes may be another's a moment later.
  No context outlives its file, no fiber works on or closes a foreign socket, a call on
  its own file never blocks the thread, and an ended fiber leaves nothing behind. `WaitersWatched`: a
  fiber with a socket of its own that is switched away, and not scheduled, has its event
  registered and watched, although reports and cancellations meant for earlier owners of
  the number still arrive. A timed wait ends although the peer is silent.
- `bytearray`: the cursor as number and as pointer agree after any sequence of writes,
  reads, seeks, `clear` and buffers; a value is read back, if nothing overwrote it, from
  wherever it was put; what is sent to a socket or a file is what reading would give.
- `config`: an edit that falls between `lstat` and the read is loaded (again) rather than
  taken for the recorded one; a load that has seen the last edit brings each of its values
  into effect, whatever else the file holds. A listener disagrees with its variable only
  during a call of `setValue` or after calls that overlapped.
- `http`: a message is received as it was sent or with an error, chunk headers included;
  a stale own length or connection header never wins over the body and `m_close`.

Four runs end in a violation, each of something the repository says of itself:

- `resume_race`: a fiber that yields `HOLD` is resumed by a second thread before the
  first has saved its context (`fiber.cpp:265`, against the comment at
  `scheduler.cpp:121`). `pool` and `events` avoid it, the one having no waiting
  tasks and the other a single thread.
- `stale_report`: `idle()` triggers all reported events if one is still registered
  (`iomanager.cpp:417`, against the assertion at 29 and `iomanager.h:122`). A
  hang-up sets both bits, on a descriptor that is used in one direction too. With one
  direction per descriptor and no hang-up it does not happen: `io_events`, and `PendingCorrect` and
  `OnceCorrect` have both as hypotheses.
- `stop_race`: the acceptor has found no connection and is about to call `addEvent`
  (`hook.cpp:190`) when the function of `stop()` runs on another thread. `cancelAll` and the one
  in `close` (476) find nothing, the acceptor registers and yields, and `close_f` (480) takes the
  descriptor out of epoll: the accept loop waits for ever (against `tcp_server.h:52-54`). Both
  workers are the same IOManager by default, and `tests/test_tcpServer.cpp:29` has two threads.
- `bytearray_grow`: `addCapacity` appends a node too few when what is missing, modulo the
  node size, does not exceed the room that was left (`bytearray.cpp:611`, against
  `bytearray.h:456`). `bytearray` shows that the object is intact as long as it survives.

Observations for which there is no run:

- With tasks bound to a worker (`Targets` holding `AnyThread` and a worker), `StopDrains`
  fails: a thread leaves `run()` through the unlocked `stopping()` (`scheduler.cpp:307`)
  and a task bound to it later stays in the list.
- `tickle()` returns when a thread is idle (`iomanager.cpp:304`), so a new first timer wakes
  nobody; `DueTimersServed` holds because the poll is capped at three seconds.
- If the timer of a hooked call fires before its `addEvent` (`hook.cpp:190`), the wait has no
  timeout any more. `TimedWaitEnds` excludes it by `~cancelled[f]`.
- `connect` may return 0 for a connection in progress, also with one client and one
  connection. It is woken for a third reason beside the two of the comment at
  `hook.cpp:357`, it was not cancelled, and `SO_ERROR` is 0 then. TLC finds three ways with the
  constants of `server`: the connection's send timeout has locked its `tinfo`, the connection
  closes, the client gets the number, and the late `cancelEvent` (`hook.cpp:187`) hits its
  WRITE; a report is processed late (`iomanager.cpp:386-426`), after the number was given to the
  client; and the event that the acceptor left behind in `stop_race` makes `addEvent` fail,
  after which `connect` looks at `SO_ERROR` at once (`hook.cpp:370-389`).
- `cancelEvent` of one of two registered directions modifies epoll with the old mask
  (`iomanager.cpp:235`): the cancelled event stays watched, although `iomanager.h:92` says it is
  cancelled. TLC refutes equality of mask and registrations with both directions and a
  cancellable descriptor; `InterestCoversEvents` holds there (two pollers, hang-ups), and is
  proved of every use.
- Overlapping calls of `setValue` (`config.h:422`) leave a listener with another value than its
  variable if one thread notifies last and the other assigns last. Setting the
  variable's value again does not repair it, for an equal value returns early.
- The alphabet of `ListAllMember` (`config.cpp:27`) has no 9, while `config.h:42`, 382 and 489 give
  [0-9a-z_.]: a variable with a 9 in its name, and what lies below it in the file, is never
  loaded. `Listed` has the names that pass, and `LoadTakesEffect` speaks of those.
- `st_mtime` is compared in seconds (`config.cpp:96`): of two edits within one second the
  later one is skipped. In the model no two edits fall into one second.
- A callback and later a fiber registered for the same event: `triggerEvent` leaves the callback
  in the slot, which is then scheduled in place of the fiber (`iomanager.cpp:163`). `OneKind`.
- The check-then-create of `FdManager::get` (`fd_manager.cpp:117`) is harmless as it is
  used: only the fiber that has just opened a descriptor asks for its creation.
- `httpclient_parser_execute` returns one byte more than it read (`httpclient_parser.rl:209`):
  `left` is the body without its first byte, and `Wild` when there is none.

Bounds. Two tasks and three threads give every pair of a thread leaving `run()`, one
working and one in `stop()`; `MaxYields` lets each task go round the list once more.
Two timers give a first and a second one; the race of several pollers is covered by
the proofs. `MaxMs` leaves room for a poll before and after the deadline, and at
`MaxMs` every timeout counts as over, so that the end of the clock hides no wake-up.
Three registrations use one slot twice while another is waiting. Two descriptors are
one for the listening socket and one that connection and client take from each
other; after `stop()` the listening socket's number is free too. `MaxOpen` = 1 lets the client
open its socket only when no connection is open, or when the table is full and it fails:
it then gets a used number rather than a fresh one; the proofs have no such bound. One unprocessed
report and one `cancelEvent` on its way (`MaxReports`, `MaxCancels`) are enough for
each to arrive after the number was reused; the proofs are for any number of them. Positions up to 4 in nodes of 2 bytes give both sides of a boundary, the
end of the list and a second growth. Three edits put one before, one within and one
after a load, and one crash ends a load in the middle; two callers and the loader give
overlapping calls of two and of three threads. Four changes and two hops
make a message carry foreign headers when it is forwarded. `IntLimit`, `SizeT`, `WordSize`
and `Limit` are the widths of integers, small. Runs whose system may stop (a bounded
clock, a finished server, a fault) do not check deadlock; the scheduler's and
`io_events` do.

Fairness. Weak fairness for each thread, or each fiber that may run on a thread of its
own, is what the operating system gives a runnable thread. Tasks are assumed to
return, yield or wait in the end, and an event that a task of `Scheduler` waits for to
arrive: without either, `stop()` is not meant to return. In `TcpServer` no peer needs to
do anything. `TimedWaitEnds` is checked under `TimerSpec`, which has only that expired timers are
served (this is `DueTimersServed`) and their callbacks run; `StopEndsAccept` is refuted under
`Spec`, where besides every fiber goes on and epoll reports what is ready
(`ReadyEventServed`), so that its counterexample is not somebody who stopped. In `Config` a
call of `LoadFromConfDir` that has begun comes to its end: it waits for locks only, which
their holders give back. Nobody has to call it again. Nothing is assumed of other callers: no one needs to
schedule, to stop, to edit a file or to add a timer.

## The proofs

The theorems hold for any number of threads, tasks, timers, descriptors, registrations,
connections, clients, variables, files and headers, with the named assumptions on the constants
(`ConstantsAssumption`, `TimerAssumption`, `IOAssumption`, `FdAssumption`, `HookAssumption`, `ServerAssumption`,
`ConfigAssumption`, `ContentsAssumption`, `ByteArrayAssumption`, `InputsAssumption`, `HttpAssumption`), which
TLC evaluates in the runs of their modules. They say that bounds are natural numbers,
that fibers, sockets and the null values are different things, that a readable file is a
list of names and texts, that what is written to a buffer is a value of its kind, and that
different numbers are written differently. Some theorems have a hypothesis besides: the
property is false without it, and the hypothesis says which use of the class it is true of.

| theorem | property | hypothesis |
|---|---|---|
| `TypeCorrect`, `ActiveCountCorrect`, `PendingCountCorrect` | `TypeOK`, `ActiveCountExact`, `PendingCountExact` | |
| `RunsExclusively` | `ExclusiveRun` | `OneTicketEach` |
| `LosesNoTask` | `NoTaskLost` | `OneTicketEach` |
| `OnlyRunnerLeavesExec` | `ExecLeftByRunner` | `OneTicketEach` |
| `StopLeavesNothing` | `StopDrains` | `OneTicketEach`, `UnboundOnly` |
| `SchedulerImplementsPool` | `ImplementsTaskPool` | `OneTicketEach`, `UnboundOnly` |
| `LoneLosesNoTask`, `LoneRunnerLeavesExec` | `NoTaskLost`, `ExecLeftByRunner` | `LoneWorker` |
| `LoneStopLeavesNothing`, `LoneImplementsPool` | `StopDrains`, `ImplementsTaskPool` | `LoneWorker`, `EventsCounted` |
| `RegisteredIffCallbackCorrect`, `CancelOrFireCorrect`, `TimerTypeCorrect` | `RegisteredIffCallback`, `CancelOrFire`, `TimerTypeOK` | |
| `IOTypeCorrect`, `InterestCorrect` | `IOTypeOK`, `InterestCoversEvents` | |
| `PendingCorrect` | `PendingMatchesEvents` | `OneWay(Fds)`, no hang-ups |
| `OnceCorrect` | `RegistrationOnce` | `OneWay(Fds)`, no hang-ups, `OneKind` |
| `ContextsCorrect`, `OwnSocketCorrect`, `NeverBlocksCorrect`, `WaitersCorrect`, `NoLeakCorrect`, `ServerTypeCorrect` | `CtxMatchesFile`, `OwnSocket`, `NeverBlocks`, `WaitersWatched`, `NoLeak`, `ServerTypeOK` | |
| `CursorCorrect`, `PeekCorrect` | `CursorAgrees`, `PeekIsUnread` | |
| `ItemsCorrect` | `ItemsReadBack` | `StringsFit` |
| `HttpTypeCorrect`, `ArrivesCorrect`, `BodyCorrect`, `ConnectionLineCorrect` | `HttpTypeOK`, `ArrivesIntact`, `BodyDelimited`, `OneConnectionLine` | |
| `ConfigTypeCorrect`, `CopiesCorrect`, `RecordedCorrect` | `ConfigTypeOK`, `CopiesAgree`, `RecordedMeansLoaded` | |

`OneTicketEach`: no task waits for an event and none is handed over twice. A second ticket
is what `resume_race` is about. `UnboundOnly`: `schedule` is called without a thread; a
ticket bound to a thread that has left stays in the list. `LoneWorker`: the scheduler has one
thread, a created one or the caller's; its tasks may wait for events, be handed over twice
and be bound. With two threads and a waiting task TLC refutes all four properties, for the
reason `resume_race` shows. `EventsCounted`: if tasks wait, `stopping()` is `IOManager`'s; the
scheduler's own does not look at registered events and leaves waiting tasks behind. `OneWay`: a descriptor is
waited for in one direction, as the hooks do for a socket of one fiber; `stale_report`
is the other use. `OneKind`: registrations pass callbacks or none does, for a triggered
slot keeps what was in it until the next registration overwrites it. `StringsFit`: a string
written by `writeStringF16` or a relative is not longer than its length of fixed width can
say; of a longer one the length is truncated. The instances of
`pool`, `events`, `io_events` and `bytearray` satisfy the hypotheses of the
theorems about the properties they check, so none is empty.

**SchedulerProofs.** `TypeOK` is not inductive, for a counter that is lowered stays natural
only because of what it counts. The invariant has two layers: `Shape` (types, tickets and
positions, and where the caller's thread is while `stop()` runs), inductive by itself,
and `Counts` (what the three counters count), inductive relative to `Shape`. `MoveCounts`
says how a cardinality changes when one thread moves, and each counter step is an
instance of it. The theorems include bound tasks and the race of `resume_race`: the
counters survive it.

**PoolProofs.** `Plain` follows a task's only ticket: it is in the list once or with one
thread (`Unique`), the position of its holder fixes the fiber's state (`Stages`), and a
task that was not handed over is untouched (`Known`). `Drained` is about leaving: a thread
that has passed a part of the unlocked test in `stopping()` has read something that
can no longer change for the worse, since whoever could still add a ticket is counted as
active or holds a ticket itself. The refinement maps each thread's step to a step of
`TaskPool` or to none, under these two invariants.

For one thread, `Lone` allows any number of tickets to a task. A fiber between its
registration and the HOLD of `run()` is `Awaited`: its event is still registered, or has put
its ticket into the list, where it stays because the only thread is busy with the fiber
itself. So HOLD is never written over a fiber that was resumed, and letting it go loses
nothing (`Position`). Tickets of ended fibers are dropped; that a ticket with a function is not
among them needs `FirstTicket`: it is the first its task gets and the only one until it is
taken. `Leaving` is about the way out: once the pending count was read as zero nothing is
registered any more (by `Counts`), and once the list was seen empty after that, with
`m_autoStop` set, nobody is left to fill it. Under both invariants a step maps to a step of
`TaskPool`, `Hold` and `Wake` included: a wake-up before HOLD is `Requeue`, and a second ticket
is no step.

**TimerProofs.** `TimerInv` adds that a timer still being added is nowhere else and that a
thread collecting callbacks holds none from before. Which timers expire does not matter,
only that they come from the set (`ExpiredRegistered`), so the proof covers every clock,
rollover included. The types need that `m_next` is at least `m_ms`, because `reset` subtracts,
and that the first timer of a set exists (`FirstExists`, from the well-foundedness of <).

**IOProofs.** Types hold in any use, and so does `InterestCorrect`: each operation leaves in epoll's
mask at least what stays registered, and takes the descriptor out with its last event,
so that ADD, MOD and DEL always find what they expect. For the counter, a report that is on its way may
only name an event that is registered or one that is gone for good: with one direction
per descriptor and no hang-up a stale report finds nothing of another event to trigger.

**ServerProofs.** All rest on one invariant, `Inv`: whose is a descriptor number? It says for
every position of every fiber which number it holds (`Sockets`), that every open file is held by
exactly the fiber it belongs to (`Table`, `Accepted`, `Listening`), when a context exists, who is in
the backlog, and that a fiber with its own socket that is switched away has a ticket or
its registration (`Waits`). No part is inductive without the others: the table needs the
order of the three steps of `close`, and a registration survives because nobody else can
register the same event of the same number. The acceptor is the one fiber that may use a
number after another closed it; if it is reused, then for a client, which waits to write.
The proof has one lemma per step, and in it one step per part of `Inv`. `Inv` says nothing of
what is late: reports, cancellations, slots and left-over events are arbitrary, and
tickets may come from any of them. The theorems hold in spite of them.

**ConfigProofs.** `Agreed` says of a variable whose calls did not overlap that one call at most is
between its two locks and the listener has its value; `mixed` is exactly what the proof needs to
know of the others. `Calls` ties the two halves of the loader's `setValue` to its entry, and
keeps the program away from the variables that only files set. `Recorded` says what a
recorded time stamp that is still the file's means at each position of the load: before
the read nothing, during the load that the rest of the list is the end of the file and
that variables decided before it hold their values, afterwards `RecordedMeansLoaded`. An
edit makes `st_mtime` larger than every time stamp taken, which makes the claim void.

**ByteArrayProofs.** `Sound` is `CursorAgrees` and that the list is made of whole nodes: at its
end, where `m_cur` is NULL, the first new node must start at the position. The arithmetic
of node numbers and offsets is in `DivMod` and `DivModUnique`, and `LoopEnds` shows that the loops,
which count rounds and compare with the end of a node, end in the node of the new position. `Saving` follows `writeToFile`,
which takes the offset of the position off the first piece even if the data ends in
that node: the loop has then moved to the next node with at most `pos % BaseSize` bytes
left, its pieces are empty or negative from there on, and it fails. So a loop that ends
has saved every byte. `ItemsInv` is for `ItemsReadBack`: the array holds the bytes of every item
(`Stored`), what is still to be written of a string or a file goes around the items (`Writing`),
and a read that started at an item has read its front (`Reading`). A varint needs no induction
over its bytes, because both loops are steps. `Begun` records the words that the loop of
`writeUint` had left at each byte (`Chain` when it is over), and the reading loop keeps a sum: what
it has read, plus the word left at the next byte times the place of that byte, is the number
(`Halfway`, `VarintRound`). The sum stays below `WordSize`, so that no bit is lost and the loop
does not stop early. `ZigzagBack` and `FixedBack` do the rest.

**HttpProofs.** `Written` says what a text is: each header of the message has a line, each line
that is not the writer's own is a header, and the length is the last line. `Parsing` follows
the parser from line to line: its headers and the lines in `todo` together are those of the
text (`Lines`), and the length is still the last line to come or is what was stored last
(`Length`). `setHeader` keeps one header to a name in whatever spelling (`SetHeaderStores`), so a
line overwrites only its own name, and when `todo` is empty nothing is missing. That a number
is read back from its numeral is where numerals must differ.

Only model-checked:

- the liveness properties (`StopReturns`, `DueTimersServed`, `ReadyEventServed`, `TimedWaitEnds`,
  `LoadTakesEffect`): the prover has neither fairness nor ENABLED;
- what lies outside the hypotheses above.

## Not modelled

- a second life of a scheduler or of a server, stacks and thread-local bookkeeping of fibers;
- `ioctl` and the other commands of `fcntl`, `EINTR`, threads without hooks, UDP and socket options;
- several listening sockets; a connection that returns after it was served;
- `sleep`, `usleep` and `nanosleep`; in `Hook`, the wider mask that `cancelEvent` leaves in epoll (it is
  in `IOManager`), and a fiber that is resumed between `addEvent` and `YieldToHold` (`Scheduler`);
- `read` and `getReadBuffers` with a position, and `toHexString`, of ByteArray;
- conversions of containers, removal of listeners and two threads in `LoadFromConfDir` of Config; edits
  of a file within one second of each other, which `st_mtime` cannot tell apart;
- parameters and cookies of HTTP, empty header values, a message given to a parser in
  several pieces (the automata count all pieces, `execute` moves by the total);
- delays beyond `IntLimit`: the cast is in the model, and `DueTimersServed` fails there;
- Address (stateless conversions around system calls), Env, logging, formatting.
