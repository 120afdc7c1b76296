------------------------------ MODULE PoolProofs ------------------------------
(***************************************************************************)
(* The scheduler as a pool of tasks: no two threads on one fiber, no task  *)
(* lost, nothing left when stop() returns, and the refinement of TaskPool, *)
(* for any number of threads and tasks.                                    *)
(*                                                                         *)
(* The properties are claims about tasks that have one ticket at a time.   *)
(* A fiber that waits for an event can be scheduled before it has switched *)
(* away, and a Fiber handed over twice has two tickets from the start; run *)
(* resume_race shows what happens then.  Hence the hypothesis OneTicketEach*)
(* of the theorems.  That the list is drained needs UnboundOnly as well: a *)
(* ticket bound to a thread that has left run() is never taken.            *)
(*                                                                         *)
(* The same properties hold of tasks that wait or are handed over twice    *)
(* when there is one thread (LoneWorker), with an invariant of its own:    *)
(* a fiber put on HOLD is one its event will schedule, or has, and the     *)
(* worker leaves run() only when no event is left to add a ticket.         *)
(***************************************************************************)
EXTENDS SchedulerProofs

\* Tasks run, yield, throw and schedule other tasks; none waits for an event
\* and none is handed over twice.
OneTicketEach == Waiters = {} /\ Rescheduled = {}

\* schedule() is called without a thread argument.
UnboundOnly == Targets \subseteq {AnyThread}

\* The positions before SwapIn, and those after the fiber has switched away.
Before == {"count", "dispatch", "swapIn"}
After  == {"swapOut", "returned", "settle"}

\* A task is in the list once or with one worker, never in both.
Unique ==
    /\ \A i, j \in 1..Len(m_fibers) : m_fibers[i].task = m_fibers[j].task => i = j
    /\ \A t \in Workers : pc[t] \in Holding =>
          \A i \in 1..Len(m_fibers) : m_fibers[i].task # ft[t].task
    /\ \A t, u \in Workers :
          pc[t] \in Holding /\ pc[u] \in Holding /\ ft[t].task = ft[u].task => t = u

\* What its position says about a fiber's state.
Stages ==
    /\ \A i \in 1..Len(m_fibers) : m_state[m_fibers[i].task] \in {"INIT", "READY"}
    /\ \A t \in Workers :
          /\ pc[t] \notin {"hold", "putOnHold"}
          /\ pc[t] \in Before => m_state[ft[t].task] \in {"INIT", "READY"}
          /\ pc[t] = "exec" => m_state[ft[t].task] = "EXEC"
          /\ pc[t] \in After => m_state[ft[t].task] \in {"TERM", "EXCEPT", "READY"}

\* Tickets exist for tasks that were handed over, and the fiber of a task
\* that was not has not been touched.
Known ==
    /\ \A i \in 1..Len(m_fibers) : m_fibers[i].task \in submitted
    /\ \A t \in Workers : pc[t] \in Holding => ft[t].task \in submitted
    /\ \A f \in Tasks \ submitted : m_state[f] = "INIT"

Plain == armed = {} /\ Unique /\ Stages /\ Known /\ NoTaskLost

\* The worker will not take another ticket.
Gone(t) == pc[t] = "exited" \/ (t = Caller /\ mpc \in {"join", "stopped"})

\* Workers leave only once stop() has set m_autoStop.
LeaveFlags ==
    /\ mpc \in {"constructed", "started"} => ~m_autoStop
    /\ idleTerm # {} => m_autoStop
    /\ \A t \in Workers : pc[t] \in {"empty", "active"} => m_autoStop
    /\ \A t \in Workers : pc[t] = "exited" => t \in idleTerm

\* stop() is past the caller's part of run(), and past the joins.
LeavePos ==
    /\ mpc \in {"join", "stopped"} /\ UseCaller => pc[Caller] \in {"off", "exited"}
    /\ mpc = "stopped" => \A t \in Children : pc[t] = "exited"

\* The last worker leaves an empty list behind; the caller that skips run()
\* has seen it empty while some thread was still there to take what came later.
LastLeaves ==
    /\ (\A t \in Workers : Gone(t)) => m_fibers = <<>>
    /\ mpc = "probe" /\ pc[Caller] = "active" =>
          m_fibers = <<>> \/ \E t \in Children : pc[t] # "exited"

\* No ticket is bound to a thread.
NoneBound == \A i \in 1..Len(m_fibers) : m_fibers[i].thread = AnyThread

Drained == NoneBound /\ LeaveFlags /\ LeavePos /\ LastLeaves
-----------------------------------------------------------------------------
(* Lists.                                                                  *)

\* What is in the list after push_back.
LEMMA AppendElements ==
  ASSUME NEW S, NEW s \in Seq(S), NEW x \in S
  PROVE  /\ Len(Append(s, x)) = Len(s) + 1
         /\ \A i \in 1..Len(s) : Append(s, x)[i] = s[i]
         /\ Append(s, x)[Len(s) + 1] = x
  BY AppendProperties

\* What is in the list after erase: the others, in their order.
LEMMA RemoveAtElements ==
  ASSUME NEW S, NEW s \in Seq(S), NEW i \in 1..Len(s)
  PROVE  /\ Len(RemoveAt(s, i)) = Len(s) - 1
         /\ \A j \in 1..(Len(s) - 1) :
               RemoveAt(s, i)[j] = IF j < i THEN s[j] ELSE s[j + 1]
<1> DEFINE a == SubSeq(s, 1, i - 1)
           b == SubSeq(s, i + 1, Len(s))
<1>0. Len(s) \in Nat
  OBVIOUS
<1>1. /\ a \in Seq(S) /\ Len(a) = i - 1
      /\ \A j \in 1..(i - 1) : a[j] = s[j]
  BY <1>0, SubSeqProperties
<1>2. /\ b \in Seq(S) /\ Len(b) = Len(s) - i
      /\ \A j \in 1..(Len(s) - i) : b[j] = s[i + j]
  BY <1>0, SubSeqProperties
<1>3. RemoveAt(s, i) = a \o b
  BY DEF RemoveAt
<1> HIDE DEF a, b
<1>4. /\ Len(a \o b) = Len(a) + Len(b)
      /\ \A j \in 1..(Len(a) + Len(b)) :
            (a \o b)[j] = IF j <= Len(a) THEN a[j] ELSE b[j - Len(a)]
  BY <1>1, <1>2, ConcatProperties
<1>5. ASSUME NEW j \in 1..(Len(s) - 1)
      PROVE  (a \o b)[j] = IF j < i THEN s[j] ELSE s[j + 1]
  <2>1. CASE j < i
    BY <1>0, <1>1, <1>2, <1>4, <2>1
  <2>2. CASE ~(j < i)
    <3>1. (a \o b)[j] = b[j - (i - 1)] /\ j - (i - 1) \in 1..(Len(s) - i)
      BY <1>0, <1>1, <1>2, <1>4, <2>2
    <3>2. i + (j - (i - 1)) = j + 1
      BY <1>0
    <3> QED BY <1>0, <1>2, <2>2, <3>1, <3>2
  <2> QED BY <2>1, <2>2
<1> QED BY <1>0, <1>1, <1>2, <1>3, <1>4, <1>5
-----------------------------------------------------------------------------
(* Plain is preserved by every action.                                     *)

\* Tickets name tasks, in the list and with a worker.
LEMMA TicketTasks ==
  ASSUME Shape
  PROVE  /\ \A i \in 1..Len(m_fibers) : m_fibers[i] \in Ticket /\ m_fibers[i].task \in Tasks
         /\ \A t \in Workers : pc[t] \in Holding => ft[t] \in Ticket /\ ft[t].task \in Tasks
<1>1. \A tk \in Ticket : tk.task \in Tasks
  BY DEF Ticket
<1>2. \A i \in 1..Len(m_fibers) : m_fibers[i] \in Ticket
  BY DEF Shape
<1>3. \A t \in Workers : pc[t] \in Holding => ft[t] \in Ticket
  BY DEF Shape
<1> QED BY <1>1, <1>2, <1>3

\* Plain holds when the scheduler has been constructed.
LEMMA InitPlain == Init => Plain
<1> SUFFICES ASSUME Init PROVE Plain
  OBVIOUS
<1>1. Len(m_fibers) = 0 /\ submitted = {} /\ \A t \in Workers : pc[t] = "off"
  BY DEF Init
<1>2. Unique /\ Stages
  BY <1>1 DEF Unique, Stages, Holding, Counted, Before, After
<1>3. Known /\ NoTaskLost
  BY <1>1 DEF Init, Known, NoTaskLost, Holding, Counted
<1> QED BY <1>2, <1>3 DEF Plain, Init

\* A step that moves workers only, none of them into or out of a position
\* that Plain tells apart.
LEMMA MovePlain ==
  ASSUME Plain, UNCHANGED <<m_fibers, ft, m_state, submitted, armed>>,
         \A u \in Workers :
            \/ pc'[u] = pc[u]
            \/ pc'[u] \notin Holding /\ pc[u] \notin Holding
            \/ pc'[u] \in Before /\ pc[u] \in Before
            \/ pc'[u] \in After /\ pc[u] \in After
  PROVE  Plain'
<1>1. \A u \in Workers : pc'[u] \in Holding <=> pc[u] \in Holding
  BY DEF Holding, Counted, Before, After
<1>2. Unique'
  BY <1>1 DEF Plain, Unique
<1>3. Stages'
  <2>1. \A u \in Workers : pc'[u] \notin {"hold", "putOnHold"}
    BY DEF Plain, Stages, Before, After, Holding, Counted
  <2>2. \A u \in Workers :
           /\ pc'[u] \in Before => pc[u] \in Before
           /\ pc'[u] = "exec" => pc[u] = "exec"
           /\ pc'[u] \in After => pc[u] \in After
    BY DEF Before, After, Holding, Counted
  <2>3. \A i \in 1..Len(m_fibers') : m_state'[m_fibers'[i].task] \in {"INIT", "READY"}
    BY DEF Plain, Stages
  <2>4. ASSUME NEW u \in Workers
        PROVE  /\ pc'[u] \in Before => m_state'[ft'[u].task] \in {"INIT", "READY"}
               /\ pc'[u] = "exec" => m_state'[ft'[u].task] = "EXEC"
               /\ pc'[u] \in After => m_state'[ft'[u].task] \in {"TERM", "EXCEPT", "READY"}
    <3>1. m_state'[ft'[u].task] = m_state[ft[u].task]
      OBVIOUS
    <3>2. /\ pc[u] \in Before => m_state[ft[u].task] \in {"INIT", "READY"}
          /\ pc[u] = "exec" => m_state[ft[u].task] = "EXEC"
          /\ pc[u] \in After => m_state[ft[u].task] \in {"TERM", "EXCEPT", "READY"}
      BY DEF Plain, Stages
    <3> QED BY <2>2, <3>1, <3>2
  <2> QED BY <2>1, <2>3, <2>4 DEF Stages
<1>4. Known'
  BY <1>1 DEF Plain, Known
<1>5. NoTaskLost'
  BY <1>1 DEF Plain, NoTaskLost, Ended, Queued, HeldByWorker
<1> QED BY <1>2, <1>3, <1>4, <1>5 DEF Plain

\* A task handed over for the first time.
LEMMA EnterPlain ==
  ASSUME Shape, Plain, NEW f \in Tasks, NEW th \in Targets,
         f \notin submitted, schedule(NewTicket(f, th)),
         submitted' = submitted \cup {f},
         UNCHANGED <<pc, ft, m_state, armed>>
  PROVE  Plain'
<1> DEFINE tk == NewTicket(f, th)
           n  == Len(m_fibers)
<1>1. tk \in Ticket /\ tk.task = f
  BY ConstantsAssumption DEF NewTicket, Ticket
<1>2. m_fibers' = Append(m_fibers, tk) /\ m_fibers \in Seq(Ticket) /\ n \in Nat
  BY DEF schedule, Shape
<1> HIDE DEF tk
<1>3. /\ Len(m_fibers') = n + 1
      /\ \A i \in 1..n : m_fibers'[i] = m_fibers[i]
      /\ m_fibers'[n + 1].task = f
  BY <1>1, <1>2, AppendElements
<1>4. \A i \in 1..Len(m_fibers') : i \in 1..n \/ i = n + 1
  BY <1>2, <1>3
<1>5. \A i \in 1..n : i \in 1..Len(m_fibers')
  BY <1>2, <1>3
<1>6. /\ \A i \in 1..n : m_fibers[i].task # f
      /\ \A t \in Workers : pc[t] \in Holding => ft[t].task # f
      /\ m_state[f] = "INIT"
  BY DEF Plain, Known
<1> HIDE DEF n
<1>7. Unique'
  BY <1>3, <1>4, <1>6 DEF Plain, Unique, n
<1>8. Stages'
  BY <1>3, <1>4, <1>6 DEF Plain, Stages, n
<1>9. Known'
  BY <1>3, <1>4, <1>6 DEF Plain, Known, n
<1>10. NoTaskLost'
  <2>1. Queued(f)'
    BY <1>2, <1>3 DEF Queued
  <2>2. \A g : Queued(g) => Queued(g)'
    BY <1>3, <1>5 DEF Queued, n
  <2> QED BY <2>1, <2>2 DEF Plain, NoTaskLost, Ended, HeldByWorker
<1> QED BY <1>7, <1>8, <1>9, <1>10 DEF Plain

\* A worker takes the i-th ticket of the list.
LEMMA TakePlain ==
  ASSUME Shape, Plain, NEW t \in Workers, Take(t)
  PROVE  Plain'
<1> DEFINE n == Len(m_fibers)
<1>1. PICK i \in 1..n : ft' = [ft EXCEPT ![t] = m_fibers[i]] /\ m_fibers' = RemoveAt(m_fibers, i)
  BY DEF Take
<1>2. m_fibers \in Seq(Ticket) /\ n \in Nat
  BY DEF Shape
<1>3. /\ Len(m_fibers') = n - 1
      /\ \A j \in 1..(n - 1) : m_fibers'[j] = IF j < i THEN m_fibers[j] ELSE m_fibers[j + 1]
  BY <1>1, <1>2, RemoveAtElements
<1> DEFINE From(j) == IF j < i THEN j ELSE j + 1
<1>4. \A j \in 1..Len(m_fibers') :
         From(j) \in 1..n /\ From(j) # i /\ m_fibers'[j] = m_fibers[From(j)]
  BY <1>2, <1>3
<1>5. \A j, k \in 1..Len(m_fibers') : From(j) = From(k) => j = k
  BY <1>2, <1>3
<1>6. \A k \in 1..n : k # i => \E j \in 1..Len(m_fibers') : From(j) = k
  <2> SUFFICES ASSUME NEW k \in 1..n, k # i PROVE \E j \in 1..Len(m_fibers') : From(j) = k
    OBVIOUS
  <2>1. CASE k < i
    <3>1. k \in 1..Len(m_fibers') /\ From(k) = k
      BY <1>2, <1>3, <2>1
    <3> QED BY <3>1
  <2>2. CASE ~(k < i)
    <3>1. k - 1 \in 1..Len(m_fibers') /\ From(k - 1) = k
      BY <1>2, <1>3, <2>2
    <3> QED BY <3>1
  <2> QED BY <2>1, <2>2
<1>7. /\ pc[t] = "pick" /\ pc \in [Workers -> WorkerPC] /\ ft \in [Workers -> Ticket \cup {NoTicket}]
      /\ \A u \in Workers : pc'[u] = IF u = t THEN "count" ELSE pc[u]
      /\ \A u \in Workers : ft'[u] = IF u = t THEN m_fibers[i] ELSE ft[u]
      /\ UNCHANGED <<m_state, submitted, armed>>
  BY <1>1 DEF Take, Goto, Shape, fiberVars, eventVars
<1> HIDE DEF From, n
<1>8. \A u \in Workers : pc'[u] \in Holding <=> u = t \/ pc[u] \in Holding
  BY <1>7 DEF Holding, Counted
<1>9. ft'[t] = m_fibers[i]
  BY <1>7
<1>10. Unique'
  <2>1. \A j, k \in 1..Len(m_fibers') : m_fibers'[j].task = m_fibers'[k].task => j = k
    BY <1>4, <1>5 DEF Plain, Unique, n
  <2>2. ASSUME NEW u \in Workers, pc'[u] \in Holding, NEW j \in 1..Len(m_fibers')
        PROVE  m_fibers'[j].task # ft'[u].task
    <3>1. CASE u = t
      BY <1>4, <1>9, <3>1 DEF Plain, Unique, n
    <3>2. CASE u # t
      BY <1>4, <1>7, <1>8, <2>2, <3>2 DEF Plain, Unique, n
    <3> QED BY <3>1, <3>2
  <2>3. ASSUME NEW u \in Workers, NEW v \in Workers, pc'[u] \in Holding, pc'[v] \in Holding,
               ft'[u].task = ft'[v].task
        PROVE  u = v
    BY <1>7, <1>8, <2>3 DEF Plain, Unique, n
  <2> QED BY <2>1, <2>2, <2>3 DEF Unique
<1>11. Stages'
  <2>1. \A j \in 1..Len(m_fibers') : m_state'[m_fibers'[j].task] \in {"INIT", "READY"}
    BY <1>4, <1>7 DEF Plain, Stages, n
  <2>2. m_state'[ft'[t].task] \in {"INIT", "READY"}
    BY <1>7, <1>9 DEF Plain, Stages, n
  <2> QED BY <1>7, <2>1, <2>2 DEF Plain, Stages, Before, After
<1>12. Known'
  BY <1>4, <1>7, <1>8, <1>9 DEF Plain, Known, n
<1>13. NoTaskLost'
  <2>1. ASSUME NEW f, Queued(f) PROVE Queued(f)' \/ HeldByWorker(f)'
    <3>1. PICK k \in 1..n : m_fibers[k].task = f
      BY <2>1 DEF Queued, n
    <3>2. CASE k = i
      BY <1>8, <1>9, <3>1, <3>2 DEF HeldByWorker
    <3>3. CASE k # i
      BY <1>4, <1>6, <3>1, <3>3 DEF Queued
    <3> QED BY <3>2, <3>3
  <2>2. ASSUME NEW f, HeldByWorker(f) PROVE HeldByWorker(f)'
    BY <1>7, <1>8, <2>2 DEF HeldByWorker, Holding, Counted
  <2> QED BY <1>7, <2>1, <2>2 DEF Plain, NoTaskLost, Ended
<1> QED BY <1>7, <1>10, <1>11, <1>12, <1>13 DEF Plain

\* The fiber of the ticket worker t holds changes its state, and t moves on
\* with it: SwapIn, Finish and YieldToReady.
LEMMA StatePlain ==
  ASSUME Shape, Plain, NEW t \in Workers, NEW l \in Holding, NEW st \in FiberState,
         pc[t] \in Holding, Goto(t, l),
         m_state' = [m_state EXCEPT ![ft[t].task] = st],
         UNCHANGED <<m_fibers, ft, submitted, armed>>,
         \/ l = "exec" /\ st = "EXEC"
         \/ l = "swapOut" /\ st \in {"TERM", "EXCEPT", "READY"}
  PROVE  Plain'
<1>1. ft[t].task \in Tasks
  BY TicketTasks
<1>2. /\ \A u \in Workers : pc'[u] = IF u = t THEN l ELSE pc[u]
      /\ \A g \in Tasks : m_state'[g] = IF g = ft[t].task THEN st ELSE m_state[g]
      /\ m_state[ft[t].task] \in FiberState
  BY <1>1 DEF Goto, Shape
<1>3. \A u \in Workers : pc'[u] \in Holding <=> pc[u] \in Holding
  BY <1>2
<1>4. \A i \in 1..Len(m_fibers) : m_fibers[i].task \in Tasks /\ m_fibers[i].task # ft[t].task
  BY TicketTasks DEF Plain, Unique
<1>5. \A u \in Workers : u # t /\ pc[u] \in Holding => ft[u].task \in Tasks /\ ft[u].task # ft[t].task
  BY TicketTasks DEF Plain, Unique
<1>6. Unique'
  BY <1>3 DEF Plain, Unique
<1>7. Stages'
  <2>1. \A i \in 1..Len(m_fibers') : m_state'[m_fibers'[i].task] \in {"INIT", "READY"}
    BY <1>2, <1>4 DEF Plain, Stages
  <2>2. ASSUME NEW u \in Workers
        PROVE  /\ pc'[u] \notin {"hold", "putOnHold"}
               /\ pc'[u] \in Before => m_state'[ft'[u].task] \in {"INIT", "READY"}
               /\ pc'[u] = "exec" => m_state'[ft'[u].task] = "EXEC"
               /\ pc'[u] \in After => m_state'[ft'[u].task] \in {"TERM", "EXCEPT", "READY"}
    <3>1. CASE u = t
      BY <1>1, <1>2, <3>1 DEF Before, After
    <3>2. CASE u # t /\ pc[u] \in Holding
      BY <1>2, <1>5, <3>2 DEF Plain, Stages
    <3>3. CASE u # t /\ pc[u] \notin Holding
      BY <1>2, <3>3 DEF Holding, Counted, Before, After
    <3> QED BY <3>1, <3>2, <3>3
  <2> QED BY <2>1, <2>2 DEF Stages
<1>8. Known'
  BY <1>2, <1>3 DEF Plain, Known
<1>9. NoTaskLost'
  <2>1. HeldByWorker(ft[t].task)'
    BY <1>3 DEF HeldByWorker
  <2>2. \A g \in submitted : g \in Tasks
    BY DEF Shape
  <2> QED BY <1>2, <1>3, <2>1, <2>2 DEF Plain, NoTaskLost, Ended, Queued, HeldByWorker
<1> QED BY <1>6, <1>7, <1>8, <1>9 DEF Plain

\* A worker lets its ticket go because the fiber has ended.
LEMMA ReleasePlain ==
  ASSUME Shape, Plain, NEW t \in Workers, SettleEnded(t)
  PROVE  Plain'
<1>1. /\ pc[t] = "settle" /\ Ended(ft[t].task)
      /\ \A u \in Workers : pc'[u] = IF u = t THEN "pick" ELSE pc[u]
      /\ \A u \in Workers : u # t => ft'[u] = ft[u]
      /\ UNCHANGED <<m_fibers, m_state, submitted, armed>>
  BY DEF SettleEnded, Goto, Shape, fiberVars, eventVars
<1>2. \A u \in Workers : pc'[u] \in Holding => u # t /\ pc[u] \in Holding /\ ft'[u] = ft[u]
  BY <1>1 DEF Holding, Counted
<1>3. Unique'
  BY <1>1, <1>2 DEF Plain, Unique
<1>4. Stages'
  <2>1. \A u \in Workers : u # t \/ pc'[u] \notin Before \cup After \cup {"exec", "hold", "putOnHold"}
    BY <1>1 DEF Before, After
  <2> QED BY <1>1, <2>1 DEF Plain, Stages
<1>5. Known'
  BY <1>1, <1>2 DEF Plain, Known
<1>6. NoTaskLost'
  <2>1. ASSUME NEW f, HeldByWorker(f) PROVE HeldByWorker(f)' \/ Ended(f)
    <3>1. PICK u \in Workers : pc[u] \in Holding /\ ft[u].task = f
      BY <2>1 DEF HeldByWorker
    <3> QED BY <1>1, <3>1 DEF HeldByWorker
  <2> QED BY <1>1, <2>1 DEF Plain, NoTaskLost, Ended, Queued
<1> QED BY <1>1, <1>3, <1>4, <1>5, <1>6 DEF Plain

\* A worker puts a fiber that yielded READY at the end of the list.
LEMMA RequeuePlain ==
  ASSUME Shape, Plain, NEW t \in Workers, SettleReady(t)
  PROVE  Plain'
<1>0. pc[t] \in Holding
  BY DEF SettleReady, Holding
<1>00. PICK f \in Tasks : f = ft[t].task
  BY <1>0, TicketTasks
<1> DEFINE tk == [task |-> f, thread |-> AnyThread, cb |-> FALSE]
           n  == Len(m_fibers)
<1>1. /\ pc[t] = "settle" /\ pc[t] \in Holding /\ m_state[f] = "READY"
      /\ \A u \in Workers : pc'[u] = IF u = t THEN "pick" ELSE pc[u]
      /\ \A u \in Workers : u # t => ft'[u] = ft[u]
      /\ UNCHANGED <<m_state, submitted, armed>>
  BY <1>0, <1>00 DEF SettleReady, Goto, Shape, fiberVars, eventVars
<1>2. tk \in Ticket /\ tk.task = f
  BY DEF Ticket
<1>3. m_fibers' = Append(m_fibers, tk) /\ m_fibers \in Seq(Ticket) /\ n \in Nat
  BY <1>00 DEF SettleReady, schedule, Shape
<1> HIDE DEF tk
<1>4. /\ Len(m_fibers') = n + 1
      /\ \A i \in 1..n : m_fibers'[i] = m_fibers[i]
      /\ m_fibers'[n + 1].task = f
  BY <1>2, <1>3, AppendElements
<1>5. /\ \A i \in 1..Len(m_fibers') : i \in 1..n \/ i = n + 1
      /\ \A i \in 1..n : i \in 1..Len(m_fibers')
      /\ n + 1 \in 1..Len(m_fibers')
  BY <1>3, <1>4
<1>6. \A u \in Workers : pc'[u] \in Holding => u # t /\ pc[u] \in Holding /\ ft'[u] = ft[u]
  BY <1>1 DEF Holding, Counted
<1>7. /\ \A i \in 1..n : m_fibers[i].task # f
      /\ \A u \in Workers : u # t /\ pc[u] \in Holding => ft[u].task # f
      /\ f \in submitted
  BY <1>1, <1>00 DEF Plain, Unique, Known
<1> HIDE DEF n
<1>8. Unique'
  BY <1>4, <1>5, <1>6, <1>7 DEF Plain, Unique, n
<1>9. Stages'
  <2>1. \A i \in 1..Len(m_fibers') : m_state'[m_fibers'[i].task] \in {"INIT", "READY"}
    BY <1>1, <1>4, <1>5 DEF Plain, Stages, n
  <2>2. \A u \in Workers : u # t \/ pc'[u] \notin Before \cup After \cup {"exec", "hold", "putOnHold"}
    BY <1>1 DEF Before, After
  <2> QED BY <1>1, <2>1, <2>2 DEF Plain, Stages
<1>10. Known'
  BY <1>1, <1>4, <1>5, <1>6, <1>7 DEF Plain, Known, n
<1>11. NoTaskLost'
  <2>1. Queued(f)'
    BY <1>4, <1>5 DEF Queued
  <2>2. \A g : Queued(g) => Queued(g)'
    BY <1>4, <1>5 DEF Queued, n
  <2>3. ASSUME NEW g, HeldByWorker(g) PROVE HeldByWorker(g)' \/ g = f
    <3>1. PICK u \in Workers : pc[u] \in Holding /\ ft[u].task = g
      BY <2>3 DEF HeldByWorker
    <3> QED BY <1>00, <1>1, <3>1 DEF HeldByWorker
  <2> QED BY <1>1, <2>1, <2>2, <2>3 DEF Plain, NoTaskLost, Ended
<1> QED BY <1>1, <1>8, <1>9, <1>10, <1>11 DEF Plain

\* The calls of the main thread: a task enters the list, or workers move.
LEMMA MainPlain ==
  ASSUME OneTicketEach, Shape, Plain, Main \/ Submit
  PROVE  Plain'
<1> USE DEF fiberVars, eventVars
<1>1. ASSUME NEW f \in Tasks, NEW th \in Targets, MainSchedule(f, th) PROVE Plain'
  BY <1>1, EnterPlain DEF MainSchedule
<1>2. ASSUME NEW f \in Tasks, MainReschedule(f) PROVE Plain'
  BY <1>2 DEF MainReschedule, OneTicketEach
<1>3. CASE start
  <2>1. \A u \in Workers : pc'[u] \notin Holding /\ pc[u] \notin Holding
    BY <1>3 DEF start, Shape, MainPos, Holding, Counted
  <2> QED BY <1>3, <2>1, MovePlain DEF start
<1>4. CASE StopFlag
  <2>1. CASE UseCaller
    <3>1. pc[Caller] = "off" /\ pc' = [pc EXCEPT ![Caller] = StoppingEntry]
      BY <1>4, <2>1 DEF StopFlag, Goto, Shape, MainPos
    <3>2. \A u \in Workers : pc'[u] = pc[u] \/ (pc'[u] \notin Holding /\ pc[u] \notin Holding)
      BY <3>1 DEF Shape, StoppingEntry, Holding, Counted
    <3> QED BY <1>4, <3>2, MovePlain DEF StopFlag
  <2>2. CASE ~UseCaller
    BY <1>4, <2>2, MovePlain DEF StopFlag
  <2> QED BY <2>1, <2>2
<1>5. CASE stop
  BY <1>5, MovePlain DEF stop
<1>6. CASE RootFiberBack \/ Join
  BY <1>6, MovePlain DEF RootFiberBack, Join
<1> QED BY <1>1, <1>2, <1>3, <1>4, <1>5, <1>6 DEF Main, Submit

\* Plain tells no two of the positions apart that the worker moves between.
LEMMA GotoPlain ==
  ASSUME Shape, Plain, NEW t \in Workers, NEW l, Goto(t, l),
         UNCHANGED <<m_fibers, ft, m_state, submitted, armed>>,
         \/ l \notin Holding /\ pc[t] \notin Holding
         \/ l \in Before /\ pc[t] \in Before
         \/ l \in After /\ pc[t] \in After
  PROVE  Plain'
<1>1. \A u \in Workers : pc'[u] = IF u = t THEN l ELSE pc[u]
  BY DEF Goto, Shape
<1> QED BY <1>1, MovePlain

\* The steps of run() up to the idle fiber; Drop, SettleOther and PutOnHold
\* are never reached by tasks with one ticket.
LEMMA RunPlain ==
  ASSUME OneTicketEach, Shape, Plain, NEW t \in Workers,
         \/ Take(t) \/ Count(t) \/ NothingToTake(t) \/ Dispatch(t) \/ Drop(t)
         \/ SwapIn(t) \/ SwapOut(t) \/ Uncount(t) \/ SettleReady(t)
         \/ SettleEnded(t) \/ SettleOther(t) \/ PutOnHold(t)
  PROVE  Plain'
<1> USE DEF fiberVars, eventVars
<1>0. /\ pc[t] = "dispatch" => ~Ended(ft[t].task)
      /\ pc[t] = "settle" => Ended(ft[t].task) \/ m_state[ft[t].task] = "READY"
      /\ pc[t] # "putOnHold"
  BY DEF Plain, Stages, Ended, Before, After
<1>1. CASE Take(t)            BY <1>1, TakePlain
<1>2. CASE Count(t)           BY <1>2, GotoPlain DEF Count, Before
<1>3. CASE NothingToTake(t)
  <2>1. PICK l \in {"exited", "idle"} : Goto(t, l)
    BY <1>3 DEF NothingToTake
  <2>2. pc[t] \notin Holding /\ l \notin Holding
    BY <1>3, <2>1 DEF NothingToTake, Holding, Counted
  <2> QED BY <1>3, <2>1, <2>2, GotoPlain DEF NothingToTake
<1>4. CASE Dispatch(t)        BY <1>4, GotoPlain DEF Dispatch, Before
<1>5. CASE Drop(t)            BY <1>0, <1>5 DEF Drop
<1>6. CASE SwapIn(t)
  BY <1>6, StatePlain DEF SwapIn, Holding, Counted, FiberState
<1>7. CASE SwapOut(t)         BY <1>7, GotoPlain DEF SwapOut, After
<1>8. CASE Uncount(t)         BY <1>8, GotoPlain DEF Uncount, After
<1>9. CASE SettleReady(t)     BY <1>9, RequeuePlain
<1>10. CASE SettleEnded(t)    BY <1>10, ReleasePlain
<1>11. CASE SettleOther(t)    BY <1>0, <1>11 DEF SettleOther
<1>12. CASE PutOnHold(t)      BY <1>0, <1>12 DEF PutOnHold
<1> QED
  BY <1>1, <1>2, <1>3, <1>4, <1>5, <1>6, <1>7, <1>8, <1>9, <1>10, <1>11, <1>12

\* What a step of the idle fiber or of stopping() does to the worker: it
\* holds no ticket before or after, and the pool is not touched.
LEMMA IdleMoves ==
  ASSUME Shape, NEW t \in Workers,
         \/ EnterIdle(t) \/ ReadPending(t) \/ ReadFlags(t) \/ ReadEmpty(t)
         \/ ReadActive(t) \/ LeaveIdle(t)
  PROVE  /\ \E l \in {"off", "pick"} \cup Idling :
               Goto(t, l) /\ l \notin Holding /\ pc[t] \notin Holding
         /\ pc[t] \in {"idle"} \cup Idling
         /\ UNCHANGED <<m_fibers, ft, m_state, submitted, armed, m_autoStop>>
<1> USE DEF fiberVars, eventVars, stopVars, Holding, Counted, Idling
<1>1. CASE EnterIdle(t)
  BY <1>1 DEF EnterIdle, StoppingEntry
<1>2. CASE LeaveIdle(t)
  BY <1>2 DEF LeaveIdle
<1>3. CASE ReadPending(t)
  BY <1>3 DEF ReadPending, Operand, StoppingReturns
<1>4. CASE ReadFlags(t)
  BY <1>4 DEF ReadFlags, Operand, StoppingReturns
<1>5. CASE ReadEmpty(t)
  BY <1>5 DEF ReadEmpty, Operand, StoppingReturns
<1>6. CASE ReadActive(t)
  BY <1>6 DEF ReadActive, StoppingReturns
<1> QED BY <1>1, <1>2, <1>3, <1>4, <1>5, <1>6

\* A running task: it ends, yields, or hands over another task.
LEMMA BodyPlain ==
  ASSUME OneTicketEach, Shape, Plain, NEW t \in Workers, Body(t)
  PROVE  Plain'
<1> USE DEF fiberVars, eventVars
<1>1. CASE Finish(t)
  BY <1>1, StatePlain DEF Finish, Holding, Counted, FiberState
<1>2. CASE YieldToReady(t)
  BY <1>2, StatePlain DEF YieldToReady, Holding, Counted, FiberState
<1>3. CASE Wait(t)
  BY <1>3 DEF Wait, OneTicketEach
<1>4. CASE YieldToHold(t)
  BY <1>4 DEF YieldToHold, Plain, Stages
<1>5. ASSUME NEW f \in Tasks, NEW th \in Targets, TaskSchedule(t, f, th) PROVE Plain'
  BY <1>5, EnterPlain DEF TaskSchedule
<1> QED BY <1>1, <1>2, <1>3, <1>4, <1>5 DEF Body

\* Plain is an invariant when every task has one ticket at a time.
THEOREM PlainInvariant ==
  ASSUME OneTicketEach
  PROVE  Spec => []Plain
<1>1. ASSUME Shape, Plain, [Next]_vars PROVE Plain'
  <2>1. CASE Main \/ Submit
    BY <1>1, <2>1, MainPlain
  <2>2. CASE Events
    <3>1. ASSUME NEW f \in Tasks, Trigger(f) PROVE Plain'
      BY <1>1, <3>1 DEF Trigger, Plain
    <3>2. CASE Triggered
      BY <1>1, <3>2, MovePlain DEF Triggered, fiberVars
    <3> QED BY <2>2, <3>1, <3>2 DEF Events
  <2>3. CASE UNCHANGED vars
    BY <1>1, <2>3, MovePlain DEF vars
  <2>4. ASSUME NEW t \in Workers, Run(t) PROVE Plain'
    <3>1. CASE \/ EnterIdle(t) \/ ReadPending(t) \/ ReadFlags(t) \/ ReadEmpty(t)
               \/ ReadActive(t) \/ LeaveIdle(t)
      BY <1>1, <3>1, IdleMoves, GotoPlain
    <3> QED BY <1>1, <2>4, <3>1, RunPlain DEF Run
  <2>5. ASSUME NEW t \in Workers, Body(t) PROVE Plain'
    BY <1>1, <2>5, BodyPlain
  <2> QED BY <1>1, <2>1, <2>2, <2>3, <2>4, <2>5 DEF Next, Terminated
<1>2. Shape /\ Plain /\ [Next]_vars => Plain'
  BY <1>1
<1> QED BY InitPlain, <1>2, ShapeInvariant, PTL DEF Spec

\* No two threads run on one fiber's stack: the test for EXEC under m_mutex
\* and the removal of the ticket are enough when a task has one ticket.
THEOREM RunsExclusively ==
  ASSUME OneTicketEach
  PROVE  Spec => []ExclusiveRun
<1>1. Plain => ExclusiveRun
  BY DEF Plain, Unique, ExclusiveRun, OnStack, Holding, Counted
<1> QED BY PlainInvariant, <1>1, PTL

\* No path through run() drops a task that has not ended, on whichever thread
\* it was bound.
THEOREM LosesNoTask ==
  ASSUME OneTicketEach
  PROVE  Spec => []NoTaskLost
<1>1. Plain => NoTaskLost
  BY DEF Plain
<1> QED BY PlainInvariant, <1>1, PTL
-----------------------------------------------------------------------------
(* The list is empty when the last worker has left.                        *)

\* A worker that moves inside run() leaves nothing behind.
LEMMA MoveDrained ==
  ASSUME Shape, Drained, NEW t \in Workers, NEW l, Goto(t, l),
         pc[t] \notin {"off", "exited"}, l \notin {"exited", "empty", "active"},
         UNCHANGED <<mpc, m_fibers, idleTerm, m_autoStop>>
  PROVE  Drained'
<1>1. \A u \in Workers : pc'[u] = IF u = t THEN l ELSE pc[u]
  BY DEF Goto, Shape
<1>2. NoneBound' /\ LeaveFlags'
  BY <1>1 DEF Drained, NoneBound, LeaveFlags
<1>3. Children \subseteq Workers /\ (UseCaller => Caller \in Workers)
  BY DEF Workers
<1>4. LeavePos'
  BY <1>1, <1>3 DEF Drained, LeavePos
<1>5. mpc = "probe" => Caller \in Workers
  BY <1>3 DEF Shape, MainPos
<1>6. LastLeaves'
  <2>1. \A u \in Workers : Gone(u)' => Gone(u)
    BY <1>1 DEF Gone
  <2>2. \A u \in Children : pc[u] # "exited" => pc'[u] # "exited"
    BY <1>1, <1>3
  <2>3. mpc = "probe" /\ pc'[Caller] = "active" => pc[Caller] = "active"
    BY <1>1, <1>5
  <2> QED BY <2>1, <2>2, <2>3 DEF Drained, LastLeaves
<1> QED BY <1>2, <1>4, <1>6 DEF Drained

\* A worker inside run() is not gone; if stop() is probing on the caller's
\* thread, the worker is one of the children.
LEMMA InsideRun ==
  ASSUME Shape, Drained, NEW t \in Workers, pc[t] \notin {"off", "exited"}
  PROVE  /\ ~Gone(t)
         /\ mpc = "probe" /\ pc[t] \notin StopRead => t \in Children
<1>1. t \in Children \/ (UseCaller /\ t = Caller)
  BY DEF Workers
<1>2. ~Gone(t)
  BY <1>1, ConstantsAssumption DEF Gone, Drained, LeavePos
<1>3. mpc = "probe" /\ pc[t] \notin StopRead => t \in Children
  BY <1>1 DEF Shape, MainPos
<1> QED BY <1>2, <1>3

\* A ticket is added by somebody who is not gone.
LEMMA AddDrained ==
  ASSUME Shape, Drained, NEW tk \in Ticket, tk.thread = AnyThread,
         m_fibers' = Append(m_fibers, tk),
         UNCHANGED <<mpc, pc, idleTerm, m_autoStop>>,
         \E u \in Workers : ~Gone(u),
         mpc = "probe" => \E u \in Children : pc[u] # "exited"
  PROVE  Drained'
<1>1. NoneBound'
  <2>1. m_fibers \in Seq(Ticket) /\ Len(m_fibers) \in Nat
    BY DEF Shape
  <2>2. /\ Len(m_fibers') = Len(m_fibers) + 1
        /\ \A i \in 1..Len(m_fibers) : m_fibers'[i] = m_fibers[i]
        /\ m_fibers'[Len(m_fibers) + 1] = tk
    BY <2>1, AppendElements
  <2>3. \A i \in 1..Len(m_fibers') : i \in 1..Len(m_fibers) \/ i = Len(m_fibers) + 1
    BY <2>1, <2>2
  <2> QED BY <2>2, <2>3 DEF Drained, NoneBound
<1>2. LeaveFlags' /\ LeavePos'
  BY DEF Drained, LeaveFlags, LeavePos
<1>3. LastLeaves'
  BY DEF LastLeaves, Gone
<1> QED BY <1>1, <1>2, <1>3 DEF Drained

\* The calls of the main thread.
LEMMA MainDrained ==
  ASSUME OneTicketEach, UnboundOnly, Shape, Drained, Main \/ Submit
  PROVE  Drained'
<1> USE ConstantsAssumption DEF fiberVars, eventVars, stopVars
<1>0. Children \subseteq Workers /\ (UseCaller => Caller \in Workers)
      /\ (Caller \in Workers => UseCaller)
  BY DEF Workers
<1>1. ASSUME NEW f \in Tasks, NEW th \in Targets, MainSchedule(f, th) PROVE Drained'
  <2>1. NewTicket(f, th) \in Ticket /\ NewTicket(f, th).thread = AnyThread
    BY DEF NewTicket, Ticket, UnboundOnly
  <2>2. \E u \in Workers : ~Gone(u)
    BY <1>1 DEF MainSchedule, Gone, Drained, LeaveFlags
  <2> QED BY <1>1, <2>1, <2>2, AddDrained DEF MainSchedule, schedule
<1>2. ASSUME NEW f \in Tasks, MainReschedule(f) PROVE Drained'
  BY <1>2 DEF MainReschedule, OneTicketEach
<1>3. CASE start
  <2>1. \A u \in Workers : pc'[u] \in {"off", "pick"}
    BY <1>3 DEF start, Shape, MainPos
  <2>2. LeaveFlags' /\ LeavePos' /\ NoneBound'
    BY <1>3, <2>1 DEF start, Drained, LeaveFlags, LeavePos, NoneBound
  <2>3. LastLeaves'
    BY <1>3, <2>1 DEF start, LastLeaves, Gone
  <2> QED BY <2>2, <2>3 DEF Drained
<1>4. CASE stop
  BY <1>4 DEF stop, Drained, NoneBound, LeaveFlags, LeavePos, LastLeaves, Gone
<1>5. CASE StopFlag
  <2>1. CASE UseCaller
    <3>1. Caller \in Workers
      BY <1>0, <2>1
    <3>2. PICK l \in {"pend", "flags"} : pc' = [pc EXCEPT ![Caller] = l]
      BY <1>5, <2>1 DEF StopFlag, Goto, StoppingEntry
    <3>3. pc'[Caller] = l /\ \A u \in Workers : u # Caller => pc'[u] = pc[u]
      BY <3>1, <3>2 DEF Shape
    <3>4. NoneBound' /\ LeaveFlags' /\ LeavePos'
      BY <1>5, <2>1, <3>3 DEF StopFlag, Drained, NoneBound, LeaveFlags, LeavePos
    <3>5. LastLeaves'
      BY <1>5, <2>1, <3>1, <3>3 DEF StopFlag, LastLeaves, Gone
    <3> QED BY <3>4, <3>5 DEF Drained
  <2>2. CASE ~UseCaller
    <3>1. NoneBound' /\ LeaveFlags' /\ LeavePos'
      BY <1>5, <2>2 DEF StopFlag, Drained, NoneBound, LeaveFlags, LeavePos
    <3>2. LastLeaves'
      BY <1>0, <1>5, <2>2 DEF StopFlag, Drained, LastLeaves, Gone
    <3> QED BY <3>1, <3>2 DEF Drained
  <2> QED BY <2>1, <2>2
<1>6. CASE RootFiberBack
  BY <1>6 DEF RootFiberBack, Drained, NoneBound, LeaveFlags, LeavePos, LastLeaves, Gone
<1>7. CASE Join
  BY <1>7 DEF Join, Drained, NoneBound, LeaveFlags, LeavePos, LastLeaves, Gone
<1> QED BY <1>1, <1>2, <1>3, <1>4, <1>5, <1>6, <1>7 DEF Main, Submit

\* A worker takes a ticket: it is inside run() and stays there.
LEMMA TakeDrained ==
  ASSUME Shape, Drained, NEW t \in Workers, Take(t)
  PROVE  Drained'
<1>1. PICK i \in 1..Len(m_fibers) : m_fibers' = RemoveAt(m_fibers, i)
  BY DEF Take
<1>2. /\ pc[t] = "pick" /\ UNCHANGED <<mpc, idleTerm, m_autoStop>>
      /\ \A u \in Workers : pc'[u] = IF u = t THEN "count" ELSE pc[u]
  BY DEF Take, Goto, Shape, stopVars
<1>3. Children \subseteq Workers /\ (UseCaller => Caller \in Workers)
  BY DEF Workers
<1>4. NoneBound'
  <2>1. m_fibers \in Seq(Ticket) /\ Len(m_fibers) \in Nat
    BY DEF Shape
  <2>2. /\ Len(m_fibers') = Len(m_fibers) - 1
        /\ \A j \in 1..(Len(m_fibers) - 1) :
              m_fibers'[j] = IF j < i THEN m_fibers[j] ELSE m_fibers[j + 1]
    BY <1>1, <2>1, RemoveAtElements
  <2>3. \A j \in 1..(Len(m_fibers) - 1) : j \in 1..Len(m_fibers) /\ j + 1 \in 1..Len(m_fibers)
    BY <2>1
  <2> QED BY <2>2, <2>3 DEF Drained, NoneBound
<1>5. LeaveFlags' /\ LeavePos'
  BY <1>2, <1>3 DEF Drained, LeaveFlags, LeavePos
<1>6. ~Gone(t)' /\ (mpc = "probe" => t \in Children)
  BY <1>2, InsideRun DEF Gone, StopRead
<1>7. LastLeaves'
  BY <1>2, <1>6 DEF LastLeaves
<1> QED BY <1>4, <1>5, <1>7 DEF Drained

\* A worker that finds nothing to take has seen the list empty: it leaves
\* run(), or tries stopping() first.
LEMMA NothingDrained ==
  ASSUME Shape, Plain, Drained, NEW t \in Workers, NothingToTake(t)
  PROVE  Drained'
<1>1. m_fibers = <<>>
  <2>1. ASSUME NEW i \in 1..Len(m_fibers) PROVE FALSE
    BY DEF NothingToTake, Eligible, Drained, NoneBound, Plain, Stages
  <2>2. Len(m_fibers) \in Nat /\ m_fibers \in Seq(Ticket)
    BY DEF Shape
  <2>3. Len(m_fibers) = 0
    BY <2>1, <2>2
  <2> QED BY <2>2, <2>3, EmptySeq
<1>2. PICK l \in {"exited", "idle"} :
         /\ \A u \in Workers : pc'[u] = IF u = t THEN l ELSE pc[u]
         /\ l = "exited" => t \in idleTerm
  BY DEF NothingToTake, Goto, Shape
<1>3. pc[t] = "pick" /\ UNCHANGED <<mpc, m_fibers, idleTerm, m_autoStop>>
  BY DEF NothingToTake, stopVars
<1>4. Children \subseteq Workers /\ (UseCaller => Caller \in Workers)
  BY DEF Workers
<1>5. NoneBound' /\ LeaveFlags' /\ LeavePos'
  BY <1>2, <1>3, <1>4 DEF Drained, NoneBound, LeaveFlags, LeavePos
<1>6. LastLeaves'
  BY <1>1, <1>3 DEF LastLeaves
<1> QED BY <1>5, <1>6 DEF Drained

\* A worker puts a fiber that yielded back and looks for the next ticket.
LEMMA RequeueDrained ==
  ASSUME Shape, Drained, NEW t \in Workers, SettleReady(t)
  PROVE  Drained'
<1>0. pc[t] \in Holding
  BY DEF SettleReady, Holding
<1>1. PICK f \in Tasks : f = ft[t].task
  BY <1>0, TicketTasks
<1> DEFINE tk == [task |-> f, thread |-> AnyThread, cb |-> FALSE]
<1>2. tk \in Ticket /\ tk.thread = AnyThread
  BY DEF Ticket
<1>3. m_fibers' = Append(m_fibers, tk) /\ m_fibers \in Seq(Ticket) /\ Len(m_fibers) \in Nat
  BY <1>1 DEF SettleReady, schedule, Shape
<1>4. /\ pc[t] = "settle" /\ UNCHANGED <<mpc, idleTerm, m_autoStop>>
      /\ \A u \in Workers : pc'[u] = IF u = t THEN "pick" ELSE pc[u]
  BY DEF SettleReady, Goto, Shape, stopVars
<1>5. Children \subseteq Workers /\ (UseCaller => Caller \in Workers)
  BY DEF Workers
<1> HIDE DEF tk
<1>6. NoneBound'
  <2>2. /\ Len(m_fibers') = Len(m_fibers) + 1
        /\ \A i \in 1..Len(m_fibers) : m_fibers'[i] = m_fibers[i]
        /\ m_fibers'[Len(m_fibers) + 1] = tk
    BY <1>2, <1>3, AppendElements
  <2>3. \A i \in 1..Len(m_fibers') : i \in 1..Len(m_fibers) \/ i = Len(m_fibers) + 1
    BY <1>3, <2>2
  <2> QED BY <1>2, <2>2, <2>3 DEF Drained, NoneBound
<1>7. LeaveFlags' /\ LeavePos'
  BY <1>4, <1>5 DEF Drained, LeaveFlags, LeavePos
<1>8. ~Gone(t)' /\ (mpc = "probe" => t \in Children)
  BY <1>4, InsideRun DEF Gone, StopRead
<1>9. LastLeaves'
  BY <1>4, <1>8 DEF LastLeaves
<1> QED BY <1>6, <1>7, <1>9 DEF Drained

\* The other steps of run().
LEMMA RunDrained ==
  ASSUME OneTicketEach, Shape, Plain, Drained, NEW t \in Workers,
         \/ Take(t) \/ Count(t) \/ NothingToTake(t) \/ Dispatch(t) \/ Drop(t)
         \/ SwapIn(t) \/ SwapOut(t) \/ Uncount(t) \/ SettleReady(t)
         \/ SettleEnded(t) \/ SettleOther(t) \/ PutOnHold(t)
  PROVE  Drained'
<1> USE DEF fiberVars, eventVars, stopVars
<1>1. CASE Take(t)            BY <1>1, TakeDrained
<1>2. CASE Count(t)           BY <1>2, MoveDrained DEF Count
<1>3. CASE NothingToTake(t)   BY <1>3, NothingDrained
<1>4. CASE Dispatch(t)        BY <1>4, MoveDrained DEF Dispatch
<1>5. CASE Drop(t)            BY <1>5, MoveDrained DEF Drop
<1>6. CASE SwapIn(t)          BY <1>6, MoveDrained DEF SwapIn
<1>7. CASE SwapOut(t)         BY <1>7, MoveDrained DEF SwapOut
<1>8. CASE Uncount(t)         BY <1>8, MoveDrained DEF Uncount
<1>9. CASE SettleReady(t)     BY <1>9, RequeueDrained
<1>10. CASE SettleEnded(t)    BY <1>10, MoveDrained DEF SettleEnded
<1>11. CASE SettleOther(t)    BY <1>11, MoveDrained DEF SettleOther
<1>12. CASE PutOnHold(t)      BY <1>12, MoveDrained DEF PutOnHold
<1> QED
  BY <1>1, <1>2, <1>3, <1>4, <1>5, <1>6, <1>7, <1>8, <1>9, <1>10, <1>11, <1>12

\* The idle fiber and stopping(): the flags are read before the list, and the
\* list before a worker decides to leave.
LEMMA IdleDrained ==
  ASSUME Shape, Drained, NEW t \in Workers,
         \/ EnterIdle(t) \/ ReadPending(t) \/ ReadFlags(t) \/ ReadEmpty(t)
         \/ ReadActive(t) \/ LeaveIdle(t)
  PROVE  Drained'
<1> USE DEF fiberVars, eventVars, stopVars
<1>0. Children \subseteq Workers /\ (UseCaller => Caller \in Workers)
      /\ (Caller \in Workers => UseCaller)
  BY ConstantsAssumption DEF Workers
<1>1. CASE EnterIdle(t)
  BY <1>1, MoveDrained DEF EnterIdle, StoppingEntry
<1>2. CASE LeaveIdle(t)
  BY <1>2, MoveDrained DEF LeaveIdle
<1>3. ASSUME pc[t] \in StopRead, StoppingReturns(t, FALSE), UNCHANGED <<m_fibers, m_autoStop>>
      PROVE  Drained'
  <2>1. CASE t = Caller /\ mpc = "probe"
    <3>1. mpc' = "call" /\ idleTerm' = idleTerm
          /\ \A u \in Workers : pc'[u] = IF u = t THEN "pick" ELSE pc[u]
      BY <1>3, <2>1 DEF StoppingReturns, Goto, Shape
    <3>2. NoneBound' /\ LeaveFlags' /\ LeavePos'
      BY <1>3, <3>1 DEF Drained, NoneBound, LeaveFlags, LeavePos
    <3>3. LastLeaves'
      BY <3>1 DEF LastLeaves, Gone
    <3> QED BY <3>2, <3>3 DEF Drained
  <2>2. CASE ~(t = Caller /\ mpc = "probe")
    BY <1>3, <2>2, MoveDrained DEF StoppingReturns, StopRead
  <2> QED BY <2>1, <2>2
<1>4. CASE ReadPending(t)
  <2>1. CASE m_pendingEventCount = 0
    BY <1>4, <2>1, MoveDrained DEF ReadPending, Operand
  <2>2. CASE m_pendingEventCount # 0
    BY <1>3, <1>4, <2>2 DEF ReadPending, Operand, StopRead
  <2> QED BY <2>1, <2>2
<1>5. ASSUME NEW l \in {"empty", "active"}, Goto(t, l), m_autoStop,
             pc[t] \in StopRead, l = "active" => m_fibers = <<>>,
             UNCHANGED <<mpc, m_fibers, idleTerm, m_autoStop>>
      PROVE  Drained'
  <2>1. \A u \in Workers : pc'[u] = IF u = t THEN l ELSE pc[u]
    BY <1>5 DEF Goto, Shape
  <2>2. NoneBound' /\ LeaveFlags' /\ LeavePos'
    BY <1>0, <1>5, <2>1 DEF Drained, NoneBound, LeaveFlags, LeavePos, StopRead
  <2>3. ~Gone(t) /\ \A u \in Workers : Gone(u)' => Gone(u)
    BY <1>5, <2>1, InsideRun DEF Gone, StopRead
  <2>4. mpc = "probe" => Caller \in Workers
    BY <1>0 DEF Shape, MainPos
  <2>5. LastLeaves'
    BY <1>0, <1>5, <2>1, <2>3, <2>4 DEF Drained, LastLeaves
  <2> QED BY <2>2, <2>5 DEF Drained
<1>6. CASE ReadFlags(t)
  <2>1. CASE m_autoStop /\ m_stopping
    BY <1>5, <1>6, <2>1 DEF ReadFlags, Operand, StopRead
  <2>2. CASE ~(m_autoStop /\ m_stopping)
    BY <1>3, <1>6, <2>2 DEF ReadFlags, Operand, StopRead
  <2> QED BY <2>1, <2>2
<1>7. CASE ReadEmpty(t)
  <2>1. CASE m_fibers = <<>>
    <3>1. m_autoStop
      BY <1>7 DEF ReadEmpty, Operand, Drained, LeaveFlags
    <3> QED BY <1>5, <1>7, <2>1, <3>1 DEF ReadEmpty, Operand, StopRead
  <2>2. CASE m_fibers # <<>>
    BY <1>3, <1>7, <2>2 DEF ReadEmpty, Operand, StopRead
  <2> QED BY <2>1, <2>2
<1>8. CASE ReadActive(t)
  <2>1. CASE m_activateThreadCount # 0
    BY <1>3, <1>8, <2>1 DEF ReadActive, StopRead
  <2>2. CASE m_activateThreadCount = 0 /\ t = Caller /\ mpc = "probe"
    <3>1. /\ mpc' = "join" /\ pc[t] = "active" /\ UNCHANGED <<m_fibers, idleTerm, m_autoStop>>
          /\ \A u \in Workers : pc'[u] = IF u = t THEN "off" ELSE pc[u]
      BY <1>8, <2>2 DEF ReadActive, StoppingReturns, Goto, Shape
    <3>2. NoneBound' /\ LeaveFlags' /\ LeavePos'
      BY <2>2, <3>1 DEF Drained, NoneBound, LeaveFlags, LeavePos
    <3>3. \A u \in Children : Gone(u)' => pc[u] = "exited"
      BY <1>0, <2>2, <3>1, ConstantsAssumption DEF Gone
    <3>4. LastLeaves'
      BY <1>0, <2>2, <3>1, <3>3 DEF Drained, LastLeaves
    <3> QED BY <3>2, <3>4 DEF Drained
  <2>3. CASE m_activateThreadCount = 0 /\ ~(t = Caller /\ mpc = "probe")
    <3>1. /\ pc[t] = "active" /\ idleTerm' = idleTerm \cup {t}
          /\ UNCHANGED <<mpc, m_fibers, m_autoStop>>
          /\ \A u \in Workers : pc'[u] = IF u = t THEN "idleOut" ELSE pc[u]
      BY <1>8, <2>3 DEF ReadActive, StoppingReturns, Goto, Shape
    <3>2. NoneBound' /\ LeaveFlags' /\ LeavePos'
      BY <1>0, <3>1 DEF Drained, NoneBound, LeaveFlags, LeavePos
    <3>3. \A u \in Workers : Gone(u)' => Gone(u)
      BY <3>1 DEF Gone
    <3>4. mpc = "probe" => Caller \in Workers
      BY <1>0 DEF Shape, MainPos
    <3>5. LastLeaves'
      BY <1>0, <3>1, <3>3, <3>4 DEF Drained, LastLeaves
    <3> QED BY <3>2, <3>5 DEF Drained
  <2> QED BY <2>1, <2>2, <2>3
<1> QED BY <1>1, <1>2, <1>4, <1>6, <1>7, <1>8

\* A running task is inside run(): what it hands over is taken.
LEMMA BodyDrained ==
  ASSUME UnboundOnly, Shape, Drained, NEW t \in Workers, Body(t)
  PROVE  Drained'
<1> USE DEF fiberVars, eventVars, stopVars
<1>1. CASE Finish(t)          BY <1>1, MoveDrained DEF Finish
<1>2. CASE YieldToReady(t)    BY <1>2, MoveDrained DEF YieldToReady
<1>3. CASE Wait(t)            BY <1>3, MoveDrained DEF Wait
<1>4. CASE YieldToHold(t)     BY <1>4, MoveDrained DEF YieldToHold
<1>5. ASSUME NEW f \in Tasks, NEW th \in Targets, TaskSchedule(t, f, th) PROVE Drained'
  <2>1. NewTicket(f, th) \in Ticket /\ NewTicket(f, th).thread = AnyThread
    BY ConstantsAssumption DEF NewTicket, Ticket, UnboundOnly
  <2>2. ~Gone(t) /\ (mpc = "probe" => t \in Children)
    BY <1>5, InsideRun DEF TaskSchedule, StopRead
  <2>3. pc[t] = "exec"
    BY <1>5 DEF TaskSchedule
  <2> QED BY <1>5, <2>1, <2>2, <2>3, AddDrained DEF TaskSchedule, schedule
<1> QED BY <1>1, <1>2, <1>3, <1>4, <1>5 DEF Body

\* Everybody is there when the scheduler has been constructed.
LEMMA InitDrained == Init => Drained
<1> SUFFICES ASSUME Init PROVE Drained
  OBVIOUS
<1>1. m_fibers = <<>> /\ Len(m_fibers) = 0 /\ mpc = "constructed" /\ \A t \in Workers : pc[t] = "off"
  BY DEF Init
<1>2. NoneBound /\ LastLeaves
  BY <1>1 DEF NoneBound, LastLeaves
<1>3. LeaveFlags /\ LeavePos
  BY <1>1 DEF Init, LeaveFlags, LeavePos
<1> QED BY <1>2, <1>3 DEF Drained

\* Drained is an invariant when no task is bound to a thread.
THEOREM DrainedInvariant ==
  ASSUME OneTicketEach, UnboundOnly
  PROVE  Spec => []Drained
<1>1. ASSUME Shape, Plain, Drained, [Next]_vars PROVE Drained'
  <2>1. CASE Main \/ Submit
    BY <1>1, <2>1, MainDrained
  <2>2. CASE Events
    <3>1. ASSUME NEW f \in Tasks, Trigger(f) PROVE FALSE
      BY <1>1, <3>1 DEF Trigger, Plain
    <3>2. CASE Triggered
      BY <1>1, <3>2 DEF Triggered, stopVars, Drained, NoneBound, LeaveFlags, LeavePos,
                        LastLeaves, Gone
    <3> QED BY <2>2, <3>1, <3>2 DEF Events
  <2>3. CASE UNCHANGED vars
    BY <1>1, <2>3 DEF vars, Drained, NoneBound, LeaveFlags, LeavePos, LastLeaves, Gone
  <2>4. ASSUME NEW t \in Workers, Run(t) PROVE Drained'
    BY <1>1, <2>4, RunDrained, IdleDrained DEF Run
  <2>5. ASSUME NEW t \in Workers, Body(t) PROVE Drained'
    BY <1>1, <2>5, BodyDrained
  <2> QED BY <1>1, <2>1, <2>2, <2>3, <2>4, <2>5 DEF Next, Terminated
<1>2. Shape /\ Plain /\ Drained /\ [Next]_vars => Drained'
  BY <1>1
<1> QED BY InitDrained, <1>2, ShapeInvariant, PlainInvariant, PTL DEF Spec

\* Once the joins succeed no worker is left, the list is empty and every task
\* that was handed over has ended.
LEMMA JoinedIsDrained ==
  ASSUME Shape, Plain, Drained,
         \/ mpc = "stopped"
         \/ mpc = "join" /\ \A t \in Children : pc[t] = "exited"
  PROVE  /\ \A t \in Workers : pc[t] \notin Holding
         /\ m_fibers = <<>> /\ Len(m_fibers) = 0
         /\ \A f \in submitted : Ended(f)
<1>1. \A t \in Workers : t \in Children \/ (UseCaller /\ t = Caller)
  BY DEF Workers
<1>2. \A t \in Workers : Gone(t) /\ pc[t] \notin Holding
  BY <1>1 DEF Drained, LeavePos, Gone, Holding, Counted
<1>3. m_fibers = <<>> /\ Len(m_fibers) = 0
  BY <1>2 DEF Drained, LastLeaves
<1> QED BY <1>2, <1>3 DEF Plain, NoTaskLost, Queued, HeldByWorker

\* stop() leaves nothing behind, although workers decide to leave on unlocked
\* reads of the list and the counter and a task may be handing over another
\* one meanwhile.
THEOREM StopLeavesNothing ==
  ASSUME OneTicketEach, UnboundOnly
  PROVE  Spec => []StopDrains
<1>1. Shape /\ Plain /\ Drained => StopDrains
  BY JoinedIsDrained DEF StopDrains
<1> QED BY <1>1, ShapeInvariant, PlainInvariant, DrainedInvariant, PTL
-----------------------------------------------------------------------------
(* One worker: tasks may wait for events and be handed over twice.         *)

\* The scheduler runs on one thread.
LoneWorker == \A t, u \in Workers : t = u

\* Only a scheduler whose stopping() counts the registered events has tasks
\* that register for one.
EventsCounted == IOStopping \/ Waiters = {}

\* An event will schedule the fiber, or has.
Awaited(f) == f \in armed \/ Queued(f)

\* What the position of a worker says about the fiber it holds.
Position(t) ==
    LET f == ft[t].task
    IN  /\ pc[t] \in {"count", "dispatch"} /\ ft[t].cb => ~Ended(f)
        /\ pc[t] = "swapIn" => ~Ended(f)
        /\ pc[t] \in {"exec", "hold"} => m_state[f] = "EXEC"
        /\ pc[t] \in After => /\ m_state[f] # "EXEC"
                              /\ Ended(f) \/ m_state[f] = "READY" \/ Awaited(f)
        /\ pc[t] = "putOnHold" => m_state[f] # "EXEC" /\ ~Ended(f)
        /\ pc[t] \in {"hold", "putOnHold"} => Awaited(f)

\* The ticket that holds a function is the first its task gets.
FirstTicket ==
    \A i \in 1..Len(m_fibers) : m_fibers[i].cb =>
       LET f == m_fibers[i].task
       IN  /\ f \in Callbacks \ armed
           /\ ~Ended(f)
           /\ \A j \in 1..Len(m_fibers) : m_fibers[j].task = f => j = i
           /\ \A t \in Workers : pc[t] \in Holding => ft[t].task # f

Lone ==
    /\ armed \subseteq submitted
    /\ Known
    /\ \A t \in Workers : Position(t)
    /\ FirstTicket
    /\ NoTaskLost

\* The worker will not take another ticket.
Left(t) == t \in idleTerm \/ (t = Caller /\ mpc \in {"join", "stopped"})

\* What a worker has seen on its way through stopping() is still so.
Seen(t) ==
    /\ pc[t] \in {"flags", "empty", "active"} => armed = {}
    /\ pc[t] = "active" => m_fibers = <<>>
    /\ t \in idleTerm => pc[t] \in {"idleOut", "pick", "exited"}
    /\ Left(t) => m_autoStop /\ m_fibers = <<>> /\ armed = {}

Leaving ==
    /\ LeaveFlags
    /\ LeavePos
    /\ ~IOStopping => armed = {}
    /\ \A t \in Workers : Seen(t)

\* The lone worker's invariant holds when the scheduler has been constructed.
LEMMA InitLone == Init => Lone
<1> SUFFICES ASSUME Init PROVE Lone
  OBVIOUS
<1>1. /\ Len(m_fibers) = 0 /\ submitted = {} /\ armed = {}
      /\ \A t \in Workers : pc[t] = "off"
  BY DEF Init
<1>2. Known /\ NoTaskLost /\ FirstTicket
  BY <1>1 DEF Init, Known, NoTaskLost, FirstTicket, Holding, Counted
<1>3. \A t \in Workers : Position(t)
  BY <1>1 DEF Position, After
<1> QED BY <1>1, <1>2, <1>3 DEF Lone

\* schedule() adds one ticket: the tasks in the list and its own.
LEMMA QueuedAppend ==
  ASSUME Shape, NEW tk \in Ticket, m_fibers' = Append(m_fibers, tk)
  PROVE  /\ Len(m_fibers) \in Nat
         /\ Len(m_fibers') = Len(m_fibers) + 1
         /\ \A i : i \in 1..Len(m_fibers') <=> i \in 1..Len(m_fibers) \/ i = Len(m_fibers) + 1
         /\ \A i \in 1..Len(m_fibers) : m_fibers'[i] = m_fibers[i] /\ i # Len(m_fibers) + 1
         /\ m_fibers'[Len(m_fibers) + 1] = tk
         /\ \A f : Queued(f)' <=> Queued(f) \/ f = tk.task
<1>1. m_fibers \in Seq(Ticket) /\ Len(m_fibers) \in Nat
  BY DEF Shape
<1>2. /\ Len(m_fibers') = Len(m_fibers) + 1
      /\ \A i \in 1..Len(m_fibers) : m_fibers'[i] = m_fibers[i]
      /\ m_fibers'[Len(m_fibers) + 1] = tk
  BY <1>1, AppendElements
<1>3. /\ \A i : i \in 1..Len(m_fibers') <=> i \in 1..Len(m_fibers) \/ i = Len(m_fibers) + 1
      /\ \A i \in 1..Len(m_fibers) : i # Len(m_fibers) + 1
  BY <1>1, <1>2
<1>4. \A f : Queued(f)' <=> Queued(f) \/ f = tk.task
  BY <1>2, <1>3 DEF Queued
<1> QED BY <1>1, <1>2, <1>3, <1>4

\* A worker moves and keeps what it holds, or has nothing.
LEMMA MoveLone ==
  ASSUME Lone, UNCHANGED <<m_fibers, ft, m_state, submitted, armed>>,
         \A u \in Workers : pc'[u] \in Holding <=> pc[u] \in Holding,
         \A u \in Workers : Position(u)'
  PROVE  Lone'
<1>1. \A f : (Queued(f)' <=> Queued(f)) /\ (HeldByWorker(f)' <=> HeldByWorker(f))
             /\ (Ended(f)' <=> Ended(f))
  BY DEF Queued, HeldByWorker, Ended
<1>2. Known'
  BY DEF Lone, Known
<1>3. FirstTicket'
  BY <1>1 DEF Lone, FirstTicket
<1>4. NoTaskLost'
  BY <1>1 DEF Lone, NoTaskLost
<1> QED BY <1>2, <1>3, <1>4 DEF Lone

\* A worker that holds no ticket after a step is at no position.
LEMMA NoPosition ==
  ASSUME NEW t \in Workers, pc'[t] \notin Holding
  PROVE  Position(t)'
  BY DEF Position, Holding, Counted, After

\* A ticket is added while the worker stays where it is: a task handed over
\* for the first time or again, or a fiber whose event was triggered.
LEMMA GrowLone ==
  ASSUME Shape, Lone, NEW tk \in Ticket, m_fibers' = Append(m_fibers, tk),
         tk.cb => tk.task \in Callbacks \ submitted,
         ~tk.cb => tk.task \notin Callbacks \/ tk.task \in armed,
         submitted' = submitted \cup {tk.task},
         armed' = armed \/ armed' = armed \ {tk.task},
         UNCHANGED <<pc, ft, m_state>>
  PROVE  Lone'
<1>1. PICK f \in Tasks : f = tk.task
  BY DEF Ticket
<1> DEFINE n == Len(m_fibers)
<1>2. /\ n \in Nat /\ Len(m_fibers') = n + 1
      /\ \A i : i \in 1..Len(m_fibers') <=> i \in 1..n \/ i = n + 1
      /\ \A i \in 1..n : m_fibers'[i] = m_fibers[i] /\ i # n + 1
      /\ m_fibers'[n + 1] = tk
      /\ \A g : Queued(g)' <=> Queued(g) \/ g = f
  BY <1>1, QueuedAppend
<1> HIDE DEF n
<1>3. \A g : (Ended(g)' <=> Ended(g)) /\ (HeldByWorker(g)' <=> HeldByWorker(g))
  BY DEF Ended, HeldByWorker
<1>4. \A g : Awaited(g) => Awaited(g)'
  BY <1>1, <1>2 DEF Awaited
<1>5. armed' \subseteq submitted'
  BY DEF Lone
<1>6. Known'
  BY <1>1, <1>2 DEF Lone, Known, n
<1>7. \A u \in Workers : Position(u)'
  <2> SUFFICES ASSUME NEW u \in Workers PROVE Position(u)'
    OBVIOUS
  <2>1. Position(u)
    BY DEF Lone
  <2> QED BY <1>3, <1>4, <2>1 DEF Position
<1>8. NoTaskLost'
  BY <1>1, <1>2, <1>3 DEF Lone, NoTaskLost
<1>9. FirstTicket'
  <2>1. f \notin submitted =>
           /\ \A i \in 1..n : m_fibers[i].task # f
           /\ \A u \in Workers : pc[u] \in Holding => ft[u].task # f
           /\ ~Ended(f)
           /\ f \notin armed
    BY DEF Lone, Known, Ended, n
  <2>2. \A i \in 1..n : m_fibers[i].cb => m_fibers[i].task # f
    <3> SUFFICES ASSUME NEW i \in 1..n, m_fibers[i].cb, m_fibers[i].task = f PROVE FALSE
      OBVIOUS
    <3>1. f \in Callbacks \ armed
      BY DEF Lone, FirstTicket, n
    <3>2. tk.cb => FALSE
      BY <1>1, <2>1
    <3> QED BY <1>1, <3>1, <3>2
  <2> SUFFICES ASSUME NEW i \in 1..Len(m_fibers'), m_fibers'[i].cb,
                      NEW g, g = m_fibers'[i].task
               PROVE  /\ g \in Callbacks \ armed'
                      /\ ~Ended(g)'
                      /\ \A j \in 1..Len(m_fibers') : m_fibers'[j].task = g => j = i
                      /\ \A t \in Workers : pc'[t] \in Holding => ft'[t].task # g
    BY DEF FirstTicket
  <2>3. CASE i \in 1..n
    <3>1. m_fibers[i].cb /\ g = m_fibers[i].task
      BY <1>2, <2>3
    <3>2. /\ g \in Callbacks \ armed
          /\ ~Ended(g)
          /\ \A j \in 1..n : m_fibers[j].task = g => j = i
          /\ \A t \in Workers : pc[t] \in Holding => ft[t].task # g
      BY <2>3, <3>1 DEF Lone, FirstTicket, n
    <3>3. g # f
      BY <2>2, <2>3, <3>1
    <3>4. \A j \in 1..Len(m_fibers') : m_fibers'[j].task = g => j = i
      BY <1>1, <1>2, <3>2, <3>3
    <3> QED BY <1>3, <3>2, <3>4
  <2>4. CASE i = n + 1
    BY <1>1, <1>2, <1>3, <2>1, <2>4
  <2> QED BY <1>2, <2>3, <2>4
<1> QED BY <1>5, <1>6, <1>7, <1>8, <1>9 DEF Lone

\* The state of the fiber the worker holds is written.
LEMMA StateLone ==
  ASSUME LoneWorker, Shape, Lone, NEW t \in Workers, NEW l \in Holding, NEW st,
         pc[t] \in Holding, Goto(t, l),
         m_state' = [m_state EXCEPT ![ft[t].task] = st],
         UNCHANGED <<m_fibers, ft, submitted, armed>>,
         Position(t)'
  PROVE  Lone'
<1>1. PICK f \in Tasks : f = ft[t].task
  BY TicketTasks
<1>2. /\ \A u \in Workers : u = t
      /\ pc'[t] = l
      /\ \A g \in Tasks : g # f => m_state'[g] = m_state[g]
  BY <1>1 DEF Goto, Shape, LoneWorker
<1>3. \A g : (Queued(g)' <=> Queued(g)) /\ (HeldByWorker(g)' <=> HeldByWorker(g))
  BY <1>2 DEF Queued, HeldByWorker
<1>4. \A g \in Tasks : g # f => (Ended(g)' <=> Ended(g))
  BY <1>2 DEF Ended
<1>5. f \in submitted /\ HeldByWorker(f)
  BY <1>1 DEF Lone, Known, HeldByWorker
<1>6. Known'
  BY <1>1, <1>2, <1>5 DEF Lone, Known
<1>7. FirstTicket'
  <2>1. \A i \in 1..Len(m_fibers) : m_fibers[i].cb => m_fibers[i].task # f
    BY <1>1 DEF Lone, FirstTicket
  <2>2. \A i \in 1..Len(m_fibers) : m_fibers[i].task \in Tasks
    BY TicketTasks
  <2> QED BY <1>2, <1>4, <2>1, <2>2 DEF Lone, FirstTicket
<1>8. NoTaskLost'
  <2>1. \A g \in submitted : g \in Tasks
    BY DEF Shape
  <2> QED BY <1>3, <1>4, <1>5, <2>1 DEF Lone, NoTaskLost
<1>9. \A u \in Workers : Position(u)'
  BY <1>2
<1> QED BY <1>6, <1>7, <1>8, <1>9 DEF Lone

\* The running task registers for an event.
LEMMA WaitLone ==
  ASSUME LoneWorker, Shape, Lone, NEW t \in Workers, Wait(t)
  PROVE  Lone'
<1>0. pc[t] = "exec" /\ pc[t] \in Holding
  BY DEF Wait, Holding, Counted
<1>1. PICK f \in Tasks : f = ft[t].task
  BY <1>0, TicketTasks
<1>2. /\ \A u \in Workers : u = t
      /\ pc'[t] = "hold" /\ pc'[t] \in Holding
      /\ armed' = armed \cup {f}
      /\ UNCHANGED <<m_fibers, ft, m_state, submitted>>
  BY <1>1 DEF Wait, Goto, Shape, LoneWorker, Holding, Counted
<1>3. \A g : /\ Queued(g)' <=> Queued(g)
             /\ HeldByWorker(g)' <=> HeldByWorker(g)
             /\ Ended(g)' <=> Ended(g)
  BY <1>0, <1>2 DEF Queued, HeldByWorker, Ended
<1>4. f \in submitted /\ m_state[f] = "EXEC"
  BY <1>0, <1>1 DEF Lone, Known, Position
<1>5. Known' /\ armed' \subseteq submitted'
  BY <1>0, <1>2, <1>4 DEF Lone, Known
<1>6. FirstTicket'
  <2>1. \A i \in 1..Len(m_fibers) : m_fibers[i].cb => m_fibers[i].task # f
    BY <1>0, <1>1 DEF Lone, FirstTicket
  <2> QED BY <1>0, <1>2, <1>3, <2>1 DEF Lone, FirstTicket
<1>7. NoTaskLost'
  BY <1>2, <1>3 DEF Lone, NoTaskLost
<1>8. Position(t)'
  BY <1>1, <1>2, <1>4 DEF Position, Awaited, After
<1>9. \A u \in Workers : Position(u)'
  BY <1>2, <1>8
<1> QED BY <1>5, <1>6, <1>7, <1>9 DEF Lone

\* The worker lets its ticket go: the fiber has ended, or its event will
\* schedule it again, or has.
LEMMA ReleaseLone ==
  ASSUME LoneWorker, Shape, Lone, NEW t \in Workers, pc[t] \in Holding,
         NEW f \in Tasks, f = ft[t].task,
         Goto(t, "pick"), ft' = [ft EXCEPT ![t] = NoTicket],
         UNCHANGED <<m_fibers, submitted, armed>>,
         \A g \in Tasks : g # f => m_state'[g] = m_state[g],
         Ended(f)' \/ Awaited(f)
  PROVE  Lone'
<1>1. /\ \A u \in Workers : u = t
      /\ pc'[t] = "pick" /\ pc'[t] \notin Holding
  BY DEF Goto, Shape, LoneWorker, Holding, Counted
<1>2. \A g : Queued(g)' <=> Queued(g)
  BY DEF Queued
<1>3. \A g \in Tasks : g # f => (Ended(g)' <=> Ended(g)) /\ ~HeldByWorker(g)
  BY <1>1 DEF Ended, HeldByWorker
<1>4. f \in submitted
  BY DEF Lone, Known
<1>5. Known'
  BY <1>1, <1>4 DEF Lone, Known
<1>6. FirstTicket'
  <2>1. \A i \in 1..Len(m_fibers) : m_fibers[i].cb => m_fibers[i].task # f
    BY DEF Lone, FirstTicket
  <2>2. \A i \in 1..Len(m_fibers) : m_fibers[i].task \in Tasks
    BY TicketTasks
  <2> QED BY <1>1, <1>3, <2>1, <2>2 DEF Lone, FirstTicket
<1>7. NoTaskLost'
  <2>1. \A g \in submitted : g \in Tasks
    BY DEF Shape
  <2> QED BY <1>1, <1>2, <1>3, <2>1 DEF Lone, NoTaskLost, Awaited
<1>8. \A u \in Workers : Position(u)'
  BY <1>1, NoPosition
<1> QED BY <1>5, <1>6, <1>7, <1>8 DEF Lone

\* The worker puts a fiber that yielded back into the list.
LEMMA RequeueLone ==
  ASSUME LoneWorker, Shape, Lone, NEW t \in Workers, SettleReady(t)
  PROVE  Lone'
<1>0. pc[t] = "settle" /\ pc[t] \in Holding
  BY DEF SettleReady, Holding
<1>1. PICK f \in Tasks : f = ft[t].task
  BY <1>0, TicketTasks
<1> DEFINE tk == [task |-> f, thread |-> AnyThread, cb |-> FALSE]
           n  == Len(m_fibers)
<1>2. tk \in Ticket /\ tk.task = f /\ ~tk.cb
  BY DEF Ticket
<1>3. m_fibers' = Append(m_fibers, tk)
  BY <1>1 DEF SettleReady, schedule
<1> HIDE DEF tk
<1>4. /\ n \in Nat
      /\ \A i : i \in 1..Len(m_fibers') <=> i \in 1..n \/ i = n + 1
      /\ \A i \in 1..n : m_fibers'[i] = m_fibers[i] /\ i # n + 1
      /\ m_fibers'[n + 1] = tk
      /\ \A g : Queued(g)' <=> Queued(g) \/ g = f
  BY <1>2, <1>3, QueuedAppend
<1> HIDE DEF n
<1>5. /\ \A u \in Workers : u = t
      /\ pc'[t] = "pick" /\ pc'[t] \notin Holding
      /\ UNCHANGED <<m_state, submitted, armed>>
  BY DEF SettleReady, Goto, Shape, LoneWorker, Holding, Counted, fiberVars, eventVars
<1>6. \A g : Ended(g)' <=> Ended(g)
  BY <1>5 DEF Ended
<1>7. \A g : g # f => ~HeldByWorker(g)
  BY <1>1, <1>5 DEF HeldByWorker
<1>8. f \in submitted
  BY <1>0, <1>1 DEF Lone, Known
<1>9. Known'
  BY <1>2, <1>4, <1>5, <1>8 DEF Lone, Known, n
<1>10. FirstTicket'
  <2>1. \A i \in 1..n : m_fibers[i].cb => m_fibers[i].task # f
    BY <1>0, <1>1 DEF Lone, FirstTicket, n
  <2>2. ASSUME NEW i \in 1..n, m_fibers[i].cb, NEW g, g = m_fibers[i].task
        PROVE  /\ g \in Callbacks \ armed
               /\ ~Ended(g)
               /\ \A j \in 1..Len(m_fibers') : m_fibers'[j].task = g => j = i
    <3>1. /\ g \in Callbacks \ armed
          /\ ~Ended(g)
          /\ \A j \in 1..n : m_fibers[j].task = g => j = i
      BY <2>2 DEF Lone, FirstTicket, n
    <3> QED BY <1>2, <1>4, <2>1, <2>2, <3>1
  <2>3. \A i \in 1..Len(m_fibers') : m_fibers'[i].cb => i \in 1..n /\ m_fibers'[i] = m_fibers[i]
    BY <1>2, <1>4
  <2> QED BY <1>5, <1>6, <2>2, <2>3 DEF FirstTicket
<1>11. NoTaskLost'
  BY <1>4, <1>5, <1>6, <1>7 DEF Lone, NoTaskLost
<1>12. \A u \in Workers : Position(u)'
  BY <1>5, NoPosition
<1>13. armed' \subseteq submitted'
  BY <1>5 DEF Lone
<1> QED BY <1>9, <1>10, <1>11, <1>12, <1>13 DEF Lone

\* The worker erases the i-th ticket: where the others were, and what is left.
LEMMA QueuedRemove ==
  ASSUME Shape, NEW i \in 1..Len(m_fibers), m_fibers' = RemoveAt(m_fibers, i)
  PROVE  /\ \A j \in 1..Len(m_fibers') :
               LET k == IF j < i THEN j ELSE j + 1
               IN  k \in 1..Len(m_fibers) /\ k # i /\ m_fibers'[j] = m_fibers[k]
         /\ \A f : Queued(f)' => Queued(f)
         /\ \A f : Queued(f) => Queued(f)' \/ f = m_fibers[i].task
<1> DEFINE n == Len(m_fibers)
           From(j) == IF j < i THEN j ELSE j + 1
<1>1. m_fibers \in Seq(Ticket) /\ n \in Nat
  BY DEF Shape
<1>2. /\ Len(m_fibers') = n - 1
      /\ \A j \in 1..(n - 1) : m_fibers'[j] = IF j < i THEN m_fibers[j] ELSE m_fibers[j + 1]
  BY <1>1, RemoveAtElements
<1>3. \A j \in 1..Len(m_fibers') :
         From(j) \in 1..n /\ From(j) # i /\ m_fibers'[j] = m_fibers[From(j)]
  BY <1>1, <1>2
<1>4. \A k \in 1..n : k # i => \E j \in 1..Len(m_fibers') : From(j) = k
  <2> SUFFICES ASSUME NEW k \in 1..n, k # i PROVE \E j \in 1..Len(m_fibers') : From(j) = k
    OBVIOUS
  <2>1. CASE k < i
    <3>1. k \in 1..Len(m_fibers') /\ From(k) = k
      BY <1>1, <1>2, <2>1
    <3> QED BY <3>1
  <2>2. CASE ~(k < i)
    <3>1. k - 1 \in 1..Len(m_fibers') /\ From(k - 1) = k
      BY <1>1, <1>2, <2>2
    <3> QED BY <3>1
  <2> QED BY <2>1, <2>2
<1>5. \A f : Queued(f)' => Queued(f)
  BY <1>3 DEF Queued
<1>6. ASSUME NEW f, Queued(f), f # m_fibers[i].task PROVE Queued(f)'
  <2>1. PICK k \in 1..n : m_fibers[k].task = f
    BY <1>6 DEF Queued
  <2>2. PICK j \in 1..Len(m_fibers') : From(j) = k
    BY <1>4, <1>6, <2>1
  <2> HIDE DEF From
  <2> QED BY <1>3, <2>1, <2>2 DEF Queued
<1> QED BY <1>3, <1>5, <1>6

\* The worker takes a ticket of the list.
LEMMA TakeLone ==
  ASSUME LoneWorker, Shape, Lone, NEW t \in Workers, Take(t)
  PROVE  Lone'
<1> DEFINE n == Len(m_fibers)
<1>1. PICK i \in 1..n : ft' = [ft EXCEPT ![t] = m_fibers[i]] /\ m_fibers' = RemoveAt(m_fibers, i)
  BY DEF Take
<1> DEFINE From(j) == IF j < i THEN j ELSE j + 1
<1>2. /\ \A j \in 1..Len(m_fibers') :
            From(j) \in 1..n /\ From(j) # i /\ m_fibers'[j] = m_fibers[From(j)]
      /\ \A f : Queued(f) => Queued(f)' \/ f = m_fibers[i].task
  BY <1>1, QueuedRemove
<1>3. \A j, k \in 1..Len(m_fibers') : From(j) = From(k) => j = k
  <2>1. m_fibers' \in Seq(Ticket)
    BY <1>1, RemoveAtType DEF Shape
  <2>2. Len(m_fibers') \in Nat
    BY <2>1
  <2> QED BY <2>2
<1>4. /\ \A u \in Workers : u = t
      /\ pc[t] = "pick" /\ pc[t] \notin Holding
      /\ pc'[t] = "count" /\ pc'[t] \in Holding
      /\ ft'[t] = m_fibers[i]
      /\ UNCHANGED <<m_state, submitted, armed>>
  BY <1>1 DEF Take, Goto, Shape, LoneWorker, Holding, Counted, fiberVars, eventVars
<1> HIDE DEF From
<1>5. \A g : (Ended(g)' <=> Ended(g)) /\ ~HeldByWorker(g)
  BY <1>4 DEF Ended, HeldByWorker
<1>6. Known'
  BY <1>2, <1>4 DEF Lone, Known
<1>7. NoTaskLost'
  <2>1. \A f : f = m_fibers[i].task => HeldByWorker(f)'
    BY <1>4 DEF HeldByWorker
  <2> QED BY <1>2, <1>4, <1>5, <2>1 DEF Lone, NoTaskLost
<1>8. Position(t)'
  <2>1. m_fibers[i].cb => ~Ended(m_fibers[i].task)
    BY DEF Lone, FirstTicket
  <2> QED BY <1>4, <2>1 DEF Position, Ended, After
<1>9. FirstTicket'
  <2> SUFFICES ASSUME NEW j \in 1..Len(m_fibers'), m_fibers'[j].cb,
                      NEW g, g = m_fibers'[j].task
               PROVE  /\ g \in Callbacks \ armed'
                      /\ ~Ended(g)'
                      /\ \A k \in 1..Len(m_fibers') : m_fibers'[k].task = g => k = j
                      /\ \A u \in Workers : pc'[u] \in Holding => ft'[u].task # g
    BY DEF FirstTicket
  <2>1. m_fibers[From(j)].cb /\ g = m_fibers[From(j)].task /\ From(j) \in 1..n /\ From(j) # i
    BY <1>2
  <2>2. /\ g \in Callbacks \ armed
        /\ ~Ended(g)
        /\ \A k \in 1..n : m_fibers[k].task = g => k = From(j)
    BY <2>1 DEF Lone, FirstTicket
  <2>3. m_fibers[i].task # g
    BY <2>1, <2>2
  <2> QED BY <1>2, <1>3, <1>4, <1>5, <2>2, <2>3
<1>10. \A u \in Workers : Position(u)'
  BY <1>4, <1>8
<1> QED BY <1>4, <1>6, <1>7, <1>9, <1>10 DEF Lone

\* One worker moves and keeps its ticket, or has none.
LEMMA GotoLone ==
  ASSUME LoneWorker, Shape, Lone, NEW t \in Workers, NEW l, Goto(t, l),
         UNCHANGED <<m_fibers, ft, m_state, submitted, armed>>,
         l \in Holding <=> pc[t] \in Holding,
         l \in Holding => Position(t)'
  PROVE  Lone'
<1>1. pc'[t] = l /\ \A u \in Workers : u = t
  BY DEF Goto, Shape, LoneWorker
<1>2. Position(t)'
  BY <1>1, NoPosition
<1>3. \A u \in Workers : Position(u)' /\ (pc'[u] \in Holding <=> pc[u] \in Holding)
  BY <1>1, <1>2
<1> QED BY <1>3, MoveLone

\* The ticket of a task handed over says whether it is a function.
LEMMA FreshTicket ==
  ASSUME NEW f \in Tasks, NEW th \in Targets
  PROVE  /\ NewTicket(f, th) \in Ticket /\ NewTicket(f, th).task = f
         /\ NewTicket(f, th).cb <=> f \in Callbacks
<1>1. NewTicket(f, th) \in Ticket /\ NewTicket(f, th).task = f
  BY ConstantsAssumption DEF NewTicket, Ticket
<1>2. NewTicket(f, th).cb = (f \in Callbacks)
  BY DEF NewTicket
<1> QED BY <1>1, <1>2

\* The calls of the main thread.
LEMMA MainLone ==
  ASSUME LoneWorker, Shape, Lone, Main \/ Submit
  PROVE  Lone'
<1> USE DEF fiberVars, eventVars
<1>1. ASSUME NEW f \in Tasks, NEW th \in Targets, MainSchedule(f, th) PROVE Lone'
  <2> QED BY <1>1, FreshTicket, GrowLone DEF MainSchedule, schedule
<1>2. ASSUME NEW f \in Tasks, MainReschedule(f) PROVE Lone'
  <2>1. NewTicket(f, AnyThread) \in Ticket /\ NewTicket(f, AnyThread).task = f
    BY DEF NewTicket, Ticket
  <2>2. f \notin Callbacks /\ ~NewTicket(f, AnyThread).cb
    BY <1>2, ConstantsAssumption DEF MainReschedule, NewTicket
  <2>3. submitted \cup {f} = submitted
    BY <1>2 DEF MainReschedule
  <2> QED BY <1>2, <2>1, <2>2, <2>3, GrowLone DEF MainReschedule, schedule
<1>3. CASE start
  <2>1. \A u \in Workers : pc'[u] \notin Holding /\ pc[u] \notin Holding
    BY <1>3 DEF start, Shape, MainPos, Holding, Counted
  <2>2. \A u \in Workers : Position(u)'
    BY <2>1, NoPosition
  <2> QED BY <1>3, <2>1, <2>2, MoveLone DEF start
<1>4. CASE StopFlag /\ UseCaller
  <2>1. Caller \in Workers /\ pc[Caller] \notin Holding /\ StoppingEntry \notin Holding
    BY <1>4 DEF Workers, StopFlag, Shape, MainPos, StoppingEntry, Holding, Counted
  <2> QED BY <1>4, <2>1, GotoLone DEF StopFlag
<1>5. CASE (StopFlag /\ ~UseCaller) \/ stop \/ RootFiberBack \/ Join
  <2>1. UNCHANGED <<pc, m_fibers, ft, m_state, submitted, armed>>
    BY <1>5 DEF StopFlag, stop, RootFiberBack, Join
  <2>2. \A u \in Workers : Position(u)'
    BY <2>1 DEF Lone, Position, Ended, Awaited, Queued
  <2> QED BY <2>1, <2>2, MoveLone
<1> QED BY <1>1, <1>2, <1>3, <1>4, <1>5 DEF Main, Submit

\* An event schedules the fiber registered for it, wherever the worker is.
LEMMA EventsLone ==
  ASSUME Shape, Lone, Events
  PROVE  Lone'
<1> USE DEF fiberVars
<1>1. ASSUME NEW f \in Tasks, Trigger(f) PROVE Lone'
  <2> DEFINE tk == [task |-> f, thread |-> AnyThread, cb |-> FALSE]
  <2>1. tk \in Ticket /\ tk.task = f /\ ~tk.cb
    BY DEF Ticket
  <2>2. f \in armed /\ armed' = armed \ {f} /\ m_fibers' = Append(m_fibers, tk)
        /\ UNCHANGED <<pc, ft, m_state, submitted>>
    BY <1>1 DEF Trigger, schedule
  <2>3. submitted' = submitted \cup {f}
    BY <2>2 DEF Lone
  <2> HIDE DEF tk
  <2> QED BY <2>1, <2>2, <2>3, GrowLone
<1>2. CASE Triggered
  <2>1. UNCHANGED <<pc, m_fibers, ft, m_state, submitted, armed>>
    BY <1>2 DEF Triggered
  <2>2. \A u \in Workers : Position(u)'
    BY <2>1 DEF Lone, Position, Ended, Awaited, Queued
  <2> QED BY <2>1, <2>2, MoveLone
<1> QED BY <1>1, <1>2 DEF Events

\* The steps of run() up to the idle fiber.
LEMMA RunLone ==
  ASSUME LoneWorker, Shape, Lone, NEW t \in Workers,
         \/ Take(t) \/ Count(t) \/ NothingToTake(t) \/ Dispatch(t) \/ Drop(t)
         \/ SwapIn(t) \/ SwapOut(t) \/ Uncount(t) \/ SettleReady(t)
         \/ SettleEnded(t) \/ SettleOther(t) \/ PutOnHold(t)
  PROVE  Lone'
<1> USE DEF fiberVars, eventVars
<1>0. Position(t)
  BY DEF Lone
<1>1. CASE Take(t)            BY <1>1, TakeLone
<1>2. CASE NothingToTake(t)
  <2>1. PICK l \in {"exited", "idle"} : Goto(t, l)
    BY <1>2 DEF NothingToTake
  <2>2. pc[t] \notin Holding /\ l \notin Holding
    BY <1>2, <2>1 DEF NothingToTake, Holding, Counted
  <2> QED BY <1>2, <2>1, <2>2, GotoLone DEF NothingToTake
<1>3. CASE Count(t) \/ Dispatch(t) \/ SwapOut(t) \/ Uncount(t) \/ SettleOther(t)
  <2>1. PICK l \in {"dispatch", "swapIn", "returned", "settle", "putOnHold"} : Goto(t, l)
    BY <1>3 DEF Count, Dispatch, SwapOut, Uncount, SettleOther
  <2>2. l \in Holding /\ pc[t] \in Holding
    BY <1>3 DEF Count, Dispatch, SwapOut, Uncount, SettleOther, Holding, Counted
  <2>3. UNCHANGED <<m_fibers, ft, m_state, submitted, armed>>
    BY <1>3 DEF Count, Dispatch, SwapOut, Uncount, SettleOther
  <2>4. pc'[t] = l
    BY <2>1 DEF Goto, Shape
  <2>5. \A f : (Ended(f)' <=> Ended(f)) /\ (Awaited(f)' <=> Awaited(f))
    BY <2>3 DEF Ended, Awaited, Queued
  <2>6. PICK f \in Tasks : f = ft[t].task
    BY <2>2, TicketTasks
  <2>7. Position(t)'
    <3>1. CASE Count(t)
      BY <1>0, <2>3, <2>5, <2>6, <3>1 DEF Count, Position, Goto, Shape, After
    <3>2. CASE Dispatch(t)
      BY <1>0, <2>3, <2>5, <2>6, <3>2 DEF Dispatch, Position, Goto, Shape, After
    <3>3. CASE SwapOut(t) \/ Uncount(t)
      BY <1>0, <2>3, <2>5, <2>6, <3>3 DEF SwapOut, Uncount, Position, Goto, Shape, After
    <3>4. CASE SettleOther(t)
      BY <1>0, <2>3, <2>5, <2>6, <3>4 DEF SettleOther, Position, Goto, Shape, After
    <3> QED BY <1>3, <3>1, <3>2, <3>3, <3>4
  <2> QED BY <2>1, <2>2, <2>3, <2>7, GotoLone
<1>4. CASE SwapIn(t)
  <2>1. PICK f \in Tasks : f = ft[t].task
    BY <1>4, TicketTasks DEF SwapIn, Holding, Counted
  <2>2. pc'[t] = "exec" /\ m_state'[f] = "EXEC" /\ ft' = ft
    BY <1>4, <2>1 DEF SwapIn, Goto, Shape
  <2>3. Position(t)'
    BY <2>1, <2>2 DEF Position, After
  <2> QED BY <1>4, <2>3, StateLone DEF SwapIn, Holding, Counted
<1>5. CASE SettleReady(t)     BY <1>5, RequeueLone
<1>6. CASE Drop(t) \/ SettleEnded(t)
  <2>1. pc[t] \in Holding /\ Ended(ft[t].task) /\ m_state' = m_state
    BY <1>6 DEF Drop, SettleEnded, Holding, Counted
  <2>2. PICK f \in Tasks : f = ft[t].task
    BY <2>1, TicketTasks
  <2>3. Ended(f)'
    BY <2>1, <2>2 DEF Ended
  <2> QED BY <1>6, <2>1, <2>2, <2>3, ReleaseLone DEF Drop, SettleEnded
<1>7. CASE PutOnHold(t)
  <2>1. pc[t] = "putOnHold" /\ pc[t] \in Holding
    BY <1>7 DEF PutOnHold, Holding
  <2>2. PICK f \in Tasks : f = ft[t].task
    BY <2>1, TicketTasks
  <2>3. Awaited(f) /\ \A g \in Tasks : g # f => m_state'[g] = m_state[g]
    BY <1>0, <1>7, <2>1, <2>2 DEF Position, PutOnHold, Shape
  <2> QED BY <1>7, <2>1, <2>2, <2>3, ReleaseLone DEF PutOnHold
<1> QED BY <1>1, <1>2, <1>3, <1>4, <1>5, <1>6, <1>7

\* The running task ends, yields, waits, or hands over another task.
LEMMA BodyLone ==
  ASSUME LoneWorker, Shape, Lone, NEW t \in Workers, Body(t)
  PROVE  Lone'
<1> USE DEF fiberVars, eventVars
<1>0. Position(t)
  BY DEF Lone
<1>1. CASE Finish(t) \/ YieldToReady(t) \/ YieldToHold(t)
  <2>1. pc[t] \in {"exec", "hold"} /\ pc[t] \in Holding
    BY <1>1 DEF Finish, YieldToReady, YieldToHold, Holding, Counted
  <2>2. PICK f \in Tasks : f = ft[t].task
    BY <2>1, TicketTasks
  <2>3. PICK st \in {"TERM", "EXCEPT", "READY", "HOLD"} :
           /\ m_state' = [m_state EXCEPT ![f] = st]
           /\ st = "HOLD" => pc[t] = "hold"
    BY <1>1, <2>2 DEF Finish, YieldToReady, YieldToHold
  <2>4. /\ Goto(t, "swapOut") /\ "swapOut" \in Holding
        /\ UNCHANGED <<m_fibers, ft, submitted, armed>>
    BY <1>1 DEF Finish, YieldToReady, YieldToHold, Holding, Counted
  <2>5. pc'[t] = "swapOut" /\ m_state'[f] = st
    BY <2>3, <2>4 DEF Goto, Shape
  <2>6. Awaited(f)' <=> Awaited(f)
    BY <2>4 DEF Awaited, Queued
  <2>7. Position(t)'
    <3>1. Ended(f)' \/ m_state'[f] = "READY" \/ Awaited(f)'
      BY <1>0, <2>2, <2>3, <2>5, <2>6 DEF Position, Ended
    <3> QED BY <2>2, <2>4, <2>5, <3>1 DEF Position, After
  <2> QED BY <2>1, <2>2, <2>3, <2>4, <2>7, StateLone
<1>2. CASE Wait(t)
  BY <1>2, WaitLone
<1>3. ASSUME NEW f \in Tasks, NEW th \in Targets, TaskSchedule(t, f, th) PROVE Lone'
  BY <1>3, FreshTicket, GrowLone DEF TaskSchedule, schedule
<1> QED BY <1>1, <1>2, <1>3 DEF Body

\* Lone is an invariant of a scheduler with one worker, whatever its tasks do.
THEOREM LoneInvariant ==
  ASSUME LoneWorker
  PROVE  Spec => []Lone
<1>1. ASSUME Shape, Lone, [Next]_vars PROVE Lone'
  <2>1. CASE Main \/ Submit
    BY <1>1, <2>1, MainLone
  <2>2. CASE Events
    BY <1>1, <2>2, EventsLone
  <2>3. CASE UNCHANGED vars
    <3>1. \A u \in Workers : Position(u)'
      BY <1>1, <2>3 DEF vars, Lone, Position, Ended, Awaited, Queued
    <3> QED BY <1>1, <2>3, <3>1, MoveLone DEF vars
  <2>4. ASSUME NEW t \in Workers, Run(t) PROVE Lone'
    <3>1. CASE \/ EnterIdle(t) \/ ReadPending(t) \/ ReadFlags(t) \/ ReadEmpty(t)
               \/ ReadActive(t) \/ LeaveIdle(t)
      BY <1>1, <3>1, IdleMoves, GotoLone
    <3> QED BY <1>1, <2>4, <3>1, RunLone DEF Run
  <2>5. ASSUME NEW t \in Workers, Body(t) PROVE Lone'
    BY <1>1, <2>5, BodyLone
  <2> QED BY <1>1, <2>1, <2>2, <2>3, <2>4, <2>5 DEF Next, Terminated
<1>2. Shape /\ Lone /\ [Next]_vars => Lone'
  BY <1>1
<1> QED BY InitLone, <1>2, ShapeInvariant, PTL DEF Spec

\* On one worker no task is lost even if it waits for events, is woken before
\* it has switched away, or is handed over twice: run() drops only tickets of
\* fibers that have ended, and puts only fibers on HOLD that their event will
\* schedule, or has.
THEOREM LoneLosesNoTask ==
  ASSUME LoneWorker
  PROVE  Spec => []NoTaskLost
<1>1. Lone => NoTaskLost
  BY DEF Lone
<1> QED BY LoneInvariant, <1>1, PTL

\* Nobody has left when the scheduler has been constructed.
LEMMA InitLeaving == Init => Leaving
<1> SUFFICES ASSUME Init PROVE Leaving
  OBVIOUS
<1>1. LeaveFlags /\ LeavePos
  BY DEF Init, LeaveFlags, LeavePos
<1>2. \A t \in Workers : Seen(t)
  BY DEF Init, Seen, Left
<1> QED BY <1>1, <1>2 DEF Leaving, Init

\* Who the lone worker is, and when it has not left.
LEMMA LoneFacts ==
  ASSUME LoneWorker, Shape, Leaving, NEW t \in Workers
  PROVE  /\ \A u \in Workers : u = t
         /\ \A u \in Children : u = t
         /\ UseCaller => t = Caller
         /\ t \in Children \/ t = Caller
         /\ pc[t] \notin {"off", "exited", "idleOut", "pick"} => ~Left(t)
         /\ ~m_autoStop \/ armed # {} \/ m_fibers # <<>> => ~Left(t)
         /\ pc[t] \notin {"off", "exited"} => ~(t = Caller /\ mpc \in {"join", "stopped"})
                                              /\ mpc # "stopped"
<1>1. /\ \A u \in Workers : u = t
      /\ Children \subseteq Workers
      /\ UseCaller => Caller \in Workers
      /\ t \in Children \/ (t = Caller /\ UseCaller)
  BY DEF LoneWorker, Workers
<1>2. /\ t \in idleTerm => pc[t] \in {"idleOut", "pick", "exited"}
      /\ Left(t) => m_autoStop /\ m_fibers = <<>> /\ armed = {}
  BY DEF Leaving, Seen
<1>3. pc[t] \notin {"off", "exited"} => ~(t = Caller /\ mpc \in {"join", "stopped"})
                                        /\ mpc # "stopped"
  BY <1>1, ConstantsAssumption DEF Leaving, LeavePos
<1> QED BY <1>1, <1>2, <1>3 DEF Left

\* A worker that has not left moves inside run(), whatever it does to the
\* list and whatever it registers.
LEMMA InsideLeaving ==
  ASSUME LoneWorker, Shape, Leaving, NEW t \in Workers, NEW l,
         pc[t] \notin {"off", "exited"}, ~Left(t),
         pc'[t] = l, l \notin {"off", "exited", "flags", "empty", "active"},
         UNCHANGED <<mpc, idleTerm, m_autoStop>>,
         ~IOStopping => armed' = {}
  PROVE  Leaving'
<1>1. /\ \A u \in Workers : u = t
      /\ \A u \in Children : u = t
      /\ UseCaller => t = Caller
      /\ ~(t = Caller /\ mpc \in {"join", "stopped"}) /\ mpc # "stopped"
      /\ t \notin idleTerm
  BY LoneFacts DEF Left
<1>2. LeaveFlags' /\ LeavePos'
  BY <1>1 DEF Leaving, LeaveFlags, LeavePos
<1>3. Seen(t)'
  BY <1>1 DEF Seen, Left
<1> QED BY <1>1, <1>2, <1>3 DEF Leaving

\* Tickets are added only while the worker has not left: by the main thread
\* before stop(), by an event while it is registered.
LEMMA GrowLeaving ==
  ASSUME LoneWorker, Shape, Leaving,
         ~m_autoStop \/ armed # {},
         UNCHANGED <<mpc, pc, idleTerm, m_autoStop>>,
         armed' \subseteq armed
  PROVE  Leaving'
<1> SUFFICES ASSUME NEW t \in Workers PROVE Seen(t)'
  <2>1. LeaveFlags' /\ LeavePos' /\ (~IOStopping => armed' = {})
    BY DEF Leaving, LeaveFlags, LeavePos
  <2> QED BY <2>1 DEF Leaving
<1>1. ~Left(t) /\ pc[t] # "active" /\ Seen(t)
  BY LoneFacts DEF Leaving, LeaveFlags, Seen
<1> QED BY <1>1 DEF Seen, Left

\* The calls of the main thread.
LEMMA MainLeaving ==
  ASSUME LoneWorker, Shape, Leaving, Main \/ Submit
  PROVE  Leaving'
<1> USE DEF fiberVars, eventVars, stopVars
<1>0. PICK t \in Workers : TRUE
  BY ConstantsAssumption
<1>00. /\ \A u \in Workers : u = t
       /\ \A u \in Children : u = t
       /\ UseCaller => t = Caller
       /\ t = Caller => UseCaller
       /\ Seen(t)
  BY LoneFacts, ConstantsAssumption DEF Workers, Leaving
<1>1. CASE Submit
  <2>1. ~m_autoStop /\ UNCHANGED <<mpc, pc, idleTerm, m_autoStop, armed>>
    BY <1>1 DEF Submit, MainSchedule, MainReschedule, Leaving, LeaveFlags
  <2> QED BY <2>1, GrowLeaving
<1>2. CASE start
  <2>1. pc'[t] \in {"off", "pick"} /\ idleTerm = {} /\ mpc' = "started"
        /\ UNCHANGED <<idleTerm, m_autoStop, armed, m_fibers>>
    BY <1>2 DEF start, Shape, MainPos, Leaving, LeaveFlags
  <2>2. LeaveFlags' /\ LeavePos'
    BY <1>00, <1>2, <2>1 DEF start, Leaving, LeaveFlags, LeavePos
  <2>3. Seen(t)'
    BY <2>1 DEF Seen, Left
  <2> QED BY <1>00, <2>1, <2>2, <2>3 DEF Leaving
<1>3. CASE stop
  <2>1. LeaveFlags' /\ LeavePos'
    BY <1>3 DEF stop, Leaving, LeaveFlags, LeavePos
  <2>2. Seen(t)'
    BY <1>00, <1>3 DEF stop, Seen, Left
  <2> QED BY <1>00, <1>3, <2>1, <2>2 DEF stop, Leaving
<1>4. CASE StopFlag /\ UseCaller
  <2>1. /\ pc[t] = "off" /\ pc'[t] = StoppingEntry /\ mpc' = "probe" /\ mpc = "stop"
        /\ UNCHANGED <<idleTerm, m_autoStop, armed, m_fibers>>
    BY <1>00, <1>4 DEF StopFlag, Goto, Shape, MainPos
  <2>2. StoppingEntry \in {"pend", "flags"} /\ (StoppingEntry = "flags" => armed = {})
    BY DEF StoppingEntry, Leaving
  <2>3. LeaveFlags' /\ LeavePos'
    BY <1>00, <2>1, <2>2 DEF Leaving, LeaveFlags, LeavePos
  <2>4. Seen(t)'
    BY <1>00, <2>1, <2>2 DEF Seen, Left
  <2> QED BY <1>00, <2>1, <2>3, <2>4 DEF Leaving
<1>5. CASE (StopFlag /\ ~UseCaller) \/ RootFiberBack \/ Join
  <2>1. /\ UNCHANGED <<pc, idleTerm, m_autoStop, armed, m_fibers>>
        /\ mpc' \in {"join", "stopped"}
        /\ mpc' = "stopped" => \A u \in Children : pc[u] = "exited"
        /\ \/ ~UseCaller
           \/ pc[Caller] = "exited"
           \/ mpc = "join"
    BY <1>5 DEF StopFlag, RootFiberBack, Join
  <2>2. LeaveFlags' /\ LeavePos'
    BY <1>00, <2>1 DEF Leaving, LeaveFlags, LeavePos
  <2>3. Left(t)' => Left(t)
    BY <1>00, <2>1 DEF Left, Leaving, LeaveFlags
  <2>4. Seen(t)'
    BY <1>00, <2>1, <2>3 DEF Seen
  <2> QED BY <1>00, <2>1, <2>2, <2>4 DEF Leaving
<1> QED BY <1>1, <1>2, <1>3, <1>4, <1>5 DEF Main

\* An event that is triggered was registered: the worker has not left.
LEMMA EventsLeaving ==
  ASSUME LoneWorker, Shape, Leaving, Events
  PROVE  Leaving'
<1> USE DEF stopVars
<1>1. ASSUME NEW f \in Tasks, Trigger(f) PROVE Leaving'
  BY <1>1, GrowLeaving DEF Trigger
<1>2. CASE Triggered
  <2>1. UNCHANGED <<pc, mpc, idleTerm, m_autoStop, armed, m_fibers>>
    BY <1>2 DEF Triggered
  <2> QED BY <2>1 DEF Leaving, LeaveFlags, LeavePos, Seen, Left
<1> QED BY <1>1, <1>2 DEF Events

\* The steps of run() up to the idle fiber.
LEMMA RunLeaving ==
  ASSUME LoneWorker, Shape, Leaving, NEW t \in Workers,
         \/ Take(t) \/ Count(t) \/ NothingToTake(t) \/ Dispatch(t) \/ Drop(t)
         \/ SwapIn(t) \/ SwapOut(t) \/ Uncount(t) \/ SettleReady(t)
         \/ SettleEnded(t) \/ SettleOther(t) \/ PutOnHold(t)
  PROVE  Leaving'
<1> USE DEF fiberVars, eventVars, stopVars
<1>1. CASE Take(t)
  <2>1. m_fibers # <<>>
    BY <1>1 DEF Take
  <2>2. pc[t] = "pick" /\ pc'[t] = "count" /\ UNCHANGED <<mpc, idleTerm, m_autoStop, armed>>
    BY <1>1 DEF Take, Goto, Shape
  <2>3. ~Left(t)
    BY <2>1, LoneFacts
  <2> QED BY <2>2, <2>3, InsideLeaving DEF Leaving
<1>2. CASE NothingToTake(t)
  <2>1. /\ pc[t] = "pick" /\ pc'[t] = IF t \in idleTerm THEN "exited" ELSE "idle"
        /\ UNCHANGED <<mpc, idleTerm, m_autoStop, armed, m_fibers>>
    BY <1>2 DEF NothingToTake, Goto, Shape
  <2>2. /\ \A u \in Workers : u = t
        /\ \A u \in Children : u = t
        /\ UseCaller => t = Caller
        /\ ~(t = Caller /\ mpc \in {"join", "stopped"}) /\ mpc # "stopped"
        /\ Seen(t)
    BY <2>1, LoneFacts DEF Leaving
  <2>3. LeaveFlags' /\ LeavePos'
    BY <2>1, <2>2 DEF Leaving, LeaveFlags, LeavePos
  <2>4. Seen(t)'
    BY <2>1, <2>2 DEF Seen, Left
  <2> QED BY <2>1, <2>2, <2>3, <2>4 DEF Leaving
<1>3. ASSUME NEW l \in Holding \cup {"pick"}, pc[t] \in Holding, Goto(t, l),
             UNCHANGED <<mpc, idleTerm, m_autoStop, armed>>
      PROVE  Leaving'
  <2>1. /\ pc'[t] = l
        /\ l \notin {"off", "exited", "flags", "empty", "active"}
        /\ pc[t] \notin {"off", "exited", "idleOut", "pick"}
    BY <1>3 DEF Goto, Shape, Holding, Counted
  <2>2. ~Left(t)
    BY <2>1, LoneFacts
  <2> QED BY <1>3, <2>1, <2>2, InsideLeaving DEF Leaving
<1>4. CASE \/ Count(t) \/ Dispatch(t) \/ Drop(t) \/ SwapIn(t) \/ SwapOut(t) \/ Uncount(t)
           \/ SettleReady(t) \/ SettleEnded(t) \/ SettleOther(t) \/ PutOnHold(t)
  <2>1. PICK l \in {"dispatch", "swapIn", "exec", "returned", "settle", "putOnHold", "pick"} :
           Goto(t, l)
    BY <1>4 DEF Count, Dispatch, Drop, SwapIn, SwapOut, Uncount, SettleReady, SettleEnded,
                SettleOther, PutOnHold
  <2>2. pc[t] \in Holding /\ l \in Holding \cup {"pick"}
    BY <1>4 DEF Count, Dispatch, Drop, SwapIn, SwapOut, Uncount, SettleReady, SettleEnded,
                SettleOther, PutOnHold, Holding, Counted
  <2>3. UNCHANGED <<mpc, idleTerm, m_autoStop, armed>>
    BY <1>4 DEF Count, Dispatch, Drop, SwapIn, SwapOut, Uncount, SettleReady, SettleEnded,
                SettleOther, PutOnHold
  <2> QED BY <1>3, <2>1, <2>2, <2>3
<1> QED BY <1>1, <1>2, <1>4

\* The running task is inside run(), with whatever it adds or registers.
LEMMA BodyLeaving ==
  ASSUME LoneWorker, EventsCounted, Shape, Leaving, NEW t \in Workers, Body(t)
  PROVE  Leaving'
<1> USE DEF fiberVars, eventVars, stopVars
<1>1. pc[t] \in {"exec", "hold"} /\ pc'[t] \in {"exec", "hold", "swapOut"}
      /\ UNCHANGED <<mpc, idleTerm, m_autoStop>>
  BY DEF Body, Finish, YieldToReady, Wait, YieldToHold, TaskSchedule, Goto, Shape
<1>2. ~IOStopping => armed' = {}
  <2>1. CASE Wait(t)
    BY <2>1 DEF Wait, EventsCounted
  <2>2. CASE ~Wait(t)
    BY <2>2 DEF Body, Finish, YieldToReady, YieldToHold, TaskSchedule, Leaving
  <2> QED BY <2>1, <2>2
<1>3. ~Left(t)
  BY <1>1, LoneFacts
<1> QED BY <1>1, <1>2, <1>3, InsideLeaving

\* The idle fiber and stopping(): no event is registered once the pending
\* count was read as zero, no ticket can come after the list was seen empty.
LEMMA IdleLeaving ==
  ASSUME LoneWorker, Shape, Counts, Leaving, NEW t \in Workers,
         \/ EnterIdle(t) \/ ReadPending(t) \/ ReadFlags(t) \/ ReadEmpty(t)
         \/ ReadActive(t) \/ LeaveIdle(t)
  PROVE  Leaving'
<1> USE DEF fiberVars, eventVars, stopVars
<1>0. /\ \A u \in Workers : u = t
      /\ \A u \in Children : u = t
      /\ UseCaller => t = Caller
      /\ pc[t] \in {"idle"} \cup Idling
      /\ ~(t = Caller /\ mpc \in {"join", "stopped"}) /\ mpc # "stopped"
      /\ pc[t] # "idleOut" => ~Left(t) /\ t \notin idleTerm
      /\ Seen(t)
      /\ UNCHANGED <<m_fibers, armed, m_autoStop>>
  BY IdleMoves, LoneFacts DEF Leaving, Idling, Left
<1>1. ASSUME NEW l, pc'[t] = l, l \in {"pend", "flags", "empty", "active", "idleOut", "pick"},
             l \in {"flags", "empty", "active"} => armed = {},
             l \in {"empty", "active"} => m_autoStop,
             l = "active" => m_fibers = <<>>,
             t \in idleTerm => l = "pick",
             UNCHANGED <<mpc, idleTerm>>
      PROVE  Leaving'
  <2>1. LeaveFlags' /\ LeavePos'
    BY <1>0, <1>1 DEF Leaving, LeaveFlags, LeavePos
  <2>2. Seen(t)'
    BY <1>0, <1>1 DEF Seen, Left
  <2> QED BY <1>0, <2>1, <2>2 DEF Leaving
<1>2. CASE EnterIdle(t)
  <2>1. pc'[t] = StoppingEntry /\ UNCHANGED <<mpc, idleTerm>> /\ pc[t] = "idle"
    BY <1>2 DEF EnterIdle, Goto, Shape
  <2>2. StoppingEntry \in {"pend", "flags"} /\ (StoppingEntry = "flags" => armed = {})
    BY DEF StoppingEntry, Leaving
  <2> QED BY <1>0, <1>1, <2>1, <2>2
<1>3. CASE LeaveIdle(t)
  <2>1. pc'[t] = "pick" /\ UNCHANGED <<mpc, idleTerm>>
    BY <1>3 DEF LeaveIdle, Goto, Shape
  <2> QED BY <1>1, <2>1
<1>4. ASSUME pc[t] \in StopRead, StoppingReturns(t, FALSE) PROVE Leaving'
  <2>1. CASE t = Caller /\ mpc = "probe"
    <3>1. mpc' = "call" /\ idleTerm' = idleTerm /\ pc'[t] = "pick"
      BY <1>4, <2>1 DEF StoppingReturns, Goto, Shape
    <3>2. t \notin idleTerm
      BY <1>0, <1>4 DEF StopRead
    <3>3. LeaveFlags' /\ LeavePos'
      BY <1>0, <3>1 DEF Leaving, LeaveFlags, LeavePos
    <3>4. Seen(t)'
      BY <1>0, <3>1, <3>2 DEF Seen, Left
    <3> QED BY <1>0, <3>3, <3>4 DEF Leaving
  <2>2. CASE ~(t = Caller /\ mpc = "probe")
    <3>1. pc'[t] = "idleOut" /\ UNCHANGED <<mpc, idleTerm>> /\ t \notin idleTerm
      BY <1>0, <1>4, <2>2 DEF StoppingReturns, Goto, Shape, StopRead
    <3> QED BY <1>1, <3>1
  <2> QED BY <2>1, <2>2
<1>5. CASE ReadPending(t)
  <2>1. CASE m_pendingEventCount = 0
    <3>1. armed = {}
      <4>1. IsFiniteSet(armed) /\ Cardinality(armed) \in Nat /\ inTrigger \in Nat
        BY FS_CardinalityType DEF Counts, Shape
      <4>2. Cardinality(armed) = 0
        BY <2>1, <4>1 DEF Counts
      <4> QED BY <4>1, <4>2, FS_EmptySet
    <3>2. pc[t] = "pend" /\ pc'[t] = "flags" /\ UNCHANGED <<mpc, idleTerm>>
      BY <1>5, <2>1 DEF ReadPending, Operand, Goto, Shape
    <3> QED BY <1>0, <1>1, <3>1, <3>2
  <2>2. CASE m_pendingEventCount # 0
    BY <1>4, <1>5, <2>2 DEF ReadPending, Operand, StopRead
  <2> QED BY <2>1, <2>2
<1>6. CASE ReadFlags(t)
  <2>1. CASE m_autoStop /\ m_stopping
    <3>1. pc[t] = "flags" /\ pc'[t] = "empty" /\ UNCHANGED <<mpc, idleTerm>>
      BY <1>6, <2>1 DEF ReadFlags, Operand, Goto, Shape
    <3>2. armed = {}
      BY <1>0, <3>1 DEF Seen
    <3> QED BY <1>0, <1>1, <2>1, <3>1, <3>2
  <2>2. CASE ~(m_autoStop /\ m_stopping)
    BY <1>4, <1>6, <2>2 DEF ReadFlags, Operand, StopRead
  <2> QED BY <2>1, <2>2
<1>7. CASE ReadEmpty(t)
  <2>1. CASE m_fibers = <<>>
    <3>1. pc[t] = "empty" /\ pc'[t] = "active" /\ UNCHANGED <<mpc, idleTerm>>
      BY <1>7, <2>1 DEF ReadEmpty, Operand, Goto, Shape
    <3>2. armed = {} /\ m_autoStop
      BY <1>0, <3>1 DEF Seen, Leaving, LeaveFlags
    <3> QED BY <1>0, <1>1, <2>1, <3>1, <3>2
  <2>2. CASE m_fibers # <<>>
    BY <1>4, <1>7, <2>2 DEF ReadEmpty, Operand, StopRead
  <2> QED BY <2>1, <2>2
<1>8. CASE ReadActive(t)
  <2>0. /\ pc[t] = "active" /\ StoppingReturns(t, m_activateThreadCount = 0)
        /\ m_autoStop /\ m_fibers = <<>> /\ armed = {}
    BY <1>0, <1>8 DEF ReadActive, Seen, Leaving, LeaveFlags
  <2>1. CASE m_activateThreadCount # 0
    BY <1>4, <2>0, <2>1 DEF StopRead
  <2>2. CASE m_activateThreadCount = 0 /\ t = Caller /\ mpc = "probe"
    <3>1. mpc' = "join" /\ idleTerm' = idleTerm /\ pc'[t] = "off"
      BY <2>0, <2>2 DEF StoppingReturns, Goto, Shape
    <3>2. LeaveFlags' /\ LeavePos'
      BY <1>0, <2>2, <3>1 DEF Leaving, LeaveFlags, LeavePos
    <3>3. Seen(t)'
      BY <1>0, <2>0, <3>1 DEF Seen
    <3> QED BY <1>0, <2>0, <3>2, <3>3 DEF Leaving
  <2>3. CASE m_activateThreadCount = 0 /\ ~(t = Caller /\ mpc = "probe")
    <3>1. mpc' = mpc /\ idleTerm' = idleTerm \cup {t} /\ pc'[t] = "idleOut"
      BY <2>0, <2>3 DEF StoppingReturns, Goto, Shape
    <3>2. LeaveFlags' /\ LeavePos'
      BY <1>0, <2>0, <3>1 DEF Leaving, LeaveFlags, LeavePos
    <3>3. Seen(t)'
      BY <1>0, <2>0, <3>1 DEF Seen
    <3> QED BY <1>0, <2>0, <3>2, <3>3 DEF Leaving
  <2> QED BY <2>1, <2>2, <2>3
<1> QED BY <1>2, <1>3, <1>5, <1>6, <1>7, <1>8

\* Leaving is an invariant when stopping() counts the events tasks wait for.
THEOREM LeavingInvariant ==
  ASSUME LoneWorker, EventsCounted
  PROVE  Spec => []Leaving
<1>1. ASSUME Shape, Counts, Leaving, [Next]_vars PROVE Leaving'
  <2>1. CASE Main \/ Submit
    BY <1>1, <2>1, MainLeaving
  <2>2. CASE Events
    BY <1>1, <2>2, EventsLeaving
  <2>3. CASE UNCHANGED vars
    BY <1>1, <2>3 DEF vars, Leaving, LeaveFlags, LeavePos, Seen, Left
  <2>4. ASSUME NEW t \in Workers, Run(t) PROVE Leaving'
    BY <1>1, <2>4, RunLeaving, IdleLeaving DEF Run
  <2>5. ASSUME NEW t \in Workers, Body(t) PROVE Leaving'
    BY <1>1, <2>5, BodyLeaving
  <2> QED BY <1>1, <2>1, <2>2, <2>3, <2>4, <2>5 DEF Next, Terminated
<1>2. Shape /\ Counts /\ Leaving /\ [Next]_vars => Leaving'
  BY <1>1
<1> QED BY InitLeaving, <1>2, InductiveInvariant, PTL DEF Spec

\* Once the worker has been joined, nothing is registered, listed or held.
LEMMA LoneJoined ==
  ASSUME LoneWorker, Shape, Lone, Leaving,
         \/ mpc = "stopped"
         \/ mpc = "join" /\ \A t \in Children : pc[t] = "exited"
  PROVE  /\ \A t \in Workers : pc[t] \notin Holding
         /\ m_fibers = <<>> /\ Len(m_fibers) = 0
         /\ \A f \in submitted : Ended(f)
<1>1. PICK t \in Workers : TRUE
  BY ConstantsAssumption
<1>2. /\ \A u \in Workers : u = t
      /\ t \in Children \/ (t = Caller /\ UseCaller)
  BY DEF LoneWorker, Workers
<1>3. Left(t) /\ pc[t] \notin Holding
  BY <1>2 DEF Left, Leaving, LeaveFlags, LeavePos, Holding, Counted
<1>4. m_fibers = <<>> /\ Len(m_fibers) = 0 /\ armed = {}
  BY <1>3 DEF Leaving, Seen
<1>5. \A f \in submitted : Ended(f)
  BY <1>2, <1>3, <1>4 DEF Lone, NoTaskLost, Queued, HeldByWorker
<1> QED BY <1>2, <1>3, <1>4, <1>5

\* On one worker stop() leaves nothing behind even if tasks wait for events:
\* the worker leaves run() only after it has read a pending count of zero and
\* then an empty list, and nobody is left to fill the list after that.
THEOREM LoneStopLeavesNothing ==
  ASSUME LoneWorker, EventsCounted
  PROVE  Spec => []StopDrains
<1>1. Shape /\ Lone /\ Leaving => StopDrains
  BY LoneJoined DEF StopDrains
<1> QED BY <1>1, ShapeInvariant, LoneInvariant, LeavingInvariant, PTL
-----------------------------------------------------------------------------
(* Only the worker on its stack takes a fiber out of EXEC.                 *)

\* The action of ExecLeftByRunner.
LeavesExec ==
    \A f \in Tasks :
       m_state[f] = "EXEC" /\ m_state'[f] # "EXEC"
       => \E t \in Workers :
             pc[t] \in {"exec", "hold"} /\ ft[t].task = f /\ pc'[t] = "swapOut"

\* A worker writes the state of the fiber it holds, and no other.
LEMMA StateStep ==
  ASSUME Shape, NEW t \in Workers, NEW l, NEW st, pc[t] \in Holding, Goto(t, l),
         m_state' = [m_state EXCEPT ![ft[t].task] = st],
         \/ st = "EXEC" \/ m_state[ft[t].task] # "EXEC"
         \/ pc[t] \in {"exec", "hold"} /\ l = "swapOut"
  PROVE  LeavesExec
<1>1. /\ ft[t].task \in Tasks
      /\ pc'[t] = l
      /\ \A f \in Tasks : m_state'[f] = IF f = ft[t].task THEN st ELSE m_state[f]
  BY TicketTasks DEF Goto, Shape
<1> QED BY <1>1 DEF LeavesExec

\* A step of a worker, if the fiber it puts on HOLD is not running.
LEMMA WorkerStateStep ==
  ASSUME Shape, NEW t \in Workers, Run(t) \/ Body(t),
         pc[t] = "putOnHold" => m_state[ft[t].task] # "EXEC"
  PROVE  LeavesExec
<1> USE DEF fiberVars
<1>1. CASE SwapIn(t)
  BY <1>1, StateStep DEF SwapIn, Holding, Counted
<1>2. CASE PutOnHold(t)
  BY <1>2, StateStep DEF PutOnHold, Holding
<1>3. CASE Finish(t)
  BY <1>3, StateStep DEF Finish, Holding, Counted
<1>4. CASE YieldToReady(t)
  BY <1>4, StateStep DEF YieldToReady, Holding, Counted
<1>5. CASE YieldToHold(t)
  BY <1>5, StateStep DEF YieldToHold, Holding, Counted
<1>6. CASE m_state' = m_state
  BY <1>6 DEF LeavesExec
<1>7. ASSUME \/ Take(t) \/ Count(t) \/ NothingToTake(t) \/ Dispatch(t) \/ Drop(t)
             \/ SwapOut(t) \/ Uncount(t) \/ SettleReady(t) \/ SettleEnded(t) \/ SettleOther(t)
      PROVE  m_state' = m_state
  BY <1>7 DEF Take, Count, NothingToTake, Dispatch, Drop, SwapOut, Uncount, SettleReady,
              SettleEnded, SettleOther
<1>8. ASSUME \/ EnterIdle(t) \/ ReadPending(t) \/ ReadFlags(t) \/ ReadEmpty(t)
             \/ ReadActive(t) \/ LeaveIdle(t)
      PROVE  m_state' = m_state
  BY <1>8, IdleMoves
<1>9. ASSUME Wait(t) \/ \E f \in Tasks, th \in Targets : TaskSchedule(t, f, th)
      PROVE  m_state' = m_state
  BY <1>9 DEF Wait, TaskSchedule
<1> QED BY <1>1, <1>2, <1>3, <1>4, <1>5, <1>6, <1>7, <1>8, <1>9 DEF Run, Body

\* The HOLD that run() writes is all that could take a running fiber out of
\* EXEC behind its back.
LEMMA ExecStep ==
  ASSUME Shape, [Next]_vars,
         \A t \in Workers : pc[t] = "putOnHold" => m_state[ft[t].task] # "EXEC"
  PROVE  [LeavesExec]_vars
<1>1. CASE Main \/ Submit \/ Events
  <2>1. m_state' = m_state
    BY <1>1 DEF Main, Submit, Events, start, stop, StopFlag, RootFiberBack, Join,
                MainSchedule, MainReschedule, Trigger, Triggered, fiberVars
  <2> QED BY <2>1 DEF LeavesExec
<1>2. ASSUME NEW t \in Workers, Run(t) \/ Body(t) PROVE LeavesExec
  BY <1>2, WorkerStateStep
<1> QED BY <1>1, <1>2 DEF Next, Terminated

\* The HOLD that run() writes after swapIn() never hits a fiber that another
\* worker has resumed: tasks with one ticket are never put on HOLD.
THEOREM OnlyRunnerLeavesExec ==
  ASSUME OneTicketEach
  PROVE  Spec => ExecLeftByRunner
<1>1. Plain => \A t \in Workers : pc[t] = "putOnHold" => m_state[ft[t].task] # "EXEC"
  BY DEF Plain, Stages
<1>2. Shape /\ Plain /\ [Next]_vars => [LeavesExec]_vars
  BY <1>1, ExecStep
<1>3. Spec => [][LeavesExec]_vars
  BY <1>2, ShapeInvariant, PlainInvariant, PTL DEF Spec
<1> QED BY <1>3 DEF ExecLeftByRunner, LeavesExec

\* On one worker the HOLD is written over the state of fibers that wait and
\* were never resumed in between, although their event may have fired.
THEOREM LoneRunnerLeavesExec ==
  ASSUME LoneWorker
  PROVE  Spec => ExecLeftByRunner
<1>1. Lone => \A t \in Workers : pc[t] = "putOnHold" => m_state[ft[t].task] # "EXEC"
  BY DEF Lone, Position
<1>2. Shape /\ Lone /\ [Next]_vars => [LeavesExec]_vars
  BY <1>1, ExecStep
<1>3. Spec => [][LeavesExec]_vars
  BY <1>2, ShapeInvariant, LoneInvariant, PTL DEF Spec
<1> QED BY <1>3 DEF ExecLeftByRunner, LeavesExec
-----------------------------------------------------------------------------
(* The scheduler implements TaskPool.                                      *)

\* The refinement mapping, spelt out.
LEMMA PhaseCases ==
  ASSUME NEW f
  PROVE  /\ Ended(f) => PhaseOf(f) = "ended"
         /\ ~Ended(f) /\ HeldByWorker(f) => PhaseOf(f) = "running"
         /\ ~Ended(f) /\ ~HeldByWorker(f) /\ Queued(f) => PhaseOf(f) = "queued"
         /\ ~Ended(f) /\ ~HeldByWorker(f) /\ ~Queued(f) /\ f \in submitted
            => PhaseOf(f) = "held"
         /\ ~Ended(f) /\ ~HeldByWorker(f) /\ ~Queued(f) /\ f \notin submitted
            => PhaseOf(f) = "new"
  BY DEF PhaseOf

\* The mapping depends on the four tests only.
LEMMA PhaseSame ==
  ASSUME NEW f, Ended(f)' <=> Ended(f), HeldByWorker(f)' <=> HeldByWorker(f),
         Queued(f)' <=> Queued(f), f \in submitted' <=> f \in submitted
  PROVE  PhaseOf(f)' = PhaseOf(f)
  BY DEF PhaseOf

\* One task changes its phase and the others keep theirs.
LEMMA PhaseMove ==
  ASSUME NEW f \in Tasks, NEW from, NEW to, PhaseOf(f) \in from, PhaseOf(f)' = to,
         \A g \in Tasks \ {f} : PhaseOf(g)' = PhaseOf(g),
         mpc = "stopped" <=> mpc' = "stopped"
  PROVE  Pool!Move(f, from, to)
<1>1. [g \in Tasks |-> PhaseOf(g)][f] \in from
  OBVIOUS
<1>2. [g \in Tasks |-> PhaseOf(g)]' = [[g \in Tasks |-> PhaseOf(g)] EXCEPT ![f] = to]
  OBVIOUS
<1>3. (mpc = "stopped")' = (mpc = "stopped")
  OBVIOUS
<1> QED BY <1>1, <1>2, <1>3 DEF Pool!Move

\* No task changes its phase.
LEMMA PoolStutters ==
  ASSUME \A f \in Tasks : PhaseOf(f)' = PhaseOf(f), mpc = "stopped" <=> mpc' = "stopped"
  PROVE  UNCHANGED Pool!poolVars
<1>1. [g \in Tasks |-> PhaseOf(g)]' = [g \in Tasks |-> PhaseOf(g)]
  OBVIOUS
<1>2. (mpc = "stopped")' = (mpc = "stopped")
  OBVIOUS
<1> QED BY <1>1, <1>2 DEF Pool!poolVars

\* Workers move, with the tickets they have and the list as it is, and no
\* fiber ends: the pool does not change.
LEMMA MovePool ==
  ASSUME UNCHANGED <<m_fibers, submitted>>,
         \A u \in Workers : pc'[u] \in Holding <=> pc[u] \in Holding,
         \A u \in Workers : pc[u] \in Holding => ft'[u].task = ft[u].task,
         \A f \in Tasks : Ended(f)' <=> Ended(f),
         mpc = "stopped" <=> mpc' = "stopped"
  PROVE  UNCHANGED Pool!poolVars
<1>1. \A f : (HeldByWorker(f)' <=> HeldByWorker(f)) /\ (Queued(f)' <=> Queued(f))
  BY DEF HeldByWorker, Queued
<1>2. \A f \in Tasks : PhaseOf(f)' = PhaseOf(f)
  BY <1>1, PhaseSame
<1> QED BY <1>2, PoolStutters

\* One worker moves and nothing else that the mapping reads.
LEMMA GotoPool ==
  ASSUME Shape, NEW t \in Workers, NEW l, Goto(t, l), pc[t] \in Holding <=> l \in Holding,
         UNCHANGED <<mpc, ft, m_fibers, m_state, submitted>>
  PROVE  UNCHANGED Pool!poolVars
<1>1. \A u \in Workers : pc'[u] = IF u = t THEN l ELSE pc[u]
  BY DEF Goto, Shape
<1>2. \A f \in Tasks : Ended(f)' <=> Ended(f)
  BY DEF Ended
<1> QED BY <1>1, <1>2, MovePool

\* schedule() with a new task is HandOver.
LEMMA HandOverStep ==
  ASSUME Shape, Known, NEW f \in Tasks, NEW th \in Targets,
         f \notin submitted, schedule(NewTicket(f, th)),
         submitted' = submitted \cup {f}, mpc # "stopped",
         UNCHANGED <<mpc, pc, ft, m_state, armed>>
  PROVE  Pool!HandOver(f)
<1> DEFINE tk == NewTicket(f, th)
           n  == Len(m_fibers)
<1>1. tk \in Ticket /\ tk.task = f
  BY ConstantsAssumption DEF NewTicket, Ticket
<1>2. m_fibers' = Append(m_fibers, tk) /\ m_fibers \in Seq(Ticket) /\ n \in Nat
  BY DEF schedule, Shape
<1> HIDE DEF tk
<1>3. /\ Len(m_fibers') = n + 1
      /\ \A i \in 1..n : m_fibers'[i] = m_fibers[i]
      /\ m_fibers'[n + 1].task = f
  BY <1>1, <1>2, AppendElements
<1>4. \A i : i \in 1..Len(m_fibers') <=> (i \in 1..n \/ i = n + 1)
  BY <1>2, <1>3
<1>5. Queued(f)' /\ \A g : g # f => (Queued(g)' <=> Queued(g))
  BY <1>3, <1>4 DEF Queued
<1>6. ~Ended(f) /\ ~HeldByWorker(f) /\ ~Queued(f)
  BY DEF Known, Ended, HeldByWorker, Queued
<1>7. \A g : (Ended(g)' <=> Ended(g)) /\ (HeldByWorker(g)' <=> HeldByWorker(g))
  BY DEF Ended, HeldByWorker
<1>8. PhaseOf(f) = "new"
  BY <1>6, PhaseCases
<1>9. PhaseOf(f)' = "queued"
  <2>1. ~Ended(f)' /\ ~HeldByWorker(f)' /\ Queued(f)'
    BY <1>5, <1>6, <1>7
  <2> QED BY <2>1, Zenon DEF PhaseOf
<1>10. \A g \in Tasks \ {f} : PhaseOf(g)' = PhaseOf(g)
  BY <1>5, <1>7, PhaseSame
<1>11. Pool!Move(f, {"new"}, "queued")
  BY <1>8, <1>9, <1>10, PhaseMove
<1> QED BY <1>11 DEF Pool!HandOver

\* Erasing a ticket is Begin, or nothing if the fiber has ended.
LEMMA BeginStep ==
  ASSUME Shape, NEW t \in Workers, Take(t),
         \A i \in 1..Len(m_fibers) : ~HeldByWorker(m_fibers[i].task)
  PROVE  (\E f \in Tasks : Pool!Begin(f)) \/ UNCHANGED Pool!poolVars
<1>1. PICK i \in 1..Len(m_fibers) :
         ft' = [ft EXCEPT ![t] = m_fibers[i]] /\ m_fibers' = RemoveAt(m_fibers, i)
  BY DEF Take
<1>2. PICK f \in Tasks : f = m_fibers[i].task
  BY TicketTasks
<1>3. \A g : g # f => (Queued(g)' <=> Queued(g))
  BY <1>1, <1>2, QueuedRemove
<1>4. /\ pc[t] = "pick" /\ UNCHANGED <<mpc, m_state, submitted>>
      /\ \A u \in Workers : pc'[u] = IF u = t THEN "count" ELSE pc[u]
      /\ \A u \in Workers : ft'[u] = IF u = t THEN m_fibers[i] ELSE ft[u]
  BY <1>1 DEF Take, Goto, Shape, fiberVars
<1>5. /\ \A u \in Workers : pc'[u] \in Holding <=> u = t \/ pc[u] \in Holding
      /\ pc[t] \notin Holding
  BY <1>4 DEF Holding, Counted
<1>6. HeldByWorker(f)' /\ \A g : g # f => (HeldByWorker(g)' <=> HeldByWorker(g))
  BY <1>2, <1>4, <1>5 DEF HeldByWorker
<1>7. Queued(f) /\ ~HeldByWorker(f) /\ \A g : Ended(g)' <=> Ended(g)
  BY <1>2, <1>4 DEF Queued, Ended
<1>8. \A g \in Tasks \ {f} : PhaseOf(g)' = PhaseOf(g)
  BY <1>3, <1>4, <1>6, <1>7, PhaseSame
<1>9. CASE ~Ended(f)
  <2>1. PhaseOf(f) = "queued"
    BY <1>7, <1>9, PhaseCases
  <2>2. ~Ended(f)' /\ HeldByWorker(f)'
    BY <1>6, <1>7, <1>9
  <2>3. PhaseOf(f)' = "running"
    BY <2>2, Zenon DEF PhaseOf
  <2>4. Pool!Move(f, {"queued"}, "running")
    BY <1>4, <1>8, <2>1, <2>3, PhaseMove
  <2> QED BY <2>4 DEF Pool!Begin
<1>10. CASE Ended(f)
  <2>1. PhaseOf(f) = "ended"
    BY <1>10, PhaseCases
  <2>2. Ended(f)'
    BY <1>7, <1>10
  <2>3. PhaseOf(f)' = "ended"
    BY <2>2, Zenon DEF PhaseOf
  <2> QED BY <1>4, <1>8, <2>1, <2>3, PoolStutters
<1> QED BY <1>9, <1>10

\* Another ticket for a task that was handed over wakes it if it was held, and
\* otherwise changes nothing in the pool.
LEMMA WakeStep ==
  ASSUME Shape, NEW f \in submitted, NEW tk \in Ticket, tk.task = f,
         m_fibers' = Append(m_fibers, tk),
         UNCHANGED <<mpc, pc, ft, m_state, submitted>>
  PROVE  Pool!Wake(f) \/ UNCHANGED Pool!poolVars
<1>0. f \in Tasks
  BY DEF Shape
<1>1. Queued(f)' /\ \A g : g # f => (Queued(g)' <=> Queued(g))
  BY QueuedAppend
<1>2. \A g : (Ended(g)' <=> Ended(g)) /\ (HeldByWorker(g)' <=> HeldByWorker(g))
  BY DEF Ended, HeldByWorker
<1>3. \A g \in Tasks \ {f} : PhaseOf(g)' = PhaseOf(g)
  BY <1>1, <1>2, PhaseSame
<1>4. CASE Ended(f) \/ HeldByWorker(f) \/ Queued(f)
  <2>1. PhaseOf(f)' = PhaseOf(f)
    <3>1. CASE Queued(f)
      BY <1>1, <1>2, <3>1, PhaseSame
    <3>2. CASE Ended(f)
      <4>1. PhaseOf(f) = "ended" /\ Ended(f)'
        BY <1>2, <3>2, PhaseCases
      <4>2. PhaseOf(f)' = "ended"
        BY <4>1, Zenon DEF PhaseOf
      <4> QED BY <4>1, <4>2
    <3>3. CASE ~Ended(f) /\ HeldByWorker(f)
      <4>1. PhaseOf(f) = "running" /\ ~Ended(f)' /\ HeldByWorker(f)'
        BY <1>2, <3>3, PhaseCases
      <4>2. PhaseOf(f)' = "running"
        BY <4>1, Zenon DEF PhaseOf
      <4> QED BY <4>1, <4>2
    <3> QED BY <1>4, <3>1, <3>2, <3>3
  <2> QED BY <1>3, <2>1, PoolStutters
<1>5. CASE ~Ended(f) /\ ~HeldByWorker(f) /\ ~Queued(f)
  <2>1. PhaseOf(f) = "held"
    BY <1>5, PhaseCases
  <2>2. ~Ended(f)' /\ ~HeldByWorker(f)' /\ Queued(f)'
    BY <1>1, <1>2, <1>5
  <2>3. PhaseOf(f)' = "queued"
    BY <2>2, Zenon DEF PhaseOf
  <2>4. Pool!Move(f, {"held"}, "queued")
    BY <1>0, <1>3, <2>1, <2>3, PhaseMove
  <2> QED BY <2>4 DEF Pool!Wake
<1> QED BY <1>4, <1>5

\* Putting a fiber on HOLD is Hold, or Requeue if its event has scheduled it
\* already.
LEMMA HoldStep ==
  ASSUME Shape, Known, NEW t \in Workers, PutOnHold(t), ~Ended(ft[t].task),
         \A u \in Workers : u # t /\ pc[u] \in Holding => ft[u].task # ft[t].task
  PROVE  \E f \in Tasks : Pool!Hold(f) \/ Pool!Requeue(f)
<1>0. pc[t] = "putOnHold" /\ pc[t] \in Holding
  BY DEF PutOnHold, Holding
<1>1. PICK f \in Tasks : f = ft[t].task
  BY <1>0, TicketTasks
<1>2. /\ UNCHANGED <<mpc, m_fibers, submitted>>
      /\ \A u \in Workers : pc'[u] = IF u = t THEN "pick" ELSE pc[u]
      /\ \A u \in Workers : u # t => ft'[u] = ft[u]
      /\ \A g \in Tasks : m_state'[g] = IF g = f THEN "HOLD" ELSE m_state[g]
  BY <1>1 DEF PutOnHold, Goto, Shape
<1>3. \A u \in Workers : pc'[u] \in Holding <=> u # t /\ pc[u] \in Holding
  BY <1>2 DEF Holding, Counted
<1>4. ~HeldByWorker(f)' /\ \A g : g # f => (HeldByWorker(g)' <=> HeldByWorker(g))
  BY <1>1, <1>2, <1>3 DEF HeldByWorker
<1>5. /\ HeldByWorker(f) /\ ~Ended(f) /\ ~Ended(f)' /\ f \in submitted /\ f \in submitted'
      /\ \A g \in Tasks \ {f} : Ended(g)' <=> Ended(g)
  BY <1>0, <1>1, <1>2 DEF Ended, HeldByWorker, Known
<1>6. \A g : Queued(g)' <=> Queued(g)
  BY <1>2 DEF Queued
<1>7. \A g \in Tasks \ {f} : PhaseOf(g)' = PhaseOf(g)
  BY <1>2, <1>4, <1>5, <1>6, PhaseSame
<1>8. PhaseOf(f) = "running"
  BY <1>5, PhaseCases
<1>9. CASE Queued(f)'
  <2>1. PhaseOf(f)' = "queued"
    BY <1>4, <1>5, <1>9, Zenon DEF PhaseOf
  <2>2. Pool!Move(f, {"running"}, "queued")
    BY <1>2, <1>7, <1>8, <2>1, PhaseMove
  <2> QED BY <2>2 DEF Pool!Requeue
<1>10. CASE ~Queued(f)'
  <2>1. PhaseOf(f)' = "held"
    BY <1>4, <1>5, <1>10, Zenon DEF PhaseOf
  <2>2. Pool!Move(f, {"running"}, "held")
    BY <1>2, <1>7, <1>8, <2>1, PhaseMove
  <2> QED BY <2>2 DEF Pool!Hold
<1> QED BY <1>9, <1>10

\* A fiber that ends its function ends in the pool.
LEMMA EndStep ==
  ASSUME Shape, NEW t \in Workers, Finish(t), m_state[ft[t].task] = "EXEC"
  PROVE  \E f \in Tasks : Pool!End(f)
<1>0. pc[t] = "exec" /\ pc[t] \in Holding
  BY DEF Finish, Holding, Counted
<1>1. PICK f \in Tasks : f = ft[t].task
  BY <1>0, TicketTasks
<1>2. PICK st \in {"TERM", "EXCEPT"} : m_state' = [m_state EXCEPT ![f] = st]
  BY <1>1 DEF Finish
<1>3. /\ UNCHANGED <<mpc, ft, m_fibers, submitted>>
      /\ \A u \in Workers : pc'[u] = IF u = t THEN "swapOut" ELSE pc[u]
      /\ \A g \in Tasks : m_state'[g] = IF g = f THEN st ELSE m_state[g]
  BY <1>2 DEF Finish, Goto, Shape
<1>4. \A u \in Workers : pc'[u] \in Holding <=> pc[u] \in Holding
  BY <1>0, <1>3 DEF Holding, Counted
<1>5. \A g : (HeldByWorker(g)' <=> HeldByWorker(g)) /\ (Queued(g)' <=> Queued(g))
  BY <1>3, <1>4 DEF HeldByWorker, Queued
<1>6. ~Ended(f) /\ HeldByWorker(f)
  BY <1>0, <1>1 DEF Ended, HeldByWorker
<1>7. Ended(f)' /\ \A g \in Tasks \ {f} : Ended(g)' <=> Ended(g)
  BY <1>3 DEF Ended
<1>8. PhaseOf(f) = "running"
  BY <1>6, PhaseCases
<1>9. PhaseOf(f)' = "ended"
  BY <1>7, Zenon DEF PhaseOf
<1>10. \A g \in Tasks \ {f} : PhaseOf(g)' = PhaseOf(g)
  BY <1>3, <1>5, <1>7, PhaseSame
<1>11. Pool!Move(f, {"running"}, "ended")
  BY <1>3, <1>8, <1>9, <1>10, PhaseMove
<1> QED BY <1>11 DEF Pool!End

\* Putting a fiber that yielded back into the list is Requeue.
LEMMA RequeueStep ==
  ASSUME Shape, NEW t \in Workers, SettleReady(t),
         \A u \in Workers : u # t /\ pc[u] \in Holding => ft[u].task # ft[t].task
  PROVE  \E f \in Tasks : Pool!Requeue(f)
<1> DEFINE n == Len(m_fibers)
<1>0. pc[t] = "settle" /\ pc[t] \in Holding
  BY DEF SettleReady, Holding
<1>1. PICK f \in Tasks : f = ft[t].task
  BY <1>0, TicketTasks
<1>2. /\ UNCHANGED <<mpc, m_state, submitted>> /\ m_state[f] = "READY"
      /\ \A u \in Workers : pc'[u] = IF u = t THEN "pick" ELSE pc[u]
      /\ \A u \in Workers : u # t => ft'[u] = ft[u]
  BY <1>1 DEF SettleReady, Goto, Shape, fiberVars
<1> DEFINE tk == [task |-> f, thread |-> AnyThread, cb |-> FALSE]
<1>3. tk \in Ticket /\ tk.task = f
  BY DEF Ticket
<1>4. m_fibers' = Append(m_fibers, tk) /\ m_fibers \in Seq(Ticket) /\ n \in Nat
  BY <1>1 DEF SettleReady, schedule, Shape
<1> HIDE DEF tk
<1>5. /\ Len(m_fibers') = n + 1
      /\ \A i \in 1..n : m_fibers'[i] = m_fibers[i]
      /\ m_fibers'[n + 1].task = f
  BY <1>3, <1>4, AppendElements
<1>6. \A i : i \in 1..Len(m_fibers') <=> (i \in 1..n \/ i = n + 1)
  BY <1>4, <1>5
<1>7. Queued(f)' /\ \A g : g # f => (Queued(g)' <=> Queued(g))
  BY <1>5, <1>6 DEF Queued
<1>8. \A u \in Workers : pc'[u] \in Holding <=> u # t /\ pc[u] \in Holding
  BY <1>2 DEF Holding, Counted
<1>9. \A u \in Workers : u # t /\ pc[u] \in Holding => ft[u].task # f
  BY <1>1
<1>10. ~HeldByWorker(f)' /\ \A g : g # f => (HeldByWorker(g)' <=> HeldByWorker(g))
  BY <1>1, <1>2, <1>8, <1>9 DEF HeldByWorker
<1>11. ~Ended(f) /\ HeldByWorker(f) /\ \A g : Ended(g)' <=> Ended(g)
  BY <1>0, <1>1, <1>2 DEF Ended, HeldByWorker
<1>12. PhaseOf(f) = "running"
  BY <1>11, PhaseCases
<1>13. PhaseOf(f)' = "queued"
  <2>1. ~Ended(f)' /\ ~HeldByWorker(f)' /\ Queued(f)'
    BY <1>7, <1>10, <1>11
  <2> QED BY <2>1, Zenon DEF PhaseOf
<1>14. \A g \in Tasks \ {f} : PhaseOf(g)' = PhaseOf(g)
  BY <1>2, <1>7, <1>10, <1>11, PhaseSame
<1>15. Pool!Move(f, {"running"}, "queued")
  BY <1>2, <1>12, <1>13, <1>14, PhaseMove
<1> QED BY <1>15 DEF Pool!Requeue

\* Letting an ended fiber go, or dropping its ticket, changes nothing in the
\* pool.
LEMMA ReleaseStep ==
  ASSUME Shape, NEW t \in Workers, SettleEnded(t) \/ Drop(t)
  PROVE  UNCHANGED Pool!poolVars
<1>0. pc[t] \in Holding
  BY DEF SettleEnded, Drop, Holding, Counted
<1>1. PICK f \in Tasks : f = ft[t].task
  BY <1>0, TicketTasks
<1>2. /\ UNCHANGED <<mpc, m_fibers, m_state, submitted>> /\ Ended(f)
      /\ \A u \in Workers : pc'[u] = IF u = t THEN "pick" ELSE pc[u]
      /\ \A u \in Workers : u # t => ft'[u] = ft[u]
  BY <1>1 DEF SettleEnded, Drop, Goto, Shape, fiberVars
<1>3. \A g : (Ended(g)' <=> Ended(g)) /\ (Queued(g)' <=> Queued(g))
  BY <1>2 DEF Ended, Queued
<1>4. \A u \in Workers : pc'[u] \in Holding <=> u # t /\ pc[u] \in Holding
  BY <1>2 DEF Holding, Counted
<1>5. \A g : g # f => (HeldByWorker(g)' <=> HeldByWorker(g))
  BY <1>1, <1>2, <1>4 DEF HeldByWorker
<1>6. \A g \in Tasks : g # f => PhaseOf(g)' = PhaseOf(g)
  BY <1>2, <1>3, <1>5, PhaseSame
<1>7. PhaseOf(f) = "ended"
  BY <1>2, PhaseCases
<1>8. PhaseOf(f)' = "ended"
  BY <1>2, <1>3, Zenon DEF PhaseOf
<1> QED BY <1>2, <1>6, <1>7, <1>8, PoolStutters

\* SwapIn, YieldToReady and YieldToHold write a state that has not ended over
\* one that has not.
LEMMA LiveStep ==
  ASSUME Shape, NEW t \in Workers, SwapIn(t) \/ YieldToReady(t) \/ YieldToHold(t),
         ~Ended(ft[t].task)
  PROVE  UNCHANGED Pool!poolVars
<1>1. PICK l \in {"exec", "swapOut"}, st \in {"EXEC", "READY", "HOLD"} :
         Goto(t, l) /\ m_state' = [m_state EXCEPT ![ft[t].task] = st]
  BY DEF SwapIn, YieldToReady, YieldToHold
<1>2. pc[t] \in {"swapIn", "exec", "hold"} /\ UNCHANGED <<mpc, ft, m_fibers, submitted>>
  BY DEF SwapIn, YieldToReady, YieldToHold
<1>3. ft[t].task \in Tasks /\ ~Ended(ft[t].task)
  BY <1>2, TicketTasks DEF Holding, Counted
<1>4. /\ \A u \in Workers : pc'[u] = IF u = t THEN l ELSE pc[u]
      /\ \A g \in Tasks : m_state'[g] = IF g = ft[t].task THEN st ELSE m_state[g]
  BY <1>1, <1>3 DEF Goto, Shape
<1>5. \A g \in Tasks : Ended(g)' <=> Ended(g)
  BY <1>3, <1>4 DEF Ended
<1>6. \A u \in Workers : pc'[u] \in Holding <=> pc[u] \in Holding
  BY <1>2, <1>4 DEF Holding, Counted
<1> QED BY <1>2, <1>5, <1>6, MovePool

\* Joining the last thread closes the pool.
LEMMA CloseStep ==
  ASSUME Join, \A t \in Workers : pc[t] \notin Holding, Len(m_fibers) = 0,
         \A f \in submitted : Ended(f)
  PROVE  Pool!Close
<1>1. /\ mpc = "join" /\ mpc' = "stopped" /\ \A t \in Children : pc[t] = "exited"
      /\ UNCHANGED <<pc, ft, m_fibers, m_state, submitted>>
  BY DEF Join, fiberVars
<1>2. \A f \in Tasks : PhaseOf(f) \in {"new", "ended"}
  <2> SUFFICES ASSUME NEW f \in Tasks PROVE PhaseOf(f) \in {"new", "ended"}
    OBVIOUS
  <2>1. ~HeldByWorker(f) /\ ~Queued(f)
    BY DEF HeldByWorker, Queued
  <2> QED BY <2>1, PhaseCases
<1>3. \A f \in Tasks : PhaseOf(f)' = PhaseOf(f)
  <2>1. \A f : (Ended(f)' <=> Ended(f)) /\ (HeldByWorker(f)' <=> HeldByWorker(f))
               /\ (Queued(f)' <=> Queued(f))
    BY <1>1 DEF Ended, HeldByWorker, Queued
  <2> QED BY <1>1, <2>1, PhaseSame
<1>4. [g \in Tasks |-> PhaseOf(g)]' = [g \in Tasks |-> PhaseOf(g)]
  BY <1>3
<1>5. ~(mpc = "stopped") /\ (mpc = "stopped")' = TRUE
  BY <1>1
<1> QED BY <1>2, <1>4, <1>5 DEF Pool!Close

\* The idle fiber and stopping() do not touch the pool.
LEMMA IdlePool ==
  ASSUME Shape, NEW t \in Workers,
         \/ EnterIdle(t) \/ ReadPending(t) \/ ReadFlags(t) \/ ReadEmpty(t)
         \/ ReadActive(t) \/ LeaveIdle(t)
  PROVE  UNCHANGED Pool!poolVars
<1>1. /\ \E l : Goto(t, l) /\ l \notin Holding /\ pc[t] \notin Holding
      /\ UNCHANGED <<m_fibers, ft, m_state, submitted>>
  BY IdleMoves
<1>2. \A u \in Workers : pc'[u] \in Holding <=> pc[u] \in Holding
  BY <1>1 DEF Goto, Shape
<1>3. mpc = "stopped" <=> mpc' = "stopped"
  BY DEF EnterIdle, ReadPending, ReadFlags, ReadEmpty, ReadActive, LeaveIdle,
         Operand, StoppingReturns
<1>4. \A f \in Tasks : Ended(f)' <=> Ended(f)
  BY <1>1 DEF Ended
<1> QED BY <1>1, <1>2, <1>3, <1>4, MovePool

\* Nor do start(), stop() before the joins, and the end of triggerEvent().
LEMMA CallsPool ==
  ASSUME Shape, start \/ stop \/ StopFlag \/ RootFiberBack \/ Triggered
  PROVE  UNCHANGED Pool!poolVars
<1> USE DEF fiberVars, eventVars, stopVars
<1>1. /\ UNCHANGED <<m_fibers, ft, m_state, submitted>>
      /\ mpc = "stopped" <=> mpc' = "stopped"
  BY DEF start, stop, StopFlag, RootFiberBack, Triggered
<1>2. \A u \in Workers : pc'[u] \in Holding <=> pc[u] \in Holding
  <2>1. CASE start
    BY <2>1 DEF start, Shape, MainPos, Holding, Counted
  <2>2. CASE StopFlag
    <3>1. CASE UseCaller
      <4>1. pc[Caller] = "off" /\ pc' = [pc EXCEPT ![Caller] = StoppingEntry]
        BY <2>2, <3>1 DEF StopFlag, Goto, Shape, MainPos
      <4> QED BY <4>1 DEF Shape, StoppingEntry, Holding, Counted
    <3>2. CASE ~UseCaller
      BY <2>2, <3>2 DEF StopFlag
    <3> QED BY <3>1, <3>2
  <2>3. CASE stop \/ RootFiberBack \/ Triggered
    BY <2>3 DEF stop, RootFiberBack, Triggered
  <2> QED BY <2>1, <2>2, <2>3
<1>3. \A f \in Tasks : Ended(f)' <=> Ended(f)
  BY <1>1 DEF Ended
<1> QED BY <1>1, <1>2, <1>3, MovePool

\* Every step of a worker is a step of the pool or none.
LEMMA WorkerPoolStep ==
  ASSUME OneTicketEach, UnboundOnly, Shape, Plain, Drained,
         NEW t \in Workers, Run(t) \/ Body(t)
  PROVE  Pool!PoolNext \/ UNCHANGED Pool!poolVars
<1> USE DEF fiberVars, eventVars
<1>0. /\ pc[t] \in Before => ~Ended(ft[t].task)
      /\ pc[t] = "exec" => m_state[ft[t].task] = "EXEC"
      /\ pc[t] = "settle" => Ended(ft[t].task) \/ m_state[ft[t].task] = "READY"
      /\ pc[t] \notin {"hold", "putOnHold"}
      /\ pc[t] \in Holding =>
            \A u \in Workers : u # t /\ pc[u] \in Holding => ft[u].task # ft[t].task
  BY DEF Plain, Unique, Stages, Ended, Before, After
<1>1. CASE Take(t)
  <2>1. \A i \in 1..Len(m_fibers) : ~HeldByWorker(m_fibers[i].task)
    BY DEF Plain, Unique, HeldByWorker
  <2> QED BY <1>1, <2>1, BeginStep DEF Pool!PoolNext
<1>2. CASE Count(t) \/ Dispatch(t) \/ SwapOut(t) \/ Uncount(t)
  <2>1. PICK l \in {"dispatch", "swapIn", "returned", "settle"} : Goto(t, l)
    BY <1>2 DEF Count, Dispatch, SwapOut, Uncount
  <2>2. pc[t] \in Holding /\ l \in Holding
    BY <1>2 DEF Count, Dispatch, SwapOut, Uncount, Holding, Counted
  <2> QED BY <1>2, <2>1, <2>2, GotoPool DEF Count, Dispatch, SwapOut, Uncount
<1>3. CASE NothingToTake(t)
  <2>1. PICK l \in {"exited", "idle"} : Goto(t, l)
    BY <1>3 DEF NothingToTake
  <2>2. pc[t] \notin Holding /\ l \notin Holding
    BY <1>3 DEF NothingToTake, Holding, Counted
  <2> QED BY <1>3, <2>1, <2>2, GotoPool DEF NothingToTake
<1>4. CASE SwapIn(t) \/ YieldToReady(t)
  <2>1. ~Ended(ft[t].task)
    BY <1>0, <1>4 DEF SwapIn, YieldToReady, Before, Ended
  <2> QED BY <1>4, <2>1, LiveStep
<1>5. CASE SettleReady(t)
  BY <1>0, <1>5, RequeueStep DEF SettleReady, Holding, Pool!PoolNext
<1>6. CASE SettleEnded(t)
  BY <1>6, ReleaseStep
<1>7. CASE Finish(t)
  BY <1>0, <1>7, EndStep DEF Finish, Pool!PoolNext
<1>8. CASE Drop(t) \/ SettleOther(t) \/ PutOnHold(t) \/ Wait(t) \/ YieldToHold(t)
  BY <1>0, <1>8 DEF Drop, SettleOther, PutOnHold, Wait, YieldToHold, OneTicketEach, Before
<1>9. ASSUME NEW f \in Tasks, NEW th \in Targets, TaskSchedule(t, f, th)
      PROVE  Pool!PoolNext
  <2>1. mpc # "stopped"
    <3>1. pc[t] = "exec" /\ pc[t] \in Holding
      BY <1>9 DEF TaskSchedule, Holding, Counted
    <3> QED BY <3>1, JoinedIsDrained
  <2>2. Pool!HandOver(f)
    BY <1>9, <2>1, HandOverStep DEF TaskSchedule, Plain
  <2> QED BY <2>2 DEF Pool!PoolNext
<1>10. CASE \/ EnterIdle(t) \/ ReadPending(t) \/ ReadFlags(t) \/ ReadEmpty(t)
            \/ ReadActive(t) \/ LeaveIdle(t)
  BY <1>10, IdlePool
<1> QED BY <1>1, <1>2, <1>3, <1>4, <1>5, <1>6, <1>7, <1>8, <1>9, <1>10 DEF Run, Body

\* So is every step of the main thread and of the events.
LEMMA MainPoolStep ==
  ASSUME OneTicketEach, UnboundOnly, Shape, Plain, Drained, Main \/ Submit \/ Events
  PROVE  Pool!PoolNext \/ UNCHANGED Pool!poolVars
<1> USE DEF fiberVars, eventVars, stopVars
<1>1. ASSUME NEW f \in Tasks, NEW th \in Targets, MainSchedule(f, th) PROVE Pool!PoolNext
  <2>1. Pool!HandOver(f)
    BY <1>1, HandOverStep DEF MainSchedule, Plain
  <2> QED BY <2>1 DEF Pool!PoolNext
<1>2. ASSUME NEW f \in Tasks, MainReschedule(f) PROVE FALSE
  BY <1>2 DEF MainReschedule, OneTicketEach
<1>3. ASSUME NEW f \in Tasks, Trigger(f) PROVE FALSE
  BY <1>3 DEF Trigger, Plain
<1>4. CASE Join
  BY <1>4, JoinedIsDrained, CloseStep DEF Join, Pool!PoolNext
<1>5. CASE start \/ stop \/ StopFlag \/ RootFiberBack \/ Triggered
  BY <1>5, CallsPool
<1> QED BY <1>1, <1>2, <1>3, <1>4, <1>5 DEF Main, Submit, Events

\* The constructed scheduler is a new pool.
LEMMA InitPool == Init => Pool!PoolInit
<1> SUFFICES ASSUME Init PROVE Pool!PoolInit
  OBVIOUS
<1>1. \A f \in Tasks : ~Ended(f) /\ ~HeldByWorker(f) /\ ~Queued(f) /\ f \notin submitted
  BY DEF Init, Ended, HeldByWorker, Queued, Holding, Counted
<1>2. \A f \in Tasks : PhaseOf(f) = "new"
  BY <1>1, PhaseCases
<1>3. [f \in Tasks |-> PhaseOf(f)] = [f \in Tasks |-> "new"]
  BY <1>2
<1>4. (mpc = "stopped") = FALSE
  BY DEF Init
<1> QED BY <1>3, <1>4 DEF Pool!PoolInit

\* The scheduler implements TaskPool: whatever the threads do between two of
\* their steps, a task handed over is queued, runs on one worker, may be queued
\* again, ends once, and stop() returns when all have ended.
THEOREM SchedulerImplementsPool ==
  ASSUME OneTicketEach, UnboundOnly
  PROVE  Spec => ImplementsTaskPool
<1>1. ASSUME Shape, Plain, Drained, [Next]_vars PROVE [Pool!PoolNext]_(Pool!poolVars)
  <2>1. CASE Main \/ Submit \/ Events
    BY <1>1, <2>1, MainPoolStep
  <2>2. ASSUME NEW t \in Workers, Run(t) \/ Body(t)
        PROVE  Pool!PoolNext \/ UNCHANGED Pool!poolVars
    BY <1>1, <2>2, WorkerPoolStep
  <2>3. CASE UNCHANGED vars
    <3>1. \A f \in Tasks : Ended(f)' <=> Ended(f)
      BY <2>3 DEF vars, Ended
    <3> QED BY <2>3, <3>1, MovePool DEF vars
  <2> QED BY <1>1, <2>1, <2>2, <2>3 DEF Next, Terminated
<1>2. Shape /\ Plain /\ Drained /\ [Next]_vars => [Pool!PoolNext]_(Pool!poolVars)
  BY <1>1
<1> QED
  BY <1>2, InitPool, ShapeInvariant, PlainInvariant, DrainedInvariant, PTL
  DEF Spec, ImplementsTaskPool, Pool!PoolSpec

\* On one worker too, every step of the worker is a step of the pool or none.
LEMMA LoneWorkerPoolStep ==
  ASSUME LoneWorker, Shape, Lone, Leaving, NEW t \in Workers, Run(t) \/ Body(t)
  PROVE  Pool!PoolNext \/ UNCHANGED Pool!poolVars
<1> USE DEF fiberVars, eventVars
<1>0. /\ Position(t)
      /\ \A u \in Workers : u = t
  BY DEF Lone, LoneWorker
<1>1. CASE Take(t)
  <2>1. \A i \in 1..Len(m_fibers) : ~HeldByWorker(m_fibers[i].task)
    BY <1>0, <1>1 DEF Take, HeldByWorker, Holding, Counted
  <2> QED BY <1>1, <2>1, BeginStep DEF Pool!PoolNext
<1>2. CASE Count(t) \/ Dispatch(t) \/ SwapOut(t) \/ Uncount(t) \/ SettleOther(t) \/ Wait(t)
  <2>1. PICK l \in {"dispatch", "swapIn", "returned", "settle", "putOnHold", "hold"} : Goto(t, l)
    BY <1>2 DEF Count, Dispatch, SwapOut, Uncount, SettleOther, Wait
  <2>2. pc[t] \in Holding /\ l \in Holding
    BY <1>2 DEF Count, Dispatch, SwapOut, Uncount, SettleOther, Wait, Holding, Counted
  <2>3. UNCHANGED <<mpc, ft, m_fibers, m_state, submitted>>
    BY <1>2 DEF Count, Dispatch, SwapOut, Uncount, SettleOther, Wait
  <2> QED BY <2>1, <2>2, <2>3, GotoPool
<1>3. CASE NothingToTake(t)
  <2>1. PICK l \in {"exited", "idle"} : Goto(t, l)
    BY <1>3 DEF NothingToTake
  <2>2. pc[t] \notin Holding /\ l \notin Holding
    BY <1>3 DEF NothingToTake, Holding, Counted
  <2> QED BY <1>3, <2>1, <2>2, GotoPool DEF NothingToTake
<1>4. CASE SwapIn(t) \/ YieldToReady(t) \/ YieldToHold(t)
  <2>1. ~Ended(ft[t].task)
    BY <1>0, <1>4 DEF SwapIn, YieldToReady, YieldToHold, Position, Ended
  <2> QED BY <1>4, <2>1, LiveStep
<1>5. CASE SettleReady(t)
  BY <1>0, <1>5, RequeueStep DEF Pool!PoolNext
<1>6. CASE SettleEnded(t) \/ Drop(t)
  BY <1>6, ReleaseStep
<1>7. CASE PutOnHold(t)
  <2>1. ~Ended(ft[t].task)
    BY <1>0, <1>7 DEF PutOnHold, Position
  <2> QED BY <1>0, <1>7, <2>1, HoldStep DEF Lone, Pool!PoolNext
<1>8. CASE Finish(t)
  <2>1. m_state[ft[t].task] = "EXEC"
    BY <1>0, <1>8 DEF Finish, Position
  <2> QED BY <1>8, <2>1, EndStep DEF Pool!PoolNext
<1>9. ASSUME NEW f \in Tasks, NEW th \in Targets, TaskSchedule(t, f, th)
      PROVE  Pool!PoolNext
  <2>1. mpc # "stopped"
    <3>1. pc[t] = "exec" /\ pc[t] \in Holding
      BY <1>9 DEF TaskSchedule, Holding, Counted
    <3> QED BY <3>1, LoneJoined
  <2>2. Pool!HandOver(f)
    BY <1>9, <2>1, HandOverStep DEF TaskSchedule, Lone
  <2> QED BY <2>2 DEF Pool!PoolNext
<1>10. CASE \/ EnterIdle(t) \/ ReadPending(t) \/ ReadFlags(t) \/ ReadEmpty(t)
            \/ ReadActive(t) \/ LeaveIdle(t)
  BY <1>10, IdlePool
<1> QED BY <1>1, <1>2, <1>3, <1>4, <1>5, <1>6, <1>7, <1>8, <1>9, <1>10 DEF Run, Body

\* And so is every step of the main thread and of the events.
LEMMA LoneMainPoolStep ==
  ASSUME LoneWorker, Shape, Lone, Leaving, Main \/ Submit \/ Events
  PROVE  Pool!PoolNext \/ UNCHANGED Pool!poolVars
<1> USE DEF fiberVars, eventVars
<1>1. ASSUME NEW f \in Tasks, NEW th \in Targets, MainSchedule(f, th) PROVE Pool!PoolNext
  <2>1. Pool!HandOver(f)
    BY <1>1, HandOverStep DEF MainSchedule, Lone
  <2> QED BY <2>1 DEF Pool!PoolNext
<1>2. ASSUME NEW f \in Tasks, MainReschedule(f)
      PROVE  Pool!PoolNext \/ UNCHANGED Pool!poolVars
  <2>1. NewTicket(f, AnyThread) \in Ticket /\ NewTicket(f, AnyThread).task = f
    BY DEF NewTicket, Ticket
  <2> QED BY <1>2, <2>1, WakeStep DEF MainReschedule, schedule, Pool!PoolNext
<1>3. ASSUME NEW f \in Tasks, Trigger(f)
      PROVE  Pool!PoolNext \/ UNCHANGED Pool!poolVars
  <2> DEFINE tk == [task |-> f, thread |-> AnyThread, cb |-> FALSE]
  <2>1. tk \in Ticket /\ tk.task = f
    BY DEF Ticket
  <2>2. /\ f \in submitted /\ m_fibers' = Append(m_fibers, tk)
        /\ UNCHANGED <<mpc, pc, ft, m_state, submitted>>
    BY <1>3 DEF Trigger, schedule, Lone
  <2> HIDE DEF tk
  <2> QED BY <2>1, <2>2, WakeStep DEF Pool!PoolNext
<1>4. CASE Join
  BY <1>4, LoneJoined, CloseStep DEF Join, Pool!PoolNext
<1>5. CASE start \/ stop \/ StopFlag \/ RootFiberBack \/ Triggered
  BY <1>5, CallsPool
<1> QED BY <1>1, <1>2, <1>3, <1>4, <1>5 DEF Main, Submit, Events

\* On one worker the scheduler implements TaskPool with everything the pool
\* can do: a task is held while it waits, is woken by its event once, or is
\* queued straight away when the event came before it was put on HOLD; a
\* ticket too many is dropped without a trace.
THEOREM LoneImplementsPool ==
  ASSUME LoneWorker, EventsCounted
  PROVE  Spec => ImplementsTaskPool
<1>1. ASSUME Shape, Lone, Leaving, [Next]_vars PROVE [Pool!PoolNext]_(Pool!poolVars)
  <2>1. CASE Main \/ Submit \/ Events
    BY <1>1, <2>1, LoneMainPoolStep
  <2>2. ASSUME NEW t \in Workers, Run(t) \/ Body(t)
        PROVE  Pool!PoolNext \/ UNCHANGED Pool!poolVars
    BY <1>1, <2>2, LoneWorkerPoolStep
  <2>3. CASE UNCHANGED vars
    <3>1. \A f \in Tasks : Ended(f)' <=> Ended(f)
      BY <2>3 DEF vars, Ended
    <3> QED BY <2>3, <3>1, MovePool DEF vars
  <2> QED BY <1>1, <2>1, <2>2, <2>3 DEF Next, Terminated
<1>2. Shape /\ Lone /\ Leaving /\ [Next]_vars => [Pool!PoolNext]_(Pool!poolVars)
  BY <1>1
<1> QED
  BY <1>2, InitPool, ShapeInvariant, LoneInvariant, LeavingInvariant, PTL
  DEF Spec, ImplementsTaskPool, Pool!PoolSpec
=============================================================================
