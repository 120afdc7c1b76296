--------------------------- MODULE SchedulerProofs ---------------------------
(***************************************************************************)
(* Proofs about Scheduler for every set of threads and tasks.              *)
(*                                                                         *)
(* TypeOK is not inductive: that a counter stays a natural number when it  *)
(* is decremented follows only from what it counts.  The proof is in two   *)
(* layers.  Shape, inductive by itself, has the types of everything but    *)
(* the counters, the agreement of a worker's position with its ticket, and *)
(* where the caller's thread is for each position of the main thread.      *)
(* Counts, inductive relative to Shape, says what the counters count.      *)
(***************************************************************************)
EXTENDS Scheduler, FiniteSetTheorems, SequenceTheorems, TLAPS

StopRead == {"pend", "flags", "empty", "active"}

\* Where the main thread's calls have brought the workers.
MainPos ==
    /\ mpc = "constructed" => \A t \in Workers : pc[t] = "off"
    /\ mpc \in {"constructed", "started", "stop"} /\ UseCaller => pc[Caller] = "off"
    /\ mpc = "probe" => UseCaller /\ pc[Caller] \in StopRead

Shape ==
    /\ pc \in [Workers -> WorkerPC]
    /\ mpc \in MainPC
    /\ ft \in [Workers -> Ticket \cup {NoTicket}]
    /\ m_fibers \in Seq(Ticket)
    /\ m_state \in [Tasks -> FiberState]
    /\ m_stopping \in BOOLEAN
    /\ m_autoStop \in BOOLEAN
    /\ idleTerm \subseteq Workers
    /\ armed \subseteq Tasks
    /\ inTrigger \in Nat
    /\ submitted \subseteq Tasks
    /\ yields \in [Tasks -> 0..MaxYields]
    /\ \A t \in Workers : pc[t] \in Holding <=> ft[t] \in Ticket
    /\ MainPos

\* The workers between the increment and the decrement, and those inside the
\* idle fiber or inside the stopping() that stop() calls.
NCounted == Cardinality({t \in Workers : pc[t] \in Counted})
NIdling  == Cardinality({t \in Workers : pc[t] \in Idling})

Counts ==
    /\ m_activateThreadCount = NCounted
    /\ m_idleThreadCount = NIdling - (IF mpc = "probe" THEN 1 ELSE 0)
    /\ IsFiniteSet(armed)
    /\ m_pendingEventCount = Cardinality(armed) + inTrigger
-----------------------------------------------------------------------------
\* The record of an empty ft is not a ticket.
LEMMA NoTicketIsNoTicket == NoTicket \notin Ticket
<1>1. SUFFICES ASSUME NoTicket \in Ticket PROVE FALSE
  OBVIOUS
<1>2. PICK f \in Tasks, th \in Workers \cup {AnyThread}, b \in BOOLEAN :
         NoTicket = [task |-> f, thread |-> th, cb |-> b]
  BY <1>1 DEF Ticket
<1>3. DOMAIN NoTicket = {"task"}
  BY DEF NoTicket
<1>4. "cb" \in DOMAIN NoTicket
  BY <1>2
<1> QED BY <1>3, <1>4

\* Erasing an element leaves a sequence over the same set (m_fibers.erase).
LEMMA RemoveAtType ==
  ASSUME NEW S, NEW s \in Seq(S), NEW i \in 1..Len(s)
  PROVE  RemoveAt(s, i) \in Seq(S)
<1>1. SubSeq(s, 1, i - 1) \in Seq(S)
  BY SubSeqProperties
<1>2. SubSeq(s, i + 1, Len(s)) \in Seq(S)
  BY SubSeqProperties
<1> QED BY <1>1, <1>2, ConcatProperties DEF RemoveAt

\* The set of workers is finite.
LEMMA WorkersFinite == IsFiniteSet(Workers)
  BY ConstantsAssumption, FS_EmptySet, FS_AddElement, FS_Union, FS_Singleton DEF Workers

\* Moving one worker from one position to another changes the number of
\* workers at the positions C by what the two positions say.
LEMMA MoveCounts ==
  ASSUME NEW p, NEW t \in Workers, NEW l, NEW C,
         p \in [Workers -> WorkerPC]
  PROVE  LET q == [p EXCEPT ![t] = l]
             before == Cardinality({u \in Workers : p[u] \in C})
             after  == Cardinality({u \in Workers : q[u] \in C})
         IN  /\ before \in Nat
             /\ (p[t] \in C <=> l \in C) => after = before
             /\ p[t] \notin C /\ l \in C => after = before + 1
             /\ p[t] \in C /\ l \notin C => after = before - 1 /\ before > 0
<1> DEFINE q == [p EXCEPT ![t] = l]
           B == {u \in Workers : p[u] \in C}
           A == {u \in Workers : q[u] \in C}
<1>1. IsFiniteSet(B) /\ Cardinality(B) \in Nat
  BY WorkersFinite, FS_Subset, FS_CardinalityType
<1>2. \A u \in Workers : q[u] = IF u = t THEN l ELSE p[u]
  OBVIOUS
<1>3. (p[t] \in C <=> l \in C) => A = B
  BY <1>2
<1>4. ASSUME p[t] \notin C, l \in C PROVE Cardinality(A) = Cardinality(B) + 1
  <2>1. A = B \cup {t} /\ t \notin B
    BY <1>2, <1>4
  <2> QED BY <2>1, <1>1, FS_AddElement
<1>5. ASSUME p[t] \in C, l \notin C
      PROVE Cardinality(A) = Cardinality(B) - 1 /\ Cardinality(B) > 0
  <2>1. A = B \ {t} /\ t \in B
    BY <1>2, <1>5
  <2>2. Cardinality(B \ {t}) = Cardinality(B) - 1
    <3> HIDE DEF A, B, q
    <3> QED BY <2>1, <1>1, FS_RemoveElement
  <2>3. Cardinality(B) # 0
    BY <2>1, <1>1, FS_EmptySet
  <2> HIDE DEF A, B, q
  <2> QED BY <2>1, <2>2, <2>3, <1>1
<1> QED BY <1>1, <1>3, <1>4, <1>5
-----------------------------------------------------------------------------
(* Shape is preserved by every action.                                     *)

\* Shape holds when the scheduler has been constructed.
LEMMA InitShape == Init => Shape
<1> SUFFICES ASSUME Init PROVE Shape
  OBVIOUS
<1> USE ConstantsAssumption DEF Init
<1>1. UseCaller => Caller \in Workers
  BY DEF Workers
<1>2. /\ pc \in [Workers -> WorkerPC]
      /\ mpc \in MainPC
      /\ m_state \in [Tasks -> FiberState]
      /\ yields \in [Tasks -> 0..MaxYields]
  BY DEF WorkerPC, MainPC, FiberState
<1>3. m_fibers \in Seq(Ticket)
  OBVIOUS
<1>4. \A t \in Workers : pc[t] \in Holding <=> ft[t] \in Ticket
  BY NoTicketIsNoTicket DEF Holding, Counted
<1>5. MainPos
  BY <1>1 DEF MainPos
<1> QED BY <1>2, <1>3, <1>4, <1>5 DEF Shape

\* The calls of the main thread.
LEMMA MainShape == Shape /\ (Main \/ Submit) => Shape'
<1> SUFFICES ASSUME Shape, Main \/ Submit PROVE Shape'
  OBVIOUS
<1> USE ConstantsAssumption DEF Shape, MainPos, StopRead, fiberVars, eventVars, stopVars,
        WorkerPC, MainPC, Holding, Counted, FiberState
<1>1. ASSUME NEW f \in Tasks, NEW th \in Targets, MainSchedule(f, th) PROVE Shape'
  <2>1. NewTicket(f, th) \in Ticket
    BY DEF NewTicket, Ticket
  <2>2. m_fibers' \in Seq(Ticket)
    BY <1>1, <2>1, AppendProperties DEF MainSchedule, schedule
  <2> QED BY <1>1, <2>2 DEF MainSchedule
<1>2. ASSUME NEW f \in Tasks, MainReschedule(f) PROVE Shape'
  <2>1. NewTicket(f, AnyThread) \in Ticket
    BY DEF NewTicket, Ticket
  <2>2. m_fibers' \in Seq(Ticket)
    BY <1>2, <2>1, AppendProperties DEF MainReschedule, schedule
  <2> QED BY <1>2, <2>2 DEF MainReschedule
<1>3. CASE start
  <2>1. /\ pc' \in [Workers -> WorkerPC]
        /\ \A t \in Workers : pc'[t] \notin Holding
    BY <1>3 DEF start
  <2>2. UseCaller => pc'[Caller] = "off"
    BY <1>3 DEF start, Workers
  <2>3. \A t \in Workers : pc[t] = "off" /\ ft[t] \notin Ticket
    BY <1>3 DEF start
  <2> QED BY <1>3, <2>1, <2>2, <2>3 DEF start
<1>4. CASE stop
  BY <1>4 DEF stop
<1>5. CASE StopFlag
  <2>1. CASE UseCaller
    <3>1. Caller \in Workers
      BY <2>1 DEF Workers
    <3>2. pc' = [pc EXCEPT ![Caller] = StoppingEntry] /\ StoppingEntry \in StopRead
      BY <1>5, <2>1 DEF StopFlag, Goto, StoppingEntry
    <3> QED BY <1>5, <2>1, <3>1, <3>2 DEF StopFlag
  <2>2. CASE ~UseCaller
    BY <1>5, <2>2 DEF StopFlag
  <2> QED BY <2>1, <2>2
<1>6. CASE RootFiberBack
  BY <1>6 DEF RootFiberBack
<1>7. CASE Join
  BY <1>7 DEF Join
<1> QED BY <1>1, <1>2, <1>3, <1>4, <1>5, <1>6, <1>7 DEF Main, Submit

\* A worker that moves without touching its ticket, between two positions
\* that agree on holding one, and not on the caller's thread during stop().
LEMMA MoveShape ==
  ASSUME Shape, NEW t \in Workers, NEW l \in WorkerPC \ {"off"},
         Goto(t, l), pc[t] \notin {"off"} \cup StopRead,
         mpc' = mpc, ft' = ft,
         pc[t] \in Holding <=> l \in Holding
  PROVE  /\ pc' \in [Workers -> WorkerPC]
         /\ \A u \in Workers : pc'[u] \in Holding <=> ft'[u] \in Ticket
         /\ MainPos'
<1> USE DEF Shape, Goto
<1>1. pc' \in [Workers -> WorkerPC] /\ \A u \in Workers : pc'[u] = IF u = t THEN l ELSE pc[u]
  OBVIOUS
<1>2. \A u \in Workers : pc'[u] \in Holding <=> ft'[u] \in Ticket
  BY <1>1
<1>3. UseCaller => Caller \in Workers
  BY DEF Workers
<1>4. MainPos'
  BY <1>1, <1>3 DEF MainPos
<1> QED BY <1>1, <1>2, <1>4

\* A worker that gives its ticket back and looks for the next one.
LEMMA ReleaseShape ==
  ASSUME Shape, NEW t \in Workers, Goto(t, "pick"), pc[t] \in Holding,
         mpc' = mpc, ft' = [ft EXCEPT ![t] = NoTicket]
  PROVE  /\ pc' \in [Workers -> WorkerPC]
         /\ ft' \in [Workers -> Ticket \cup {NoTicket}]
         /\ \A u \in Workers : pc'[u] \in Holding <=> ft'[u] \in Ticket
         /\ MainPos'
<1> USE DEF Shape, Goto
<1>1. /\ pc' \in [Workers -> WorkerPC]
      /\ \A u \in Workers : pc'[u] = IF u = t THEN "pick" ELSE pc[u]
  BY DEF WorkerPC
<1>2. /\ ft' \in [Workers -> Ticket \cup {NoTicket}]
      /\ \A u \in Workers : ft'[u] = IF u = t THEN NoTicket ELSE ft[u]
  OBVIOUS
<1>3. \A u \in Workers : pc'[u] \in Holding <=> ft'[u] \in Ticket
  BY <1>1, <1>2, NoTicketIsNoTicket DEF Holding, Counted
<1>4. UseCaller => Caller \in Workers
  BY DEF Workers
<1>5. MainPos'
  BY <1>1, <1>4 DEF MainPos, StopRead, Holding, Counted
<1> QED BY <1>1, <1>2, <1>3, <1>5

\* The steps of run() up to the idle fiber.
LEMMA RunShape ==
  ASSUME Shape, NEW t \in Workers,
         \/ Take(t) \/ Count(t) \/ NothingToTake(t) \/ Dispatch(t) \/ Drop(t)
         \/ SwapIn(t) \/ SwapOut(t) \/ Uncount(t) \/ SettleReady(t)
         \/ SettleEnded(t) \/ SettleOther(t) \/ PutOnHold(t)
  PROVE  Shape'
<1> USE ConstantsAssumption DEF Shape, fiberVars, eventVars, stopVars
<1> DEFINE Positions == /\ pc' \in [Workers -> WorkerPC]
                        /\ \A u \in Workers : pc'[u] \in Holding <=> ft'[u] \in Ticket
                        /\ MainPos'
<1>0. pc[t] \in Holding => ft[t] \in Ticket /\ ft[t].task \in Tasks
  BY DEF Ticket
<1>1. CASE Take(t)
  <2>1. PICK i \in 1..Len(m_fibers) :
           /\ ft' = [ft EXCEPT ![t] = m_fibers[i]]
           /\ m_fibers' = RemoveAt(m_fibers, i)
    BY <1>1 DEF Take
  <2>2. m_fibers[i] \in Ticket /\ m_fibers' \in Seq(Ticket)
    BY <2>1, RemoveAtType
  <2>3. /\ pc' \in [Workers -> WorkerPC]
        /\ \A u \in Workers : pc'[u] = IF u = t THEN "count" ELSE pc[u]
        /\ ft' \in [Workers -> Ticket \cup {NoTicket}]
        /\ \A u \in Workers : ft'[u] = IF u = t THEN m_fibers[i] ELSE ft[u]
    BY <1>1, <2>1, <2>2 DEF Take, Goto, WorkerPC
  <2>4. \A u \in Workers : pc'[u] \in Holding <=> ft'[u] \in Ticket
    BY <2>2, <2>3 DEF Holding
  <2>5. MainPos'
    <3>1. UseCaller => Caller \in Workers
      BY DEF Workers
    <3>2. pc[t] = "pick" /\ mpc' = mpc
      BY <1>1 DEF Take
    <3> QED BY <2>3, <3>1, <3>2 DEF MainPos, StopRead
  <2> QED BY <1>1, <2>2, <2>3, <2>4, <2>5 DEF Take
<1>2. CASE Count(t)
  <2>1. Positions
    BY <1>2, MoveShape DEF Count, WorkerPC, Holding, Counted, StopRead
  <2> QED BY <1>2, <2>1 DEF Count
<1>3. CASE NothingToTake(t)
  <2>1. Positions
    BY <1>3, MoveShape DEF NothingToTake, WorkerPC, Holding, Counted, StopRead
  <2> QED BY <1>3, <2>1 DEF NothingToTake
<1>4. CASE Dispatch(t)
  <2>1. Positions
    BY <1>4, MoveShape DEF Dispatch, WorkerPC, Holding, Counted, StopRead
  <2> QED BY <1>4, <2>1 DEF Dispatch
<1>5. CASE Drop(t)
  <2>1. Positions /\ ft' \in [Workers -> Ticket \cup {NoTicket}]
    BY <1>5, ReleaseShape DEF Drop, Holding, Counted
  <2> QED BY <1>5, <2>1 DEF Drop
<1>6. CASE SwapIn(t)
  <2>1. Positions
    BY <1>6, MoveShape DEF SwapIn, WorkerPC, Holding, Counted, StopRead
  <2>2. m_state' \in [Tasks -> FiberState]
    BY <1>6, <1>0 DEF SwapIn, Holding, Counted, FiberState
  <2> QED BY <1>6, <2>1, <2>2 DEF SwapIn
<1>7. CASE SwapOut(t)
  <2>1. Positions
    BY <1>7, MoveShape DEF SwapOut, WorkerPC, Holding, Counted, StopRead
  <2> QED BY <1>7, <2>1 DEF SwapOut
<1>8. CASE Uncount(t)
  <2>1. Positions
    BY <1>8, MoveShape DEF Uncount, WorkerPC, Holding, Counted, StopRead
  <2> QED BY <1>8, <2>1 DEF Uncount
<1>9. CASE SettleReady(t)
  <2>1. Positions /\ ft' \in [Workers -> Ticket \cup {NoTicket}]
    BY <1>9, ReleaseShape DEF SettleReady, Holding, Counted
  <2>2. [task |-> ft[t].task, thread |-> AnyThread, cb |-> FALSE] \in Ticket
    BY <1>9, <1>0 DEF SettleReady, Holding, Counted, Ticket
  <2>3. m_fibers' \in Seq(Ticket)
    BY <1>9, <2>2, AppendProperties DEF SettleReady, schedule
  <2> QED BY <1>9, <2>1, <2>3 DEF SettleReady
<1>10. CASE SettleEnded(t)
  <2>1. Positions /\ ft' \in [Workers -> Ticket \cup {NoTicket}]
    BY <1>10, ReleaseShape DEF SettleEnded, Holding, Counted
  <2> QED BY <1>10, <2>1 DEF SettleEnded
<1>11. CASE SettleOther(t)
  <2>1. Positions
    BY <1>11, MoveShape DEF SettleOther, WorkerPC, Holding, Counted, StopRead
  <2> QED BY <1>11, <2>1 DEF SettleOther
<1>12. CASE PutOnHold(t)
  <2>1. Positions /\ ft' \in [Workers -> Ticket \cup {NoTicket}]
    BY <1>12, ReleaseShape DEF PutOnHold, Holding, Counted
  <2>2. m_state' \in [Tasks -> FiberState]
    BY <1>12, <1>0 DEF PutOnHold, Holding, Counted, FiberState
  <2> QED BY <1>12, <2>1, <2>2 DEF PutOnHold
<1> QED
  BY <1>1, <1>2, <1>3, <1>4, <1>5, <1>6, <1>7, <1>8, <1>9, <1>10, <1>11, <1>12

\* The idle fiber and the reads of stopping().
LEMMA IdleShape ==
  ASSUME Shape, NEW t \in Workers,
         \/ EnterIdle(t) \/ ReadPending(t) \/ ReadFlags(t) \/ ReadEmpty(t)
         \/ ReadActive(t) \/ LeaveIdle(t)
  PROVE  Shape'
<1> USE ConstantsAssumption DEF Shape, fiberVars, eventVars, stopVars
<1> DEFINE Positions == /\ pc' \in [Workers -> WorkerPC]
                        /\ \A u \in Workers : pc'[u] \in Holding <=> ft'[u] \in Ticket
                        /\ MainPos'
<1>1. CASE EnterIdle(t)
  <2>1. Positions
    BY <1>1, MoveShape DEF EnterIdle, StoppingEntry, WorkerPC, Holding, Counted, StopRead
  <2> QED BY <1>1, <2>1 DEF EnterIdle
<1>2. CASE LeaveIdle(t)
  <2>1. Positions
    BY <1>2, MoveShape DEF LeaveIdle, WorkerPC, Holding, Counted, StopRead
  <2> QED BY <1>2, <2>1 DEF LeaveIdle
<1>3. UseCaller => Caller \in Workers
  BY DEF Workers
<1>4. ASSUME NEW b \in BOOLEAN, pc[t] \in StopRead, StoppingReturns(t, b), ft' = ft
      PROVE  Positions /\ mpc' \in MainPC /\ idleTerm' \subseteq Workers
  <2>1. PICK l \in {"off", "pick", "idleOut"} :
           /\ pc' = [pc EXCEPT ![t] = l]
           /\ l = "off" => t = Caller /\ mpc = "probe"
           /\ l # "idleOut" => t = Caller /\ mpc = "probe" /\ mpc' \in {"join", "call"}
           /\ l = "idleOut" => mpc' = mpc /\ ~(t = Caller /\ mpc = "probe")
    BY <1>4 DEF StoppingReturns, Goto
  <2>2. /\ pc' \in [Workers -> WorkerPC]
        /\ \A u \in Workers : pc'[u] = IF u = t THEN l ELSE pc[u]
    BY <2>1 DEF WorkerPC
  <2>3. \A u \in Workers : pc'[u] \in Holding <=> ft'[u] \in Ticket
    BY <1>4, <2>2 DEF Holding, Counted, StopRead
  <2>4. MainPos'
    BY <1>3, <1>4, <2>1, <2>2 DEF MainPos, StopRead
  <2>5. mpc' \in MainPC /\ idleTerm' \subseteq Workers
    BY <1>4 DEF StoppingReturns, MainPC
  <2> QED BY <2>2, <2>3, <2>4, <2>5
<1>5. ASSUME NEW here \in StopRead, NEW holds \in BOOLEAN, NEW next \in StopRead,
             Operand(t, here, holds, next)
      PROVE  Shape'
  <2>1. CASE holds
    <3>1. pc' = [pc EXCEPT ![t] = next] /\ mpc' = mpc /\ ft' = ft /\ pc[t] \in StopRead
      BY <1>5, <2>1 DEF Operand, Goto
    <3>2. /\ pc' \in [Workers -> WorkerPC]
          /\ \A u \in Workers : pc'[u] = IF u = t THEN next ELSE pc[u]
      BY <3>1 DEF WorkerPC, StopRead
    <3>3. \A u \in Workers : pc'[u] \in Holding <=> ft'[u] \in Ticket
      BY <3>1, <3>2 DEF Holding, Counted, StopRead
    <3>4. MainPos'
      BY <1>3, <3>1, <3>2 DEF MainPos, StopRead
    <3> QED BY <1>5, <2>1, <3>2, <3>3, <3>4 DEF Operand
  <2>2. CASE ~holds
    <3>1. pc[t] \in StopRead /\ StoppingReturns(t, FALSE) /\ ft' = ft
      BY <1>5, <2>2 DEF Operand
    <3>2. Positions /\ mpc' \in MainPC /\ idleTerm' \subseteq Workers
      BY <1>4, <3>1
    <3> QED BY <1>5, <3>2 DEF Operand
  <2> QED BY <2>1, <2>2
<1>6. CASE ReadPending(t)
  BY <1>5, <1>6 DEF ReadPending, StopRead
<1>7. CASE ReadFlags(t)
  BY <1>5, <1>7 DEF ReadFlags, StopRead
<1>8. CASE ReadEmpty(t)
  BY <1>5, <1>8 DEF ReadEmpty, StopRead
<1>9. CASE ReadActive(t)
  <2>1. Positions /\ mpc' \in MainPC /\ idleTerm' \subseteq Workers
    BY <1>4, <1>9 DEF ReadActive, StopRead
  <2> QED BY <1>9, <2>1 DEF ReadActive
<1> QED BY <1>1, <1>2, <1>6, <1>7, <1>8, <1>9

\* What a task does, and what the event source does.
LEMMA BodyShape ==
  ASSUME Shape, NEW t \in Workers, Body(t)
  PROVE  Shape'
<1> USE ConstantsAssumption DEF Shape, fiberVars, eventVars, stopVars
<1> DEFINE Positions == /\ pc' \in [Workers -> WorkerPC]
                        /\ \A u \in Workers : pc'[u] \in Holding <=> ft'[u] \in Ticket
                        /\ MainPos'
<1>0. pc[t] \in {"exec", "hold"} => ft[t] \in Ticket /\ ft[t].task \in Tasks
  BY DEF Ticket, Holding, Counted
<1>1. CASE Finish(t)
  <2>1. Positions
    BY <1>1, MoveShape DEF Finish, WorkerPC, Holding, Counted, StopRead
  <2>2. m_state' \in [Tasks -> FiberState]
    BY <1>1, <1>0 DEF Finish, FiberState
  <2> QED BY <1>1, <2>1, <2>2 DEF Finish
<1>2. CASE YieldToReady(t)
  <2>1. Positions
    BY <1>2, MoveShape DEF YieldToReady, WorkerPC, Holding, Counted, StopRead
  <2>2. m_state' \in [Tasks -> FiberState]
    BY <1>2, <1>0 DEF YieldToReady, FiberState
  <2>3. yields' \in [Tasks -> 0..MaxYields]
    BY <1>2, <1>0 DEF YieldToReady
  <2> QED BY <1>2, <2>1, <2>2, <2>3 DEF YieldToReady
<1>3. CASE Wait(t)
  <2>1. Positions
    BY <1>3, MoveShape DEF Wait, WorkerPC, Holding, Counted, StopRead
  <2>2. yields' \in [Tasks -> 0..MaxYields] /\ armed' \subseteq Tasks
    BY <1>3, <1>0 DEF Wait
  <2> QED BY <1>3, <2>1, <2>2 DEF Wait
<1>4. CASE YieldToHold(t)
  <2>1. Positions
    BY <1>4, MoveShape DEF YieldToHold, WorkerPC, Holding, Counted, StopRead
  <2>2. m_state' \in [Tasks -> FiberState]
    BY <1>4, <1>0 DEF YieldToHold, FiberState
  <2> QED BY <1>4, <2>1, <2>2 DEF YieldToHold
<1>5. ASSUME NEW f \in Tasks, NEW th \in Targets, TaskSchedule(t, f, th)
      PROVE  Shape'
  <2>1. NewTicket(f, th) \in Ticket
    BY DEF NewTicket, Ticket
  <2>2. m_fibers' \in Seq(Ticket)
    BY <1>5, <2>1, AppendProperties DEF TaskSchedule, schedule
  <2> QED BY <1>5, <2>2 DEF TaskSchedule, MainPos
<1> QED BY <1>1, <1>2, <1>3, <1>4, <1>5 DEF Body

\* Triggering an event keeps Shape: the woken fiber gets a well formed ticket.
LEMMA EventsShape == Shape /\ Events => Shape'
<1> SUFFICES ASSUME Shape, Events PROVE Shape'
  OBVIOUS
<1> USE DEF Shape, MainPos, fiberVars, stopVars
<1>1. ASSUME NEW f \in Tasks, Trigger(f) PROVE Shape'
  <2>1. [task |-> f, thread |-> AnyThread, cb |-> FALSE] \in Ticket
    BY DEF Ticket
  <2>2. m_fibers' \in Seq(Ticket)
    BY <1>1, <2>1, AppendProperties DEF Trigger, schedule
  <2> QED BY <1>1, <2>2 DEF Trigger
<1>2. CASE Triggered
  BY <1>2 DEF Triggered
<1> QED BY <1>1, <1>2 DEF Events

\* A step outside the scheduler keeps Shape.
LEMMA StutterShape == Shape /\ UNCHANGED vars => Shape'
  BY DEF Shape, MainPos, vars

\* Shape is an invariant of the scheduler by itself: tickets, positions and
\* flags never depend on the counters.
THEOREM ShapeInvariant == Spec => []Shape
<1>1. Shape /\ [Next]_vars => Shape'
  BY MainShape, RunShape, IdleShape, BodyShape, EventsShape, StutterShape
  DEF Next, Run, Terminated
<1> QED BY InitShape, <1>1, PTL DEF Spec

-----------------------------------------------------------------------------
(* What the counters count.                                                *)

\* MoveCounts for the two counted sets of positions.
LEMMA GotoCounts ==
  ASSUME Shape, NEW t \in Workers, NEW l, Goto(t, l)
  PROVE  /\ NCounted \in Nat /\ NIdling \in Nat
         /\ (pc[t] \in Counted <=> l \in Counted) => NCounted' = NCounted
         /\ pc[t] \notin Counted /\ l \in Counted => NCounted' = NCounted + 1
         /\ pc[t] \in Counted /\ l \notin Counted => NCounted' = NCounted - 1
         /\ (pc[t] \in Idling <=> l \in Idling) => NIdling' = NIdling
         /\ pc[t] \notin Idling /\ l \in Idling => NIdling' = NIdling + 1
         /\ pc[t] \in Idling /\ l \notin Idling => NIdling' = NIdling - 1
<1>1. pc \in [Workers -> WorkerPC] /\ pc' = [pc EXCEPT ![t] = l]
  BY DEF Shape, Goto
<1>2. /\ NCounted \in Nat
      /\ (pc[t] \in Counted <=> l \in Counted) => NCounted' = NCounted
      /\ pc[t] \notin Counted /\ l \in Counted => NCounted' = NCounted + 1
      /\ pc[t] \in Counted /\ l \notin Counted => NCounted' = NCounted - 1
  <2> HIDE DEF Counted
  <2> QED BY <1>1, MoveCounts DEF NCounted
<1>3. /\ NIdling \in Nat
      /\ (pc[t] \in Idling <=> l \in Idling) => NIdling' = NIdling
      /\ pc[t] \notin Idling /\ l \in Idling => NIdling' = NIdling + 1
      /\ pc[t] \in Idling /\ l \notin Idling => NIdling' = NIdling - 1
  <2> HIDE DEF Idling
  <2> QED BY <1>1, MoveCounts DEF NIdling
<1> QED BY <1>2, <1>3

\* No worker runs or idles while all of them are off or about to look.
LEMMA NoneCounted ==
  ASSUME \A t \in Workers : pc[t] \in {"off", "pick"}
  PROVE  NCounted = 0 /\ NIdling = 0
<1>1. {t \in Workers : pc[t] \in Counted} = {}
  BY DEF Counted
<1>2. {t \in Workers : pc[t] \in Idling} = {}
  BY DEF Idling
<1> QED BY <1>1, <1>2, FS_EmptySet DEF NCounted, NIdling

\* Nobody is counted when the scheduler has been constructed.
LEMMA InitCounts == Init => Counts
<1> SUFFICES ASSUME Init PROVE Counts
  OBVIOUS
<1>1. NCounted = 0 /\ NIdling = 0
  BY NoneCounted DEF Init
<1> QED BY <1>1, FS_EmptySet DEF Init, Counts

\* The calls of the main thread move no worker in or out of Counted.
LEMMA MainCounts == Shape /\ Counts /\ (Main \/ Submit) => Counts'
<1> SUFFICES ASSUME Shape, Counts, Main \/ Submit PROVE Counts'
  OBVIOUS
<1> USE DEF Counts, fiberVars, eventVars, stopVars
<1>1. ASSUME NEW f \in Tasks, NEW th \in Targets, MainSchedule(f, th) PROVE Counts'
  BY <1>1 DEF MainSchedule, NCounted, NIdling
<1>2. ASSUME NEW f \in Tasks, MainReschedule(f) PROVE Counts'
  BY <1>2 DEF MainReschedule, NCounted, NIdling
<1>3. CASE start
  <2>1. \A t \in Workers : pc[t] = "off" /\ pc'[t] \in {"off", "pick"}
    BY <1>3 DEF start, Shape, MainPos
  <2>2. NCounted = 0 /\ NIdling = 0 
    BY <2>1, NoneCounted
  <2>3. NCounted' = 0 /\ NIdling' = 0
    <3>1. {t \in Workers : pc'[t] \in Counted} = {}
      BY <2>1 DEF Counted
    <3>2. {t \in Workers : pc'[t] \in Idling} = {}
      BY <2>1 DEF Idling
    <3> QED BY <3>1, <3>2, FS_EmptySet DEF NCounted, NIdling
  <2> QED BY <1>3, <2>2, <2>3 DEF start
<1>4. CASE stop
  BY <1>4 DEF stop, NCounted, NIdling
<1>5. CASE StopFlag
  <2>1. CASE UseCaller
    <3>1. Caller \in Workers /\ pc[Caller] = "off" /\ Goto(Caller, StoppingEntry)
      BY <1>5, <2>1 DEF Workers, StopFlag, Shape, MainPos
    <3>2. NCounted' = NCounted /\ NIdling' = NIdling + 1 /\ NIdling \in Nat
      BY <3>1, GotoCounts DEF StoppingEntry, Counted, Idling
    <3> QED BY <1>5, <2>1, <3>2 DEF StopFlag
  <2>2. CASE ~UseCaller
    BY <1>5, <2>2 DEF StopFlag, NCounted, NIdling
  <2> QED BY <2>1, <2>2
<1>6. CASE RootFiberBack
  BY <1>6 DEF RootFiberBack, NCounted, NIdling
<1>7. CASE Join
  BY <1>7 DEF Join, NCounted, NIdling
<1> QED BY <1>1, <1>2, <1>3, <1>4, <1>5, <1>6, <1>7 DEF Main, Submit

\* run() keeps the counts: each ++ and -- of m_activateThreadCount is one
\* worker entering or leaving Counted.
LEMMA RunCounts ==
  ASSUME Shape, Counts, NEW t \in Workers,
         \/ Take(t) \/ Count(t) \/ NothingToTake(t) \/ Dispatch(t) \/ Drop(t)
         \/ SwapIn(t) \/ SwapOut(t) \/ Uncount(t) \/ SettleReady(t)
         \/ SettleEnded(t) \/ SettleOther(t) \/ PutOnHold(t)
  PROVE  Counts'
<1> USE GotoCounts DEF Counts, Counted, Idling, eventVars
<1>1. CASE Take(t)
  <2>1. /\ pc[t] = "pick" /\ Goto(t, "count") /\ mpc' = mpc
        /\ UNCHANGED <<m_activateThreadCount, m_idleThreadCount, eventVars>>
    BY <1>1 DEF Take
  <2> QED BY <2>1
<1>2. CASE Count(t)          BY <1>2 DEF Count
<1>3. CASE NothingToTake(t)
  <2>1. PICK l \in {"exited", "idle"} : Goto(t, l)
    BY <1>3 DEF NothingToTake
  <2>2. NCounted' = NCounted /\ NIdling' = NIdling
    BY <1>3, <2>1 DEF NothingToTake
  <2> QED BY <1>3, <2>2 DEF NothingToTake
<1>4. CASE Dispatch(t)       BY <1>4 DEF Dispatch
<1>5. CASE Drop(t)           BY <1>5 DEF Drop
<1>6. CASE SwapIn(t)         BY <1>6 DEF SwapIn
<1>7. CASE SwapOut(t)        BY <1>7 DEF SwapOut
<1>8. CASE Uncount(t)        BY <1>8 DEF Uncount
<1>9. CASE SettleReady(t)    BY <1>9 DEF SettleReady
<1>10. CASE SettleEnded(t)   BY <1>10 DEF SettleEnded
<1>11. CASE SettleOther(t)   BY <1>11 DEF SettleOther
<1>12. CASE PutOnHold(t)     BY <1>12 DEF PutOnHold
<1> QED
  BY <1>1, <1>2, <1>3, <1>4, <1>5, <1>6, <1>7, <1>8, <1>9, <1>10, <1>11, <1>12

\* The idle fiber and stopping() keep the counts: they change
\* m_idleThreadCount and read the rest.
LEMMA IdleCounts ==
  ASSUME Shape, Counts, NEW t \in Workers,
         \/ EnterIdle(t) \/ ReadPending(t) \/ ReadFlags(t) \/ ReadEmpty(t)
         \/ ReadActive(t) \/ LeaveIdle(t)
  PROVE  Counts'
<1> USE DEF Counts, eventVars
<1>1. CASE EnterIdle(t)
  BY <1>1, GotoCounts DEF EnterIdle, StoppingEntry, Counted, Idling
<1>2. CASE LeaveIdle(t)
  BY <1>2, GotoCounts DEF LeaveIdle, Counted, Idling
<1>3. ASSUME NEW b \in BOOLEAN, pc[t] \in StopRead, StoppingReturns(t, b),
             UNCHANGED <<m_activateThreadCount, m_idleThreadCount, armed,
                         inTrigger, m_pendingEventCount>>
      PROVE  Counts'
  <2>1. CASE t = Caller /\ mpc = "probe"
    <3>1. PICK l \in {"off", "pick"} : Goto(t, l)
      BY <1>3, <2>1 DEF StoppingReturns
    <3>2. NCounted' = NCounted /\ NIdling' = NIdling - 1 /\ NIdling \in Nat
      BY <1>3, <3>1, GotoCounts DEF Counted, Idling, StopRead
    <3>3. mpc' # "probe"
      BY <1>3, <2>1 DEF StoppingReturns
    <3> QED BY <1>3, <2>1, <3>2, <3>3
  <2>2. CASE ~(t = Caller /\ mpc = "probe")
    <3>1. Goto(t, "idleOut") /\ mpc' = mpc
      BY <1>3, <2>2 DEF StoppingReturns
    <3>2. NCounted' = NCounted /\ NIdling' = NIdling
      BY <1>3, <3>1, GotoCounts DEF Counted, Idling, StopRead
    <3> QED BY <1>3, <3>1, <3>2
  <2> QED BY <2>1, <2>2
<1>4. ASSUME NEW here \in StopRead, NEW holds \in BOOLEAN, NEW next \in StopRead,
             Operand(t, here, holds, next)
      PROVE  Counts'
  <2>1. CASE holds
    <3>1. Goto(t, next) /\ mpc' = mpc /\ pc[t] \in StopRead
      BY <1>4, <2>1 DEF Operand
    <3>2. NCounted' = NCounted /\ NIdling' = NIdling
      BY <3>1, GotoCounts DEF Counted, Idling, StopRead
    <3> QED BY <1>4, <3>1, <3>2 DEF Operand
  <2>2. CASE ~holds
    BY <1>3, <1>4, <2>2 DEF Operand
  <2> QED BY <2>1, <2>2
<1>5. CASE ReadPending(t)
  BY <1>4, <1>5 DEF ReadPending, StopRead
<1>6. CASE ReadFlags(t)
  BY <1>4, <1>6 DEF ReadFlags, StopRead
<1>7. CASE ReadEmpty(t)
  BY <1>4, <1>7 DEF ReadEmpty, StopRead
<1>8. CASE ReadActive(t)
  BY <1>3, <1>8 DEF ReadActive, StopRead
<1> QED BY <1>1, <1>2, <1>5, <1>6, <1>7, <1>8

\* A task that runs stays in Counted; addEvent counts the event it registers.
LEMMA BodyCounts ==
  ASSUME Shape, Counts, NEW t \in Workers, Body(t)
  PROVE  Counts'
<1> USE DEF Counts, Counted, Idling, fiberVars, eventVars
<1>1. CASE Finish(t)
  BY <1>1, GotoCounts DEF Finish
<1>2. CASE YieldToReady(t)
  BY <1>2, GotoCounts DEF YieldToReady
<1>3. CASE Wait(t)
  <2>1. NCounted' = NCounted /\ NIdling' = NIdling
    BY <1>3, GotoCounts DEF Wait
  <2>2. /\ IsFiniteSet(armed')
        /\ Cardinality(armed') = Cardinality(armed) + 1
        /\ Cardinality(armed) \in Nat
    BY <1>3, FS_AddElement, FS_CardinalityType DEF Wait
  <2> QED BY <1>3, <2>1, <2>2 DEF Wait, Shape
<1>4. CASE YieldToHold(t)
  BY <1>4, GotoCounts DEF YieldToHold
<1>5. ASSUME NEW f \in Tasks, NEW th \in Targets, TaskSchedule(t, f, th)
      PROVE  Counts'
  BY <1>5 DEF TaskSchedule, NCounted, NIdling
<1> QED BY <1>1, <1>2, <1>3, <1>4, <1>5 DEF Body

\* Triggering moves an event from armed to inTrigger, and only then is it
\* subtracted from m_pendingEventCount.
LEMMA EventsCounts == Shape /\ Counts /\ Events => Counts'
<1> SUFFICES ASSUME Shape, Counts, Events PROVE Counts'
  OBVIOUS
<1> USE DEF Counts
<1>1. ASSUME NEW f \in Tasks, Trigger(f) PROVE Counts'
  <2>1. /\ IsFiniteSet(armed')
        /\ Cardinality(armed') = Cardinality(armed) - 1
        /\ Cardinality(armed) \in Nat
    BY <1>1, FS_RemoveElement, FS_CardinalityType DEF Trigger
  <2>2. inTrigger \in Nat
    BY DEF Shape
  <2> QED BY <1>1, <2>1, <2>2 DEF Trigger, NCounted, NIdling
<1>2. CASE Triggered
  <2>1. inTrigger \in Nat /\ Cardinality(armed) \in Nat
    BY FS_CardinalityType DEF Shape
  <2> QED BY <1>2, <2>1 DEF Triggered, NCounted, NIdling
<1> QED BY <1>1, <1>2 DEF Events

\* A step outside the scheduler keeps the counts.
LEMMA StutterCounts == Counts /\ UNCHANGED vars => Counts'
  BY DEF Counts, NCounted, NIdling, vars

\* The invariant both layers make up.
THEOREM InductiveInvariant == Spec => [](Shape /\ Counts)
<1>1. Shape /\ Counts /\ [Next]_vars => Counts'
  BY MainCounts, RunCounts, IdleCounts, BodyCounts, EventsCounts, StutterCounts
  DEF Next, Run, Terminated
<1> QED BY InitCounts, <1>1, ShapeInvariant, PTL DEF Spec

\* The counter stopping() reads equals the number of workers between taking
\* a ticket and coming back from its fiber, for any number of threads, with
\* bound tasks and racing wake-ups included.
THEOREM ActiveCountCorrect == Spec => []ActiveCountExact
<1>1. Counts => ActiveCountExact
  BY DEF Counts, ActiveCountExact, NCounted
<1> QED BY InductiveInvariant, <1>1, PTL

\* The pending count IOManager::stopping() reads covers every registered
\* event and every event whose fiber is being scheduled.
THEOREM PendingCountCorrect == Spec => []PendingCountExact
<1>1. Counts => PendingCountExact
  BY DEF Counts, PendingCountExact
<1> QED BY InductiveInvariant, <1>1, PTL

\* Types, tickets and counters are what they should be: no decrement in run()
\* or in the idle path can make an unsigned counter wrap around.
THEOREM TypeCorrect == Spec => []TypeOK
<1>1. Shape /\ Counts => TypeOK
  <2> SUFFICES ASSUME Shape, Counts PROVE TypeOK
    OBVIOUS
  <2>1. IsFiniteSet({t \in Workers : pc[t] \in Counted})
    BY WorkersFinite, FS_Subset
  <2>2. IsFiniteSet({t \in Workers : pc[t] \in Idling})
    BY WorkersFinite, FS_Subset
  <2>3. NCounted \in Nat /\ NIdling \in Nat
    BY <2>1, <2>2, FS_CardinalityType DEF NCounted, NIdling
  <2>4. mpc = "probe" => NIdling > 0
    <3>1. ASSUME mpc = "probe" PROVE {t \in Workers : pc[t] \in Idling} # {}
      BY <3>1 DEF Shape, MainPos, Workers, StopRead, Idling
    <3> QED BY <3>1, <2>2, <2>3, FS_EmptySet DEF NIdling
  <2>5. m_pendingEventCount \in Nat
    BY FS_CardinalityType DEF Counts, Shape
  <2>6. m_activateThreadCount \in Nat /\ m_idleThreadCount \in Nat
    BY <2>3, <2>4 DEF Counts
  <2> QED BY <2>5, <2>6 DEF Shape, TypeOK
<1> QED BY InductiveInvariant, <1>1, PTL
=============================================================================
