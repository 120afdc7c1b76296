------------------------------ MODULE TaskPool ------------------------------
(***************************************************************************)
(* What a user of the scheduler relies on, without threads, lists or       *)
(* counters: a task that was handed over is queued, runs, may go back to   *)
(* the queue or be held until its event, and ends once; the pool closes    *)
(* (stop() returns) only when nothing that was handed over is unfinished.  *)
(***************************************************************************)
CONSTANT Tasks

VARIABLES phase,   \* the life of each task
          closed   \* whether stop() has returned

poolVars == <<phase, closed>>

Phases == {"new", "queued", "running", "held", "ended"}

PoolInit ==
    /\ phase = [f \in Tasks |-> "new"]
    /\ closed = FALSE

Move(f, from, to) ==
    /\ phase[f] \in from
    /\ phase' = [phase EXCEPT ![f] = to]
    /\ UNCHANGED closed

HandOver(f) == ~closed /\ Move(f, {"new"}, "queued")

Begin(f) == Move(f, {"queued"}, "running")

\* A task that yields, or that was woken before it was put away, is queued.
Requeue(f) == Move(f, {"running"}, "queued")

Hold(f) == Move(f, {"running"}, "held")

Wake(f) == Move(f, {"held"}, "queued")

End(f) == Move(f, {"running"}, "ended")

Close ==
    /\ ~closed
    /\ \A f \in Tasks : phase[f] \in {"new", "ended"}
    /\ closed' = TRUE
    /\ UNCHANGED phase

PoolNext ==
    \/ \E f \in Tasks :
          HandOver(f) \/ Begin(f) \/ Requeue(f) \/ Hold(f) \/ Wake(f) \/ End(f)
    \/ Close

PoolSpec == PoolInit /\ [][PoolNext]_poolVars
=============================================================================
