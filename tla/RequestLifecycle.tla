--------------------------- MODULE RequestLifecycle ---------------------------
(***************************************************************************)
(* What a pool promises to those who start() ThreadRequests on it, without *)
(* threads, locks or semaphores: a request submitted while the pool is     *)
(* open gets final() exactly once, as done or as cancelled; a request that *)
(* comes later is refused; the pool is closed only when nothing is left.   *)
(***************************************************************************)
CONSTANT Request

VARIABLES life,     \* of each request
          phase     \* of the pool

vars == <<life, phase>>

Outstanding == {r \in Request : life[r] \in {"pending", "taken"}}

TypeOK ==
    /\ life \in [Request -> {"new", "pending", "taken", "done", "cancelled", "refused"}]
    /\ phase \in {"open", "closing", "closed"}

Init == life = [r \in Request |-> "new"] /\ phase = "open"

Become(R, from, to) ==
    /\ \A r \in R : life[r] \in from
    /\ life' = [r \in Request |-> IF r \in R THEN to ELSE life[r]]
    /\ UNCHANGED phase

Submit(r) == phase = "open" /\ Become({r}, {"new"}, "pending")
Refuse(r) == phase # "open" /\ Become({r}, {"new"}, "refused")
Take(r)   == Become({r}, {"pending"}, "taken")
Finish(r) == Become({r}, {"taken"}, "done")

\* One taken request is given up, or all the pending ones are dropped at once.
GiveUp(r) == Become({r}, {"taken"}, "cancelled")
DropAll   == Become({r \in Request : life[r] = "pending"}, {"pending"}, "cancelled")

BeginClose == phase = "open" /\ phase' = "closing" /\ UNCHANGED life
Close == /\ phase = "closing" /\ Outstanding = {}
         /\ phase' = "closed" /\ UNCHANGED life

Next ==
    \/ \E r \in Request : Submit(r) \/ Refuse(r) \/ Take(r) \/ Finish(r) \/ GiveUp(r)
    \/ DropAll \/ BeginClose \/ Close

Spec == Init /\ [][Next]_vars
=============================================================================
