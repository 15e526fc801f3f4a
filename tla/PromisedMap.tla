------------------------------ MODULE PromisedMap ------------------------------
(***************************************************************************)
(* What the Evictor promises to an application that uses it from one       *)
(* thread at a time: a map of what the object store holds or will hold.    *)
(* Only the operation in progress on an ident changes what is promised for *)
(* it; an addition that ends has been promised; caching, flushing and      *)
(* evicting change nothing.                                                *)
(***************************************************************************)
CONSTANTS Ident, Value, NoData

VARIABLES promised,     \* the value of each ident, NoData when it has none
          working       \* the operation in progress on each ident

vars == <<promised, working>>

Init == /\ promised \in [Ident -> Value \cup {NoData}]
        /\ working = [d \in Ident |-> "none"]

Begin(d) ==
    /\ working[d] = "none"
    /\ \E op \in {"put", "erase", "touch"} : working' = [working EXCEPT ![d] = op]
    /\ UNCHANGED promised

Effect(d, op, v, next) ==
    /\ working[d] = op
    /\ promised' = [promised EXCEPT ![d] = v]
    /\ working' = [working EXCEPT ![d] = next]

Put(d)   == \E v \in Value : Effect(d, "put", v, "done")
Erase(d) == Effect(d, "erase", NoData, "done")
Touch(d) == \E v \in Value, next \in {"touch", "none"} : Effect(d, "touch", v, next)

\* Only an addition cannot end without an effect: the others may find nothing.
End(d) == /\ working[d] \in {"done", "erase", "touch"}
          /\ working' = [working EXCEPT ![d] = "none"]
          /\ UNCHANGED promised

Next == \E d \in Ident : Begin(d) \/ Put(d) \/ Erase(d) \/ Touch(d) \/ End(d)

Spec == Init /\ [][Next]_vars
=============================================================================
