---------------------------- MODULE GatedRollout ----------------------------
(***************************************************************************)
(* What the template operator promises for the objects it makes: one is    *)
(* created after those it depends on have settled, and only an object that *)
(* exists settles.  Objects may go and be created again; that an object    *)
(* once settled is not forgotten.                                          *)
(***************************************************************************)
CONSTANTS Objects,
          Gates     \* Gates[x]: what x depends on

VARIABLES created,  \* the objects that exist
          settled   \* the objects that were ready once

Init == created = {} /\ settled = {}

Create(x) == /\ x \notin created
             /\ Gates[x] \subseteq settled
             /\ created' = created \cup {x}
             /\ UNCHANGED settled

Settle(x) == /\ x \in created
             /\ settled' = settled \cup {x}
             /\ UNCHANGED created

Vanish(x) == /\ created' = created \ {x}
             /\ UNCHANGED settled

Next == \E x \in Objects : Create(x) \/ Settle(x) \/ Vanish(x)

Spec == Init /\ [][Next]_<<created, settled>>
=============================================================================
