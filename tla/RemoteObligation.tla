-------------------------- MODULE RemoteObligation --------------------------
(***************************************************************************)
(* What the REST controller promises about the remote server, whatever     *)
(* fails: the object is guarded before anything is made for it, what was   *)
(* made is owed a removal, and the object is only let go when the removal  *)
(* has been carried out.                                                   *)
(***************************************************************************)
VARIABLES object,   \* "plain", "guarded" by the finalizer, or "absent"
          debt      \* "none", a removal is "owed", or it is "settled"

Init == object = "plain" /\ debt = "none"

\* The finalizer is added, before anything was asked of the remote server.
Guard == /\ object = "plain" /\ debt = "none"
         /\ object' = "guarded"
         /\ UNCHANGED debt

\* The remote server accepts the first update.
Owe == /\ object = "guarded" /\ debt = "none"
       /\ debt' = "owed"
       /\ UNCHANGED object

\* The removal is carried out.  Nothing need have been made before.
Settle == /\ debt # "settled"
          /\ debt' = "settled"
          /\ UNCHANGED object

\* The finalizer goes, and the object with it unless another one holds it.
Release == /\ object = "guarded" /\ debt = "settled"
           /\ object' \in {"plain", "absent"}
           /\ UNCHANGED debt

\* An object without the finalizer goes by itself.
Vanish == /\ object = "plain" /\ debt # "owed"
          /\ object' = "absent"
          /\ UNCHANGED debt

Next == Guard \/ Owe \/ Settle \/ Release \/ Vanish

Spec == Init /\ [][Next]_<<object, debt>>
=============================================================================
