---------------------------- MODULE ExpiringList ----------------------------
(***************************************************************************)
(* What the schema cache promises to those who ask it for the list of      *)
(* CRDs.  A change is known by its number.  A list has all changes up to   *)
(* some number; it has the change that the cache was last reset for before *)
(* it was asked for, and whoever asks later gets no older list than those  *)
(* who were served.                                                        *)
(***************************************************************************)
EXTENDS Naturals

CONSTANT Readers

VARIABLES now,      \* the last change
          floor,    \* the one the list was last reset for
          newest,   \* the newest list that was handed out, 0 for none
          asked,    \* asked[t]: the floor when t asked
          served    \* served[t]: the list that t works with, 0 for none

Init == /\ now = 1 /\ floor = 0 /\ newest = 0
        /\ asked = [t \in Readers |-> 0]
        /\ served = [t \in Readers |-> 0]

Change == /\ now' = now + 1
          /\ UNCHANGED <<floor, newest, asked, served>>

\* Resets are for ever later changes.
Reset == /\ floor' \in (floor + 1)..now
         /\ UNCHANGED <<now, newest, asked, served>>

Ask(t) == /\ served[t] = 0
          /\ asked' = [asked EXCEPT ![t] = floor]
          /\ UNCHANGED <<now, floor, newest, served>>

\* Who asked some time ago, or asks now, gets a list.
Serve(t) == /\ served[t] = 0
            /\ asked' \in {asked, [asked EXCEPT ![t] = floor]}
            /\ \E n \in 1..now :
                 /\ n >= newest /\ n >= asked'[t]
                 /\ newest' = n
                 /\ served' = [served EXCEPT ![t] = n]
            /\ UNCHANGED <<now, floor>>

\* A reader is done with its list, or with all it has asked for.
Leave(t) == /\ served' = [served EXCEPT ![t] = 0]
            /\ asked' \in {asked, [asked EXCEPT ![t] = 0]}
            /\ UNCHANGED <<now, floor, newest>>

Next == Change \/ Reset \/ \E t \in Readers : Ask(t) \/ Serve(t) \/ Leave(t)

Spec == Init /\ [][Next]_<<now, floor, newest, asked, served>>
=============================================================================
