-------------------------- MODULE DeliveryContract --------------------------
(***************************************************************************)
(* What a TextDelivery promises those who ask it to deliver: every request *)
(* is answered, once, in the order they were asked, and none is answered   *)
(* once the delivery is gone.  An answer carries no name of its request,   *)
(* so its order is all that tells whose it is.                             *)
(***************************************************************************)
EXTENDS Naturals

VARIABLES
    asked,      \* how many requests were asked for
    answered,   \* how many were answered
    gone        \* the delivery was destroyed

vars == <<asked, answered, gone>>

Init == asked = 0 /\ answered = 0 /\ gone = FALSE

Ask ==
    /\ ~gone
    /\ asked' = asked + 1
    /\ UNCHANGED <<answered, gone>>

Answer ==
    /\ ~gone
    /\ answered < asked
    /\ answered' = answered + 1
    /\ UNCHANGED <<asked, gone>>

Leave ==
    /\ gone' = TRUE
    /\ UNCHANGED <<asked, answered>>

Next == Ask \/ Answer \/ Leave

Safety == Init /\ [][Next]_vars

Spec == Safety /\ WF_vars(Answer)
=============================================================================
