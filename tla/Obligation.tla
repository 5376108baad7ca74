------------------------------ MODULE Obligation ------------------------------
(***************************************************************************)
(* What every owner of an actuator in this integration promises: it puts   *)
(* the actuator into a state that somebody has to end (a forced battery    *)
(* mode, a charging vehicle) only under a durable record of that           *)
(* obligation, and gives the record up only when there is nothing to end.  *)
(***************************************************************************)
VARIABLES
    acting,     \* the actuator is in a state the owner put it into
    recorded    \* a record of it would be found by a restart

Init == ~acting /\ ~recorded

Record == recorded' = TRUE /\ UNCHANGED acting
Act == recorded /\ acting' = TRUE /\ UNCHANGED recorded
End == acting' = FALSE /\ UNCHANGED recorded
Forget == ~acting /\ recorded' = FALSE /\ UNCHANGED acting

Next == Record \/ Act \/ End \/ Forget

Spec == Init /\ [][Next]_<<acting, recorded>>
=============================================================================
