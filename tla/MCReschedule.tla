---------------------------- MODULE MCReschedule ----------------------------
(***************************************************************************)
(* Slots with one place each, the last of another interviewer: creations,  *)
(* moves, requests and their answers compete for the places before any     *)
(* room opens.  The server reads the first slot too early and the second   *)
(* too late.                                                               *)
(***************************************************************************)
EXTENDS BookingLifecycle, TLC

CONSTANTS s1, s2, s3, candidate, interviewer, other

MCOwner == [s \in Slots |-> IF s = s3 THEN other ELSE interviewer]
MCStart == [s \in Slots |-> IF s = s2 THEN 2 ELSE 3]
MCEnd == [s \in Slots |-> MCStart[s] + 1]
MCServerStart == [s \in Slots |-> IF s = s1 THEN 2 ELSE 3]
MCServerEnd == [s \in Slots |-> MCServerStart[s] + 1]
MCMaxBookings == [s \in Slots |-> 1]
MCCost == [s \in Slots |-> IF s = s3 THEN 2 ELSE 1]
MCInitialBalance == candidate :> 3 @@ interviewer :> 0 @@ other :> 0

BookingSymmetry == Permutations(Bookings)

=============================================================================
