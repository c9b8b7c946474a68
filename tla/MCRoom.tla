------------------------------- MODULE MCRoom -------------------------------
(***************************************************************************)
(* Bookings of one candidate on one slot that starts at 2 and ends at 3:   *)
(* cancellations, the room, evaluations and the cleanup job.               *)
(***************************************************************************)
EXTENDS BookingAccounting, TLC

CONSTANTS candidate, interviewer, SlotPlaces

MCOwner == [s \in Slots |-> interviewer]
MCStart == [s \in Slots |-> 2]
MCEnd == [s \in Slots |-> 3]
MCMaxBookings == [s \in Slots |-> SlotPlaces]
MCCost == [s \in Slots |-> 1]
MCInitialBalance == candidate :> 2 @@ interviewer :> 0

BookingSymmetry == Permutations(Bookings)

=============================================================================
