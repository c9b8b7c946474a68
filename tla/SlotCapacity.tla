---------------------------- MODULE SlotCapacity ----------------------------
(***************************************************************************)
(* What a slot promises: at most max_bookings bookings hold a place on it, *)
(* a booking holds at most one place, and a place once given up by a       *)
(* booking that is over is never taken back by it.                         *)
(***************************************************************************)
EXTENDS Naturals, FiniteSets

CONSTANTS Bookings, Slots, Nowhere, MaxBookings

VARIABLES
    place,   \* booking -> the slot it holds a place on, or Nowhere
    closed   \* bookings that gave up their place

Holding(s) == {b \in Bookings : place[b] = s}

Init ==
    /\ place = [b \in Bookings |-> Nowhere]
    /\ closed = {}

\* A first place, or a move from one slot to another.
Take(b, s) ==
    /\ b \notin closed
    /\ place[b] # s
    /\ Cardinality(Holding(s)) < MaxBookings[s]
    /\ place' = [place EXCEPT ![b] = s]
    /\ UNCHANGED closed

GiveUp(b) ==
    /\ place[b] # Nowhere
    /\ place' = [place EXCEPT ![b] = Nowhere]
    /\ closed' = closed \cup {b}

Next == \E b \in Bookings : GiveUp(b) \/ \E s \in Slots : Take(b, s)

Spec == Init /\ [][Next]_<<place, closed>>

=============================================================================
