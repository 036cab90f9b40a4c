------------------------------ MODULE MCBooking ------------------------------
(* BookingLifecycle on small sets of bookings, users and request slots. *)
EXTENDS BookingCorrectness, TLC

\* Slots and bookings are interchangeable: every property quantifies over them.
Interchangeable == Permutations(Requests) \cup Permutations(Bookings)
=============================================================================
