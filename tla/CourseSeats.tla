----------------------------- MODULE CourseSeats -----------------------------
(***************************************************************************)
(* What enrollment promises about a course offering, with no transaction,  *)
(* lock or counter in sight: a set of enrolled students that joins one at  *)
(* a time while a seat is free and that anybody may leave.  Enrollment.tla *)
(* is shown to implement it.                                               *)
(***************************************************************************)
EXTENDS Naturals, FiniteSets

CONSTANT Students

VARIABLES
  enrolled,   (* the students with an active enrollment                    *)
  capacity    (* Course.capacity; 0 means unlimited                        *)

vars == <<enrolled, capacity>>

(* Course.is_capacity_limited: a capacity of 0 means unlimited.            *)
Limited == capacity > 0

SeatFree == Limited => Cardinality(enrolled) < capacity

Init ==
  /\ enrolled \in SUBSET Students
  /\ capacity \in Nat
  /\ Limited => Cardinality(enrolled) <= capacity

Join(s) ==
  /\ s \notin enrolled
  /\ SeatFree
  /\ enrolled' = enrolled \union {s}
  /\ UNCHANGED capacity

Leave(s) ==
  /\ s \in enrolled
  /\ enrolled' = enrolled \ {s}
  /\ UNCHANGED capacity

Next == \E s \in Students : Join(s) \/ Leave(s)

Spec == Init /\ [][Next]_vars
==============================================================================
