-------------------------------- MODULE Mailing --------------------------------
(***************************************************************************)
(* What becomes of the e-mails of one course, with no queue, no worker and *)
(* no loaded copy in sight: a request makes its notifications due together *)
(* or takes them all back; a due one is e-mailed, or its user deals with it*)
(* first, or it is given up.  What is settled stays as it is: nothing is   *)
(* sent again and nothing given up is tried again.                         *)
(* NotificationDelivery.tla is shown to implement it.                      *)
(***************************************************************************)
CONSTANT Notes   (* the notifications                                      *)

VARIABLE status  (* note -> what has become of its e-mail                  *)

Statuses == {"none", "due", "emailed", "seen", "lost", "void"}

Init == status = [n \in Notes |-> "none"]

(* These notes, in one of these statuses, get a new one.                   *)
Move(N, from, to) ==
  /\ \A n \in N : status[n] \in from
  /\ status' = [n \in Notes |-> IF n \in N THEN to ELSE status[n]]

(* The transaction that creates them commits, or does not.                 *)
Announce(N) == Move(N, {"none"}, "due")
TakeBack(N) == Move(N, {"none"}, "void")

Email(n) == Move({n}, {"due"}, "emailed")

(* Their users read them, or leave; their post is deleted.                 *)
DealWith(N) == Move(N, {"due"}, "seen")

(* A job fails on them, or ran before their transaction committed.         *)
GiveUp(N) == Move(N, {"none", "due"}, "lost")

Next ==
  \/ \E N \in SUBSET Notes : Announce(N) \/ TakeBack(N) \/ DealWith(N) \/ GiveUp(N)
  \/ \E n \in Notes : Email(n)

Spec == Init /\ [][Next]_status

(* What has been e-mailed, dealt with, given up or taken back stays so: the*)
(* jobs are not retried and no loaded copy revives what a user settled.    *)
SettledIsFinal ==
  [][\A n \in Notes : status[n] \notin {"none", "due"} => status'[n] = status[n]]_status
===============================================================================
