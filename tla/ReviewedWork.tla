----------------------------- MODULE ReviewedWork -----------------------------
(***************************************************************************)
(* What the review of one student's work promises, with no form, no        *)
(* transaction and no lock in sight: a grading replaces the score and the  *)
(* status and records the change of the score in the same step; a          *)
(* submission puts the work on checking.  PersonalAssignment.tla is shown  *)
(* to implement it.                                                        *)
(***************************************************************************)
EXTENDS Sequences, Naturals

CONSTANTS Scores, Statuses, NoScore

VARIABLES
  score,    (* StudentAssignment.score                                     *)
  status,   (* StudentAssignment.status                                    *)
  history   (* the AssignmentScoreAuditLog records                         *)

vars == <<score, status, history>>

Init ==
  /\ score = NoScore
  /\ status = "not_submitted"
  /\ history = << >>

(* A published review.                                                     *)
Grade(s, st) ==
  /\ score' = s
  /\ status' = st
  /\ history' = IF s = score THEN history
                ELSE Append(history, [score_old |-> score, score_new |-> s])

(* A published solution.                                                   *)
Submit ==
  /\ status' = "on_checking"
  /\ UNCHANGED <<score, history>>

Next ==
  \/ \E s \in Scores \union {NoScore}, st \in Statuses : Grade(s, st)
  \/ Submit

Spec == Init /\ [][Next]_vars

(* Every record starts where the one before it ended, and the last one     *)
(* ends at the present score.                                              *)
HistoryExplainsScore ==
  /\ \A i \in 1..(Len(history) - 1) : history[i].score_new = history[i + 1].score_old
  /\ history = << >> => score = NoScore
  /\ history # << >> => /\ history[1].score_old = NoScore
                        /\ history[Len(history)].score_new = score
===============================================================================
