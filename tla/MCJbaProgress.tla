--------------------------- MODULE MCJbaProgress ---------------------------
EXTENDS JbaProgress

\* A teacher lowers the score of completed work, or nobody grades by hand.
MCGiven == {[score |-> 0, status |-> "completed"]}
MCNobody == {}
=============================================================================
