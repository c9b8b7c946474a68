------------------------------ MODULE MCIssues ------------------------------
(***************************************************************************)
(* Two reports by the candidate and one by the interviewer.                *)
(***************************************************************************)
EXTENDS SessionIssues

CONSTANTS i1, i2, i3
MCIssueIds == {i1, i2, i3}
MCRaiser == [i \in MCIssueIds |-> IF i = i3 THEN interviewer ELSE candidate]

=============================================================================
