------------------------------ MODULE MCStart ------------------------------
(***************************************************************************)
(* A candidate in one of three stories, which bound what is explored:      *)
(* a Starter and a Pro checkout, charged once each, and a token bundle;    *)
(* the Starter checkout and two interviews; three interviews in one        *)
(* billing cycle, without a subscription.  In the last two nothing is      *)
(* redelivered, and no order is verified by the page.                      *)
(***************************************************************************)
EXTENDS InterviewStart

CONSTANTS s1, s2, i1, i2, i3
MCSubs == {s1, s2}
MCOnce == [s \in MCSubs |-> 1]
MCPlan == [s \in MCSubs |-> IF s = s1 THEN "Starter" ELSE "Pro"]
MCStarts == {i1, i2, i3}
MCCost == [r \in MCStarts |-> IF r = i1 THEN 2 ELSE 1]

VARIABLE story

Buying == start' = start
Using == order'[s2] = "none" /\ bundle' = bundle /\ start'[i3] = "new"
Interviewing == order' = order /\ now' = now

StoryInit == StartInit /\ story \in {"buy", "use", "interview"}

StoryNext ==
    /\ StartNext
    /\ UNCHANGED story
    /\ IF story = "buy" THEN Buying ELSE again' = again /\ verifying' = verifying
    /\ story = "use" => Using
    /\ story = "interview" => Interviewing

\* What is under an obligation is in no story excluded.
StorySpec == StoryInit /\ [][StoryNext]_<<startVars, story>> /\ Fairness

=============================================================================
