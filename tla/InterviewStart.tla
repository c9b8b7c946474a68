--------------------------- MODULE InterviewStart ---------------------------
(***************************************************************************)
(* Starting AI interviews: what was sold (Billing) is used.  A start       *)
(* request checks the quota, creates its session, is charged and cancels   *)
(* the candidate's other sessions, each in a transaction of its own; the   *)
(* page joins a session when its start was answered.  What happens in a    *)
(* session is AiInterview; here it is READY, LIVE or over.                 *)
(***************************************************************************)
EXTENDS Billing, Functions

CONSTANTS
    Starts,     \* start requests, and the sessions they create
    Cost,       \* AI_INTERVIEW_PRICING, of every start
    Free,       \* free_ai_interviews_remaining of a new candidate
    MaxBroken   \* bound: workers that die while they start an interview

ASSUME StartAssumption ==
    /\ None \notin Starts /\ IsFiniteSet(Starts)
    /\ Cost \in [Starts -> Nat \ {0}]
    /\ {Free, MaxBroken} \subseteq Nat

VARIABLES
    free,       \* free_ai_interviews_remaining
    start,      \* where every start request is
    interview,  \* status of the AIInterviewSession it created
    payment,    \* how it was paid
    period,     \* history: the period whose quota paid it
    others,     \* active sessions it has read and not cancelled
    joining,    \* sessions that a join has read as READY
    lone,       \* history: the start at work that has met nobody
    serving     \* history: what was started last, if that start met nobody

progress == <<start, interview, others>>
charges == <<free, payment, period>>
starting == <<progress, charges, joining, lone, serving>>
startVars == <<vars, starting>>

Active == {"READY", "LIVE"}
ActiveSessions == {s \in Starts : interview[s] \in Active}
AtWorkStarts == {r \in Starts : start[r] \in {"created", "charged", "rejected", "cancelling"}}

Put(r, at) == start' = [start EXCEPT ![r] = at]
Became(s, as) == interview' = [interview EXCEPT ![s] = as]

-----------------------------------------------------------------------------
(* The quota *)

Current == [sub |-> latest, nr |-> IF latest = None THEN 0 ELSE stamp[latest].nr]

\* check_eligibility and consume_quota try the same four in this order.
PaymentOf(r) ==
    IF profile.unlimited /\ Valid THEN "UNLIMITED"
    ELSE IF Valid /\ profile.remaining > 0 THEN "SUBSCRIPTION"
    ELSE IF free > 0 THEN "FREE_QUOTA"
    ELSE IF balance >= Cost[r] THEN "TOKENS"
    ELSE "none"

\* Mutant: an interview paid by the subscription is not counted.
Uncounted(by) == profile

Deducted(by) == IF by = "SUBSCRIPTION" THEN [profile EXCEPT !.remaining = @ - 1] ELSE profile

-----------------------------------------------------------------------------
(* create_session *)

CheckEligibility(r) ==
    /\ start[r] = "new"
    /\ Put(r, IF PaymentOf(r) = "none" THEN "refused" ELSE "checked")
    /\ UNCHANGED <<vars, interview, others, charges, joining, lone, serving>>

\* From here on two starts, or a start and a join, may cross.
CreateSession(r) ==
    LET alone == AtWorkStarts = {} /\ joining = {}
    IN  /\ start[r] = "checked"
        /\ Put(r, "created")
        /\ Became(r, "READY")
        /\ lone' = IF alone THEN r ELSE None
        /\ serving' = IF alone THEN serving ELSE None
        /\ UNCHANGED <<vars, others, charges, joining>>

\* consume_quota locks the profile and looks again.
Consume(r) ==
    LET by == PaymentOf(r)
    IN  /\ start[r] = "created"
        /\ Put(r, IF by = "none" THEN "rejected" ELSE "charged")
        /\ payment' = [payment EXCEPT ![r] = by]
        /\ period' = IF by = "SUBSCRIPTION" THEN [period EXCEPT ![r] = Current] ELSE period
        /\ profile' = Deducted(by)
        /\ free' = IF by = "FREE_QUOTA" THEN free - 1 ELSE free
        /\ balance' = IF by = "TOKENS" THEN balance - Cost[r] ELSE balance
        /\ UNCHANGED <<now, stripe, delivery, order, status, stamp, recorded, granted, latest,
                       overtaken, expiring, bundles, interview, others, joining, lone, serving>>

\* Mutant: the session of a rejected start stays.
KeepSession(r) == UNCHANGED interview

RemoveSession(r) == Became(r, "none")

DropSession(r) ==
    /\ start[r] = "rejected"
    /\ Put(r, "refused")
    /\ RemoveSession(r)
    /\ lone' = None
    /\ UNCHANGED <<vars, others, charges, joining, serving>>

\* Mutant: the new session is cancelled with the others.
AllActive(r) == ActiveSessions

OtherActive(r) == ActiveSessions \ {r}

\* _cancel_other_active_sessions reads them all, without a lock.
ReadOthers(r) ==
    /\ start[r] = "charged"
    /\ Put(r, "cancelling")
    /\ others' = [others EXCEPT ![r] = OtherActive(r)]
    /\ UNCHANGED <<vars, interview, charges, joining, lone, serving>>

\* mark_cancelled writes over whatever the session is by now; saving one
\* that was deleted raises, and nobody answers the request.
CancelOther(r, s) ==
    /\ s \in others[r]
    /\ IF interview[s] = "none"
       THEN /\ Put(r, "broken")
            /\ others' = [others EXCEPT ![r] = {}]
            /\ UNCHANGED interview
       ELSE /\ Became(s, "CANCELLED")
            /\ others' = [others EXCEPT ![r] = @ \ {s}]
            /\ UNCHANGED start
    /\ UNCHANGED <<vars, charges, joining, lone, serving>>

\* Questions are generated, or taken from a fixed list.
AnswerStart(r) ==
    /\ start[r] = "cancelling" /\ others[r] = {}
    /\ Put(r, "answered")
    /\ serving' = IF lone = r THEN r ELSE None
    /\ lone' = None
    /\ UNCHANGED <<vars, interview, others, charges, joining>>

\* The worker dies: the session stays, and what it was charged.
Break(r) ==
    /\ r \in AtWorkStarts
    /\ Cardinality({x \in Starts : start[x] = "broken"}) < MaxBroken
    /\ Put(r, "broken")
    /\ others' = [others EXCEPT ![r] = {}]
    /\ lone' = None /\ serving' = None
    /\ UNCHANGED <<vars, interview, charges, joining>>

-----------------------------------------------------------------------------
(* The sessions *)

\* The live page opens when the start was answered; build_join_payload
\* reads the session, then mark_live saves it.
ReadJoin(s) ==
    /\ start[s] = "answered" /\ interview[s] = "READY" /\ s \notin joining
    /\ joining' = joining \cup {s}
    /\ IF AtWorkStarts = {} THEN UNCHANGED <<lone, serving>> ELSE lone' = None /\ serving' = None
    /\ UNCHANGED <<vars, progress, charges>>

CommitJoin(s) ==
    /\ s \in joining
    /\ joining' = joining \ {s}
    /\ Became(s, "LIVE")
    /\ UNCHANGED <<vars, start, others, charges, lone, serving>>

\* Completed, aborted or expired.
EndInterview(s) ==
    /\ start[s] \in {"answered", "broken"} /\ interview[s] \in Active
    /\ Became(s, "over")
    /\ UNCHANGED <<vars, start, others, charges, joining, lone, serving>>

-----------------------------------------------------------------------------
(* Specification *)

StartInit ==
    /\ Init
    /\ free = Free
    /\ start = [r \in Starts |-> "new"] /\ interview = [r \in Starts |-> "none"]
    /\ payment = [r \in Starts |-> "none"]
    /\ period = [r \in Starts |-> [sub |-> None, nr |-> 0]]
    /\ others = [r \in Starts |-> {}]
    /\ joining = {} /\ lone = None /\ serving = None

StartStep(r) ==
    \/ CheckEligibility(r) \/ CreateSession(r) \/ Consume(r) \/ DropSession(r)
    \/ ReadOthers(r) \/ AnswerStart(r) \/ Break(r)
    \/ \E s \in Starts : CancelOther(r, s)

SessionStep(s) == ReadJoin(s) \/ CommitJoin(s) \/ EndInterview(s)

StartNext ==
    \/ Next /\ UNCHANGED starting
    \/ \E r \in Starts : StartStep(r) \/ SessionStep(r)

StartSpec == StartInit /\ [][StartNext]_startVars

-----------------------------------------------------------------------------
(* Correctness *)

Periods0 == [sub : Subs \cup {None}, nr : Nat]

StartTypeOK ==
    /\ TypeOK
    /\ free \in Nat
    /\ start \in [Starts -> {"new", "checked", "created", "charged", "rejected", "cancelling",
                             "answered", "refused", "broken"}]
    /\ interview \in [Starts -> {"none", "READY", "LIVE", "over", "CANCELLED"}]
    /\ payment \in [Starts -> {"none", "UNLIMITED", "SUBSCRIPTION", "FREE_QUOTA", "TOKENS"}]
    /\ period \in [Starts -> Periods0]
    /\ others \in [Starts -> SUBSET Starts]
    /\ joining \subseteq Starts
    /\ {lone, serving} \subseteq Starts \cup {None}

PaidBy(by) == {r \in Starts : payment[r] = by}
UsedIn(p) == {r \in PaidBy("SUBSCRIPTION") : period[r] = p}
Price == [r \in Starts |-> IF payment[r] = "TOKENS" THEN Cost[r] ELSE 0]

\* Whatever starts, purchases, renewals and expiries interleave: every
\* interview is counted once, against the free ones, the period that paid
\* it or the tokens, and no period pays more than its quota.
QuotaAccounted ==
    LET sold == {o \in Bundles : bundle[o].status = "SUCCEEDED"}
    IN  /\ free + Cardinality(PaidBy("FREE_QUOTA")) = Free
        /\ balance + SumFunction(Price) = Monthly * Cardinality(granted) + Pack * Cardinality(sold)
        /\ \A o \in sold : bundle[o].paid
        /\ profile.remaining > 0 =>
                profile.remaining + Cardinality(UsedIn(Current)) = StarterQuota
        /\ \A r \in PaidBy("SUBSCRIPTION") : Cardinality(UsedIn(period[r])) <= StarterQuota

\* No interview is held that was not charged, and who is refused has paid
\* nothing and has no session.
NothingForFree ==
    \A r \in Starts :
        /\ interview[r] = "LIVE" => payment[r] # "none"
        /\ start[r] = "refused" => payment[r] = "none" /\ interview[r] = "none"

\* When a start met nobody, what it started is the candidate's only active
\* session, and nobody has cancelled it, until a start or join that crosses
\* another: workers that died before leave nothing behind.
LastStartServes ==
    AtWorkStarts = {} /\ serving # None =>
        ActiveSessions \subseteq {serving} /\ interview[serving] # "CANCELLED"

=============================================================================
