------------------------- MODULE InterviewerAccount -------------------------
(***************************************************************************)
(* One interviewer from application to public profile: the application     *)
(* form and the admins' reviews (two rows that are written one after the   *)
(* other), onboarding, the identity verification, the subscription bought  *)
(* at Stripe, the task that expires it, and the profile page whose copy of *)
(* the profile is sent back whole.                                         *)
(*                                                                         *)
(* No view of these runs in a transaction: each save is a step, and what   *)
(* was read before it may have changed.  Suspensions are in SessionIssues. *)
(***************************************************************************)
EXTENDS Integers

CONSTANTS
    Nothing,
    Tabs,       \* tabs of the applicant
    Admins,
    Checkouts,  \* checkouts of the subscription, one payment each
    Flags,      \* the switches of the profile page
    Cycle,      \* billing_cycle_days
    LastDay     \* bound: the clock stops here

ASSUME AccountAssumption ==
    /\ Tabs \cap Admins = {} /\ "onboarding" \notin Tabs \cup Admins
    /\ Nothing \notin {"PENDING", "APPROVED", "REJECTED"}
    /\ Cycle \in Nat \ {0} /\ LastDay \in Nat

VARIABLES
    story,          \* bound: the behaviour follows an applicant, or starts
                    \* with an interviewer who has just been activated
    application,    \* status of the InterviewerApplication, Nothing without a row
    account,        \* role and interviewer_status of the user
    request,        \* requests at work: where each is and what it read
    step,           \* onboarding_step of the profile, Nothing without a profile
    slots,          \* the interviewer has published availability
    verification,   \* status of the identity verification
    subs,           \* checkout -> its InterviewerSubscription
    checkout,       \* checkout -> what Stripe knows of it
    ending,         \* the rows the expiry task holds
    flags,          \* the switches that are on
    page,           \* the profile page: its copy, and what it sent
    day,            \* the clock, in days
    crossed,        \* history: requests that overlapped with another
    settled,        \* history: the last request to end ran alone
    exposed         \* history: why a profile may be public without being paid

applicant == <<application, account, request, step, slots>>
billing == <<subs, checkout, ending>>
showing == <<flags, page>>
accountVars == <<story, applicant, verification, billing, showing, day, crossed, settled, exposed>>

Requests == Tabs \cup Admins \cup {"onboarding"}
Idle == [at |-> "idle", seen |-> Nothing]
AtWork == {r \in Requests : request[r] # Idle}

-----------------------------------------------------------------------------
(* Requests that write two rows *)

\* A request starts; whatever else is at work overlaps with it.
Start(r, read) ==
    /\ request[r] = Idle
    /\ request' = [request EXCEPT ![r] = read]
    /\ crossed' = IF AtWork = {} THEN crossed ELSE crossed \cup AtWork \cup {r}

\* It ends, having written what it decided or not.
EndRequest(r, decided) ==
    /\ request' = [request EXCEPT ![r] = Idle]
    /\ crossed' = crossed \ {r}
    /\ settled' = (decided /\ r \notin crossed)

\* Its worker dies after the first row; in a review the e-mail is queued in
\* between, and a broker that is down raises.
Interrupt(r) ==
    /\ request[r].at = "half"
    /\ EndRequest(r, FALSE)
    /\ UNCHANGED <<story, application, account, step, slots, verification, billing, showing, day, exposed>>

ReadApplication(t) ==
    /\ application \in {Nothing, "REJECTED"}
    /\ Start(t, [at |-> "read", seen |-> application])
    /\ UNCHANGED <<story, application, account, step, slots, verification, billing, showing, day, settled, exposed>>

\* Mutant: the status of the rejected application is kept.
KeptStatus(seen) == IF seen = Nothing THEN "PENDING" ELSE application

\* The update serializer resets the review.
Resubmitted(seen) == "PENDING"

\* A new application is one row per user: the second insert fails.
SaveApplication(t) ==
    /\ request[t].at = "read"
    /\ IF request[t].seen = Nothing /\ application # Nothing
       THEN /\ request' = [request EXCEPT ![t] = Idle]
            /\ crossed' = crossed \ {t}
            /\ UNCHANGED application
       ELSE /\ application' = Resubmitted(request[t].seen)
            /\ request' = [request EXCEPT ![t].at = "half"]
            /\ UNCHANGED crossed
    /\ UNCHANGED <<story, account, step, slots, verification, billing, showing, day, settled, exposed>>

AwaitApproval(t) ==
    /\ request[t].at = "half"
    /\ account' = [account EXCEPT !.status = "PENDING_APPROVAL"]
    /\ EndRequest(t, TRUE)
    /\ UNCHANGED <<story, application, step, slots, verification, billing, showing, day, exposed>>

ReadReview(a) ==
    /\ application = "PENDING"
    /\ \E decision \in {"APPROVED", "REJECTED"} :
          Start(a, [at |-> "read", seen |-> decision])
    /\ UNCHANGED <<story, application, account, step, slots, verification, billing, showing, day, settled, exposed>>

\* Approval promotes the user and then creates the profile, unless there is
\* one; rejection leaves the role alone.
DecideAccount(a) ==
    /\ request[a].at = "read"
    /\ IF request[a].seen = "APPROVED"
       THEN /\ account' = [role |-> "interviewer", status |-> "APPROVED_NOT_ONBOARDED"]
            /\ step' = IF step = Nothing THEN "PROFILE" ELSE step
       ELSE /\ account' = [account EXCEPT !.status = "REJECTED"]
            /\ UNCHANGED step
    /\ request' = [request EXCEPT ![a].at = "half"]
    /\ UNCHANGED <<story, application, slots, verification, billing, showing, day, crossed, settled, exposed>>

\* All columns of the application are saved, whatever they are by now.
SaveReview(a) ==
    /\ request[a].at = "half"
    /\ application' = request[a].seen
    /\ EndRequest(a, TRUE)
    /\ UNCHANGED <<story, account, step, slots, verification, billing, showing, day, exposed>>

Apply(t) == ReadApplication(t) \/ SaveApplication(t) \/ AwaitApproval(t)
Review(a) == ReadReview(a) \/ DecideAccount(a) \/ SaveReview(a)

-----------------------------------------------------------------------------
(* Onboarding *)

Onboarding == account.role = "interviewer"
              /\ account.status \in {"APPROVED_NOT_ONBOARDED", "ACTIVE"}
IsActive == account.role = "interviewer" /\ account.status = "ACTIVE"

\* The profile form leads to the availability form, which leads on.  It is
\* posted as a multipart form without the switches: they are read as off.
SaveProfile ==
    /\ Onboarding
    /\ step' = "AVAILABILITY"
    /\ flags' = {}
    /\ UNCHANGED <<story, application, account, request, slots, verification, billing, page, day, crossed, settled, exposed>>

AddAvailability ==
    /\ Onboarding /\ story = "applies"
    /\ slots' = TRUE
    /\ step' = IF step = "AVAILABILITY" THEN "VERIFICATION" ELSE step
    /\ UNCHANGED <<story, application, account, request, verification, billing, showing, day, crossed, settled, exposed>>

ReadComplete ==
    /\ account = [role |-> "interviewer", status |-> "APPROVED_NOT_ONBOARDED"]
    /\ step \in {"AVAILABILITY", "VERIFICATION", "COMPLETED"} /\ slots
    /\ Start("onboarding", [at |-> "read", seen |-> "complete"])
    /\ UNCHANGED <<story, application, account, step, slots, verification, billing, showing, day, settled, exposed>>

MarkCompleted ==
    /\ request["onboarding"].at = "read"
    /\ step' = "COMPLETED"
    /\ request' = [request EXCEPT !["onboarding"].at = "half"]
    /\ UNCHANGED <<story, application, account, slots, verification, billing, showing, day, crossed, settled, exposed>>

BecomeActive ==
    /\ request["onboarding"].at = "half"
    /\ account' = [account EXCEPT !.status = "ACTIVE"]
    /\ EndRequest("onboarding", settled)
    /\ UNCHANGED <<story, application, step, slots, verification, billing, showing, day, exposed>>

\* Identity documents are sent by interviewers and reviewed by admins; each
\* view reads, checks and writes the one row.
SubmitVerification ==
    /\ story = "sells"
    /\ account.role = "interviewer"
    /\ verification \in {"NOT_SUBMITTED", "REJECTED"}
    /\ verification' = "PENDING"
    /\ UNCHANGED <<story, applicant, billing, showing, day, crossed, settled, exposed>>

ReviewVerification ==
    /\ verification = "PENDING"
    /\ verification' \in {"APPROVED", "REJECTED"}
    /\ UNCHANGED <<story, applicant, billing, showing, day, crossed, settled, exposed>>

Onboard == SaveProfile \/ AddAvailability \/ ReadComplete \/ MarkCompleted \/ BecomeActive
           \/ SubmitVerification \/ ReviewVerification

-----------------------------------------------------------------------------
(* The subscription *)

NoRow == [status |-> "none", end |-> 0]
ActiveRows == {c \in Checkouts : subs[c].status = "ACTIVE"}
HasActiveSubscription == \E c \in ActiveRows : subs[c].end > day

CreateCheckout(c) ==
    /\ story = "sells"
    /\ IsActive /\ ~HasActiveSubscription
    /\ checkout[c] = "unused"
    /\ checkout' = [checkout EXCEPT ![c] = "open"]
    /\ UNCHANGED <<story, applicant, verification, subs, ending, showing, day, crossed, settled, exposed>>

\* Stripe is paid; later it may delete the subscription.
AtStripe(c) ==
    /\ \/ checkout[c] = "open" /\ checkout' = [checkout EXCEPT ![c] = "paid"]
       \/ checkout[c] = "paid" /\ checkout' = [checkout EXCEPT ![c] = "deleted"]
    /\ UNCHANGED <<story, applicant, verification, subs, ending, showing, day, crossed, settled, exposed>>

\* Mutant: the subscription in force is left alone.
SideBySide(c) == subs

\* The subscription in force ends when another one begins.
Superseded(c) ==
    [d \in Checkouts |-> IF subs[d].status = "ACTIVE"
                         THEN [status |-> "EXPIRED", end |-> day] ELSE subs[d]]

\* The checkout event, delivered until it is answered 200 and then perhaps
\* again: a row with this subscription is returned as it is, and a second
\* ACTIVE row breaks one_active_interviewer_subscription, which is a 500.
DeliverCheckout(c) ==
    /\ checkout[c] \in {"paid", "deleted"}
    /\ subs[c] = NoRow
    /\ \A d \in Checkouts : Superseded(c)[d].status # "ACTIVE"
    /\ subs' = [Superseded(c) EXCEPT ![c] = [status |-> "ACTIVE", end |-> day + Cycle]]
    /\ UNCHANGED <<story, applicant, verification, checkout, ending, showing, day, crossed, settled, exposed>>

\* Nothing hides a profile when Stripe or an admin ends its subscription.
Ends(c, row) ==
    /\ subs' = [subs EXCEPT ![c] = row]
    /\ exposed' = (exposed \/ (subs[c].status = "ACTIVE" /\ flags # {}))
    /\ UNCHANGED <<story, applicant, verification, checkout, ending, showing, day, crossed, settled>>

DeliverDeleted(c) ==
    /\ checkout[c] = "deleted" /\ subs[c] # NoRow
    /\ Ends(c, [subs[c] EXCEPT !.status = "CANCELLED"])

Mark(c) ==
    /\ subs[c].status = "ACTIVE"
    /\ \E s \in {"EXPIRED", "CANCELLED"} : Ends(c, [status |-> s, end |-> day])

OverdueRows == {c \in ActiveRows : subs[c].end < day}

ReadExpired ==
    /\ ending = {} /\ OverdueRows # {}
    /\ ending' = OverdueRows
    /\ UNCHANGED <<story, applicant, verification, subs, checkout, showing, day, crossed, settled, exposed>>

\* Mutant: the switches stay on.
StayPublic == flags

Hidden == {}

\* Only the status of the rows is written; the page is told nothing.
CommitExpired ==
    /\ ending # {}
    /\ subs' = [c \in Checkouts |-> IF c \in ending
                                    THEN [subs[c] EXCEPT !.status = "EXPIRED"] ELSE subs[c]]
    /\ flags' = Hidden
    /\ ending' = {} /\ exposed' = FALSE
    /\ UNCHANGED <<story, applicant, verification, checkout, page, day, crossed, settled>>

Subscribe(c) == \/ CreateCheckout(c) \/ AtStripe(c) \/ DeliverCheckout(c)
                \/ DeliverDeleted(c) \/ Mark(c)
ExpireInterviewers == ReadExpired \/ CommitExpired

-----------------------------------------------------------------------------
(* The profile page *)

Closed == [at |-> "closed", copy |-> {}, flag |-> Nothing, on |-> FALSE,
           read |-> {}]

Switched(set, f, on) == IF on THEN set \cup {f} ELSE set \ {f}

\* The page is loaded when it is opened and again after every save.
LoadPage ==
    /\ IsActive /\ story = "sells"
    /\ page' = [page EXCEPT !.at = IF @ = "closed" THEN "shown" ELSE @, !.copy = flags]
    /\ UNCHANGED <<story, applicant, verification, billing, flags, day, crossed, settled, exposed>>

ClosePage ==
    /\ page.at = "shown"
    /\ page' = Closed
    /\ UNCHANGED <<story, applicant, verification, billing, flags, day, crossed, settled, exposed>>

\* toggleSwitch changes the copy at once and takes it back when refused.
Toggle(f) ==
    /\ page.at = "shown"
    /\ LET on == f \notin page.copy
       IN  page' = [page EXCEPT !.at = "patch", !.copy = Switched(page.copy, f, on),
                                !.flag = f, !.on = on]
    /\ UNCHANGED <<story, applicant, verification, billing, flags, day, crossed, settled, exposed>>

MayPublish == IsActive /\ verification = "APPROVED" /\ HasActiveSubscription

Answered(copy) == [Closed EXCEPT !.at = "shown", !.copy = copy]

\* The view reads the profile, checks and saves it with the one switch
\* changed: whatever was written in between is written back.
CheckPatch ==
    /\ page.at = "patch"
    /\ page' = IF MayPublish THEN [page EXCEPT !.at = "checked", !.read = flags]
               ELSE Answered(Switched(page.copy, page.flag, ~page.on))
    /\ UNCHANGED <<story, applicant, verification, billing, flags, day, crossed, settled, exposed>>

\* Whether this turns a switch on although no subscription is in force.
Write(new) ==
    /\ flags' = new
    /\ exposed' = (exposed \/ (ActiveRows = {} /\ ~(new \subseteq flags)))

CommitPatch ==
    /\ page.at = "checked"
    /\ Write(Switched(page.read, page.flag, page.on))
    /\ page' = Answered(page.copy)
    /\ UNCHANGED <<story, applicant, verification, billing, day, crossed, settled>>

\* handleSave sends the whole copy, also while a switch waits for its answer;
\* the view checks neither verification nor subscription.
Save ==
    /\ IsActive /\ page.at # "closed"
    /\ Write(page.copy)
    /\ UNCHANGED <<story, applicant, verification, billing, page, day, crossed, settled>>

ProfilePage == LoadPage \/ ClosePage \/ CheckPatch \/ CommitPatch \/ Save
               \/ \E f \in Flags : Toggle(f)

NextDay ==
    /\ day < LastDay /\ story = "sells"
    /\ day' = day + 1
    /\ UNCHANGED <<story, applicant, verification, billing, showing, crossed, settled, exposed>>

AccountInit ==
    /\ \/ /\ story = "applies"
          /\ application = Nothing /\ step = Nothing /\ slots = FALSE
          /\ account = [role |-> "user", status |-> "NOT_APPLIED"]
       \/ /\ story = "sells"
          /\ application = "APPROVED" /\ step = "COMPLETED" /\ slots = TRUE
          /\ account = [role |-> "interviewer", status |-> "ACTIVE"]
    /\ request = [r \in Requests |-> Idle]
    /\ verification = "NOT_SUBMITTED"
    /\ subs = [c \in Checkouts |-> NoRow]
    /\ checkout = [c \in Checkouts |-> "unused"]
    /\ ending = {}
    /\ flags = {} /\ page = Closed
    /\ day = 0
    /\ crossed = {} /\ settled = TRUE /\ exposed = FALSE

AccountNext == \/ \E t \in Tabs : Apply(t)
        \/ \E a \in Admins : Review(a)
        \/ \E r \in Requests : Interrupt(r)
        \/ Onboard
        \/ \E c \in Checkouts : Subscribe(c)
        \/ ExpireInterviewers
        \/ ProfilePage
        \/ NextDay

AccountSpec == AccountInit /\ [][AccountNext]_accountVars

\* Stripe delivers an event until it is accepted; the task runs every day and
\* the transaction it opened ends.
AccountFairSpec ==
    /\ AccountSpec
    /\ \A c \in Checkouts : WF_accountVars(DeliverCheckout(c))
    /\ WF_accountVars(ReadExpired) /\ WF_accountVars(CommitExpired)

-----------------------------------------------------------------------------
(* Correctness *)

\* The account (interviewer_status and role) says what the application says
\* whenever the last request that wrote them ran alone to its end: whatever
\* double submissions, two reviews or a dead worker left behind is put right
\* by the next review or resubmission.
AccountFollowsDecision ==
    settled /\ AtWork = {} =>
        account.status \in
            CASE application = Nothing -> {"NOT_APPLIED"}
              [] application = "PENDING" -> {"PENDING_APPROVAL"}
              [] application = "REJECTED" -> {"REJECTED"}
              [] application = "APPROVED" /\ account.role = "interviewer" ->
                    {"APPROVED_NOT_ONBOARDED", "ACTIVE"}
              [] OTHER -> {}

\* A profile is public or accepts bookings only on a subscription, in force or
\* about to be expired by the task that hides the profile too; unless an admin
\* or Stripe ended the subscription, or a page wrote the switches after its end.
PublicIsPaidFor ==
    flags # {} => ActiveRows # {} \/ exposed

\* A payment becomes a subscription, although another one may be in force and
\* only one may be ACTIVE; and what is overdue does not stay in force.
SubscriptionTakesItsCourse ==
    \A c \in Checkouts :
        /\ checkout[c] = "paid" ~> subs[c] # NoRow
        /\ c \in OverdueRows ~> c \notin ActiveRows

=============================================================================
