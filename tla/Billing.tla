------------------------------ MODULE Billing ------------------------------
(***************************************************************************)
(* A candidate's token bundles and subscriptions: checkouts at Stripe, the *)
(* webhook router with Stripe's redelivery, the page that verifies an      *)
(* order on its own, the nightly expiry task and the quota of AI           *)
(* interviews that comes with a subscription (InterviewStart uses it).     *)
(*                                                                         *)
(* Time is counted in billing cycles.  A start_date is the stamp of its    *)
(* activation: no two activations happen in the same microsecond.  Events  *)
(* of other types are only acknowledged.                                   *)
(***************************************************************************)
EXTENDS Integers, FiniteSets

CONSTANTS
    None,
    Subs,           \* checkouts of the candidate, and their Stripe subscriptions
    Plan,           \* "Starter" or "Pro", of every checkout
    Bundles,        \* orders of token packs
    MaxAgain,       \* bound: redeliveries of events that were answered 200
    MaxInvoices,    \* bound: invoices of every subscription, the first included
    Horizon,        \* bound: the clock stops here
    Monthly,        \* monthly_free_tokens
    Pack,           \* tokens of a bundle
    StarterQuota    \* STARTER_AI_INTERVIEWS

ASSUME BillingAssumption ==
    /\ None \notin Subs /\ Subs \cap Bundles = {}
    /\ Plan \in [Subs -> {"Starter", "Pro"}]
    /\ MaxInvoices \in [Subs -> Nat \ {0}] /\ StarterQuota \in Nat \ {0}
    /\ {MaxAgain, Horizon, Monthly, Pack} \subseteq Nat
    /\ IsFiniteSet(Subs) /\ IsFiniteSet(Bundles)

VARIABLES
    now,
    stripe,     \* of every subscription, at Stripe
    mail,       \* events Stripe has yet to deliver
    again,      \* number of redeliveries
    order,      \* SubscriptionPaymentOrder of a checkout
    status,     \* of the UserSubscription row
    stamp,      \* its start_date: number of the activation, and its time
    recorded,   \* renewal orders
    granted,    \* SubscriptionTokenGrant
    profile,    \* AI quota of the CandidateProfile
    balance,
    expiring,   \* rows a running expiry task has read and not written
    bundle,     \* PaymentOrder of a token pack: status, and paid at Stripe
    verifying,  \* orders read for a success page, not yet answered
    latest,     \* history: the subscription activated last
    overtaken   \* history: subscriptions activated while an expiry task ran

subscriptions == <<order, status, stamp, recorded, granted, profile, latest, overtaken>>
bundles == <<bundle, verifying>>
delivery == <<mail, again>>
vars == <<now, stripe, delivery, subscriptions, expiring, balance, bundles>>

Checkout(s) == <<"checkout.session.completed", s, 0>>
Invoice(s, n) == <<"invoice.payment_succeeded", s, n>>
Deleted(s) == <<"customer.subscription.deleted", s, 0>>
Paid(o) == <<"checkout.session.completed", o, 0>>
Events == {Checkout(s) : s \in Subs} \cup {Deleted(s) : s \in Subs}
            \cup {Paid(o) : o \in Bundles}
            \cup UNION {{Invoice(s, n) : n \in 1..MaxInvoices[s]} : s \in Subs}

End(s) == stamp[s].at + 1

-----------------------------------------------------------------------------
(* Checkout *)

\* stripe_checkout_session_id is unique and "" until the session exists: an
\* order that never got one keeps every other from being created.
WithoutSession == {s \in Subs : order[s] \in {"CREATED", "FAILED"}}

CreateOrder(s) ==
    /\ order[s] = "none" /\ WithoutSession = {}
    /\ order' = [order EXCEPT ![s] = "CREATED"]
    /\ UNCHANGED <<now, stripe, delivery, status, stamp, recorded, granted, profile, latest,
                   overtaken, expiring, balance, bundles>>

OpenSession(s) ==
    /\ order[s] = "CREATED"
    /\ \E result \in {"PENDING", "FAILED"} : order' = [order EXCEPT ![s] = result]
    /\ UNCHANGED <<now, stripe, delivery, status, stamp, recorded, granted, profile, latest,
                   overtaken, expiring, balance, bundles>>

\* Stripe charges the card, now and at the end of every cycle, until the
\* subscription is cancelled there; the program never cancels it.
Charge(s) ==
    LET n == stripe[s].invoices + 1
    IN  /\ order[s] \in {"PENDING", "SUCCEEDED"} /\ n <= MaxInvoices[s]
        /\ n = 1 \/ (stripe[s].live /\ now >= stripe[s].since + n - 1)
        /\ stripe' = [stripe EXCEPT ![s] =
                        [invoices |-> n, live |-> TRUE,
                         since |-> IF n = 1 THEN now ELSE @.since]]
        /\ mail' = mail \cup {Invoice(s, n)} \cup (IF n = 1 THEN {Checkout(s)} ELSE {})
        /\ UNCHANGED <<now, again, subscriptions, expiring, balance, bundles>>

CancelAtStripe(s) ==
    /\ stripe[s].live
    /\ stripe' = [stripe EXCEPT ![s].live = FALSE]
    /\ mail' = mail \cup {Deleted(s)}
    /\ UNCHANGED <<now, again, subscriptions, expiring, balance, bundles>>

-----------------------------------------------------------------------------
(* The webhook router *)

\* An event that is answered 200 may be delivered again; one that is
\* answered 500 is.
Acknowledge(e) ==
    \/ mail' = mail \ {e} /\ UNCHANGED again
    \/ again < MaxAgain /\ again' = again + 1 /\ UNCHANGED mail

\* Mutant: the unlimited flag of an earlier plan stays.
KeepUnlimited(p, s, end) ==
    [unlimited |-> p.unlimited \/ Plan[s] = "Pro", expires |-> end,
     remaining |-> IF Plan[s] = "Pro" THEN -1 ELSE StarterQuota]

\* on_subscription_activated
PlanQuota(p, s, end) ==
    [unlimited |-> Plan[s] = "Pro", expires |-> end,
     remaining |-> IF Plan[s] = "Pro" THEN -1 ELSE StarterQuota]

\* Mutant: the active subscription is left as it is.
LeftActive == status

\* activate_subscription: whatever is active is cancelled first.
ActiveCancelled ==
    [s \in Subs |-> IF status[s] = "ACTIVE" THEN "CANCELLED" ELSE status[s]]

\* one_active_subscription_per_user
CanBecomeActive(s, rows) == \A x \in Subs \ {s} : rows[x] # "ACTIVE"

\* grant_monthly_tokens: once per subscription and start of the cycle.
Grant(s, cycle) ==
    /\ granted' = granted \cup {<<s, cycle>>}
    /\ balance' = IF <<s, cycle>> \in granted THEN balance ELSE balance + Monthly

\* _handle_user_subscription_purchase, under a lock on the user's row.  A
\* redelivered event runs it again.
Activate(s) ==
    LET start == [nr |-> stamp[s].nr + 1, at |-> now]
    IN  /\ Checkout(s) \in mail /\ CanBecomeActive(s, ActiveCancelled)
        /\ status' = [ActiveCancelled EXCEPT ![s] = "ACTIVE"]
        /\ stamp' = [stamp EXCEPT ![s] = start]
        /\ profile' = PlanQuota(profile, s, now + 1)
        /\ order' = [order EXCEPT ![s] = "SUCCEEDED"]
        /\ Grant(s, start.nr)
        /\ latest' = s
        /\ overtaken' = IF expiring = {} THEN overtaken \ {s} ELSE overtaken \cup {s}
        /\ Acknowledge(Checkout(s))
        /\ UNCHANGED <<now, stripe, recorded, expiring, bundles>>

\* stripe_subscription_id of the orders is unique, and the checkout's own
\* order has it.
CanRecord(s) ==
    /\ order[s] # "SUCCEEDED"
    /\ ~\E n \in 1..MaxInvoices[s] : <<s, n>> \in recorded

\* _handle_invoice_payment_succeeded: of an unknown subscription or a
\* recorded invoice, acknowledged; else the order is stored, 500 if it
\* cannot be, and the tokens of the current cycle are granted.
Renew(s, n) ==
    /\ Invoice(s, n) \in mail
    /\ \/ status[s] = "none" \/ <<s, n>> \in recorded
       \/ CanRecord(s)
    /\ IF status[s] = "none" \/ <<s, n>> \in recorded
       THEN UNCHANGED <<recorded, granted, balance>>
       ELSE /\ recorded' = recorded \cup {<<s, n>>}
            /\ Grant(s, stamp[s].nr)
    /\ Acknowledge(Invoice(s, n))
    /\ UNCHANGED <<now, stripe, order, status, stamp, profile, latest, overtaken, expiring,
                   bundles>>

\* _handle_subscription_cancelled leaves the quota: it was paid for.
Cancel(s) ==
    /\ Deleted(s) \in mail
    /\ status' = [status EXCEPT ![s] = IF @ = "none" THEN @ ELSE "CANCELLED"]
    /\ Acknowledge(Deleted(s))
    /\ UNCHANGED <<now, stripe, order, stamp, recorded, granted, profile, latest,
                   overtaken, expiring, balance, bundles>>

-----------------------------------------------------------------------------
(* Token bundles *)

PayBundle(o) ==
    /\ bundle[o].status = "PENDING" /\ ~bundle[o].paid
    /\ bundle' = [bundle EXCEPT ![o].paid = TRUE]
    /\ mail' = mail \cup {Paid(o)}
    /\ UNCHANGED <<now, again, stripe, subscriptions, expiring, balance, verifying>>

\* can_process_webhook, on a locked row
CanProcess(o) == bundle[o].status = "PENDING"

\* _handle_token_bundle_purchase
Process(o) ==
    IF CanProcess(o)
    THEN /\ bundle' = [bundle EXCEPT ![o].status = "SUCCEEDED"]
         /\ balance' = balance + Pack
    ELSE UNCHANGED <<bundle, balance>>

Webhook(o) ==
    /\ Paid(o) \in mail
    /\ Process(o)
    /\ Acknowledge(Paid(o))
    /\ UNCHANGED <<now, stripe, subscriptions, expiring, verifying>>

\* The success page asks for its order, which is read without a lock; its
\* address can be opened before anything is paid.
ReadOrder(o) ==
    /\ bundle[o].status = "PENDING" /\ o \notin verifying
    /\ verifying' = verifying \cup {o}
    /\ UNCHANGED <<now, stripe, delivery, subscriptions, expiring, balance, bundle>>

PaidAtStripe(o) == bundle[o].paid

\* _get_or_sync_succeeded_order asks Stripe and routes the event itself.
SyncOrder(o) ==
    /\ o \in verifying
    /\ verifying' = verifying \ {o}
    /\ IF PaidAtStripe(o) THEN Process(o) ELSE UNCHANGED <<bundle, balance>>
    /\ UNCHANGED <<now, stripe, delivery, subscriptions, expiring>>

-----------------------------------------------------------------------------
(* expire_user_subscriptions *)

\* Mutants: rows are expired when their last day begins; never.
Begun(s) == stamp[s].at < now
NeverEnded(s) == FALSE

Ended(s) == End(s) < now

\* The rows are read without locks; a worker that dies leaves the rest to
\* another night.
ReadEnded ==
    /\ expiring = {}
    /\ expiring' = {s \in Subs : status[s] = "ACTIVE" /\ Ended(s)}
    /\ UNCHANGED <<now, stripe, delivery, subscriptions, balance, bundles>>

\* One transaction per row; on_subscription_expired resets the quota of the
\* candidate, whatever is active by then.
Expire(s) ==
    /\ s \in expiring
    /\ expiring' = expiring \ {s}
    /\ status' = [status EXCEPT ![s] = "EXPIRED"]
    /\ profile' = [profile EXCEPT !.unlimited = FALSE, !.remaining = 0]
    /\ UNCHANGED <<now, stripe, delivery, order, stamp, recorded, granted, latest, overtaken,
                   balance, bundles>>

-----------------------------------------------------------------------------
(* Specification *)

Tick ==
    /\ now < Horizon
    /\ now' = now + 1
    /\ UNCHANGED <<stripe, delivery, subscriptions, expiring, balance, bundles>>

Init ==
    /\ now = 0
    /\ stripe = [s \in Subs |-> [invoices |-> 0, live |-> FALSE, since |-> 0]]
    /\ mail = {} /\ again = 0
    /\ order = [s \in Subs |-> "none"] /\ status = [s \in Subs |-> "none"]
    /\ stamp = [s \in Subs |-> [nr |-> 0, at |-> 0]]
    /\ recorded = {} /\ granted = {}
    /\ profile = [unlimited |-> FALSE, remaining |-> 0, expires |-> 0]
    /\ balance = 0
    /\ expiring = {}
    /\ bundle = [o \in Bundles |-> [status |-> "PENDING", paid |-> FALSE]]
    /\ verifying = {}
    /\ latest = None /\ overtaken = {}

Candidate == \/ \E s \in Subs : CreateOrder(s) \/ OpenSession(s)
             \/ \E o \in Bundles : PayBundle(o) \/ ReadOrder(o) \/ SyncOrder(o)
Stripe == \E s \in Subs : Charge(s) \/ CancelAtStripe(s)
Delivery == \/ \E s \in Subs : \/ Activate(s) \/ Cancel(s)
                               \/ \E n \in 1..MaxInvoices[s] : Renew(s, n)
            \/ \E o \in Bundles : Webhook(o)
ExpiryTask == ReadEnded \/ \E s \in Subs : Expire(s)

Next == Candidate \/ Stripe \/ Delivery \/ ExpiryTask \/ Tick

Spec == Init /\ [][Next]_vars

\* Stripe goes on delivering what was not answered 200, which redeliveries,
\* being bounded, cannot hold up; the expiry task runs every night.
Fairness == WF_vars(Delivery) /\ WF_vars(ExpiryTask)

-----------------------------------------------------------------------------
(* Correctness *)

TypeOK ==
    /\ now \in Nat /\ balance \in Nat
    /\ stripe \in [Subs -> [invoices : Nat, live : BOOLEAN, since : Nat]]
    /\ mail \subseteq Events /\ again \in Nat
    /\ order \in [Subs -> {"none", "CREATED", "PENDING", "SUCCEEDED", "FAILED"}]
    /\ status \in [Subs -> {"none", "ACTIVE", "CANCELLED", "EXPIRED"}]
    /\ stamp \in [Subs -> [nr : Nat, at : Nat]]
    /\ recorded \subseteq Subs \X Nat
    /\ granted \subseteq Subs \X Nat
    /\ profile \in [unlimited : BOOLEAN, remaining : -1..StarterQuota, expires : Nat]
    /\ expiring \subseteq Subs
    /\ bundle \in [Bundles -> [status : {"PENDING", "SUCCEEDED"}, paid : BOOLEAN]]
    /\ verifying \subseteq Bundles
    /\ latest \in Subs \cup {None} /\ overtaken \subseteq Subs

\* Webhooks delivered twice, renewals and a page that verifies its order
\* itself credit every paid bundle and every grant once: they are the
\* whole balance.
TokensExplained ==
    LET sold == {o \in Bundles : bundle[o].status = "SUCCEEDED"}
    IN  /\ balance = Monthly * Cardinality(granted) + Pack * Cardinality(sold)
        /\ \A o \in sold : bundle[o].paid

\* What was activated last is served until its end: neither the expiry task
\* nor an event about another subscription takes the period or its quota
\* away, unless the task was running when it was activated.
PaidPeriodServed ==
    \A s \in Subs \ overtaken :
        latest = s /\ now <= End(s) =>
            /\ status[s] = "ACTIVE" \/ (status[s] = "CANCELLED" /\ ~stripe[s].live)
            /\ profile.expires = End(s)
            /\ Plan[s] = "Pro" => profile.unlimited

Valid == profile.expires > now

\* Quota that can be used is the quota of the subscription activated last.
QuotaBacked ==
    Valid => /\ latest # None /\ profile.expires = End(latest)
             /\ profile.unlimited => Plan[latest] = "Pro"
             /\ profile.remaining > 0 => Plan[latest] = "Starter"

\* A charged card leads to an activation, a paid bundle to its tokens: in
\* the end nobody waits for what was paid.
Waiting == \/ \E s \in Subs : stripe[s].invoices > 0 /\ stamp[s].nr = 0
           \/ \E o \in Bundles : bundle[o].paid /\ bundle[o].status # "SUCCEEDED"

PaidTakesEffect == Waiting ~> ~Waiting

\* No subscription stays ACTIVE after its end.
Overdue == \E s \in Subs : status[s] = "ACTIVE" /\ End(s) < now

SubscriptionEnds == Overdue ~> ~Overdue

=============================================================================
