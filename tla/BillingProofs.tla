--------------------------- MODULE BillingProofs ---------------------------
(***************************************************************************)
(* Proofs about Billing, for any checkouts, bundles and redeliveries:      *)
(* types, a balance that the grants and the bundles explain, the period    *)
(* that was paid for, and the quota that comes with it.  About             *)
(* InterviewStart, which uses what was sold: every interview is counted    *)
(* once, and the last one serves.  And about the other side of the same    *)
(* router, InterviewerAccount: who pays is public, and the account follows *)
(* the decision on the application.                                        *)
(***************************************************************************)
EXTENDS InterviewStart, InterviewerAccount, TokenServiceProofs

Profiles == [unlimited : BOOLEAN, remaining : -1..StarterQuota, expires : Nat]

LEMMA Acknowledged ==
  ASSUME TypeOK, NEW e, Acknowledge(e)
  PROVE  mail' \subseteq mail /\ mail' \subseteq Events /\ again' \in Nat
  BY DEF TypeOK, Acknowledge

-----------------------------------------------------------------------------
(* Types *)

LEMMA InitTypes == Init => TypeOK
  BY BillingAssumption DEF BillingAssumption, Init, TypeOK

LEMMA ChargeTypes ==
  ASSUME TypeOK, NEW s \in Subs, Charge(s) \/ CancelAtStripe(s)
  PROVE  /\ stripe' \in [Subs -> [invoices : Nat, live : BOOLEAN, since : Nat]]
         /\ mail' \subseteq Events /\ again' \in Nat
  <1>1. CASE Charge(s)
    <2> DEFINE n == stripe[s].invoices + 1
    <2>1. n \in Nat /\ now \in Nat /\ stripe[s].since \in Nat
      BY DEF TypeOK
    <2>2. /\ n <= MaxInvoices[s] /\ MaxInvoices[s] \in Nat
          /\ stripe' = [stripe EXCEPT ![s] = [invoices |-> n, live |-> TRUE,
                                              since |-> IF n = 1 THEN now ELSE stripe[s].since]]
          /\ mail' \subseteq mail \cup {Invoice(s, n), Checkout(s)} /\ again' = again
      BY <1>1, BillingAssumption DEF Charge, BillingAssumption
    <2>3. n \in 1..MaxInvoices[s]
      BY <2>1, <2>2, stripe[s].invoices \in Nat DEF TypeOK
    <2>4. {Invoice(s, n), Checkout(s)} \subseteq Events
      BY <2>3 DEF Events
    <2>5. stripe' \in [Subs -> [invoices : Nat, live : BOOLEAN, since : Nat]]
      <3> DEFINE row == [invoices |-> n, live |-> TRUE,
                         since |-> IF n = 1 THEN now ELSE stripe[s].since]
      <3>1. row \in [invoices : Nat, live : BOOLEAN, since : Nat]
        BY <2>1
      <3>2. stripe' = [stripe EXCEPT ![s] = row]
        BY <2>2
      <3> HIDE DEF row
      <3> QED BY <3>1, <3>2 DEF TypeOK
    <2> QED BY <2>2, <2>4, <2>5 DEF TypeOK
  <1>2. CASE CancelAtStripe(s)
    <2>1. Deleted(s) \in Events
      BY DEF Events
    <2>2. /\ stripe' = [stripe EXCEPT ![s].live = FALSE]
          /\ mail' = mail \cup {Deleted(s)} /\ again' = again
      BY <1>2 DEF CancelAtStripe
    <2>3. stripe' \in [Subs -> [invoices : Nat, live : BOOLEAN, since : Nat]]
      <3> DEFINE row == [stripe[s] EXCEPT !.live = FALSE]
      <3>1. stripe[s] \in [invoices : Nat, live : BOOLEAN, since : Nat]
        BY DEF TypeOK
      <3>2. row \in [invoices : Nat, live : BOOLEAN, since : Nat]
        BY <3>1
      <3>3. stripe' = [stripe EXCEPT ![s] = row]
        BY <2>2
      <3> HIDE DEF row
      <3> QED BY <3>2, <3>3 DEF TypeOK
    <2>4. mail' \subseteq Events
      BY <2>1, <2>2 DEF TypeOK
    <2> QED BY <2>2, <2>3, <2>4 DEF TypeOK
  <1> QED BY <1>1, <1>2

LEMMA GrantTypes ==
  ASSUME TypeOK, NEW s \in Subs, NEW cycle \in Nat, Grant(s, cycle)
  PROVE  granted' \subseteq Subs \X Nat /\ balance' \in Nat
  BY BillingAssumption DEF BillingAssumption, TypeOK, Grant

LEMMA QuotaTypes ==
  ASSUME NEW p, NEW s \in Subs, NEW end \in Nat
  PROVE  PlanQuota(p, s, end) \in Profiles
  BY BillingAssumption DEF BillingAssumption, PlanQuota, Profiles

LEMMA ActivateTypes ==
  ASSUME TypeOK, NEW s \in Subs, Activate(s)
  PROVE  TypeOK'
  <1>1. now \in Nat /\ now + 1 \in Nat /\ stamp[s].nr + 1 \in Nat
    BY DEF TypeOK
  <1>2. /\ stamp' = [stamp EXCEPT ![s] = [nr |-> stamp[s].nr + 1, at |-> now]]
        /\ Grant(s, stamp[s].nr + 1)
    BY DEF Activate
  <1>3. stamp' \in [Subs -> [nr : Nat, at : Nat]]
    BY <1>1, <1>2 DEF TypeOK
  <1>4. profile' \in Profiles
    BY <1>1, QuotaTypes DEF Activate
  <1>5. status' \in [Subs -> {"none", "ACTIVE", "CANCELLED", "EXPIRED"}]
    BY DEF Activate, ActiveCancelled, TypeOK
  <1>6. order' \in [Subs -> {"none", "CREATED", "PENDING", "SUCCEEDED", "FAILED"}]
    BY DEF Activate, TypeOK
  <1>7. granted' \subseteq Subs \X Nat /\ balance' \in Nat
    BY <1>1, <1>2, GrantTypes
  <1>8. mail' \subseteq Events /\ again' \in Nat
    BY Acknowledged DEF Activate
  <1>9. /\ latest' \in Subs \cup {None} /\ overtaken' \subseteq Subs
        /\ UNCHANGED <<now, stripe, recorded, expiring, bundles>>
    BY DEF Activate, TypeOK
  <1> QED BY <1>3, <1>4, <1>5, <1>6, <1>7, <1>8, <1>9 DEF TypeOK, Profiles, bundles

LEMMA OtherDeliveryTypes ==
  ASSUME TypeOK, NEW s \in Subs,
         Cancel(s) \/ \E n \in 1..MaxInvoices[s] : Renew(s, n)
  PROVE  TypeOK'
  <1>1. CASE Cancel(s)
    <2>1. mail' \subseteq Events /\ again' \in Nat
      BY <1>1, Acknowledged DEF Cancel
    <2>2. status' \in [Subs -> {"none", "ACTIVE", "CANCELLED", "EXPIRED"}]
      BY <1>1 DEF Cancel, TypeOK
    <2> QED BY <1>1, <2>1, <2>2 DEF Cancel, TypeOK, bundles
  <1>2. ASSUME NEW n \in 1..MaxInvoices[s], Renew(s, n) PROVE TypeOK'
    <2>1. mail' \subseteq Events /\ again' \in Nat
      BY <1>2, Acknowledged DEF Renew
    <2>2. stamp[s].nr \in Nat /\ n \in Nat
      BY BillingAssumption DEF BillingAssumption, TypeOK
    <2>3. granted' \subseteq Subs \X Nat /\ balance' \in Nat /\ recorded' \subseteq Subs \X Nat
      BY <1>2, <2>2, GrantTypes DEF Renew, TypeOK
    <2> QED BY <1>2, <2>1, <2>3 DEF Renew, TypeOK, bundles
  <1> QED BY <1>1, <1>2

LEMMA BundleTypes ==
  ASSUME TypeOK, NEW o \in Bundles,
         PayBundle(o) \/ Webhook(o) \/ ReadOrder(o) \/ SyncOrder(o)
  PROVE  TypeOK'
  <1> DEFINE Orders == [Bundles -> [status : {"PENDING", "SUCCEEDED"}, paid : BOOLEAN]]
  <1>1. ASSUME Process(o) PROVE bundle' \in Orders /\ balance' \in Nat
    <2>1. balance' \in Nat
      BY <1>1, BillingAssumption DEF BillingAssumption, Process, TypeOK
    <2>2. bundle \in Orders
      BY DEF TypeOK
    <2>3. bundle' = [bundle EXCEPT ![o].status = "SUCCEEDED"] \/ bundle' = bundle
      BY <1>1 DEF Process
    <2> QED BY <2>1, <2>2, <2>3
  <1>2. CASE PayBundle(o)
    <2>1. Paid(o) \in Events
      BY DEF Events
    <2>2. bundle' \in Orders /\ mail' \subseteq Events
      BY <1>2, <2>1 DEF PayBundle, TypeOK
    <2> QED BY <1>2, <2>2 DEF PayBundle, TypeOK, subscriptions
  <1>3. CASE Webhook(o)
    <2>1. mail' \subseteq Events /\ again' \in Nat
      BY <1>3, Acknowledged DEF Webhook
    <2> QED BY <1>1, <1>3, <2>1 DEF Webhook, TypeOK, subscriptions
  <1>4. CASE ReadOrder(o)
    BY <1>4 DEF ReadOrder, TypeOK, subscriptions, delivery
  <1>5. CASE SyncOrder(o)
    <2>1. bundle' \in Orders /\ balance' \in Nat
      BY <1>1, <1>5 DEF SyncOrder, TypeOK
    <2> QED BY <1>5, <2>1 DEF SyncOrder, TypeOK, subscriptions, delivery
  <1> QED BY <1>2, <1>3, <1>4, <1>5

LEMMA StepTypes == TypeOK /\ [Next]_vars => TypeOK'
  <1> SUFFICES ASSUME TypeOK, [Next]_vars PROVE TypeOK'
    OBVIOUS
  <1>1. ASSUME NEW s \in Subs, CreateOrder(s) \/ OpenSession(s) PROVE TypeOK'
    <2>1. order' \in [Subs -> {"none", "CREATED", "PENDING", "SUCCEEDED", "FAILED"}]
      BY <1>1 DEF CreateOrder, OpenSession, TypeOK
    <2> QED BY <1>1, <2>1 DEF CreateOrder, OpenSession, TypeOK, delivery, bundles
  <1>2. ASSUME NEW s \in Subs, Charge(s) \/ CancelAtStripe(s) PROVE TypeOK'
    BY <1>2, ChargeTypes DEF Charge, CancelAtStripe, TypeOK, subscriptions, bundles
  <1>3. ASSUME NEW s \in Subs, Expire(s) PROVE TypeOK'
    <2>1. 0 \in -1..StarterQuota
      BY BillingAssumption DEF BillingAssumption
    <2>2. profile' \in Profiles
      BY <1>3, <2>1 DEF Expire, TypeOK, Profiles
    <2>3. status' \in [Subs -> {"none", "ACTIVE", "CANCELLED", "EXPIRED"}] /\ expiring' \subseteq Subs
      BY <1>3 DEF Expire, TypeOK
    <2> QED BY <1>3, <2>2, <2>3 DEF Expire, TypeOK, Profiles, delivery, bundles
  <1>4. CASE ReadEnded
    BY <1>4 DEF ReadEnded, TypeOK, delivery, subscriptions, bundles
  <1>5. CASE Tick
    BY <1>5 DEF Tick, TypeOK, delivery, subscriptions, bundles
  <1>6. CASE UNCHANGED vars
    BY <1>6 DEF vars, TypeOK, delivery, subscriptions, bundles
  <1> QED BY <1>1, <1>2, <1>3, <1>4, <1>5, <1>6, ActivateTypes, OtherDeliveryTypes, BundleTypes
          DEF Next, Candidate, Stripe, Delivery, ExpiryTask

\* Orders, periods, quotas and the balance stay in their types, whatever is
\* delivered when and however often.
THEOREM TypesCorrect == Spec => []TypeOK
  BY InitTypes, StepTypes, PTL DEF Spec

-----------------------------------------------------------------------------
(* What the router may rely on *)

\* An event that waits for delivery tells of something that was paid, as does
\* every row; a cancellation, of a subscription that Stripe charges no more.
MailTrue ==
    /\ \A o \in Bundles : Paid(o) \in mail => bundle[o].paid
    /\ \A s \in Subs :
        /\ stripe[s].invoices = 0 => /\ Checkout(s) \notin mail /\ status[s] = "none"
                                     /\ ~stripe[s].live /\ s \notin expiring
        /\ Deleted(s) \in mail => stripe[s].invoices # 0 /\ ~stripe[s].live

\* Only what was activated last is ACTIVE, and an expiry task that began
\* after the activation has found its end passed.
ActiveIsLatest == \A s \in Subs : status[s] = "ACTIVE" => latest = s

ExpiringEnded ==
    \A s \in Subs \ overtaken : latest = s /\ expiring # {} => End(s) < now

Periods == MailTrue /\ ActiveIsLatest /\ ExpiringEnded /\ PaidPeriodServed

LEMMA EventsDiffer ==
  /\ \A s \in Subs, o \in Bundles : Checkout(s) # Paid(o)
  /\ \A s, x : Checkout(s) = Checkout(x) => s = x
  /\ \A s, x : Deleted(s) = Deleted(x) => s = x
  /\ \A o, x : Paid(o) = Paid(x) => o = x
  /\ \A s, x, n : Checkout(s) # Deleted(x) /\ Checkout(s) # Invoice(x, n)
  /\ \A s, x, n : Paid(s) # Deleted(x) /\ Paid(s) # Invoice(x, n)
  /\ \A s, x, n : Deleted(s) # Invoice(x, n)
  BY BillingAssumption DEF BillingAssumption, Checkout, Paid, Deleted, Invoice

LEMMA InitPeriods == Init => Periods
  BY BillingAssumption
  DEF BillingAssumption, Init, Periods, MailTrue, ActiveIsLatest, ExpiringEnded, PaidPeriodServed

LEMMA ChargePeriods ==
  ASSUME TypeOK, Periods, NEW s \in Subs, Charge(s) \/ CancelAtStripe(s)
  PROVE  Periods'
  <1>0. /\ UNCHANGED <<now, status, stamp, profile, latest, overtaken, expiring, bundle>>
        /\ \A x \in Subs : stripe[x].invoices \in Nat /\ End(x)' = End(x)
    BY DEF Charge, CancelAtStripe, subscriptions, bundles, TypeOK, End
  <1>1. \A x \in Subs \ {s} : stripe'[x] = stripe[x]
    BY DEF Charge, CancelAtStripe, TypeOK
  <1>2. CASE Charge(s)
    <2>1. stripe'[s].invoices # 0 /\ stripe'[s].live
      BY <1>0, <1>2 DEF Charge, TypeOK
    <2>2. stripe[s].live \/ stripe[s].invoices = 0
      BY <1>0, <1>2 DEF Charge
    <2>3. /\ \A x \in Subs : /\ Checkout(x) \in mail' => Checkout(x) \in mail \/ x = s
                             /\ Deleted(x) \in mail' => Deleted(x) \in mail
          /\ \A o \in Bundles : Paid(o) \in mail' => Paid(o) \in mail
      <3>1. mail' \subseteq mail \cup {Invoice(s, stripe[s].invoices + 1), Checkout(s)}
        BY <1>2 DEF Charge
      <3> QED BY <3>1, EventsDiffer
    <2>4. status[s] # "none" => stripe[s].live
      BY <2>2 DEF Periods, MailTrue, Checkout, Deleted, Paid
    <2>5. MailTrue'
      BY <1>0, <1>1, <2>1, <2>2, <2>3 DEF Periods, MailTrue, Checkout, Deleted, Paid
    <2>6. PaidPeriodServed'
      BY <1>0, <1>1, <2>4 DEF Periods, PaidPeriodServed
    <2> QED BY <1>0, <2>5, <2>6 DEF Periods, ActiveIsLatest, ExpiringEnded
  <1>3. CASE CancelAtStripe(s)
    <2>1. ~stripe'[s].live /\ stripe'[s].invoices = stripe[s].invoices /\ stripe[s].live
      BY <1>3 DEF CancelAtStripe, TypeOK
    <2>2. /\ \A x \in Subs : /\ Checkout(x) \in mail' => Checkout(x) \in mail
                             /\ Deleted(x) \in mail' => Deleted(x) \in mail \/ x = s
          /\ \A o \in Bundles : Paid(o) \in mail' => Paid(o) \in mail
      BY <1>3, EventsDiffer DEF CancelAtStripe
    <2>3. MailTrue'
      BY <1>0, <1>1, <2>1, <2>2 DEF Periods, MailTrue, Checkout, Deleted, Paid
    <2>4. PaidPeriodServed'
      BY <1>0, <1>1, <2>1 DEF Periods, PaidPeriodServed
    <2> QED BY <1>0, <2>3, <2>4 DEF Periods, ActiveIsLatest, ExpiringEnded
  <1> QED BY <1>2, <1>3

LEMMA ActivatePeriods ==
  ASSUME TypeOK, Periods, NEW s \in Subs, Activate(s)
  PROVE  Periods'
  <1>1. /\ mail' \subseteq mail /\ Checkout(s) \in mail
        /\ UNCHANGED <<now, stripe, bundle, expiring>>
        /\ latest' = s /\ now \in Nat
    BY Acknowledged DEF Activate, bundles, TypeOK
  <1>2. /\ status'[s] = "ACTIVE"
        /\ \A x \in Subs \ {s} : status'[x] # "ACTIVE" /\ (status'[x] # "none" => status[x] # "none")
    BY DEF Activate, ActiveCancelled, TypeOK
  <1>3. End(s)' = now + 1
    BY DEF Activate, End, TypeOK
  <1>4. profile'.expires = now + 1 /\ (Plan[s] = "Pro" => profile'.unlimited)
    BY DEF Activate, PlanQuota
  <1>5. expiring # {} => s \in overtaken'
    BY DEF Activate
  <1>6. MailTrue'
    BY <1>1, <1>2 DEF Periods, MailTrue, Checkout, Deleted, Paid
  <1> QED BY <1>1, <1>2, <1>3, <1>4, <1>5, <1>6
          DEF Periods, ActiveIsLatest, ExpiringEnded, PaidPeriodServed

LEMMA CancelPeriods ==
  ASSUME TypeOK, Periods, NEW s \in Subs, Cancel(s)
  PROVE  Periods'
  <1>1. /\ mail' \subseteq mail /\ Deleted(s) \in mail
        /\ UNCHANGED <<now, stripe, bundle, expiring, latest, overtaken, profile>>
        /\ \A x \in Subs : End(x)' = End(x)
    BY Acknowledged DEF Cancel, bundles, End
  <1>2. /\ status'[s] = IF status[s] = "none" THEN "none" ELSE "CANCELLED"
        /\ \A x \in Subs \ {s} : status'[x] = status[x]
    BY DEF Cancel, TypeOK
  <1>3. ~stripe[s].live
    BY <1>1 DEF Periods, MailTrue, Checkout, Deleted, Paid
  <1>4. MailTrue'
    BY <1>1, <1>2 DEF Periods, MailTrue, Checkout, Deleted, Paid
  <1>5. PaidPeriodServed'
    BY <1>1, <1>2, <1>3 DEF Periods, PaidPeriodServed
  <1> QED BY <1>1, <1>2, <1>4, <1>5 DEF Periods, ActiveIsLatest, ExpiringEnded

\* What expires has ended, so it is not the period that is being served.
LEMMA ExpiryPeriods ==
  ASSUME TypeOK, Periods, ReadEnded \/ \E s \in Subs : Expire(s)
  PROVE  Periods'
  <1>1. /\ UNCHANGED <<now, stripe, bundle, mail, latest, overtaken>>
        /\ \A x \in Subs : End(x)' = End(x) /\ End(x) \in Nat
        /\ now \in Nat
    BY DEF ReadEnded, Expire, subscriptions, bundles, delivery, End, TypeOK
  <1>2. CASE ReadEnded
    <2>1. /\ expiring' = {x \in Subs : status[x] = "ACTIVE" /\ End(x) < now}
          /\ UNCHANGED <<status, profile>>
      BY <1>2 DEF ReadEnded, subscriptions, Ended
    <2>2. \A s \in Subs : latest = s /\ expiring' # {} => End(s) < now
      BY <2>1 DEF Periods, ActiveIsLatest
    <2> QED BY <1>1, <2>1, <2>2 DEF Periods, MailTrue, ActiveIsLatest, ExpiringEnded, PaidPeriodServed
  <1>3. ASSUME NEW s \in Subs, Expire(s) PROVE Periods'
    <2>1. /\ s \in expiring /\ expiring' \subseteq expiring /\ status'[s] = "EXPIRED"
          /\ \A x \in Subs \ {s} : status'[x] = status[x]
      BY <1>3 DEF Expire, TypeOK
    <2>2. profile'.expires = profile.expires
      BY <1>3 DEF Expire, TypeOK
    <2>3. MailTrue'
      BY <1>1, <2>1 DEF Periods, MailTrue, Checkout, Deleted, Paid
    <2>4. ActiveIsLatest' /\ ExpiringEnded'
      BY <1>1, <2>1 DEF Periods, ActiveIsLatest, ExpiringEnded
    <2>5. \A x \in Subs \ overtaken : latest = x => End(x) < now
      BY <2>1 DEF Periods, ExpiringEnded
    <2>6. PaidPeriodServed'
      BY <1>1, <2>5 DEF PaidPeriodServed
    <2> QED BY <2>3, <2>4, <2>6 DEF Periods
  <1> QED BY <1>2, <1>3

LEMMA BundlePeriods ==
  ASSUME TypeOK, Periods, NEW o \in Bundles,
         PayBundle(o) \/ Webhook(o) \/ ReadOrder(o) \/ SyncOrder(o)
  PROVE  Periods'
  <1>1. /\ UNCHANGED <<now, stripe, status, profile, latest, overtaken, expiring>>
        /\ \A x \in Subs : End(x)' = End(x)
    BY DEF PayBundle, Webhook, ReadOrder, SyncOrder, subscriptions, End
  <1>2. ASSUME Process(o) PROVE \A x \in Bundles : bundle'[x].paid = bundle[x].paid
    <2>1. bundle' = [bundle EXCEPT ![o].status = "SUCCEEDED"] \/ bundle' = bundle
      BY <1>2 DEF Process
    <2> QED BY <2>1 DEF TypeOK
  <1>3. \A x \in Bundles : bundle[x].paid => bundle'[x].paid
    BY <1>2 DEF PayBundle, Webhook, ReadOrder, SyncOrder, TypeOK
  <1>4. mail' \subseteq mail \/ (mail' = mail \cup {Paid(o)} /\ bundle'[o].paid)
    BY Acknowledged DEF PayBundle, Webhook, ReadOrder, SyncOrder, delivery, TypeOK
  <1>5. /\ \A x \in Subs : /\ Checkout(x) \in mail' => Checkout(x) \in mail
                           /\ Deleted(x) \in mail' => Deleted(x) \in mail
        /\ \A x \in Bundles : Paid(x) \in mail' => Paid(x) \in mail \/ bundle'[x].paid
    BY <1>4, EventsDiffer
  <1>6. MailTrue'
    BY <1>1, <1>3, <1>5 DEF Periods, MailTrue, Checkout, Deleted, Paid
  <1> QED BY <1>1, <1>6 DEF Periods, ActiveIsLatest, ExpiringEnded, PaidPeriodServed

LEMMA StepPeriods == TypeOK /\ Periods /\ [Next]_vars => Periods'
  <1> SUFFICES ASSUME TypeOK, Periods, [Next]_vars PROVE Periods'
    OBVIOUS
  <1>1. ASSUME UNCHANGED <<now, stripe, status, stamp, profile, latest, overtaken, expiring, bundle>>,
               mail' \subseteq mail
        PROVE  Periods'
    <2>1. MailTrue'
      BY <1>1 DEF Periods, MailTrue, Checkout, Deleted, Paid
    <2> QED BY <1>1, <2>1 DEF Periods, ActiveIsLatest, ExpiringEnded, PaidPeriodServed, End
  <1>2. ASSUME NEW s \in Subs, CreateOrder(s) \/ OpenSession(s) PROVE Periods'
    BY <1>1, <1>2 DEF CreateOrder, OpenSession, delivery, bundles
  <1>3. ASSUME NEW s \in Subs, NEW n \in 1..MaxInvoices[s], Renew(s, n) PROVE Periods'
    BY <1>1, <1>3, Acknowledged DEF Renew, bundles
  <1>4. CASE UNCHANGED vars
    BY <1>1, <1>4 DEF vars, subscriptions, bundles, delivery
  <1>5. CASE Tick
    <2>1. /\ UNCHANGED <<stripe, mail, status, profile, latest, overtaken, expiring, bundle>>
          /\ now' = now + 1 /\ now \in Nat
          /\ \A x \in Subs : End(x)' = End(x) /\ End(x) \in Nat
      BY <1>5 DEF Tick, subscriptions, bundles, delivery, End, TypeOK
    <2> QED BY <2>1 DEF Periods, MailTrue, ActiveIsLatest, ExpiringEnded, PaidPeriodServed
  <1> QED BY <1>2, <1>3, <1>4, <1>5, ChargePeriods, ActivatePeriods, CancelPeriods, ExpiryPeriods,
             BundlePeriods
          DEF Next, Candidate, Stripe, Delivery, ExpiryTask

\* For any number of subscriptions and deliveries: what was activated last is
\* served to its end, unless an expiry task was running at the activation.
THEOREM PeriodServed == Spec => []PaidPeriodServed
  <1>1. Periods => PaidPeriodServed
    BY DEF Periods
  <1> QED BY <1>1, InitPeriods, TypesCorrect, StepPeriods, PTL DEF Spec

-----------------------------------------------------------------------------
(* Quota *)

\* The quota is that of the latest activation, or less.
Backed ==
    /\ latest = None => profile.expires = 0
    /\ latest # None => /\ profile.expires = End(latest)
                        /\ profile.unlimited => Plan[latest] = "Pro"
                        /\ profile.remaining > 0 => Plan[latest] = "Starter"

LEMMA StepBacked == TypeOK /\ Backed /\ [Next]_vars => Backed'
  <1> SUFFICES ASSUME TypeOK, Backed, [Next]_vars PROVE Backed'
    OBVIOUS
  <1>1. CASE UNCHANGED <<profile, latest, stamp>>
    BY <1>1 DEF Backed, End
  <1>2. ASSUME NEW s \in Subs, Activate(s) PROVE Backed'
    <2>1. /\ latest' = s /\ s # None /\ Plan[s] \in {"Starter", "Pro"}
          /\ profile' = PlanQuota(profile, s, now + 1)
      BY <1>2, BillingAssumption DEF Activate, BillingAssumption
    <2>2. End(s)' = now + 1
      BY <1>2 DEF Activate, End, TypeOK
    <2>3. latest' # None /\ profile'.expires = End(latest)'
      BY <2>1, <2>2 DEF PlanQuota
    <2>4. /\ profile'.unlimited => Plan[s] = "Pro"
          /\ profile'.remaining > 0 => Plan[s] = "Starter"
      <3>1. /\ profile'.unlimited = (Plan[s] = "Pro")
            /\ profile'.remaining = IF Plan[s] = "Pro" THEN -1 ELSE StarterQuota
        BY <2>1 DEF PlanQuota
      <3>2. profile'.unlimited => Plan[s] = "Pro"
        BY <3>1, Zenon
      <3> QED BY <2>1, <3>1, <3>2
    <2> QED BY <2>1, <2>3, <2>4 DEF Backed
  <1>3. ASSUME NEW s \in Subs, Expire(s) PROVE Backed'
    <2>1. /\ profile'.expires = profile.expires /\ ~profile'.unlimited /\ profile'.remaining = 0
          /\ UNCHANGED <<latest, stamp>>
      BY <1>3 DEF Expire, TypeOK
    <2> QED BY <2>1 DEF Backed, End
  <1>4. CASE UNCHANGED vars \/ Tick \/ ReadEnded \/ Stripe \/ Candidate
    BY <1>1, <1>4 DEF vars, subscriptions, Tick, ReadEnded, Stripe, Charge, CancelAtStripe, Candidate,
                      CreateOrder, OpenSession, PayBundle, ReadOrder, SyncOrder
  <1>5. CASE \/ \E s \in Subs : Cancel(s) \/ \E n \in 1..MaxInvoices[s] : Renew(s, n)
             \/ \E o \in Bundles : Webhook(o)
    BY <1>1, <1>5 DEF Cancel, Renew, Webhook, subscriptions
  <1> QED BY <1>2, <1>3, <1>4, <1>5 DEF Next, Delivery, ExpiryTask

\* A quota that can be used belongs to the subscription activated last, for
\* any order of activations, cancellations and expiries.
THEOREM QuotaCorrect == Spec => []QuotaBacked
  <1>1. Init => Backed
    BY DEF Init, Backed
  <1>2. TypeOK /\ Backed => QuotaBacked
    BY DEF TypeOK, Backed, QuotaBacked, Valid
  <1> QED BY <1>1, <1>2, TypesCorrect, StepBacked, PTL DEF Spec

-----------------------------------------------------------------------------
(* Tokens *)

Sold == {o \in Bundles : bundle[o].status = "SUCCEEDED"}

\* But for the tokens spent since.
Explained(spent) ==
    /\ IsFiniteSet(granted)
    /\ balance + spent = Monthly * Cardinality(granted) + Pack * Cardinality(Sold)
    /\ \A o \in Sold : bundle[o].paid

LEMMA Products ==
  ASSUME NEW a \in Nat, NEW k \in Nat
  PROVE  a * (k + 1) = a * k + a /\ a * k \in Nat
  OBVIOUS

LEMMA GrantExplained ==
  ASSUME TypeOK, NEW spent \in Int, Explained(spent), NEW s \in Subs, NEW cycle \in Nat,
         Grant(s, cycle), UNCHANGED bundle
  PROVE  Explained(spent)'
  <1>1. Cardinality(granted) \in Nat /\ Monthly \in Nat
    BY FS_CardinalityType, BillingAssumption DEF Explained, BillingAssumption
  <1>2. /\ IsFiniteSet(granted')
        /\ <<s, cycle>> \in granted => Cardinality(granted') = Cardinality(granted)
        /\ <<s, cycle>> \notin granted => Cardinality(granted') = Cardinality(granted) + 1
    BY FS_AddElement DEF Explained, Grant
  <1>3. Sold' = Sold
    BY DEF Sold
  <1>4. balance' = IF <<s, cycle>> \in granted THEN balance ELSE balance + Monthly
    BY DEF Grant
  <1> DEFINE g == Cardinality(granted)
             rest == Pack * Cardinality(Sold)
  <1>5. rest \in Nat
    <2>1. IsFiniteSet(Sold)
      BY FS_Subset, BillingAssumption DEF Sold, BillingAssumption
    <2> QED BY <2>1, FS_CardinalityType, Products, BillingAssumption DEF BillingAssumption
  <1>6. Monthly * (g + 1) = Monthly * g + Monthly /\ Monthly * g \in Nat
    BY <1>1, Products
  <1>7. balance' + spent = Monthly * Cardinality(granted') + rest
    <2> DEFINE mg == Monthly * g
    <2>1. balance + spent = mg + rest /\ balance \in Nat /\ mg \in Nat /\ Monthly * (g + 1) = mg + Monthly /\ Monthly \in Nat
      BY <1>1, <1>6 DEF Explained, TypeOK
    <2> HIDE DEF mg, rest
    <2>2. CASE <<s, cycle>> \in granted
      <3>1. Monthly * Cardinality(granted') = mg
        BY <1>2, <2>2 DEF mg
      <3> QED BY <1>4, <2>1, <2>2, <3>1
    <2>3. CASE <<s, cycle>> \notin granted
      <3>1. Monthly * Cardinality(granted') = mg + Monthly
        BY <1>2, <2>1, <2>3
      <3> QED BY <1>4, <1>5, <2>1, <2>3, <3>1
    <2> QED BY <2>2, <2>3
  <1> QED BY <1>2, <1>3, <1>7 DEF Explained, Sold

LEMMA ProcessExplained ==
  ASSUME TypeOK, NEW spent \in Int, Explained(spent), NEW o \in Bundles, bundle[o].paid,
         Process(o), UNCHANGED granted
  PROVE  Explained(spent)'
  <1>1. IsFiniteSet(Sold) /\ Pack \in Nat /\ Cardinality(Sold) \in Nat
    BY FS_Subset, FS_CardinalityType, BillingAssumption DEF Sold, BillingAssumption
  <1>2. CASE CanProcess(o)
    <2>1. /\ bundle' = [bundle EXCEPT ![o].status = "SUCCEEDED"]
          /\ balance' = balance + Pack /\ bundle[o].status = "PENDING"
      BY <1>2 DEF Process, CanProcess
    <2>2. /\ Sold' = Sold \cup {o} /\ o \notin Sold
          /\ \A x \in Bundles : bundle'[x].paid = bundle[x].paid
      BY <2>1 DEF Sold, TypeOK
    <2>3. Cardinality(Sold') = Cardinality(Sold) + 1
      BY <1>1, <2>2, FS_AddElement
    <2>4. Pack * Cardinality(Sold') = Pack * Cardinality(Sold) + Pack /\ Pack * Cardinality(Sold) \in Nat
      BY <1>1, <2>3, Products
    <2>5. Monthly * Cardinality(granted) \in Nat
      BY FS_CardinalityType, Products, BillingAssumption DEF Explained, BillingAssumption
    <2>6. balance' + spent = Monthly * Cardinality(granted) + Pack * Cardinality(Sold')
      <3> DEFINE mg == Monthly * Cardinality(granted)
                 ps == Pack * Cardinality(Sold)
      <3>1. /\ balance + spent = mg + ps /\ balance' = balance + Pack /\ mg \in Nat /\ ps \in Nat
            /\ Pack * Cardinality(Sold') = ps + Pack /\ balance \in Nat
        BY <2>1, <2>4, <2>5 DEF Explained, TypeOK
      <3> HIDE DEF mg, ps
      <3>2. balance' + spent = mg + Pack * Cardinality(Sold')
        BY <1>1, <3>1
      <3> QED BY <3>2 DEF mg
    <2>7. \A x \in Sold' : bundle'[x].paid
      BY <2>2 DEF Explained, Sold
    <2> QED BY <2>6, <2>7 DEF Explained
  <1>3. CASE ~CanProcess(o)
    BY <1>3 DEF Process, Explained, Sold
  <1> QED BY <1>2, <1>3

LEMMA StepExplained ==
  ASSUME TypeOK, Periods, NEW spent \in Int, Explained(spent), [Next]_vars
  PROVE  Explained(spent)'
  <1>1. CASE UNCHANGED <<balance, granted, bundle>>
    BY <1>1 DEF Explained, Sold
  <1>2. ASSUME NEW s \in Subs, Activate(s) PROVE Explained(spent)'
    <2>1. stamp[s].nr + 1 \in Nat
      BY DEF TypeOK
    <2> QED BY <1>2, <2>1, GrantExplained DEF Activate, bundles
  <1>3. ASSUME NEW s \in Subs, NEW n \in 1..MaxInvoices[s], Renew(s, n) PROVE Explained(spent)'
    <2>1. stamp[s].nr \in Nat
      BY DEF TypeOK
    <2> QED BY <1>1, <1>3, <2>1, GrantExplained DEF Renew, bundles
  <1>4. ASSUME NEW o \in Bundles, PayBundle(o) PROVE Explained(spent)'
    <2>1. \A x \in Bundles : bundle'[x].status = bundle[x].status /\ (bundle[x].paid => bundle'[x].paid)
      BY <1>4 DEF PayBundle, TypeOK
    <2>2. Sold' = Sold /\ UNCHANGED <<balance, granted>>
      BY <1>4, <2>1 DEF PayBundle, Sold, subscriptions
    <2>3. \A x \in Sold' : bundle'[x].paid
      BY <2>1, <2>2 DEF Explained, Sold
    <2> QED BY <2>2, <2>3 DEF Explained
  <1>5. ASSUME NEW o \in Bundles, Webhook(o) \/ SyncOrder(o) PROVE Explained(spent)'
    <2>1. Process(o) => bundle[o].paid \/ UNCHANGED <<balance, bundle>>
      BY <1>5 DEF Webhook, SyncOrder, PaidAtStripe, Periods, MailTrue
    <2> QED BY <1>1, <1>5, <2>1, ProcessExplained DEF Webhook, SyncOrder, subscriptions
  <1>6. CASE \/ UNCHANGED vars \/ Tick \/ ReadEnded \/ Stripe
             \/ \E s \in Subs : CreateOrder(s) \/ OpenSession(s) \/ Cancel(s) \/ Expire(s)
             \/ \E o \in Bundles : ReadOrder(o)
    BY <1>1, <1>6 DEF vars, Tick, ReadEnded, Stripe, Charge, CancelAtStripe, CreateOrder, OpenSession,
                      Cancel, Expire, ReadOrder, subscriptions, bundles
  <1> QED BY <1>2, <1>3, <1>4, <1>5, <1>6 DEF Next, Candidate, Delivery, ExpiryTask

\* Every grant and every paid bundle is credited once, however often and in
\* whatever order webhooks and success pages process them.
THEOREM TokensCorrect == Spec => []TokensExplained
  <1>1. Init => Explained(0)
    <2> SUFFICES ASSUME Init PROVE Explained(0)
      OBVIOUS
    <2>1. Sold = {} /\ granted = {} /\ balance = 0
      BY DEF Init, Sold
    <2>2. Monthly * 0 = 0 /\ Pack * 0 = 0
      BY BillingAssumption DEF BillingAssumption
    <2> QED BY <2>1, <2>2, FS_EmptySet DEF Explained
  <1>2. TypeOK /\ Explained(0) => TokensExplained
    BY DEF TypeOK, Explained, TokensExplained, Sold
  <1>3. TypeOK /\ Periods /\ Explained(0) /\ [Next]_vars => Explained(0)'
    BY StepExplained
  <1> QED BY <1>1, <1>2, <1>3, InitPeriods, TypesCorrect, StepPeriods, PTL DEF Spec

-----------------------------------------------------------------------------
(* Starting interviews (InterviewStart): types *)

LEMMA StartInitTypes == StartInit => StartTypeOK
  BY InitTypes, StartAssumption DEF StartAssumption, StartInit, StartTypeOK, Periods0

LEMMA BillingLeaves ==
  ASSUME UNCHANGED vars
  PROVE  /\ UNCHANGED <<now, stripe, mail, again, order, status, stamp, recorded, granted, profile,
                        latest, overtaken, expiring, balance, bundle, verifying>>
         /\ Current' = Current /\ Valid' = Valid
  BY DEF vars, delivery, subscriptions, bundles, Current, Valid

\* How a start can be paid; the profile has a positive number to deduct from.
LEMMA PaymentTypes ==
  ASSUME NEW r \in Starts
  PROVE  /\ PaymentOf(r) \in {"none", "UNLIMITED", "SUBSCRIPTION", "FREE_QUOTA", "TOKENS"}
         /\ PaymentOf(r) = "SUBSCRIPTION" => Valid /\ profile.remaining > 0
         /\ PaymentOf(r) = "FREE_QUOTA" => free > 0
         /\ PaymentOf(r) = "TOKENS" => balance >= Cost[r]
  BY DEF PaymentOf

LEMMA DeductedTypes ==
  ASSUME TypeOK, NEW by, by = "SUBSCRIPTION" => profile.remaining > 0
  PROVE  /\ Deducted(by) \in Profiles
         /\ Deducted(by).expires = profile.expires /\ Deducted(by).unlimited = profile.unlimited
         /\ Deducted(by).remaining = IF by = "SUBSCRIPTION" THEN profile.remaining - 1
                                     ELSE profile.remaining
  <1>1. profile \in Profiles
    BY DEF TypeOK, Profiles
  <1>2. CASE by = "SUBSCRIPTION"
    <2> DEFINE p == [profile EXCEPT !.remaining = @ - 1]
    <2>1. Deducted(by) = p
      BY <1>2 DEF Deducted
    <2>2. profile.remaining - 1 \in -1..StarterQuota
      BY <1>1, <1>2, BillingAssumption DEF BillingAssumption, Profiles
    <2>3. /\ p \in Profiles /\ p.remaining = profile.remaining - 1
          /\ p.expires = profile.expires /\ p.unlimited = profile.unlimited
      BY <1>1, <2>2 DEF Profiles
    <2> QED BY <1>2, <2>1, <2>3
  <1>3. CASE by # "SUBSCRIPTION"
    BY <1>1, <1>3 DEF Deducted
  <1> QED BY <1>2, <1>3

LEMMA CurrentTypes == TypeOK => Current \in Periods0
  BY BillingAssumption DEF BillingAssumption, TypeOK, Current, Periods0

LEMMA ConsumeTypes ==
  ASSUME StartTypeOK, NEW r \in Starts, Consume(r)
  PROVE  StartTypeOK'
  <1> DEFINE by == PaymentOf(r)
  <1>1. /\ UNCHANGED <<now, stripe, mail, again, order, status, stamp, recorded, granted, latest,
                       overtaken, expiring, bundle, verifying>>
        /\ UNCHANGED <<interview, others, joining, lone, serving>>
    BY DEF Consume, delivery, bundles
  <1>2. profile' \in Profiles
    BY DeductedTypes, PaymentTypes DEF Consume, StartTypeOK
  <1>3. balance' \in Nat /\ free' \in Nat
    <2>1. Cost[r] \in Nat /\ balance \in Nat /\ free \in Nat
      BY StartAssumption DEF StartAssumption, StartTypeOK, TypeOK
    <2>2. /\ balance' = IF by = "TOKENS" THEN balance - Cost[r] ELSE balance
          /\ free' = IF by = "FREE_QUOTA" THEN free - 1 ELSE free
      BY DEF Consume
    <2> QED BY <2>1, <2>2, PaymentTypes
  <1>4. TypeOK'
    BY <1>1, <1>2, <1>3 DEF StartTypeOK, TypeOK, Profiles
  <1>5. start' \in [Starts -> {"new", "checked", "created", "charged", "rejected", "cancelling",
                               "answered", "refused", "broken"}]
    BY DEF Consume, Put, StartTypeOK
  <1>6. payment' \in [Starts -> {"none", "UNLIMITED", "SUBSCRIPTION", "FREE_QUOTA", "TOKENS"}]
    BY PaymentTypes DEF Consume, StartTypeOK
  <1>7. period' \in [Starts -> Periods0]
    BY CurrentTypes DEF Consume, StartTypeOK
  <1> QED BY <1>1, <1>3, <1>4, <1>5, <1>6, <1>7 DEF StartTypeOK

LEMMA StartStepTypes == StartTypeOK /\ [StartNext]_startVars => StartTypeOK'
  <1> SUFFICES ASSUME StartTypeOK, [StartNext]_startVars PROVE StartTypeOK'
    OBVIOUS
  <1>1. CASE [Next]_vars /\ UNCHANGED starting
    <2>1. TypeOK'
      BY <1>1, StepTypes DEF StartTypeOK
    <2> QED BY <1>1, <2>1 DEF StartTypeOK, starting, progress, charges
  <1>2. ASSUME UNCHANGED vars PROVE TypeOK'
    BY <1>2, StepTypes DEF StartTypeOK
  <1>3. ASSUME NEW r \in Starts, UNCHANGED <<vars, charges>>,
               \/ CheckEligibility(r) \/ CreateSession(r) \/ DropSession(r)
               \/ ReadOthers(r) \/ AnswerStart(r) \/ Break(r)
               \/ \E s \in Starts : CancelOther(r, s)
        PROVE  StartTypeOK'
    <2>1. start' \in [Starts -> {"new", "checked", "created", "charged", "rejected", "cancelling",
                                 "answered", "refused", "broken"}]
      BY <1>3 DEF CheckEligibility, CreateSession, DropSession, ReadOthers, AnswerStart, Break,
                  CancelOther, Put, StartTypeOK
    <2>2. interview' \in [Starts -> {"none", "READY", "LIVE", "over", "CANCELLED"}]
      BY <1>3 DEF CheckEligibility, CreateSession, DropSession, RemoveSession, ReadOthers,
                  AnswerStart, Break, CancelOther, Became, StartTypeOK
    <2>3. others' \in [Starts -> SUBSET Starts]
      BY <1>3 DEF CheckEligibility, CreateSession, DropSession, ReadOthers, OtherActive,
                  ActiveSessions, AnswerStart, Break, CancelOther, StartTypeOK
    <2>4. joining' \subseteq Starts /\ {lone', serving'} \subseteq Starts \cup {None}
      BY <1>3 DEF CheckEligibility, CreateSession, DropSession, ReadOthers, AnswerStart, Break,
                  CancelOther, StartTypeOK
    <2> QED BY <1>2, <1>3, <2>1, <2>2, <2>3, <2>4 DEF StartTypeOK, charges
  <1>4. ASSUME NEW s \in Starts, SessionStep(s) PROVE StartTypeOK'
    <2>1. UNCHANGED <<vars, charges, start, others>>
      BY <1>4 DEF SessionStep, ReadJoin, CommitJoin, EndInterview, progress
    <2>2. interview' \in [Starts -> {"none", "READY", "LIVE", "over", "CANCELLED"}]
      BY <1>4 DEF SessionStep, ReadJoin, CommitJoin, EndInterview, progress, Became, StartTypeOK
    <2>3. joining' \subseteq Starts /\ {lone', serving'} \subseteq Starts \cup {None}
      BY <1>4 DEF SessionStep, ReadJoin, CommitJoin, EndInterview, StartTypeOK
    <2> QED BY <1>2, <2>1, <2>2, <2>3 DEF StartTypeOK, charges
  <1>5. CASE UNCHANGED startVars
    BY <1>1, <1>5 DEF startVars
  <1>6. ASSUME NEW r \in Starts, StartStep(r), ~Consume(r) PROVE UNCHANGED <<vars, charges>>
    BY <1>6 DEF StartStep, CheckEligibility, CreateSession, DropSession, ReadOthers, AnswerStart,
                Break, CancelOther
  <1> QED BY <1>1, <1>3, <1>4, <1>5, <1>6, ConsumeTypes DEF StartNext, StartStep

\* Nobody pays with tokens, free interviews or a quota that are not there,
\* whatever expires or is bought while starts are at work.
THEOREM StartTypesCorrect == StartSpec => []StartTypeOK
  BY StartInitTypes, StartStepTypes, PTL DEF StartSpec

-----------------------------------------------------------------------------
(* What was paid for is served although interviews use it *)

\* What a start does to the quota leaves its period alone.
LEMMA ConsumeKeepsPeriod ==
  ASSUME StartTypeOK, NEW r \in Starts, Consume(r)
  PROVE  /\ UNCHANGED <<now, stripe, mail, order, status, stamp, granted, latest, overtaken,
                        expiring, bundle>>
         /\ \A s \in Subs : End(s)' = End(s)
         /\ profile'.expires = profile.expires /\ profile'.unlimited = profile.unlimited
         /\ profile'.remaining = IF PaymentOf(r) = "SUBSCRIPTION" THEN profile.remaining - 1
                                 ELSE profile.remaining
  <1>1. UNCHANGED <<now, stripe, mail, order, status, stamp, granted, latest, overtaken, expiring,
                    bundle>>
    BY DEF Consume, delivery, bundles
  <1>2. profile' = Deducted(PaymentOf(r))
    BY DEF Consume
  <1>3. TypeOK /\ (PaymentOf(r) = "SUBSCRIPTION" => profile.remaining > 0)
    BY PaymentTypes DEF StartTypeOK
  <1> QED BY <1>1, <1>2, <1>3, DeductedTypes DEF End

LEMMA StartStepPeriods ==
  StartTypeOK /\ Periods /\ Backed /\ [StartNext]_startVars => Periods' /\ Backed'
  <1> SUFFICES ASSUME StartTypeOK, Periods, Backed, [StartNext]_startVars PROVE Periods' /\ Backed'
    OBVIOUS
  <1>1. CASE [Next]_vars
    BY <1>1, StepPeriods, StepBacked DEF StartTypeOK
  <1>2. ASSUME NEW r \in Starts, Consume(r) PROVE Periods' /\ Backed'
    <2>1. MailTrue'
      BY <1>2, ConsumeKeepsPeriod DEF Periods, MailTrue, Checkout, Deleted, Paid
    <2>2. ActiveIsLatest' /\ ExpiringEnded' /\ PaidPeriodServed'
      BY <1>2, ConsumeKeepsPeriod DEF Periods, ActiveIsLatest, ExpiringEnded, PaidPeriodServed
    <2>3. profile'.remaining > 0 => profile.remaining > 0
      BY <1>2, ConsumeKeepsPeriod DEF StartTypeOK, TypeOK
    <2>4. Backed'
      <3>1. /\ latest' = latest /\ profile'.expires = profile.expires
            /\ profile'.unlimited = profile.unlimited
            /\ latest # None => latest \in Subs /\ End(latest)' = End(latest)
        BY <1>2, ConsumeKeepsPeriod DEF StartTypeOK, TypeOK, End
      <3> QED BY <2>3, <3>1 DEF Backed, End
    <2> QED BY <2>1, <2>2, <2>4 DEF Periods
  <1>3. ASSUME NEW r \in Starts, StartStep(r) \/ SessionStep(r), ~Consume(r) PROVE UNCHANGED vars
    BY <1>3 DEF StartStep, SessionStep, CheckEligibility, CreateSession, DropSession, ReadOthers,
                AnswerStart, Break, CancelOther, ReadJoin, CommitJoin, EndInterview
  <1> QED BY <1>1, <1>2, <1>3 DEF StartNext, startVars

\* The period that was paid for is served, and quota that can be used is its
\* own, while interviews are started from it.
THEOREM UsedPeriodServed == StartSpec => [](PaidPeriodServed /\ QuotaBacked)
  <1>1. StartInit => Periods /\ Backed
    BY InitPeriods DEF StartInit, Init, Backed
  <1>2. StartTypeOK /\ Periods /\ Backed => PaidPeriodServed /\ QuotaBacked
    BY DEF StartTypeOK, TypeOK, Periods, Backed, QuotaBacked, Valid
  <1> QED BY <1>1, <1>2, StartTypesCorrect, StartStepPeriods, PTL DEF StartSpec

-----------------------------------------------------------------------------
(* Every interview is counted once *)

Spent == SumFunctionOnSet(Price, Starts)

\* A start is charged once, after its session was created.
Uncharged ==
    \A r \in Starts : start[r] \in {"new", "checked", "created"} => payment[r] = "none"

FreeCounted == free + Cardinality(PaidBy("FREE_QUOTA")) = Free

\* Of every period at most the quota is used, and of the current one what
\* remains is the rest.
PeriodsCounted ==
    /\ \A r \in PaidBy("SUBSCRIPTION") :
        /\ period[r].sub \in Subs /\ period[r].nr <= stamp[period[r].sub].nr
        /\ Cardinality(UsedIn(period[r])) <= StarterQuota
    /\ profile.remaining > 0 =>
        profile.remaining + Cardinality(UsedIn(Current)) = StarterQuota

Counted == Uncharged /\ FreeCounted /\ Explained(Spent) /\ PeriodsCounted

LEMMA PaidFinite ==
  ASSUME NEW by, NEW p
  PROVE  /\ IsFiniteSet(PaidBy(by)) /\ IsFiniteSet(UsedIn(p))
         /\ Cardinality(PaidBy(by)) \in Nat /\ Cardinality(UsedIn(p)) \in Nat
  <1>1. PaidBy(by) \subseteq Starts /\ UsedIn(p) \subseteq Starts
    BY DEF PaidBy, UsedIn
  <1> QED BY <1>1, FS_Subset, FS_CardinalityType, StartAssumption DEF StartAssumption

LEMMA PriceTypes ==
  /\ Spent \in Int
  /\ Price = [r \in Starts |-> IF payment[r] = "TOKENS" THEN Cost[r] ELSE 0]
  /\ \A r \in Starts : Price[r] \in Nat
  <1>1. Price = [r \in Starts |-> IF payment[r] = "TOKENS" THEN Cost[r] ELSE 0]
    BY DEF Price
  <1>2. \A r \in Starts : Price[r] \in Nat
    BY <1>1, StartAssumption DEF StartAssumption
  <1>3. IsFiniteSet(Starts) /\ \A r \in Starts : Price[r] \in Int
    BY <1>2, StartAssumption DEF StartAssumption
  <1>4. Spent \in Int
    BY <1>3, SumRemove DEF Spent
  <1> QED BY <1>1, <1>2, <1>4

LEMMA ConsumePays ==
  ASSUME StartTypeOK, Uncharged, NEW r \in Starts, Consume(r)
  PROVE  /\ payment[r] = "none" /\ payment'[r] = PaymentOf(r)
         /\ \A x \in Starts \ {r} : payment'[x] = payment[x] /\ period'[x] = period[x]
         /\ period'[r] = IF PaymentOf(r) = "SUBSCRIPTION" THEN Current ELSE period[r]
         /\ \A by : by # "none" =>
                /\ r \notin PaidBy(by)
                /\ PaidBy(by)' = IF by = PaymentOf(r) THEN PaidBy(by) \cup {r} ELSE PaidBy(by)
  <1>1. payment[r] = "none"
    BY DEF Consume, Uncharged
  <1>2. /\ payment' = [payment EXCEPT ![r] = PaymentOf(r)]
        /\ period' = IF PaymentOf(r) = "SUBSCRIPTION" THEN [period EXCEPT ![r] = Current] ELSE period
    BY DEF Consume
  <1>3. /\ payment'[r] = PaymentOf(r)
        /\ \A x \in Starts \ {r} : payment'[x] = payment[x]
    BY <1>2 DEF StartTypeOK
  <1>4. /\ \A x \in Starts \ {r} : period'[x] = period[x]
        /\ period'[r] = IF PaymentOf(r) = "SUBSCRIPTION" THEN Current ELSE period[r]
    BY <1>2 DEF StartTypeOK
  <1>5. ASSUME NEW by, by # "none"
        PROVE  /\ r \notin PaidBy(by)
               /\ PaidBy(by)' = IF by = PaymentOf(r) THEN PaidBy(by) \cup {r} ELSE PaidBy(by)
    BY <1>1, <1>3, <1>5 DEF PaidBy
  <1> QED BY <1>1, <1>3, <1>4, <1>5

LEMMA ConsumeFree ==
  ASSUME StartTypeOK, Uncharged, FreeCounted, NEW r \in Starts, Consume(r)
  PROVE  FreeCounted'
  <1> DEFINE F == PaidBy("FREE_QUOTA")
  <1>1. /\ r \notin F
        /\ F' = IF "FREE_QUOTA" = PaymentOf(r) THEN F \cup {r} ELSE F
    BY ConsumePays
  <1>2. free' = IF PaymentOf(r) = "FREE_QUOTA" THEN free - 1 ELSE free
    BY DEF Consume
  <1>3. IsFiniteSet(F) /\ Cardinality(F) \in Nat /\ free \in Nat /\ free + Cardinality(F) = Free
    BY PaidFinite DEF StartTypeOK, FreeCounted
  <1>4. Cardinality(F \cup {r}) = Cardinality(F) + 1
    BY <1>1, <1>3, FS_AddElement
  <1>5. free' + Cardinality(F') = Free
    <2> HIDE DEF F
    <2> QED BY <1>1, <1>2, <1>3, <1>4
  <1> QED BY <1>5 DEF FreeCounted

LEMMA ConsumeTokens ==
  ASSUME StartTypeOK, Uncharged, Explained(Spent), NEW r \in Starts, Consume(r)
  PROVE  Explained(Spent)'
  <1>1. /\ Price = [x \in Starts |-> IF payment[x] = "TOKENS" THEN Cost[x] ELSE 0]
        /\ Price' = [x \in Starts |-> IF payment'[x] = "TOKENS" THEN Cost[x] ELSE 0]
    BY DEF Price
  <1>2. /\ Price[r] = 0
        /\ Price'[r] = IF PaymentOf(r) = "TOKENS" THEN Cost[r] ELSE 0
        /\ \A x \in Starts \ {r} : Price'[x] = Price[x]
    BY <1>1, ConsumePays
  <1>3. \A x \in Starts : Price[x] \in Int /\ Price'[x] \in Int
    BY <1>1, StartAssumption DEF StartAssumption
  <1>4. Spent' = Spent + Price'[r] - Price[r]
    <2>1. IsFiniteSet(Starts)
      BY StartAssumption DEF StartAssumption
    <2> DEFINE f == Price
               g == Price'
    <2>2. /\ \A x \in Starts : f[x] \in Int /\ g[x] \in Int
          /\ \A x \in Starts \ {r} : g[x] = f[x]
      BY <1>2, <1>3
    <2> HIDE DEF f, g
    <2>3. SumFunctionOnSet(g, Starts) = SumFunctionOnSet(f, Starts) + g[r] - f[r]
      BY <2>1, <2>2, SumUpdate
    <2> QED BY <2>3 DEF f, g, Spent
  <1>5. balance' + Spent' = balance + Spent
    <2>1. balance' = IF PaymentOf(r) = "TOKENS" THEN balance - Cost[r] ELSE balance
      BY DEF Consume
    <2>2. balance \in Nat /\ Spent \in Int /\ Cost[r] \in Nat
      BY PriceTypes, StartAssumption DEF StartTypeOK, TypeOK, StartAssumption
    <2> QED BY <1>2, <1>4, <2>1, <2>2
  <1>6. granted' = granted /\ bundle' = bundle
    BY DEF Consume, bundles
  <1> QED BY <1>5, <1>6 DEF Explained, Sold

LEMMA ConsumePeriods ==
  ASSUME StartTypeOK, Backed, Uncharged, PeriodsCounted, NEW r \in Starts, Consume(r)
  PROVE  PeriodsCounted'
  <1> DEFINE S == PaidBy("SUBSCRIPTION")
  <1>1. /\ UNCHANGED <<stamp, latest>> /\ Current' = Current
        /\ profile'.remaining = IF PaymentOf(r) = "SUBSCRIPTION" THEN profile.remaining - 1
                                ELSE profile.remaining
    BY ConsumeKeepsPeriod DEF Current
  <1>2. CASE PaymentOf(r) # "SUBSCRIPTION"
    <2>1. S' = S /\ r \notin S
      BY <1>2, ConsumePays
    <2>2. \A x \in S : period'[x] = period[x]
      BY <2>1, ConsumePays DEF PaidBy
    <2>3. \A p : UsedIn(p)' = UsedIn(p)
      BY <2>1, <2>2 DEF UsedIn
    <2> QED BY <1>1, <1>2, <2>1, <2>2, <2>3 DEF PeriodsCounted
  <1>3. CASE PaymentOf(r) = "SUBSCRIPTION"
    <2>1. /\ S' = S \cup {r} /\ r \notin S /\ period'[r] = Current
          /\ \A x \in S : period'[x] = period[x]
      BY <1>3, ConsumePays DEF PaidBy
    <2>2. latest \in Subs /\ profile.remaining > 0 /\ profile.remaining \in Int
      BY <1>3, PaymentTypes DEF Valid, Backed, StartTypeOK, TypeOK
    <2>3. Current.sub = latest /\ Current.nr = stamp[latest].nr /\ stamp[latest].nr \in Nat
      BY <2>2, BillingAssumption DEF BillingAssumption, Current, StartTypeOK, TypeOK
    <2>4. UsedIn(Current)' = UsedIn(Current) \cup {r} /\ r \notin UsedIn(Current)
      BY <1>1, <2>1 DEF UsedIn
    <2>5. \A p : p # Current => UsedIn(p)' = UsedIn(p)
      BY <2>1 DEF UsedIn
    <2>6. Cardinality(UsedIn(Current)') = Cardinality(UsedIn(Current)) + 1
      BY <2>4, PaidFinite, FS_AddElement
    <2>7. /\ profile'.remaining + Cardinality(UsedIn(Current)') = StarterQuota
          /\ profile'.remaining >= 0
      <3>1. profile.remaining + Cardinality(UsedIn(Current)) = StarterQuota
        BY <2>2 DEF PeriodsCounted
      <3>2. Cardinality(UsedIn(Current)) \in Nat /\ profile'.remaining = profile.remaining - 1
        BY <1>1, <1>3, PaidFinite
      <3> DEFINE c == Cardinality(UsedIn(Current))
                 d == Cardinality(UsedIn(Current)')
      <3> HIDE DEF c, d
      <3>3. profile.remaining + c = StarterQuota /\ c \in Nat /\ d = c + 1
        BY <2>6, <3>1, <3>2 DEF c, d
      <3>4. profile'.remaining + d = StarterQuota /\ profile'.remaining >= 0
        BY <2>2, <3>2, <3>3
      <3> QED BY <3>4 DEF d
    <2>8. Cardinality(UsedIn(Current)') <= StarterQuota
      <3>1. Cardinality(UsedIn(Current)') \in Nat
        BY <2>6, PaidFinite
      <3>2. profile'.remaining \in Int /\ StarterQuota \in Nat
        BY <1>1, <1>3, <2>2, BillingAssumption DEF BillingAssumption
      <3> QED BY <2>7, <3>1, <3>2
    <2>9. ASSUME NEW x \in S'
          PROVE  /\ period'[x].sub \in Subs /\ period'[x].nr <= stamp'[period'[x].sub].nr
                 /\ Cardinality(UsedIn(period[x])') <= StarterQuota
      <3>1. CASE period'[x] = Current
        <4>1. UsedIn(period[x])' = UsedIn(Current)'
          BY <1>1, <3>1 DEF UsedIn
        <4> QED BY <1>1, <2>2, <2>3, <2>8, <3>1, <4>1
      <3>2. CASE period'[x] # Current
        <4>1. x \in S /\ period'[x] = period[x]
          BY <2>1, <3>2
        <4>2. UsedIn(period[x])' = UsedIn(period[x])
          <5>1. UsedIn(period[x])' = {y \in S' : period'[y] = period'[x]}
            BY DEF UsedIn
          <5>2. {y \in S' : period'[y] = period'[x]} = {y \in S : period[y] = period[x]}
            BY <2>1, <3>2, <4>1
          <5> QED BY <5>1, <5>2 DEF UsedIn
        <4> QED BY <1>1, <4>1, <4>2 DEF PeriodsCounted
      <3> QED BY <3>1, <3>2
    <2> QED BY <2>7, <2>9 DEF PeriodsCounted
  <1> QED BY <1>2, <1>3

\* A new activation opens a period nobody has used.
LEMMA ActivateCounted ==
  ASSUME StartTypeOK, UNCHANGED charges, PeriodsCounted, NEW s \in Subs, Activate(s)
  PROVE  PeriodsCounted'
  <1>1. /\ stamp'[s].nr = stamp[s].nr + 1 /\ stamp[s].nr \in Nat
        /\ \A x \in Subs \ {s} : stamp'[x] = stamp[x]
        /\ latest' = s /\ s # None
    BY BillingAssumption DEF BillingAssumption, Activate, StartTypeOK, TypeOK
  <1>2. PaidBy("SUBSCRIPTION")' = PaidBy("SUBSCRIPTION") /\ period' = period
    BY DEF charges, PaidBy
  <1>3. \A p : UsedIn(p)' = {x \in PaidBy("SUBSCRIPTION") : period[x] = p'}
    BY <1>2 DEF UsedIn
  <1>4. ASSUME NEW r \in PaidBy("SUBSCRIPTION")
        PROVE  /\ period'[r].sub \in Subs /\ period'[r].nr <= stamp'[period'[r].sub].nr
               /\ Cardinality(UsedIn(period[r])') <= StarterQuota
               /\ period[r] # Current'
    <2>1. period[r].sub \in Subs /\ period[r].nr <= stamp[period[r].sub].nr
      BY DEF PeriodsCounted
    <2>2. Current'.sub = s /\ Current'.nr = stamp[s].nr + 1
      BY <1>1 DEF Current
    <2>3. UsedIn(period[r])' = UsedIn(period[r])
      BY <1>2 DEF UsedIn
    <2>4. period[r] # Current'
      <3> SUFFICES ASSUME period[r] = Current' PROVE FALSE
        OBVIOUS
      <3>1. stamp[s].nr + 1 <= stamp[s].nr
        BY <2>1, <2>2
      <3> QED BY <1>1, <3>1
    <2>5. period[r].nr \in Nat
      BY DEF StartTypeOK, PaidBy, Periods0
    <2>6. stamp[period[r].sub].nr <= stamp'[period[r].sub].nr /\ stamp[period[r].sub].nr \in Nat
          /\ stamp'[period[r].sub].nr \in Nat
      <3>1. CASE period[r].sub = s
        BY <1>1, <3>1
      <3>2. CASE period[r].sub # s
        BY <1>1, <2>1, <3>2 DEF StartTypeOK, TypeOK
      <3> QED BY <3>1, <3>2
    <2>7. period'[r].sub \in Subs /\ period'[r].nr <= stamp'[period'[r].sub].nr
      BY <1>2, <2>1, <2>5, <2>6
    <2>8. Cardinality(UsedIn(period[r])') <= StarterQuota
      BY <2>3 DEF PeriodsCounted
    <2> QED BY <2>4, <2>7, <2>8
  <1>5. UsedIn(Current)' = {}
    BY <1>3, <1>4
  <1>6. profile'.remaining > 0 => profile'.remaining = StarterQuota
    <2>1. profile'.remaining = IF Plan[s] = "Pro" THEN -1 ELSE StarterQuota
      BY DEF Activate, PlanQuota
    <2> QED BY <2>1
  <1>7. profile'.remaining > 0 => profile'.remaining + Cardinality(UsedIn(Current)') = StarterQuota
    BY <1>5, <1>6, FS_EmptySet, BillingAssumption DEF BillingAssumption
  <1> QED BY <1>2, <1>4, <1>7 DEF PeriodsCounted

LEMMA BillingCounted ==
  ASSUME StartTypeOK, UNCHANGED charges, PeriodsCounted, [Next]_vars
  PROVE  PeriodsCounted'
  <1>1. ASSUME UNCHANGED <<stamp, latest>>, profile' = profile \/ ~(profile'.remaining > 0)
        PROVE  PeriodsCounted'
    <2>1. PaidBy("SUBSCRIPTION")' = PaidBy("SUBSCRIPTION") /\ period' = period /\ Current' = Current
      BY <1>1 DEF charges, PaidBy, Current
    <2>2. UsedIn(Current)' = UsedIn(Current) /\ \A r : UsedIn(period[r])' = UsedIn(period[r])
      BY <2>1 DEF UsedIn
    <2> QED BY <1>1, <2>1, <2>2 DEF PeriodsCounted
  <1>2. ASSUME NEW s \in Subs, Expire(s) PROVE PeriodsCounted'
    <2>1. profile'.remaining = 0 /\ UNCHANGED <<stamp, latest>>
      BY <1>2 DEF Expire, StartTypeOK, TypeOK
    <2> QED BY <1>1, <2>1
  <1>3. CASE UNCHANGED vars \/ Tick \/ ReadEnded \/ Stripe \/ Candidate
    BY <1>1, <1>3 DEF vars, subscriptions, Tick, ReadEnded, Stripe, Charge, CancelAtStripe, Candidate,
                      CreateOrder, OpenSession, PayBundle, ReadOrder, SyncOrder
  <1>4. CASE \/ \E s \in Subs : Cancel(s) \/ \E n \in 1..MaxInvoices[s] : Renew(s, n)
             \/ \E o \in Bundles : Webhook(o)
    BY <1>1, <1>4 DEF Cancel, Renew, Webhook, subscriptions
  <1> QED BY <1>2, <1>3, <1>4, ActivateCounted DEF Next, Delivery, ExpiryTask

LEMMA StepCounted ==
  ASSUME StartTypeOK, Periods, Backed, Counted, [StartNext]_startVars
  PROVE  Counted'
  <1>1. ASSUME UNCHANGED payment PROVE Spent' = Spent /\ Spent \in Int
    <2>1. Price' = Price
      BY <1>1 DEF Price
    <2>2. Spent \in Int
      BY PriceTypes
    <2> QED BY <2>1, <2>2 DEF Spent
  <1>2. ASSUME [Next]_vars, UNCHANGED charges,
               \A r \in Starts : start'[r] \in {"new", "checked", "created"} =>
                                    start[r] \in {"new", "checked", "created"}
        PROVE  Counted'
    <2>1. UNCHANGED <<free, payment>>
      BY <1>2 DEF charges
    <2>2. Uncharged' /\ FreeCounted'
      BY <1>2, <2>1 DEF Counted, Uncharged, FreeCounted, PaidBy
    <2>3. PeriodsCounted'
      BY <1>2, BillingCounted DEF StartTypeOK, Counted
    <2>4. Explained(Spent)'
      <3>1. PICK spent \in Int : spent = Spent
        BY <1>1, <2>1
      <3>2. Explained(spent)
        BY <3>1 DEF Counted, Explained
      <3>3. Explained(spent)'
        BY <1>2, <3>2, StepExplained DEF StartTypeOK
      <3>4. spent = Spent'
        BY <1>1, <2>1, <3>1
      <3> QED BY <3>3, <3>4 DEF Explained
    <2> QED BY <2>2, <2>3, <2>4 DEF Counted
  <1>3. ASSUME NEW r \in Starts, Consume(r) PROVE Counted'
    <2>1. Uncharged'
      <3>1. start' = [start EXCEPT ![r] = IF PaymentOf(r) = "none" THEN "rejected" ELSE "charged"]
        BY <1>3 DEF Consume, Put
      <3> QED BY <1>3, <3>1, ConsumePays DEF Uncharged, StartTypeOK, Counted
    <2> QED BY <1>3, <2>1, ConsumeFree, ConsumeTokens, ConsumePeriods DEF Counted
  <1>4. ASSUME NEW r \in Starts, StartStep(r), ~Consume(r) PROVE Counted'
    <2>1. UNCHANGED <<vars, charges>>
      BY <1>4 DEF StartStep, CheckEligibility, CreateSession, DropSession, ReadOthers, AnswerStart,
                  Break, CancelOther
    <2>2. \A x \in Starts : start'[x] \in {"new", "checked", "created"} =>
                                start[x] \in {"new", "checked", "created"}
      BY <1>4 DEF StartStep, CheckEligibility, CreateSession, DropSession, ReadOthers, AnswerStart,
                  Break, CancelOther, Put, StartTypeOK
    <2> QED BY <1>2, <2>1, <2>2
  <1>5. ASSUME NEW s \in Starts, SessionStep(s) PROVE Counted'
    <2>1. UNCHANGED <<vars, charges, start>>
      BY <1>5 DEF SessionStep, ReadJoin, CommitJoin, EndInterview, progress
    <2> QED BY <1>2, <2>1
  <1>6. CASE [Next]_vars /\ UNCHANGED starting
    BY <1>2, <1>6 DEF starting, progress, charges
  <1> QED BY <1>3, <1>4, <1>5, <1>6 DEF StartNext, startVars

\* For any number of starts that cross each other, the activations and the
\* expiry task: no period pays more interviews than its quota, no free
\* interview is used twice, and tokens are what was bought less what was
\* spent.
THEOREM QuotaIsAccounted == StartSpec => []QuotaAccounted
  <1>1. StartInit => Counted
    <2> SUFFICES ASSUME StartInit PROVE Counted
      OBVIOUS
    <2>1. Uncharged /\ \A by : by # "none" => PaidBy(by) = {}
      BY DEF StartInit, Uncharged, PaidBy
    <2>2. FreeCounted
      BY <2>1, FS_EmptySet, StartAssumption DEF StartAssumption, StartInit, FreeCounted
    <2>3. PeriodsCounted
      BY <2>1 DEF StartInit, Init, PeriodsCounted
    <2>4. Spent = 0
      <3>1. IsFiniteSet(Starts) /\ \A r \in Starts : Price[r] = 0
        BY StartAssumption DEF StartAssumption, StartInit, Price
      <3> QED BY <3>1, SumOfZeros DEF Spent
    <2>5. Explained(Spent)
      <3>1. Sold = {} /\ granted = {} /\ balance = 0
        BY DEF StartInit, Init, Sold
      <3>2. Monthly * 0 = 0 /\ Pack * 0 = 0
        BY BillingAssumption DEF BillingAssumption
      <3> QED BY <2>4, <3>1, <3>2, FS_EmptySet DEF Explained
    <2> QED BY <2>1, <2>2, <2>3, <2>5 DEF Counted
  <1>2. Counted => QuotaAccounted
    <2>1. SumFunction(Price) = Spent
      BY DEF SumFunction, Price, Spent
    <2> QED BY <2>1 DEF Counted, FreeCounted, Explained, Sold, PeriodsCounted, QuotaAccounted
  <1>3. StartInit => Periods /\ Backed
    BY InitPeriods DEF StartInit, Init, Backed
  <1>4. StartTypeOK /\ Periods /\ Backed /\ Counted /\ [StartNext]_startVars => Counted'
    BY StepCounted
  <1> QED BY <1>1, <1>2, <1>3, <1>4, StartTypesCorrect, StartStepPeriods, PTL DEF StartSpec

-----------------------------------------------------------------------------
(* The sessions of the starts *)

\* What is known of a start and its session by where the start is.
StartsTrue ==
    /\ \A r \in Starts :
        /\ start[r] \in {"new", "checked"} => payment[r] = "none" /\ interview[r] = "none"
        /\ start[r] \in {"created", "rejected"} => payment[r] = "none"
        /\ start[r] = "refused" => payment[r] = "none" /\ interview[r] = "none"
        /\ start[r] \in {"charged", "cancelling", "answered"} => payment[r] # "none"
        /\ interview[r] = "LIVE" => payment[r] # "none"
        /\ others[r] # {} => start[r] = "cancelling"
    /\ \A s \in joining : start[s] = "answered"

LEMMA StepStartsTrue ==
  ASSUME StartTypeOK, StartsTrue, [StartNext]_startVars
  PROVE  StartsTrue'
  <1>0. joining \subseteq Starts
    BY DEF StartTypeOK
  <1>1. CASE UNCHANGED starting
    BY <1>1 DEF starting, progress, charges, StartsTrue
  <1>2. ASSUME NEW r \in Starts, NEW at, Put(r, at)
        PROVE  start'[r] = at /\ \A x \in Starts \ {r} : start'[x] = start[x]
    BY <1>2 DEF Put, StartTypeOK
  <1>3. ASSUME NEW s \in Starts, NEW as, Became(s, as)
        PROVE  interview'[s] = as /\ \A x \in Starts \ {s} : interview'[x] = interview[x]
    BY <1>3 DEF Became, StartTypeOK
  <1>4. ASSUME NEW r \in Starts, CheckEligibility(r) PROVE StartsTrue'
    BY <1>0, <1>2, <1>4 DEF CheckEligibility, charges, StartsTrue
  <1>5. ASSUME NEW r \in Starts, CreateSession(r) PROVE StartsTrue'
    BY <1>0, <1>2, <1>3, <1>5 DEF CreateSession, charges, StartsTrue
  <1>6. ASSUME NEW r \in Starts, Consume(r) PROVE StartsTrue'
    <2>1. /\ start[r] = "created" /\ start'[r] \in {"rejected", "charged"}
          /\ start'[r] = "rejected" <=> PaymentOf(r) = "none"
          /\ \A x \in Starts \ {r} : start'[x] = start[x]
      BY <1>2, <1>6 DEF Consume
    <2>2. /\ payment'[r] = PaymentOf(r)
          /\ \A x \in Starts \ {r} : payment'[x] = payment[x]
          /\ UNCHANGED <<interview, others, joining>>
      BY <1>6 DEF Consume, StartTypeOK
    <2>3. interview[r] # "LIVE"
      BY <1>0, <2>1 DEF StartsTrue
    <2> QED BY <1>0, <2>1, <2>2, <2>3 DEF StartsTrue
  <1>7. ASSUME NEW r \in Starts, DropSession(r) PROVE StartsTrue'
    BY <1>0, <1>2, <1>3, <1>7 DEF DropSession, RemoveSession, charges, StartsTrue
  <1>8. ASSUME NEW r \in Starts, ReadOthers(r) PROVE StartsTrue'
    <2>1. \A x \in Starts \ {r} : others'[x] = others[x]
      BY <1>8 DEF ReadOthers, StartTypeOK
    <2> QED BY <1>0, <1>2, <1>8, <2>1 DEF ReadOthers, charges, StartsTrue
  <1>9. ASSUME NEW r \in Starts, NEW s \in Starts, CancelOther(r, s) PROVE StartsTrue'
    <2>1. /\ start[r] = "cancelling" /\ UNCHANGED <<payment, joining>>
          /\ \A x \in Starts \ {r} : others'[x] = others[x]
      BY <1>9 DEF CancelOther, charges, StartsTrue, StartTypeOK
    <2>2. CASE interview[s] = "none"
      <3>1. /\ Put(r, "broken") /\ interview' = interview /\ others'[r] = {}
        BY <1>9, <2>2 DEF CancelOther, StartTypeOK
      <3> QED BY <1>0, <1>2, <2>1, <3>1 DEF StartsTrue
    <2>3. CASE interview[s] # "none"
      <3>1. Became(s, "CANCELLED") /\ start' = start
        BY <1>9, <2>3 DEF CancelOther
      <3>2. start[s] \notin {"new", "checked", "refused"}
        BY <1>0, <2>3 DEF StartsTrue
      <3> QED BY <1>0, <1>3, <2>1, <3>1, <3>2 DEF StartsTrue
    <2> QED BY <2>2, <2>3
  <1>10. ASSUME NEW r \in Starts, AnswerStart(r) PROVE StartsTrue'
    BY <1>0, <1>2, <1>10 DEF AnswerStart, charges, StartsTrue
  <1>11. ASSUME NEW r \in Starts, Break(r) PROVE StartsTrue'
    <2>1. others'[r] = {} /\ \A x \in Starts \ {r} : others'[x] = others[x]
      BY <1>11 DEF Break, StartTypeOK
    <2>2. start[r] # "answered"
      BY <1>11 DEF Break, AtWorkStarts
    <2> QED BY <1>0, <1>2, <1>11, <2>1, <2>2 DEF Break, charges, StartsTrue
  <1>12. ASSUME NEW s \in Starts, SessionStep(s) PROVE StartsTrue'
    <2>1. CASE ReadJoin(s)
      BY <1>0, <2>1 DEF ReadJoin, progress, charges, StartsTrue
    <2>2. CASE CommitJoin(s)
      <3>1. payment[s] # "none" /\ start[s] = "answered"
        BY <1>0, <2>2 DEF CommitJoin, StartsTrue
      <3> QED BY <1>0, <1>3, <2>2, <3>1 DEF CommitJoin, charges, StartsTrue
    <2>3. CASE EndInterview(s)
      BY <1>0, <1>3, <2>3 DEF EndInterview, charges, StartsTrue
    <2> QED BY <1>12, <2>1, <2>2, <2>3 DEF SessionStep
  <1> QED BY <1>1, <1>4, <1>5, <1>6, <1>7, <1>8, <1>9, <1>10, <1>11, <1>12
          DEF StartNext, StartStep, startVars

LEMMA StartInitTrue == StartInit => StartsTrue
  BY DEF StartInit, StartsTrue

\* Every interview that is held was charged, and a refused start left nothing,
\* also when sessions are deleted while another start cancels them.
THEOREM NothingIsFree == StartSpec => []NothingForFree
  <1>1. StartsTrue => NothingForFree
    BY DEF StartsTrue, NothingForFree
  <1>2. StartTypeOK /\ StartsTrue /\ [StartNext]_startVars => StartsTrue'
    BY StepStartsTrue
  <1> QED BY <1>1, <1>2, StartInitTrue, StartTypesCorrect, PTL DEF StartSpec

\* A start that has met nobody is alone at work; until it reads the others,
\* they are the session that was served, and then it has them all.
LoneStart ==
    /\ lone # None => AtWorkStarts = {lone} /\ joining = {} /\ interview[lone] = "READY"
    /\ lone # None /\ start[lone] = "cancelling" =>
        /\ ActiveSessions \subseteq {lone} \cup others[lone]
        /\ lone \notin others[lone]
        /\ \A s \in others[lone] : interview[s] # "none"

\* What was served is on its own, but for the start that is about to
\* replace it.
Served ==
    serving # None =>
        /\ start[serving] = "answered"
        /\ AtWorkStarts # {} => lone # None
        /\ joining \subseteq {serving}
        /\ \/ lone # None /\ start[lone] = "cancelling"
           \/ /\ ActiveSessions \subseteq {serving} \cup AtWorkStarts
              /\ interview[serving] # "CANCELLED"

Latest == LoneStart /\ Served

LEMMA StepLatest ==
  ASSUME StartTypeOK, StartsTrue, Latest, [StartNext]_startVars
  PROVE  Latest'
  <1>0. None \notin Starts
    BY StartAssumption DEF StartAssumption
  <1>1. CASE UNCHANGED starting
    BY <1>1 DEF starting, progress, charges, Latest, LoneStart, Served, AtWorkStarts, ActiveSessions
  <1>2. ASSUME NEW r \in Starts, NEW at, Put(r, at)
        PROVE  /\ start'[r] = at /\ \A x \in Starts \ {r} : start'[x] = start[x]
               /\ at \in {"created", "charged", "rejected", "cancelling"} =>
                        AtWorkStarts' = AtWorkStarts \cup {r}
               /\ at \notin {"created", "charged", "rejected", "cancelling"} =>
                        AtWorkStarts' = AtWorkStarts \ {r}
    <2>1. start'[r] = at /\ \A x \in Starts \ {r} : start'[x] = start[x]
      BY <1>2 DEF Put, StartTypeOK
    <2> QED BY <2>1 DEF AtWorkStarts
  <1>3. ASSUME NEW s \in Starts, NEW as, Became(s, as)
        PROVE  /\ interview'[s] = as /\ \A x \in Starts \ {s} : interview'[x] = interview[x]
               /\ as \in Active => ActiveSessions' = ActiveSessions \cup {s}
               /\ as \notin Active => ActiveSessions' = ActiveSessions \ {s}
    <2>1. interview'[s] = as /\ \A x \in Starts \ {s} : interview'[x] = interview[x]
      BY <1>3 DEF Became, StartTypeOK
    <2> QED BY <2>1 DEF ActiveSessions, Active
  <1>4. ASSUME UNCHANGED interview PROVE ActiveSessions' = ActiveSessions
    BY <1>4 DEF ActiveSessions
  <1>5. ASSUME NEW r \in Starts, CheckEligibility(r) PROVE Latest'
    <2>1. /\ AtWorkStarts' = AtWorkStarts
          /\ UNCHANGED <<interview, others, joining, lone, serving>>
          /\ \A x \in Starts : (start'[x] = "cancelling" <=> start[x] = "cancelling") /\
                               (start[x] = "answered" => start'[x] = "answered")
      <3>1. /\ start[r] = "new" /\ start'[r] \in {"refused", "checked"}
            /\ \A x \in Starts \ {r} : start'[x] = start[x]
            /\ UNCHANGED <<interview, others, joining, lone, serving>>
        BY <1>2, <1>5 DEF CheckEligibility
      <3> QED BY <3>1 DEF AtWorkStarts
    <2>2. lone # None => lone \in Starts
      BY DEF StartTypeOK
    <2>3. serving # None => serving \in Starts
      BY DEF StartTypeOK
    <2> QED BY <1>4, <2>1, <2>2, <2>3 DEF Latest, LoneStart, Served
  <1>6. ASSUME NEW r \in Starts, CreateSession(r) PROVE Latest'
    <2>1. /\ start[r] = "checked" /\ start'[r] = "created" /\ AtWorkStarts' = AtWorkStarts \cup {r}
          /\ \A x \in Starts \ {r} : start'[x] = start[x] /\ interview'[x] = interview[x]
          /\ interview'[r] = "READY" /\ ActiveSessions' = ActiveSessions \cup {r}
          /\ UNCHANGED <<others, joining>>
      BY <1>2, <1>3, <1>6 DEF CreateSession, Active
    <2>2. CASE AtWorkStarts = {} /\ joining = {}
      <3>1. lone' = r /\ serving' = serving
        BY <1>6, <2>2 DEF CreateSession
      <3>2. LoneStart'
        BY <2>1, <2>2, <3>1 DEF LoneStart
      <3>3. lone = None
        BY <2>2 DEF Latest, LoneStart
      <3>4. serving # None => serving \in Starts \ {r}
        BY <2>1 DEF Latest, Served, StartTypeOK
      <3>5. Served'
        BY <2>1, <2>2, <3>1, <3>3, <3>4, <1>0 DEF Latest, Served
      <3> QED BY <3>2, <3>5 DEF Latest
    <2>3. CASE ~(AtWorkStarts = {} /\ joining = {})
      <3>1. lone' = None /\ serving' = None
        BY <1>6, <2>3 DEF CreateSession
      <3> QED BY <3>1 DEF Latest, LoneStart, Served
    <2> QED BY <2>2, <2>3
  <1>7. ASSUME NEW r \in Starts, Consume(r) PROVE Latest'
    <2>1. /\ start[r] = "created" /\ start'[r] \in {"rejected", "charged"}
          /\ AtWorkStarts' = AtWorkStarts
          /\ \A x \in Starts \ {r} : start'[x] = start[x]
          /\ UNCHANGED <<interview, others, joining, lone, serving>>
      <3>1. r \in AtWorkStarts
        BY <1>7 DEF Consume, AtWorkStarts
      <3> QED BY <1>2, <1>7, <3>1 DEF Consume
    <2>2. (lone # None => lone \in Starts) /\ (serving # None => serving \in Starts)
      BY DEF StartTypeOK
    <2> QED BY <1>4, <2>1, <2>2 DEF Latest, LoneStart, Served
  <1>8. ASSUME NEW r \in Starts, DropSession(r) PROVE Latest'
    <2>1. /\ start[r] = "rejected" /\ AtWorkStarts' = AtWorkStarts \ {r} /\ r \in AtWorkStarts
          /\ \A x \in Starts \ {r} : start'[x] = start[x] /\ interview'[x] = interview[x]
          /\ ActiveSessions' = ActiveSessions \ {r}
          /\ UNCHANGED <<joining, serving>> /\ lone' = None
      <3>1. r \in AtWorkStarts
        BY <1>8 DEF DropSession, AtWorkStarts
      <3> QED BY <1>2, <1>3, <1>8, <3>1 DEF DropSession, RemoveSession, Active
    <2>2. ASSUME serving # None PROVE Served'
      <3>1. lone = r /\ AtWorkStarts = {r}
        BY <2>1, <2>2 DEF Latest, Served, LoneStart
      <3>2. serving \in Starts \ {r}
        BY <2>1, <2>2 DEF Latest, Served, StartTypeOK
      <3> QED BY <2>1, <2>2, <3>1, <3>2 DEF Latest, Served
    <2> QED BY <2>1, <2>2 DEF Latest, LoneStart, Served
  <1>9. ASSUME NEW r \in Starts, ReadOthers(r) PROVE Latest'
    <2>1. /\ start[r] = "charged" /\ start'[r] = "cancelling" /\ AtWorkStarts' = AtWorkStarts
          /\ \A x \in Starts \ {r} : start'[x] = start[x] /\ others'[x] = others[x]
          /\ others'[r] = ActiveSessions \ {r}
          /\ UNCHANGED <<interview, joining, lone, serving>> /\ r \in AtWorkStarts
      <3>1. /\ r \in AtWorkStarts /\ start[r] = "charged"
            /\ UNCHANGED <<interview, joining, lone, serving>>
        BY <1>9 DEF ReadOthers, AtWorkStarts
      <3>2. others' = [others EXCEPT ![r] = ActiveSessions \ {r}]
        BY <1>9 DEF ReadOthers, OtherActive
      <3>3. others'[r] = ActiveSessions \ {r} /\ \A x \in Starts \ {r} : others'[x] = others[x]
        BY <3>2 DEF StartTypeOK
      <3>4. /\ start'[r] = "cancelling" /\ \A x \in Starts \ {r} : start'[x] = start[x]
            /\ AtWorkStarts' = AtWorkStarts \cup {r}
        BY <1>2, <1>9 DEF ReadOthers
      <3> QED BY <3>1, <3>3, <3>4
    <2>2. lone # None => lone = r
      BY <2>1 DEF Latest, LoneStart
    <2>3. LoneStart'
      BY <1>4, <2>1, <2>2 DEF Latest, LoneStart, ActiveSessions, Active
    <2>4. Served'
      <3>1. serving # None => lone = r /\ serving \in Starts \ {r}
        BY <2>1, <2>2 DEF Latest, Served, StartTypeOK
      <3> QED BY <2>1, <3>1 DEF Latest, Served
    <2> QED BY <2>3, <2>4 DEF Latest
  <1>10. ASSUME NEW r \in Starts, NEW s \in Starts, CancelOther(r, s) PROVE Latest'
    <2>1. /\ start[r] = "cancelling" /\ r \in AtWorkStarts /\ s \in others[r]
          /\ UNCHANGED <<joining, lone, serving>>
          /\ \A x \in Starts \ {r} : others'[x] = others[x]
      BY <1>10 DEF CancelOther, StartsTrue, AtWorkStarts, StartTypeOK
    <2>2. lone # None => lone = r
      BY <2>1 DEF Latest, LoneStart
    <2>3. serving # None => lone = r /\ serving # r /\ serving \in Starts
      BY <2>1, <2>2 DEF Latest, Served, StartTypeOK
    <2>4. CASE lone = None
      BY <2>1, <2>3, <2>4, <1>0 DEF Latest, LoneStart, Served
    <2>5. CASE lone = r
      <3>1. interview[s] # "none" /\ s # r
        BY <2>1, <2>5, <1>0 DEF Latest, LoneStart
      <3>2. /\ UNCHANGED start /\ Became(s, "CANCELLED")
            /\ others'[r] = others[r] \ {s}
        BY <1>10, <3>1 DEF CancelOther, StartTypeOK
      <3>3. /\ interview'[s] = "CANCELLED" /\ \A x \in Starts \ {s} : interview'[x] = interview[x]
            /\ ActiveSessions' = ActiveSessions \ {s} /\ AtWorkStarts' = AtWorkStarts
        BY <1>3, <3>2 DEF Active, AtWorkStarts
      <3>4. LoneStart'
        <4>1. others[r] \subseteq Starts
          BY DEF StartTypeOK
        <4> QED BY <2>1, <2>5, <3>1, <3>2, <3>3, <4>1, <1>0 DEF Latest, LoneStart
      <3>5. Served'
        BY <2>1, <2>3, <2>5, <3>2, <3>3, <1>0 DEF Latest, Served
      <3> QED BY <3>4, <3>5 DEF Latest
    <2> QED BY <2>2, <2>4, <2>5
  <1>11. ASSUME NEW r \in Starts, AnswerStart(r) PROVE Latest'
    <2>1. /\ start[r] = "cancelling" /\ start'[r] = "answered" /\ AtWorkStarts' = AtWorkStarts \ {r}
          /\ UNCHANGED <<interview, others, joining>> /\ others[r] = {} /\ lone' = None
          /\ serving' = IF lone = r THEN r ELSE None
      BY <1>2, <1>11 DEF AnswerStart
    <2>2. ASSUME lone = r
          PROVE  /\ AtWorkStarts' = {} /\ joining' = {} /\ interview'[r] = "READY"
                 /\ ActiveSessions' \subseteq {r}
      BY <1>0, <1>4, <2>1, <2>2 DEF Latest, LoneStart
    <2> QED BY <2>1, <2>2 DEF Latest, LoneStart, Served
  <1>12. ASSUME NEW r \in Starts, Break(r) PROVE Latest'
    BY <1>12 DEF Break, Latest, LoneStart, Served
  <1>13. ASSUME NEW s \in Starts, ReadJoin(s) PROVE Latest'
    <2>1. /\ UNCHANGED <<start, interview, others>> /\ joining' = joining \cup {s}
          /\ interview[s] = "READY" /\ AtWorkStarts' = AtWorkStarts
          /\ ActiveSessions' = ActiveSessions /\ s \in ActiveSessions /\ s \notin AtWorkStarts
      BY <1>13 DEF ReadJoin, progress, AtWorkStarts, ActiveSessions, Active
    <2>2. CASE AtWorkStarts = {}
      <3>1. UNCHANGED <<lone, serving>> /\ lone = None
        BY <1>13, <2>2 DEF ReadJoin, Latest, LoneStart
      <3> QED BY <2>1, <2>2, <3>1 DEF Latest, LoneStart, Served
    <2>3. CASE AtWorkStarts # {}
      <3>1. lone' = None /\ serving' = None
        BY <1>13, <2>3 DEF ReadJoin
      <3> QED BY <3>1 DEF Latest, LoneStart, Served
    <2> QED BY <2>2, <2>3
  <1>14. ASSUME NEW s \in Starts, CommitJoin(s) PROVE Latest'
    <2>1. /\ s \in joining /\ joining' = joining \ {s} /\ UNCHANGED <<start, others, lone, serving>>
          /\ interview'[s] = "LIVE" /\ ActiveSessions' = ActiveSessions \cup {s}
          /\ \A x \in Starts \ {s} : interview'[x] = interview[x]
          /\ AtWorkStarts' = AtWorkStarts
      BY <1>3, <1>14 DEF CommitJoin, Active, AtWorkStarts
    <2>2. lone = None
      BY <2>1 DEF Latest, LoneStart
    <2>3. serving # None => serving = s
      BY <2>1 DEF Latest, Served
    <2> QED BY <2>1, <2>2, <2>3 DEF Latest, LoneStart, Served
  <1>15. ASSUME NEW s \in Starts, EndInterview(s) PROVE Latest'
    <2>1. /\ s \notin AtWorkStarts /\ UNCHANGED <<start, others, joining, lone, serving>>
          /\ interview'[s] = "over" /\ ActiveSessions' = ActiveSessions \ {s}
          /\ \A x \in Starts \ {s} : interview'[x] = interview[x]
          /\ AtWorkStarts' = AtWorkStarts
      BY <1>3, <1>15 DEF EndInterview, Active, AtWorkStarts
    <2>2. lone # None => lone # s /\ lone \in Starts
      BY <2>1 DEF Latest, LoneStart, StartTypeOK
    <2>3. LoneStart'
      <3>1. lone # None => others[lone] \subseteq Starts
        BY <2>2 DEF StartTypeOK
      <3> QED BY <2>1, <2>2, <3>1 DEF Latest, LoneStart
    <2>4. Served'
      <3>1. serving # None => serving \in Starts
        BY DEF StartTypeOK
      <3> QED BY <2>1, <3>1 DEF Latest, Served
    <2> QED BY <2>3, <2>4 DEF Latest
  <1>16. ASSUME NEW r \in Starts, StartStep(r) \/ SessionStep(r) PROVE Latest'
    BY <1>5, <1>6, <1>7, <1>8, <1>9, <1>10, <1>11, <1>12, <1>13, <1>14, <1>15, <1>16
       DEF StartStep, SessionStep
  <1> QED BY <1>1, <1>16 DEF StartNext, startVars

\* For any number of starts, joins and dead workers: what was started last,
\* by a start that met nobody, is the only active session.
THEOREM LatestStartServes == StartSpec => []LastStartServes
  <1>1. StartInit => Latest
    BY DEF StartInit, Latest, LoneStart, Served
  <1>2. Latest => LastStartServes
    BY DEF Latest, LoneStart, Served, LastStartServes
  <1>3. StartTypeOK /\ StartsTrue /\ Latest /\ [StartNext]_startVars => StartsTrue' /\ Latest'
    BY StepStartsTrue, StepLatest
  <1> QED BY <1>1, <1>2, <1>3, StartInitTrue, StartTypesCorrect, PTL DEF StartSpec

-----------------------------------------------------------------------------
(* The subscriptions of interviewers (InterviewerAccount) and their profiles *)

\* The rows the profile depends on.
Subscriptions ==
    /\ subs \in [Checkouts -> [status : {"none", "ACTIVE", "EXPIRED", "CANCELLED"}, end : Nat]]
    /\ day \in Nat

LEMMA InitSubscriptions ==
  ASSUME AccountInit
  PROVE  Subscriptions /\ PublicIsPaidFor
  BY DEF AccountInit, NoRow, Subscriptions, PublicIsPaidFor

LEMMA ActiveRow ==
  ASSUME NEW c \in Checkouts, subs'[c].status = "ACTIVE"
  PROVE  ActiveRows' # {}
  BY DEF ActiveRows

LEMMA SubscriptionsStay ==
  ASSUME Subscriptions, PublicIsPaidFor,
         UNCHANGED <<subs, flags, exposed>>, day' \in {day, day + 1}
  PROVE  Subscriptions' /\ PublicIsPaidFor'
  <1>1. Subscriptions'
    BY DEF Subscriptions
  <1>2. ActiveRows' = ActiveRows
    BY DEF ActiveRows
  <1> QED BY <1>1, <1>2 DEF PublicIsPaidFor

LEMMA DeliverSubscriptions ==
  ASSUME AccountAssumption, Subscriptions, NEW c \in Checkouts, DeliverCheckout(c)
  PROVE  Subscriptions' /\ PublicIsPaidFor'
  <1>1. Superseded(c) \in
          [Checkouts -> [status : {"none", "ACTIVE", "EXPIRED", "CANCELLED"}, end : Nat]]
    BY DEF Subscriptions, Superseded
  <1>2. /\ subs' = [Superseded(c) EXCEPT ![c] = [status |-> "ACTIVE", end |-> day + Cycle]]
        /\ day' = day
    BY DEF DeliverCheckout
  <1>3. Subscriptions'
    BY <1>1, <1>2 DEF Subscriptions, AccountAssumption
  <1>4. subs'[c].status = "ACTIVE"
    BY <1>1, <1>2
  <1>5. ActiveRows' # {}
    BY <1>4, ActiveRow
  <1> QED BY <1>3, <1>5 DEF PublicIsPaidFor

\* A subscription that is ended exposes a public profile; other rows do not
\* matter.
LEMMA EndsSubscriptions ==
  ASSUME Subscriptions, PublicIsPaidFor, NEW c \in Checkouts,
         NEW row \in [status : {"EXPIRED", "CANCELLED"}, end : Nat], Ends(c, row)
  PROVE  Subscriptions' /\ PublicIsPaidFor'
  <1>1. subs' = [subs EXCEPT ![c] = row] /\ day' = day /\ flags' = flags
        /\ exposed' = (exposed \/ (subs[c].status = "ACTIVE" /\ flags # {}))
    BY DEF Ends, showing
  <1>2. Subscriptions'
    BY <1>1 DEF Subscriptions
  <1>3. ASSUME flags' # {}, ~exposed'
        PROVE  ActiveRows' # {}
    <2>1. subs[c].status # "ACTIVE"
      BY <1>1, <1>3
    <2>2. PICK d \in Checkouts : subs[d].status = "ACTIVE"
      BY <1>1, <1>3 DEF PublicIsPaidFor, ActiveRows
    <2>3. subs'[d].status = "ACTIVE"
      BY <1>1, <2>1, <2>2 DEF Subscriptions
    <2> QED BY <2>3, ActiveRow
  <1> QED BY <1>2, <1>3 DEF PublicIsPaidFor

\* Whoever writes the switches without a subscription in force exposes the
\* profile, or turns nothing on.
LEMMA WriteSubscriptions ==
  ASSUME Subscriptions, PublicIsPaidFor, NEW new, Write(new),
         UNCHANGED <<subs, day>>
  PROVE  Subscriptions' /\ PublicIsPaidFor'
  <1>1. Subscriptions'
    BY DEF Subscriptions
  <1>2. ActiveRows' = ActiveRows
    BY DEF ActiveRows
  <1> QED BY <1>1, <1>2 DEF PublicIsPaidFor, Write

LEMMA CommitSubscriptions ==
  ASSUME Subscriptions, CommitExpired
  PROVE  Subscriptions' /\ PublicIsPaidFor'
  <1>1. /\ subs' = [c \in Checkouts |-> IF c \in ending THEN [subs[c] EXCEPT !.status = "EXPIRED"]
                                        ELSE subs[c]]
        /\ day' = day /\ flags' = {}
    BY DEF CommitExpired, Hidden
  <1>2. Subscriptions'
    BY <1>1 DEF Subscriptions
  <1> QED BY <1>1, <1>2 DEF PublicIsPaidFor

LEMMA AccountKeepsSubscriptions ==
  ASSUME Subscriptions, PublicIsPaidFor,
         \/ \E t \in Tabs : Apply(t)
         \/ \E a \in Admins : Review(a)
         \/ \E r \in Requests : Interrupt(r)
  PROVE  Subscriptions' /\ PublicIsPaidFor'
  <1>1. UNCHANGED <<subs, flags, exposed>> /\ day' \in {day, day + 1}
    <2>1. CASE \E t \in Tabs : Apply(t)
      BY <2>1 DEF Apply, ReadApplication, SaveApplication,
                  AwaitApproval, billing, showing
    <2>2. CASE \E a \in Admins : Review(a)
      BY <2>2 DEF Review, ReadReview, DecideAccount,
                  SaveReview, billing, showing
    <2>3. CASE \E r \in Requests : Interrupt(r)
      BY <2>3 DEF Interrupt, billing, showing
    <2> QED BY <2>1, <2>2, <2>3
  <1> QED BY <1>1, SubscriptionsStay

LEMMA OnboardSubscriptions ==
  ASSUME Subscriptions, PublicIsPaidFor, Onboard
  PROVE  Subscriptions' /\ PublicIsPaidFor'
  <1>1. CASE SaveProfile
    BY <1>1 DEF SaveProfile, billing, PublicIsPaidFor, Subscriptions
  <1>2. CASE ~SaveProfile
    <2>1. UNCHANGED <<subs, flags, exposed>> /\ day' \in {day, day + 1}
      BY <1>2 DEF Onboard, AddAvailability, ReadComplete,
                  MarkCompleted, BecomeActive, SubmitVerification,
                  ReviewVerification, billing, showing
    <2> QED BY <2>1, SubscriptionsStay
  <1> QED BY <1>1, <1>2

LEMMA SubscribeSubscriptions ==
  ASSUME AccountAssumption, Subscriptions, PublicIsPaidFor,
         NEW c \in Checkouts, Subscribe(c)
  PROVE  Subscriptions' /\ PublicIsPaidFor'
  <1>1. CASE CreateCheckout(c) \/ AtStripe(c)
    <2>1. UNCHANGED <<subs, flags, exposed>> /\ day' \in {day, day + 1}
      BY <1>1 DEF CreateCheckout, AtStripe, showing
    <2> QED BY <2>1, SubscriptionsStay
  <1>2. CASE DeliverCheckout(c)
    BY <1>2, DeliverSubscriptions
  <1>3. CASE DeliverDeleted(c)
    <2>1. [subs[c] EXCEPT !.status = "CANCELLED"] \in [status : {"EXPIRED", "CANCELLED"}, end : Nat]
      BY DEF Subscriptions
    <2> QED BY <1>3, <2>1, EndsSubscriptions DEF DeliverDeleted
  <1>4. CASE Mark(c)
    <2>1. PICK s \in {"EXPIRED", "CANCELLED"} : Ends(c, [status |-> s, end |-> day])
      BY <1>4 DEF Mark
    <2>2. [status |-> s, end |-> day] \in [status : {"EXPIRED", "CANCELLED"}, end : Nat]
      BY DEF Subscriptions
    <2> QED BY <2>1, <2>2, EndsSubscriptions
  <1> QED BY <1>1, <1>2, <1>3, <1>4 DEF Subscribe

LEMMA PageSubscriptions ==
  ASSUME Subscriptions, PublicIsPaidFor, ProfilePage
  PROVE  Subscriptions' /\ PublicIsPaidFor'
  <1>1. CASE CommitPatch
    <2>1. Write(Switched(page.read, page.flag, page.on)) /\ UNCHANGED <<subs, day>>
      BY <1>1 DEF CommitPatch, billing
    <2> QED BY <2>1, WriteSubscriptions
  <1>2. CASE Save
    <2>1. Write(page.copy) /\ UNCHANGED <<subs, day>>
      BY <1>2 DEF Save, billing
    <2> QED BY <2>1, WriteSubscriptions
  <1>3. CASE ~CommitPatch /\ ~Save
    <2>1. UNCHANGED <<subs, flags, exposed>> /\ day' \in {day, day + 1}
      BY <1>3 DEF ProfilePage, LoadPage, ClosePage,
                  CheckPatch, Toggle, billing
    <2> QED BY <2>1, SubscriptionsStay
  <1> QED BY <1>1, <1>2, <1>3

LEMMA StepSubscriptions ==
  ASSUME AccountAssumption, Subscriptions, PublicIsPaidFor,
         [AccountNext]_accountVars
  PROVE  Subscriptions' /\ PublicIsPaidFor'
  <1>1. CASE \/ \E t \in Tabs : Apply(t)
             \/ \E a \in Admins : Review(a)
             \/ \E r \in Requests : Interrupt(r)
    BY <1>1, AccountKeepsSubscriptions
  <1>2. CASE Onboard
    BY <1>2, OnboardSubscriptions
  <1>3. CASE \E c \in Checkouts : Subscribe(c)
    BY <1>3, SubscribeSubscriptions
  <1>4. CASE ExpireInterviewers
    <2>1. CASE ReadExpired
      <3>1. UNCHANGED <<subs, flags, exposed>> /\ day' \in {day, day + 1}
        BY <2>1 DEF ReadExpired, showing
      <3> QED BY <3>1, SubscriptionsStay
    <2>2. CASE CommitExpired
      BY <2>2, CommitSubscriptions
    <2> QED BY <1>4, <2>1, <2>2 DEF ExpireInterviewers
  <1>5. CASE ProfilePage
    BY <1>5, PageSubscriptions
  <1>6. CASE NextDay \/ UNCHANGED accountVars
    <2>1. UNCHANGED <<subs, flags, exposed>> /\ day' \in {day, day + 1}
      BY <1>6 DEF NextDay, accountVars, billing, showing
    <2> QED BY <2>1, SubscriptionsStay
  <1> QED BY <1>1, <1>2, <1>3, <1>4, <1>5, <1>6 DEF AccountNext

\* For any checkouts and any number of switches, a profile that is public has
\* a subscription that is in force or being expired; only an admin, Stripe or
\* a page that writes after the end leaves one public.
THEOREM PublicProfilesPaid == AccountSpec => []PublicIsPaidFor
  <1>1. AccountInit => Subscriptions /\ PublicIsPaidFor
    BY InitSubscriptions
  <1>2. Subscriptions /\ PublicIsPaidFor /\ [AccountNext]_accountVars
          => Subscriptions' /\ PublicIsPaidFor'
    BY StepSubscriptions, AccountAssumption
  <1> QED BY <1>1, <1>2, PTL DEF AccountSpec

-----------------------------------------------------------------------------
(* The decision on an application, and the account *)

\* The application and the account, written one after the other.
Busy(r) == request[r].at # "idle"
Alone(r) == Busy(r) /\ r \notin crossed
HalfAlone(r) == request[r].at = "half" /\ r \notin crossed

Reads == [at : {"idle", "read", "half"}, seen : {Nothing, "REJECTED", "APPROVED", "complete"}]

RequestTypes ==
    /\ request \in [Requests -> Reads]
    /\ \A r \in Requests : ~Busy(r) => request[r] = Idle
    /\ \A a \in Admins : Busy(a) => request[a].seen \in {"APPROVED", "REJECTED"}

\* A request that does not run alone is known to have been crossed.
OverlapsKnown == \A r, s \in Requests : Busy(r) /\ Busy(s) /\ r # s => r \in crossed

RowTypes ==
    /\ application \in {Nothing, "PENDING", "APPROVED", "REJECTED"}
    /\ account \in [role : {"user", "interviewer"},
                    status : {"NOT_APPLIED", "PENDING_APPROVAL", "REJECTED",
                              "APPROVED_NOT_ONBOARDED", "ACTIVE"}]

\* What the first row says when a request that ran alone has written it, and
\* both while the applicant completes the onboarding.
Accepted == [role |-> "interviewer", status |-> "APPROVED_NOT_ONBOARDED"]
FirstRowWritten ==
    /\ \A t \in Tabs : HalfAlone(t) => application = "PENDING"
    /\ \A a \in Admins : HalfAlone(a) =>
          IF request[a].seen = "APPROVED" THEN account = Accepted ELSE account.status = "REJECTED"
    /\ settled /\ Alone("onboarding") => application = "APPROVED" /\ account = Accepted

\* An insert that will fail follows another request's first row.
InsertsFollow ==
    \A t \in Tabs : request[t].at = "read" /\ request[t].seen = Nothing /\ application # Nothing
                       => ~settled \/ \E r \in Requests : request[r].at = "half"

Decided == RequestTypes /\ OverlapsKnown /\ RowTypes /\ FirstRowWritten /\ InsertsFollow

\* Application and account agree after a decision.
Agreed ==
    \/ application = "PENDING" /\ account.status = "PENDING_APPROVAL"
    \/ application = "REJECTED" /\ account.status = "REJECTED"
    \/ /\ application = "APPROVED" /\ account.role = "interviewer"
       /\ account.status \in {"APPROVED_NOT_ONBOARDED", "ACTIVE"}

LEMMA AtWorkIsBusy ==
  ASSUME RequestTypes
  PROVE  AtWork = {r \in Requests : Busy(r)}
  BY DEF RequestTypes, AtWork, Busy, Idle

LEMMA AtWorkIsBusyNext ==
  ASSUME RequestTypes'
  PROVE  AtWork' = {r \in Requests : Busy(r)'}
  BY DEF RequestTypes, AtWork, Busy, Idle

LEMMA InitDecided ==
  ASSUME AccountAssumption, AccountInit
  PROVE  Decided /\ AccountFollowsDecision
  <1>1. \A r \in Requests : request[r] = [at |-> "idle", seen |-> Nothing]
    BY DEF AccountInit, Idle
  <1>2. RequestTypes /\ OverlapsKnown
    BY <1>1 DEF RequestTypes, OverlapsKnown, Busy, Reads, AccountInit, Idle, Requests
  <1>3. RowTypes
    BY DEF RowTypes, AccountInit
  <1>4. FirstRowWritten /\ InsertsFollow
    BY <1>1 DEF FirstRowWritten, InsertsFollow, HalfAlone, Alone, Busy, Requests
  <1>5. AccountFollowsDecision
    BY DEF AccountInit, AccountFollowsDecision, AccountAssumption
  <1> QED BY <1>2, <1>3, <1>4, <1>5 DEF Decided

\* Nothing that the decision is about changes.
LEMMA DecidedStays ==
  ASSUME Decided, AccountFollowsDecision,
         UNCHANGED <<application, account, request, crossed, settled>>
  PROVE  Decided' /\ AccountFollowsDecision'
  <1>1. Decided'
    BY DEF Decided, RequestTypes, OverlapsKnown, RowTypes, FirstRowWritten, InsertsFollow,
           HalfAlone, Alone, Busy
  <1>2. AtWork' = AtWork
    BY DEF AtWork
  <1> QED BY <1>1, <1>2 DEF AccountFollowsDecision

\* A request starts: nobody but it can be alone.
LEMMA StartDecided ==
  ASSUME AccountAssumption, Decided, AccountFollowsDecision,
         NEW r \in Requests,
         NEW v \in {Nothing, "REJECTED", "APPROVED", "complete"},
         r \in Tabs => v = application,
         r \in Admins => v \in {"APPROVED", "REJECTED"},
         r = "onboarding" => account = Accepted,
         Start(r, [at |-> "read", seen |-> v]),
         UNCHANGED <<application, account, settled>>
  PROVE  Decided' /\ AccountFollowsDecision'
  <1>1. /\ ~Busy(r)
        /\ request' = [request EXCEPT ![r] = [at |-> "read", seen |-> v]]
        /\ crossed' = IF AtWork = {} THEN crossed ELSE crossed \cup AtWork \cup {r}
    BY DEF Start, Busy, Idle
  <1>2. RequestTypes'
    BY <1>1 DEF Decided, RequestTypes, Reads, Busy
  <1>3. \A s \in Requests : s # r => Busy(s)' = Busy(s) /\ request'[s] = request[s]
    BY <1>1 DEF Decided, RequestTypes, Busy
  <1>4. request'[r] = [at |-> "read", seen |-> v]
    BY <1>1 DEF Decided, RequestTypes
  <1>5. \A s \in Requests : Busy(s) => s \in AtWork
    BY AtWorkIsBusy DEF Decided
  <1>6. \A s \in Requests : s # r /\ Busy(s) => s \in crossed' /\ r \in crossed'
    BY <1>1, <1>5
  <1>7. OverlapsKnown'
    BY <1>3, <1>6 DEF OverlapsKnown
  <1>8. RowTypes'
    BY DEF Decided, RowTypes
  <1>9. FirstRowWritten'
    <2>1. \A s \in Requests : ~HalfAlone(s)'
      BY <1>3, <1>4, <1>6 DEF HalfAlone, Busy
    <2>2. ASSUME settled', Alone("onboarding")'
          PROVE  application' = "APPROVED" /\ account' = Accepted
      <3>1. "onboarding" \in Requests
        BY DEF Requests
      <3>2. r = "onboarding" /\ account = Accepted
        BY <1>3, <1>6, <2>2, <3>1 DEF Alone
      <3>3. AtWork = {}
        BY <1>1, <2>2, <3>2 DEF Alone
      <3>4. application = "APPROVED"
        BY <2>2, <3>2, <3>3
           DEF AccountFollowsDecision, AccountAssumption, Accepted, Decided, RowTypes
      <3> QED BY <3>2, <3>4
    <2> QED BY <2>1, <2>2 DEF FirstRowWritten, Requests
  <1>10. InsertsFollow'
    <2>1. SUFFICES ASSUME NEW t \in Tabs, request'[t].at = "read", request'[t].seen = Nothing,
                          application # Nothing, settled
                   PROVE  \E s \in Requests : request'[s].at = "half"
      BY DEF InsertsFollow
    <2>2. t \in Requests /\ t # r
      BY <1>4, <2>1 DEF Requests
    <2>3. PICK s \in Requests : request[s].at = "half"
      BY <1>3, <2>1, <2>2 DEF Decided, InsertsFollow
    <2>4. s # r
      BY <1>1, <2>3 DEF Busy
    <2> QED BY <1>3, <2>3, <2>4
  <1>11. r \in AtWork'
    BY <1>2, <1>4, AtWorkIsBusyNext DEF Busy
  <1> QED BY <1>2, <1>7, <1>8, <1>9, <1>10, <1>11 DEF Decided, AccountFollowsDecision

\* It writes its first row; whoever is alone is this one.
LEMMA HalfDecided ==
  ASSUME Decided, NEW r \in Requests, Busy(r),
         request' = [request EXCEPT ![r].at = "half"], UNCHANGED <<crossed, settled>>,
         RowTypes',
         r \in Tabs => r \notin Admins \cup {"onboarding"} /\ application' = "PENDING",
         r \in Admins => r # "onboarding"
            /\ IF request[r].seen = "APPROVED" THEN account' = Accepted ELSE account'.status = "REJECTED",
         r = "onboarding" => UNCHANGED <<application, account>>
  PROVE  Decided' /\ AccountFollowsDecision'
  <1>1. /\ request'[r] = [request[r] EXCEPT !.at = "half"]
        /\ \A s \in Requests : s # r => request'[s] = request[s]
    BY DEF Decided, RequestTypes
  <1>2. request'[r].at = "half" /\ request'[r].seen = request[r].seen
    BY <1>1 DEF Decided, RequestTypes, Reads
  <1>3. RequestTypes'
    BY <1>1, <1>2 DEF Decided, RequestTypes, Reads, Busy
  <1>4. \A s \in Requests : Busy(s)' = Busy(s)
    BY <1>1, <1>2 DEF Busy
  <1>5. OverlapsKnown'
    BY <1>4 DEF Decided, OverlapsKnown
  <1>6. \A s \in Requests : Alone(s)' => s = r
    BY <1>4 DEF Decided, OverlapsKnown, Alone
  <1>7. FirstRowWritten'
    <2>1. \A s \in Requests : HalfAlone(s)' => s = r
      BY <1>6 DEF HalfAlone, Alone, Busy
    <2>2. "onboarding" \in Requests
      BY DEF Requests
    <2>3. Alone("onboarding")' => r = "onboarding" /\ Alone("onboarding")
      BY <1>4, <1>6, <2>2 DEF Alone
    <2>4. \A t \in Tabs : HalfAlone(t)' => application' = "PENDING"
      BY <2>1 DEF Requests
    <2>5. \A a \in Admins : HalfAlone(a)' =>
            IF request'[a].seen = "APPROVED" THEN account' = Accepted ELSE account'.status = "REJECTED"
      BY <1>2, <2>1 DEF Requests
    <2>6. settled' /\ Alone("onboarding")' => application' = "APPROVED" /\ account' = Accepted
      BY <2>3 DEF Decided, FirstRowWritten
    <2> QED BY <2>4, <2>5, <2>6 DEF FirstRowWritten
  <1>8. InsertsFollow'
    BY <1>2 DEF InsertsFollow
  <1>9. r \in AtWork'
    BY <1>2, <1>3, AtWorkIsBusyNext DEF Busy
  <1> QED BY <1>3, <1>5, <1>7, <1>8, <1>9 DEF Decided, AccountFollowsDecision

\* A request that leaves has overlapped with all that are still at work.
LEMMA LeftDecided ==
  ASSUME Decided, NEW r \in Requests, Busy(r),
         request' = [request EXCEPT ![r] = Idle], crossed' = crossed \ {r},
         RowTypes'
  PROVE  /\ RequestTypes' /\ OverlapsKnown' /\ FirstRowWritten'
         /\ \A s \in Requests : s # r => request'[s] = request[s] /\ (Busy(s) => s \in crossed)
         /\ ~Busy(r)'
  <1>1. /\ request'[r] = [at |-> "idle", seen |-> Nothing]
        /\ \A s \in Requests : s # r => request'[s] = request[s]
    BY DEF Decided, RequestTypes, Idle
  <1>2. RequestTypes'
    BY <1>1 DEF Decided, RequestTypes, Reads, Busy, Idle
  <1>3. ~Busy(r)' /\ \A s \in Requests : s # r => Busy(s)' = Busy(s)
    BY <1>1 DEF Busy
  <1>4. OverlapsKnown'
    BY <1>3 DEF Decided, OverlapsKnown
  <1>5. \A s \in Requests : s # r => (Busy(s) => s \in crossed)
    BY DEF Decided, OverlapsKnown
  <1>6. \A s \in Requests : ~Alone(s)'
    BY <1>3, <1>5 DEF Alone
  <1>7. FirstRowWritten'
    BY <1>6 DEF FirstRowWritten, HalfAlone, Alone, Busy, Requests
  <1> QED BY <1>1, <1>2, <1>3, <1>4, <1>5, <1>7

LEMMA EndDecided ==
  ASSUME AccountAssumption, Decided, NEW r \in Requests, Busy(r),
         NEW decided \in BOOLEAN, EndRequest(r, decided), RowTypes',
         decided /\ Alone(r) => Agreed'
  PROVE  Decided' /\ AccountFollowsDecision'
  <1>1. /\ request' = [request EXCEPT ![r] = Idle]
        /\ crossed' = crossed \ {r}
        /\ settled' = (decided /\ r \notin crossed)
    BY DEF EndRequest
  <1>2. /\ RequestTypes' /\ OverlapsKnown' /\ FirstRowWritten'
        /\ \A s \in Requests : s # r => request'[s] = request[s] /\ (Busy(s) => s \in crossed)
        /\ ~Busy(r)'
    BY <1>1, LeftDecided
  <1>3. InsertsFollow'
    <2>1. SUFFICES ASSUME NEW t \in Tabs, request'[t].at = "read"
                   PROVE  ~settled'
      BY DEF InsertsFollow
    <2>2. t \in Requests /\ t # r /\ Busy(t)
      BY <1>2, <2>1 DEF Requests, Busy
    <2>3. r \in crossed
      BY <2>2 DEF Decided, OverlapsKnown
    <2> QED BY <1>1, <2>3
  <1>4. settled' => Agreed'
    BY <1>1 DEF Alone
  <1>5. AccountFollowsDecision'
    BY <1>4 DEF Agreed, AccountFollowsDecision, AccountAssumption
  <1> QED BY <1>2, <1>3, <1>5 DEF Decided

\* An insert that finds a row changes nothing; another request wrote the row
\* and is at work, or left before its second one.
LEMMA InsertDecided ==
  ASSUME Decided, AccountFollowsDecision, NEW t \in Tabs,
         request[t].at = "read", request[t].seen = Nothing, application # Nothing,
         request' = [request EXCEPT ![t] = Idle], crossed' = crossed \ {t},
         UNCHANGED <<application, account, settled>>
  PROVE  Decided' /\ AccountFollowsDecision'
  <1>1. t \in Requests /\ Busy(t) /\ RowTypes'
    BY DEF Requests, Busy, Decided, RowTypes
  <1>2. /\ RequestTypes' /\ OverlapsKnown' /\ FirstRowWritten'
        /\ \A s \in Requests : s # t => request'[s] = request[s] /\ (Busy(s) => s \in crossed)
        /\ ~Busy(t)'
    BY <1>1, LeftDecided
  <1>3. ASSUME settled
        PROVE  \E s \in Requests : request'[s].at = "half"
    BY <1>2, <1>3 DEF Decided, InsertsFollow
  <1>4. InsertsFollow'
    BY <1>3 DEF InsertsFollow
  <1>5. settled => AtWork' # {}
    BY <1>2, <1>3, AtWorkIsBusyNext DEF Busy
  <1> QED BY <1>1, <1>2, <1>4, <1>5 DEF Decided, AccountFollowsDecision

LEMMA ApplyDecided ==
  ASSUME AccountAssumption, Decided, AccountFollowsDecision,
         NEW t \in Tabs, Apply(t)
  PROVE  Decided' /\ AccountFollowsDecision'
  <1>1. t \in Requests /\ t \notin Admins \cup {"onboarding"}
    BY DEF Requests, AccountAssumption
  <1>2. CASE ReadApplication(t)
    <2>1. /\ Start(t, [at |-> "read", seen |-> application])
          /\ application \in {Nothing, "REJECTED"}
          /\ UNCHANGED <<application, account, settled>>
      BY <1>2 DEF ReadApplication
    <2> QED BY <1>1, <2>1, StartDecided
  <1>3. CASE SaveApplication(t)
    <2>1. request[t].at = "read" /\ Busy(t) /\ UNCHANGED <<account, settled>>
      BY <1>3 DEF SaveApplication, Busy
    <2>2. CASE request[t].seen = Nothing /\ application # Nothing
      <3>1. /\ request' = [request EXCEPT ![t] = Idle]
            /\ crossed' = crossed \ {t} /\ UNCHANGED application
        BY <1>3, <2>2 DEF SaveApplication
      <3> QED BY <2>1, <2>2, <3>1, InsertDecided
    <2>3. CASE ~(request[t].seen = Nothing /\ application # Nothing)
      <3>1. /\ request' = [request EXCEPT ![t].at = "half"]
            /\ application' = "PENDING" /\ UNCHANGED crossed
        BY <1>3, <2>3 DEF SaveApplication, Resubmitted
      <3>2. RowTypes'
        BY <2>1, <3>1 DEF Decided, RowTypes
      <3> QED BY <1>1, <2>1, <3>1, <3>2, HalfDecided
    <2> QED BY <2>2, <2>3
  <1>4. CASE AwaitApproval(t)
    <2>1. /\ request[t].at = "half" /\ account' = [account EXCEPT !.status = "PENDING_APPROVAL"]
          /\ EndRequest(t, TRUE) /\ UNCHANGED application
      BY <1>4 DEF AwaitApproval
    <2>2. RowTypes' /\ account'.status = "PENDING_APPROVAL"
      BY <2>1 DEF Decided, RowTypes
    <2>3. Alone(t) => Agreed'
      BY <2>1, <2>2 DEF Decided, FirstRowWritten, HalfAlone, Alone, Agreed
    <2> QED BY <1>1, <2>1, <2>2, <2>3, EndDecided DEF Busy
  <1> QED BY <1>2, <1>3, <1>4 DEF Apply

LEMMA ReviewDecided ==
  ASSUME AccountAssumption, Decided, AccountFollowsDecision,
         NEW a \in Admins, Review(a)
  PROVE  Decided' /\ AccountFollowsDecision'
  <1>1. a \in Requests /\ a \notin Tabs \cup {"onboarding"}
    BY DEF Requests, AccountAssumption
  <1>2. CASE ReadReview(a)
    <2>1. PICK decision \in {"APPROVED", "REJECTED"} :
            Start(a, [at |-> "read", seen |-> decision])
      BY <1>2 DEF ReadReview
    <2>2. UNCHANGED <<application, account, settled>>
      BY <1>2 DEF ReadReview
    <2> QED BY <1>1, <2>1, <2>2, StartDecided
  <1>3. CASE DecideAccount(a)
    <2>1. /\ request' = [request EXCEPT ![a].at = "half"] /\ Busy(a)
          /\ UNCHANGED <<application, crossed, settled>>
          /\ account' = IF request[a].seen = "APPROVED" THEN Accepted
                        ELSE [account EXCEPT !.status = "REJECTED"]
      BY <1>3 DEF DecideAccount, Busy, Accepted
    <2>2. RowTypes'
      BY <2>1 DEF Decided, RowTypes, Accepted
    <2>3. IF request[a].seen = "APPROVED" THEN account' = Accepted ELSE account'.status = "REJECTED"
      BY <2>1 DEF Decided, RowTypes
    <2> QED BY <1>1, <2>1, <2>2, <2>3, HalfDecided
  <1>4. CASE SaveReview(a)
    <2>1. /\ request[a].at = "half" /\ application' = request[a].seen
          /\ EndRequest(a, TRUE) /\ UNCHANGED account
      BY <1>4 DEF SaveReview
    <2>2. Busy(a) /\ request[a].seen \in {"APPROVED", "REJECTED"}
      BY <2>1 DEF Decided, RequestTypes, Busy
    <2>3. RowTypes'
      BY <2>1, <2>2 DEF Decided, RowTypes
    <2>4. Alone(a) => Agreed'
      BY <2>1, <2>2 DEF Decided, FirstRowWritten, HalfAlone, Alone, Agreed, Accepted
    <2> QED BY <1>1, <2>1, <2>2, <2>3, <2>4, EndDecided
  <1> QED BY <1>2, <1>3, <1>4 DEF Review

LEMMA InterruptDecided ==
  ASSUME AccountAssumption, Decided, NEW r \in Requests, Interrupt(r)
  PROVE  Decided' /\ AccountFollowsDecision'
  <1>1. Busy(r) /\ EndRequest(r, FALSE) /\ UNCHANGED <<application, account>>
    BY DEF Interrupt, Busy
  <1>2. RowTypes'
    BY <1>1 DEF Decided, RowTypes
  <1> QED BY <1>1, <1>2, EndDecided

LEMMA OnboardDecided ==
  ASSUME AccountAssumption, Decided, AccountFollowsDecision, Onboard
  PROVE  Decided' /\ AccountFollowsDecision'
  <1>1. "onboarding" \in Requests /\ "onboarding" \notin Tabs \cup Admins
    BY DEF Requests, AccountAssumption
  <1>2. CASE ReadComplete
    <2>1. /\ account = Accepted
          /\ Start("onboarding", [at |-> "read", seen |-> "complete"])
          /\ UNCHANGED <<application, account, settled>>
      BY <1>2 DEF ReadComplete, Accepted
    <2> QED BY <1>1, <2>1, StartDecided
  <1>3. CASE MarkCompleted
    <2>1. /\ request' = [request EXCEPT !["onboarding"].at = "half"] /\ Busy("onboarding")
          /\ UNCHANGED <<application, account, crossed, settled>>
      BY <1>3 DEF MarkCompleted, Busy
    <2>2. RowTypes'
      BY <2>1 DEF Decided, RowTypes
    <2> QED BY <1>1, <2>1, <2>2, HalfDecided
  <1>4. CASE BecomeActive
    <2>1. /\ Busy("onboarding") /\ account' = [account EXCEPT !.status = "ACTIVE"]
          /\ EndRequest("onboarding", settled) /\ UNCHANGED application
      BY <1>4 DEF BecomeActive, Busy
    <2>2. RowTypes' /\ account'.role = account.role /\ account'.status = "ACTIVE"
      BY <2>1 DEF Decided, RowTypes
    <2>3. settled /\ Alone("onboarding") => Agreed'
      BY <2>1, <2>2 DEF Decided, FirstRowWritten, Agreed, Accepted
    <2>4. CASE settled
      <3>1. EndRequest("onboarding", TRUE)
        BY <2>1, <2>4 DEF EndRequest
      <3> QED BY <1>1, <2>1, <2>2, <2>3, <2>4, <3>1, EndDecided
    <2>5. CASE ~settled
      <3>1. EndRequest("onboarding", FALSE)
        BY <2>1, <2>5 DEF EndRequest
      <3> QED BY <1>1, <2>1, <2>2, <3>1, EndDecided
    <2> QED BY <2>4, <2>5
  <1>5. CASE ~ReadComplete /\ ~MarkCompleted /\ ~BecomeActive
    <2>1. UNCHANGED <<application, account, request, crossed, settled>>
      BY <1>5 DEF Onboard, SaveProfile, AddAvailability,
                  SubmitVerification, ReviewVerification, applicant
    <2> QED BY <2>1, DecidedStays
  <1> QED BY <1>2, <1>3, <1>4, <1>5

LEMMA SellingDecided ==
  ASSUME Decided, AccountFollowsDecision,
         \/ \E c \in Checkouts : Subscribe(c)
         \/ ExpireInterviewers \/ ProfilePage \/ NextDay
         \/ UNCHANGED accountVars
  PROVE  Decided' /\ AccountFollowsDecision'
  <1>1. UNCHANGED <<application, account, request, crossed, settled>>
    <2>1. CASE \E c \in Checkouts : Subscribe(c)
      <3>1. PICK c \in Checkouts : Subscribe(c)
        BY <2>1
      <3>2. CASE CreateCheckout(c) \/ AtStripe(c) \/ DeliverCheckout(c)
        BY <3>2 DEF CreateCheckout, AtStripe, DeliverCheckout,
                    applicant
      <3>3. CASE DeliverDeleted(c) \/ Mark(c)
        BY <3>3 DEF DeliverDeleted, Mark, Ends, applicant
      <3> QED BY <3>1, <3>2, <3>3 DEF Subscribe
    <2>2. CASE ExpireInterviewers
      BY <2>2 DEF ExpireInterviewers, ReadExpired, CommitExpired, applicant
    <2>3. CASE ProfilePage
      BY <2>3 DEF ProfilePage, LoadPage, ClosePage, Toggle,
                  CheckPatch, CommitPatch, Save, applicant
    <2>4. CASE NextDay \/ UNCHANGED accountVars
      BY <2>4 DEF NextDay, accountVars, applicant
    <2> QED BY <2>1, <2>2, <2>3, <2>4
  <1> QED BY <1>1, DecidedStays

LEMMA StepDecided ==
  ASSUME AccountAssumption, Decided, AccountFollowsDecision,
         [AccountNext]_accountVars
  PROVE  Decided' /\ AccountFollowsDecision'
  <1>1. CASE \E t \in Tabs : Apply(t)
    BY <1>1, ApplyDecided
  <1>2. CASE \E a \in Admins : Review(a)
    BY <1>2, ReviewDecided
  <1>3. CASE \E r \in Requests : Interrupt(r)
    BY <1>3, InterruptDecided
  <1>4. CASE Onboard
    BY <1>4, OnboardDecided
  <1>5. CASE \/ \E c \in Checkouts : Subscribe(c)
             \/ ExpireInterviewers \/ ProfilePage \/ NextDay
             \/ UNCHANGED accountVars
    BY <1>5, SellingDecided
  <1> QED BY <1>1, <1>2, <1>3, <1>4, <1>5 DEF AccountNext

\* For any number of tabs and admins, the account says what the application
\* says whenever the last request that wrote them ran alone to its end.
THEOREM AccountIsDecided == AccountSpec => []AccountFollowsDecision
  <1>1. AccountInit => Decided /\ AccountFollowsDecision
    BY InitDecided, AccountAssumption
  <1>2. Decided /\ AccountFollowsDecision /\ [AccountNext]_accountVars
          => Decided' /\ AccountFollowsDecision'
    BY StepDecided, AccountAssumption
  <1> QED BY <1>1, <1>2, PTL DEF AccountSpec

=============================================================================
