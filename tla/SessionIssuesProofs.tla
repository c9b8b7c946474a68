------------------------ MODULE SessionIssuesProofs ------------------------
(***************************************************************************)
(* Proofs about SessionIssues, for any admins, reports, costs and          *)
(* suspensions: types, one active report of each party, balances that the  *)
(* settlement and the admins' actions explain, and sanctions that last.    *)
(***************************************************************************)
EXTENDS SessionIssues, TokenServiceProofs

IssueStates == {"unused", "checked", "refused"} \cup Status

\* The page an admin acts on shows an issue of the system.
LEMMA InitTypes == Init => TypeOK
  <1> SUFFICES ASSUME Init PROVE TypeOK
    OBVIOUS
  <1>1. wallet \in [Users -> Wallet]
    BY IssueAssumption DEF IssueAssumption, Init, Wallet
  <1>2. screen \in [Admins -> [issue : Issues \cup {None}, seen : Status \cup {None}]]
    BY DEF Init, Away
  <1>3. moved \in [refunded : Nat, compensated : Nat]
    BY DEF Init
  <1>4. account \in [Users -> [is_suspended : BOOLEAN, suspended_until : Nat \cup {None},
                               is_active : BOOLEAN]]
    BY DEF Init
  <1>5. issue \in [Issues -> IssueStates]
    BY DEF Init, IssueStates
  <1> QED BY <1>1, <1>2, <1>3, <1>4, <1>5 DEF Init, TypeOK, IssueStates

-----------------------------------------------------------------------------
(* Tokens *)

\* Moving what the payer has keeps both balances natural numbers.
LEMMA MoveTokensType ==
  ASSUME wallet \in [Users -> Wallet], NEW from \in Users, NEW to \in Users, from # to,
         NEW amount \in Nat, amount <= wallet[from].balance
  PROVE  LET w == MoveTokens(wallet, from, to, amount)
         IN  /\ w \in [Users -> Wallet]
             /\ w[from].balance = wallet[from].balance - amount
             /\ w[to].balance = wallet[to].balance + amount
             /\ \A u \in Users : w[u].locked_balance = wallet[u].locked_balance
  <1>1. /\ MoveTokens(wallet, from, to, amount)
             = [[wallet EXCEPT ![from].balance = wallet[from].balance - amount]
                  EXCEPT ![to].balance = wallet[to].balance + amount]
        /\ wallet[from].balance - amount \in Nat /\ wallet[to].balance + amount \in Nat
    BY DEF MoveTokens, Wallet
  <1>2. [wallet EXCEPT ![from].balance = wallet[from].balance - amount] \in [Users -> Wallet]
    BY <1>1 DEF Wallet
  <1> QED BY <1>1, <1>2 DEF Wallet

\* What one settlement does to the two wallets.
LEMMA SettlementWallets ==
  ASSUME wallet \in [Users -> Wallet], CanTakeLocked(wallet, candidate, Cost)
  PROVE  LET paid == TransferLockedTokens(wallet, candidate, interviewer, Cost)
             unlocked == UnlockTokens(wallet, candidate, Cost)
         IN  /\ paid \in [Users -> Wallet] /\ unlocked \in [Users -> Wallet]
             /\ paid[candidate].locked_balance = wallet[candidate].locked_balance - Cost
             /\ paid[candidate].balance = wallet[candidate].balance
             /\ paid[interviewer].balance = wallet[interviewer].balance + Cost
             /\ unlocked[candidate].locked_balance = wallet[candidate].locked_balance - Cost
             /\ unlocked[candidate].balance = wallet[candidate].balance + Cost
             /\ unlocked[interviewer] = wallet[interviewer]
  <1>1. candidate \in Users /\ interviewer \in Users /\ candidate # interviewer /\ Cost \in Nat
    BY IssueAssumption DEF IssueAssumption, Users
  <1>2. /\ TransferLockedTokens(wallet, candidate, interviewer, Cost) \in [Users -> Wallet]
        /\ UnlockTokens(wallet, candidate, Cost) \in [Users -> Wallet]
    BY <1>1, TransferLockedTokensType, UnlockTokensType
  <1> QED BY <1>1, <1>2 DEF TransferLockedTokens, UnlockTokens, Wallet

-----------------------------------------------------------------------------
(* Types *)

\* Every admin action reports its answer to the issue and the screen.
LEMMA ShownTypes ==
  ASSUME TypeOK, NEW a \in Admins, NEW i \in Issues, NEW status \in Status, Shown(a, i, status)
  PROVE  /\ actions' \in Nat /\ issue' \in [Issues -> IssueStates]
         /\ screen' \in [Admins -> [issue : Issues \cup {None}, seen : Status \cup {None}]]
  <1>1. PICK seen \in {screen[a].seen, status} : screen' = [screen EXCEPT ![a].seen = seen]
    BY DEF Shown
  <1>2. screen' \in [Admins -> [issue : Issues \cup {None}, seen : Status \cup {None}]]
    BY <1>1 DEF TypeOK
  <1>3. actions' \in Nat
    BY DEF Shown, TypeOK
  <1>4. issue' \in [Issues -> IssueStates]
    BY DEF Shown, TypeOK, IssueStates
  <1> QED BY <1>2, <1>3, <1>4

Accounts == [Users -> [is_suspended : BOOLEAN, suspended_until : Nat \cup {None},
                       is_active : BOOLEAN]]

\* What a sanction and a lift write, field by field.
LEMMA SuspendedAccount ==
  ASSUME TypeOK, NEW u \in Users, NEW suspended \in BOOLEAN, NEW until \in Nat \cup {None},
         account' = [account EXCEPT ![u].is_suspended = suspended,
                                    ![u].suspended_until = until]
  PROVE  /\ account' \in Accounts
         /\ account'[u].is_suspended = suspended /\ account'[u].suspended_until = until
         /\ \A v \in Users \ {u} : account'[v] = account[v]
  <1> DEFINE once == [account EXCEPT ![u].is_suspended = suspended]
  <1>1. account \in Accounts
    BY DEF TypeOK, Accounts
  <1>2. /\ once \in Accounts /\ once[u].is_suspended = suspended
        /\ \A v \in Users \ {u} : once[v] = account[v]
    BY <1>1 DEF Accounts
  <1>3. account' = [once EXCEPT ![u].suspended_until = until]
    OBVIOUS
  <1> HIDE DEF once
  <1> DEFINE x == once[u]
             y == [x EXCEPT !.suspended_until = until]
  <1>4. x \in [is_suspended : BOOLEAN, suspended_until : Nat \cup {None}, is_active : BOOLEAN]
    BY <1>2 DEF Accounts
  <1>5. account' = [once EXCEPT ![u] = y]
    BY <1>3
  <1> HIDE DEF x
  <1>6. /\ y \in [is_suspended : BOOLEAN, suspended_until : Nat \cup {None}, is_active : BOOLEAN]
        /\ y.is_suspended = x.is_suspended /\ y.suspended_until = until
    BY <1>4
  <1> HIDE DEF y
  <1>7. x.is_suspended = suspended
    BY <1>2 DEF x
  <1> QED BY <1>2, <1>5, <1>6, <1>7 DEF Accounts

LEMMA AdminTypes ==
  ASSUME TypeOK, NEW a \in Admins, NEW i \in Issues, Admin(a, i)
  PROVE  TypeOK'
  <1>0. /\ candidate \in Users /\ interviewer \in Users /\ candidate # interviewer
        /\ Cost \in Nat /\ wallet \in [Users -> Wallet] /\ "ACTION_TAKEN" \in Status
    BY IssueAssumption DEF IssueAssumption, Users, TypeOK, Status, ActiveStatus
  <1>1. CASE OpenIssue(a, i)
    <2>1. screen' \in [Admins -> [issue : Issues \cup {None}, seen : Status \cup {None}]]
      BY <1>1 DEF OpenIssue, TypeOK
    <2> QED BY <1>1, <2>1 DEF OpenIssue, TypeOK, session, sanctions
  <1>2. ASSUME NEW status \in Status, ChangeStatus(a, i, status) PROVE TypeOK'
    <2>1. Shown(a, i, status) /\ UNCHANGED <<now, session, moved, sanctions>>
      BY <1>2 DEF ChangeStatus
    <2> QED BY <2>1, ShownTypes DEF TypeOK, session, sanctions, IssueStates
  <1>3. ASSUME NEW amount \in 1..Cost, Refund(a, i, amount) PROVE TypeOK'
    <2>1. Shown(a, i, "ACTION_TAKEN")
      BY <1>3 DEF Refund, TakeAction
    <2>2. wallet' \in [Users -> Wallet]
      BY <1>0, <1>3, MoveTokensType DEF Refund
    <2>3. moved' \in [refunded : Nat, compensated : Nat]
      BY <1>0, <1>3 DEF Refund, TypeOK
    <2> QED BY <1>0, <1>3, <2>1, <2>2, <2>3, ShownTypes DEF Refund, TypeOK, sanctions, IssueStates
  <1>4. CASE CompensateInterviewer(a, i)
    <2>1. Shown(a, i, "ACTION_TAKEN")
      BY <1>4 DEF CompensateInterviewer, TakeAction
    <2>2. wallet' \in [Users -> Wallet]
      BY <1>0, <1>4, MoveTokensType DEF CompensateInterviewer
    <2>3. moved' \in [refunded : Nat, compensated : Nat]
      BY <1>0, <1>4 DEF CompensateInterviewer, TypeOK
    <2> QED BY <1>0, <1>4, <2>1, <2>2, <2>3, ShownTypes
            DEF CompensateInterviewer, TypeOK, sanctions, IssueStates
  <1>5. ASSUME NEW u \in Users, Suspend(a, i, u) \/ Ban(a, i, u) PROVE TypeOK'
    <2>1. Shown(a, i, "ACTION_TAKEN") /\ UNCHANGED <<now, session, moved, lifting>>
      BY <1>5 DEF Suspend, Ban, Sanction, TakeAction
    <2>2. overtaken' \subseteq Users
      BY <1>5 DEF Suspend, Ban, Sanction, TypeOK
    <2>3. now + Suspension \in Nat /\ Horizon + 1 \in Nat
      BY IssueAssumption DEF IssueAssumption, TypeOK
    <2>4. sentence' \in [Users -> Nat]
      BY <1>5, <2>3 DEF Suspend, Ban, TypeOK
    <2>5. lifts' \subseteq [user : Users, eta : Nat]
      BY <1>5, <2>3 DEF Suspend, Ban, TypeOK
    <2>6. account' \in [Users -> [is_suspended : BOOLEAN, suspended_until : Nat \cup {None},
                                  is_active : BOOLEAN]]
      <3>1. CASE Suspend(a, i, u)
        BY <2>3, <3>1, SuspendedAccount DEF Suspend, Accounts
      <3>2. CASE Ban(a, i, u)
        BY <3>2 DEF Ban, TypeOK
      <3> QED BY <1>5, <3>1, <3>2
    <2> QED BY <1>0, <2>1, <2>2, <2>4, <2>5, <2>6, ShownTypes DEF TypeOK, session, IssueStates
  <1> QED BY <1>1, <1>2, <1>3, <1>4, <1>5 DEF Admin

LEMMA OtherTypes ==
  ASSUME TypeOK,
         \/ \E i \in Issues : Report(i)
         \/ \E u \in Users : Lift(u)
         \/ Settlement
         \/ Tick
  PROVE  TypeOK'
  <1>1. ASSUME NEW i \in Issues, Report(i) PROVE TypeOK'
    <2>1. issue' \in [Issues -> IssueStates]
      BY <1>1 DEF Report, CheckRaise, CommitRaise, TypeOK, IssueStates, Status, ActiveStatus
    <2> QED BY <1>1, <2>1 DEF Report, CheckRaise, CommitRaise, TypeOK, IssueStates, session, sanctions
  <1>2. ASSUME NEW u \in Users, Lift(u) PROVE TypeOK'
    <2>1. lifting' \subseteq Users /\ lifts' \subseteq [user : Users, eta : Nat]
      BY <1>2 DEF Lift, ReadLift, SaveLift, TypeOK
    <2>2. account' \in [Users -> [is_suspended : BOOLEAN, suspended_until : Nat \cup {None},
                                  is_active : BOOLEAN]]
      <3>1. CASE SaveLift(u)
        BY <3>1, SuspendedAccount DEF SaveLift, Accounts
      <3> QED BY <1>2, <3>1 DEF Lift, ReadLift, TypeOK
    <2> QED BY <1>2, <2>1, <2>2 DEF Lift, ReadLift, SaveLift, TypeOK, session
  <1>3. CASE Settlement
    <2>1. wallet \in [Users -> Wallet]
      BY DEF TypeOK
    <2>2. wallet' \in [Users -> Wallet]
      BY <1>3, <2>1, SettlementWallets DEF Settlement, ReadEvaluation, PayInterviewer, RefundExpired
    <2>3. settled' \subseteq {"paid", "refunded"} /\ evaluating' \in BOOLEAN
      BY <1>3 DEF Settlement, ReadEvaluation, PayInterviewer, RefundExpired, TypeOK
    <2>4. payment_status' \in {"AWAITING_EVALUATION", "PAID_TO_INTERVIEWER", "REFUNDED_TO_CANDIDATE"}
      BY <1>3 DEF Settlement, ReadEvaluation, PayInterviewer, RefundExpired, TypeOK
    <2>5. UNCHANGED <<now, issue, screen, actions, moved, sanctions>>
      BY <1>3 DEF Settlement, ReadEvaluation, PayInterviewer, RefundExpired
    <2> QED BY <2>2, <2>3, <2>4, <2>5 DEF TypeOK, sanctions
  <1>4. CASE Tick
    BY <1>4 DEF Tick, TypeOK, session, sanctions
  <1> QED BY <1>1, <1>2, <1>3, <1>4

LEMMA StepTypes == TypeOK /\ [Next]_vars => TypeOK'
  <1> SUFFICES ASSUME TypeOK, [Next]_vars PROVE TypeOK'
    OBVIOUS
  <1>1. CASE UNCHANGED vars
    BY <1>1 DEF vars, session, sanctions, TypeOK
  <1> QED BY <1>1, AdminTypes, OtherTypes DEF Next

\* No order of refunds, compensations and settlements makes a balance
\* negative.
THEOREM TypesCorrect == Spec => []TypeOK
  BY InitTypes, StepTypes, PTL DEF Spec

-----------------------------------------------------------------------------
(* Reports *)

\* Whatever makes a row active checks that its raiser has no other one.
LEMMA ActiveAdded ==
  ASSUME TypeOK, OneActiveIssue, NEW i \in Issues, NEW status \in IssueStates,
         status \in ActiveStatus => UniqueActive(i),
         issue' = [issue EXCEPT ![i] = status]
  PROVE  OneActiveIssue'
  <1> SUFFICES ASSUME NEW j \in Issues, NEW k \in Issues, Raiser[j] = Raiser[k],
                      issue'[j] \in ActiveStatus, issue'[k] \in ActiveStatus
               PROVE  j = k
    BY DEF OneActiveIssue
  <1>1. \A l \in Issues : issue'[l] = IF l = i THEN status ELSE issue[l]
    BY DEF TypeOK
  <1>2. CASE j # i /\ k # i
    BY <1>1, <1>2 DEF OneActiveIssue
  <1>3. CASE j = i \/ k = i
    <2>1. UniqueActive(i)
      BY <1>1, <1>3
    <2> QED BY <1>1, <1>3, <2>1 DEF UniqueActive, ActiveBy
  <1> QED BY <1>2, <1>3

LEMMA StepOneActive == TypeOK /\ OneActiveIssue /\ [Next]_vars => OneActiveIssue'
  <1> SUFFICES ASSUME TypeOK, OneActiveIssue, [Next]_vars PROVE OneActiveIssue'
    OBVIOUS
  <1>1. ASSUME NEW i \in Issues, Report(i) PROVE OneActiveIssue'
    <2>1. PICK status \in IssueStates : /\ issue' = [issue EXCEPT ![i] = status]
                                        /\ status \in ActiveStatus => UniqueActive(i)
      BY <1>1 DEF Report, CheckRaise, CommitRaise, IssueStates, Status, ActiveStatus
    <2> QED BY <2>1, ActiveAdded
  <1>2. ASSUME NEW a \in Admins, NEW i \in Issues, Admin(a, i) PROVE OneActiveIssue'
    <2>1. CASE UNCHANGED issue
      BY <2>1 DEF OneActiveIssue
    <2>2. ASSUME NEW status \in Status, ChangeStatus(a, i, status) PROVE OneActiveIssue'
      BY <2>2, ActiveAdded DEF ChangeStatus, Shown, IssueStates
    <2>3. CASE TakeAction(a, i)
      BY <2>3, ActiveAdded DEF TakeAction, Shown, IssueStates, Status, ActiveStatus
    <2> QED BY <1>2, <2>1, <2>2, <2>3
            DEF Admin, OpenIssue, Refund, CompensateInterviewer, Suspend, Ban, Sanction
  <1>3. CASE UNCHANGED issue
    BY <1>3 DEF OneActiveIssue
  <1>4. CASE (\E u \in Users : Lift(u)) \/ Settlement \/ Tick \/ UNCHANGED vars
    BY <1>3, <1>4 DEF Lift, ReadLift, SaveLift, Settlement, ReadEvaluation, PayInterviewer,
                      RefundExpired, Tick, vars
  <1> QED BY <1>1, <1>2, <1>4 DEF Next

\* No tab and no admin makes a second active report of one person, however
\* many reports and admins there are.
THEOREM ActiveReportUnique == Spec => []OneActiveIssue
  <1>1. Init => OneActiveIssue
    BY DEF Init, OneActiveIssue, ActiveStatus
  <1> QED BY <1>1, TypesCorrect, StepOneActive, PTL DEF Spec

-----------------------------------------------------------------------------
(* Balances *)

LEMMA InitBalances == Init => BalancesExplained
  BY IssueAssumption DEF IssueAssumption, Init, BalancesExplained, Users

LEMMA AdminBalances ==
  ASSUME TypeOK, BalancesExplained, NEW a \in Admins, NEW i \in Issues, Admin(a, i)
  PROVE  BalancesExplained'
  <1>0. /\ candidate \in Users /\ interviewer \in Users /\ candidate # interviewer
        /\ Cost \in Nat \ {0} /\ InitialBalance \in Nat /\ wallet \in [Users -> Wallet]
        /\ moved \in [refunded : Nat, compensated : Nat]
    BY IssueAssumption DEF IssueAssumption, Users, TypeOK
  <1>1. CASE UNCHANGED <<wallet, settled, moved>>
    BY <1>1 DEF BalancesExplained
  <1>2. ASSUME NEW amount \in 1..Cost, Refund(a, i, amount) PROVE BalancesExplained'
    <2>1. /\ amount \in Nat /\ amount <= wallet[interviewer].balance
          /\ wallet' = MoveTokens(wallet, interviewer, candidate, amount)
          /\ moved' = [moved EXCEPT !.refunded = @ + amount] /\ UNCHANGED settled
      BY <1>0, <1>2 DEF Refund
    <2>2. /\ wallet'[interviewer].balance = wallet[interviewer].balance - amount
          /\ wallet'[candidate].balance = wallet[candidate].balance + amount
          /\ wallet'[candidate].locked_balance = wallet[candidate].locked_balance
      BY <1>0, <2>1, MoveTokensType
    <2>3. moved'.refunded = moved.refunded + amount /\ moved'.compensated = moved.compensated
      BY <1>0, <2>1
    <2>4. /\ wallet[interviewer].balance \in Nat /\ wallet[candidate].balance \in Nat
          /\ moved.refunded \in Nat /\ moved.compensated \in Nat
      BY <1>0 DEF Wallet
    <2> QED BY <1>0, <2>1, <2>2, <2>3, <2>4 DEF BalancesExplained
  <1>3. CASE CompensateInterviewer(a, i)
    <2>1. /\ Cost <= wallet[candidate].balance
          /\ wallet' = MoveTokens(wallet, candidate, interviewer, Cost)
          /\ moved' = [moved EXCEPT !.compensated = @ + Cost] /\ UNCHANGED settled
      BY <1>3 DEF CompensateInterviewer
    <2>2. /\ wallet'[candidate].balance = wallet[candidate].balance - Cost
          /\ wallet'[interviewer].balance = wallet[interviewer].balance + Cost
          /\ wallet'[candidate].locked_balance = wallet[candidate].locked_balance
      BY <1>0, <2>1, MoveTokensType
    <2>3. moved'.compensated = moved.compensated + Cost /\ moved'.refunded = moved.refunded
      BY <1>0, <2>1
    <2>4. /\ wallet[interviewer].balance \in Nat /\ wallet[candidate].balance \in Nat
          /\ moved.refunded \in Nat /\ moved.compensated \in Nat
      BY <1>0 DEF Wallet
    <2> QED BY <1>0, <2>1, <2>2, <2>3, <2>4 DEF BalancesExplained
  <1>4. ASSUME NEW u \in Users, Suspend(a, i, u) \/ Ban(a, i, u) PROVE BalancesExplained'
    BY <1>1, <1>4 DEF Suspend, Ban, Sanction, session
  <1> QED BY <1>1, <1>2, <1>3, <1>4 DEF Admin, OpenIssue, ChangeStatus, session

\* A settled booking leaves no locked tokens for a second settlement.
LEMMA SettlementBalances ==
  ASSUME TypeOK, BalancesExplained, Settlement
  PROVE  BalancesExplained'
  <1>0. /\ Cost \in Nat \ {0} /\ InitialBalance \in Nat /\ wallet \in [Users -> Wallet]
        /\ candidate \in Users /\ interviewer \in Users
        /\ settled \subseteq {"paid", "refunded"}
    BY IssueAssumption DEF IssueAssumption, Users, TypeOK
  <1>1. CASE UNCHANGED <<wallet, settled, moved>>
    BY <1>1 DEF BalancesExplained
  <1>2. ASSUME CanTakeLocked(wallet, candidate, Cost) PROVE settled = {}
    <2>1. wallet[candidate].locked_balance >= Cost
      BY <1>2 DEF CanTakeLocked
    <2> QED BY <1>0, <2>1 DEF BalancesExplained
  <1>3. CASE wallet' # wallet
    <2>1. CanTakeLocked(wallet, candidate, Cost) /\ UNCHANGED moved
      BY <1>3 DEF Settlement, ReadEvaluation, PayInterviewer, RefundExpired
    <2>2. settled = {}
      BY <1>2, <2>1
    <2>3. /\ wallet[interviewer].balance \in Nat /\ wallet[candidate].balance \in Nat
          /\ moved.refunded \in Nat /\ moved.compensated \in Nat
      BY <1>0 DEF Wallet, TypeOK
    <2>6. /\ wallet[candidate].locked_balance = Cost
          /\ wallet[interviewer].balance = InitialBalance - moved.refunded + moved.compensated
          /\ wallet[candidate].balance = InitialBalance + moved.refunded - moved.compensated
      BY <1>0, <2>2, <2>3 DEF BalancesExplained
    <2>4. CASE /\ wallet' = TransferLockedTokens(wallet, candidate, interviewer, Cost)
               /\ settled' = {"paid"}
      <3>1. /\ wallet'[candidate].locked_balance = 0
            /\ wallet'[interviewer].balance = wallet[interviewer].balance + Cost
            /\ wallet'[candidate].balance = wallet[candidate].balance
        BY <1>0, <2>1, <2>6, <2>4, SettlementWallets
      <3>2. /\ settled' # {"paid", "refunded"} /\ settled' # {}
            /\ "paid" \in settled' /\ "refunded" \notin settled'
        BY <2>4
      <3> QED BY <1>0, <2>1, <2>3, <2>6, <3>1, <3>2 DEF BalancesExplained
    <2>5. CASE wallet' = UnlockTokens(wallet, candidate, Cost) /\ settled' = {"refunded"}
      <3>1. /\ wallet'[candidate].locked_balance = 0
            /\ wallet'[candidate].balance = wallet[candidate].balance + Cost
            /\ wallet'[interviewer].balance = wallet[interviewer].balance
        BY <1>0, <2>1, <2>6, <2>5, SettlementWallets
      <3>2. /\ settled' # {"paid", "refunded"} /\ settled' # {}
            /\ "refunded" \in settled' /\ "paid" \notin settled'
        BY <2>5
      <3> QED BY <1>0, <2>1, <2>3, <2>6, <3>1, <3>2 DEF BalancesExplained
    <2> QED BY <1>3, <2>2, <2>4, <2>5 DEF Settlement, ReadEvaluation, PayInterviewer, RefundExpired
  <1>4. CASE wallet' = wallet
    <2>1. CASE CanTakeLocked(wallet, candidate, Cost) /\ (PayInterviewer \/ RefundExpired)
      <3>1. wallet'[candidate].locked_balance = wallet[candidate].locked_balance - Cost
        BY <1>0, <2>1, SettlementWallets DEF PayInterviewer, RefundExpired
      <3> QED BY <1>0, <1>4, <3>1 DEF Wallet
    <2> QED BY <1>1, <1>4, <2>1 DEF Settlement, ReadEvaluation, PayInterviewer, RefundExpired
  <1> QED BY <1>3, <1>4

LEMMA StepBalances == TypeOK /\ BalancesExplained /\ [Next]_vars => BalancesExplained'
  <1> SUFFICES ASSUME TypeOK, BalancesExplained, [Next]_vars PROVE BalancesExplained'
    OBVIOUS
  <1>1. CASE UNCHANGED <<wallet, settled, moved>>
    BY <1>1 DEF BalancesExplained
  <1>2. CASE \/ \E i \in Issues : Report(i)
             \/ \E u \in Users : Lift(u)
             \/ Tick
             \/ UNCHANGED vars
    BY <1>1, <1>2 DEF Report, CheckRaise, CommitRaise, Lift, ReadLift, SaveLift, Tick, vars, session
  <1> QED BY <1>2, AdminBalances, SettlementBalances DEF Next

\* Refunds by admins, the interviewer's payment and the refund at the
\* deadline, in any order: each token is accounted for, once.
THEOREM BalancesCorrect == Spec => []BalancesExplained
  BY InitBalances, TypesCorrect, StepBalances, PTL DEF Spec

-----------------------------------------------------------------------------
(* Sanctions *)

\* Why a sanction lasts: the account keeps the last end an admin gave it, or
\* none, and a task that is lifting it has seen that end pass, unless the
\* sanction came in between.
Sentenced(u) ==
    /\ now < sentence[u] => account[u].is_suspended
    /\ account[u].is_suspended /\ account[u].suspended_until # None
          => sentence[u] = account[u].suspended_until
    /\ u \in lifting => sentence[u] <= now

Sentences == \A u \in Users \ overtaken : Sentenced(u)

LEMMA SanctionSentences ==
  ASSUME TypeOK, Sentences, NEW a \in Admins, NEW i \in Issues, NEW v \in Users,
         Suspend(a, i, v) \/ Ban(a, i, v)
  PROVE  Sentences'
  <1> SUFFICES ASSUME NEW u \in Users \ overtaken' PROVE Sentenced(u)'
    BY DEF Sentences
  <1>1. /\ overtaken' = overtaken \cup ({v} \cap lifting)
        /\ UNCHANGED <<now, lifting>> /\ now \in Nat
    BY DEF Suspend, Ban, Sanction, TypeOK
  <1>2. now + Suspension \in Nat /\ None \notin Nat
    BY <1>1, IssueAssumption DEF IssueAssumption, TypeOK
  <1>3. CASE u # v
    <2>1. account'[u] = account[u] /\ sentence'[u] = sentence[u]
      BY <1>2, <1>3, SuspendedAccount DEF Suspend, Ban, TypeOK
    <2> QED BY <1>1, <2>1 DEF Sentences, Sentenced
  <1>4. CASE u = v
    <2>1. u \notin lifting
      BY <1>1, <1>4
    <2>2. CASE Suspend(a, i, v)
      <3>1. /\ account'[u].is_suspended /\ account'[u].suspended_until = now + Suspension
            /\ sentence'[u] = now + Suspension
        <4>1. /\ account' = [account EXCEPT ![u].is_suspended = TRUE,
                                            ![u].suspended_until = now + Suspension]
              /\ sentence' = [sentence EXCEPT ![u] = now + Suspension]
          BY <1>4, <2>2 DEF Suspend
        <4>2. sentence'[u] = now + Suspension
          BY <4>1 DEF TypeOK
        <4> QED BY <1>2, <4>1, <4>2, SuspendedAccount
      <3> QED BY <1>1, <2>1, <3>1 DEF Sentenced
    <2>3. CASE Ban(a, i, v)
      <3>1. account'[u].is_suspended /\ account'[u].suspended_until = None
        BY <1>4, <2>3 DEF Ban, TypeOK
      <3> QED BY <1>1, <2>1, <3>1 DEF Sentenced
    <2> QED BY <2>2, <2>3
  <1> QED BY <1>3, <1>4

\* A task reads an account whose end has passed, and lifts no other.
LEMMA LiftSentences ==
  ASSUME TypeOK, Sentences, NEW v \in Users, Lift(v)
  PROVE  Sentences'
  <1> SUFFICES ASSUME NEW u \in Users \ overtaken PROVE Sentenced(u)'
    BY DEF Sentences, Lift, ReadLift, SaveLift
  <1>1. Sentenced(u) /\ now \in Nat /\ sentence[u] \in Nat
    BY DEF Sentences, TypeOK
  <1>2. ASSUME NEW l \in lifts, l.user = v, ReadLift(l) PROVE Sentenced(u)'
    <2>1. UNCHANGED <<now, account, sentence>>
      BY <1>2 DEF ReadLift
    <2>2. u \in lifting' => u \in lifting \/ Due(u)
      BY <1>2 DEF ReadLift
    <2> QED BY <1>1, <2>1, <2>2 DEF Sentenced, Due
  <1>3. CASE SaveLift(v)
    <2>1. lifting' = lifting \ {v} /\ UNCHANGED <<now, sentence>> /\ v \in lifting
      BY <1>3 DEF SaveLift
    <2>2. CASE u # v
      <3>1. account'[u] = account[u]
        BY <1>3, <2>2, SuspendedAccount DEF SaveLift
      <3> QED BY <1>1, <2>1, <2>2, <3>1 DEF Sentenced
    <2>3. CASE u = v
      <3>1. account'[u].is_suspended = FALSE
        BY <1>3, <2>3, SuspendedAccount DEF SaveLift
      <3> QED BY <1>1, <2>1, <2>3, <3>1 DEF Sentenced
    <2> QED BY <2>2, <2>3
  <1> QED BY <1>2, <1>3 DEF Lift

LEMMA StepSentences == TypeOK /\ Sentences /\ [Next]_vars => Sentences'
  <1> SUFFICES ASSUME TypeOK, Sentences, [Next]_vars PROVE Sentences'
    OBVIOUS
  <1>1. CASE UNCHANGED <<now, account, sentence, lifting, overtaken>>
    BY <1>1 DEF Sentences, Sentenced
  <1>2. CASE (\E i \in Issues : Report(i)) \/ Settlement \/ UNCHANGED vars
    BY <1>1, <1>2 DEF Report, CheckRaise, CommitRaise, Settlement, ReadEvaluation,
                      PayInterviewer, RefundExpired, vars, sanctions
  <1>3. ASSUME NEW a \in Admins, NEW i \in Issues, Admin(a, i) PROVE Sentences'
    BY <1>1, <1>3, SanctionSentences
    DEF Admin, OpenIssue, ChangeStatus, Refund, CompensateInterviewer, sanctions
  <1>4. CASE Tick
    <2>1. now \in Nat /\ now' = now + 1 /\ UNCHANGED <<account, sentence, lifting, overtaken>>
      BY <1>4 DEF Tick, TypeOK, sanctions
    <2>2. \A u \in Users : sentence[u] \in Nat
      BY DEF TypeOK
    <2> QED BY <2>1, <2>2 DEF Sentences, Sentenced
  <1> QED BY <1>2, <1>3, <1>4, LiftSentences DEF Next

\* A late or repeated task of an earlier suspension never ends a later one,
\* for any number of suspensions and tasks, if it did not read the account
\* before it.
THEOREM SanctionLasts == Spec => []SanctionServed
  <1>1. Init => Sentences
    BY DEF Init, Sentences, Sentenced
  <1>2. Sentences => SanctionServed
    BY DEF Sentences, Sentenced, SanctionServed
  <1> QED BY <1>1, <1>2, TypesCorrect, StepSentences, PTL DEF Spec

=============================================================================
