----------------------- MODULE RuntimeOwnershipProofs -----------------------
(***************************************************************************)
(* Proofs about RuntimeOwnership, for any agents, questions and lease:     *)
(* types, one lease at a time while no two saves cross, and no turn        *)
(* skipped.  And about the interview that the runtime conducts,            *)
(* AiInterview, for any questions, retries and faults: types, a generated  *)
(* report is kept, and nothing is forgotten.                               *)
(***************************************************************************)
EXTENDS RuntimeOwnership, AiInterview, TLAPS

\* A runtime that has asked has a question left to count.
AskedWithin == \A r \in Runtimes : at[r] = "asked" => index[r] < Planned

TypeInv == TypeOK /\ AskedWithin

\* What a row or a runtime says was answered was recorded.
Recorded(i) == i = 0 \/ i \in turns

TurnsInv ==
    /\ Recorded(row.index)
    /\ \A r \in Runtimes : /\ Recorded(index[r])
                           /\ task[r] # NoRequest => Recorded(task[r].saw.index)
                           /\ beat[r] # NoRequest => Recorded(beat[r].saw.index)
    /\ NoTurnSkipped

\* A lease that was given and runs is the one in the row.
LeaseInv ==
    ~crossed => \A r \in Runtimes : grant[r] > now => row.owner = r /\ row.expires = grant[r]

-----------------------------------------------------------------------------

LEMMA InitTypes == Init => TypeInv
  <1> SUFFICES ASSUME Init PROVE TypeInv
    OBVIOUS
  <1>1. row \in Rows /\ 0 \in Indexes
    BY RuntimeAssumption DEF RuntimeAssumption, Init, Rows, Indexes
  <1>2. /\ task \in [Runtimes -> Pending({"acquire", "patch", "release"})]
        /\ beat \in [Runtimes -> Pending({"beat"})]
    BY DEF Init, Pending
  <1>3. at \in [Runtimes -> Places] /\ AskedWithin
    BY DEF Init, Places, AskedWithin
  <1> QED BY <1>1, <1>2, <1>3 DEF Init, TypeInv, TypeOK

\* The row after a request that saw a row was served.
LEMMA ExtendTypes ==
  ASSUME TypeOK, NEW r \in Runtimes, NEW saw \in Rows, NEW new \in Rows, Extend(r, saw, new)
  PROVE  row' \in Rows /\ grant' \in [Runtimes -> Nat] /\ crossed' \in BOOLEAN
  BY RuntimeAssumption DEF RuntimeAssumption, TypeOK, Rows, Extend, Save

LEMMA SeenByTask ==
  ASSUME TypeOK, NEW r \in Runtimes, NEW kind, Served(r, kind), kind # "none"
  PROVE  /\ task[r].saw \in Rows /\ task[r] # NoRequest
         /\ task' \in [Runtimes -> Pending({"acquire", "patch", "release"})]
  BY DEF TypeOK, Served, Pending, NoRequest

LEMMA SentTypes ==
  ASSUME TypeOK, NEW r \in Runtimes, NEW kind \in {"acquire", "patch", "release"}, Send(r, kind)
  PROVE  task' \in [Runtimes -> Pending({"acquire", "patch", "release"})]
  BY DEF TypeOK, Send, Pending, NoRequest

LEMMA GoesTypes ==
  ASSUME TypeOK, NEW r \in Runtimes, NEW place \in Places, Goes(r, place)
  PROVE  /\ at' \in [Runtimes -> Places]
         /\ \A s \in Runtimes : at'[s] = "asked" => at[s] = "asked" \/ (s = r /\ place = "asked")
  BY DEF TypeOK, Goes, Places

LEMMA InterviewTypes ==
  ASSUME TypeInv, NEW r \in Runtimes, Interview(r)
  PROVE  TypeInv'
  <1> USE DEF TypeInv
  <1>1. CASE Load(r)
    <2>1. at' \in [Runtimes -> Places] /\ \A s \in Runtimes : at'[s] = "asked" => at[s] = "asked" /\ s # r
      BY <1>1 DEF Load, Goes, TypeOK, Places
    <2>2. index' \in [Runtimes -> Indexes]
      BY <1>1, RuntimeAssumption DEF RuntimeAssumption, Load, TypeOK, Rows, Indexes
    <2>3. AskedWithin'
      BY <1>1, <2>1 DEF Load, AskedWithin, TypeOK
    <2> QED BY <1>1, <2>1, <2>2, <2>3 DEF Load, TypeOK, requests
  <1>2. CASE AskQuestion(r)
    <2>1. at' \in [Runtimes -> Places]
      BY <1>2 DEF AskQuestion, Goes, TypeOK, Places
    <2>2. AskedWithin'
      BY <1>2 DEF AskQuestion, Goes, AskedWithin, TypeOK
    <2> QED BY <1>2, <2>1, <2>2 DEF AskQuestion, TypeOK, requests
  <1>3. CASE PostTurn(r)
    <2>1. index[r] \in Nat /\ index[r] + 1 \in 1..Planned /\ index[r] + 1 \in Indexes
      BY <1>3, RuntimeAssumption DEF RuntimeAssumption, PostTurn, AskedWithin, TypeOK, Indexes
    <2>2. turns' \subseteq 1..Planned
      BY <1>3, <2>1 DEF PostTurn, Finalize, TypeOK
    <2>3. at' \in [Runtimes -> Places] /\ index' \in [Runtimes -> Indexes]
      BY <1>3, <2>1 DEF PostTurn, Finalize, Goes, TypeOK, Places
    <2>4. AskedWithin'
      BY <1>3 DEF PostTurn, Finalize, Goes, AskedWithin, TypeOK
    <2> QED BY <1>3, <2>2, <2>3, <2>4 DEF PostTurn, TypeOK, requests
  <1>4. CASE Sync(r)
    <2>1. task' \in [Runtimes -> Pending({"acquire", "patch", "release"})]
      BY <1>4, SentTypes DEF Sync, TypeOK
    <2>2. at' \in [Runtimes -> Places] /\ AskedWithin'
      BY <1>4 DEF Sync, Goes, TypeOK, Places, AskedWithin
    <2> QED BY <1>4, <2>1, <2>2 DEF Sync, TypeOK
  <1>5. CASE Stop(r)
    <2>1. task' \in [Runtimes -> Pending({"acquire", "patch", "release"})]
      BY <1>5, SentTypes DEF Stop
    <2>2. at' \in [Runtimes -> Places] /\ AskedWithin'
      BY <1>5 DEF Stop, Goes, TypeOK, Places, AskedWithin
    <2>3. beating' \in [Runtimes -> BOOLEAN]
      BY <1>5 DEF Stop, TypeOK
    <2> QED BY <1>5, <2>1, <2>2, <2>3 DEF Stop, TypeOK
  <1> QED BY <1>1, <1>2, <1>3, <1>4, <1>5 DEF Interview

LEMMA ServerTypes ==
  ASSUME TypeInv, NEW r \in Runtimes, Server(r)
  PROVE  TypeInv'
  <1> USE DEF TypeInv
  <1>1. CASE Acquired(r)
    <2>1. task[r].saw \in Rows /\ task' \in [Runtimes -> Pending({"acquire", "patch", "release"})]
      BY <1>1, SeenByTask DEF Acquired
    <2>2. at' \in [Runtimes -> Places] /\ AskedWithin'
      BY <1>1 DEF Acquired, Goes, TypeOK, Places, AskedWithin
    <2>3. beating' \in [Runtimes -> BOOLEAN]
      BY <1>1 DEF Acquired, TypeOK
    <2>4. row' \in Rows /\ grant' \in [Runtimes -> Nat] /\ crossed' \in BOOLEAN
      <3>1. [task[r].saw EXCEPT !.owner = r] \in Rows
        BY <2>1 DEF Rows
      <3> QED BY <1>1, <2>1, <3>1, ExtendTypes DEF Acquired, Keep, TypeOK
    <2> QED BY <1>1, <2>1, <2>2, <2>3, <2>4 DEF Acquired, TypeOK
  <1>2. CASE Synced(r)
    <2>1. task[r].saw \in Rows /\ task' \in [Runtimes -> Pending({"acquire", "patch", "release"})]
      BY <1>2, SeenByTask DEF Synced
    <2>2. at' \in [Runtimes -> Places] /\ AskedWithin'
      BY <1>2 DEF Synced, Goes, TypeOK, Places, AskedWithin
    <2>3. [task[r].saw EXCEPT !.index = index[r]] \in Rows
      BY <2>1 DEF Rows, TypeOK
    <2>4. row' \in Rows /\ crossed' \in BOOLEAN
      BY <1>2, <2>3 DEF Synced, Save, Keep, TypeOK
    <2> QED BY <1>2, <2>1, <2>2, <2>4 DEF Synced, TypeOK
  <1>3. CASE Released(r)
    <2>1. task[r].saw \in Rows /\ task' \in [Runtimes -> Pending({"acquire", "patch", "release"})]
      BY <1>3, SeenByTask DEF Released
    <2>2. [task[r].saw EXCEPT !.owner = None, !.expires = 0] \in Rows
      BY <2>1 DEF Rows
    <2>3. row' \in Rows /\ crossed' \in BOOLEAN
      BY <1>3, <2>2 DEF Released, Save, Keep, TypeOK
    <2>4. grant' \in [Runtimes -> Nat]
      BY <1>3 DEF Released, TypeOK
    <2> QED BY <1>3, <2>1, <2>3, <2>4 DEF Released, TypeOK, runtime, AskedWithin
  <1> QED BY <1>1, <1>2, <1>3 DEF Server

LEMMA RenewedTypes ==
  ASSUME TypeInv, NEW r \in Runtimes, Renewed(r)
  PROVE  TypeInv'
  <1> USE DEF TypeInv
  <1>1. beat[r].saw \in Rows /\ beat' \in [Runtimes -> Pending({"beat"})]
    BY DEF Renewed, TypeOK, Pending, NoRequest
  <1>2. row' \in Rows /\ grant' \in [Runtimes -> Nat] /\ crossed' \in BOOLEAN
    BY <1>1, ExtendTypes DEF Renewed, Keep, TypeOK
  <1>3. beating' \in [Runtimes -> BOOLEAN]
    BY DEF Renewed, TypeOK
  <1> QED BY <1>1, <1>2, <1>3 DEF Renewed, TypeOK, AskedWithin

LEMMA OtherTypes ==
  ASSUME TypeInv, NEW r \in Runtimes, Acquire(r) \/ Heartbeat(r) \/ Crash(r)
  PROVE  TypeInv'
  <1> USE DEF TypeInv
  <1>1. CASE Acquire(r)
    <2>1. task' \in [Runtimes -> Pending({"acquire", "patch", "release"})]
      BY <1>1, SentTypes DEF Acquire
    <2>2. at' \in [Runtimes -> Places] /\ AskedWithin'
      BY <1>1 DEF Acquire, Goes, TypeOK, Places, AskedWithin
    <2> QED BY <1>1, <2>1, <2>2 DEF Acquire, TypeOK
  <1>2. CASE Heartbeat(r)
    <2>1. beat' \in [Runtimes -> Pending({"beat"})]
      BY <1>2 DEF Heartbeat, TypeOK, Pending
    <2> QED BY <1>2, <2>1 DEF Heartbeat, TypeOK, AskedWithin, runtime
  <1>3. CASE Crash(r)
    <2>1. at' \in [Runtimes -> Places] /\ AskedWithin'
      BY <1>3 DEF Crash, Goes, TypeOK, Places, AskedWithin
    <2>2. beating' \in [Runtimes -> BOOLEAN]
      BY <1>3 DEF Crash, TypeOK
    <2> QED BY <1>3, <2>1, <2>2 DEF Crash, TypeOK, requests
  <1> QED BY <1>1, <1>2, <1>3

LEMMA StepTypes == TypeInv /\ [Next]_vars => TypeInv'
  <1> SUFFICES ASSUME TypeInv, [Next]_vars PROVE TypeInv'
    OBVIOUS
  <1>1. CASE UNCHANGED vars
    BY <1>1 DEF vars, runtime, requests, TypeInv, TypeOK, AskedWithin
  <1>2. CASE Tick
    BY <1>2 DEF Tick, runtime, requests, TypeInv, TypeOK, AskedWithin
  <1>3. ASSUME NEW r \in Runtimes,
               Interview(r) \/ Server(r) \/ Heartbeats(r) \/ Acquire(r) \/ Crash(r)
        PROVE  TypeInv'
    BY <1>3, InterviewTypes, ServerTypes, RenewedTypes, OtherTypes DEF Heartbeats
  <1> QED BY <1>1, <1>2, <1>3 DEF Next

\* Rows, requests, leases and recorded turns keep their types, and no runtime
\* counts more questions than the interview has (FairSpec implies Spec).
THEOREM TypesCorrect == Spec => []TypeOK
  <1>1. Spec => []TypeInv
    BY InitTypes, StepTypes, PTL DEF Spec
  <1>2. TypeInv => TypeOK
    BY DEF TypeInv
  <1> QED BY <1>1, <1>2, PTL

-----------------------------------------------------------------------------

LEMMA InitLease == Init => LeaseInv
  BY DEF Init, LeaseInv

\* A save that crossed no other one had read the row it overwrites.
LEMMA StepLease == TypeInv /\ LeaseInv /\ [Next]_vars => LeaseInv'
  <1> SUFFICES ASSUME TypeInv, LeaseInv, [Next]_vars, ~crossed' PROVE LeaseInv'
    BY DEF LeaseInv
  <1>0. TypeOK
    BY DEF TypeInv
  <1>1. CASE UNCHANGED vars
    BY <1>1 DEF vars, LeaseInv
  <1>2. CASE Tick
    BY <1>0, <1>2 DEF Tick, LeaseInv, TypeOK
  <1>3. ASSUME NEW r \in Runtimes, Interview(r) \/ Acquire(r) \/ Heartbeat(r) \/ Crash(r)
        PROVE  LeaseInv'
    <2>1. UNCHANGED <<row, grant, now, crossed>>
      BY <1>3 DEF Interview, Load, AskQuestion, PostTurn, Sync, Stop, Acquire, Heartbeat, Crash
    <2> QED BY <2>1 DEF LeaseInv
  <1>4. ASSUME NEW r \in Runtimes, Acquired(r) PROVE LeaseInv'
    <2>1. CASE MayTake(task[r].saw, r)
      <3>1. /\ ~crossed /\ row = task[r].saw /\ now' = now
            /\ row' = [[row EXCEPT !.owner = r] EXCEPT !.expires = now + Lease]
            /\ grant' = [grant EXCEPT ![r] = now + Lease]
        BY <1>4, <2>1 DEF Acquired, Extend, Save
      <3>2. row \in Rows /\ grant \in [Runtimes -> Nat] /\ now \in Nat
        BY <1>0 DEF TypeOK
      <3>3. row'.owner = r /\ row'.expires = now + Lease
        BY <3>1, <3>2 DEF Rows
      <3>4. \A s \in Runtimes \ {r} : ~ grant[s] > now
        BY <2>1, <3>1, <3>2, RuntimeAssumption DEF MayTake, LeaseInv, Rows, RuntimeAssumption
      <3> QED BY <3>1, <3>2, <3>3, <3>4 DEF LeaseInv
    <2>2. CASE ~MayTake(task[r].saw, r)
      BY <1>4, <2>2 DEF Acquired, Keep, LeaseInv
    <2> QED BY <2>1, <2>2
  <1>5. ASSUME NEW r \in Runtimes, Synced(r) PROVE LeaseInv'
    <2>1. CASE Valid(task[r].saw, r)
      <3>1. /\ ~crossed /\ UNCHANGED <<now, grant>>
            /\ row' = [row EXCEPT !.index = index[r]]
        BY <1>5, <2>1 DEF Synced, Save
      <3>2. row'.owner = row.owner /\ row'.expires = row.expires
        BY <1>0, <3>1 DEF TypeOK, Rows
      <3> QED BY <3>1, <3>2 DEF LeaseInv
    <2>2. CASE ~Valid(task[r].saw, r)
      BY <1>5, <2>2 DEF Synced, Keep, LeaseInv
    <2> QED BY <2>1, <2>2
  <1>6. ASSUME NEW r \in Runtimes, Released(r) PROVE LeaseInv'
    <2>1. /\ now' = now /\ now \in Nat /\ grant \in [Runtimes -> Nat]
          /\ grant' = [grant EXCEPT ![r] = 0]
      BY <1>0, <1>6 DEF Released, TypeOK
    <2>2. CASE task[r].saw.owner = r
      <3>1. ~crossed /\ row.owner = r
        BY <1>6, <2>2 DEF Released, Save
      <3>2. \A s \in Runtimes \ {r} : ~ grant[s] > now
        BY <3>1 DEF LeaseInv
      <3> QED BY <2>1, <3>2 DEF LeaseInv
    <2>3. CASE task[r].saw.owner # r
      <3>1. UNCHANGED <<row, crossed>>
        BY <1>6, <2>3 DEF Released, Keep
      <3> QED BY <2>1, <3>1 DEF LeaseInv
    <2> QED BY <2>2, <2>3
  <1>7. ASSUME NEW r \in Runtimes, Renewed(r) PROVE LeaseInv'
    <2>1. CASE Valid(beat[r].saw, r)
      <3>1. /\ ~crossed /\ row = beat[r].saw /\ now' = now
            /\ row' = [row EXCEPT !.expires = now + Lease]
            /\ grant' = [grant EXCEPT ![r] = now + Lease]
        BY <1>7, <2>1 DEF Renewed, Extend, Save
      <3>2. row \in Rows /\ grant \in [Runtimes -> Nat] /\ now \in Nat
        BY <1>0 DEF TypeOK
      <3>3. row'.owner = r /\ row'.expires = now + Lease
        BY <2>1, <3>1, <3>2 DEF Rows, Valid
      <3>4. \A s \in Runtimes \ {r} : ~ grant[s] > now
        BY <2>1, <3>1 DEF Valid, LeaseInv
      <3> QED BY <3>1, <3>2, <3>3, <3>4 DEF LeaseInv
    <2>2. CASE ~Valid(beat[r].saw, r)
      BY <1>7, <2>2 DEF Renewed, Keep, LeaseInv
    <2> QED BY <2>1, <2>2
  <1> QED BY <1>1, <1>2, <1>3, <1>4, <1>5, <1>6, <1>7 DEF Next, Server, Heartbeats

LEMMA LeaseSuffices == LeaseInv => OneLease
  BY DEF LeaseInv, OneLease

\* The acquire, heartbeat and release views never let two runtimes hold the
\* interview at a time, except through a save that undoes another one's.
THEOREM LeaseExclusive == Spec => []OneLease
  <1>1. Spec => []TypeInv
    BY InitTypes, StepTypes, PTL DEF Spec
  <1>2. Spec => []LeaseInv
    BY <1>1, InitLease, StepLease, PTL DEF Spec
  <1> QED BY <1>2, LeaseSuffices, PTL

-----------------------------------------------------------------------------

LEMMA InitTurns == Init => TurnsInv
  BY DEF Init, TurnsInv, Recorded, NoTurnSkipped

\* What was recorded stays recorded.
LEMMA StillRecorded ==
  ASSUME turns \subseteq turns', NEW i, Recorded(i)
  PROVE  Recorded(i)'
  BY DEF Recorded

LEMMA StepTurns == TypeInv /\ TurnsInv /\ [Next]_vars => TurnsInv'
  <1> SUFFICES ASSUME TypeInv, TurnsInv, [Next]_vars PROVE TurnsInv'
    OBVIOUS
  <1>0. TypeOK
    BY DEF TypeInv
  <1>1. CASE UNCHANGED vars
    BY <1>1 DEF vars, runtime, requests, TurnsInv, Recorded, NoTurnSkipped
  <1>2. CASE Tick
    BY <1>2 DEF Tick, runtime, requests, TurnsInv, Recorded, NoTurnSkipped
  <1>3. ASSUME NEW r \in Runtimes, PostTurn(r) PROVE TurnsInv'
    <2>1. index[r] \in Nat /\ index \in [Runtimes -> Indexes]
      BY <1>0, RuntimeAssumption DEF TypeOK, Indexes, RuntimeAssumption
    <2>2. turns \subseteq turns' /\ turns' \subseteq turns \cup {index[r] + 1}
      BY <1>3 DEF PostTurn, Finalize
    <2>3. NoTurnSkipped'
      <3> SUFFICES ASSUME NEW k \in turns' PROVE k = 1 \/ k - 1 \in turns'
        BY DEF NoTurnSkipped
      <3>1. CASE k \in turns
        BY <2>2, <3>1 DEF TurnsInv, NoTurnSkipped
      <3>2. CASE k = index[r] + 1
        BY <2>1, <2>2, <3>2 DEF TurnsInv, Recorded
      <3> QED BY <2>2, <3>1, <3>2
    <2>4. \A s \in Runtimes : Recorded(index[s])'
      BY <1>3, <2>1, <2>2 DEF PostTurn, Finalize, TurnsInv, Recorded
    <2>5. UNCHANGED <<row, task, beat>>
      BY <1>3 DEF PostTurn, requests
    <2> QED BY <2>2, <2>3, <2>4, <2>5 DEF TurnsInv, Recorded
  <1>4. ASSUME NEW r \in Runtimes, Load(r) PROVE TurnsInv'
    <2>1. \A s \in Runtimes : Recorded(index'[s])
      BY <1>0, <1>4 DEF Load, TypeOK, TurnsInv, Recorded
    <2> QED BY <1>4, <2>1 DEF Load, requests, TurnsInv, Recorded, NoTurnSkipped
  <1>5. ASSUME NEW r \in Runtimes, AskQuestion(r) \/ Crash(r) PROVE TurnsInv'
    BY <1>5 DEF AskQuestion, Crash, requests, TurnsInv, Recorded, NoTurnSkipped
  <1>6. ASSUME NEW r \in Runtimes, Acquire(r) \/ Sync(r) \/ Stop(r) PROVE TurnsInv'
    <2>1. UNCHANGED <<row, turns, index, beat>>
      BY <1>6 DEF Acquire, Sync, Stop
    <2>2. \A s \in Runtimes : task'[s] # NoRequest => Recorded(task'[s].saw.index)
      BY <1>0, <1>6 DEF Acquire, Sync, Stop, Send, TypeOK, TurnsInv, Recorded
    <2> QED BY <2>1, <2>2 DEF TurnsInv, Recorded, NoTurnSkipped
  <1>7. ASSUME NEW r \in Runtimes, Heartbeat(r) PROVE TurnsInv'
    <2>1. UNCHANGED <<row, turns, index, task>>
      BY <1>7 DEF Heartbeat, runtime
    <2>2. \A s \in Runtimes : beat'[s] # NoRequest => Recorded(beat'[s].saw.index)
      BY <1>0, <1>7 DEF Heartbeat, TypeOK, TurnsInv, Recorded
    <2> QED BY <2>1, <2>2 DEF TurnsInv, Recorded, NoTurnSkipped
  <1>8. ASSUME NEW r \in Runtimes, Server(r) PROVE TurnsInv'
    <2>1. UNCHANGED <<turns, index, beat>>
      BY <1>8 DEF Server, Acquired, Synced, Released, runtime
    <2>2. \A s \in Runtimes : task'[s] # NoRequest => task'[s] = task[s]
      BY <1>0, <1>8 DEF Server, Acquired, Synced, Released, Served, TypeOK
    <2>3. task[r] # NoRequest /\ task[r].saw \in Rows
      BY <1>0, <1>8, SeenByTask DEF Server, Acquired, Synced, Released
    <2>4. row'.index \in {row.index, task[r].saw.index, index[r]}
      BY <1>8, <2>3 DEF Server, Acquired, Synced, Released, Extend, Save, Keep, Rows
    <2> QED BY <2>1, <2>2, <2>3, <2>4 DEF TurnsInv, Recorded, NoTurnSkipped
  <1>9. ASSUME NEW r \in Runtimes, Renewed(r) PROVE TurnsInv'
    <2>1. UNCHANGED <<turns, index, task>>
      BY <1>9 DEF Renewed
    <2>2. \A s \in Runtimes : beat'[s] # NoRequest => beat'[s] = beat[s]
      BY <1>0, <1>9 DEF Renewed, TypeOK
    <2>3. beat[r] # NoRequest /\ beat[r].saw \in Rows
      BY <1>0, <1>9 DEF Renewed, TypeOK, Pending, NoRequest
    <2>4. row'.index \in {row.index, beat[r].saw.index}
      BY <1>9, <2>3 DEF Renewed, Extend, Save, Keep, Rows
    <2> QED BY <2>1, <2>2, <2>3, <2>4 DEF TurnsInv, Recorded, NoTurnSkipped
  <1> QED BY <1>1, <1>2, <1>3, <1>4, <1>5, <1>6, <1>7, <1>8, <1>9 DEF Next, Interview, Heartbeats

\* However often the interview changes hands, crashes, starts afresh or is
\* resumed from a stale row, the recorded turns have no gap.
THEOREM TurnsWithoutGap == Spec => []NoTurnSkipped
  <1>1. Spec => []TypeInv
    BY InitTypes, StepTypes, PTL DEF Spec
  <1>2. Spec => []TurnsInv
    BY <1>1, InitTurns, StepTurns, PTL DEF Spec
  <1>3. TurnsInv => NoTurnSkipped
    BY DEF TurnsInv
  <1> QED BY <1>2, <1>3, PTL

-----------------------------------------------------------------------------
(* The interview the runtime conducts (AiInterview) *)

\* A bag with one more, or one less, of a task.
With(b, t) == b (+) Some(t)
Without(b, t) == b (-) Some(t)
Tasks == BagToSet(tasks)

LEMMA TaskAdded ==
  ASSUME NEW b, NEW t, IsABag(b)
  PROVE  /\ IsABag(With(b, t))
         /\ BagToSet(With(b, t)) = BagToSet(b) \cup {t}
         /\ \A u \in BagToSet(b) : u # t => With(b, t)[u] = b[u]
         /\ t \notin BagToSet(b) => With(b, t)[t] = 1
  <1>1. Some(t) = [e \in {t} |-> 1]
    BY DEF Some, SetToBag
  <1>2. With(b, t) = [e \in (DOMAIN b) \cup {t} |->
             (IF e \in DOMAIN b THEN b[e] ELSE 0) + (IF e \in {t} THEN 1 ELSE 0)]
    BY <1>1 DEF With, (+)
  <1>3. \A e \in DOMAIN b : b[e] \in Nat /\ b[e] > 0
    BY DEF IsABag
  <1> QED BY <1>2, <1>3 DEF IsABag, BagToSet

LEMMA TaskRemoved ==
  ASSUME NEW b, NEW t, IsABag(b), t \in BagToSet(b)
  PROVE  /\ IsABag(Without(b, t))
         /\ BagToSet(Without(b, t)) \subseteq BagToSet(b)
         /\ \A u \in BagToSet(b) : u # t =>
               u \in BagToSet(Without(b, t)) /\ Without(b, t)[u] = b[u]
         /\ b[t] = 1 => t \notin BagToSet(Without(b, t))
  <1>1. Some(t) = [e \in {t} |-> 1]
    BY DEF Some, SetToBag
  <1> DEFINE c == [e \in DOMAIN b |-> IF e \in {t} THEN b[e] - 1 ELSE b[e]]
  <1>2. Without(b, t) = [e \in {d \in DOMAIN b : c[d] > 0} |-> c[e]]
    BY <1>1 DEF Without, (-)
  <1>3. \A e \in DOMAIN b : b[e] \in Nat /\ b[e] > 0
    BY DEF IsABag
  <1>4. \A e \in DOMAIN b : c[e] \in Int
    BY <1>3
  <1> QED BY <1>2, <1>3, <1>4 DEF IsABag, BagToSet

\* The operators on tasks, in these terms.
Retried(t) == [t EXCEPT !.tries = t.tries + 1, !.saw = ""]
Begun(t) == [t EXCEPT !.saw = session]

LEMMA TaskOperators ==
  ASSUME NEW t, NEW b
  PROVE  /\ Started(t) = With(Without(tasks, t), Begun(t))
         /\ Again(t, b) = IF t.tries < MaxRetries THEN With(b, Retried(t)) ELSE b
         /\ Broken(t) =>
               \/ tasks' = Without(tasks, t) /\ lost' = lost \cup {"died"}
               \/ tasks' = Again(t, Without(tasks, t)) /\ lost' = Spent(t)
  BY DEF Started, Again, Broken, With, Without, Retried, Begun

\* What every step does to the tasks.
Moved ==
    \/ tasks' = tasks
    \/ \E t \in Tasks : tasks' = Without(tasks, t)
    \/ \E t \in Tasks, u \in Task : tasks' = With(Without(tasks, t), u)
    \/ \E u \in Task : tasks' = With(tasks, u)

LEMMA MovedTypes ==
  ASSUME IsABag(tasks), Tasks \subseteq Task, Moved
  PROVE  IsABag(tasks)' /\ BagToSet(tasks)' \subseteq Task
  <1>1. CASE tasks' = tasks
    BY <1>1 DEF Tasks, IsABag, BagToSet
  <1>2. ASSUME NEW t \in Tasks, tasks' = Without(tasks, t)
        PROVE  IsABag(tasks') /\ BagToSet(tasks') \subseteq Task
    BY <1>2, TaskRemoved DEF Tasks
  <1>3. ASSUME NEW t \in Tasks, NEW u \in Task, tasks' = With(Without(tasks, t), u)
        PROVE  IsABag(tasks') /\ BagToSet(tasks') \subseteq Task
    <2>1. /\ IsABag(Without(tasks, t))
          /\ BagToSet(Without(tasks, t)) \subseteq Task
      BY TaskRemoved DEF Tasks
    <2> QED BY <1>3, <2>1, TaskAdded
  <1>4. ASSUME NEW u \in Task, tasks' = With(tasks, u)
        PROVE  IsABag(tasks') /\ BagToSet(tasks') \subseteq Task
    BY <1>4, TaskAdded DEF Tasks
  <1>5. IsABag(tasks') /\ BagToSet(tasks') \subseteq Task
    BY <1>1, <1>2, <1>3, <1>4 DEF Moved, Tasks
  <1> QED BY <1>5 DEF IsABag, BagToSet

AsksAQuestion == Of("agent", "turn") => agent.turn <= Questions
WellTyped == InterviewTypeOK /\ AsksAQuestion

LEMMA TaskTypes ==
  ASSUME AiAssumption, InterviewTypeOK, NEW t \in Tasks
  PROVE  /\ t \in Task /\ Begun(t) \in Task
         /\ t.tries < MaxRetries => Retried(t) \in Task
  <1>1. t \in Task /\ session \in Statuses /\ MaxRetries \in Nat
    BY DEF InterviewTypeOK, Tasks, AiAssumption
  <1>2. Begun(t) \in Task
    BY <1>1 DEF Begun, Task
  <1>3. ASSUME t.tries < MaxRetries
        PROVE  Retried(t) \in Task
    <2>1. t.tries \in 0..MaxRetries
      BY <1>1 DEF Task
    <2>2. t.tries + 1 \in 0..MaxRetries
      BY <1>1, <1>3, <2>1
    <2> DEFINE n == t.tries + 1
    <2>3. [t EXCEPT !.tries = n, !.saw = ""] \in Task
      <3> HIDE DEF n
      <3> QED BY <1>1, <2>2 DEF Task, n
    <2> QED BY <2>3 DEF Retried
  <1> QED BY <1>1, <1>2, <1>3

LEMMA NewTaskTypes ==
  ASSUME AiAssumption
  PROVE  /\ Generate(0) \in Task
         /\ \A k \in Turns : Evaluate(k, 0) \in Task
  BY DEF AiAssumption, Generate, Evaluate, Task, Turns

\* A task that is tried again, or given up.
LEMMA AgainMoves ==
  ASSUME AiAssumption, InterviewTypeOK, NEW t \in Tasks,
         tasks' = Without(tasks, t) \/ tasks' = Again(t, Without(tasks, t))
  PROVE  Moved
  BY TaskTypes, TaskOperators DEF Moved

LEMMA WorkerMoves ==
  ASSUME AiAssumption, InterviewTypeOK, Worker \/ Failure
  PROVE  Moved
  <1>1. CASE AgentDies
    BY <1>1 DEF AgentDies, Moved
  <1>2. ASSUME NEW t \in Tasks,
               \/ StartEvaluation(t) \/ FinishEvaluation(t)
               \/ StartReport(t) \/ FinishReport(t)
               \/ FailEvaluation(t) \/ ReportUnavailable(t)
               \/ ReportWorkerDies(t)
        PROVE  Moved
    <2>1. CASE StartEvaluation(t)
      BY <2>1, TaskTypes, TaskOperators DEF StartEvaluation, Without, Moved
    <2>2. CASE FinishEvaluation(t)
      <3>1. \/ tasks' = Without(tasks, t)
            \/ tasks' = With(Without(tasks, t), Generate(0))
        BY <2>2 DEF FinishEvaluation, With, Without
      <3> QED BY <3>1, NewTaskTypes DEF Moved
    <2>3. CASE StartReport(t)
      <3>1. \/ tasks' = Without(tasks, t) \/ tasks' = Again(t, Without(tasks, t))
            \/ tasks' = Started(t)
        BY <2>3 DEF StartReport, Without
      <3> QED BY <3>1, AgainMoves, TaskTypes, TaskOperators DEF Moved
    <2>4. CASE FinishReport(t)
      BY <2>4 DEF FinishReport, Without, Moved
    <2>5. CASE FailEvaluation(t)
      BY <2>5, TaskOperators, AgainMoves DEF FailEvaluation
    <2>6. CASE ReportUnavailable(t)
      BY <2>6, AgainMoves DEF ReportUnavailable, Without
    <2>7. CASE ReportWorkerDies(t)
      BY <2>7, AgainMoves DEF ReportWorkerDies, Without
    <2> QED BY <1>2, <2>1, <2>2, <2>3, <2>4, <2>5, <2>6, <2>7
  <1> QED BY <1>1, <1>2 DEF Worker, Failure, Tasks

LEMMA OtherMoves ==
  ASSUME AiAssumption, WellTyped,
         \/ Watchdog \/ Views \/ Agent \/ AutoEnd
         \/ Visit \/ ClockTick \/ UNCHANGED interviewVars
  PROVE  Moved
  <1>1. CASE Watchdog
    <2>1. tasks' = tasks \/ tasks' = With(tasks, Generate(0))
      BY <1>1 DEF Watchdog, FindStuck, RecoverStuck, Reset, With
    <2> QED BY <2>1, NewTaskTypes DEF Moved
  <1>2. CASE Views
    <2>1. CASE RecordTurn
      <3>1. agent.turn \in Turns
        BY <2>1 DEF RecordTurn, WellTyped, AsksAQuestion, InterviewTypeOK,
                    Turns, AiAssumption
      <3>2. tasks' = tasks \/ tasks' = With(tasks, Evaluate(agent.turn, 0))
        BY <2>1 DEF RecordTurn, With
      <3> QED BY <3>1, <3>2, NewTaskTypes DEF Moved
    <2>2. CASE ~RecordTurn
      <3>1. tasks' = tasks \/ tasks' = With(tasks, Generate(0))
        BY <1>2, <2>2 DEF Views, Look, Join, End,
                          SyncState, NotifyCompleted, With
      <3> QED BY <3>1, NewTaskTypes DEF Moved
    <2> QED BY <2>1, <2>2
  <1>3. CASE \/ Agent \/ AutoEnd \/ Visit \/ ClockTick
             \/ UNCHANGED interviewVars
    <2>1. tasks' = tasks
      BY <1>3 DEF Agent, AskTurn, Conclude, Close, Notify,
                  AutoEnd, Visit, ClockTick, interviewVars
    <2> QED BY <2>1 DEF Moved
  <1> QED BY <1>1, <1>2, <1>3

\* Everything but the tasks.
RestTypes ==
    /\ session \in Statuses
    /\ clock \in {"fresh", "stale", "early", "late", "over"}
    /\ request \in [Sides -> Requests \cup {Idle}]
    /\ evaluation \in [Turns -> {"none", "PENDING"} \cup Terminal]
    /\ report \in {"none", "PENDING", "PROCESSING"} \cup Terminal
    /\ watched \in BOOLEAN /\ told \in BOOLEAN
    /\ agent \in [at : {"away", "asking", "closing", "notifying", "done", "gone"},
                  turn : 1..Questions + 1]
    /\ lost \subseteq {"died", "exhausted"}
    /\ {faults, resets, visits} \subseteq Nat

LEMMA AskTypes ==
  ASSUME RestTypes, NEW side \in Sides,
         NEW kind \in {"join", "end", "cancel", "look", "turn", "sync", "notify"},
         Ask(side, kind)
  PROVE  request' \in [Sides -> Requests \cup {Idle}]
  BY DEF RestTypes, Ask, Requests

LEMMA AnswerTypes ==
  ASSUME RestTypes, NEW side \in Sides, Answered(side)
  PROVE  request' \in [Sides -> Requests \cup {Idle}]
  BY DEF RestTypes, Answered

LEMMA SawTypes ==
  ASSUME RestTypes, NEW side \in Sides, NEW kind, Of(side, kind)
  PROVE  request[side].saw \in Statuses
  BY DEF RestTypes, Of, Requests

LEMMA RefreshedTypes ==
  ASSUME NEW s \in Statuses
  PROVE  Refreshed(s) \in Statuses
  BY DEF Refreshed, Statuses

LEMMA WorkerRest ==
  ASSUME AiAssumption, RestTypes, Worker \/ Failure
  PROVE  RestTypes' /\ (AsksAQuestion => AsksAQuestion')
  <1>1. CASE AgentDies
    BY <1>1 DEF AgentDies, RestTypes, rows, history, Fault,
                AsksAQuestion, Of, AiAssumption
  <1>2. ASSUME NEW t,
               \/ StartEvaluation(t) \/ FinishEvaluation(t)
               \/ StartReport(t) \/ FinishReport(t)
               \/ FailEvaluation(t) \/ ReportUnavailable(t)
               \/ ReportWorkerDies(t)
        PROVE  RestTypes' /\ (AsksAQuestion => AsksAQuestion')
    <2>1. CASE StartEvaluation(t)
      BY <2>1 DEF StartEvaluation, RestTypes, rows, history,
                  bounds, AsksAQuestion, Of
    <2>2. CASE FinishEvaluation(t)
      <3>1. PICK outcome \in Terminal : evaluation' = [evaluation EXCEPT ![t.turn] = outcome]
        BY <2>2 DEF FinishEvaluation
      <3>2. evaluation' \in [Turns -> {"none", "PENDING"} \cup Terminal]
        BY <3>1 DEF RestTypes
      <3>3. told' \in BOOLEAN
        BY <2>2 DEF FinishEvaluation, RestTypes
      <3> QED BY <2>2, <3>2, <3>3 DEF FinishEvaluation, RestTypes, bounds,
                                      AsksAQuestion, Of
    <2>3. CASE StartReport(t)
      BY <2>3 DEF StartReport, Spent, RestTypes, bounds, AsksAQuestion, Of
    <2>4. CASE FinishReport(t)
      BY <2>4 DEF FinishReport, RestTypes, bounds, history, Terminal,
                  AsksAQuestion, Of
    <2>5. CASE FailEvaluation(t)
      <3>1. lost' \subseteq {"died", "exhausted"}
        BY <2>5 DEF FailEvaluation, Broken, Spent, RestTypes
      <3>2. /\ UNCHANGED <<session, clock, evaluation, report, request, watched, agent, told>>
            /\ {faults', resets', visits'} \subseteq Nat
        BY <2>5 DEF FailEvaluation, Fault, RestTypes, rows
      <3> QED BY <3>1, <3>2 DEF RestTypes, AsksAQuestion, Of
    <2>6. CASE ReportUnavailable(t)
      BY <2>6 DEF ReportUnavailable, Spent, Fault, RestTypes,
                  AsksAQuestion, Of
    <2>7. CASE ReportWorkerDies(t)
      BY <2>7 DEF ReportWorkerDies, Fault, RestTypes, rows,
                  AsksAQuestion, Of
    <2> QED BY <1>2, <2>1, <2>2, <2>3, <2>4, <2>5, <2>6, <2>7
  <1> QED BY <1>1, <1>2 DEF Worker, Failure

LEMMA ServerRest ==
  ASSUME AiAssumption, RestTypes, AsksAQuestion, Views
  PROVE  RestTypes' /\ AsksAQuestion'
  <1> DEFINE saw == request["candidate"].saw
  <1>0. "candidate" \in Sides /\ "agent" \in Sides
    BY DEF Sides
  <1>1. CASE Look
    <2>1. saw \in Statuses /\ Refreshed(saw) \in Statuses
      BY <1>0, <1>1, SawTypes, RefreshedTypes DEF Look
    <2>2. request' \in [Sides -> Requests \cup {Idle}]
      BY <1>0, <1>1, AnswerTypes DEF Look
    <2> QED BY <1>0, <1>1, <2>1, <2>2
            DEF Look, RestTypes, AsksAQuestion, Of, Answered,
                history, bounds
  <1>2. CASE Join
    <2>1. saw \in Statuses /\ Refreshed(saw) \in Statuses
      BY <1>0, <1>2, SawTypes, RefreshedTypes DEF Join
    <2>2. request' \in [Sides -> Requests \cup {Idle}]
      BY <1>0, <1>2, AnswerTypes DEF Join
    <2>3. session' \in Statuses
      BY <1>2, <2>1 DEF Join, RestTypes, Statuses
    <2>4. clock' \in {"fresh", "stale", "early", "late", "over"}
      BY <1>2 DEF Join, RestTypes
    <2>5. /\ agent' \in [at : {"away", "asking", "closing", "notifying", "done", "gone"},
                         turn : 1..Questions + 1]
          /\ agent'.turn = agent.turn
      BY <1>2 DEF Join, RestTypes
    <2> QED BY <1>0, <1>2, <2>2, <2>3, <2>4, <2>5
            DEF Join, RestTypes, AsksAQuestion, Of, Answered,
                history, bounds
  <1>3. ASSUME NEW kind, End(kind)
        PROVE  RestTypes' /\ AsksAQuestion'
    <2>1. saw \in Statuses /\ Refreshed(saw) \in Statuses
      BY <1>0, <1>3, SawTypes, RefreshedTypes DEF End
    <2>2. request' \in [Sides -> Requests \cup {Idle}]
      BY <1>0, <1>3, AnswerTypes DEF End
    <2>3. Ended(kind, Refreshed(saw)) \in Statuses
      BY <2>1 DEF Ended, Statuses
    <2>4. session' \in Statuses /\ told' \in BOOLEAN
      BY <1>3, <2>3 DEF End, RestTypes
    <2> QED BY <1>0, <1>3, <2>2, <2>4
            DEF End, RestTypes, AsksAQuestion, Of, Answered,
                bounds
  <1>4. CASE RecordTurn
    <2>1. request' \in [Sides -> Requests \cup {Idle}]
      BY <1>0, <1>4, AnswerTypes DEF RecordTurn
    <2>2. agent.turn <= Questions
      BY <1>4 DEF RecordTurn, AsksAQuestion
    <2>3. evaluation' \in [Turns -> {"none", "PENDING"} \cup Terminal]
      BY <1>4 DEF RecordTurn, RestTypes
    <2>4. agent' \in [at : {"away", "asking", "closing", "notifying", "done", "gone"},
                      turn : 1..Questions + 1]
      BY <1>4, <2>2 DEF RecordTurn, RestTypes, AiAssumption
    <2>5. faults' \in Nat
      BY <1>4 DEF RecordTurn, RestTypes, Fault
    <2>6. ~Of("agent", "turn")'
      BY <1>0, <1>4 DEF RecordTurn, Answered, Of, RestTypes
    <2> QED BY <1>4, <2>1, <2>3, <2>4, <2>5, <2>6
            DEF RecordTurn, RestTypes, AsksAQuestion, history
  <1>5. CASE SyncState \/ NotifyCompleted
    <2>1. request' \in [Sides -> Requests \cup {Idle}]
      BY <1>0, <1>5, AnswerTypes DEF SyncState, NotifyCompleted
    <2>2. ~Of("agent", "turn")'
      BY <1>0, <1>5 DEF SyncState, NotifyCompleted, Answered,
                        Of, RestTypes
    <2>3. session' \in Statuses /\ told' \in BOOLEAN
      BY <1>5 DEF SyncState, NotifyCompleted, RestTypes, Statuses,
                  history
    <2> QED BY <1>5, <2>1, <2>2, <2>3
            DEF SyncState, NotifyCompleted, RestTypes, AsksAQuestion,
                history, bounds
  <1> QED BY <1>1, <1>2, <1>3, <1>4, <1>5 DEF Views

LEMMA OtherRest ==
  ASSUME AiAssumption, RestTypes, AsksAQuestion,
         \/ Watchdog \/ Agent \/ AutoEnd
         \/ Visit \/ ClockTick \/ UNCHANGED interviewVars
  PROVE  RestTypes' /\ AsksAQuestion'
  <1>0. "candidate" \in Sides /\ "agent" \in Sides
    BY DEF Sides
  <1>1. CASE Watchdog
    <2>1. CASE FindStuck
      BY <2>1 DEF FindStuck, RestTypes, AsksAQuestion, Of, rows,
                  history
    <2>2. CASE RecoverStuck
      BY <2>2 DEF RecoverStuck, Reset, RestTypes, AsksAQuestion, Of,
                  history, bounds
    <2> QED BY <1>1, <2>1, <2>2 DEF Watchdog
  <1>2. CASE Agent
    <2>1. CASE AskTurn
      <3>1. request' \in [Sides -> Requests \cup {Idle}]
        BY <1>0, <2>1, AskTypes DEF AskTurn
      <3> QED BY <2>1, <3>1 DEF AskTurn, RestTypes, AsksAQuestion, rows,
                                history, bounds
    <2>2. CASE Conclude
      BY <2>2 DEF Conclude, RestTypes, AsksAQuestion, Of, rows,
                  history, bounds
    <2>3. CASE Close \/ Notify
      <3>1. /\ agent' = [agent EXCEPT !.at = agent'.at]
            /\ agent'.at \in {"notifying", "done"}
        BY <2>3 DEF Close, Notify, RestTypes
      <3>2. \/ Ask("agent", "sync") \/ Ask("agent", "notify")
            \/ request' = request
        BY <2>3 DEF Close, Notify
      <3>3. request' \in [Sides -> Requests \cup {Idle}]
        BY <1>0, <3>2, AskTypes DEF RestTypes
      <3>4. faults' \in Nat
        BY <2>3 DEF Close, Notify, Fault, RestTypes
      <3>5. AsksAQuestion'
        <4>1. Of("agent", "turn")' => request' = request
          BY <1>0, <3>2 DEF Ask, Of, RestTypes
        <4> QED BY <3>1, <4>1 DEF AsksAQuestion, Of, RestTypes
      <3> QED BY <2>3, <3>1, <3>3, <3>4, <3>5
              DEF Close, Notify, RestTypes, rows, history
    <2> QED BY <1>2, <2>1, <2>2, <2>3 DEF Agent
  <1>3. CASE AutoEnd \/ Visit
    <2>1. \E kind \in {"join", "end", "cancel", "look"} : Ask("candidate", kind)
      BY <1>3 DEF AutoEnd, Visit
    <2>2. request' \in [Sides -> Requests \cup {Idle}]
      BY <1>0, <2>1, AskTypes
    <2>3. request'["agent"] = request["agent"]
      BY <2>1 DEF Ask, RestTypes, Sides
    <2>4. /\ agent' \in [at : {"away", "asking", "closing", "notifying", "done", "gone"},
                         turn : 1..Questions + 1]
          /\ agent'.turn = agent.turn
      BY <1>3 DEF AutoEnd, Visit, RestTypes
    <2>5. visits' \in Nat
      BY <1>3 DEF AutoEnd, Visit, RestTypes, bounds
    <2> QED BY <1>3, <2>2, <2>3, <2>4, <2>5
            DEF AutoEnd, Visit, RestTypes, AsksAQuestion, Of,
                rows, history, bounds
  <1>4. CASE ClockTick \/ UNCHANGED interviewVars
    BY <1>4 DEF ClockTick, interviewVars, RestTypes, AsksAQuestion, Of, rows,
                history, bounds
  <1> QED BY <1>1, <1>2, <1>3, <1>4

LEMMA WellTypedStep ==
  ASSUME AiAssumption, WellTyped, [InterviewNext]_interviewVars
  PROVE  WellTyped'
  <1>1. RestTypes /\ AsksAQuestion
    BY DEF WellTyped, InterviewTypeOK, RestTypes
  <1>2. Moved
    BY WorkerMoves, OtherMoves DEF InterviewNext, WellTyped
  <1>3. IsABag(tasks)' /\ BagToSet(tasks)' \subseteq Task
    BY <1>2, MovedTypes DEF WellTyped, InterviewTypeOK, Tasks
  <1>4. RestTypes' /\ AsksAQuestion'
    BY <1>1, WorkerRest, ServerRest, OtherRest DEF InterviewNext
  <1> QED BY <1>3, <1>4 DEF WellTyped, InterviewTypeOK, RestTypes

LEMMA WellTypedInit ==
  ASSUME AiAssumption, InterviewInit
  PROVE  WellTyped
  <1>1. EmptyBag = [e \in {} |-> 1]
    BY DEF EmptyBag, SetToBag
  <1>2. IsABag(tasks) /\ BagToSet(tasks) \subseteq Task
    <2>1. tasks = [e \in {} |-> 1]
      BY <1>1 DEF InterviewInit
    <2>2. DOMAIN tasks = {}
      BY <2>1
    <2>3. tasks \in [DOMAIN tasks -> {n \in Nat : n > 0}]
      BY <2>1
    <2> QED BY <2>2, <2>3 DEF IsABag, BagToSet
  <1>3. RestTypes
    <2>1. 1 \in 1..Questions + 1
      BY DEF AiAssumption
    <2>2. /\ request \in [Sides -> Requests \cup {Idle}]
          /\ evaluation \in [Turns -> {"none", "PENDING"} \cup Terminal]
      BY DEF InterviewInit
    <2>3. agent \in [at : {"away", "asking", "closing", "notifying", "done", "gone"},
                      turn : 1..Questions + 1]
      BY <2>1 DEF InterviewInit
    <2>4. watched \in BOOLEAN /\ told \in BOOLEAN /\ lost \subseteq {"died", "exhausted"}
      BY DEF InterviewInit
    <2>5. {faults, resets, visits} \subseteq Nat
      BY DEF InterviewInit
    <2>6. /\ session \in Statuses /\ clock \in {"fresh", "stale", "early", "late", "over"}
          /\ report \in {"none", "PENDING", "PROCESSING"} \cup Terminal
      BY DEF InterviewInit, Statuses
    <2> QED BY <2>2, <2>3, <2>4, <2>5, <2>6 DEF RestTypes
  <1>4. AsksAQuestion
    BY DEF InterviewInit, AsksAQuestion, Of, Sides
  <1> QED BY <1>2, <1>3, <1>4 DEF WellTyped, InterviewTypeOK, RestTypes

\* Every state of an interview is well typed, for any number of questions,
\* retries and faults.
THEOREM InterviewTypesCorrect == InterviewSpec => []InterviewTypeOK
  <1>1. InterviewInit => WellTyped
    BY WellTypedInit, AiAssumption
  <1>2. WellTyped /\ [InterviewNext]_interviewVars => WellTyped'
    BY WellTypedStep, AiAssumption
  <1>3. WellTyped => InterviewTypeOK
    BY DEF WellTyped
  <1> QED BY <1>1, <1>2, <1>3, PTL DEF InterviewSpec

-----------------------------------------------------------------------------
(* What the steps do to the set of tasks *)

Runs(t) == t.kind = "generate_final_report" /\ t.saw # ""
Generating == {t \in Tasks : Runs(t)}

\* One task less, and perhaps another one.
Replaced(t, new) ==
    /\ Tasks \ {t} \subseteq Tasks' /\ new \subseteq Tasks' /\ Tasks' \subseteq Tasks \cup new
    /\ \A v \in Tasks : v # t /\ v \notin new => tasks'[v] = tasks[v]
    /\ tasks[t] = 1 /\ t \notin new => t \notin Tasks'
    /\ \A u \in new : u \notin Tasks => tasks'[u] = 1

Added(u) ==
    /\ Tasks' = Tasks \cup {u}
    /\ \A v \in Tasks : v # u => tasks'[v] = tasks[v]

LEMMA ReplacedByNone ==
  ASSUME WellTyped, NEW t \in Tasks, tasks' = Without(tasks, t)
  PROVE  Replaced(t, {})
  <1>1. IsABag(tasks) /\ Tasks' = BagToSet(tasks')
    BY DEF WellTyped, InterviewTypeOK, Tasks, BagToSet
  <1> QED BY <1>1, TaskRemoved DEF Replaced, Tasks

LEMMA ReplacedByOne ==
  ASSUME WellTyped, NEW t \in Tasks, NEW u, tasks' = With(Without(tasks, t), u)
  PROVE  Replaced(t, {u})
  <1> DEFINE b == Without(tasks, t)
             B == BagToSet(b)
  <1>1. IsABag(tasks) /\ Tasks' = BagToSet(tasks')
    BY DEF WellTyped, InterviewTypeOK, Tasks, BagToSet
  <1>2. /\ IsABag(b) /\ B \subseteq Tasks
        /\ \A v \in Tasks : v # t => v \in B /\ b[v] = tasks[v]
        /\ tasks[t] = 1 => t \notin B
    BY <1>1, TaskRemoved DEF Tasks
  <1> HIDE DEF b
  <1>3. /\ BagToSet(With(b, u)) = B \cup {u}
        /\ \A v \in B : v # u => With(b, u)[v] = b[v]
        /\ u \notin B => With(b, u)[u] = 1
    BY <1>2, TaskAdded
  <1>4. tasks' = With(b, u)
    BY DEF b
  <1> HIDE DEF B
  <1> QED BY <1>1, <1>2, <1>3, <1>4 DEF Replaced

LEMMA AddedOne ==
  ASSUME WellTyped, NEW u, tasks' = With(tasks, u)
  PROVE  Added(u)
  <1>1. IsABag(tasks) /\ Tasks' = BagToSet(tasks')
    BY DEF WellTyped, InterviewTypeOK, Tasks, BagToSet
  <1> QED BY <1>1, TaskAdded DEF Added, Tasks

LEMMA TriedAgain ==
  ASSUME WellTyped, NEW t \in Tasks, tasks' = Again(t, Without(tasks, t)),
         lost' = Spent(t)
  PROVE  \/ Replaced(t, {Retried(t)}) /\ lost' = lost
         \/ Replaced(t, {}) /\ lost' # {}
  BY TaskOperators, ReplacedByOne, ReplacedByNone DEF Spent

LEMMA QueuedTask ==
  ASSUME NEW t, NEW kind
  PROVE  /\ t \in Queued(kind) <=> t \in Tasks /\ t.kind = kind /\ t.saw = ""
         /\ t \in Running(kind) <=> t \in Tasks /\ t.kind = kind /\ t.saw # ""
         /\ t \in Outstanding(kind) <=> t \in Tasks /\ t.kind = kind
  BY DEF Queued, Running, Outstanding, Tasks

LEMMA TaskFields ==
  ASSUME AiAssumption, WellTyped, NEW t \in Tasks
  PROVE  /\ Begun(t).kind = t.kind /\ Begun(t).turn = t.turn /\ Begun(t).saw = session
         /\ Retried(t).kind = t.kind /\ Retried(t).turn = t.turn /\ Retried(t).saw = ""
         /\ session # "" /\ t.turn \in Nat
  <1>1. t \in Task /\ session \in Statuses
    BY DEF WellTyped, InterviewTypeOK, Tasks
  <1>2. Begun(t).kind = t.kind /\ Begun(t).turn = t.turn /\ Begun(t).saw = session
    BY <1>1 DEF Begun, Task
  <1>3. Retried(t).kind = t.kind /\ Retried(t).turn = t.turn /\ Retried(t).saw = ""
    <2> DEFINE n == t.tries + 1
    <2>1. Retried(t) = [t EXCEPT !.tries = n, !.saw = ""]
      BY DEF Retried
    <2> HIDE DEF n
    <2> QED BY <1>1, <2>1 DEF Task
  <1>4. t.turn \in Nat
    <2>1. t.turn \in 0..Questions
      BY <1>1 DEF Task
    <2>2. Questions \in Nat
      BY DEF AiAssumption
    <2> QED BY <2>1, <2>2
  <1> QED BY <1>1, <1>2, <1>3, <1>4 DEF Statuses

LEMMA NewFields ==
  /\ Generate(0).kind = "generate_final_report" /\ Generate(0).saw = ""
  /\ \A k : LET e == Evaluate(k, 0)
            IN  e.kind = "evaluate_turn" /\ e.saw = "" /\ e.turn = k
  BY DEF Generate, Evaluate

\* The steps of the workers, one by one.
LEMMA EvaluationSteps ==
  ASSUME AiAssumption, WellTyped, NEW t \in Tasks
  PROVE  /\ StartEvaluation(t) =>
              /\ t.kind = "evaluate_turn" /\ t.saw = ""
              /\ \/ Replaced(t, {}) /\ evaluation[t.turn] = "SUCCESS"
                 \/ Replaced(t, {Begun(t)})
              /\ UNCHANGED <<session, evaluation, report, request, watched, told, lost, resets>>
         /\ FinishEvaluation(t) =>
              /\ t.kind = "evaluate_turn" /\ t.saw # ""
              /\ \E outcome \in Terminal : evaluation' = [evaluation EXCEPT ![t.turn] = outcome]
              /\ \/ Replaced(t, {}) /\ told' = told
                 \/ Replaced(t, {Generate(0)}) /\ t.saw = "COMPLETED" /\ told' = TRUE
              /\ UNCHANGED <<session, report, request, watched, lost, resets>>
         /\ FailEvaluation(t) =>
              /\ t.kind = "evaluate_turn" /\ t.saw # ""
              /\ \/ Replaced(t, {}) /\ lost' # {}
                 \/ Replaced(t, {Retried(t)}) /\ lost' = lost
              /\ UNCHANGED <<session, evaluation, report, request, watched, told, resets>>
  <1>1. ASSUME StartEvaluation(t)
        PROVE  /\ t.kind = "evaluate_turn" /\ t.saw = ""
               /\ \/ Replaced(t, {}) /\ evaluation[t.turn] = "SUCCESS"
                  \/ Replaced(t, {Begun(t)})
               /\ UNCHANGED <<session, evaluation, report, request, watched, told, lost, resets>>
    <2>1. t.kind = "evaluate_turn" /\ t.saw = ""
      BY <1>1, QueuedTask DEF StartEvaluation
    <2>2. \/ tasks' = Without(tasks, t) /\ evaluation[t.turn] = "SUCCESS"
          \/ tasks' = With(Without(tasks, t), Begun(t))
      <3>1. \/ tasks' = (-)(tasks, Some(t)) /\ evaluation[t.turn] = "SUCCESS"
            \/ tasks' = Started(t)
        BY <1>1 DEF StartEvaluation
      <3> QED BY <3>1, TaskOperators DEF Without
    <2>3. UNCHANGED <<session, evaluation, report, request, watched, told, lost, resets>>
      BY <1>1 DEF StartEvaluation, rows, history, bounds
    <2> QED BY <2>1, <2>2, <2>3, ReplacedByNone, ReplacedByOne
  <1>2. ASSUME FinishEvaluation(t)
        PROVE  /\ t.kind = "evaluate_turn" /\ t.saw # ""
               /\ \E outcome \in Terminal : evaluation' = [evaluation EXCEPT ![t.turn] = outcome]
               /\ \/ Replaced(t, {}) /\ told' = told
                  \/ Replaced(t, {Generate(0)}) /\ t.saw = "COMPLETED" /\ told' = TRUE
               /\ UNCHANGED <<session, report, request, watched, lost, resets>>
    <2>1. t.kind = "evaluate_turn" /\ t.saw # ""
      BY <1>2, QueuedTask DEF FinishEvaluation
    <2>2. PICK outcome \in Terminal :
            /\ evaluation' = [evaluation EXCEPT ![t.turn] = outcome]
            /\ LET last == t.saw = "COMPLETED" /\ PendingTurns \subseteq {t.turn}
                   rest == (-)(tasks, Some(t))
               IN  /\ tasks' = IF last THEN (+)(rest, Some(Generate(0))) ELSE rest
                   /\ told' = (told \/ last)
      BY <1>2 DEF FinishEvaluation
    <2>3. \/ tasks' = Without(tasks, t) /\ told' = told
          \/ /\ tasks' = With(Without(tasks, t), Generate(0))
             /\ t.saw = "COMPLETED" /\ told' = TRUE
      <3> DEFINE last == t.saw = "COMPLETED" /\ PendingTurns \subseteq {t.turn}
      <3>1. tasks' = IF last THEN With(Without(tasks, t), Generate(0)) ELSE Without(tasks, t)
        BY <2>2 DEF With, Without
      <3>2. told' = (told \/ last)
        BY <2>2, Zenon
      <3>3. told \in BOOLEAN
        BY DEF WellTyped, InterviewTypeOK
      <3>4. last => t.saw = "COMPLETED"
        OBVIOUS
      <3> HIDE DEF last
      <3> QED BY <3>1, <3>2, <3>3, <3>4
    <2>4. UNCHANGED <<session, report, request, watched, lost, resets>>
      BY <1>2 DEF FinishEvaluation, bounds
    <2> QED BY <2>1, <2>2, <2>3, <2>4, ReplacedByNone, ReplacedByOne
  <1>3. ASSUME FailEvaluation(t)
        PROVE  /\ t.kind = "evaluate_turn" /\ t.saw # ""
               /\ \/ Replaced(t, {}) /\ lost' # {}
                  \/ Replaced(t, {Retried(t)}) /\ lost' = lost
               /\ UNCHANGED <<session, evaluation, report, request, watched, told, resets>>
    <2>1. t.kind = "evaluate_turn" /\ t.saw # ""
      BY <1>3, QueuedTask DEF FailEvaluation
    <2>2. \/ tasks' = Without(tasks, t) /\ lost' = lost \cup {"died"}
          \/ tasks' = Again(t, Without(tasks, t)) /\ lost' = Spent(t)
      BY <1>3, TaskOperators DEF FailEvaluation
    <2>3. UNCHANGED <<session, evaluation, report, request, watched, told, resets>>
      BY <1>3 DEF FailEvaluation, rows
    <2> QED BY <2>1, <2>2, <2>3, ReplacedByNone, TriedAgain
  <1> QED BY <1>1, <1>2, <1>3

\* Starting a report: the task is dropped, delayed, or at work.
ReportStarts(t) ==
    /\ t.kind = "generate_final_report" /\ t.saw = ""
    /\ \/ /\ Replaced(t, {}) /\ UNCHANGED <<report, lost>>
          /\ session # "COMPLETED" \/ report \in {"PROCESSING", "SUCCESS"}
       \/ UNCHANGED report /\ lost' # {} /\ Replaced(t, {})
       \/ UNCHANGED <<report, lost>> /\ Replaced(t, {Retried(t)})
       \/ /\ session = "COMPLETED" /\ report \notin {"PROCESSING", "SUCCESS"}
          /\ report' = "PROCESSING" /\ lost' = lost /\ Replaced(t, {Begun(t)})
    /\ UNCHANGED <<session, evaluation, request, watched, told, resets>>

LEMMA ReportSteps ==
  ASSUME AiAssumption, WellTyped, NEW t \in Tasks
  PROVE  /\ StartReport(t) => ReportStarts(t)
         /\ FinishReport(t) =>
              /\ Runs(t) /\ Replaced(t, {}) /\ report' \in Terminal
              /\ UNCHANGED <<session, evaluation, request, watched, told, lost, resets>>
         /\ ReportUnavailable(t) =>
              /\ Runs(t) /\ report' = "PENDING"
              /\ \/ Replaced(t, {}) /\ lost' # {}
                 \/ Replaced(t, {Retried(t)}) /\ lost' = lost
              /\ UNCHANGED <<session, evaluation, request, watched, told, resets>>
         /\ ReportWorkerDies(t) =>
              /\ Runs(t) /\ lost' # {}
              /\ Replaced(t, {}) \/ Replaced(t, {Retried(t)})
              /\ UNCHANGED <<session, evaluation, report, request, watched, told, resets>>
  <1>1. ASSUME StartReport(t)
        PROVE  ReportStarts(t)
    <2>1. t.kind = "generate_final_report" /\ t.saw = ""
      BY <1>1, QueuedTask DEF StartReport
    <2>2. UNCHANGED <<session, evaluation, request, watched, told, resets>>
      BY <1>1 DEF StartReport, bounds
    <2>3. \/ /\ tasks' = Without(tasks, t) /\ UNCHANGED <<report, lost>>
             /\ session # "COMPLETED" \/ report \in {"PROCESSING", "SUCCESS"}
          \/ /\ tasks' = Again(t, Without(tasks, t)) /\ lost' = Spent(t)
             /\ UNCHANGED report
          \/ /\ session = "COMPLETED" /\ report \notin {"PROCESSING", "SUCCESS"}
             /\ report' = "PROCESSING" /\ tasks' = Started(t) /\ lost' = lost
      BY <1>1 DEF StartReport, MayProcess, Without
    <2>4. CASE /\ tasks' = Without(tasks, t) /\ UNCHANGED <<report, lost>>
               /\ session # "COMPLETED" \/ report \in {"PROCESSING", "SUCCESS"}
      BY <2>1, <2>2, <2>4, ReplacedByNone DEF ReportStarts
    <2>5. CASE /\ tasks' = Again(t, Without(tasks, t)) /\ lost' = Spent(t)
               /\ UNCHANGED report
      BY <2>1, <2>2, <2>5, TriedAgain DEF ReportStarts
    <2>6. CASE /\ session = "COMPLETED" /\ report \notin {"PROCESSING", "SUCCESS"}
               /\ report' = "PROCESSING" /\ tasks' = Started(t) /\ lost' = lost
      <3>1. tasks' = With(Without(tasks, t), Begun(t))
        BY <2>6, TaskOperators
      <3>2. Replaced(t, {Begun(t)})
        BY <3>1, ReplacedByOne
      <3> QED BY <2>1, <2>2, <2>6, <3>2 DEF ReportStarts
    <2> QED BY <2>3, <2>4, <2>5, <2>6
  <1>2. ASSUME FinishReport(t)
        PROVE  /\ Runs(t) /\ Replaced(t, {}) /\ report' \in Terminal
               /\ UNCHANGED <<session, evaluation, request, watched, told, lost, resets>>
    <2>1. Runs(t)
      BY <1>2, QueuedTask DEF FinishReport, Runs
    <2>2. /\ tasks' = Without(tasks, t) /\ report' \in Terminal
          /\ UNCHANGED <<session, evaluation, request, watched, told, lost, resets>>
      BY <1>2 DEF FinishReport, Without, Terminal, history, bounds
    <2> QED BY <2>1, <2>2, ReplacedByNone
  <1>3. ASSUME ReportUnavailable(t)
        PROVE  /\ Runs(t) /\ report' = "PENDING"
               /\ \/ Replaced(t, {}) /\ lost' # {}
                  \/ Replaced(t, {Retried(t)}) /\ lost' = lost
               /\ UNCHANGED <<session, evaluation, request, watched, told, resets>>
    <2>1. Runs(t)
      BY <1>3, QueuedTask DEF ReportUnavailable, Runs
    <2>2. /\ tasks' = Again(t, Without(tasks, t)) /\ lost' = Spent(t)
          /\ report' = "PENDING"
          /\ UNCHANGED <<session, evaluation, request, watched, told, resets>>
      BY <1>3 DEF ReportUnavailable, Without
    <2> QED BY <2>1, <2>2, TriedAgain
  <1>4. ASSUME ReportWorkerDies(t)
        PROVE  /\ Runs(t) /\ lost' # {}
               /\ Replaced(t, {}) \/ Replaced(t, {Retried(t)})
               /\ UNCHANGED <<session, evaluation, report, request, watched, told, resets>>
    <2>1. Runs(t)
      BY <1>4, QueuedTask DEF ReportWorkerDies, Runs
    <2>2. /\ tasks' \in {Without(tasks, t), Again(t, Without(tasks, t))}
          /\ lost' = lost \cup {"died"}
          /\ UNCHANGED <<session, evaluation, report, request, watched, told, resets>>
      BY <1>4 DEF ReportWorkerDies, Without, rows
    <2>3. tasks' = Without(tasks, t) \/ tasks' = With(Without(tasks, t), Retried(t))
      BY <2>2, TaskOperators
    <2> QED BY <2>1, <2>2, <2>3, ReplacedByNone, ReplacedByOne
  <1> QED BY <1>1, <1>2, <1>3, <1>4

-----------------------------------------------------------------------------
(* A report has one worker *)

\* As long as no worker was taken for dead, one at most has the report, which
\* is PROCESSING then; and the watchdog has found a report without a worker.
SoleRunner ==
    resets = 0 =>
        /\ report # "PROCESSING" \/ watched => Generating = {}
        /\ watched => report = "PROCESSING"
        /\ \A t, u \in Generating : t = u /\ tasks[t] = 1

SameRunners ==
    \A u : Runs(u) => (u \in Tasks' <=> u \in Tasks) /\ (u \in Tasks => tasks'[u] = tasks[u])

LEMMA RunnersKept ==
  ASSUME \/ \E t \in Tasks : \E new : ~Runs(t) /\ (\A u \in new : ~Runs(u)) /\ Replaced(t, new)
         \/ \E u : ~Runs(u) /\ Added(u)
         \/ tasks' = tasks
  PROVE  SameRunners
  BY DEF SameRunners, Replaced, Added, Tasks, BagToSet

LEMMA SameRunnersSole ==
  ASSUME SoleRunner, SameRunners, UNCHANGED <<report, resets>>, watched' => watched
  PROVE  SoleRunner'
  BY DEF SoleRunner, SameRunners, Generating

LEMMA RunnerLeaves ==
  ASSUME SoleRunner, resets = 0, NEW t \in Tasks, Runs(t), NEW new, Replaced(t, new),
         \A u \in new : ~Runs(u)
  PROVE  Generating' = {} /\ ~watched
  <1>1. tasks[t] = 1 /\ ~watched /\ \A u \in Generating : u = t
    BY DEF SoleRunner, Generating
  <1>2. t \notin Tasks'
    BY <1>1 DEF Replaced
  <1> QED BY <1>1, <1>2 DEF Generating, Replaced

LEMMA WorkerSole ==
  ASSUME AiAssumption, WellTyped, SoleRunner, NEW t \in Tasks,
         \/ StartEvaluation(t) \/ FinishEvaluation(t)
         \/ StartReport(t) \/ FinishReport(t)
         \/ FailEvaluation(t) \/ ReportUnavailable(t)
         \/ ReportWorkerDies(t)
  PROVE  SoleRunner' /\ (report = "SUCCESS" /\ resets = 0 => report' = "SUCCESS")
  <1>1. /\ Begun(t).kind = t.kind /\ Begun(t).saw = session /\ session # ""
        /\ ~Runs(Retried(t)) /\ ~Runs(Generate(0))
    BY TaskFields, NewFields DEF Runs
  <1>2. CASE StartEvaluation(t) \/ FinishEvaluation(t) \/ FailEvaluation(t)
    <2>1. /\ t.kind = "evaluate_turn" /\ UNCHANGED <<report, watched, resets>>
          /\ \/ Replaced(t, {}) \/ Replaced(t, {Begun(t)})
             \/ Replaced(t, {Generate(0)}) \/ Replaced(t, {Retried(t)})
      BY <1>2, EvaluationSteps
    <2>2. ~Runs(t) /\ ~Runs(Begun(t))
      BY <1>1, <2>1 DEF Runs
    <2>3. \E new : (\A u \in new : ~Runs(u)) /\ Replaced(t, new)
      BY <1>1, <2>1, <2>2
    <2>4. SameRunners
      BY <2>2, <2>3, RunnersKept
    <2> QED BY <2>1, <2>4, SameRunnersSole
  <1>3. CASE StartReport(t)
    <2>1. ReportStarts(t)
      BY <1>3, ReportSteps
    <2>2. ~Runs(t) /\ UNCHANGED <<watched, resets>>
      BY <2>1 DEF ReportStarts, Runs
    <2>3. CASE UNCHANGED report /\ (Replaced(t, {}) \/ Replaced(t, {Retried(t)}))
      <3>1. \E new : (\A u \in new : ~Runs(u)) /\ Replaced(t, new)
        BY <1>1, <2>3
      <3>2. SameRunners
        BY <2>2, <3>1, RunnersKept
      <3> QED BY <2>2, <2>3, <3>2, SameRunnersSole
    <2>4. CASE /\ report \notin {"PROCESSING", "SUCCESS"} /\ report' = "PROCESSING"
               /\ Replaced(t, {Begun(t)})
      <3>1. SUFFICES ASSUME resets = 0 PROVE SoleRunner'
        BY <2>2, <2>4 DEF SoleRunner
      <3>2. Generating = {} /\ ~watched
        BY <2>4, <3>1 DEF SoleRunner
      <3>3. Runs(Begun(t))
        BY <1>1, <2>1 DEF Runs, ReportStarts
      <3>4. Begun(t) \notin Tasks
        BY <3>2, <3>3 DEF Generating
      <3>5. Generating' = {Begun(t)} /\ tasks'[Begun(t)] = 1
        BY <2>4, <3>2, <3>3, <3>4 DEF Generating, Replaced
      <3> QED BY <2>2, <2>4, <3>2, <3>5 DEF SoleRunner
    <2> QED BY <2>1, <2>3, <2>4 DEF ReportStarts
  <1>4. CASE \/ FinishReport(t) \/ ReportUnavailable(t)
             \/ ReportWorkerDies(t)
    <2>1. /\ Runs(t) /\ UNCHANGED <<watched, resets>>
          /\ Replaced(t, {}) \/ Replaced(t, {Retried(t)})
      BY <1>4, ReportSteps
    <2>0. resets # 0 => SoleRunner'
      <3>1. resets' = resets
        BY <2>1
      <3> QED BY <3>1 DEF SoleRunner
    <2>2. SUFFICES ASSUME resets = 0
                   PROVE  SoleRunner' /\ (report = "SUCCESS" => report' = "SUCCESS")
      BY <2>0
    <2>3. Generating' = {} /\ ~watched
      <3>1. CASE Replaced(t, {})
        BY <2>1, <2>2, <3>1, RunnerLeaves
      <3>2. CASE Replaced(t, {Retried(t)})
        <4>1. \A u \in {Retried(t)} : ~Runs(u)
          BY <1>1
        <4> QED BY <2>1, <2>2, <3>2, <4>1, RunnerLeaves
      <3> QED BY <2>1, <3>1, <3>2
    <2>4. report = "PROCESSING"
      BY <2>1, <2>2 DEF SoleRunner, Generating
    <2> QED BY <2>1, <2>3, <2>4 DEF SoleRunner
  <1> QED BY <1>2, <1>3, <1>4

LEMMA WatchdogSole ==
  ASSUME AiAssumption, WellTyped, SoleRunner, Watchdog
  PROVE  SoleRunner' /\ (report = "SUCCESS" /\ resets = 0 => report' = "SUCCESS")
  <1>1. CASE FindStuck
    <2>1. /\ report = "PROCESSING" /\ UNCHANGED <<tasks, report>>
          /\ \/ Running("generate_final_report") = {} /\ resets' = resets
             \/ resets' = resets + 1
      BY <1>1 DEF FindStuck, rows
    <2>2. resets \in Nat
      BY DEF WellTyped, InterviewTypeOK
    <2>3. Generating = Running("generate_final_report")
      BY QueuedTask DEF Generating, Runs
    <2>4. Generating' = Generating
      BY <2>1 DEF Generating, Tasks, BagToSet
    <2> QED BY <2>1, <2>2, <2>3, <2>4 DEF SoleRunner
  <1>2. CASE RecoverStuck
    <2>1. watched /\ ~watched' /\ resets' = resets
      BY <1>2 DEF RecoverStuck, bounds
    <2>2. \/ report = "SUCCESS" /\ UNCHANGED <<report, tasks>>
          \/ /\ report # "SUCCESS" /\ report' = "PENDING"
             /\ tasks' = With(tasks, Generate(0))
      BY <1>2 DEF RecoverStuck, Reset, With
    <2>3. ~Runs(Generate(0))
      BY NewFields DEF Runs
    <2>4. SameRunners
      BY <2>2, <2>3, AddedOne, RunnersKept
    <2> QED BY <2>1, <2>2, <2>4 DEF SoleRunner, SameRunners, Generating
  <1> QED BY <1>1, <1>2 DEF Watchdog

\* The other steps leave the report and its workers alone.
LEMMA OthersSole ==
  ASSUME AiAssumption, WellTyped, SoleRunner,
         \/ AgentDies \/ Views \/ Agent \/ AutoEnd
         \/ Visit \/ ClockTick \/ UNCHANGED interviewVars
  PROVE  SoleRunner' /\ report' = report
  <1>1. UNCHANGED <<report, watched, resets>>
    <2>1. CASE Views
      BY <2>1 DEF Views, Look, Join, End, RecordTurn,
                  SyncState, NotifyCompleted, bounds
    <2>2. CASE ~Views
      BY <2>2 DEF AgentDies, Agent, AskTurn, Conclude, Close,
                  Notify, AutoEnd, Visit, ClockTick, interviewVars,
                  rows, bounds
    <2> QED BY <2>1, <2>2
  <1>2. \/ tasks' = tasks \/ tasks' = With(tasks, Generate(0))
        \/ \E k : tasks' = With(tasks, Evaluate(k, 0))
    <2>1. CASE Views
      <3>1. CASE RecordTurn
        BY <3>1 DEF RecordTurn, With
      <3>2. CASE NotifyCompleted
        BY <3>2 DEF NotifyCompleted, With
      <3>3. ASSUME NEW kind, End(kind)
            PROVE  tasks' = tasks \/ tasks' = With(tasks, Generate(0))
        BY <3>3 DEF End, With
      <3>4. CASE Look \/ Join \/ SyncState
        BY <3>4 DEF Look, Join, SyncState
      <3> QED BY <2>1, <3>1, <3>2, <3>3, <3>4 DEF Views
    <2>2. CASE ~Views
      BY <2>2 DEF AgentDies, Agent, AskTurn, Conclude, Close,
                  Notify, AutoEnd, Visit, ClockTick, interviewVars
    <2> QED BY <2>1, <2>2
  <1>3. ~Runs(Generate(0)) /\ \A k : ~Runs(Evaluate(k, 0))
    BY NewFields DEF Runs
  <1>4. SameRunners
    BY <1>2, <1>3, AddedOne, RunnersKept
  <1> QED BY <1>1, <1>4, SameRunnersSole

LEMMA StepSole ==
  ASSUME AiAssumption, WellTyped, SoleRunner, [InterviewNext]_interviewVars
  PROVE  SoleRunner' /\ (report = "SUCCESS" /\ resets = 0 => report' = "SUCCESS")
  <1>1. CASE \E t \in Tasks :
               \/ StartEvaluation(t) \/ FinishEvaluation(t)
               \/ StartReport(t) \/ FinishReport(t)
               \/ FailEvaluation(t) \/ ReportUnavailable(t)
               \/ ReportWorkerDies(t)
    BY <1>1, WorkerSole
  <1>2. CASE Watchdog
    BY <1>2, WatchdogSole
  <1>3. CASE \/ AgentDies \/ Views \/ Agent \/ AutoEnd
             \/ Visit \/ ClockTick \/ UNCHANGED interviewVars
    BY <1>3, OthersSole
  <1> QED BY <1>1, <1>2, <1>3 DEF InterviewNext, Worker, Failure, Tasks

\* A generated report stays, however often it was asked for and however many
\* workers died, unless the watchdog took a slow worker for a dead one.
THEOREM SuccessStays == InterviewSpec => SuccessKept
  <1>1. InterviewInit => WellTyped /\ SoleRunner
    <2>1. ASSUME InterviewInit
          PROVE  SoleRunner
      <3>1. DOMAIN tasks = {}
        BY <2>1 DEF InterviewInit, EmptyBag, SetToBag
      <3> QED BY <2>1, <3>1 DEF InterviewInit, SoleRunner, Generating, Tasks, BagToSet
    <2> QED BY <2>1, WellTypedInit, AiAssumption
  <1>2. WellTyped /\ SoleRunner /\ [InterviewNext]_interviewVars
          => WellTyped' /\ SoleRunner'
    BY WellTypedStep, StepSole, AiAssumption
  <1>3. WellTyped /\ SoleRunner /\ [InterviewNext]_interviewVars
          => [report = "SUCCESS" /\ resets = 0 => report' = "SUCCESS"]_interviewVars
    BY StepSole, AiAssumption
  <1> QED BY <1>1, <1>2, <1>3, PTL DEF InterviewSpec, SuccessKept

-----------------------------------------------------------------------------
(* The status of the session and those who have read it *)

Asked(side) == request[side] # Idle
\* A request that read an interview that was not over.
Stale(side) == Asked(side) /\ request[side].saw \in Active

\* Something was done because the session was COMPLETED.
Evidence ==
    \/ told \/ report # "none"
    \/ \E t \in Tasks : t.saw = "COMPLETED"
    \/ \E side \in Sides : Asked(side) /\ request[side].saw = "COMPLETED"

\* Before the first join only the candidate is there; a page that looks makes
\* the session final.
BeforeJoin ==
    /\ Asked("candidate") => (request["candidate"].saw = "READY" <=> session = "READY")
    /\ Asked("agent") => request["agent"].saw # "READY"
    /\ session = "READY" => agent.at = "away" /\ ~Asked("agent")
    /\ Of("candidate", "look") =>
          \/ request["candidate"].saw = "READY" /\ clock = "stale"
          \/ request["candidate"].saw = "LIVE" /\ clock = "over"

\* An interview that is over is over: one side at most may still overwrite
\* its status, and nobody once it is not COMPLETED although it was.
AfterEnd ==
    /\ session \notin Active => ~(Stale("candidate") /\ Stale("agent"))
    /\ Evidence => /\ session \notin Active
                   /\ session # "COMPLETED" => ~Stale("candidate") /\ ~Stale("agent")

ReportBegun == report = "none" => ~watched /\ Generating = {}

StatusInv == BeforeJoin /\ AfterEnd /\ ReportBegun

\* What a step does to the session and the requests.
AgentStaysAway == agent.at = "away" => agent'.at = "away"
Quiet == UNCHANGED <<session, request, clock>> /\ AgentStaysAway
Asks(side) ==
    /\ ~Asked(side) /\ session' = session /\ clock' = clock /\ AgentStaysAway
    /\ \E kind : /\ request' = [request EXCEPT ![side] = [kind |-> kind, saw |-> session]]
                 /\ kind = "look" => Refreshed(session) # session
    /\ side = "agent" => agent.at # "away"
Commits(side) ==
    /\ Asked(side) /\ request' = [request EXCEPT ![side] = Idle]
    /\ \/ session' = session
       \/ Stale(side) /\ session' \notin Active
       \/ side = "candidate" /\ request[side].saw = "READY" /\ session' = "LIVE"
    /\ side = "agent" => clock' = clock
    /\ session' = "READY" => agent'.at = agent.at

Grows == Evidence' => Evidence \/ session' = "COMPLETED"

StatusStep == /\ \/ Quiet \/ Asks("candidate") \/ Asks("agent")
                 \/ Commits("candidate") \/ Commits("agent")
                 \/ UNCHANGED <<session, request, agent>> /\ clock \notin {"stale", "over"}
              /\ Grows

LEMMA RefreshedChanges ==
  ASSUME NEW s, Refreshed(s) # s
  PROVE  \/ s = "READY" /\ clock = "stale" /\ Refreshed(s) = "FAILED"
         \/ s = "LIVE" /\ clock = "over" /\ Refreshed(s) = "COMPLETED"
  BY DEF Refreshed

LEMMA EndedStatus ==
  ASSUME NEW kind, NEW s
  PROVE  /\ s \notin Active => Ended(kind, s) = s
         /\ s \in Active => Ended(kind, s) \in {"CANCELLED", "COMPLETED"}
  BY DEF Ended

LEMMA RequestFields ==
  ASSUME WellTyped, NEW side \in Sides, NEW other \in Sides, other # side,
         NEW new, request' = [request EXCEPT ![side] = new]
  PROVE  request'[side] = new /\ request'[other] = request[other]
  BY DEF WellTyped, InterviewTypeOK

LEMMA BothSides ==
  "candidate" \in Sides /\ "agent" \in Sides
  BY DEF Sides

LEMMA BeforeJoinStep ==
  ASSUME AiAssumption, WellTyped, StatusInv, StatusStep
  PROVE  BeforeJoin'
  <1>1. CASE Quiet \/ (UNCHANGED <<session, request, agent>> /\ clock \notin {"stale", "over"})
    BY <1>1 DEF Quiet, AgentStaysAway, StatusInv, BeforeJoin, Asked, Of
  <1>2. CASE Asks("candidate")
    <2>1. PICK kind : /\ request' = [request EXCEPT !["candidate"] = [kind |-> kind, saw |-> session]]
                      /\ kind = "look" => Refreshed(session) # session
      BY <1>2 DEF Asks
    <2>2. /\ request'["candidate"] = [kind |-> kind, saw |-> session]
          /\ request'["agent"] = request["agent"]
      BY <2>1, BothSides, RequestFields
    <2>3. kind = "look" => \/ session = "READY" /\ clock = "stale"
                           \/ session = "LIVE" /\ clock = "over"
      BY <2>1, RefreshedChanges
    <2> QED BY <1>2, <2>2, <2>3
            DEF Asks, AgentStaysAway, StatusInv, BeforeJoin, Asked, Of
  <1>3. CASE Asks("agent")
    <2>1. PICK kind : request' = [request EXCEPT !["agent"] = [kind |-> kind, saw |-> session]]
      BY <1>3 DEF Asks
    <2>2. /\ request'["agent"] = [kind |-> kind, saw |-> session]
          /\ request'["candidate"] = request["candidate"]
      BY <2>1, BothSides, RequestFields
    <2>3. session # "READY"
      BY <1>3 DEF Asks, StatusInv, BeforeJoin
    <2> QED BY <1>3, <2>2, <2>3 DEF Asks, StatusInv, BeforeJoin, Asked, Of
  <1>4. CASE Commits("candidate")
    <2>1. request'["candidate"] = Idle /\ request'["agent"] = request["agent"]
      BY <1>4, BothSides, RequestFields DEF Commits
    <2>2. session' = "READY" => session = "READY"
      BY <1>4 DEF Commits, Active
    <2> QED BY <1>4, <2>1, <2>2 DEF Commits, StatusInv, BeforeJoin, Asked, Of
  <1>5. CASE Commits("agent")
    <2>1. request'["agent"] = Idle /\ request'["candidate"] = request["candidate"]
      BY <1>5, BothSides, RequestFields DEF Commits
    <2>2. session # "READY"
      BY <1>5 DEF Commits, StatusInv, BeforeJoin
    <2>3. session' # "READY"
      BY <1>5, <2>2 DEF Commits, Active
    <2> QED BY <1>5, <2>1, <2>2, <2>3 DEF Commits, StatusInv, BeforeJoin, Asked, Of
  <1> QED BY <1>1, <1>2, <1>3, <1>4, <1>5 DEF StatusStep

LEMMA AfterEndStep ==
  ASSUME AiAssumption, WellTyped, StatusInv, StatusStep
  PROVE  AfterEnd'
  <1>1. CASE Quiet \/ (UNCHANGED <<session, request, agent>> /\ clock \notin {"stale", "over"})
    BY <1>1 DEF Quiet, StatusInv, StatusStep, Grows, AfterEnd, Stale, Asked, Active
  <1>2. ASSUME NEW side \in Sides, NEW other \in Sides, other # side,
               Asks(side) \/ Commits(side)
        PROVE  /\ session' \notin Active => ~(Stale(side)' /\ Stale(other)')
               /\ Evidence' => /\ session' \notin Active
                               /\ session' # "COMPLETED" => ~Stale(side)' /\ ~Stale(other)'
    <2>1. \A s \in Sides : s = side \/ s = other
      BY <1>2 DEF Sides
    <2>2. /\ session \notin Active => ~(Stale(side) /\ Stale(other))
          /\ Evidence => /\ session \notin Active
                         /\ session # "COMPLETED" => ~Stale(side) /\ ~Stale(other)
      BY <2>1, BothSides DEF StatusInv, AfterEnd
    <2>3. Evidence' => Evidence \/ session' = "COMPLETED"
      BY DEF StatusStep, Grows
    <2>4. CASE Asks(side)
      <3>1. PICK kind : request' = [request EXCEPT ![side] = [kind |-> kind, saw |-> session]]
        BY <2>4 DEF Asks
      <3>2. /\ request'[side] = [kind |-> kind, saw |-> session]
            /\ request'[other] = request[other]
        BY <1>2, <3>1, RequestFields
      <3>3. session' = session /\ (Stale(other)' <=> Stale(other))
            /\ (Stale(side)' => session \in Active)
        BY <2>4, <3>2 DEF Asks, Stale, Asked, Active
      <3> QED BY <2>2, <2>3, <3>3 DEF Active
    <2>5. CASE Commits(side)
      <3>1. request'[side] = Idle /\ request'[other] = request[other]
        BY <1>2, <2>5, RequestFields DEF Commits
      <3>2. ~Stale(side)' /\ (Stale(other)' <=> Stale(other))
        BY <3>1 DEF Stale, Asked, Active
      <3>3. \/ session' = session
            \/ Stale(side) /\ session' \notin Active
            \/ session \in Active /\ session' = "LIVE"
        BY <2>5 DEF Commits, StatusInv, BeforeJoin, Active
      <3> QED BY <2>2, <2>3, <3>2, <3>3 DEF Active
    <2> QED BY <1>2, <2>4, <2>5
  <1>3. CASE \/ Asks("candidate") \/ Asks("agent") \/ Commits("candidate") \/ Commits("agent")
    BY <1>2, <1>3, BothSides DEF AfterEnd
  <1> QED BY <1>1, <1>3 DEF StatusStep

\* Workers: the session is only read.
LEMMA WorkerStatus ==
  ASSUME AiAssumption, WellTyped, StatusInv, NEW t \in Tasks,
         \/ StartEvaluation(t) \/ FinishEvaluation(t)
         \/ StartReport(t) \/ FinishReport(t)
         \/ FailEvaluation(t) \/ ReportUnavailable(t)
         \/ ReportWorkerDies(t)
  PROVE  Grows /\ ReportBegun' /\ UNCHANGED <<session, request>>
  <1>1. /\ Begun(t).kind = t.kind /\ Begun(t).saw = session
        /\ Retried(t).saw = "" /\ Generate(0).saw = ""
    BY TaskFields, NewFields
  <1>2. CASE StartEvaluation(t) \/ FinishEvaluation(t) \/ FailEvaluation(t)
    <2>1. /\ t.kind = "evaluate_turn" /\ UNCHANGED <<session, report, request, watched>>
          /\ told' = told \/ t.saw = "COMPLETED"
          /\ \/ Replaced(t, {}) \/ Replaced(t, {Begun(t)})
             \/ Replaced(t, {Generate(0)}) \/ Replaced(t, {Retried(t)})
      BY <1>2, EvaluationSteps
    <2>2. \A u \in Tasks' : u \in Tasks \/ u = Begun(t) \/ u.saw = ""
      BY <1>1, <2>1 DEF Replaced
    <2>3. Grows
      BY <1>1, <2>1, <2>2 DEF Grows, Evidence, Asked
    <2>4. ReportBegun'
      BY <1>1, <2>1, <2>2 DEF ReportBegun, StatusInv, Generating, Runs
    <2> QED BY <2>1, <2>3, <2>4
  <1>3. CASE StartReport(t)
    <2>1. ReportStarts(t)
      BY <1>3, ReportSteps
    <2>2. \A u \in Tasks' : u \in Tasks \/ u = Begun(t) \/ u.saw = ""
      BY <1>1, <2>1 DEF ReportStarts, Replaced
    <2>3. report' # report => session = "COMPLETED" /\ report' = "PROCESSING"
      BY <2>1 DEF ReportStarts
    <2>4. Grows
      BY <1>1, <2>1, <2>2, <2>3 DEF ReportStarts, Grows, Evidence, Asked
    <2>5. report' = report => \A u \in Tasks' : u \in Tasks \/ u.saw = ""
      BY <1>1, <2>1 DEF ReportStarts, Replaced
    <2>6. ReportBegun'
      BY <2>1, <2>3, <2>5 DEF ReportStarts, ReportBegun, StatusInv, Generating, Runs
    <2> QED BY <2>1, <2>4, <2>6 DEF ReportStarts
  <1>4. CASE \/ FinishReport(t) \/ ReportUnavailable(t)
             \/ ReportWorkerDies(t)
    <2>1. /\ Runs(t) /\ UNCHANGED <<session, request, watched, told>>
          /\ Replaced(t, {}) \/ Replaced(t, {Retried(t)})
          /\ report' \in Terminal \cup {"PENDING"} \/ report' = report
      BY <1>4, ReportSteps
    <2>2. report # "none"
      BY <2>1 DEF StatusInv, ReportBegun, Generating
    <2>3. report' # "none"
      BY <2>1, <2>2 DEF Terminal
    <2> QED BY <2>1, <2>2, <2>3 DEF Grows, Evidence, ReportBegun
  <1> QED BY <1>2, <1>3, <1>4

LEMMA SameTasks ==
  ASSUME tasks' = tasks
  PROVE  Tasks' = Tasks /\ Generating' = Generating
  BY DEF Tasks, Generating, BagToSet

LEMMA WatchdogStatus ==
  ASSUME AiAssumption, WellTyped, StatusInv, Watchdog
  PROVE  Grows /\ ReportBegun' /\ UNCHANGED <<session, request>>
  <1>1. CASE FindStuck
    <2>1. report = "PROCESSING" /\ UNCHANGED <<session, request, report, told, tasks>>
      BY <1>1 DEF FindStuck, rows, history
    <2> QED BY <2>1, SameTasks DEF Grows, Evidence, ReportBegun
  <1>2. CASE RecoverStuck
    <2>1. watched /\ UNCHANGED <<session, request, told>> /\ report' \in {report, "PENDING"}
      BY <1>2 DEF RecoverStuck, Reset, history
    <2>2. report # "none"
      BY <2>1 DEF StatusInv, ReportBegun
    <2> QED BY <2>1, <2>2 DEF Grows, Evidence, ReportBegun
  <1> QED BY <1>1, <1>2 DEF Watchdog

\* The sides' requests and commits.
LEMMA SideAsks ==
  ASSUME AiAssumption, WellTyped, StatusInv,
         NEW side \in Sides, Asks(side), UNCHANGED <<told, report, tasks, watched>>
  PROVE  Grows /\ ReportBegun'
  <1>1. PICK other \in Sides : other # side
    BY BothSides
  <1>2. PICK kind : request' = [request EXCEPT ![side] = [kind |-> kind, saw |-> session]]
    BY DEF Asks
  <1>3. /\ request'[side] = [kind |-> kind, saw |-> session]
        /\ request'[other] = request[other]
    BY <1>1, <1>2, RequestFields
  <1>4. \A s \in Sides : s = side \/ s = other
    BY <1>1 DEF Sides
  <1>5. Grows
    BY <1>3, <1>4, SameTasks DEF Grows, Evidence, Asked, Asks
  <1> QED BY <1>5, SameTasks DEF ReportBegun, StatusInv

LEMMA SideCommits ==
  ASSUME AiAssumption, WellTyped, StatusInv,
         NEW side \in Sides, Commits(side), UNCHANGED <<report, watched>>,
         \A u \in Tasks' : u \in Tasks \/ u.saw = "",
         told' => Evidence \/ session' = "COMPLETED"
  PROVE  Grows /\ ReportBegun'
  <1>1. PICK other \in Sides : other # side
    BY BothSides
  <1>2. request'[side] = Idle /\ request'[other] = request[other]
    BY <1>1, RequestFields DEF Commits
  <1>3. \A s \in Sides : s = side \/ s = other
    BY <1>1 DEF Sides
  <1>4. Grows
    BY <1>2, <1>3 DEF Grows, Evidence, Asked
  <1>5. ReportBegun'
    BY DEF ReportBegun, StatusInv, Generating, Runs
  <1> QED BY <1>4, <1>5

LEMMA CandidateCommits ==
  ASSUME AiAssumption, WellTyped, StatusInv,
         Look \/ Join \/ \E kind : End(kind)
  PROVE  /\ Commits("candidate") /\ UNCHANGED <<report, watched, lost, evaluation>>
         /\ \/ UNCHANGED <<tasks, told>>
            \/ /\ tasks' = With(tasks, Generate(0)) /\ told' = TRUE
               /\ session' = "COMPLETED" \/ Evidence
  <1> DEFINE saw == request["candidate"].saw
  <1>0. Answered("candidate") =>
          request' = [request EXCEPT !["candidate"] = Idle]
    BY DEF Answered
  <1>1. CASE Look
    <2>1. /\ session' = Refreshed(saw) /\ Asked("candidate")
          /\ (saw = "READY" /\ clock = "stale") \/ (saw = "LIVE" /\ clock = "over")
      BY <1>1 DEF Look, Of, Asked, StatusInv, BeforeJoin
    <2>2. session' \in {"FAILED", "COMPLETED"}
      BY <2>1 DEF Refreshed
    <2>3. UNCHANGED <<report, watched, lost, evaluation, tasks, told>>
      BY <1>1 DEF Look, history
    <2> QED BY <1>0, <1>1, <2>1, <2>2, <2>3 DEF Look, Commits, Stale, Active
  <1>2. CASE Join
    <2> DEFINE now2 == Refreshed(saw)
    <2>1. /\ Asked("candidate")
          /\ session' = IF now2 = "READY" THEN "LIVE" ELSE IF now2 # saw THEN now2 ELSE session
          /\ agent' = IF now2 \in Active /\ agent.at = "away"
                      THEN [agent EXCEPT !.at = "asking"] ELSE agent
          /\ UNCHANGED <<report, watched, lost, evaluation, tasks, told>>
      BY <1>2 DEF Join, Of, Asked, history
    <2>2. CASE now2 = saw
      <3>1. session' = "READY" => saw # "READY" /\ session = "READY"
        BY <2>1, <2>2
      <3>2. session' # "READY"
        BY <2>1, <3>1 DEF StatusInv, BeforeJoin
      <3> QED BY <1>0, <1>2, <2>1, <2>2, <3>2 DEF Join, Commits
    <2>3. CASE now2 # saw
      <3>1. saw \in Active /\ now2 \in {"FAILED", "COMPLETED"}
        BY <2>3, RefreshedChanges DEF Active
      <3> QED BY <1>0, <1>2, <2>1, <2>3, <3>1 DEF Join, Commits, Stale, Active
    <2> QED BY <2>2, <2>3
  <1>3. ASSUME NEW kind, End(kind)
        PROVE  /\ Commits("candidate") /\ UNCHANGED <<report, watched, lost, evaluation>>
               /\ \/ UNCHANGED <<tasks, told>>
                  \/ /\ tasks' = With(tasks, Generate(0)) /\ told' = TRUE
                     /\ session' = "COMPLETED" \/ Evidence
    <2> DEFINE next == Ended(kind, Refreshed(saw))
               ready == kind = "end" /\ next = "COMPLETED" /\ PendingTurns = {}
    <2>1. /\ Asked("candidate") /\ session' = IF next # saw THEN next ELSE session
          /\ tasks' = IF ready THEN With(tasks, Generate(0)) ELSE tasks
          /\ told' = (told \/ ready)
          /\ UNCHANGED <<clock, agent, report, watched, lost, evaluation>>
          /\ Answered("candidate")
      BY <1>3 DEF End, Of, Asked, With
    <2>2. next # saw => saw \in Active /\ next \notin Active
      <3>1. SUFFICES ASSUME next # saw PROVE saw \in Active /\ next \notin Active
        OBVIOUS
      <3>2. CASE Refreshed(saw) = saw
        <4>1. next = Ended(kind, saw)
          BY <3>2
        <4> QED BY <3>1, <4>1, EndedStatus DEF Active
      <3>3. CASE Refreshed(saw) # saw
        <4>1. saw \in Active /\ Refreshed(saw) \in {"FAILED", "COMPLETED"}
          BY <3>3, RefreshedChanges DEF Active
        <4> QED BY <4>1 DEF Ended, Active
      <3> QED BY <3>2, <3>3
    <2>3. next = saw /\ next = "COMPLETED" => Evidence
      BY <2>1, BothSides DEF Evidence
    <2>4. ready => next = "COMPLETED"
      OBVIOUS
    <2>5. told \in BOOLEAN
      BY DEF WellTyped, InterviewTypeOK
    <2> HIDE DEF ready, next
    <2>6. Commits("candidate")
      BY <1>0, <2>1, <2>2 DEF Commits, Stale, Active
    <2> QED BY <2>1, <2>3, <2>4, <2>5, <2>6
  <1> QED BY <1>1, <1>2, <1>3

LEMMA AgentCommits ==
  ASSUME AiAssumption, WellTyped, StatusInv,
         RecordTurn \/ SyncState \/ NotifyCompleted
  PROVE  /\ Commits("agent") /\ UNCHANGED <<report, watched, lost>>
         /\ \/ UNCHANGED <<evaluation, tasks, told>>
            \/ /\ tasks' = With(tasks, Generate(0)) /\ told' = TRUE
               /\ session' = "COMPLETED" /\ UNCHANGED evaluation
            \/ /\ evaluation' = [evaluation EXCEPT ![agent.turn] =
                                    IF evaluation[agent.turn] = "none" THEN "PENDING"
                                    ELSE evaluation[agent.turn]]
               /\ tasks' = With(tasks, Evaluate(agent.turn, 0)) /\ told' = told
  <1>0. request["agent"].saw \in Active /\ Asked("agent") => Stale("agent")
    BY DEF Stale
  <1>1. CASE RecordTurn
    <2>1. agent'.at = agent.at
      BY <1>1 DEF RecordTurn, WellTyped, InterviewTypeOK
    <2> QED BY <1>1, <2>1 DEF RecordTurn, Commits, Answered, Of, Asked,
                              history, With
  <1>2. CASE SyncState
    BY <1>0, <1>2 DEF SyncState, Commits, Answered, Of, Asked,
                      history, Active
  <1>3. CASE NotifyCompleted
    BY <1>0, <1>3 DEF NotifyCompleted, Commits, Answered, Of, Asked,
                      Active, With
  <1> QED BY <1>1, <1>2, <1>3

LEMMA ServerStatus ==
  ASSUME AiAssumption, WellTyped, StatusInv, Views
  PROVE  StatusStep /\ ReportBegun'
  <1>1. \E side \in Sides :
          /\ Commits(side) /\ UNCHANGED <<report, watched>>
          /\ \/ UNCHANGED <<tasks, told>>
             \/ /\ tasks' = With(tasks, Generate(0)) /\ told' = TRUE
                /\ session' = "COMPLETED" \/ Evidence
             \/ \E k : tasks' = With(tasks, Evaluate(k, 0)) /\ told' = told
    BY CandidateCommits, AgentCommits, BothSides DEF Views
  <1>2. PICK side \in Sides :
          /\ Commits(side) /\ UNCHANGED <<report, watched>>
          /\ \/ UNCHANGED <<tasks, told>>
             \/ /\ tasks' = With(tasks, Generate(0)) /\ told' = TRUE
                /\ session' = "COMPLETED" \/ Evidence
             \/ \E k : tasks' = With(tasks, Evaluate(k, 0)) /\ told' = told
    BY <1>1
  <1>3. \A u \in Tasks' : u \in Tasks \/ u.saw = ""
    <2>1. CASE tasks' = tasks
      BY <2>1, SameTasks
    <2>2. ASSUME NEW u, u.saw = "", tasks' = With(tasks, u)
          PROVE  \A v \in Tasks' : v \in Tasks \/ v.saw = ""
      BY <2>2, AddedOne DEF Added
    <2>3. tasks' = tasks \/ \E u : u.saw = "" /\ tasks' = With(tasks, u)
      BY <1>2, NewFields
    <2> QED BY <2>1, <2>2, <2>3
  <1>4. told' => Evidence \/ session' = "COMPLETED"
    BY <1>2 DEF Evidence
  <1>5. Grows /\ ReportBegun'
    BY <1>2, <1>3, <1>4, SideCommits
  <1>6. side \in {"candidate", "agent"}
    BY DEF Sides
  <1> QED BY <1>2, <1>5, <1>6 DEF StatusStep

LEMMA UnmovedGrows ==
  ASSUME StatusInv, UNCHANGED <<session, request, told, report, watched, tasks>>
  PROVE  Grows /\ ReportBegun'
  BY SameTasks DEF Grows, Evidence, Asked, StatusInv, ReportBegun

LEMMA SideStatus ==
  ASSUME AiAssumption, WellTyped, StatusInv,
         \/ AgentDies \/ Agent \/ AutoEnd
         \/ Visit \/ ClockTick \/ UNCHANGED interviewVars
  PROVE  StatusStep /\ ReportBegun' /\ UNCHANGED <<session, evaluation, report, tasks, told, lost>>
  <1>1. UNCHANGED <<session, evaluation, report, tasks, told, lost, watched>>
    BY DEF AgentDies, Agent, AskTurn, Conclude, Close,
           Notify, AutoEnd, Visit, ClockTick, interviewVars,
           rows, history
  <1>2. CASE AgentDies \/ Conclude
    <2>1. Quiet
      BY <1>2 DEF AgentDies, Conclude, Quiet, AgentStaysAway, rows,
                  WellTyped, InterviewTypeOK
    <2> QED BY <1>1, <2>1, UnmovedGrows DEF StatusStep, Quiet
  <1>3. CASE AskTurn \/ Close \/ Notify
    <2>1. /\ agent.at \in {"asking", "closing", "notifying"} /\ clock' = clock
          /\ \/ request' = request
             \/ \E kind \in {"turn", "sync", "notify"} : Ask("agent", kind)
      BY <1>3 DEF AskTurn, Close, Notify, rows
    <2>2. CASE request' = request
      <3>1. Quiet
        BY <1>1, <2>1, <2>2 DEF Quiet, AgentStaysAway
      <3> QED BY <1>1, <2>2, <3>1, UnmovedGrows DEF StatusStep
    <2>3. CASE \E kind \in {"turn", "sync", "notify"} : Ask("agent", kind)
      <3>1. Asks("agent")
        BY <1>1, <2>1, <2>3 DEF Asks, AgentStaysAway, Asked, Ask
      <3> QED BY <1>1, <3>1, BothSides, SideAsks DEF StatusStep
    <2> QED BY <2>1, <2>2, <2>3
  <1>4. CASE AutoEnd \/ Visit
    <2>1. /\ clock' = clock /\ AgentStaysAway
          /\ \E kind : /\ Ask("candidate", kind)
                       /\ kind = "look" => Refreshed(session) # session
      <3>1. CASE AutoEnd
        BY <3>1 DEF AutoEnd, rows, AgentStaysAway
      <3>2. CASE Visit
        BY <3>2 DEF Visit, rows, AgentStaysAway
      <3> QED BY <1>4, <3>1, <3>2
    <2>2. Asks("candidate")
      BY <1>1, <2>1 DEF Asks, Asked, Ask
    <2> QED BY <1>1, <2>2, BothSides, SideAsks DEF StatusStep
  <1>5. CASE ClockTick
    <2>1. UNCHANGED <<session, request, agent>> /\ clock \notin {"stale", "over"}
      BY <1>5 DEF ClockTick
    <2> QED BY <1>1, <2>1, UnmovedGrows DEF StatusStep
  <1>6. CASE UNCHANGED interviewVars
    <2>1. Quiet
      BY <1>6 DEF interviewVars, rows, Quiet, AgentStaysAway
    <2> QED BY <1>1, <2>1, UnmovedGrows DEF StatusStep, Quiet
  <1> QED BY <1>2, <1>3, <1>4, <1>5, <1>6 DEF Agent

LEMMA StatusStepInv ==
  ASSUME AiAssumption, WellTyped, StatusInv, StatusStep, ReportBegun'
  PROVE  StatusInv'
  BY BeforeJoinStep, AfterEndStep DEF StatusInv

WorkOn(t) ==
    \/ StartEvaluation(t) \/ FinishEvaluation(t)
    \/ StartReport(t) \/ FinishReport(t)
    \/ FailEvaluation(t) \/ ReportUnavailable(t)
    \/ ReportWorkerDies(t)

LEMMA QuietWork ==
  ASSUME (\E t \in Tasks : WorkOn(t)) \/ Watchdog
  PROVE  UNCHANGED <<clock, agent>>
  <1>1. CASE Watchdog
    BY <1>1 DEF Watchdog, FindStuck, RecoverStuck, rows
  <1>2. CASE \E t \in Tasks : WorkOn(t)
    BY <1>2 DEF WorkOn, StartEvaluation, FinishEvaluation, StartReport,
                FinishReport, FailEvaluation, ReportUnavailable,
                ReportWorkerDies, rows
  <1> QED BY <1>1, <1>2

LEMMA StepStatus ==
  ASSUME AiAssumption, WellTyped, StatusInv, [InterviewNext]_interviewVars
  PROVE  StatusInv'
  <1>1. CASE (\E t \in Tasks : WorkOn(t)) \/ Watchdog
    <2>1. Grows /\ ReportBegun' /\ UNCHANGED <<session, request>>
      BY <1>1, WorkerStatus, WatchdogStatus DEF WorkOn
    <2>2. UNCHANGED <<clock, agent>>
      BY <1>1, QuietWork
    <2> QED BY <2>1, <2>2, StatusStepInv DEF StatusStep, Quiet, AgentStaysAway
  <1>2. CASE Views
    BY <1>2, ServerStatus, StatusStepInv
  <1>3. CASE \/ AgentDies \/ Agent \/ AutoEnd
             \/ Visit \/ ClockTick \/ UNCHANGED interviewVars
    BY <1>3, SideStatus, StatusStepInv
  <1> QED BY <1>1, <1>2, <1>3 DEF InterviewNext, Worker, Failure, Tasks, WorkOn

-----------------------------------------------------------------------------
(* Nothing is forgotten *)

Evaluates(k) == \E t \in Tasks : t.kind = "evaluate_turn" /\ t.turn = k
Generates == \E t \in Tasks : t.kind = "generate_final_report"
ReportDue == session = "COMPLETED" /\ (report = "PENDING" \/ (told /\ report = "none"))

TurnsRemembered ==
    \A k \in Turns : evaluation[k] = "PENDING" => Evaluates(k)
ReportRemembered == ReportDue => Generates
WorkerRemembered == report = "PROCESSING" => Generating # {}

Remembered == lost = {} => TurnsRemembered /\ ReportRemembered /\ WorkerRemembered

LEMMA RememberedMeaning ==
  Remembered <=> NothingForgotten
  <1>1. \A k : Evaluates(k) <=> \E t \in Outstanding("evaluate_turn") : t.turn = k
    BY QueuedTask DEF Evaluates
  <1>2. Generates <=> Outstanding("generate_final_report") # {}
    BY QueuedTask DEF Generates
  <1>3. Generating # {} <=> Running("generate_final_report") # {}
    BY QueuedTask DEF Generating, Runs
  <1> QED BY <1>1, <1>2, <1>3
          DEF Remembered, TurnsRemembered, ReportRemembered, WorkerRemembered, ReportDue,
              NothingForgotten, PendingTurns

LEMMA EvaluationRemembered ==
  ASSUME AiAssumption, WellTyped, Remembered, lost' = {}, NEW t \in Tasks,
         \/ StartEvaluation(t) \/ FinishEvaluation(t) \/ FailEvaluation(t)
  PROVE  TurnsRemembered' /\ ReportRemembered' /\ WorkerRemembered'
  <1>1. /\ Begun(t).kind = t.kind /\ Begun(t).turn = t.turn
        /\ Retried(t).kind = t.kind /\ Retried(t).turn = t.turn
        /\ Generate(0).kind = "generate_final_report"
    BY TaskFields, NewFields
  <1>2. /\ t.kind = "evaluate_turn" /\ UNCHANGED <<session, report, lost>>
        /\ \E new : /\ Replaced(t, new)
                    /\ told' = told \/ \E u \in new : u.kind = "generate_final_report"
                    /\ \/ \E u \in new : u.kind = "evaluate_turn" /\ u.turn = t.turn
                       \/ t.turn \in Turns => evaluation'[t.turn] # "PENDING"
        /\ \A k \in Turns : evaluation'[k] = "PENDING" => evaluation[k] = "PENDING"
    <2>1. CASE StartEvaluation(t)
      <3>1. /\ t.kind = "evaluate_turn" /\ UNCHANGED <<session, report, lost, told, evaluation>>
            /\ \/ Replaced(t, {}) /\ evaluation[t.turn] = "SUCCESS"
               \/ Replaced(t, {Begun(t)})
        BY <2>1, EvaluationSteps
      <3> QED BY <1>1, <3>1
    <2>2. CASE FinishEvaluation(t)
      <3>1. /\ t.kind = "evaluate_turn" /\ UNCHANGED <<session, report, lost>>
            /\ \E outcome \in Terminal : evaluation' = [evaluation EXCEPT ![t.turn] = outcome]
            /\ \/ Replaced(t, {}) /\ told' = told
               \/ Replaced(t, {Generate(0)})
        BY <2>2, EvaluationSteps
      <3>2. evaluation \in [Turns -> {"none", "PENDING"} \cup Terminal]
        BY DEF WellTyped, InterviewTypeOK
      <3>3. t.turn \in Turns => evaluation'[t.turn] # "PENDING"
        BY <3>1, <3>2 DEF Terminal
      <3>4. \A k \in Turns : evaluation'[k] = "PENDING" => evaluation[k] = "PENDING"
        BY <3>1, <3>2 DEF Terminal
      <3>5. \E new : /\ Replaced(t, new)
                     /\ told' = told \/ \E u \in new : u.kind = "generate_final_report"
        BY <1>1, <3>1
      <3> QED BY <3>1, <3>3, <3>4, <3>5
    <2>3. CASE FailEvaluation(t)
      <3>1. /\ t.kind = "evaluate_turn" /\ UNCHANGED <<session, report, lost, told, evaluation>>
            /\ Replaced(t, {Retried(t)})
        BY <2>3, EvaluationSteps
      <3> QED BY <1>1, <3>1
    <2> QED BY <2>1, <2>2, <2>3
  <1>3. PICK new :
          /\ Replaced(t, new)
          /\ told' = told \/ \E u \in new : u.kind = "generate_final_report"
          /\ \/ \E u \in new : u.kind = "evaluate_turn" /\ u.turn = t.turn
             \/ t.turn \in Turns => evaluation'[t.turn] # "PENDING"
    BY <1>2
  <1>4. TurnsRemembered /\ ReportRemembered /\ WorkerRemembered
    BY <1>2 DEF Remembered
  <1>5. Tasks \ {t} \subseteq Tasks' /\ new \subseteq Tasks'
    BY <1>3 DEF Replaced
  <1>6. TurnsRemembered'
    BY <1>2, <1>3, <1>4, <1>5 DEF TurnsRemembered, Evaluates
  <1>7. ReportRemembered'
    BY <1>2, <1>3, <1>4, <1>5 DEF ReportRemembered, ReportDue, Generates
  <1>8. WorkerRemembered'
    BY <1>2, <1>4, <1>5 DEF WorkerRemembered, Generating, Runs
  <1> QED BY <1>6, <1>7, <1>8

LEMMA ReportTaskRemembered ==
  ASSUME AiAssumption, WellTyped, Remembered, lost' = {}, NEW t \in Tasks,
         \/ StartReport(t) \/ FinishReport(t)
         \/ ReportUnavailable(t) \/ ReportWorkerDies(t)
  PROVE  TurnsRemembered' /\ ReportRemembered' /\ WorkerRemembered'
  <1>1. /\ Begun(t).kind = t.kind /\ Begun(t).saw = session /\ session # ""
        /\ Retried(t).kind = t.kind
    BY TaskFields
  <1>2. /\ t.kind = "generate_final_report" /\ UNCHANGED <<session, evaluation, told, lost>>
        /\ \E new : Replaced(t, new)
    <2>1. CASE StartReport(t)
      BY <2>1, ReportSteps DEF ReportStarts
    <2>2. CASE ~StartReport(t)
      BY <2>2, ReportSteps DEF Runs
    <2> QED BY <2>1, <2>2
  <1>3. TurnsRemembered /\ ReportRemembered /\ WorkerRemembered
    BY <1>2 DEF Remembered
  <1>4. Tasks \ {t} \subseteq Tasks'
    BY <1>2 DEF Replaced
  <1>5. TurnsRemembered'
    BY <1>2, <1>3, <1>4 DEF TurnsRemembered, Evaluates
  <1>6. CASE StartReport(t)
    <2>1. ReportStarts(t)
      BY <1>6, ReportSteps
    <2>2. CASE /\ Replaced(t, {}) /\ UNCHANGED <<report, lost>>
               /\ session # "COMPLETED" \/ report \in {"PROCESSING", "SUCCESS"}
      BY <1>2, <1>3, <1>4, <1>5, <2>1, <2>2
         DEF ReportStarts, ReportRemembered, ReportDue, WorkerRemembered, Generating, Runs
    <2>3. CASE UNCHANGED <<report, lost>> /\ Replaced(t, {Retried(t)})
      BY <1>1, <1>2, <1>3, <1>4, <1>5, <2>1, <2>3
         DEF ReportStarts, Replaced, ReportRemembered, Generates, WorkerRemembered, Generating, Runs
    <2>4. CASE report' = "PROCESSING" /\ Replaced(t, {Begun(t)})
      BY <1>1, <1>2, <1>5, <2>4
         DEF Replaced, ReportRemembered, ReportDue, WorkerRemembered, Generating, Runs
    <2> QED BY <2>1, <2>2, <2>3, <2>4 DEF ReportStarts
  <1>7. CASE FinishReport(t)
    <2>1. report' \in Terminal
      BY <1>7, ReportSteps
    <2> QED BY <1>5, <2>1 DEF ReportRemembered, ReportDue, WorkerRemembered, Terminal
  <1>8. CASE ReportUnavailable(t)
    <2>1. report' = "PENDING" /\ Replaced(t, {Retried(t)})
      BY <1>8, ReportSteps
    <2> QED BY <1>1, <1>2, <1>5, <2>1 DEF Replaced, ReportRemembered, Generates, WorkerRemembered
  <1>9. CASE ReportWorkerDies(t)
    BY <1>9, ReportSteps
  <1> QED BY <1>6, <1>7, <1>8, <1>9

LEMMA GrownTasks ==
  ASSUME Tasks \subseteq Tasks', UNCHANGED <<report, lost>>, Remembered, lost' = {},
         told' => told \/ Generates',
         session' = "COMPLETED" /\ (report = "PENDING" \/ told) => session = "COMPLETED",
         \A k \in Turns :
             evaluation'[k] = "PENDING" => evaluation[k] = "PENDING" \/ Evaluates(k)'
  PROVE  Remembered'
  <1>1. TurnsRemembered /\ ReportRemembered /\ WorkerRemembered
    BY DEF Remembered
  <1>2. TurnsRemembered'
    BY <1>1 DEF TurnsRemembered, Evaluates
  <1>3. ReportRemembered'
    BY <1>1 DEF ReportRemembered, ReportDue, Generates
  <1>4. WorkerRemembered'
    BY <1>1 DEF WorkerRemembered, Generating
  <1> QED BY <1>2, <1>3, <1>4 DEF Remembered

LEMMA WatchdogRemembered ==
  ASSUME AiAssumption, WellTyped, Remembered, Watchdog
  PROVE  Remembered'
  <1>1. CASE FindStuck
    <2>1. UNCHANGED <<session, evaluation, report, told, tasks, lost>>
      BY <1>1 DEF FindStuck, rows, history
    <2> QED BY <2>1, SameTasks DEF Remembered, TurnsRemembered, Evaluates, ReportRemembered,
                                   ReportDue, Generates, WorkerRemembered
  <1>2. CASE RecoverStuck
    <2>1. UNCHANGED <<session, evaluation, told, lost>>
      BY <1>2 DEF RecoverStuck, history
    <2>2. CASE UNCHANGED <<report, tasks>>
      BY <2>1, <2>2, SameTasks DEF Remembered, TurnsRemembered, Evaluates, ReportRemembered,
                                   ReportDue, Generates, WorkerRemembered
    <2>3. CASE report' = "PENDING" /\ tasks' = With(tasks, Generate(0))
      <3>1. Tasks \subseteq Tasks' /\ Generate(0) \in Tasks'
        BY <2>3, AddedOne DEF Added
      <3>2. Generates'
        BY <3>1, NewFields DEF Generates
      <3> QED BY <2>1, <2>3, <3>1, <3>2 DEF Remembered, TurnsRemembered, Evaluates,
                                            ReportRemembered, WorkerRemembered
    <2> QED BY <1>2, <2>2, <2>3 DEF RecoverStuck, Reset, With
  <1> QED BY <1>1, <1>2 DEF Watchdog

\* A session that becomes COMPLETED owed no report before.
LEMMA NoReportDue ==
  ASSUME StatusInv, NEW side \in Sides, Commits(side), session' = "COMPLETED",
         report = "PENDING" \/ told
  PROVE  session = "COMPLETED"
  <1>1. Evidence
    BY DEF Evidence
  <1>2. session # "COMPLETED" => ~Stale(side)
    BY <1>1 DEF StatusInv, AfterEnd, Sides
  <1> QED BY <1>2 DEF Commits

LEMMA ServerRemembered ==
  ASSUME AiAssumption, WellTyped, StatusInv, Remembered, Views
  PROVE  Remembered'
  <1> DEFINE Posted ==
               /\ evaluation' = [evaluation EXCEPT ![agent.turn] =
                                    IF evaluation[agent.turn] = "none" THEN "PENDING"
                                    ELSE evaluation[agent.turn]]
               /\ tasks' = With(tasks, Evaluate(agent.turn, 0)) /\ told' = told
             Ordered ==
               tasks' = With(tasks, Generate(0)) /\ told' = TRUE /\ UNCHANGED evaluation
  <1>1. /\ UNCHANGED <<report, lost>>
        /\ Commits("candidate") \/ Commits("agent")
        /\ UNCHANGED <<evaluation, tasks, told>> \/ Ordered \/ Posted
    <2>1. CASE Look \/ Join \/ \E kind : End(kind)
      BY <2>1, CandidateCommits
    <2>2. CASE RecordTurn \/ SyncState \/ NotifyCompleted
      BY <2>2, AgentCommits
    <2> QED BY <2>1, <2>2 DEF Views
  <1>2. session' = "COMPLETED" /\ (report = "PENDING" \/ told) => session = "COMPLETED"
    BY <1>1, NoReportDue, BothSides
  <1>3. SUFFICES ASSUME lost' = {} PROVE Remembered'
    BY DEF Remembered
  <1>4. CASE UNCHANGED <<evaluation, tasks, told>>
    BY <1>1, <1>2, <1>3, <1>4, SameTasks, GrownTasks
  <1>5. CASE Ordered
    <2>1. Tasks \subseteq Tasks' /\ Generate(0) \in Tasks'
      BY <1>5, AddedOne DEF Added
    <2>2. Generates'
      BY <2>1, NewFields DEF Generates
    <2> QED BY <1>1, <1>2, <1>3, <1>5, <2>1, <2>2, GrownTasks
  <1>6. CASE Posted
    <2>1. Tasks \subseteq Tasks' /\ Evaluate(agent.turn, 0) \in Tasks'
      BY <1>6, AddedOne DEF Added
    <2>2. \A k : k = agent.turn => Evaluates(k)'
      BY <2>1, NewFields DEF Evaluates
    <2>3. evaluation \in [Turns -> {"none", "PENDING"} \cup Terminal]
      BY DEF WellTyped, InterviewTypeOK
    <2>4. \A k \in Turns :
             evaluation'[k] = "PENDING" => evaluation[k] = "PENDING" \/ Evaluates(k)'
      <3>1. \A k \in Turns : k # agent.turn => evaluation'[k] = evaluation[k]
        BY <1>6, <2>3
      <3> QED BY <2>2, <3>1
    <2>5. told' = told
      BY <1>6
    <2> QED BY <1>1, <1>2, <1>3, <2>1, <2>4, <2>5, GrownTasks
  <1> QED BY <1>1, <1>4, <1>5, <1>6

LEMMA StepRemembered ==
  ASSUME AiAssumption, WellTyped, StatusInv, Remembered,
         [InterviewNext]_interviewVars
  PROVE  Remembered'
  <1>1. CASE \E t \in Tasks : WorkOn(t)
    <2>1. SUFFICES ASSUME lost' = {} PROVE TurnsRemembered' /\ ReportRemembered' /\ WorkerRemembered'
      BY DEF Remembered
    <2> QED BY <1>1, <2>1, EvaluationRemembered, ReportTaskRemembered DEF WorkOn
  <1>2. CASE Watchdog
    BY <1>2, WatchdogRemembered
  <1>3. CASE Views
    BY <1>3, ServerRemembered
  <1>4. CASE \/ AgentDies \/ Agent \/ AutoEnd
             \/ Visit \/ ClockTick \/ UNCHANGED interviewVars
    <2>1. UNCHANGED <<session, evaluation, report, tasks, told, lost>>
      BY <1>4, SideStatus
    <2> QED BY <2>1, SameTasks DEF Remembered, TurnsRemembered, Evaluates, ReportRemembered,
                                   ReportDue, Generates, WorkerRemembered
  <1> QED BY <1>1, <1>2, <1>3, <1>4 DEF InterviewNext, Worker, Failure, Tasks, WorkOn

\* As long as no worker died and no retry was the last, every turn that waits
\* has its task, a report that was asked for exists or has one, and what is
\* not final is being worked on.
THEOREM NothingIsForgotten == InterviewSpec => []NothingForgotten
  <1>1. InterviewInit => WellTyped /\ StatusInv /\ Remembered
    <2>1. ASSUME InterviewInit
          PROVE  StatusInv /\ Remembered
      <3>1. DOMAIN tasks = {}
        BY <2>1 DEF InterviewInit, EmptyBag, SetToBag
      <3>2. Tasks = {} /\ Generating = {}
        BY <3>1 DEF Generating, Tasks, BagToSet
      <3>3. ~Asked("candidate") /\ ~Asked("agent")
        BY <2>1, BothSides DEF InterviewInit, Asked
      <3>4. ~Evidence
        BY <2>1, <3>2, <3>3 DEF InterviewInit, Evidence, Sides
      <3>5. StatusInv
        BY <2>1, <3>2, <3>3, <3>4
           DEF InterviewInit, StatusInv, BeforeJoin, AfterEnd, ReportBegun, Stale, Asked, Of
      <3>6. Remembered
        BY <2>1 DEF InterviewInit, Remembered, TurnsRemembered, ReportRemembered, ReportDue,
                    WorkerRemembered
      <3> QED BY <3>5, <3>6
    <2> QED BY <2>1, WellTypedInit, AiAssumption
  <1>2. WellTyped /\ StatusInv /\ Remembered /\ [InterviewNext]_interviewVars
          => WellTyped' /\ StatusInv' /\ Remembered'
    BY WellTypedStep, StepStatus, StepRemembered, AiAssumption
  <1>3. Remembered => NothingForgotten
    BY RememberedMeaning
  <1> QED BY <1>1, <1>2, <1>3, PTL DEF InterviewSpec

=============================================================================
