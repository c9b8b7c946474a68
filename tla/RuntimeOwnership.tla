-------------------------- MODULE RuntimeOwnership --------------------------
(***************************************************************************)
(* Which agent conducts an AI interview: the InterviewRuntimeState row     *)
(* with its owner, lease and position, and the runtimes that acquire it,   *)
(* renew it, resume from it and write it.                                  *)
(*                                                                         *)
(* Every view reads the row, decides, and saves all of its fields, without *)
(* a lock: the row may have been saved by another request in between.  A   *)
(* runtime has two tasks, the interview and the heartbeat loop, with a     *)
(* request each; a request that was sent is served even if its runtime has *)
(* crashed.                                                                *)
(***************************************************************************)
EXTENDS Integers

CONSTANTS
    None,
    Runtimes,   \* agents that are dispatched, one per join of the candidate
    Planned,    \* number of questions of the plan
    Lease,      \* RUNTIME_LEASE_SECONDS
    Horizon     \* bound: the clock stops here

ASSUME RuntimeAssumption ==
    /\ None \notin Runtimes
    /\ Planned \in Nat /\ Lease \in Nat \ {0} /\ Horizon \in Nat

VARIABLES
    now,
    row,        \* InterviewRuntimeState: owner, expiry of its lease, turn index
    turns,      \* turn indexes that were recorded
    at,         \* where a runtime is
    index,      \* questions it takes as answered
    beating,    \* its heartbeat loop runs
    task, beat, \* the row as read by the request of each of its tasks
    grant,      \* history: end of the lease that was last given to a runtime
    crossed     \* history: a save undid another request's save

requests == <<task, beat>>
runtime == <<at, index, beating>>
vars == <<now, row, turns, runtime, requests, grant, crossed>>

Indexes == 0..Planned
Rows == [owner : Runtimes \cup {None}, expires : Nat, index : Indexes]
NoRequest == [kind |-> "none", saw |-> None]

-----------------------------------------------------------------------------
(* The views *)

\* _validate_runtime_ownership
Valid(saw, r) == saw.owner = r /\ now < saw.expires

\* Mutant: a lease is taken over in its last moment.
TakeEarly(saw, r) == saw.owner \in {None, r} \/ now + 1 >= saw.expires

\* AcquireRuntimeOwnershipView: an owner whose lease is over is replaced.
MayTake(saw, r) == saw.owner \in {None, r} \/ now >= saw.expires

\* state.save() writes the fields that were read along with the new ones.
Save(saw, new) ==
    /\ row' = new
    /\ crossed' = (crossed \/ row # saw)

Keep == UNCHANGED <<row, crossed>>

\* _extend_lease
Extend(r, saw, new) ==
    /\ Save(saw, [new EXCEPT !.expires = now + Lease])
    /\ grant' = [grant EXCEPT ![r] = now + Lease]

Send(r, kind) ==
    /\ task[r].kind = "none"
    /\ task' = [task EXCEPT ![r] = [kind |-> kind, saw |-> row]]

Served(r, kind) ==
    /\ task[r].kind = kind
    /\ task' = [task EXCEPT ![r] = NoRequest]

\* The answer finds its runtime, unless that has crashed.
Goes(r, place) == at' = [at EXCEPT ![r] = IF @ = "crashed" THEN @ ELSE place]

-----------------------------------------------------------------------------
(* A runtime *)

Acquire(r) ==
    /\ at[r] = "new" /\ Send(r, "acquire")
    /\ Goes(r, "acquiring")
    /\ UNCHANGED <<now, row, turns, index, beating, beat, grant, crossed>>

\* Whoever is refused ends its job; a lost answer to the page is not
\* distinguished from that.
Acquired(r) ==
    LET saw == task[r].saw
    IN  /\ Served(r, "acquire")
        /\ IF MayTake(saw, r)
           THEN /\ Extend(r, saw, [saw EXCEPT !.owner = r])
                /\ beating' = [beating EXCEPT ![r] = at[r] # "crashed"]
                /\ Goes(r, "loading")
           ELSE Keep /\ UNCHANGED <<grant, beating>> /\ Goes(r, "stopped")
        /\ UNCHANGED <<now, turns, index, beat>>

\* _load_existing_runtime_state: an error, or an index past the last
\* question, means to start afresh.
Load(r) ==
    /\ at[r] = "loading"
    /\ \E i \in ({row.index} \ {Planned}) \cup {0} : index' = [index EXCEPT ![r] = i]
    /\ Goes(r, "ready")
    /\ UNCHANGED <<now, row, turns, beating, requests, grant, crossed>>

\* ensure_runtime_valid precedes whatever is said; a runtime that lost the
\* session falls silent.
AskQuestion(r) ==
    /\ at[r] = "ready" /\ index[r] < Planned
    /\ Goes(r, IF Valid(row, r) THEN "asked" ELSE "silent")
    /\ UNCHANGED <<now, row, turns, index, beating, requests, grant, crossed>>

\* Mutant: the index is advanced whether or not the turn was recorded.
AdvanceAnyway(r) ==
    /\ turns' \in {turns, turns \cup {index[r] + 1}}
    /\ index' = [index EXCEPT ![r] = @ + 1]
    /\ Goes(r, "answered")

\* Mutant: only a turn that is new moves the interview on.
AdvanceOnNew(r) ==
    \/ /\ turns' = turns \cup {index[r] + 1}
       /\ index' = [index EXCEPT ![r] = IF index[r] + 1 \in turns THEN @ ELSE @ + 1]
       /\ Goes(r, "answered")
    \/ /\ turns' \in {turns, turns \cup {index[r] + 1}}
       /\ UNCHANGED <<index, at>>

\* The view that records turns does not ask for the owner; a turn that
\* exists is left as it is.  Without an answer the turn is not finalized.
Finalize(r) ==
    \/ /\ turns' = turns \cup {index[r] + 1}
       /\ index' = [index EXCEPT ![r] = @ + 1]
       /\ Goes(r, "answered")
    \/ /\ turns' \in {turns, turns \cup {index[r] + 1}}
       /\ UNCHANGED <<index, at>>

PostTurn(r) ==
    /\ at[r] = "asked"
    /\ Finalize(r)
    /\ UNCHANGED <<now, row, beating, requests, grant, crossed>>

\* _sync_runtime_state, best effort
Sync(r) ==
    /\ at[r] = "answered"
    /\ \/ Send(r, "patch") /\ Goes(r, "syncing")
       \/ Goes(r, "ready") /\ UNCHANGED task
    /\ UNCHANGED <<now, row, turns, index, beating, beat, grant, crossed>>

Synced(r) ==
    LET saw == task[r].saw
    IN  /\ Served(r, "patch")
        /\ IF Valid(saw, r) THEN Save(saw, [saw EXCEPT !.index = index[r]]) ELSE Keep
        /\ Goes(r, "ready")
        /\ UNCHANGED <<now, turns, index, beating, beat, grant>>

\* RuntimeGuard.stop after the closing words
Stop(r) ==
    /\ at[r] = "ready" /\ index[r] = Planned
    /\ Send(r, "release") /\ Goes(r, "stopped")
    /\ beating' = [beating EXCEPT ![r] = FALSE]
    /\ UNCHANGED <<now, row, turns, index, beat, grant, crossed>>

Released(r) ==
    LET saw == task[r].saw
    IN  /\ Served(r, "release")
        /\ IF saw.owner = r THEN Save(saw, [saw EXCEPT !.owner = None, !.expires = 0]) ELSE Keep
        /\ grant' = [grant EXCEPT ![r] = 0]
        /\ UNCHANGED <<now, turns, runtime, beat>>

\* _heartbeat_loop.  The validation that follows every heartbeat can only
\* find what the next heartbeat finds as well.
Heartbeat(r) ==
    /\ beating[r] /\ beat[r].kind = "none"
    /\ beat' = [beat EXCEPT ![r] = [kind |-> "beat", saw |-> row]]
    /\ UNCHANGED <<now, row, turns, runtime, task, grant, crossed>>

\* A refused heartbeat ends the loop, and nothing else: its exception is
\* looked at when the runtime stops.
Renewed(r) ==
    LET saw == beat[r].saw
    IN  /\ beat[r].kind = "beat"
        /\ beat' = [beat EXCEPT ![r] = NoRequest]
        /\ IF Valid(saw, r)
           THEN Extend(r, saw, saw) /\ UNCHANGED beating
           ELSE Keep /\ beating' = [beating EXCEPT ![r] = FALSE] /\ UNCHANGED grant
        /\ UNCHANGED <<now, turns, at, index, task>>

Crash(r) ==
    /\ at[r] \notin {"new", "stopped", "crashed"}
    /\ Goes(r, "crashed")
    /\ beating' = [beating EXCEPT ![r] = FALSE]
    /\ UNCHANGED <<now, row, turns, index, requests, grant, crossed>>

-----------------------------------------------------------------------------
(* Specification *)

Tick ==
    /\ now < Horizon
    /\ now' = now + 1
    /\ UNCHANGED <<row, turns, runtime, requests, grant, crossed>>

Init ==
    /\ now = 0
    /\ row = [owner |-> None, expires |-> 0, index |-> 0]
    /\ turns = {}
    /\ at = [r \in Runtimes |-> "new"]
    /\ index = [r \in Runtimes |-> 0]
    /\ beating = [r \in Runtimes |-> FALSE]
    /\ task = [r \in Runtimes |-> NoRequest] /\ beat = [r \in Runtimes |-> NoRequest]
    /\ grant = [r \in Runtimes |-> 0]
    /\ crossed = FALSE

Interview(r) == Load(r) \/ AskQuestion(r) \/ PostTurn(r) \/ Sync(r) \/ Stop(r)
Server(r) == Acquired(r) \/ Synced(r) \/ Released(r)
Heartbeats(r) == Heartbeat(r) \/ Renewed(r)

Next ==
    \/ \E r \in Runtimes : Interview(r) \/ Server(r) \/ Heartbeats(r) \/ Acquire(r) \/ Crash(r)
    \/ Tick

Spec == Init /\ [][Next]_vars

\* Requests of the interview are answered, and the timeout loop of a runtime
\* that is alive goes on to the next question even if nothing is said.  No
\* turn is lost for ever: to be refused over and over is not progress.
FairSpec ==
    /\ Spec
    /\ \A r \in Runtimes : WF_vars(Interview(r)) /\ WF_vars(Server(r))

-----------------------------------------------------------------------------
(* Correctness *)

Places == {"new", "acquiring", "loading", "ready", "asked", "answered", "syncing",
           "silent", "stopped", "crashed"}
Pending(kinds) == [kind : kinds, saw : Rows] \cup {NoRequest}

TypeOK ==
    /\ now \in Nat
    /\ row \in Rows
    /\ turns \subseteq 1..Planned
    /\ at \in [Runtimes -> Places] /\ index \in [Runtimes -> Indexes]
    /\ beating \in [Runtimes -> BOOLEAN]
    /\ task \in [Runtimes -> Pending({"acquire", "patch", "release"})]
    /\ beat \in [Runtimes -> Pending({"beat"})]
    /\ grant \in [Runtimes -> Nat]
    /\ crossed \in BOOLEAN

\* The row never gives a lease to a runtime while another one's runs, as
\* long as no two requests crossed between read and save.
OneLease ==
    ~crossed => \A r, s \in Runtimes : grant[r] > now /\ grant[s] > now => r = s

\* Crashes, takeovers, stale rows and runtimes that start afresh may record
\* a turn twice, but never skip one: the report's questions have no gap.
NoTurnSkipped == \A k \in turns : k = 1 \/ k - 1 \in turns

\* Whatever the row says meanwhile, a runtime comes to an end: replays of
\* turns that exist carry a resumed one forward, and a replaced one falls
\* silent.
RuntimeEnds ==
    \A r \in Runtimes : at[r] = "ready" ~> at[r] \in {"silent", "stopped", "crashed"}

=============================================================================
