---------------------------- MODULE AiInterview ----------------------------
(***************************************************************************)
(* One AI interview from the first join to its final report: the           *)
(* candidate's and the agent's requests on the session row, the agent's    *)
(* turns and closing, the Celery tasks that evaluate the turns and         *)
(* generate the report, and the watchdog for reports whose worker died.    *)
(*                                                                         *)
(* A request reads the session row, and writes what follows from what it   *)
(* has read (Model.save); the other side's request may commit in between.  *)
(* The candidate and the agent each wait for one answer before the next    *)
(* request.  A task is taken off the queue before it runs, so a worker     *)
(* that dies loses it.                                                     *)
(***************************************************************************)
EXTENDS Integers, FiniteSets, Bags

CONSTANTS
    Idle,
    Questions,      \* number of questions the agent asks
    MaxRetries,     \* max_retries of both tasks
    MaxFaults,      \* bound: lost answers, transient errors, dead workers and agents
    MaxResets,      \* bound: reports reset although their worker was only slow
    MaxVisits       \* bound: requests of the candidate

ASSUME AiAssumption ==
    /\ {Questions, MaxRetries, MaxFaults, MaxResets, MaxVisits} \subseteq Nat

Turns == 1..Questions
Sides == {"candidate", "agent"}

VARIABLES
    session,    \* status of the AIInterviewSession
    clock,      \* age before the first join, elapsed time since
    request,    \* the request each side has under way: kind, and the status it read
    evaluation, \* of every recorded turn
    report,     \* status of the AIInterviewFinalReport
    tasks,      \* bag of Celery tasks, queued and running
    watched,    \* the watchdog has found the report PROCESSING for ten minutes
    agent,      \* where the agent is, and the question it asks
    told,       \* history: generate_final_report was queued
    lost,       \* history: how tasks were lost, their worker died or no retry was left
    faults, resets, visits

rows == <<session, clock, evaluation, report>>
history == <<told, lost>>
bounds == <<faults, resets, visits>>
interviewVars == <<rows, request, tasks, watched, agent, history, bounds>>

Active == {"READY", "LIVE"}
PendingTurns == {k \in Turns : evaluation[k] = "PENDING"}
Terminal == {"SUCCESS", "FAILED"}

-----------------------------------------------------------------------------
(* Tasks *)

\* A task that runs has read the session's status; "" while it is queued.
Evaluate(k, tries) == [kind |-> "evaluate_turn", turn |-> k, tries |-> tries, saw |-> ""]
Generate(tries) == [kind |-> "generate_final_report", turn |-> 0, tries |-> tries, saw |-> ""]

Some(task) == SetToBag({task})
Started(task) == (tasks (-) Some(task)) (+) Some([task EXCEPT !.saw = session])

Queued(kind) == {t \in BagToSet(tasks) : t.kind = kind /\ t.saw = ""}
Running(kind) == {t \in BagToSet(tasks) : t.kind = kind /\ t.saw # ""}

Fault == faults < MaxFaults /\ faults' = faults + 1

Spent(task) == IF task.tries < MaxRetries THEN lost ELSE lost \cup {"exhausted"}

\* Mutant: an error is logged and not retried.
Dropped(task, rest) == rest

\* self.retry and autoretry_for; a task that has no retry left is dropped.
Again(task, rest) ==
    IF task.tries < MaxRetries
    THEN rest (+) Some([task EXCEPT !.tries = @ + 1, !.saw = ""])
    ELSE rest

\* A task that met an error is gone if its worker died, else retried.
Broken(task) ==
    LET rest == tasks (-) Some(task)
    IN  \/ tasks' = rest /\ lost' = lost \cup {"died"}
        \/ tasks' = Again(task, rest) /\ lost' = Spent(task)

-----------------------------------------------------------------------------
(* evaluate_turn *)

StartEvaluation(task) ==
    /\ task \in Queued("evaluate_turn")
    /\ tasks' = IF evaluation[task.turn] = "SUCCESS" THEN tasks (-) Some(task) ELSE Started(task)
    /\ UNCHANGED <<rows, request, watched, agent, history, bounds>>

\* A skipped question is a SUCCESS at once, an empty answer or an unusable
\* model output FAILED.  The session is the one read when the task began.
FinishEvaluation(task) ==
    /\ task \in Running("evaluate_turn")
    /\ \E outcome \in Terminal :
        /\ evaluation' = [evaluation EXCEPT ![task.turn] = outcome]
        /\ LET last == task.saw = "COMPLETED" /\ PendingTurns \subseteq {task.turn}
               rest == tasks (-) Some(task)
           IN  /\ tasks' = IF last THEN rest (+) Some(Generate(0)) ELSE rest
               /\ told' = (told \/ last)
    /\ UNCHANGED <<session, clock, report, request, watched, agent, lost, bounds>>

FailEvaluation(task) ==
    /\ task \in Running("evaluate_turn") /\ Fault
    /\ Broken(task)
    /\ UNCHANGED <<rows, request, watched, agent, told, resets, visits>>

-----------------------------------------------------------------------------
(* generate_final_report *)

\* Mutant: a report that is done is generated again.
MayProcessDone(status) == status # "PROCESSING"

MayProcess(status) == status \notin {"PROCESSING", "SUCCESS"}

\* Evaluations that are not terminal delay the first attempt, and no other.
Delayed(task) == PendingTurns # {} /\ task.tries < 1

StartReport(task) ==
    LET rest == tasks (-) Some(task)
    IN  /\ task \in Queued("generate_final_report")
        /\ IF session # "COMPLETED"
           THEN tasks' = rest /\ UNCHANGED <<report, lost>>
           ELSE IF Delayed(task)
           THEN tasks' = Again(task, rest) /\ lost' = Spent(task) /\ UNCHANGED report
           ELSE IF ~MayProcess(report)
           THEN tasks' = rest /\ UNCHANGED <<report, lost>>
           ELSE /\ report' = "PROCESSING"
                /\ tasks' = Started(task)
                /\ UNCHANGED lost
        /\ UNCHANGED <<session, clock, evaluation, request, watched, agent, told, bounds>>

\* SUCCESS, and FAILED after a permanent error, are saved whatever the
\* report's status is by now; without turns the model is not asked.
FinishReport(task) ==
    /\ task \in Running("generate_final_report")
    /\ report' \in IF \A k \in Turns : evaluation[k] = "none" THEN {"SUCCESS"} ELSE Terminal
    /\ tasks' = tasks (-) Some(task)
    /\ UNCHANGED <<session, clock, evaluation, request, watched, agent, history, bounds>>

\* A transient error makes the report PENDING for the retry.
ReportUnavailable(task) ==
    /\ task \in Running("generate_final_report") /\ Fault
    /\ report' = "PENDING"
    /\ tasks' = Again(task, tasks (-) Some(task))
    /\ lost' = Spent(task)
    /\ UNCHANGED <<session, clock, evaluation, request, watched, agent, told, resets, visits>>

\* Any other exception leaves the report PROCESSING, as a dead worker does;
\* its retry finds it so, unless the report was reset in the meantime.
ReportWorkerDies(task) ==
    /\ task \in Running("generate_final_report") /\ Fault
    /\ LET rest == tasks (-) Some(task) IN tasks' \in {rest, Again(task, rest)}
    /\ lost' = lost \cup {"died"}
    /\ UNCHANGED <<rows, request, watched, agent, told, resets, visits>>

\* recover_stuck_reports.  The model is asked without a timeout: a worker
\* may be alive after ten minutes.
FindStuck ==
    /\ ~watched /\ report = "PROCESSING" /\ session = "COMPLETED"
    /\ IF Running("generate_final_report") = {}
       THEN UNCHANGED resets
       ELSE resets < MaxResets /\ resets' = resets + 1
    /\ watched' = TRUE
    /\ UNCHANGED <<rows, request, tasks, agent, history, faults, visits>>

\* Mutant: the watchdog only counts the report.
LeftStuck == UNCHANGED <<report, tasks>>

Reset ==
    /\ report' = "PENDING"
    /\ tasks' = tasks (+) Some(Generate(0))

RecoverStuck ==
    /\ watched
    /\ watched' = FALSE
    /\ IF report = "SUCCESS" THEN UNCHANGED <<report, tasks>> ELSE Reset
    /\ UNCHANGED <<session, clock, evaluation, request, agent, history, bounds>>

-----------------------------------------------------------------------------
(* Requests of the candidate *)

\* refresh_status_from_time
Refreshed(status) ==
    CASE status = "READY" /\ clock = "stale" -> "FAILED"
      [] status = "LIVE" /\ clock = "over" -> "COMPLETED"
      [] OTHER -> status

Ask(side, kind) ==
    /\ request[side] = Idle
    /\ request' = [request EXCEPT ![side] = [kind |-> kind, saw |-> session]]

Answered(side) == request' = [request EXCEPT ![side] = Idle]

\* The detail, report and evaluation pages only refresh the status.
Visit ==
    /\ visits < MaxVisits /\ visits' = visits + 1
    /\ \/ Ask("candidate", "join") \/ Ask("candidate", "end") \/ Ask("candidate", "cancel")
       \/ Refreshed(session) # session /\ Ask("candidate", "look")
    /\ UNCHANGED <<rows, tasks, watched, agent, history, faults, resets>>

\* The page ends the session three seconds after interview_complete.
AutoEnd ==
    /\ agent.at = "done" /\ request["agent"] = Idle
    /\ Ask("candidate", "end")
    /\ agent' = [agent EXCEPT !.at = "gone"]
    /\ UNCHANGED <<rows, tasks, watched, history, bounds>>

Of(side, kind) == request[side] # Idle /\ request[side].kind = kind

Look ==
    /\ Of("candidate", "look")
    /\ session' = Refreshed(request["candidate"].saw)
    /\ Answered("candidate")
    /\ UNCHANGED <<clock, evaluation, report, tasks, watched, agent, history, bounds>>

\* build_join_payload: the token dispatches an agent, and the runtime state
\* tells it the question to go on with.
Join ==
    LET saw == Refreshed(request["candidate"].saw)
    IN  /\ Of("candidate", "join")
        /\ session' = IF saw = "READY" THEN "LIVE"
                      ELSE IF saw # request["candidate"].saw THEN saw ELSE session
        /\ clock' = IF saw = "READY" THEN "early" ELSE clock
        /\ agent' = IF saw \in Active /\ agent.at = "away"
                    THEN [agent EXCEPT !.at = "asking"] ELSE agent
        /\ Answered("candidate")
        /\ UNCHANGED <<evaluation, report, tasks, watched, history, bounds>>

\* What end_session saves: less than 90 seconds are no interview.
Ended(kind, saw) ==
    IF saw \notin Active THEN saw
    ELSE IF kind = "cancel" \/ saw = "READY" \/ clock = "early" THEN "CANCELLED"
    ELSE "COMPLETED"

End(kind) ==
    LET saw == request["candidate"].saw
        now == Ended(kind, Refreshed(saw))
        ready == kind = "end" /\ now = "COMPLETED" /\ PendingTurns = {}
    IN  /\ Of("candidate", kind)
        /\ session' = IF now # saw THEN now ELSE session
        /\ tasks' = IF ready THEN tasks (+) Some(Generate(0)) ELSE tasks
        /\ told' = (told \/ ready)
        /\ Answered("candidate")
        /\ UNCHANGED <<clock, evaluation, report, watched, agent, lost, bounds>>

-----------------------------------------------------------------------------
(* The agent *)

AskTurn ==
    /\ agent.at = "asking" /\ agent.turn <= Questions
    /\ Ask("agent", "turn")
    /\ UNCHANGED <<rows, tasks, watched, agent, history, bounds>>

\* RecordTurnFromAgentView and create_turn: a turn that is posted again is
\* kept as it is and evaluated again.  The agent repeats its question when
\* the answer does not arrive or is an error.
RecordTurn ==
    /\ Of("agent", "turn")
    /\ IF request["agent"].saw = "LIVE"
       THEN /\ evaluation' = [evaluation EXCEPT ![agent.turn] = IF @ = "none" THEN "PENDING" ELSE @]
            /\ tasks' = tasks (+) Some(Evaluate(agent.turn, 0))
            /\ \/ agent' = [agent EXCEPT !.turn = @ + 1] /\ UNCHANGED faults
               \/ Fault /\ UNCHANGED agent
       ELSE UNCHANGED <<evaluation, tasks, agent, faults>>
    /\ Answered("agent")
    /\ UNCHANGED <<session, clock, report, watched, history, resets, visits>>

\* Mutant: the planned duration does not end the interview, nor does the
\* last answer.
NeverOver == agent.turn > Questions + 1

Over == agent.turn > Questions \/ clock = "over"

\* _conclude_interview: the runtime state COMPLETED is sent first, the
\* notification after the closing words.
Conclude ==
    /\ agent.at = "asking" /\ request["agent"] = Idle /\ Over
    /\ agent' = [agent EXCEPT !.at = "closing"]
    /\ UNCHANGED <<rows, request, tasks, watched, history, bounds>>

\* Both calls are best effort.  Whoever is cut off while listening cannot
\* move to COMPLETED and sends another state.
Close ==
    /\ agent.at = "closing"
    /\ agent' = [agent EXCEPT !.at = "notifying"]
    /\ \/ Ask("agent", "sync") /\ UNCHANGED faults
       \/ clock = "over" /\ UNCHANGED <<request, faults>>
       \/ Fault /\ UNCHANGED request
    /\ UNCHANGED <<rows, tasks, watched, history, resets, visits>>

Notify ==
    /\ agent.at = "notifying" /\ request["agent"] = Idle
    /\ agent' = [agent EXCEPT !.at = "done"]
    /\ \/ Ask("agent", "notify") /\ UNCHANGED faults
       \/ Fault /\ UNCHANGED request
    /\ UNCHANGED <<rows, tasks, watched, history, resets, visits>>

\* InterviewRuntimeStateView.patch completes a LIVE session without a report.
SyncState ==
    /\ Of("agent", "sync")
    /\ session' = IF request["agent"].saw = "LIVE" THEN "COMPLETED" ELSE session
    /\ Answered("agent")
    /\ UNCHANGED <<clock, evaluation, report, tasks, watched, agent, history, bounds>>

\* AgentNotifyCompletedView
NotifyCompleted ==
    /\ Of("agent", "notify")
    /\ IF request["agent"].saw \in Active
       THEN /\ session' = "COMPLETED"
            /\ tasks' = tasks (+) Some(Generate(0))
            /\ told' = TRUE
       ELSE UNCHANGED <<session, tasks, told>>
    /\ Answered("agent")
    /\ UNCHANGED <<clock, evaluation, report, watched, agent, lost, bounds>>

\* The next agent goes on from the index of the last runtime state that
\* was stored.
AgentDies ==
    /\ agent.at \in {"asking", "closing", "notifying"} /\ request["agent"] = Idle /\ Fault
    /\ \E k \in {agent.turn, agent.turn - 1} \ {0} : agent' = [at |-> "away", turn |-> k]
    /\ UNCHANGED <<rows, request, tasks, watched, history, resets, visits>>

-----------------------------------------------------------------------------
(* Specification *)

\* Ten minutes before the first join; 90 seconds, and the planned duration,
\* after it.
ClockTick ==
    /\ clock' = CASE clock = "fresh" -> "stale" [] clock = "early" -> "late" [] clock = "late" -> "over"
                  [] OTHER -> clock
    /\ clock' # clock
    /\ UNCHANGED <<session, evaluation, report, request, tasks, watched, agent, history, bounds>>

InterviewInit ==
    /\ session = "READY" /\ clock = "fresh"
    /\ request = [s \in Sides |-> Idle]
    /\ evaluation = [k \in Turns |-> "none"] /\ report = "none"
    /\ tasks = EmptyBag /\ watched = FALSE
    /\ agent = [at |-> "away", turn |-> 1]
    /\ told = FALSE /\ lost = {}
    /\ faults = 0 /\ resets = 0 /\ visits = 0

Worker ==
    \E task \in BagToSet(tasks) :
        \/ StartEvaluation(task) \/ FinishEvaluation(task)
        \/ StartReport(task) \/ FinishReport(task)
Failure ==
    \/ AgentDies
    \/ \E task \in BagToSet(tasks) :
        FailEvaluation(task) \/ ReportUnavailable(task) \/ ReportWorkerDies(task)
Watchdog == FindStuck \/ RecoverStuck
Views == Look \/ Join \/ End("end") \/ End("cancel") \/ RecordTurn \/ SyncState \/ NotifyCompleted
Agent == AskTurn \/ Conclude \/ Close \/ Notify

InterviewNext == Worker \/ Failure \/ Watchdog \/ Views \/ Agent \/ AutoEnd \/ Visit \/ ClockTick

InterviewSpec == InterviewInit /\ [][InterviewNext]_interviewVars

\* Workers, the watchdog's beat and the server run for ever; an agent and
\* the page of an interview that was joined do what their timers say.
InterviewFairSpec ==
    /\ InterviewSpec
    /\ WF_interviewVars(Worker) /\ WF_interviewVars(Watchdog) /\ WF_interviewVars(Views)
    /\ WF_interviewVars(Agent) /\ WF_interviewVars(AutoEnd) /\ WF_interviewVars(ClockTick)

-----------------------------------------------------------------------------
(* Correctness *)

Statuses == {"READY", "LIVE", "COMPLETED", "CANCELLED", "FAILED"}
Requests == [kind : {"join", "end", "cancel", "look", "turn", "sync", "notify"}, saw : Statuses]
Task == [kind : {"evaluate_turn", "generate_final_report"}, turn : 0..Questions,
         tries : 0..MaxRetries, saw : Statuses \cup {""}]

InterviewTypeOK ==
    /\ session \in Statuses
    /\ clock \in {"fresh", "stale", "early", "late", "over"}
    /\ request \in [Sides -> Requests \cup {Idle}]
    /\ evaluation \in [Turns -> {"none", "PENDING"} \cup Terminal]
    /\ report \in {"none", "PENDING", "PROCESSING"} \cup Terminal
    /\ IsABag(tasks) /\ BagToSet(tasks) \subseteq Task
    /\ watched \in BOOLEAN /\ told \in BOOLEAN
    /\ agent \in [at : {"away", "asking", "closing", "notifying", "done", "gone"},
                  turn : 1..Questions + 1]
    /\ lost \subseteq {"died", "exhausted"}
    /\ {faults, resets, visits} \subseteq Nat

Outstanding(kind) == Queued(kind) \cup Running(kind)

\* As long as no worker died and no retry was the last: every turn that
\* waits has its task, a report that was asked for exists or has one, and
\* what is not final is being worked on.
NothingForgotten ==
    lost = {} =>
        /\ \A k \in PendingTurns : \E t \in Outstanding("evaluate_turn") : t.turn = k
        /\ session = "COMPLETED" /\ (report = "PENDING" \/ (told /\ report = "none")) =>
                Outstanding("generate_final_report") # {}
        /\ report = "PROCESSING" => Running("generate_final_report") # {}

\* A generated report is never taken back or generated again, however often
\* it was asked for, unless the watchdog took a slow worker for a dead one.
SuccessKept == [][report = "SUCCESS" /\ resets = 0 => report' = "SUCCESS"]_interviewVars

\* Workers may die with the report in their hands: it is finished all the
\* same, unless the model failed as often as it may.
Stuck == report = "PROCESSING" /\ session = "COMPLETED"

StuckRecovered == Stuck ~> ~Stuck

\* An interview that has an agent does not stay LIVE.
Interviewed == session = "LIVE" /\ agent.at # "away"

InterviewEnds == Interviewed ~> ~Interviewed

\* "Marks session as COMPLETED and triggers final report generation".
\* Expected to fail without any fault: the runtime state COMPLETED comes
\* first, so the notification finds nothing to do; what remains are an
\* evaluation that began after it, or the page's own request after the last.
CompletionReported ==
    agent.at = "gone" ~> report # "none" \/ session # "COMPLETED"

=============================================================================
