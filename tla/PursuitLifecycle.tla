-------------------------- MODULE PursuitLifecycle --------------------------
(***************************************************************************)
(* The life of a pursuit in one room: its phases, the OpenCode sessions    *)
(* that work on it, the unattended lease with its fixed deadline, the      *)
(* termination that stays pending until OpenCode confirms it, automatic    *)
(* retries and recoveries, and what a restart of the bot makes of it all.  *)
(*                                                                         *)
(* All handlers of a room - Matrix messages, OpenCode events, the deadline *)
(* timer, the retry task, the watchdog - hold the room's lock from start   *)
(* to end; pc names the await at which the handler that holds it is        *)
(* suspended, "idle" that nobody holds it.  What happens meanwhile needs   *)
(* no lock: a turn ends, time passes, a !stop is signalled, the bot dies.  *)
(*                                                                         *)
(* Memory is saved before the lock is released; an action that ends at an  *)
(* await ends with what is on disk there.  Check results are the business  *)
(* of module PursuitEvidence: here a batch passes, fails or cannot tell.   *)
(***************************************************************************)
EXTENDS Naturals

CONSTANTS
    None,          \* absence of a value
    Disturbances   \* what may go wrong

\* abort: OpenCode does not confirm the end of a running turn; outage: nor can
\* it tell that nothing runs; prompt: prompt_async is refused; lost_answer: it
\* fails although the turn starts; create: create_session fails; read: the
\* workspace's fingerprint cannot be read; send: Matrix does not take the
\* progress message; crash: the bot dies and is restarted; gone: OpenCode lost
\* the session meanwhile; impatience: the user goes on with a pursuit whose stop
\* is pending; late_revocation: a `!yolo off` waits for the lock ahead of the
\* deadline's task.
ASSUME DisturbancesAssumption == Disturbances \subseteq
    {"abort", "outage", "prompt", "lost_answer", "create", "read", "send",
     "crash", "gone", "impatience", "late_revocation"}

ASSUME NoneAssumption ==
    None \notin {"verified_complete", "provisional", "deadline_reached", "stopped"}

VARIABLES
    phase,        \* pursuit_phase; "none" without a pursuit_goal
    pc,           \* the await the handler in progress is suspended at
    boot,         \* what a restarted bot has still to do with the room
    contract,     \* pursuit_contract; "empty" without criteria, "approved" if
                  \* the approval is current
    lease,        \* pursuit_unattended, and whether the deadline has passed
    requested,    \* pending_pursuit_unattended
    yolo,         \* yolo_permissions
    bound,        \* yolo_session_id and digest name this session and contract
    timer,        \* deadline_tasks[room]; "due": event set, waiting for the lock
    inFlight,     \* in_flight_event_id
    busy,         \* OpenCode: a turn of state.session_id is running
    stray,        \* OpenCode: a worker of an earlier session_id is running
    recovering,   \* watchdog_recovery_pending
    retry,        \* retry_tasks[room]
    termination,  \* pursuit_termination_reason
    target,       \* pursuit_termination_session_id: this session or an earlier
    stopQueued,   \* a !stop waits for the lock
    stopSignal,   \* pursuit_stop_events[room].is_set()
    final,        \* deadline_final of the batch in progress
    outcome       \* of the archive, or of the archive being prepared

authority == <<contract, lease, requested, yolo, bound>>
turn      == <<inFlight, busy, stray, recovering, retry>>
ending    == <<termination, target, stopQueued, stopSignal>>
vars == <<phase, pc, boot, authority, timer, turn, ending, final, outcome>>

Phases == {"none", "draft_contract", "awaiting_approval", "working", "checking",
           "needs_input", "awaiting_signoff", "budget_checkpoint"}

Outcomes == {"verified_complete", "provisional", "deadline_reached", "stopped"}

StatesOK ==
    /\ phase \in Phases
    /\ pc \in {"idle", "prompt", "dispatch", "submit", "begin", "exhausted", "renew",
               "deadline", "checks", "finish", "rotate"}
    /\ boot \in {"terminate", "validate", "resume", "done"}
    /\ contract \in {"none", "empty", "draft", "approved"}
    /\ lease \in {"none", "running", "expired"}
    /\ timer \in {"none", "armed", "due"}
    /\ termination \in {"none", "stop", "deadline", "budget", "invalid_contract"}
    /\ target \in {"current", "earlier"}
    /\ outcome \in Outcomes \cup {None}

FlagsOK ==
    /\ requested \in BOOLEAN /\ yolo \in BOOLEAN /\ bound \in BOOLEAN
    /\ inFlight \in BOOLEAN /\ busy \in BOOLEAN /\ stray \in BOOLEAN
    /\ recovering \in BOOLEAN /\ retry \in BOOLEAN /\ final \in BOOLEAN
    /\ stopQueued \in BOOLEAN /\ stopSignal \in BOOLEAN

TypeOK == StatesOK /\ FlagsOK

------------------------------------------------------------------------------
(* Authority.                                                              *)

\* _unattended_authorization_is_current
LeaseCurrent == lease # "none" /\ yolo /\ contract = "approved"

\* _unattended_deadline_expired
Expired == LeaseCurrent /\ lease = "expired"

\* _human_signoff_may_finish_unattended
SignoffWaived ==
    /\ yolo /\ contract = "approved"
    /\ (LeaseCurrent /\ ~Expired) \/ bound

\* _expire_unattended_authorization with _cancel_deadline_timer: the lease is
\* suspended.  Its deadline is kept for the audit only.
SuspendLease ==
    /\ lease' = "none"
    /\ timer' = "none"
    /\ requested' = (requested \/ lease # "none")

\* Another session becomes state.session_id; the room forgets the old one.  A
\* drafter that is left behind has no tools to write with.
SwitchSession ==
    /\ busy' = FALSE
    /\ stray' = (stray \/ (busy /\ phase \notin {"draft_contract", "awaiting_approval"}))
    /\ target' = IF termination = "none" THEN "current" ELSE "earlier"

\* _confirm_session_stopped may fail for this session, or for the earlier one.
Refusable(which) ==
    \/ "abort" \in Disturbances /\ IF which = "current" THEN busy ELSE stray
    \/ "outage" \in Disturbances

\* It succeeded: the session was idle, or its turn is aborted.
StopTurn(which) ==
    /\ busy' = (busy /\ which # "current")
    /\ stray' = (stray /\ which = "current")

\* Bug: the phase of a pursuit that is over is kept for the status.
ClearedButNotPhase ==
    /\ phase' = "finished"
    /\ contract' = "none"
    /\ lease' = "none"
    /\ requested' = FALSE
    /\ termination' = "none"
    /\ target' = "current"

\* _clear_pursuit; YOLO outlives the pursuit.
ClearPursuit ==
    /\ phase' = "none"
    /\ contract' = "none"
    /\ lease' = "none"
    /\ requested' = FALSE
    /\ termination' = "none"
    /\ target' = "current"

------------------------------------------------------------------------------
(* The environment.                                                        *)

Init ==
    /\ phase = "none" /\ pc = "idle" /\ boot = "done"
    /\ contract = "none" /\ lease = "none" /\ requested = FALSE
    /\ yolo = FALSE /\ bound = FALSE
    /\ timer = "none"
    /\ inFlight = FALSE /\ busy = FALSE /\ stray = FALSE
    /\ recovering = FALSE /\ retry = FALSE
    /\ termination = "none" /\ target = "current"
    /\ stopQueued = FALSE /\ stopSignal = FALSE
    /\ final = FALSE
    /\ outcome = None

\* OpenCode finishes a turn; the session.idle event may come, or get lost.
TurnEnds ==
    /\ \/ busy /\ busy' = FALSE /\ UNCHANGED stray
       \/ stray /\ stray' = FALSE /\ UNCHANGED busy
    /\ UNCHANGED <<phase, pc, boot, authority, timer, inFlight, recovering, retry,
                   ending, final, outcome>>

DeadlinePasses ==
    /\ lease = "running"
    /\ lease' = "expired"
    /\ UNCHANGED <<phase, pc, boot, contract, requested, yolo, bound, timer, turn,
                   ending, final, outcome>>

\* The timer's task sets the deadline event before it waits for the lock.
TimerFires ==
    /\ timer = "armed"
    /\ lease = "expired"
    /\ timer' = "due"
    /\ UNCHANGED <<phase, pc, boot, authority, turn, ending, final, outcome>>

\* on_message sets the stop event before it waits for the lock.
SignalStop ==
    /\ boot = "done"
    /\ ~stopQueued
    /\ stopQueued' = TRUE
    /\ stopSignal' = TRUE
    /\ UNCHANGED <<phase, pc, boot, authority, timer, turn, termination, target,
                   final, outcome>>

\* Bug: a pursuit is restored as working whatever its contract says.
RestartAsWorking ==
    /\ "crash" \in Disturbances
    /\ pc' = "idle"
    /\ boot' = "terminate"
    /\ timer' = "none"
    /\ retry' = FALSE
    /\ stopQueued' = FALSE
    /\ stopSignal' = FALSE
    /\ final' = FALSE
    /\ phase' = IF phase # "none" /\ contract # "approved" THEN "working" ELSE phase
    /\ contract' = IF phase # "none" /\ contract = "none" THEN "empty" ELSE contract
    /\ outcome' = IF phase = "none" THEN outcome ELSE None
    /\ UNCHANGED <<lease, requested, yolo, bound, inFlight, busy, stray, recovering,
                   termination, target>>

\* The process dies and is started again: tasks and events are gone, the room
\* is what RoomSession.from_dict makes of the file.
Restart ==
    /\ "crash" \in Disturbances
    /\ pc' = "idle"
    /\ boot' = "terminate"
    /\ timer' = "none"
    /\ retry' = FALSE
    /\ stopQueued' = FALSE
    /\ stopSignal' = FALSE
    /\ final' = FALSE
    /\ phase' = IF phase # "none" /\ contract # "approved"
                THEN "awaiting_approval" ELSE phase
    /\ contract' = IF phase # "none" /\ contract = "none" THEN "empty" ELSE contract
    /\ outcome' = IF phase = "none" THEN outcome ELSE None
    /\ UNCHANGED <<lease, requested, yolo, bound, inFlight, busy, stray, recovering,
                   termination, target>>

------------------------------------------------------------------------------
(* Turns of the model.                                                     *)

Free == pc = "idle"
Ready == Free /\ boot = "done"

\* Replies, !bump and !pursue do not ask whether a termination is pending.
Patient == termination = "none" \/ "impatience" \in Disturbances

\* !pursue, its two questions and _select_pursuit_extent, up to the draft's
\* prompt.  An exception leaves a pursuit that nobody works on.
StartPursuit ==
    /\ Ready
    /\ phase = "none" /\ ~inFlight /\ ~busy
    /\ Patient
    /\ \E unattended \in BOOLEAN : requested' = unattended /\ yolo' = unattended
    /\ phase' = "draft_contract"
    /\ contract' = "none"
    /\ lease' = "none"
    /\ bound' = FALSE
    /\ termination' = "none"
    /\ target' = "current"
    /\ stopSignal' = FALSE
    /\ outcome' = None
    /\ \/ pc' = "prompt"
       \/ "read" \in Disturbances /\ pc' = "idle"
    /\ UNCHANGED <<boot, timer, turn, stopQueued, final>>

\* _submit_prompt: the progress message, then the flag it sets.
SendProgress ==
    /\ pc = "prompt"
    /\ \/ /\ phase = "working" /\ Expired
          /\ pc' = "deadline"
          /\ UNCHANGED inFlight
       \/ /\ ~(phase = "working" /\ Expired)
          /\ inFlight' = TRUE
          /\ pc' = "dispatch"
       \/ /\ ~(phase = "working" /\ Expired)
          /\ "send" \in Disturbances
          /\ pc' = "idle"
          /\ UNCHANGED inFlight
    /\ UNCHANGED <<phase, boot, authority, timer, busy, stray, recovering, retry,
                   ending, final, outcome>>

\* Bug: a refused prompt is not tried again.
DispatchOnce ==
    /\ pc = "dispatch"
    /\ \/ /\ phase = "working" /\ Expired
          /\ pc' = "deadline"
          /\ UNCHANGED <<inFlight, busy, retry>>
       \/ /\ ~(phase = "working" /\ Expired)
          /\ busy' = TRUE
          /\ pc' = "idle"
          /\ UNCHANGED <<inFlight, retry>>
       \/ /\ ~(phase = "working" /\ Expired)
          /\ "prompt" \in Disturbances
          /\ inFlight' = FALSE
          /\ pc' = "idle"
          /\ UNCHANGED <<busy, retry>>
    /\ UNCHANGED <<phase, boot, authority, timer, stray, recovering, ending, final,
                   outcome>>

\* Bug: the deadline is only looked at before the progress message.
DispatchLate ==
    /\ pc = "dispatch"
    /\ pc' = "idle"
    /\ \/ busy' = TRUE /\ UNCHANGED <<inFlight, retry>>
       \/ "prompt" \in Disturbances /\ inFlight' = FALSE /\ retry' = TRUE /\ UNCHANGED busy
    /\ UNCHANGED <<phase, boot, authority, timer, stray, recovering, ending, final,
                   outcome>>

\* _submit_prompt: prompt_async.
DispatchPrompt ==
    /\ pc = "dispatch"
    /\ \/ /\ phase = "working" /\ Expired
          /\ pc' = "deadline"
          /\ UNCHANGED <<inFlight, busy, retry>>
       \/ /\ ~(phase = "working" /\ Expired)
          /\ busy' = TRUE
          /\ pc' = "idle"
          /\ UNCHANGED <<inFlight, retry>>
       \/ /\ ~(phase = "working" /\ Expired)
          /\ \/ "prompt" \in Disturbances /\ UNCHANGED busy
             \/ "lost_answer" \in Disturbances /\ busy' = TRUE
          /\ inFlight' = FALSE
          /\ retry' = TRUE
          /\ pc' = "idle"
    /\ UNCHANGED <<phase, boot, authority, timer, stray, recovering, ending, final,
                   outcome>>

\* _submit_worker.  "begin": the tranche is fresh, no quota can be exhausted.
\* Without a current approval there is no lease to revoke (LeaseIsAuthorized).
Submit ==
    /\ pc \in {"submit", "begin"}
    /\ \/ contract # "approved" /\ phase' = "awaiting_approval" /\ pc' = "idle"
       \/ contract = "approved" /\ Expired /\ pc' = "deadline" /\ UNCHANGED phase
       \/ /\ contract = "approved" /\ ~Expired
          /\ \/ pc = "submit" /\ pc' = "exhausted" /\ UNCHANGED phase
             \/ "read" \in Disturbances /\ pc' = "idle" /\ UNCHANGED phase
             \/ pc' = "prompt" /\ phase' = "working"
    /\ UNCHANGED <<boot, authority, timer, turn, ending, final, outcome>>

\* _enter_budget_checkpoint.
AtQuota ==
    /\ pc = "exhausted"
    /\ \/ LeaseCurrent /\ ~Expired /\ pc' = "renew" /\ UNCHANGED phase
       \/ Expired /\ pc' = "deadline" /\ UNCHANGED phase
       \/ ~LeaseCurrent /\ pc' = "idle" /\ phase' = "budget_checkpoint"
    /\ UNCHANGED <<boot, authority, timer, turn, ending, final, outcome>>

\* _auto_renew_pursuit_budget; its failures are deferred to the retry task.
Renew ==
    /\ pc = "renew"
    /\ \/ /\ \/ busy /\ Refusable("current") /\ UNCHANGED busy
             \/ {"create", "read"} \cap Disturbances # {} /\ busy' = FALSE
          /\ phase' = "working"
          /\ retry' = (retry \/ ~inFlight)
          /\ pc' = "idle"
          /\ UNCHANGED <<bound, target>>
       \/ /\ Expired
          /\ busy' = FALSE
          /\ pc' = "deadline"
          /\ UNCHANGED <<phase, retry, bound, target>>
       \/ /\ ~Expired
          /\ busy' = FALSE
          /\ target' = IF termination = "none" THEN "current" ELSE "earlier"
          /\ bound' = TRUE
          /\ phase' = "working"
          /\ pc' = "begin"
          /\ UNCHANGED retry
    /\ UNCHANGED <<boot, contract, lease, requested, yolo, timer, inFlight, stray,
                   recovering, termination, stopQueued, stopSignal, final, outcome>>

------------------------------------------------------------------------------
(* The deadline, and the controller's checks.                              *)

StartChecks(isFinal) ==
    /\ phase' = "checking"
    /\ pc' = "checks"
    /\ final' = isFinal

\* _handle_unattended_deadline: the session whose end is to be confirmed.
DeadlineTarget == IF termination = "deadline" THEN target ELSE "current"

\* The turn does not end: the termination stays pending, with no timer.
DeadlineStopRefused ==
    /\ pc = "deadline"
    /\ inFlight /\ Refusable(DeadlineTarget)
    /\ termination' = "deadline"
    /\ target' = DeadlineTarget
    /\ timer' = "none"
    /\ pc' = "idle"
    /\ UNCHANGED <<phase, boot, authority, turn, stopQueued, stopSignal, final, outcome>>

\* Bug: the final checks do not wait until the worker has stopped.
CheckBesideWorker ==
    /\ pc = "deadline"
    /\ inFlight' = FALSE
    /\ termination' = "none"
    /\ target' = "current"
    /\ timer' = "none"
    /\ StartChecks(TRUE)
    /\ UNCHANGED <<boot, authority, busy, stray, recovering, retry, stopQueued,
                   stopSignal, outcome>>

\* Nothing runs, or it is stopped: on to the final checks.
BeginFinalChecks ==
    /\ pc = "deadline"
    /\ IF inFlight THEN StopTurn(DeadlineTarget) ELSE UNCHANGED <<busy, stray>>
    /\ inFlight' = FALSE
    /\ termination' = "none"
    /\ target' = "current"
    /\ timer' = "none"
    /\ \/ StartChecks(TRUE)
       \/ "read" \in Disturbances /\ pc' = "idle" /\ UNCHANGED <<phase, final>>
    /\ UNCHANGED <<boot, authority, recovering, retry, stopQueued, stopSignal, outcome>>

\* _run_pursuit_checks finds no approved contract, nor, then, a lease to revoke.
ChecksRefused ==
    /\ pc = "checks"
    /\ contract # "approved"
    /\ phase' = "awaiting_approval"
    /\ pc' = "idle"
    /\ final' = FALSE
    /\ UNCHANGED <<boot, authority, timer, turn, ending, outcome>>

\* A stop or the deadline comes while a batch runs; the phase stays "checking".
InterruptChecks ==
    /\ pc = "checks"
    /\ contract = "approved"
    /\ stopSignal \/ (timer = "due" /\ ~final)
    /\ pc' = "idle"
    /\ final' = FALSE
    /\ UNCHANGED <<phase, boot, authority, timer, turn, ending, outcome>>

\* _finish_pursuit up to the report.
PrepareArchive(o) ==
    /\ outcome' = o
    /\ pc' = "finish"
    /\ timer' = "none"

\* _run_pursuit_checks: what the batch makes of the pursuit.
Verdict ==
    /\ pc = "checks"
    /\ contract = "approved"
    /\ ~stopSignal
    /\ final' = FALSE
    /\ \/ /\ PrepareArchive("verified_complete")
          /\ UNCHANGED <<phase, lease, requested>>
       \/ /\ SignoffWaived
          /\ PrepareArchive("provisional")
          /\ UNCHANGED <<phase, lease, requested>>
       \/ /\ ~SignoffWaived
          /\ phase' = "awaiting_signoff"
          /\ pc' = "idle"
          /\ UNCHANGED <<lease, requested, timer, outcome>>
       \/ /\ final \/ Expired
          /\ PrepareArchive("deadline_reached")
          /\ UNCHANGED <<phase, lease, requested>>
       \/ /\ ~final /\ ~Expired           \* an objective check cannot tell
          /\ SuspendLease
          /\ phase' = "needs_input"
          /\ pc' = "idle"
          /\ UNCHANGED outcome
       \/ /\ ~final /\ ~Expired           \* a check failed
          /\ phase' = "working"
          /\ pc' = "submit"
          /\ UNCHANGED <<lease, requested, timer, outcome>>
    /\ UNCHANGED <<boot, contract, yolo, bound, turn, ending>>

\* _finish_pursuit after the report; a stop that came meanwhile wins.
Finish ==
    /\ pc = "finish"
    /\ pc' = "idle"
    /\ \/ /\ stopSignal
          /\ outcome' = None
          /\ UNCHANGED <<phase, contract, lease, requested, termination, target, stopSignal>>
       \/ /\ ~stopSignal
          /\ ClearPursuit
          /\ UNCHANGED <<stopSignal, outcome>>
    /\ UNCHANGED <<boot, yolo, bound, timer, turn, stopQueued, final>>


------------------------------------------------------------------------------
(* A turn is over: _complete_idle, from an event, the watchdog or at boot - and  *)
(* from !bump, which does not ask whether a termination is pending.        *)

Idle == Free /\ inFlight /\ ~busy /\ Patient

\* _handle_contract_draft.  A malformed draft leaves the contract as it was.
DraftArrives ==
    /\ Idle /\ ~recovering
    /\ phase = "draft_contract"
    /\ inFlight' = FALSE
    /\ \/ /\ phase' = "needs_input"
          /\ UNCHANGED <<contract, bound>>
       \/ /\ phase' \in {"needs_input", "awaiting_approval"}
          /\ contract' = "draft"
          /\ bound' = FALSE
    /\ UNCHANGED <<pc, boot, lease, requested, yolo, timer, busy, stray, recovering,
                   retry, ending, final, outcome>>

\* _handle_worker_result, with or without a structured blocker.
WorkerReports ==
    /\ Idle /\ ~recovering
    /\ phase = "working"
    /\ inFlight' = FALSE
    /\ \/ /\ ~Expired
          /\ SuspendLease
          /\ phase' = "needs_input"
          /\ UNCHANGED <<pc, final>>
       \/ /\ StartChecks(Expired)
          /\ UNCHANGED <<lease, requested, timer>>
    /\ UNCHANGED <<boot, contract, yolo, bound, busy, stray, recovering, retry, ending,
                   outcome>>

\* "The model session stopped in a controller-owned phase."
LateTurnEnds ==
    /\ Idle /\ ~recovering
    /\ phase \notin {"draft_contract", "working"}
    /\ inFlight' = FALSE
    /\ UNCHANGED <<phase, pc, boot, authority, timer, busy, stray, recovering, retry,
                   ending, final, outcome>>

\* A turn that a recovery had tried to abort is not looked at.
RecoveredTurnEnds ==
    /\ Idle /\ recovering
    /\ recovering' = FALSE
    /\ inFlight' = FALSE
    /\ pc' = "rotate"
    /\ UNCHANGED <<phase, boot, authority, timer, busy, stray, retry, ending, final,
                   outcome>>

\* The watchdog or a confirmed !bump aborts a stalled turn.
Recover ==
    /\ Ready
    /\ busy /\ inFlight
    /\ Patient
    /\ busy' = FALSE
    /\ inFlight' = FALSE
    /\ recovering' = FALSE
    /\ pc' = "rotate"
    /\ UNCHANGED <<phase, boot, authority, timer, stray, retry, ending, final, outcome>>

\* OpenCode does not take the watchdog's abort.
RecoveryRefused ==
    /\ Ready
    /\ busy /\ inFlight
    /\ termination = "none"
    /\ "abort" \in Disturbances
    /\ recovering' = TRUE
    /\ UNCHANGED <<phase, pc, boot, authority, timer, inFlight, busy, stray, retry,
                   ending, final, outcome>>

\* Bug: only the model's phases are resumed.
ResumeModelPhase ==
    \/ phase = "draft_contract" /\ pc' = "prompt" /\ UNCHANGED <<phase, final>>
    \/ phase = "working" /\ pc' = "submit" /\ UNCHANGED <<phase, final>>
    \/ /\ phase \notin {"draft_contract", "working"}
       /\ pc' = "idle"
       /\ UNCHANGED <<phase, final>>

\* _resume_pursuit_phase
ResumePhase ==
    \/ phase = "draft_contract" /\ pc' = "prompt" /\ UNCHANGED <<phase, final>>
    \/ phase = "working" /\ pc' = "submit" /\ UNCHANGED <<phase, final>>
    \/ phase = "checking" /\ StartChecks(FALSE)
    \/ /\ phase \notin {"draft_contract", "working", "checking"}
       /\ pc' = "idle"
       /\ UNCHANGED <<phase, final>>

\* _rotate_pursuit_session_after_recovery: a fresh session for the same phase.
Rotate ==
    /\ pc = "rotate"
    /\ \/ /\ phase \in {"draft_contract", "working"}
          /\ SwitchSession
          /\ bound' = LeaseCurrent
          /\ ResumePhase
       \/ /\ phase \in {"draft_contract", "working"}
          /\ "create" \in Disturbances
          /\ pc' = "idle"
          /\ UNCHANGED <<phase, bound, busy, stray, target, final>>
       \/ /\ phase \notin {"draft_contract", "working"}
          /\ ResumePhase
          /\ UNCHANGED <<bound, busy, stray, target>>
    /\ UNCHANGED <<boot, contract, lease, requested, yolo, timer, inFlight, recovering,
                   retry, termination, stopQueued, stopSignal, outcome>>

\* Bug: an error of a turn that is being stopped schedules its retry.
ErrorWhileStopping ==
    /\ Free
    /\ busy /\ inFlight
    /\ ~recovering
    /\ busy' = FALSE
    /\ inFlight' = FALSE
    /\ retry' = (phase # "none")
    /\ UNCHANGED <<phase, pc, boot, authority, timer, stray, recovering, ending, final,
                   outcome>>

\* session.error: back off and try again.
SessionError ==
    /\ Free
    /\ busy /\ inFlight
    /\ termination = "none" /\ ~recovering
    /\ busy' = FALSE
    /\ inFlight' = FALSE
    /\ retry' = (phase # "none")
    /\ UNCHANGED <<phase, pc, boot, authority, timer, stray, recovering, ending, final,
                   outcome>>

\* Bug: the retry does not look whether a turn is in flight by now.
RetryRegardless ==
    /\ Free
    /\ retry
    /\ retry' = FALSE
    /\ ResumePhase
    /\ UNCHANGED <<boot, authority, timer, inFlight, busy, stray, recovering, ending,
                   outcome>>

\* The retry task, once it has the lock.
RetryFires ==
    /\ Free
    /\ retry
    /\ retry' = FALSE
    /\ IF ~inFlight THEN ResumePhase ELSE UNCHANGED <<phase, pc, final>>
    /\ UNCHANGED <<boot, authority, timer, inFlight, busy, stray, recovering, ending,
                   outcome>>

\* Bug: nobody but the task looks at the deadline.
DeadlineOfTaskOnly ==
    /\ Free
    /\ phase # "none"
    /\ timer = "due"
    /\ pc' = "deadline"
    /\ UNCHANGED <<phase, boot, authority, timer, turn, ending, final, outcome>>

\* The deadline's task, the watchdog, or a permission request sees the deadline.
DeadlineNoticed ==
    /\ Free
    /\ phase # "none"
    /\ timer = "due" \/ (boot = "done" /\ Expired)
    /\ pc' = "deadline"
    /\ UNCHANGED <<phase, boot, authority, timer, turn, ending, final, outcome>>

\* _interrupt_worker_for_budget: the quota of tools or the time is exhausted.
BudgetInterrupt ==
    /\ Free
    /\ phase = "working" /\ inFlight
    /\ termination = "none"
    /\ \/ /\ Expired
          /\ pc' = "deadline"
          /\ UNCHANGED <<inFlight, busy, termination>>
       \/ /\ ~Expired /\ Refusable("current")
          /\ termination' = "budget"
          /\ UNCHANGED <<pc, inFlight, busy>>
       \/ /\ ~Expired
          /\ busy' = FALSE
          /\ inFlight' = FALSE
          /\ pc' = "exhausted"
          /\ UNCHANGED termination
    /\ UNCHANGED <<phase, boot, authority, timer, stray, recovering, retry, target,
                   stopQueued, stopSignal, final, outcome>>

------------------------------------------------------------------------------
(* Pending terminations, and stops.                                        *)

\* Bug: the pursuit is cleared before its report is archived.
FinishStopUnreported ==
    /\ ClearPursuit
    /\ inFlight' = FALSE
    /\ recovering' = FALSE
    /\ stopSignal' = FALSE
    /\ outcome' = None

\* _finish_stop_after_termination, the session being stopped.  A stop without a
\* pursuit forgets the report of the last.
FinishStop ==
    /\ ClearPursuit
    /\ inFlight' = FALSE
    /\ recovering' = FALSE
    /\ stopSignal' = FALSE
    /\ outcome' = IF phase # "none" /\ contract # "none" THEN "stopped" ELSE None

\* _resume_pending_termination, reason deadline.
ResumeDeadline ==
    /\ Free
    /\ termination = "deadline"
    /\ pc' = "deadline"
    /\ UNCHANGED <<phase, boot, authority, timer, turn, ending, final, outcome>>

\* Reason budget; a deadline that passed meanwhile comes first.
ResumeBudget ==
    /\ Free
    /\ termination = "budget"
    /\ \/ /\ Expired
          /\ pc' = "deadline"
          /\ UNCHANGED <<inFlight, busy, stray, termination, target>>
       \/ /\ ~Expired
          /\ StopTurn(target)
          /\ inFlight' = FALSE
          /\ termination' = "none"
          /\ target' = "current"
          /\ pc' = "exhausted"
    /\ UNCHANGED <<phase, boot, authority, timer, recovering, retry, stopQueued,
                   stopSignal, final, outcome>>

\* Bug: a pending stop is only looked at when the bot starts.
StopResumedAtBoot ==
    /\ Free
    /\ boot # "done"
    /\ termination = "stop"
    /\ StopTurn(target)
    /\ FinishStop
    /\ UNCHANGED <<pc, boot, yolo, bound, timer, retry, stopQueued, final>>

\* Reason stop.
ResumeStop ==
    /\ Free
    /\ termination = "stop"
    /\ StopTurn(target)
    /\ FinishStop
    /\ UNCHANGED <<pc, boot, yolo, bound, timer, retry, stopQueued, final>>

\* _pause_invalid_restored_contract: a contract without criteria is dropped.
PauseInvalid(which) ==
    /\ StopTurn(which)
    /\ SuspendLease
    /\ inFlight' = FALSE
    /\ phase' = "needs_input"
    /\ contract' = "none"
    /\ termination' = "none"
    /\ target' = "current"

ResumeInvalid ==
    /\ Free
    /\ termination = "invalid_contract"
    /\ PauseInvalid(target)
    /\ UNCHANGED <<pc, boot, yolo, bound, recovering, retry, stopQueued, stopSignal,
                   final, outcome>>

\* command_stop, for !stop or the reply `stop`.  Every authority goes first.
CommandStop ==
    /\ Ready
    /\ \/ stopQueued /\ stopQueued' = FALSE
       \/ /\ phase \in {"awaiting_approval", "needs_input", "awaiting_signoff",
                        "budget_checkpoint"}
          /\ UNCHANGED stopQueued
    /\ timer' = "none"
    /\ \/ /\ busy' = FALSE
          /\ FinishStop
       \/ /\ Refusable("current")
          /\ lease' = "none"
          /\ requested' = FALSE
          /\ termination' = "stop"
          /\ target' = "current"
          /\ UNCHANGED <<phase, contract, inFlight, busy, recovering, stopSignal, outcome>>
    /\ UNCHANGED <<pc, boot, yolo, bound, stray, retry, final>>

------------------------------------------------------------------------------
(* Replies and settings.                                                   *)

\* Bug: YOLO goes, its lease stays.
YoloOffAlone ==
    /\ Ready
    /\ timer # "due" \/ "late_revocation" \in Disturbances
    /\ yolo' = FALSE
    /\ bound' = FALSE
    /\ UNCHANGED <<phase, pc, boot, contract, lease, requested, timer, turn, ending,
                   final, outcome>>

\* command_yolo_setting
YoloOff ==
    /\ Ready
    /\ timer # "due" \/ "late_revocation" \in Disturbances
    /\ yolo' = FALSE
    /\ bound' = FALSE
    /\ lease' = "none"
    /\ requested' = FALSE
    /\ timer' = "none"
    /\ UNCHANGED <<phase, pc, boot, contract, turn, ending, final, outcome>>

\* command_yolo answers a permission request of the running turn.
YoloOn ==
    /\ Ready
    /\ phase # "none" /\ busy
    /\ termination = "none"
    /\ IF Expired
       THEN pc' = "deadline" /\ UNCHANGED <<yolo, bound>>
       ELSE /\ yolo' = TRUE
            /\ bound' = (contract \in {"draft", "approved"})
            /\ UNCHANGED pc
    /\ UNCHANGED <<phase, boot, contract, lease, requested, timer, turn, ending, final,
                   outcome>>

\* _approve_contract
Approve ==
    /\ Ready /\ Patient
    /\ phase = "awaiting_approval" /\ contract = "draft"
    /\ LET unattended == requested /\ yolo
       IN  /\ lease' = IF unattended THEN "running" ELSE "none"
           /\ timer' = IF unattended THEN "armed" ELSE timer
           /\ bound' = unattended
    /\ requested' = FALSE
    /\ contract' = "approved"
    /\ SwitchSession
    /\ phase' = "working"
    /\ pc' = "begin"
    /\ outcome' = None
    /\ UNCHANGED <<boot, yolo, inFlight, recovering, retry, termination, stopQueued,
                   stopSignal, final>>

\* _request_contract_revision: the lease goes even if no session can be had.
RequestRevision ==
    /\ Ready /\ Patient
    /\ phase \in {"awaiting_approval", "needs_input", "awaiting_signoff",
                  "budget_checkpoint"}
    /\ SuspendLease
    /\ \/ /\ SwitchSession
          /\ bound' = FALSE
          /\ phase' = "draft_contract"
          /\ pc' = "prompt"
       \/ /\ "create" \in Disturbances
          /\ UNCHANGED <<phase, pc, bound, busy, stray, target>>
    /\ UNCHANGED <<boot, contract, yolo, inFlight, recovering, retry, termination,
                   stopQueued, stopSignal, final, outcome>>

\* _record_human_signoff: the workspace moved, or the sign-off is recorded.
SignOff ==
    /\ Ready /\ Patient
    /\ phase = "awaiting_signoff"
    /\ \/ StartChecks(FALSE) /\ UNCHANGED <<timer, outcome>>
       \/ ~stopSignal /\ PrepareArchive("verified_complete") /\ UNCHANGED <<phase, final>>
    /\ UNCHANGED <<boot, authority, turn, ending>>

\* _handle_budget_decision: `continue`.
ContinueTranche ==
    /\ Ready /\ Patient
    /\ phase = "budget_checkpoint"
    /\ SwitchSession
    /\ bound' = FALSE
    /\ phase' = "working"
    /\ pc' = "begin"
    /\ outcome' = None
    /\ UNCHANGED <<boot, contract, lease, requested, yolo, timer, inFlight, recovering,
                   retry, termination, stopQueued, stopSignal, final>>

------------------------------------------------------------------------------
(* Start of the bot: validate_restored_state, then resume_pursuits.  OpenCode's *)
(* events are handled between the stages.                                  *)

BootTerminate ==
    /\ Free
    /\ boot = "terminate"
    /\ \/ termination = "none" /\ boot' = "validate"
       \/ termination # "none" /\ Refusable(target) /\ boot' = "resume"
    /\ UNCHANGED <<phase, pc, authority, timer, turn, ending, final, outcome>>

\* OpenCode knows the session, or it does not and another one replaces it.
BootValidate ==
    /\ Free
    /\ boot = "validate"
    /\ boot' = "resume"
    /\ \/ /\ contract # "empty"
          /\ UNCHANGED <<phase, contract, lease, requested, bound, timer, inFlight, busy,
                         stray, termination, target>>
       \/ /\ contract = "empty"
          /\ PauseInvalid("current")
          /\ UNCHANGED bound
       \/ /\ contract = "empty" /\ Refusable("current")
          /\ termination' = "invalid_contract"
          /\ timer' = "none"
          /\ UNCHANGED <<phase, contract, lease, requested, bound, inFlight, busy, stray,
                         target>>
       \/ /\ "gone" \in Disturbances /\ phase # "none"
          /\ bound' = FALSE
          /\ IF contract = "empty"
             THEN PauseInvalid("current")
             ELSE /\ busy' = FALSE
                  /\ inFlight' = FALSE
                  /\ UNCHANGED <<phase, contract, lease, requested, timer, stray,
                                 termination, target>>
    /\ UNCHANGED <<pc, yolo, recovering, retry, stopQueued, stopSignal, final, outcome>>

\* The timer is set again; then the deadline, or the phase, is gone on with.  A
\* termination that is still pending is tried again: Resume... or, refused, nothing.
\* A lease is never met in needs_input, nor a current approval in awaiting_approval,
\* nor a lease at a checkpoint: what the code does about them is left out.
BootResume ==
    /\ Free
    /\ boot = "resume"
    /\ boot' = "done"
    /\ \/ /\ termination # "none" \/ phase = "none"
          /\ UNCHANGED <<phase, pc, timer, final, outcome>>
       \/ /\ termination = "none" /\ phase # "none" /\ Expired
          /\ pc' = "deadline"
          /\ UNCHANGED <<phase, timer, final, outcome>>
       \/ /\ termination = "none" /\ phase # "none" /\ ~Expired
          /\ phase = "awaiting_signoff" /\ ~inFlight /\ SignoffWaived
          /\ PrepareArchive("provisional")
          /\ UNCHANGED <<phase, final>>
       \/ /\ termination = "none" /\ phase # "none" /\ ~Expired
          /\ ~(phase = "awaiting_signoff" /\ ~inFlight /\ SignoffWaived)
          /\ timer' = IF LeaseCurrent THEN "armed" ELSE timer
          /\ IF inFlight \/ busy THEN UNCHANGED <<phase, pc, final>> ELSE ResumePhase
          /\ UNCHANGED outcome
    /\ UNCHANGED <<authority, turn, ending>>

------------------------------------------------------------------------------

Environment ==
    \/ TurnEnds \/ DeadlinePasses \/ TimerFires \/ SignalStop \/ Restart

\* The handler that holds the lock.
Running ==
    \/ SendProgress \/ DispatchPrompt \/ Submit \/ AtQuota \/ Renew
    \/ DeadlineStopRefused \/ BeginFinalChecks
    \/ ChecksRefused \/ InterruptChecks \/ Verdict \/ Finish \/ Rotate

Events ==
    \/ DraftArrives \/ WorkerReports \/ LateTurnEnds \/ RecoveredTurnEnds
    \/ Recover \/ RecoveryRefused \/ SessionError \/ BudgetInterrupt
    \/ RetryFires \/ DeadlineNoticed
    \/ ResumeDeadline \/ ResumeBudget \/ ResumeStop \/ ResumeInvalid

User ==
    \/ StartPursuit \/ CommandStop \/ YoloOff \/ YoloOn
    \/ Approve \/ RequestRevision \/ SignOff \/ ContinueTranche

Boot == BootTerminate \/ BootValidate \/ BootResume

Next == Environment \/ Running \/ Events \/ User \/ Boot

Spec == Init /\ [][Next]_vars

\* A suspended handler is resumed.  asyncio.Lock serves its waiters in order, so
\* a queued !stop, the deadline (its task, and the watchdog every 30 s) and the
\* resumption of a termination (the watchdog again) get the lock even if it is
\* taken again and again; so does the start of the bot.  OpenCode does not refuse
\* to end a turn forever, and the bot is not restarted forever.  Users, workers
\* and turns owe nothing.
Fairness ==
    /\ WF_vars(Running) /\ SF_vars(BeginFinalChecks)
    /\ SF_vars(Boot)
    /\ SF_vars(stopQueued /\ CommandStop)
    /\ SF_vars(DeadlineNoticed)
    /\ SF_vars(ResumeDeadline) /\ SF_vars(ResumeBudget) /\ SF_vars(ResumeStop)
    /\ <>[][~Restart]_vars

FairSpec == Spec /\ Fairness

------------------------------------------------------------------------------
(* Properties.                                                             *)

\* A lease never outlives what it rests on: YOLO, and the approval of the very
\* contract it was granted for; and none is asked for without YOLO.
LeaseIsAuthorized ==
    /\ lease # "none" => LeaseCurrent
    /\ requested => yolo

\* A contract is worked on, checked and judged only while its approval stands.
WorkIsApproved ==
    phase \in {"working", "checking", "awaiting_signoff", "budget_checkpoint"}
        => contract = "approved"

\* While nobody holds the lock, a pursuit in a phase of the model or of the
\* controller has something that will take it further: a turn, a retry, a pending
\* termination, a stop, the deadline.
NotStranded ==
    (phase \in {"draft_contract", "working", "checking"} /\ pc = "idle" /\ boot = "done")
        => \/ inFlight \/ retry \/ termination # "none" \/ stopQueued
           \/ timer = "due" \/ Expired

\* Every turn OpenCode runs for the room is one the bot waits for, and none runs
\* beside the controller's checks, at a checkpoint, or without a pursuit.
EveryTurnIsWatched ==
    /\ busy => inFlight
    /\ ~stray
    /\ phase \in {"none", "checking", "awaiting_signoff", "budget_checkpoint"}
           => ~inFlight

\* README.md:152 "One prompt at a time is accepted per room": whoever submits - a
\* reply, the checks, a renewal, a recovery, the boot, or a retry, perhaps one of a
\* pursuit that is over - finds no turn going, and none of a session left behind.
OnePromptAtATime == pc \in {"prompt", "dispatch"} => ~busy /\ ~stray

\* README.md:240 "At the absolute deadline, worker actions stop": no handler, however
\* long it waited for the lock or for a message, starts a turn after the deadline.
DeadlineIsFinal == [][ lease = "expired" => (busy' => busy) ]_vars

\* README.md:309 "`!stop` cancels automatic continuation": while a stop is
\* pending no turn is started, and it can only end in a stopped pursuit.
StopCancelsContinuation ==
    [][ termination = "stop" =>
            /\ busy' => busy
            /\ (phase # "none" /\ phase' = "none") => outcome' \in {"stopped", None} ]_vars

\* A stop that OpenCode would not confirm at once ends the pursuit in the end, a
\* crash in between or not.
StopEnds == (termination = "stop") ~> (phase = "none")

\* An expired lease whose YOLO is bound to the session does not linger: its
\* pursuit is archived, unless the user revokes the lease or revises the contract.
DeadlineEnds == (lease = "expired" /\ bound) ~> (lease # "expired" \/ ~bound)

\* No pursuit stays in the controller's own phase, a crash in it or not.
CheckingEnds == (phase = "checking") ~> (phase # "checking")

\* What the user sees of it: the report counts once the pursuit is over.
Stage ==
    CASE phase = "none" -> "none"
      [] phase \in {"draft_contract", "awaiting_approval", "needs_input"} -> "agreeing"
      [] phase = "working" -> "working"
      [] phase \in {"checking", "awaiting_signoff"} -> "judging"
      [] phase = "budget_checkpoint" -> "paused"

Promise == INSTANCE Pursuit WITH
    stage   <- Stage,
    agreed  <- (phase # "none" /\ contract = "approved"),
    outcome <- IF phase = "none" THEN outcome ELSE None

\* README.md:196 "Review the draft and reply `approve` to start", and the rest of
\* what a pursuit promises: leases, quotas, retries, refused aborts, crashes and
\* replaced sessions never take it off the path of Pursuit.
Contracted == Promise!Spec

=============================================================================
