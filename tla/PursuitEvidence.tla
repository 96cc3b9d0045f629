--------------------------- MODULE PursuitEvidence ---------------------------
(***************************************************************************)
(* What the controller of a pursuit believes about the workspace, and the  *)
(* verdicts it draws from it.                                              *)
(*                                                                         *)
(* The controller adopts fingerprints of the workspace directory, counts   *)
(* the changes it notices (pursuit_workspace_revision), and appends the    *)
(* results of check batches to pursuit_check_results.  A batch reads the   *)
(* fingerprint, runs every criterion, reads the fingerprint again and only *)
(* then records; everything else in the system - the model's tools, an     *)
(* editor, a Matrix message, the deadline timer - may move between those   *)
(* reads.  pc # "idle" says that a handler of this room is suspended at an *)
(* await, holding the room's lock; no other handler starts meanwhile.      *)
(*                                                                         *)
(* The lease and the worker session live in module PursuitLifecycle; here  *)
(* what they decide (is there a deadline, does YOLO waive the sign-off, is *)
(* a quota exhausted) is a nondeterministic choice.                        *)
(***************************************************************************)
EXTENDS Naturals, Sequences, FiniteSets

CONSTANTS
    Objective,    \* criteria of kind command or state
    Human,        \* criteria of kind human
    Contents,     \* what the workspace directory may hold
    Outputs,      \* the details of an observation its digest covers
    None,         \* absence of a value
    MaxRevision,  \* bound: workspace changes the controller notices
    MaxVersion,   \* bound: versions of the contract
    MaxCycles,    \* budget.max_cycles of a tranche
    MaxTranche    \* bound: tranches granted with `continue`

ASSUME CriteriaAssumption ==
    /\ IsFiniteSet(Objective) /\ IsFiniteSet(Human)
    /\ Objective \cap Human = {}
    /\ Objective \cup Human # {}

ASSUME BoundsAssumption ==
    /\ MaxRevision \in Nat /\ MaxVersion \in Nat \ {0}
    /\ MaxCycles \in Nat \ {0} /\ MaxTranche \in Nat \ {0}

Outcomes == {"verified_complete", "provisional", "deadline_reached", "stopped"}

ASSUME DataAssumption == Contents # {} /\ Outputs # {} /\ None \notin Outcomes

VARIABLES
    workspace,    \* the directory itself
    fingerprint,  \* pursuit_workspace_fingerprint
    revision,     \* pursuit_workspace_revision
    version,      \* pursuit_contract.version
    results,      \* pursuit_check_results, per criterion
    phase,        \* pursuit_phase; "over" once the pursuit is archived
    pc,           \* the await at which the handler in progress is suspended
    batch,        \* locals of _run_pursuit_checks, kept after it returns
    outcome,      \* outcome of the archive, or of the archive being prepared
    stopEvent,    \* pursuit_stop_events[room_id].is_set(); its !stop is queued
    deadline,     \* "none", "armed" or "due" (deadline event set)
    cycles,       \* pursuit_budget_ledger.usage.cycles
    tranche,      \* pursuit_budget_ledger.tranche
    approval      \* a queued `approve`: none, or whether the sign-off report
                  \* it answers is still the last one posted

evidence == <<fingerprint, revision, version, results>>
control  == <<phase, pc, outcome, stopEvent, deadline>>
ledger   == <<cycles, tranche>>
vars == <<workspace, evidence, control, batch, ledger, approval>>

Criteria == Objective \cup Human

Statuses == {"pass", "fail", "human_pending", "unverifiable"}

\* A CheckerExecution: its status and the details that enter the digest.
Execution == [status : Statuses, output : Outputs]

\* A CheckResult.
Result == [version : 1..MaxVersion, revision : 0..MaxRevision,
           status : Statuses, output : Outputs]

Phases == {"draft_contract", "awaiting_approval", "working", "checking",
           "needs_input", "awaiting_signoff", "budget_checkpoint", "over"}

TypeOK ==
    /\ workspace \in Contents
    /\ fingerprint \in Contents
    /\ revision \in 0..MaxRevision
    /\ version \in 1..MaxVersion
    /\ results \in [Criteria -> Seq(Result)]
    /\ phase \in Phases
    /\ pc \in {"idle", "submit", "before", "check", "report"}
    /\ batch \in [before : Contents, clean : BOOLEAN, final : BOOLEAN,
                  shown : BOOLEAN, complete : BOOLEAN, passed : SUBSET Criteria]
    /\ outcome \in Outcomes \cup {None}
    /\ stopEvent \in BOOLEAN
    /\ deadline \in {"none", "armed", "due"}
    /\ cycles \in 0..MaxCycles
    /\ tranche \in 1..MaxTranche
    /\ approval \in {"none", "answers_last", "outdated"}

------------------------------------------------------------------------------
(* The evidence ledger (state.py).                                         *)

\* record_check_result drops an observation whose criterion, contract version,
\* workspace revision and digest (status and output) were all recorded before.
Duplicate(log, r) == \E i \in DOMAIN log : log[i] = r

Record(log, r) == IF Duplicate(log, r) THEN log ELSE Append(log, r)

\* The entries of a log that current_check_results looks at.
Fresh(log, v, rev) ==
    {i \in DOMAIN log : log[i].version = v /\ log[i].revision = rev}

\* current_check_results: the last fresh entry decides.
CurrentStatus(log, v, rev) ==
    IF Fresh(log, v, rev) = {} THEN "unknown"
    ELSE LET last == CHOOSE i \in Fresh(log, v, rev) :
                        \A j \in Fresh(log, v, rev) : j <= i
         IN  log[last].status

CurrentlyPasses(res, v, rev, c) == CurrentStatus(res[c], v, rev) = "pass"

\* What a handler does with a fingerprint it has just read: a difference is a
\* new revision (mark_workspace_mutated).
Adopt(content) ==
    /\ fingerprint' = content
    /\ IF content = fingerprint
       THEN UNCHANGED revision
       ELSE /\ revision < MaxRevision
            /\ revision' = revision + 1

------------------------------------------------------------------------------
(* Starting point: a contract has just been approved.                      *)

\* before: the first fingerprint; clean: the fingerprints were read and agree;
\* final: deadline_final; shown: a sign-off report of an earlier batch is out;
\* complete, passed: history, what became of the batch.
NewBatch(final) ==
    [before |-> fingerprint', clean |-> TRUE, final |-> final,
     shown |-> (phase = "awaiting_signoff"), complete |-> FALSE, passed |-> {}]

Init ==
    /\ workspace \in Contents
    /\ fingerprint = workspace
    /\ revision = 0
    /\ version = 1
    /\ results = [c \in Criteria |-> << >>]
    /\ phase = "working"
    /\ pc = "submit"
    /\ batch = [before |-> workspace, clean |-> FALSE, final |-> FALSE,
                shown |-> FALSE, complete |-> FALSE, passed |-> {}]
    /\ outcome = None
    /\ stopEvent = FALSE
    /\ deadline \in {"none", "armed"}
    /\ cycles = 0
    /\ tranche = 1
    /\ approval = "none"

------------------------------------------------------------------------------
(* The environment: it needs no lock.                                      *)

\* The worker's tools, a checker that escapes its snapshot, or an editor.  Bound:
\* no edit once MaxRevision changes were noticed.
Edit ==
    /\ phase # "over"
    /\ revision < MaxRevision
    /\ \E content \in Contents \ {workspace} : workspace' = content
    /\ UNCHANGED <<evidence, control, batch, ledger, approval>>

\* on_message sets the event before it waits for the room's lock, whether or
\* not anything is left to stop.
SignalStop ==
    /\ ~stopEvent
    /\ stopEvent' = TRUE
    /\ UNCHANGED <<workspace, evidence, phase, pc, outcome, deadline, batch,
                   ledger, approval>>

\* The timer task sets the deadline event before it waits for the lock.
DeadlineFires ==
    /\ phase # "over"
    /\ deadline = "armed"
    /\ deadline' = "due"
    /\ UNCHANGED <<workspace, evidence, phase, pc, outcome, stopEvent, batch,
                   ledger, approval>>

\* The user answers the sign-off report on the screen; the message may wait for
\* the lock behind a handler that reruns the checks.
SendApproval ==
    /\ phase = "awaiting_signoff" \/ (phase = "checking" /\ batch.shown)
    /\ approval = "none"
    /\ approval' = "answers_last"
    /\ UNCHANGED <<workspace, evidence, control, batch, ledger>>

------------------------------------------------------------------------------
(* Workers.                                                                *)

\* The controller enters _run_pursuit_checks.
StartChecks(final) ==
    /\ phase' = "checking"
    /\ pc' = "before"
    /\ batch' = NewBatch(final)

\* _handle_unattended_deadline, once the worker is known to have stopped.
FinalChecks ==
    /\ Adopt(workspace)
    /\ StartChecks(TRUE)

\* Bug: the quotas of the tranche are not looked at.
SubmitPastQuota ==
    /\ pc = "submit"
    /\ deadline # "due"
    /\ Adopt(workspace)
    /\ cycles' = cycles + 1
    /\ phase' = "working"
    /\ pc' = "idle"
    /\ UNCHANGED <<workspace, version, results, outcome, stopEvent, deadline,
                   batch, tranche, approval>>

\* _submit_worker after its read of the fingerprint: a fresh attempt.
SubmitWorker ==
    /\ pc = "submit"
    /\ deadline # "due"
    /\ cycles < MaxCycles
    /\ Adopt(workspace)
    /\ cycles' = cycles + 1
    /\ phase' = "working"
    /\ pc' = "idle"
    /\ UNCHANGED <<workspace, version, results, outcome, stopEvent, deadline,
                   batch, tranche, approval>>

\* _submit_worker under a lease, with an exhausted tranche (any of the four
\* quotas): _auto_renew_pursuit_budget, and on with the submission.
AutoRenew ==
    /\ pc = "submit"
    /\ deadline = "armed"
    /\ cycles > 0
    /\ tranche < MaxTranche
    /\ tranche' = tranche + 1
    /\ cycles' = 0
    /\ Adopt(workspace)
    /\ phase' = "working"
    /\ UNCHANGED <<workspace, version, results, pc, outcome, stopEvent, deadline,
                   batch, approval>>

\* The same without a lease.
EnterBudgetCheckpoint ==
    /\ pc = "submit"
    /\ deadline = "none"
    /\ cycles > 0
    /\ phase' = "budget_checkpoint"
    /\ pc' = "idle"
    /\ UNCHANGED <<workspace, evidence, outcome, stopEvent, deadline, batch,
                   ledger, approval>>

\* _submit_worker finds the deadline passed.
SubmitAfterDeadline ==
    /\ pc = "submit"
    /\ deadline = "due"
    /\ FinalChecks
    /\ UNCHANGED <<workspace, version, results, outcome, stopEvent, deadline,
                   ledger, approval>>

\* _handle_worker_result: the worker's session is idle.
WorkerReports ==
    /\ phase = "working"
    /\ pc = "idle"
    /\ Adopt(workspace)
    /\ StartChecks(deadline = "due")
    /\ UNCHANGED <<workspace, version, results, outcome, stopEvent, deadline,
                   ledger, approval>>

\* _handle_worker_result with a structured blocker.  The lease is suspended.
WorkerBlocked ==
    /\ phase = "working"
    /\ pc = "idle"
    /\ deadline # "due"
    /\ Adopt(workspace)
    /\ phase' = "needs_input"
    /\ deadline' = "none"
    /\ UNCHANGED <<workspace, version, results, pc, outcome, stopEvent, batch,
                   ledger, approval>>

------------------------------------------------------------------------------
(* A batch of checks.                                                      *)

\* The first fingerprint; a failed read keeps the adopted one.
ReadBefore ==
    /\ pc = "before"
    /\ \/ batch' = [batch EXCEPT !.before = workspace]
       \/ /\ revision < MaxRevision
          /\ batch' = [batch EXCEPT !.before = fingerprint, !.clean = FALSE]
    /\ pc' = "check"
    /\ UNCHANGED <<workspace, evidence, phase, outcome, stopEvent, deadline,
                   ledger, approval>>

\* Bug: a human criterion is judged by the controller.
ExecutionsOfAnyKind(c) == {e \in Execution : e.status # "human_pending"}

\* What execute_criterion may return: a human criterion is never executed, and
\* the aggregate limit of a final batch may run out before it is reached.
Executions(c) ==
    {e \in Execution :
        IF c \in Human
        THEN \/ e.status = "human_pending"
             \/ batch.final /\ e.status = "unverifiable"
        ELSE e.status # "human_pending"}

\* The executions of one batch.  The workspace may change between any two of
\* them; what counts is the change between the two fingerprints.
Observations ==
    {seen \in [Criteria -> Execution] : \A c \in Criteria : seen[c] \in Executions(c)}

\* _await_checker_or_stop races every await of a batch against both events; a
\* final batch ignores the deadline's.  The phase stays "checking".
InterruptChecks ==
    /\ pc \in {"before", "check"}
    /\ stopEvent \/ (deadline = "due" /\ ~batch.final)
    /\ pc' = "idle"
    /\ UNCHANGED <<workspace, evidence, phase, outcome, stopEvent, deadline,
                   batch, ledger, approval>>

\* The outcome is decided and its report is being built.
PrepareArchive(o) ==
    /\ outcome' = o
    /\ pc' = "report"
    /\ UNCHANGED <<phase, deadline>>

Pause(next) ==
    /\ phase' = next
    /\ pc' = "idle"
    /\ UNCHANGED outcome

\* Bug: the deadline is looked at before the results.
VerdictDeadlineFirst(res, rev) ==
    LET passed == \A c \in Objective : CurrentStatus(res[c], version, rev) = "pass"
    IN  \/ /\ batch.final \/ deadline = "due"
           /\ PrepareArchive("deadline_reached")
           /\ UNCHANGED approval
        \/ /\ passed /\ ~batch.final /\ deadline # "due"
           /\ PrepareArchive(IF Human = {} THEN "verified_complete" ELSE "provisional")
           /\ UNCHANGED approval
        \/ /\ ~passed /\ ~batch.final /\ deadline # "due"
           /\ phase' = "working"
           /\ pc' = "submit"
           /\ UNCHANGED <<outcome, deadline, approval>>

\* The verdict over the results the batch leaves behind.
Verdict(res, rev) ==
    LET status(c) == CurrentStatus(res[c], version, rev)
        passed    == \A c \in Objective : status(c) = "pass"
    IN  \/ /\ passed /\ Human = {}
           /\ PrepareArchive("verified_complete")
           /\ UNCHANGED approval
        \/ /\ passed /\ Human # {}        \* a lease, or YOLO, waives the sign-off
           /\ PrepareArchive("provisional")
           /\ UNCHANGED approval
        \/ /\ passed /\ Human # {}
           /\ deadline = "none"
           /\ Pause("awaiting_signoff")
           /\ approval' = IF approval = "none" THEN "none" ELSE "outdated"
           /\ UNCHANGED deadline
        \/ /\ ~passed
           /\ batch.final \/ deadline = "due"
           /\ PrepareArchive("deadline_reached")
           /\ UNCHANGED approval
        \/ /\ ~passed /\ ~batch.final /\ deadline # "due"
           /\ \E c \in Objective : status(c) \in {"unknown", "unverifiable"}
           /\ Pause("needs_input")
           /\ deadline' = "none"
           /\ UNCHANGED approval
        \/ /\ ~passed /\ ~batch.final /\ deadline # "due"
           /\ \A c \in Objective : status(c) \notin {"unknown", "unverifiable"}
           /\ phase' = "working"
           /\ pc' = "submit"
           /\ UNCHANGED <<outcome, deadline, approval>>

\* Bug: a batch that saw the workspace move is trusted.
TrustedStatus(execution, mutated) == execution.status

RecordedStatus(execution, mutated) ==
    IF mutated THEN "unverifiable" ELSE execution.status

\* The criteria run, the second fingerprint is read, the batch is recorded and
\* the verdict drawn.  A batch that saw the workspace move, or could not tell,
\* records every criterion as unverifiable, on a revision of its own.
FinishBatch ==
    /\ pc = "check"
    /\ \E seen \in Observations, readable \in BOOLEAN :
         LET after   == IF readable THEN workspace ELSE batch.before
             mutated == ~readable \/ ~batch.clean \/ after # batch.before
             rev     == IF mutated THEN revision + 1 ELSE revision
             status(c) == RecordedStatus(seen[c], mutated)
             result(c) == [version |-> version, revision |-> rev,
                           status |-> status(c), output |-> seen[c].output]
             res == [c \in Criteria |-> Record(results[c], result(c))]
         IN /\ rev <= MaxRevision
            /\ revision' = rev
            /\ fingerprint' = after
            /\ results' = res
            /\ batch' = [batch EXCEPT !.clean = ~mutated, !.complete = TRUE,
                             !.passed = {c \in Criteria : status(c) = "pass"}]
            /\ IF stopEvent
               THEN /\ pc' = "idle"
                    /\ UNCHANGED <<phase, outcome, deadline, approval>>
               ELSE Verdict(res, rev)
    /\ UNCHANGED <<workspace, version, stopEvent, ledger>>

\* Bug: the stop event is only looked at before the report is built.
ArchiveRegardless ==
    /\ pc = "report"
    /\ pc' = "idle"
    /\ phase' = "over"
    /\ deadline' = "none"
    /\ UNCHANGED <<workspace, evidence, outcome, stopEvent, batch, ledger, approval>>

\* _finish_pursuit after the report: a stop signalled meanwhile wins.
Archive ==
    /\ pc = "report"
    /\ pc' = "idle"
    /\ IF stopEvent
       THEN /\ outcome' = None
            /\ UNCHANGED <<phase, deadline>>
       ELSE /\ phase' = "over"
            /\ deadline' = "none"
            /\ UNCHANGED outcome
    /\ UNCHANGED <<workspace, evidence, stopEvent, batch, ledger, approval>>

------------------------------------------------------------------------------
(* Handlers that wait for the room's lock.                                 *)

\* Bug: a stop that comes late stops what is archived already.
StopAgain ==
    /\ pc = "idle"
    /\ stopEvent
    /\ stopEvent' = FALSE
    /\ phase' = "over"
    /\ outcome' = "stopped"
    /\ deadline' = "none"
    /\ UNCHANGED <<workspace, evidence, pc, batch, ledger, approval>>

\* command_stop and _finish_stop_after_termination, the session being stopped.
HandleStop ==
    /\ pc = "idle"
    /\ stopEvent
    /\ stopEvent' = FALSE
    /\ IF phase = "over"
       THEN UNCHANGED <<phase, outcome, deadline>>
       ELSE /\ phase' = "over"
            /\ outcome' = "stopped"
            /\ deadline' = "none"
    /\ UNCHANGED <<workspace, evidence, pc, batch, ledger, approval>>

\* Bug: the deadline only ends a worker, not a batch it has interrupted.
EndWorkerAtDeadline ==
    /\ pc = "idle"
    /\ deadline = "due"
    /\ phase = "working"
    /\ FinalChecks
    /\ UNCHANGED <<workspace, version, results, outcome, stopEvent, deadline,
                   ledger, approval>>

\* The timer task once it has the lock.
HandleDeadline ==
    /\ pc = "idle"
    /\ deadline = "due"
    /\ phase # "over"
    /\ IF phase = "needs_input"
       THEN /\ deadline' = "none"
            /\ UNCHANGED <<fingerprint, revision, phase, pc, batch>>
       ELSE /\ FinalChecks
            /\ UNCHANGED deadline
    /\ UNCHANGED <<workspace, version, results, outcome, stopEvent, ledger, approval>>

\* Bug: the workspace is not looked at again before a sign-off.
CandidateTrusted == FALSE

CandidateChanged == workspace # fingerprint

ObjectiveStale ==
    \E c \in Objective : ~CurrentlyPasses(results, version, revision, c)

HumanPass(c) ==
    [version |-> version, revision |-> revision, status |-> "pass",
     output |-> CHOOSE o \in Outputs : TRUE]

\* _record_human_signoff: `approve` in phase awaiting_signoff.
HandleApproval ==
    /\ pc = "idle"
    /\ approval # "none"
    /\ approval' = "none"
    /\ \/ /\ phase = "awaiting_signoff"
          /\ CandidateChanged \/ ObjectiveStale
          /\ Adopt(workspace)
          /\ StartChecks(FALSE)
          /\ UNCHANGED <<results, outcome>>
       \/ /\ phase = "awaiting_signoff"
          /\ ~CandidateChanged /\ ~ObjectiveStale
          /\ results' = [c \in Criteria |-> IF c \in Human
                                            THEN Record(results[c], HumanPass(c))
                                            ELSE results[c]]
          /\ outcome' = "verified_complete"
          /\ pc' = "report"
          /\ UNCHANGED <<fingerprint, revision, phase, batch>>
       \/ /\ phase # "awaiting_signoff"    \* answered as something else
          /\ UNCHANGED <<fingerprint, revision, results, phase, pc, outcome, batch>>
    /\ UNCHANGED <<workspace, version, stopEvent, deadline, ledger>>

\* `continue` at a budget checkpoint: the fingerprint is adopted as it is.
HandleContinue ==
    /\ pc = "idle"
    /\ phase = "budget_checkpoint"
    /\ tranche < MaxTranche
    /\ tranche' = tranche + 1
    /\ cycles' = 0
    /\ fingerprint' = workspace
    /\ phase' = "working"
    /\ pc' = "submit"
    /\ UNCHANGED <<workspace, revision, version, results, outcome, stopEvent,
                   deadline, batch, approval>>

\* `revise`, or any answer to a question: a new draft, and the lease is gone.
RequestRevision ==
    /\ pc = "idle"
    /\ phase \in {"needs_input", "awaiting_signoff", "budget_checkpoint",
                  "awaiting_approval"}
    /\ phase' = "draft_contract"
    /\ deadline' = "none"
    /\ UNCHANGED <<workspace, evidence, pc, outcome, stopEvent, batch, ledger, approval>>

\* _handle_contract_draft.  A malformed envelope keeps the old contract.
DraftArrives ==
    /\ pc = "idle"
    /\ phase = "draft_contract"
    /\ \/ /\ phase' = "needs_input"
          /\ UNCHANGED version
       \/ /\ version < MaxVersion
          /\ version' = version + 1
          /\ phase' \in {"needs_input", "awaiting_approval"}
    /\ UNCHANGED <<workspace, fingerprint, revision, results, pc, outcome,
                   stopEvent, deadline, batch, ledger, approval>>

\* _approve_contract: fresh ledger, and a lease if one was asked for.
ApproveContract ==
    /\ pc = "idle"
    /\ phase = "awaiting_approval"
    /\ fingerprint' = workspace
    /\ phase' = "working"
    /\ pc' = "submit"
    /\ deadline' \in {"none", "armed"}
    /\ cycles' = 0
    /\ tranche' = 1
    /\ UNCHANGED <<workspace, revision, version, results, outcome, stopEvent,
                   batch, approval>>

------------------------------------------------------------------------------

Environment == Edit \/ SignalStop \/ DeadlineFires \/ SendApproval

\* The handler that holds the lock.
Running ==
    \/ SubmitWorker \/ AutoRenew \/ EnterBudgetCheckpoint \/ SubmitAfterDeadline
    \/ ReadBefore \/ InterruptChecks
    \/ FinishBatch \/ Archive

Handlers ==
    \/ WorkerReports \/ WorkerBlocked \/ HandleStop \/ HandleDeadline
    \/ HandleApproval \/ HandleContinue \/ RequestRevision \/ DraftArrives
    \/ ApproveContract

Next == Environment \/ Running \/ Handlers

Spec == Init /\ [][Next]_vars

\* A suspended handler is resumed by the event loop.  asyncio.Lock serves its
\* waiters in order, so a queued !stop and the deadline's task get the lock even
\* if it is taken again and again; users and workers owe nothing.
Fairness == WF_vars(Running) /\ SF_vars(HandleStop) /\ SF_vars(HandleDeadline)

FairSpec == Spec /\ Fairness

------------------------------------------------------------------------------
(* Properties.                                                             *)

Successful == phase = "over" /\ outcome \in {"verified_complete", "provisional"}

\* Some result of the adopted revision says c does not pass.
OnceRefuted(c) ==
    \E i \in Fresh(results[c], version, revision) : results[c][i].status # "pass"

\* The last batch found the workspace as it is adopted, before and after the
\* checks; every objective criterion passes, and the batch saw it pass unless a
\* contrary result of the same revision is on record (see LatestCheckDecides).
\* Of a contract without objective criteria nothing is claimed but a batch.
Candidate ==
    /\ batch.complete
    /\ \A c \in Objective :
          /\ batch.clean
          /\ fingerprint = batch.before
          /\ CurrentlyPasses(results, version, revision, c)
          /\ c \in batch.passed \/ OnceRefuted(c)

\* A successful archive, verified or provisional, rests on the last batch;
\* nothing was adopted, recorded or revised since that the batch did not see.
SuccessRestsOnLastBatch == Successful => Candidate

\* A sign-off is never invented: human criteria pass in a verified archive, and
\* in a provisional one none of them does.
SignoffIsNeverInvented ==
    Successful =>
        \A c \in Human : CurrentlyPasses(results, version, revision, c)
                            <=> outcome = "verified_complete"

\* The workspace that is signed off is the one the last batch checked: whatever
\* happened to it, or to what is adopted, since the report was posted is noticed.
SignoffIsOfTheCheckedWorkspace ==
    [][ (phase = "awaiting_signoff" /\ outcome = None /\ outcome' = "verified_complete")
            => Candidate /\ workspace = fingerprint ]_vars

\* README.md:240 "At the absolute deadline [...] one bounded, read-only final check.
\* It then archives": a pursuit is only given up as out of time over a batch that was
\* completed and in which, by what is on record, something did not pass.
DeadlineIsLastResort ==
    (phase = "over" /\ outcome = "deadline_reached") =>
        /\ batch.complete
        /\ \E c \in Objective : ~CurrentlyPasses(results, version, revision, c)

\* A stop that was signalled before the archive was made wins over a success or
\* a deadline whose report was being built: the archive says stopped.
StopWins ==
    [][ (stopEvent /\ phase # "over" /\ phase' = "over") => outcome' = "stopped" ]_vars

\* The evidence of an archived pursuit, and its outcome, never change again.
ArchiveIsFinal ==
    [][ phase = "over" => UNCHANGED <<phase, outcome, evidence, batch>> ]_vars

\* No pursuit stays in the controller's own phase: whoever interrupts a batch -
\* a stop, the deadline - has a handler queued that takes the phase further.
CheckingEnds == (phase = "checking") ~> (phase # "checking")

\* README.md:214 "only when every objective criterion passes against the latest
\* result": in a verified archive the last run of every objective check passed.
LatestCheckDecides ==
    (phase = "over" /\ outcome = "verified_complete") =>
        Objective \subseteq batch.passed

=============================================================================
