# A formal model of the Matrix–OpenCode bot

The bot (`src/matrix_opencode_bot/`) maps every allowed Matrix room to one OpenCode
session and relays messages both ways. Its own core logic is the *pursuit*: a
long-running goal that the bot drafts into a contract, lets a model session work on,
checks with its own checkers, renews, recovers, stops and archives - with or without a
user who watches. This directory holds TLA+ models of that logic, TLC configurations
that check them on small instances, and proofs that hold for every instance.

Line numbers name `src/matrix_opencode_bot/bot.py` unless they name another file;
`PROJECT.json` gives the lines behind every definition.

## 1. The system

One asyncio process. Everything runs on one thread, and a handler can be interrupted
only at an `await`. What runs concurrently:

- `on_message`, one call per Matrix message, in the order the server sends them;
- the OpenCode event stream (`session.idle`, `session.error`, permissions, progress);
- `run_watchdog`, every 30 s over all rooms;
- one deadline task per room with an unattended lease (`deadline_tasks`);
- one retry task per room (`retry_tasks`), and one per permission answer that failed;
- tools of the model, in OpenCode's processes, and whoever else edits the directory.

`room_locks[room]` is held by a handler from start to end, through every await to
OpenCode, Matrix or a checker. Three things do *not* wait for it: the stop event that
`on_message` sets for a `!stop`, the deadline event that the timer sets, and turns of
the model. `StateStore` keeps every `RoomSession` in one JSON file which `os.replace`
swaps atomically.

### Inventory

| Component | State | Operations | What makes it correct | Where |
|---|---|---|---|---|
| Pursuit evidence | workspace fingerprint and revision, contract version, check results, a batch in progress, archive | adopt a fingerprint, run a batch, record results, draw a verdict, sign off, archive | a success rests on checks of the workspace it is reported for; sign-offs are not invented; a stop wins | `PursuitEvidence` |
| Pursuit lifecycle | phase, worker session, in-flight flag, lease and deadline, pending termination, recovery mark, retry and timer tasks | draft, approve, submit, renew, check, stop, resume, recover, restart | nothing is stranded, no turn runs unwatched, work is approved, stops and deadlines end it, leases are authorized, and the user sees a contract agreed to, worked on, judged and reported | `PursuitLifecycle`, `Pursuit` |
| Budget ledger | usage of the tranche and in total, clock, tranche number, token mark of the session | charge, pause, renew, interrupt, archive, restore | every token is charged once, time but for rounding, the user's time never; no quota is overrun | `BudgetLedger` |
| Permission requests | queue of requests, YOLO and its binding, retry tasks | ask, answer `y`/`n`/`YOLO`, auto-answer, retry, revoke | nothing is approved without authority that holds then; none is forgotten | `PermissionQueue` |
| Workspace locks | one lock per directory, claims and turns of other rooms | conflict test, set-up of a pursuit, prompt | a directory has one pursuit, which works alone; nobody waits for ever | `WorkspaceLocks` |
| Ordinary turns | in-flight message, marks of the watchdog and of `!bump`, pending stop | prompt, complete, interrupt, continue, `!bump`, `!stop`, `!new`, `!reset` | one turn at a time, none unwatched, each message answered, stops complete | `ChatTurn` |
| State store | `rooms` | load, migrate, save | what is restored is a state the handlers know | `Restart`, `Boot` of every module |
| Checkers | none (snapshots) | execute a criterion, fingerprint a directory | a check does not change what it checks | results only, in `PursuitEvidence` |
| Contract protocol | none | parse a draft, a blocker | only complete contracts are accepted | outcomes only |
| OpenCode client | connection, event stream | turns, aborts, prompts, permission replies | - | as the environment of every module |
| Matrix client, status and progress texts, configuration, service scripts, benchmarks | connections, records | I/O, rendering, statistics | - | not modelled (section 7) |

Behaviours that are hard to test, each listed at its line under "hazards" in
`PROJECT.json`:

- *Between two reads.* A batch reads the fingerprint, runs every criterion and reads it
  again; `approve`, `continue` and a worker's report read it once more. The workspace
  may change at any of these awaits.
- *Signals without the lock.* Stop and deadline events interrupt a batch, which leaves
  the phase `checking` behind and relies on whoever set the event being next.
- *Calls that fail half-way.* An abort that OpenCode does not confirm, a prompt it
  refuses (or takes, though the answer is lost), a session it has forgotten.
- *Death at an await*, and a start at which OpenCode's events are handled between the
  two passes over the rooms (`validate_restored_state`, `resume_pursuits`).
- *Stale authority.* A deadline, retry or queued reply that gets the lock after the
  contract, the lease or the session has changed.
- *Answers that come late.* An event of an earlier turn finds the next one in flight; a
  retry of a permission wakes up in a room that has changed; a counter is read after
  the session it belongs to was left.
- *Locks that are not held.* An ordinary prompt looks for a pursuit of its directory
  without the directory's lock, and awaits a message before it is in flight.

## 2. Plan

Done, in this order, the most important behaviour first:

1. `PursuitEvidence`, `MCPursuitEvidence`, `PursuitEvidenceProofs` - evidence and verdicts.
2. `PursuitLifecycle`, `MCPursuitLifecycle`, `PursuitLifecycleProofs` - one room's pursuit
   with all its failures.
3. `Pursuit` - the abstract specification of what a pursuit promises its user;
   `PursuitRefinementProofs` - that `PursuitLifecycle` implements it;
   `PursuitWatchProofs` - that no pursuit is stranded or unwatched.
4. `BudgetLedger`, `MCBudgetLedger`, `BudgetLedgerProofs` - tokens, time and quotas.
5. `PermissionQueue`, `MCPermissionQueue`, `PermissionQueueProofs` - requests, YOLO, retries.
6. `ChatTurn`, `MCChatTurn`, `ChatTurnProofs` - ordinary turns, watchdog, `!bump`, `!stop`.
7. `WorkspaceLocks`, `MCWorkspaceLocks`, `WorkspaceLocksProofs` - rooms that share a
   directory.

How they fit together. `PursuitLifecycle` is the whole of a pursuit's control;
`PursuitEvidence`, `BudgetLedger` and `PermissionQueue` each keep a part of its steps and
add the data that part is about (evidence, accounts, requests), so that their phases are
coarser (`waiting`, `agreeing`) or choices (the verdict). `ChatTurn` is the same room
without a pursuit. `WorkspaceLocks` puts rooms beside one another and keeps of each what
others can see. `Pursuit` is the only one stated above the code.

Left, by weight: a second `!stop` behind the first and stale idle events in
`PursuitLifecycle` (both need `busy` to become a turn per submission, as in `ChatTurn`);
the composition of `PermissionQueue` with `PursuitLifecycle`, so that its authority is
not its own; the migration of protocol-v2 pursuits as further initial states.

## 3. The models and the code

### PursuitEvidence

The variables are the fields of `RoomSession` that carry evidence
(`pursuit_workspace_fingerprint`, `pursuit_workspace_revision`, the contract's version,
`pursuit_check_results`), the phase, the two events (`stopEvent`, `deadline`), the
cycles of the ledger, and the directory itself. `pc` is the await the handler that
holds the lock is suspended at: *submit* (on the way to a worker), *before* (the first
fingerprint of a batch), *check* (its criteria), *report* (the archive's report).

| Action | Code |
|---|---|
| `Edit`, `SignalStop`, `DeadlineFires`, `SendApproval` | tools and editors; `on_message`; the timer; a message in the queue |
| `SubmitWorker`, `AutoRenew`, `EnterBudgetCheckpoint`, `SubmitAfterDeadline` | `_submit_worker` and what it turns into |
| `WorkerReports`, `WorkerBlocked` | `_handle_worker_result` |
| `ReadBefore`, `FinishBatch`, `InterruptChecks` | `_run_pursuit_checks`, `_await_checker_or_stop` |
| `Record`, `CurrentStatus` | `record_check_result`, `current_check_results` (`state.py`) |
| `Archive` | `_finish_pursuit` |
| `HandleStop`, `HandleDeadline`, `HandleApproval`, `HandleContinue`, `RequestRevision`, `DraftArrives`, `ApproveContract` | `command_stop`, `_handle_unattended_deadline`, `_record_human_signoff`, `_handle_budget_decision`, `_request_contract_revision`, `_handle_contract_draft`, `_approve_contract` |

A fingerprint is the content it is computed from. The digest of an observation is its
status and one of `Outputs`. The results are kept per criterion, since both functions
of `state.py` look at one criterion at a time. What a checker returns is any execution
its kind allows. Leases appear as the deadline only; whether YOLO waives a sign-off is
a nondeterministic choice, which module `PursuitLifecycle` makes precise.

### PursuitLifecycle

One room. `contract` says whether there is one and whether its approval is current
(its `approval_digest` matches); `lease` is `pursuit_unattended` and whether its
deadline has passed; `bound`, whether `yolo_session_id` and its digest name this session
and contract. `busy` and `stray` are OpenCode's side: a turn of the present session, and
a worker of a session the room has left. `timer`, `retry`, `stopQueued` and `stopSignal`
are what lives in the process only. `boot` is how far a restarted bot has come with the
room.

A handler is cut at the awaits at which something may intervene: `_submit_prompt` at the
progress message and at `prompt_async` (`SendProgress`, `DispatchPrompt`);
`_submit_worker` (`Submit`) before its quota test leads to `AtQuota` and `Renew`; the
deadline at the confirmation that the worker has stopped (`DeadlineStopRefused`,
`BeginFinalChecks`); a batch (`InterruptChecks`, `Verdict`); the report (`Finish`); a
recovery between the abort and the fresh session (`Recover`, `Rotate`). Handlers with no
such await are one action. Memory is saved where an action ends, so `Restart` - the
process dies and `from_dict` reads the file - may follow any of them. `boot` then goes
through the two passes of the start, with events between them.

`Disturbances` says what may go wrong: refused aborts, an outage in which not even an
idle session can be confirmed, refused prompts, prompts whose answer is lost, sessions
that cannot be created, fingerprints that cannot be read, messages that cannot be sent,
crashes, sessions OpenCode has forgotten, users who go on with a pursuit whose stop is
pending, and a `!yolo off` that overtakes the deadline's task.

### Pursuit

What the user is promised, without sessions, leases, retries and restarts: `Begin`,
`Redraft`, `Agree`, `Work`, `Judge`, `Pause`, `Ask`, `Archive`, `Stop`, `Forget` over a
stage, whether the contract as it stands was agreed to, and the outcome of the last
report. `PursuitLifecycle` instantiates it as `Promise` with this mapping:

| Pursuit | PursuitLifecycle |
|---|---|
| `stage = "none"` | no pursuit |
| `"agreeing"` | `draft_contract`, `awaiting_approval`, `needs_input` |
| `"working"` | `working` |
| `"judging"` | `checking`, `awaiting_signoff` |
| `"paused"` | `budget_checkpoint` |
| `agreed` | there is a pursuit, and `contract = "approved"` (the digest of the approval is that of the contract) |
| `outcome` | of the archive, once the pursuit is over |

Everything else the lifecycle does - submitting, renewing, recovering, rebooting, sleeping
until a retry - is a stutter or one of these steps.

### PermissionQueue

OpenCode's side is `request` (with `asker`, the session that asked) and the events under
way; the bot's is `pending`, `ineligible` (listed without `retry_eligible`), `retry` (what
each task captured before it went to sleep) and the authority: `yolo`, `bound`, the lease
and its deadline. `told` is what the room was last told about a request. A handler holds
the lock throughout and awaits only the answer itself, so each is one action; the answer
comes to one of five `Outcomes`.

| Action | Code |
|---|---|
| `Ask`, `AnswerElsewhere`, `LoseEvents`, `TurnEnds`, `TurnFails` | OpenCode, and the worker's report |
| `IgnoreAsked`, `AskedTooLate`, `AskedUnderYolo`, `AskedWithoutYolo`, `PermissionReplied` | the permission events of `_handle_room_event` |
| `RetryFires`, `RetryQuits`, `StillMeant`, `Schedule` | `_schedule_permission_retry` and its inner `retry` |
| `CommandPermission`, `CommandYolo`, `YoloOff`, `AnswerQuestion` | `command_permission`, `command_yolo`, `command_yolo_setting`, `_select_pursuit_yolo` |
| `Authorized`, `LeaseCurrent`, `Expired` | `_permission_auto_approval_is_authorized` and what it calls |
| `Approve`, `Revise`, `Continue`, `Rotate`, `EndTermination`, `EndPursuit`, `NewSession` ... | what the rest of the room does to queue and authority |
| `Restart` | `from_dict`, `resume_pursuits` |

### ChatTurn

`turn[t]` is what became of the turn that progress message `t` stands for; `inFlight` is
`in_flight_event_id`. A turn may finish, fail, hang, or go on although its prompt failed
for the bot (`"orphan"`); a session may stay busy after its turn (`staleBusy`). `pc` is
the request a handler makes after it saved the room: a crash comes before or after it.

| Action | Code |
|---|---|
| `Prompt`, `Submit`, `Continue`, `SendProgress` | `prompt`, `_submit_prompt`, `_complete_idle` with a continuation |
| `Deliver` with `HandleIdle`, `HandleError` | `session.idle`, `session.error` in `_handle_room_event` |
| `Watchdog`, `Interrupt` | `watchdog_check`, `_watchdog_room` |
| `CommandBump`, `BumpCancel`, `BumpConfirm`, `BumpAbort` | `command_bump` and its confirmation |
| `CommandStop`, `StopAttempt`, `FinishStop`, `ResumeStop` | `command_stop`, `_confirm_session_stopped`, `_resume_pending_termination` |
| `CommandNew`, `Activity`, `Restart` | `command_new`, `command_reset`; other events; `validate_restored_state` |

### WorkspaceLocks

Each room has a directory (resolved), a pending or running pursuit, a turn in flight and
the await its handler is suspended at; `holder` is `workspace_locks`.

| Action | Code |
|---|---|
| `NewSession`, `CommandReset` | `_create_room_session`, `command_new`, `command_reset` |
| `Prompt`, `ProgressSent`, `Recover`, `TurnEnds` | `prompt` and `_submit_prompt`, without the directory's lock; `_complete_idle` |
| `CommandPursue`, `PursueLocks`, `PursueAsks` | `command_pursue`, under it |
| `ChooseExtent`, `ExtentLocks`, `DraftStarts` | `_select_pursuit_extent`, under it |
| `Conflict`, `BusyConflict` | `_workspace_conflict` |
| `ClearPursuit`, `Restart` | `_clear_pursuit`; a crash, which frees the locks |

### BudgetLedger

`usage`, `total`, `tranche`, `running` are `BudgetLedger`'s (the last is the time since
`started_ms`), `seen` is the mark of input tokens, `used` OpenCode's counter of the
session. Four ghosts keep the true accounts: `spent`, `lost`, `clocked`, `struck`.

| Action or operator | Code |
|---|---|
| `Pause`, `StartClock`, `ChargeTokens`, `NextTranche`, `Exhausted` | `BudgetLedger` in `state.py` |
| `Reading`, `Remember`, `LeaveSession`, `InterruptedReading` | `_capture_worker_input_tokens`, `_capture_interrupted_worker_input_tokens`, and the resets of the mark |
| `Submit`, `Prompt`, `WorkerReports`, `SessionError`, `Recover` | `_submit_worker`, `_submit_prompt`, `_handle_worker_result`, `session.error`, recoveries |
| `ToolCall`, `WatchQuota`, `Interrupt`, `AtQuota`, `Continue` | tool events, the watchdog, `_interrupt_worker_for_budget`, `_enter_budget_checkpoint`, `_auto_renew_pursuit_budget`, `_handle_budget_decision` |
| `Checks`, `SignOff`, `Revise`, `Deadline`, `FinalChecks`, `Stop`, `Archive` | the ends of the pursuit, and who stops its clock |
| `Restart`, `Boot` | `from_dict`, `validate_restored_state`, `resume_pursuits` |

## 4. The runs

| Run | Shows |
|---|---|
| `evidence_safety` | `SuccessRestsOnLastBatch`, `SignoffIsNeverInvented`, `SignoffIsOfTheCheckedWorkspace`, `DeadlineIsLastResort`, `StopWins`, `ArchiveIsFinal`: whatever moves between the reads of a batch, a success is reported for the workspace the last batch found before and after its checks, and the deadline only ends what did not pass |
| `evidence_live` | `CheckingEnds`: an interrupted batch has a successor |
| `evidence_latest` | violates `LatestCheckDecides` (finding 1) |
| `lifecycle_ordinary` | `WorkIsApproved`, `NotStranded`, `EveryTurnIsWatched`, `OnePromptAtATime`, `StopCancelsContinuation`, `StopEnds`, `DeadlineEnds`, `CheckingEnds` with refused aborts and prompts, lost sessions, and crashes at every await; `Contracted`: the lifecycle implements `Pursuit` |
| `lifecycle_faults` | `LeaseIsAuthorized`, `DeadlineIsFinal` with every disturbance at once |
| `lifecycle_revocation` | violates `NotStranded` (finding 2) |
| `permissions` | `AutoApprovalIsCovered`: what the bot approves by itself, YOLO covers at that moment; `NotForgotten`: a turn waits for the user, a retry or a stop, but never for nobody |
| `chat_turns` | `OnePromptAtATime`, `EveryTurnIsWatched`, `StopIsComplete`, `TurnIsAnswered`, `StopEnds` with every disturbance but late errors |
| `chat_late` | violates `EveryTurnIsWatched` (finding 3) |
| `locks` | `OnePursuitPerDirectory`, `PursuitIsAlone`, `NobodyWaitsForever` for three rooms, with crashes |
| `ledger` | `TokensAccounted`, `ReportIsComplete`, `TimeAccounted`, `ClockStopsForTheUser`, `QuotaHolds`, `TurnEndsWithTranche` with every disturbance |
| `ledger_replaced` | violates `MarkIsOfThisSession` (finding 4) |

`TypeOK` is an invariant of one run per module. Every property of a passing run has a
mutant: an operator marked `Bug:` beside the definition it changes, with which TLC finds
the property violated.

Some properties need a word.

`Candidate`, which `SuccessRestsOnLastBatch` is about, asks that the last batch *saw*
every objective criterion pass, or that a contrary result of the same revision is on
record: the exception is what finding 1 is about. And nothing is claimed of contracts
that have no objective criterion, except that some batch was completed: the code lets a
workspace that moved during the batch pass there, since nothing depends on it.

`NotStranded` accepts an in-flight turn, a retry, a pending termination, a queued stop or
a deadline that is due as what takes a pursuit further. It holds as long as no handler
dies in the middle of an exception: where `create_session`, a fingerprint read or the
progress message fails, a pursuit is left in a model phase with nothing to resume it
before a restart (hazards at 521 and 3804).

`OnePromptAtATime` and `EveryTurnIsWatched` fail where the answer to a prompt is lost
(hazard at 554): the bot takes the turn for refused and submits it again.

`DeadlineIsFinal` says that no handler starts a turn under an expired lease. It is silent
where the lease is gone: a revoked lease has no deadline.

`NotForgotten` excepts a question Matrix did not deliver, and a retry the bot gave up
without a word because the user revoked YOLO or the stored deadline had passed.

`TokensAccounted` and `ReportIsComplete` except what the code gives up: the tokens of a
session that was lost, and (for the report) of a turn that ended in `session.error`,
which are read with the next report, or by a stop in phase `working`, or not at all.

`TimeAccounted` bounds the rounding: `pause` drops a fraction of a second, in the tranche
and in the total, and the clock starts once per attempt or tranche at most.

`PursuitIsAlone` is claimed without the disturbance `slow`: if the progress message of a
prompt takes longer than a user in another room needs to answer the questions of
`!pursue`, the turn starts beside the pursuit.

### Bounds

`PursuitEvidence` has four. `MaxRevision` counts the workspace changes the controller
notices: an edit needs one left, so a bounded run ends with a quiet workspace. One
change is enough to fall between any two reads. `MaxVersion` 2 lets a revised
contract meet the results of its predecessor. `MaxCycles` is the code's own quota;
`MaxTranche` 2 lets a tranche be renewed and `continue`d. One objective and one human
criterion are enough for `evidence_safety`, as the criteria do not interact but in the
verdict; `evidence_latest` takes two, so that one can fail and keep the batches coming.
The proofs remove all of these bounds.

`PursuitLifecycle` is finite as it stands and has no bounds. Its numbers (quotas,
elapsed time, attempts) are choices.

`PermissionQueue`: `MaxRequest` 2, so that one request is listed, answered or retried
while another arrives; `MaxSession` 4, so that a chat's session, a drafter's, a worker's
and its successor's all occur (2.8 million states). `ChatTurn`: `MaxTurn` 4 is a turn, its
bump, the recovery of that, and the user's next message; `chat_late` needs 2. The last turn
of the bound does not hang, so that its continuation fits. `WorkspaceLocks`: three rooms
let two wait while one holds a lock, the second directory lets a room leave and come
back. The proofs remove the bounds of these three modules.

`BudgetLedger`: quotas of 2 attempts, 1 tool call, 2 tokens and 1 second of 2 ticks, so
that a second can be missed by a rounding; `MaxTicks`, `MaxSpent` and `MaxTranche` 2 stop
time, tokens and renewals: two ticks are a second, two tokens can fall to two sessions,
and the second tranche has a predecessor. The proofs hold for every limit and bound.

### Deadlock

The evidence runs set `CHECK_DEADLOCK FALSE`: an archived pursuit is the end of that
model. So do those of `ChatTurn`, which ends with its last turn, and `locks`, whose rooms
owe nothing. The others always go on - users, clocks or crashes are never exhausted - and
their runs check for deadlock.

### Fairness

For the pursuit (`PursuitEvidence`, `PursuitLifecycle`):

- `WF(Running)`: the event loop resumes a suspended handler. Calls to OpenCode and
  checkers have timeouts.
- `SF` of `HandleStop` and `HandleDeadline`, and of a queued `CommandStop`, of
  `DeadlineNoticed` and of the `Resume...` actions: `asyncio.Lock` serves its waiters in
  order, so a waiter is not overtaken forever; the watchdog becomes such a waiter every
  30 s. `SF` of `BeginFinalChecks` and of the `Resume...` actions also says that OpenCode
  does not refuse to end a turn for ever.
- `SF(Boot)`: the start goes through all rooms.
- `<>[][~Restart]`: the bot is not restarted forever; without this, nothing that takes
  two steps would ever end.
- Users, workers and turns owe nothing: no approval need come, no turn need end.

`ChatTurn`: `WF` of the end of a turn that does not hang (a model session ends; a hung one
need not, which is what the watchdog is for), `WF(Continue)` and `WF(Submit)` for suspended
handlers, `SF` of `Deliver` and `Watchdog` for those that wait for the lock. `SF` of
`Interrupt /\ AbortTakesEffect`, `BumpAbort` and `StopAttempt /\ FinishStop`: crashes and
OpenCode do not frustrate every attempt.

`WorkspaceLocks`: `WF` of the steps after an answered request, `SF` of the two that wait
for a directory's lock, again since `asyncio.Lock` is served in order.

`BudgetLedger`: `WF(Running)`; `SF` of an interruption that ends the turn and of
`WorkerReports`: the watchdog comes round and OpenCode does not refuse forever;
`<>[][~Restart]`.

## 5. What is proved

Eight modules hold the proofs. Assumptions are the `ASSUME`s of the modules and the
conditions on `Disturbances` named here; TLC evaluates the former in every run.

`PursuitEvidenceProofs`, for every finite set of criteria, every set of contents and
outputs, and every bound:

- `TypeCorrect`: `Spec => []TypeOK`.
- `InductiveHolds`: `Spec => []Inductive`, with
  `Inductive == TypeOK /\ ControlInv /\ RevisionInv /\ CandidateInv`.
- `SuccessSound`, `SignoffSound`, `StopSound`, `ArchiveSound`, `NeverInvented`,
  `DeadlineSound`: the safety properties of `evidence_safety`.
- `InterruptionsTakenUp`: `Spec => []CheckingIsTakenUp`.

`SuccessRestsOnLastBatch` is not inductive: `Archive` needs to know that a success whose
report is being built already has its evidence, and `awaiting_signoff` that nothing
adopted or recorded meanwhile took it away. `ControlInv` ties the outcome to `pc` and
phase, `RevisionInv` says that no result is of a revision still to come (so a batch that
bumps the revision starts with fresh results), and `CandidateInv` that every state that
is a success, is about to become one or waits for a sign-off has its `Candidate`. The
heart is `BatchEvidence`: a batch that leaves every objective criterion passing
established `Candidate`; it rests on what `Record` does to a log (`RecordHas`,
`RecordBound`, `RecordFirst`). A stability lemma per conjunct carries it over the steps
that leave evidence alone. `NeverInvented` adds `SignoffInv`: no result of a human
criterion is a pass while there is no outcome or a provisional one (`NeverSigned`), and all
pass for the present contract and revision once the outcome is verified (`Signed`), but for
what a stop discards. `BatchSignsNothing` and
`ApprovalSigns` are its two halves, over what a pass in a log means (`PassIsOnRecord`).
`DeadlineSound` has `LastResortInv`: from the verdict on, while the report is being built as
afterwards, the batch behind an outcome `deadline_reached` is complete and some objective
criterion did not pass. Only a batch that is finished establishes it (`BatchDecides`).

`PursuitLifecycleProofs`, for every set of disturbances:

- `TypeCorrect`, from `StatesNext` and `FlagsNext`.
- `LeaseSound`: `Spec => []LeaseIsAuthorized`. The strengthening `NoLeaseToInherit` adds
  that the phases in which a contract can be replaced (no pursuit, drafting, waiting for
  approval or input) hold no lease; without it `Approve` and `DraftArrives` could hand
  an old lease to a new contract.
- `DeadlineSound`: `Spec => DeadlineIsFinal`. Only `DispatchPrompt` starts a turn
  (`OnlyPromptsStartTurns`), and only of a draft or a worker (`PromptFitsPhase`). It looks at
  the deadline again, which covers workers; a draft has no lease (`NoLeaseToInherit`).

`PursuitRefinementProofs`, for every disturbance but `impatience` (a user who goes on with
a pursuit whose stop is pending):

- `WorkApproved`: `Spec => []WorkIsApproved`.
- `Implements`: `Spec => Contracted`, i.e. `PursuitLifecycle` implements `Pursuit`. The
  initial state maps to `Pursuit`'s, and each action to one of its steps or a stutter.

Both rest on `PathInv`: a suspended handler, a pending termination and a timer find the
pursuit in a phase they were started in (`PhaseFitsHandler`, `PhaseFitsTermination`,
`TimerHasLease`), no contract of an approved phase is empty, and the controller's own
phases await no turn. With `impatience`, `BeginFinalChecks` may judge a revised contract.

`PursuitWatchProofs`, in three layers, each for as many disturbances as it holds with
(TLC checks all of it, with liveness added, on the instance `Ordinary`: refused aborts and
prompts, crashes, lost sessions):

- `TurnsWatched`, `PromptsExclude`, under `Watchable`: all disturbances but a prompt whose
  answer is lost and a user who goes on with a pursuit whose end is pending. `WatchInv`: a
  prompt is on its way only while nothing runs (`PromptsWait`), the end of a worker is
  waited for by its own handler and no retry or renewal beside it (`WorkersEnd`), and a
  booting bot has no timers (`BootIsQuiet`).
- `StopsSound`, under `Stoppable`: also no outage. A pending termination then excludes
  other handlers and, but for a turn in flight, retries (`TerminationWaits`); with an
  outage it does not, which is a weak spot named below.
- `NeverStranded`, under `Carriable`: refused aborts, outages, refused prompts, lost
  sessions and crashes. A set stop event has its handler (`StopIsHandled`), and a pursuit
  at rest in a model phase is carried by a turn, a retry, a termination, a stop or a due
  deadline (`Carried`, which is stronger than `NotStranded`: a deadline that merely passed
  may be revoked).

`WorkspaceLocksProofs`, for any sets of rooms and directories:

- `TypeCorrect`, `PursuitsExclude`: `Exclusive` (claims on a directory are unique) needs
  `Locked`: whoever awaits between test and claim holds the directory's lock, and nobody
  else claims the directory meanwhile.
- `PursuitsAreAlone`, without `slow`: `Quiet` adds that beside a pursuit, or a room about
  to draft, no neighbour is between its test and its prompt.
- `LocksAreHandedBack`, `Spec => []NoLockIsLeft`, with every disturbance: each step that
  leaves the await of a holder gives the lock back (`NextKeepsLocks`).

`BudgetLedgerProofs`, for all limits, bounds and disturbances. `MovesNext` first shows that
every action moves the books in one of nine ways (`LedgerMoves`), which the other proofs
take instead of the actions:

- `TypeCorrect`, `TokensSound`, `QuotaSound`, `ClockSound`.
- `TimeSound`: `TimeInv` relates seconds, ticks and starts of the clock; division is where
  the rounding comes from (`BooksKeepTime`). The clock of an attempt that its deadline
  forestalls starts as well, but no second one follows before another approval
  (`LateNext`), so that the attempts and tranches bound the starts.
- `ReportSound`: only the turn in flight has tokens that were not read (`ReadInv`), and it
  is of an attempt that is not completed (`TurnInv`), which whoever ends it reads.
- `MarkSound`, without `gone`: the replacement of a session is all that parts the token mark
  from its session (`NotReplaced`), so that finding 4 has this one cause.

`PermissionQueueProofs`, for any number of requests and sessions and all disturbances:

- `TypeCorrect`.
- `ApprovalSound`. `QueueInv`: a turn that waits for an answer is one of a chat or worker
  (`OpenIsBusy`), no request is of a session still to come
  (`SessionsAreNew`), events name requests that were made (`AskedOnce`), a marker of
  deadline or budget belongs to a worker (`TerminationFits`), and what an explicit retry
  captured is bound to its contract (`ExplicitIsBound`).
- `NeverForgotten`. `Heard`: each listed request of this session was put to the user or is
  said to be retried. `Backed`: while a listed request of this session is open and has a
  task, pursuit and contract are still what the task captured and YOLO still grants it, so that the
  task quits only where `NotForgotten` says so.

`ChatTurnProofs`, for any number of turns:

- `TypeCorrect`, `PromptsSound`, `StopsSound` with all disturbances. `ChatInv`: one turn goes
  at a time (`OneTurn`), a handler about to continue has finalized the old turn
  (`Continuable`), and the events under way are at most two per turn (`FewEvents`).
- `TurnsWatched` without `late`. `WatchInv` adds that an error under way is the first
  event, and that no turn is running or about to start then.
- `WatchdogUnderstands`, `Spec => []BusyIsExplained`, with all disturbances, `late`
  included. `StaleInv`: only the last turn leaves a stale status behind, and it has finished.

Only model-checked: liveness (`CheckingEnds`, `StopEnds`, `DeadlineEnds`, `TurnIsAnswered`,
`NobodyWaitsForever`, `TurnEndsWithTranche`), which is beyond the prover. Every invariant
and every action property of a passing run is proved. Three of the theorems are the safety
halves of liveness properties; their invariants are stated beside the proofs:

- `CheckingIsTakenUp`, of `CheckingEnds`: whoever interrupted a batch still waits for the
  lock.
- `NoLockIsLeft`, of `NobodyWaitsForever`: whoever holds a directory's lock awaits a
  request, never a lock, so rooms cannot wait for one another in a circle.
- `BusyIsExplained`, of `TurnIsAnswered`: a session that is busy under a progress message is
  busy with that message's turn, or with a status the watchdog can tell to be stale.

## 6. Where the code and its documentation disagree

1. `evidence_latest` (`state.py:698`): a repeated observation is dropped as a duplicate
   wherever it comes in the log, so a check that failed, passed and fails again in the
   same way keeps its pass; "the latest result" (`README.md:214`) is not the latest.
2. `lifecycle_revocation` (3299): `!yolo off` ahead of the deadline's task cancels the
   task a just interrupted batch relies on; the pursuit stays in `checking` until a
   restart, instead of following "the interactive rules" (`README.md:298`).
3. `chat_late` (4193): `session.error` finalizes whatever turn is in flight; one that
   comes late finalizes the next turn, which goes on unwatched. For `session.idle` the
   code asks OpenCode first (4209-4210).
4. `ledger_replaced` (4404): a session lost during downtime is replaced without a reset of
   its token mark; the new session's tokens count only beyond the old mark, against
   "cumulative budget ledgers survive bot restarts" (`README.md:248-249`).

Weak spots met on the way that no run shows and nothing is claimed about:

- An `approve` that waits behind a rerun of the checks (2293) signs off the rerun, not
  "the exact provisional result" (`README.md:223`) its user has seen.
- After a stop that OpenCode cannot confirm for an idle session (disturbance `outage`),
  a retry of the phase (584) submits the next prompt.
- `!yolo off` while the end of a worker at the deadline is still unconfirmed revokes the
  lease but not the pending termination (1135-1136): once confirmed, the pursuit gets its
  final checks and is archived as out of time (922-973), although "continuation follows the
  interactive rules" then (`README.md:297-298`).
- The replacement of a lost session (4401) is not bound to YOLO, so that final checks may
  wait for a sign-off under an expired lease.
- The mark of a refused recovery (3680) survives a turn that a quota or a deadline ends;
  the next turn is aborted without its full timeout.

## 7. What is not modelled, and why

- *A second `!stop`* while the first waits, and *a stale `session.idle`* in a pursuit that
  arrives right after a resubmission (for ordinary turns, `ChatTurn` has it). The code
  attributes a response to a prompt by time stamps of messages, which are not modelled.
- *Sessions OpenCode has forgotten*, for ordinary rooms: the room is unmapped at a restart.
  *Prompts of other clients* in the bot's sessions.
- *Directories inside one another*: the code compares resolved paths for equality, and so
  do the models.
- *Readings of a session that fail*: the ledger misses the tokens, as a comment expects.
  *Limits that are restored before a contract exists* never apply to a worker.
- *Content that changes and changes back* between two fingerprints is invisible to the
  code and to the property.
- *Branches no state reaches* in the model: a lease in `needs_input` or at a checkpoint
  when the bot starts, an approval that is current in `awaiting_approval`, a worker
  submitted under a lease whose authorization is stale. `LeaseIsAuthorized` and
  `NoLeaseToInherit` are the reason.
- *The migration of protocol-v2 pursuits*: a one-time change of stored data.
- *Checkers* (bubblewrap, snapshots, state queries) and the *contract protocol*: pure
  functions of files and text; their results are choices.
- *I/O and text*: Matrix and OpenCode protocols, media, encryption, progress, diffs,
  configuration, service scripts. *Benchmarks* are an offline tool without shared state.
