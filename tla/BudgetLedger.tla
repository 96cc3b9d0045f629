----------------------------- MODULE BudgetLedger -----------------------------
(***************************************************************************)
(* The ledger of a pursuit: what its tranche may use, what has been used,  *)
(* the clock that runs while the pursuit does, and OpenCode's counter of   *)
(* the session's input tokens, from which the ledger charges differences.  *)
(*                                                                         *)
(* A handler holds the room's lock from start to end; pc names what the    *)
(* handler in progress does next after a save.  A handler without a save   *)
(* in between is one action: if the bot dies in it, memory is as before,   *)
(* and all that remains is a turn that has ended (TurnEnds).  Phases are   *)
(* those of PursuitLifecycle, "agreeing" for all that wait for a contract  *)
(* or an answer; once a pursuit is over, usage and total are its archive's.*)
(***************************************************************************)
EXTENDS Integers

CONSTANTS
    None,                                   \* absence of a value
    MaxCycles, MaxToolCalls, MaxTokens, MaxElapsed,   \* contract.budget
    Second,                                 \* ticks of the clock per second
    MaxTicks, MaxSpent, MaxTranche,         \* bounds: time, tokens, tranches
    Disturbances                            \* what may go wrong

\* abort: OpenCode does not confirm the end of a turn; prompt: a prompt is refused;
\* error: a turn ends with session.error; stall: it makes no progress; crash: the bot
\* dies and is restarted; gone: then, OpenCode does not know the session; create: a
\* session cannot be created.
ASSUME DisturbancesAssumption == Disturbances \subseteq
    {"abort", "prompt", "error", "stall", "crash", "gone", "create"}

ASSUME LimitsAssumption ==
    /\ MaxCycles \in Nat \ {0} /\ MaxToolCalls \in Nat \ {0}
    /\ MaxTokens \in Nat \ {0} /\ MaxElapsed \in Nat \ {0}
    /\ Second \in Nat \ {0}
    /\ MaxTicks \in Nat /\ MaxSpent \in Nat /\ MaxTranche \in Nat

ASSUME NoneAssumption == None \notin Nat

VARIABLES
    phase,        \* pursuit_phase
    pc,           \* what the handler that holds the lock does next
    lease,        \* the unattended lease
    usage,        \* BudgetLedger.usage
    total,        \* BudgetLedger.total_usage
    tranche,      \* BudgetLedger.tranche
    running,      \* ticks since started_ms; None while the clock is stopped
    seen,         \* pursuit_worker_input_tokens
    open,         \* the last attempt has no completed_at_ms
    inFlight,     \* in_flight_event_id
    retry,        \* the retry task will resume the phase
    termination,  \* pursuit_termination_reason is a quota
    busy,         \* OpenCode: a turn of state.session_id is running
    used,         \* OpenCode: input tokens of state.session_id as a worker's
    spent,        \* ghost: input tokens of all workers of this pursuit
    lost,         \* ghost: those of sessions left before they could be read
    clocked,      \* ghost: ticks during which the ledger's clock ran
    struck        \* ghost: what the accounts have suffered, "error" or "gone"

accounts == <<usage, total, tranche, running, clocked>>
tokens   == <<seen, used, spent, lost, struck>>
turn     == <<inFlight, busy, open, retry, termination>>
vars     == <<phase, pc, lease, accounts, tokens, turn>>

Usage == [cycles : Nat, toolCalls : Nat, tokens : Nat, elapsed : Nat]
Unused == [cycles |-> 0, toolCalls |-> 0, tokens |-> 0, elapsed |-> 0]

Waiting == {"agreeing", "signoff", "checkpoint"}

TypeOK ==
    /\ phase \in {"none", "working", "checking"} \cup Waiting
    /\ pc \in {"idle", "submit", "prompt", "quota", "checks", "deadline", "boot"}
    /\ lease \in {"none", "running", "expired"}
    /\ usage \in Usage /\ total \in Usage
    /\ tranche \in Nat \ {0}
    /\ running \in Nat \cup {None}
    /\ seen \in Nat /\ used \in Nat /\ spent \in Nat /\ lost \in Nat
    /\ clocked \in Nat
    /\ struck \subseteq {"error", "gone"}
    /\ open \in BOOLEAN /\ inFlight \in BOOLEAN /\ retry \in BOOLEAN
    /\ termination \in BOOLEAN /\ busy \in BOOLEAN

------------------------------------------------------------------------------
(* The ledger's own operations.                                            *)

\* Whole seconds since started_ms.
Unpaused == IF running = None THEN 0 ELSE running \div Second

\* effective_usage and exhausted_limits.
TimeExhausted == usage.elapsed + Unpaused >= MaxElapsed

Exhausted ==
    \/ usage.cycles >= MaxCycles
    \/ usage.toolCalls >= MaxToolCalls
    \/ usage.tokens >= MaxTokens
    \/ TimeExhausted

\* An account charged with tokens that were read and seconds that went by.
Charged(account, reading, seconds) ==
    [account EXCEPT !.tokens = @ + reading, !.elapsed = @ + seconds]

\* Bug: the interval is charged, but started_ms stays set.
PauseKeepsStart(reading) ==
    /\ usage' = Charged(usage, reading, Unpaused)
    /\ total' = Charged(total, reading, Unpaused)
    /\ UNCHANGED <<running, tranche, clocked>>

\* Bug: the total is charged with all of the tranche, not with the interval.
PauseAddsTranche(reading) ==
    /\ usage' = Charged(usage, reading, Unpaused)
    /\ total' = Charged(total, reading, usage.elapsed + Unpaused)
    /\ running' = None
    /\ UNCHANGED <<tranche, clocked>>

\* record_input_tokens, then pause.
Pause(reading) ==
    /\ usage' = Charged(usage, reading, Unpaused)
    /\ total' = Charged(total, reading, Unpaused)
    /\ running' = None
    /\ UNCHANGED <<tranche, clocked>>

\* record_input_tokens alone.
ChargeTokens(reading) ==
    /\ usage' = Charged(usage, reading, 0)
    /\ total' = Charged(total, reading, 0)
    /\ UNCHANGED <<tranche, running, clocked>>

\* record_input_tokens, then start_next_tranche.
NextTranche(reading) ==
    /\ total' = Charged(total, reading, Unpaused)
    /\ usage' = Unused
    /\ tranche' = tranche + 1
    /\ running' = 0
    /\ UNCHANGED clocked

------------------------------------------------------------------------------
(* Reading OpenCode's counter.                                             *)

\* _capture_worker_input_tokens: what the session has used beyond the mark.
Reading == IF used > seen THEN used - seen ELSE 0

\* Bug: only a worker that reports is read.
NothingInterrupted == 0

\* _capture_interrupted_worker_input_tokens: of an attempt that is not completed.
InterruptedReading == IF phase = "working" /\ open THEN Reading ELSE 0

\* Bug: what was charged is not remembered.
RememberNothing(reading) == UNCHANGED tokens

\* The high-water mark of the session.
Remember(reading) ==
    /\ seen' = seen + reading
    /\ UNCHANGED <<used, spent, lost, struck>>

\* Another session: its counter starts at zero, and so does the mark.
LeaveSession(reading) ==
    /\ seen' = 0
    /\ used' = 0
    /\ lost' = lost + (Reading - reading)
    /\ UNCHANGED <<spent, struck>>

------------------------------------------------------------------------------
(* The environment.                                                        *)

Init ==
    /\ phase = "none" /\ pc = "idle" /\ lease = "none"
    /\ usage = Unused /\ total = Unused /\ tranche = 1 /\ running = None
    /\ seen = 0 /\ used = 0 /\ spent = 0 /\ lost = 0
    /\ clocked = 0 /\ struck = {}
    /\ open = FALSE /\ inFlight = FALSE /\ busy = FALSE
    /\ retry = FALSE /\ termination = FALSE

\* The clock of a tranche goes on while the bot is down.
Tick ==
    /\ running # None
    /\ clocked < MaxTicks
    /\ running' = running + 1
    /\ clocked' = clocked + 1
    /\ UNCHANGED <<phase, pc, lease, usage, total, tranche, tokens, turn>>

LeaseExpires ==
    /\ lease = "running"
    /\ lease' = "expired"
    /\ UNCHANGED <<phase, pc, accounts, tokens, turn>>

WorkerReads ==
    /\ busy
    /\ spent < MaxSpent
    /\ used' = used + 1
    /\ spent' = spent + 1
    /\ UNCHANGED <<phase, pc, lease, accounts, seen, lost, struck, turn>>

\* OpenCode finishes a turn; so does an abort whose handler dies before it saves.
TurnEnds ==
    /\ busy
    /\ busy' = FALSE
    /\ UNCHANGED <<phase, pc, lease, accounts, tokens, inFlight, open, retry, termination>>

\* The bot dies between two saves; what it held in memory is on disk.
Restart ==
    /\ "crash" \in Disturbances
    /\ pc' = "boot"
    /\ retry' = FALSE
    /\ UNCHANGED <<phase, lease, accounts, tokens, inFlight, busy, open, termination>>

\* _resume_pursuit_phase, unless a turn is waited for.
ResumePhase ==
    pc' = IF inFlight' THEN "idle"
          ELSE IF phase = "working" THEN "submit"
          ELSE IF phase = "checking" THEN "checks" ELSE "idle"

\* validate_restored_state and resume_pursuits.  If OpenCode does not know the
\* session, another one takes its place.
Boot ==
    /\ pc = "boot"
    /\ \/ UNCHANGED <<tokens, busy, inFlight>>
       \/ /\ "gone" \in Disturbances
          /\ phase # "none"
          /\ used' = 0
          /\ lost' = lost + Reading
          /\ busy' = FALSE
          /\ inFlight' = FALSE
          /\ struck' = struck \cup {"gone"}
          /\ UNCHANGED <<seen, spent>>
    /\ ResumePhase
    /\ UNCHANGED <<phase, lease, accounts, open, retry, termination>>

------------------------------------------------------------------------------
(* Work.                                                                   *)

Idle == pc = "idle"

\* _select_pursuit_extent
Begin ==
    /\ Idle
    /\ phase = "none"
    /\ phase' = "agreeing"
    /\ usage' = Unused /\ total' = Unused /\ tranche' = 1 /\ running' = None
    /\ seen' = 0 /\ used' = 0 /\ spent' = 0 /\ lost' = 0
    /\ clocked' = 0 /\ struck' = {}
    /\ open' = FALSE /\ retry' = FALSE
    /\ UNCHANGED <<pc, lease, inFlight, busy, termination>>

\* _approve_contract: a fresh worker, and a ledger of its own.
Approve ==
    /\ Idle
    /\ phase = "agreeing"
    /\ phase' = "working"
    /\ pc' = "submit"
    /\ lease' \in {"none", "running"}
    /\ usage' = Unused /\ total' = Unused /\ tranche' = 1 /\ running' = None
    /\ seen' = 0 /\ used' = 0 /\ spent' = 0 /\ lost' = 0
    /\ clocked' = 0 /\ struck' = {}
    /\ open' = FALSE
    /\ UNCHANGED <<inFlight, busy, retry, termination>>

\* BudgetLedger.start
StartClock == running' = IF running = None THEN 0 ELSE running

\* The deadline's handler, when nothing runs any more.
FinalChecks ==
    /\ termination' = FALSE
    /\ phase' = "checking"
    /\ pc' = "checks"

\* _submit_worker up to its save.  The clock starts before the workspace is looked
\* at; a deadline that passes meanwhile leads to the final checks, without an attempt.
Submit ==
    /\ pc = "submit"
    /\ \/ /\ Exhausted
          /\ pc' = "quota"
          /\ UNCHANGED <<phase, accounts, open, termination>>
       \/ /\ lease = "expired"
          /\ pc' = "deadline"
          /\ UNCHANGED <<phase, accounts, open, termination>>
       \/ /\ ~Exhausted /\ lease = "expired"
          /\ StartClock
          /\ FinalChecks
          /\ UNCHANGED <<usage, total, tranche, clocked, open>>
       \/ /\ ~Exhausted /\ lease # "expired"
          /\ pc' = "prompt"
          /\ usage' = [usage EXCEPT !.cycles = @ + 1]
          /\ total' = [total EXCEPT !.cycles = @ + 1]
          /\ StartClock
          /\ open' = TRUE
          /\ UNCHANGED <<phase, tranche, clocked, termination>>
    /\ UNCHANGED <<lease, tokens, inFlight, busy, retry>>

\* _submit_prompt
Prompt ==
    /\ pc = "prompt"
    /\ \/ /\ lease = "expired"
          /\ pc' = "deadline"
          /\ UNCHANGED <<inFlight, busy, retry>>
       \/ /\ lease # "expired"
          /\ inFlight' = TRUE
          /\ busy' = TRUE
          /\ pc' = "idle"
          /\ UNCHANGED retry
       \/ /\ lease # "expired"
          /\ "prompt" \in Disturbances
          /\ inFlight' = FALSE
          /\ retry' = TRUE
          /\ pc' = "idle"
          /\ UNCHANGED busy
    /\ UNCHANGED <<phase, lease, accounts, tokens, open, termination>>

\* The retry task.
Resume ==
    /\ Idle
    /\ retry
    /\ retry' = FALSE
    /\ UNCHANGED inFlight
    /\ ResumePhase
    /\ UNCHANGED <<phase, lease, accounts, tokens, busy, open, termination>>

SessionError ==
    /\ Idle
    /\ "error" \in Disturbances
    /\ busy /\ inFlight
    /\ ~termination
    /\ busy' = FALSE
    /\ inFlight' = FALSE
    /\ retry' = TRUE
    /\ struck' = struck \cup {"error"}
    /\ UNCHANGED <<phase, pc, lease, accounts, seen, used, spent, lost, open, termination>>

\* The end of a turn: _handle_worker_result, with or without a blocker.
WorkerReports ==
    /\ Idle
    /\ inFlight /\ ~busy
    /\ ~termination
    /\ phase = "working"
    /\ inFlight' = FALSE
    /\ open' = FALSE
    /\ Remember(Reading)
    /\ \/ /\ lease # "expired"
          /\ Pause(Reading)
          /\ lease' = "none"
          /\ phase' = "agreeing"
          /\ UNCHANGED pc
       \/ /\ ChargeTokens(Reading)
          /\ phase' = "checking"
          /\ pc' = "checks"
          /\ UNCHANGED lease
    /\ UNCHANGED <<busy, retry, termination>>

\* The watchdog or !bump ends a stalled turn, and another session goes on.
Recover ==
    /\ Idle
    /\ "stall" \in Disturbances
    /\ busy /\ inFlight
    /\ ~termination
    /\ busy' = FALSE
    /\ inFlight' = FALSE
    /\ open' = FALSE
    /\ ChargeTokens(InterruptedReading)
    /\ \/ LeaveSession(InterruptedReading) /\ pc' = "submit"
       \/ "create" \in Disturbances /\ Remember(InterruptedReading) /\ UNCHANGED pc
    /\ UNCHANGED <<phase, lease, retry, termination>>

------------------------------------------------------------------------------
(* Quotas.                                                                 *)

\* _interrupt_worker_for_budget: the turn may not end at once.
Interrupt ==
    IF lease = "expired"
    THEN /\ pc' = "deadline"
         /\ UNCHANGED <<accounts, tokens, turn>>
    ELSE \/ /\ "abort" \in Disturbances /\ busy
            /\ termination' = TRUE
            /\ UNCHANGED <<pc, accounts, tokens, inFlight, busy, open, retry>>
         \/ /\ termination' = FALSE
            /\ busy' = FALSE
            /\ inFlight' = FALSE
            /\ open' = FALSE
            /\ pc' = "quota"
            /\ ChargeTokens(InterruptedReading) /\ Remember(InterruptedReading)
            /\ UNCHANGED retry

\* Bug: the quota is compared after the call is counted.
ToolCallsOneMore ==
    /\ Idle
    /\ busy /\ inFlight
    /\ ~termination
    /\ phase = "working"
    /\ IF usage.toolCalls > MaxToolCalls
       THEN Interrupt
       ELSE /\ usage' = [usage EXCEPT !.toolCalls = @ + 1]
            /\ total' = [total EXCEPT !.toolCalls = @ + 1]
            /\ UNCHANGED <<pc, tranche, running, clocked, tokens, turn>>
    /\ UNCHANGED <<phase, lease>>

\* message.part.updated: a tool that is not active yet starts.
ToolCall ==
    /\ Idle
    /\ busy /\ inFlight
    /\ ~termination
    /\ phase = "working"
    /\ IF usage.toolCalls >= MaxToolCalls
       THEN Interrupt
       ELSE /\ usage' = [usage EXCEPT !.toolCalls = @ + 1]
            /\ total' = [total EXCEPT !.toolCalls = @ + 1]
            /\ UNCHANGED <<pc, tranche, running, clocked, tokens, turn>>
    /\ UNCHANGED <<phase, lease>>

\* Bug: the tranche is only looked at when a worker is submitted.
WatchNothing ==
    /\ Idle
    /\ inFlight
    /\ phase = "working"
    /\ termination
    /\ Interrupt
    /\ UNCHANGED <<phase, lease>>

\* The watchdog: a turn without a lease outlasts the tranche, or the interruption
\* of a turn is tried again.
WatchQuota ==
    /\ Idle
    /\ inFlight
    /\ phase = "working"
    /\ termination \/ (busy /\ lease = "none" /\ TimeExhausted)
    /\ Interrupt
    /\ UNCHANGED <<phase, lease>>

\* _enter_budget_checkpoint, and _auto_renew_pursuit_budget, which may be deferred.
AtQuota ==
    /\ pc = "quota"
    /\ \/ /\ lease = "none"
          /\ Pause(0)
          /\ phase' = "checkpoint"
          /\ pc' = "idle"
          /\ UNCHANGED <<tokens, retry>>
       \/ /\ lease = "expired"
          /\ pc' = "deadline"
          /\ UNCHANGED <<phase, accounts, tokens, retry>>
       \/ /\ lease = "running" /\ tranche < MaxTranche
          /\ NextTranche(InterruptedReading) /\ LeaveSession(InterruptedReading)
          /\ pc' = "submit"
          /\ UNCHANGED <<phase, retry>>
       \/ /\ lease = "running"
          /\ "create" \in Disturbances
          /\ ChargeTokens(InterruptedReading) /\ Remember(InterruptedReading)
          /\ retry' = TRUE
          /\ pc' = "idle"
          /\ UNCHANGED phase
    /\ UNCHANGED <<lease, inFlight, busy, open, termination>>

\* _handle_budget_decision: `continue`.
Continue ==
    /\ Idle
    /\ phase = "checkpoint"
    /\ tranche < MaxTranche
    /\ NextTranche(0)
    /\ LeaveSession(0)
    /\ phase' = "working"
    /\ pc' = "submit"
    /\ UNCHANGED <<lease, turn>>

------------------------------------------------------------------------------
(* Checks, the deadline, and the end.                                      *)

\* Bug: the phase becomes the outcome.
ArchiveAsPhase(reading) ==
    /\ Pause(reading)
    /\ LeaveSession(reading)
    /\ phase' = "stopped"
    /\ lease' = "none"

\* _finish_pursuit or a stop: the ledger goes into the archive.
Archive(reading) ==
    /\ Pause(reading)
    /\ LeaveSession(reading)
    /\ phase' = "none"
    /\ lease' = "none"

\* _run_pursuit_checks
Checks ==
    /\ pc = "checks"
    /\ \/ /\ Archive(0)
          /\ pc' = "idle"
       \/ /\ lease # "running"
          /\ Pause(0)
          /\ phase' = "signoff"
          /\ pc' = "idle"
          /\ UNCHANGED <<lease, tokens>>
       \/ /\ lease # "expired"
          /\ Pause(0)
          /\ lease' = "none"
          /\ phase' = "agreeing"
          /\ pc' = "idle"
          /\ UNCHANGED tokens
       \/ /\ lease # "expired"
          /\ phase' = "working"
          /\ pc' = "submit"
          /\ UNCHANGED <<lease, accounts, tokens>>
    /\ UNCHANGED turn

\* _record_human_signoff: the workspace moved, or the pursuit is complete.
SignOff ==
    /\ Idle
    /\ phase = "signoff"
    /\ \/ /\ phase' = "checking"
          /\ pc' = "checks"
          /\ UNCHANGED <<lease, accounts, tokens>>
       \/ /\ Archive(0)
          /\ UNCHANGED pc
    /\ UNCHANGED turn

\* _request_contract_revision
Revise ==
    /\ Idle
    /\ phase \in {"signoff", "checkpoint"}
    /\ phase' = "agreeing"
    /\ lease' = "none"
    /\ UNCHANGED <<pc, accounts, tokens, turn>>

DeadlineNoticed ==
    /\ Idle
    /\ phase \in {"working", "checking", "signoff", "checkpoint"}
    /\ lease = "expired"
    /\ pc' = "deadline"
    /\ UNCHANGED <<phase, lease, accounts, tokens, turn>>

\* _handle_unattended_deadline: a turn that does not end is waited for.
Deadline ==
    /\ pc = "deadline"
    /\ \/ /\ inFlight /\ busy /\ "abort" \in Disturbances
          /\ pc' = "idle"
          /\ UNCHANGED <<phase, accounts, tokens, turn>>
       \/ /\ inFlight
          /\ ChargeTokens(InterruptedReading) /\ Remember(InterruptedReading)
          /\ open' = FALSE
          /\ inFlight' = FALSE
          /\ busy' = FALSE
          /\ FinalChecks
          /\ UNCHANGED retry
       \/ /\ ~inFlight
          /\ FinalChecks
          /\ UNCHANGED <<accounts, tokens, inFlight, busy, open, retry>>
    /\ UNCHANGED lease

\* command_stop, once OpenCode has confirmed it.
Stop ==
    /\ Idle
    /\ phase # "none"
    /\ Archive(InterruptedReading)
    /\ busy' = FALSE
    /\ inFlight' = FALSE
    /\ termination' = FALSE
    /\ UNCHANGED <<pc, open, retry>>

YoloOff ==
    /\ Idle
    /\ lease # "none"
    /\ lease' = "none"
    /\ UNCHANGED <<phase, pc, accounts, tokens, turn>>

------------------------------------------------------------------------------

Environment ==
    \/ Tick \/ LeaseExpires \/ WorkerReads \/ TurnEnds \/ Restart

Running == Boot \/ Submit \/ Prompt \/ AtQuota \/ Checks \/ Deadline

Events ==
    \/ Resume \/ SessionError \/ WorkerReports \/ Recover
    \/ ToolCall \/ WatchQuota \/ DeadlineNoticed

User == Begin \/ Approve \/ Continue \/ SignOff \/ Revise \/ Stop \/ YoloOff

Next == Environment \/ Running \/ Events \/ User

Spec == Init /\ [][Next]_vars

\* A handler goes on.  The watchdog looks every 30 s, whatever else takes the lock,
\* at a turn that is over or outlasts its tranche, and OpenCode does not refuse to
\* end a turn forever.
Fairness ==
    /\ WF_vars(Running)
    /\ SF_vars(WatchQuota /\ ~termination') /\ SF_vars(WorkerReports)
    /\ <>[][~Restart]_vars

FairSpec == Spec /\ Fairness

------------------------------------------------------------------------------
(* Properties.                                                             *)

\* README.md:227 "preserving [...] cumulative usage": every token of every worker is
\* charged once, or can still be read, or its session was left unread; unless the
\* session was replaced at a restart.
TokensAccounted ==
    "gone" \notin struck => total.tokens + (used - seen) + lost = spent

\* README.md:244 "Every final report contains [...] cumulative resource usage": when
\* the ledger is archived nothing is left to be read, as long as no session was
\* replaced, and no turn ended in an error, which leaves its tokens to a reading
\* that may not come.  Readings themselves succeed here: one that fails is logged
\* and given up (bot.py:1891), and its tokens are missing from the report.
ReportIsComplete ==
    (phase = "none" /\ struck = {}) => total.tokens = spent

\* README.md:249 "cumulative budget ledgers survive bot restarts": the mark up to
\* which tokens are charged is one of the session they are read from.
MarkIsOfThisSession == phase \in {"working", "checking"} => seen <= used

\* Time is charged once, but for less than a second each time the clock stops: it
\* starts with an attempt or a later tranche, or, once in a pursuit, with an attempt
\* that its deadline forestalls.
TimeAccounted ==
    LET charged == Second * total.elapsed + IF running = None THEN 0 ELSE running
    IN  /\ charged <= clocked
        /\ clocked - charged <= (Second - 1) * (total.cycles + tranche)

\* The user's time is not the pursuit's: while it waits for a decision, and when
\* it is over, the clock is stopped.
ClockStopsForTheUser == phase \in Waiting \cup {"none"} => running = None

\* README.md:225 "cycle, tool-call, and input-token quotas are internal rotation
\* boundaries": no tranche has more attempts or tool calls than its contract grants.
QuotaHolds == usage.cycles <= MaxCycles /\ usage.toolCalls <= MaxToolCalls

\* README.md:221 "an exhausted [...] wall-time tranche pauses at
\* `budget_checkpoint`": an interactive turn does not outlast its tranche forever.
TurnEndsWithTranche ==
    (phase = "working" /\ inFlight /\ busy /\ lease = "none" /\ TimeExhausted)
        ~> ~(phase = "working" /\ inFlight /\ TimeExhausted)
================================================================================
