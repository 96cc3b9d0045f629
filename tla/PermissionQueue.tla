-------------------------- MODULE PermissionQueue --------------------------
(***************************************************************************)
(* The permission requests of one room.  OpenCode suspends a turn until a  *)
(* request of its session is answered.  The bot lists the request and asks *)
(* the user (`y`, `n`, `YOLO`), or answers it itself if YOLO covers it;    *)
(* an answer that failed in transit is tried again by a task of its own,   *)
(* which sleeps without the room's lock.                                   *)
(*                                                                         *)
(* Handlers hold the room's lock throughout, and nothing but the answer    *)
(* itself matters between their awaits: each is one action.  Of the        *)
(* pursuit, this module keeps what its steps do to requests, YOLO, lease   *)
(* and deadline; module PursuitLifecycle has the rest.                     *)
(***************************************************************************)
EXTENDS Naturals

CONSTANTS
    None,           \* no retry task
    MaxRequest,     \* bound: requests OpenCode makes, numbered by `created`
    MaxSession,     \* bound: sessions of the room
    Disturbances    \* what may go wrong

\* transient: an answer fails with a retryable error; lost_answer: the same,
\* although OpenCode took it; refused: it fails with an error that is not
\* retryable; elsewhere: another client answers; lost_event: events are lost
\* with the connection; fails: a turn dies with its requests; unsent: the room
\* is not asked, since the bot dies first or Matrix refuses the message; crash.
ASSUME QueueAssumption ==
    /\ MaxRequest \in Nat /\ MaxSession \in Nat \ {0}
    /\ Disturbances \subseteq
           {"transient", "lost_answer", "refused", "elsewhere", "lost_event", "fails",
            "unsent", "crash"}

Requests == 1..MaxRequest

VARIABLES
    request,      \* OpenCode: each request; "auto", the bot approved it by itself
    asker,        \* OpenCode: its session
    busy,         \* OpenCode: a turn of state.session_id runs
    events,       \* of the event stream, under way to the bot
    pending,      \* pending_permissions
    ineligible,   \* those without retry_eligible
    retry,        \* permission_retry_tasks: what each task captured
    told,         \* the last message of the room about each request
    mode,         \* chat, the two questions of !pursue, or a pursuit's phase
    session,      \* session_id
    contract,     \* content_digest() of the approved contract, 0 without one
    yolo,         \* yolo_permissions
    bound,        \* yolo_session_id and yolo_contract_digest
    unattended,   \* pursuit_unattended
    deadline,     \* pursuit_deadline_ms, which outlives the lease
    termination   \* pursuit_termination_reason

opencode  == <<request, asker, busy, events>>
queue     == <<pending, ineligible, retry, told>>
authority == <<yolo, bound, unattended, deadline>>
room      == <<mode, session, contract, termination>>
vars == <<opencode, queue, authority, room>>

\* pursuit_goal is set; "waiting" is any other phase
Pursuing == {"working", "needs_input", "waiting"}
Unbound == <<0, 0>>

Captured == [explicit : BOOLEAN, pursuit : BOOLEAN, contract : 0..MaxSession]

ASSUME NoneAssumption == None \notin Captured

TypeOK ==
    /\ request \in [Requests -> {"unasked", "open", "closed", "auto"}]
    /\ asker \in [Requests -> 0..MaxSession]
    /\ busy \in BOOLEAN
    /\ events \subseteq {"asked", "replied"} \X Requests
    /\ pending \subseteq Requests /\ ineligible \subseteq Requests
    /\ retry \in [Requests -> Captured \cup {None}]
    /\ told \in [Requests -> {"nothing", "reply", "unsent", "retrying"}]
    /\ mode \in {"chat", "question", "extent"} \cup Pursuing
    /\ session \in 1..MaxSession /\ contract \in 0..MaxSession
    /\ yolo \in BOOLEAN /\ bound \in (0..MaxSession) \X (0..MaxSession)
    /\ unattended \in BOOLEAN /\ deadline \in {"none", "ahead", "passed"}
    /\ termination \in {"none", "stop", "deadline", "budget"}

------------------------------------------------------------------------------
(* Authority.                                                              *)

\* _unattended_authorization_is_current
LeaseCurrent == unattended /\ yolo /\ contract # 0 /\ deadline # "none"

\* _unattended_deadline_expired
Expired == LeaseCurrent /\ deadline = "passed"

\* _permission_auto_approval_is_authorized
Authorized(r) ==
    /\ yolo
    /\ asker[r] = session
    /\ \/ mode = "chat" /\ bound[1] \in {0, session}
       \/ /\ mode = "working"
          /\ termination = "none"
          /\ (LeaseCurrent /\ ~Expired) \/ bound = <<session, contract>>

\* _cancel_session_permission_retries
DropRequests(s) ==
    /\ pending' = {r \in pending : asker[r] # s}
    /\ retry' = [r \in Requests |->
                     IF r \in pending /\ asker[r] = s THEN None ELSE retry[r]]
    /\ UNCHANGED <<ineligible, told>>

CancelAllRetries == retry' = [r \in Requests |-> None]

------------------------------------------------------------------------------
(* OpenCode.                                                               *)

OpenIn(s) == {r \in Requests : request[r] = "open" /\ asker[r] = s}

Ask(r) ==
    /\ busy
    /\ request[r] = "unasked" /\ \A q \in 1..(r - 1) : request[q] # "unasked"
    /\ request' = [request EXCEPT ![r] = "open"]
    /\ asker' = [asker EXCEPT ![r] = session]
    /\ events' = events \cup {<<"asked", r>>}
    /\ UNCHANGED <<busy, queue, authority, room>>

AnswerElsewhere(r) ==
    /\ "elsewhere" \in Disturbances
    /\ request[r] = "open"
    /\ request' = [request EXCEPT ![r] = "closed"]
    /\ events' = events \cup {<<"replied", r>>}
    /\ UNCHANGED <<asker, busy, queue, authority, room>>

LoseEvents ==
    /\ "lost_event" \in Disturbances
    /\ events # {}
    /\ events' = {}
    /\ UNCHANGED <<request, asker, busy, queue, authority, room>>

\* The worker's report takes the pursuit out of "working".  A blocker suspends
\* the lease; its deadline stays stored.
AfterTurn ==
    /\ busy' = FALSE
    /\ IF mode = "chat" \/ termination # "none" THEN UNCHANGED <<mode, unattended>>
       ELSE \/ mode' = "waiting" /\ UNCHANGED unattended
            \/ mode' = "needs_input" /\ unattended' = FALSE

TurnEnds ==
    /\ busy
    /\ OpenIn(session) = {}
    /\ AfterTurn
    /\ UNCHANGED <<request, asker, events, queue, yolo, bound, deadline,
                   session, contract, termination>>

\* session.error: the turn is over, what it asked for is moot.
TurnFails ==
    /\ "fails" \in Disturbances
    /\ busy
    /\ AfterTurn
    /\ request' = [r \in Requests |-> IF r \in OpenIn(session) THEN "closed" ELSE request[r]]
    /\ UNCHANGED <<asker, events, queue, yolo, bound, deadline,
                   session, contract, termination>>

------------------------------------------------------------------------------
(* Answers.                                                                *)

Outcomes == {"accepted", "stale", "failed", "lost", "refused"}

\* What reply_permission may come to for request r, as OpenCode sees it.
Possible(r, outcome) ==
    \/ outcome = "accepted" /\ request[r] = "open"
    \/ outcome = "stale" /\ request[r] # "open"
    \/ outcome = "failed" /\ "transient" \in Disturbances
    \/ outcome = "lost" /\ "lost_answer" \in Disturbances /\ request[r] = "open"
    \/ outcome = "refused" /\ "refused" \in Disturbances

\* Answers for several requests, one after the other: outcome[r] for r in S.
Answer(S, outcome, by) ==
    LET taken == {r \in S : outcome[r] \in {"accepted", "lost"}} IN
        /\ \A r \in S : Possible(r, outcome[r])
        /\ request' = [r \in Requests |-> IF r \in taken THEN by ELSE request[r]]
        /\ events' = events \cup ({"replied"} \X taken)
        /\ UNCHANGED <<asker, busy>>

Resolved(S, outcome)  == {r \in S : outcome[r] \in {"accepted", "stale"}}
Retryable(S, outcome) == {r \in S : outcome[r] \in {"failed", "lost"}}
Refused(S, outcome)   == {r \in S : outcome[r] = "refused"}

Capture(explicit) ==
    [explicit |-> explicit, pursuit |-> mode \in Pursuing, contract |-> contract]

\* _schedule_permission_retry; a task that still sleeps keeps what it captured.
Schedule(S, explicit) ==
    retry' = [r \in Requests |->
                  IF r \in S /\ retry[r] = None THEN Capture(explicit) ELSE retry[r]]

Tell(asked, retried) ==
    told' = [r \in Requests |-> IF r \in asked THEN "reply"
                                ELSE IF r \in retried THEN "retrying" ELSE told[r]]

\* Bug: the marker names an outcome instead of a reason.
StopWithOutcome ==
    /\ termination' = "deadline_reached"
    /\ UNCHANGED <<mode, session, contract>>

\* The deadline's handler: the marker, then the abort (EndTermination).
StopAtDeadline ==
    /\ termination' = "deadline"
    /\ UNCHANGED <<mode, session, contract>>

\* Requests arrive in the order they were made.
Arrives(r) ==
    /\ <<"asked", r>> \in events
    /\ \A q \in 1..(r - 1) : <<"asked", q>> \notin events

\* permission.asked and permission.updated of a session that is not the room's,
\* or of one that is being stopped, or of a request that is listed.
IgnoreAsked(r) ==
    /\ Arrives(r)
    /\ asker[r] # session \/ termination # "none" \/ r \in pending
    /\ events' = events \ {<<"asked", r>>}
    /\ UNCHANGED <<request, asker, busy, queue, authority, room>>

Fresh(r) ==
    /\ Arrives(r)
    /\ asker[r] = session /\ termination = "none" /\ r \notin pending

AskedTooLate(r) ==
    /\ Fresh(r)
    /\ mode \in Pursuing /\ Expired
    /\ pending' = pending \cup {r}
    /\ ineligible' = ineligible \ {r}
    /\ events' = events \ {<<"asked", r>>}
    /\ StopAtDeadline
    /\ UNCHANGED <<request, asker, busy, retry, told, authority>>

AskedUnderYolo(r) ==
    /\ Fresh(r)
    /\ ~(mode \in Pursuing /\ Expired)
    /\ Authorized(r)
    /\ \E outcome \in [{r} -> Outcomes] :
           LET taken == outcome[r] \in {"accepted", "lost"} IN
           /\ Possible(r, outcome[r])
           /\ request' = IF taken THEN [request EXCEPT ![r] = "auto"] ELSE request
           /\ events' = (events \ {<<"asked", r>>})
                            \cup (IF taken THEN {<<"replied", r>>} ELSE {})
           /\ pending' = (pending \cup {r}) \ Resolved({r}, outcome)
           /\ ineligible' = (ineligible \ {r}) \cup Refused({r}, outcome)
           /\ Schedule(Retryable({r}, outcome), FALSE)
           /\ Tell(Refused({r}, outcome), Retryable({r}, outcome))
    /\ UNCHANGED <<asker, busy, authority, room>>

AskedWithoutYolo(r) ==
    /\ Fresh(r)
    /\ ~(mode \in Pursuing /\ Expired)
    /\ ~Authorized(r)
    /\ pending' = pending \cup {r}
    /\ ineligible' = ineligible \ {r}
    /\ events' = events \ {<<"asked", r>>}
    /\ \/ Tell({r}, {})
       \/ "unsent" \in Disturbances /\ told' = [told EXCEPT ![r] = "unsent"]
    /\ UNCHANGED <<request, asker, busy, retry, authority, room>>

PermissionReplied(r) ==
    /\ <<"replied", r>> \in events /\ <<"asked", r>> \notin events
    /\ events' = events \ {<<"replied", r>>}
    /\ IF asker[r] = session /\ termination = "none"
       THEN /\ pending' = pending \ {r}
            /\ retry' = [retry EXCEPT ![r] = None]
       ELSE UNCHANGED <<pending, retry>>
    /\ UNCHANGED <<request, asker, busy, ineligible, told, authority, room>>

\* Bug: the retry trusts what held when it was scheduled.
StillListed(r) == yolo /\ r \in pending

\* What the retry task tests when it has slept and taken the lock.  That the room is
\* still the one it was scheduled in goes without saying: a room that !new replaced
\* lists none of the requests of its predecessor.
StillMeant(r) ==
    /\ yolo
    /\ r \in pending
    /\ IF retry[r].pursuit
       THEN /\ mode \in Pursuing
            /\ asker[r] = session
            /\ contract = retry[r].contract
            /\ termination = "none"
            /\ deadline # "passed"
            /\ retry[r].explicit \/ Authorized(r)
       ELSE mode = "chat"

RetryQuits(r) ==
    /\ retry[r] # None
    /\ ~StillMeant(r)
    /\ retry' = [retry EXCEPT ![r] = None]
    /\ UNCHANGED <<opencode, pending, ineligible, told, authority, room>>

RetryFires(r) ==
    /\ retry[r] # None
    /\ StillMeant(r)
    /\ \E outcome \in [{r} -> Outcomes] :
           /\ Answer({r}, outcome, "auto")
           /\ pending' = pending \ Resolved({r}, outcome)
           /\ ineligible' = ineligible \cup Refused({r}, outcome)
           /\ retry' = IF outcome[r] \in {"failed", "lost"} THEN retry
                       ELSE [retry EXCEPT ![r] = None]
           /\ Tell(Refused({r}, outcome), {})
    /\ UNCHANGED <<authority, room>>

------------------------------------------------------------------------------
(* The user.                                                               *)

\* command_permission: y or n, !allow or !deny.  Whatever goes wrong is shown
\* to the user, who may answer again; the retry of the request is over.
CommandPermission ==
    /\ termination = "none"
    /\ \E r \in pending :
           /\ \A q \in pending : r <= q
           /\ \E outcome \in [{r} -> Outcomes] :
                  /\ Answer({r}, outcome, "closed")
                  /\ pending' = IF outcome[r] = "accepted" THEN pending \ {r} ELSE pending
                  /\ retry' = [retry EXCEPT ![r] = None]
                  /\ Tell(IF outcome[r] = "accepted" THEN {} ELSE {r}, {})
    /\ UNCHANGED <<ineligible, authority, room>>

\* command_yolo
CommandYolo ==
    /\ pending # {}
    /\ termination = "none"
    /\ \/ /\ mode \in Pursuing /\ Expired
          /\ StopAtDeadline
          /\ UNCHANGED <<opencode, queue, authority>>
       \/ /\ ~(mode \in Pursuing /\ Expired)
          /\ yolo' = TRUE
          /\ bound' = <<session, contract>>
          /\ \E outcome \in [pending -> Outcomes] :
                 /\ Answer(pending, outcome, "closed")
                 /\ pending' = pending \ Resolved(pending, outcome)
                 /\ ineligible' = (ineligible \ pending) \cup Refused(pending, outcome)
                 /\ Schedule(Retryable(pending, outcome), TRUE)
                 /\ Tell(Refused(pending, outcome), Retryable(pending, outcome))
          /\ UNCHANGED <<unattended, deadline, room>>

\* command_yolo_setting
YoloOff ==
    /\ yolo' = FALSE
    /\ bound' = Unbound
    /\ unattended' = FALSE
    /\ CancelAllRetries
    /\ UNCHANGED <<opencode, pending, ineligible, told, deadline, room>>

------------------------------------------------------------------------------
(* What the rest of the room does to requests and authority.               *)

\* prompt: an ordinary turn.
StartTurn ==
    /\ mode = "chat" /\ termination = "none" /\ ~busy
    /\ busy' = TRUE
    /\ UNCHANGED <<request, asker, events, queue, authority, room>>

\* command_new: another RoomSession; the tasks of the old one find out later.
NewSession ==
    /\ mode = "chat" /\ termination = "none" /\ ~busy
    /\ session < MaxSession
    /\ session' = session + 1
    /\ pending' = {} /\ ineligible' = {}
    /\ yolo' = FALSE /\ bound' = Unbound
    /\ UNCHANGED <<opencode, retry, told, unattended, deadline, mode, contract,
                   termination>>

\* command_pursue
Pursue ==
    /\ mode = "chat" /\ termination = "none" /\ ~busy
    /\ mode' = "question"
    /\ UNCHANGED <<opencode, queue, authority, session, contract, termination>>

\* _select_pursuit_yolo.  While a request is listed, _dispatch takes a bare y or
\* n for its answer.
AnswerQuestion(choice) ==
    /\ mode = "question"
    /\ pending = {}
    /\ yolo' = choice
    /\ bound' = Unbound
    /\ mode' = "extent"
    /\ UNCHANGED <<opencode, queue, unattended, deadline, session, contract,
                   termination>>

\* _select_pursuit_extent: a drafter's session.  It has no tools that ask.
SelectExtent ==
    /\ mode = "extent" /\ termination = "none"
    /\ session < MaxSession
    /\ session' = session + 1
    /\ mode' = "waiting"
    /\ UNCHANGED <<opencode, queue, authority, contract, termination>>

\* _approve_contract.  A contract is known by the session that first works on it.
Approve ==
    /\ mode = "waiting" /\ termination = "none"
    /\ session < MaxSession
    /\ DropRequests(session)
    /\ session' = session + 1
    /\ contract' = session + 1
    /\ unattended' \in {FALSE, yolo}
    /\ deadline' = IF unattended' THEN "ahead" ELSE "none"
    /\ bound' = IF unattended' THEN <<session + 1, session + 1>> ELSE bound
    /\ mode' = "working"
    /\ busy' = TRUE
    /\ UNCHANGED <<request, asker, events, yolo, termination>>

\* _request_contract_revision
Revise ==
    /\ mode \in {"waiting", "needs_input"} /\ termination = "none"
    /\ session < MaxSession
    /\ DropRequests(session)
    /\ session' = session + 1
    /\ contract' = 0
    /\ unattended' = FALSE
    /\ deadline' = "none"
    /\ mode' = "waiting"
    /\ UNCHANGED <<opencode, yolo, bound, termination>>

\* _submit_worker after failed checks.
Continue ==
    /\ mode = "waiting" /\ termination = "none"
    /\ contract # 0 /\ ~Expired
    /\ mode' = "working"
    /\ busy' = TRUE
    /\ UNCHANGED <<request, asker, events, queue, authority, session, contract,
                   termination>>

\* A fresh worker session: _auto_renew_pursuit_budget and `continue` at a quota,
\* _rotate_pursuit_session_after_recovery of a worker that waits for no answer.
Rotate ==
    /\ contract # 0 /\ termination = "none" /\ ~Expired
    /\ \/ mode = "waiting"
       \/ mode = "working" /\ \A r \in pending : asker[r] # session
    /\ session < MaxSession
    /\ DropRequests(session)
    /\ session' = session + 1
    /\ bound' = IF LeaseCurrent THEN <<session + 1, contract>> ELSE bound
    /\ mode' = "working"
    /\ busy' = TRUE
    /\ request' = [r \in Requests |-> IF r \in OpenIn(session) THEN "closed" ELSE request[r]]
    /\ UNCHANGED <<asker, events, yolo, unattended, deadline, contract, termination>>

DeadlinePasses ==
    /\ deadline = "ahead"
    /\ deadline' = "passed"
    /\ UNCHANGED <<opencode, queue, yolo, bound, unattended, room>>

\* The deadline's task and the watchdog stop a worker.
DeadlineNoticed ==
    /\ mode = "working" /\ Expired /\ termination = "none"
    /\ StopAtDeadline
    /\ UNCHANGED <<opencode, queue, authority>>

\* _interrupt_worker_for_budget, up to the abort.
BudgetExhausted ==
    /\ mode = "working" /\ termination = "none" /\ ~Expired
    /\ termination' = "budget"
    /\ UNCHANGED <<opencode, queue, authority, mode, session, contract>>

\* command_stop, up to the abort.
CommandStop ==
    /\ termination # "stop"
    /\ CancelAllRetries
    /\ unattended' = FALSE
    /\ termination' = "stop"
    /\ UNCHANGED <<opencode, pending, ineligible, told, yolo, bound, deadline,
                   mode, session, contract>>

\* OpenCode confirms that nothing runs any more: the rest of command_stop, of
\* _interrupt_worker_for_budget, and of _handle_unattended_deadline.
EndTermination ==
    /\ termination # "none"
    /\ DropRequests(session)
    /\ busy' = FALSE
    /\ request' = [r \in Requests |-> IF r \in OpenIn(session) THEN "closed" ELSE request[r]]
    /\ termination' = "none"
    /\ IF termination = "stop"
       THEN mode' = "chat" /\ contract' = 0 /\ unattended' = FALSE /\ deadline' = "none"
       ELSE mode' = "waiting" /\ UNCHANGED <<contract, unattended, deadline>>
    /\ UNCHANGED <<asker, events, yolo, bound, session>>

\* _finish_pursuit
EndPursuit ==
    /\ mode = "waiting" /\ termination = "none"
    /\ CancelAllRetries
    /\ pending' = {r \in pending : asker[r] # session}
    /\ mode' = "chat"
    /\ contract' = 0
    /\ unattended' = FALSE
    /\ deadline' = "none"
    /\ UNCHANGED <<opencode, ineligible, told, yolo, bound, session, termination>>

\* Bug: retry tasks are not taken up again.
RestartWithoutRetries ==
    /\ "crash" \in Disturbances
    /\ events' = {}
    /\ CancelAllRetries
    /\ UNCHANGED <<request, asker, busy, pending, ineligible, told, authority, room>>

\* The process dies and is started again: events are gone, and resume_pursuits
\* schedules the answers that YOLO still covers.
Restart ==
    /\ "crash" \in Disturbances
    /\ events' = {}
    /\ retry' = [r \in Requests |->
                     IF /\ r \in pending \ ineligible
                        /\ termination = "none"
                        /\ Authorized(r)
                     THEN Capture(FALSE) ELSE None]
    /\ UNCHANGED <<request, asker, busy, pending, ineligible, told, authority, room>>

------------------------------------------------------------------------------

Init ==
    /\ request = [r \in Requests |-> "unasked"] /\ asker = [r \in Requests |-> 0]
    /\ busy = FALSE /\ events = {}
    /\ pending = {} /\ ineligible = {}
    /\ retry = [r \in Requests |-> None] /\ told = [r \in Requests |-> "nothing"]
    /\ mode = "chat" /\ session = 1 /\ contract = 0
    /\ yolo = FALSE /\ bound = Unbound
    /\ unattended = FALSE /\ deadline = "none"
    /\ termination = "none"

OpenCode ==
    \/ LoseEvents \/ TurnEnds \/ TurnFails
    \/ \E r \in Requests : Ask(r) \/ AnswerElsewhere(r)

Deliver(r) ==
    \/ IgnoreAsked(r) \/ AskedTooLate(r) \/ AskedUnderYolo(r) \/ AskedWithoutYolo(r)
    \/ PermissionReplied(r)

Retrying(r) == RetryFires(r) \/ RetryQuits(r)

User ==
    \/ \E choice \in BOOLEAN : AnswerQuestion(choice)
    \/ CommandPermission \/ CommandYolo \/ YoloOff
    \/ StartTurn \/ NewSession \/ Pursue \/ SelectExtent
    \/ Approve \/ Revise \/ Continue \/ CommandStop

Controller ==
    \/ Rotate \/ DeadlinePasses \/ DeadlineNoticed \/ BudgetExhausted
    \/ EndTermination \/ EndPursuit \/ Restart

Next == OpenCode \/ (\E r \in Requests : Deliver(r) \/ Retrying(r)) \/ User \/ Controller

Spec == Init /\ [][Next]_vars

------------------------------------------------------------------------------
(* Properties.                                                             *)

\* YOLO covers a request of the session at work: in a chat, or for the worker of the
\* contract under a lease or the authorization of both, before the deadline.
Covered(r) ==
    /\ yolo /\ asker[r] = session /\ termination = "none"
    /\ \/ mode = "chat"
       \/ /\ mode = "working"
          /\ ~Expired
          /\ LeaseCurrent \/ bound = <<session, contract>>

\* What the bot approves by itself - at once, or in a retry that slept while the
\* room changed - YOLO covers at that moment, and not while a stop is pending
\* (README.md:218-240, PURSUE_PHILOSOPHY.md:179).
AutoApprovalIsCovered ==
    [][ \A r \in Requests :
            (request[r] = "open" /\ request'[r] = "auto") => Covered(r) ]_vars

\* A turn that waits for an answer the bot knows of waits for someone: the user
\* was asked for it and not told otherwise (if the question got through), or the
\* answer is being retried, or the turn is about to be stopped.  The retry of an
\* answer is given up without a word when the user revokes YOLO, and when the
\* stored deadline has passed.
NotForgotten ==
    \A r \in pending :
        (request[r] = "open" /\ asker[r] = session /\ told[r] # "unsent")
            => \/ told[r] = "reply"
               \/ retry[r] # None
               \/ termination # "none"
               \/ told[r] = "retrying" /\ (~yolo \/ deadline = "passed")
=============================================================================
