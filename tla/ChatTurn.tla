------------------------------ MODULE ChatTurn ------------------------------
(***************************************************************************)
(* The ordinary turns of one room: a message becomes a turn of OpenCode,   *)
(* and the bot's progress message becomes the answer once it learns that   *)
(* the turn is over - from the event stream, or from the watchdog, which   *)
(* asks.  The watchdog and the user's `!bump` interrupt a turn that shows  *)
(* no activity and continue it; `!stop` ends it.                           *)
(*                                                                         *)
(* A handler holds the room's lock and gives it up to nobody, but OpenCode *)
(* works on while the handler awaits: `pc' is the request it is about to   *)
(* make after it saved the room.                                           *)
(***************************************************************************)
EXTENDS Naturals, Sequences

CONSTANTS
    MaxTurn,        \* bound: progress messages, each of which stands for a turn
    Disturbances    \* what may go wrong

\* fails: a turn ends in an error; hangs: it shows no activity; stale_busy: its
\* session stays "busy" after it; lost_event: the connection is lost with events;
\* unreachable: a request raises, an abort perhaps after it took effect; refused:
\* an abort is; rejected, lost_answer: a prompt raises without and with a turn;
\* unsent: Matrix refuses the progress message; crash: the bot's; late: an error
\* event of a turn is still under way when the bot has learned its end otherwise.
ASSUME ChatAssumption ==
    /\ MaxTurn \in Nat \ {0}
    /\ Disturbances \subseteq
           {"fails", "hangs", "stale_busy", "lost_event", "unreachable", "refused",
            "rejected", "lost_answer", "unsent", "crash", "late"}

Turns == 1..MaxTurn

VARIABLES
    turn,         \* OpenCode: what became of each turn
    staleBusy,    \* OpenCode: its status is "busy" although no turn runs
    events,       \* of the event stream, under way to the bot
    last,         \* the last turn whose progress message was sent
    inFlight,     \* in_flight_event_id: the turn it stands for, or 0
    recovering,   \* watchdog_recovery_pending
    bumped,       \* manual_bump_pending
    confirmable,  \* bump_confirmation_*: `!bump confirm` would be accepted
    stopping,     \* pursuit_termination_reason = "stop"
    pc            \* the request the handler that holds the lock makes next

opencode == <<turn, staleBusy, events>>
room     == <<inFlight, recovering, bumped, confirmable, stopping>>
vars     == <<opencode, last, room, pc>>

Unstarted == "unstarted"
\* "orphan": its prompt failed for the bot, but not for OpenCode
Going     == {"running", "hung", "orphan"}
Over      == {"finished", "failed", "aborted"}

TypeOK ==
    /\ turn \in [Turns -> {Unstarted} \cup Going \cup Over]
    /\ staleBusy \in BOOLEAN
    /\ events \in Seq({"idle", "error"}) /\ Len(events) <= 2 * MaxTurn
    /\ last \in 0..MaxTurn /\ inFlight \in {0, last}
    /\ recovering \in BOOLEAN /\ stopping \in BOOLEAN
    /\ bumped \in BOOLEAN /\ confirmable \in BOOLEAN
    /\ (bumped \/ confirmable) => inFlight # 0
    /\ pc \in {"none", "continue", "prompt", "interrupt", "bump", "stop"}

Goes(t) == turn[t] \in Going

\* _status: the type is "idle"
Idle == ~staleBusy /\ \A t \in Turns : ~Goes(t)

------------------------------------------------------------------------------
(* OpenCode.                                                               *)

\* Unless events are late, those of earlier turns have come by then.
EmitError ==
    events' = (IF "late" \in Disturbances THEN events ELSE <<>>) \o <<"error", "idle">>

Ends(t, how) ==
    /\ Goes(t)
    /\ turn' = [turn EXCEPT ![t] = how]
    /\ UNCHANGED <<last, room, pc>>

\* A hung turn may still finish, while it is being interrupted too.
TurnFinishes(t) ==
    /\ Ends(t, "finished")
    /\ events' = Append(events, "idle")
    /\ staleBusy' = FALSE \/ ("stale_busy" \in Disturbances /\ staleBusy' = TRUE)

TurnFails(t) ==
    /\ "fails" \in Disturbances
    /\ Ends(t, "failed")
    /\ EmitError
    /\ UNCHANGED staleBusy

\* The last turn of the bound does not, so that its continuation is within it.
TurnHangs(t) ==
    /\ "hangs" \in Disturbances
    /\ turn[t] = "running" /\ t # MaxTurn
    /\ turn' = [turn EXCEPT ![t] = "hung"]
    /\ UNCHANGED <<staleBusy, events, last, room, pc>>

\* Any event but an idle one: the confirmation of a bump expires.
Activity(t) ==
    /\ turn[t] = "running" /\ pc = "none"
    /\ confirmable
    /\ confirmable' = FALSE
    /\ UNCHANGED <<opencode, last, inFlight, recovering, bumped, stopping, pc>>

LoseEvents ==
    /\ "lost_event" \in Disturbances
    /\ events # <<>>
    /\ events' = <<>>
    /\ UNCHANGED <<turn, staleBusy, last, room, pc>>

\* The answer to an abort: it stops what runs and clears a stale status.
AbortTakesEffect ==
    /\ turn' = [t \in Turns |-> IF Goes(t) THEN "aborted" ELSE turn[t]]
    /\ staleBusy' = FALSE
    /\ IF \E t \in Turns : Goes(t) THEN EmitError ELSE UNCHANGED events

AbortRefused == "refused" \in Disturbances /\ UNCHANGED opencode

AbortRaises ==
    /\ "unreachable" \in Disturbances
    /\ UNCHANGED opencode \/ AbortTakesEffect

\* A handler meets the errors of ended turns before it learns their end otherwise.
ErrorsArrived ==
    "late" \in Disturbances \/ \A i \in DOMAIN events : events[i] # "error"

------------------------------------------------------------------------------
(* Ends of turns.                                                          *)

\* Bug: a bump outlives its turn.
FinalizeKeepsBump ==
    /\ inFlight' = 0
    /\ confirmable' = FALSE /\ UNCHANGED bumped

\* finalize, _clear_in_flight
Finalize ==
    /\ inFlight' = 0
    /\ bumped' = FALSE /\ confirmable' = FALSE

\* _complete_idle: the session is idle.  A turn that was interrupted is continued
\* by a new one, any other is answered.  Nothing runs that was not answered for.
CompleteIdle ==
    /\ Finalize
    /\ recovering' = FALSE
    /\ pc' = IF recovering \/ bumped THEN "continue" ELSE "none"
    /\ UNCHANGED stopping

\* Bug: the recovery of the turn outlives the stop.
FinishStopKeepsRecovery ==
    /\ Finalize
    /\ stopping' = FALSE /\ UNCHANGED recovering
    /\ pc' = "none"

\* _finish_stop_after_termination
FinishStop ==
    /\ Finalize
    /\ recovering' = FALSE /\ stopping' = FALSE
    /\ pc' = "none"

\* Bug: a stop that is pending is left to the next `!stop`.
StopIsLeft == UNCHANGED <<inFlight, recovering, bumped, stopping, pc>>

\* _resume_pending_termination: the handler turns to the stop that is pending
ResumeStop == pc' = "stop" /\ UNCHANGED <<inFlight, recovering, bumped, stopping>>

------------------------------------------------------------------------------
(* A message of the user.                                                  *)

\* _submit_prompt, up to the save: the room has a turn before OpenCode does
SendProgress ==
    \/ /\ inFlight' = last + 1 /\ last' = last + 1
       /\ confirmable' = FALSE
       /\ pc' = "prompt"
    \/ /\ "unsent" \in Disturbances
       /\ pc' = "none"
       /\ UNCHANGED <<inFlight, last, confirmable>>

\* Bug: the status of the session is not asked for.
PromptUnlessInFlight ==
    /\ pc = "none" /\ inFlight = 0 /\ last < MaxTurn
    /\ recovering' = FALSE
    /\ SendProgress
    /\ UNCHANGED <<opencode, bumped, stopping>>

\* prompt; nothing asks whether a stop is pending
Prompt ==
    /\ pc = "none" /\ last < MaxTurn
    /\ inFlight = 0 /\ Idle /\ ErrorsArrived
    /\ recovering' = FALSE
    /\ SendProgress
    /\ UNCHANGED <<opencode, bumped, stopping>>

\* _complete_idle goes on to _submit_prompt: the old turn is finalized and saved
Continue ==
    /\ pc = "continue"
    /\ SendProgress
    /\ UNCHANGED <<opencode, recovering, bumped, stopping>>

Submit ==
    /\ pc = "prompt"
    /\ pc' = "none"
    /\ \/ /\ turn' = [turn EXCEPT ![inFlight] = "running"]
          /\ staleBusy' = FALSE
          /\ UNCHANGED <<inFlight, bumped, confirmable>>
       \/ /\ "rejected" \in Disturbances
          /\ Finalize
          /\ UNCHANGED <<turn, staleBusy>>
       \/ /\ "lost_answer" \in Disturbances
          /\ turn' = [turn EXCEPT ![inFlight] = "orphan"]
          /\ staleBusy' = FALSE
          /\ Finalize
    /\ UNCHANGED <<events, last, recovering, stopping>>

------------------------------------------------------------------------------
(* Events.                                                                 *)

\* Bug: an idle event is believed.
HandleIdleTrusting ==
    IF stopping THEN ResumeStop /\ UNCHANGED confirmable
    ELSE IF inFlight # 0 THEN CompleteIdle ELSE UNCHANGED <<room, pc>>

\* session.idle: it may be of a turn before the one in flight, so the status decides
HandleIdle ==
    IF stopping THEN ResumeStop /\ UNCHANGED confirmable
    ELSE \/ inFlight # 0 /\ Idle /\ CompleteIdle
         \/ /\ inFlight = 0 \/ ~Idle \/ "unreachable" \in Disturbances
            /\ UNCHANGED <<room, pc>>

\* session.error: the status is not asked for
HandleError ==
    /\ confirmable' = FALSE
    /\ IF stopping THEN ResumeStop
       ELSE /\ IF inFlight # 0 /\ ~recovering /\ ~bumped
                  THEN inFlight' = 0
                  ELSE UNCHANGED inFlight
            /\ UNCHANGED <<recovering, bumped, stopping, pc>>

Deliver ==
    /\ pc = "none" /\ events # <<>>
    /\ events' = Tail(events)
    /\ IF Head(events) = "idle" THEN HandleIdle ELSE HandleError
    /\ UNCHANGED <<turn, staleBusy, last>>

------------------------------------------------------------------------------
(* The watchdog, every 30 seconds.                                         *)

\* The turn's answer has a time of completion, although the status is "busy".
CompletedUnder(t) == t # 0 /\ turn[t] = "finished"

\* Bug: idle sessions are left to the event stream.
WatchdogCompletesStale == ~Idle /\ CompletedUnder(inFlight) /\ AbortTakesEffect

WatchdogCompletes ==
    \/ Idle /\ UNCHANGED opencode
    \/ ~Idle /\ CompletedUnder(inFlight) /\ AbortTakesEffect

\* A hung turn is past the timeout; one whose interrupt failed is due at once.
WatchdogInterrupts ==
    /\ ~Idle /\ ~CompletedUnder(inFlight)
    /\ recovering \/ turn[inFlight] = "hung"
    /\ recovering' = TRUE
    /\ confirmable' = FALSE
    /\ pc' = "interrupt"

Watchdog ==
    /\ pc = "none" /\ ErrorsArrived
    /\ \/ stopping /\ ResumeStop /\ UNCHANGED <<opencode, confirmable>>
       \/ /\ ~stopping /\ inFlight # 0
          /\ \/ WatchdogCompletes /\ CompleteIdle
             \/ WatchdogInterrupts /\ UNCHANGED <<opencode, inFlight, bumped, stopping>>
    /\ UNCHANGED last

\* Whatever becomes of the abort, the recovery stays pending until the session is idle.
Interrupt ==
    /\ pc = "interrupt"
    /\ AbortTakesEffect \/ AbortRefused \/ AbortRaises
    /\ pc' = "none"
    /\ UNCHANGED <<last, room>>

------------------------------------------------------------------------------
(* !bump.                                                                  *)

\* _complete_idle, on behalf of `!bump` and `!bump confirm`: no stop is looked for
AlreadyFinished == Idle /\ ErrorsArrived /\ CompleteIdle

CommandBump ==
    /\ pc = "none" /\ inFlight # 0 /\ ~bumped
    /\ \/ AlreadyFinished
       \/ /\ ~Idle
          /\ confirmable' = TRUE
          /\ UNCHANGED <<inFlight, recovering, bumped, stopping, pc>>
    /\ UNCHANGED <<opencode, last>>

BumpCancel ==
    /\ pc = "none" /\ confirmable
    /\ confirmable' = FALSE
    /\ UNCHANGED <<opencode, last, inFlight, recovering, bumped, stopping, pc>>

\* Within the bound: the continuation is a turn of its own.
BumpConfirm ==
    /\ pc = "none" /\ confirmable /\ ~bumped
    /\ last < MaxTurn
    /\ \/ AlreadyFinished
       \/ /\ ~Idle
          /\ bumped' = TRUE /\ confirmable' = FALSE
          /\ pc' = "bump"
          /\ UNCHANGED <<inFlight, recovering, stopping>>
    /\ UNCHANGED <<opencode, last>>

\* If the abort raises, the bump stays pending: it was saved.
BumpAbort ==
    /\ pc = "bump"
    /\ \/ AbortTakesEffect /\ UNCHANGED bumped
       \/ AbortRefused /\ bumped' = FALSE
       \/ AbortRaises /\ UNCHANGED bumped
    /\ pc' = "none"
    /\ UNCHANGED <<last, inFlight, recovering, confirmable, stopping>>

------------------------------------------------------------------------------
(* !stop, !new and restarts.                                               *)

\* The stop is saved before OpenCode is asked.
CommandStop ==
    /\ pc = "none"
    /\ stopping' = TRUE
    /\ pc' = "stop"
    /\ UNCHANGED <<opencode, last, inFlight, recovering, bumped, confirmable>>

\* _confirm_session_stopped: aborted or idle; after three attempts it stays pending
StopAttempt ==
    /\ pc = "stop"
    /\ \/ (AbortTakesEffect \/ (Idle /\ UNCHANGED opencode)) /\ FinishStop
       \/ /\ ~Idle \/ "unreachable" \in Disturbances
          /\ AbortRefused \/ AbortRaises
          /\ pc' = "none"
          /\ UNCHANGED room
    /\ UNCHANGED last

\* !new and !reset: events of the old session no longer find the room
CommandNew ==
    /\ pc = "none" /\ inFlight = 0 /\ Idle
    /\ events' = <<>>
    /\ recovering' = FALSE /\ stopping' = FALSE
    /\ UNCHANGED <<turn, staleBusy, last, inFlight, bumped, confirmable, pc>>

\* The process ends, and a new one reads the saved room: validate_restored_state.
Restart ==
    /\ "crash" \in Disturbances
    /\ events' = <<>>
    /\ \/ /\ stopping /\ ResumeStop /\ confirmable' = FALSE
       \/ /\ ~stopping /\ inFlight # 0 /\ Idle /\ CompleteIdle
       \/ /\ ~stopping /\ (inFlight = 0 \/ ~Idle \/ "unreachable" \in Disturbances)
          /\ confirmable' = FALSE /\ pc' = "none"
          /\ UNCHANGED <<inFlight, recovering, bumped, stopping>>
    /\ UNCHANGED <<turn, staleBusy, last>>

------------------------------------------------------------------------------
Init ==
    /\ turn = [t \in Turns |-> Unstarted]
    /\ staleBusy = FALSE /\ events = <<>>
    /\ last = 0 /\ inFlight = 0
    /\ recovering = FALSE /\ bumped = FALSE /\ confirmable = FALSE
    /\ stopping = FALSE
    /\ pc = "none"

OpenCode ==
    \/ \E t \in Turns : TurnFinishes(t) \/ TurnFails(t) \/ TurnHangs(t) \/ Activity(t)
    \/ LoseEvents

User ==
    \/ Prompt \/ CommandBump \/ BumpCancel \/ BumpConfirm \/ CommandStop \/ CommandNew

Bot ==
    \/ Continue \/ Submit \/ Deliver \/ Watchdog \/ Interrupt \/ BumpAbort \/ StopAttempt
    \/ Restart

Next == OpenCode \/ User \/ Bot

Spec == Init /\ [][Next]_vars

\* A turn that does not hang ends.  The handlers go on, the watchdog comes round
\* again and again, and neither crashes nor OpenCode frustrate every attempt.
Fairness ==
    /\ \A t \in Turns : WF_vars(turn[t] # "hung" /\ TurnFinishes(t))
    /\ WF_vars(Continue) /\ WF_vars(Submit)
    /\ SF_vars(Deliver) /\ SF_vars(Watchdog)
    /\ SF_vars(Interrupt /\ AbortTakesEffect)
    /\ SF_vars(BumpAbort)
    /\ SF_vars(StopAttempt /\ FinishStop)

FairSpec == Spec /\ Fairness

------------------------------------------------------------------------------
(* Properties.                                                             *)

\* "One prompt at a time is accepted per room" (README.md:152): whatever OpenCode
\* and the bot missed of each other, no turn is submitted while one is going.
OnePromptAtATime ==
    [][ \A t \in Turns : (turn[t] = Unstarted /\ Goes(t)') => Idle ]_vars

\* A turn the bot has submitted and that goes on has a progress message which its
\* answer will replace; without one nobody would deliver the answer, find the turn
\* hanging or bump it.  bot.py:4209-4210 claims as much of stale idle events: "Confirm
\* current server state before finalizing the current turn".
EveryTurnIsWatched ==
    \A t \in Turns : turn[t] \in {"running", "hung"} => inFlight = t

\* When a stop is reported as done, nothing goes on, and nothing is left that
\* would continue the turn.
StopIsComplete ==
    [][ (stopping /\ ~stopping') =>
            /\ Idle'
            /\ inFlight' = 0 /\ ~recovering' /\ ~bumped' ]_vars

\* Each progress message is replaced by an answer, although events are lost, aborts
\* fail, the status of a finished turn stays busy, and the bot restarts
\* (README.md:302-315, 339-343).
TurnIsAnswered == \A t \in Turns : (inFlight = t) ~> (inFlight # t)

\* A stop comes to its end, whatever it takes.
StopEnds == stopping ~> ~stopping
=============================================================================
