------------------------- MODULE PermissionQueueProofs -------------------------
(***************************************************************************)
(* Theorems about PermissionQueue, for any number of requests and sessions *)
(* and every set of disturbances: the types, and that what the bot         *)
(* approves by itself is covered by what the user has granted.             *)
(*                                                                         *)
(* A retry sleeps without the lock, and what StillMeant asks when it       *)
(* wakes is less than YOLO as a whole.  That it is enough needs two facts: *)
(* OpenCode waits for an answer in the session at work only (OpenIsBusy),  *)
(* so an old session's retry answers nobody; and a retry the user asked    *)
(* for lives no longer than the binding of YOLO it was asked under         *)
(* (ExplicitIsBound, TerminationFits).                                     *)
(***************************************************************************)
EXTENDS PermissionQueue, TLAPS

\* What the following lemmas need to know of the types.
Shape ==
    /\ request \in [Requests -> {"unasked", "open", "closed", "auto"}]
    /\ asker \in [Requests -> 0..MaxSession]
    /\ retry \in [Requests -> Captured \cup {None}]
    /\ pending \subseteq Requests
    /\ session \in 1..MaxSession

\* Only a turn that runs waits for an answer, and only chats and workers run turns.
OpenIsBusy ==
    /\ \A r \in Requests : request[r] = "open" => asker[r] = session /\ busy
    /\ busy => mode \in {"chat", "working"}

SessionsAreNew == \A r \in Requests : asker[r] <= session

\* A request is asked for once, and before that nobody knows it.
AskedOnce ==
    \A r \in Requests :
        /\ request[r] = "unasked" => <<"asked", r>> \notin events
        /\ (request[r] = "unasked" \/ <<"asked", r>> \in events)
              => r \notin pending /\ retry[r] = None

\* A stop leaves no retry; what else is terminated is a pursuit.
TerminationFits ==
    /\ termination = "stop" => \A r \in Requests : retry[r] = None
    /\ termination \in {"deadline", "budget"} => mode \in Pursuing

\* An answer the user asked to be retried has bound YOLO to session and contract, and
\* nothing unbinds it but what drops the request or the retry.
ExplicitIsBound ==
    \A r \in pending :
        (retry[r] # None /\ retry[r].explicit /\ asker[r] = session)
            => bound = <<session, contract>>

QueueInv == OpenIsBusy /\ SessionsAreNew /\ AskedOnce /\ TerminationFits /\ ExplicitIsBound

\* An answer asks for nothing.
LEMMA AnswerAsksNothing ==
  ASSUME Shape, NEW S, S \subseteq Requests, NEW outcome, NEW by \in {"closed", "auto"},
         Answer(S, outcome, by), NEW r \in Requests
  PROVE  /\ request'[r] \in {"unasked", "open"} => request'[r] = request[r]
         /\ <<"asked", r>> \in events' => <<"asked", r>> \in events
<1>1. request'[r] \in {request[r], by}
  BY DEF Shape, Answer
<1>2. <<"asked", r>> \in events' => <<"asked", r>> \in events
  BY DEF Answer
<1>3. QED
  BY <1>1, <1>2

\* An answer is waited for in the session at work.
LEMMA OpenNext ==
  ASSUME Shape, OpenIsBusy, AskedOnce, [Next]_vars
  PROVE  OpenIsBusy'
<1> USE DEF Shape, OpenIsBusy, Pursuing, OpenIn, vars, opencode, queue, authority,
            room
<1>1. CASE \E r \in Requests : Ask(r)
  BY <1>1 DEF Ask
<1>2. CASE LoseEvents
  BY <1>2 DEF LoseEvents
<1>3. CASE TurnEnds \/ TurnFails
  BY <1>3 DEF TurnEnds, AfterTurn, TurnFails
<1>4. CASE \E r \in Requests : AnswerElsewhere(r)
  BY <1>4 DEF AnswerElsewhere
<1>5. CASE \E r \in Requests : \/ IgnoreAsked(r) \/ AskedTooLate(r)
                             \/ AskedWithoutYolo(r) \/ PermissionReplied(r)
  BY <1>5 DEF IgnoreAsked, Arrives, AskedTooLate, Fresh, StopAtDeadline,
     AskedWithoutYolo, Tell, PermissionReplied
<1>6. CASE \E r \in Requests : AskedUnderYolo(r)
  BY <1>6 DEF AskedUnderYolo, Fresh, Arrives, Schedule, Tell, Resolved, Retryable,
     Refused, Capture
<1>7. CASE \E r \in Requests : RetryFires(r)
  BY <1>7 DEF RetryFires, Answer, Resolved, Refused, Tell
<1>8. CASE \E r \in Requests : RetryQuits(r)
  BY <1>8 DEF RetryQuits
<1>9. CASE CommandPermission
  <2>0. PICK r \in Requests : \E outcome :
               /\ Answer({r}, outcome, "closed")
               /\ UNCHANGED <<asker, busy, mode, session>>
    BY <1>9 DEF CommandPermission, Answer
  <2>1. PICK outcome :
               /\ Answer({r}, outcome, "closed")
               /\ UNCHANGED <<asker, busy, mode, session>>
    BY <2>0
  <2>2. \A q \in Requests : request'[q] = "open" => request[q] = "open"
    BY <2>1, AnswerAsksNothing
  <2>3. QED
    BY <2>1, <2>2
<1>10. CASE CommandYolo
  BY <1>10 DEF CommandYolo, StopAtDeadline, Answer, Schedule, Tell, Resolved,
     Retryable, Refused, Capture
<1>11. CASE NewSession \/ SelectExtent
  BY <1>11 DEF NewSession, SelectExtent
<1>12. CASE Approve
  <2>1. /\ session' = session + 1 /\ session < MaxSession
        /\ mode' = "working" /\ busy' = TRUE
        /\ UNCHANGED <<request, asker, events>>
        /\ mode = "waiting"
        /\ pending' = {r \in pending : asker[r] # session}
    BY <1>12, Zenon DEF Approve, DropRequests
  <2>2. QED
    BY <2>1
<1>13. CASE Revise
  BY <1>13 DEF Revise, DropRequests
<1>14. CASE Rotate
  BY <1>14 DEF Rotate, DropRequests
<1>15. CASE YoloOff \/ CommandStop \/ EndTermination \/ EndPursuit \/ Restart
  BY <1>15 DEF YoloOff, CancelAllRetries, CommandStop, EndTermination, DropRequests,
     EndPursuit, Restart, Capture
<1>16. CASE \/ StartTurn \/ Pursue \/ Continue
         \/ DeadlinePasses \/ DeadlineNoticed \/ BudgetExhausted
         \/ \E choice \in BOOLEAN : AnswerQuestion(choice)
  BY <1>16 DEF AnswerQuestion, StartTurn, Pursue, Continue, DeadlinePasses,
     DeadlineNoticed, StopAtDeadline, BudgetExhausted
<1>17. CASE UNCHANGED vars
  BY <1>17 DEF vars
<1>18. QED
  BY <1>1, <1>2, <1>3, <1>4, <1>5, <1>6, <1>7, <1>8, <1>9, <1>10, <1>11,
            <1>12, <1>13, <1>14, <1>15, <1>16, <1>17 DEF Next, OpenCode, Deliver, Retrying,
     User, Controller

\* Sessions are numbered as they come.
LEMMA SessionsNext ==
  ASSUME Shape, SessionsAreNew, [Next]_vars
  PROVE  SessionsAreNew'
<1> USE QueueAssumption DEF Shape, SessionsAreNew, vars, opencode, queue, authority,
            room
<1>1. CASE \E r \in Requests : Ask(r)
  BY <1>1 DEF Ask
<1>2. CASE LoseEvents
  BY <1>2 DEF LoseEvents
<1>3. CASE TurnEnds \/ TurnFails
  BY <1>3 DEF TurnEnds, AfterTurn, TurnFails
<1>4. CASE \E r \in Requests : AnswerElsewhere(r)
  BY <1>4 DEF AnswerElsewhere
<1>5. CASE \E r \in Requests : \/ IgnoreAsked(r) \/ AskedTooLate(r)
                             \/ AskedWithoutYolo(r) \/ PermissionReplied(r)
  BY <1>5 DEF IgnoreAsked, Arrives, AskedTooLate, Fresh, StopAtDeadline,
     AskedWithoutYolo, Tell, PermissionReplied
<1>6. CASE \E r \in Requests : AskedUnderYolo(r)
  BY <1>6 DEF AskedUnderYolo, Fresh, Arrives, Schedule, Tell, Resolved, Retryable,
     Refused, Capture
<1>7. CASE \E r \in Requests : RetryFires(r)
  BY <1>7 DEF RetryFires, Answer, Resolved, Refused, Tell
<1>8. CASE \E r \in Requests : RetryQuits(r)
  BY <1>8 DEF RetryQuits
<1>9. CASE CommandPermission
  <2>1. UNCHANGED <<asker, session>>
    BY <1>9 DEF CommandPermission, Answer
  <2>2. QED
    BY <2>1
<1>10. CASE CommandYolo
  BY <1>10 DEF CommandYolo, StopAtDeadline, Answer, Schedule, Tell, Resolved,
     Retryable, Refused, Capture
<1>11. CASE NewSession \/ SelectExtent
  BY <1>11 DEF NewSession, SelectExtent
<1>12. CASE Approve
  <2>1. /\ session' = session + 1 /\ session < MaxSession
        /\ mode' = "working" /\ busy' = TRUE
        /\ UNCHANGED <<request, asker, events>>
        /\ mode = "waiting"
        /\ pending' = {r \in pending : asker[r] # session}
    BY <1>12, Zenon DEF Approve, DropRequests
  <2>2. QED
    BY <2>1
<1>13. CASE Revise
  BY <1>13 DEF Revise, DropRequests
<1>14. CASE Rotate
  BY <1>14 DEF Rotate, DropRequests
<1>15. CASE YoloOff \/ CommandStop \/ EndTermination \/ EndPursuit \/ Restart
  BY <1>15 DEF YoloOff, CancelAllRetries, CommandStop, EndTermination, DropRequests,
     EndPursuit, Restart, Capture
<1>16. CASE \/ StartTurn \/ Pursue \/ Continue
         \/ DeadlinePasses \/ DeadlineNoticed \/ BudgetExhausted
         \/ \E choice \in BOOLEAN : AnswerQuestion(choice)
  BY <1>16 DEF AnswerQuestion, StartTurn, Pursue, Continue, DeadlinePasses,
     DeadlineNoticed, StopAtDeadline, BudgetExhausted
<1>17. CASE UNCHANGED vars
  BY <1>17 DEF vars
<1>18. QED
  BY <1>1, <1>2, <1>3, <1>4, <1>5, <1>6, <1>7, <1>8, <1>9, <1>10, <1>11,
            <1>12, <1>13, <1>14, <1>15, <1>16, <1>17 DEF Next, OpenCode, Deliver, Retrying,
     User, Controller

\* An event of a request comes once.
LEMMA AskedNext ==
  ASSUME Shape, AskedOnce, [Next]_vars
  PROVE  AskedOnce'
<1> USE DEF Shape, AskedOnce, vars, opencode, queue, authority, room
<1>1. CASE \E r \in Requests : Ask(r)
  BY <1>1 DEF Ask
<1>2. CASE LoseEvents
  BY <1>2 DEF LoseEvents
<1>3. CASE TurnEnds \/ TurnFails
  BY <1>3 DEF TurnEnds, AfterTurn, TurnFails
<1>4. CASE \E r \in Requests : AnswerElsewhere(r)
  BY <1>4 DEF AnswerElsewhere
<1>5. CASE \E r \in Requests : \/ IgnoreAsked(r) \/ AskedTooLate(r)
                             \/ AskedWithoutYolo(r) \/ PermissionReplied(r)
  BY <1>5 DEF IgnoreAsked, Arrives, AskedTooLate, Fresh, StopAtDeadline,
     AskedWithoutYolo, Tell, PermissionReplied
<1>6. CASE \E r \in Requests : AskedUnderYolo(r)
  BY <1>6 DEF AskedUnderYolo, Fresh, Arrives, Schedule, Tell, Resolved, Retryable,
     Refused, Capture
<1>7. CASE \E r \in Requests : RetryFires(r)
  BY <1>7 DEF RetryFires, Answer, Resolved, Refused, Tell
<1>8. CASE \E r \in Requests : RetryQuits(r)
  BY <1>8 DEF RetryQuits
<1>9. CASE CommandPermission
  <2>0. PICK r \in Requests : \E outcome :
               /\ Answer({r}, outcome, "closed")
               /\ pending' \subseteq pending
               /\ retry' = [retry EXCEPT ![r] = None]
    BY <1>9 DEF CommandPermission
  <2>1. PICK outcome :
               /\ Answer({r}, outcome, "closed")
               /\ pending' \subseteq pending
               /\ retry' = [retry EXCEPT ![r] = None]
    BY <2>0
  <2>2. \A q \in Requests :
           /\ request'[q] = "unasked" => request[q] = "unasked"
           /\ <<"asked", q>> \in events' => <<"asked", q>> \in events
    BY <2>1, AnswerAsksNothing
  <2>3. QED
    BY <2>1, <2>2
<1>10. CASE CommandYolo
  <2>1. CASE UNCHANGED <<opencode, queue>>
    BY <2>1
  <2>2. CASE \E outcome : /\ Answer(pending, outcome, "closed")
                          /\ pending' \subseteq pending
                          /\ Schedule(Retryable(pending, outcome), TRUE)
    <3>1. \A r \in Requests : r \notin pending => retry'[r] = retry[r]
      BY <2>2 DEF Schedule, Retryable
    <3>2. QED
      BY <2>2, <3>1, AnswerAsksNothing
  <2>3. QED
    BY <1>10, <2>1, <2>2 DEF CommandYolo, StopAtDeadline, Resolved
<1>11. CASE NewSession \/ SelectExtent
  BY <1>11 DEF NewSession, SelectExtent
<1>12. CASE Approve
  BY <1>12 DEF Approve, DropRequests
<1>13. CASE Revise
  BY <1>13 DEF Revise, DropRequests
<1>14. CASE Rotate
  BY <1>14 DEF Rotate, DropRequests
<1>15. CASE YoloOff \/ CommandStop \/ EndTermination \/ EndPursuit \/ Restart
  BY <1>15 DEF YoloOff, CancelAllRetries, CommandStop, EndTermination, DropRequests,
     EndPursuit, Restart, Capture
<1>16. CASE \/ StartTurn \/ Pursue \/ Continue
         \/ DeadlinePasses \/ DeadlineNoticed \/ BudgetExhausted
         \/ \E choice \in BOOLEAN : AnswerQuestion(choice)
  BY <1>16 DEF AnswerQuestion, StartTurn, Pursue, Continue, DeadlinePasses,
     DeadlineNoticed, StopAtDeadline, BudgetExhausted
<1>17. CASE UNCHANGED vars
  BY <1>17 DEF vars
<1>18. QED
  BY <1>1, <1>2, <1>3, <1>4, <1>5, <1>6, <1>7, <1>8, <1>9, <1>10, <1>11,
            <1>12, <1>13, <1>14, <1>15, <1>16, <1>17 DEF Next, OpenCode, Deliver, Retrying,
     User, Controller

\* Retries end with what they belong to.
LEMMA TerminationNext ==
  ASSUME TerminationFits, [Next]_vars
  PROVE  TerminationFits'
<1> USE DEF TerminationFits, Pursuing, vars, opencode, queue, authority, room
<1>1. CASE \E r \in Requests : Ask(r)
  BY <1>1 DEF Ask
<1>2. CASE \/ LoseEvents \/ TurnEnds \/ TurnFails
         \/ \E r \in Requests : AnswerElsewhere(r)
  BY <1>2 DEF LoseEvents, TurnEnds, AfterTurn, TurnFails, AnswerElsewhere
<1>3. CASE \E r \in Requests : \/ IgnoreAsked(r) \/ AskedTooLate(r)
                             \/ AskedWithoutYolo(r) \/ PermissionReplied(r)
  BY <1>3 DEF IgnoreAsked, Arrives, AskedTooLate, Fresh, StopAtDeadline,
     AskedWithoutYolo, Tell, PermissionReplied
<1>4. CASE \E r \in Requests : AskedUnderYolo(r)
  BY <1>4 DEF AskedUnderYolo, Fresh, Arrives, Schedule, Tell, Resolved, Retryable,
     Refused, Capture
<1>5. CASE \E r \in Requests : RetryFires(r)
  BY <1>5 DEF RetryFires, Answer, Resolved, Refused, Tell
<1>6. CASE \/ CommandPermission
         \/ \E r \in Requests : RetryQuits(r)
  BY <1>6 DEF RetryQuits, CommandPermission, Answer, Tell
<1>7. CASE CommandYolo
  BY <1>7 DEF CommandYolo, StopAtDeadline, Answer, Schedule, Tell, Resolved,
     Retryable, Refused, Capture
<1>8. CASE NewSession \/ SelectExtent
  BY <1>8 DEF NewSession, SelectExtent
<1>9. CASE Approve
  BY <1>9 DEF Approve, DropRequests
<1>10. CASE Revise
  BY <1>10 DEF Revise, DropRequests
<1>11. CASE Rotate
  BY <1>11 DEF Rotate, DropRequests
<1>12. CASE YoloOff \/ CommandStop \/ EndTermination \/ EndPursuit \/ Restart
  BY <1>12 DEF YoloOff, CancelAllRetries, CommandStop, EndTermination, DropRequests,
     EndPursuit, Restart, Capture
<1>13. CASE \/ StartTurn \/ Pursue \/ Continue
         \/ DeadlinePasses \/ DeadlineNoticed \/ BudgetExhausted
         \/ \E choice \in BOOLEAN : AnswerQuestion(choice)
  BY <1>13 DEF AnswerQuestion, StartTurn, Pursue, Continue, DeadlinePasses,
     DeadlineNoticed, StopAtDeadline, BudgetExhausted
<1>14. CASE UNCHANGED vars
  BY <1>14 DEF vars
<1>15. QED
  BY <1>1, <1>2, <1>3, <1>4, <1>5, <1>6, <1>7, <1>8, <1>9, <1>10, <1>11,
            <1>12, <1>13, <1>14 DEF Next, OpenCode, Deliver, Retrying,
     User, Controller

\* The binding outlives the retry.
LEMMA BoundNext ==
  ASSUME Shape, SessionsAreNew, AskedOnce, ExplicitIsBound, [Next]_vars
  PROVE  ExplicitIsBound'
<1> USE QueueAssumption DEF Shape, SessionsAreNew, AskedOnce, ExplicitIsBound, vars,
            opencode, queue, authority, room
<1>1. CASE \E r \in Requests : Ask(r)
  BY <1>1 DEF Ask
<1>2. CASE \/ LoseEvents \/ TurnEnds \/ TurnFails
         \/ \E r \in Requests : AnswerElsewhere(r)
  BY <1>2 DEF LoseEvents, TurnEnds, AfterTurn, TurnFails, AnswerElsewhere
<1>3. CASE \E r \in Requests : \/ IgnoreAsked(r) \/ AskedTooLate(r)
                             \/ AskedWithoutYolo(r) \/ PermissionReplied(r)
  BY <1>3 DEF IgnoreAsked, Arrives, AskedTooLate, Fresh, StopAtDeadline,
     AskedWithoutYolo, Tell, PermissionReplied
<1>4. CASE \E r \in Requests : AskedUnderYolo(r)
  BY <1>4 DEF AskedUnderYolo, Fresh, Arrives, Schedule, Tell, Resolved, Retryable,
     Refused, Capture
<1>5. CASE \E r \in Requests : RetryFires(r)
  BY <1>5 DEF RetryFires, Answer, Resolved, Refused, Tell
<1>6. CASE \/ CommandPermission
         \/ \E r \in Requests : RetryQuits(r)
  BY <1>6 DEF RetryQuits, CommandPermission, Answer, Tell
<1>7. CASE CommandYolo
  BY <1>7 DEF CommandYolo, StopAtDeadline, Answer, Schedule, Tell, Resolved,
     Retryable, Refused, Capture
<1>8. CASE NewSession \/ SelectExtent
  BY <1>8 DEF NewSession, SelectExtent
<1>9. CASE Approve
  <2>1. /\ session' = session + 1 /\ session < MaxSession
        /\ mode' = "working" /\ busy' = TRUE
        /\ UNCHANGED <<request, asker, events>>
        /\ mode = "waiting"
        /\ pending' = {r \in pending : asker[r] # session}
    BY <1>9, Zenon DEF Approve, DropRequests
  <2>2. QED
    BY <2>1
<1>10. CASE Revise
  BY <1>10 DEF Revise, DropRequests
<1>11. CASE Rotate
  BY <1>11 DEF Rotate, DropRequests
<1>12. CASE YoloOff \/ CommandStop \/ EndTermination \/ EndPursuit \/ Restart
  BY <1>12 DEF YoloOff, CancelAllRetries, CommandStop, EndTermination, DropRequests,
     EndPursuit, Restart, Capture
<1>13. CASE \/ StartTurn \/ Pursue \/ Continue
         \/ DeadlinePasses \/ DeadlineNoticed \/ BudgetExhausted
         \/ \E choice \in BOOLEAN : AnswerQuestion(choice)
  BY <1>13 DEF AnswerQuestion, StartTurn, Pursue, Continue, DeadlinePasses,
     DeadlineNoticed, StopAtDeadline, BudgetExhausted
<1>14. CASE UNCHANGED vars
  BY <1>14 DEF vars
<1>15. QED
  BY <1>1, <1>2, <1>3, <1>4, <1>5, <1>6, <1>7, <1>8, <1>9, <1>10, <1>11,
            <1>12, <1>13, <1>14 DEF Next, OpenCode, Deliver, Retrying,
     User, Controller


------------------------------------------------------------------------------
(* Types.                                                                  *)

OpenCodeOK ==
    /\ request \in [Requests -> {"unasked", "open", "closed", "auto"}]
    /\ asker \in [Requests -> 0..MaxSession]
    /\ busy \in BOOLEAN
    /\ events \subseteq {"asked", "replied"} \X Requests

QueueOK ==
    /\ pending \subseteq Requests /\ ineligible \subseteq Requests
    /\ retry \in [Requests -> Captured \cup {None}]

ToldOK == told \in [Requests -> {"nothing", "reply", "unsent", "retrying"}]

RoomOK ==
    /\ mode \in {"chat", "question", "extent"} \cup Pursuing
    /\ session \in 1..MaxSession /\ contract \in 0..MaxSession
    /\ bound \in (0..MaxSession) \X (0..MaxSession)
    /\ deadline \in {"none", "ahead", "passed"}
    /\ termination \in {"none", "stop", "deadline", "budget"}

FlagsOK == yolo \in BOOLEAN /\ unattended \in BOOLEAN

\* An answer, given by the user or by the bot, is an answer to requests that exist.
LEMMA AnswerTyped ==
  ASSUME OpenCodeOK, NEW S, S \subseteq Requests, NEW outcome, NEW by \in {"closed", "auto"},
         Answer(S, outcome, by)
  PROVE  OpenCodeOK'
<1>1. request' \in [Requests -> {"unasked", "open", "closed", "auto"}]
  BY DEF OpenCodeOK, Answer
<1>2. events' \subseteq {"asked", "replied"} \X Requests
  BY DEF OpenCodeOK, Answer
<1>3. QED
  BY <1>1, <1>2 DEF OpenCodeOK, Answer

\* OpenCode's side keeps its types: what is asked, by which session, which events wait.
LEMMA OpenCodeTyped ==
  ASSUME OpenCodeOK, QueueOK, RoomOK, [Next]_vars
  PROVE  OpenCodeOK'
<1> USE QueueAssumption DEF OpenCodeOK, QueueOK, RoomOK, OpenIn, vars, opencode,
            queue, authority, room
<1>1. CASE \E r \in Requests : Ask(r)
  BY <1>1 DEF Ask
<1>2. CASE LoseEvents
  BY <1>2 DEF LoseEvents
<1>3. CASE TurnEnds \/ TurnFails
  BY <1>3 DEF TurnEnds, AfterTurn, TurnFails
<1>4. CASE \E r \in Requests : AnswerElsewhere(r)
  BY <1>4 DEF AnswerElsewhere
<1>5. CASE \E r \in Requests : \/ IgnoreAsked(r) \/ AskedTooLate(r)
                             \/ AskedWithoutYolo(r) \/ PermissionReplied(r)
  BY <1>5 DEF IgnoreAsked, Arrives, AskedTooLate, Fresh, StopAtDeadline,
     AskedWithoutYolo, Tell, PermissionReplied
<1>6. CASE \E r \in Requests : AskedUnderYolo(r)
  BY <1>6 DEF AskedUnderYolo, Fresh, Arrives, Schedule, Tell, Resolved, Retryable,
     Refused, Capture
<1>7. CASE \E r \in Requests : RetryFires(r)
  BY <1>7 DEF RetryFires, Answer, Resolved, Refused, Tell
<1>8. CASE \E r \in Requests : RetryQuits(r)
  BY <1>8 DEF RetryQuits
<1>9. CASE CommandPermission
  <2>0. PICK r \in Requests : \E outcome : Answer({r}, outcome, "closed")
    BY <1>9 DEF CommandPermission
  <2>1. PICK outcome : Answer({r}, outcome, "closed")
    BY <2>0
  <2>2. QED
    BY <2>1, AnswerTyped
<1>10. CASE CommandYolo
  <2>1. CASE UNCHANGED opencode
    BY <2>1
  <2>2. CASE \E outcome : Answer(pending, outcome, "closed")
    BY <2>2, AnswerTyped
  <2>3. QED
    BY <1>10, <2>1, <2>2 DEF CommandYolo
<1>11. CASE NewSession \/ SelectExtent
  BY <1>11 DEF NewSession, SelectExtent
<1>12. CASE Approve
  BY <1>12 DEF Approve, DropRequests
<1>13. CASE Revise
  BY <1>13 DEF Revise, DropRequests
<1>14. CASE Rotate
  BY <1>14 DEF Rotate, DropRequests
<1>15. CASE YoloOff \/ CommandStop \/ EndTermination \/ EndPursuit \/ Restart
  BY <1>15 DEF YoloOff, CancelAllRetries, CommandStop, EndTermination, DropRequests,
     EndPursuit, Restart, Capture
<1>16. CASE \/ StartTurn \/ Pursue \/ Continue
         \/ DeadlinePasses \/ DeadlineNoticed \/ BudgetExhausted
         \/ \E choice \in BOOLEAN : AnswerQuestion(choice)
  BY <1>16 DEF AnswerQuestion, StartTurn, Pursue, Continue, DeadlinePasses,
     DeadlineNoticed, StopAtDeadline, BudgetExhausted
<1>17. CASE UNCHANGED vars
  BY <1>17 DEF vars
<1>18. QED
  BY <1>1, <1>2, <1>3, <1>4, <1>5, <1>6, <1>7, <1>8, <1>9, <1>10, <1>11,
            <1>12, <1>13, <1>14, <1>15, <1>16, <1>17 DEF Next, OpenCode, Deliver, Retrying,
     User, Controller

\* The queue and its retries do.
LEMMA QueueTyped ==
  ASSUME OpenCodeOK, QueueOK, RoomOK, [Next]_vars
  PROVE  QueueOK'
<1> USE QueueAssumption DEF QueueOK, RoomOK, Captured, Pursuing, vars, opencode,
            queue, authority, room
<1>1. CASE \E r \in Requests : Ask(r)
  BY <1>1 DEF Ask
<1>2. CASE \/ LoseEvents \/ TurnEnds \/ TurnFails
         \/ \E r \in Requests : AnswerElsewhere(r)
  BY <1>2 DEF LoseEvents, TurnEnds, AfterTurn, TurnFails, AnswerElsewhere
<1>3. CASE \E r \in Requests : \/ IgnoreAsked(r) \/ AskedTooLate(r)
                             \/ AskedWithoutYolo(r) \/ PermissionReplied(r)
  BY <1>3 DEF IgnoreAsked, Arrives, AskedTooLate, Fresh, StopAtDeadline,
     AskedWithoutYolo, Tell, PermissionReplied
<1>4. CASE \E r \in Requests : AskedUnderYolo(r)
  BY <1>4 DEF AskedUnderYolo, Fresh, Arrives, Schedule, Tell, Resolved, Retryable,
     Refused, Capture
<1>5. CASE \E r \in Requests : RetryFires(r)
  BY <1>5 DEF RetryFires, Answer, Resolved, Refused, Tell
<1>6. CASE \/ CommandPermission
         \/ \E r \in Requests : RetryQuits(r)
  BY <1>6 DEF RetryQuits, CommandPermission, Answer, Tell
<1>7. CASE CommandYolo
  <2>1. CASE UNCHANGED queue
    BY <2>1
  <2>2. CASE \E outcome : /\ pending' = pending \ Resolved(pending, outcome)
                          /\ ineligible' = (ineligible \ pending)
                                               \cup Refused(pending, outcome)
                          /\ Schedule(Retryable(pending, outcome), TRUE)
    BY <2>2 DEF Schedule, Resolved, Refused, Retryable, Capture
  <2>3. QED
    BY <1>7, <2>1, <2>2 DEF CommandYolo
<1>8. CASE NewSession \/ SelectExtent
  BY <1>8 DEF NewSession, SelectExtent
<1>9. CASE Approve
  BY <1>9 DEF Approve, DropRequests
<1>10. CASE Revise
  BY <1>10 DEF Revise, DropRequests
<1>11. CASE Rotate
  BY <1>11 DEF Rotate, DropRequests
<1>12. CASE YoloOff \/ CommandStop \/ EndTermination \/ EndPursuit
  BY <1>12 DEF YoloOff, CancelAllRetries, CommandStop, EndTermination, DropRequests,
     EndPursuit
<1>13. CASE Restart
  BY <1>13 DEF Restart, Capture
<1>14. CASE \/ StartTurn \/ Pursue \/ Continue
         \/ DeadlinePasses \/ DeadlineNoticed \/ BudgetExhausted
         \/ \E choice \in BOOLEAN : AnswerQuestion(choice)
  BY <1>14 DEF AnswerQuestion, StartTurn, Pursue, Continue, DeadlinePasses,
     DeadlineNoticed, StopAtDeadline, BudgetExhausted
<1>15. CASE UNCHANGED vars
  BY <1>15 DEF vars
<1>16. QED
  BY <1>1, <1>2, <1>3, <1>4, <1>5, <1>6, <1>7, <1>8, <1>9, <1>10, <1>11,
            <1>12, <1>13, <1>14, <1>15 DEF Next, OpenCode, Deliver, Retrying,
     User, Controller

\* What the user has been told does.
LEMMA ToldTyped ==
  ASSUME ToldOK, [Next]_vars
  PROVE  ToldOK'
<1> USE DEF ToldOK, vars, opencode, queue, authority, room
<1>1. CASE \E r \in Requests : Ask(r)
  BY <1>1 DEF Ask
<1>2. CASE \/ LoseEvents \/ TurnEnds \/ TurnFails
         \/ \E r \in Requests : AnswerElsewhere(r)
  BY <1>2 DEF LoseEvents, TurnEnds, AfterTurn, TurnFails, AnswerElsewhere
<1>3. CASE \E r \in Requests : \/ IgnoreAsked(r) \/ AskedTooLate(r)
                             \/ AskedWithoutYolo(r) \/ PermissionReplied(r)
  BY <1>3 DEF IgnoreAsked, Arrives, AskedTooLate, Fresh, StopAtDeadline,
     AskedWithoutYolo, Tell, PermissionReplied
<1>4. CASE \E r \in Requests : AskedUnderYolo(r)
  BY <1>4 DEF AskedUnderYolo, Fresh, Arrives, Schedule, Tell, Resolved, Retryable,
     Refused, Capture
<1>5. CASE \E r \in Requests : RetryFires(r)
  BY <1>5 DEF RetryFires, Answer, Resolved, Refused, Tell
<1>6. CASE \/ CommandPermission
         \/ \E r \in Requests : RetryQuits(r)
  BY <1>6 DEF RetryQuits, CommandPermission, Answer, Tell
<1>7. CASE CommandYolo
  BY <1>7 DEF CommandYolo, StopAtDeadline, Answer, Schedule, Tell, Resolved,
     Retryable, Refused, Capture
<1>8. CASE NewSession \/ SelectExtent
  BY <1>8 DEF NewSession, SelectExtent
<1>9. CASE Approve
  BY <1>9 DEF Approve, DropRequests
<1>10. CASE Revise
  BY <1>10 DEF Revise, DropRequests
<1>11. CASE Rotate
  BY <1>11 DEF Rotate, DropRequests
<1>12. CASE YoloOff \/ CommandStop \/ EndTermination \/ EndPursuit \/ Restart
  BY <1>12 DEF YoloOff, CancelAllRetries, CommandStop, EndTermination, DropRequests,
     EndPursuit, Restart, Capture
<1>13. CASE \/ StartTurn \/ Pursue \/ Continue
         \/ DeadlinePasses \/ DeadlineNoticed \/ BudgetExhausted
         \/ \E choice \in BOOLEAN : AnswerQuestion(choice)
  BY <1>13 DEF AnswerQuestion, StartTurn, Pursue, Continue, DeadlinePasses,
     DeadlineNoticed, StopAtDeadline, BudgetExhausted
<1>14. CASE UNCHANGED vars
  BY <1>14 DEF vars
<1>15. QED
  BY <1>1, <1>2, <1>3, <1>4, <1>5, <1>6, <1>7, <1>8, <1>9, <1>10, <1>11,
            <1>12, <1>13, <1>14 DEF Next, OpenCode, Deliver, Retrying,
     User, Controller

\* The room's pursuit, its session and the binding of YOLO do.
LEMMA RoomTyped ==
  ASSUME RoomOK, [Next]_vars
  PROVE  RoomOK'
<1> USE QueueAssumption DEF RoomOK, Pursuing, Unbound, vars, opencode, queue,
            authority, room
<1>1. CASE \E r \in Requests : Ask(r)
  BY <1>1 DEF Ask
<1>2. CASE \/ LoseEvents \/ TurnEnds \/ TurnFails
         \/ \E r \in Requests : AnswerElsewhere(r)
  BY <1>2 DEF LoseEvents, TurnEnds, AfterTurn, TurnFails, AnswerElsewhere
<1>3. CASE \E r \in Requests : \/ IgnoreAsked(r) \/ AskedTooLate(r)
                             \/ AskedWithoutYolo(r) \/ PermissionReplied(r)
  BY <1>3 DEF IgnoreAsked, Arrives, AskedTooLate, Fresh, StopAtDeadline,
     AskedWithoutYolo, Tell, PermissionReplied
<1>4. CASE \E r \in Requests : AskedUnderYolo(r)
  BY <1>4 DEF AskedUnderYolo, Fresh, Arrives, Schedule, Tell, Resolved, Retryable,
     Refused, Capture
<1>5. CASE \E r \in Requests : RetryFires(r)
  BY <1>5 DEF RetryFires, Answer, Resolved, Refused, Tell
<1>6. CASE \/ CommandPermission
         \/ \E r \in Requests : RetryQuits(r)
  BY <1>6 DEF RetryQuits, CommandPermission, Answer, Tell
<1>7. CASE CommandYolo
  BY <1>7 DEF CommandYolo, StopAtDeadline, Answer, Schedule, Tell, Resolved,
     Retryable, Refused, Capture
<1>8. CASE NewSession \/ SelectExtent
  BY <1>8 DEF NewSession, SelectExtent
<1>9. CASE Approve
  BY <1>9 DEF Approve, DropRequests
<1>10. CASE Revise
  BY <1>10 DEF Revise, DropRequests
<1>11. CASE Rotate
  BY <1>11 DEF Rotate, DropRequests
<1>12. CASE YoloOff \/ CommandStop \/ EndTermination \/ EndPursuit \/ Restart
  BY <1>12 DEF YoloOff, CancelAllRetries, CommandStop, EndTermination, DropRequests,
     EndPursuit, Restart, Capture
<1>13. CASE \/ StartTurn \/ Pursue \/ Continue
         \/ DeadlinePasses \/ DeadlineNoticed \/ BudgetExhausted
         \/ \E choice \in BOOLEAN : AnswerQuestion(choice)
  BY <1>13 DEF AnswerQuestion, StartTurn, Pursue, Continue, DeadlinePasses,
     DeadlineNoticed, StopAtDeadline, BudgetExhausted
<1>14. CASE UNCHANGED vars
  BY <1>14 DEF vars
<1>15. QED
  BY <1>1, <1>2, <1>3, <1>4, <1>5, <1>6, <1>7, <1>8, <1>9, <1>10, <1>11,
            <1>12, <1>13, <1>14 DEF Next, OpenCode, Deliver, Retrying,
     User, Controller

\* The flags do.
LEMMA FlagsTyped ==
  ASSUME FlagsOK, [Next]_vars
  PROVE  FlagsOK'
<1> USE DEF FlagsOK, vars, opencode, queue, authority, room
<1>1. CASE \E r \in Requests : Ask(r)
  BY <1>1 DEF Ask
<1>2. CASE \/ LoseEvents \/ TurnEnds \/ TurnFails
         \/ \E r \in Requests : AnswerElsewhere(r)
  BY <1>2 DEF LoseEvents, TurnEnds, AfterTurn, TurnFails, AnswerElsewhere
<1>3. CASE \E r \in Requests : \/ IgnoreAsked(r) \/ AskedTooLate(r)
                             \/ AskedWithoutYolo(r) \/ PermissionReplied(r)
  BY <1>3 DEF IgnoreAsked, Arrives, AskedTooLate, Fresh, StopAtDeadline,
     AskedWithoutYolo, Tell, PermissionReplied
<1>4. CASE \E r \in Requests : AskedUnderYolo(r)
  BY <1>4 DEF AskedUnderYolo, Fresh, Arrives, Schedule, Tell, Resolved, Retryable,
     Refused, Capture
<1>5. CASE \E r \in Requests : RetryFires(r)
  BY <1>5 DEF RetryFires, Answer, Resolved, Refused, Tell
<1>6. CASE \/ CommandPermission
         \/ \E r \in Requests : RetryQuits(r)
  BY <1>6 DEF RetryQuits, CommandPermission, Answer, Tell
<1>7. CASE CommandYolo
  BY <1>7 DEF CommandYolo, StopAtDeadline, Answer, Schedule, Tell, Resolved,
     Retryable, Refused, Capture
<1>8. CASE NewSession \/ SelectExtent
  BY <1>8 DEF NewSession, SelectExtent
<1>9. CASE Approve
  BY <1>9 DEF Approve, DropRequests
<1>10. CASE Revise
  BY <1>10 DEF Revise, DropRequests
<1>11. CASE Rotate
  BY <1>11 DEF Rotate, DropRequests
<1>12. CASE YoloOff \/ CommandStop \/ EndTermination \/ EndPursuit \/ Restart
  BY <1>12 DEF YoloOff, CancelAllRetries, CommandStop, EndTermination, DropRequests,
     EndPursuit, Restart, Capture
<1>13. CASE \/ StartTurn \/ Pursue \/ Continue
         \/ DeadlinePasses \/ DeadlineNoticed \/ BudgetExhausted
         \/ \E choice \in BOOLEAN : AnswerQuestion(choice)
  BY <1>13 DEF AnswerQuestion, StartTurn, Pursue, Continue, DeadlinePasses,
     DeadlineNoticed, StopAtDeadline, BudgetExhausted
<1>14. CASE UNCHANGED vars
  BY <1>14 DEF vars
<1>15. QED
  BY <1>1, <1>2, <1>3, <1>4, <1>5, <1>6, <1>7, <1>8, <1>9, <1>10, <1>11,
            <1>12, <1>13, <1>14 DEF Next, OpenCode, Deliver, Retrying,
     User, Controller

\* The parts make up the type invariant.
LEMMA TypeParts == TypeOK <=> OpenCodeOK /\ QueueOK /\ ToldOK /\ RoomOK /\ FlagsOK
  BY DEF TypeOK, OpenCodeOK, QueueOK, ToldOK, RoomOK, FlagsOK

\* Queue, retries, binding and mode keep their types through every handler (TypeOK).
THEOREM TypeCorrect == Spec => []TypeOK
<1>1. Init => TypeOK
  <2> SUFFICES ASSUME Init PROVE TypeOK
    OBVIOUS
  <2>1. OpenCodeOK
    <3>1. 0 \in 0..MaxSession
      BY QueueAssumption
    <3>2. asker \in [Requests -> 0..MaxSession] /\ busy \in BOOLEAN
      BY <3>1 DEF Init
    <3>3. request \in [Requests -> {"unasked", "open", "closed", "auto"}]
      BY DEF Init
    <3>4. events \subseteq {"asked", "replied"} \X Requests
      BY DEF Init
    <3>5. QED
      BY <3>2, <3>3, <3>4 DEF OpenCodeOK
  <2>2. ToldOK
    BY DEF Init, ToldOK
  <2>3. FlagsOK
    BY Zenon DEF Init, FlagsOK
  <2>4. QueueOK
    BY DEF Init, QueueOK
  <2>5. RoomOK
    BY QueueAssumption DEF Init, RoomOK, Unbound
  <2>6. QED
    BY <2>1, <2>2, <2>3, <2>4, <2>5, TypeParts
<1>2. TypeOK /\ [Next]_vars => TypeOK'
  <2> SUFFICES ASSUME TypeOK, [Next]_vars PROVE TypeOK'
    OBVIOUS
  <2>1. OpenCodeOK' /\ QueueOK' /\ ToldOK' /\ RoomOK' /\ FlagsOK'
    BY TypeParts, OpenCodeTyped, QueueTyped, ToldTyped, RoomTyped, FlagsTyped
  <2>2. QED
    BY <2>1 DEF TypeOK, OpenCodeOK, QueueOK, ToldOK, RoomOK, FlagsOK
<1>3. QED
  BY <1>1, <1>2, PTL DEF Spec

\* The types have the shape the lemmas above ask for.
LEMMA ShapeOfTypes == TypeOK => Shape
  BY DEF TypeOK, Shape

\* The invariants above hold together: none is inductive alone.
LEMMA InvHolds == Spec => []QueueInv
<1>1. Init => QueueInv
  BY DEF Init, QueueInv, OpenIsBusy, SessionsAreNew, AskedOnce, TerminationFits,
         ExplicitIsBound
<1>2. TypeOK /\ QueueInv /\ [Next]_vars => QueueInv'
  BY ShapeOfTypes, OpenNext, SessionsNext, AskedNext, TerminationNext, BoundNext
     DEF QueueInv
<1>3. QED
  BY <1>1, <1>2, TypeCorrect, PTL DEF Spec

\* What the bot approves by itself, at once or in a retry, is covered then and there
\* (AutoApprovalIsCovered).
THEOREM ApprovalSound == Spec => AutoApprovalIsCovered
<1>1. TypeOK /\ QueueInv /\ [Next]_vars
         => [ \A r \in Requests :
                (request[r] = "open" /\ request'[r] = "auto") => Covered(r) ]_vars
  <2> SUFFICES ASSUME TypeOK, QueueInv, Next,
                      NEW r \in Requests, request[r] = "open", request'[r] = "auto"
               PROVE  Covered(r)
    OBVIOUS
  <2> USE DEF opencode
  <2>1. AskedUnderYolo(r) \/ RetryFires(r)
    <3>1. CASE \E q \in Requests : AskedUnderYolo(q)
      BY <3>1 DEF AskedUnderYolo, TypeOK
    <3>2. CASE \E q \in Requests : RetryFires(q)
      <4>1. PICK q \in Requests : RetryFires(q)
        BY <3>2
      <4>2. r = q
        BY <4>1 DEF RetryFires, Answer, TypeOK
      <4>3. QED
        BY <4>1, <4>2
    <3>3. CASE LoseEvents \/ TurnEnds \/ TurnFails
               \/ \E q \in Requests : Ask(q) \/ AnswerElsewhere(q)
      BY <3>3 DEF LoseEvents, TurnEnds, TurnFails, Ask, AnswerElsewhere, TypeOK
    <3>4. CASE \E q \in Requests : \/ IgnoreAsked(q) \/ AskedTooLate(q) \/ AskedWithoutYolo(q)
                                   \/ PermissionReplied(q) \/ RetryQuits(q)
      BY <3>4 DEF IgnoreAsked, AskedTooLate, AskedWithoutYolo, PermissionReplied, RetryQuits
    <3>5. CASE CommandPermission \/ CommandYolo
      BY <3>5 DEF CommandPermission, CommandYolo, Answer, TypeOK
    <3>6. CASE \/ \E choice \in BOOLEAN : AnswerQuestion(choice)
               \/ YoloOff \/ StartTurn \/ NewSession \/ Pursue \/ SelectExtent
               \/ Approve \/ Revise \/ Continue \/ CommandStop
      BY <3>6 DEF AnswerQuestion, YoloOff, StartTurn, NewSession, Pursue, SelectExtent,
         Approve, Revise, Continue, CommandStop
    <3>7. CASE Controller
      BY <3>7 DEF Controller, Rotate, DeadlinePasses, DeadlineNoticed, BudgetExhausted,
         EndTermination, EndPursuit, Restart, TypeOK
    <3>8. QED
      BY <3>1, <3>2, <3>3, <3>4, <3>5, <3>6, <3>7 DEF Next, OpenCode, Deliver, Retrying, User
  <2>2. CASE AskedUnderYolo(r)
    BY <2>2 DEF AskedUnderYolo, Fresh, Authorized, Covered, Pursuing
  <2>3. CASE RetryFires(r)
    <3>1. /\ asker[r] = session /\ busy /\ mode \in {"chat", "working"}
          /\ yolo /\ r \in pending /\ retry[r] # None
      BY <2>3 DEF QueueInv, OpenIsBusy, RetryFires, StillMeant
    <3>2. CASE retry[r].pursuit
      BY <2>3, <3>1, <3>2 DEF RetryFires, StillMeant, Authorized, Covered, Pursuing, Expired,
         QueueInv, ExplicitIsBound
    <3>3. CASE ~retry[r].pursuit
      BY <2>3, <3>1, <3>3 DEF RetryFires, StillMeant, Covered, QueueInv, TerminationFits,
         TypeOK, Pursuing
    <3>4. QED
      BY <3>2, <3>3
  <2>4. QED
    BY <2>1, <2>2, <2>3
<1>2. QED
  BY <1>1, TypeCorrect, InvHolds, PTL DEF Spec, AutoApprovalIsCovered

--------------------------------------------------------------------------------
(* No awaited answer is forgotten.                                            *)

\* OpenCode waits for the bot's answer to r, and no stop is on the way.
Awaited(r) ==
    request[r] = "open" /\ asker[r] = session /\ termination = "none"

\* Nobody is left in the dark about a listed request; one that no retry will
\* take up again was put to the user.
HeardOf(r) ==
    /\ (asker[r] = session /\ termination = "none") => told[r] # "nothing"
    /\ r \in ineligible => told[r] = "reply"

Heard == \A r \in pending : HeardOf(r)

\* What YOLO must have granted for an answer to be retried.
Granted ==
    /\ yolo
    /\ IF mode = "chat" THEN bound[1] \in {0, session}
       ELSE (unattended /\ contract # 0 /\ deadline # "none")
                \/ bound = <<session, contract>>

\* The room does not change under a retry whose request is still awaited: whatever
\* changes it has closed the request or dropped the retry.
IsBacked(r) ==
    (Awaited(r) /\ retry[r] # None) =>
        /\ retry[r].pursuit <=> mode # "chat"
        /\ retry[r].contract = contract
        /\ Granted

Backed == \A r \in pending : IsBacked(r)

\* A task captures the room it is scheduled in.
LEMMA CaptureIsTask ==
  ASSUME RoomOK, NEW explicit \in BOOLEAN
  PROVE  Capture(explicit) \in Captured /\ Capture(explicit) # None
<1>1. (mode \in Pursuing) \in BOOLEAN
  OBVIOUS
<1>2. Capture(explicit) \in Captured
  BY <1>1 DEF Capture, Captured, RoomOK
<1> QED BY <1>2, NoneAssumption

\* Every handler that lists a request asks for it, answers it or says that it retries.
LEMMA HeardNext ==
  ASSUME Shape, ToldOK, OpenIsBusy, SessionsAreNew, AskedOnce, Heard, [Next]_vars
  PROVE  Heard'
<1> USE QueueAssumption DEF Shape, OpenIsBusy, SessionsAreNew, AskedOnce, Pursuing, OpenIn,
            Unbound, vars, opencode, queue, authority, room, Heard, HeardOf, ToldOK
<1>1. CASE \E r \in Requests : Ask(r)
  BY <1>1 DEF Ask
<1>2. CASE LoseEvents \/ TurnEnds \/ TurnFails
         \/ \E r \in Requests : AnswerElsewhere(r)
  BY <1>2 DEF LoseEvents, TurnEnds, AfterTurn, TurnFails, AnswerElsewhere
<1>3. CASE \E r \in Requests : IgnoreAsked(r) \/ PermissionReplied(r)
  BY <1>3 DEF IgnoreAsked, Arrives, PermissionReplied
<1>4. CASE \E r \in Requests : AskedTooLate(r) \/ AskedWithoutYolo(r)
  BY <1>4 DEF AskedTooLate, AskedWithoutYolo, Fresh, Arrives, StopAtDeadline, Tell
<1>5. CASE \E r \in Requests : AskedUnderYolo(r)
  BY <1>5 DEF AskedUnderYolo, Fresh, Arrives, Schedule, Tell, Resolved, Retryable,
     Refused, Capture, Authorized, LeaseCurrent, Possible
<1>6. CASE \E r \in Requests : RetryFires(r)
  BY <1>6 DEF RetryFires, Answer, Resolved, Refused, Tell, Possible
<1>7. CASE \E r \in Requests : RetryQuits(r)
  BY <1>7 DEF RetryQuits
<1>8. CASE CommandPermission
  BY <1>8 DEF CommandPermission, Answer, Tell, Possible
<1>9. CASE CommandYolo
  BY <1>9 DEF CommandYolo, StopAtDeadline, Answer, Schedule, Tell, Resolved,
     Retryable, Refused, Capture, Possible
<1>10. CASE NewSession \/ SelectExtent
  BY <1>10 DEF NewSession, SelectExtent
<1>11. CASE Approve
  BY <1>11 DEF Approve, DropRequests
<1>12. CASE Revise
  BY <1>12 DEF Revise, DropRequests
<1>13. CASE Rotate
  BY <1>13 DEF Rotate, DropRequests
<1>14. CASE YoloOff \/ CommandStop \/ EndPursuit
  BY <1>14 DEF YoloOff, CancelAllRetries, CommandStop, EndPursuit
<1>15. CASE EndTermination
  BY <1>15 DEF EndTermination, DropRequests
<1>16. CASE Restart
  BY <1>16 DEF Restart, Capture, Authorized, LeaseCurrent
<1>17. CASE \/ StartTurn \/ Pursue \/ Continue
         \/ DeadlinePasses \/ DeadlineNoticed \/ BudgetExhausted
         \/ \E choice \in BOOLEAN : AnswerQuestion(choice)
  BY <1>17 DEF AnswerQuestion, StartTurn, Pursue, Continue, DeadlinePasses,
     DeadlineNoticed, StopAtDeadline, BudgetExhausted
<1>18. CASE UNCHANGED vars
  BY <1>18 DEF vars
<1>19. QED
  BY <1>1, <1>2, <1>3, <1>4, <1>5, <1>6, <1>7, <1>8, <1>9, <1>10, <1>11, <1>12, <1>13,
     <1>14, <1>15, <1>16, <1>17, <1>18
     DEF Next, OpenCode, Deliver, Retrying, User, Controller

\* What changes the room under a retry has dropped it, or answered its request.
LEMMA BackedNext ==
  ASSUME Shape, RoomOK, OpenIsBusy, SessionsAreNew, AskedOnce, Backed, [Next]_vars
  PROVE  Backed'
<1> USE QueueAssumption DEF Shape, OpenIsBusy, SessionsAreNew, AskedOnce, Pursuing, OpenIn,
            Unbound, vars, opencode, queue, authority, room, Backed, IsBacked,
            Awaited, Granted
<1>1. CASE \E r \in Requests : Ask(r)
  <2> SUFFICES ASSUME NEW r \in Requests, Ask(r), NEW q \in pending'
               PROVE  IsBacked(q)'
    BY <1>1
  <2>1. q # r /\ request'[q] = request[q] /\ asker'[q] = asker[q]
        /\ UNCHANGED <<termination, retry, mode, session, contract, yolo, bound, unattended,
                       deadline, pending>>
    BY DEF Ask
  <2> QED BY <2>1
<1>2. CASE LoseEvents \/ TurnEnds \/ TurnFails
         \/ \E r \in Requests : AnswerElsewhere(r)
  BY <1>2 DEF LoseEvents, TurnEnds, AfterTurn, TurnFails, AnswerElsewhere
<1>3. CASE \E r \in Requests : IgnoreAsked(r) \/ PermissionReplied(r)
  BY <1>3 DEF IgnoreAsked, Arrives, PermissionReplied
<1>4. CASE \E r \in Requests : AskedTooLate(r) \/ AskedWithoutYolo(r)
  BY <1>4 DEF AskedTooLate, AskedWithoutYolo, Fresh, Arrives, StopAtDeadline, Tell
<1>5. CASE \E r \in Requests : AskedUnderYolo(r)
  <2>1. PICK r \in Requests : AskedUnderYolo(r)
    BY <1>5
  <2>2. /\ retry[r] = None /\ r \notin pending /\ Authorized(r)
        /\ UNCHANGED <<asker, session, contract, termination, mode, yolo, bound, unattended,
                       deadline>>
    BY <2>1 DEF AskedUnderYolo, Fresh, Arrives
  <2>3. \A q \in pending : request'[q] = request[q] /\ retry'[q] = retry[q]
    BY <2>1, <2>2 DEF AskedUnderYolo, Schedule, Retryable
  <2>4. pending' \subseteq pending \cup {r}
    BY <2>1 DEF AskedUnderYolo
  <2>5. retry'[r] \in {None, Capture(FALSE)}
    BY <2>1, <2>2 DEF AskedUnderYolo, Schedule
  <2>6. Granted /\ mode \in {"chat", "working"}
    BY <2>2 DEF Authorized, LeaseCurrent
  <2>7. /\ Capture(FALSE).pursuit <=> mode # "chat"
        /\ Capture(FALSE).contract = contract
    BY <2>6 DEF Capture
  <2>8. IsBacked(r)'
    BY <2>2, <2>5, <2>6, <2>7
  <2> QED BY <2>2, <2>3, <2>4, <2>8
<1>6. CASE \E r \in Requests : RetryFires(r)
  BY <1>6 DEF RetryFires, Answer, Resolved, Refused, Tell, Possible
<1>7. CASE \E r \in Requests : RetryQuits(r)
  BY <1>7 DEF RetryQuits
<1>8. CASE CommandPermission
  BY <1>8 DEF CommandPermission, Answer, Tell, Possible
<1>9. CASE CommandYolo
  <2>1. CASE UNCHANGED queue /\ termination' # "none"
    BY <2>1
  <2>2. CASE \E outcome \in [pending -> Outcomes] :
               /\ Answer(pending, outcome, "closed")
               /\ pending' = pending \ Resolved(pending, outcome)
               /\ Schedule(Retryable(pending, outcome), TRUE)
               /\ yolo' = TRUE /\ bound' = <<session, contract>>
               /\ UNCHANGED <<unattended, deadline, room>>
    <3>1. PICK outcome \in [pending -> Outcomes] :
               /\ Answer(pending, outcome, "closed")
               /\ pending' = pending \ Resolved(pending, outcome)
               /\ Schedule(Retryable(pending, outcome), TRUE)
               /\ yolo' = TRUE /\ bound' = <<session, contract>>
               /\ UNCHANGED <<unattended, deadline, room>>
      BY <2>2
    <3> SUFFICES ASSUME NEW q \in pending', Awaited(q)', retry'[q] # None
                 PROVE  IsBacked(q)'
      BY DEF Backed, IsBacked
    <3>2. q \in pending /\ asker'[q] = asker[q] /\ request[q] = "open"
      BY <3>1 DEF Answer
    <3>3. mode \in {"chat", "working"} /\ Awaited(q)
      BY <3>1, <3>2
    <3>4. retry'[q] \in {retry[q], Capture(TRUE)}
      BY <3>1, <3>2 DEF Schedule
    <3>5. /\ retry'[q].pursuit <=> mode # "chat"
          /\ retry'[q].contract = contract
      <4>1. CASE retry'[q] = Capture(TRUE)
        <5>1. /\ Capture(TRUE).pursuit <=> mode # "chat"
              /\ Capture(TRUE).contract = contract
          BY <3>3 DEF Capture
        <5> QED BY <4>1, <5>1
      <4>2. CASE retry'[q] = retry[q]
        BY <4>2, <3>2, <3>3
      <4> QED BY <3>4, <4>1, <4>2
    <3>6. Granted'
      BY <3>1
    <3> QED BY <3>1, <3>5, <3>6
  <2> QED BY <1>9, <2>1, <2>2, Zenon DEF CommandYolo, StopAtDeadline
<1>10. CASE NewSession \/ SelectExtent
  BY <1>10 DEF NewSession, SelectExtent
<1>11. CASE Approve
  BY <1>11 DEF Approve, DropRequests
<1>12. CASE Revise
  BY <1>12 DEF Revise, DropRequests
<1>13. CASE Rotate
  BY <1>13 DEF Rotate, DropRequests
<1>14. CASE YoloOff \/ CommandStop \/ EndPursuit
  BY <1>14 DEF YoloOff, CancelAllRetries, CommandStop, EndPursuit
<1>15. CASE EndTermination
  BY <1>15 DEF EndTermination, DropRequests
<1>16. CASE Restart
  BY <1>16 DEF Restart, Capture, Authorized, LeaseCurrent
<1>17. CASE \/ StartTurn \/ Pursue \/ Continue
         \/ DeadlinePasses \/ DeadlineNoticed \/ BudgetExhausted
         \/ \E choice \in BOOLEAN : AnswerQuestion(choice)
  BY <1>17 DEF AnswerQuestion, StartTurn, Pursue, Continue, DeadlinePasses,
     DeadlineNoticed, StopAtDeadline, BudgetExhausted
<1>18. CASE UNCHANGED vars
  BY <1>18 DEF vars
<1>19. QED
  BY <1>1, <1>2, <1>3, <1>4, <1>5, <1>6, <1>7, <1>8, <1>9, <1>10, <1>11, <1>12, <1>13,
     <1>14, <1>15, <1>16, <1>17, <1>18
     DEF Next, OpenCode, Deliver, Retrying, User, Controller

\* No handler gives up an answer that is awaited, but for the reasons NotForgotten lists.
LEMMA ForgottenNext ==
  ASSUME Shape, ToldOK, RoomOK, OpenIsBusy, SessionsAreNew, AskedOnce, Heard, Backed,
         NotForgotten, [Next]_vars
  PROVE  NotForgotten'
<1> USE QueueAssumption DEF Shape, OpenIsBusy, SessionsAreNew, AskedOnce, Pursuing, OpenIn,
            Unbound, vars, opencode, queue, authority, room, Heard, HeardOf, Backed,
            IsBacked, Awaited, Granted, ToldOK,
            NotForgotten
<1>1. CASE \E r \in Requests : Ask(r)
  <2>1. PICK r \in Requests : Ask(r)
    BY <1>1
  <2>2. \A q \in pending : q # r /\ request'[q] = request[q] /\ asker'[q] = asker[q]
    BY <2>1 DEF Ask
  <2>3. UNCHANGED <<termination, retry, session, yolo, deadline, pending, told>>
    BY <2>1 DEF Ask
  <2> QED BY <2>2, <2>3
<1>2. CASE LoseEvents \/ TurnEnds \/ TurnFails
         \/ \E r \in Requests : AnswerElsewhere(r)
  BY <1>2 DEF LoseEvents, TurnEnds, AfterTurn, TurnFails, AnswerElsewhere
<1>3. CASE \E r \in Requests : IgnoreAsked(r) \/ PermissionReplied(r)
  BY <1>3 DEF IgnoreAsked, Arrives, PermissionReplied
<1>4. CASE \E r \in Requests : AskedTooLate(r) \/ AskedWithoutYolo(r)
  <2>1. PICK r \in Requests : AskedTooLate(r) \/ AskedWithoutYolo(r)
    BY <1>4
  <2>2. CASE AskedTooLate(r)
    BY <2>2 DEF AskedTooLate, StopAtDeadline
  <2>3. CASE AskedWithoutYolo(r)
    <3>1. /\ UNCHANGED <<request, asker, session, retry, termination, yolo, deadline>>
          /\ pending' = pending \cup {r}
          /\ told'[r] \in {"reply", "unsent"}
          /\ \A q \in pending : q # r => told'[q] = told[q]
          /\ r \notin pending
      BY <2>3 DEF AskedWithoutYolo, Fresh, Tell
    <3> QED BY <3>1
  <2> QED BY <2>1, <2>2, <2>3
<1>5. CASE \E r \in Requests : AskedUnderYolo(r)
  <2>1. PICK r \in Requests : AskedUnderYolo(r)
    BY <1>5
  <2>2. /\ retry[r] = None /\ r \notin pending
        /\ UNCHANGED <<asker, session, termination, yolo, deadline>>
    BY <2>1 DEF AskedUnderYolo, Fresh, Arrives
  <2>3. \A q \in pending : /\ request'[q] = request[q] /\ told'[q] = told[q]
                           /\ retry'[q] = retry[q]
    <3>1. \A q \in pending : request'[q] = request[q] /\ retry'[q] = retry[q]
      <4>1. PICK outcome \in [{r} -> Outcomes] :
               /\ request' = IF outcome[r] \in {"accepted", "lost"}
                             THEN [request EXCEPT ![r] = "auto"] ELSE request
               /\ Schedule(Retryable({r}, outcome), FALSE)
        BY <2>1 DEF AskedUnderYolo
      <4> SUFFICES ASSUME NEW q \in pending
                   PROVE  request'[q] = request[q] /\ retry'[q] = retry[q]
        OBVIOUS
      <4>2. q \in Requests /\ q # r
        BY <2>2
      <4>3. q \notin Retryable({r}, outcome)
        BY <4>2 DEF Retryable
      <4>4. retry'[q] = retry[q]
        BY <4>1, <4>2, <4>3 DEF Schedule
      <4>5. request'[q] = request[q]
        BY <4>1, <4>2
      <4> QED BY <4>4, <4>5
    <3>2. PICK outcome \in [{r} -> Outcomes] :
             Tell(Refused({r}, outcome), Retryable({r}, outcome))
      BY <2>1 DEF AskedUnderYolo
    <3>3. \A q \in pending : told'[q] = told[q]
      <4> SUFFICES ASSUME NEW q \in pending PROVE told'[q] = told[q]
        OBVIOUS
      <4>1. q \in Requests /\ q # r
        BY <2>2
      <4>2. q \notin Refused({r}, outcome) /\ q \notin Retryable({r}, outcome)
        BY <4>1 DEF Refused, Retryable
      <4> QED BY <3>2, <4>1, <4>2 DEF Tell
    <3> QED BY <3>1, <3>3
  <2>4. pending' \subseteq pending \cup {r}
    BY <2>1 DEF AskedUnderYolo
  <2>5. r \in pending' => \/ request'[r] # "open" \/ told'[r] = "reply"
                          \/ retry'[r] # None
    <3>1. PICK outcome \in [{r} -> Outcomes] :
             /\ pending' = (pending \cup {r}) \ Resolved({r}, outcome)
             /\ request' = IF outcome[r] \in {"accepted", "lost"}
                           THEN [request EXCEPT ![r] = "auto"] ELSE request
             /\ Schedule(Retryable({r}, outcome), FALSE)
             /\ Tell(Refused({r}, outcome), Retryable({r}, outcome))
      BY <2>1 DEF AskedUnderYolo
    <3>2. CASE outcome[r] \in {"accepted", "stale"}
      BY <3>1, <3>2 DEF Resolved
    <3>3. CASE outcome[r] = "lost"
      BY <3>1, <3>3
    <3>4. CASE outcome[r] = "refused"
      BY <3>1, <3>4 DEF Tell, Refused
    <3>5. CASE outcome[r] = "failed"
      BY <2>2, <3>1, <3>5, CaptureIsTask DEF Schedule, Retryable
    <3> QED BY <3>2, <3>3, <3>4, <3>5 DEF Outcomes
  <2> QED BY <2>2, <2>3, <2>4, <2>5
<1>6. CASE \E r \in Requests : RetryFires(r)
  BY <1>6 DEF RetryFires, Answer, Resolved, Refused, Tell, Possible
<1>7. CASE \E r \in Requests : RetryQuits(r)
  <2>1. PICK r \in Requests : RetryQuits(r)
    BY <1>7
  <2> SUFFICES ASSUME NEW q \in pending, Awaited(q), told[q] # "unsent", told[q] # "reply",
                      retry'[q] = None
               PROVE  told[q] = "retrying" /\ (~yolo \/ deadline = "passed")
    BY <2>1 DEF RetryQuits
  <2>2. told[q] = "retrying"
    BY DEF ToldOK
  <2>3. CASE retry[q] = None
    BY <2>2, <2>3
  <2>4. CASE retry[q] # None
    <3>1. q = r /\ ~StillMeant(q)
      BY <2>1, <2>4 DEF RetryQuits
    <3>2. mode \in {"chat", "working"}
      BY DEF OpenIsBusy
    <3> QED BY <2>2, <2>4, <3>1, <3>2 DEF StillMeant, Authorized, LeaseCurrent, Expired
  <2> QED BY <2>3, <2>4
<1>8. CASE CommandPermission
  BY <1>8 DEF CommandPermission, Answer, Tell, Possible
<1>9. CASE CommandYolo
  <2>1. CASE UNCHANGED queue /\ termination' # "none"
    BY <2>1
  <2>2. CASE \E outcome \in [pending -> Outcomes] :
               /\ Answer(pending, outcome, "closed")
               /\ pending' = pending \ Resolved(pending, outcome)
               /\ Schedule(Retryable(pending, outcome), TRUE)
               /\ Tell(Refused(pending, outcome), Retryable(pending, outcome))
    <3>1. PICK outcome \in [pending -> Outcomes] :
               /\ Answer(pending, outcome, "closed")
               /\ pending' = pending \ Resolved(pending, outcome)
               /\ Schedule(Retryable(pending, outcome), TRUE)
               /\ Tell(Refused(pending, outcome), Retryable(pending, outcome))
      BY <2>2
    <3> SUFFICES ASSUME NEW q \in pending'
                 PROVE  request'[q] # "open" \/ told'[q] = "reply" \/ retry'[q] # None
      BY DEF NotForgotten
    <3>2. q \in pending /\ outcome[q] \in Outcomes
      BY <3>1
    <3>3. CASE outcome[q] \in {"accepted", "stale"}
      BY <3>1, <3>2, <3>3 DEF Resolved
    <3>4. CASE outcome[q] = "lost"
      BY <3>1, <3>2, <3>4 DEF Answer
    <3>5. CASE outcome[q] = "refused"
      BY <3>1, <3>2, <3>5 DEF Tell, Refused
    <3>6. CASE outcome[q] = "failed"
      <4>1. retry'[q] = IF retry[q] = None THEN Capture(TRUE) ELSE retry[q]
        BY <3>1, <3>2, <3>6 DEF Schedule, Retryable
      <4> QED BY <4>1, CaptureIsTask
    <3> QED BY <3>2, <3>3, <3>4, <3>5, <3>6 DEF Outcomes
  <2> QED BY <1>9, <2>1, <2>2, Zenon DEF CommandYolo, StopAtDeadline
<1>10. CASE NewSession \/ SelectExtent
  BY <1>10 DEF NewSession, SelectExtent
<1>11. CASE Approve
  BY <1>11 DEF Approve, DropRequests
<1>12. CASE Revise
  BY <1>12 DEF Revise, DropRequests
<1>13. CASE Rotate
  BY <1>13 DEF Rotate, DropRequests
<1>14. CASE YoloOff \/ CommandStop \/ EndPursuit
  <2>1. CASE YoloOff
    BY <2>1 DEF YoloOff, ToldOK
  <2>2. CASE CommandStop
    BY <2>2 DEF CommandStop
  <2>3. CASE EndPursuit
    BY <2>3 DEF EndPursuit
  <2> QED BY <1>14, <2>1, <2>2, <2>3
<1>15. CASE EndTermination
  BY <1>15 DEF EndTermination, DropRequests
<1>16. CASE Restart
  <2> SUFFICES ASSUME NEW q \in pending, Awaited(q), told[q] # "unsent", told[q] # "reply",
                      retry'[q] = None
               PROVE  told[q] = "retrying" /\ (~yolo \/ deadline = "passed")
    BY <1>16 DEF Restart
  <2>1. told[q] = "retrying" /\ q \notin ineligible
    BY DEF ToldOK
  <2>2. ~Authorized(q)
    BY <1>16, <2>1, CaptureIsTask DEF Restart
  <2>3. CASE retry[q] = None
    BY <2>1, <2>3
  <2>4. CASE retry[q] # None
    <3>1. mode \in {"chat", "working"}
      BY DEF OpenIsBusy
    <3> QED BY <2>1, <2>2, <2>4, <3>1 DEF Authorized, LeaseCurrent, Expired
  <2> QED BY <2>3, <2>4
<1>17. CASE \/ StartTurn \/ Pursue \/ Continue
         \/ DeadlinePasses \/ DeadlineNoticed \/ BudgetExhausted
         \/ \E choice \in BOOLEAN : AnswerQuestion(choice)
  BY <1>17 DEF AnswerQuestion, StartTurn, Pursue, Continue, DeadlinePasses,
     DeadlineNoticed, StopAtDeadline, BudgetExhausted
<1>18. CASE UNCHANGED vars
  BY <1>18 DEF vars
<1>19. QED
  BY <1>1, <1>2, <1>3, <1>4, <1>5, <1>6, <1>7, <1>8, <1>9, <1>10, <1>11, <1>12, <1>13,
     <1>14, <1>15, <1>16, <1>17, <1>18
     DEF Next, OpenCode, Deliver, Retrying, User, Controller

\* A turn never waits for an answer that nobody gives, whatever is lost, fails or is
\* restarted (NotForgotten).
THEOREM NeverForgotten == Spec => []NotForgotten
<1>1. Init => Heard /\ Backed /\ NotForgotten
  BY DEF Init, Heard, Backed, NotForgotten
<1>2. TypeOK /\ QueueInv /\ (Heard /\ Backed /\ NotForgotten) /\ [Next]_vars
         => (Heard /\ Backed /\ NotForgotten)'
  <2> SUFFICES ASSUME TypeOK, QueueInv, Heard, Backed, NotForgotten, [Next]_vars
               PROVE  (Heard /\ Backed /\ NotForgotten)'
    OBVIOUS
  <2>1. Shape /\ ToldOK /\ RoomOK
    BY ShapeOfTypes, TypeParts
  <2>2. OpenIsBusy /\ SessionsAreNew /\ AskedOnce
    BY DEF QueueInv
  <2> QED BY <2>1, <2>2, HeardNext, BackedNext, ForgottenNext
<1>3. QED
  BY <1>1, <1>2, TypeCorrect, InvHolds, PTL DEF Spec
================================================================================
