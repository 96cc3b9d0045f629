---------------------------- MODULE ChatTurnProofs ----------------------------
(***************************************************************************)
(* Theorems about ChatTurn, for any number of turns: one turn at a time,   *)
(* complete stops and no turn unwatched, the last unless an error may come *)
(* late.  All rest on OneTurn: whatever goes on is the turn of the last    *)
(* progress message, and between asking OpenCode for the status and the    *)
(* prompt nothing can start.                                               *)
(***************************************************************************)
EXTENDS ChatTurn, SequenceTheorems, TLAPS

Kinds == {"idle", "error"}

TurnsOK ==
    /\ turn \in [Turns -> {Unstarted} \cup Going \cup Over]
    /\ staleBusy \in BOOLEAN

SwitchesOK ==
    /\ recovering \in BOOLEAN /\ stopping \in BOOLEAN
    /\ bumped \in BOOLEAN /\ confirmable \in BOOLEAN

FlagsOK ==
    /\ last \in 0..MaxTurn /\ inFlight \in {0, last}
    /\ (bumped \/ confirmable) => inFlight # 0
    /\ pc \in {"none", "continue", "prompt", "interrupt", "bump", "stop"}

\* The bound leaves room for the continuation of whatever is interrupted.
Continuable ==
    /\ \A t \in Turns : turn[t] = "hung" => t # MaxTurn
    /\ (recovering \/ bumped \/ pc = "continue") => last < MaxTurn
    /\ pc = "continue" => inFlight = 0 /\ ~recovering

\* What goes on is the last turn, and none of it is left when one is prompted.
OneTurn ==
    /\ \A t \in Turns : t > last => turn[t] = Unstarted
    /\ \A t \in Turns : Goes(t) => t = last
    /\ pc \in {"continue", "prompt"} => Idle
    /\ pc = "prompt" => inFlight = last /\ last # 0 /\ turn[last] = Unstarted

\* A turn leaves two events at most, and those only when it is over.
FewEvents ==
    /\ events \in Seq(Kinds)
    /\ Len(events) <= 2 * last
    /\ (pc = "prompt" \/ \E t \in Turns : Goes(t)) => Len(events) <= 2 * (last - 1)

\* An answered abort leaves turns of the same kinds.
LEMMA AbortTyped ==
  ASSUME TurnsOK, AbortTakesEffect
  PROVE  TurnsOK'
BY DEF TurnsOK, AbortTakesEffect, Over

\* OpenCode's turns keep their types.
LEMMA TurnsTyped ==
  ASSUME TurnsOK, FlagsOK, [Next]_vars
  PROVE  TurnsOK'
<1> USE DEF TurnsOK, FlagsOK, Turns, Going, Over, Unstarted, opencode
<1>1. CASE \E t \in Turns : TurnFinishes(t)
  BY <1>1 DEF TurnFinishes, Ends
<1>2. CASE \E t \in Turns : TurnFails(t)
  BY <1>2 DEF TurnFails, Ends
<1>3. CASE \E t \in Turns : TurnHangs(t)
  BY <1>3 DEF TurnHangs
<1>4. CASE \E t \in Turns : Activity(t)
  BY <1>4 DEF Activity
<1>5. CASE LoseEvents
  BY <1>5 DEF LoseEvents
<1>6. CASE Prompt
  BY <1>6 DEF Prompt, SendProgress
<1>7. CASE CommandBump
  BY <1>7 DEF CommandBump, AlreadyFinished, CompleteIdle, Finalize
<1>8. CASE BumpCancel
  BY <1>8 DEF BumpCancel
<1>9. CASE BumpConfirm
  BY <1>9 DEF BumpConfirm, AlreadyFinished, CompleteIdle, Finalize
<1>10. CASE CommandStop
  BY <1>10 DEF CommandStop
<1>11. CASE CommandNew
  BY <1>11 DEF CommandNew
<1>12. CASE Continue
  BY <1>12 DEF Continue, SendProgress
<1>13. CASE Submit
  BY <1>13 DEF Submit, Finalize
<1>14. CASE Deliver
  BY <1>14 DEF Deliver, HandleIdle, HandleError, CompleteIdle, Finalize, ResumeStop
<1>15. CASE Watchdog
  <2>1. AbortTakesEffect => TurnsOK'
    BY AbortTyped
  <2>2. UNCHANGED opencode => TurnsOK'
    OBVIOUS
  <2>3. AbortTakesEffect \/ UNCHANGED opencode
    BY <1>15 DEF Watchdog, WatchdogCompletes
  <2>4. QED
    BY <2>1, <2>2, <2>3
<1>16. CASE Interrupt
  <2>1. AbortTakesEffect => TurnsOK'
    BY AbortTyped
  <2>2. UNCHANGED opencode => TurnsOK'
    OBVIOUS
  <2>3. AbortTakesEffect \/ UNCHANGED opencode
    BY <1>16 DEF Interrupt, AbortRefused, AbortRaises
  <2>4. QED
    BY <2>1, <2>2, <2>3
<1>17. CASE BumpAbort
  <2>1. AbortTakesEffect => TurnsOK'
    BY AbortTyped
  <2>2. UNCHANGED opencode => TurnsOK'
    OBVIOUS
  <2>3. AbortTakesEffect \/ UNCHANGED opencode
    BY <1>17 DEF BumpAbort, AbortRefused, AbortRaises
  <2>4. QED
    BY <2>1, <2>2, <2>3
<1>18. CASE StopAttempt
  <2>1. AbortTakesEffect => TurnsOK'
    BY AbortTyped
  <2>2. UNCHANGED opencode => TurnsOK'
    OBVIOUS
  <2>3. AbortTakesEffect \/ UNCHANGED opencode
    BY <1>18 DEF StopAttempt, AbortRefused, AbortRaises
  <2>4. QED
    BY <2>1, <2>2, <2>3
<1>19. CASE Restart
  BY <1>19 DEF Restart, CompleteIdle, Finalize, ResumeStop
<1>20. CASE UNCHANGED vars
  BY <1>20 DEF vars
<1>21. QED
  BY <1>1, <1>2, <1>3, <1>4, <1>5, <1>6, <1>7, <1>8, <1>9, <1>10, <1>11, <1>12, <1>13,
     <1>14, <1>15, <1>16, <1>17, <1>18, <1>19, <1>20
     DEF Next, OpenCode, User, Bot

\* The room's flags do.
LEMMA SwitchesTyped ==
  ASSUME SwitchesOK, [Next]_vars
  PROVE  SwitchesOK'
<1> USE DEF SwitchesOK, room
<1>1. CASE \E t \in Turns : TurnFinishes(t)
  BY <1>1 DEF TurnFinishes, Ends
<1>2. CASE \E t \in Turns : TurnFails(t)
  BY <1>2 DEF TurnFails, Ends
<1>3. CASE \E t \in Turns : TurnHangs(t)
  BY <1>3 DEF TurnHangs
<1>4. CASE \E t \in Turns : Activity(t)
  BY <1>4 DEF Activity
<1>5. CASE LoseEvents
  BY <1>5 DEF LoseEvents
<1>6. CASE Prompt
  BY <1>6 DEF Prompt, SendProgress
<1>7. CASE CommandBump
  BY <1>7 DEF CommandBump, AlreadyFinished, CompleteIdle, Finalize
<1>8. CASE BumpCancel
  BY <1>8 DEF BumpCancel
<1>9. CASE BumpConfirm
  BY <1>9 DEF BumpConfirm, AlreadyFinished, CompleteIdle, Finalize
<1>10. CASE CommandStop
  BY <1>10 DEF CommandStop
<1>11. CASE CommandNew
  BY <1>11 DEF CommandNew
<1>12. CASE Continue
  BY <1>12 DEF Continue, SendProgress
<1>13. CASE Submit
  BY <1>13 DEF Submit, Finalize
<1>14. CASE Deliver
  BY <1>14 DEF Deliver, HandleIdle, HandleError, CompleteIdle, Finalize, ResumeStop
<1>15. CASE Watchdog
  BY <1>15 DEF Watchdog, WatchdogInterrupts, CompleteIdle, Finalize, ResumeStop
<1>16. CASE Interrupt
  BY <1>16 DEF Interrupt
<1>17. CASE BumpAbort
  BY <1>17 DEF BumpAbort
<1>18. CASE StopAttempt
  BY <1>18 DEF StopAttempt, FinishStop, Finalize
<1>19. CASE Restart
  BY <1>19 DEF Restart, CompleteIdle, Finalize, ResumeStop
<1>20. CASE UNCHANGED vars
  BY <1>20 DEF vars
<1>21. QED
  BY <1>1, <1>2, <1>3, <1>4, <1>5, <1>6, <1>7, <1>8, <1>9, <1>10, <1>11, <1>12, <1>13,
     <1>14, <1>15, <1>16, <1>17, <1>18, <1>19, <1>20
     DEF Next, OpenCode, User, Bot

\* So do its turn, its bump and its handler.
LEMMA FlagsTyped ==
  ASSUME FlagsOK, Continuable, [Next]_vars
  PROVE  FlagsOK'
<1> USE ChatAssumption DEF FlagsOK, Continuable, room
<1>1. CASE \E t \in Turns : TurnFinishes(t)
  BY <1>1 DEF TurnFinishes, Ends
<1>2. CASE \E t \in Turns : TurnFails(t)
  BY <1>2 DEF TurnFails, Ends
<1>3. CASE \E t \in Turns : TurnHangs(t)
  BY <1>3 DEF TurnHangs
<1>4. CASE \E t \in Turns : Activity(t)
  BY <1>4 DEF Activity
<1>5. CASE LoseEvents
  BY <1>5 DEF LoseEvents
<1>6. CASE Prompt
  BY <1>6 DEF Prompt, SendProgress
<1>7. CASE CommandBump
  BY <1>7 DEF CommandBump, AlreadyFinished, CompleteIdle, Finalize
<1>8. CASE BumpCancel
  BY <1>8 DEF BumpCancel
<1>9. CASE BumpConfirm
  BY <1>9 DEF BumpConfirm, AlreadyFinished, CompleteIdle, Finalize
<1>10. CASE CommandStop
  BY <1>10 DEF CommandStop
<1>11. CASE CommandNew
  BY <1>11 DEF CommandNew
<1>12. CASE Continue
  BY <1>12 DEF Continue, SendProgress
<1>13. CASE Submit
  BY <1>13 DEF Submit, Finalize
<1>14. CASE Deliver
  BY <1>14 DEF Deliver, HandleIdle, HandleError, CompleteIdle, Finalize, ResumeStop
<1>15. CASE Watchdog
  BY <1>15 DEF Watchdog, WatchdogInterrupts, CompleteIdle, Finalize, ResumeStop
<1>16. CASE Interrupt
  BY <1>16 DEF Interrupt
<1>17. CASE BumpAbort
  BY <1>17 DEF BumpAbort
<1>18. CASE StopAttempt
  BY <1>18 DEF StopAttempt, FinishStop, Finalize
<1>19. CASE Restart
  BY <1>19 DEF Restart, CompleteIdle, Finalize, ResumeStop
<1>20. CASE UNCHANGED vars
  BY <1>20 DEF vars
<1>21. QED
  BY <1>1, <1>2, <1>3, <1>4, <1>5, <1>6, <1>7, <1>8, <1>9, <1>10, <1>11, <1>12, <1>13,
     <1>14, <1>15, <1>16, <1>17, <1>18, <1>19, <1>20
     DEF Next, OpenCode, User, Bot

\* What is interrupted is not the last turn of the bound.
LEMMA ContinuableNext ==
  ASSUME TurnsOK, FlagsOK, OneTurn, Continuable, [Next]_vars
  PROVE  Continuable'
<1> USE ChatAssumption DEF TurnsOK, FlagsOK, OneTurn, Continuable, Turns, Unstarted, Going,
        Goes, Idle, opencode, room
<1>1. CASE \E t \in Turns : TurnFinishes(t)
  BY <1>1 DEF TurnFinishes, Ends
<1>2. CASE \E t \in Turns : TurnFails(t)
  BY <1>2 DEF TurnFails, Ends
<1>3. CASE \E t \in Turns : TurnHangs(t)
  BY <1>3 DEF TurnHangs
<1>4. CASE \E t \in Turns : Activity(t)
  BY <1>4 DEF Activity
<1>5. CASE LoseEvents
  BY <1>5 DEF LoseEvents
<1>6. CASE Prompt
  BY <1>6 DEF Prompt, SendProgress
<1>7. CASE CommandBump
  BY <1>7 DEF CommandBump, AlreadyFinished, CompleteIdle, Finalize
<1>8. CASE BumpCancel
  BY <1>8 DEF BumpCancel
<1>9. CASE BumpConfirm
  BY <1>9 DEF BumpConfirm, AlreadyFinished, CompleteIdle, Finalize
<1>10. CASE CommandStop
  BY <1>10 DEF CommandStop
<1>11. CASE CommandNew
  BY <1>11 DEF CommandNew
<1>12. CASE Continue
  BY <1>12 DEF Continue, SendProgress
<1>13. CASE Submit
  BY <1>13 DEF Submit, Finalize
<1>14. CASE Deliver
  BY <1>14 DEF Deliver, HandleIdle, HandleError, CompleteIdle, Finalize, ResumeStop
<1>15. CASE Watchdog
  BY <1>15 DEF Watchdog, WatchdogCompletes, WatchdogInterrupts, CompletedUnder,
     CompleteIdle, Finalize, ResumeStop, AbortTakesEffect
<1>16. CASE Interrupt
  BY <1>16 DEF Interrupt, AbortTakesEffect, AbortRefused, AbortRaises
<1>17. CASE BumpAbort
  BY <1>17 DEF BumpAbort, AbortTakesEffect, AbortRefused, AbortRaises
<1>18. CASE StopAttempt
  BY <1>18 DEF StopAttempt, FinishStop, Finalize, AbortTakesEffect, AbortRefused,
     AbortRaises
<1>19. CASE Restart
  BY <1>19 DEF Restart, CompleteIdle, Finalize, ResumeStop
<1>20. CASE UNCHANGED vars
  BY <1>20 DEF vars
<1>21. QED
  BY <1>1, <1>2, <1>3, <1>4, <1>5, <1>6, <1>7, <1>8, <1>9, <1>10, <1>11, <1>12, <1>13,
     <1>14, <1>15, <1>16, <1>17, <1>18, <1>19, <1>20
     DEF Next, OpenCode, User, Bot

\* A turn starts with a new progress message only, when the session is idle.
LEMMA OneTurnNext ==
  ASSUME TurnsOK, FlagsOK, Continuable, OneTurn, [Next]_vars
  PROVE  OneTurn'
<1> USE ChatAssumption DEF TurnsOK, FlagsOK, Continuable, OneTurn, Turns, Going, Over, Unstarted, Goes,
        Idle, opencode, room
<1>1. CASE \E t \in Turns : TurnFinishes(t)
  BY <1>1 DEF TurnFinishes, Ends
<1>2. CASE \E t \in Turns : TurnFails(t)
  BY <1>2 DEF TurnFails, Ends
<1>3. CASE \E t \in Turns : TurnHangs(t)
  BY <1>3 DEF TurnHangs
<1>4. CASE \E t \in Turns : Activity(t)
  BY <1>4 DEF Activity
<1>5. CASE LoseEvents
  BY <1>5 DEF LoseEvents
<1>6. CASE Prompt
  BY <1>6 DEF Prompt, SendProgress
<1>7. CASE CommandBump
  BY <1>7 DEF CommandBump, AlreadyFinished, CompleteIdle, Finalize
<1>8. CASE BumpCancel
  BY <1>8 DEF BumpCancel
<1>9. CASE BumpConfirm
  BY <1>9 DEF BumpConfirm, AlreadyFinished, CompleteIdle, Finalize
<1>10. CASE CommandStop
  BY <1>10 DEF CommandStop
<1>11. CASE CommandNew
  BY <1>11 DEF CommandNew
<1>12. CASE Continue
  BY <1>12 DEF Continue, SendProgress
<1>13. CASE Submit
  BY <1>13 DEF Submit, Finalize
<1>14. CASE Deliver
  BY <1>14 DEF Deliver, HandleIdle, HandleError, CompleteIdle, Finalize, ResumeStop
<1>15. CASE Watchdog
  BY <1>15 DEF Watchdog, WatchdogCompletes, WatchdogInterrupts, CompletedUnder,
     CompleteIdle, Finalize, ResumeStop, AbortTakesEffect
<1>16. CASE Interrupt
  BY <1>16 DEF Interrupt, AbortTakesEffect, AbortRefused, AbortRaises
<1>17. CASE BumpAbort
  BY <1>17 DEF BumpAbort, AbortTakesEffect, AbortRefused, AbortRaises
<1>18. CASE StopAttempt
  BY <1>18 DEF StopAttempt, FinishStop, Finalize, AbortTakesEffect, AbortRefused,
     AbortRaises
<1>19. CASE Restart
  BY <1>19 DEF Restart, CompleteIdle, Finalize, ResumeStop
<1>20. CASE UNCHANGED vars
  BY <1>20 DEF vars
<1>21. QED
  BY <1>1, <1>2, <1>3, <1>4, <1>5, <1>6, <1>7, <1>8, <1>9, <1>10, <1>11, <1>12, <1>13,
     <1>14, <1>15, <1>16, <1>17, <1>18, <1>19, <1>20
     DEF Next, OpenCode, User, Bot

------------------------------------------------------------------------------
(* Events.                                                                 *)

\* A failed turn adds an error, then an idle event.
LEMMA EmitErrorAdds ==
  ASSUME events \in Seq(Kinds), EmitError
  PROVE  /\ events' \in Seq(Kinds)
         /\ Len(events') <= Len(events) + 2
         /\ "late" \notin Disturbances => events' = <<"error", "idle">>
<1>1. <<"error", "idle">> \in Seq(Kinds) /\ Len(<<"error", "idle">>) = 2
  BY DEF Kinds
<1>2. \A two \in Seq(Kinds) : <<>> \o two = two
  BY ConcatEmptySeq
<1>3. \A two \in Seq(Kinds) : /\ events \o two \in Seq(Kinds)
                              /\ Len(events \o two) = Len(events) + Len(two)
  BY ConcatProperties
<1>4. Len(events) \in Nat
  OBVIOUS
<1>5. CASE "late" \in Disturbances
  <2>1. events' = events \o <<"error", "idle">>
    BY <1>5 DEF EmitError
  <2>2. QED
    BY <1>1, <1>3, <1>4, <1>5, <2>1
<1>6. CASE "late" \notin Disturbances
  <2>1. events' = <<"error", "idle">>
    BY <1>1, <1>2, <1>6 DEF EmitError
  <2>2. QED
    BY <1>1, <1>4, <2>1
<1>7. QED
  BY <1>5, <1>6

\* An idle event brings no error.
LEMMA IdleAdds ==
  ASSUME events \in Seq(Kinds), events' = Append(events, "idle")
  PROVE  /\ events' \in Seq(Kinds) /\ Len(events') = Len(events) + 1
         /\ \A i \in DOMAIN events' : events'[i] = "error" => i \in DOMAIN events /\ events[i] = "error"
BY DEF Kinds

\* What is delivered leaves the rest in its order.
LEMMA DeliveredLeaves ==
  ASSUME events \in Seq(Kinds), events # <<>>, events' = Tail(events)
  PROVE  /\ events' \in Seq(Kinds) /\ Len(events') = Len(events) - 1
         /\ \A i \in DOMAIN events' : i + 1 \in DOMAIN events /\ events'[i] = events[i + 1]
BY DEF Kinds

\* An empty stream.
LEMMA NoneIsFew == <<>> \in Seq(Kinds) /\ Len(<<>>) = 0
BY DEF Kinds

\* An answered abort bounds the stream as it ends the turn.
LEMMA AbortLeavesFew ==
  ASSUME FlagsOK, OneTurn, FewEvents, AbortTakesEffect, last' = last, pc' # "prompt"
  PROVE  FewEvents'
<1> USE ChatAssumption DEF FlagsOK, OneTurn, FewEvents, Turns
<1>1. \A t \in Turns : ~Goes(t)'
  BY DEF AbortTakesEffect, Goes, Going
<1>2. CASE \E t \in Turns : Goes(t)
  <2>1. events' \in Seq(Kinds) /\ Len(events') <= Len(events) + 2
    BY <1>2, EmitErrorAdds DEF AbortTakesEffect
  <2>2. Len(events) \in Nat /\ Len(events') \in Nat /\ Len(events) <= 2 * (last - 1)
    BY <1>2, <2>1
  <2>3. QED
    BY <1>1, <2>1, <2>2
<1>3. CASE UNCHANGED events
  BY <1>1, <1>3
<1>4. QED
  BY <1>2, <1>3 DEF AbortTakesEffect

\* The stream holds two events of each turn that is over.
LEMMA FewEventsNext ==
  ASSUME TurnsOK, FlagsOK, Continuable, OneTurn, FewEvents, [Next]_vars
  PROVE  FewEvents'
<1> USE ChatAssumption, NoneIsFew
        DEF TurnsOK, FlagsOK, Continuable, OneTurn, FewEvents, Turns, Going, Over, Unstarted, Goes,
        Idle, opencode, room
<1>1. CASE \E t \in Turns : TurnFinishes(t)
  <2>1. PICK t \in Turns : TurnFinishes(t)
    BY <1>1
  <2>2. events' \in Seq(Kinds) /\ Len(events') = Len(events) + 1
    BY <2>1, IdleAdds DEF TurnFinishes
  <2>3. t = last /\ last' = last /\ pc' = pc /\ pc # "prompt" /\ \A q \in Turns : ~Goes(q)'
    BY <2>1 DEF TurnFinishes, Ends
  <2>4. Len(events) \in Nat /\ Len(events) <= 2 * (last - 1)
    BY <2>1, <2>3 DEF TurnFinishes, Ends
  <2>5. QED
    BY <2>2, <2>3, <2>4
<1>2. CASE \E t \in Turns : TurnFails(t)
  <2>1. PICK t \in Turns : TurnFails(t)
    BY <1>2
  <2>2. events' \in Seq(Kinds) /\ Len(events') <= Len(events) + 2
    BY <2>1, EmitErrorAdds DEF TurnFails
  <2>3. t = last /\ last' = last /\ pc' = pc /\ pc # "prompt" /\ \A q \in Turns : ~Goes(q)'
    BY <2>1 DEF TurnFails, Ends
  <2>4. Len(events) \in Nat /\ Len(events') \in Nat /\ Len(events) <= 2 * (last - 1)
    BY <2>1, <2>2, <2>3 DEF TurnFails, Ends
  <2>5. QED
    BY <2>2, <2>3, <2>4
<1>3. CASE \E t \in Turns : TurnHangs(t)
  BY <1>3 DEF TurnHangs
<1>4. CASE \E t \in Turns : Activity(t)
  BY <1>4 DEF Activity
<1>5. CASE LoseEvents
  BY <1>5 DEF LoseEvents
<1>6. CASE Prompt
  BY <1>6 DEF Prompt, SendProgress
<1>7. CASE CommandBump
  BY <1>7 DEF CommandBump, AlreadyFinished, CompleteIdle, Finalize
<1>8. CASE BumpCancel
  BY <1>8 DEF BumpCancel
<1>9. CASE BumpConfirm
  BY <1>9 DEF BumpConfirm, AlreadyFinished, CompleteIdle, Finalize
<1>10. CASE CommandStop
  BY <1>10 DEF CommandStop
<1>11. CASE CommandNew
  BY <1>11 DEF CommandNew
<1>12. CASE Continue
  BY <1>12 DEF Continue, SendProgress
<1>13. CASE Submit
  BY <1>13 DEF Submit, Finalize
<1>14. CASE Deliver
  BY <1>14 DEF Deliver, HandleIdle, HandleError, CompleteIdle, Finalize, ResumeStop
<1>15. CASE Watchdog
  BY <1>15 DEF Watchdog, WatchdogCompletes, WatchdogInterrupts, CompletedUnder,
     CompleteIdle, Finalize, ResumeStop, AbortTakesEffect
<1>16. CASE Interrupt
  <2>1. CASE AbortTakesEffect
    BY <1>16, <2>1, AbortLeavesFew DEF Interrupt
  <2>2. CASE UNCHANGED opencode
    BY <1>16, <2>2 DEF Interrupt, AbortRefused, AbortRaises
  <2>3. QED
    BY <1>16, <2>1, <2>2 DEF Interrupt, AbortRefused, AbortRaises
<1>17. CASE BumpAbort
  <2>1. CASE AbortTakesEffect
    BY <1>17, <2>1, AbortLeavesFew DEF BumpAbort
  <2>2. CASE UNCHANGED opencode
    BY <1>17, <2>2 DEF BumpAbort, AbortRefused, AbortRaises
  <2>3. QED
    BY <1>17, <2>1, <2>2 DEF BumpAbort, AbortRefused, AbortRaises
<1>18. CASE StopAttempt
  <2>1. CASE AbortTakesEffect
    BY <1>18, <2>1, AbortLeavesFew DEF StopAttempt, FinishStop
  <2>2. CASE UNCHANGED opencode
    BY <1>18, <2>2 DEF StopAttempt, FinishStop, Finalize, AbortRefused, AbortRaises
  <2>3. QED
    BY <1>18, <2>1, <2>2 DEF StopAttempt, AbortRefused, AbortRaises
<1>19. CASE Restart
  BY <1>19 DEF Restart, CompleteIdle, Finalize, ResumeStop
<1>20. CASE UNCHANGED vars
  BY <1>20 DEF vars
<1>21. QED
  BY <1>1, <1>2, <1>3, <1>4, <1>5, <1>6, <1>7, <1>8, <1>9, <1>10, <1>11, <1>12, <1>13,
     <1>14, <1>15, <1>16, <1>17, <1>18, <1>19, <1>20
     DEF Next, OpenCode, User, Bot

------------------------------------------------------------------------------
(* Theorems.                                                               *)

ChatInv == TurnsOK /\ SwitchesOK /\ FlagsOK /\ Continuable /\ OneTurn /\ FewEvents

\* A room that has just been opened.
LEMMA InvInit == Init => ChatInv
<1> SUFFICES ASSUME Init PROVE ChatInv
  OBVIOUS
<1> USE ChatAssumption DEF Init
<1>1. TurnsOK
  BY DEF TurnsOK, Unstarted
<1>2. SwitchesOK
  BY DEF SwitchesOK
<1>3. FlagsOK
  BY DEF FlagsOK
<1>4. Continuable
  BY DEF Continuable, Unstarted
<1>5. OneTurn
  BY DEF OneTurn, Goes, Going, Unstarted
<1>6. FewEvents
  BY NoneIsFew DEF FewEvents, Goes, Going, Unstarted
<1>7. QED
  BY <1>1, <1>2, <1>3, <1>4, <1>5, <1>6 DEF ChatInv

\* Every action keeps the invariant: its parts rest on one another.
LEMMA InvNext == ChatInv /\ [Next]_vars => ChatInv'
BY TurnsTyped, SwitchesTyped, FlagsTyped, ContinuableNext, OneTurnNext, FewEventsNext
   DEF ChatInv

\* The invariant holds in every state.
LEMMA InvHolds == Spec => []ChatInv
BY InvInit, InvNext, PTL DEF Spec

\* Turns, events and the room's fields keep their types (TypeOK).
THEOREM TypeCorrect == Spec => []TypeOK
<1>1. ChatInv => TypeOK
  <2> SUFFICES ASSUME ChatInv PROVE TypeOK
    OBVIOUS
  <2>1. Len(events) <= 2 * MaxTurn
    BY ChatAssumption DEF ChatInv, FewEvents, FlagsOK
  <2>2. events \in Seq({"idle", "error"})
    BY DEF ChatInv, FewEvents, Kinds
  <2>3. QED
    BY <2>1, <2>2, Zenon DEF ChatInv, TurnsOK, SwitchesOK, FlagsOK, TypeOK
<1>2. QED
  BY <1>1, InvHolds, PTL

\* README.md:152: a turn starts only when no other goes on (OnePromptAtATime).
THEOREM PromptsSound == Spec => OnePromptAtATime
<1>1. ChatInv /\ [Next]_vars
         => [ \A t \in Turns : (turn[t] = Unstarted /\ Goes(t)') => Idle ]_vars
  <2> SUFFICES ASSUME ChatInv, Next, NEW t \in Turns, turn[t] = Unstarted, Goes(t)'
               PROVE  Idle
    OBVIOUS
  <2>1. turn'[t] \in Going /\ turn[t] \notin Going
    BY DEF Goes, Going, Unstarted
  <2>2. CASE Submit
    BY <2>2 DEF Submit, ChatInv, OneTurn
  <2>3. CASE ~Submit
    <3> USE <2>1, <2>3 DEF ChatInv, TurnsOK, opencode, Going, Over
    <3>1. CASE \E u \in Turns : TurnFinishes(u)
      BY <3>1 DEF TurnFinishes, Ends
    <3>2. CASE \E u \in Turns : TurnFails(u)
      BY <3>2 DEF TurnFails, Ends
    <3>3. CASE \E u \in Turns : TurnHangs(u)
      BY <3>3 DEF TurnHangs
    <3>4. CASE \E u \in Turns : Activity(u)
      BY <3>4 DEF Activity
    <3>5. CASE LoseEvents
      BY <3>5 DEF LoseEvents
    <3>6. CASE Prompt
      BY <3>6 DEF Prompt, SendProgress
    <3>7. CASE CommandBump
      BY <3>7 DEF CommandBump, AlreadyFinished, CompleteIdle, Finalize
    <3>8. CASE BumpCancel
      BY <3>8 DEF BumpCancel
    <3>9. CASE BumpConfirm
      BY <3>9 DEF BumpConfirm, AlreadyFinished, CompleteIdle, Finalize
    <3>10. CASE CommandStop
      BY <3>10 DEF CommandStop
    <3>11. CASE CommandNew
      BY <3>11 DEF CommandNew
    <3>12. CASE Continue
      BY <3>12 DEF Continue, SendProgress
    <3>13. CASE Deliver
      BY <3>13 DEF Deliver, HandleIdle, HandleError, CompleteIdle, Finalize, ResumeStop
    <3>14. CASE Watchdog
      BY <3>14 DEF Watchdog, WatchdogCompletes, WatchdogInterrupts, CompletedUnder,
         CompleteIdle, Finalize, ResumeStop, AbortTakesEffect
    <3>15. CASE Interrupt
      BY <3>15 DEF Interrupt, AbortTakesEffect, AbortRefused, AbortRaises
    <3>16. CASE BumpAbort
      BY <3>16 DEF BumpAbort, AbortTakesEffect, AbortRefused, AbortRaises
    <3>17. CASE StopAttempt
      BY <3>17 DEF StopAttempt, FinishStop, Finalize, AbortTakesEffect, AbortRefused,
         AbortRaises
    <3>18. CASE Restart
      BY <3>18 DEF Restart, CompleteIdle, Finalize, ResumeStop
    <3>19. QED
      BY <3>1, <3>2, <3>3, <3>4, <3>5, <3>6, <3>7, <3>8, <3>9, <3>10, <3>11, <3>12,
         <3>13, <3>14, <3>15, <3>16, <3>17, <3>18
         DEF Next, OpenCode, User, Bot
  <2>4. QED
    BY <2>2, <2>3
<1>2. QED
  BY <1>1, InvHolds, PTL DEF Spec, OnePromptAtATime

\* A stop that is reported as done has ended everything (StopIsComplete).
THEOREM StopsSound == Spec => StopIsComplete
<1>1. ChatInv /\ [Next]_vars
         => [ (stopping /\ ~stopping') => /\ Idle'
                                          /\ inFlight' = 0 /\ ~recovering' /\ ~bumped' ]_vars
  <2> SUFFICES ASSUME ChatInv, Next, stopping, ~stopping'
               PROVE  Idle' /\ inFlight' = 0 /\ ~recovering' /\ ~bumped'
    OBVIOUS
  <2>1. StopAttempt \/ CommandNew
    BY DEF Next, OpenCode, User, Bot, 
       TurnFinishes, Ends, TurnFails, TurnHangs, Activity, LoseEvents, Prompt,
       SendProgress, CommandBump, AlreadyFinished, CompleteIdle, Finalize,
       BumpCancel, BumpConfirm, CommandStop, CommandNew, Continue, Submit,
       Deliver, HandleIdle, HandleError, ResumeStop, Watchdog,
       WatchdogCompletes, WatchdogInterrupts, CompletedUnder, AbortTakesEffect,
       Interrupt, AbortRefused, AbortRaises, BumpAbort, StopAttempt, FinishStop,
       Restart, room, opencode
  <2>2. CASE StopAttempt
    <3>1. FinishStop /\ (AbortTakesEffect \/ (Idle /\ UNCHANGED opencode))
      BY <2>2 DEF StopAttempt, room
    <3>2. Idle'
      BY <3>1 DEF AbortTakesEffect, Idle, Goes, Going, opencode
    <3>3. QED
      BY <3>1, <3>2 DEF FinishStop, Finalize
  <2>3. CASE CommandNew
    BY <2>3 DEF CommandNew, Idle, Goes, ChatInv, FlagsOK, SwitchesOK
  <2>4. QED
    BY <2>1, <2>2, <2>3
<1>2. QED
  BY <1>1, InvHolds, PTL DEF Spec, StopIsComplete

------------------------------------------------------------------------------
(* The watch.                                                              *)

HasError == \E i \in DOMAIN events : events[i] = "error"

\* An error is the first of the events, of a turn that nothing has followed yet.
WatchInv ==
    /\ EveryTurnIsWatched
    /\ \A i \in DOMAIN events : events[i] = "error" => i = 1
    /\ HasError => /\ \A t \in Turns : turn[t] \notin {"running", "hung"}
                   /\ pc \notin {"continue", "prompt"}

\* An empty stream holds no error.
LEMMA NoErrorInNothing == ASSUME events' = <<>> PROVE DOMAIN events' = {}
OBVIOUS

\* An answered abort leaves nothing to watch.
LEMMA AbortLeavesNothing ==
  ASSUME "late" \notin Disturbances, ChatInv, WatchInv, AbortTakesEffect,
         pc' \notin {"continue", "prompt"}
  PROVE  WatchInv'
<1> USE DEF WatchInv, HasError, EveryTurnIsWatched
<1>1. \A t \in Turns : turn'[t] \notin {"running", "hung"}
  BY DEF AbortTakesEffect, Goes, Going
<1>2. CASE EmitError
  <2>1. events' = <<"error", "idle">>
    BY <1>2, EmitErrorAdds DEF ChatInv, FewEvents
  <2>2. \A i \in DOMAIN events' : events'[i] = "error" => i = 1
    BY <2>1
  <2>3. QED
    BY <1>1, <2>2
<1>3. CASE UNCHANGED events
  BY <1>1, <1>3
<1>4. QED
  BY <1>2, <1>3 DEF AbortTakesEffect

\* Every action that leaves a turn unfinished leaves someone who watches it.
LEMMA WatchNext ==
  ASSUME "late" \notin Disturbances, ChatInv, WatchInv, [Next]_vars
  PROVE  WatchInv'
<1> USE ChatAssumption
        DEF ChatInv, TurnsOK, FlagsOK, OneTurn, FewEvents, WatchInv, EveryTurnIsWatched, HasError,
            Turns, Going, Over, Unstarted, Goes, Idle, ErrorsArrived, opencode, room
<1>1. CASE \E t \in Turns : TurnFinishes(t)
  <2>1. PICK t \in Turns : TurnFinishes(t)
    BY <1>1
  <2>2. \A i \in DOMAIN events' : events'[i] = "error" => i \in DOMAIN events /\ events[i] = "error"
    BY <2>1, IdleAdds DEF TurnFinishes
  <2>3. /\ turn' = [turn EXCEPT ![t] = "finished"] /\ pc' = pc /\ inFlight' = inFlight
    BY <2>1 DEF TurnFinishes, Ends
  <2>4. QED
    BY <2>2, <2>3
<1>2. CASE \E t \in Turns : TurnFails(t)
  <2>1. PICK t \in Turns : TurnFails(t)
    BY <1>2
  <2>2. events' = <<"error", "idle">>
    BY <2>1, EmitErrorAdds DEF TurnFails
  <2>3. \A i \in DOMAIN events' : events'[i] = "error" => i = 1
    BY <2>2
  <2>4. \A q \in Turns : turn'[q] \notin {"running", "hung"}
    BY <2>1 DEF TurnFails, Ends
  <2>5. pc' = pc /\ pc \notin {"continue", "prompt"}
    BY <2>1 DEF TurnFails, Ends
  <2>6. QED
    BY <2>3, <2>4, <2>5
<1>3. CASE \E t \in Turns : TurnHangs(t)
  BY <1>3 DEF TurnHangs
<1>4. CASE \E t \in Turns : Activity(t)
  BY <1>4 DEF Activity
<1>5. CASE LoseEvents
  <2>1. DOMAIN events' = {}
    BY <1>5, NoErrorInNothing DEF LoseEvents
  <2>2. QED
    BY <1>5, <2>1 DEF LoseEvents
<1>6. CASE Prompt
  BY <1>6 DEF Prompt, SendProgress
<1>7. CASE CommandBump
  BY <1>7 DEF CommandBump, AlreadyFinished, CompleteIdle, Finalize
<1>8. CASE BumpCancel
  BY <1>8 DEF BumpCancel
<1>9. CASE BumpConfirm
  BY <1>9 DEF BumpConfirm, AlreadyFinished, CompleteIdle, Finalize
<1>10. CASE CommandStop
  BY <1>10 DEF CommandStop
<1>11. CASE CommandNew
  <2>1. DOMAIN events' = {}
    BY <1>11, NoErrorInNothing DEF CommandNew
  <2>2. QED
    BY <1>11, <2>1 DEF CommandNew
<1>12. CASE Continue
  BY <1>12 DEF Continue, SendProgress
<1>13. CASE Submit
  BY <1>13 DEF Submit, Finalize
<1>14. CASE Deliver
  <2>1. \A i \in DOMAIN events' : i + 1 \in DOMAIN events /\ events'[i] = events[i + 1] /\ i \in Nat \ {0}
    BY <1>14, DeliveredLeaves DEF Deliver
  <2>2. \A i \in DOMAIN events' : events'[i] # "error"
    BY <2>1
  <2>3. CASE Head(events) = "idle"
    BY <1>14, <2>2, <2>3 DEF Deliver, HandleIdle, CompleteIdle, Finalize, ResumeStop
  <2>4. CASE Head(events) # "idle"
    <3>1. events[1] = "error" /\ 1 \in DOMAIN events
      BY <1>14, <2>4 DEF Deliver, Kinds
    <3>2. \A t \in Turns : turn'[t] \notin {"running", "hung"}
      BY <1>14, <3>1 DEF Deliver
    <3>3. QED
      BY <2>2, <3>2
  <2>5. QED
    BY <2>3, <2>4
<1>15. CASE Watchdog
  <2>1. ~HasError
    BY <1>15 DEF Watchdog, ErrorsArrived
  <2>2. CASE WatchdogCompletes /\ CompleteIdle
    <3>1. \A t \in Turns : ~Goes(t)
      BY <2>2 DEF WatchdogCompletes, CompletedUnder
    <3>2. UNCHANGED events /\ \A t \in Turns : turn'[t] = turn[t]
      BY <2>2, <3>1 DEF WatchdogCompletes, AbortTakesEffect
    <3>3. QED
      BY <2>1, <3>1, <3>2
  <2>3. CASE /\ UNCHANGED opencode /\ inFlight' = inFlight
    BY <2>1, <2>3
  <2>4. QED
    BY <1>15, <2>2, <2>3 DEF Watchdog, WatchdogInterrupts, ResumeStop
<1>16. CASE Interrupt
  <2>1. CASE AbortTakesEffect
    BY <1>16, <2>1, AbortLeavesNothing DEF Interrupt
  <2>2. CASE UNCHANGED opencode
    BY <1>16, <2>2 DEF Interrupt, AbortRefused, AbortRaises
  <2>3. QED
    BY <1>16, <2>1, <2>2 DEF Interrupt, AbortRefused, AbortRaises
<1>17. CASE BumpAbort
  <2>1. CASE AbortTakesEffect
    BY <1>17, <2>1, AbortLeavesNothing DEF BumpAbort
  <2>2. CASE UNCHANGED opencode
    BY <1>17, <2>2 DEF BumpAbort, AbortRefused, AbortRaises
  <2>3. QED
    BY <1>17, <2>1, <2>2 DEF BumpAbort, AbortRefused, AbortRaises
<1>18. CASE StopAttempt
  <2>1. CASE AbortTakesEffect
    BY <1>18, <2>1, AbortLeavesNothing DEF StopAttempt, FinishStop
  <2>2. CASE UNCHANGED opencode /\ pc' = "none" /\ Idle
    <3>1. \A t \in Turns : turn[t] \notin {"running", "hung"}
      BY <2>2
    <3>2. QED
      BY <2>2, <3>1
  <2>3. CASE UNCHANGED opencode /\ pc' = "none" /\ UNCHANGED room
    BY <2>3
  <2>4. QED
    BY <1>18, <2>1, <2>2, <2>3 DEF StopAttempt, FinishStop, AbortRefused, AbortRaises
<1>19. CASE Restart
  <2>1. DOMAIN events' = {}
    BY <1>19, NoErrorInNothing DEF Restart
  <2>2. QED
    BY <1>19, <2>1 DEF Restart, CompleteIdle, Finalize, ResumeStop
<1>20. CASE UNCHANGED vars
  BY <1>20 DEF vars
<1>21. QED
  BY <1>1, <1>2, <1>3, <1>4, <1>5, <1>6, <1>7, <1>8, <1>9, <1>10, <1>11, <1>12, <1>13,
     <1>14, <1>15, <1>16, <1>17, <1>18, <1>19, <1>20
     DEF Next, OpenCode, User, Bot

\* Without late errors, a turn that the bot submitted and that goes on has the progress
\* message its answer will replace (EveryTurnIsWatched).
THEOREM TurnsWatched ==
  ASSUME "late" \notin Disturbances
  PROVE  Spec => []EveryTurnIsWatched
<1>1. Init => WatchInv
  BY DEF Init, WatchInv, HasError, EveryTurnIsWatched, Unstarted
<1>2. ChatInv /\ WatchInv /\ [Next]_vars => WatchInv'
  BY WatchNext
<1>3. WatchInv => EveryTurnIsWatched
  BY DEF WatchInv
<1>4. QED
  BY <1>1, <1>2, <1>3, InvHolds, PTL DEF Spec

------------------------------------------------------------------------------
(* The status.                                                             *)

\* Whatever makes the session busy while a progress message is out, the watchdog can
\* tell: the message's own turn, which ends or hangs, or a stale status over its
\* completed answer (README.md:313-315); never what it would wait for in vain.
BusyIsExplained ==
    (inFlight # 0 /\ ~Idle) => Goes(inFlight) \/ CompletedUnder(inFlight)

\* A stale status is of the last turn, which finished: it is cleared before another
\* prompt, and by the turn that prompt starts.
StaleInv == staleBusy => last # 0 /\ turn[last] = "finished"

\* Only a turn that finishes leaves its status behind, and none follows it before.
LEMMA StaleNext ==
  ASSUME ChatInv, StaleInv, [Next]_vars
  PROVE  StaleInv'
<1> USE ChatAssumption
        DEF ChatInv, TurnsOK, FlagsOK, OneTurn, Continuable, StaleInv,
            Turns, Going, Over, Unstarted, Goes, Idle, opencode, room
<1>1. CASE \E t \in Turns : TurnFinishes(t)
  BY <1>1 DEF TurnFinishes, Ends
<1>2. CASE \E t \in Turns : TurnFails(t)
  BY <1>2 DEF TurnFails, Ends
<1>3. CASE \E t \in Turns : TurnHangs(t)
  BY <1>3 DEF TurnHangs
<1>4. CASE \E t \in Turns : Activity(t)
  BY <1>4 DEF Activity
<1>5. CASE LoseEvents
  BY <1>5 DEF LoseEvents
<1>6. CASE Prompt
  BY <1>6 DEF Prompt, SendProgress
<1>7. CASE CommandBump \/ BumpCancel \/ BumpConfirm \/ CommandStop \/ CommandNew
  BY <1>7 DEF CommandBump, BumpCancel, BumpConfirm, CommandStop, CommandNew
<1>8. CASE Continue
  BY <1>8 DEF Continue, SendProgress
<1>9. CASE Submit
  BY <1>9 DEF Submit
<1>10. CASE Deliver
  BY <1>10 DEF Deliver
<1>11. CASE Watchdog
  BY <1>11 DEF Watchdog, WatchdogCompletes, AbortTakesEffect
<1>12. CASE Interrupt \/ BumpAbort
  BY <1>12 DEF Interrupt, BumpAbort, AbortTakesEffect, AbortRefused, AbortRaises
<1>13. CASE StopAttempt
  BY <1>13 DEF StopAttempt, AbortTakesEffect, AbortRefused, AbortRaises
<1>14. CASE Restart
  BY <1>14 DEF Restart
<1>15. CASE UNCHANGED vars
  BY <1>15 DEF vars
<1> QED
  BY <1>1, <1>2, <1>3, <1>4, <1>5, <1>6, <1>7, <1>8, <1>9, <1>10, <1>11, <1>12, <1>13,
     <1>14, <1>15 DEF Next, OpenCode, User, Bot

\* For any number of turns and every disturbance, late errors among them: as long as a
\* progress message waits for its answer, the session is busy with nothing but the
\* message's turn, or with a status the watchdog knows to be stale.
THEOREM WatchdogUnderstands == Spec => []BusyIsExplained
<1>1. Init => StaleInv
  BY DEF Init, StaleInv
<1>2. ChatInv /\ StaleInv /\ [Next]_vars => StaleInv'
  BY StaleNext
<1>3. ChatInv /\ StaleInv => BusyIsExplained
  BY DEF ChatInv, OneTurn, FlagsOK, StaleInv, BusyIsExplained, Idle, CompletedUnder
<1> QED
  BY <1>1, <1>2, <1>3, InvHolds, PTL DEF Spec
================================================================================
