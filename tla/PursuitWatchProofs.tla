-------------------------- MODULE PursuitWatchProofs --------------------------
(***************************************************************************)
(* What goes on with a pursuit, for as many disturbances as it holds with. *)
(* No turn runs unwatched, and none starts beside another, unless the      *)
(* answer to a prompt is lost or the user replaces the session of a        *)
(* pursuit that is ending (Watchable).  A pending stop starts no turn,     *)
(* unless an outage leaves it pending without one (Stoppable).  And while  *)
(* no handler dies in the middle of an exception, something always takes   *)
(* the pursuit further (Carriable).                                        *)
(***************************************************************************)
EXTENDS PursuitRefinementProofs

\* A prompt whose answer is lost may be running: the bot submits it again.  A user
\* who goes on with a pursuit whose end is pending replaces the session under it.
Watchable == {"lost_answer", "impatience"} \cap Disturbances = {}

\* Where not even an idle session can be confirmed, a stop may stay pending with no
\* turn in flight, and a retry finds nothing to wait for.
Stoppable == {"outage", "lost_answer", "impatience"} \cap Disturbances = {}

\* A session that cannot be created, a fingerprint that cannot be read or a message
\* that is not sent ends its handler in the middle, as nothing else does.
Carriable == Disturbances \subseteq {"abort", "outage", "prompt", "gone", "crash"}

\* A prompt is only submitted while nothing runs, nor is a fresh session left behind.
PromptsWait ==
    /\ pc \in {"prompt", "dispatch", "begin"} => ~busy
    /\ pc = "dispatch" => inFlight
    /\ phase = "needs_input" => ~inFlight
    /\ target = "current"

\* A starting bot has no timer and no stop yet, and a retry only of a turn that
\* failed since.
BootIsQuiet ==
    boot # "done" =>
        /\ timer = "none" /\ ~stopSignal
        /\ retry => ~inFlight /\ pc = "idle"

\* The end of a worker is waited for with its turn in flight, unless the session is
\* lost, and never beside a handler that would give the worker a successor.
WorkersEnd ==
    /\ termination \in {"budget", "deadline"} =>
          pc \in {"idle", "deadline"} /\ (retry => inFlight)
    /\ pc \in {"rotate", "renew"} => termination = "none"
    /\ pc = "deadline" => termination # "stop"

WatchInv == EveryTurnIsWatched /\ PromptsWait /\ BootIsQuiet /\ WorkersEnd

\* While a termination is pending its turn is in flight, unless it was lost; no
\* retry is about to start another, and no handler runs but the deadline's.
TerminationWaits ==
    /\ termination # "none" => pc \in {"idle", "deadline"}
    /\ termination = "stop" => pc = "idle"
    /\ (retry /\ termination # "none") => inFlight

\* Who sets the stop event queues its handler, which leaves it set only with the
\* stop pending.
StopIsHandled == stopSignal => stopQueued \/ termination = "stop"

\* NotStranded, of a deadline its task has still to handle only: one that merely
\* passed may be revoked.
Carried ==
    (phase \in {"draft_contract", "working", "checking"} /\ pc = "idle" /\ boot = "done")
        => inFlight \/ retry \/ termination # "none" \/ stopQueued \/ timer = "due"

\* No step loses a turn.
LEMMA WatchNext ==
  ASSUME Watchable,
         TypeOK, LeaseInv, PathInv, WatchInv, [Next]_vars
  PROVE  WatchInv'
<1> USE DEF Watchable, WatchInv, EveryTurnIsWatched, PromptsWait, BootIsQuiet,
            WorkersEnd,
            PathInv, WorkIsApproved, PhaseFitsHandler, PhaseFitsTermination, TimerHasLease,
            EmptyIsUnapproved, NoTurnAwaited, ApprovedPhases, LeaseInv, LeaseIsAuthorized,
            NoLeaseToInherit, LeaseCurrent, Expired, Patient, TypeOK, StatesOK, FlagsOK,
            Phases, Outcomes, Refusable, Idle, Free, Ready, DeadlineTarget, authority,
            turn, ending
<1>1. CASE TurnEnds
  BY <1>1 DEF TurnEnds
<1>2. CASE DeadlinePasses
  BY <1>2 DEF DeadlinePasses
<1>3. CASE TimerFires
  BY <1>3 DEF TimerFires
<1>4. CASE SignalStop
  BY <1>4 DEF SignalStop
<1>5. CASE Restart
  BY <1>5 DEF Restart
<1>6. CASE SendProgress
  BY <1>6 DEF SendProgress
<1>7. CASE DispatchPrompt
  <2>1. /\ pc = "dispatch" /\ inFlight /\ ~busy
        /\ termination \notin {"budget", "deadline"}
        /\ phase \in {"draft_contract", "working"}
        /\ boot # "done" => ~retry /\ timer = "none" /\ ~stopSignal
    BY <1>7 DEF DispatchPrompt
  <2>2. UNCHANGED <<phase, boot, stray, target, termination, timer, stopQueued, stopSignal>>
    BY <1>7 DEF DispatchPrompt
  <2>3. CASE Expired /\ pc' = "deadline" /\ UNCHANGED <<inFlight, busy, retry>>
    BY <2>1, <2>2, <2>3
  <2>4. CASE pc' = "idle" /\ busy' = TRUE /\ UNCHANGED <<inFlight, retry>>
    BY <2>1, <2>2, <2>4
  <2>5. CASE pc' = "idle" /\ UNCHANGED busy /\ inFlight' = FALSE /\ retry' = TRUE
    BY <2>1, <2>2, <2>5
  <2>6. "lost_answer" \notin Disturbances
    OBVIOUS
  <2> QED BY <1>7, <2>3, <2>4, <2>5, <2>6, Zenon DEF DispatchPrompt
<1>8. CASE Submit
  BY <1>8 DEF Submit
<1>9. CASE AtQuota
  BY <1>9 DEF AtQuota
<1>10. CASE Renew
  BY <1>10 DEF Renew
<1>11. CASE DeadlineStopRefused
  BY <1>11 DEF DeadlineStopRefused
<1>12. CASE BeginFinalChecks
  BY <1>12 DEF BeginFinalChecks, StopTurn, StartChecks
<1>13. CASE ChecksRefused
  BY <1>13 DEF ChecksRefused
<1>14. CASE InterruptChecks
  BY <1>14 DEF InterruptChecks
<1>15. CASE Verdict
  BY <1>15 DEF Verdict, PrepareArchive, SuspendLease
<1>16. CASE Finish
  BY <1>16 DEF Finish, ClearPursuit
<1>17. CASE Rotate
  BY <1>17 DEF Rotate, SwitchSession, ResumePhase, StartChecks
<1>18. CASE DraftArrives
  BY <1>18 DEF DraftArrives
<1>19. CASE WorkerReports
  BY <1>19 DEF WorkerReports, SuspendLease, StartChecks
<1>20. CASE LateTurnEnds
  BY <1>20 DEF LateTurnEnds
<1>21. CASE RecoveredTurnEnds
  BY <1>21 DEF RecoveredTurnEnds
<1>22. CASE Recover
  BY <1>22 DEF Recover
<1>23. CASE RecoveryRefused
  BY <1>23 DEF RecoveryRefused
<1>24. CASE SessionError
  BY <1>24 DEF SessionError
<1>25. CASE BudgetInterrupt
  BY <1>25 DEF BudgetInterrupt
<1>26. CASE RetryFires
  BY <1>26 DEF RetryFires, ResumePhase, StartChecks
<1>27. CASE DeadlineNoticed
  BY <1>27 DEF DeadlineNoticed
<1>28. CASE ResumeDeadline
  BY <1>28 DEF ResumeDeadline
<1>29. CASE ResumeBudget
  BY <1>29 DEF ResumeBudget, StopTurn
<1>30. CASE ResumeStop
  BY <1>30 DEF ResumeStop, StopTurn, FinishStop, ClearPursuit
<1>31. CASE ResumeInvalid
  BY <1>31 DEF ResumeInvalid, PauseInvalid, StopTurn, SuspendLease
<1>32. CASE StartPursuit
  BY <1>32 DEF StartPursuit
<1>33. CASE CommandStop
  BY <1>33 DEF CommandStop, FinishStop, ClearPursuit
<1>34. CASE YoloOff
  BY <1>34 DEF YoloOff
<1>35. CASE YoloOn
  BY <1>35 DEF YoloOn
<1>36. CASE Approve
  BY <1>36 DEF Approve, SwitchSession
<1>37. CASE RequestRevision
  BY <1>37 DEF RequestRevision, SuspendLease, SwitchSession
<1>38. CASE SignOff
  BY <1>38 DEF SignOff, StartChecks, PrepareArchive
<1>39. CASE ContinueTranche
  BY <1>39 DEF ContinueTranche, SwitchSession
<1>40. CASE BootTerminate
  BY <1>40 DEF BootTerminate
<1>41. CASE BootValidate
  <2>1. boot = "validate" /\ boot' = "resume" /\ pc = "idle" /\ timer = "none"
        /\ ~stopSignal
        /\ UNCHANGED <<pc, recovering, retry, stopQueued, stopSignal>>
    BY <1>41 DEF BootValidate
  <2>2. retry => ~inFlight
    BY <2>1
  <2>3. CASE PauseInvalid("current")
    <3>1. /\ busy' = FALSE /\ stray' = FALSE /\ inFlight' = FALSE
          /\ phase' = "needs_input" /\ timer' = "none"
          /\ termination' = "none" /\ target' = "current"
      BY <2>3 DEF PauseInvalid, StopTurn, SuspendLease
    <3> QED BY <2>1, <2>2, <3>1
  <2>4. CASE UNCHANGED <<phase, timer, inFlight, busy, stray, termination, target>>
    BY <2>1, <2>2, <2>4
  <2>5. CASE /\ termination' = "invalid_contract" /\ timer' = "none"
             /\ contract = "empty" /\ Refusable("current")
             /\ UNCHANGED <<phase, inFlight, busy, stray, target>>
    BY <2>1, <2>2, <2>5
  <2>6. CASE /\ busy' = FALSE /\ inFlight' = FALSE
             /\ UNCHANGED <<phase, timer, stray, termination, target>>
    BY <2>1, <2>2, <2>6
  <2> QED BY <1>41, <2>3, <2>4, <2>5, <2>6, Zenon DEF BootValidate
<1>42. CASE BootResume
  BY <1>42 DEF BootResume, PrepareArchive, ResumePhase, StartChecks
<1>43. CASE UNCHANGED vars
  BY <1>43 DEF vars
<1>44. QED
  BY <1>1, <1>2, <1>3, <1>4, <1>5, <1>6, <1>7, <1>8, <1>9, <1>10, <1>11,
     <1>12, <1>13, <1>14, <1>15, <1>16, <1>17, <1>18, <1>19, <1>20, <1>21,
     <1>22, <1>23, <1>24, <1>25, <1>26, <1>27, <1>28, <1>29, <1>30, <1>31,
     <1>32, <1>33, <1>34, <1>35, <1>36, <1>37, <1>38, <1>39, <1>40, <1>41,
     <1>42, <1>43
     DEF Next, Environment, Running, Events, User, Boot

\* No step but a stop's own starts anything while one is pending.
LEMMA StopNext ==
  ASSUME Stoppable,
         TypeOK, LeaseInv, PathInv, WatchInv, TerminationWaits, [Next]_vars
  PROVE  TerminationWaits'
<1> USE DEF Stoppable, WatchInv, EveryTurnIsWatched, PromptsWait, BootIsQuiet,
            WorkersEnd,
            TerminationWaits,
            PathInv, WorkIsApproved, PhaseFitsHandler, PhaseFitsTermination, TimerHasLease,
            EmptyIsUnapproved, NoTurnAwaited, ApprovedPhases, LeaseInv, LeaseIsAuthorized,
            NoLeaseToInherit, LeaseCurrent, Expired, Patient, TypeOK, StatesOK, FlagsOK,
            Phases, Outcomes, Refusable, Idle, Free, Ready, DeadlineTarget, authority,
            turn, ending
<1>1. CASE TurnEnds
  BY <1>1 DEF TurnEnds
<1>2. CASE DeadlinePasses
  BY <1>2 DEF DeadlinePasses
<1>3. CASE TimerFires
  BY <1>3 DEF TimerFires
<1>4. CASE SignalStop
  BY <1>4 DEF SignalStop
<1>5. CASE Restart
  BY <1>5 DEF Restart
<1>6. CASE SendProgress
  BY <1>6 DEF SendProgress
<1>7. CASE DispatchPrompt
  BY <1>7 DEF DispatchPrompt
<1>8. CASE Submit
  BY <1>8 DEF Submit
<1>9. CASE AtQuota
  BY <1>9 DEF AtQuota
<1>10. CASE Renew
  BY <1>10 DEF Renew
<1>11. CASE DeadlineStopRefused
  BY <1>11 DEF DeadlineStopRefused
<1>12. CASE BeginFinalChecks
  BY <1>12 DEF BeginFinalChecks, StopTurn, StartChecks
<1>13. CASE ChecksRefused
  BY <1>13 DEF ChecksRefused
<1>14. CASE InterruptChecks
  BY <1>14 DEF InterruptChecks
<1>15. CASE Verdict
  BY <1>15 DEF Verdict, PrepareArchive, SuspendLease
<1>16. CASE Finish
  BY <1>16 DEF Finish, ClearPursuit
<1>17. CASE Rotate
  BY <1>17 DEF Rotate, SwitchSession, ResumePhase, StartChecks
<1>18. CASE DraftArrives
  BY <1>18 DEF DraftArrives
<1>19. CASE WorkerReports
  BY <1>19 DEF WorkerReports, SuspendLease, StartChecks
<1>20. CASE LateTurnEnds
  BY <1>20 DEF LateTurnEnds
<1>21. CASE RecoveredTurnEnds
  BY <1>21 DEF RecoveredTurnEnds
<1>22. CASE Recover
  BY <1>22 DEF Recover
<1>23. CASE RecoveryRefused
  BY <1>23 DEF RecoveryRefused
<1>24. CASE SessionError
  BY <1>24 DEF SessionError
<1>25. CASE BudgetInterrupt
  BY <1>25 DEF BudgetInterrupt
<1>26. CASE RetryFires
  BY <1>26 DEF RetryFires, ResumePhase, StartChecks
<1>27. CASE DeadlineNoticed
  BY <1>27 DEF DeadlineNoticed
<1>28. CASE ResumeDeadline
  BY <1>28 DEF ResumeDeadline
<1>29. CASE ResumeBudget
  BY <1>29 DEF ResumeBudget, StopTurn
<1>30. CASE ResumeStop
  BY <1>30 DEF ResumeStop, StopTurn, FinishStop, ClearPursuit
<1>31. CASE ResumeInvalid
  BY <1>31 DEF ResumeInvalid, PauseInvalid, StopTurn, SuspendLease
<1>32. CASE StartPursuit
  BY <1>32 DEF StartPursuit
<1>33. CASE CommandStop
  BY <1>33 DEF CommandStop, FinishStop, ClearPursuit
<1>34. CASE YoloOff
  BY <1>34 DEF YoloOff
<1>35. CASE YoloOn
  BY <1>35 DEF YoloOn
<1>36. CASE Approve
  BY <1>36 DEF Approve, SwitchSession
<1>37. CASE RequestRevision
  BY <1>37 DEF RequestRevision, SuspendLease, SwitchSession
<1>38. CASE SignOff
  BY <1>38 DEF SignOff, StartChecks, PrepareArchive
<1>39. CASE ContinueTranche
  BY <1>39 DEF ContinueTranche, SwitchSession
<1>40. CASE BootTerminate
  BY <1>40 DEF BootTerminate
<1>41. CASE BootValidate
  BY <1>41 DEF BootValidate, PauseInvalid, StopTurn, SuspendLease
<1>42. CASE BootResume
  BY <1>42 DEF BootResume, PrepareArchive, ResumePhase, StartChecks
<1>43. CASE UNCHANGED vars
  BY <1>43 DEF vars
<1>44. QED
  BY <1>1, <1>2, <1>3, <1>4, <1>5, <1>6, <1>7, <1>8, <1>9, <1>10, <1>11,
     <1>12, <1>13, <1>14, <1>15, <1>16, <1>17, <1>18, <1>19, <1>20, <1>21,
     <1>22, <1>23, <1>24, <1>25, <1>26, <1>27, <1>28, <1>29, <1>30, <1>31,
     <1>32, <1>33, <1>34, <1>35, <1>36, <1>37, <1>38, <1>39, <1>40, <1>41,
     <1>42, <1>43
     DEF Next, Environment, Running, Events, User, Boot

\* No step leaves a pursuit behind that nothing takes further.
LEMMA CarryNext ==
  ASSUME Carriable,
         TypeOK, LeaseInv, PathInv, WatchInv, StopIsHandled, Carried, [Next]_vars
  PROVE  StopIsHandled' /\ Carried'
<1> USE DEF Carriable, WatchInv, EveryTurnIsWatched, PromptsWait, BootIsQuiet,
            WorkersEnd,
            StopIsHandled, Carried,
            PathInv, WorkIsApproved, PhaseFitsHandler, PhaseFitsTermination, TimerHasLease,
            EmptyIsUnapproved, NoTurnAwaited, ApprovedPhases, LeaseInv, LeaseIsAuthorized,
            NoLeaseToInherit, LeaseCurrent, Expired, Patient, TypeOK, StatesOK, FlagsOK,
            Phases, Outcomes, Refusable, Idle, Free, Ready, DeadlineTarget, authority,
            turn, ending
<1>1. CASE TurnEnds
  BY <1>1 DEF TurnEnds
<1>2. CASE DeadlinePasses
  BY <1>2 DEF DeadlinePasses
<1>3. CASE TimerFires
  BY <1>3 DEF TimerFires
<1>4. CASE SignalStop
  BY <1>4 DEF SignalStop
<1>5. CASE Restart
  BY <1>5 DEF Restart
<1>6. CASE SendProgress
  BY <1>6 DEF SendProgress
<1>7. CASE DispatchPrompt
  BY <1>7 DEF DispatchPrompt
<1>8. CASE Submit
  BY <1>8 DEF Submit
<1>9. CASE AtQuota
  BY <1>9 DEF AtQuota
<1>10. CASE Renew
  BY <1>10 DEF Renew
<1>11. CASE DeadlineStopRefused
  BY <1>11 DEF DeadlineStopRefused
<1>12. CASE BeginFinalChecks
  BY <1>12 DEF BeginFinalChecks, StopTurn, StartChecks
<1>13. CASE ChecksRefused
  BY <1>13 DEF ChecksRefused
<1>14. CASE InterruptChecks
  BY <1>14 DEF InterruptChecks
<1>15. CASE Verdict
  BY <1>15 DEF Verdict, PrepareArchive, SuspendLease
<1>16. CASE Finish
  BY <1>16 DEF Finish, ClearPursuit
<1>17. CASE Rotate
  BY <1>17 DEF Rotate, SwitchSession, ResumePhase, StartChecks
<1>18. CASE DraftArrives
  BY <1>18 DEF DraftArrives
<1>19. CASE WorkerReports
  BY <1>19 DEF WorkerReports, SuspendLease, StartChecks
<1>20. CASE LateTurnEnds
  BY <1>20 DEF LateTurnEnds
<1>21. CASE RecoveredTurnEnds
  BY <1>21 DEF RecoveredTurnEnds
<1>22. CASE Recover
  BY <1>22 DEF Recover
<1>23. CASE RecoveryRefused
  BY <1>23 DEF RecoveryRefused
<1>24. CASE SessionError
  BY <1>24 DEF SessionError
<1>25. CASE BudgetInterrupt
  BY <1>25 DEF BudgetInterrupt
<1>26. CASE RetryFires
  BY <1>26 DEF RetryFires, ResumePhase, StartChecks
<1>27. CASE DeadlineNoticed
  BY <1>27 DEF DeadlineNoticed
<1>28. CASE ResumeDeadline
  BY <1>28 DEF ResumeDeadline
<1>29. CASE ResumeBudget
  BY <1>29 DEF ResumeBudget, StopTurn
<1>30. CASE ResumeStop
  BY <1>30 DEF ResumeStop, StopTurn, FinishStop, ClearPursuit
<1>31. CASE ResumeInvalid
  BY <1>31 DEF ResumeInvalid, PauseInvalid, StopTurn, SuspendLease
<1>32. CASE StartPursuit
  BY <1>32 DEF StartPursuit
<1>33. CASE CommandStop
  BY <1>33 DEF CommandStop, FinishStop, ClearPursuit
<1>34. CASE YoloOff
  BY <1>34 DEF YoloOff
<1>35. CASE YoloOn
  BY <1>35 DEF YoloOn
<1>36. CASE Approve
  BY <1>36 DEF Approve, SwitchSession
<1>37. CASE RequestRevision
  BY <1>37 DEF RequestRevision, SuspendLease, SwitchSession
<1>38. CASE SignOff
  BY <1>38 DEF SignOff, StartChecks, PrepareArchive
<1>39. CASE ContinueTranche
  BY <1>39 DEF ContinueTranche, SwitchSession
<1>40. CASE BootTerminate
  BY <1>40 DEF BootTerminate
<1>41. CASE BootValidate
  BY <1>41 DEF BootValidate, PauseInvalid, StopTurn, SuspendLease
<1>42. CASE BootResume
  BY <1>42 DEF BootResume, PrepareArchive, ResumePhase, StartChecks
<1>43. CASE UNCHANGED vars
  BY <1>43 DEF vars
<1>44. QED
  BY <1>1, <1>2, <1>3, <1>4, <1>5, <1>6, <1>7, <1>8, <1>9, <1>10, <1>11,
     <1>12, <1>13, <1>14, <1>15, <1>16, <1>17, <1>18, <1>19, <1>20, <1>21,
     <1>22, <1>23, <1>24, <1>25, <1>26, <1>27, <1>28, <1>29, <1>30, <1>31,
     <1>32, <1>33, <1>34, <1>35, <1>36, <1>37, <1>38, <1>39, <1>40, <1>41,
     <1>42, <1>43
     DEF Next, Environment, Running, Events, User, Boot

------------------------------------------------------------------------------
\* The first layer holds of every behaviour.
LEMMA WatchHolds ==
  ASSUME Watchable
  PROVE  Spec => [](TypeOK /\ LeaseInv /\ PathInv /\ WatchInv)
<1>1. "impatience" \notin Disturbances
  BY DEF Watchable
<1>2. Init => PathInv
  BY DEF Init, PathInv, WorkIsApproved, PhaseFitsHandler, PhaseFitsTermination,
         TimerHasLease, EmptyIsUnapproved, NoTurnAwaited, ApprovedPhases
<1>3. Init => LeaseInv
  BY DEF Init, LeaseInv, LeaseIsAuthorized, NoLeaseToInherit
<1>4. Init => WatchInv
  BY DEF Init, WatchInv, EveryTurnIsWatched, PromptsWait, BootIsQuiet, WorkersEnd
<1>5. TypeOK /\ LeaseInv /\ [Next]_vars => LeaseInv'
  BY LeaseNext
<1>6. TypeOK /\ LeaseInv /\ PathInv /\ [Next]_vars => PathInv'
  BY <1>1, PathNext
<1>7. TypeOK /\ LeaseInv /\ PathInv /\ WatchInv /\ [Next]_vars => WatchInv'
  BY WatchNext
<1> QED BY <1>2, <1>3, <1>4, <1>5, <1>6, <1>7, TypeCorrect, PTL DEF Spec

\* So does the second, on top of it.
LEMMA TerminationsWait ==
  ASSUME Stoppable
  PROVE  Spec => []TerminationWaits
<1>1. Watchable
  BY DEF Stoppable, Watchable
<1>2. Init => TerminationWaits
  BY DEF Init, TerminationWaits
<1>3. TypeOK /\ LeaseInv /\ PathInv /\ WatchInv /\ TerminationWaits /\ [Next]_vars
         => TerminationWaits'
  BY StopNext
<1>4. Spec => [](TypeOK /\ LeaseInv /\ PathInv /\ WatchInv)
  BY <1>1, WatchHolds
<1> QED BY <1>2, <1>3, <1>4, PTL DEF Spec

------------------------------------------------------------------------------
\* Whatever is refused, cannot be created, read or sent, is lost or crashes: a turn
\* that OpenCode runs for the pursuit is in flight for the bot, and none runs beside
\* the checks, at a checkpoint, or after the end (_submit_prompt,
\* _confirm_session_stopped, from_dict).
THEOREM TurnsWatched ==
  ASSUME Watchable
  PROVE  Spec => []EveryTurnIsWatched
<1>1. WatchInv => EveryTurnIsWatched
  BY DEF WatchInv
<1> QED BY <1>1, WatchHolds, PTL

\* Whoever is about to submit a prompt - a reply, a batch of checks, a renewal, a
\* recovery, the start of the bot, a retry - finds no turn going (_submit_prompt).
THEOREM PromptsExclude ==
  ASSUME Watchable
  PROVE  Spec => []OnePromptAtATime
<1>1. WatchInv => OnePromptAtATime
  BY DEF WatchInv, PromptsWait, EveryTurnIsWatched, OnePromptAtATime
<1> QED BY <1>1, WatchHolds, PTL

\* A pursuit that waits neither for the user nor for a handler waits for something
\* that comes: its turn, a retry, the end of a termination, a stop, the deadline.
THEOREM NeverStranded ==
  ASSUME Carriable
  PROVE  Spec => []NotStranded
<1>1. Watchable
  BY DEF Carriable, Watchable
<1>2. Init => StopIsHandled /\ Carried
  BY DEF Init, StopIsHandled, Carried
<1>3. TypeOK /\ LeaseInv /\ PathInv /\ WatchInv /\ StopIsHandled /\ Carried /\ [Next]_vars
         => StopIsHandled' /\ Carried'
  BY CarryNext
<1>4. Spec => [](TypeOK /\ LeaseInv /\ PathInv /\ WatchInv)
  BY <1>1, WatchHolds
<1>5. Carried => NotStranded
  BY DEF Carried, NotStranded
<1> QED BY <1>2, <1>3, <1>4, <1>5, PTL DEF Spec

\* README.md:309 "`!stop` cancels automatic continuation": whatever handler gets
\* the lock while a stop is pending, it starts no turn, and ends nothing but the
\* pursuit that is being stopped.
THEOREM StopsSound ==
  ASSUME Stoppable
  PROVE  Spec => StopCancelsContinuation
<1>1. TypeOK /\ LeaseInv /\ PathInv /\ TerminationWaits /\ [Next]_vars =>
        [ termination = "stop" =>
            /\ busy' => busy
            /\ (phase # "none" /\ phase' = "none") => outcome' \in {"stopped", None} ]_vars
  <2> SUFFICES ASSUME TypeOK, LeaseInv, PathInv, TerminationWaits, Next, termination = "stop"
               PROVE  /\ busy' => busy
                      /\ (phase # "none" /\ phase' = "none") => outcome' \in {"stopped", None}
    OBVIOUS
  <2>1. pc = "idle" /\ lease = "none" /\ timer = "none" /\ busy \in BOOLEAN
        /\ "impatience" \notin Disturbances
    BY DEF TerminationWaits, PathInv, PhaseFitsTermination, TimerHasLease,
           TypeOK, FlagsOK, Stoppable
  <2>2. CASE ResumeStop
    BY <2>1, <2>2 DEF ResumeStop, FinishStop, StopTurn
  <2>3. CASE CommandStop
    BY <2>1, <2>3 DEF CommandStop, FinishStop
  <2>4. CASE Environment
    BY <2>1, <2>4 DEF Environment, TurnEnds, DeadlinePasses, TimerFires, SignalStop,
                      Restart, turn, ending
  <2>5. ~Running
    BY <2>1 DEF Running, SendProgress, DispatchPrompt, Submit, AtQuota, Renew,
                DeadlineStopRefused, BeginFinalChecks, ChecksRefused, InterruptChecks,
                Verdict, Finish, Rotate
  <2>6. CASE Boot
    BY <2>1, <2>6 DEF Boot, BootTerminate, BootValidate, BootResume, PauseInvalid, StopTurn,
                      turn
  <2>7. CASE Events /\ ~ResumeStop
    BY <2>1, <2>7 DEF Events, DraftArrives, WorkerReports, LateTurnEnds, RecoveredTurnEnds,
                      Recover, RecoveryRefused, SessionError, BudgetInterrupt, RetryFires,
                      ResumePhase, StartChecks, DeadlineNoticed, Expired, LeaseCurrent,
                      ResumeDeadline, ResumeBudget, ResumeInvalid, Idle, Patient, turn
  <2>8. CASE YoloOff
    BY <2>8 DEF YoloOff, turn
  <2>9. ~Patient /\ ~YoloOn
    BY <2>1 DEF Patient, YoloOn
  <2>10. User => YoloOff \/ CommandStop
    BY <2>9 DEF User, StartPursuit, Approve, RequestRevision, SignOff, ContinueTranche
  <2> QED BY <2>2, <2>3, <2>4, <2>5, <2>6, <2>7, <2>8,
            <2>10 DEF Next
<1>2. Watchable
  BY DEF Stoppable, Watchable
<1>3. Spec => [](TypeOK /\ LeaseInv /\ PathInv)
  BY <1>2, WatchHolds, PTL
<1> QED BY <1>1, <1>3, TerminationsWait, PTL DEF Spec, StopCancelsContinuation

===============================================================================
