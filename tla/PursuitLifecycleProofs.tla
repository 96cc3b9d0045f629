------------------------ MODULE PursuitLifecycleProofs ------------------------
(***************************************************************************)
(* Theorems about PursuitLifecycle, for every set of disturbances.         *)
(***************************************************************************)
EXTENDS PursuitLifecycle, TLAPS

\* Phases, stages and reasons stay among those the code knows.
LEMMA StatesNext ==
  ASSUME StatesOK, FlagsOK, [Next]_vars
  PROVE  StatesOK'
<1> USE DEF StatesOK, Phases, Outcomes, authority, turn, ending
<1>1. CASE TurnEnds
  BY <1>1 DEF TurnEnds
<1>2. CASE DeadlinePasses
  BY <1>2 DEF DeadlinePasses
<1>3. CASE TimerFires
  BY <1>3 DEF TimerFires
<1>4. CASE SignalStop
  BY <1>4 DEF SignalStop
<1>5. CASE Restart
  BY <1>5 DEF Restart
<1>6. CASE SendProgress
  BY <1>6 DEF SendProgress
<1>7. CASE DispatchPrompt
  BY <1>7 DEF DispatchPrompt
<1>8. CASE Submit
  BY <1>8 DEF Submit
<1>9. CASE AtQuota
  BY <1>9 DEF AtQuota
<1>10. CASE Renew
  BY <1>10 DEF Renew
<1>11. CASE DeadlineStopRefused
  BY <1>11 DEF DeadlineStopRefused, DeadlineTarget
<1>12. CASE BeginFinalChecks
  BY <1>12 DEF BeginFinalChecks, StopTurn, StartChecks
<1>13. CASE ChecksRefused
  BY <1>13 DEF ChecksRefused
<1>14. CASE InterruptChecks
  BY <1>14 DEF InterruptChecks
<1>15. CASE Verdict
  BY <1>15 DEF Verdict, PrepareArchive, SuspendLease
<1>16. CASE Finish
  BY <1>16 DEF Finish, ClearPursuit
<1>17. CASE Rotate
  BY <1>17 DEF Rotate, SwitchSession, ResumePhase, StartChecks, LeaseCurrent
<1>18. CASE DraftArrives
  BY <1>18 DEF DraftArrives
<1>19. CASE WorkerReports
  BY <1>19 DEF WorkerReports, SuspendLease, StartChecks, Expired, LeaseCurrent
<1>20. CASE LateTurnEnds
  BY <1>20 DEF LateTurnEnds
<1>21. CASE RecoveredTurnEnds
  BY <1>21 DEF RecoveredTurnEnds
<1>22. CASE Recover
  BY <1>22 DEF Recover
<1>23. CASE RecoveryRefused
  BY <1>23 DEF RecoveryRefused
<1>24. CASE SessionError
  BY <1>24 DEF SessionError
<1>25. CASE BudgetInterrupt
  <2>1. /\ termination' \in {termination, "budget"} /\ pc' \in {pc, "deadline", "exhausted"}
        /\ UNCHANGED <<phase, boot, contract, lease, timer, target, outcome>>
    BY <1>25 DEF BudgetInterrupt
  <2>2. QED
    BY <2>1
<1>26. CASE RetryFires
  BY <1>26 DEF RetryFires, ResumePhase, StartChecks
<1>27. CASE DeadlineNoticed
  BY <1>27 DEF DeadlineNoticed
<1>28. CASE ResumeDeadline
  BY <1>28 DEF ResumeDeadline
<1>29. CASE ResumeBudget
  BY <1>29 DEF ResumeBudget, StopTurn
<1>30. CASE ResumeStop
  BY <1>30 DEF ResumeStop, StopTurn, FinishStop, ClearPursuit
<1>31. CASE ResumeInvalid
  BY <1>31 DEF ResumeInvalid, PauseInvalid, StopTurn, SuspendLease
<1>32. CASE StartPursuit
  BY <1>32 DEF StartPursuit
<1>33. CASE CommandStop
  BY <1>33 DEF CommandStop, FinishStop, ClearPursuit
<1>34. CASE YoloOff
  BY <1>34 DEF YoloOff
<1>35. CASE YoloOn
  BY <1>35 DEF YoloOn
<1>36. CASE Approve
  BY <1>36 DEF Approve, SwitchSession
<1>37. CASE RequestRevision
  BY <1>37 DEF RequestRevision, SuspendLease, SwitchSession
<1>38. CASE SignOff
  BY <1>38 DEF SignOff, StartChecks, PrepareArchive
<1>39. CASE ContinueTranche
  BY <1>39 DEF ContinueTranche, SwitchSession
<1>40. CASE BootTerminate
  BY <1>40 DEF BootTerminate
<1>41. CASE BootValidate
  BY <1>41 DEF BootValidate, PauseInvalid, StopTurn, SuspendLease
<1>42. CASE BootResume
  BY <1>42 DEF BootResume, PrepareArchive, ResumePhase, StartChecks
<1>43. CASE UNCHANGED vars
  BY <1>43 DEF vars
<1>44. QED
  BY <1>1, <1>2, <1>3, <1>4, <1>5, <1>6, <1>7, <1>8, <1>9, <1>10, <1>11,
     <1>12, <1>13, <1>14, <1>15, <1>16, <1>17, <1>18, <1>19, <1>20, <1>21,
     <1>22, <1>23, <1>24, <1>25, <1>26, <1>27, <1>28, <1>29, <1>30, <1>31,
     <1>32, <1>33, <1>34, <1>35, <1>36, <1>37, <1>38, <1>39, <1>40, <1>41,
     <1>42, <1>43
     DEF Next, Environment, Running, Events, User, Boot

\* Flags stay flags.
LEMMA FlagsNext ==
  ASSUME StatesOK, FlagsOK, [Next]_vars
  PROVE  FlagsOK'
<1> USE DEF FlagsOK, authority, turn, ending
<1>1. CASE TurnEnds
  BY <1>1 DEF TurnEnds
<1>2. CASE DeadlinePasses
  BY <1>2 DEF DeadlinePasses
<1>3. CASE TimerFires
  BY <1>3 DEF TimerFires
<1>4. CASE SignalStop
  BY <1>4 DEF SignalStop
<1>5. CASE Restart
  BY <1>5 DEF Restart
<1>6. CASE SendProgress
  BY <1>6 DEF SendProgress
<1>7. CASE DispatchPrompt
  BY <1>7 DEF DispatchPrompt
<1>8. CASE Submit
  BY <1>8 DEF Submit
<1>9. CASE AtQuota
  BY <1>9 DEF AtQuota
<1>10. CASE Renew
  BY <1>10 DEF Renew
<1>11. CASE DeadlineStopRefused
  BY <1>11 DEF DeadlineStopRefused, DeadlineTarget
<1>12. CASE BeginFinalChecks
  BY <1>12 DEF BeginFinalChecks, StopTurn, StartChecks
<1>13. CASE ChecksRefused
  BY <1>13 DEF ChecksRefused
<1>14. CASE InterruptChecks
  BY <1>14 DEF InterruptChecks
<1>15. CASE Verdict
  BY <1>15 DEF Verdict, PrepareArchive, SuspendLease
<1>16. CASE Finish
  BY <1>16 DEF Finish, ClearPursuit
<1>17. CASE Rotate
  <2>1. LeaseCurrent \in BOOLEAN
    BY Zenon DEF LeaseCurrent
  <2>2. /\ bound' \in {bound, LeaseCurrent} /\ busy' \in {busy, FALSE}
        /\ final' \in {final, FALSE}
        /\ stray' = stray \/ stray' = (stray \/ (busy /\ phase \notin
              {"draft_contract", "awaiting_approval"}))
        /\ UNCHANGED <<requested, yolo, inFlight, recovering, retry, stopQueued, stopSignal>>
    BY <1>17, Zenon DEF Rotate, SwitchSession, ResumePhase, StartChecks
  <2>3. stray' \in BOOLEAN
    BY <2>2
  <2>4. QED
    BY <2>1, <2>2, <2>3
<1>18. CASE DraftArrives
  BY <1>18 DEF DraftArrives
<1>19. CASE WorkerReports
  BY <1>19 DEF WorkerReports, SuspendLease, StartChecks, Expired, LeaseCurrent
<1>20. CASE LateTurnEnds
  BY <1>20 DEF LateTurnEnds
<1>21. CASE RecoveredTurnEnds
  BY <1>21 DEF RecoveredTurnEnds
<1>22. CASE Recover
  BY <1>22 DEF Recover
<1>23. CASE RecoveryRefused
  BY <1>23 DEF RecoveryRefused
<1>24. CASE SessionError
  BY <1>24 DEF SessionError
<1>25. CASE BudgetInterrupt
  BY <1>25 DEF BudgetInterrupt
<1>26. CASE RetryFires
  BY <1>26 DEF RetryFires, ResumePhase, StartChecks
<1>27. CASE DeadlineNoticed
  BY <1>27 DEF DeadlineNoticed
<1>28. CASE ResumeDeadline
  BY <1>28 DEF ResumeDeadline
<1>29. CASE ResumeBudget
  BY <1>29 DEF ResumeBudget, StopTurn
<1>30. CASE ResumeStop
  BY <1>30 DEF ResumeStop, StopTurn, FinishStop, ClearPursuit
<1>31. CASE ResumeInvalid
  BY <1>31 DEF ResumeInvalid, PauseInvalid, StopTurn, SuspendLease
<1>32. CASE StartPursuit
  BY <1>32 DEF StartPursuit
<1>33. CASE CommandStop
  BY <1>33 DEF CommandStop, FinishStop, ClearPursuit
<1>34. CASE YoloOff
  BY <1>34 DEF YoloOff
<1>35. CASE YoloOn
  <2>1. (contract \in {"draft", "approved"}) \in BOOLEAN
    OBVIOUS
  <2>2. /\ yolo' = yolo \/ yolo' = TRUE
        /\ bound' = bound \/ bound' = (contract \in {"draft", "approved"})
        /\ UNCHANGED <<requested, inFlight, busy, stray, recovering, retry, final,
                       stopQueued, stopSignal>>
    BY <1>35, Zenon DEF YoloOn
  <2>3. QED
    BY <2>1, <2>2
<1>36. CASE Approve
  BY <1>36 DEF Approve, SwitchSession
<1>37. CASE RequestRevision
  BY <1>37 DEF RequestRevision, SuspendLease, SwitchSession
<1>38. CASE SignOff
  BY <1>38 DEF SignOff, StartChecks, PrepareArchive
<1>39. CASE ContinueTranche
  BY <1>39 DEF ContinueTranche, SwitchSession
<1>40. CASE BootTerminate
  BY <1>40 DEF BootTerminate
<1>41. CASE BootValidate
  BY <1>41 DEF BootValidate, PauseInvalid, StopTurn, SuspendLease
<1>42. CASE BootResume
  BY <1>42 DEF BootResume, PrepareArchive, ResumePhase, StartChecks
<1>43. CASE UNCHANGED vars
  BY <1>43 DEF vars
<1>44. QED
  BY <1>1, <1>2, <1>3, <1>4, <1>5, <1>6, <1>7, <1>8, <1>9, <1>10, <1>11,
     <1>12, <1>13, <1>14, <1>15, <1>16, <1>17, <1>18, <1>19, <1>20, <1>21,
     <1>22, <1>23, <1>24, <1>25, <1>26, <1>27, <1>28, <1>29, <1>30, <1>31,
     <1>32, <1>33, <1>34, <1>35, <1>36, <1>37, <1>38, <1>39, <1>40, <1>41,
     <1>42, <1>43
     DEF Next, Environment, Running, Events, User, Boot

\* The variables keep their types, whatever is disturbed.
THEOREM TypeCorrect == Spec => []TypeOK
<1>1. Init => TypeOK
  BY DEF Init, TypeOK, StatesOK, FlagsOK, Phases
<1>2. TypeOK /\ [Next]_vars => TypeOK'
  BY StatesNext, FlagsNext DEF TypeOK
<1>3. QED
  BY <1>1, <1>2, PTL DEF Spec

------------------------------------------------------------------------------
(* The lease.                                                              *)

\* While a contract is drafted, put to the user or revised, and while there is
\* no pursuit, there is no lease that a new contract could inherit.
NoLeaseToInherit ==
    phase \in {"none", "draft_contract", "awaiting_approval", "needs_input"}
        => lease = "none"

LeaseInv == LeaseIsAuthorized /\ NoLeaseToInherit

\* No operation breaks what a lease rests on without ending the lease.
LEMMA LeaseNext ==
  ASSUME TypeOK, LeaseInv, [Next]_vars
  PROVE  LeaseInv'
<1> USE DEF LeaseInv, LeaseIsAuthorized, NoLeaseToInherit, LeaseCurrent, Expired,
            TypeOK, StatesOK, FlagsOK, authority, turn, ending
<1>1. CASE TurnEnds
  BY <1>1 DEF TurnEnds
<1>2. CASE DeadlinePasses
  BY <1>2 DEF DeadlinePasses
<1>3. CASE TimerFires
  BY <1>3 DEF TimerFires
<1>4. CASE SignalStop
  BY <1>4 DEF SignalStop
<1>5. CASE Restart
  BY <1>5 DEF Restart
<1>6. CASE SendProgress
  BY <1>6 DEF SendProgress
<1>7. CASE DispatchPrompt
  BY <1>7 DEF DispatchPrompt
<1>8. CASE Submit
  BY <1>8 DEF Submit
<1>9. CASE AtQuota
  BY <1>9 DEF AtQuota
<1>10. CASE Renew
  BY <1>10 DEF Renew
<1>11. CASE DeadlineStopRefused
  BY <1>11 DEF DeadlineStopRefused, DeadlineTarget
<1>12. CASE BeginFinalChecks
  BY <1>12 DEF BeginFinalChecks, StopTurn, StartChecks
<1>13. CASE ChecksRefused
  BY <1>13 DEF ChecksRefused
<1>14. CASE InterruptChecks
  BY <1>14 DEF InterruptChecks
<1>15. CASE Verdict
  BY <1>15 DEF Verdict, PrepareArchive, SuspendLease
<1>16. CASE Finish
  BY <1>16 DEF Finish, ClearPursuit
<1>17. CASE Rotate
  BY <1>17 DEF Rotate, SwitchSession, ResumePhase, StartChecks, LeaseCurrent
<1>18. CASE DraftArrives
  BY <1>18 DEF DraftArrives
<1>19. CASE WorkerReports
  BY <1>19 DEF WorkerReports, SuspendLease, StartChecks, Expired, LeaseCurrent
<1>20. CASE LateTurnEnds
  BY <1>20 DEF LateTurnEnds
<1>21. CASE RecoveredTurnEnds
  BY <1>21 DEF RecoveredTurnEnds
<1>22. CASE Recover
  BY <1>22 DEF Recover
<1>23. CASE RecoveryRefused
  BY <1>23 DEF RecoveryRefused
<1>24. CASE SessionError
  BY <1>24 DEF SessionError
<1>25. CASE BudgetInterrupt
  BY <1>25 DEF BudgetInterrupt
<1>26. CASE RetryFires
  BY <1>26 DEF RetryFires, ResumePhase, StartChecks
<1>27. CASE DeadlineNoticed
  BY <1>27 DEF DeadlineNoticed
<1>28. CASE ResumeDeadline
  BY <1>28 DEF ResumeDeadline
<1>29. CASE ResumeBudget
  BY <1>29 DEF ResumeBudget, StopTurn
<1>30. CASE ResumeStop
  BY <1>30 DEF ResumeStop, StopTurn, FinishStop, ClearPursuit
<1>31. CASE ResumeInvalid
  BY <1>31 DEF ResumeInvalid, PauseInvalid, StopTurn, SuspendLease
<1>32. CASE StartPursuit
  BY <1>32 DEF StartPursuit
<1>33. CASE CommandStop
  BY <1>33 DEF CommandStop, FinishStop, ClearPursuit
<1>34. CASE YoloOff
  BY <1>34 DEF YoloOff
<1>35. CASE YoloOn
  BY <1>35 DEF YoloOn
<1>36. CASE Approve
  BY <1>36 DEF Approve, SwitchSession
<1>37. CASE RequestRevision
  BY <1>37 DEF RequestRevision, SuspendLease, SwitchSession
<1>38. CASE SignOff
  BY <1>38 DEF SignOff, StartChecks, PrepareArchive
<1>39. CASE ContinueTranche
  BY <1>39 DEF ContinueTranche, SwitchSession
<1>40. CASE BootTerminate
  BY <1>40 DEF BootTerminate
<1>41. CASE BootValidate
  BY <1>41 DEF BootValidate, PauseInvalid, StopTurn, SuspendLease
<1>42. CASE BootResume
  BY <1>42 DEF BootResume, PrepareArchive, ResumePhase, StartChecks
<1>43. CASE UNCHANGED vars
  BY <1>43 DEF vars
<1>44. QED
  BY <1>1, <1>2, <1>3, <1>4, <1>5, <1>6, <1>7, <1>8, <1>9, <1>10, <1>11,
     <1>12, <1>13, <1>14, <1>15, <1>16, <1>17, <1>18, <1>19, <1>20, <1>21,
     <1>22, <1>23, <1>24, <1>25, <1>26, <1>27, <1>28, <1>29, <1>30, <1>31,
     <1>32, <1>33, <1>34, <1>35, <1>36, <1>37, <1>38, <1>39, <1>40, <1>41,
     <1>42, <1>43
     DEF Next, Environment, Running, Events, User, Boot

\* For every set of disturbances: a lease is never in force without YOLO and the
\* current approval of the contract it was granted for.
THEOREM LeaseSound == Spec => []LeaseIsAuthorized
<1>1. Init => LeaseInv
  BY DEF Init, LeaseInv, LeaseIsAuthorized, NoLeaseToInherit
<1>2. TypeOK /\ LeaseInv /\ [Next]_vars => LeaseInv'
  BY LeaseNext
<1>3. LeaseInv => LeaseIsAuthorized
  BY DEF LeaseInv
<1>4. QED
  BY <1>1, <1>2, <1>3, TypeCorrect, PTL DEF Spec

------------------------------------------------------------------------------
(* The deadline.                                                           *)

\* What is submitted belongs to a phase of the model.
PromptFitsPhase == pc \in {"prompt", "dispatch"} => phase \in {"draft_contract", "working"}

\* Only what the phase's own handler has set up comes to a prompt.
LEMMA PromptNext ==
  ASSUME TypeOK, PromptFitsPhase, [Next]_vars
  PROVE  PromptFitsPhase'
<1> USE DEF PromptFitsPhase, TypeOK, StatesOK, Idle, Ready, Free
<1>1. CASE Environment
  <2>1. CASE Restart
    BY <2>1 DEF Restart
  <2>2. CASE ~Restart
    BY <1>1, <2>2 DEF Environment, TurnEnds, DeadlinePasses, TimerFires, SignalStop
  <2> QED BY <2>1, <2>2
<1>2. CASE Running
  BY <1>2 DEF Running, SendProgress, DispatchPrompt, Submit, AtQuota, Renew,
              DeadlineStopRefused, BeginFinalChecks, ChecksRefused, InterruptChecks, Verdict,
              Finish, Rotate, ResumePhase, StartChecks, PrepareArchive, turn
<1>3. CASE Events
  <2>1. CASE RetryFires
    BY <2>1 DEF RetryFires, ResumePhase, StartChecks
  <2>2. CASE ResumeDeadline \/ ResumeBudget \/ ResumeStop \/ ResumeInvalid
    BY <2>2 DEF ResumeDeadline, ResumeBudget, ResumeStop, ResumeInvalid
  <2>3. CASE ~RetryFires /\ ~(ResumeDeadline \/ ResumeBudget \/ ResumeStop \/ ResumeInvalid)
    BY <1>3, <2>3 DEF Events, DraftArrives, WorkerReports, LateTurnEnds, RecoveredTurnEnds,
                      Recover, RecoveryRefused, SessionError, BudgetInterrupt, DeadlineNoticed,
                      StartChecks
  <2> QED BY <2>1, <2>2, <2>3
<1>4. CASE User
  BY <1>4 DEF User, StartPursuit, CommandStop, YoloOff, YoloOn, Approve, RequestRevision,
              SignOff, ContinueTranche, StartChecks, PrepareArchive
<1>5. CASE Boot
  BY <1>5 DEF Boot, BootTerminate, BootValidate, BootResume, ResumePhase, StartChecks,
              PrepareArchive
<1>6. CASE UNCHANGED vars
  BY <1>6 DEF vars
<1> QED BY <1>1, <1>2, <1>3, <1>4, <1>5, <1>6 DEF Next

\* Only the submission of a prompt sets a session to work.
LEMMA OnlyPromptsStartTurns ==
  ASSUME TypeOK, Next, ~busy, busy'
  PROVE  DispatchPrompt
<1> USE DEF TypeOK, FlagsOK
<1>1. ~Environment
  BY DEF Environment, TurnEnds, DeadlinePasses, TimerFires, SignalStop, Restart, turn
<1>2. Running => DispatchPrompt
  BY DEF Running, SendProgress, Submit, AtQuota, Renew, DeadlineStopRefused, BeginFinalChecks,
         ChecksRefused, InterruptChecks, Verdict, Finish, Rotate, SwitchSession, StopTurn, turn
<1>3. ~Events
  BY DEF Events, DraftArrives, WorkerReports, LateTurnEnds, RecoveredTurnEnds, Recover,
         RecoveryRefused, SessionError, BudgetInterrupt, RetryFires, DeadlineNoticed,
         ResumeDeadline, ResumeBudget, ResumeStop, ResumeInvalid, PauseInvalid, StopTurn, turn
<1>4. ~User
  BY DEF User, StartPursuit, CommandStop, YoloOff, YoloOn, Approve, RequestRevision, SignOff,
         ContinueTranche, SwitchSession, turn
<1>5. ~Boot
  BY DEF Boot, BootTerminate, BootValidate, BootResume, PauseInvalid, StopTurn, turn
<1> QED BY <1>1, <1>2, <1>3, <1>4, <1>5 DEF Next

\* README.md:240 "At the absolute deadline, worker actions stop", for every set of
\* disturbances: _submit_prompt asks for the deadline again after its message, and an
\* expired lease is one of a working pursuit with YOLO and a current approval.
THEOREM DeadlineSound == Spec => DeadlineIsFinal
<1>1. TypeOK /\ LeaseInv /\ PromptFitsPhase /\ [Next]_vars
         => [ lease = "expired" => (busy' => busy) ]_vars
  <2> SUFFICES ASSUME TypeOK, LeaseInv, PromptFitsPhase, Next, lease = "expired", ~busy, busy'
               PROVE  FALSE
    BY DEF TypeOK, FlagsOK
  <2>1. DispatchPrompt
    BY OnlyPromptsStartTurns
  <2>2. phase = "working"
    BY <2>1 DEF DispatchPrompt, PromptFitsPhase, LeaseInv, NoLeaseToInherit
  <2>3. Expired
    BY DEF Expired, LeaseInv, LeaseIsAuthorized
  <2> QED BY <2>1, <2>2, <2>3 DEF DispatchPrompt
<1>2. Init => LeaseInv /\ PromptFitsPhase
  BY DEF Init, LeaseInv, LeaseIsAuthorized, NoLeaseToInherit, PromptFitsPhase
<1>3. TypeOK /\ LeaseInv /\ [Next]_vars => LeaseInv'
  BY LeaseNext
<1>4. TypeOK /\ PromptFitsPhase /\ [Next]_vars => PromptFitsPhase'
  BY PromptNext
<1> QED BY <1>1, <1>2, <1>3, <1>4, TypeCorrect, PTL DEF Spec, DeadlineIsFinal
=============================================================================
