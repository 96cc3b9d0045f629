------------------------ MODULE PursuitRefinementProofs ------------------------
(***************************************************************************)
(* PursuitLifecycle implements Pursuit, whatever is disturbed, as long as  *)
(* the user leaves a pursuit alone whose end is pending.                   *)
(***************************************************************************)
EXTENDS PursuitLifecycleProofs

\* The phases whose contract the user has agreed to.
ApprovedPhases == {"working", "checking", "awaiting_signoff", "budget_checkpoint"}

\* A handler that is suspended finds the pursuit where it left it.
PhaseFitsHandler ==
    /\ pc \in {"prompt", "dispatch"} => phase \in {"draft_contract", "working"}
    /\ pc \in {"submit", "begin"} => phase = "working"
    /\ pc \in {"exhausted", "renew"} => phase \in {"working", "budget_checkpoint"}
    /\ pc = "deadline" => phase \in ApprovedPhases
    /\ pc = "checks" => phase = "checking"
    /\ pc = "finish" =>
          /\ phase \in {"checking", "awaiting_signoff"}
          /\ outcome \in {"verified_complete", "provisional", "deadline_reached"}

\* So does a termination that stays pending, however long OpenCode refuses it.
PhaseFitsTermination ==
    /\ termination \in {"budget", "deadline"} => phase \in {"working", "budget_checkpoint"}
    /\ termination = "stop" => lease = "none"
    /\ termination = "invalid_contract" => contract = "empty"

TimerHasLease == timer # "none" => lease # "none" /\ pc # "finish"

EmptyIsUnapproved ==
    contract = "empty" => phase \in {"draft_contract", "awaiting_approval", "needs_input"}

\* The controller's phases, and a handler about to start a turn, wait for none.
NoTurnAwaited ==
    (\/ phase \in {"checking", "awaiting_signoff", "budget_checkpoint"}
     \/ pc \in {"submit", "exhausted", "renew", "rotate"})
        => ~inFlight

\* Why the contract of a phase is the approved one: every way into that phase
\* comes from a handler, a timer or a termination that already stood there.
PathInv ==
    /\ WorkIsApproved
    /\ PhaseFitsHandler
    /\ PhaseFitsTermination
    /\ TimerHasLease
    /\ EmptyIsUnapproved
    /\ NoTurnAwaited

\* No step leaves the path.
LEMMA PathNext ==
  ASSUME "impatience" \notin Disturbances,
         TypeOK, LeaseInv, PathInv, [Next]_vars
  PROVE  PathInv'
<1> USE DEF PathInv, WorkIsApproved, PhaseFitsHandler, PhaseFitsTermination, TimerHasLease,
            EmptyIsUnapproved, NoTurnAwaited, ApprovedPhases, LeaseInv, LeaseIsAuthorized,
            NoLeaseToInherit, LeaseCurrent, Expired, Patient, TypeOK, StatesOK, Phases,
            Outcomes, authority, turn, ending
<1>1. CASE TurnEnds
  BY <1>1 DEF TurnEnds
<1>2. CASE DeadlinePasses
  BY <1>2 DEF DeadlinePasses
<1>3. CASE TimerFires
  BY <1>3 DEF TimerFires
<1>4. CASE SignalStop
  BY <1>4 DEF SignalStop
<1>5. CASE Restart
  BY <1>5 DEF Restart
<1>6. CASE SendProgress
  BY <1>6 DEF SendProgress
<1>7. CASE DispatchPrompt
  BY <1>7 DEF DispatchPrompt
<1>8. CASE Submit
  BY <1>8 DEF Submit
<1>9. CASE AtQuota
  BY <1>9 DEF AtQuota
<1>10. CASE Renew
  BY <1>10 DEF Renew, Refusable
<1>11. CASE DeadlineStopRefused
  <2>1. /\ pc = "deadline" /\ inFlight
        /\ termination' = "deadline" /\ timer' = "none" /\ pc' = "idle"
        /\ UNCHANGED <<phase, contract, lease, requested, yolo, inFlight, outcome>>
    BY <1>11, Zenon DEF DeadlineStopRefused
  <2>2. phase = "working"
    BY <2>1
  <2>3. QED
    BY <2>1, <2>2
<1>12. CASE BeginFinalChecks
  BY <1>12 DEF BeginFinalChecks, StopTurn, StartChecks
<1>13. CASE ChecksRefused
  BY <1>13 DEF ChecksRefused
<1>14. CASE InterruptChecks
  BY <1>14 DEF InterruptChecks
<1>15. CASE Verdict
  <2>1. /\ pc = "checks" /\ contract = "approved"
        /\ UNCHANGED <<contract, yolo, inFlight, termination>>
        /\ \/ /\ outcome' \in {"verified_complete", "provisional", "deadline_reached"}
              /\ pc' = "finish" /\ timer' = "none" /\ UNCHANGED <<phase, lease>>
           \/ /\ phase' \in {"awaiting_signoff", "working"} /\ pc' \in {"idle", "submit"}
              /\ phase' = "awaiting_signoff" <=> pc' = "idle"
              /\ UNCHANGED <<lease, timer>>
           \/ /\ phase' = "needs_input" /\ pc' = "idle"
              /\ lease' = "none" /\ timer' = "none"
    BY <1>15, Zenon DEF Verdict, PrepareArchive, SuspendLease
  <2>2. ~inFlight /\ phase = "checking"
    BY <2>1
  <2>3. QED
    BY <2>1, <2>2
<1>16. CASE Finish
  BY <1>16 DEF Finish, ClearPursuit
<1>17. CASE Rotate
  BY <1>17 DEF Rotate, SwitchSession, ResumePhase, StartChecks
<1>18. CASE DraftArrives
  BY <1>18 DEF DraftArrives, Idle, Free
<1>19. CASE WorkerReports
  <2>1. /\ pc = "idle" /\ phase = "working" /\ Patient
        /\ inFlight' = FALSE
        /\ UNCHANGED <<contract, yolo, outcome, termination>>
        /\ \/ /\ phase' = "needs_input" /\ UNCHANGED pc
              /\ lease' = "none" /\ timer' = "none"
           \/ /\ phase' = "checking" /\ pc' = "checks"
              /\ UNCHANGED <<lease, timer>>
    BY <1>19, Zenon DEF WorkerReports, Idle, Free, SuspendLease, StartChecks
  <2>2. QED
    BY <2>1
<1>20. CASE LateTurnEnds
  BY <1>20 DEF LateTurnEnds, Idle
<1>21. CASE RecoveredTurnEnds
  BY <1>21 DEF RecoveredTurnEnds, Idle
<1>22. CASE Recover
  BY <1>22 DEF Recover
<1>23. CASE RecoveryRefused
  BY <1>23 DEF RecoveryRefused
<1>24. CASE SessionError
  BY <1>24 DEF SessionError
<1>25. CASE BudgetInterrupt
  BY <1>25 DEF BudgetInterrupt
<1>26. CASE RetryFires
  BY <1>26 DEF RetryFires, ResumePhase, StartChecks, Free
<1>27. CASE DeadlineNoticed
  BY <1>27 DEF DeadlineNoticed, Free
<1>28. CASE ResumeDeadline
  BY <1>28 DEF ResumeDeadline, Free
<1>29. CASE ResumeBudget
  BY <1>29 DEF ResumeBudget, StopTurn, Free
<1>30. CASE ResumeStop
  BY <1>30 DEF ResumeStop, StopTurn, FinishStop, ClearPursuit, Free
<1>31. CASE ResumeInvalid
  BY <1>31 DEF ResumeInvalid, PauseInvalid, StopTurn, SuspendLease, Free
<1>32. CASE StartPursuit
  BY <1>32 DEF StartPursuit, Ready, Free
<1>33. CASE CommandStop
  BY <1>33 DEF CommandStop, FinishStop, ClearPursuit, Ready, Free
<1>34. CASE YoloOff
  BY <1>34 DEF YoloOff
<1>35. CASE YoloOn
  BY <1>35 DEF YoloOn, Ready, Free
<1>36. CASE Approve
  BY <1>36 DEF Approve, SwitchSession, Ready, Free
<1>37. CASE RequestRevision
  BY <1>37 DEF RequestRevision, SuspendLease, SwitchSession, Ready, Free
<1>38. CASE SignOff
  BY <1>38 DEF SignOff, StartChecks, PrepareArchive, Ready, Free
<1>39. CASE ContinueTranche
  BY <1>39 DEF ContinueTranche, SwitchSession, Ready, Free
<1>40. CASE BootTerminate
  BY <1>40 DEF BootTerminate
<1>41. CASE BootValidate
  BY <1>41 DEF BootValidate, PauseInvalid, StopTurn, SuspendLease, Free
<1>42. CASE BootResume
  BY <1>42 DEF BootResume, PrepareArchive, ResumePhase, StartChecks, Free
<1>43. CASE UNCHANGED vars
  BY <1>43 DEF vars
<1>44. QED
  BY <1>1, <1>2, <1>3, <1>4, <1>5, <1>6, <1>7, <1>8, <1>9, <1>10, <1>11,
     <1>12, <1>13, <1>14, <1>15, <1>16, <1>17, <1>18, <1>19, <1>20, <1>21,
     <1>22, <1>23, <1>24, <1>25, <1>26, <1>27, <1>28, <1>29, <1>30, <1>31,
     <1>32, <1>33, <1>34, <1>35, <1>36, <1>37, <1>38, <1>39, <1>40, <1>41,
     <1>42, <1>43
     DEF Next, Environment, Running, Events, User, Boot

\* README.md:196 "Review the draft and reply `approve` to start": a contract is
\* worked on, checked, judged and extended only while its approval stands.
THEOREM WorkApproved ==
  ASSUME "impatience" \notin Disturbances
  PROVE  Spec => []WorkIsApproved
<1>1. Init => PathInv
  BY DEF Init, PathInv, WorkIsApproved, PhaseFitsHandler, PhaseFitsTermination,
         TimerHasLease, EmptyIsUnapproved, NoTurnAwaited, ApprovedPhases
<1>2. Init => LeaseInv
  BY DEF Init, LeaseInv, LeaseIsAuthorized, NoLeaseToInherit
<1>3. TypeOK /\ LeaseInv /\ [Next]_vars => LeaseInv'
  BY LeaseNext
<1>4. TypeOK /\ LeaseInv /\ PathInv /\ [Next]_vars => PathInv'
  BY PathNext
<1>5. PathInv => WorkIsApproved
  BY DEF PathInv
<1>6. QED
  BY <1>1, <1>2, <1>3, <1>4, <1>5, TypeCorrect, PTL DEF Spec

------------------------------------------------------------------------------
(* The refinement.  A step changes at most what the user sees of the pursuit. *)

agreedNow == phase # "none" /\ contract = "approved"
reported  == IF phase = "none" THEN outcome ELSE None

\* What a step may do to the stage, the approval and the report.
Progress ==
    \/ Promise!Next
    \/ UNCHANGED <<Stage, agreedNow, reported>>

\* Every step of the detailed specification is one of the abstract, or invisible.
LEMMA StepImplements ==
  ASSUME "impatience" \notin Disturbances,
         TypeOK, LeaseInv, PathInv, [Next]_vars
  PROVE  Progress
<1> USE DEF Progress, Stage, agreedNow, reported,
            Promise!Next, Promise!Begin, Promise!Redraft, Promise!Agree, Promise!Ask,
            Promise!Judge, Promise!Work, Promise!Pause, Promise!Archive, Promise!Stop,
            Promise!Forget, Promise!Verdicts,
            PathInv, WorkIsApproved, PhaseFitsHandler, PhaseFitsTermination,
            EmptyIsUnapproved, ApprovedPhases, TimerHasLease, LeaseInv, NoLeaseToInherit,
            LeaseCurrent, Expired, Patient, TypeOK, StatesOK, Phases, Outcomes,
            authority, turn, ending
<1>1. CASE TurnEnds
  BY <1>1 DEF TurnEnds
<1>2. CASE DeadlinePasses
  BY <1>2 DEF DeadlinePasses
<1>3. CASE TimerFires
  BY <1>3 DEF TimerFires
<1>4. CASE SignalStop
  BY <1>4 DEF SignalStop
<1>5. CASE Restart
  BY <1>5 DEF Restart
<1>6. CASE SendProgress
  BY <1>6 DEF SendProgress
<1>7. CASE DispatchPrompt
  BY <1>7 DEF DispatchPrompt
<1>8. CASE Submit
  BY <1>8 DEF Submit
<1>9. CASE AtQuota
  BY <1>9 DEF AtQuota
<1>10. CASE Renew
  BY <1>10 DEF Renew, Refusable
<1>11. CASE DeadlineStopRefused
  BY <1>11 DEF DeadlineStopRefused, DeadlineTarget
<1>12. CASE BeginFinalChecks
  BY <1>12 DEF BeginFinalChecks, StopTurn, StartChecks
<1>13. CASE ChecksRefused
  BY <1>13 DEF ChecksRefused
<1>14. CASE InterruptChecks
  BY <1>14 DEF InterruptChecks
<1>15. CASE Verdict
  BY <1>15 DEF Verdict, PrepareArchive, SuspendLease
<1>16. CASE Finish
  BY <1>16 DEF Finish, ClearPursuit
<1>17. CASE Rotate
  BY <1>17 DEF Rotate, SwitchSession, ResumePhase, StartChecks
<1>18. CASE DraftArrives
  BY <1>18 DEF DraftArrives, Idle, Free
<1>19. CASE WorkerReports
  BY <1>19 DEF WorkerReports, Idle, SuspendLease, StartChecks
<1>20. CASE LateTurnEnds
  BY <1>20 DEF LateTurnEnds, Idle
<1>21. CASE RecoveredTurnEnds
  BY <1>21 DEF RecoveredTurnEnds, Idle
<1>22. CASE Recover
  BY <1>22 DEF Recover
<1>23. CASE RecoveryRefused
  BY <1>23 DEF RecoveryRefused
<1>24. CASE SessionError
  BY <1>24 DEF SessionError
<1>25. CASE BudgetInterrupt
  BY <1>25 DEF BudgetInterrupt
<1>26. CASE RetryFires
  BY <1>26 DEF RetryFires, ResumePhase, StartChecks, Free
<1>27. CASE DeadlineNoticed
  BY <1>27 DEF DeadlineNoticed, Free
<1>28. CASE ResumeDeadline
  BY <1>28 DEF ResumeDeadline, Free
<1>29. CASE ResumeBudget
  BY <1>29 DEF ResumeBudget, StopTurn, Free
<1>30. CASE ResumeStop
  BY <1>30 DEF ResumeStop, StopTurn, FinishStop, ClearPursuit, Free
<1>31. CASE ResumeInvalid
  BY <1>31 DEF ResumeInvalid, PauseInvalid, StopTurn, SuspendLease, Free
<1>32. CASE StartPursuit
  BY <1>32 DEF StartPursuit, Ready, Free
<1>33. CASE CommandStop
  BY <1>33 DEF CommandStop, FinishStop, ClearPursuit, Ready, Free
<1>34. CASE YoloOff
  BY <1>34 DEF YoloOff
<1>35. CASE YoloOn
  BY <1>35 DEF YoloOn, Ready, Free
<1>36. CASE Approve
  BY <1>36 DEF Approve, SwitchSession, Ready, Free
<1>37. CASE RequestRevision
  BY <1>37 DEF RequestRevision, SuspendLease, SwitchSession, Ready, Free
<1>38. CASE SignOff
  BY <1>38 DEF SignOff, StartChecks, PrepareArchive, Ready, Free
<1>39. CASE ContinueTranche
  BY <1>39 DEF ContinueTranche, SwitchSession, Ready, Free
<1>40. CASE BootTerminate
  BY <1>40 DEF BootTerminate
<1>41. CASE BootValidate
  BY <1>41 DEF BootValidate, PauseInvalid, StopTurn, SuspendLease, Free
<1>42. CASE BootResume
  BY <1>42 DEF BootResume, PrepareArchive, ResumePhase, StartChecks, Free
<1>43. CASE UNCHANGED vars
  BY <1>43 DEF vars
<1>44. QED
  BY <1>1, <1>2, <1>3, <1>4, <1>5, <1>6, <1>7, <1>8, <1>9, <1>10, <1>11,
     <1>12, <1>13, <1>14, <1>15, <1>16, <1>17, <1>18, <1>19, <1>20, <1>21,
     <1>22, <1>23, <1>24, <1>25, <1>26, <1>27, <1>28, <1>29, <1>30, <1>31,
     <1>32, <1>33, <1>34, <1>35, <1>36, <1>37, <1>38, <1>39, <1>40, <1>41,
     <1>42, <1>43
     DEF Next, Environment, Running, Events, User, Boot

\* Contracted (README.md:196): leases, quotas, retries, refused aborts, crashes and
\* replaced sessions never take a pursuit off the path of Pursuit: agreed, worked
\* on, judged, reported.
THEOREM Implements ==
  ASSUME "impatience" \notin Disturbances
  PROVE  Spec => Contracted
<1>1. Init => Promise!Init
  BY DEF Init, Promise!Init, Stage
<1>2. TypeOK /\ LeaseInv /\ PathInv /\ [Next]_vars => [Promise!Next]_Promise!vars
  BY StepImplements DEF Progress, Promise!vars, agreedNow, reported
<1>3. Init => PathInv /\ LeaseInv
  BY DEF Init, PathInv, WorkIsApproved, PhaseFitsHandler, PhaseFitsTermination,
         TimerHasLease, EmptyIsUnapproved, NoTurnAwaited, ApprovedPhases,
         LeaseInv, LeaseIsAuthorized, NoLeaseToInherit
<1>4. TypeOK /\ LeaseInv /\ [Next]_vars => LeaseInv'
  BY LeaseNext
<1>5. TypeOK /\ LeaseInv /\ PathInv /\ [Next]_vars => PathInv'
  BY PathNext
<1>6. QED
  BY <1>1, <1>2, <1>3, <1>4, <1>5, TypeCorrect, PTL DEF Spec, Contracted, Promise!Spec
=============================================================================
