------------------------ MODULE PursuitEvidenceProofs ------------------------
(***************************************************************************)
(* What holds of PursuitEvidence for every set of criteria, contents and   *)
(* outputs and every value of the bounds.                                  *)
(***************************************************************************)
EXTENDS PursuitEvidence, SequenceTheorems, WellFoundedInduction, TLAPS

\* Recording a well-typed result leaves a well-typed log, whether it is
\* appended or dropped (record_check_result).
LEMMA RecordType ==
    ASSUME NEW log \in Seq(Result), NEW r \in Result
    PROVE  Record(log, r) \in Seq(Result)
BY DEF Record

\* An adopted fingerprint, and the revision it counts as, keep their types.
LEMMA AdoptType ==
    ASSUME NEW content \in Contents, TypeOK, Adopt(content)
    PROVE  fingerprint' \in Contents /\ revision' \in 0..MaxRevision
BY BoundsAssumption DEF Adopt, TypeOK

\* A batch that starts is a well-typed batch.
LEMMA StartChecksType ==
    ASSUME NEW final \in BOOLEAN, StartChecks(final), fingerprint' \in Contents
    PROVE  /\ phase' \in Phases /\ pc' = "before"
           /\ batch' \in [before : Contents, clean : BOOLEAN, final : BOOLEAN,
                          shown : BOOLEAN, complete : BOOLEAN,
                          passed : SUBSET Criteria]
<1>1. batch' = [before |-> fingerprint', clean |-> TRUE, final |-> final,
                shown |-> (phase = "awaiting_signoff"), complete |-> FALSE,
                passed |-> {}]
  BY DEF StartChecks, NewBatch
<1>2. (phase = "awaiting_signoff") \in BOOLEAN  OBVIOUS
<1>3. QED BY <1>1, <1>2 DEF StartChecks, Phases

\* Whatever the verdict, phase, outcome, deadline and approval keep their types.
LEMMA VerdictType ==
    ASSUME TypeOK, NEW res, NEW rev, Verdict(res, rev)
    PROVE  /\ phase' \in Phases
           /\ pc' \in {"idle", "submit", "before", "check", "report"}
           /\ outcome' \in Outcomes \cup {None}
           /\ deadline' \in {"none", "armed", "due"}
           /\ approval' \in {"none", "answers_last", "outdated"}
BY DEF TypeOK, Verdict, PrepareArchive, Pause, Phases, Outcomes

\* A pursuit whose contract was just approved is well-typed.
LEMMA TypeInit == Init => TypeOK
<1> SUFFICES ASSUME Init PROVE TypeOK
  OBVIOUS
<1>1. results \in [Criteria -> Seq(Result)]
  <2>1. << >> \in Seq(Result)
    OBVIOUS
  <2> QED BY <2>1 DEF Init
<1>2. revision \in 0..MaxRevision /\ version \in 1..MaxVersion
  BY BoundsAssumption DEF Init
<1>3. cycles \in 0..MaxCycles /\ tranche \in 1..MaxTranche
  BY BoundsAssumption DEF Init
<1> QED BY <1>1, <1>2, <1>3 DEF Init, TypeOK, Phases

\* No operation leaves the types, within the declared bounds.
LEMMA TypeNext == TypeOK /\ [Next]_vars => TypeOK'
<1> SUFFICES ASSUME TypeOK, [Next]_vars PROVE TypeOK'
  OBVIOUS
<1> USE BoundsAssumption
<1>1. CASE Edit
  BY <1>1 DEF Edit, TypeOK, evidence, control, ledger
<1>2. CASE SignalStop
  BY <1>2 DEF SignalStop, TypeOK, evidence, ledger
<1>3. CASE DeadlineFires
  BY <1>3 DEF DeadlineFires, TypeOK, evidence, ledger
<1>4. CASE SendApproval
  BY <1>4 DEF SendApproval, TypeOK, evidence, control, ledger
<1>5. CASE SubmitWorker
  <2>1. Adopt(workspace) /\ workspace \in Contents
    BY <1>5 DEF SubmitWorker, TypeOK
  <2>2. cycles' \in 0..MaxCycles
    BY <1>5 DEF SubmitWorker, TypeOK
  <2> QED BY <1>5, <2>1, <2>2, AdoptType DEF SubmitWorker, TypeOK, Phases
<1>6. CASE AutoRenew
  <2>1. Adopt(workspace) /\ workspace \in Contents
    BY <1>6 DEF AutoRenew, TypeOK
  <2>2. tranche' \in 1..MaxTranche /\ cycles' \in 0..MaxCycles
    BY <1>6 DEF AutoRenew, TypeOK
  <2> QED BY <1>6, <2>1, <2>2, AdoptType DEF AutoRenew, TypeOK, Phases
<1>7. CASE EnterBudgetCheckpoint
  BY <1>7 DEF EnterBudgetCheckpoint, TypeOK, evidence, ledger, Phases
<1>8. CASE SubmitAfterDeadline
  <2>1. Adopt(workspace) /\ workspace \in Contents /\ StartChecks(TRUE)
    BY <1>8 DEF SubmitAfterDeadline, FinalChecks, TypeOK
  <2> QED BY <1>8, <2>1, AdoptType, StartChecksType
          DEF SubmitAfterDeadline, TypeOK, ledger
<1>9. CASE WorkerReports
  <2>1. Adopt(workspace) /\ workspace \in Contents /\ StartChecks(deadline = "due")
    BY <1>9 DEF WorkerReports, TypeOK
  <2>2. (deadline = "due") \in BOOLEAN  OBVIOUS
  <2> QED BY <1>9, <2>1, <2>2, AdoptType, StartChecksType
          DEF WorkerReports, TypeOK, ledger
<1>10. CASE WorkerBlocked
  <2>1. Adopt(workspace) /\ workspace \in Contents
    BY <1>10 DEF WorkerBlocked, TypeOK
  <2> QED BY <1>10, <2>1, AdoptType DEF WorkerBlocked, TypeOK, ledger, Phases
<1>11. CASE ReadBefore
  BY <1>11 DEF ReadBefore, TypeOK, evidence, ledger
<1>12. CASE InterruptChecks
  BY <1>12 DEF InterruptChecks, TypeOK, evidence, ledger
<1>13. CASE FinishBatch
  <2>1. PICK seen \in Observations, readable \in BOOLEAN :
          LET after   == IF readable THEN workspace ELSE batch.before
              mutated == ~readable \/ ~batch.clean \/ after # batch.before
              rev     == IF mutated THEN revision + 1 ELSE revision
              status(c) == RecordedStatus(seen[c], mutated)
              result(c) == [version |-> version, revision |-> rev,
                            status |-> status(c), output |-> seen[c].output]
              res == [c \in Criteria |-> Record(results[c], result(c))]
          IN /\ rev <= MaxRevision
             /\ revision' = rev
             /\ fingerprint' = after
             /\ results' = res
             /\ batch' = [batch EXCEPT !.clean = ~mutated, !.complete = TRUE,
                              !.passed = {c \in Criteria : status(c) = "pass"}]
             /\ IF stopEvent
                THEN /\ pc' = "idle"
                     /\ UNCHANGED <<phase, outcome, deadline, approval>>
                ELSE Verdict(res, rev)
    BY <1>13 DEF FinishBatch
  <2> DEFINE after   == IF readable THEN workspace ELSE batch.before
             mutated == ~readable \/ ~batch.clean \/ after # batch.before
             rev     == IF mutated THEN revision + 1 ELSE revision
             status(c) == RecordedStatus(seen[c], mutated)
             result(c) == [version |-> version, revision |-> rev,
                           status |-> status(c), output |-> seen[c].output]
             res == [c \in Criteria |-> Record(results[c], result(c))]
  <2>2. after \in Contents /\ mutated \in BOOLEAN
    BY DEF TypeOK
  <2>3. rev \in 0..MaxRevision
    BY <2>1 DEF TypeOK
  <2>4. \A c \in Criteria : result(c) \in Result
    <3> SUFFICES ASSUME NEW c \in Criteria PROVE result(c) \in Result
      OBVIOUS
    <3>1. seen[c] \in Execution
      BY DEF Observations
    <3>2. status(c) \in Statuses
      BY <3>1 DEF RecordedStatus, Execution, Statuses
    <3> HIDE DEF status, rev
    <3> QED BY <2>3, <3>1, <3>2 DEF Result, Execution, TypeOK
  <2>5. res \in [Criteria -> Seq(Result)]
    <3> HIDE DEF result
    <3> QED BY <2>4, RecordType DEF TypeOK
  <2>6. batch' \in [before : Contents, clean : BOOLEAN, final : BOOLEAN,
                    shown : BOOLEAN, complete : BOOLEAN, passed : SUBSET Criteria]
    <3>1. {c \in Criteria : status(c) = "pass"} \in SUBSET Criteria
      OBVIOUS
    <3>2. batch' = [batch EXCEPT !.clean = ~mutated, !.complete = TRUE,
                        !.passed = {c \in Criteria : status(c) = "pass"}]
      BY <2>1
    <3> HIDE DEF status, mutated
    <3> QED BY <2>2, <3>1, <3>2 DEF TypeOK
  <2>7. /\ fingerprint' = after /\ revision' = rev /\ results' = res
        /\ stopEvent => /\ pc' = "idle"
                        /\ UNCHANGED <<phase, outcome, deadline, approval>>
        /\ ~stopEvent => Verdict(res, rev)
    BY <2>1
  <2>8. /\ phase' \in Phases
        /\ pc' \in {"idle", "submit", "before", "check", "report"}
        /\ outcome' \in Outcomes \cup {None}
        /\ deadline' \in {"none", "armed", "due"}
        /\ approval' \in {"none", "answers_last", "outdated"}
    <3> HIDE DEF res, rev
    <3> QED BY <2>7, VerdictType DEF TypeOK
  <2> HIDE DEF after, mutated, rev, res
  <2> QED BY <1>13, <2>2, <2>3, <2>5, <2>6, <2>7, <2>8 DEF FinishBatch, TypeOK, ledger
<1>14. CASE Archive
  BY <1>14 DEF Archive, TypeOK, evidence, ledger, Phases
<1>15. CASE HandleStop
  BY <1>15 DEF HandleStop, TypeOK, evidence, ledger, Phases, Outcomes
<1>16. CASE HandleDeadline
  <2>1. CASE phase = "needs_input"
    BY <1>16, <2>1 DEF HandleDeadline, TypeOK, ledger
  <2>2. CASE phase # "needs_input"
    <3>1. Adopt(workspace) /\ workspace \in Contents /\ StartChecks(TRUE)
      BY <1>16, <2>2 DEF HandleDeadline, FinalChecks, TypeOK
    <3> QED BY <1>16, <2>2, <3>1, AdoptType, StartChecksType
            DEF HandleDeadline, TypeOK, ledger
  <2> QED BY <2>1, <2>2
<1>17. CASE HandleApproval
  <2>1. CASE phase = "awaiting_signoff" /\ (CandidateChanged \/ ObjectiveStale)
    <3>1. Adopt(workspace) /\ workspace \in Contents /\ StartChecks(FALSE)
      BY <1>17, <2>1 DEF HandleApproval, TypeOK
    <3> QED BY <1>17, <2>1, <3>1, AdoptType, StartChecksType
            DEF HandleApproval, TypeOK, ledger
  <2>2. CASE phase = "awaiting_signoff" /\ ~CandidateChanged /\ ~ObjectiveStale
    <3>1. \A c \in Human : HumanPass(c) \in Result
      BY DataAssumption DEF HumanPass, Result, TypeOK, Statuses
    <3>2. results' = [c \in Criteria |-> IF c \in Human
                                         THEN Record(results[c], HumanPass(c))
                                         ELSE results[c]]
      BY <1>17, <2>2 DEF HandleApproval
    <3>3. results' \in [Criteria -> Seq(Result)]
      BY <3>1, <3>2, RecordType DEF TypeOK
    <3> QED BY <1>17, <2>2, <3>3 DEF HandleApproval, TypeOK, ledger, Outcomes
  <2>3. CASE phase # "awaiting_signoff"
    BY <1>17, <2>3 DEF HandleApproval, TypeOK, ledger
  <2> QED BY <2>1, <2>2, <2>3
<1>18. CASE HandleContinue
  <2>1. tranche' \in 1..MaxTranche /\ cycles' \in 0..MaxCycles
    BY <1>18 DEF HandleContinue, TypeOK
  <2> QED BY <1>18, <2>1 DEF HandleContinue, TypeOK, Phases
<1>19. CASE RequestRevision
  BY <1>19 DEF RequestRevision, TypeOK, evidence, ledger, Phases
<1>20. CASE DraftArrives
  <2>1. version' \in 1..MaxVersion
    BY <1>20 DEF DraftArrives, TypeOK
  <2> QED BY <1>20, <2>1 DEF DraftArrives, TypeOK, ledger, Phases
<1>21. CASE ApproveContract
  BY <1>21 DEF ApproveContract, TypeOK, Phases
<1>22. CASE UNCHANGED vars
  BY <1>22 DEF vars, TypeOK, evidence, control, ledger
<1> QED
  BY <1>1, <1>2, <1>3, <1>4, <1>5, <1>6, <1>7, <1>8, <1>9, <1>10, <1>11, <1>12,
     <1>13, <1>14, <1>15, <1>16, <1>17, <1>18, <1>19, <1>20, <1>21, <1>22
     DEF Next, Environment, Running, Handlers

\* Every reachable state is well typed; in particular no action leaves the
\* declared bounds, which its guards enforce one by one.
THEOREM TypeCorrect == Spec => []TypeOK
BY TypeInit, TypeNext, PTL DEF Spec

------------------------------------------------------------------------------
(* The log of one criterion.                                               *)

\* What is found in a log of results is a result.
LEMMA LogElement ==
    ASSUME NEW log \in Seq(Result), NEW i \in DOMAIN log
    PROVE  log[i] \in Result /\ log[i].revision \in Nat
<1>1. log[i] \in Result
  OBVIOUS
<1> QED BY <1>1, BoundsAssumption DEF Result

\* An observation that is dropped is on record already.
LEMMA RecordHas ==
    ASSUME NEW log \in Seq(Result), NEW r \in Result
    PROVE  \E i \in DOMAIN Record(log, r) : Record(log, r)[i] = r
<1>1. CASE Duplicate(log, r)
  BY <1>1 DEF Duplicate, Record
<1>2. CASE ~Duplicate(log, r)
  <2>1. Record(log, r) = Append(log, r)
    BY <1>2 DEF Record
  <2>2. Len(log) + 1 \in DOMAIN Append(log, r) /\ Append(log, r)[Len(log) + 1] = r
    OBVIOUS
  <2> QED BY <2>1, <2>2
<1> QED BY <1>1, <1>2

\* The log never mentions a revision of the workspace that is still to come.
LEMMA RecordBound ==
    ASSUME NEW log \in Seq(Result), NEW r \in Result, NEW m \in Nat,
           r.revision <= m, \A i \in DOMAIN log : log[i].revision <= m
    PROVE  \A i \in DOMAIN Record(log, r) : Record(log, r)[i].revision <= m
<1>1. CASE Duplicate(log, r)
  BY <1>1 DEF Record
<1>2. CASE ~Duplicate(log, r)
  <2>1. Record(log, r) = Append(log, r)
    BY <1>2 DEF Record
  <2>2. \A i \in DOMAIN Append(log, r) :
           (i \in DOMAIN log /\ Append(log, r)[i] = log[i]) \/ Append(log, r)[i] = r
    OBVIOUS
  <2> QED BY <2>1, <2>2
<1> QED BY <1>1, <1>2

\* The first result of a revision decides the criterion's status.
LEMMA RecordFirst ==
    ASSUME NEW log \in Seq(Result), NEW r \in Result,
           \A i \in DOMAIN log : log[i].revision # r.revision
    PROVE  CurrentStatus(Record(log, r), r.version, r.revision) = r.status
<1> DEFINE n == Len(log) + 1
           new == Append(log, r)
           fresh == Fresh(new, r.version, r.revision)
<1>1. Record(log, r) = new
  BY DEF Record, Duplicate
<1>2. fresh = {n}
  <2>1. DOMAIN new = 1..n /\ new[n] = r /\ \A i \in DOMAIN log : new[i] = log[i]
    OBVIOUS
  <2>2. \A i \in 1..n : i = n \/ i \in DOMAIN log
    OBVIOUS
  <2>3. n \in 1..n
    OBVIOUS
  <2> HIDE DEF new, n
  <2> QED BY <2>1, <2>2, <2>3 DEF Fresh
<1>3. new[n] = r
  OBVIOUS
<1>4. n <= n
  OBVIOUS
<1> HIDE DEF n, new
<1>5. (CHOOSE i \in fresh : \A j \in fresh : j <= i) = n
  <2> HIDE DEF fresh
  <2>1. \A i \in fresh : i = n
    BY <1>2
  <2> QED BY <1>2, <1>4
<1> QED BY <1>1, <1>2, <1>3, <1>5 DEF CurrentStatus

------------------------------------------------------------------------------
(* The inductive invariant.                                                *)

Success == {"verified_complete", "provisional"}

\* Where the handler that holds the lock can be, given the phase; an outcome is
\* chosen only while its report is built or once the archive is made.
ControlInv ==
    /\ phase = "over" => pc = "idle" /\ outcome # None
    /\ pc = "submit" => phase = "working"
    /\ pc \in {"before", "check"} => phase = "checking"
    /\ phase = "awaiting_signoff" => pc \in {"idle", "report"}
    /\ outcome # None => pc = "report" \/ phase = "over"
    /\ pc = "report" => outcome # None

\* No result belongs to a revision that is still to come: what a batch records
\* about a workspace it saw moving is the first word on the new revision.
RevisionInv ==
    \A c \in Criteria : \A i \in DOMAIN results[c] : results[c][i].revision <= revision

\* Whoever is about to archive a success, or waits for a sign-off, has a
\* candidate: that is what makes Successful => Candidate inductive.
CandidateInv ==
    (\/ phase = "awaiting_signoff"
     \/ pc = "report" /\ outcome \in Success
     \/ Successful) => Candidate

Inductive == TypeOK /\ ControlInv /\ RevisionInv /\ CandidateInv

\* What a batch leaves behind: no result from the future, and a candidate if
\* every objective criterion passes on the revision it recorded.
LEMMA BatchEvidence ==
    ASSUME TypeOK, RevisionInv, FinishBatch
    PROVE  /\ RevisionInv'
           /\ (\A c \in Objective :
                  CurrentStatus(results'[c], version, revision') = "pass") => Candidate'
           /\ ~stopEvent => Verdict(results', revision')
           /\ stopEvent => pc' = "idle" /\ UNCHANGED <<phase, outcome>>
           /\ UNCHANGED version
<1>1. PICK seen \in Observations, readable \in BOOLEAN :
        LET after   == IF readable THEN workspace ELSE batch.before
            mutated == ~readable \/ ~batch.clean \/ after # batch.before
            rev     == IF mutated THEN revision + 1 ELSE revision
            status(c) == RecordedStatus(seen[c], mutated)
            result(c) == [version |-> version, revision |-> rev,
                          status |-> status(c), output |-> seen[c].output]
            res == [c \in Criteria |-> Record(results[c], result(c))]
        IN /\ rev <= MaxRevision
           /\ revision' = rev
           /\ fingerprint' = after
           /\ results' = res
           /\ batch' = [batch EXCEPT !.clean = ~mutated, !.complete = TRUE,
                            !.passed = {c \in Criteria : status(c) = "pass"}]
           /\ IF stopEvent
              THEN /\ pc' = "idle"
                   /\ UNCHANGED <<phase, outcome, deadline, approval>>
              ELSE Verdict(res, rev)
  BY DEF FinishBatch
<1> DEFINE after   == IF readable THEN workspace ELSE batch.before
           mutated == ~readable \/ ~batch.clean \/ after # batch.before
           rev     == IF mutated THEN revision + 1 ELSE revision
           status(c) == RecordedStatus(seen[c], mutated)
           result(c) == [version |-> version, revision |-> rev,
                         status |-> status(c), output |-> seen[c].output]
           res == [c \in Criteria |-> Record(results[c], result(c))]
<1>2. /\ revision' = rev /\ fingerprint' = after /\ results' = res
      /\ batch' = [batch EXCEPT !.clean = ~mutated, !.complete = TRUE,
                       !.passed = {c \in Criteria : status(c) = "pass"}]
      /\ version' = version /\ rev <= MaxRevision
      /\ stopEvent => pc' = "idle" /\ UNCHANGED <<phase, outcome>>
      /\ ~stopEvent => Verdict(res, rev)
  BY <1>1 DEF FinishBatch
<1>3. rev \in 0..MaxRevision /\ revision <= rev /\ (mutated => revision < rev)
  BY <1>2, BoundsAssumption DEF TypeOK
<1>4. ASSUME NEW c \in Criteria
      PROVE  /\ result(c) \in Result /\ results[c] \in Seq(Result)
             /\ result(c).version = version /\ result(c).revision = rev
             /\ result(c).status = status(c)
  <2>1. seen[c] \in Execution
    BY DEF Observations
  <2>2. status(c) \in Statuses
    BY <2>1 DEF RecordedStatus, Execution, Statuses
  <2> HIDE DEF status, rev
  <2> QED BY <1>3, <2>1, <2>2 DEF Result, Execution, TypeOK
<1>5. batch'.complete /\ batch'.clean = ~mutated /\ batch'.before = batch.before
      /\ batch'.passed = {c \in Criteria : status(c) = "pass"}
  <2> HIDE DEF status, mutated
  <2> QED BY <1>2 DEF TypeOK
<1>6. RevisionInv'
  <2> SUFFICES ASSUME NEW c \in Criteria
               PROVE  \A i \in DOMAIN results'[c] : results'[c][i].revision <= revision'
    BY DEF RevisionInv
  <2>1. results'[c] = Record(results[c], result(c))
    BY <1>2
  <2>2. \A i \in DOMAIN results[c] : results[c][i].revision <= rev
    <3> SUFFICES ASSUME NEW i \in DOMAIN results[c] PROVE results[c][i].revision <= rev
      OBVIOUS
    <3>1. results[c] \in Seq(Result)
      BY <1>4
    <3>2. results[c][i].revision \in Nat /\ results[c][i].revision <= revision
      BY <3>1, LogElement DEF RevisionInv
    <3> HIDE DEF rev
    <3> QED BY <3>2, <1>3, BoundsAssumption DEF TypeOK
  <2>3. rev \in Nat /\ rev <= rev
    BY <1>3, BoundsAssumption
  <2>4. \A i \in DOMAIN Record(results[c], result(c)) :
            Record(results[c], result(c))[i].revision <= rev
    <3> HIDE DEF rev, result
    <3> QED BY <1>4, <2>2, <2>3, RecordBound
  <2> HIDE DEF rev, result
  <2> QED BY <1>2, <2>1, <2>4
<1>7. ASSUME \A c \in Objective : CurrentStatus(results'[c], version, revision') = "pass"
      PROVE  Candidate'
  <2> SUFFICES ASSUME NEW c \in Objective
               PROVE  /\ batch'.clean
                      /\ fingerprint' = batch'.before
                      /\ CurrentlyPasses(results', version', revision', c)
                      /\ c \in batch'.passed \/ OnceRefuted(c)'
    BY <1>5 DEF Candidate
  <2>0. c \in Criteria /\ results'[c] = Record(results[c], result(c))
    BY <1>2 DEF Criteria
  <2>1. CurrentStatus(Record(results[c], result(c)), version, rev) = "pass"
    BY <1>2, <1>7, <2>0
  <2>2. ~mutated
    <3> SUFFICES ASSUME mutated PROVE FALSE
      OBVIOUS
    <3>1. \A i \in DOMAIN results[c] : results[c][i].revision # rev
      <4> SUFFICES ASSUME NEW i \in DOMAIN results[c]
                   PROVE  results[c][i].revision # rev
        OBVIOUS
      <4>1. results[c] \in Seq(Result)
        BY <1>4, <2>0
      <4>2. results[c][i].revision \in Nat /\ results[c][i].revision <= revision
        BY <4>1, <2>0, LogElement DEF RevisionInv
      <4>3. revision \in Nat /\ rev \in Nat /\ revision < rev
        BY <1>3, BoundsAssumption DEF TypeOK
      <4> HIDE DEF rev
      <4> QED BY <4>2, <4>3
    <3>2. status(c) = "unverifiable"
      BY DEF RecordedStatus
    <3> HIDE DEF rev, result, status, mutated
    <3>3. CurrentStatus(Record(results[c], result(c)), version, rev) = status(c)
      BY <1>4, <2>0, <3>1, RecordFirst
    <3> QED BY <2>1, <3>2, <3>3
  <2>3. after = batch.before /\ batch'.clean /\ fingerprint' = batch'.before
    BY <2>2, <1>2, <1>5
  <2>4. CurrentlyPasses(results', version', revision', c)
    BY <1>2, <1>7 DEF CurrentlyPasses
  <2>5. CASE status(c) = "pass"
    BY <2>5, <2>0, <2>3, <2>4, <1>5
  <2>6. CASE status(c) # "pass"
    <3> HIDE DEF rev, result, status
    <3>1. PICK i \in DOMAIN results'[c] : results'[c][i] = result(c)
      BY <1>4, <2>0, RecordHas
    <3>2. i \in Fresh(results'[c], version', revision') /\ results'[c][i].status # "pass"
      BY <1>2, <1>4, <2>0, <2>6, <3>1 DEF Fresh
    <3>3. OnceRefuted(c)'
      BY <3>2 DEF OnceRefuted
    <3> QED BY <2>3, <2>4, <3>3
  <2> QED BY <2>5, <2>6
<1>8. ~stopEvent => Verdict(results', revision')
  <2> HIDE DEF res, rev
  <2> QED BY <1>2
<1> QED BY <1>2, <1>6, <1>7, <1>8

\* Handlers that leave evidence and batch alone leave a candidate one.
LEMMA CandidateStable ==
    ASSUME UNCHANGED <<fingerprint, revision, version, batch>>,
           \A c \in Objective : results'[c] = results[c],
           Candidate
    PROVE  Candidate'
BY DEF Candidate, CurrentlyPasses, OnceRefuted

\* A revision that is adopted is not smaller; the logs stay below it.
LEMMA RevisionStable ==
    ASSUME TypeOK, RevisionInv, UNCHANGED results,
           UNCHANGED revision \/ Adopt(workspace)
    PROVE  RevisionInv'
<1> SUFFICES ASSUME NEW c \in Criteria, NEW i \in DOMAIN results[c]
             PROVE  results[c][i].revision <= revision'
  BY DEF RevisionInv
<1>1. results[c] \in Seq(Result)
  BY DEF TypeOK
<1>2. results[c][i].revision \in Nat /\ results[c][i].revision <= revision
  BY <1>1, LogElement DEF RevisionInv
<1>3. revision \in Nat /\ (revision' = revision \/ revision' = revision + 1)
  BY BoundsAssumption DEF TypeOK, Adopt
<1> QED BY <1>2, <1>3

\* A handler that takes the phase away from success owes no candidate.
LEMMA NotSuccessful ==
    ASSUME phase' \notin {"awaiting_signoff", "over"}, pc' # "report"
    PROVE  CandidateInv'
BY DEF CandidateInv, Successful

\* Nothing is recorded or archived yet.
LEMMA InitInductive == Init => Inductive
<1> SUFFICES ASSUME Init PROVE Inductive
  OBVIOUS
<1>1. TypeOK
  BY TypeInit
<1>2. ControlInv
  BY DEF Init, ControlInv
<1>3. RevisionInv
  BY DEF Init, RevisionInv
<1>4. CandidateInv
  BY DEF Init, CandidateInv, Successful
<1> QED BY <1>1, <1>2, <1>3, <1>4 DEF Inductive

\* Every operation keeps what success rests on: one step per action, the batch
\* being the only one that makes a candidate.
LEMMA NextInductive == Inductive /\ [Next]_vars => Inductive'
<1> SUFFICES ASSUME Inductive, [Next]_vars PROVE Inductive'
  OBVIOUS
<1> USE DEF Success
<1>t. TypeOK' /\ TypeOK /\ ControlInv /\ RevisionInv /\ CandidateInv
  BY TypeNext DEF Inductive
<1> SUFFICES ControlInv' /\ RevisionInv' /\ CandidateInv'
  BY <1>t DEF Inductive
<1>1. CASE Edit \/ SignalStop \/ DeadlineFires \/ SendApproval \/ UNCHANGED vars
  <2>1. UNCHANGED <<fingerprint, revision, version, results, phase, pc, outcome, batch>>
    BY <1>1 DEF Edit, SignalStop, DeadlineFires, SendApproval, vars, evidence, control
  <2>2. ControlInv'
    BY <2>1, <1>t DEF ControlInv
  <2>3. RevisionInv'
    BY <2>1, <1>t, RevisionStable
  <2>4. CandidateInv'
    BY <2>1, <1>t, CandidateStable DEF CandidateInv, Successful
  <2> QED BY <2>2, <2>3, <2>4
<1>2. CASE SubmitWorker
  <2>1. phase' = "working" /\ pc' = "idle" /\ UNCHANGED <<results, outcome>>
        /\ pc = "submit" /\ Adopt(workspace)
    BY <1>2 DEF SubmitWorker
  <2> QED BY <2>1, <1>t, RevisionStable, NotSuccessful DEF ControlInv
<1>3. CASE AutoRenew
  <2>1. phase' = "working" /\ pc' = "submit" /\ UNCHANGED <<results, outcome>>
        /\ pc = "submit" /\ Adopt(workspace)
    BY <1>3 DEF AutoRenew
  <2> QED BY <2>1, <1>t, RevisionStable, NotSuccessful DEF ControlInv
<1>4. CASE EnterBudgetCheckpoint
  <2>1. phase' = "budget_checkpoint" /\ pc' = "idle" /\ pc = "submit"
        /\ UNCHANGED <<results, revision, outcome>>
    BY <1>4 DEF EnterBudgetCheckpoint, evidence
  <2> QED BY <2>1, <1>t, RevisionStable, NotSuccessful DEF ControlInv
<1>5. CASE SubmitAfterDeadline
  <2>1. phase' = "checking" /\ pc' = "before" /\ UNCHANGED <<results, outcome>>
        /\ pc = "submit" /\ Adopt(workspace)
    BY <1>5 DEF SubmitAfterDeadline, FinalChecks, StartChecks
  <2> QED BY <2>1, <1>t, RevisionStable, NotSuccessful DEF ControlInv
<1>6. CASE WorkerReports
  <2>1. phase' = "checking" /\ pc' = "before" /\ UNCHANGED <<results, outcome>>
        /\ pc = "idle" /\ phase = "working" /\ Adopt(workspace)
    BY <1>6 DEF WorkerReports, StartChecks
  <2> QED BY <2>1, <1>t, RevisionStable, NotSuccessful DEF ControlInv
<1>7. CASE WorkerBlocked
  <2>1. phase' = "needs_input" /\ pc' = "idle" /\ UNCHANGED <<results, outcome>>
        /\ pc = "idle" /\ phase = "working" /\ Adopt(workspace)
    BY <1>7 DEF WorkerBlocked
  <2> QED BY <2>1, <1>t, RevisionStable, NotSuccessful DEF ControlInv
<1>8. CASE ReadBefore \/ InterruptChecks
  <2>1. phase' = "checking" /\ pc' \in {"check", "idle"}
        /\ UNCHANGED <<results, revision, outcome>> /\ outcome = None
    BY <1>8, <1>t DEF ReadBefore, InterruptChecks, evidence, ControlInv
  <2> QED BY <2>1, <1>t, RevisionStable, NotSuccessful DEF ControlInv
<1>9. CASE FinishBatch
  <2>1. /\ RevisionInv'
        /\ (\A c \in Objective :
               CurrentStatus(results'[c], version, revision') = "pass") => Candidate'
        /\ ~stopEvent => Verdict(results', revision')
        /\ stopEvent => pc' = "idle" /\ UNCHANGED <<phase, outcome>>
    BY <1>9, <1>t, BatchEvidence
  <2>2. phase = "checking" /\ pc = "check" /\ outcome = None
    BY <1>9, <1>t DEF FinishBatch, ControlInv
  <2>3. CASE stopEvent
    BY <2>1, <2>2, <2>3, NotSuccessful DEF ControlInv
  <2>4. CASE ~stopEvent
    <3>1. ControlInv'
      BY <2>1, <2>2, <2>4, DataAssumption
         DEF ControlInv, Verdict, PrepareArchive, Pause, Outcomes
    <3>2. CandidateInv'
      BY <2>1, <2>2, <2>4
         DEF CandidateInv, Successful, Verdict, PrepareArchive, Pause
    <3> QED BY <2>1, <3>1, <3>2
  <2> QED BY <2>3, <2>4
<1>10. CASE Archive
  <2>1. UNCHANGED <<fingerprint, revision, version, results, batch>> /\ pc = "report"
        /\ pc' = "idle"
    BY <1>10 DEF Archive, evidence
  <2>2. CASE stopEvent
    <3>1. outcome' = None /\ phase' = phase
      BY <1>10, <2>2 DEF Archive
    <3>2. ControlInv'
      BY <2>1, <3>1, <1>t DEF ControlInv
    <3>3. CandidateInv'
      BY <2>1, <3>1, <1>t, CandidateStable, DataAssumption
         DEF CandidateInv, Successful, Outcomes
    <3> QED BY <2>1, <3>2, <3>3, <1>t, RevisionStable
  <2>3. CASE ~stopEvent
    <3>1. outcome' = outcome /\ phase' = "over"
      BY <1>10, <2>3 DEF Archive
    <3>2. outcome # None
      BY <2>1, <1>t DEF ControlInv
    <3>3. ControlInv'
      BY <2>1, <3>1, <3>2 DEF ControlInv
    <3>4. CandidateInv'
      BY <2>1, <3>1, <1>t, CandidateStable DEF CandidateInv, Successful
    <3> QED BY <2>1, <3>3, <3>4, <1>t, RevisionStable
  <2> QED BY <2>2, <2>3
<1>11. CASE HandleStop
  <2>1. UNCHANGED <<fingerprint, revision, version, results, batch, pc>> /\ pc = "idle"
    BY <1>11 DEF HandleStop, evidence
  <2>2. CASE phase = "over"
    <3>1. UNCHANGED <<phase, outcome>>
      BY <1>11, <2>2 DEF HandleStop
    <3> QED BY <2>1, <3>1, <1>t, RevisionStable, CandidateStable
            DEF ControlInv, CandidateInv, Successful
  <2>3. CASE phase # "over"
    <3>1. phase' = "over" /\ outcome' = "stopped"
      BY <1>11, <2>3 DEF HandleStop
    <3>2. CandidateInv'
      BY <2>1, <3>1 DEF CandidateInv, Successful
    <3>3. ControlInv'
      BY <2>1, <3>1, DataAssumption DEF ControlInv, Outcomes
    <3> QED BY <2>1, <3>2, <3>3, <1>t, RevisionStable
  <2> QED BY <2>2, <2>3
<1>12. CASE HandleDeadline
  <2>1. CASE phase = "needs_input"
    <3>1. UNCHANGED <<results, revision, outcome, phase, pc>> /\ pc = "idle"
      BY <1>12, <2>1 DEF HandleDeadline
    <3> QED BY <2>1, <3>1, <1>t, RevisionStable, NotSuccessful DEF ControlInv
  <2>2. CASE phase # "needs_input"
    <3>1. phase' = "checking" /\ pc' = "before" /\ UNCHANGED <<results, outcome>>
          /\ pc = "idle" /\ phase # "over" /\ Adopt(workspace)
      BY <1>12, <2>2 DEF HandleDeadline, FinalChecks, StartChecks
    <3> QED BY <3>1, <1>t, RevisionStable, NotSuccessful DEF ControlInv
  <2> QED BY <2>1, <2>2
<1>13. CASE HandleApproval
  <2>1. CASE phase = "awaiting_signoff" /\ (CandidateChanged \/ ObjectiveStale)
    <3>1. phase' = "checking" /\ pc' = "before" /\ UNCHANGED <<results, outcome>>
          /\ pc = "idle" /\ Adopt(workspace)
      BY <1>13, <2>1 DEF HandleApproval, StartChecks
    <3> QED BY <2>1, <3>1, <1>t, RevisionStable, NotSuccessful DEF ControlInv
  <2>2. CASE phase = "awaiting_signoff" /\ ~CandidateChanged /\ ~ObjectiveStale
    <3>1. /\ UNCHANGED <<fingerprint, revision, version, batch, phase>>
          /\ outcome' = "verified_complete" /\ pc' = "report"
          /\ results' = [c \in Criteria |-> IF c \in Human
                                            THEN Record(results[c], HumanPass(c))
                                            ELSE results[c]]
      BY <1>13, <2>2 DEF HandleApproval
    <3>2. \A c \in Objective : c \in Criteria /\ c \notin Human
      BY CriteriaAssumption DEF Criteria
    <3>3. Candidate'
      BY <2>2, <3>1, <3>2, <1>t, CandidateStable DEF CandidateInv
    <3>4. ControlInv'
      BY <2>2, <3>1, DataAssumption DEF ControlInv, Outcomes
    <3>5. RevisionInv'
      <4> SUFFICES ASSUME NEW c \in Criteria
                   PROVE  \A i \in DOMAIN results'[c] :
                              results'[c][i].revision <= revision
        BY <3>1 DEF RevisionInv
      <4>1. results[c] \in Seq(Result) /\ revision \in Nat /\ revision <= revision
        BY <1>t, BoundsAssumption DEF TypeOK
      <4>2. \A i \in DOMAIN results[c] : results[c][i].revision <= revision
        BY <1>t DEF RevisionInv
      <4>3. CASE c \in Human
        <5>1. HumanPass(c) \in Result /\ HumanPass(c).revision = revision
          BY <1>t, DataAssumption DEF HumanPass, Result, TypeOK, Statuses
        <5>2. results'[c] = Record(results[c], HumanPass(c))
          BY <3>1, <4>3
        <5> QED BY <4>1, <4>2, <5>1, <5>2, RecordBound
      <4>4. CASE c \notin Human
        BY <3>1, <4>2, <4>4
      <4> QED BY <4>3, <4>4
    <3> QED BY <3>3, <3>4, <3>5 DEF CandidateInv
  <2>3. CASE phase # "awaiting_signoff"
    <3>1. UNCHANGED <<fingerprint, revision, version, results, batch, phase, pc, outcome>>
      BY <1>13, <2>3 DEF HandleApproval
    <3> QED BY <3>1, <1>t, RevisionStable, CandidateStable
            DEF ControlInv, CandidateInv, Successful
  <2> QED BY <2>1, <2>2, <2>3
<1>14. CASE HandleContinue
  <2>1. phase' = "working" /\ pc' = "submit" /\ pc = "idle" /\ phase # "over"
        /\ UNCHANGED <<results, revision, outcome>>
    BY <1>14 DEF HandleContinue
  <2> QED BY <2>1, <1>t, RevisionStable, NotSuccessful DEF ControlInv
<1>15. CASE RequestRevision
  <2>1. phase' = "draft_contract" /\ pc' = "idle" /\ pc = "idle" /\ phase # "over"
        /\ UNCHANGED <<results, revision, outcome>>
    BY <1>15 DEF RequestRevision, evidence
  <2> QED BY <2>1, <1>t, RevisionStable, NotSuccessful DEF ControlInv
<1>16. CASE DraftArrives
  <2>1. phase' \in {"needs_input", "awaiting_approval"} /\ pc' = "idle" /\ pc = "idle"
        /\ phase # "over" /\ UNCHANGED <<results, revision, outcome>>
    BY <1>16 DEF DraftArrives
  <2> QED BY <2>1, <1>t, RevisionStable, NotSuccessful DEF ControlInv
<1>17. CASE ApproveContract
  <2>1. phase' = "working" /\ pc' = "submit" /\ pc = "idle" /\ phase # "over"
        /\ UNCHANGED <<results, revision, outcome>>
    BY <1>17 DEF ApproveContract
  <2> QED BY <2>1, <1>t, RevisionStable, NotSuccessful DEF ControlInv
<1> QED
  BY <1>1, <1>2, <1>3, <1>4, <1>5, <1>6, <1>7, <1>8, <1>9, <1>10, <1>11, <1>12,
     <1>13, <1>14, <1>15, <1>16, <1>17
     DEF Next, Environment, Running, Handlers

\* In every reachable state, success rests on a candidate, and nothing on record
\* is from the future: the strengthening SuccessSound and SignoffSound rest on.
THEOREM InductiveHolds == Spec => []Inductive
BY InitInductive, NextInductive, PTL DEF Spec

\* A pursuit that is archived as a success has its evidence: the last batch ran
\* on the fingerprint that is adopted, and passed (_run_pursuit_checks,
\* _record_human_signoff, _finish_pursuit).
THEOREM SuccessSound == Spec => []SuccessRestsOnLastBatch
<1>1. Inductive => SuccessRestsOnLastBatch
  BY DEF Inductive, CandidateInv, SuccessRestsOnLastBatch
<1> QED BY <1>1, InductiveHolds, PTL

\* The workspace a user signs off is the one that was checked, however often it
\* changed since the report was posted (_record_human_signoff).
THEOREM SignoffSound == Spec => SignoffIsOfTheCheckedWorkspace
<1>1. Inductive /\ [Next]_vars =>
        [ (phase = "awaiting_signoff" /\ outcome = None /\ outcome' = "verified_complete")
              => Candidate /\ workspace = fingerprint ]_vars
  <2> SUFFICES ASSUME Inductive, Next, phase = "awaiting_signoff", outcome = None,
                      outcome' = "verified_complete"
               PROVE  Candidate /\ workspace = fingerprint
    OBVIOUS
  <2>1. Candidate
    BY DEF Inductive, CandidateInv
  <2>2. pc \in {"idle", "report"}
    BY DEF Inductive, ControlInv
  <2>3. None # "verified_complete"
    BY DataAssumption DEF Outcomes
  <2>4. HandleApproval
    BY <2>2, <2>3
       DEF Next, Environment, Running, Handlers, Edit, SignalStop, DeadlineFires,
           SendApproval, SubmitWorker, AutoRenew, EnterBudgetCheckpoint,
           SubmitAfterDeadline, WorkerReports, WorkerBlocked, ReadBefore,
           InterruptChecks, FinishBatch, Archive, HandleStop, HandleDeadline,
           HandleContinue, RequestRevision, DraftArrives, ApproveContract, control
  <2>5. ~CandidateChanged
    BY <2>3, <2>4 DEF HandleApproval
  <2> QED BY <2>1, <2>5 DEF CandidateChanged
<1> QED BY <1>1, InductiveHolds, PTL DEF Spec, SignoffIsOfTheCheckedWorkspace

\* A stop that is signalled while a report is built is not overtaken by the
\* archive (_finish_pursuit looks at the event twice).
THEOREM StopSound == Spec => StopWins
<1>1. [Next]_vars =>
        [ (stopEvent /\ phase # "over" /\ phase' = "over") => outcome' = "stopped" ]_vars
  <2> SUFFICES ASSUME Next, stopEvent, phase # "over", phase' = "over"
               PROVE  outcome' = "stopped"
    OBVIOUS
  <2>1. ~FinishBatch
    BY DEF FinishBatch
  <2>2. HandleStop
    BY <2>1
       DEF Next, Environment, Running, Handlers, Edit, SignalStop, DeadlineFires,
           SendApproval, SubmitWorker, AutoRenew, EnterBudgetCheckpoint,
           SubmitAfterDeadline, FinalChecks, StartChecks, WorkerReports,
           WorkerBlocked, ReadBefore, InterruptChecks, Archive, HandleDeadline,
           HandleApproval, HandleContinue, RequestRevision, DraftArrives,
           ApproveContract, control
  <2> QED BY <2>2 DEF HandleStop
<1> QED BY <1>1, PTL DEF Spec, StopWins

\* An archive is final: its outcome and the evidence it quotes are out of every
\* handler's reach (_clear_pursuit leaves no pursuit to act on).
THEOREM ArchiveSound == Spec => ArchiveIsFinal
<1>1. Inductive /\ [Next]_vars =>
        [ phase = "over" => UNCHANGED <<phase, outcome, evidence, batch>> ]_vars
  <2> SUFFICES ASSUME Inductive, Next, phase = "over"
               PROVE  UNCHANGED <<phase, outcome, evidence, batch>>
    OBVIOUS
  <2>1. pc = "idle"
    BY DEF Inductive, ControlInv
  <2>2. SignalStop \/ HandleStop \/ HandleApproval
    BY <2>1
       DEF Next, Environment, Running, Handlers, Edit, DeadlineFires,
           SendApproval, SubmitWorker, AutoRenew, EnterBudgetCheckpoint,
           SubmitAfterDeadline, WorkerReports, WorkerBlocked, ReadBefore,
           InterruptChecks, FinishBatch, Archive, HandleDeadline,
           HandleContinue, RequestRevision, DraftArrives, ApproveContract
  <2> QED BY <2>2 DEF SignalStop, HandleStop, HandleApproval, evidence
<1> QED BY <1>1, InductiveHolds, PTL DEF Spec, ArchiveIsFinal

------------------------------------------------------------------------------
(* Sign-offs.                                                              *)

\* A log without a "pass" does not pass, whatever it is asked about.
LEMMA PassIsOnRecord ==
    ASSUME NEW log \in Seq(Result), NEW v, NEW rev,
           CurrentStatus(log, v, rev) = "pass"
    PROVE  \E i \in DOMAIN log : log[i].status = "pass"
<1> DEFINE fresh == Fresh(log, v, rev)
           below == {Len(log) - i : i \in fresh}
<1>1. fresh \subseteq 1..Len(log) /\ fresh # {} /\ Len(log) \in Nat
  BY DEF Fresh, CurrentStatus
<1>2. below \subseteq Nat /\ below # {}
  <2>1. \A i \in 1..Len(log) : Len(log) - i \in Nat
    OBVIOUS
  <2>2. PICK i \in fresh : TRUE
    BY <1>1
  <2>3. Len(log) - i \in below
    OBVIOUS
  <2>4. \A j \in fresh : j \in 1..Len(log)
    BY <1>1
  <2> HIDE DEF fresh
  <2> QED BY <2>1, <2>3, <2>4
<1>3. PICK n \in below : \A m \in below : ~(<<m, n>> \in OpToRel(<, Nat))
  <2> HIDE DEF below
  <2> QED BY <1>2, NatLessThanWellFounded, WFMin
<1>4. \A m \in below : n <= m
  <2> HIDE DEF below
  <2> SUFFICES ASSUME NEW m \in below PROVE n <= m
    OBVIOUS
  <2>1. m \in Nat /\ n \in Nat
    BY <1>2
  <2>2. ~(m < n)
    BY <1>3, <2>1 DEF OpToRel
  <2> QED BY <2>1, <2>2
<1>5. PICK i \in fresh : n = Len(log) - i
  OBVIOUS
<1>6. \A j \in fresh : j <= i
  <2> SUFFICES ASSUME NEW j \in fresh PROVE j <= i
    OBVIOUS
  <2>1. Len(log) - j \in below
    OBVIOUS
  <2>2. Len(log) - i <= Len(log) - j
    BY <1>4, <1>5, <2>1
  <2>3. i \in Nat /\ j \in Nat
    BY <1>1
  <2> HIDE DEF fresh
  <2> QED BY <1>1, <2>2, <2>3
<1> DEFINE last == CHOOSE k \in fresh : \A j \in fresh : j <= k
<1>7. last \in fresh
  <2> HIDE DEF fresh
  <2> QED BY <1>6
<1>8. CurrentStatus(log, v, rev) = log[last].status
  BY <1>1 DEF CurrentStatus
<1> HIDE DEF last, fresh
<1> QED BY <1>1, <1>7, <1>8

\* A result that is new to the log is the last one, and decides the status.
LEMMA RecordLast ==
    ASSUME NEW log \in Seq(Result), NEW r \in Result, ~Duplicate(log, r)
    PROVE  CurrentStatus(Record(log, r), r.version, r.revision) = r.status
<1> DEFINE n == Len(log) + 1
           new == Append(log, r)
           fresh == Fresh(new, r.version, r.revision)
<1>1. Record(log, r) = new
  BY DEF Record
<1>2. n \in fresh /\ \A i \in fresh : i <= n /\ i \in Nat
  <2>1. DOMAIN new = 1..n /\ new[n] = r /\ n \in 1..n
    OBVIOUS
  <2>2. \A i \in 1..n : i <= n /\ i \in Nat
    OBVIOUS
  <2> HIDE DEF new, n
  <2> QED BY <2>1, <2>2 DEF Fresh
<1>3. new[n] = r /\ n \in Nat
  OBVIOUS
<1> HIDE DEF n, new, fresh
<1>4. \A k \in fresh : (\A j \in fresh : j <= k) => k = n
  BY <1>2, <1>3
<1>5. (CHOOSE k \in fresh : \A j \in fresh : j <= k) = n
  BY <1>2, <1>4
<1>6. CurrentStatus(new, r.version, r.revision) = new[n].status
  BY <1>2, <1>5 DEF CurrentStatus, fresh
<1> QED BY <1>1, <1>3, <1>6

\* No human criterion was ever recorded as passed.
NeverSigned ==
    \A c \in Human : \A i \in DOMAIN results[c] : results[c][i].status # "pass"

Signed == \A c \in Human : CurrentlyPasses(results, version, revision, c)

\* Only a sign-off passes a human criterion, and only an archive that is being
\* made, or was, comes of it; a report that a stop will discard may leave one.
SignoffInv ==
    /\ outcome = "provisional" => NeverSigned
    /\ outcome = "verified_complete" /\ (phase = "over" \/ ~stopEvent) => Signed
    /\ outcome = None /\ ~stopEvent => NeverSigned

\* A batch never passes a human criterion: it is pending, or was not reached.
LEMMA BatchSignsNothing ==
    ASSUME TypeOK, NeverSigned, FinishBatch
    PROVE  NeverSigned'
<1> SUFFICES ASSUME NEW c \in Human
             PROVE  \A i \in DOMAIN results'[c] : results'[c][i].status # "pass"
  BY DEF NeverSigned
<1>0. PICK seen \in Observations, mutated \in BOOLEAN : \E rev :
        results' = [k \in Criteria |->
                      Record(results[k],
                             [version |-> version, revision |-> rev,
                              status |-> RecordedStatus(seen[k], mutated),
                              output |-> seen[k].output])]
  <2>1. PICK seen \in Observations, readable \in BOOLEAN :
          LET after   == IF readable THEN workspace ELSE batch.before
              mutated == ~readable \/ ~batch.clean \/ after # batch.before
              rev     == IF mutated THEN revision + 1 ELSE revision
              status(k) == RecordedStatus(seen[k], mutated)
              result(k) == [version |-> version, revision |-> rev,
                            status |-> status(k), output |-> seen[k].output]
              res == [k \in Criteria |-> Record(results[k], result(k))]
          IN results' = res
    BY DEF FinishBatch
  <2> DEFINE after   == IF readable THEN workspace ELSE batch.before
             mutated == ~readable \/ ~batch.clean \/ after # batch.before
             rev     == IF mutated THEN revision + 1 ELSE revision
  <2>2. results' = [k \in Criteria |->
                      Record(results[k],
                             [version |-> version, revision |-> rev,
                              status |-> RecordedStatus(seen[k], mutated),
                              output |-> seen[k].output])]
    BY <2>1
  <2>3. mutated \in BOOLEAN
    BY DEF TypeOK
  <2> HIDE DEF mutated, rev
  <2> QED BY <2>2, <2>3
<1>1. PICK rev :
        results' = [k \in Criteria |->
                      Record(results[k],
                             [version |-> version, revision |-> rev,
                              status |-> RecordedStatus(seen[k], mutated),
                              output |-> seen[k].output])]
  BY <1>0
<1> DEFINE r == [version |-> version, revision |-> rev,
                 status |-> RecordedStatus(seen[c], mutated), output |-> seen[c].output]
<1>2. c \in Criteria /\ results[c] \in Seq(Result)
  BY DEF Criteria, TypeOK
<1>3. seen[c].status # "pass"
  BY <1>2 DEF Observations, Executions
<1>4. r.status # "pass"
  BY <1>3 DEF RecordedStatus
<1>5. results'[c] = Record(results[c], r)
  BY <1>1, <1>2
<1>6. \A i \in DOMAIN results[c] : results[c][i].status # "pass"
  BY DEF NeverSigned
<1> HIDE DEF r
<1>7. CASE Duplicate(results[c], r)
  BY <1>5, <1>6, <1>7 DEF Record
<1>8. CASE ~Duplicate(results[c], r)
  <2>1. results'[c] = Append(results[c], r)
    BY <1>5, <1>8 DEF Record
  <2>2. \A i \in DOMAIN Append(results[c], r) :
           (i \in DOMAIN results[c] /\ Append(results[c], r)[i] = results[c][i])
              \/ Append(results[c], r)[i] = r
    BY <1>2
  <2> QED BY <2>1, <2>2, <1>4, <1>6
<1> QED BY <1>7, <1>8

\* What an approved report records passes every human criterion, if none of
\* them passed before (_record_human_signoff).
LEMMA ApprovalSigns ==
    ASSUME TypeOK, NeverSigned, UNCHANGED <<version, revision>>,
           results' = [c \in Criteria |-> IF c \in Human
                                          THEN Record(results[c], HumanPass(c))
                                          ELSE results[c]]
    PROVE  Signed'
<1> SUFFICES ASSUME NEW c \in Human
             PROVE  CurrentlyPasses(results', version, revision, c)
  BY DEF Signed
<1>1. HumanPass(c) \in Result /\ HumanPass(c).status = "pass"
      /\ HumanPass(c).version = version /\ HumanPass(c).revision = revision
  BY DataAssumption DEF HumanPass, Result, TypeOK, Statuses
<1>2. results[c] \in Seq(Result) /\ results'[c] = Record(results[c], HumanPass(c))
  BY DEF TypeOK, Criteria
<1>3. ~Duplicate(results[c], HumanPass(c))
  BY <1>1 DEF Duplicate, NeverSigned
<1> QED BY <1>1, <1>2, <1>3, RecordLast DEF CurrentlyPasses

\* Every operation keeps the sign-offs true.
LEMMA SignoffNext == Inductive /\ SignoffInv /\ [Next]_vars => SignoffInv'
<1> SUFFICES ASSUME Inductive, SignoffInv, [Next]_vars PROVE SignoffInv'
  OBVIOUS
<1>t. TypeOK /\ ControlInv
  BY DEF Inductive
<1> USE DataAssumption DEF Outcomes
<1>1. CASE SignalStop
  <2>1. UNCHANGED <<results, version, revision, phase, outcome>> /\ stopEvent' = TRUE
        /\ stopEvent = FALSE
    BY <1>1 DEF SignalStop, evidence
  <2> QED BY <2>1 DEF SignoffInv, NeverSigned, Signed
<1>2. CASE FinishBatch
  <2>1. outcome = None /\ phase = "checking" /\ stopEvent' = stopEvent
    BY <1>2, <1>t DEF FinishBatch, ControlInv
  <2>2. CASE stopEvent
    <3>1. outcome' = None
      BY <1>2, <2>1, <2>2 DEF FinishBatch
    <3> QED BY <2>1, <2>2, <3>1 DEF SignoffInv
  <2>3. CASE ~stopEvent
    <3>1. NeverSigned'
      BY <1>2, <1>t, <2>1, <2>3, BatchSignsNothing DEF SignoffInv
    <3>2. outcome' = "verified_complete" => Human = {}
      BY <1>2, <1>t, <2>1, <2>3, BatchEvidence
         DEF Verdict, PrepareArchive, Pause, Inductive
    <3> QED BY <3>1, <3>2 DEF SignoffInv, Signed
  <2> QED BY <2>2, <2>3
<1>3. CASE Archive
  <2>1. UNCHANGED <<results, version, revision, stopEvent>>
    BY <1>3 DEF Archive, evidence
  <2>2. stopEvent => outcome' = None
    BY <1>3 DEF Archive
  <2>3. ~stopEvent => outcome' = outcome
    BY <1>3 DEF Archive
  <2> QED BY <2>1, <2>2, <2>3 DEF SignoffInv, NeverSigned, Signed
<1>4. CASE HandleStop
  <2>1. UNCHANGED <<results, version, revision>>
        /\ (phase = "over" => UNCHANGED <<phase, outcome>>)
        /\ (phase # "over" => outcome' = "stopped")
    BY <1>4 DEF HandleStop, evidence
  <2>2. phase = "over" => outcome # None
    BY <1>t DEF ControlInv
  <2> QED BY <2>1, <2>2 DEF SignoffInv, NeverSigned, Signed
<1>5. CASE HandleApproval
  <2>1. stopEvent' = stopEvent /\ version' = version /\ pc = "idle"
    BY <1>5 DEF HandleApproval
  <2>2. CASE UNCHANGED <<results, outcome>> /\ phase = "awaiting_signoff"
    <3>1. outcome = None
      BY <2>1, <2>2, <1>t DEF ControlInv
    <3> QED BY <2>1, <2>2, <3>1 DEF SignoffInv, NeverSigned
  <2>3. CASE phase # "awaiting_signoff"
    <3>1. UNCHANGED <<results, outcome, phase, revision>>
      BY <1>5, <2>3 DEF HandleApproval
    <3> QED BY <2>1, <3>1 DEF SignoffInv, NeverSigned, Signed
  <2>4. CASE phase = "awaiting_signoff" /\ ~UNCHANGED <<results, outcome>>
    <3>1. /\ UNCHANGED <<revision, phase>> /\ outcome' = "verified_complete"
          /\ results' = [c \in Criteria |-> IF c \in Human
                                            THEN Record(results[c], HumanPass(c))
                                            ELSE results[c]]
      BY <1>5, <2>4 DEF HandleApproval
    <3>2. outcome = None
      BY <2>1, <2>4, <1>t DEF ControlInv
    <3>3. ~stopEvent => NeverSigned
      BY <3>2 DEF SignoffInv
    <3>4. ~stopEvent => Signed'
      BY <1>t, <2>1, <3>1, <3>3, ApprovalSigns
    <3> QED BY <2>1, <2>4, <3>1, <3>4 DEF SignoffInv
  <2> QED BY <2>2, <2>3, <2>4
<1>6. CASE /\ UNCHANGED <<results, outcome, stopEvent>>
           /\ phase' = "over" <=> phase = "over"
           /\ UNCHANGED <<version, revision>> \/ outcome # "verified_complete"
  BY <1>6 DEF SignoffInv, NeverSigned, Signed
<1>7. CASE Edit \/ DeadlineFires \/ SendApproval \/ InterruptChecks \/ ReadBefore
           \/ UNCHANGED vars
  BY <1>6, <1>7 DEF Edit, DeadlineFires, SendApproval, InterruptChecks, ReadBefore, vars,
                    evidence, control
<1>8. CASE SubmitWorker \/ AutoRenew \/ EnterBudgetCheckpoint \/ SubmitAfterDeadline
  <2>1. pc = "submit" /\ UNCHANGED <<results, outcome, stopEvent>> /\ phase' # "over"
    BY <1>8 DEF SubmitWorker, AutoRenew, EnterBudgetCheckpoint, SubmitAfterDeadline,
                FinalChecks, StartChecks, evidence
  <2>2. outcome = None /\ phase # "over"
    BY <2>1, <1>t DEF ControlInv
  <2> QED BY <1>6, <2>1, <2>2
<1>9. CASE WorkerReports \/ WorkerBlocked \/ HandleDeadline \/ HandleContinue
           \/ RequestRevision \/ DraftArrives \/ ApproveContract
  <2>1. pc = "idle" /\ UNCHANGED <<results, outcome, stopEvent>> /\ phase' # "over"
        /\ phase # "over"
    BY <1>9 DEF WorkerReports, WorkerBlocked, HandleDeadline, HandleContinue,
                RequestRevision, DraftArrives, ApproveContract, FinalChecks, StartChecks,
                evidence
  <2>2. outcome = None
    BY <2>1, <1>t DEF ControlInv
  <2> QED BY <1>6, <2>1, <2>2
<1> QED
  BY <1>1, <1>2, <1>3, <1>4, <1>5, <1>7, <1>8, <1>9
     DEF Next, Environment, Running, Handlers

\* Human criteria pass exactly in the archives a user signed: a batch, a lease or
\* YOLO never says so for them (execute_criterion, _record_human_signoff).
THEOREM NeverInvented == Spec => []SignoffIsNeverInvented
<1>1. Init => SignoffInv
  BY DataAssumption DEF Init, SignoffInv, NeverSigned, Outcomes, Criteria
<1>2. Inductive /\ SignoffInv => SignoffIsNeverInvented
  <2> SUFFICES ASSUME Inductive, SignoffInv, Successful, NEW c \in Human
               PROVE  CurrentlyPasses(results, version, revision, c)
                        <=> outcome = "verified_complete"
    BY DEF SignoffIsNeverInvented
  <2>1. CASE outcome = "verified_complete"
    BY <2>1 DEF Successful, SignoffInv, Signed
  <2>2. CASE outcome = "provisional"
    <3>1. results[c] \in Seq(Result)
      BY DEF Inductive, TypeOK, Criteria
    <3>2. ~\E i \in DOMAIN results[c] : results[c][i].status = "pass"
      BY <2>2 DEF SignoffInv, NeverSigned
    <3>3. ~CurrentlyPasses(results, version, revision, c)
      BY <3>1, <3>2, PassIsOnRecord DEF CurrentlyPasses
    <3> QED BY <2>2, <3>3
  <2> QED BY <2>1, <2>2 DEF Successful
<1> QED BY <1>1, <1>2, SignoffNext, InductiveHolds, PTL DEF Spec

------------------------------------------------------------------------------
(* The deadline, and interrupted batches.                                  *)

\* From the verdict on, a pursuit that is out of time has a completed batch, and a
\* criterion that keeps it from being a success.
LastResortInv ==
    outcome = "deadline_reached" =>
        /\ batch.complete
        /\ \E c \in Objective : ~CurrentlyPasses(results, version, revision, c)

\* What is neither decided nor archived yet owes nothing.
LEMMA Undecided ==
    ASSUME outcome' = None
    PROVE  LastResortInv'
BY DataAssumption DEF LastResortInv, Outcomes

\* Only the verdict on a completed batch says that time is up.
LEMMA BatchDecides ==
    ASSUME Inductive, FinishBatch
    PROVE  LastResortInv'
<1>1. outcome = None
  BY DEF Inductive, ControlInv, FinishBatch
<1>2. CASE stopEvent
  BY <1>1, <1>2, Undecided DEF FinishBatch
<1>3. CASE ~stopEvent
  <2>1. batch'.complete
    BY DEF FinishBatch, Inductive, TypeOK
  <2>2. Verdict(results', revision') /\ version' = version
    BY <1>3, BatchEvidence DEF Inductive
  <2>3. SUFFICES ASSUME outcome' = "deadline_reached"
                 PROVE  \E c \in Objective :
                            CurrentStatus(results'[c], version, revision') # "pass"
    BY <2>1, <2>2 DEF LastResortInv, CurrentlyPasses
  <2> QED
    BY <2>2, <2>3, <1>1, DataAssumption DEF Verdict, PrepareArchive, Pause, Outcomes
<1> QED BY <1>2, <1>3

\* No other operation does, nor changes what the verdict rests on.
LEMMA LastResortNext == Inductive /\ LastResortInv /\ [Next]_vars => LastResortInv'
<1> SUFFICES ASSUME Inductive, LastResortInv, [Next]_vars PROVE LastResortInv'
  OBVIOUS
<1> USE DEF Inductive, ControlInv
<1>1. CASE Environment \/ UNCHANGED vars
  BY <1>1 DEF Environment, Edit, SignalStop, DeadlineFires, SendApproval, vars, evidence,
              control, LastResortInv, CurrentlyPasses
<1>2. CASE FinishBatch
  BY <1>2, BatchDecides
<1>3. CASE Archive
  <2>1. UNCHANGED <<results, version, revision, batch>> /\ outcome' \in {outcome, None}
    BY <1>3 DEF Archive, evidence
  <2> QED BY <2>1, Undecided DEF LastResortInv, CurrentlyPasses
<1>4. CASE Running /\ ~FinishBatch /\ ~Archive
  <2>1. outcome = None /\ outcome' = outcome
    BY <1>4 DEF Running, SubmitWorker, AutoRenew, EnterBudgetCheckpoint,
                SubmitAfterDeadline, FinalChecks, ReadBefore, InterruptChecks
  <2> QED BY <2>1, Undecided
<1>5. CASE HandleStop
  <2>1. CASE phase = "over"
    BY <1>5, <2>1 DEF HandleStop, evidence, LastResortInv, CurrentlyPasses
  <2>2. CASE phase # "over"
    BY <1>5, <2>2 DEF HandleStop, LastResortInv
  <2> QED BY <2>1, <2>2
<1>6. CASE HandleApproval
  <2>1. CASE phase = "awaiting_signoff"
    <3>1. outcome = None /\ outcome' \in {None, "verified_complete"}
      BY <1>6, <2>1 DEF HandleApproval
    <3> QED BY <3>1, Undecided DEF LastResortInv
  <2>2. CASE phase # "awaiting_signoff"
    BY <1>6, <2>2 DEF HandleApproval, LastResortInv, CurrentlyPasses
  <2> QED BY <2>1, <2>2
<1>7. CASE Handlers /\ ~HandleStop /\ ~HandleApproval
  <2>1. outcome = None /\ outcome' = outcome
    BY <1>7 DEF Handlers, WorkerReports, WorkerBlocked, HandleDeadline, FinalChecks,
                HandleContinue, RequestRevision, DraftArrives, ApproveContract
  <2> QED BY <2>1, Undecided
<1> QED BY <1>1, <1>2, <1>3, <1>4, <1>5, <1>6, <1>7 DEF Next, Running, Handlers

\* For all criteria, workspaces and limits: nothing that passed is given up because the
\* time is up, and no batch that was cut off is counted (_run_pursuit_checks,
\* _handle_unattended_deadline).
THEOREM DeadlineSound == Spec => []DeadlineIsLastResort
<1>1. Init => LastResortInv
  BY DataAssumption DEF Init, LastResortInv, Outcomes
<1>2. LastResortInv => DeadlineIsLastResort
  BY DEF LastResortInv, DeadlineIsLastResort
<1> QED BY <1>1, <1>2, LastResortNext, InductiveHolds, PTL DEF Spec

\* A batch that was interrupted has left behind the one who interrupted it: the
\* !stop or the deadline's task still waits for the lock.  No turn is in flight whose
\* end would take the pursuit out of phase checking.
CheckingIsTakenUp ==
    (phase = "checking" /\ pc = "idle") => stopEvent \/ deadline = "due"

\* For all criteria, workspaces and limits: who interrupts a batch is still there to go
\* on with the pursuit (_await_checker_or_stop); the safety half of CheckingEnds.
THEOREM InterruptionsTakenUp == Spec => []CheckingIsTakenUp
<1>1. Init => CheckingIsTakenUp
  BY DEF Init, CheckingIsTakenUp
<1>2. Inductive /\ CheckingIsTakenUp /\ [Next]_vars => CheckingIsTakenUp'
  <2> SUFFICES ASSUME Inductive, CheckingIsTakenUp, [Next]_vars PROVE CheckingIsTakenUp'
    OBVIOUS
  <2> USE DEF CheckingIsTakenUp
  <2>1. CASE Environment \/ UNCHANGED vars
    BY <2>1 DEF Environment, Edit, SignalStop, DeadlineFires, SendApproval, vars, control
  <2>2. CASE FinishBatch
    <3>1. CASE stopEvent
      BY <2>2, <3>1 DEF FinishBatch
    <3>2. CASE ~stopEvent
      <4>1. Verdict(results', revision')
        BY <2>2, <3>2, BatchEvidence DEF Inductive
      <4> QED BY <4>1 DEF Verdict, PrepareArchive, Pause
    <3> QED BY <3>1, <3>2
  <2>3. CASE Running /\ ~FinishBatch
    BY <2>3 DEF Running, SubmitWorker, AutoRenew, EnterBudgetCheckpoint,
                SubmitAfterDeadline, FinalChecks, StartChecks, ReadBefore, InterruptChecks,
                Archive
  <2>4. CASE Handlers
    BY <2>4 DEF Handlers, WorkerReports, WorkerBlocked, HandleStop, HandleDeadline,
                HandleApproval, FinalChecks, StartChecks, HandleContinue, RequestRevision,
                DraftArrives, ApproveContract
  <2> QED BY <2>1, <2>2, <2>3, <2>4 DEF Next, Running
<1> QED BY <1>1, <1>2, InductiveHolds, PTL DEF Spec
==============================================================================
