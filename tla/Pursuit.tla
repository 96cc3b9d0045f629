-------------------------------- MODULE Pursuit --------------------------------
(***************************************************************************)
(* What a pursuit promises its user, without sessions, leases, retries or  *)
(* restarts: nothing is worked on before the user agreed to the contract,  *)
(* nothing is archived as done or as out of time unless the controller     *)
(* judged work on an agreed contract, and a pursuit that was agreed to     *)
(* never disappears without a report.                                      *)
(*                                                                         *)
(* PursuitLifecycle implements it (Contracted).                            *)
(***************************************************************************)
CONSTANT None

VARIABLES
    stage,    \* where the pursuit stands
    agreed,   \* the user agreed to the contract as it stands
    outcome   \* of the report of the last pursuit

vars == <<stage, agreed, outcome>>

Stages == {"none", "agreeing", "working", "judging", "paused"}

\* A report the controller's verdict decides.
Verdicts == {"verified_complete", "provisional", "deadline_reached"}

Init ==
    /\ stage = "none"
    /\ agreed = FALSE
    /\ outcome = None

Begin ==
    /\ stage = "none"
    /\ stage' = "agreeing"
    /\ agreed' = FALSE
    /\ outcome' = None

\* Another draft takes the place of the contract.
Redraft ==
    /\ stage = "agreeing"
    /\ agreed' = FALSE
    /\ UNCHANGED <<stage, outcome>>

Agree ==
    /\ stage = "agreeing"
    /\ ~agreed
    /\ stage' = "working"
    /\ agreed' = TRUE
    /\ UNCHANGED outcome

\* A blocker, an undecided check, a revision: the user is asked.
Ask ==
    /\ stage \in {"working", "judging", "paused"}
    /\ stage' = "agreeing"
    /\ UNCHANGED <<agreed, outcome>>

\* The controller checks what the workers - done, at their quota, out of time -
\* have left.
Judge ==
    /\ stage \in {"working", "paused"}
    /\ agreed
    /\ stage' = "judging"
    /\ UNCHANGED <<agreed, outcome>>

\* A check failed, or a quota was extended.
Work ==
    /\ stage \in {"judging", "paused"}
    /\ agreed
    /\ stage' = "working"
    /\ UNCHANGED <<agreed, outcome>>

Pause ==
    /\ stage = "working"
    /\ stage' = "paused"
    /\ UNCHANGED <<agreed, outcome>>

Archive ==
    /\ stage = "judging"
    /\ agreed
    /\ stage' = "none"
    /\ agreed' = FALSE
    /\ outcome' \in Verdicts

\* The user stops it.  Without a contract there is nothing to report.
Stop ==
    /\ stage # "none"
    /\ stage' = "none"
    /\ agreed' = FALSE
    /\ outcome' \in IF agreed THEN {"stopped"} ELSE {"stopped", None}

\* A stop without a pursuit.
Forget ==
    /\ stage = "none"
    /\ outcome' = None
    /\ UNCHANGED <<stage, agreed>>

Next ==
    \/ Begin \/ Redraft \/ Agree \/ Ask \/ Judge \/ Work \/ Pause \/ Archive
    \/ Stop \/ Forget

Spec == Init /\ [][Next]_vars
================================================================================
