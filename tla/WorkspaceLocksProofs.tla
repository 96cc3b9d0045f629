------------------------ MODULE WorkspaceLocksProofs ------------------------
(***************************************************************************)
(* For any rooms and directories, no two rooms pursue on one directory;    *)
(* and if progress messages are not slow, no ordinary turn works beside a  *)
(* pursuit.  The invariants say what a handler that awaits under a         *)
(* directory's lock may still rely on.                                     *)
(***************************************************************************)
EXTENDS WorkspaceLocks, TLAPS

\* A handler under the lock of its directory is the lock's only holder; until it has
\* asked, nobody on the directory claims it; while it drafts, its own claim stands.
Locked ==
    \A r \in Room :
        /\ pc[r] \in {"asking", "drafter"} => holder[dir[r]] = r
        /\ pc[r] = "asking" =>
               ~Claims(r) /\ \A q \in Room : dir[q] = dir[r] => ~Claims(q)
        /\ pc[r] \in {"extent", "drafter"} => pending[r]

Exclusive ==
    \A r, q \in Room : (r # q /\ dir[q] = dir[r] /\ Claims(r)) => ~Claims(q)

Inv == TypeOK /\ Exclusive /\ Locked

\* What a turn may not do beside a pursuit, or one that is about to start.
Quiet ==
    \A r, q \in Room :
        (r # q /\ dir[q] = dir[r] /\ (pursuit[r] \/ pc[r] = "drafter"))
            => ~inFlight[q] /\ pc[q] # "progress"

AloneInv == Inv /\ Quiet

------------------------------------------------------------------------------
\* No room has started.
LEMMA InitInv == Init => AloneInv
  BY LocksAssumption DEF Init, AloneInv, Inv, TypeOK, Exclusive, Locked, Quiet, Claims

\* Sessions are mapped and forgotten only by rooms that claim nothing and await nothing.
LEMMA MappingKeepsInv ==
    ASSUME Inv, NEW r \in Room,
           (\E d \in Directory : NewSession(r, d)) \/ CommandReset(r)
    PROVE  Inv'
<1>1. CASE \E d \in Directory : NewSession(r, d)
  <2>1. PICK d \in Directory : NewSession(r, d)
    BY <1>1
  <2> QED
    BY <2>1, LocksAssumption
       DEF Inv, TypeOK, Exclusive, Locked, Claims, NewSession
<1>2. CASE CommandReset(r)
  BY <1>2, LocksAssumption
     DEF Inv, TypeOK, Exclusive, Locked, Claims, CommandReset
<1> QED
  BY <1>1, <1>2

\* What a turn does takes no lock and starts no pursuit.
LEMMA TurnKeepsInv ==
    ASSUME Inv, NEW r \in Room, Turn(r)
    PROVE  Inv'
<1>1. CASE Prompt(r)
  BY <1>1 DEF Inv, TypeOK, Exclusive, Locked, Claims, Prompt, Awaits
<1>2. CASE Recover(r)
  BY <1>2 DEF Inv, TypeOK, Exclusive, Locked, Claims, Recover, Awaits
<1>3. CASE ProgressSent(r)
  BY <1>3 DEF Inv, TypeOK, Exclusive, Locked, Claims, ProgressSent, Done, Awaits
<1>4. CASE TurnEnds(r)
  BY <1>4 DEF Inv, TypeOK, Exclusive, Locked, Claims, TurnEnds
<1> QED
  BY <1>1, <1>2, <1>3, <1>4 DEF Turn

\* The steps that set up a pursuit hold the lock of its directory.
LEMMA SetUpKeepsInv ==
    ASSUME Inv, NEW r \in Room, SetUp(r)
    PROVE  Inv'
<1>1. CASE CommandPursue(r)
  BY <1>1 DEF Inv, TypeOK, Exclusive, Locked, Claims, CommandPursue, Awaits
<1>2. CASE PursueLocks(r)
  BY <1>2, LocksAssumption
     DEF Inv, TypeOK, Exclusive, Locked, Claims, PursueLocks, Acquires, BusyConflict,
         Neighbours, Done, Awaits, Keep
<1>3. CASE PursueAsks(r)
  <2> USE <1>3, LocksAssumption
  <2> DEFINE asked == pending' = [pending EXCEPT ![r] = TRUE]
  <2>1. /\ pc' = [pc EXCEPT ![r] = "none"]
        /\ holder' = [holder EXCEPT ![dir[r]] = None]
        /\ UNCHANGED <<dir, pursuit, inFlight>>
        /\ UNCHANGED pending \/ asked
        /\ pc[r] = "asking" /\ dir[r] \in Directory
    BY DEF PursueAsks, Release, Done, Awaits, Inv, TypeOK
  <2>2. ~Claims(r) /\ \A q \in Room : dir[q] = dir[r] => ~Claims(q)
    BY <2>1 DEF Inv, Locked
  <2>3. TypeOK'
    BY <2>1, <2>2 DEF Inv, TypeOK, Claims
  <2>4. Exclusive'
    BY <2>1, <2>2 DEF Inv, TypeOK, Exclusive, Claims
  <2>5. \A q \in Room : q # r /\ pc[q] \in {"asking", "drafter"} => dir[q] # dir[r]
    BY <2>1 DEF Inv, Locked
  <2>6. Locked'
    BY <2>1, <2>2, <2>5 DEF Inv, TypeOK, Locked, Claims
  <2> QED
    BY <2>3, <2>4, <2>6 DEF Inv
<1>4. CASE ChooseExtent(r)
  BY <1>4 DEF Inv, TypeOK, Exclusive, Locked, Claims, ChooseExtent, Awaits
<1>5. CASE ExtentLocks(r)
  BY <1>5, LocksAssumption
     DEF Inv, TypeOK, Exclusive, Locked, Claims, ExtentLocks, Acquires, BusyConflict,
         Neighbours, Done, Awaits, Keep
<1>6. CASE DraftStarts(r)
  <2> USE <1>6, LocksAssumption
  <2>1. /\ pc' = [pc EXCEPT ![r] = "none"]
        /\ holder' = [holder EXCEPT ![dir[r]] = None]
        /\ UNCHANGED <<dir, inFlight>>
        /\ \/ UNCHANGED <<pending, pursuit>>
           \/ /\ pending' = [pending EXCEPT ![r] = FALSE]
              /\ pursuit' = [pursuit EXCEPT ![r] = TRUE]
        /\ pc[r] = "drafter" /\ dir[r] \in Directory
    BY DEF DraftStarts, Release, Done, Awaits, Inv, TypeOK
  <2>2. pending[r] /\ Claims(r)
    BY <2>1 DEF Inv, Locked, Claims
  <2>3. TypeOK'
    BY <2>1 DEF Inv, TypeOK
  <2>4. \A q \in Room : Claims(q)' <=> Claims(q)
    BY <2>1, <2>2 DEF Inv, TypeOK, Claims
  <2>5. Exclusive'
    BY <2>1, <2>4 DEF Inv, Exclusive
  <2>6. \A q \in Room : q # r /\ pc[q] \in {"asking", "drafter"} => dir[q] # dir[r]
    BY <2>1 DEF Inv, Locked
  <2>7. Locked'
    BY <2>1, <2>4, <2>6 DEF Inv, TypeOK, Locked
  <2> QED
    BY <2>3, <2>5, <2>7 DEF Inv
<1> QED
  BY <1>1, <1>2, <1>3, <1>4, <1>5, <1>6 DEF SetUp

\* Every action keeps the invariant.
LEMMA NextKeepsInv == Inv /\ [Next]_vars => Inv'
<1> SUFFICES ASSUME Inv, [Next]_vars PROVE Inv'
  OBVIOUS
<1>1. ASSUME NEW r \in Room, ClearPursuit(r) PROVE Inv'
  BY <1>1 DEF Inv, TypeOK, Exclusive, Locked, Claims, ClearPursuit
<1>2. CASE Restart
  BY <1>2 DEF Inv, TypeOK, Exclusive, Locked, Claims, Restart
<1>3. CASE UNCHANGED vars
  BY <1>3 DEF Inv, TypeOK, Exclusive, Locked, Claims, vars
<1> QED
  BY <1>1, <1>2, <1>3, MappingKeepsInv, TurnKeepsInv, SetUpKeepsInv DEF Next

------------------------------------------------------------------------------
\* Every action keeps the quiet of a directory with a pursuit.
LEMMA NextKeepsQuiet ==
    ASSUME "slow" \notin Disturbances, AloneInv, [Next]_vars
    PROVE  Quiet'
<1> USE DEF AloneInv, Inv, TypeOK, Quiet
<1>1. ASSUME NEW r \in Room, NEW d \in Directory, NewSession(r, d) PROVE Quiet'
  BY <1>1 DEF NewSession, Claims
<1>2. ASSUME NEW r \in Room, CommandReset(r) PROVE Quiet'
  BY <1>2, LocksAssumption DEF CommandReset, Claims
<1>3. ASSUME NEW r \in Room, Prompt(r) PROVE Quiet'
  BY <1>3 DEF Prompt, Conflict, Neighbours, Claims, Locked, Awaits
<1>4. ASSUME NEW r \in Room, Recover(r) PROVE Quiet'
  BY <1>4 DEF Recover, Awaits
<1>5. ASSUME NEW r \in Room, ProgressSent(r) PROVE Quiet'
  BY <1>5 DEF ProgressSent, Done, Awaits
<1>6. ASSUME NEW r \in Room, TurnEnds(r) PROVE Quiet'
  BY <1>6 DEF TurnEnds
<1>7. ASSUME NEW r \in Room, CommandPursue(r) PROVE Quiet'
  BY <1>7 DEF CommandPursue, Awaits
<1>8. ASSUME NEW r \in Room, PursueLocks(r) PROVE Quiet'
  BY <1>8 DEF PursueLocks, Done, Awaits
<1>9. ASSUME NEW r \in Room, PursueAsks(r) PROVE Quiet'
  BY <1>9 DEF PursueAsks, Done, Awaits
<1>10. ASSUME NEW r \in Room, ChooseExtent(r) PROVE Quiet'
  BY <1>10 DEF ChooseExtent, Awaits
<1>11. ASSUME NEW r \in Room, ExtentLocks(r) PROVE Quiet'
  BY <1>11 DEF ExtentLocks, Acquires, BusyConflict, Neighbours, Settled, Done, Awaits
<1>12. ASSUME NEW r \in Room, DraftStarts(r) PROVE Quiet'
  BY <1>12 DEF DraftStarts, Done, Awaits
<1>13. ASSUME NEW r \in Room, ClearPursuit(r) PROVE Quiet'
  BY <1>13 DEF ClearPursuit
<1>14. CASE Restart
  BY <1>14 DEF Restart
<1>15. CASE UNCHANGED vars
  BY <1>15 DEF vars
<1> QED
  BY <1>1, <1>2, <1>3, <1>4, <1>5, <1>6, <1>7, <1>8, <1>9, <1>10, <1>11, <1>12, <1>13,
     <1>14, <1>15 DEF Next, Turn, SetUp

------------------------------------------------------------------------------
\* A directory's lock is held by a room that is on it and awaits an answer, never
\* another lock: no failed request or restart leaves one behind (bot.py:1184, 1292),
\* and rooms that set up pursuits cannot wait for one another in a circle.
NoLockIsLeft ==
    \A d \in Directory : holder[d] # None =>
        dir[holder[d]] = d /\ pc[holder[d]] \in {"asking", "drafter"}

\* A lock changes hands only with what its holder awaits.
LEMMA NextKeepsLocks ==
    ASSUME Inv, NoLockIsLeft, [Next]_vars
    PROVE  NoLockIsLeft'
<1> USE LocksAssumption DEF Inv, TypeOK, NoLockIsLeft
<1>1. ASSUME NEW r \in Room, NEW d \in Directory, NewSession(r, d) PROVE NoLockIsLeft'
  BY <1>1 DEF NewSession
<1>2. ASSUME NEW r \in Room, CommandReset(r) PROVE NoLockIsLeft'
  BY <1>2 DEF CommandReset
<1>3. ASSUME NEW r \in Room, Turn(r) PROVE NoLockIsLeft'
  BY <1>3 DEF Turn, Prompt, Recover, ProgressSent, TurnEnds, Done, Awaits
<1>4. ASSUME NEW r \in Room, CommandPursue(r) \/ ChooseExtent(r) PROVE NoLockIsLeft'
  BY <1>4 DEF CommandPursue, ChooseExtent, Awaits
<1>5. ASSUME NEW r \in Room, PursueLocks(r) PROVE NoLockIsLeft'
  BY <1>5 DEF PursueLocks, Acquires, Keep, Done, Awaits
<1>6. ASSUME NEW r \in Room, ExtentLocks(r) PROVE NoLockIsLeft'
  BY <1>6 DEF ExtentLocks, Acquires, Keep, Done, Awaits
<1>7. ASSUME NEW r \in Room, PursueAsks(r) \/ DraftStarts(r) PROVE NoLockIsLeft'
  BY <1>7 DEF PursueAsks, DraftStarts, Release, Done, Awaits
<1>8. ASSUME NEW r \in Room, ClearPursuit(r) PROVE NoLockIsLeft'
  BY <1>8 DEF ClearPursuit
<1>9. CASE Restart
  BY <1>9 DEF Restart
<1>10. CASE UNCHANGED vars
  BY <1>10 DEF vars
<1> QED
  BY <1>1, <1>2, <1>3, <1>4, <1>5, <1>6, <1>7, <1>8, <1>9, <1>10 DEF Next, SetUp

------------------------------------------------------------------------------
\* The invariant means what the specification says of neighbours.
LEMMA InvMeans == Inv => OnePursuitPerDirectory
  BY DEF Inv, Exclusive, OnePursuitPerDirectory, Conflict, Neighbours

\* The invariant is at least what is claimed.
LEMMA AloneInvMeans == AloneInv => PursuitIsAlone
  BY DEF AloneInv, Inv, Exclusive, Quiet, PursuitIsAlone, BusyConflict, Neighbours, Claims

\* The rooms, claims and locks are of their types, and what works on a directory has one.
THEOREM TypeCorrect == Spec => []TypeOK
<1>1. Init => Inv
  BY InitInv DEF AloneInv
<1>2. Inv => TypeOK
  BY DEF Inv
<1> QED
  BY <1>1, <1>2, NextKeepsInv, PTL DEF Spec

\* command_pursue and _select_pursuit_extent: whatever happens between the awaits of
\* handlers, and however slow a message is, no two rooms claim one directory.
THEOREM PursuitsExclude == Spec => []OnePursuitPerDirectory
<1>1. Init => Inv
  BY InitInv DEF AloneInv
<1> QED
  BY <1>1, InvMeans, NextKeepsInv, PTL DEF Spec

\* Unless a progress message is slower than a set-up, no turn is in flight on the
\* directory of another room's pursuit.
THEOREM PursuitsAreAlone ==
    ASSUME "slow" \notin Disturbances
    PROVE  Spec => []PursuitIsAlone
<1>1. AloneInv /\ [Next]_vars => AloneInv'
  BY NextKeepsInv, NextKeepsQuiet DEF AloneInv
<1> QED
  BY <1>1, InitInv, AloneInvMeans, PTL DEF Spec

\* For any rooms, directories and disturbances: whoever holds a directory's lock is on
\* that directory and awaits OpenCode or Matrix, so no waiter waits for a waiter.
THEOREM LocksAreHandedBack == Spec => []NoLockIsLeft
<1>1. Init => Inv /\ NoLockIsLeft
  BY InitInv DEF AloneInv, Init, NoLockIsLeft
<1> QED
  BY <1>1, NextKeepsInv, NextKeepsLocks, PTL DEF Spec
=============================================================================
