--------------------------- MODULE WorkspaceLocks ---------------------------
(***************************************************************************)
(* Several rooms on the same directories.  A pursuit has its directory for *)
(* itself, from the question that sets it up to its archive.  Each room's  *)
(* handlers hold that room's lock; what sets up a pursuit also holds the   *)
(* lock of the resolved directory while it awaits, what prompts does not.  *)
(*                                                                         *)
(* `pc' is what a room's handler awaits; between two awaits a handler is   *)
(* one action.                                                             *)
(***************************************************************************)
EXTENDS FiniteSets

CONSTANTS
    Room, Directory,
    None,           \* no directory: the room is not mapped; no room: a free lock
    Disturbances    \* what may go wrong

\* slow: a progress message is still being sent when another room, which answered
\* the questions of !pursue meanwhile, chooses the extent; crash: the bot's
ASSUME LocksAssumption ==
    /\ None \notin Directory /\ None \notin Room
    /\ Disturbances \subseteq {"slow", "crash"}

VARIABLES
    dir,        \* directory, resolved
    pending,    \* pending_pursuit_goal is set
    pursuit,    \* pursuit_goal is set
    inFlight,   \* in_flight_event_id of an ordinary turn
    holder,     \* workspace_locks
    pc          \* what the room's handler awaits

vars == <<dir, pending, pursuit, inFlight, holder, pc>>

TypeOK ==
    /\ dir \in [Room -> Directory \cup {None}]
    /\ pending \in [Room -> BOOLEAN]
    /\ pursuit \in [Room -> BOOLEAN]
    /\ inFlight \in [Room -> BOOLEAN]
    /\ holder \in [Directory -> Room \cup {None}]
    /\ pc \in [Room -> {"none", "progress", "ask", "asking", "extent", "drafter"}]
    /\ \A r \in Room :
           /\ ~(pending[r] /\ pursuit[r])
           /\ (pending[r] \/ pursuit[r] \/ inFlight[r] \/ pc[r] # "none") => dir[r] # None

Claims(r) == pending[r] \/ pursuit[r]

Neighbours(r) == {q \in Room \ {r} : dir[q] = dir[r]}

\* _workspace_conflict, without and with include_busy
Conflict(r) == \E q \in Neighbours(r) : Claims(q)
BusyConflict(r) == \E q \in Neighbours(r) : Claims(q) \/ inFlight[q]

Awaits(r, what) == pc' = [pc EXCEPT ![r] = what]
Done(r) == Awaits(r, "none")

\* async with self.workspace_locks[...]: entered at `from', left by Release
Acquires(r, from) ==
    /\ pc[r] = from
    /\ holder[dir[r]] = None
Keep(r) == holder' = [holder EXCEPT ![dir[r]] = r]
Release(r) == holder' = [holder EXCEPT ![dir[r]] = None]

------------------------------------------------------------------------------
(* Mapping.                                                                *)

\* _create_room_session: !new, or the first message or !pursue of an unmapped room
NewSession(r, d) ==
    /\ pc[r] = "none" /\ ~Claims(r) /\ ~inFlight[r]
    /\ dir' = [dir EXCEPT ![r] = d]
    /\ UNCHANGED <<pending, pursuit, inFlight, holder, pc>>

\* Bug: a room forgets its session while a turn of it is in flight.
ResetAnyway(r) ==
    /\ pc[r] = "none" /\ ~Claims(r)
    /\ dir[r] # None
    /\ dir' = [dir EXCEPT ![r] = None]
    /\ UNCHANGED <<pending, pursuit, inFlight, holder, pc>>

CommandReset(r) ==
    /\ pc[r] = "none" /\ ~Claims(r) /\ ~inFlight[r]
    /\ dir[r] # None
    /\ dir' = [dir EXCEPT ![r] = None]
    /\ UNCHANGED <<pending, pursuit, inFlight, holder, pc>>

------------------------------------------------------------------------------
(* Ordinary turns.                                                         *)

\* prompt: the conflict is looked for without the directory's lock, before the
\* progress message is sent
Prompt(r) ==
    /\ pc[r] = "none" /\ dir[r] # None
    /\ ~Claims(r) /\ ~inFlight[r]
    /\ ~Conflict(r)
    /\ Awaits(r, "progress")
    /\ UNCHANGED <<dir, pending, pursuit, inFlight, holder>>

\* _complete_idle continues an interrupted turn: finalized, it is not in flight while
\* its continuation's progress message is sent; no conflict is looked for
Recover(r) ==
    /\ pc[r] = "none" /\ inFlight[r]
    /\ inFlight' = [inFlight EXCEPT ![r] = FALSE]
    /\ Awaits(r, "progress")
    /\ UNCHANGED <<dir, pending, pursuit, holder>>

\* _submit_prompt: sent, or not
ProgressSent(r) ==
    /\ pc[r] = "progress"
    /\ inFlight' \in {inFlight, [inFlight EXCEPT ![r] = TRUE]}
    /\ Done(r)
    /\ UNCHANGED <<dir, pending, pursuit, holder>>

TurnEnds(r) ==
    /\ pc[r] = "none" /\ inFlight[r]
    /\ inFlight' = [inFlight EXCEPT ![r] = FALSE]
    /\ UNCHANGED <<dir, pending, pursuit, holder, pc>>

------------------------------------------------------------------------------
(* Pursuits.                                                               *)

CommandPursue(r) ==
    /\ pc[r] = "none" /\ dir[r] # None
    /\ Awaits(r, "ask")
    /\ UNCHANGED <<dir, pending, pursuit, inFlight, holder>>

\* Bug: the directory's lock is given up while the status is awaited.
PursueLocksTooLittle(r) ==
    /\ Acquires(r, "ask")
    /\ \/ /\ BusyConflict(r) \/ Claims(r)
          /\ Done(r)
       \/ /\ ~BusyConflict(r) /\ ~Claims(r)
          /\ Awaits(r, "asking")
    /\ UNCHANGED <<dir, pending, pursuit, inFlight, holder>>

\* command_pursue has the directory's lock
PursueLocks(r) ==
    /\ Acquires(r, "ask")
    /\ \/ /\ BusyConflict(r) \/ Claims(r)
          /\ Done(r) /\ UNCHANGED holder
       \/ /\ ~BusyConflict(r) /\ ~Claims(r)
          /\ Awaits(r, "asking") /\ Keep(r)
    /\ UNCHANGED <<dir, pending, pursuit, inFlight>>

\* The session's status has come: busy, an error, or idle
PursueAsks(r) ==
    /\ pc[r] = "asking"
    /\ \/ UNCHANGED pending
       \/ ~inFlight[r] /\ pending' = [pending EXCEPT ![r] = TRUE]
    /\ Done(r) /\ Release(r)
    /\ UNCHANGED <<dir, pursuit, inFlight>>

ChooseExtent(r) ==
    /\ pc[r] = "none" /\ pending[r]
    /\ Awaits(r, "extent")
    /\ UNCHANGED <<dir, pending, pursuit, inFlight, holder>>

\* What "slow" is not: the messages that were on their way have been sent by now.
Settled(r) == "slow" \in Disturbances \/ \A q \in Neighbours(r) : pc[q] # "progress"

\* Bug: turns of other rooms are not looked for.
ExtentLocksWhileBusy(r) ==
    /\ Acquires(r, "extent")
    /\ \/ Conflict(r) /\ Done(r) /\ UNCHANGED holder
       \/ /\ ~Conflict(r) /\ Settled(r)
          /\ Awaits(r, "drafter") /\ Keep(r)
    /\ UNCHANGED <<dir, pending, pursuit, inFlight>>

\* _select_pursuit_extent has the directory's lock
ExtentLocks(r) ==
    /\ Acquires(r, "extent")
    /\ \/ BusyConflict(r) /\ Done(r) /\ UNCHANGED holder
       \/ /\ ~BusyConflict(r) /\ Settled(r)
          /\ Awaits(r, "drafter") /\ Keep(r)
    /\ UNCHANGED <<dir, pending, pursuit, inFlight>>

\* Bug: a request that fails leaves the lock behind.
DraftKeepsLock(r) ==
    /\ pc[r] = "drafter"
    /\ \/ UNCHANGED <<pending, pursuit, holder>>
       \/ /\ pending' = [pending EXCEPT ![r] = FALSE]
          /\ pursuit' = [pursuit EXCEPT ![r] = TRUE]
          /\ Release(r)
    /\ Done(r)
    /\ UNCHANGED <<dir, inFlight>>

\* Status and drafter session have come, or one of them failed
DraftStarts(r) ==
    /\ pc[r] = "drafter"
    /\ \/ UNCHANGED <<pending, pursuit>>
       \/ /\ pending' = [pending EXCEPT ![r] = FALSE]
          /\ pursuit' = [pursuit EXCEPT ![r] = TRUE]
    /\ Done(r) /\ Release(r)
    /\ UNCHANGED <<dir, inFlight>>

\* _clear_pursuit: a stop OpenCode has confirmed, or the archive
ClearPursuit(r) ==
    /\ pc[r] = "none" /\ Claims(r)
    /\ pending' = [pending EXCEPT ![r] = FALSE]
    /\ pursuit' = [pursuit EXCEPT ![r] = FALSE]
    /\ UNCHANGED <<dir, inFlight, holder, pc>>

\* Rooms come from the disk, locks and handlers do not.
Restart ==
    /\ "crash" \in Disturbances
    /\ holder' = [d \in Directory |-> None]
    /\ pc' = [r \in Room |-> "none"]
    /\ UNCHANGED <<dir, pending, pursuit, inFlight>>

------------------------------------------------------------------------------
Init ==
    /\ dir = [r \in Room |-> None]
    /\ pending = [r \in Room |-> FALSE]
    /\ pursuit = [r \in Room |-> FALSE]
    /\ inFlight = [r \in Room |-> FALSE]
    /\ holder = [d \in Directory |-> None]
    /\ pc = [r \in Room |-> "none"]

Turn(r) == Prompt(r) \/ Recover(r) \/ ProgressSent(r) \/ TurnEnds(r)

SetUp(r) ==
    \/ CommandPursue(r) \/ PursueLocks(r) \/ PursueAsks(r)
    \/ ChooseExtent(r) \/ ExtentLocks(r) \/ DraftStarts(r)

Next ==
    \/ \E r \in Room :
          \/ \E d \in Directory : NewSession(r, d)
          \/ CommandReset(r) \/ Turn(r) \/ SetUp(r) \/ ClearPursuit(r)
    \/ Restart

Spec == Init /\ [][Next]_vars

\* Requests are answered or fail, and asyncio.Lock serves its waiters in turn.
Fairness ==
    \A r \in Room :
        /\ WF_vars(ProgressSent(r)) /\ WF_vars(PursueAsks(r)) /\ WF_vars(DraftStarts(r))
        /\ SF_vars(PursueLocks(r)) /\ SF_vars(ExtentLocks(r))

FairSpec == Spec /\ Fairness

------------------------------------------------------------------------------
(* Properties.                                                             *)

\* No two rooms pursue, or are asked about a pursuit, on one directory: each would
\* adopt, check and report the other's changes (bot.py:1185-1192, 1293-1298).
OnePursuitPerDirectory == \A r \in Room : Claims(r) => ~Conflict(r)

\* While a room pursues, no other room's ordinary turn works on its directory
\* ("This workspace is locked by an active pursuit", bot.py:479) - unless a progress
\* message takes longer than the set-up of the pursuit.
PursuitIsAlone == \A r \in Room : pursuit[r] => ~BusyConflict(r)

\* Who waits for a directory gets its turn: no handler keeps the lock or waits for
\* one that waits for it.
NobodyWaitsForever ==
    \A r \in Room : (pc[r] \in {"ask", "extent"}) ~> (pc[r] = "none")
=============================================================================
