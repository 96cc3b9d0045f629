--------------------------- MODULE BudgetLedgerProofs ---------------------------
(***************************************************************************)
(* Theorems about BudgetLedger, for every budget, every bound and every    *)
(* set of disturbances.                                                    *)
(*                                                                         *)
(* Whatever handler runs, the accounts and the counters of a session only  *)
(* move in the ways that LedgerMoves lists (MovesNext).  Types, tokens and *)
(* quotas are invariants of these moves.  The clock depends on the phase,  *)
(* and is proved action by action.                                         *)
(***************************************************************************)
EXTENDS BudgetLedger, TLAPS

------------------------------------------------------------------------------
(* How the ledger moves.                                                   *)

Books(reading) == Pause(reading) \/ ChargeTokens(reading) \/ NextTranche(reading)

\* A session is read and goes on, is read and left, or is not read at all.
Charge ==
    \E reading \in {0, Reading} :
        Books(reading) /\ (Remember(reading) \/ LeaveSession(reading))

PauseUnread == Pause(0) /\ UNCHANGED tokens

Attempt ==
    /\ usage.cycles < MaxCycles
    /\ usage' = [usage EXCEPT !.cycles = @ + 1]
    /\ total' = [total EXCEPT !.cycles = @ + 1]
    /\ StartClock
    /\ UNCHANGED <<tranche, clocked, tokens>>

\* The clock starts with an attempt that the deadline forestalls.
Late ==
    /\ pc = "submit"
    /\ lease = "expired" /\ lease' = "expired" /\ phase' = "checking"
    /\ StartClock
    /\ UNCHANGED <<usage, total, tranche, clocked, tokens>>

Call ==
    /\ usage.toolCalls < MaxToolCalls
    /\ usage' = [usage EXCEPT !.toolCalls = @ + 1]
    /\ total' = [total EXCEPT !.toolCalls = @ + 1]
    /\ UNCHANGED <<tranche, running, clocked, tokens>>

Moment ==
    /\ running # None
    /\ running' = running + 1 /\ clocked' = clocked + 1
    /\ UNCHANGED <<usage, total, tranche, tokens>>

Token ==
    /\ used' = used + 1 /\ spent' = spent + 1
    /\ UNCHANGED <<accounts, seen, lost, struck>>

Fresh ==
    /\ usage' = Unused /\ total' = Unused /\ tranche' = 1 /\ running' = None
    /\ seen' = 0 /\ used' = 0 /\ spent' = 0 /\ lost' = 0
    /\ clocked' = 0 /\ struck' = {}

Blow ==
    \/ struck' = struck \cup {"error"} /\ UNCHANGED <<accounts, seen, used, spent, lost>>
    \/ /\ used' = 0 /\ lost' = lost + Reading /\ struck' = struck \cup {"gone"}
       /\ UNCHANGED <<accounts, seen, spent>>

LedgerMoves ==
    \/ UNCHANGED <<accounts, tokens>>
    \/ Charge \/ PauseUnread \/ Attempt \/ Late \/ Call \/ Moment \/ Token \/ Fresh \/ Blow

\* What an interrupted turn left is read, or there was nothing to read.
LEMMA InterruptedIsRead == InterruptedReading \in {0, Reading}
BY DEF InterruptedReading

\* A tranche below its quota is within it.
LEMMA BelowQuota ==
  ASSUME TypeOK
  PROVE  /\ ~Exhausted => usage.cycles < MaxCycles
         /\ ~(usage.toolCalls >= MaxToolCalls) => usage.toolCalls < MaxToolCalls
BY LimitsAssumption DEF TypeOK, Usage, Exhausted

\* Every action of the specification moves the ledger in one of the ways of LedgerMoves.
LEMMA MovesNext ==
  ASSUME TypeOK, [Next]_vars
  PROVE  LedgerMoves
<1>1. CASE Tick
  BY <1>1 DEF Tick, LedgerMoves, Moment
<1>2. CASE LeaseExpires
  BY <1>2 DEF LeaseExpires, LedgerMoves
<1>3. CASE WorkerReads
  BY <1>3 DEF WorkerReads, LedgerMoves, Token
<1>4. CASE TurnEnds
  BY <1>4 DEF TurnEnds, LedgerMoves
<1>5. CASE Restart
  BY <1>5 DEF Restart, LedgerMoves
<1>6. CASE Boot
  BY <1>6, Zenon DEF Boot, LedgerMoves, Blow
<1>7. CASE Submit
  <2>1. CASE UNCHANGED accounts
    BY <1>7, <2>1, Zenon DEF Submit, LedgerMoves
  <2>2. CASE ~Exhausted /\ lease # "expired" /\ ~UNCHANGED accounts
    BY <1>7, <2>2, BelowQuota, Zenon DEF Submit, LedgerMoves, Attempt
  <2>3. CASE Late
    BY <2>3 DEF LedgerMoves
  <2>4. QED
    BY <1>7, <2>1, <2>2, <2>3, Zenon DEF Submit, FinalChecks, Late
<1>8. CASE Prompt
  BY <1>8 DEF Prompt, LedgerMoves
<1>9. CASE AtQuota
  <2> USE InterruptedIsRead DEF LedgerMoves
  <2>1. CASE Pause(0) /\ UNCHANGED tokens
    BY <2>1, Zenon DEF PauseUnread
  <2>2. CASE UNCHANGED <<accounts, tokens>>
    BY <2>2, Zenon
  <2>3. CASE NextTranche(InterruptedReading) /\ LeaveSession(InterruptedReading)
    BY <2>3, Zenon DEF Charge, Books
  <2>4. CASE ChargeTokens(InterruptedReading) /\ Remember(InterruptedReading)
    BY <2>4, Zenon DEF Charge, Books
  <2>5. QED
    BY <1>9, <2>1, <2>2, <2>3, <2>4, Zenon DEF AtQuota
<1>10. CASE Checks
  BY <1>10, Zenon DEF Checks, Archive, LedgerMoves, Charge, Books, PauseUnread
<1>11. CASE Deadline
  BY <1>11, InterruptedIsRead, Zenon DEF Deadline, FinalChecks, LedgerMoves, Charge, Books
<1>12. CASE Resume
  BY <1>12 DEF Resume, LedgerMoves
<1>13. CASE SessionError
  BY <1>13, Zenon DEF SessionError, LedgerMoves, Blow
<1>14. CASE WorkerReports
  BY <1>14, Zenon DEF WorkerReports, LedgerMoves, Charge, Books
<1>15. CASE Recover
  BY <1>15, InterruptedIsRead, Zenon DEF Recover, LedgerMoves, Charge, Books
<1>16. CASE ToolCall
  <2>1. CASE usage.toolCalls >= MaxToolCalls
    BY <1>16, <2>1, InterruptedIsRead, Zenon
       DEF ToolCall, Interrupt, LedgerMoves, Charge, Books
  <2>2. CASE ~(usage.toolCalls >= MaxToolCalls)
    BY <1>16, <2>2, BelowQuota, Zenon DEF ToolCall, LedgerMoves, Call
  <2>3. QED
    BY <2>1, <2>2
<1>17. CASE WatchQuota
  BY <1>17, InterruptedIsRead, Zenon DEF WatchQuota, Interrupt, LedgerMoves, Charge, Books
<1>18. CASE DeadlineNoticed
  BY <1>18 DEF DeadlineNoticed, LedgerMoves
<1>19. CASE Begin
  BY <1>19 DEF Begin, LedgerMoves, Fresh
<1>20. CASE Approve
  BY <1>20 DEF Approve, LedgerMoves, Fresh
<1>21. CASE Continue
  BY <1>21, Zenon DEF Continue, LedgerMoves, Charge, Books
<1>22. CASE SignOff
  BY <1>22, Zenon DEF SignOff, Archive, LedgerMoves, Charge, Books
<1>23. CASE Revise
  BY <1>23 DEF Revise, LedgerMoves
<1>24. CASE Stop
  BY <1>24, InterruptedIsRead, Zenon DEF Stop, Archive, LedgerMoves, Charge, Books
<1>25. CASE YoloOff
  BY <1>25 DEF YoloOff, LedgerMoves
<1>26. CASE UNCHANGED vars
  BY <1>26 DEF vars, LedgerMoves
<1>27. QED
  BY <1>1, <1>2, <1>3, <1>4, <1>5, <1>6, <1>7, <1>8, <1>9, <1>10, <1>11,
     <1>12, <1>13, <1>14, <1>15, <1>16, <1>17, <1>18, <1>19, <1>20, <1>21,
     <1>22, <1>23, <1>24, <1>25, <1>26
     DEF Next, Environment, Running, Events, User

------------------------------------------------------------------------------
(* Types.                                                                  *)

ControlOK ==
    /\ phase \in {"none", "working", "checking"} \cup Waiting
    /\ pc \in {"idle", "submit", "prompt", "quota", "checks", "deadline", "boot"}
    /\ lease \in {"none", "running", "expired"}
    /\ open \in BOOLEAN /\ inFlight \in BOOLEAN /\ retry \in BOOLEAN
    /\ termination \in BOOLEAN /\ busy \in BOOLEAN

AccountsOK ==
    /\ usage \in Usage /\ total \in Usage
    /\ tranche \in Nat \ {0}
    /\ running \in Nat \cup {None}
    /\ clocked \in Nat

TokensOK ==
    /\ seen \in Nat /\ used \in Nat /\ spent \in Nat /\ lost \in Nat
    /\ struck \subseteq {"error", "gone"}

\* TypeOK by the actions that write its parts.
LEMMA TypeParts == TypeOK <=> ControlOK /\ AccountsOK /\ TokensOK
BY DEF TypeOK, ControlOK, AccountsOK, TokensOK

\* Whole seconds, and what is read from a session, are natural numbers.
LEMMA MeasuresAreNat ==
  ASSUME TypeOK
  PROVE  Unpaused \in Nat /\ Reading \in Nat
<1>1. Unpaused \in Nat
  BY LimitsAssumption, NoneAssumption DEF TypeOK, Unpaused
<1>2. Reading \in Nat
  BY DEF TypeOK, Reading
<1>3. QED
  BY <1>1, <1>2

\* Charging an account leaves an account, and adds what it is charged with.
LEMMA ChargedIsUsage ==
  ASSUME NEW account \in Usage, NEW reading \in Nat, NEW seconds \in Nat
  PROVE  /\ Charged(account, reading, seconds) \in Usage
         /\ Charged(account, reading, seconds).tokens = account.tokens + reading
         /\ Charged(account, reading, seconds).cycles = account.cycles
         /\ Charged(account, reading, seconds).toolCalls = account.toolCalls
<1> DEFINE read == [account EXCEPT !.tokens = account.tokens + reading]
<1>1. read \in Usage
  BY DEF Usage
<1>2. Charged(account, reading, seconds)
          = [read EXCEPT !.elapsed = account.elapsed + seconds]
  BY DEF Usage, Charged
<1>3. account.elapsed + seconds \in Nat
  BY DEF Usage
<1>4. Charged(account, reading, seconds) \in Usage
  BY <1>1, <1>2, <1>3 DEF Usage
<1>5. /\ Charged(account, reading, seconds).tokens = account.tokens + reading
      /\ Charged(account, reading, seconds).cycles = account.cycles
      /\ Charged(account, reading, seconds).toolCalls = account.toolCalls
  BY DEF Usage, Charged
<1>6. QED
  BY <1>4, <1>5

\* An empty tranche is a usage.
LEMMA UnusedIsUsage ==
  /\ Unused \in Usage
  /\ Unused.tokens = 0 /\ Unused.cycles = 0 /\ Unused.toolCalls = 0
BY DEF Unused, Usage

\* What the books do to the accounts.
LEMMA BooksTyped ==
  ASSUME TypeOK, NEW reading \in Nat, Books(reading)
  PROVE  /\ AccountsOK'
         /\ total'.tokens = total.tokens + reading
         /\ usage' = Unused \/ ( /\ usage'.cycles = usage.cycles
                                 /\ usage'.toolCalls = usage.toolCalls )
<1> USE DEF AccountsOK, TypeOK
<1>1. CASE Pause(reading)
  <2>1. Charged(usage, reading, Unpaused) \in Usage
    BY ChargedIsUsage, MeasuresAreNat
  <2>2. Charged(total, reading, Unpaused) \in Usage
    BY ChargedIsUsage, MeasuresAreNat
  <2>3. Charged(total, reading, Unpaused).tokens = total.tokens + reading
    BY ChargedIsUsage, MeasuresAreNat
  <2>4. /\ Charged(usage, reading, Unpaused).cycles = usage.cycles
        /\ Charged(usage, reading, Unpaused).toolCalls = usage.toolCalls
    BY ChargedIsUsage, MeasuresAreNat
  <2>5. QED
    BY <1>1, <2>1, <2>2, <2>3, <2>4 DEF Pause
<1>2. CASE ChargeTokens(reading)
  <2>1. Charged(usage, reading, 0) \in Usage
    BY ChargedIsUsage
  <2>2. Charged(total, reading, 0) \in Usage
    BY ChargedIsUsage
  <2>3. Charged(total, reading, 0).tokens = total.tokens + reading
    BY ChargedIsUsage
  <2>4. /\ Charged(usage, reading, 0).cycles = usage.cycles
        /\ Charged(usage, reading, 0).toolCalls = usage.toolCalls
    BY ChargedIsUsage
  <2>5. QED
    BY <1>2, <2>1, <2>2, <2>3, <2>4 DEF ChargeTokens
<1>3. CASE NextTranche(reading)
  <2>1. Charged(total, reading, Unpaused) \in Usage
    BY ChargedIsUsage, MeasuresAreNat
  <2>2. Charged(total, reading, Unpaused).tokens = total.tokens + reading
    BY ChargedIsUsage, MeasuresAreNat
  <2>3. QED
    BY <1>3, <2>1, <2>2, UnusedIsUsage DEF NextTranche
<1>4. QED
  BY <1>1, <1>2, <1>3 DEF Books

\* An attempt, even one that is forestalled, or a tool call charges no tokens.
LEMMA CountedTyped ==
  ASSUME TypeOK, Attempt \/ Late \/ Call
  PROVE  AccountsOK' /\ total'.tokens = total.tokens
<1>1. CASE Attempt
  <2>1. usage' \in Usage /\ total' \in Usage /\ total'.tokens = total.tokens
    BY <1>1 DEF Attempt, TypeOK, Usage
  <2>2. QED
    BY <1>1, <2>1 DEF Attempt, StartClock, TypeOK, AccountsOK
<1>2. CASE Call
  <2>1. usage' \in Usage /\ total' \in Usage /\ total'.tokens = total.tokens
    BY <1>2 DEF Call, TypeOK, Usage
  <2>2. QED
    BY <1>2, <2>1 DEF Call, TypeOK, AccountsOK
<1>3. CASE Late
  BY <1>3 DEF Late, StartClock, TypeOK, AccountsOK
<1>4. QED
  BY <1>1, <1>2, <1>3

\* Every move of the ledger keeps its types.
LEMMA LedgerTyped ==
  ASSUME TypeOK, LedgerMoves
  PROVE  AccountsOK' /\ TokensOK'
<1> USE DEF TypeOK, accounts, tokens
<1>1. CASE UNCHANGED <<accounts, tokens>>
  BY <1>1 DEF AccountsOK, TokensOK
<1>2. CASE Charge
  <2>1. PICK reading \in {0, Reading} :
            Books(reading) /\ (Remember(reading) \/ LeaveSession(reading))
    BY <1>2 DEF Charge
  <2>2. reading \in Nat /\ Reading - reading \in Nat
    BY <2>1, MeasuresAreNat
  <2>3. seen' \in Nat /\ used' \in Nat /\ spent' \in Nat /\ lost' \in Nat
    BY <2>1, <2>2 DEF Remember, LeaveSession
  <2>4. struck' = struck
    BY <2>1 DEF Remember, LeaveSession
  <2>5. QED
    BY <2>1, <2>2, <2>3, <2>4, BooksTyped DEF TokensOK
<1>3. CASE PauseUnread
  <2>1. AccountsOK'
    BY <1>3, BooksTyped DEF PauseUnread, Books
  <2>2. QED
    BY <1>3, <2>1 DEF PauseUnread, TokensOK
<1>4. CASE Attempt \/ Late \/ Call
  <2>1. AccountsOK'
    BY <1>4, CountedTyped
  <2>2. QED
    BY <1>4, <2>1 DEF Attempt, Late, Call, TokensOK
<1>5. CASE Moment
  BY <1>5 DEF Moment, AccountsOK, TokensOK
<1>6. CASE Token
  BY <1>6 DEF Token, AccountsOK, TokensOK
<1>7. CASE Fresh
  BY <1>7, UnusedIsUsage DEF Fresh, AccountsOK, TokensOK
<1>8. CASE Blow
  <2>1. AccountsOK'
    BY <1>8 DEF Blow, AccountsOK
  <2>2. seen' \in Nat /\ used' \in Nat /\ spent' \in Nat /\ lost' \in Nat
    BY <1>8, MeasuresAreNat DEF Blow
  <2>3. struck' \subseteq {"error", "gone"}
    BY <1>8 DEF Blow
  <2>4. QED
    BY <2>1, <2>2, <2>3 DEF TokensOK
<1>9. QED
  BY <1>1, <1>2, <1>3, <1>4, <1>5, <1>6, <1>7, <1>8 DEF LedgerMoves

\* Every action keeps the types of phase, turn and marks.
LEMMA ControlNext ==
  ASSUME ControlOK, [Next]_vars
  PROVE  ControlOK'
<1> USE DEF ControlOK, Waiting, turn
<1>1. CASE Tick
  BY <1>1 DEF Tick
<1>2. CASE LeaseExpires
  BY <1>2 DEF LeaseExpires
<1>3. CASE WorkerReads
  BY <1>3 DEF WorkerReads
<1>4. CASE TurnEnds
  BY <1>4 DEF TurnEnds
<1>5. CASE Restart
  BY <1>5 DEF Restart
<1>6. CASE Boot
  BY <1>6 DEF Boot, ResumePhase
<1>7. CASE Submit
  BY <1>7 DEF Submit, StartClock, FinalChecks
<1>8. CASE Prompt
  BY <1>8 DEF Prompt
<1>9. CASE AtQuota
  BY <1>9 DEF AtQuota
<1>10. CASE Checks
  BY <1>10 DEF Checks, Archive
<1>11. CASE Deadline
  BY <1>11 DEF Deadline, FinalChecks
<1>12. CASE Resume
  BY <1>12 DEF Resume, ResumePhase
<1>13. CASE SessionError
  BY <1>13 DEF SessionError
<1>14. CASE WorkerReports
  BY <1>14 DEF WorkerReports
<1>15. CASE Recover
  BY <1>15 DEF Recover
<1>16. CASE ToolCall
  BY <1>16 DEF ToolCall, Interrupt
<1>17. CASE WatchQuota
  BY <1>17 DEF WatchQuota, Interrupt
<1>18. CASE DeadlineNoticed
  BY <1>18 DEF DeadlineNoticed
<1>19. CASE Begin
  BY <1>19 DEF Begin
<1>20. CASE Approve
  BY <1>20 DEF Approve
<1>21. CASE Continue
  BY <1>21 DEF Continue
<1>22. CASE SignOff
  BY <1>22 DEF SignOff, Archive
<1>23. CASE Revise
  BY <1>23 DEF Revise
<1>24. CASE Stop
  BY <1>24 DEF Stop, Archive
<1>25. CASE YoloOff
  BY <1>25 DEF YoloOff
<1>26. CASE UNCHANGED vars
  BY <1>26 DEF vars
<1>27. QED
  BY <1>1, <1>2, <1>3, <1>4, <1>5, <1>6, <1>7, <1>8, <1>9, <1>10, <1>11,
     <1>12, <1>13, <1>14, <1>15, <1>16, <1>17, <1>18, <1>19, <1>20, <1>21,
     <1>22, <1>23, <1>24, <1>25, <1>26
     DEF Next, Environment, Running, Events, User

\* TypeOK, whatever is disturbed.
THEOREM TypeCorrect == Spec => []TypeOK
<1>1. Init => TypeOK
  <2>1. Init => ControlOK
    BY DEF Init, ControlOK
  <2>2. Init => AccountsOK /\ TokensOK
    BY UnusedIsUsage DEF Init, AccountsOK, TokensOK
  <2>3. QED
    BY <2>1, <2>2, TypeParts
<1>2. TypeOK /\ [Next]_vars => TypeOK'
  <2> SUFFICES ASSUME TypeOK, [Next]_vars
               PROVE  TypeOK'
    OBVIOUS
  <2>1. ControlOK'
    BY TypeParts, ControlNext
  <2>2. AccountsOK' /\ TokensOK'
    BY MovesNext, LedgerTyped
  <2>3. QED
    BY <2>1, <2>2 DEF TypeOK, ControlOK, AccountsOK, TokensOK
<1>3. QED
  BY <1>1, <1>2, PTL DEF Spec

------------------------------------------------------------------------------
(* Tokens.                                                                 *)

\* As long as no session was replaced behind its back, the mark is one of this
\* session: what lies beyond it is still to be charged, and nothing below it.
TokenInv ==
    "gone" \notin struck =>
        /\ seen <= used
        /\ total.tokens + (used - seen) + lost = spent

\* No move of the ledger makes or loses a token.
LEMMA TokenNext ==
  ASSUME TypeOK, TokenInv, LedgerMoves
  PROVE  TokenInv'
<1> USE DEF TypeOK, TokenInv, accounts, tokens
<1> SUFFICES ASSUME "gone" \notin struck'
             PROVE  /\ seen' <= used'
                    /\ total'.tokens + (used' - seen') + lost' = spent'
  OBVIOUS
<1>0. total.tokens \in Nat
  BY DEF Usage
<1>1. CASE UNCHANGED <<accounts, tokens>>
  BY <1>1
<1>2. CASE Charge
  <2>1. PICK reading \in {0, Reading} :
            Books(reading) /\ (Remember(reading) \/ LeaveSession(reading))
    BY <1>2 DEF Charge
  <2>2. struck' = struck
    BY <2>1 DEF Remember, LeaveSession
  <2>3. Reading = used - seen
    BY <2>2 DEF Reading
  <2>4. reading \in Nat /\ total'.tokens = total.tokens + reading
    BY <2>1, MeasuresAreNat, BooksTyped
  <2>5. CASE Remember(reading)
    BY <1>0, <2>1, <2>2, <2>3, <2>4, <2>5 DEF Remember
  <2>6. CASE LeaveSession(reading)
    BY <1>0, <2>1, <2>2, <2>3, <2>4, <2>6 DEF LeaveSession
  <2>7. QED
    BY <2>1, <2>5, <2>6
<1>3. CASE PauseUnread
  <2>1. total'.tokens = total.tokens
    BY <1>0, <1>3, BooksTyped DEF PauseUnread, Books
  <2>2. QED
    BY <1>3, <2>1 DEF PauseUnread
<1>4. CASE Attempt \/ Late \/ Call
  <2>1. total'.tokens = total.tokens
    BY <1>4, CountedTyped
  <2>2. QED
    BY <1>4, <2>1 DEF Attempt, Late, Call
<1>5. CASE Moment
  BY <1>5 DEF Moment
<1>6. CASE Token
  BY <1>0, <1>6 DEF Token
<1>7. CASE Fresh
  BY <1>7, UnusedIsUsage DEF Fresh
<1>8. CASE Blow
  BY <1>8 DEF Blow
<1>9. QED
  BY <1>1, <1>2, <1>3, <1>4, <1>5, <1>6, <1>7, <1>8 DEF LedgerMoves

\* Whatever the handlers do, the books of tokens balance.
LEMMA TokensHold == Spec => []TokenInv
<1>1. Init => TokenInv
  BY UnusedIsUsage DEF Init, TokenInv
<1>2. TypeOK /\ TokenInv /\ [Next]_vars => TokenInv'
  <2>1. TypeOK /\ TokenInv /\ Next => TokenInv'
    BY MovesNext, TokenNext
  <2>2. TokenInv /\ UNCHANGED vars => TokenInv'
    BY DEF TokenInv, vars, accounts, tokens
  <2>3. QED
    BY <2>1, <2>2
<1>3. QED
  BY <1>1, <1>2, TypeCorrect, PTL DEF Spec

\* README.md:227: every token of every worker is charged exactly once, or can still
\* be read, or its session was left unread.
THEOREM TokensSound == Spec => []TokensAccounted
<1>1. TokenInv => TokensAccounted
  BY DEF TokenInv, TokensAccounted
<1>2. QED
  BY <1>1, TokensHold, PTL

\* Only a restart that finds the session unknown replaces it behind the mark's back.
LEMMA NotReplaced ==
  ASSUME "gone" \notin Disturbances, "gone" \notin struck, [Next]_vars
  PROVE  "gone" \notin struck'
<1> USE DEF tokens, turn, Remember, LeaveSession, Archive, Interrupt
<1>1. CASE Environment
  BY <1>1 DEF Environment, Tick, LeaseExpires, WorkerReads, TurnEnds, Restart
<1>2. CASE Running
  BY <1>2 DEF Running, Boot, Submit, Prompt, AtQuota, Checks, Deadline
<1>3. CASE Events
  BY <1>3 DEF Events, Resume, SessionError, WorkerReports, Recover, ToolCall,
              WatchQuota, DeadlineNoticed
<1>4. CASE User
  BY <1>4 DEF User, Begin, Approve, Continue, SignOff, Revise, Stop, YoloOff
<1>5. CASE UNCHANGED vars
  BY <1>5 DEF vars
<1>6. QED
  BY <1>1, <1>2, <1>3, <1>4, <1>5 DEF Next

\* README.md:249: the replacement of a lost session is all that can separate the mark
\* from its session; under every other disturbance the mark never runs ahead of it.
THEOREM MarkSound ==
  ASSUME "gone" \notin Disturbances
  PROVE  Spec => []MarkIsOfThisSession
<1> DEFINE Kept == "gone" \notin struck
<1>1. Init => Kept
  BY DEF Init
<1>2. Kept /\ [Next]_vars => Kept'
  BY NotReplaced
<1>3. Kept /\ TokenInv => MarkIsOfThisSession
  BY DEF TokenInv, MarkIsOfThisSession
<1>4. QED
  BY <1>1, <1>2, <1>3, TokensHold, PTL DEF Spec

------------------------------------------------------------------------------
(* The quotas and the clock.                                               *)

\* README.md:225: no tranche has more attempts or tool calls than the contract of
\* the pursuit grants, however often it is interrupted, renewed or restarted.
THEOREM QuotaSound == Spec => []QuotaHolds
<1>1. Init => QuotaHolds
  BY LimitsAssumption, UnusedIsUsage DEF Init, QuotaHolds
<1>2. TypeOK /\ QuotaHolds /\ [Next]_vars => QuotaHolds'
  <2> SUFFICES ASSUME TypeOK, QuotaHolds, [Next]_vars
               PROVE  QuotaHolds'
    OBVIOUS
  <2> USE LimitsAssumption DEF QuotaHolds, accounts
  <2>1. CASE UNCHANGED <<accounts, tokens>> \/ Late \/ Moment \/ Token \/ Blow
    BY <2>1 DEF Late, Moment, Token, Blow
  <2>2. CASE Charge
    <3>1. PICK reading \in Nat : Books(reading)
      BY <2>2, MeasuresAreNat DEF Charge
    <3>2. QED
      BY <3>1, BooksTyped, UnusedIsUsage
  <2>3. CASE PauseUnread
    BY <2>3, BooksTyped, UnusedIsUsage DEF PauseUnread, Books
  <2>4. CASE Attempt
    BY <2>4 DEF Attempt, TypeOK, Usage
  <2>5. CASE Call
    BY <2>5 DEF Call, TypeOK, Usage
  <2>6. CASE Fresh
    BY <2>6, UnusedIsUsage DEF Fresh
  <2>7. LedgerMoves
    BY MovesNext
  <2>8. QED
    BY <2>1, <2>2, <2>3, <2>4, <2>5, <2>6, <2>7 DEF LedgerMoves
<1>3. QED
  BY <1>1, <1>2, TypeCorrect, PTL DEF Spec

\* A worker is submitted, and its quota looked at, in phase working, when no turn
\* is waited for; and only in that phase is a turn waited for.
ClockInv ==
    /\ ClockStopsForTheUser
    /\ inFlight => phase = "working"
    /\ pc \in {"submit", "prompt", "quota"} => phase = "working"
    /\ pc \in {"submit", "prompt", "quota", "checks"} => ~inFlight

\* Whatever makes the user wait has stopped the clock.
LEMMA ClockNext ==
  ASSUME TypeOK, ClockInv, [Next]_vars
  PROVE  ClockInv'
<1> USE NoneAssumption DEF ClockInv, ClockStopsForTheUser, Waiting, accounts, turn,
        Pause, ChargeTokens, NextTranche
<1>1. CASE Tick
  BY <1>1 DEF Tick
<1>2. CASE LeaseExpires
  BY <1>2 DEF LeaseExpires
<1>3. CASE WorkerReads
  BY <1>3 DEF WorkerReads
<1>4. CASE TurnEnds
  BY <1>4 DEF TurnEnds
<1>5. CASE Restart
  BY <1>5 DEF Restart
<1>6. CASE Boot
  BY <1>6 DEF Boot, ResumePhase
<1>7. CASE Submit
  BY <1>7 DEF Submit, StartClock, FinalChecks
<1>8. CASE Prompt
  BY <1>8 DEF Prompt
<1>9. CASE AtQuota
  BY <1>9 DEF AtQuota
<1>10. CASE Checks
  BY <1>10 DEF Checks, Archive
<1>11. CASE Deadline
  BY <1>11 DEF Deadline, FinalChecks
<1>12. CASE Resume
  BY <1>12 DEF Resume, ResumePhase, Idle
<1>13. CASE SessionError
  BY <1>13 DEF SessionError, Idle
<1>14. CASE WorkerReports
  BY <1>14 DEF WorkerReports, Idle
<1>15. CASE Recover
  BY <1>15 DEF Recover, Idle
<1>16. CASE ToolCall
  BY <1>16 DEF ToolCall, Interrupt, Idle
<1>17. CASE WatchQuota
  BY <1>17 DEF WatchQuota, Interrupt, Idle
<1>18. CASE DeadlineNoticed
  BY <1>18 DEF DeadlineNoticed, Idle
<1>19. CASE Begin
  BY <1>19 DEF Begin, Idle
<1>20. CASE Approve
  BY <1>20 DEF Approve, Idle
<1>21. CASE Continue
  BY <1>21 DEF Continue, Idle
<1>22. CASE SignOff
  BY <1>22 DEF SignOff, Archive, Idle
<1>23. CASE Revise
  BY <1>23 DEF Revise, Idle
<1>24. CASE Stop
  BY <1>24 DEF Stop, Archive, Idle
<1>25. CASE YoloOff
  BY <1>25 DEF YoloOff, Idle
<1>26. CASE UNCHANGED vars
  BY <1>26 DEF vars
<1>27. QED
  BY <1>1, <1>2, <1>3, <1>4, <1>5, <1>6, <1>7, <1>8, <1>9, <1>10, <1>11,
     <1>12, <1>13, <1>14, <1>15, <1>16, <1>17, <1>18, <1>19, <1>20, <1>21,
     <1>22, <1>23, <1>24, <1>25, <1>26
     DEF Next, Environment, Running, Events, User

\* The time in which a user decides is never charged: the clock is stopped.
THEOREM ClockSound == Spec => []ClockStopsForTheUser
<1>1. Init => ClockInv
  BY DEF Init, ClockInv, ClockStopsForTheUser
<1>2. TypeOK /\ ClockInv /\ [Next]_vars => ClockInv'
  BY ClockNext
<1>3. ClockInv => ClockStopsForTheUser
  BY DEF ClockInv
<1>4. QED
  BY <1>1, <1>2, <1>3, TypeCorrect, PTL DEF Spec

------------------------------------------------------------------------------
(* Time.                                                                   *)

Interval == IF running = None THEN 0 ELSE running

\* The deadline of the lease may yet forestall an attempt, once.
MayStartLate ==
    \/ lease = "running"
    \/ lease = "expired" /\ phase \in {"working", "checkpoint"}

\* Starts of the clock that have ended, each of which may have been rounded: of all
\* that there may be, not the one that goes on, nor the late one that may come.
Roundings ==
    total.cycles + tranche - (IF running = None THEN 0 ELSE 1)
                           - (IF MayStartLate THEN 1 ELSE 0)

\* Time that has gone by and is not charged.
Excess == clocked - (Second * total.elapsed + Interval)

TimeInv == 0 <= Excess /\ Excess <= (Second - 1) * Roundings

\* Whole seconds leave less than a second over.
LEMMA Rounding ==
  ASSUME NEW ticks \in Nat, NEW second \in Nat \ {0}
  PROVE  /\ ticks \div second \in Nat
         /\ second * (ticks \div second) <= ticks
         /\ ticks - second * (ticks \div second) <= second - 1
OBVIOUS

\* One more interval is rounded to whole seconds.
LEMMA OneMoreRounding ==
  ASSUME NEW second \in Nat \ {0}, NEW elapsed \in Nat, NEW ticks \in Nat,
         NEW clock \in Nat, NEW n \in Int,
         second * elapsed + ticks <= clock,
         clock - (second * elapsed + ticks) <= (second - 1) * n
  PROVE  /\ second * (elapsed + (ticks \div second)) <= clock
         /\ clock - second * (elapsed + (ticks \div second)) <= (second - 1) * (n + 1)
<1> DEFINE q == ticks \div second
<1>1. q \in Nat /\ second * q <= ticks /\ ticks - second * q <= second - 1
  BY Rounding
<1> HIDE DEF q
<1>2. second * (elapsed + q) = second * elapsed + second * q
  BY <1>1
<1>3. (second - 1) * (n + 1) = (second - 1) * n + (second - 1)
  OBVIOUS
<1>4. second * elapsed \in Nat /\ second * q \in Nat /\ (second - 1) * n \in Int
  BY <1>1
<1>5. /\ second * (elapsed + q) <= clock
      /\ clock - second * (elapsed + q) <= (second - 1) * (n + 1)
  BY <1>1, <1>2, <1>3, <1>4
<1>6. QED
  BY <1>5 DEF q

\* More starts of the clock leave room for more.
LEMMA MoreRoom ==
  ASSUME NEW second \in Nat \ {0}, NEW excess \in Int, NEW n \in Int, NEW m \in Int,
         excess <= (second - 1) * n, n <= m
  PROVE  excess <= (second - 1) * m
<1>1. (second - 1) * (m - n) \in Nat
  OBVIOUS
<1>2. (second - 1) * m = (second - 1) * n + (second - 1) * (m - n)
  OBVIOUS
<1>3. (second - 1) * n \in Int /\ (second - 1) * m \in Int
  OBVIOUS
<1>4. QED
  BY <1>1, <1>2, <1>3

\* The books of time are kept in integers.
TimesOK ==
    /\ total.elapsed \in Nat /\ total.cycles \in Nat /\ tranche \in Nat \ {0}
    /\ clocked \in Nat /\ Interval \in Nat /\ Second \in Nat \ {0}
    /\ Roundings \in Int /\ Excess \in Int

LEMMA TimesAreInt == AccountsOK => TimesOK
<1> SUFFICES ASSUME AccountsOK PROVE TimesOK
  OBVIOUS
<1>1. /\ total.elapsed \in Nat /\ total.cycles \in Nat /\ tranche \in Nat \ {0}
      /\ clocked \in Nat /\ Interval \in Nat /\ Second \in Nat \ {0}
  BY LimitsAssumption, NoneAssumption DEF AccountsOK, Usage, Interval
<1>2. Second * total.elapsed \in Nat
  BY <1>1
<1>3. QED
  BY <1>1, <1>2 DEF TimesOK, Roundings, Excess

\* Once the deadline has forestalled an attempt, only another approval grants another
\* lease: nothing else makes a late start possible.
LEMMA LateNext ==
  ASSUME [Next]_vars
  PROVE  Fresh \/ (MayStartLate' => MayStartLate)
<1> USE DEF MayStartLate, Interrupt, Archive, ResumePhase, Waiting
<1>1. CASE Environment
  BY <1>1 DEF Environment, Tick, LeaseExpires, WorkerReads, TurnEnds, Restart
<1>2. CASE Running
  BY <1>2 DEF Running, Boot, Submit, FinalChecks, Prompt, AtQuota, Checks, Deadline
<1>3. CASE Events
  BY <1>3 DEF Events, Resume, SessionError, WorkerReports, Recover, ToolCall,
              WatchQuota, DeadlineNoticed
<1>4. CASE User
  BY <1>4 DEF User, Begin, Approve, Fresh, Continue, SignOff, Revise, Stop, YoloOff
<1>5. CASE UNCHANGED vars
  BY <1>5 DEF vars
<1>6. QED
  BY <1>1, <1>2, <1>3, <1>4, <1>5 DEF Next

\* What the books do to the time charged and to the clock.
LEMMA BooksTimed ==
  ASSUME TypeOK, NEW reading \in Nat, Books(reading)
  PROVE  /\ total'.cycles = total.cycles
         /\ clocked' = clocked
         /\ \/ total'.elapsed = total.elapsed /\ UNCHANGED <<running, tranche>>
            \/ /\ total'.elapsed = total.elapsed + Unpaused
               /\ \/ running' = None /\ tranche' = tranche
                  \/ running' = 0 /\ tranche' = tranche + 1
<1> DEFINE timed(account, seconds) ==
               Charged(account, reading, seconds).elapsed = account.elapsed + seconds
<1>1. /\ timed(total, 0) /\ timed(total, Unpaused)
      /\ Charged(total, reading, 0).cycles = total.cycles
      /\ Charged(total, reading, Unpaused).cycles = total.cycles
  BY MeasuresAreNat DEF TypeOK, Usage, Charged
<1>2. total.elapsed \in Nat
  BY DEF TypeOK, Usage
<1>3. CASE Pause(reading)
  BY <1>1, <1>2, <1>3 DEF Pause
<1>4. CASE ChargeTokens(reading)
  BY <1>1, <1>2, <1>4 DEF ChargeTokens
<1>5. CASE NextTranche(reading)
  BY <1>1, <1>2, <1>5 DEF NextTranche
<1>6. QED
  BY <1>3, <1>4, <1>5 DEF Books

\* Time moves from the clock to the tranche, to the total, and nowhere else.
LEMMA BooksKeepTime ==
  ASSUME TypeOK, TimeInv, NEW reading \in Nat, Books(reading), MayStartLate' => MayStartLate
  PROVE  TimeInv'
<1>1. AccountsOK /\ AccountsOK'
  BY BooksTyped DEF TypeOK, AccountsOK
<1>2. /\ total.elapsed \in Nat /\ total.cycles \in Nat /\ tranche \in Nat \ {0}
      /\ clocked \in Nat /\ Interval \in Nat /\ Second \in Nat \ {0}
      /\ Roundings \in Int /\ Excess \in Int
  BY <1>1, TimesAreInt DEF TimesOK
<1>3. Roundings' \in Int /\ Excess' \in Int
  <2>1. AccountsOK' => TimesOK'
    BY TimesAreInt, PTL
  <2> QED BY <1>1, <2>1 DEF TimesOK
<1>4. total'.cycles = total.cycles /\ clocked' = clocked
  BY BooksTimed
<1>5. CASE Excess' = Excess /\ Roundings <= Roundings'
  BY <1>2, <1>3, <1>5, MoreRoom DEF TimeInv
<1>6. CASE total'.elapsed = total.elapsed /\ UNCHANGED <<running, tranche>>
  <2>1. Excess' = Excess
    BY <1>4, <1>6 DEF Excess, Interval
  <2>2. Roundings <= Roundings'
    BY <1>2, <1>4, <1>6 DEF Roundings
  <2> QED BY <1>5, <2>1, <2>2
<1>7. CASE /\ total'.elapsed = total.elapsed + Unpaused
           /\ \/ running' = None /\ tranche' = tranche
              \/ running' = 0 /\ tranche' = tranche + 1
  <2>1. Interval' = 0
    BY <1>7, NoneAssumption DEF Interval
  <2>2. CASE running = None
    <3>1. total'.elapsed = total.elapsed /\ Interval = 0
      BY <1>2, <1>7, <2>2 DEF Unpaused, Interval
    <3>2. Excess' = Excess
      BY <1>4, <2>1, <3>1 DEF Excess
    <3>3. Roundings <= Roundings'
      BY <1>2, <1>4, <1>7, <2>2, NoneAssumption DEF Roundings
    <3> QED BY <1>5, <3>2, <3>3
  <2>3. CASE running # None
    <3>1. total'.elapsed = total.elapsed + (Interval \div Second)
      BY <1>7, <2>3 DEF Unpaused, Interval
    <3>2. Roundings + 1 <= Roundings'
      BY <1>2, <1>4, <1>7, <2>3, NoneAssumption DEF Roundings
    <3>3. Second * total.elapsed \in Nat
      BY <1>2
    <3>4. /\ Second * total.elapsed + Interval <= clocked
          /\ clocked - (Second * total.elapsed + Interval) <= (Second - 1) * Roundings
      BY <1>2, <3>3 DEF TimeInv, Excess
    <3>5. /\ Second * (total.elapsed + (Interval \div Second)) <= clocked
          /\ clocked - Second * (total.elapsed + (Interval \div Second))
                 <= (Second - 1) * (Roundings + 1)
      BY <1>2, <3>4, OneMoreRounding
    <3>6. Second * (total.elapsed + (Interval \div Second)) \in Nat
      <4>1. Interval \div Second \in Nat
        BY <1>2, Rounding
      <4> QED BY <1>2, <4>1
    <3>7. Excess' = clocked - Second * (total.elapsed + (Interval \div Second))
      BY <1>2, <1>4, <2>1, <3>1, <3>6 DEF Excess
    <3>8. 0 <= Excess' /\ Excess' <= (Second - 1) * (Roundings + 1)
      BY <1>2, <3>5, <3>6, <3>7
    <3>9. Excess' <= (Second - 1) * Roundings'
      <4>1. Roundings + 1 \in Int
        BY <1>2
      <4> QED BY <1>2, <1>3, <3>2, <3>8, <4>1, MoreRoom, Zenon
    <3> QED BY <3>8, <3>9 DEF TimeInv
  <2> QED BY <2>2, <2>3
<1>8. QED
  BY <1>6, <1>7, BooksTimed

\* Every action keeps the books of time.
LEMMA TimeNext ==
  ASSUME TypeOK, ClockInv, TimeInv, [Next]_vars
  PROVE  TimeInv'
<1> USE DEF accounts, tokens
<1>1. LedgerMoves /\ AccountsOK /\ AccountsOK'
  BY MovesNext, LedgerTyped, TypeParts
<1>2. /\ total.elapsed \in Nat /\ total.cycles \in Nat /\ tranche \in Nat \ {0}
      /\ clocked \in Nat /\ Interval \in Nat /\ Second \in Nat \ {0}
      /\ Roundings \in Int /\ Excess \in Int
  BY <1>1, TimesAreInt DEF TimesOK
<1>3. Roundings' \in Int /\ Excess' \in Int
  <2>1. AccountsOK' => TimesOK'
    BY TimesAreInt, PTL
  <2> QED BY <1>1, <2>1 DEF TimesOK
<1>4. CASE Excess' = Excess /\ Roundings <= Roundings'
  BY <1>2, <1>3, <1>4, MoreRoom DEF TimeInv
<1>5. CASE Fresh
  <2>1. Excess' = 0
    BY <1>2, <1>5 DEF Fresh, Unused, Excess, Interval
  <2>2. 0 <= Roundings'
    BY <1>5 DEF Fresh, Unused, Roundings
  <2>3. Excess' <= (Second - 1) * 0
    BY <1>2, <2>1
  <2>4. Excess' <= (Second - 1) * Roundings'
    <3>1. 0 \in Int
      OBVIOUS
    <3> QED BY <1>2, <1>3, <2>2, <2>3, <3>1, MoreRoom, Zenon
  <2> QED BY <2>1, <2>4 DEF TimeInv
<1>6. CASE Late
  <2>1. MayStartLate /\ ~MayStartLate'
    BY <1>6 DEF Late, ClockInv, MayStartLate
  <2>2. Excess' = Excess
    BY <1>6, NoneAssumption DEF Late, StartClock, Excess, Interval
  <2>3. Roundings <= Roundings'
    BY <1>2, <1>6, <2>1 DEF Late, StartClock, Roundings
  <2> QED BY <1>4, <2>2, <2>3
<1>7. CASE MayStartLate' => MayStartLate
  <2>1. CASE UNCHANGED <<accounts, tokens>> \/ Token \/ Blow
    <3>1. Excess' = Excess
      BY <2>1 DEF Token, Blow, Excess, Interval
    <3>2. Roundings <= Roundings'
      BY <1>2, <1>7, <2>1 DEF Token, Blow, Roundings
    <3> QED BY <1>4, <3>1, <3>2
  <2>2. CASE Charge
    <3>1. PICK reading \in Nat : Books(reading)
      BY <2>2, MeasuresAreNat DEF Charge
    <3> QED BY <1>7, <3>1, BooksKeepTime
  <2>3. CASE PauseUnread
    BY <1>7, <2>3, BooksKeepTime DEF PauseUnread, Books
  <2>4. CASE Attempt
    <3>1. total'.elapsed = total.elapsed /\ total'.cycles = total.cycles + 1
      BY <2>4 DEF Attempt, TypeOK, Usage
    <3>2. Excess' = Excess
      BY <2>4, <3>1, NoneAssumption DEF Attempt, StartClock, Excess, Interval
    <3>3. Roundings <= Roundings'
      BY <1>2, <1>7, <2>4, <3>1, NoneAssumption DEF Attempt, StartClock, Roundings
    <3> QED BY <1>4, <3>2, <3>3
  <2>5. CASE Call
    <3>1. total'.elapsed = total.elapsed /\ total'.cycles = total.cycles
      BY <2>5 DEF Call, TypeOK, Usage
    <3>2. Excess' = Excess
      BY <2>5, <3>1 DEF Call, Excess, Interval
    <3>3. Roundings <= Roundings'
      BY <1>2, <1>7, <2>5, <3>1 DEF Call, Roundings
    <3> QED BY <1>4, <3>2, <3>3
  <2>6. CASE Moment
    <3>1. Interval' = Interval + 1 /\ clocked' = clocked + 1 /\ total' = total
      BY <2>6, NoneAssumption DEF Moment, TypeOK, Interval
    <3>2. Second * total.elapsed \in Nat
      BY <1>2
    <3>3. Excess' = Excess
      <4>1. Excess' = (clocked + 1) - (Second * total.elapsed + (Interval + 1))
        BY <3>1, Zenon DEF Excess
      <4> QED BY <1>2, <3>2, <4>1 DEF Excess
    <3>4. Roundings <= Roundings'
      BY <1>2, <1>7, <2>6, <3>1 DEF Moment, Roundings
    <3> QED BY <1>4, <3>3, <3>4
  <2> QED BY <1>1, <1>5, <1>6, <2>1, <2>2, <2>3, <2>4, <2>5, <2>6 DEF LedgerMoves
<1>8. QED
  BY <1>5, <1>7, LateNext

\* README.md:249: whatever is interrupted, renewed or restarted, time is charged once,
\* but for less than a second at each start of the clock.
THEOREM TimeSound == Spec => []TimeAccounted
<1>1. Init => ClockInv /\ TimeInv
  BY LimitsAssumption, NoneAssumption
     DEF Init, Unused, ClockInv, ClockStopsForTheUser, TimeInv, Excess, Interval, Roundings,
         MayStartLate
<1>2. TypeOK /\ ClockInv /\ TimeInv /\ [Next]_vars => ClockInv' /\ TimeInv'
  BY ClockNext, TimeNext
<1>3. TypeOK /\ TimeInv => TimeAccounted
  <2> SUFFICES ASSUME TypeOK, TimeInv PROVE TimeAccounted
    OBVIOUS
  <2>1. /\ total.elapsed \in Nat /\ total.cycles \in Nat /\ tranche \in Nat \ {0}
        /\ clocked \in Nat /\ Interval \in Nat /\ Second \in Nat \ {0}
        /\ Roundings \in Int /\ Excess \in Int
    BY TypeParts, TimesAreInt DEF TimesOK
  <2>2. total.cycles + tranche \in Int /\ Roundings <= total.cycles + tranche
    BY <2>1 DEF Roundings
  <2>3. 0 <= Excess /\ Excess <= (Second - 1) * (total.cycles + tranche)
    BY <2>1, <2>2, MoreRoom DEF TimeInv
  <2>4. Second * total.elapsed \in Nat
    BY <2>1
  <2>5. QED
    BY <2>1, <2>3, <2>4 DEF TimeAccounted, Excess, Interval
<1>4. QED
  BY <1>1, <1>2, <1>3, TypeCorrect, PTL DEF Spec

------------------------------------------------------------------------------
(* Reports.                                                                *)

\* A turn that runs is waited for, and its attempt is open until it is read.
TurnInv ==
    /\ busy => inFlight
    /\ inFlight => open
    /\ pc = "prompt" => open

\* Only the turn that is waited for has tokens which were not read.
ReadInv == struck = {} => lost = 0 /\ seen <= used /\ (seen # used => inFlight)

\* An interruption that ends a turn reads it.
LEMMA InterruptReads ==
  ASSUME TypeOK, TurnInv, ReadInv, inFlight, phase = "working", Interrupt
  PROVE  TurnInv' /\ ReadInv'
<1> USE DEF TurnInv, ReadInv, tokens, turn
<1>1. CASE UNCHANGED tokens /\ busy' = busy /\ inFlight' = inFlight /\ open' = open
           /\ pc' \in {pc, "deadline"}
  BY <1>1
<1>2. CASE /\ ~busy' /\ ~inFlight' /\ ~open' /\ pc' = "quota"
           /\ Remember(InterruptedReading)
  <2>1. InterruptedReading = Reading
    BY DEF InterruptedReading
  <2>2. seen <= used => seen + Reading = used
    BY DEF TypeOK, Reading
  <2>3. QED
    BY <1>2, <2>1, <2>2 DEF Remember
<1>3. QED
  BY <1>1, <1>2 DEF Interrupt

\* Whatever ends a tranche has read its session.
LEMMA ReadNext ==
  ASSUME TypeOK, ClockInv, TurnInv, ReadInv, [Next]_vars
  PROVE  TurnInv' /\ ReadInv'
<1> USE DEF TypeOK, ClockInv, TurnInv, ReadInv, accounts, tokens, turn, Reading,
        InterruptedReading, Remember, LeaveSession
<1>1. CASE Tick
  BY <1>1 DEF Tick
<1>2. CASE LeaseExpires
  BY <1>2 DEF LeaseExpires
<1>3. CASE WorkerReads
  BY <1>3 DEF WorkerReads
<1>4. CASE TurnEnds
  BY <1>4 DEF TurnEnds
<1>5. CASE Restart
  BY <1>5 DEF Restart
<1>6. CASE Boot
  BY <1>6 DEF Boot, ResumePhase
<1>7. CASE Submit
  BY <1>7 DEF Submit, StartClock, FinalChecks
<1>8. CASE Prompt
  BY <1>8 DEF Prompt
<1>9. CASE AtQuota
  BY <1>9 DEF AtQuota
<1>10. CASE Checks
  BY <1>10 DEF Checks, Archive
<1>11. CASE Deadline
  BY <1>11 DEF Deadline, FinalChecks
<1>12. CASE Resume
  BY <1>12 DEF Resume, ResumePhase, Idle
<1>13. CASE SessionError
  BY <1>13 DEF SessionError, Idle
<1>14. CASE WorkerReports
  BY <1>14 DEF WorkerReports, Idle
<1>15. CASE Recover
  BY <1>15 DEF Recover, Idle
<1>16. CASE ToolCall
  <2>1. CASE Interrupt
    BY <1>16, <2>1, InterruptReads DEF ToolCall
  <2>2. CASE UNCHANGED <<pc, tokens, turn>>
    BY <1>16, <2>2 DEF ToolCall
  <2>3. QED
    BY <1>16, <2>1, <2>2 DEF ToolCall
<1>17. CASE WatchQuota
  BY <1>17, InterruptReads DEF WatchQuota
<1>18. CASE DeadlineNoticed
  BY <1>18 DEF DeadlineNoticed, Idle
<1>19. CASE Begin
  BY <1>19 DEF Begin, Idle
<1>20. CASE Approve
  BY <1>20 DEF Approve, Idle
<1>21. CASE Continue
  BY <1>21 DEF Continue, Idle
<1>22. CASE SignOff
  BY <1>22 DEF SignOff, Archive, Idle
<1>23. CASE Revise
  BY <1>23 DEF Revise, Idle
<1>24. CASE Stop
  BY <1>24 DEF Stop, Archive, Idle
<1>25. CASE YoloOff
  BY <1>25 DEF YoloOff, Idle
<1>26. CASE UNCHANGED vars
  BY <1>26 DEF vars
<1>27. QED
  BY <1>1, <1>2, <1>3, <1>4, <1>5, <1>6, <1>7, <1>8, <1>9, <1>10, <1>11,
     <1>12, <1>13, <1>14, <1>15, <1>16, <1>17, <1>18, <1>19, <1>20, <1>21,
     <1>22, <1>23, <1>24, <1>25, <1>26
     DEF Next, Environment, Running, Events, User

\* README.md:244: a report has all that the workers of its pursuit used, unless a
\* session was replaced or a turn ended in an error.
THEOREM ReportSound == Spec => []ReportIsComplete
<1>1. Init => ClockInv /\ TurnInv /\ ReadInv
  BY DEF Init, ClockInv, ClockStopsForTheUser, TurnInv, ReadInv
<1>2. TypeOK /\ ClockInv /\ TurnInv /\ ReadInv /\ [Next]_vars
          => ClockInv' /\ TurnInv' /\ ReadInv'
  BY ClockNext, ReadNext
<1>3. TypeOK /\ ClockInv /\ ReadInv /\ TokensAccounted => ReportIsComplete
  <2> SUFFICES ASSUME TypeOK, ClockInv, ReadInv, TokensAccounted,
                      phase = "none", struck = {}
               PROVE  total.tokens = spent
    BY DEF ReportIsComplete
  <2>1. lost = 0 /\ seen = used
    BY DEF ClockInv, ReadInv
  <2>2. total.tokens \in Nat /\ used \in Nat /\ spent \in Nat
    BY DEF TypeOK, Usage
  <2>3. QED
    BY <2>1, <2>2 DEF TokensAccounted
<1>4. QED
  BY <1>1, <1>2, <1>3, TypeCorrect, TokensSound, PTL DEF Spec
=================================================================================
