------------------------------ MODULE Accounts -------------------------------
(***************************************************************************)
(* AuthService and the login half of SecurityService, for one account:     *)
(* registration, verification codes and their resending, login and its     *)
(* temporary lockout.  A client c runs one handler at a time; several do   *)
(* so concurrently.  Passwords and codes are right or wrong.               *)
(*                                                                         *)
(* The definitions commented "slip" are plausible mistakes in the code.    *)
(***************************************************************************)
EXTENDS Integers, Sequences, FiniteSets

CONSTANTS
  Clients,      \* who runs a handler: the tabs of a browser, and others
  MaxFailures,  \* failed_login_max of the security configuration
  MaxTries,     \* max_attempts of a verification code
  MaxEvents,    \* bound: LOGIN_FAILED events in the window
  MaxCodes      \* bound: verification codes

ASSUME AccountsAssumption ==
  /\ MaxFailures \in Nat \ {0} /\ MaxTries \in Nat \ {0}
  /\ MaxEvents \in Nat /\ MaxCodes \in Nat
  /\ IsFiniteSet(Clients)

VARIABLES
  account,  \* users.account_status, none before the registration
  codes,    \* the email_verifications rows in order of creation
  cooled,   \* the resend cooldown since the newest code is over
  events,   \* the LOGIN_FAILED events in the window, oldest first: a password
            \* was `tested`, or the attempt was `refused` without a test
  handler   \* the handler each client is in

accountVars == <<account, codes, cooled, events, handler>>

NotIn == [pc |-> "idle", code |-> 0, right |-> FALSE]
Statuses == {"none", "PENDING_VERIFICATION", "ACTIVE", "SUSPENDED"}
MayLogIn == {"ACTIVE", "PENDING_VERIFICATION"}

(* The type invariant; a handler judges a code that exists.                 *)
AccountsTypeOK ==
  /\ account \in Statuses
  /\ Len(codes) <= MaxCodes /\ Len(events) <= MaxEvents
  /\ \A c \in Clients :
       /\ handler[c].pc \in {"idle", "lock", "compare", "firstCode", "judge", "resend", "issue"}
       /\ handler[c].pc = "judge" => handler[c].code \in DOMAIN codes
  /\ account = "none" => codes = <<>>

(* Nobody yet, or a seeded account, which is ACTIVE without any code.       *)
AccountsInit ==
  /\ account \in {"none", "ACTIVE"}
  /\ codes = <<>>
  /\ cooled = FALSE
  /\ events = <<>>
  /\ handler = [c \in Clients |-> NotIn]

In(c, pc) == handler' = [handler EXCEPT ![c].pc = pc]
Out(c) == handler' = [handler EXCEPT ![c] = NotIn]

-------------------------------------------------------------------------------
(* register: the user, the wallet and its funding in one transaction; then  *)
(* a code; then the session ("issue").  A server that dies in between       *)
(* leaves an account its owner can log in to, and ask for a code.           *)
Register(c) ==
  /\ handler[c].pc = "idle"
  /\ account = "none"
  /\ account' = "PENDING_VERIFICATION"
  /\ In(c, "firstCode")
  /\ UNCHANGED <<codes, cooled, events>>

(* issueVerificationCode *)
NewCode ==
  /\ Len(codes) < MaxCodes
  /\ codes' = Append(codes, [tries |-> 0, consumed |-> FALSE, expired |-> FALSE])
  /\ cooled' = FALSE

FirstCode(c) ==
  /\ handler[c].pc = "firstCode"
  /\ NewCode
  /\ In(c, "issue")
  /\ UNCHANGED <<account, events>>

(* resendVerification reads the age of the newest code, then issues one.    *)
AskResend(c) ==
  /\ handler[c].pc = "idle"
  /\ account = "PENDING_VERIFICATION"
  /\ codes = <<>> \/ cooled
  /\ In(c, "resend")
  /\ UNCHANGED <<account, codes, cooled, events>>

Resend(c) ==
  /\ handler[c].pc = "resend"
  /\ NewCode
  /\ Out(c)
  /\ UNCHANGED <<account, events>>

(* verifyEmail reads the newest code, which must not be used, expired or    *)
(* tried too often.                                                         *)
TriedTooOften(row) == row.tries >= MaxTries

BeginVerify(c, right) ==
  LET newest == codes[Len(codes)] IN
  /\ handler[c].pc = "idle"
  /\ account \in MayLogIn
  /\ codes # <<>>
  /\ ~newest.consumed /\ ~newest.expired /\ ~TriedTooOften(newest)
  /\ handler' = [handler EXCEPT ![c] = [pc |-> "judge", code |-> Len(codes), right |-> right]]
  /\ UNCHANGED <<account, codes, cooled, events>>

(* A wrong code is counted by a statement of its own; a right one activates *)
(* the account in one transaction, if it still waits for that.              *)
ActiveAnyway == "ACTIVE"  \* slip: the status is not asked for
Activated == IF account = "PENDING_VERIFICATION" THEN "ACTIVE" ELSE account

Judge(c) ==
  LET i == handler[c].code IN
  /\ handler[c].pc = "judge"
  /\ \/ /\ handler[c].right
        /\ codes' = [codes EXCEPT ![i].consumed = TRUE]
        /\ account' = Activated
     \/ /\ ~handler[c].right
        /\ codes' = [codes EXCEPT ![i].tries = @ + 1]
        /\ UNCHANGED account
  /\ Out(c)
  /\ UNCHANGED <<cooled, events>>

-------------------------------------------------------------------------------
(* login reads the user, then the events, then compares the password and    *)
(* records the outcome.  A refused attempt is recorded as a failure too, so *)
(* it prolongs the lock.                                                    *)
Failed(c, how) ==
  /\ Len(events) < MaxEvents
  /\ events' = Append(events, how)
  /\ Out(c)

BeginLogin(c, right) ==
  /\ handler[c].pc = "idle"
  /\ account # "none"
  /\ \/ /\ account \in MayLogIn
        /\ handler' = [handler EXCEPT ![c] = [NotIn EXCEPT !.pc = "lock", !.right = right]]
        /\ UNCHANGED events
     \/ /\ account \notin MayLogIn
        /\ Failed(c, "refused")
  /\ UNCHANGED <<account, codes, cooled>>

NeverLocked == FALSE  \* slip: the lock is not looked at
Locked == Len(events) >= MaxFailures

ReadLock(c) ==
  /\ handler[c].pc = "lock"
  /\ \/ Locked /\ Failed(c, "refused")
     \/ ~Locked /\ In(c, "compare") /\ UNCHANGED events
  /\ UNCHANGED <<account, codes, cooled>>

Compare(c) ==
  /\ handler[c].pc = "compare"
  /\ \/ handler[c].right /\ In(c, "issue") /\ UNCHANGED events
     \/ ~handler[c].right /\ Failed(c, "tested")
  /\ UNCHANGED <<account, codes, cooled>>

-------------------------------------------------------------------------------
(* Time, and an operator who suspends the account in the database.          *)
Forget ==
  /\ events # <<>>
  /\ events' = Tail(events)
  /\ UNCHANGED <<account, codes, cooled, handler>>

CoolDown ==
  /\ ~cooled /\ codes # <<>>
  /\ cooled' = TRUE
  /\ UNCHANGED <<account, codes, events, handler>>

ExpireCode ==
  /\ \E i \in DOMAIN codes : ~codes[i].expired /\ codes' = [codes EXCEPT ![i].expired = TRUE]
  /\ UNCHANGED <<account, cooled, events, handler>>

Suspend ==
  /\ account \in MayLogIn
  /\ account' = "SUSPENDED"
  /\ UNCHANGED <<codes, cooled, events, handler>>

(* The server dies in a handler.                                            *)
Abort(c) ==
  /\ handler[c].pc # "idle"
  /\ Out(c)
  /\ UNCHANGED <<account, codes, cooled, events>>

Handle(c) ==
  FirstCode(c) \/ Resend(c) \/ Judge(c) \/ ReadLock(c) \/ Compare(c)

-------------------------------------------------------------------------------
(* Safety *)

(* Guessing is bounded, although the limits are read in one statement and   *)
(* counted in another: in no window are more wrong passwords tested, and of *)
(* no code more wrong guesses judged, than the limit and one more for every *)
(* further client that was let in at the same time.                         *)
GuessingIsBounded ==
  LET together == Cardinality(Clients) - 1
      tested == {i \in DOMAIN events : events[i] = "tested"} IN
  /\ Cardinality(tested) <= MaxFailures + together
  /\ \A i \in DOMAIN codes : codes[i].tries <= MaxTries + together

(* Action properties *)

(* An account that was suspended while its owner was entering a right code  *)
(* stays suspended.                                                         *)
SuspensionStands == [][account = "SUSPENDED" => account' = "SUSPENDED"]_accountVars
===============================================================================
