------------------------------ MODULE Accounts ------------------------------
(***************************************************************************)
(* auth/auth.service.ts and admin-auth/admin-auth.service.ts: anonymous    *)
(* accounts, their registration, password login with its lockout, and the  *)
(* login of administrators.                                                *)
(*                                                                         *)
(* A login is two steps: argon2 runs between the read of the account and   *)
(* the write that follows, and any number of logins run at once.  Of a     *)
(* password all that matters is whether it is the right one.               *)
(***************************************************************************)
EXTENDS RefreshTokens

CONSTANTS
  Login,      \* login requests that can be in flight at once
  Email,      \* e-mail addresses
  MaxFailed,  \* LOGIN_MAX_FAILED
  MaxLapse    \* bound: how many locks of an account run out

ASSUME AccountAssumption ==
  /\ IsFiniteSet(Login)
  /\ MaxFailed \in Nat \ {0} /\ MaxLapse \in Nat
  /\ None \notin Email

VARIABLES
  account,  \* users
  login     \* the login requests between their two steps

(* locked stands for locked_until > now(); lapses counts the locks that    *)
(* ran out.                                                                *)
AccountRow == [st : {"none", "anonymous", "registered"}, email : Email \cup {None},
               fails : Nat, locked : BOOLEAN, lapses : Nat]
LoginRow == [pc : {"idle", "right", "wrong"}, who : User \cup {None}]

AccountType ==
  /\ account \in [User -> AccountRow]
  /\ login \in [Login -> LoginRow]

NoAccount == [st |-> "none", email |-> None,
              fails |-> 0, locked |-> FALSE, lapses |-> 0]
Ready == [pc |-> "idle", who |-> None]

AccountInit ==
  /\ account = [u \in User |-> NoAccount]
  /\ login = [r \in Login |-> Ready]

accountVars == <<account, login>>

-----------------------------------------------------------------------------
\* anon: user, device and first refresh token in one transaction.
Anon(u, n) ==
  /\ account[u].st = "none"
  /\ account' = [account EXCEPT ![u].st = "anonymous"]
  /\ SignIn(u, n)
  /\ UNCHANGED login

\* register: nothing is read before the hash; the transaction decides, and
\* the unique index on email.
Register(u, e) ==
  /\ account[u].st = "anonymous"
  /\ \A x \in User : account[x].email # e
  /\ account' = [account EXCEPT ![u].st = "registered", ![u].email = e]
  /\ UNCHANGED <<login, token>>

\* login up to the password check; an unknown email changes nothing.
LoginStart(r, u, pc) ==
  /\ login[r].pc = "idle" /\ pc \in {"right", "wrong"}
  /\ account[u].st = "registered" /\ ~account[u].locked
  /\ login' = [login EXCEPT ![r] = [pc |-> pc, who |-> u]]
  /\ UNCHANGED <<account, token>>

\* Mutant: the account is locked by the MAX_FAILED-th failure and by no later one.
LockOnce(u) ==
  [account EXCEPT ![u].fails = @ + 1,
                  ![u].locked = @ \/ account[u].fails + 1 = MaxFailed]

\* recordFailedLogin: the count is never reset by a lock that runs out.
CountFailure(u) ==
  [account EXCEPT ![u].fails = @ + 1,
                  ![u].locked = @ \/ account[u].fails + 1 >= MaxFailed]

LoginWrong(r) ==
  /\ login[r].pc = "wrong"
  /\ account' = CountFailure(login[r].who)
  /\ login' = [login EXCEPT ![r] = Ready]
  /\ UNCHANGED token

\* Mutant: the lock is not looked at again once the password is known to be right.
AnyState(u) == account[u].st = "registered"

\* select locked_until ... for update
StillOpen(u) == ~account[u].locked

\* The success transaction, which looks at the lock again.
LoginRight(r, n) ==
  /\ login[r].pc = "right" /\ StillOpen(login[r].who)
  /\ account' = [account EXCEPT ![login[r].who].fails = 0,
                                ![login[r].who].locked = FALSE]
  /\ SignIn(login[r].who, n)
  /\ login' = [login EXCEPT ![r] = Ready]

LoginRefused(r) ==
  /\ login[r].pc = "right" /\ account[login[r].who].locked
  /\ login' = [login EXCEPT ![r] = Ready]
  /\ UNCHANGED <<account, token>>

\* The lock of an account runs out.
LockLapse(u) ==
  /\ account[u].locked /\ account[u].lapses < MaxLapse
  /\ account' = [account EXCEPT ![u].locked = FALSE, ![u].lapses = @ + 1]
  /\ UNCHANGED <<login, token>>

(* The admin login has no lockout.  Role and ban are read before the       *)
(* password is checked and nothing is read after, so it is one step: any   *)
(* account may have been an administrator's when it was read.              *)
AdminLogin(u, n) ==
  /\ account[u].st = "registered"
  /\ SignIn(u, n)
  /\ UNCHANGED <<account, login>>

\* The steps that issue the first token n of a family, and the others.
Admit(n) ==
  \/ \E u \in User : Anon(u, n) \/ AdminLogin(u, n)
  \/ \E r \in Login : LoginRight(r, n)

AccountNext ==
  \/ \E u \in User, e \in Email : Register(u, e)
  \/ \E r \in Login, u \in User, pc \in {"right", "wrong"} : LoginStart(r, u, pc)
  \/ \E r \in Login : LoginWrong(r) \/ LoginRefused(r)
  \/ \E u \in User : LockLapse(u)

-----------------------------------------------------------------------------
(* However many wrong passwords are being checked at once, all of which    *)
(* may have read the account before any of them failed, an account sees    *)
(* MAX_FAILED - 1 of them plus one round of parallel ones, and one more    *)
(* round for each lock that ran out: the count survives the lock, so the   *)
(* first failure after it locks again.                                     *)
Guessing(u) == {r \in Login : login[r].pc = "wrong" /\ login[r].who = u}

GuessesBounded ==
  \A u \in User :
    account[u].fails + Cardinality(Guessing(u))
      <= (MaxFailed - 1) + Cardinality(Login) * (1 + account[u].lapses)

(* While an account is locked no password login gives it a token: not one  *)
(* that read the account before the lock either.  (The admin login has no  *)
(* lockout.)                                                               *)
LockHolds ==
  [][\A r \in Login :
       login[r].pc = "right" /\ account[login[r].who].locked /\ login'[r].pc = "idle"
       => token' = token]_<<token, account, login>>
=============================================================================
