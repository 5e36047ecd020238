----------------------------- MODULE SignInProofs -----------------------------
(***************************************************************************)
(* For any number of users, tokens, logins and requests of the client:     *)
(* sign-in implements the token component, the lockout bounds the guesses  *)
(* and holds, and a client that alone owns its token never holds or        *)
(* presents a retired one.                                                 *)
(***************************************************************************)
EXTENDS SignInFlow, RefreshTokensProofs, FiniteSetTheorems

(* A login between its two steps is of some user.                          *)
LoginsNamed == \A r \in Login : login[r].pc # "idle" => login[r].who \in User

SInv == IInv /\ AccountType /\ ClientType /\ LoginsNamed

-----------------------------------------------------------------------------
(* Types, and what each step does to refresh_tokens.                       *)

(* An account counts a failure, or is cleared by a login that succeeded.   *)
LEMMA AccountMarked ==
  ASSUME account \in [User -> AccountRow], NEW u \in User, NEW n \in Nat, NEW lock \in BOOLEAN
  PROVE  [account EXCEPT ![u].fails = n, ![u].locked = lock] \in [User -> AccountRow]
<1> DEFINE row == [account[u] EXCEPT !.fails = n, !.locked = lock]
<1>1. row \in AccountRow
  <2>1. account[u] \in AccountRow
    OBVIOUS
  <2> QED
    BY <2>1 DEF AccountRow
<1>2. [account EXCEPT ![u].fails = n, ![u].locked = lock] = [account EXCEPT ![u] = row]
  OBVIOUS
<1> HIDE DEF row
<1> QED
  BY <1>1, <1>2

LEMMA AdmitType ==
  ASSUME SInv, AdmitStep
  PROVE  Next /\ AccountType' /\ ClientType' /\ LoginsNamed'
<1> USE DEF SInv
<1>1. PICK n \in Token : Admit(n) /\ (Receive(n) \/ UNCHANGED client) /\ UNCHANGED ask
  BY DEF AdmitStep
<1>2. ASSUME NEW u \in User, Anon(u, n)
      PROVE  Next /\ AccountType' /\ LoginsNamed'
  <2>1. Next
    BY <1>2 DEF Anon, Next
  <2> QED
    BY <1>2, <2>1 DEF Anon, AccountType, AccountRow, LoginsNamed
<1>3. ASSUME NEW u \in User, AdminLogin(u, n)
      PROVE  Next /\ AccountType' /\ LoginsNamed'
  <2>1. Next
    BY <1>3 DEF AdminLogin, Next
  <2> QED
    BY <1>3, <2>1 DEF AdminLogin, AccountType, LoginsNamed
<1>4. ASSUME NEW r \in Login, LoginRight(r, n)
      PROVE  Next /\ AccountType' /\ LoginsNamed'
  <2>1. login[r].who \in User
    BY <1>4 DEF LoginRight, LoginsNamed
  <2>2. Next
    BY <1>4, <2>1 DEF LoginRight, Next
  <2>3. AccountType'
    <3>1. account' \in [User -> AccountRow]
      BY <1>4, <2>1, AccountMarked DEF LoginRight, AccountType
    <3>2. login' \in [Login -> LoginRow]
      BY <1>4 DEF LoginRight, AccountType, LoginRow, Ready
    <3> QED
      BY <3>1, <3>2 DEF AccountType
  <2>4. LoginsNamed'
    BY <1>4 DEF LoginRight, LoginsNamed, AccountType, Ready
  <2> QED
    BY <2>2, <2>3, <2>4
<1>5. Next /\ AccountType' /\ LoginsNamed'
  BY <1>1, <1>2, <1>3, <1>4 DEF Admit
<1>6. ClientType'
  <2>1. client \in ClientRow /\ UNCHANGED ask
    BY <1>1 DEF ClientType
  <2>2. CASE Receive(n)
    <3>1. [client EXCEPT !.ref = n, !.families = @ \cup {n}] \in ClientRow
      BY <2>1 DEF ClientRow
    <3> QED
      BY <2>1, <2>2, <3>1 DEF Receive, ClientType
  <2> QED
    BY <1>1, <2>1, <2>2 DEF ClientType
<1> QED
  BY <1>5, <1>6

LEMMA AccountStepType ==
  ASSUME SInv, AccountStep
  PROVE  UNCHANGED <<token, clientVars>> /\ AccountType' /\ LoginsNamed'
<1> USE DEF SInv
<1>1. UNCHANGED <<client, ask>>
  BY DEF AccountStep, clientVars
<1>2. ASSUME NEW u \in User, NEW e \in Email, Register(u, e)
      PROVE  token' = token /\ AccountType' /\ LoginsNamed'
  BY <1>2 DEF Register, AccountType, AccountRow, LoginsNamed
<1>3. ASSUME NEW r \in Login, NEW u \in User, NEW pc \in {"right", "wrong"}, LoginStart(r, u, pc)
      PROVE  token' = token /\ AccountType' /\ LoginsNamed'
  BY <1>3 DEF LoginStart, AccountType, LoginRow, LoginsNamed
<1>4. ASSUME NEW r \in Login, LoginWrong(r)
      PROVE  token' = token /\ AccountType' /\ LoginsNamed'
  <2>1. login[r].who \in User
    BY <1>4 DEF LoginWrong, LoginsNamed
  <2> DEFINE lock == account[login[r].who].locked \/ account[login[r].who].fails + 1 >= MaxFailed
  <2>3. lock \in BOOLEAN
    OBVIOUS
  <2> DEFINE n == account[login[r].who].fails + 1
  <2>2. n \in Nat
    BY <2>1 DEF AccountType, AccountRow
  <2>4. account' = [account EXCEPT ![login[r].who].fails = n, ![login[r].who].locked = lock]
    BY <1>4 DEF LoginWrong, CountFailure
  <2> HIDE DEF lock, n
  <2>5. AccountType'
    <3>1. account' \in [User -> AccountRow]
      BY <2>1, <2>2, <2>3, <2>4, AccountMarked DEF AccountType
    <3>2. login' \in [Login -> LoginRow]
      BY <1>4 DEF LoginWrong, AccountType, LoginRow, Ready
    <3> QED
      BY <3>1, <3>2 DEF AccountType
  <2> QED
    BY <1>4, <2>5 DEF LoginWrong, LoginsNamed, AccountType, Ready
<1>5. ASSUME NEW r \in Login, LoginRefused(r)
      PROVE  token' = token /\ AccountType' /\ LoginsNamed'
  BY <1>5 DEF LoginRefused, AccountType, LoginRow, LoginsNamed, Ready
<1>6. ASSUME NEW u \in User, LockLapse(u)
      PROVE  token' = token /\ AccountType' /\ LoginsNamed'
  BY <1>6 DEF LockLapse, AccountType, AccountRow, LoginsNamed
<1> QED
  BY <1>1, <1>2, <1>3, <1>4, <1>5, <1>6 DEF AccountStep, AccountNext, clientVars

(* What keeps the type of the client: a row for one request and a store.   *)
LEMMA AskType ==
  ASSUME ClientType, NEW a \in Ask, NEW row \in AskRow,
         row.pc = "refresh" => row.tok # None,
         ask' = [ask EXCEPT ![a] = row], client' \in ClientRow
  PROVE  ClientType'
BY DEF ClientType

LEMMA StoreType ==
  ASSUME ClientType, Forget \/ UNCHANGED client
  PROVE  client' \in ClientRow
BY DEF ClientType, ClientRow, Forget

LEMMA ClientStepType ==
  ASSUME SInv, ClientStep
  PROVE  [Next]_token /\ UNCHANGED accountVars /\ ClientType'
<1> USE DEF SInv
<1>1. UNCHANGED accountVars
  BY DEF ClientStep
<1>2. ASSUME NEW a \in Ask, Send(a) \/ JoinRefresh(a) \/ Resend(a)
      PROVE  token' = token /\ ClientType'
  BY <1>2, StoreType DEF Send, JoinRefresh, Resend, ClientType, AskRow
<1>3. ASSUME NEW a \in Ask,
             Served(a) \/ GiveUpApp(a) \/ Forbidden(a) \/ GiveUpWeb(a) \/ ReplayApp(a)
      PROVE  token' = token /\ ClientType'
  <2>1. token' = token /\ (Forget \/ UNCHANGED client) /\ ask' = [ask EXCEPT ![a] = NoAsk]
    BY <1>3 DEF Served, GiveUpApp, Forbidden, GiveUpWeb, ReplayApp, Finish
  <2>2. NoAsk \in AskRow /\ NoAsk.pc # "refresh"
    BY DEF NoAsk, AskRow
  <2> QED
    BY <2>1, <2>2, StoreType, AskType
<1>4. ASSUME NEW a \in Ask, StartRefresh(a)
      PROVE  token' = token /\ ClientType'
  <2> DEFINE row == [pc |-> "refresh", tok |-> client.ref, retried |-> TRUE]
  <2>1. token' = token /\ UNCHANGED client /\ ask' = [ask EXCEPT ![a] = row] /\ client.ref # None
    BY <1>4 DEF StartRefresh
  <2>2. row \in AskRow
    BY DEF AskRow, ClientType, ClientRow
  <2> QED
    BY <2>1, <2>2, StoreType, AskType
<1>5. ASSUME NEW a \in Ask, RefreshDenied(a)
      PROVE  Next /\ ClientType'
  <2>1. ask[a].tok \in Token
    BY <1>5 DEF RefreshDenied, ClientType, AskRow
  <2>2. Next
    BY <1>5, <2>1 DEF RefreshDenied, Next
  <2> QED
    BY <1>5, <2>2 DEF RefreshDenied, ClientType, AskRow
<1>6. ASSUME NEW a \in Ask, RefreshLost(a)
      PROVE  token' = token /\ ClientType'
  BY <1>6 DEF RefreshLost, ClientType, AskRow
<1>7. ASSUME NEW a \in Ask, StoreNew(a)
      PROVE  token' = token /\ ClientType'
  <2>1. client' \in ClientRow
    BY <1>7 DEF StoreNew, ClientType, ClientRow, AskRow
  <2>2. \A b \in Ask : ask'[b] = ask[b] \/ ask'[b] = [pc |-> "replay", tok |-> None, retried |-> TRUE]
    BY <1>7 DEF StoreNew
  <2>3. ask' \in [Ask -> AskRow]
    BY <1>7 DEF StoreNew, ClientType, AskRow
  <2> QED
    BY <1>7, <2>1, <2>2, <2>3 DEF StoreNew, ClientType
<1>8. ASSUME NEW a \in Ask, RefreshFailed(a)
      PROVE  token' = token /\ ClientType'
  <2>1. client' \in ClientRow
    BY <1>8 DEF RefreshFailed, ForgetFailed, Forget, ClientType, ClientRow
  <2>2. \A b \in Ask : ask'[b] = ask[b] \/ ask'[b] = NoAsk
    BY <1>8 DEF RefreshFailed
  <2>3. ask' \in [Ask -> AskRow]
    BY <1>8 DEF RefreshFailed, ClientType, AskRow, NoAsk
  <2> QED
    BY <1>8, <2>1, <2>2, <2>3 DEF RefreshFailed, ClientType, NoAsk
<1>9. ASSUME NEW a \in Ask, Die(a)
      PROVE  token' = token /\ ClientType'
  <2>1. client' \in ClientRow
    BY <1>9 DEF Die, ClientType, ClientRow
  <2>2. \A b \in Ask : ask'[b] = ask[b] \/ ask'[b] = NoAsk
    BY <1>9 DEF Die
  <2>3. ask' \in [Ask -> AskRow]
    BY <1>9 DEF Die, ClientType, AskRow, NoAsk
  <2> QED
    BY <1>9, <2>1, <2>2, <2>3 DEF Die, ClientType, NoAsk
<1>10. ASSUME NEW a \in Ask, NEW n \in Token, RefreshHandled(a, n)
       PROVE  Next /\ ClientType'
  <2>1. ask[a].tok \in Token
    BY <1>10 DEF RefreshHandled, ClientType, AskRow
  <2>2. Next
    BY <1>10, <2>1 DEF RefreshHandled, Next
  <2> QED
    BY <1>10, <2>2 DEF RefreshHandled, ClientType, AskRow
<1>11. ASSUME SignOut PROVE token' = token /\ ClientType'
  BY <1>11 DEF SignOut, Forget, ClientType, ClientRow
<1> QED
  BY <1>1, <1>2, <1>3, <1>4, <1>5, <1>6, <1>7, <1>8, <1>9, <1>10, <1>11
     DEF ClientStep, ClientNext

(* Whatever the sign-in flow does is, for refresh_tokens, a step of the    *)
(* token component or none.                                                *)
LEMMA SignInStep == SInv /\ [SignInNext]_vars => SInv' /\ [Next]_token
<1> SUFFICES ASSUME SInv, [SignInNext]_vars
             PROVE  [Next]_token /\ AccountType' /\ ClientType' /\ LoginsNamed'
  BY NextInv, TokenAssumption DEF SInv
<1>1. CASE AdmitStep
  BY <1>1, AdmitType
<1>2. CASE AccountStep
  BY <1>2, AccountStepType DEF clientVars, ClientType, SInv
<1>3. CASE ClientStep
  BY <1>3, ClientStepType DEF accountVars, AccountType, LoginsNamed, SInv
<1>4. CASE LapseStep
  BY <1>4 DEF LapseStep, Next, accountVars, clientVars, AccountType, ClientType, LoginsNamed, SInv
<1>5. CASE OthersStep
  <2>1. Others \subseteq Token
    BY DEF Others
  <2> QED
    BY <1>5, <2>1 DEF OthersStep, Next, accountVars, clientVars, AccountType, ClientType, LoginsNamed, SInv
<1>6. CASE UNCHANGED vars
  BY <1>6 DEF vars, accountVars, clientVars, AccountType, ClientType, LoginsNamed, SInv
<1> QED
  BY <1>1, <1>2, <1>3, <1>4, <1>5, <1>6 DEF SignInNext

LEMMA SignInInitInv == SignInInit => SInv
<1> SUFFICES ASSUME SignInInit PROVE SInv
  OBVIOUS
<1>1. IInv
  BY InitInv DEF SignInInit
<1>2. AccountType /\ LoginsNamed
  BY DEF SignInInit, AccountInit, AccountType, AccountRow, LoginRow, NoAccount, Ready, LoginsNamed
<1>3. ClientType
  BY DEF SignInInit, ClientInit, ClientType, ClientRow, AskRow, NoAsk
<1> QED
  BY <1>1, <1>2, <1>3 DEF SInv

LEMMA SignInInvariant == SignInSpec => []SInv
<1> QED
  BY SignInInitInv, SignInStep, PTL DEF SignInSpec

(* Every variable of the sign-in flow keeps its type.                      *)
THEOREM SignInTyped == SignInSpec => []SignInTypeOK
<1>1. SInv => SignInTypeOK
  BY DEF SInv, IInv, SignInTypeOK
<1> QED
  BY <1>1, SignInInvariant, PTL

(* Every step of the sign-in flow that writes refresh_tokens is one of     *)
(* RefreshTokens, so what is proved of that module holds of this one.      *)
LEMMA SignInKeepsTokens == SignInSpec => Spec
<1>1. SignInInit => Init
  BY DEF SignInInit
<1> QED
  BY <1>1, SignInInvariant, SignInStep, PTL DEF SignInSpec, Spec

-----------------------------------------------------------------------------
(* The lockout.  What makes the bound inductive: an account that is open   *)
(* has not used up the failures its lapsed locks allow, so the logins that *)
(* may still read it as open are one round more at most.                   *)
Allowed(l) == (MaxFailed - 1) + Cardinality(Login) * l

LockoutInv ==
  \A u \in User :
    /\ account[u].fails + Cardinality(Guessing(u))
         <= Allowed(account[u].lapses) + Cardinality(Login)
    /\ ~account[u].locked => account[u].fails <= Allowed(account[u].lapses)

LEMMA AllowedGrows ==
  ASSUME NEW l \in Nat
  PROVE  /\ Allowed(l) \in Nat /\ Cardinality(Login) \in Nat
         /\ MaxFailed - 1 <= Allowed(l)
         /\ Allowed(l + 1) = Allowed(l) + Cardinality(Login)
         /\ (MaxFailed - 1) + Cardinality(Login) * (1 + l) = Allowed(l) + Cardinality(Login)
<1> DEFINE c == Cardinality(Login)
<1>1. c \in Nat
  BY FS_CardinalityType, AccountAssumption
<1>2. MaxFailed \in Nat \ {0}
  BY AccountAssumption
<1> HIDE DEF c
<1>3. c * l \in Nat /\ c * (l + 1) = c * l + c /\ c * (1 + l) = c * l + c
  BY <1>1
<1> QED
  BY <1>1, <1>2, <1>3 DEF Allowed, c

LEMMA GuessingFinite ==
  ASSUME NEW u \in User
  PROVE  /\ IsFiniteSet(Guessing(u)) /\ Cardinality(Guessing(u)) \in Nat
         /\ Cardinality(Guessing(u)) <= Cardinality(Login)
         /\ IsFiniteSet(Guessing(u)') /\ Cardinality(Guessing(u)') \in Nat
         /\ Cardinality(Guessing(u)') <= Cardinality(Login)
<1>1. Guessing(u) \subseteq Login /\ Guessing(u)' \subseteq Login
  BY DEF Guessing
<1> HIDE DEF Guessing
<1> QED
  BY <1>1, FS_Subset, FS_CardinalityType, AccountAssumption

(* What a step may do to the account of u and to the guesses at it.        *)
Unmoved(u) ==
  /\ Guessing(u)' = Guessing(u)
  /\ account'[u].fails <= account[u].fails /\ account'[u].lapses = account[u].lapses
  /\ account'[u].locked = account[u].locked \/ account'[u].fails = 0

Guessed(u) ==
  account'[u] = account[u] /\ ~account[u].locked

Failed(u) ==
  /\ Cardinality(Guessing(u)') + 1 = Cardinality(Guessing(u))
  /\ account'[u].fails = account[u].fails + 1 /\ account'[u].lapses = account[u].lapses
  /\ ~account'[u].locked => account'[u].fails < MaxFailed

Reopened(u) ==
  /\ Guessing(u)' = Guessing(u)
  /\ account'[u].fails = account[u].fails /\ account'[u].lapses = account[u].lapses + 1

LEMMA LockoutKept ==
  ASSUME SInv, SInv', LockoutInv,
         \A u \in User : Unmoved(u) \/ Guessed(u) \/ Failed(u) \/ Reopened(u)
  PROVE  LockoutInv'
<1> SUFFICES ASSUME NEW u \in User
             PROVE  /\ account'[u].fails + Cardinality(Guessing(u)')
                         <= Allowed(account'[u].lapses) + Cardinality(Login)
                    /\ ~account'[u].locked => account'[u].fails <= Allowed(account'[u].lapses)
  BY DEF LockoutInv, Allowed
<1> DEFINE g == Cardinality(Guessing(u))
           h == Cardinality(Guessing(u)')
           c == Cardinality(Login)
           old == Allowed(account[u].lapses)
           new == Allowed(account'[u].lapses)
<1>1. /\ account[u].fails \in Nat /\ account[u].lapses \in Nat
      /\ account'[u].fails \in Nat /\ account'[u].lapses \in Nat
  BY DEF SInv, AccountType, AccountRow
<1>2. g \in Nat /\ h \in Nat /\ c \in Nat /\ g <= c /\ h <= c
  BY GuessingFinite, AllowedGrows
<1>3. /\ old \in Nat /\ new \in Nat /\ MaxFailed - 1 <= new /\ MaxFailed \in Nat
      /\ account'[u].lapses = account[u].lapses + 1 => new = old + c
  BY <1>1, AllowedGrows, AccountAssumption
<1>4. account[u].fails + g <= old + c /\ (~account[u].locked => account[u].fails <= old)
  BY DEF LockoutInv
<1>5. account'[u].lapses = account[u].lapses => new = old
  OBVIOUS
<1>6. Guessing(u)' = Guessing(u) => h = g
  OBVIOUS
<1> DEFINE open == ~account[u].locked
           stays == ~account'[u].locked
           f == account[u].fails
           k == account'[u].fails
<1>7. \/ h = g /\ k <= f /\ new = old /\ (stays => open \/ k = 0)
      \/ k = f /\ new = old /\ open
      \/ h + 1 = g /\ k = f + 1 /\ new = old /\ (stays => k < MaxFailed)
      \/ h = g /\ k = f /\ new = old + c
  <2>1. CASE Unmoved(u)
    BY <1>5, <1>6, <2>1 DEF Unmoved
  <2>2. CASE Guessed(u)
    BY <1>5, <2>2 DEF Guessed
  <2>3. CASE Failed(u)
    BY <1>5, <2>3 DEF Failed
  <2>4. CASE Reopened(u)
    BY <1>3, <1>6, <2>4 DEF Reopened
  <2> QED
    BY <2>1, <2>2, <2>3, <2>4
<1>8. f + g <= old + c /\ (open => f <= old)
  BY <1>4
<1>9. f \in Nat /\ k \in Nat
  BY <1>1
<1> HIDE DEF g, h, c, old, new, open, stays, f, k
<1>10. k + h <= new + c /\ (stays => k <= new)
  BY <1>2, <1>3, <1>7, <1>8, <1>9
<1> QED
  BY <1>10 DEF h, c, new, stays, k

(* Which of these each step is.                                            *)
LEMMA RestUnmoved ==
  ASSUME SInv, UNCHANGED accountVars, NEW u \in User
  PROVE  Unmoved(u)
<1>1. account' = account /\ login' = login
  BY DEF accountVars
<1>2. account[u].fails \in Nat
  BY DEF SInv, AccountType, AccountRow
<1> QED
  BY <1>1, <1>2 DEF Unmoved, Guessing

LEMMA AdmitUnmoved ==
  ASSUME SInv, AdmitStep, NEW u \in User
  PROVE  Unmoved(u)
<1> USE DEF SInv
<1>1. PICK n \in Token : Admit(n)
  BY DEF AdmitStep
<1>2. account[u].fails \in Nat
  BY DEF AccountType, AccountRow
<1>3. ASSUME NEW x \in User, Anon(x, n) PROVE Unmoved(u)
  <2>1. /\ account'[u].fails = account[u].fails /\ account'[u].lapses = account[u].lapses
        /\ account'[u].locked = account[u].locked
    BY <1>3 DEF Anon, AccountType, AccountRow
  <2>2. Guessing(u)' = Guessing(u)
    BY <1>3 DEF Anon, Guessing
  <2> QED
    BY <1>2, <2>1, <2>2 DEF Unmoved
<1>4. ASSUME NEW x \in User, AdminLogin(x, n) PROVE Unmoved(u)
  BY <1>4, RestUnmoved DEF AdminLogin, accountVars
<1>5. ASSUME NEW r \in Login, LoginRight(r, n) PROVE Unmoved(u)
  <2>1. /\ account'[u].lapses = account[u].lapses
        /\ \/ account'[u].fails = account[u].fails /\ account'[u].locked = account[u].locked
           \/ account'[u].fails = 0
    BY <1>5 DEF LoginRight, AccountType, AccountRow
  <2>2. \A x \in Login : IF x = r THEN login'[x] = Ready /\ login[x].pc = "right"
                                  ELSE login'[x] = login[x]
    BY <1>5 DEF LoginRight, AccountType
  <2>3. Guessing(u)' = Guessing(u)
    BY <2>2 DEF Guessing, Ready
  <2> QED
    BY <1>2, <2>1, <2>3 DEF Unmoved
<1> QED
  BY <1>1, <1>3, <1>4, <1>5 DEF Admit

LEMMA AccountMoves ==
  ASSUME SInv, AccountStep, NEW u \in User
  PROVE  Unmoved(u) \/ Guessed(u) \/ Failed(u) \/ Reopened(u)
<1> USE DEF SInv
<1>1. account[u].fails \in Nat
  BY DEF AccountType, AccountRow
<1>2. ASSUME NEW x \in User, NEW e \in Email, Register(x, e) PROVE Unmoved(u)
  <2>1. /\ account'[u].fails = account[u].fails /\ account'[u].lapses = account[u].lapses
        /\ account'[u].locked = account[u].locked
    BY <1>2 DEF Register, AccountType, AccountRow
  <2>2. Guessing(u)' = Guessing(u)
    BY <1>2 DEF Register, Guessing
  <2> QED
    BY <1>1, <2>1, <2>2 DEF Unmoved
<1>3. ASSUME NEW r \in Login, NEW x \in User, NEW pc \in {"right", "wrong"}, LoginStart(r, x, pc)
      PROVE  Unmoved(u) \/ Guessed(u)
  <2>1. account' = account /\ ~account[x].locked
    BY <1>3 DEF LoginStart
  <2>2. u # x => Guessing(u)' = Guessing(u)
    <3>1. \A y \in Login : IF y = r THEN login'[y].who = x /\ login[y].pc = "idle"
                                    ELSE login'[y] = login[y]
      BY <1>3 DEF LoginStart, AccountType
    <3> QED
      BY <3>1 DEF Guessing
  <2> QED
    BY <1>1, <2>1, <2>2 DEF Unmoved, Guessed
<1>4. ASSUME NEW r \in Login, LoginWrong(r) PROVE Unmoved(u) \/ Failed(u)
  <2>1. \A y \in Login : IF y = r THEN login'[y].pc = "idle" /\ login[y].pc = "wrong"
                                  ELSE login'[y] = login[y]
    BY <1>4 DEF LoginWrong, AccountType, Ready
  <2>2. CASE login[r].who = u
    <3>1. Guessing(u)' = Guessing(u) \ {r} /\ r \in Guessing(u)
      BY <2>1, <2>2 DEF Guessing
    <3>2. Cardinality(Guessing(u)') = Cardinality(Guessing(u)) - 1
      BY <3>1, GuessingFinite, FS_RemoveElement
    <3>3. Cardinality(Guessing(u)') + 1 = Cardinality(Guessing(u))
      BY <3>2, GuessingFinite
    <3> DEFINE lock == account[u].locked \/ account[u].fails + 1 >= MaxFailed
    <3>4. account'[u] = [account[u] EXCEPT !.fails = @ + 1, !.locked = lock]
      BY <1>4, <2>2 DEF LoginWrong, CountFailure, AccountType
    <3>5. account[u] \in AccountRow
      BY DEF AccountType
    <3>6. ~lock => account[u].fails + 1 < MaxFailed
      BY <1>1, AccountAssumption
    <3> HIDE DEF lock
    <3>7. /\ account'[u].fails = account[u].fails + 1 /\ account'[u].lapses = account[u].lapses
          /\ account'[u].locked = lock
      BY <3>4, <3>5 DEF AccountRow
    <3> QED
      BY <3>3, <3>6, <3>7 DEF Failed
  <2>3. CASE login[r].who # u
    <3>1. Guessing(u)' = Guessing(u)
      BY <2>1, <2>3 DEF Guessing
    <3>2. account'[u] = account[u]
      BY <1>4, <2>3 DEF LoginWrong, CountFailure, AccountType
    <3> QED
      BY <1>1, <3>1, <3>2 DEF Unmoved
  <2> QED
    BY <2>2, <2>3
<1>5. ASSUME NEW r \in Login, LoginRefused(r) PROVE Unmoved(u)
  <2>1. \A y \in Login : IF y = r THEN login'[y].pc = "idle" /\ login[y].pc = "right"
                                  ELSE login'[y] = login[y]
    BY <1>5 DEF LoginRefused, AccountType, Ready
  <2>2. Guessing(u)' = Guessing(u)
    BY <2>1 DEF Guessing
  <2> QED
    BY <1>1, <1>5, <2>2 DEF Unmoved, LoginRefused
<1>6. ASSUME NEW x \in User, LockLapse(x) PROVE Unmoved(u) \/ Reopened(u)
  <2>1. Guessing(u)' = Guessing(u)
    BY <1>6 DEF LockLapse, Guessing
  <2>2. u # x => account'[u] = account[u]
    BY <1>6 DEF LockLapse, AccountType
  <2>3. u = x => account'[u].fails = account[u].fails /\ account'[u].lapses = account[u].lapses + 1
    BY <1>6 DEF LockLapse, AccountType, AccountRow
  <2> QED
    BY <1>1, <2>1, <2>2, <2>3 DEF Unmoved, Reopened
<1> QED
  BY <1>2, <1>3, <1>4, <1>5, <1>6 DEF AccountStep, AccountNext

LEMMA LockoutStep ==
  SInv /\ SInv' /\ LockoutInv /\ [SignInNext]_vars => LockoutInv'
<1> SUFFICES ASSUME SInv, SInv', LockoutInv, [SignInNext]_vars PROVE LockoutInv'
  OBVIOUS
<1>1. \A u \in User : Unmoved(u) \/ Guessed(u) \/ Failed(u) \/ Reopened(u)
  <2>1. CASE AdmitStep
    BY <2>1, AdmitUnmoved
  <2>2. CASE AccountStep
    BY <2>2, AccountMoves
  <2>3. CASE UNCHANGED accountVars
    BY <2>3, RestUnmoved
  <2> QED
    BY <2>1, <2>2, <2>3 DEF SignInNext, ClientStep, LapseStep, OthersStep, vars, accountVars
<1> QED
  BY <1>1, LockoutKept

LEMMA LockoutInit == SignInInit => LockoutInv
<1> SUFFICES ASSUME SignInInit, NEW u \in User
             PROVE  /\ account[u].fails + Cardinality(Guessing(u))
                         <= Allowed(account[u].lapses) + Cardinality(Login)
                    /\ account[u].fails <= Allowed(account[u].lapses)
  BY DEF LockoutInv
<1>1. account[u].fails = 0 /\ account[u].lapses = 0
  BY DEF SignInInit, AccountInit, NoAccount
<1> QED
  BY <1>1, GuessingFinite, AllowedGrows

(* However many wrong passwords are checked at once, an account sees       *)
(* MAX_FAILED - 1 of them and one round of parallel ones, and one round    *)
(* more for each lock that ran out (login, recordFailedLogin).             *)
THEOREM GuessesAreBounded == SignInSpec => []GuessesBounded
<1>1. SInv /\ LockoutInv => GuessesBounded
  BY AllowedGrows DEF SInv, AccountType, AccountRow, LockoutInv, GuessesBounded
<1> QED
  BY <1>1, SignInInvariant, LockoutInit, LockoutStep, PTL DEF SignInSpec

(* No password login completes with a token while its account is locked,   *)
(* not one that read the account as open either.                           *)
THEOREM LockIsKept == SignInSpec => LockHolds
<1> DEFINE Refuses(r) ==
      login[r].pc = "right" /\ account[login[r].who].locked /\ login'[r].pc = "idle"
      => token' = token
<1>1. SInv /\ [SignInNext]_vars
      => [\A r \in Login : Refuses(r)]_<<token, account, login>>
  <2> SUFFICES ASSUME SInv, [SignInNext]_vars, NEW r \in Login, login[r].pc = "right",
                      account[login[r].who].locked, login'[r].pc = "idle"
               PROVE  token' = token
    OBVIOUS
  <2> USE DEF SInv
  <2>1. login' # login
    OBVIOUS
  <2>2. ASSUME NEW x \in Login, NEW n \in Token, LoginRight(x, n) PROVE FALSE
    <3>1. x # r
      BY <2>2 DEF LoginRight, StillOpen
    <3> QED
      BY <2>2, <3>1 DEF LoginRight, AccountType
  <2>3. ~AdmitStep
    BY <2>1, <2>2 DEF AdmitStep, Admit, Anon, AdminLogin
  <2>4. AccountStep => token' = token
    BY DEF AccountStep, AccountNext, Register, LoginStart, LoginWrong, LoginRefused, LockLapse
  <2> QED
    BY <2>1, <2>3, <2>4 DEF SignInNext, ClientStep, LapseStep, OthersStep, vars, accountVars
<1> QED
  BY <1>1, SignInInvariant, PTL DEF SignInSpec, LockHolds

-----------------------------------------------------------------------------
(* The client.  A token of its own is a live one of a family it received:  *)
(* nobody else presents it.                                                *)
Held(t) == t \in Token /\ IsLive(t) /\ token[t].family \in client.families

(* One request refreshes at a time, with a token of its own until the      *)
(* answer is lost; when none does, the stored token is the client's own.   *)
OwnInv ==
  SoleOwner =>
    /\ \A a, b \in Ask : Leads(a) /\ Leads(b) => a = b
    /\ \A a \in Ask : Leads(a) /\ ask[a].tok # None => Held(ask[a].tok)
    /\ (\A a \in Ask : ~Leads(a)) /\ client.ref # None => Held(client.ref)

(* What leaves live tokens of the client's families alone.                 *)
Spares == \A t \in Token : Held(t) => Held(t)'

SameLeads ==
  \A a \in Ask : /\ Leads(a)' <=> Leads(a)
                 /\ Leads(a) => ask'[a].tok = ask[a].tok

LEMMA SparedKept ==
  ASSUME OwnInv, Spares, SameLeads,
         client' = client \/ (client'.kind = client.kind /\ client'.cut = client.cut
                              /\ (client'.ref # None => Held(client.ref)'))
  PROVE  OwnInv'
<1> SUFFICES ASSUME SoleOwner'
             PROVE  /\ \A a, b \in Ask : Leads(a)' /\ Leads(b)' => a = b
                    /\ \A a \in Ask : Leads(a)' /\ ask'[a].tok # None => Held(ask[a].tok)'
                    /\ (\A a \in Ask : ~Leads(a)') /\ client'.ref # None => Held(client.ref)'
  BY DEF OwnInv
<1>1. SoleOwner
  BY DEF SoleOwner
<1>2. \A a \in Ask : Leads(a)' <=> Leads(a)
  BY DEF SameLeads
<1>3. \A a, b \in Ask : Leads(a)' /\ Leads(b)' => a = b
  BY <1>1, <1>2 DEF OwnInv
<1>4. ASSUME NEW a \in Ask, Leads(a)', ask'[a].tok # None PROVE Held(ask[a].tok)'
  <2>1. Held(ask[a].tok) /\ ask'[a].tok = ask[a].tok
    BY <1>1, <1>2, <1>4 DEF OwnInv, SameLeads
  <2>2. ask[a].tok \in Token
    BY <2>1 DEF Held
  <2> QED
    BY <2>1, <2>2 DEF Spares, Held
<1>5. ASSUME \A a \in Ask : ~Leads(a)', client'.ref # None PROVE Held(client.ref)'
  <2>1. CASE client' = client
    <3>1. Held(client.ref)
      BY <1>1, <1>2, <1>5, <2>1 DEF OwnInv
    <3> QED
      BY <3>1, <2>1 DEF Spares, Held
  <2> QED
    BY <1>5, <2>1
<1> QED
  BY <1>3, <1>4, <1>5

(* The steps of the others spare the client's tokens.                      *)
LEMMA AdmitOwn ==
  ASSUME SInv, OwnInv, AdmitStep
  PROVE  OwnInv'
<1> USE DEF SInv
<1>1. PICK n \in Token : Admit(n) /\ (Receive(n) \/ UNCHANGED client) /\ UNCHANGED ask
  BY DEF AdmitStep
<1>2. PICK u : SignIn(u, n)
  BY <1>1 DEF Admit, Anon, AdminLogin, LoginRight
<1>3. /\ token'[n].st = "live" /\ token'[n].family = n
      /\ \A t \in Token : t # n => token'[t] = token[t]
      /\ ~IsLive(n)
  BY <1>2 DEF SignIn, Row, Issued, IsLive, IInv, TypeOK
<1>4. client.families \subseteq client'.families
  BY <1>1 DEF Receive, ClientType, ClientRow
<1>5. Spares
  BY <1>3, <1>4 DEF Spares, Held, IsLive
<1>6. SameLeads
  BY <1>1 DEF SameLeads, Leads
<1>7. CASE Receive(n)
  <2>1. /\ client'.kind = client.kind /\ client'.cut = client.cut
        /\ client'.ref = n /\ n \in client'.families
    BY <1>7 DEF Receive, ClientType, ClientRow
  <2>2. Held(client.ref)'
    BY <2>1, <1>3 DEF Held, IsLive
  <2> QED
    BY <1>5, <1>6, <2>1, <2>2, SparedKept
<1> QED
  BY <1>1, <1>5, <1>6, <1>7, SparedKept

LEMMA OthersSpare ==
  ASSUME SInv, OthersStep
  PROVE  Spares
<1> USE DEF SInv
<1> SUFFICES ASSUME NEW x \in Token, Held(x) PROVE Held(x)'
  BY DEF Spares
<1>1. client' = client
  BY DEF OthersStep, clientVars
<1>2. \A t \in Others : t \in Token /\ token[t].family # token[x].family
  BY DEF Others, Held
<1>3. ASSUME NEW t \in Others, NEW reason \in Reason, RevokeFamily(t, reason)
      PROVE  token'[x] = token[x]
  BY <1>2, <1>3 DEF RevokeFamily, FamilyOf
<1>4. ASSUME NEW t \in Others, RefreshExpired(t) PROVE token'[x] = token[x]
  BY <1>2, <1>4 DEF RefreshExpired, IInv, TypeOK
<1>5. ASSUME NEW t \in Others, NEW n \in Token, RefreshRotated(t, n) PROVE token'[x] = token[x]
  <2>1. x # t /\ x # n
    BY <1>2, <1>5 DEF RefreshRotated, Issued, Held, IsLive
  <2> QED
    BY <1>2, <1>5, <2>1 DEF RefreshRotated, Succeed, IInv, TypeOK
<1>6. {"reuse_detected", "logout"} \subseteq Reason
  BY DEF Reason
<1>7. token'[x] = token[x]
  BY <1>3, <1>4, <1>5, <1>6 DEF OthersStep, RefreshReused, Logout
<1> QED
  BY <1>1, <1>7 DEF Held, IsLive

LEMMA LapseSpares ==
  ASSUME SInv, LapseStep
  PROVE  Spares
BY DEF SInv, LapseStep, Lapse, clientVars, Spares, Held, IsLive, IInv, TypeOK, TokenRow

(* The client's own steps: those outside a refresh first.                  *)
LEMMA AsideOwn ==
  ASSUME SInv, OwnInv, NEW a \in Ask,
         \/ Send(a) \/ Served(a) \/ Forbidden(a) \/ JoinRefresh(a)
         \/ GiveUpApp(a) \/ GiveUpWeb(a) \/ Resend(a) \/ ReplayApp(a)
  PROVE  OwnInv'
<1> USE DEF SInv
<1>1. token' = token /\ (client' = client \/ Forget)
  BY DEF Send, Served, Forbidden, JoinRefresh, GiveUpApp, GiveUpWeb, Resend, ReplayApp
<1>2. SameLeads
  BY DEF Send, Served, Forbidden, JoinRefresh, GiveUpApp, GiveUpWeb, Resend, ReplayApp,
         Finish, NoAsk, SameLeads, Leads, ClientType, AskRow
<1>3. Forget => client'.kind = client.kind /\ client'.cut = client.cut /\ client'.ref = None
                /\ client'.families = client.families
  BY DEF Forget, ClientType, ClientRow
<1>4. Spares
  BY <1>1, <1>3 DEF Spares, Held, IsLive
<1> QED
  BY <1>1, <1>2, <1>3, <1>4, SparedKept

LEMMA SignOutOwn ==
  ASSUME SInv, OwnInv, SignOut
  PROVE  OwnInv'
<1>1. client'.kind = client.kind /\ client'.cut = client.cut /\ client'.ref = None
      /\ client'.families = client.families
  BY DEF SInv, SignOut, Forget, ClientType, ClientRow
<1>2. Spares /\ SameLeads
  BY <1>1 DEF SignOut, Spares, Held, IsLive, SameLeads, Leads
<1> QED
  BY <1>1, <1>2, SparedKept

(* ... then a refresh, from its start to the answer.                       *)
LEMMA StartOwn ==
  ASSUME SInv, OwnInv, NEW a \in Ask, StartRefresh(a)
  PROVE  OwnInv'
<1> USE DEF SInv
<1> SUFFICES ASSUME SoleOwner PROVE OwnInv'
  BY DEF OwnInv, SoleOwner, StartRefresh
<1>1. \A b \in Ask : ~Leads(b)
  BY DEF StartRefresh, Busy, SamePage, SoleOwner
<1>2. Held(client.ref)
  BY <1>1 DEF OwnInv, StartRefresh
<1>3. /\ \A b \in Ask \ {a} : ask'[b] = ask[b]
      /\ ask'[a].pc = "refresh" /\ ask'[a].tok = client.ref
      /\ token' = token /\ client' = client
  BY DEF StartRefresh, ClientType
<1>4. \A b \in Ask : Leads(b)' <=> b = a
  BY <1>1, <1>3 DEF Leads
<1>5. Held(ask[a].tok)'
  BY <1>2, <1>3 DEF Held, IsLive
<1> QED
  BY <1>4, <1>5 DEF OwnInv

(* What the steps of the one request that refreshes have in common.        *)
LEMMA LeaderOwn ==
  ASSUME OwnInv, NEW a \in Ask, Leads(a), client' = client,
         \A b \in Ask \ {a} : ask'[b] = ask[b],
         Leads(a)', SoleOwner => ask'[a].tok = None \/ Held(ask[a].tok)'
  PROVE  OwnInv'
<1> SUFFICES ASSUME SoleOwner PROVE OwnInv'
  BY DEF OwnInv, SoleOwner
<1>1. \A b \in Ask : Leads(b) <=> b = a
  BY DEF OwnInv
<1>2. \A b \in Ask : Leads(b)' <=> b = a
  BY <1>1 DEF Leads
<1> QED
  BY <1>2 DEF OwnInv

LEMMA HandledOwn ==
  ASSUME SInv, OwnInv, NEW a \in Ask, NEW n \in Token, RefreshHandled(a, n)
  PROVE  OwnInv'
<1> USE DEF SInv
<1>1. /\ Leads(a) /\ client' = client /\ ask[a].tok \in Token
      /\ \A b \in Ask \ {a} : ask'[b] = ask[b]
      /\ ask'[a].pc = "answered" /\ ask'[a].tok = n
  BY DEF RefreshHandled, Leads, ClientType, AskRow
<1>2. token'[n].st = "live" /\ token'[n].family = token[ask[a].tok].family
  BY <1>1 DEF RefreshHandled, RefreshRotated, Rotatable, Succeed, Row, IInv, TypeOK, Issued, IsLive
<1>3. ASSUME SoleOwner PROVE Held(ask[a].tok)'
  <2>1. Held(ask[a].tok)
    BY <1>1, <1>3, TokenAssumption DEF OwnInv, TokenAssumption
  <2> QED
    BY <1>1, <1>2, <2>1 DEF Held, IsLive
<1>4. Leads(a)'
  BY <1>1 DEF Leads
<1> QED
  BY <1>1, <1>3, <1>4, LeaderOwn

LEMMA NoAnswerOwn ==
  ASSUME SInv, OwnInv, NEW a \in Ask, RefreshDenied(a) \/ RefreshLost(a)
  PROVE  OwnInv'
<1>1. /\ Leads(a) /\ client' = client
      /\ \A b \in Ask \ {a} : ask'[b] = ask[b]
      /\ ask'[a].pc = "answered" /\ ask'[a].tok = None
  BY DEF SInv, RefreshDenied, RefreshLost, Leads, ClientType, AskRow
<1>2. Leads(a)'
  BY <1>1 DEF Leads
<1> QED
  BY <1>1, <1>2, LeaderOwn

(* When the refresh ends no request leads any more.                        *)
LEMMA EndedOwn ==
  ASSUME SInv, OwnInv, NEW a \in Ask, StoreNew(a) \/ RefreshFailed(a)
  PROVE  OwnInv'
<1> USE DEF SInv
<1>1. /\ client'.kind = client.kind /\ client'.cut = client.cut
      /\ client'.families = client.families /\ token' = token
      /\ client'.ref = None \/ (ask[a].tok # None /\ client'.ref = ask[a].tok)
  BY DEF StoreNew, RefreshFailed, ForgetFailed, Forget, ClientType, ClientRow
<1> SUFFICES ASSUME SoleOwner PROVE OwnInv'
  BY <1>1 DEF OwnInv, SoleOwner
<1>2. Leads(a) /\ \A b \in Ask : Leads(b) => b = a
  BY DEF OwnInv, StoreNew, RefreshFailed, Leads
<1>3. \A b \in Ask : IF b \in Wave(a) THEN ask'[b].pc \in {"replay", "idle"}
                                      ELSE ask'[b] = ask[b]
  BY DEF StoreNew, RefreshFailed, NoAsk
<1>4. \A b \in Ask : ~Leads(b)'
  BY <1>2, <1>3 DEF Leads, Wave
<1>5. ask[a].tok # None => Held(ask[a].tok)
  BY <1>2 DEF OwnInv
<1>6. client'.ref # None => Held(client.ref)'
  BY <1>1, <1>5 DEF Held, IsLive
<1> QED
  BY <1>4, <1>6 DEF OwnInv

LEMMA ClientOwn ==
  ASSUME SInv, OwnInv, ClientStep
  PROVE  OwnInv'
<1>1. ASSUME NEW a \in Ask, Die(a) PROVE OwnInv'
  BY <1>1 DEF SInv, Die, ClientType, ClientRow, OwnInv, SoleOwner
<1> QED
  BY <1>1, AsideOwn, SignOutOwn, StartOwn, HandledOwn, NoAnswerOwn, EndedOwn
     DEF ClientStep, ClientNext

LEMMA OwnStep == SInv /\ OwnInv /\ [SignInNext]_vars => OwnInv'
<1> SUFFICES ASSUME SInv, OwnInv, [SignInNext]_vars PROVE OwnInv'
  OBVIOUS
<1>1. ASSUME UNCHANGED clientVars PROVE SameLeads /\ client' = client
  BY <1>1 DEF clientVars, SameLeads, Leads
<1>2. CASE AccountStep
  <2>1. token' = token /\ UNCHANGED clientVars
    BY <1>2, AccountStepType
  <2>2. Spares
    BY <2>1 DEF clientVars, Spares, Held, IsLive
  <2> QED
    BY <1>1, <2>1, <2>2, SparedKept
<1>3. CASE LapseStep
  BY <1>1, <1>3, LapseSpares, SparedKept DEF LapseStep
<1>4. CASE OthersStep
  BY <1>1, <1>4, OthersSpare, SparedKept DEF OthersStep
<1>5. CASE UNCHANGED vars
  <2>1. Spares
    BY <1>5 DEF vars, clientVars, Spares, Held, IsLive
  <2> QED
    BY <1>1, <1>5, <2>1, SparedKept DEF vars
<1> QED
  BY <1>2, <1>3, <1>4, <1>5, AdmitOwn, ClientOwn DEF SignInNext

LEMMA OwnInvariant == SignInSpec => []OwnInv
<1>1. SignInInit => OwnInv
  BY DEF SignInInit, ClientInit, NoAsk, OwnInv, Leads
<1> QED
  BY <1>1, SignInInvariant, OwnStep, PTL DEF SignInSpec

(* A client that alone owns its refresh token, and is not refreshing it,   *)
(* holds the live one of its family (the interceptors of app and web).     *)
THEOREM RestingTokenIsLive == SignInSpec => []RestingTokenLive
<1>1. OwnInv => RestingTokenLive
  BY DEF OwnInv, RestingTokenLive, Held
<1> QED
  BY <1>1, OwnInvariant, PTL

(* Such a client never has its own family revoked as reused: neither it    *)
(* nor anybody else presents one of its tokens after it was rotated.       *)
THEOREM NoAlarmIsFalse == SignInSpec => NoFalseAlarm
<1> DEFINE Quiet ==
      SoleOwner =>
        \A t \in Token : Issued(t) /\ token[t].family \in client.families
                         /\ token'[t].st = "reuse_detected"
                         => token[t].st = "reuse_detected"
<1>1. SInv /\ OwnInv /\ [SignInNext]_vars => [Quiet]_token
  <2> SUFFICES ASSUME SInv, OwnInv, [SignInNext]_vars, token' # token, SoleOwner,
                      NEW t \in Token, Issued(t), token[t].family \in client.families,
                      token'[t].st = "reuse_detected", token[t].st # "reuse_detected"
               PROVE  FALSE
    OBVIOUS
  <2> USE DEF SInv
  <2>1. ASSUME NEW u, NEW n \in Token, SignIn(u, n) PROVE FALSE
    BY <2>1 DEF SignIn, Issued, IInv, TypeOK
  <2>2. ASSUME NEW x \in Token, NEW n \in Token, RefreshRotated(x, n) PROVE FALSE
    BY <2>2 DEF RefreshRotated, Succeed, Row, IInv, TypeOK, TokenRow
  <2>3. ASSUME NEW x \in Token, RefreshExpired(x) \/ Lapse(x) PROVE FALSE
    BY <2>3 DEF RefreshExpired, Lapse, IInv, TypeOK, TokenRow
  <2>4. ASSUME NEW x \in Token, NEW u \in User, Logout(u, x) PROVE FALSE
    BY <2>4 DEF Logout, RevokeFamily, IInv, TypeOK, TokenRow
  <2>5. ASSUME NEW x \in Others, RefreshReused(x) PROVE FALSE
    BY <2>5 DEF RefreshReused, RevokeFamily, FamilyOf, Others
  <2>6. ASSUME NEW a \in Ask, RefreshDenied(a), RefreshReused(ask[a].tok) PROVE FALSE
    BY <2>6 DEF RefreshDenied, RefreshReused, OwnInv, Held, Leads, ClientType
  <2>7. Others \subseteq Token
    BY DEF Others
  <2>8. CASE AdmitStep
    BY <2>1, <2>8 DEF AdmitStep, Admit, Anon, AdminLogin, LoginRight
  <2>9. CASE ClientStep
    <3>1. \A a \in Ask : ask[a].pc = "refresh" => ask[a].tok \in Token
      BY DEF ClientType, AskRow
    <3>2. \/ \E a \in Ask : RefreshDenied(a)
          \/ \E a \in Ask, n \in Token : RefreshHandled(a, n)
      BY <2>9 DEF ClientStep, ClientNext, Send, Served, Forbidden, StartRefresh, JoinRefresh,
                  GiveUpApp, GiveUpWeb, RefreshLost, StoreNew, RefreshFailed, Resend, ReplayApp,
                  Die, SignOut
    <3> QED
      BY <3>1, <3>2, <2>2, <2>3, <2>6 DEF RefreshDenied, RefreshHandled
  <2> QED
    BY <2>2, <2>3, <2>4, <2>5, <2>7, <2>8, <2>9, AccountStepType
       DEF SignInNext, LapseStep, OthersStep, vars
<1> QED
  BY <1>1, SignInInvariant, OwnInvariant, PTL DEF SignInSpec, NoFalseAlarm
=============================================================================
