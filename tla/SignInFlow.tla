----------------------------- MODULE SignInFlow -----------------------------
(***************************************************************************)
(* Accounts, refresh tokens and one client over one server, while other    *)
(* clients use tokens of their own.                                        *)
(***************************************************************************)
EXTENDS Accounts, TokenClients

vars == <<token, accountVars, clientVars>>

SignInInit == Init /\ AccountInit /\ ClientInit

\* A sign-in, whose answer reaches the client or goes to someone else.
AdmitStep ==
  \E n \in Token :
    /\ Admit(n)
    /\ Receive(n) \/ UNCHANGED client
    /\ UNCHANGED ask

AccountStep == AccountNext /\ UNCHANGED clientVars
ClientStep == ClientNext /\ UNCHANGED accountVars
LapseStep == (\E t \in Token : Lapse(t)) /\ UNCHANGED <<accountVars, clientVars>>

\* Other clients present the tokens of families the client does not hold.
Others == {t \in Token : Issued(t) /\ token[t].family \notin client.families}
OthersStep ==
  /\ \/ \E t \in Others : RefreshReused(t) \/ RefreshExpired(t)
     \/ \E t \in Others, n \in Token : RefreshRotated(t, n)
     \/ \E t \in Others, u \in User : Logout(u, t)
  /\ UNCHANGED <<accountVars, clientVars>>

SignInNext ==
  \/ AdmitStep \/ AccountStep \/ ClientStep \/ LapseStep \/ OthersStep

SignInSpec == SignInInit /\ [][SignInNext]_vars

SignInTypeOK == TypeOK /\ AccountType /\ ClientType
=============================================================================
