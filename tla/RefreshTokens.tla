---------------------------- MODULE RefreshTokens ----------------------------
(***************************************************************************)
(* auth/auth.service.ts: the rotating refresh tokens (refresh_tokens).     *)
(*                                                                         *)
(* A sign-in starts a family; /auth/refresh retires the presented token    *)
(* and issues its successor in the family; a token presented after it was  *)
(* retired takes the whole family down; /auth/logout does the same for its *)
(* owner.  Every handler is one serializable transaction that locks the    *)
(* presented row first, so it is one step; one the database aborts changes *)
(* nothing.  A token is opaque and a client may present any it ever got,   *)
(* any number of times: answers are lost and requests repeated.            *)
(***************************************************************************)
EXTENDS Integers, FiniteSets

CONSTANTS
  User,    \* the users who sign in
  Token,   \* the pool of token rows; bounds how many are ever issued
  None     \* SQL null

ASSUME TokenAssumption == None \notin Token \cup User

VARIABLE token   \* refresh_tokens

(* A family is named after the token it started with.  st is "live" while  *)
(* revoked_at is null, and the revoke_reason after that; past says that    *)
(* expires_at has been reached.                                            *)
Reason == {"rotated", "expired", "reuse_detected", "logout"}
TokenRow == [st : {"none", "live"} \cup Reason, owner : User \cup {None},
             family : Token \cup {None}, from : Token \cup {None}, past : BOOLEAN]
NoToken == [st |-> "none", owner |-> None, family |-> None, from |-> None, past |-> FALSE]

TypeOK == token \in [Token -> TokenRow]
Init == token = [t \in Token |-> NoToken]

Issued(t) == token[t].st # "none"
IsLive(t) == token[t].st = "live"
FamilyOf(t) == {x \in Token : Issued(x) /\ token[x].family = token[t].family}

Row(u, f, from) ==
  [st |-> "live", owner |-> u, family |-> f, from |-> from, past |-> FALSE]

\* anon, login, adminLogin: a new family.
SignIn(u, n) ==
  /\ ~Issued(n)
  /\ token' = [token EXCEPT ![n] = Row(u, n, None)]

\* Mutant: the presented token is revoked instead of its family.
RevokeOne(t, reason) ==
  token' = [token EXCEPT ![t].st = reason]

\* update refresh_tokens ... where family_id = ... and revoked_at is null
RevokeFamily(t, reason) ==
  token' = [x \in Token |-> IF x \in FamilyOf(t) /\ IsLive(x)
                            THEN [token[x] EXCEPT !.st = reason] ELSE token[x]]

\* Mutant: the presented token stays valid.
IssueAlongside(t, n) ==
  token' = [token EXCEPT ![n] = Row(token[t].owner, token[t].family, t)]

\* The presented token is retired and its successor issued.
Succeed(t, n) ==
  token' = [token EXCEPT ![t].st = "rotated",
                         ![n] = Row(token[t].owner, token[t].family, t)]

\* refresh, its three outcomes for a known token.
RefreshReused(t) ==
  /\ Issued(t) /\ ~IsLive(t)
  /\ RevokeFamily(t, "reuse_detected")

RefreshExpired(t) ==
  /\ IsLive(t) /\ token[t].past
  /\ token' = [token EXCEPT ![t].st = "expired"]

\* Mutant: a retired token is rotated as well.
AnyIssued(t) == Issued(t) /\ ~token[t].past

Rotatable(t) == IsLive(t) /\ ~token[t].past

RefreshRotated(t, n) ==
  /\ Rotatable(t)
  /\ ~Issued(n)
  /\ Succeed(t, n)

\* logout by user u; another user's token is refused.
Logout(u, t) ==
  /\ Issued(t) /\ token[t].owner = u
  /\ RevokeFamily(t, "logout")

\* expires_at is reached; it is read only of a token that is still live.
Lapse(t) ==
  /\ IsLive(t) /\ ~token[t].past
  /\ token' = [token EXCEPT ![t].past = TRUE]

Next ==
  \/ \E u \in User, n \in Token : SignIn(u, n)
  \/ \E t \in Token : RefreshReused(t) \/ RefreshExpired(t) \/ Lapse(t)
  \/ \E t, n \in Token : RefreshRotated(t, n)
  \/ \E u \in User, t \in Token : Logout(u, t)

Spec == Init /\ [][Next]_token

-----------------------------------------------------------------------------
(* However often and in whatever order tokens of a family are presented,   *)
(* a family has one valid token at most: a duplicated or raced refresh     *)
(* never leaves two clients signed in with one sign-in.                    *)
OneLivePerFamily ==
  \A t, x \in Token :
    IsLive(t) /\ IsLive(x) /\ token[t].family = token[x].family => t = x

(* A family that saw a reuse, a logout or an expiry has no valid token.    *)
(* No refresh that was racing the revocation survives it.                  *)
ContainedFamily ==
  \A t, x \in Token :
    token[t].st \in Reason \ {"rotated"} /\ IsLive(x)
    => token[t].family # token[x].family

(* Every token but a family's first replaces a token that was rotated, and *)
(* a token is rotated into one successor: the rotated_from chain is a line *)
(* within one family and one user's hands.                                 *)
LinearLineage ==
  \A t \in Token : Issued(t) /\ token[t].from # None =>
    /\ token[token[t].from].st = "rotated"
    /\ token[token[t].from].family = token[t].family
    /\ token[token[t].from].owner = token[t].owner
    /\ \A x \in Token : Issued(x) /\ token[x].from = token[t].from => x = t

(* A family without a valid token never gets one again: neither a refresh  *)
(* that raced the revocation nor a later sign-in revives it.               *)
StaysDead ==
  \A t \in Token :
    Issued(t) /\ (\A x \in FamilyOf(t) : ~IsLive(x))
    => \A x \in Token : token'[x].st = "live" => token'[x].family # token[t].family

DeadFamilyStaysDead == [][StaysDead]_token
=============================================================================
