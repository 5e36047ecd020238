------------------------- MODULE RefreshTokensProofs -------------------------
(***************************************************************************)
(* For any set of users and tokens: the families of refresh_tokens stay    *)
(* lines with one valid end at most, and a family once dead stays dead.    *)
(***************************************************************************)
EXTENDS RefreshTokens, TLAPS

(* A family is named after an issued token.  It is what makes the family   *)
(* of a new sign-in, and nothing else, new.                                *)
FamilyRooted ==
  \A t \in Token : Issued(t) => /\ token[t].family \in Token
                                /\ Issued(token[t].family)

IInv == TypeOK /\ OneLivePerFamily /\ ContainedFamily /\ LinearLineage /\ FamilyRooted

(* Initially nothing is issued.                                            *)
LEMMA InitInv == Init => IInv
<1> SUFFICES ASSUME Init PROVE IInv
  OBVIOUS
<1>1. TypeOK
  BY DEF Init, TypeOK, NoToken, TokenRow
<1>2. \A t \in Token : ~Issued(t) /\ token[t].st = "none"
  BY DEF Init, NoToken, Issued
<1> QED
  BY <1>1, <1>2 DEF IInv, OneLivePerFamily, ContainedFamily, LinearLineage,
                    FamilyRooted, IsLive, Issued, Reason

(* A sign-in writes a row nobody refers to yet.                            *)
LEMMA SignInInv ==
  ASSUME TokenAssumption, IInv, NEW u \in User, NEW n \in Token, SignIn(u, n)
  PROVE  IInv'
<1> USE DEF IInv
<1>1. /\ ~Issued(n)
      /\ token' = [token EXCEPT ![n] = Row(u, n, None)]
  BY DEF SignIn
<1>2. TypeOK'
  BY <1>1 DEF TypeOK, TokenRow, Row
<1>3. /\ token'[n] = Row(u, n, None)
      /\ \A x \in Token : x # n => token'[x] = token[x]
  BY <1>1, <1>2 DEF TypeOK
<1>4. \A x \in Token : Issued(x) => token[x].family # n /\ x # n
  BY <1>1 DEF FamilyRooted
<1>5. \A x \in Token : Issued(x) /\ token[x].from # None => token[x].from \in Token
  BY DEF TypeOK, TokenRow
<1>6. FamilyRooted'
  BY <1>1, <1>3, <1>4 DEF FamilyRooted, Issued, Row
<1>7. OneLivePerFamily' /\ ContainedFamily'
  BY <1>3, <1>4 DEF OneLivePerFamily, ContainedFamily, IsLive, Issued, Row, Reason
<1>8. LinearLineage'
  BY <1>3, <1>4, <1>5 DEF LinearLineage, Issued, Row
<1> QED
  BY <1>2, <1>6, <1>7, <1>8

(* Rotation: the only valid token of the family gives way to a new row.    *)
LEMMA RotateInv ==
  ASSUME TokenAssumption, IInv, NEW t \in Token, NEW n \in Token, RefreshRotated(t, n)
  PROVE  IInv'
<1> USE DEF IInv
<1>1. /\ IsLive(t) /\ ~Issued(n) /\ t # n
      /\ token' = [token EXCEPT ![t].st = "rotated", ![n] = Row(token[t].owner, token[t].family, t)]
  BY DEF RefreshRotated, Rotatable, Succeed, IsLive, Issued
<1>2. TypeOK'
  BY <1>1 DEF TypeOK, TokenRow, Row, Reason
<1>3. \A x \in Token : x # n /\ x # t => token'[x] = token[x]
  BY <1>1, <1>2 DEF TypeOK
<1>4. /\ token'[n].st = "live" /\ token'[n].family = token[t].family
      /\ token'[n].from = t /\ token'[n].owner = token[t].owner
  BY <1>1, <1>2 DEF TypeOK, Row
<1>5. /\ token'[t].st = "rotated" /\ token'[t].family = token[t].family
      /\ token'[t].from = token[t].from /\ token'[t].owner = token[t].owner
  BY <1>1 DEF TypeOK, TokenRow
<1>6. Issued(t) /\ \A x \in Token : Issued(x) => x # n /\ Issued(x)'
  BY <1>1, <1>3, <1>5 DEF IsLive, Issued
<1>7. FamilyRooted'
  <2>1. \A x \in Token : Issued(x) => token[x].family \in Token /\ token'[token[x].family].st # "none"
    BY <1>6 DEF FamilyRooted, Issued
  <2>2. \A x \in Token : token'[x].st # "none" => x = n \/ (Issued(x) /\ token'[x].family = token[x].family)
    BY <1>3, <1>5, <1>6 DEF Issued
  <2> QED
    BY <2>1, <2>2, <1>4, <1>6 DEF FamilyRooted, Issued
<1>8. \A x \in Token : IsLive(x)' => x = n \/ (IsLive(x) /\ x # t /\ token'[x] = token[x])
  BY <1>3, <1>4, <1>5 DEF IsLive
<1>9. OneLivePerFamily' /\ ContainedFamily'
  <2>1. \A x \in Token : IsLive(x) /\ x # t => token[x].family # token[t].family
    BY <1>1 DEF OneLivePerFamily
  <2>2. OneLivePerFamily'
    BY <2>1, <1>4, <1>8 DEF OneLivePerFamily
  <2>3. \A y \in Token : token'[y].st \in Reason \ {"rotated"} =>
          /\ token'[y] = token[y]
          /\ token[y].st \in Reason \ {"rotated"}
          /\ token[y].family # token[t].family
    BY <1>1, <1>3, <1>4, <1>5 DEF ContainedFamily, Reason
  <2>4. \A y, x \in Token : token'[y].st \in Reason \ {"rotated"} /\ IsLive(x)'
                             => token'[y].family # token'[x].family
    BY <2>3, <1>4, <1>8 DEF ContainedFamily
  <2> QED
    BY <2>2, <2>4 DEF ContainedFamily
<1>10. \A x \in Token : Issued(x) => token[x].from # t
  BY <1>1, TokenAssumption DEF LinearLineage, IsLive, TokenAssumption
<1>11. \A x \in Token : Issued(x) /\ token[x].from # None =>
           token[x].from \in Token /\ Issued(token[x].from)
  BY DEF LinearLineage, Issued, TypeOK, TokenRow
<1>12. LinearLineage'
  BY <1>3, <1>4, <1>5, <1>6, <1>10, <1>11 DEF LinearLineage, Issued
<1> QED
  BY <1>2, <1>7, <1>9, <1>12

(* A step that only retires valid tokens, and all of a family it marks.    *)
LEMMA RetireInv ==
  ASSUME TokenAssumption, IInv, NEW S \in SUBSET Token, NEW reason \in Reason \ {"rotated"},
         \A x \in S : IsLive(x),
         \A x \in S, y \in Token : IsLive(y) /\ token[x].family = token[y].family => y \in S,
         token' = [x \in Token |-> IF x \in S THEN [token[x] EXCEPT !.st = reason]
                                   ELSE token[x]]
  PROVE  IInv'
<1> USE DEF IInv
<1>1. TypeOK'
  BY DEF TypeOK, TokenRow, Reason
<1>2. \A x \in Token :
        /\ token'[x].family = token[x].family /\ token'[x].from = token[x].from
        /\ token'[x].owner = token[x].owner
        /\ x \in S => token'[x].st = reason
        /\ x \notin S => token'[x].st = token[x].st
  BY DEF TypeOK, TokenRow
<1>3. \A x \in Token : Issued(x)' <=> Issued(x)
  BY <1>2 DEF Issued, IsLive, Reason
<1>4. \A x \in Token : IsLive(x)' <=> IsLive(x) /\ x \notin S
  BY <1>2 DEF IsLive, Reason
<1>5. FamilyRooted'
  BY <1>2, <1>3 DEF FamilyRooted
<1>6. OneLivePerFamily'
  BY <1>2, <1>4 DEF OneLivePerFamily
<1>7. ContainedFamily'
  BY <1>2, <1>4 DEF ContainedFamily
<1>8. \A x \in Token : token[x].st = "rotated" => token'[x].st = "rotated"
  BY <1>2 DEF IsLive
<1>9. \A x \in Token : token[x].from # None => token[x].from \in Token
  BY DEF TypeOK, TokenRow
<1>10. LinearLineage'
  BY <1>2, <1>3, <1>8, <1>9 DEF LinearLineage
<1> QED
  BY <1>1, <1>5, <1>6, <1>7, <1>10

LEMMA LapseInv ==
  ASSUME IInv, NEW t \in Token, Lapse(t)
  PROVE  IInv'
<1> USE DEF IInv
<1>1. TypeOK'
  BY DEF Lapse, TypeOK, TokenRow
<1>2. \A x \in Token :
        /\ token'[x].family = token[x].family /\ token'[x].from = token[x].from
        /\ token'[x].owner = token[x].owner /\ token'[x].st = token[x].st
  BY DEF Lapse, TypeOK, TokenRow
<1>3. \A x \in Token : token[x].from # None => token[x].from \in Token
  BY DEF TypeOK, TokenRow
<1> QED
  BY <1>1, <1>2, <1>3 DEF OneLivePerFamily, ContainedFamily, LinearLineage,
                          FamilyRooted, IsLive, Issued

(* The revocation of a family is such a step.                              *)
LEMMA RevokeFamilyInv ==
  ASSUME TokenAssumption, IInv, NEW t \in Token, NEW reason \in Reason \ {"rotated"},
         RevokeFamily(t, reason)
  PROVE  IInv'
<1> DEFINE S == {x \in FamilyOf(t) : IsLive(x)}
<1>1. token' = [x \in Token |-> IF x \in S THEN [token[x] EXCEPT !.st = reason]
                                ELSE token[x]]
  BY DEF RevokeFamily
<1>2. S \in SUBSET Token /\ \A x \in S : IsLive(x)
  BY DEF FamilyOf
<1>3. \A x \in S, y \in Token : IsLive(y) /\ token[x].family = token[y].family => y \in S
  BY DEF FamilyOf, Issued, IsLive
<1> HIDE DEF S
<1> QED
  BY <1>1, <1>2, <1>3, RetireInv

(* So is the expiry of the presented token: it is the only valid one.      *)
LEMMA ExpiredInv ==
  ASSUME TokenAssumption, IInv, NEW t \in Token, RefreshExpired(t)
  PROVE  IInv'
<1>1. token' = [x \in Token |-> IF x \in {t} THEN [token[x] EXCEPT !.st = "expired"]
                                ELSE token[x]]
  BY DEF RefreshExpired, IInv, TypeOK
<1>2. \A x \in {t}, y \in Token : IsLive(y) /\ token[x].family = token[y].family => y \in {t}
  BY DEF RefreshExpired, IInv, OneLivePerFamily
<1>3. \A x \in {t} : IsLive(x)
  BY DEF RefreshExpired
<1>4. "expired" \in Reason \ {"rotated"} /\ {t} \in SUBSET Token
  BY DEF Reason
<1> QED
  BY <1>1, <1>2, <1>3, <1>4, RetireInv

(* No step, a stuttering one included, leaves the invariant.               *)
LEMMA NextInv == TokenAssumption /\ IInv /\ [Next]_token => IInv'
<1> SUFFICES ASSUME TokenAssumption, IInv, [Next]_token PROVE IInv'
  OBVIOUS
<1>0. {"reuse_detected", "logout"} \subseteq Reason \ {"rotated"}
  BY DEF Reason
<1>1. ASSUME NEW u \in User, NEW n \in Token, SignIn(u, n) PROVE IInv'
  BY <1>1, SignInInv
<1>2. ASSUME NEW t \in Token, RefreshReused(t) PROVE IInv'
  BY <1>0, <1>2, RevokeFamilyInv DEF RefreshReused
<1>3. ASSUME NEW t \in Token, RefreshExpired(t) PROVE IInv'
  BY <1>3, ExpiredInv
<1>4. ASSUME NEW t \in Token, Lapse(t) PROVE IInv'
  BY <1>4, LapseInv
<1>5. ASSUME NEW t \in Token, NEW n \in Token, RefreshRotated(t, n) PROVE IInv'
  BY <1>5, RotateInv
<1>6. ASSUME NEW u \in User, NEW t \in Token, Logout(u, t) PROVE IInv'
  BY <1>0, <1>6, RevokeFamilyInv DEF Logout
<1>7. CASE UNCHANGED token
  BY <1>7 DEF IInv, TypeOK, OneLivePerFamily, ContainedFamily, LinearLineage,
              FamilyRooted, IsLive, Issued
<1> QED
  BY <1>1, <1>2, <1>3, <1>4, <1>5, <1>6, <1>7 DEF Next

(* The inductive invariant holds in every state the handlers can reach.    *)
THEOREM InvariantHolds == Spec => []IInv
<1>1. Init /\ [][Next]_token => []IInv
  BY InitInv, NextInv, TokenAssumption, PTL
<1> QED
  BY <1>1 DEF Spec

(* Whatever tokens are presented, however often and in whatever order, a   *)
(* family has one valid token at most (AuthService.refresh, logout).       *)
THEOREM OneLive == Spec => []OneLivePerFamily
<1>1. IInv => OneLivePerFamily
  BY DEF IInv
<1> QED
  BY <1>1, InvariantHolds, PTL

(* A reuse, a logout or an expiry leaves no valid token in the family.     *)
THEOREM Contained == Spec => []ContainedFamily
<1>1. IInv => ContainedFamily
  BY DEF IInv
<1> QED
  BY <1>1, InvariantHolds, PTL

(* The rotated_from chain is a line within one family.                     *)
THEOREM Lineage == Spec => []LinearLineage
<1>1. IInv => LinearLineage
  BY DEF IInv
<1> QED
  BY <1>1, InvariantHolds, PTL

(* A valid token is one that was valid before, the successor of one in the *)
(* same family, or the first of a new family.                              *)
LEMMA LiveOrigin ==
  ASSUME IInv, Next, NEW x \in Token, token'[x].st = "live"
  PROVE  \/ \E y \in Token : IsLive(y) /\ token'[x].family = token[y].family
         \/ \A y \in Token : Issued(y) => token'[x].family # token[y].family
<1> USE DEF IInv
<1>1. CASE token'[x].family = token[x].family /\ IsLive(x)
  BY <1>1
<1>2. ASSUME NEW u \in User, NEW n \in Token, SignIn(u, n)
      PROVE  \/ token'[x].family = token[x].family /\ IsLive(x)
             \/ \A y \in Token : Issued(y) => token'[x].family # token[y].family
  <2>1. x # n => token'[x] = token[x]
    BY <1>2 DEF SignIn, TypeOK
  <2>2. x = n => token'[x].family = n
    BY <1>2 DEF SignIn, TypeOK, Row
  <2>3. \A y \in Token : Issued(y) => token[y].family # n
    BY <1>2 DEF SignIn, FamilyRooted
  <2> QED
    BY <2>1, <2>2, <2>3 DEF IsLive
<1>3. ASSUME NEW t \in Token, NEW n \in Token, RefreshRotated(t, n)
      PROVE  \E y \in Token : IsLive(y) /\ token'[x].family = token[y].family
  <2>1. IsLive(t) /\ (x # n /\ x # t => token'[x] = token[x])
    BY <1>3 DEF RefreshRotated, Rotatable, Succeed, TypeOK
  <2>2. x = n \/ x = t => token'[x].family = token[t].family
    BY <1>3 DEF RefreshRotated, Succeed, TypeOK, TokenRow, Row
  <2> QED
    BY <2>1, <2>2 DEF IsLive
<1>4. ASSUME NEW t \in Token, RefreshExpired(t) \/ Lapse(t)
      PROVE  token'[x].family = token[x].family /\ IsLive(x)
  BY <1>4 DEF RefreshExpired, Lapse, IsLive, TypeOK, TokenRow
<1>5. ASSUME NEW t \in Token, NEW reason \in Reason, RevokeFamily(t, reason)
      PROVE  token'[x].family = token[x].family /\ IsLive(x)
  BY <1>5 DEF RevokeFamily, IsLive, TypeOK, TokenRow, Reason
<1>6. {"reuse_detected", "logout"} \subseteq Reason
  BY DEF Reason
<1> QED
  BY <1>1, <1>2, <1>3, <1>4, <1>5, <1>6 DEF Next, RefreshReused, Logout

(* A family that was taken down stays down: what a later or racing refresh *)
(* or sign-in makes valid belongs to another family.                       *)
THEOREM DeadStaysDead == Spec => DeadFamilyStaysDead
<1>1. IInv /\ [Next]_token => [StaysDead]_token
  <2> SUFFICES ASSUME IInv, Next PROVE StaysDead
    OBVIOUS
  <2> SUFFICES ASSUME NEW t \in Token, Issued(t), \A y \in FamilyOf(t) : ~IsLive(y),
                      NEW x \in Token, token'[x].st = "live"
               PROVE  token'[x].family # token[t].family
    BY DEF StaysDead
  <2>1. \A y \in Token : IsLive(y) => token[y].family # token[t].family
    BY DEF FamilyOf, IsLive, Issued
  <2> QED
    BY <2>1, LiveOrigin
<1> QED
  BY <1>1, InvariantHolds, PTL DEF Spec, DeadFamilyStaysDead
=============================================================================
