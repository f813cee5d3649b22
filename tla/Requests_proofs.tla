--------------------------- MODULE Requests_proofs ---------------------------
(***************************************************************************)
(* What every request, copy and rollback keeps of the rows besides         *)
(* Coherent: whoever has row-level access has a row that restricts it, and *)
(* KoBoCAT knows what KPI has granted; and that what is removed is gone.   *)
(*                                                                         *)
(* None of the three can be told from Coherent.  The first two are about   *)
(* one user on one asset at a time, and the lemmas on Grant, Deny, ...     *)
(* settle what a request does to them.  A copy that fails brings back the  *)
(* rows saved when it began, except KoBoCAT's: these are still enough for  *)
(* every asset but the target, because a copy grants and denies nothing    *)
(* anywhere else.                                                          *)
(***************************************************************************)
EXTENDS AssetPermissions_proofs

Partial == "partial_submissions"

(* Row by row: user u may view what the row lets them change, and has a    *)
(* row when Partial is granted, unless full access is denied to them.      *)
RestrictedTo(s, u) ==
  /\ \A q \in Codenames : <<u, q>> \in s.partial =>
       /\ q \in SubmissionPerms
       /\ \A r \in Implied(q) \cap SubmissionPerms : <<u, r>> \in s.partial
  /\ <<u, Partial>> \in s.granted =>
       \/ \E q \in Codenames : <<u, q>> \in s.partial
       \/ \E q \in CONTRADICTORY_PERMISSIONS[Partial] : <<u, q>> \in s.denied

(* KoBoCAT has been told of every permission granted that it has a         *)
(* counterpart for.                                                        *)
Told(s) ==
  s.deployed =>
    \A u \in Users, p \in Codenames : <<u, p>> \in s.granted /\ p \in KC(u) => <<u, p>> \in s.kc

(* What t keeps of s.                                                      *)
Keeps(s, t) ==
  /\ t.deployed = s.deployed
  /\ Told(s) => Told(t)

-----------------------------------------------------------------------------
(***************************************************************************)
(* The rows of one asset.                                                  *)
(***************************************************************************)

(* Only row-level access contradicts something else than row-level access, *)
(* and what contradicts it cannot be inherited.                            *)
LEMMA PartialTable ==
  /\ \A r \in AllCodenames \ {Partial} : CONTRADICTORY_PERMISSIONS[r] \subseteq {Partial}
  /\ Partial \notin CONTRADICTORY_PERMISSIONS[Partial]
  /\ CONTRADICTORY_PERMISSIONS[Partial] \cap HERITABLE_PERMISSIONS = {}
  /\ CONTRADICTORY_PERMISSIONS[Partial] \subseteq AllCodenames
  /\ Partial \in AllCodenames \ HERITABLE_PERMISSIONS
BY DEF Partial, AllCodenames, CONTRADICTORY_PERMISSIONS, FullAccess, HERITABLE_PERMISSIONS

(* KoBoCAT has a counterpart for nothing that is inherited, and for        *)
(* nothing that the public may not have.                                   *)
LEMMA KCTable ==
  ASSUME NEW u, NEW p \in KC(u)
  PROVE  /\ p \notin HERITABLE_PERMISSIONS
         /\ AllowedTo(u, p)
BY DEF KC, KC_PERMISSIONS, KC_ANONYMOUS, FullAccess, HERITABLE_PERMISSIONS, AllowedTo,
       ALLOWED_ANONYMOUS_PERMISSIONS

(* With coherent rows, KoBoCAT knows what it has to when it has been told  *)
(* of the explicit grants.                                                 *)
LEMMA ToldIs ==
  ASSUME NEW a \in Assets, NEW P, Good(a, P[a])
  PROVE  KobocatKnows(P, a) <=> Told(P[a])
<1>1. P[a] \in AssetState /\ Coherent(a, P[a])
  BY DEF Good
<1>2. ASSUME NEW u \in Users, NEW p \in Codenames, p \in KC(u)
      PROVE  <<u, p>> \in P[a].granted <=> <<u, p>> \in Effective(P[a]) /\ u # Owner[a]
  <2>1. p \notin HERITABLE_PERMISSIONS /\ AllowedTo(u, p)
    BY <1>2, KCTable
  <2>2. QED
    BY <1>1, <2>1, EffectiveIs DEF Coherent
<1>3. \A x \in Effective(P[a]) : x = <<x[1], x[2]>> /\ x[1] \in Users /\ x[2] \in Codenames
  BY EffectiveIs DEF Pair
<1>4. QED
  BY <1>2, <1>3 DEF KobocatKnows, Told

(* A grant tells KoBoCAT what it grants.  It leaves the rows that restrict *)
(* row-level access alone, and lifts a denial of full access only where it *)
(* takes row-level access away.                                            *)
LEMMA GrantKeeps ==
  ASSUME NEW a \in Assets, NEW s, Good(a, s),
         NEW u \in Users, u # Owner[a], NEW p \in Assignable(a)
  PROVE  /\ Keeps(s, Grant(s, a, u, p))
         /\ Grant(s, a, u, p).partial = s.partial
         /\ <<u, p>> \in Grant(s, a, u, p).granted
         /\ \A v \in Users : (v # u \/ p # Partial) /\ RestrictedTo(s, v) =>
              RestrictedTo(Grant(s, a, u, p), v)
<1> DEFINE W == Including(a, p)
           N == {q \in W : <<u, q>> \notin s.granted}
           X == Contrary(N)
           t == Grant(s, a, u, p)
<1>1. s \in AssetState /\ Coherent(a, s) /\ Good(a, t)
  BY GrantGood DEF Good
<1>2. CASE <<u, p>> \in s.granted
  BY <1>1, <1>2 DEF Grant, Keeps
<1>3. CASE <<u, p>> \notin s.granted
  <2>1. /\ p \in W /\ W \subseteq Codenames /\ N \subseteq W
        /\ p # Partial => Partial \notin W
    BY AssignableTable, ImpliedTransitive, CodenamesAssumption DEF Including, Partial
  <2>2. \A q \in W : q \in N <=> <<u, q>> \notin s.granted
    OBVIOUS
  <2>3. \A c \in X : \E q \in N : c \in CONTRADICTORY_PERMISSIONS[q]
    BY ContraryIs
  <2>4. /\ t.granted = (s.granted \ Of(u, X)) \cup Of(u, W)
        /\ t.denied = s.denied \ Of(u, N \cup X)
        /\ t.kc = IF s.deployed THEN s.kc \cup Of(u, N \cap KC(u)) ELSE s.kc
        /\ t.deployed = s.deployed
        /\ t.partial = s.partial
    BY <1>1, <1>3 DEF Grant, AssetState
  <2>5. /\ \A v, q : <<v, q>> \in Of(u, W) <=> v = u /\ q \in W
        /\ \A v, q : <<v, q>> \in Of(u, X) <=> v = u /\ q \in X \cap Codenames
        /\ \A v, q : <<v, q>> \in Of(u, N \cup X) <=> v = u /\ q \in (N \cup X) \cap Codenames
        /\ \A v, q : <<v, q>> \in Of(u, N \cap KC(u)) <=> v = u /\ q \in N \cap KC(u)
    BY <2>1, OfIs
  <2> HIDE DEF W, N, X, t
  <2>6. Told(s) => Told(t)
    BY <2>1, <2>2, <2>4, <2>5 DEF Told
  <2>7. ASSUME NEW v \in Users, v # u \/ p # Partial, RestrictedTo(s, v)
        PROVE  RestrictedTo(t, v)
    <3>1. CASE v # u
      BY <2>4, <2>5, <2>7, <3>1 DEF RestrictedTo
    <3>2. CASE v = u /\ <<u, Partial>> \in t.granted
      <4>1. <<u, Partial>> \in s.granted /\ p # Partial
        BY <2>1, <2>4, <2>5, <2>7, <3>2
      <4>2. Partial \in Codenames /\ Partial \notin W
        BY <1>1, <2>1, <4>1 DEF AssetState, Pair
      <4>3. \A q \in CONTRADICTORY_PERMISSIONS[Partial] : <<u, q>> \notin t.granted
        BY <1>1, <3>2, <4>2 DEF Good, Coherent
      <4>4. \A q \in CONTRADICTORY_PERMISSIONS[Partial] : q \notin N \cup X
        <5>1. X \subseteq {Partial}
          BY <2>1, <2>3, <4>2, PartialTable, CodenamesAssumption
        <5>2. QED
          BY <2>1, <2>4, <2>5, <4>3, <5>1, PartialTable
      <4>5. QED
        BY <2>4, <2>5, <2>7, <3>2, <4>1, <4>4 DEF RestrictedTo
    <3>3. CASE v = u /\ <<u, Partial>> \notin t.granted
      BY <2>4, <2>7, <3>3 DEF RestrictedTo
    <3>4. QED
      BY <3>1, <3>2, <3>3
  <2>8. QED
    BY <2>1, <2>4, <2>5, <2>6, <2>7 DEF Keeps, t
<1>4. QED
  BY <1>2, <1>3

(* A denial deletes the row of a user only when it has denied them full    *)
(* access.                                                                 *)
LEMMA DenyKeeps ==
  ASSUME NEW a \in Assets, NEW s, Good(a, s),
         NEW u \in Users, u # Owner[a], NEW p \in Codenames
  PROVE  /\ Keeps(s, Deny(s, a, u, p))
         /\ <<u, p>> \in Deny(s, a, u, p).denied
         /\ Deny(s, a, u, p).granted \subseteq s.granted
         /\ s.denied \subseteq Deny(s, a, u, p).denied
         /\ \A v \in Users : RestrictedTo(s, v) => RestrictedTo(Deny(s, a, u, p), v)
<1> DEFINE W == Requiring(a, p)
           N == {q \in W : <<u, q>> \notin s.denied}
           R == Revisited(s, a, u, p)
           clean == R \cap CONTRADICTORY_PERMISSIONS[Partial] # {}
           t == Deny(s, a, u, p)
<1>1. s \in AssetState /\ Coherent(a, s)
  BY DEF Good
<1>2. p \in W /\ W \subseteq Codenames
  BY RequiringIs
<1>3. R \subseteq W /\ (<<u, p>> \in s.denied => R = {p})
  BY <1>2 DEF Revisited
<1>4. /\ <<u, p>> \in s.denied =>
           t.granted = s.granted /\ t.denied = s.denied /\ t.kc = s.kc
      /\ <<u, p>> \notin s.denied =>
           /\ t.granted = s.granted \ Of(u, N)
           /\ t.denied = s.denied \cup Of(u, W)
           /\ t.kc = s.kc \ (Of(u, N) \cap s.granted)
      /\ t.partial = IF clean THEN s.partial \ Of(u, Codenames) ELSE s.partial
      /\ t.deployed = s.deployed
  BY <1>1 DEF Deny, AssetState, Partial
<1>5. /\ \A v, q : <<v, q>> \in Of(u, W) <=> v = u /\ q \in W
      /\ \A v, q : <<v, q>> \in Of(u, Codenames) <=> v = u /\ q \in Codenames
  BY <1>2, OfIs
<1> HIDE DEF W, N, R, t
<1>6. \A q \in R : <<u, q>> \in t.denied
  BY <1>3, <1>4, <1>5
<1>7. Told(s) => Told(t)
  BY <1>4 DEF Told
<1>8. ASSUME NEW v \in Users, RestrictedTo(s, v) PROVE RestrictedTo(t, v)
  <2>1. t.granted \subseteq s.granted /\ s.denied \subseteq t.denied
    BY <1>4
  <2>2. CASE v = u /\ clean
    BY <1>4, <1>5, <1>6, <2>2 DEF RestrictedTo
  <2>3. CASE ~(v = u /\ clean)
    <3>1. \A q : <<v, q>> \in t.partial <=> <<v, q>> \in s.partial
      BY <1>4, <1>5, <2>3
    <3>2. QED
      BY <1>8, <2>1, <3>1 DEF RestrictedTo
  <2>4. QED
    BY <2>2, <2>3
<1>9. QED
  BY <1>2, <1>4, <1>5, <1>7, <1>8 DEF Keeps, t

(* A removal takes away, at KoBoCAT too, what it strips the user of.       *)
LEMMA StrippedKeeps ==
  ASSUME NEW a \in Assets, NEW s \in AssetState, NEW u \in Users, NEW p \in Codenames
  PROVE  /\ Keeps(s, Stripped(s, a, u, p))
         /\ <<u, p>> \notin Stripped(s, a, u, p).granted
         /\ Stripped(s, a, u, p).granted \subseteq s.granted
         /\ Stripped(s, a, u, p).inherited = s.inherited
         /\ \A v \in Users : RestrictedTo(s, v) => RestrictedTo(Stripped(s, a, u, p), v)
<1> DEFINE W == Requiring(a, p)
           t == Stripped(s, a, u, p)
<1>1. /\ t.granted = s.granted \ Of(u, W)
      /\ t.kc = s.kc \ Of(u, W \cap KC(u))
      /\ t.denied = s.denied /\ t.partial = s.partial /\ t.deployed = s.deployed
      /\ t.inherited = s.inherited
  BY DEF Stripped, AssetState
<1>2. /\ p \in W
      /\ \A v, q : <<v, q>> \in Of(u, W) <=> v = u /\ q \in W
      /\ \A v, q : <<v, q>> \in Of(u, W \cap KC(u)) <=> v = u /\ q \in W \cap KC(u)
  BY RequiringIs, OfIs
<1> HIDE DEF W, t
<1>3. Told(s) => Told(t)
  BY <1>1, <1>2 DEF Told
<1>4. \A v \in Users : RestrictedTo(s, v) => RestrictedTo(t, v)
  BY <1>1 DEF RestrictedTo
<1>5. QED
  BY <1>1, <1>2, <1>3, <1>4 DEF Keeps, t

(* An inherited grant of q is gone when it has been replaced by a denial.  *)
LEMMA DenyInheritedKeeps ==
  ASSUME NEW a \in Assets, NEW s, Good(a, s),
         NEW u \in Users, u # Owner[a], NEW q \in Codenames,
         q = "view_asset" => <<u, "change_asset">> \notin s.inherited
  PROVE  /\ Keeps(s, DenyInherited(s, a, u, q))
         /\ DenyInherited(s, a, u, q).granted \subseteq s.granted
         /\ s.denied \subseteq DenyInherited(s, a, u, q).denied
         /\ <<u, q>> \in s.inherited => <<u, q>> \in DenyInherited(s, a, u, q).denied
         /\ s.inherited \ {<<u, q>>} \subseteq DenyInherited(s, a, u, q).inherited
         /\ \A v \in Users : RestrictedTo(s, v) => RestrictedTo(DenyInherited(s, a, u, q), v)
<1>1. CASE <<u, q>> \in s.inherited
  <2> DEFINE t == [s EXCEPT !.inherited = @ \ Of(u, {q})]
  <2>1. s \in AssetState /\ Coherent(a, s)
    BY DEF Good
  <2>2. /\ t.granted = s.granted /\ t.denied = s.denied /\ t.partial = s.partial
        /\ t.kc = s.kc /\ t.deployed = s.deployed
        /\ t.inherited = s.inherited \ Of(u, {q})
        /\ t \in AssetState
    BY <2>1 DEF AssetState
  <2>3. DenyInherited(s, a, u, q) = Deny(t, a, u, q)
    BY <1>1 DEF DenyInherited
  <2> HIDE DEF t
  <2>4. Coherent(a, t) /\ t.inherited = s.inherited \ {<<u, q>>}
    <3>1. /\ \A v, r : <<v, r>> \in Of(u, {q}) <=> v = u /\ r = q
          /\ Of(u, {q}) = {<<u, q>>}
      BY OfIs DEF Of
    <3>2. ASSUME NEW v \in Users, NEW r \in Codenames, v # Owner[a], <<v, r>> \in t.inherited,
                 NEW i \in Implied(r) \cap Codenames
          PROVE  r \in HERITABLE_PERMISSIONS /\ <<v, i>> \in t.inherited
      BY <2>1, <2>2, <3>1, <3>2, ImpliedIs DEF Coherent, HERITABLE_PERMISSIONS
    <3>3. QED
      BY <2>1, <2>2, <3>1, <3>2 DEF Coherent
  <2>5. Good(a, t)
    BY <2>2, <2>4 DEF Good
  <2>6. Keeps(s, t) /\ \A v \in Users : RestrictedTo(s, v) => RestrictedTo(t, v)
    BY <2>2 DEF Keeps, Told, RestrictedTo
  <2>7. QED
    BY <2>2, <2>3, <2>4, <2>5, <2>6, DenyGood, DenyKeeps DEF Keeps
<1>2. CASE <<u, q>> \notin s.inherited
  BY <1>2 DEF DenyInherited, Keeps
<1>3. QED
  BY <1>1, <1>2

(* So does remove_perm(): it leaves neither an explicit grant of p nor an  *)
(* inherited one that is not denied.                                       *)
LEMMA RevokeKeeps ==
  ASSUME NEW a \in Assets, NEW s, Good(a, s),
         NEW u \in Users, u # Owner[a], NEW p \in Codenames
  PROVE  /\ Keeps(s, Revoke(s, a, u, p))
         /\ <<u, p>> \notin Revoke(s, a, u, p).granted
         /\ Revoke(s, a, u, p).granted \subseteq s.granted
         /\ <<u, p>> \in s.inherited => <<u, p>> \in Revoke(s, a, u, p).denied
         /\ \A v \in Users : RestrictedTo(s, v) => RestrictedTo(Revoke(s, a, u, p), v)
<1> DEFINE t == Stripped(s, a, u, p)
           r == RevokeImplied(s, a, u, p)
<1>1. /\ Good(a, t) /\ Keeps(s, t)
      /\ <<u, p>> \notin t.granted /\ t.granted \subseteq s.granted
      /\ t.inherited = s.inherited
      /\ \A v \in Users : RestrictedTo(s, v) => RestrictedTo(t, v)
  BY StrippedGood, StrippedKeeps DEF Good
<1> HIDE DEF t
<1>2. /\ Good(a, r) /\ Keeps(t, r) /\ r.granted \subseteq t.granted
      /\ <<u, p>> \in s.inherited => <<u, p>> \in r.inherited
      /\ p = "view_asset" => <<u, "change_asset">> \notin r.inherited
      /\ \A v \in Users : RestrictedTo(t, v) => RestrictedTo(r, v)
  <2>1. CASE p = "view_asset" /\ <<u, "change_asset">> \in t.inherited
    <3>1. "change_asset" \in Codenames
      BY <1>1, <2>1 DEF Good, AssetState, Pair
    <3>2. r = DenyInherited(t, a, u, "change_asset")
      BY <2>1 DEF RevokeImplied, t
    <3>3. /\ Good(a, r) /\ Keeps(t, r) /\ r.granted \subseteq t.granted
          /\ <<u, "change_asset">> \notin r.inherited
          /\ t.inherited \ {<<u, "change_asset">>} \subseteq r.inherited
          /\ \A v \in Users : RestrictedTo(t, v) => RestrictedTo(r, v)
      BY <1>1, <3>1, <3>2, DenyInheritedGood, DenyInheritedKeeps
    <3>4. QED
      BY <1>1, <2>1, <3>3
  <2>2. CASE ~(p = "view_asset" /\ <<u, "change_asset">> \in t.inherited)
    <3>1. r = t
      BY <2>2 DEF RevokeImplied, DenyInherited, t
    <3>2. QED
      BY <1>1, <2>2, <3>1 DEF Keeps
  <2>3. QED
    BY <2>1, <2>2
<1> HIDE DEF r
<1>3. Revoke(s, a, u, p) = DenyInherited(r, a, u, p)
  BY DEF Revoke, r
<1>4. /\ Keeps(r, DenyInherited(r, a, u, p))
      /\ DenyInherited(r, a, u, p).granted \subseteq r.granted
      /\ <<u, p>> \in r.inherited => <<u, p>> \in DenyInherited(r, a, u, p).denied
      /\ \A v \in Users : RestrictedTo(r, v) => RestrictedTo(DenyInherited(r, a, u, p), v)
  BY <1>2, DenyInheritedKeeps
<1>5. QED
  BY <1>1, <1>2, <1>3, <1>4 DEF Keeps

(* The row of a user goes when nothing is left of it to restrict.          *)
LEMMA CleanKeeps ==
  ASSUME NEW s \in AssetState, NEW u \in Users
  PROVE  /\ Keeps(s, [s EXCEPT !.partial = @ \ Of(u, Codenames)])
         /\ \A v \in Users :
              /\ RestrictedTo(s, v)
              /\ v = u => \/ <<u, Partial>> \notin s.granted
                          \/ \E q \in CONTRADICTORY_PERMISSIONS[Partial] : <<u, q>> \in s.denied
              => RestrictedTo([s EXCEPT !.partial = @ \ Of(u, Codenames)], v)
<1> DEFINE t == [s EXCEPT !.partial = @ \ Of(u, Codenames)]
<1>1. /\ t.granted = s.granted /\ t.denied = s.denied /\ t.kc = s.kc
      /\ t.deployed = s.deployed /\ t.partial = s.partial \ Of(u, Codenames)
  BY DEF AssetState
<1>2. \A v, q : <<v, q>> \in Of(u, Codenames) <=> v = u /\ q \in Codenames
  BY OfIs
<1> HIDE DEF t
<1>3. Keeps(s, t)
  BY <1>1 DEF Keeps, Told
<1>4. ASSUME NEW v \in Users, RestrictedTo(s, v),
             v = u => \/ <<u, Partial>> \notin s.granted
                      \/ \E q \in CONTRADICTORY_PERMISSIONS[Partial] : <<u, q>> \in s.denied
      PROVE  RestrictedTo(t, v)
  BY <1>1, <1>2, <1>4 DEF RestrictedTo
<1>5. QED
  BY <1>3, <1>4 DEF t

(* assign_perm() of row-level access stores a row, and of what contradicts *)
(* row-level access deletes the row only after it has taken that away.     *)
LEMMA AssignedKeeps ==
  ASSUME NEW a \in Assets, NEW s, Good(a, s),
         NEW u \in Users, u # Owner[a], NEW p \in Assignable(a),
         NEW deny \in BOOLEAN, NEW pp,
         p = Partial => pp # {} /\ pp \subseteq SubmissionPerms
  PROVE  /\ Keeps(s, Assigned(s, a, u, p, deny, pp))
         /\ (\A v \in Users : RestrictedTo(s, v)) =>
              \A v \in Users : RestrictedTo(Assigned(s, a, u, p, deny, pp), v)
<1> DEFINE t == IF deny THEN Deny(s, a, u, p) ELSE Grant(s, a, u, p)
           cleaned == [t EXCEPT !.partial = t.partial \ Of(u, Codenames)]
           stored == [cleaned EXCEPT !.partial = cleaned.partial \cup Of(u, PartialKeys(pp))]
           Fine(r) == \A v \in Users : RestrictedTo(r, v)
<1>1. p \in Codenames /\ p \in AllCodenames
  BY AssignableTable, CodenamesAssumption
<1>2. /\ Good(a, t) /\ Keeps(s, t)
      /\ \A v \in Users : (v # u \/ p # Partial) /\ RestrictedTo(s, v) => RestrictedTo(t, v)
      /\ IF deny THEN <<u, p>> \in t.denied ELSE <<u, p>> \in t.granted
  BY <1>1, DenyGood, DenyKeeps, GrantGood, GrantKeeps
<1> HIDE DEF t
<1>3. t \in AssetState /\ Coherent(a, t)
  BY <1>2 DEF Good
<1>4. /\ cleaned.granted = t.granted /\ cleaned.denied = t.denied /\ cleaned.kc = t.kc
      /\ cleaned.deployed = t.deployed /\ cleaned.partial = t.partial \ Of(u, Codenames)
      /\ \A v, q : <<v, q>> \in Of(u, Codenames) <=> v = u /\ q \in Codenames
  BY <1>3, OfIs DEF AssetState
<1>5. Good(a, cleaned)
  <2>1. t.partial \ Of(u, Codenames) \in SUBSET Pair
    BY <1>3 DEF AssetState
  <2>2. QED
    BY <1>2, <2>1, CleanGood
<1>6. CASE p = Partial
  <2>1. /\ stored.granted = t.granted /\ stored.denied = t.denied /\ stored.kc = t.kc
        /\ stored.deployed = t.deployed
        /\ stored.partial = (t.partial \ Of(u, Codenames)) \cup Of(u, PartialKeys(pp))
        /\ \A v, q : <<v, q>> \in Of(u, PartialKeys(pp)) <=>
             v = u /\ q \in PartialKeys(pp) \cap Codenames
    BY <1>4, <1>5, OfIs DEF Good, AssetState
  <2>2. Good(a, stored)
    <3> HIDE DEF cleaned
    <3>1. cleaned.partial \cup Of(u, PartialKeys(pp)) \in SUBSET Pair
      BY <1>5, OfIs DEF Good, AssetState
    <3>2. QED
      BY <1>5, <3>1, CleanGood
  <2>3. Assigned(s, a, u, p, deny, pp) =
          IF "add_submissions" \in PartialKeys(pp)
          THEN Grant(stored, a, u, "add_submissions") ELSE stored
    BY <1>6 DEF Assigned, UpdatePartial, t, Partial
  <2>4. "add_submissions" \in PartialKeys(pp) => "add_submissions" \in Assignable(a)
    BY <1>6, AssignableTable DEF PartialKeys, Partial
  <2> HIDE DEF cleaned, stored
  <2>5. Keeps(t, stored)
    BY <2>1 DEF Keeps, Told
  <2>6. /\ PartialKeys(pp) \cap Codenames # {}
        /\ PartialKeys(pp) \subseteq SubmissionPerms
        /\ \A q \in PartialKeys(pp) : Implied(q) \cap SubmissionPerms \subseteq PartialKeys(pp)
        /\ SubmissionPerms \subseteq Codenames
    BY <1>6, ImpliedTransitive, CodenamesAssumption DEF PartialKeys, SubmissionPerms
  <2>7. ASSUME Fine(s) PROVE Fine(stored)
    <3>1. RestrictedTo(stored, u)
      BY <1>4, <2>1, <2>6 DEF RestrictedTo
    <3>2. ASSUME NEW v \in Users, v # u PROVE RestrictedTo(stored, v)
      BY <1>2, <1>4, <2>1, <2>7, <3>2 DEF RestrictedTo
    <3>3. QED
      BY <3>1, <3>2
  <2>8. ASSUME "add_submissions" \in PartialKeys(pp)
        PROVE  /\ Keeps(stored, Grant(stored, a, u, "add_submissions"))
               /\ Fine(stored) => Fine(Grant(stored, a, u, "add_submissions"))
    BY <2>2, <2>4, <2>8, GrantKeeps DEF Partial
  <2>9. QED
    BY <1>2, <2>3, <2>5, <2>7, <2>8 DEF Keeps
<1>7. CASE p \in CONTRADICTORY_PERMISSIONS[Partial]
  <2>1. Assigned(s, a, u, p, deny, pp) = cleaned /\ p # Partial
    BY <1>7, PartialTable DEF Assigned, UpdatePartial, t, Partial
  <2> HIDE DEF cleaned
  <2>2. Keeps(t, cleaned)
    BY <1>4 DEF Keeps, Told
  <2>3. deny \/ <<u, Partial>> \notin t.granted
    <3>1. CASE Partial \in Codenames
      BY <1>2, <1>3, <1>7, <3>1 DEF Coherent
    <3>2. CASE Partial \notin Codenames
      BY <1>3, <3>2 DEF AssetState, Pair
    <3>3. QED
      BY <3>1, <3>2
  <2>4. ASSUME Fine(s), NEW v \in Users PROVE RestrictedTo(cleaned, v)
    <3>1. RestrictedTo(t, v)
      BY <1>2, <2>1, <2>4
    <3>2. QED
      BY <1>2, <1>4, <1>7, <2>3, <3>1 DEF RestrictedTo
  <2>5. QED
    BY <1>2, <2>1, <2>2, <2>4 DEF Keeps
<1>8. CASE p \notin {Partial} \cup CONTRADICTORY_PERMISSIONS[Partial]
  <2>1. Assigned(s, a, u, p, deny, pp) = t
    BY <1>8 DEF Assigned, UpdatePartial, t, Partial
  <2>2. QED
    BY <1>2, <1>8, <2>1
<1>9. QED
  BY <1>6, <1>7, <1>8

(* What is inherited stays when a row goes.                                *)
LEMMA CleanPartialInherits ==
  ASSUME NEW s \in AssetState, NEW u, NEW p
  PROVE  CleanPartial(s, u, p).inherited = s.inherited
BY DEF CleanPartial, AssetState

(* The row a removal deletes restricted nothing any more, or never did.    *)
LEMMA RemovedKeeps ==
  ASSUME NEW a \in Assets, NEW s, Good(a, s),
         NEW u \in Users, u # Owner[a], NEW p \in Codenames, <<u, p>> \in Listed(s)
  PROVE  /\ Keeps(s, CleanPartial(Revoke(s, a, u, p), u, p))
         /\ <<u, p>> \notin CleanPartial(Revoke(s, a, u, p), u, p).granted
         /\ <<u, p>> \in s.inherited => <<u, p>> \in CleanPartial(Revoke(s, a, u, p), u, p).denied
         /\ (\A v \in Users : RestrictedTo(s, v)) =>
              \A v \in Users : RestrictedTo(CleanPartial(Revoke(s, a, u, p), u, p), v)
<1> DEFINE r == Revoke(s, a, u, p)
           cleaned == [r EXCEPT !.partial = @ \ Of(u, Codenames)]
<1>1. /\ Good(a, r) /\ r \in AssetState /\ Keeps(s, r)
      /\ <<u, p>> \notin r.granted /\ r.granted \subseteq s.granted
      /\ <<u, p>> \in s.inherited => <<u, p>> \in r.denied
      /\ \A v \in Users : RestrictedTo(s, v) => RestrictedTo(r, v)
  BY RevokeGood, RevokeKeeps DEF Good
<1> HIDE DEF r
<1>2. CASE p \in {Partial} \cup CONTRADICTORY_PERMISSIONS[Partial]
  <2>1. CleanPartial(r, u, p) = cleaned
    BY <1>2 DEF CleanPartial, Partial
  <2>2. cleaned.granted = r.granted /\ cleaned.denied = r.denied
    BY <1>1 DEF AssetState
  <2>3. <<u, Partial>> \notin r.granted
    <3>1. CASE p = Partial
      BY <1>1, <3>1
    <3>2. CASE p \in CONTRADICTORY_PERMISSIONS[Partial] /\ Partial \in Codenames
      <4>1. s \in AssetState /\ Coherent(a, s) /\ p \notin HERITABLE_PERMISSIONS
        BY <3>2, PartialTable DEF Good
      <4>2. <<u, p>> \in s.granted
        BY <4>1 DEF Coherent, Listed
      <4>3. QED
        BY <1>1, <3>2, <4>1, <4>2 DEF Coherent
    <3>3. CASE Partial \notin Codenames
      BY <1>1, <3>3 DEF AssetState, Pair
    <3>4. QED
      BY <1>2, <3>1, <3>2, <3>3
  <2>4. /\ Keeps(r, cleaned)
        /\ \A v \in Users : RestrictedTo(r, v) => RestrictedTo(cleaned, v)
    BY <1>1, <2>3, CleanKeeps
  <2> HIDE DEF cleaned
  <2>5. QED
    BY <1>1, <2>1, <2>2, <2>4 DEF Keeps, r
<1>3. CASE p \notin {Partial} \cup CONTRADICTORY_PERMISSIONS[Partial]
  <2>1. CleanPartial(r, u, p) = r
    BY <1>3 DEF CleanPartial, Partial
  <2>2. QED
    BY <1>1, <2>1 DEF r
<1>4. QED
  BY <1>2, <1>3

-----------------------------------------------------------------------------
(***************************************************************************)
(* The requests.                                                           *)
(***************************************************************************)

(* t differs from s in what is inherited, at most.                         *)
Alike(s, t) ==
  /\ t.granted = s.granted /\ t.denied = s.denied /\ t.partial = s.partial
  /\ t.kc = s.kc /\ t.deployed = s.deployed

(* What is inherited matters to neither.                                   *)
LEMMA AlikeKeeps ==
  ASSUME NEW s, NEW t, Alike(s, t)
  PROVE  /\ Keeps(s, t)
         /\ \A v \in Users : RestrictedTo(s, v) => RestrictedTo(t, v)
BY DEF Alike, Keeps, Told, RestrictedTo

(* A recalculation changes what is inherited, and nothing else,            *)
LEMMA RecalculatedAlike ==
  ASSUME NEW P, P \in [Assets -> AssetState], NEW par, NEW S, NEW x \in Assets
  PROVE  Alike(P[x], Recalculated(P, par, S)[x])
<1> DEFINE I == InheritedRows(x, ParentPerms(P, par, x))
<1>1. Recalculated(P, par, S)[x] = IF x \in S THEN [P[x] EXCEPT !.inherited = I] ELSE P[x]
  BY DEF Recalculated
<1> HIDE DEF I
<1>2. QED
  BY <1>1 DEF Alike, AssetState

(* at every level.                                                         *)
LEMMA DescendantsAlike ==
  ASSUME NEW P, P \in [Assets -> AssetState], AllGood(P),
         NEW par \in [Assets -> Assets \cup {NoParent}], NEW a, NEW x \in Assets
  PROVE  Alike(P[x], DescendantsRecalculated(P, par, a)[x])
<1> DEFINE Q == Recalculated(P, par, Children(par, {a}))
<1>1. Q \in [Assets -> AssetState] /\ Alike(P[x], Q[x])
  BY RecalculatedGood, RecalculatedAlike DEF AllGood
<1> HIDE DEF Q
<1>2. Alike(Q[x], DescendantsRecalculated(P, par, a)[x])
  BY <1>1, RecalculatedAlike DEF DescendantsRecalculated, Q
<1>3. QED
  BY <1>1, <1>2 DEF Alike

(* Restricted row by row, on every asset.                                  *)
AllRestricted(P) == \A x \in Assets, v \in Users : RestrictedTo(P[x], v)

(* A copy has changed nothing of any asset but its target, what they       *)
(* inherit apart.                                                          *)
CopiesElsewhere(saved, t) == \A x \in Assets \ {t} : Alike(saved[x], perms[x])

(* The inductive invariant.                                                *)
RInv ==
  /\ IInv
  /\ Nested(parent)
  /\ AllRestricted(perms)
  /\ tx.active => AllRestricted(tx.saved) /\ CopiesElsewhere(tx.saved, tx.target)

(* RInv holds at first.                                                    *)
LEMMA InitRInv == Init => RInv
<1> SUFFICES ASSUME Init PROVE RInv
  OBVIOUS
<1>1. IInv /\ Nested(parent)
  BY InitHInv DEF HInv
<1>2. AllRestricted(perms)
  BY DEF Init, Fresh, AllRestricted, RestrictedTo
<1>3. ~tx.active
  BY DEF Init, NoTx
<1>4. QED
  BY <1>1, <1>2, <1>3 DEF RInv

(* When the rows of one asset are replaced and some recalculated, what     *)
(* holds of the new rows and of the others holds of all.                   *)
LEMMA ReplacedKeeps ==
  ASSUME RInv, NEW a \in Assets, NEW s, Good(a, s), \A v \in Users : RestrictedTo(s, v),
         NEW P, P \in {[perms EXCEPT ![a] = s],
                       DescendantsRecalculated([perms EXCEPT ![a] = s], parent, a)}
  PROVE  /\ AllRestricted(P)
         /\ Alike(s, P[a])
         /\ \A x \in Assets \ {a} : Alike(perms[x], P[x])
<1> DEFINE Q == [perms EXCEPT ![a] = s]
<1>1. /\ Q \in [Assets -> AssetState] /\ AllGood(Q)
      /\ parent \in [Assets -> Assets \cup {NoParent}]
  BY DEF RInv, IInv, TypeOK, AllGood, Good
<1>2. Q[a] = s /\ \A x \in Assets \ {a} : Q[x] = perms[x]
  BY DEF RInv, IInv, TypeOK
<1>3. P \in {Q, DescendantsRecalculated(Q, parent, a)}
  OBVIOUS
<1> HIDE DEF Q
<1>4. \A x \in Assets : Alike(Q[x], P[x])
  BY <1>1, <1>3, DescendantsAlike DEF Alike
<1>5. AllRestricted(Q)
  BY <1>2 DEF RInv, AllRestricted
<1>6. QED
  BY <1>2, <1>4, <1>5, AlikeKeeps DEF AllRestricted

(* Every request, step of a copy and rollback keeps RInv; and KoBoCAT      *)
(* still knows, on every asset whose request was not undone, what it knew. *)
LEMMA NextRInv ==
  ASSUME RInv, [Next]_vars
  PROVE  /\ RInv'
         /\ \A x \in Assets : Told(perms[x]) /\ ~Undone(x) => Told(perms'[x])
<1>0. /\ IInv /\ IInv' /\ TypeOK /\ AllGood(perms) /\ AllRestricted(perms) /\ Nested(parent)
      /\ \A x \in Assets : perms[x] \in AssetState
      /\ parent' \in [Assets -> Assets \cup {NoParent}]
  BY NextIInv DEF RInv, IInv, TypeOK
<1>1. ASSUME NEW a \in Assets, NEW par \in Assets \cup {NoParent}, Save(a, par)
      PROVE  RInv' /\ \A x \in Assets : Told(perms[x]) => Told(perms'[x])
  <2> DEFINE Q == Recalculated(perms, parent', {a})
  <2>1. Q \in [Assets -> AssetState] /\ AllGood(Q) /\ \A x \in Assets : Alike(perms[x], Q[x])
    BY <1>0, RecalculatedGood, RecalculatedAlike DEF TypeOK, AllGood
  <2>2. perms' = DescendantsRecalculated(Q, parent', a) /\ ~tx.active /\ tx' = tx /\ Nested(parent')
    BY <1>1 DEF Save
  <2> HIDE DEF Q
  <2>3. \A x \in Assets : Alike(Q[x], perms'[x])
    BY <1>0, <2>1, <2>2, DescendantsAlike
  <2>4. \A x \in Assets : Alike(perms[x], perms'[x])
    BY <2>1, <2>3 DEF Alike
  <2>5. QED
    BY <1>0, <2>2, <2>4, AlikeKeeps DEF RInv, AllRestricted, Keeps
<1>2. ASSUME NEW a \in Assets, NEW u \in Users, NEW p \in Codenames,
             NEW pp \in PartialChoices \cup {{}}, AssignPerm(a, u, p, pp)
      PROVE  RInv' /\ \A x \in Assets : Told(perms[x]) => Told(perms'[x])
  <2> DEFINE s == Assigned(perms[a], a, u, p, FALSE, pp)
  <2>1. /\ ~tx.active /\ tx' = tx /\ parent' = parent /\ u # Owner[a] /\ p \in Assignable(a)
        /\ perms' \in {[perms EXCEPT ![a] = s],
                       DescendantsRecalculated([perms EXCEPT ![a] = s], parent, a)}
        /\ p = Partial => pp # {}
    BY <1>2 DEF AssignPerm, AssignFails, AfterAssign, Partial
  <2>2. p = Partial => pp \subseteq SubmissionPerms
    BY <2>1, PartialAssumption
  <2>3. Good(a, s) /\ Keeps(perms[a], s) /\ \A v \in Users : RestrictedTo(s, v)
    BY <1>0, <2>1, <2>2, AssignedGood, AssignedKeeps DEF AllGood, AllRestricted
  <2> HIDE DEF s
  <2>4. /\ AllRestricted(perms') /\ Alike(s, perms'[a])
        /\ \A x \in Assets \ {a} : Alike(perms[x], perms'[x])
    BY <2>1, <2>3, ReplacedKeeps
  <2>5. QED
    BY <1>0, <2>1, <2>3, <2>4, AlikeKeeps DEF RInv, Keeps
<1>3. ASSUME NEW a \in Assets, NEW u \in Users, NEW p \in Codenames, RemovePerm(a, u, p)
      PROVE  RInv' /\ \A x \in Assets : Told(perms[x]) /\ ~Undone(x) => Told(perms'[x])
  <2> DEFINE s == CleanPartial(Revoke(perms[a], a, u, p), u, p)
  <2>1. /\ ~tx.active /\ tx' = tx /\ parent' = parent
        /\ u # Owner[a] /\ <<u, p>> \in Listed(perms[a])
        /\ perms' = IF RevokeFails(perms[a], a, u, p) THEN [perms EXCEPT ![a].kc = s.kc]
                    ELSE DescendantsRecalculated([perms EXCEPT ![a] = s], parent, a)
    BY <1>3 DEF RemovePerm, AfterRemove
  <2>2. Good(a, s) /\ Keeps(perms[a], s) /\ \A v \in Users : RestrictedTo(s, v)
    BY <1>0, <2>1, RevokeGood, CleanPartialGood, RemovedKeeps DEF AllGood, AllRestricted
  <2> HIDE DEF s
  <2>3. CASE RevokeFails(perms[a], a, u, p)
    <3>1. Undone(a)
      BY <1>3, <2>1, <2>3 DEF Undone
    <3>2. /\ perms'[a] = [perms[a] EXCEPT !.kc = s.kc]
          /\ \A x \in Assets \ {a} : perms'[x] = perms[x]
      BY <1>0, <2>1, <2>3 DEF TypeOK
    <3>3. \A v \in Users : RestrictedTo(perms[a], v) => RestrictedTo(perms'[a], v)
      BY <1>0, <3>2 DEF RestrictedTo, AssetState
    <3>4. QED
      BY <1>0, <2>1, <3>1, <3>2, <3>3 DEF RInv, AllRestricted
  <2>4. CASE ~RevokeFails(perms[a], a, u, p)
    <3>1. /\ AllRestricted(perms') /\ Alike(s, perms'[a])
          /\ \A x \in Assets \ {a} : Alike(perms[x], perms'[x])
      BY <2>1, <2>2, <2>4, ReplacedKeeps
    <3>2. QED
      BY <1>0, <2>1, <2>2, <3>1, AlikeKeeps DEF RInv, Keeps
  <2>5. QED
    BY <2>3, <2>4
<1>4. ASSUME NEW a \in Assets, Deploy(a)
      PROVE  RInv' /\ \A x \in Assets : Told(perms[x]) => Told(perms'[x])
  <2> DEFINE K == perms[a].kc
                    \cup {x \in Effective(perms[a]) : x[1] # Owner[a] /\ x[2] \in KC(x[1])}
             s == [perms[a] EXCEPT !.deployed = TRUE, !.kc = K]
  <2>1. ~tx.active /\ tx' = tx /\ parent' = parent /\ perms' = [perms EXCEPT ![a] = s]
    BY <1>0, <1>4 DEF Deploy, TypeOK, AssetState
  <2>2. K \subseteq Pair
    BY <1>0, EffectiveIs DEF AllGood, Good, AssetState
  <2> HIDE DEF K
  <2>3. /\ s.granted = perms[a].granted /\ s.denied = perms[a].denied
        /\ s.partial = perms[a].partial /\ s.kc = K
    BY <1>0 DEF AssetState
  <2>4. Good(a, s)
    BY <1>0, <2>2, CleanGood DEF AllGood
  <2> HIDE DEF s
  <2>5. Told(s)
    <3>1. ASSUME NEW v \in Users, NEW p \in Codenames, <<v, p>> \in s.granted, p \in KC(v)
          PROVE  <<v, p>> \in s.kc
      <4>1. v # Owner[a] /\ <<v, p>> \notin perms[a].denied
        BY <1>0, <2>3, <3>1 DEF AllGood, Good, Coherent
      <4>2. <<v, p>> \in Effective(perms[a])
        BY <1>0, <2>3, <3>1, <4>1, EffectiveIs, KCTable DEF AllGood
      <4>3. QED
        BY <2>3, <3>1, <4>1, <4>2 DEF K
    <3>2. QED
      BY <3>1 DEF Told
  <2>6. \A v \in Users : RestrictedTo(s, v)
    BY <1>0, <2>3 DEF AllRestricted, RestrictedTo
  <2>7. /\ AllRestricted(perms') /\ Alike(s, perms'[a])
        /\ \A x \in Assets \ {a} : Alike(perms[x], perms'[x])
    BY <2>1, <2>4, <2>6, ReplacedKeeps
  <2>8. QED
    BY <1>0, <2>1, <2>5, <2>7, AlikeKeeps DEF RInv, Keeps
<1>5. ASSUME NEW t \in Assets, NEW src \in CopySources, CopyBegin(t, src)
      PROVE  RInv' /\ \A x \in Assets : Told(perms[x]) => Told(perms'[x])
  <2>1. /\ tx'.saved = perms /\ tx'.target = t /\ parent' = parent
        /\ \A x \in Assets \ {t} : perms'[x] = perms[x]
    BY <1>0, <1>5 DEF CopyBegin, TypeOK
  <2>2. /\ perms'[t].granted = OwnRows(t, perms[t].granted)
        /\ perms'[t].partial = perms[t].partial
    BY <1>0, <1>5 DEF CopyBegin, TypeOK, AssetState
  <2>3. perms'[t].granted = {}
    BY <1>0, <2>2 DEF AllGood, Good, Coherent, OwnRows, AssetState, Pair
  <2>4. Told(perms'[t]) /\ \A v \in Users : RestrictedTo(perms'[t], v)
    BY <1>0, <2>2, <2>3 DEF Told, AllRestricted, RestrictedTo
  <2>5. AllRestricted(perms') /\ \A x \in Assets \ {t} : Alike(perms[x], perms'[x])
    BY <1>0, <2>1, <2>4 DEF AllRestricted, Alike
  <2>6. QED
    BY <1>0, <2>1, <2>4, <2>5 DEF RInv, CopiesElsewhere
<1>6. CASE CopyNext
  <2>1. PICK r \in tx.todo : CopyStep(r)
    BY <1>6 DEF CopyNext
  <2>2. tx.active /\ parent' = parent /\ tx \in CopyTx
    BY <1>0, <1>6, TxActive DEF CopyNext, TypeOK
  <2>3. /\ tx.target \in Assets /\ tx.source \in Assets
        /\ tx.saved \in [Assets -> AssetState] /\ AllRestricted(tx.saved)
        /\ CopiesElsewhere(tx.saved, tx.target)
        /\ r \in CopyRow /\ r.user # Owner[tx.target]
    BY <2>1, <2>2 DEF CopyTx, RInv, IInv
  <2> DEFINE pp == IF r.perm = "partial_submissions"
                   THEN PartialRow(perms[tx.source], r.user) ELSE {}
  <2>4. CASE AssignFails(perms[tx.target], tx.target, r.user, r.perm, r.deny, pp)
    <3>1. /\ tx' = NoTx
          /\ perms' = [x \in Assets |-> [tx.saved[x] EXCEPT !.kc = perms[x].kc]]
      BY <2>1, <2>4 DEF CopyStep
    <3>2. ~tx'.active /\ Undone(tx.target)
      BY <2>1, <2>2, <3>1, TxActive DEF TypeOK, Undone
    <3>3. ASSUME NEW x \in Assets
          PROVE  /\ \A v \in Users : RestrictedTo(tx.saved[x], v) => RestrictedTo(perms'[x], v)
                 /\ x # tx.target => Alike(perms[x], perms'[x])
      BY <2>3, <3>1 DEF RestrictedTo, AssetState, CopiesElsewhere, Alike
    <3>4. QED
      BY <1>0, <2>2, <2>3, <3>2, <3>3, AlikeKeeps DEF RInv, AllRestricted, Keeps
  <2>5. CASE ~AssignFails(perms[tx.target], tx.target, r.user, r.perm, r.deny, pp)
    <3> DEFINE s == Assigned(perms[tx.target], tx.target, r.user, r.perm, r.deny, pp)
    <3>1. /\ r.user \in Users /\ r.deny \in BOOLEAN /\ r.perm \in Assignable(tx.target)
          /\ r.perm = Partial => pp # {}
      BY <2>3, <2>5 DEF CopyRow, AssignFails, Partial
    <3>2. r.perm = Partial => pp \subseteq SubmissionPerms
      BY <1>0, <2>3, <3>1 DEF AllRestricted, RestrictedTo, PartialRow
    <3>3. /\ perms' \in
               {[perms EXCEPT ![tx.target] = s],
                DescendantsRecalculated([perms EXCEPT ![tx.target] = s], parent, tx.target)}
          /\ tx' = [tx EXCEPT !.todo = tx.todo \ {r}]
      BY <2>1, <2>5 DEF CopyStep, AfterAssign
    <3> HIDE DEF pp
    <3>4. /\ Good(tx.target, s) /\ Keeps(perms[tx.target], s)
          /\ \A v \in Users : RestrictedTo(s, v)
      BY <1>0, <2>3, <3>1, <3>2, AssignedGood, AssignedKeeps DEF AllGood, AllRestricted
    <3> HIDE DEF s
    <3>5. /\ AllRestricted(perms') /\ Alike(s, perms'[tx.target])
          /\ \A x \in Assets \ {tx.target} : Alike(perms[x], perms'[x])
      BY <2>3, <3>3, <3>4, ReplacedKeeps
    <3>6. tx'.saved = tx.saved /\ tx'.target = tx.target
      BY <2>2, <3>3 DEF CopyTx
    <3>7. CopiesElsewhere(tx.saved, tx.target)'
      BY <2>3, <3>5, <3>6 DEF CopiesElsewhere, Alike
    <3>8. QED
      BY <1>0, <2>2, <2>3, <3>4, <3>5, <3>6, <3>7, AlikeKeeps DEF RInv, Keeps
  <2>6. QED
    BY <2>4, <2>5
<1>7. CASE CopyEnd
  <2>1. /\ perms' = Recalculated(perms, parent, {tx.target})
        /\ tx' = NoTx /\ parent' = parent
    BY <1>7 DEF CopyEnd
  <2>2. \A x \in Assets : Alike(perms[x], perms'[x])
    BY <1>0, <2>1, RecalculatedAlike DEF TypeOK
  <2>3. QED
    BY <1>0, <2>1, <2>2, TxActive, AlikeKeeps DEF RInv, AllRestricted, Keeps, TypeOK
<1>8. CASE UNCHANGED vars
  BY <1>0, <1>8 DEF vars, RInv, AllRestricted, CopiesElsewhere
<1>9. QED
  BY <1>1, <1>2, <1>3, <1>4, <1>5, <1>6, <1>7, <1>8 DEF Next

-----------------------------------------------------------------------------
(***************************************************************************)
(* The theorems.                                                           *)
(***************************************************************************)

(* RInv holds in every reachable state.                                    *)
LEMMA AlwaysRInv == Spec => []RInv
<1>1. RInv /\ [Next]_vars => RInv'
  BY NextRInv
<1>2. QED
  BY <1>1, InitRInv, PTL DEF Spec

(* Whoever has row-level access has a row that restricts it, unless full   *)
(* access is denied to them; and the row lets them view what they may      *)
(* change, delete or validate.                                             *)
THEOREM RowLevelRestricted == Spec => []RowLevelIsRestricted
<1>1. RInv => RowLevelIsRestricted
  <2> SUFFICES ASSUME RInv, NEW a \in Assets, NEW u \in Users
               PROVE  /\ \A q \in PartialRow(perms[a], u) :
                           Implied(q) \cap SubmissionPerms \subseteq PartialRow(perms[a], u)
                      /\ Holds(a, u, Partial) =>
                           \/ PartialRow(perms[a], u) # {}
                           \/ \E q \in CONTRADICTORY_PERMISSIONS[Partial] :
                                <<u, q>> \in perms[a].denied
    BY DEF RowLevelIsRestricted, Partial
  <2>1. RestrictedTo(perms[a], u) /\ Good(a, perms[a])
    BY DEF RInv, AllRestricted, IInv, AllGood
  <2>2. \A q : q \in PartialRow(perms[a], u) <=> q \in Codenames /\ <<u, q>> \in perms[a].partial
    BY DEF PartialRow
  <2>3. Holds(a, u, Partial) => <<u, Partial>> \in perms[a].granted
    <3>1. Holds(a, u, Partial) =>
            Partial \in Codenames /\ <<u, Partial>> \in perms[a].granted \cup perms[a].inherited
      BY <2>1, EffectiveIs DEF Holds, Pair
    <3>2. \A v \in Users : <<v, Partial>> \notin perms[a].inherited
      BY <2>1, PartialTable DEF Good, Coherent, AssetState, Pair, Partial
    <3>3. QED
      BY <3>1, <3>2
  <2>4. SubmissionPerms \subseteq Codenames
    BY DEF SubmissionPerms
  <2>5. QED
    BY <2>1, <2>2, <2>3, <2>4 DEF RestrictedTo
<1>2. QED
  BY <1>1, AlwaysRInv, PTL

(* KoBoCAT goes on knowing what KPI grants, but where a request is undone: *)
(* neither a copy, of which each row is assigned on its own, nor what a    *)
(* request implies, contradicts or passes on leaves it behind.             *)
THEOREM KobocatKeepsUp == Spec => KobocatStaysComplete
<1>1. RInv /\ [Next]_vars =>
        [\A a \in Assets : KobocatKnows(perms, a) /\ ~KobocatKnows(perms', a) => Undone(a)]_vars
  <2> SUFFICES ASSUME RInv, [Next]_vars, NEW a \in Assets, KobocatKnows(perms, a), ~Undone(a)
               PROVE  KobocatKnows(perms', a)
    OBVIOUS
  <2>1. Good(a, perms[a]) /\ Good(a, perms'[a])
    BY NextIInv DEF RInv, IInv, AllGood
  <2>2. Told(perms'[a])
    BY <2>1, ToldIs, NextRInv
  <2>3. QED
    BY <2>1, <2>2, ToldIs
<1>2. QED
  BY <1>1, AlwaysRInv, PTL DEF Spec, KobocatStaysComplete

(* What is removed is gone, granted or inherited: an asset is not among    *)
(* its own descendants, and inherits nothing back when they are            *)
(* recalculated.                                                           *)
THEOREM Removed == Spec => RemovedIsGone
<1>1. RInv =>
        [\A a \in Assets : \A x \in Listed(perms[a]) \cap Effective(perms'[a]) :
           RemovePerm(a, x[1], x[2]) => RevokeFails(perms[a], a, x[1], x[2])]_vars
  <2> SUFFICES ASSUME RInv, NEW a \in Assets,
                      NEW x \in Listed(perms[a]), x \in Effective(perms'[a]),
                      ~RevokeFails(perms[a], a, x[1], x[2]), RemovePerm(a, x[1], x[2])
               PROVE  FALSE
    OBVIOUS
  <2>1. /\ IInv /\ TypeOK /\ AllGood(perms) /\ Good(a, perms[a]) /\ Nested(parent)
        /\ x = <<x[1], x[2]>> /\ x[1] \in Users /\ x[2] \in Codenames
    BY DEF RInv, IInv, AllGood, TypeOK, Listed, AssetState, Pair
  <2> DEFINE u == x[1]
             p == x[2]
             s == CleanPartial(Revoke(perms[a], a, u, p), u, p)
             Q == [perms EXCEPT ![a] = s]
  <2>2. u # Owner[a] /\ perms' = DescendantsRecalculated(Q, parent, a)
    BY DEF RemovePerm, AfterRemove
  <2>3. /\ Good(a, s) /\ <<u, p>> \notin s.granted
        /\ <<u, p>> \in perms[a].inherited => <<u, p>> \in s.denied
        /\ s.inherited \subseteq perms[a].inherited
    <3>1. /\ u \in Users /\ p \in Codenames /\ u # Owner[a] /\ <<u, p>> \in Listed(perms[a])
          /\ perms[a] \in AssetState
      BY <2>1, <2>2 DEF Good
    <3> HIDE DEF u, p
    <3>2. s.inherited \subseteq perms[a].inherited
      <4>1. /\ Revoke(perms[a], a, u, p) \in AssetState
            /\ Revoke(perms[a], a, u, p).inherited \subseteq perms[a].inherited
        BY <3>1, RevokeShrinks DEF Shrinks
      <4>2. QED
        BY <4>1, CleanPartialInherits
    <3>3. Good(a, s)
      BY <2>1, <3>1, RevokeGood, CleanPartialGood
    <3>4. QED
      BY <2>1, <3>1, <3>2, <3>3, RemovedKeeps
  <2> HIDE DEF s, u, p
  <2>4. Q \in [Assets -> AssetState] /\ AllGood(Q) /\ Q[a] = s
    BY <2>1, <2>3 DEF TypeOK, AllGood, Good
  <2> HIDE DEF Q
  <2>5. perms'[a] = s
    <3>1. a \notin Children(parent, {a}) \cup Children(parent, Children(parent, {a}))
      BY <2>1, NestedIsShallow, NoParentAssumption DEF Children, Shallow, TypeOK
    <3>2. Recalculated(Q, parent, Children(parent, {a}))[a] = s
      BY <2>4, <3>1 DEF Recalculated
    <3>3. QED
      BY <2>2, <3>1, <3>2 DEF DescendantsRecalculated, Recalculated
  <2>6. QED
    BY <2>1, <2>3, <2>5 DEF Effective, u, p
<1>2. RInv /\ [Next]_vars =>
        [\A a \in Assets : \A x \in Listed(perms[a]) \cap Effective(perms'[a]) :
           RemovePerm(a, x[1], x[2]) => RevokeFails(perms[a], a, x[1], x[2])]_vars
  BY <1>1
<1>3. QED
  BY <1>2, AlwaysRInv, PTL DEF Spec, RemovedIsGone
=============================================================================
