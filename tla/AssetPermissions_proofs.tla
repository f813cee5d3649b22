----------------------- MODULE AssetPermissions_proofs -----------------------
(***************************************************************************)
(* Proofs about AssetPermissions, for every set of users and of assets,    *)
(* every choice of codenames, every partial assignment and every source of *)
(* copies.                                                                 *)
(*                                                                         *)
(* The inductive invariant IInv says of every asset, and of every asset a  *)
(* copy in progress may restore, that its rows are Coherent.  Whether they *)
(* stay so is a question about one asset at a time, which the lemmas on    *)
(* Grant, Deny, Stripped, ... settle; the answer rests on a few facts      *)
(* about the tables.                                                       *)
(*                                                                         *)
(* PInv adds that what the public has anywhere it may have, and that this  *)
(* includes no row-level access.  HInv is about what assets inherit.       *)
(***************************************************************************)
EXTENDS AssetPermissions, TLAPS

-----------------------------------------------------------------------------
(***************************************************************************)
(* The tables.                                                             *)
(***************************************************************************)

(* The closure of IMPLIED_PERMISSIONS, written out.                        *)
LEMMA ImpliedIs ==
  /\ Implied("view_asset") = {}
  /\ Implied("change_asset") = {"view_asset"}
  /\ Implied("discover_asset") = {"view_asset"}
  /\ Implied("manage_asset") = AllCodenames \ {"manage_asset", "partial_submissions"}
  /\ Implied("add_submissions") = {"view_asset"}
  /\ Implied("view_submissions") = {"view_asset"}
  /\ Implied("partial_submissions") = {"view_asset"}
  /\ Implied("change_submissions") = {"view_submissions", "add_submissions", "view_asset"}
  /\ Implied("delete_submissions") = {"view_submissions", "view_asset"}
  /\ Implied("validate_submissions") = {"view_submissions", "view_asset"}
<1>1. /\ IMPLIED_PERMISSIONS["view_asset"] = {}
      /\ IMPLIED_PERMISSIONS["change_asset"] = {"view_asset"}
      /\ IMPLIED_PERMISSIONS["discover_asset"] = {"view_asset"}
      /\ IMPLIED_PERMISSIONS["manage_asset"] =
           AllCodenames \ {"manage_asset", "partial_submissions"}
      /\ IMPLIED_PERMISSIONS["add_submissions"] = {"view_asset"}
      /\ IMPLIED_PERMISSIONS["view_submissions"] = {"view_asset"}
      /\ IMPLIED_PERMISSIONS["partial_submissions"] = {"view_asset"}
      /\ IMPLIED_PERMISSIONS["change_submissions"] = {"view_submissions", "add_submissions"}
      /\ IMPLIED_PERMISSIONS["delete_submissions"] = {"view_submissions"}
      /\ IMPLIED_PERMISSIONS["validate_submissions"] = {"view_submissions"}
  BY DEF IMPLIED_PERMISSIONS, AllCodenames
<1>2. QED
  BY <1>1 DEF Implied, AllCodenames

(* What tells the other proofs enough about the implied permissions: the   *)
(* closure stays in the table and is transitive, nothing implies row-level *)
(* access, everything but view_asset implies view_asset, and an anonymous  *)
(* user may hold what is implied by anything the user may hold.            *)
LEMMA ImpliedTransitive ==
  ASSUME NEW p \in AllCodenames
  PROVE  /\ Implied(p) \subseteq AllCodenames
         /\ "partial_submissions" \notin Implied(p)
         /\ \A q \in Implied(p) : Implied(q) \subseteq Implied(p)
         /\ p \in HERITABLE_PERMISSIONS => Implied(p) \subseteq {"view_asset"}
         /\ p = "change_asset" => "view_asset" \in Implied(p)
         /\ p \in ALLOWED_ANONYMOUS_PERMISSIONS =>
              Implied(p) \subseteq ALLOWED_ANONYMOUS_PERMISSIONS
BY ImpliedIs DEF AllCodenames, HERITABLE_PERMISSIONS, ALLOWED_ANONYMOUS_PERMISSIONS

(* A permission with what it implies contradicts nothing of its own, and   *)
(* what implies a contradicting permission contradicts as well.            *)
LEMMA ContradictoryTable ==
  ASSUME NEW p \in AllCodenames
  PROVE  /\ CONTRADICTORY_PERMISSIONS[p] \subseteq AllCodenames \ HERITABLE_PERMISSIONS
         /\ \A q \in {p} \cup Implied(p) :
              CONTRADICTORY_PERMISSIONS[q] \cap ({p} \cup Implied(p)) = {}
         /\ \A c \in CONTRADICTORY_PERMISSIONS[p], r \in AllCodenames :
              c \in Implied(r) => r \in CONTRADICTORY_PERMISSIONS[p]
BY ImpliedIs DEF AllCodenames, HERITABLE_PERMISSIONS, CONTRADICTORY_PERMISSIONS, FullAccess

(* Contradiction is mutual, except that manage_asset does not name         *)
(* partial_submissions: view_submissions, which it implies, does.          *)
LEMMA ContradictionMutual ==
  ASSUME NEW p \in AllCodenames, NEW q \in CONTRADICTORY_PERMISSIONS[p]
  PROVE  \/ p \in CONTRADICTORY_PERMISSIONS[q]
         \/ /\ p = "partial_submissions"
            /\ q = "manage_asset"
            /\ "view_submissions" \in Implied(q)
            /\ "view_submissions" \in CONTRADICTORY_PERMISSIONS[p]
            /\ p \in CONTRADICTORY_PERMISSIONS["view_submissions"]
BY ImpliedIs DEF AllCodenames, CONTRADICTORY_PERMISSIONS, FullAccess

(* What can be inherited is assignable to every type; row-level access and *)
(* the permissions a row names, to surveys only.                           *)
LEMMA AssignableTable ==
  ASSUME NEW a \in Assets
  PROVE  /\ Assignable(a) \subseteq Codenames
         /\ Codenames \cap HERITABLE_PERMISSIONS \subseteq Assignable(a)
         /\ "partial_submissions" \in Assignable(a) =>
              /\ SubmissionPerms \subseteq Assignable(a)
              /\ "view_submissions" \in Assignable(a)
BY TypeAssumption, CodenamesAssumption
   DEF Assignable, ASSIGNABLE_PERMISSIONS_BY_TYPE, AssetTypes, AllCodenames,
       HERITABLE_PERMISSIONS, SubmissionPerms, KC_PERMISSIONS, FullAccess

-----------------------------------------------------------------------------
(***************************************************************************)
(* The rows of one asset.                                                  *)
(***************************************************************************)

Good(a, s) == s \in AssetState /\ Coherent(a, s)

(* Of(u, C) pairs u with the codenames of C that are in use.               *)
LEMMA OfIs ==
  ASSUME NEW u \in Users, NEW C
  PROVE  /\ Of(u, C) \subseteq Pair
         /\ \A v, q : <<v, q>> \in Of(u, C) <=> v = u /\ q \in C \cap Codenames
BY DEF Of, Pair

(* Contrary(C) has what contradicts some member of C.                      *)
LEMMA ContraryIs ==
  ASSUME NEW C
  PROVE  \A c : c \in Contrary(C) <=> \E q \in C : c \in CONTRADICTORY_PERMISSIONS[q]
BY DEF Contrary

(* A grant adds what it implies and takes away what contradicts it, so     *)
(* that the rows stay closed and free of contradictions.                   *)
LEMMA GrantGood ==
  ASSUME NEW a \in Assets, NEW s, Good(a, s),
         NEW u \in Users, u # Owner[a], NEW p \in Assignable(a)
  PROVE  Good(a, Grant(s, a, u, p))
<1> DEFINE W == Including(a, p)
           N == {q \in W : <<u, q>> \notin s.granted}
           X == Contrary(N)
           t == [s EXCEPT !.granted   = (@ \ Of(u, X)) \cup Of(u, W),
                          !.denied    = @ \ Of(u, N \cup X),
                          !.inherited = @ \ Of(u, X),
                          !.kc        = IF s.deployed THEN @ \cup Of(u, N \cap KC(u)) ELSE @]
<1>1. CASE <<u, p>> \in s.granted
  BY <1>1 DEF Grant
<1>2. CASE <<u, p>> \notin s.granted
  <2>1. Grant(s, a, u, p) = t
    BY <1>2 DEF Grant
  <2>2. s \in AssetState /\ Coherent(a, s)
    BY DEF Good
  <2>3. /\ W \subseteq Assignable(a) /\ W \subseteq Codenames /\ W \subseteq AllCodenames
        /\ \A q \in W : Implied(q) \cap Assignable(a) \subseteq W
        /\ \A q \in W : CONTRADICTORY_PERMISSIONS[q] \cap W = {}
    BY AssignableTable, ImpliedTransitive, ContradictoryTable, CodenamesAssumption
       DEF Including
  <2> HIDE DEF W
  <2>4. N \subseteq W /\ \A q \in W : q \in N <=> <<u, q>> \notin s.granted
    OBVIOUS
  <2> HIDE DEF N
  <2>5. /\ \A q \in N : CONTRADICTORY_PERMISSIONS[q] \subseteq X
        /\ \A c \in X : \E q \in N : c \in CONTRADICTORY_PERMISSIONS[q]
    BY ContraryIs
  <2> HIDE DEF X
  <2>6. /\ X \subseteq AllCodenames \ HERITABLE_PERMISSIONS
        /\ X \cap W = {}
        /\ \A c \in X, r \in AllCodenames : c \in Implied(r) => r \in X
    BY <2>3, <2>4, <2>5, ContradictoryTable
  <2>7. /\ \A v, q : <<v, q>> \in Of(u, W) <=> v = u /\ q \in W
        /\ \A v, q : <<v, q>> \in Of(u, X) <=> v = u /\ q \in X \cap Codenames
        /\ \A v, q : <<v, q>> \in Of(u, N \cup X) <=> v = u /\ q \in (N \cup X) \cap Codenames
        /\ Of(u, W) \subseteq Pair /\ Of(u, N \cap KC(u)) \subseteq Pair
    BY <2>3, OfIs
  <2>8. /\ t.granted = (s.granted \ Of(u, X)) \cup Of(u, W)
        /\ t.denied = s.denied \ Of(u, N \cup X)
        /\ t.inherited = s.inherited \ Of(u, X)
        /\ t \in AssetState
    BY <2>2, <2>7 DEF AssetState
  <2> HIDE DEF t
  <2>9. Coherent(a, t)
    <3>1. ASSUME NEW v \in Users, NEW q \in Codenames, <<v, q>> \in t.granted
          PROVE  /\ <<v, q>> \notin t.denied
                 /\ v # Owner[a] /\ q \in Assignable(a)
      BY <2>2, <2>3, <2>4, <2>7, <2>8, <3>1 DEF Coherent
    <3>2. ASSUME NEW v \in Users, NEW q \in Codenames, <<v, q>> \in t.granted,
                 NEW r \in Implied(q) \cap Assignable(a)
          PROVE  <<v, r>> \in t.granted
      BY <2>2, <2>3, <2>6, <2>7, <2>8, <3>2, CodenamesAssumption DEF Coherent
    <3>3. ASSUME NEW v \in Users, NEW q \in Codenames, <<v, q>> \in t.granted,
                 NEW r \in CONTRADICTORY_PERMISSIONS[q]
          PROVE  <<v, r>> \notin t.granted
      <4> SUFFICES ASSUME <<v, r>> \in t.granted PROVE FALSE
        OBVIOUS
      <4>1. q \in AllCodenames /\ r \in AllCodenames /\ r \in Codenames
        BY <2>2, <2>8, CodenamesAssumption DEF AssetState, Pair
      <4>2. ~(<<v, q>> \in s.granted /\ <<v, r>> \in s.granted)
        BY <2>2, <4>1 DEF Coherent
      <4>3. CASE v = u /\ q \in W
        BY <2>3, <2>4, <2>5, <2>7, <2>8, <3>3, <4>1, <4>2, <4>3
      <4>4. CASE v = u /\ q \notin W /\ r \in W
        <5>1. <<u, q>> \in s.granted /\ q \notin X /\ q \in Assignable(a)
          BY <2>2, <2>7, <2>8, <3>3, <4>4 DEF Coherent
        <5>2. r \in N /\ q \notin CONTRADICTORY_PERMISSIONS[r]
          BY <2>4, <2>5, <4>2, <4>4, <5>1
        <5>3. /\ q = "partial_submissions"
              /\ "view_submissions" \in W
              /\ "view_submissions" \in CONTRADICTORY_PERMISSIONS[q]
              /\ q \in CONTRADICTORY_PERMISSIONS["view_submissions"]
          BY <2>3, <3>3, <4>1, <4>4, <5>1, <5>2, ContradictionMutual, AssignableTable
        <5>4. <<u, "view_submissions">> \in s.granted
          BY <2>4, <2>5, <5>1, <5>3
        <5>5. QED
          BY <2>2, <5>1, <5>3, <5>4 DEF Coherent
      <4>5. CASE ~(v = u /\ (q \in W \/ r \in W))
        BY <2>7, <2>8, <3>3, <4>2, <4>5
      <4>6. QED
        BY <4>3, <4>4, <4>5
    <3>4. ASSUME NEW v \in Users, NEW q \in Codenames, <<v, q>> \in t.denied
          PROVE  v # Owner[a]
      BY <2>2, <2>8, <3>4 DEF Coherent
    <3>5. ASSUME NEW v \in Users, NEW q \in Codenames, <<v, q>> \in t.denied,
                 NEW r \in ReverseImplied(q) \cap HERITABLE_PERMISSIONS \cap Codenames
          PROVE  <<v, r>> \in t.denied
      <4>1. q \in Implied(r) /\ r \notin X /\ <<v, q>> \in s.denied /\ <<v, r>> \in s.denied
        BY <2>2, <2>6, <2>8, <3>5 DEF Coherent, ReverseImplied
      <4>2. ASSUME v = u, r \in N PROVE FALSE
        <5>1. q \in W
          BY <2>3, <2>4, <4>1, <4>2, AssignableTable, ImpliedTransitive
             DEF HERITABLE_PERMISSIONS
        <5>2. q \in N
          BY <2>2, <2>4, <4>1, <4>2, <5>1 DEF Coherent
        <5>3. QED
          BY <2>7, <2>8, <3>5, <4>2, <5>2
      <4>3. QED
        BY <2>7, <2>8, <4>1, <4>2
    <3>6. ASSUME NEW v \in Users, NEW q \in Codenames, v # Owner[a], <<v, q>> \in t.inherited
          PROVE  /\ q \in HERITABLE_PERMISSIONS
                 /\ \A r \in Implied(q) \cap Codenames : <<v, r>> \in t.inherited
      BY <2>2, <2>6, <2>7, <2>8, <3>6, CodenamesAssumption, ImpliedTransitive
         DEF Coherent, HERITABLE_PERMISSIONS
    <3>7. \A q \in Codenames : <<Owner[a], q>> \in t.inherited <=>
            q \in Assignable(a) \ {"partial_submissions"}
      BY <2>2, <2>7, <2>8 DEF Coherent
    <3>8. QED
      BY <3>1, <3>2, <3>3, <3>4, <3>5, <3>6, <3>7 DEF Coherent
  <2>10. QED
    BY <2>1, <2>8, <2>9 DEF Good
<1>3. QED
  BY <1>1, <1>2

(* What a removal of p has to remove: p, and whatever of the asset type    *)
(* leads to it by implication.                                             *)
LEMMA RequiringIs ==
  ASSUME NEW a \in Assets, NEW p \in Codenames
  PROVE  /\ p \in Requiring(a, p) /\ Requiring(a, p) \subseteq Codenames
         /\ \A r \in Assignable(a), q \in Requiring(a, p) :
              q \in Implied(r) => r \in Requiring(a, p)
         /\ \A q \in Requiring(a, p) :
              ReverseImplied(q) \cap Assignable(a) \subseteq Requiring(a, p)
BY AssignableTable, ImpliedTransitive, CodenamesAssumption DEF Requiring, ReverseImplied

(* A denial takes away, and denies, what implies the denied permission.    *)
LEMMA DenyGood ==
  ASSUME NEW a \in Assets, NEW s, Good(a, s),
         NEW u \in Users, u # Owner[a], NEW p \in Codenames
  PROVE  /\ Good(a, Deny(s, a, u, p))
         /\ Deny(s, a, u, p).inherited = s.inherited
<1> DEFINE W == Requiring(a, p)
           N == {q \in W : <<u, q>> \notin s.denied}
<1>0. s \in AssetState /\ Coherent(a, s)
  BY DEF Good
<1>1. PICK pruned \in SUBSET Pair :
        Deny(s, a, u, p) =
          IF <<u, p>> \in s.denied THEN [s EXCEPT !.partial = pruned]
          ELSE [s EXCEPT !.granted = @ \ Of(u, N),
                         !.denied  = @ \cup Of(u, W),
                         !.kc      = @ \ (Of(u, N) \cap s.granted),
                         !.partial = pruned]
  BY <1>0 DEF Deny, AssetState
<1>2. CASE <<u, p>> \in s.denied
  BY <1>0, <1>1, <1>2 DEF Good, AssetState, Coherent
<1>3. CASE <<u, p>> \notin s.denied
  <2> DEFINE t == [s EXCEPT !.granted = @ \ Of(u, N),
                            !.denied  = @ \cup Of(u, W),
                            !.kc      = @ \ (Of(u, N) \cap s.granted),
                            !.partial = pruned]
  <2>1. Deny(s, a, u, p) = t
    BY <1>1, <1>3
  <2>2. /\ W \subseteq Codenames
        /\ \A r \in Assignable(a), q \in W : q \in Implied(r) => r \in W
        /\ \A q \in W : ReverseImplied(q) \cap Assignable(a) \subseteq W
    BY RequiringIs
  <2> HIDE DEF W
  <2>3. N \subseteq W /\ \A q \in W : q \in N <=> <<u, q>> \notin s.denied
    OBVIOUS
  <2> HIDE DEF N
  <2>4. /\ \A v, q : <<v, q>> \in Of(u, W) <=> v = u /\ q \in W
        /\ \A v, q : <<v, q>> \in Of(u, N) <=> v = u /\ q \in N
        /\ Of(u, W) \subseteq Pair
    BY <2>2, <2>3, OfIs
  <2>5. /\ t.granted = s.granted \ Of(u, N)
        /\ t.denied = s.denied \cup Of(u, W)
        /\ t.inherited = s.inherited
        /\ t \in AssetState
    BY <1>0, <2>4 DEF AssetState
  <2> HIDE DEF t
  <2>6. Coherent(a, t)
    <3>1. ASSUME NEW v \in Users, NEW q \in Codenames, <<v, q>> \in t.granted
          PROVE  /\ <<v, q>> \notin t.denied
                 /\ v # Owner[a] /\ q \in Assignable(a)
                 /\ \A r \in CONTRADICTORY_PERMISSIONS[q] : <<v, r>> \notin t.granted
      BY <1>0, <2>3, <2>4, <2>5, <3>1 DEF Coherent
    <3>2. ASSUME NEW v \in Users, NEW q \in Codenames, <<v, q>> \in t.granted,
                 NEW r \in Implied(q) \cap Assignable(a)
          PROVE  <<v, r>> \in t.granted
      BY <1>0, <2>2, <2>3, <2>4, <2>5, <3>1, <3>2, AssignableTable DEF Coherent
    <3>3. ASSUME NEW v \in Users, NEW q \in Codenames, <<v, q>> \in t.denied
          PROVE  /\ v # Owner[a]
                 /\ \A r \in ReverseImplied(q) \cap HERITABLE_PERMISSIONS \cap Codenames :
                      <<v, r>> \in t.denied
      BY <1>0, <2>2, <2>4, <2>5, <3>3, AssignableTable DEF Coherent
    <3>4. QED
      BY <1>0, <2>5, <3>1, <3>2, <3>3 DEF Coherent
  <2>7. QED
    BY <2>1, <2>5, <2>6 DEF Good
<1>4. QED
  BY <1>2, <1>3

(* A removal takes what implies the removed permission with it.            *)
LEMMA StrippedGood ==
  ASSUME NEW a \in Assets, NEW s, Good(a, s), NEW u \in Users, NEW p \in Codenames
  PROVE  /\ Good(a, Stripped(s, a, u, p))
         /\ Stripped(s, a, u, p).inherited = s.inherited
<1> DEFINE W == Requiring(a, p)
           t == Stripped(s, a, u, p)
<1>1. s \in AssetState /\ Coherent(a, s)
  BY DEF Good
<1>2. \A r \in Assignable(a), q \in W : q \in Implied(r) => r \in W
  BY RequiringIs
<1>3. W \subseteq Codenames /\ \A v, q : <<v, q>> \in Of(u, W) <=> v = u /\ q \in W
  BY RequiringIs, OfIs
<1>4. /\ t.granted = s.granted \ Of(u, W)
      /\ t.denied = s.denied
      /\ t.inherited = s.inherited
      /\ t \in AssetState
  BY <1>1 DEF Stripped, AssetState
<1> HIDE DEF W, t
<1>5. Coherent(a, t)
  BY <1>1, <1>2, <1>3, <1>4, AssignableTable DEF Coherent
<1>6. QED
  BY <1>4, <1>5 DEF Good, t

(* An inherited grant is replaced with a denial.  That of view_asset goes  *)
(* last: nobody is left with an inherited change_asset alone.              *)
LEMMA DenyInheritedGood ==
  ASSUME NEW a \in Assets, NEW s, Good(a, s),
         NEW u \in Users, u # Owner[a], NEW q \in Codenames,
         q = "view_asset" => <<u, "change_asset">> \notin s.inherited
  PROVE  /\ Good(a, DenyInherited(s, a, u, q))
         /\ <<u, q>> \notin DenyInherited(s, a, u, q).inherited
<1> DEFINE t == [s EXCEPT !.inherited = @ \ Of(u, {q})]
<1>1. s \in AssetState /\ Coherent(a, s)
  BY DEF Good
<1>2. CASE <<u, q>> \in s.inherited
  <2>1. DenyInherited(s, a, u, q) = Deny(t, a, u, q)
    BY <1>2 DEF DenyInherited
  <2>2. /\ t.granted = s.granted
        /\ t.denied = s.denied
        /\ t.inherited = s.inherited \ Of(u, {q})
        /\ t \in AssetState
    BY <1>1 DEF AssetState
  <2>3. \A v, r : <<v, r>> \in Of(u, {q}) <=> v = u /\ r = q
    BY OfIs
  <2> HIDE DEF t
  <2>4. ASSUME NEW v \in Users, NEW r \in Codenames, v # Owner[a], <<v, r>> \in t.inherited,
               NEW i \in Implied(r) \cap Codenames
        PROVE  r \in HERITABLE_PERMISSIONS /\ <<v, i>> \in t.inherited
    BY <1>1, <2>2, <2>3, <2>4, ImpliedIs DEF Coherent, HERITABLE_PERMISSIONS
  <2>5. Coherent(a, t)
    BY <1>1, <2>2, <2>3, <2>4 DEF Coherent
  <2>6. Good(a, t)
    BY <2>2, <2>5 DEF Good
  <2>7. <<u, q>> \notin t.inherited
    BY <2>2, <2>3
  <2>8. Good(a, Deny(t, a, u, q)) /\ Deny(t, a, u, q).inherited = t.inherited
    BY <2>6, DenyGood
  <2>9. QED
    BY <2>1, <2>7, <2>8
<1>3. CASE <<u, q>> \notin s.inherited
  BY <1>3 DEF DenyInherited
<1>4. QED
  BY <1>2, <1>3

(* remove_perm() keeps the rows of an asset coherent.                      *)
LEMMA RevokeGood ==
  ASSUME NEW a \in Assets, NEW s, Good(a, s),
         NEW u \in Users, u # Owner[a], NEW p \in Codenames
  PROVE  Good(a, Revoke(s, a, u, p))
<1> DEFINE t == Stripped(s, a, u, p)
<1>1. Good(a, t)
  BY StrippedGood
<1>2. CASE p = "view_asset" /\ "change_asset" \in Codenames
  <2>1. /\ Good(a, DenyInherited(t, a, u, "change_asset"))
        /\ <<u, "change_asset">> \notin DenyInherited(t, a, u, "change_asset").inherited
    BY <1>1, <1>2, DenyInheritedGood
  <2>2. QED
    BY <1>2, <2>1, DenyInheritedGood DEF Revoke, RevokeImplied
<1>3. CASE p = "view_asset" /\ "change_asset" \notin Codenames
  <2>1. <<u, "change_asset">> \notin t.inherited
    BY <1>1, <1>3 DEF Good, AssetState, Pair
  <2>2. DenyInherited(t, a, u, "change_asset") = t
    BY <2>1 DEF DenyInherited
  <2>3. QED
    BY <1>1, <1>3, <2>1, <2>2, DenyInheritedGood DEF Revoke, RevokeImplied
<1>4. CASE p # "view_asset"
  BY <1>1, <1>4, DenyInheritedGood DEF Revoke, RevokeImplied
<1>5. QED
  BY <1>2, <1>3, <1>4

(* The rows of partial permissions and KoBoCAT's are no part of Coherent.  *)
LEMMA CleanGood ==
  ASSUME NEW a \in Assets, NEW s, Good(a, s), NEW S \in SUBSET Pair
  PROVE  /\ Good(a, [s EXCEPT !.partial = S])
         /\ Good(a, [s EXCEPT !.kc = S])
         /\ \A d \in BOOLEAN : Good(a, [s EXCEPT !.deployed = d, !.kc = S])
BY DEF Good, AssetState, Coherent

(* So does the removal of the row of partial permissions.                  *)
LEMMA CleanPartialGood ==
  ASSUME NEW a \in Assets, NEW s, Good(a, s), NEW u \in Users, NEW p \in Codenames
  PROVE  Good(a, CleanPartial(s, u, p))
<1>1. s.partial \ Of(u, Codenames) \subseteq Pair
  BY DEF Good, AssetState
<1>2. [s EXCEPT !.partial = @ \ Of(u, Codenames)]
        = [s EXCEPT !.partial = s.partial \ Of(u, Codenames)]
  OBVIOUS
<1>3. QED
  BY <1>1, <1>2, CleanGood DEF CleanPartial

(* Everything assign_perm() does to the rows of the asset it is called on. *)
LEMMA AssignedGood ==
  ASSUME NEW a \in Assets, NEW s, Good(a, s),
         NEW u \in Users, u # Owner[a], NEW p \in Assignable(a),
         NEW deny \in BOOLEAN, NEW pp
  PROVE  Good(a, Assigned(s, a, u, p, deny, pp))
<1> DEFINE t == IF deny THEN Deny(s, a, u, p) ELSE Grant(s, a, u, p)
           cleaned == [t EXCEPT !.partial = t.partial \ Of(u, Codenames)]
           stored == [cleaned EXCEPT !.partial = cleaned.partial \cup Of(u, PartialKeys(pp))]
<1>1. p \in Codenames
  BY AssignableTable
<1>2. Good(a, t)
  BY <1>1, DenyGood, GrantGood
<1> HIDE DEF t
<1>3. Good(a, cleaned)
  <2>1. t.partial \ Of(u, Codenames) \subseteq Pair
    BY <1>2 DEF Good, AssetState
  <2>2. QED
    BY <1>2, <2>1, CleanGood
<1>4. Good(a, stored)
  <2> HIDE DEF cleaned
  <2>1. cleaned.partial \cup Of(u, PartialKeys(pp)) \subseteq Pair
    BY <1>3, OfIs DEF Good, AssetState
  <2>2. QED
    BY <1>3, <2>1, CleanGood
<1>5. CASE p = "partial_submissions"
  <2>1. "add_submissions" \in PartialKeys(pp) => "add_submissions" \in Assignable(a)
    BY <1>5, AssignableTable DEF PartialKeys
  <2>2. Assigned(s, a, u, p, deny, pp) =
          IF "add_submissions" \in PartialKeys(pp)
          THEN Grant(stored, a, u, "add_submissions") ELSE stored
    BY <1>5 DEF Assigned, UpdatePartial, t
  <2> HIDE DEF stored
  <2>3. QED
    BY <1>4, <2>1, <2>2, GrantGood
<1>6. CASE p # "partial_submissions"
  <2>1. Assigned(s, a, u, p, deny, pp) \in {cleaned, t}
    BY <1>6 DEF Assigned, UpdatePartial, t
  <2>2. QED
    BY <1>2, <1>3, <2>1
<1>7. QED
  BY <1>5, <1>6

(* What an asset inherits from a coherent parent.                          *)
LEMMA EffectiveIs ==
  ASSUME NEW a \in Assets, NEW s, Good(a, s)
  PROVE  /\ Effective(s) \subseteq Pair
         /\ \A u \in Users, p \in Codenames : <<u, p>> \in Effective(s) <=>
              /\ <<u, p>> \in s.granted \cup s.inherited
              /\ <<u, p>> \notin s.denied
              /\ AllowedTo(u, p)
BY DEF Effective, Good, AssetState

(* Who effectively holds a permission on an asset with coherent rows holds *)
(* what it implies there.                                                  *)
LEMMA EffectiveClosedRow ==
  ASSUME NEW a \in Assets, NEW s, Good(a, s), NEW u \in Users, NEW p \in Codenames,
         <<u, p>> \in Effective(s), NEW q \in Implied(p) \cap Assignable(a)
  PROVE  <<u, q>> \in Effective(s)
<1>1. s \in AssetState /\ Coherent(a, s)
  BY DEF Good
<1>2. p \in AllCodenames /\ q \in Codenames /\ AllowedTo(u, q)
  BY EffectiveIs, AssignableTable, CodenamesAssumption, ImpliedTransitive DEF AllowedTo
<1>3. CASE u = Owner[a]
  BY <1>1, <1>2, <1>3, EffectiveIs, ImpliedTransitive DEF Coherent
<1>4. CASE u # Owner[a] /\ <<u, p>> \in s.granted
  BY <1>1, <1>2, <1>4, EffectiveIs DEF Coherent
<1>5. CASE u # Owner[a] /\ <<u, p>> \in s.inherited
  <2>1. <<u, q>> \in s.inherited
    BY <1>1, <1>2, <1>5 DEF Coherent
  <2>2. <<u, q>> \notin s.denied
    BY <1>1, <1>2, <1>5, EffectiveIs DEF Coherent, ReverseImplied
  <2>3. QED
    BY <1>2, <2>1, <2>2, EffectiveIs
<1>6. QED
  BY <1>3, <1>4, <1>5, EffectiveIs

(* A recalculation gives the owner everything assignable, and others what  *)
(* is heritable of what the collection gives.                              *)
LEMMA InheritedRowsIs ==
  ASSUME NEW a \in Assets, NEW I \in SUBSET Pair
  PROVE  /\ InheritedRows(a, I) \subseteq Pair
         /\ \A u \in Users, p \in Codenames : <<u, p>> \in InheritedRows(a, I) <=>
              IF u = Owner[a] THEN p \in Assignable(a) \ {"partial_submissions"}
              ELSE <<u, p>> \in I /\ p \in HERITABLE_PERMISSIONS
<1>1. Owner[a] \in Users
  BY OwnerAssumption
<1> DEFINE C == Assignable(a) \ {"partial_submissions"}
<1>2. C \cap Codenames = C
  BY AssignableTable
<1>3. InheritedRows(a, I) =
        Of(Owner[a], C) \cup {x \in I : x[1] # Owner[a] /\ x[2] \in HERITABLE_PERMISSIONS}
  BY DEF InheritedRows
<1> HIDE DEF C
<1>4. /\ \A v, q : <<v, q>> \in Of(Owner[a], C) <=> v = Owner[a] /\ q \in C
      /\ Of(Owner[a], C) \subseteq Pair
  BY <1>1, <1>2, OfIs
<1>5. QED
  BY <1>3, <1>4 DEF C

(* Recalculation from the rows of coherent parents.                        *)
LEMMA RecalculatedGood ==
  ASSUME NEW P, P \in [Assets -> AssetState], \A x \in Assets : Good(x, P[x]),
         NEW par \in [Assets -> Assets \cup {NoParent}], NEW S
  PROVE  /\ Recalculated(P, par, S) \in [Assets -> AssetState]
         /\ \A x \in Assets : Good(x, Recalculated(P, par, S)[x])
<1> SUFFICES ASSUME NEW x \in Assets
             PROVE  Good(x, Recalculated(P, par, S)[x])
  BY DEF Good, Recalculated
<1> DEFINE I == ParentPerms(P, par, x)
           t == [P[x] EXCEPT !.inherited = InheritedRows(x, I)]
<1>1. /\ I \subseteq Pair
      /\ \A u \in Users, p \in Codenames : \A q \in Implied(p) \cap Codenames :
           <<u, p>> \in I /\ p \in HERITABLE_PERMISSIONS =>
             <<u, q>> \in I /\ q \in HERITABLE_PERMISSIONS
  <2>1. CASE par[x] = NoParent
    BY <2>1 DEF ParentPerms
  <2>2. CASE par[x] # NoParent
    <3>1. par[x] \in Assets /\ Good(par[x], P[par[x]]) /\ I = Effective(P[par[x]])
      BY <2>2 DEF ParentPerms
    <3>2. ASSUME NEW u \in Users, NEW p \in Codenames, NEW q \in Implied(p) \cap Codenames,
                 <<u, p>> \in I, p \in HERITABLE_PERMISSIONS
          PROVE  <<u, q>> \in I /\ q \in HERITABLE_PERMISSIONS
      <4>1. q \in HERITABLE_PERMISSIONS /\ q \in Assignable(par[x])
        BY <3>1, <3>2, ImpliedTransitive, CodenamesAssumption, AssignableTable
           DEF HERITABLE_PERMISSIONS
      <4>2. QED
        BY <3>1, <3>2, <4>1, EffectiveClosedRow
    <3>3. QED
      BY <3>1, <3>2, EffectiveIs
  <2>3. QED
    BY <2>1, <2>2
<1> HIDE DEF I
<1>2. /\ t.granted = P[x].granted
      /\ t.denied = P[x].denied
      /\ t.inherited = InheritedRows(x, I)
      /\ t \in AssetState
  BY <1>1, InheritedRowsIs DEF AssetState
<1> HIDE DEF t
<1>3. Coherent(x, t)
  <2>1. Coherent(x, P[x]) /\ Owner[x] \in Users
    BY OwnerAssumption DEF Good
  <2>2. ASSUME NEW u \in Users, NEW p \in Codenames, u # Owner[x], <<u, p>> \in t.inherited
        PROVE  /\ p \in HERITABLE_PERMISSIONS
               /\ \A q \in Implied(p) \cap Codenames : <<u, q>> \in t.inherited
    BY <1>1, <1>2, <2>2, InheritedRowsIs
  <2>3. \A p \in Codenames : <<Owner[x], p>> \in t.inherited <=>
          p \in Assignable(x) \ {"partial_submissions"}
    BY <1>1, <1>2, <2>1, InheritedRowsIs
  <2>4. QED
    BY <1>2, <2>1, <2>2, <2>3 DEF Coherent
<1>4. Recalculated(P, par, S)[x] \in {P[x], t}
  BY DEF Recalculated, t, I
<1>5. QED
  BY <1>2, <1>3, <1>4 DEF Good

(* Recalculating everything in and below a keeps all rows coherent.        *)
LEMMA DescendantsGood ==
  ASSUME NEW P, P \in [Assets -> AssetState], \A x \in Assets : Good(x, P[x]),
         NEW par \in [Assets -> Assets \cup {NoParent}], NEW a
  PROVE  /\ DescendantsRecalculated(P, par, a) \in [Assets -> AssetState]
         /\ \A x \in Assets : Good(x, DescendantsRecalculated(P, par, a)[x])
<1> DEFINE Q == Recalculated(P, par, Children(par, {a}))
<1>1. Q \in [Assets -> AssetState] /\ \A x \in Assets : Good(x, Q[x])
  BY RecalculatedGood
<1> HIDE DEF Q
<1>2. QED
  BY <1>1, RecalculatedGood DEF DescendantsRecalculated, Q

-----------------------------------------------------------------------------
(***************************************************************************)
(* The requests.                                                           *)
(***************************************************************************)

(* The inductive invariant.  RowsCoherent is not inductive as it stands: a *)
(* copy that fails brings back the rows saved when it began, and assigns   *)
(* permissions to whom its todo list names, who must not be the owner.     *)
AllGood(P) == \A a \in Assets : Good(a, P[a])

(* The inductive invariant.                                                *)
IInv ==
  /\ TypeOK
  /\ AllGood(perms)
  /\ tx.active =>
       /\ AllGood(tx.saved)
       /\ \A r \in tx.todo : r.user # Owner[tx.target]

(* The rows of a new asset are coherent.                                   *)
LEMMA FreshGood ==
  ASSUME NEW a \in Assets
  PROVE  Good(a, Fresh(a))
<1>1. Fresh(a) \in AssetState
  BY InheritedRowsIs DEF Fresh, AssetState
<1>2. Coherent(a, Fresh(a))
  BY InheritedRowsIs, OwnerAssumption DEF Fresh, Coherent
<1>3. QED
  BY <1>1, <1>2 DEF Good

(* A copy in progress is what the type of tx says of one.                  *)
LEMMA TxActive ==
  ASSUME tx \in {NoTx} \cup CopyTx
  PROVE  /\ ~tx.active => tx = NoTx
         /\ tx.active => tx \in CopyTx
         /\ ~NoTx.active
<1>1. NoTx.active = FALSE
  BY DEF NoTx
<1>2. tx \in CopyTx => tx.active = TRUE
  BY DEF CopyTx
<1>3. QED
  BY <1>1, <1>2

(* The effect of assign_perm() of a non-owner.                             *)
LEMMA AfterAssignGood ==
  ASSUME IInv, NEW a \in Assets, NEW u \in Users, u # Owner[a],
         NEW p \in Assignable(a), NEW deny \in BOOLEAN, NEW pp
  PROVE  /\ AfterAssign(perms, a, u, p, deny, pp) \in [Assets -> AssetState]
         /\ AllGood(AfterAssign(perms, a, u, p, deny, pp))
<1> DEFINE s == Assigned(perms[a], a, u, p, deny, pp)
           Q == [perms EXCEPT ![a] = s]
<1>1. Good(a, s)
  BY AssignedGood DEF IInv, AllGood
<1> HIDE DEF s
<1>2. Q \in [Assets -> AssetState] /\ AllGood(Q)
  BY <1>1 DEF IInv, TypeOK, AllGood, Good
<1>3. AfterAssign(perms, a, u, p, deny, pp) \in {Q, DescendantsRecalculated(Q, parent, a)}
  BY DEF AfterAssign, s
<1> HIDE DEF Q
<1>4. QED
  BY <1>2, <1>3, DescendantsGood DEF IInv, TypeOK, AllGood

(* The effect of remove_perm() of a non-owner, rolled back or not.         *)
LEMMA AfterRemoveGood ==
  ASSUME IInv, NEW a \in Assets, NEW u \in Users, u # Owner[a], NEW p \in Codenames
  PROVE  /\ AfterRemove(perms, a, u, p) \in [Assets -> AssetState]
         /\ AllGood(AfterRemove(perms, a, u, p))
<1> DEFINE s == CleanPartial(Revoke(perms[a], a, u, p), u, p)
           Q == [perms EXCEPT ![a] = s]
           R == [perms EXCEPT ![a] = [perms[a] EXCEPT !.kc = s.kc]]
<1>1. Good(a, s)
  BY RevokeGood, CleanPartialGood DEF IInv, AllGood
<1>2. AfterRemove(perms, a, u, p) \in {R, DescendantsRecalculated(Q, parent, a)}
  BY DEF AfterRemove
<1> HIDE DEF s
<1>3. Q \in [Assets -> AssetState] /\ AllGood(Q)
  BY <1>1 DEF IInv, TypeOK, AllGood, Good
<1>4. Good(a, [perms[a] EXCEPT !.kc = s.kc])
  BY <1>1, CleanGood DEF IInv, AllGood, Good, AssetState
<1>5. R \in [Assets -> AssetState] /\ AllGood(R)
  BY <1>4 DEF IInv, TypeOK, AllGood, Good
<1> HIDE DEF Q, R
<1>6. QED
  BY <1>2, <1>3, <1>5, DescendantsGood DEF IInv, TypeOK, AllGood

(* IInv holds at first,                                                    *)
LEMMA InitIInv == Init => IInv
BY FreshGood, NoParentAssumption DEF Init, IInv, AllGood, TypeOK, NoTx, Good

(* and every request, step of a copy and rollback keeps it.                *)
LEMMA NextIInv == IInv /\ [Next]_vars => IInv'
<1> SUFFICES ASSUME IInv, [Next]_vars PROVE IInv'
  OBVIOUS
<1>0. TypeOK /\ AllGood(perms)
  BY DEF IInv
<1>1. ASSUME NEW a \in Assets, NEW par \in Assets \cup {NoParent}, Save(a, par)
      PROVE  IInv'
  <2> DEFINE Q == Recalculated(perms, parent', {a})
  <2>1. parent' \in [Assets -> Assets \cup {NoParent}]
    BY <1>0, <1>1 DEF Save, TypeOK
  <2>2. Q \in [Assets -> AssetState] /\ AllGood(Q)
    BY <1>0, <2>1, RecalculatedGood DEF TypeOK, AllGood
  <2>3. perms' = DescendantsRecalculated(Q, parent', a) /\ ~tx.active /\ tx' = tx
    BY <1>1 DEF Save
  <2> HIDE DEF Q
  <2>4. perms' \in [Assets -> AssetState] /\ AllGood(perms')
    BY <2>1, <2>2, <2>3, DescendantsGood DEF AllGood
  <2>5. QED
    BY <1>0, <2>1, <2>3, <2>4 DEF IInv, TypeOK, AllGood
<1>2. ASSUME NEW a \in Assets, NEW u \in Users, NEW p \in Codenames,
             NEW pp \in PartialChoices \cup {{}}, AssignPerm(a, u, p, pp)
      PROVE  IInv'
  <2>1. /\ ~tx.active /\ tx' = tx /\ parent' = parent
        /\ u # Owner[a] /\ p \in Assignable(a)
        /\ perms' = AfterAssign(perms, a, u, p, FALSE, pp)
    BY <1>2 DEF AssignPerm, AssignFails
  <2>2. perms' \in [Assets -> AssetState] /\ AllGood(perms')
    BY <2>1, AfterAssignGood
  <2>3. QED
    BY <1>0, <2>1, <2>2 DEF IInv, TypeOK, AllGood
<1>3. ASSUME NEW a \in Assets, NEW u \in Users, NEW p \in Codenames, RemovePerm(a, u, p)
      PROVE  IInv'
  <2>1. /\ ~tx.active /\ tx' = tx /\ parent' = parent
        /\ u # Owner[a]
        /\ perms' = AfterRemove(perms, a, u, p)
    BY <1>3 DEF RemovePerm
  <2>2. perms' \in [Assets -> AssetState] /\ AllGood(perms')
    BY <2>1, AfterRemoveGood
  <2>3. QED
    BY <1>0, <2>1, <2>2 DEF IInv, TypeOK, AllGood
<1>4. ASSUME NEW a \in Assets, Deploy(a)
      PROVE  IInv'
  <2> DEFINE K == perms[a].kc \cup {x \in Effective(perms[a]) : x[1] # Owner[a] /\ x[2] \in KC(x[1])}
  <2>1. /\ ~tx.active /\ tx' = tx /\ parent' = parent
        /\ perms' = [perms EXCEPT ![a] = [perms[a] EXCEPT !.deployed = TRUE, !.kc = K]]
    BY <1>0, <1>4 DEF Deploy, TypeOK, AssetState
  <2>2. K \subseteq Pair
    BY <1>0, EffectiveIs DEF AllGood, Good, AssetState
  <2> HIDE DEF K
  <2>3. Good(a, [perms[a] EXCEPT !.deployed = TRUE, !.kc = K])
    BY <1>0, <2>2, CleanGood DEF AllGood
  <2>4. perms' \in [Assets -> AssetState] /\ AllGood(perms')
    BY <1>0, <2>1, <2>3 DEF TypeOK, AllGood, Good
  <2>5. QED
    BY <1>0, <2>1, <2>4 DEF IInv, TypeOK, AllGood
<1>5. ASSUME NEW t \in Assets, NEW src \in CopySources, CopyBegin(t, src)
      PROVE  IInv'
  <2> DEFINE K == perms[t].kc \ {x \in Listed(perms[t]) : x[1] # Owner[t]}
             s == [perms[t] EXCEPT !.granted = OwnRows(t, perms[t].granted),
                                   !.denied = OwnRows(t, perms[t].denied),
                                   !.inherited = OwnRows(t, perms[t].inherited),
                                   !.kc = K]
  <2>1. perms' = [perms EXCEPT ![t] = s] /\ parent' = parent
    BY <1>0, <1>5 DEF CopyBegin, TypeOK, AssetState
  <2>2. /\ tx' \in CopyTx
        /\ tx'.saved = perms
        /\ \A r \in tx'.todo : r.user # Owner[tx'.target]
    <3> DEFINE others == [user : Users \ {Owner[t]}, perm : Codenames, deny : BOOLEAN]
    <3>1. PICK rows : tx' = [active |-> TRUE, target |-> t, source |-> src, saved |-> perms,
                             todo |-> others \cap rows]
      BY <1>5 DEF CopyBegin
    <3>2. others \subseteq CopyRow /\ \A r \in others : r.user # Owner[t]
      BY DEF CopyRow
    <3> HIDE DEF others
    <3>3. QED
      BY <1>0, <3>1, <3>2, CopyAssumption DEF CopyTx, TypeOK
  <2>3. Good(t, s)
    <3>1. perms[t] \in AssetState /\ Coherent(t, perms[t])
      BY <1>0 DEF AllGood, Good
    <3>2. /\ s.granted = OwnRows(t, perms[t].granted)
          /\ s.denied = OwnRows(t, perms[t].denied)
          /\ s.inherited = OwnRows(t, perms[t].inherited)
          /\ s \in AssetState
      BY <3>1 DEF AssetState, OwnRows
    <3> HIDE DEF s
    <3>3. \A S, v, q : <<v, q>> \in OwnRows(t, S) <=> <<v, q>> \in S /\ v = Owner[t]
      BY DEF OwnRows
    <3>4. Coherent(t, s)
      BY <3>1, <3>2, <3>3, OwnerAssumption DEF Coherent
    <3>5. QED
      BY <3>2, <3>4 DEF Good
  <2> HIDE DEF s
  <2>4. perms' \in [Assets -> AssetState] /\ AllGood(perms')
    BY <1>0, <2>1, <2>3 DEF TypeOK, AllGood, Good
  <2>5. QED
    BY <1>0, <2>1, <2>2, <2>4 DEF IInv, TypeOK, AllGood
<1>6. CASE CopyNext
  <2>1. PICK r \in tx.todo : CopyStep(r)
    BY <1>6 DEF CopyNext
  <2>2. tx.active /\ parent' = parent
    BY <1>6 DEF CopyNext
  <2>3. tx \in CopyTx
    BY <1>0, <2>2, TxActive DEF TypeOK
  <2>4. /\ tx.target \in Assets /\ tx.saved \in [Assets -> AssetState] /\ AllGood(tx.saved)
        /\ r \in CopyRow /\ r.user # Owner[tx.target]
    BY <2>1, <2>2, <2>3 DEF CopyTx, IInv
  <2>5. CASE tx' = NoTx /\ perms' = [x \in Assets |-> [tx.saved[x] EXCEPT !.kc = perms[x].kc]]
    <3>1. \A x \in Assets : Good(x, perms'[x])
      BY <1>0, <2>4, <2>5, CleanGood DEF AllGood, TypeOK, AssetState
    <3>2. perms' \in [Assets -> AssetState]
      BY <2>5, <3>1 DEF Good
    <3>3. QED
      BY <1>0, <2>2, <2>5, <3>1, <3>2, TxActive DEF IInv, TypeOK, AllGood
  <2>6. ASSUME NEW pp, ~AssignFails(perms[tx.target], tx.target, r.user, r.perm, r.deny, pp),
               perms' = AfterAssign(perms, tx.target, r.user, r.perm, r.deny, pp),
               tx' = [tx EXCEPT !.todo = @ \ {r}]
        PROVE  IInv'
    <3>1. r.user \in Users /\ r.deny \in BOOLEAN /\ r.perm \in Assignable(tx.target)
      BY <2>4, <2>6 DEF CopyRow, AssignFails
    <3>2. perms' \in [Assets -> AssetState] /\ AllGood(perms')
      BY <2>4, <2>6, <3>1, AfterAssignGood
    <3>3. /\ tx' \in CopyTx /\ tx'.saved = tx.saved /\ tx'.target = tx.target
          /\ tx'.todo \subseteq tx.todo
      BY <2>3, <2>6 DEF CopyTx
    <3>4. QED
      BY <1>0, <2>2, <2>4, <3>2, <3>3 DEF IInv, TypeOK, AllGood
  <2>7. QED
    BY <2>1, <2>5, <2>6 DEF CopyStep
<1>7. CASE CopyEnd
  <2>1. /\ perms' = Recalculated(perms, parent, {tx.target})
        /\ tx' = NoTx /\ parent' = parent
    BY <1>7 DEF CopyEnd
  <2>2. perms' \in [Assets -> AssetState] /\ AllGood(perms')
    BY <1>0, <2>1, RecalculatedGood DEF TypeOK, AllGood
  <2>3. QED
    BY <1>0, <2>1, <2>2, TxActive DEF IInv, TypeOK, AllGood
<1>8. CASE UNCHANGED vars
  BY <1>8 DEF vars, IInv, TypeOK, AllGood
<1>9. QED
  BY <1>1, <1>2, <1>3, <1>4, <1>5, <1>6, <1>7, <1>8 DEF Next

-----------------------------------------------------------------------------
(***************************************************************************)
(* The rows of the public.                                                 *)
(***************************************************************************)

(* AnonymousRowsAllowed needs to be told that the public has no row-level  *)
(* access either: a copy would pass its keys on.                           *)
Public(s) ==
  \A p \in Codenames :
    /\ <<Anonymous, p>> \in s.granted \cup s.inherited => p \in ALLOWED_ANONYMOUS_PERMISSIONS
    /\ <<Anonymous, p>> \notin s.partial

(* The same of all assets.                                                 *)
AllPublic(P) == \A a \in Assets : Public(P[a])

(* Nothing is granted, inherited or kept row by row in t that was not in   *)
(* s.                                                                      *)
Shrinks(s, t) ==
  /\ t.granted \subseteq s.granted
  /\ t.inherited \subseteq s.inherited
  /\ t.partial \subseteq s.partial

(* A denial takes away and gives nothing.                                  *)
LEMMA DenyShrinks ==
  ASSUME NEW a \in Assets, NEW s \in AssetState, NEW u \in Users, NEW p \in Codenames
  PROVE  Deny(s, a, u, p) \in AssetState /\ Shrinks(s, Deny(s, a, u, p))
<1>1. Of(u, Requiring(a, p)) \subseteq Pair
  BY OfIs
<1>2. QED
  BY <1>1 DEF Deny, AssetState, Shrinks

(* A removal gives nothing.                                                *)
LEMMA RevokeShrinks ==
  ASSUME NEW a \in Assets, NEW s \in AssetState, NEW u \in Users, NEW p \in Codenames
  PROVE  Revoke(s, a, u, p) \in AssetState /\ Shrinks(s, Revoke(s, a, u, p))
<1>1. ASSUME NEW t \in AssetState, NEW q
      PROVE  /\ DenyInherited(t, a, u, q) \in AssetState
             /\ Shrinks(t, DenyInherited(t, a, u, q))
  <2> DEFINE r == [t EXCEPT !.inherited = t.inherited \ Of(u, {q})]
  <2>1. r \in AssetState /\ Shrinks(t, r)
    BY DEF AssetState, Shrinks
  <2>2. CASE <<u, q>> \in t.inherited
    <3>1. q \in Codenames
      BY <2>2 DEF AssetState, Pair
    <3>2. DenyInherited(t, a, u, q) = Deny(r, a, u, q)
      BY <2>2 DEF DenyInherited
    <3> HIDE DEF r
    <3>3. QED
      BY <2>1, <3>1, <3>2, DenyShrinks DEF Shrinks
  <2>3. CASE <<u, q>> \notin t.inherited
    BY <2>3 DEF DenyInherited, Shrinks
  <2>4. QED
    BY <2>2, <2>3
<1>2. Stripped(s, a, u, p) \in AssetState /\ Shrinks(s, Stripped(s, a, u, p))
  BY DEF Stripped, AssetState, Shrinks
<1>3. RevokeImplied(s, a, u, p) \in AssetState /\ Shrinks(s, RevokeImplied(s, a, u, p))
  BY <1>1, <1>2 DEF RevokeImplied, Shrinks
<1>4. QED
  BY <1>1, <1>3 DEF Revoke, Shrinks

(* A grant of what the public may have gives it only what it may have.     *)
LEMMA GrantPublic ==
  ASSUME NEW a \in Assets, NEW s \in AssetState, NEW u \in Users, NEW p \in Assignable(a),
         Public(s), AllowedTo(u, p)
  PROVE  Public(Grant(s, a, u, p))
<1> DEFINE W == Including(a, p)
<1>1. Grant(s, a, u, p).granted \subseteq s.granted \cup Of(u, W)
  BY DEF Grant, AssetState
<1>2. /\ Grant(s, a, u, p).inherited \subseteq s.inherited
      /\ Grant(s, a, u, p).partial = s.partial
  BY DEF Grant, AssetState
<1>3. u = Anonymous => W \subseteq ALLOWED_ANONYMOUS_PERMISSIONS
  BY AssignableTable, CodenamesAssumption, ImpliedTransitive DEF AllowedTo, Including
<1>4. \A v, q : <<v, q>> \in Of(u, W) => v = u /\ q \in W
  BY OfIs
<1> HIDE DEF W
<1>5. QED
  BY <1>1, <1>2, <1>3, <1>4 DEF Public

(* So does assign_perm() as a whole.                                       *)
LEMMA AssignedPublic ==
  ASSUME NEW a \in Assets, NEW s, Good(a, s), Public(s),
         NEW u \in Users, u # Owner[a], NEW p \in Assignable(a),
         NEW deny \in BOOLEAN, NEW pp,
         deny \/ AllowedTo(u, p),
         u = Anonymous => p # "partial_submissions"
  PROVE  Public(Assigned(s, a, u, p, deny, pp))
<1> DEFINE t == IF deny THEN Deny(s, a, u, p) ELSE Grant(s, a, u, p)
           cleaned == [t EXCEPT !.partial = t.partial \ Of(u, Codenames)]
           stored == [cleaned EXCEPT !.partial = cleaned.partial \cup Of(u, PartialKeys(pp))]
<1>1. p \in Codenames /\ s \in AssetState
  BY AssignableTable DEF Good
<1>2. t \in AssetState /\ Public(t)
  <2>1. CASE deny
    BY <1>1, <2>1, DenyShrinks DEF Public, Shrinks
  <2>2. CASE ~deny
    BY <1>1, <2>2, GrantGood, GrantPublic DEF Good
  <2>3. QED
    BY <2>1, <2>2
<1> HIDE DEF t
<1>3. cleaned \in AssetState /\ Public(cleaned)
  BY <1>2 DEF Public, AssetState
<1>4. CASE p = "partial_submissions"
  <2>1. \A v, q : <<v, q>> \in Of(u, PartialKeys(pp)) => v = u
    BY OfIs
  <2>2. Of(u, PartialKeys(pp)) \subseteq Pair
    BY OfIs
  <2> HIDE DEF cleaned
  <2>3. stored \in AssetState /\ Public(stored)
    BY <1>3, <1>4, <2>1, <2>2 DEF Public, AssetState
  <2>4. "add_submissions" \in PartialKeys(pp) => "add_submissions" \in Assignable(a)
    BY <1>4, AssignableTable DEF PartialKeys
  <2>5. Assigned(s, a, u, p, deny, pp) =
          IF "add_submissions" \in PartialKeys(pp)
          THEN Grant(stored, a, u, "add_submissions") ELSE stored
    BY <1>4 DEF Assigned, UpdatePartial, t, cleaned
  <2> HIDE DEF stored
  <2>6. QED
    BY <1>4, <2>3, <2>4, <2>5, GrantPublic DEF AllowedTo
<1>5. CASE p # "partial_submissions"
  <2>1. Assigned(s, a, u, p, deny, pp) \in {cleaned, t}
    BY <1>5 DEF Assigned, UpdatePartial, t
  <2>2. QED
    BY <1>2, <1>3, <2>1
<1>6. QED
  BY <1>4, <1>5

(* Recalculating assets gives the public only what it may have,            *)
LEMMA RecalculatedPublic ==
  ASSUME NEW P, P \in [Assets -> AssetState], AllGood(P), AllPublic(P),
         NEW par \in [Assets -> Assets \cup {NoParent}], NEW S
  PROVE  AllPublic(Recalculated(P, par, S))
<1> SUFFICES ASSUME NEW x \in Assets PROVE Public(Recalculated(P, par, S)[x])
  BY DEF AllPublic
<1> DEFINE I == ParentPerms(P, par, x)
           t == [P[x] EXCEPT !.inherited = InheritedRows(x, I)]
<1>1. /\ I \subseteq Pair
      /\ \A p \in Codenames : <<Anonymous, p>> \in I => p \in ALLOWED_ANONYMOUS_PERMISSIONS
  <2>1. ASSUME NEW y \in Assets
        PROVE  /\ Effective(P[y]) \subseteq Pair
               /\ \A p \in Codenames : <<Anonymous, p>> \in Effective(P[y]) =>
                    p \in ALLOWED_ANONYMOUS_PERMISSIONS
    BY EffectiveIs DEF AllGood, AllowedTo, Pair
  <2>2. QED
    BY <2>1 DEF ParentPerms
<1> HIDE DEF I
<1>2. \A p \in Codenames : <<Anonymous, p>> \in InheritedRows(x, I) =>
        p \in ALLOWED_ANONYMOUS_PERMISSIONS
  <2>1. InheritedRows(x, I) \subseteq Pair /\ Owner[x] # Anonymous
    BY <1>1, InheritedRowsIs, OwnerAssumption
  <2>2. QED
    BY <1>1, <2>1, InheritedRowsIs DEF Pair
<1>3. t.granted = P[x].granted /\ t.partial = P[x].partial /\ t.inherited = InheritedRows(x, I)
  BY DEF AssetState
<1> HIDE DEF t
<1>4. Public(t)
  BY <1>2, <1>3 DEF AllPublic, Public
<1>5. Recalculated(P, par, S)[x] \in {P[x], t}
  BY DEF Recalculated, t, I
<1>6. QED
  BY <1>4, <1>5 DEF AllPublic

(* at every level below an asset.                                          *)
LEMMA DescendantsPublic ==
  ASSUME NEW P, P \in [Assets -> AssetState], AllGood(P), AllPublic(P),
         NEW par \in [Assets -> Assets \cup {NoParent}], NEW a
  PROVE  AllPublic(DescendantsRecalculated(P, par, a))
<1> DEFINE Q == Recalculated(P, par, Children(par, {a}))
<1>1. Q \in [Assets -> AssetState] /\ AllGood(Q) /\ AllPublic(Q)
  BY RecalculatedGood, RecalculatedPublic DEF AllGood
<1> HIDE DEF Q
<1>2. QED
  BY <1>1, RecalculatedPublic DEF DescendantsRecalculated, Q

(* IInv, and the public has only what it may have, now and after a         *)
(* rollback.                                                               *)
PInv ==
  /\ IInv
  /\ AllPublic(perms)
  /\ tx.active => AllPublic(tx.saved)

(* What an assignment leaves in all assets, recalculated or not.           *)
LEMMA AfterAssignPublic ==
  ASSUME PInv, NEW a \in Assets, NEW u \in Users, u # Owner[a],
         NEW p \in Assignable(a), NEW deny \in BOOLEAN, NEW pp,
         deny \/ AllowedTo(u, p),
         u = Anonymous => p # "partial_submissions"
  PROVE  AllPublic(AfterAssign(perms, a, u, p, deny, pp))
<1> DEFINE s == Assigned(perms[a], a, u, p, deny, pp)
           Q == [perms EXCEPT ![a] = s]
<1>1. Good(a, s) /\ Public(s)
  BY AssignedGood, AssignedPublic DEF PInv, IInv, AllGood, AllPublic
<1> HIDE DEF s
<1>2. Q \in [Assets -> AssetState] /\ AllGood(Q) /\ AllPublic(Q)
  BY <1>1 DEF PInv, IInv, TypeOK, AllGood, AllPublic, Good
<1>3. AfterAssign(perms, a, u, p, deny, pp) \in {Q, DescendantsRecalculated(Q, parent, a)}
  BY DEF AfterAssign, s
<1> HIDE DEF Q
<1>4. QED
  BY <1>2, <1>3, DescendantsPublic DEF PInv, IInv, TypeOK

(* PInv holds at first,                                                    *)
LEMMA InitPInv == Init => PInv
<1> SUFFICES ASSUME Init PROVE PInv
  OBVIOUS
<1>1. ASSUME NEW a \in Assets PROVE Public(Fresh(a))
  BY InheritedRowsIs, OwnerAssumption DEF Fresh, Public, InheritedRows, Of
<1>2. QED
  BY <1>1, InitIInv DEF Init, PInv, AllPublic, NoTx

(* and every step keeps it.                                                *)
LEMMA NextPInv == PInv /\ [Next]_vars => PInv'
<1> SUFFICES ASSUME PInv, [Next]_vars PROVE PInv'
  OBVIOUS
<1>0. IInv /\ IInv' /\ TypeOK /\ AllGood(perms) /\ AllPublic(perms)
  BY NextIInv DEF PInv, IInv
<1>1. ASSUME NEW a \in Assets, NEW par \in Assets \cup {NoParent}, Save(a, par)
      PROVE  PInv'
  <2> DEFINE Q == Recalculated(perms, parent', {a})
  <2>1. parent' \in [Assets -> Assets \cup {NoParent}]
    BY <1>0 DEF IInv, TypeOK
  <2>2. Q \in [Assets -> AssetState] /\ AllGood(Q) /\ AllPublic(Q)
    BY <1>0, <2>1, RecalculatedGood, RecalculatedPublic DEF TypeOK, AllGood
  <2>3. perms' = DescendantsRecalculated(Q, parent', a) /\ ~tx.active /\ tx' = tx
    BY <1>1 DEF Save
  <2> HIDE DEF Q
  <2>4. AllPublic(perms')
    BY <2>1, <2>2, <2>3, DescendantsPublic
  <2>5. QED
    BY <1>0, <2>3, <2>4 DEF PInv, AllPublic
<1>2. ASSUME NEW a \in Assets, NEW u \in Users, NEW p \in Codenames,
             NEW pp \in PartialChoices \cup {{}}, AssignPerm(a, u, p, pp)
      PROVE  PInv'
  <2>1. /\ ~tx.active /\ tx' = tx
        /\ u # Owner[a] /\ p \in Assignable(a) /\ AllowedTo(u, p)
        /\ perms' = AfterAssign(perms, a, u, p, FALSE, pp)
    BY <1>2 DEF AssignPerm, AssignFails
  <2>2. u = Anonymous => p # "partial_submissions"
    BY <2>1 DEF AllowedTo, ALLOWED_ANONYMOUS_PERMISSIONS
  <2>3. AllPublic(perms')
    BY <2>1, <2>2, AfterAssignPublic
  <2>4. QED
    BY <1>0, <2>1, <2>3 DEF PInv, AllPublic
<1>3. ASSUME NEW a \in Assets, NEW u \in Users, NEW p \in Codenames, RemovePerm(a, u, p)
      PROVE  PInv'
  <2> DEFINE r == Revoke(perms[a], a, u, p)
             s == CleanPartial(r, u, p)
             Q == [perms EXCEPT ![a] = s]
             R == [perms EXCEPT ![a] = [perms[a] EXCEPT !.kc = s.kc]]
  <2>1. ~tx.active /\ tx' = tx /\ u # Owner[a] /\ perms' \in {R, DescendantsRecalculated(Q, parent, a)}
    BY <1>3 DEF RemovePerm, AfterRemove
  <2>2. Good(a, s)
    BY <1>0, <2>1, RevokeGood, CleanPartialGood DEF AllGood
  <2>3. r \in AssetState /\ Shrinks(perms[a], r)
    BY <1>0, RevokeShrinks DEF TypeOK
  <2> HIDE DEF r
  <2>4. Shrinks(r, s)
    BY <2>3 DEF CleanPartial, Shrinks, AssetState
  <2> HIDE DEF s
  <2>5. Q \in [Assets -> AssetState] /\ AllGood(Q) /\ AllPublic(Q)
    BY <1>0, <2>2, <2>3, <2>4 DEF TypeOK, AllGood, AllPublic, Public, Good, Shrinks
  <2>6. AllPublic(R)
    BY <1>0 DEF TypeOK, AllPublic, Public, AssetState
  <2> HIDE DEF Q, R
  <2>7. AllPublic(perms')
    BY <1>0, <2>1, <2>5, <2>6, DescendantsPublic DEF TypeOK
  <2>8. QED
    BY <1>0, <2>1, <2>7 DEF PInv, AllPublic
<1>4. ASSUME NEW a \in Assets, Deploy(a)
      PROVE  PInv'
  BY <1>0, <1>4 DEF Deploy, PInv, AllPublic, Public, TypeOK, AssetState
<1>5. ASSUME NEW t \in Assets, NEW src \in CopySources, CopyBegin(t, src)
      PROVE  PInv'
  <2>1. tx'.saved = perms
    BY <1>5 DEF CopyBegin
  <2>2. AllPublic(perms')
    BY <1>0, <1>5 DEF CopyBegin, OwnRows, AllPublic, Public, TypeOK, AssetState
  <2>3. QED
    BY <1>0, <2>1, <2>2 DEF PInv, AllPublic
<1>6. CASE CopyNext
  <2>1. PICK r \in tx.todo : CopyStep(r)
    BY <1>6 DEF CopyNext
  <2>2. tx.active /\ tx \in CopyTx
    BY <1>0, <1>6, TxActive DEF CopyNext, TypeOK
  <2>3. /\ tx.target \in Assets /\ tx.source \in Assets
        /\ tx.saved \in [Assets -> AssetState] /\ AllPublic(tx.saved)
        /\ r \in CopyRow /\ r.user # Owner[tx.target]
    BY <1>0, <2>1, <2>2 DEF CopyTx, PInv, IInv
  <2> DEFINE pp == IF r.perm = "partial_submissions"
                   THEN PartialRow(perms[tx.source], r.user) ELSE {}
  <2>4. CASE AssignFails(perms[tx.target], tx.target, r.user, r.perm, r.deny, pp)
    <3>1. /\ tx' = NoTx
          /\ perms' = [x \in Assets |-> [tx.saved[x] EXCEPT !.kc = perms[x].kc]]
      BY <2>1, <2>4 DEF CopyStep
    <3>2. AllPublic(perms')
      BY <2>3, <3>1 DEF AllPublic, Public, AssetState
    <3>3. QED
      BY <1>0, <3>1, <3>2, TxActive DEF PInv, AllPublic, TypeOK
  <2>5. CASE ~AssignFails(perms[tx.target], tx.target, r.user, r.perm, r.deny, pp)
    <3>1. /\ r.user \in Users /\ r.deny \in BOOLEAN /\ r.perm \in Assignable(tx.target)
          /\ r.deny \/ AllowedTo(r.user, r.perm)
          /\ r.perm = "partial_submissions" => pp # {}
      BY <2>3, <2>5 DEF CopyRow, AssignFails
    <3>2. r.user = Anonymous => r.perm # "partial_submissions"
      BY <1>0, <2>3, <3>1 DEF AllPublic, Public, PartialRow
    <3>3. /\ perms' = AfterAssign(perms, tx.target, r.user, r.perm, r.deny, pp)
          /\ tx' = [tx EXCEPT !.todo = tx.todo \ {r}]
      BY <2>1, <2>5 DEF CopyStep
    <3>4. AllPublic(perms')
      BY <2>3, <3>1, <3>2, <3>3, AfterAssignPublic
    <3>5. tx'.saved = tx.saved
      BY <2>2, <3>3 DEF CopyTx
    <3>6. QED
      BY <1>0, <2>3, <3>4, <3>5 DEF PInv, AllPublic
  <2>6. QED
    BY <2>4, <2>5
<1>7. CASE CopyEnd
  <2>1. perms' = Recalculated(perms, parent, {tx.target}) /\ tx' = NoTx
    BY <1>7 DEF CopyEnd
  <2>2. AllPublic(perms')
    BY <1>0, <2>1, RecalculatedPublic DEF TypeOK
  <2>3. QED
    BY <1>0, <2>1, <2>2, TxActive DEF PInv, AllPublic, TypeOK
<1>8. CASE UNCHANGED vars
  BY <1>0, <1>8 DEF vars, PInv, AllPublic
<1>9. QED
  BY <1>1, <1>2, <1>3, <1>4, <1>5, <1>6, <1>7, <1>8 DEF Next

-----------------------------------------------------------------------------
(***************************************************************************)
(* The theorems.                                                           *)
(***************************************************************************)

(* IInv holds in every reachable state.                                    *)
LEMMA Inductive == Spec => []IInv
BY InitIInv, NextIInv, PTL DEF Spec

(* Every state of every asset, of the tree and of a copy has its type.     *)
THEOREM TypeCorrect == Spec => []TypeOK
<1>1. IInv => TypeOK
  BY DEF IInv
<1>2. QED
  BY <1>1, Inductive, PTL

(* Between any two steps of any requests, and of a copy, the rows of an    *)
(* asset are coherent.                                                     *)
THEOREM RowsAlwaysCoherent == Spec => []RowsCoherent
<1>1. IInv => RowsCoherent
  BY DEF IInv, AllGood, Good, RowsCoherent
<1>2. QED
  BY <1>1, Inductive, PTL

(* Whoever holds a permission holds what it implies, whichever of grants,  *)
(* denials, inheritance, moves and copies it came from.                    *)
THEOREM HoldersHoldTheImplied == Spec => []EffectiveClosed
<1>1. IInv => EffectiveClosed
  BY EffectiveClosedRow DEF IInv, AllGood, EffectiveClosed, Holds
<1>2. QED
  BY <1>1, Inductive, PTL

(* The owner of an asset is never without a permission on it.              *)
THEOREM OwnersHoldEverything == Spec => []OwnerHoldsEverything
<1>1. IInv => OwnerHoldsEverything
  <2> SUFFICES ASSUME IInv, NEW a \in Assets
               PROVE  /\ \A p \in Assignable(a) \ {"partial_submissions"} : Holds(a, Owner[a], p)
                      /\ \A p \in Codenames : <<Owner[a], p>> \notin perms[a].denied
    BY DEF OwnerHoldsEverything
  <2>1. Good(a, perms[a]) /\ Owner[a] \in Users /\ Owner[a] # Anonymous
    BY OwnerAssumption DEF IInv, AllGood
  <2>2. QED
    BY <2>1, AssignableTable, EffectiveIs DEF Holds, Good, Coherent, AllowedTo
<1>2. QED
  BY <1>1, Inductive, PTL

(* Row-level access never coexists with unrestricted access.               *)
THEOREM NeverBothPartialAndFull == Spec => []NeverPartialAndFull
<1>1. IInv => NeverPartialAndFull
  <2> SUFFICES ASSUME IInv, NEW a \in Assets, NEW u \in Users,
                      Holds(a, u, "partial_submissions"),
                      NEW q \in CONTRADICTORY_PERMISSIONS["partial_submissions"],
                      Holds(a, u, q)
               PROVE  FALSE
    BY DEF NeverPartialAndFull
  <2>1. Good(a, perms[a]) /\ Coherent(a, perms[a])
    BY DEF IInv, AllGood, Good
  <2>2. /\ "partial_submissions" \in Codenames /\ q \in Codenames
        /\ <<u, "partial_submissions">> \in perms[a].granted \cup perms[a].inherited
        /\ <<u, q>> \in perms[a].granted \cup perms[a].inherited
    BY <2>1, EffectiveIs DEF Holds, Pair
  <2>3. q \notin HERITABLE_PERMISSIONS /\ "partial_submissions" \notin HERITABLE_PERMISSIONS
    BY <2>2, ContradictoryTable, CodenamesAssumption DEF HERITABLE_PERMISSIONS
  <2>4. <<u, "partial_submissions">> \in perms[a].granted
    BY <2>1, <2>2, <2>3 DEF Coherent
  <2>5. <<u, q>> \in perms[a].granted
    BY <2>1, <2>2, <2>3, <2>4 DEF Coherent
  <2>6. QED
    BY <2>1, <2>2, <2>4, <2>5 DEF Coherent
<1>2. QED
  BY <1>1, Inductive, PTL

(* The public has rows for nothing it may not have, so that a listing,     *)
(* which reads the rows, and has_perm(), which filters them, agree.        *)
THEOREM PublicRowsAllowed == Spec => []AnonymousRowsAllowed
<1>1. PInv => AnonymousRowsAllowed
  <2> SUFFICES ASSUME PInv, NEW a \in Assets, NEW x \in Listed(perms[a]), x[1] = Anonymous
               PROVE  x[2] \in ALLOWED_ANONYMOUS_PERMISSIONS
    BY DEF AnonymousRowsAllowed
  <2>1. x \in Pair /\ x \in perms[a].granted \cup perms[a].inherited
    BY DEF PInv, IInv, TypeOK, AssetState, Listed
  <2>2. <<Anonymous, x[2]>> \in perms[a].granted \cup perms[a].inherited /\ x[2] \in Codenames
    BY <2>1 DEF Pair
  <2>3. QED
    BY <2>2 DEF PInv, AllPublic, Public
<1>2. QED
  BY <1>1, InitPInv, NextPInv, PTL DEF Spec
-----------------------------------------------------------------------------
(***************************************************************************)
(* Revocation reaches every depth: what an asset inherits is held on the   *)
(* collection it is in, for as long as no permissions are copied onto a    *)
(* collection (copy_permissions_from() does not recalculate descendants).  *)
(*                                                                         *)
(* The argument is about order and depth.  recalculate_descendants_perms() *)
(* recalculates the assets in a, then those in them, and each takes what   *)
(* its collection has at that moment: no collection may change after an    *)
(* asset in it was recalculated, and none may be left out.                 *)
(*                                                                         *)
(* The same recalculation carries every change the other way: what the     *)
(* collection gives after a request is what the assets in it inherit.      *)
(***************************************************************************)

(* What Nested is needed for: a chain of three ends at the root.           *)
Shallow(par) ==
  \A x \in Assets : par[x] \in Assets /\ par[par[x]] \in Assets => par[par[par[x]]] = NoParent

(* A Nested tree is shallow and has no asset in itself.                    *)
LEMMA NestedIsShallow ==
  ASSUME NEW par \in [Assets -> Assets \cup {NoParent}], Nested(par)
  PROVE  Shallow(par) /\ \A x \in Assets : par[x] # x
<1> DEFINE roots == Children(par, {NoParent})
           kids  == Children(par, roots)
<1>1. \A x \in Assets : x \in roots <=> par[x] = NoParent
  BY DEF Children
<1>2. \A x \in Assets : x \in kids <=> par[x] \in roots
  BY DEF Children
<1>3. \A x \in Assets : x \in roots \/ x \in kids \/ par[x] \in kids
  BY DEF Nested, Children
<1> HIDE DEF roots, kids
<1>4. Shallow(par)
  <2> SUFFICES ASSUME NEW x \in Assets, par[x] \in Assets, par[par[x]] \in Assets
               PROVE  par[par[par[x]]] = NoParent
    BY DEF Shallow
  <2>1. x \notin roots /\ par[x] \notin roots
    BY <1>1, NoParentAssumption
  <2>2. QED
    BY <1>1, <1>2, <1>3, <2>1
<1>5. ASSUME NEW x \in Assets, par[x] = x PROVE FALSE
  BY <1>4, <1>5, NoParentAssumption DEF Shallow
<1>6. QED
  BY <1>4, <1>5

(* Asset x inherits nothing that its collection does not give.             *)
InheritsAt(P, par, x) ==
  \A u \in Users, p \in Codenames :
    <<u, p>> \in P[x].inherited /\ u # Owner[x] => <<u, p>> \in ParentPerms(P, par, x)

(* The same of all assets.                                                 *)
Inherits(P, par) == \A x \in Assets : InheritsAt(P, par, x)

(* A recalculated asset inherits what its collection gives.                *)
LEMMA RecalculatedInherits ==
  ASSUME NEW P, P \in [Assets -> AssetState], AllGood(P),
         NEW par \in [Assets -> Assets \cup {NoParent}], NEW S, NEW x \in Assets
  PROVE  /\ x \notin S => Recalculated(P, par, S)[x] = P[x]
         /\ x \in S =>
              \A u \in Users, p \in Codenames :
                <<u, p>> \in Recalculated(P, par, S)[x].inherited /\ u # Owner[x] =>
                  <<u, p>> \in ParentPerms(P, par, x)
<1> DEFINE I == ParentPerms(P, par, x)
<1>1. I \subseteq Pair
  BY EffectiveIs DEF ParentPerms, AllGood
<1>2. x \in S => Recalculated(P, par, S)[x].inherited = InheritedRows(x, I)
  BY DEF Recalculated, AssetState
<1>3. x \notin S => Recalculated(P, par, S)[x] = P[x]
  BY DEF Recalculated
<1> HIDE DEF I
<1>4. QED
  BY <1>1, <1>2, <1>3, InheritedRowsIs DEF I

(* Recalculating the descendants of a makes up for whatever became of a.   *)
LEMMA DescendantsInherit ==
  ASSUME NEW P, P \in [Assets -> AssetState], AllGood(P),
         NEW par \in [Assets -> Assets \cup {NoParent}], Nested(par),
         NEW a \in Assets,
         \A x \in Assets : par[x] # a => InheritsAt(P, par, x)
  PROVE  Inherits(DescendantsRecalculated(P, par, a), par)
<1> DEFINE kids  == Children(par, {a})
           grand == Children(par, kids)
           Q     == Recalculated(P, par, kids)
           R     == Recalculated(Q, par, grand)
<1>1. /\ Q \in [Assets -> AssetState] /\ AllGood(Q)
      /\ DescendantsRecalculated(P, par, a) = R
  BY RecalculatedGood DEF AllGood, DescendantsRecalculated
<1>2. /\ \A x \in Assets : x \in kids <=> par[x] = a
      /\ \A x \in Assets : x \in grand <=> par[x] \in kids
      /\ kids \subseteq Assets /\ grand \subseteq Assets
  BY DEF Children
<1> HIDE DEF kids, grand
<1>3. \A x \in Assets : x \notin kids => Q[x] = P[x]
  BY RecalculatedInherits
<1> HIDE DEF Q
<1>4. \A x \in Assets : x \notin grand => R[x] = Q[x]
  BY <1>1, RecalculatedInherits
<1>5. Shallow(par) /\ \A x \in Assets : par[x] # x
  BY NestedIsShallow
<1> SUFFICES ASSUME NEW x \in Assets PROVE InheritsAt(R, par, x)
  BY <1>1 DEF Inherits
<1>6. CASE x \in grand
  <2>1. par[x] \in Assets /\ par[x] \in kids /\ par[x] \notin grand
    BY <1>2, <1>5, <1>6, NoParentAssumption DEF Shallow
  <2>2. ParentPerms(R, par, x) = ParentPerms(Q, par, x)
    BY <1>4, <2>1 DEF ParentPerms
  <2>3. QED
    BY <1>1, <1>6, <2>2, RecalculatedInherits DEF InheritsAt
<1>7. CASE x \in kids /\ x \notin grand
  <2>1. par[x] = a /\ a \notin kids /\ a \notin grand
    BY <1>2, <1>5, <1>7, NoParentAssumption DEF Shallow
  <2>2. ParentPerms(R, par, x) = ParentPerms(P, par, x)
    BY <1>3, <1>4, <2>1 DEF ParentPerms
  <2>3. R[x] = Q[x]
    BY <1>4, <1>7
  <2>4. QED
    BY <1>7, <2>2, <2>3, RecalculatedInherits DEF InheritsAt, Q
<1>8. CASE x \notin kids /\ x \notin grand
  <2>1. R[x] = P[x] /\ par[x] # a
    BY <1>2, <1>3, <1>4, <1>8
  <2>2. ASSUME par[x] # NoParent PROVE R[par[x]] = P[par[x]]
    <3>1. par[x] \in Assets /\ par[x] \notin kids
      BY <1>2, <1>8, <2>2
    <3>2. par[x] \notin grand
      BY <1>2, <1>5, <3>1, NoParentAssumption DEF Shallow
    <3>3. QED
      BY <1>3, <1>4, <3>1, <3>2
  <2>3. ParentPerms(R, par, x) = ParentPerms(P, par, x)
    BY <2>2 DEF ParentPerms
  <2>4. QED
    BY <2>1, <2>3 DEF InheritsAt
<1>9. QED
  BY <1>6, <1>7, <1>8

(* New rows of one asset, of which none is inherited that was not before.  *)
LEMMA ReplacedInherits ==
  ASSUME NEW P, P \in [Assets -> AssetState], Inherits(P, parent),
         parent \in [Assets -> Assets \cup {NoParent}],
         NEW a \in Assets, parent[a] # a, NEW s,
         s.inherited \subseteq P[a].inherited,
         NEW x \in Assets, parent[x] # a
  PROVE  InheritsAt([P EXCEPT ![a] = s], parent, x)
<1>1. ParentPerms([P EXCEPT ![a] = s], parent, x) = ParentPerms(P, parent, x)
  BY DEF ParentPerms
<1>2. [P EXCEPT ![a] = s][x].inherited \subseteq P[x].inherited
  OBVIOUS
<1>3. QED
  BY <1>1, <1>2 DEF Inherits, InheritsAt

(* New rows of one asset that give no less than before.                    *)
LEMMA GivesNoLess ==
  ASSUME NEW P, P \in [Assets -> AssetState], Inherits(P, parent),
         parent \in [Assets -> Assets \cup {NoParent}],
         NEW a \in Assets, NEW s,
         s.inherited \subseteq P[a].inherited, Effective(P[a]) \subseteq Effective(s)
  PROVE  Inherits([P EXCEPT ![a] = s], parent)
<1> SUFFICES ASSUME NEW x \in Assets PROVE InheritsAt([P EXCEPT ![a] = s], parent, x)
  BY DEF Inherits
<1>1. ParentPerms(P, parent, x) \subseteq ParentPerms([P EXCEPT ![a] = s], parent, x)
  BY DEF ParentPerms
<1>2. [P EXCEPT ![a] = s][x].inherited \subseteq P[x].inherited
  OBVIOUS
<1>3. QED
  BY <1>1, <1>2 DEF Inherits, InheritsAt

(* A grant inherits nothing, and gives no less where it contradicts        *)
(* nothing, as add_submissions does.                                       *)
LEMMA GrantInherits ==
  ASSUME NEW a \in Assets, NEW s \in AssetState, NEW u, NEW p
  PROVE  /\ Grant(s, a, u, p).inherited \subseteq s.inherited
         /\ p = "add_submissions" => Effective(s) \subseteq Effective(Grant(s, a, u, p))
<1>1. Grant(s, a, u, p).inherited \subseteq s.inherited
  BY DEF Grant, AssetState
<1>2. ASSUME p = "add_submissions"
      PROVE  Effective(s) \subseteq Effective(Grant(s, a, u, p))
  <2> DEFINE N == {q \in Including(a, p) : <<u, q>> \notin s.granted}
  <2>1. N \subseteq {"add_submissions", "view_asset"}
    BY <1>2, ImpliedIs DEF Including
  <2> HIDE DEF N
  <2>2. Contrary(N) = {}
    <3>1. \A q \in N : CONTRADICTORY_PERMISSIONS[q] = {}
      BY <2>1 DEF CONTRADICTORY_PERMISSIONS
    <3>2. QED
      BY <3>1, ContraryIs
  <2>3. Of(u, Contrary(N)) = {}
    BY <2>2 DEF Of
  <2>4. /\ s.granted \subseteq Grant(s, a, u, p).granted
        /\ s.inherited \subseteq Grant(s, a, u, p).inherited
        /\ Grant(s, a, u, p).denied \subseteq s.denied
    BY <2>3 DEF Grant, AssetState, N
  <2>5. QED
    BY <2>4 DEF Effective
<1>3. QED
  BY <1>1, <1>2

(* A grant leaves rows of their type, whoever asks and for whatever.       *)
LEMMA GrantTyped ==
  ASSUME NEW a \in Assets, NEW s \in AssetState, NEW u \in Users, NEW p
  PROVE  Grant(s, a, u, p) \in AssetState
<1> DEFINE W == Including(a, p)
           N == {q \in W : <<u, q>> \notin s.granted}
           X == Contrary(N)
           t == [s EXCEPT !.granted   = (@ \ Of(u, X)) \cup Of(u, W),
                          !.denied    = @ \ Of(u, N \cup X),
                          !.inherited = @ \ Of(u, X),
                          !.kc        = IF s.deployed THEN @ \cup Of(u, N \cap KC(u)) ELSE @]
<1>1. Grant(s, a, u, p) \in {s, t}
  BY DEF Grant
<1>2. Of(u, W) \subseteq Pair /\ Of(u, N \cap KC(u)) \subseteq Pair
  BY OfIs
<1> HIDE DEF W, N, X
<1>3. t \in AssetState
  BY <1>2 DEF AssetState
<1>4. QED
  BY <1>1, <1>3

(* assign_perm() without deny; one that finds the permission there already *)
(* gives no less.                                                          *)
LEMMA AssignedInherits ==
  ASSUME NEW a \in Assets, NEW s \in AssetState, NEW u \in Users, NEW p, NEW pp
  PROVE  /\ Assigned(s, a, u, p, FALSE, pp).inherited \subseteq s.inherited
         /\ Identical(s, u, p, FALSE) =>
              Effective(s) \subseteq Effective(Assigned(s, a, u, p, FALSE, pp))
<1> DEFINE t == Grant(s, a, u, p)
           cleaned == [t EXCEPT !.partial = t.partial \ Of(u, Codenames)]
           stored == [cleaned EXCEPT !.partial = cleaned.partial \cup Of(u, PartialKeys(pp))]
<1>0. t \in AssetState
  BY GrantTyped
<1>1. t.inherited \subseteq s.inherited /\ (Identical(s, u, p, FALSE) => t = s)
  <2>1. Identical(s, u, p, FALSE) => <<u, p>> \in s.granted
    BY DEF Identical
  <2>2. <<u, p>> \in s.granted => t = s
    BY DEF Grant
  <2>3. QED
    BY <2>1, <2>2, GrantInherits
<1> HIDE DEF t
<1>2. /\ cleaned \in AssetState /\ cleaned.inherited = t.inherited
      /\ Effective(cleaned) = Effective(t)
  BY <1>0 DEF AssetState, Effective
<1> HIDE DEF cleaned
<1>3. /\ stored \in AssetState /\ stored.inherited = t.inherited
      /\ Effective(stored) = Effective(t)
  <2>1. Of(u, PartialKeys(pp)) \subseteq Pair
    BY OfIs
  <2>2. QED
    BY <1>2, <2>1 DEF AssetState, Effective
<1> HIDE DEF stored
<1>4. Assigned(s, a, u, p, FALSE, pp) \in
        {t, cleaned, stored, Grant(stored, a, u, "add_submissions")}
  BY DEF Assigned, UpdatePartial, t, cleaned, stored
<1>5. /\ Grant(stored, a, u, "add_submissions").inherited \subseteq stored.inherited
      /\ Effective(stored) \subseteq Effective(Grant(stored, a, u, "add_submissions"))
  BY <1>3, GrantInherits
<1>6. QED
  BY <1>1, <1>2, <1>3, <1>4, <1>5

-----------------------------------------------------------------------------
(* The inductive invariant of a system without copies.                     *)
HInv ==
  /\ IInv
  /\ tx = NoTx
  /\ Nested(parent)
  /\ Inherits(perms, parent)

(* HInv holds at first,                                                    *)
LEMMA InitHInv == Init => HInv
<1> SUFFICES ASSUME Init PROVE HInv
  OBVIOUS
<1>1. IInv /\ tx = NoTx
  BY InitIInv DEF Init
<1>2. Nested(parent)
  BY DEF Init, Nested, Children
<1>3. ASSUME NEW x \in Assets PROVE InheritsAt(perms, parent, x)
  <2>1. \A u \in Users, p \in Codenames :
          <<u, p>> \in InheritedRows(x, {}) => u = Owner[x]
    BY InheritedRowsIs
  <2>2. QED
    BY <2>1 DEF Init, Fresh, InheritsAt
<1>4. QED
  BY <1>1, <1>2, <1>3 DEF HInv, Inherits

(* and every request keeps it, as long as nothing is copied.               *)
LEMMA NextHInv ==
  ASSUME CopySources = {}, HInv, [Next]_vars
  PROVE  HInv'
<1>0. /\ IInv /\ IInv' /\ perms \in [Assets -> AssetState] /\ AllGood(perms)
      /\ parent \in [Assets -> Assets \cup {NoParent}]
      /\ parent' \in [Assets -> Assets \cup {NoParent}]
      /\ \A x \in Assets : parent[x] # x
  BY NextIInv, NestedIsShallow DEF HInv, IInv, TypeOK
<1>1. ASSUME NEW a \in Assets, NEW par \in Assets \cup {NoParent}, Save(a, par)
      PROVE  HInv'
  <2> DEFINE Q == Recalculated(perms, parent', {a})
  <2>1. /\ parent' = [parent EXCEPT ![a] = par] /\ Nested(parent')
        /\ perms' = DescendantsRecalculated(Q, parent', a) /\ tx' = tx
    BY <1>1 DEF Save
  <2>2. Q \in [Assets -> AssetState] /\ AllGood(Q)
    BY <1>0, RecalculatedGood DEF AllGood
  <2>3. \A x \in Assets : parent'[x] # x
    BY <1>0, <2>1, NestedIsShallow
  <2>4. ASSUME NEW x \in Assets, parent'[x] # a PROVE InheritsAt(Q, parent', x)
    <3>1. ParentPerms(Q, parent', x) = ParentPerms(perms, parent', x)
      BY <1>0, <2>4, RecalculatedInherits DEF ParentPerms
    <3>2. CASE x = a
      BY <1>0, <3>1, <3>2, RecalculatedInherits DEF InheritsAt
    <3>3. CASE x # a
      <4>1. Q[x] = perms[x]
        BY <1>0, <3>3, RecalculatedInherits
      <4>2. ParentPerms(perms, parent', x) = ParentPerms(perms, parent, x)
        BY <1>0, <2>1, <3>3 DEF ParentPerms
      <4>3. QED
        BY <3>1, <4>1, <4>2 DEF HInv, Inherits, InheritsAt
    <3>4. QED
      BY <3>2, <3>3
  <2> HIDE DEF Q
  <2>5. Inherits(perms', parent')
    BY <1>0, <2>1, <2>2, <2>4, DescendantsInherit
  <2>6. QED
    BY <1>0, <2>1, <2>5 DEF HInv
<1>2. ASSUME NEW a \in Assets, NEW u \in Users, NEW p \in Codenames,
             NEW pp \in PartialChoices \cup {{}}, AssignPerm(a, u, p, pp)
      PROVE  HInv'
  <2> DEFINE s == Assigned(perms[a], a, u, p, FALSE, pp)
             Q == [perms EXCEPT ![a] = s]
  <2>1. /\ tx' = tx /\ parent' = parent /\ u # Owner[a] /\ p \in Assignable(a)
        /\ perms' = IF Identical(perms[a], u, p, FALSE) THEN Q
                    ELSE DescendantsRecalculated(Q, parent, a)
    BY <1>2 DEF AssignPerm, AssignFails, AfterAssign
  <2>2. Good(a, s)
    BY <1>0, <2>1, AssignedGood DEF AllGood
  <2>3. /\ s.inherited \subseteq perms[a].inherited
        /\ Identical(perms[a], u, p, FALSE) => Effective(perms[a]) \subseteq Effective(s)
    BY <1>0, AssignedInherits
  <2> HIDE DEF s
  <2>4. Q \in [Assets -> AssetState] /\ AllGood(Q)
    BY <1>0, <2>2 DEF AllGood, Good
  <2>5. Identical(perms[a], u, p, FALSE) => Inherits(Q, parent)
    BY <1>0, <2>3, GivesNoLess DEF HInv
  <2>6. \A x \in Assets : parent[x] # a => InheritsAt(Q, parent, x)
    BY <1>0, <2>3, ReplacedInherits DEF HInv
  <2> HIDE DEF Q
  <2>7. Inherits(DescendantsRecalculated(Q, parent, a), parent)
    BY <1>0, <2>4, <2>6, DescendantsInherit DEF HInv
  <2>8. QED
    BY <1>0, <2>1, <2>5, <2>7 DEF HInv
<1>3. ASSUME NEW a \in Assets, NEW u \in Users, NEW p \in Codenames, RemovePerm(a, u, p)
      PROVE  HInv'
  <2> DEFINE r == Revoke(perms[a], a, u, p)
             s == CleanPartial(r, u, p)
             k == [perms[a] EXCEPT !.kc = s.kc]
             Q == [perms EXCEPT ![a] = s]
             R == [perms EXCEPT ![a] = k]
  <2>1. /\ tx' = tx /\ parent' = parent /\ u # Owner[a]
        /\ perms' \in {R, DescendantsRecalculated(Q, parent, a)}
    BY <1>3 DEF RemovePerm, AfterRemove
  <2>2. Good(a, s)
    BY <1>0, <2>1, RevokeGood, CleanPartialGood DEF AllGood
  <2>3. s.inherited \subseteq perms[a].inherited
    <3>1. r \in AssetState /\ r.inherited \subseteq perms[a].inherited
      BY <1>0, RevokeShrinks DEF Shrinks
    <3> HIDE DEF r
    <3>2. QED
      BY <3>1 DEF CleanPartial, AssetState
  <2> HIDE DEF s
  <2>4. k.inherited = perms[a].inherited /\ Effective(k) = Effective(perms[a])
    BY <1>0 DEF AssetState, Effective
  <2> HIDE DEF k
  <2>5. Inherits(R, parent)
    BY <1>0, <2>4, GivesNoLess DEF HInv
  <2>6. Q \in [Assets -> AssetState] /\ AllGood(Q)
    BY <1>0, <2>2 DEF AllGood, Good
  <2>7. \A x \in Assets : parent[x] # a => InheritsAt(Q, parent, x)
    BY <1>0, <2>3, ReplacedInherits DEF HInv
  <2> HIDE DEF Q, R
  <2>8. Inherits(DescendantsRecalculated(Q, parent, a), parent)
    BY <1>0, <2>6, <2>7, DescendantsInherit DEF HInv
  <2>9. QED
    BY <1>0, <2>1, <2>5, <2>8 DEF HInv
<1>4. ASSUME NEW a \in Assets, Deploy(a)
      PROVE  HInv'
  <2>1. tx' = tx /\ parent' = parent
    BY <1>4 DEF Deploy
  <2>2. PICK k : perms' = [perms EXCEPT ![a] = [perms[a] EXCEPT !.deployed = TRUE, !.kc = k]]
    BY <1>0, <1>4 DEF Deploy, AssetState
  <2> DEFINE s == [perms[a] EXCEPT !.deployed = TRUE, !.kc = k]
  <2>3. s.inherited = perms[a].inherited /\ Effective(s) = Effective(perms[a])
    BY <1>0 DEF AssetState, Effective
  <2>4. perms' = [perms EXCEPT ![a] = s]
    BY <2>2
  <2> HIDE DEF s
  <2>5. Inherits(perms', parent)
    BY <1>0, <2>3, <2>4, GivesNoLess DEF HInv
  <2>6. QED
    BY <1>0, <2>1, <2>5 DEF HInv
<1>5. CASE (\E t \in Assets, src \in CopySources : CopyBegin(t, src)) \/ CopyNext \/ CopyEnd
  BY <1>5, TxActive DEF CopyNext, CopyEnd, HInv
<1>6. CASE UNCHANGED vars
  BY <1>0, <1>6 DEF vars, HInv, Inherits, InheritsAt, ParentPerms
<1>7. QED
  BY <1>1, <1>2, <1>3, <1>4, <1>5, <1>6 DEF Next

(* What an asset inherits is held on the collection it is in, through any  *)
(* grants, revocations and moves at any depth.                             *)
THEOREM RevocationReachesEveryDepth ==
  ASSUME CopySources = {}
  PROVE  Spec => []InheritedFromParent
<1>1. HInv => InheritedFromParent
  <2> SUFFICES ASSUME HInv, NEW a \in Assets, NEW x \in perms[a].inherited, x[1] # Owner[a]
               PROVE  x \in ParentPerms(perms, parent, a)
    BY DEF InheritedFromParent
  <2>1. x = <<x[1], x[2]>> /\ x[1] \in Users /\ x[2] \in Codenames
    BY DEF HInv, IInv, TypeOK, AssetState, Pair
  <2>2. QED
    BY <2>1 DEF HInv, Inherits, InheritsAt
<1>2. HInv /\ [Next]_vars => HInv'
  BY NextHInv
<1>3. QED
  BY <1>1, <1>2, InitHInv, PTL DEF Spec

-----------------------------------------------------------------------------
(***************************************************************************)
(* The other direction: a change arrives at once, whole and at every depth.*)
(***************************************************************************)

(* What x inherits in D is what its collection gives there.                *)
ArrivedAt(D, par, x) == D[x].inherited = InheritedRows(x, ParentPerms(D, par, x))

(* It is when the collection gives something else than it gave in P.       *)
ArrivesAt(P, D, par, x) ==
  ParentPerms(D, par, x) # ParentPerms(P, par, x) => ArrivedAt(D, par, x)

(* After the descendants of a were recalculated, each asset in a, and each *)
(* whose collection has changed, inherits what its collection now gives.   *)
LEMMA DescendantsArrive ==
  ASSUME NEW P, P \in [Assets -> AssetState], AllGood(P),
         NEW par \in [Assets -> Assets \cup {NoParent}], Nested(par),
         NEW a \in Assets, NEW x \in Assets
  PROVE  /\ ArrivesAt(P, DescendantsRecalculated(P, par, a), par, x)
         /\ par[x] = a => ArrivedAt(DescendantsRecalculated(P, par, a), par, x)
<1> DEFINE D     == DescendantsRecalculated(P, par, a)
           kids  == Children(par, {a})
           grand == Children(par, kids)
           Q     == Recalculated(P, par, kids)
<1>1. /\ \A y \in Assets : y \in kids <=> par[y] = a
      /\ \A y \in Assets : y \in grand <=> par[y] \in kids
      /\ kids \subseteq Assets /\ grand \subseteq Assets
  BY DEF Children
<1>2. D = Recalculated(Q, par, grand)
  BY DEF DescendantsRecalculated
<1>3. Q \in [Assets -> AssetState] /\ AllGood(Q)
  BY RecalculatedGood DEF AllGood
<1>4. \A y \in Assets :
        IF y \in kids THEN Q[y].inherited = InheritedRows(y, ParentPerms(P, par, y))
                      ELSE Q[y] = P[y]
  BY DEF Recalculated, AssetState
<1>5. \A y \in Assets :
        IF y \in grand THEN D[y].inherited = InheritedRows(y, ParentPerms(Q, par, y))
                       ELSE D[y] = Q[y]
  BY <1>2, <1>3 DEF Recalculated, AssetState
<1> HIDE DEF D, kids, grand, Q
<1>6. /\ Shallow(par) /\ par[a] # a
      /\ a \notin kids /\ a \notin grand /\ kids \cap grand = {}
  BY <1>1, NestedIsShallow, NoParentAssumption DEF Shallow
<1>7. CASE x \in kids
  <2>1. D[a] = P[a] /\ D[x] = Q[x] /\ par[x] = a /\ a # NoParent
    BY <1>1, <1>4, <1>5, <1>6, <1>7, NoParentAssumption
  <2>2. ParentPerms(D, par, x) = ParentPerms(P, par, x)
    BY <2>1 DEF ParentPerms
  <2>3. QED
    BY <1>4, <1>7, <2>1, <2>2 DEF ArrivesAt, ArrivedAt, D
<1>8. CASE x \in grand
  <2>1. par[x] \in Assets /\ D[par[x]] = Q[par[x]]
    BY <1>1, <1>5, <1>6, <1>8
  <2>2. ParentPerms(D, par, x) = ParentPerms(Q, par, x)
    BY <2>1 DEF ParentPerms
  <2>3. QED
    BY <1>1, <1>5, <1>6, <1>8, <2>2 DEF ArrivesAt, ArrivedAt, D
<1>9. CASE x \notin kids \cup grand
  <2>1. par[x] \notin grand
    BY <1>1, <1>6, <1>9, NoParentAssumption DEF Shallow
  <2>2. par[x] \in Assets => D[par[x]] = P[par[x]]
    BY <1>1, <1>4, <1>5, <1>9, <2>1
  <2>3. ParentPerms(D, par, x) = ParentPerms(P, par, x)
    BY <2>2 DEF ParentPerms
  <2>4. QED
    BY <1>1, <1>9, <2>3 DEF ArrivesAt, D
<1>10. QED
  BY <1>7, <1>8, <1>9

(* So it does after the rows of a were replaced.                           *)
LEMMA ReplacedArrives ==
  ASSUME NEW P, P \in [Assets -> AssetState], AllGood(P),
         NEW par \in [Assets -> Assets \cup {NoParent}], Nested(par),
         NEW a \in Assets, NEW s, Good(a, s), NEW x \in Assets
  PROVE  ArrivesAt(P, DescendantsRecalculated([P EXCEPT ![a] = s], par, a), par, x)
<1> DEFINE Q == [P EXCEPT ![a] = s]
<1>1. Q \in [Assets -> AssetState] /\ AllGood(Q)
  BY DEF AllGood, Good
<1>2. par[x] # a => ParentPerms(Q, par, x) = ParentPerms(P, par, x)
  BY DEF ParentPerms
<1> HIDE DEF Q
<1>3. /\ ArrivesAt(Q, DescendantsRecalculated(Q, par, a), par, x)
      /\ par[x] = a => ArrivedAt(DescendantsRecalculated(Q, par, a), par, x)
  BY <1>1, DescendantsArrive
<1>4. ArrivesAt(P, DescendantsRecalculated(Q, par, a), par, x)
  BY <1>2, <1>3 DEF ArrivesAt
<1>5. QED
  BY <1>4 DEF Q

(* A change that does not reach the effective permissions has nowhere to   *)
(* arrive.                                                                 *)
LEMMA SameNeedNotArrive ==
  ASSUME NEW P, P \in [Assets -> AssetState],
         NEW par \in [Assets -> Assets \cup {NoParent}],
         NEW a \in Assets, NEW s, Effective(s) = Effective(P[a]), NEW x \in Assets
  PROVE  ArrivesAt(P, [P EXCEPT ![a] = s], par, x)
<1>1. ASSUME NEW y \in Assets PROVE Effective([P EXCEPT ![a] = s][y]) = Effective(P[y])
  OBVIOUS
<1>2. QED
  BY <1>1 DEF ParentPerms, ArrivesAt

(* Only a collection has assets in it, which Save asks for.                *)
CInv ==
  /\ HInv
  /\ \A x \in Assets : parent[x] \in Assets => Type[parent[x]] = "collection"

(* It is so at first and after every request.                              *)
LEMMA AlwaysCInv ==
  ASSUME CopySources = {}
  PROVE  Spec => []CInv
<1>1. Init => CInv
  BY InitHInv, NoParentAssumption DEF CInv, Init
<1>2. CInv /\ [Next]_vars => CInv'
  <2> SUFFICES ASSUME CInv, [Next]_vars PROVE CInv'
    OBVIOUS
  <2>1. HInv /\ HInv' /\ parent \in [Assets -> Assets \cup {NoParent}]
    BY NextHInv DEF CInv, HInv, IInv, TypeOK
  <2>2. \/ parent' = parent
        \/ \E a \in Assets, par \in Assets \cup {NoParent} :
             /\ parent' = [parent EXCEPT ![a] = par]
             /\ par = NoParent \/ Type[par] = "collection"
    BY DEF Next, Save, AssignPerm, RemovePerm, Deploy, CopyBegin, CopyNext, CopyEnd, vars
  <2>3. QED
    BY <2>1, <2>2, NoParentAssumption DEF CInv
<1>3. QED
  BY <1>1, <1>2, PTL DEF Spec

(* A change to what a collection passes on, be it a grant, a removal or a  *)
(* move, is what the assets in it inherit when the request ends.           *)
THEOREM ChangesReachEveryDepth ==
  ASSUME CopySources = {}
  PROVE  Spec => ChangesArrive
<1> DEFINE Arrives(x) ==
      ParentPerms(perms', parent', x) # ParentPerms(perms, parent, x) =>
        ArrivedAt(perms', parent', x)
<1>1. ASSUME CInv, Next, NEW x \in Assets PROVE Arrives(x)
  <2>0. /\ tx = NoTx /\ Nested(parent) /\ perms \in [Assets -> AssetState] /\ AllGood(perms)
        /\ parent \in [Assets -> Assets \cup {NoParent}]
        /\ parent' \in [Assets -> Assets \cup {NoParent}]
    <3>1. IInv /\ IInv'
      BY <1>1, NextIInv DEF CInv, HInv
    <3>2. QED
      BY <1>1, <3>1 DEF CInv, HInv, IInv, TypeOK
  <2>1. ASSUME parent' = parent, ArrivesAt(perms, perms', parent, x) PROVE Arrives(x)
    BY <2>1 DEF ArrivesAt
  <2>2. ASSUME NEW a \in Assets, NEW par \in Assets \cup {NoParent}, Save(a, par)
        PROVE  Arrives(x)
    <3> DEFINE Q == Recalculated(perms, parent', {a})
               D == DescendantsRecalculated(Q, parent', a)
    <3>1. parent' = [parent EXCEPT ![a] = par] /\ Nested(parent') /\ perms' = D
      BY <2>2 DEF Save
    <3>2. Q \in [Assets -> AssetState] /\ AllGood(Q)
      BY <2>0, RecalculatedGood DEF AllGood
    <3>3. /\ Q[a].inherited = InheritedRows(a, ParentPerms(perms, parent', a))
          /\ \A y \in Assets \ {a} : Q[y] = perms[y]
      BY <2>0 DEF Recalculated, AssetState
    <3> HIDE DEF Q
    <3>4. ArrivesAt(Q, D, parent', x) /\ (parent'[x] = a => ArrivedAt(D, parent', x))
      BY <2>0, <3>1, <3>2, DescendantsArrive
    <3>5. D[a] = Q[a]
      <4>1. a \notin Children(parent', {a}) \cup Children(parent', Children(parent', {a}))
        BY <2>0, <3>1, NestedIsShallow, NoParentAssumption DEF Children, Shallow
      <4>2. QED
        BY <3>2, <4>1 DEF DescendantsRecalculated, Recalculated
    <3> HIDE DEF D
    <3>6. CASE parent'[x] = a \/ ParentPerms(D, parent', x) # ParentPerms(Q, parent', x)
      BY <3>1, <3>4, <3>6 DEF ArrivesAt
    <3>7. CASE parent'[x] # a /\ ParentPerms(D, parent', x) = ParentPerms(Q, parent', x)
      <4>1. ParentPerms(D, parent', x) = ParentPerms(perms, parent', x)
        BY <2>0, <3>3, <3>7 DEF ParentPerms
      <4>2. CASE x = a
        BY <3>1, <3>3, <3>5, <4>1, <4>2 DEF ArrivedAt
      <4>3. CASE x # a
        <5>1. ParentPerms(perms, parent', x) = ParentPerms(perms, parent, x)
          BY <2>0, <3>1, <4>3 DEF ParentPerms
        <5>2. QED
          BY <3>1, <4>1, <5>1
      <4>4. QED
        BY <4>2, <4>3
    <3>8. QED
      BY <3>6, <3>7
  <2>3. ASSUME NEW a \in Assets, NEW u \in Users, NEW p \in Codenames,
               NEW pp \in PartialChoices \cup {{}}, AssignPerm(a, u, p, pp)
        PROVE  Arrives(x)
    <3> DEFINE s == Assigned(perms[a], a, u, p, FALSE, pp)
               Q == [perms EXCEPT ![a] = s]
    <3>1. /\ parent' = parent /\ u # Owner[a] /\ p \in Assignable(a)
          /\ perms' = IF Identical(perms[a], u, p, FALSE) THEN Q
                      ELSE DescendantsRecalculated(Q, parent, a)
      BY <2>3 DEF AssignPerm, AssignFails, AfterAssign
    <3>2. Good(a, s)
      BY <2>0, <3>1, AssignedGood DEF AllGood
    <3>3. CASE ~Identical(perms[a], u, p, FALSE)
      <4> HIDE DEF s
      <4>1. ArrivesAt(perms, DescendantsRecalculated(Q, parent, a), parent, x)
        BY <2>0, <3>2, ReplacedArrives
      <4>2. QED
        BY <2>1, <3>1, <3>3, <4>1
    <3>4. CASE Identical(perms[a], u, p, FALSE) /\ parent[x] = a
      <4>1. Type[a] = "collection"
        BY <1>1, <3>4 DEF CInv
      <4>2. p # "partial_submissions"
        BY <3>1, <4>1 DEF Assignable, ASSIGNABLE_PERMISSIONS_BY_TYPE
      <4>3. Grant(perms[a], a, u, p) = perms[a]
        BY <3>4 DEF Identical, Grant
      <4>4. s \in {perms[a], [perms[a] EXCEPT !.partial = @ \ Of(u, Codenames)]}
        BY <4>2, <4>3 DEF Assigned, UpdatePartial
      <4>5. Effective(s) = Effective(perms[a])
        BY <2>0, <4>4 DEF Effective, AssetState
      <4> HIDE DEF s
      <4>6. ArrivesAt(perms, Q, parent, x)
        BY <2>0, <4>5, SameNeedNotArrive
      <4>7. QED
        BY <2>1, <3>1, <3>4, <4>6
    <3>5. CASE Identical(perms[a], u, p, FALSE) /\ parent[x] # a
      <4> HIDE DEF s
      <4>1. ParentPerms(Q, parent, x) = ParentPerms(perms, parent, x)
        BY <2>0, <3>5 DEF ParentPerms
      <4>2. QED
        BY <3>1, <3>5, <4>1
    <3>6. QED
      BY <3>3, <3>4, <3>5
  <2>4. ASSUME NEW a \in Assets, NEW u \in Users, NEW p \in Codenames, RemovePerm(a, u, p)
        PROVE  Arrives(x)
    <3> DEFINE s == CleanPartial(Revoke(perms[a], a, u, p), u, p)
               k == [perms[a] EXCEPT !.kc = s.kc]
               R == [perms EXCEPT ![a] = k]
               D == DescendantsRecalculated([perms EXCEPT ![a] = s], parent, a)
    <3>1. parent' = parent /\ u # Owner[a] /\ perms' \in {R, D}
      BY <2>4 DEF RemovePerm, AfterRemove
    <3>2. Good(a, s)
      BY <2>0, <3>1, RevokeGood, CleanPartialGood DEF AllGood
    <3> HIDE DEF s
    <3>3. Effective(k) = Effective(perms[a])
      BY <2>0 DEF AssetState, Effective
    <3> HIDE DEF k
    <3>4. ArrivesAt(perms, R, parent, x)
      BY <2>0, <3>3, SameNeedNotArrive
    <3>5. ArrivesAt(perms, D, parent, x)
      BY <2>0, <3>2, ReplacedArrives
    <3>6. QED
      BY <2>1, <3>1, <3>4, <3>5
  <2>5. ASSUME NEW a \in Assets, Deploy(a)
        PROVE  Arrives(x)
    <3>1. PICK k : perms' = [perms EXCEPT ![a] = [perms[a] EXCEPT !.deployed = TRUE, !.kc = k]]
      BY <2>0, <2>5 DEF Deploy, AssetState
    <3> DEFINE s == [perms[a] EXCEPT !.deployed = TRUE, !.kc = k]
    <3>2. Effective(s) = Effective(perms[a])
      BY <2>0 DEF AssetState, Effective
    <3>3. perms' = [perms EXCEPT ![a] = s] /\ parent' = parent
      BY <2>5, <3>1 DEF Deploy
    <3> HIDE DEF s
    <3>4. ArrivesAt(perms, [perms EXCEPT ![a] = s], parent, x)
      BY <2>0, <3>2, SameNeedNotArrive
    <3>5. QED
      BY <2>1, <3>3, <3>4
  <2>6. CASE (\E t \in Assets, src \in CopySources : CopyBegin(t, src)) \/ CopyNext \/ CopyEnd
    BY <2>0, <2>6, TxActive DEF CopyNext, CopyEnd
  <2>7. QED
    BY <1>1, <2>2, <2>3, <2>4, <2>5, <2>6 DEF Next
<1>2. CInv /\ [Next]_vars =>
        [\A a \in Assets :
           ParentPerms(perms', parent', a) # ParentPerms(perms, parent, a) =>
             perms'[a].inherited = InheritedRows(a, ParentPerms(perms', parent', a))]_vars
  BY <1>1 DEF ArrivedAt
<1>3. Spec => []CInv
  BY AlwaysCInv
<1>4. QED
  BY <1>2, <1>3, PTL DEF Spec, ChangesArrive
=============================================================================
