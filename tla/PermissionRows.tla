---------------------------- MODULE PermissionRows ----------------------------
(***************************************************************************)
(* What the methods of ObjectPermissionMixin do to the rows of ONE asset.  *)
(*                                                                         *)
(* The state of an asset is a record of sets of <<user, codename>> pairs:  *)
(*   granted, denied   the explicit ObjectPermission rows by `deny`        *)
(*   inherited         the rows with inherited=True (deny is never set on  *)
(*                     them)                                               *)
(*   partial           the AssetUserPartialPermission rows: the keys of    *)
(*                     the row of user u are the q with <<u, q>> in it; a  *)
(*                     row without a key is the absence of a row           *)
(*   kc                the permissions KoBoCAT holds for the asset's form  *)
(*   deployed          whether the asset has a deployment                  *)
(* The recursive calls of the source are written in closed form: `wanted`  *)
(* is the set of codenames the recursion visits, `new` those it creates.   *)
(***************************************************************************)
EXTENDS PermissionTables

CONSTANTS Users, Anonymous, Assets, Owner, Type

(* An instance without public sharing leaves Anonymous out of Users.        *)
ASSUME OwnerAssumption     == Owner \in [Assets -> Users \ {Anonymous}]
ASSUME TypeAssumption      == Type \in [Assets -> AssetTypes]

Pair == Users \X Codenames

AssetState ==
  [granted : SUBSET Pair, denied : SUBSET Pair, inherited : SUBSET Pair,
   partial : SUBSET Pair, kc : SUBSET Pair, deployed : BOOLEAN]

Assignable(a) == ASSIGNABLE_PERMISSIONS_BY_TYPE[Type[a]]

(* The rows of user u for the codenames in C.                              *)
Of(u, C) == {u} \X (C \cap Codenames)

(* The codenames the recursion visits: get_implied_perms(for_instance=self)*)
(* forwards, for a grant, and backwards, for a denial or a removal.        *)
IncludingNothingElse(a, p) == {p}

Including(a, p) == {p} \cup (Implied(p) \cap Assignable(a))

RequiringNothingElse(a, p) == {p}

Requiring(a, p) == {p} \cup (ReverseImplied(p) \cap Assignable(a))

ContraryForgotten(C) == {}

Contrary(C) == UNION {CONTRADICTORY_PERMISSIONS[q] : q \in C}


(* The keys of the AssetUserPartialPermission of user u.                   *)
PartialRow(s, u) == {q \in Codenames : <<u, q>> \in s.partial}

KC(u) == IF u = Anonymous THEN KC_ANONYMOUS ELSE KC_PERMISSIONS

AllowedTo(u, p) == u = Anonymous => p \in ALLOWED_ANONYMOUS_PERMISSIONS

(* _get_effective_perms(include_calculated=False): grants minus denials,   *)
(* restricted to what the anonymous user may hold.                         *)
Effective(s) ==
  {x \in (s.granted \cup s.inherited) \ s.denied : AllowedTo(x[1], x[2])}

(* get_objects_for_user() looks for a row with deny=False, no more.        *)
Listed(s) == s.granted \cup s.inherited

(* assign_perm(u, p) and the assignments it implies.  A permission already *)
(* granted explicitly is left alone with everything it implies.            *)
Grant(s, a, u, p) ==
  LET wanted == Including(a, p)
      new    == {q \in wanted : <<u, q>> \notin s.granted}
      contra == Contrary(new)
  IN IF <<u, p>> \in s.granted THEN s
     ELSE [s EXCEPT !.granted   = (@ \ Of(u, contra)) \cup Of(u, wanted),
                    !.denied    = @ \ Of(u, new \cup contra),
                    !.inherited = @ \ Of(u, contra),
                    !.kc        = IF s.deployed THEN @ \cup Of(u, new \cap KC(u)) ELSE @]

(* The codenames that assign_perm(u, p, deny=True) visits when their row   *)
(* is there already, from before or from an earlier branch of the          *)
(* recursion: the early return calls _update_partial_permissions() then.   *)
Revisited(s, a, u, p) ==
  LET wanted == Requiring(a, p)
      old    == {q \in wanted : <<u, q>> \in s.denied}
  IN IF p \in old THEN {p}
     ELSE old \cup {q \in wanted : \E r \in wanted \ (old \cup {p}) : q \in ReverseImplied(r)}

(* That call raises BadPermissionsException for partial_submissions, since *)
(* no partial permissions are passed down.                                 *)
DenyFails(s, a, u, p) == "partial_submissions" \in Revisited(s, a, u, p) \ {p}

(* assign_perm(u, p, deny=True) and the denials it implies in reverse.     *)
Deny(s, a, u, p) ==
  LET wanted == Requiring(a, p)
      new    == {q \in wanted : <<u, q>> \notin s.denied}
      clean  == Revisited(s, a, u, p)
                  \cap CONTRADICTORY_PERMISSIONS["partial_submissions"] # {}
      pruned == IF clean THEN s.partial \ Of(u, Codenames) ELSE s.partial
  IN IF <<u, p>> \in s.denied THEN [s EXCEPT !.partial = pruned]
     ELSE [s EXCEPT !.granted = @ \ Of(u, new),
                    !.denied  = @ \cup Of(u, wanted),
                    !.kc      = @ \ (Of(u, new) \cap s.granted),
                    !.partial = pruned]

(* Mutants: an inherited grant is left alone; the owner is given what the  *)
(* type does not have.                                                     *)
DenyInheritedForgotten(s, a, u, q) == s

InheritedRowsOfAnyType(a, parentPerms) ==
  {Owner[a]} \X (AllCodenames \ {"partial_submissions"})

(* The part of remove_perm() that handles an inherited grant of q: delete  *)
(* it and add a denial to block future inheritance.                        *)
DenyInherited(s, a, u, q) ==
  IF <<u, q>> \in s.inherited
  THEN Deny([s EXCEPT !.inherited = @ \ Of(u, {q})], a, u, q)
  ELSE s

(* remove_perm(u, p): everything that implies p is removed before p.  Only *)
(* HERITABLE_PERMISSIONS can be inherited by a user who is not the owner.  *)
Stripped(s, a, u, p) ==
  [s EXCEPT !.granted = @ \ Of(u, Requiring(a, p)),
            !.kc      = @ \ Of(u, Requiring(a, p) \cap KC(u))]

RevokeImplied(s, a, u, p) ==
  IF p = "view_asset" THEN DenyInherited(Stripped(s, a, u, p), a, u, "change_asset")
                      ELSE Stripped(s, a, u, p)

Revoke(s, a, u, p) == DenyInherited(RevokeImplied(s, a, u, p), a, u, p)

RevokeFails(s, a, u, p) ==
  <<u, p>> \in s.inherited /\ DenyFails(RevokeImplied(s, a, u, p), a, u, p)

(* Asset._update_partial_permissions(): only partial_submissions writes a  *)
(* row, only the permissions contradicting it (or its removal) delete it.  *)
UpdatePartial(s, a, u, p, pp) ==
  LET cleaned == [s EXCEPT !.partial = @ \ Of(u, Codenames)]
      stored  == [cleaned EXCEPT !.partial = @ \cup Of(u, PartialKeys(pp))]
  IN IF p = "partial_submissions"
     THEN IF "add_submissions" \in PartialKeys(pp)
          THEN Grant(stored, a, u, "add_submissions") ELSE stored
     ELSE IF p \in CONTRADICTORY_PERMISSIONS["partial_submissions"] THEN cleaned ELSE s

CleanPartial(s, u, p) ==
  IF p \in {"partial_submissions"} \cup CONTRADICTORY_PERMISSIONS["partial_submissions"]
  THEN [s EXCEPT !.partial = @ \ Of(u, Codenames)] ELSE s

(* The top-level call of assign_perm(), without the descendants.           *)
Identical(s, u, p, deny) == <<u, p>> \in (IF deny THEN s.denied ELSE s.granted)

Assigned(s, a, u, p, deny, pp) ==
  UpdatePartial(IF deny THEN Deny(s, a, u, p) ELSE Grant(s, a, u, p), a, u, p, pp)

(* (A mutant does not ask what the public may have.)                       *)
AssignFailsForMembers(s, a, u, p, deny, pp) ==
  \/ p \notin Assignable(a)
  \/ p = "partial_submissions" /\ (u = Owner[a] \/ pp = {})
  \/ deny /\ DenyFails(s, a, u, p)

AssignFails(s, a, u, p, deny, pp) ==
  \/ p \notin Assignable(a)
  \/ ~deny /\ ~AllowedTo(u, p)
  \/ p = "partial_submissions" /\ (u = Owner[a] \/ pp = {})
  \/ deny /\ DenyFails(s, a, u, p)

(* The inherited rows _recalculate_inherited_perms() creates, given the    *)
(* effective permissions of the parent ({} when there is none).            *)
InheritedRows(a, parentPerms) ==
  Of(Owner[a], Assignable(a) \ {"partial_submissions"})
    \cup {x \in parentPerms : x[1] # Owner[a] /\ x[2] \in HERITABLE_PERMISSIONS}
=============================================================================
