--------------------------- MODULE AssetPermissions ---------------------------
(***************************************************************************)
(* Sharing of assets: who holds which permission on which asset, what a    *)
(* collection passes on to the assets in it, and what KoBoCAT is told.     *)
(*                                                                         *)
(* Models ObjectPermissionMixin (kpi/mixins/object_permission.py), the     *)
(* parts of Asset it relies on (kpi/models/asset.py), the permissions part *)
(* of a deployment, and KoBoCAT's permission table as it is used by        *)
(* kpi/deployment_backends/kc_access/utils.py.  The KPI database and the   *)
(* KoBoCAT database are different ones: a transaction that is rolled back  *)
(* undoes the rows of the former only.                                     *)
(*                                                                         *)
(* A tree of collections has at most three levels (Nested): the bound the  *)
(* model puts on recalculate_descendants_perms().                          *)
(***************************************************************************)
EXTENDS PermissionRows

CONSTANTS NoParent,        \* the parent of an asset that is in no collection
          PartialChoices,  \* the partial permissions a request may ask for
          CopySources      \* the assets that permissions are cloned from

ASSUME NoParentAssumption == NoParent \notin Assets
ASSUME PartialAssumption  == \A pp \in PartialChoices : pp # {} /\ pp \subseteq SubmissionPerms
ASSUME CopyAssumption     == CopySources \subseteq Assets

VARIABLES perms,    \* the rows of every asset
          parent,   \* the collection every asset is in
          tx        \* the copy_permissions_from() in progress, if any

vars == <<perms, parent, tx>>

NoTx == [active |-> FALSE]

CopyRow == [user : Users, perm : Codenames, deny : BOOLEAN]

CopyTx ==
  [active : {TRUE}, target : Assets, source : Assets, todo : SUBSET CopyRow,
   saved : [Assets -> AssetState]]

TypeOK ==
  /\ perms \in [Assets -> AssetState]
  /\ parent \in [Assets -> Assets \cup {NoParent}]
  /\ tx \in {NoTx} \cup CopyTx

-----------------------------------------------------------------------------
(* Descendants.                                                            *)

Children(par, S) == {x \in Assets : par[x] \in S}

(* Every asset is at the root, in a root, or in a child of a root.         *)
Nested(par) ==
  LET roots == Children(par, {NoParent})
      kids  == Children(par, roots)
  IN Assets = roots \cup kids \cup Children(par, kids)

ParentPerms(P, par, x) == IF par[x] = NoParent THEN {} ELSE Effective(P[par[x]])

(* _recalculate_inherited_perms() of every asset in S.                     *)
Recalculated(P, par, S) ==
  [x \in Assets |->
     IF x \in S THEN [P[x] EXCEPT !.inherited = InheritedRows(x, ParentPerms(P, par, x))]
                ELSE P[x]]

(* Mutants: only the children are recalculated; nothing is when rows are   *)
(* removed; a copy deletes the rows of the owner, or of nobody; KoBoCAT is *)
(* not told who may do what when a form is deployed.                       *)
ChildrenRecalculated(P, par, a) == Recalculated(P, par, Children(par, {a}))

(* recalculate_descendants_perms(): the children, then their children.     *)
DescendantsRecalculated(P, par, a) ==
  LET kids == Children(par, {a})
  IN Recalculated(Recalculated(P, par, kids), par, Children(par, kids))

Holds(a, u, p) == <<u, p>> \in Effective(perms[a])

(* has_perm(): with rows of one's own, or with the public's.  Superusers   *)
(* need none: they may ask for nothing that the owner may not.             *)
May(a, u, p) == Holds(a, u, p) \/ Holds(a, Anonymous, p)

-----------------------------------------------------------------------------
Fresh(a) ==
  [granted |-> {}, denied |-> {}, inherited |-> InheritedRows(a, {}),
   partial |-> {}, kc |-> {}, deployed |-> FALSE]

Init ==
  /\ perms = [a \in Assets |-> Fresh(a)]
  /\ parent = [a \in Assets |-> NoParent]
  /\ tx = NoTx

(* Asset.save(), which a PATCH of the asset ends with.  Moving it takes    *)
(* somebody who may change it, its collection and the new collection.      *)
Save(a, par) ==
  /\ ~tx.active
  /\ par = NoParent \/ (par \in Assets /\ Type[par] = "collection")
  /\ par # parent[a] =>
       \E u \in Users : \A x \in {a, par, parent[a]} \cap Assets : May(x, u, "change_asset")
  /\ parent' = [parent EXCEPT ![a] = par]
  /\ Nested(parent')
  /\ perms' = DescendantsRecalculated(Recalculated(perms, parent', {a}), parent', a)
  /\ UNCHANGED tx

(* The database after assign_perm() and after remove_perm() of user u on   *)
(* asset a.  An exception in the middle of remove_perm() rolls back KPI's  *)
(* rows, not KoBoCAT's.                                                    *)
AfterAssignHere(P, a, u, p, deny, pp) == [P EXCEPT ![a] = Assigned(@, a, u, p, deny, pp)]

AfterAssign(P, a, u, p, deny, pp) ==
  LET assigned == [P EXCEPT ![a] = Assigned(@, a, u, p, deny, pp)]
  IN IF Identical(P[a], u, p, deny) THEN assigned
     ELSE DescendantsRecalculated(assigned, parent, a)

AfterRemove(P, a, u, p) ==
  LET removed == CleanPartial(Revoke(P[a], a, u, p), u, p)
  IN IF RevokeFails(P[a], a, u, p) THEN [P EXCEPT ![a].kc = removed.kc]
     ELSE DescendantsRecalculated([P EXCEPT ![a] = removed], parent, a)

(* POST on permission-assignments: assign_perm() of a non-owner.           *)
AssignPerm(a, u, p, pp) ==
  /\ ~tx.active
  /\ u # Owner[a]
  /\ (p = "partial_submissions") = (pp # {})
  /\ ~AssignFails(perms[a], a, u, p, FALSE, pp)
  /\ perms' = AfterAssign(perms, a, u, p, FALSE, pp)
  /\ UNCHANGED <<parent, tx>>

(* DELETE of a permission assignment: remove_perm() of a row of a          *)
(* non-owner.                                                              *)
RemovePerm(a, u, p) ==
  /\ ~tx.active
  /\ u # Owner[a]
  /\ <<u, p>> \in Listed(perms[a])
  /\ perms' = AfterRemove(perms, a, u, p)
  /\ UNCHANGED <<parent, tx>>

DeployQuietly(a) ==
  /\ ~tx.active
  /\ Type[a] = "survey"
  /\ ~perms[a].deployed
  /\ perms' = [perms EXCEPT ![a].deployed = TRUE]
  /\ UNCHANGED <<parent, tx>>

(* Deployment of a survey: bulk_assign_mapped_perms() tells KoBoCAT what   *)
(* everybody but the owner may do.                                         *)
Deploy(a) ==
  /\ ~tx.active
  /\ Type[a] = "survey"
  /\ ~perms[a].deployed
  /\ perms' = [perms EXCEPT
       ![a].deployed = TRUE,
       ![a].kc = @ \cup {x \in Effective(perms[a]) : x[1] # Owner[a] /\ x[2] \in KC(x[1])}]
  /\ UNCHANGED <<parent, tx>>

-----------------------------------------------------------------------------
(* PATCH on permission-assignments/clone: copy_permissions_from(), which   *)
(* deletes the rows of everybody but the owner, assigns the source's rows  *)
(* one by one in whatever order the database returns them, and recalculates*)
(* the inherited rows of the target.                                       *)
OwnRowsDeleted(a, S) == {}

OthersRowsKept(a, S) == S

OwnRows(a, S) == {x \in S : x[1] = Owner[a]}

CopyBegin(t, src) ==
  /\ ~tx.active
  /\ t # src
  /\ \E u \in Users : May(t, u, "manage_asset") /\ May(src, u, "view_asset")
  /\ tx' = [active |-> TRUE, target |-> t, source |-> src, saved |-> perms,
            todo |-> [user : Users \ {Owner[t]}, perm : Codenames, deny : BOOLEAN]
                       \cap ({[user |-> x[1], perm |-> x[2], deny |-> FALSE] : x \in Listed(perms[src])}
                        \cup {[user |-> x[1], perm |-> x[2], deny |-> TRUE] : x \in perms[src].denied})]
  /\ perms' = [perms EXCEPT
       ![t].granted = OwnRows(t, @), ![t].denied = OwnRows(t, @),
       ![t].inherited = OwnRows(t, @),
       ![t].kc = @ \ {x \in Listed(perms[t]) : x[1] # Owner[t]}]
  /\ UNCHANGED parent

CopyStep(r) ==
  LET t  == tx.target
      pp == IF r.perm = "partial_submissions"
            THEN PartialRow(perms[tx.source], r.user) ELSE {}
  IN IF AssignFails(perms[t], t, r.user, r.perm, r.deny, pp)
     THEN /\ perms' = [x \in Assets |-> [tx.saved[x] EXCEPT !.kc = perms[x].kc]]
          /\ tx' = NoTx
     ELSE /\ perms' = AfterAssign(perms, t, r.user, r.perm, r.deny, pp)
          /\ tx' = [tx EXCEPT !.todo = @ \ {r}]

CopyNext ==
  /\ tx.active
  /\ \E r \in tx.todo : CopyStep(r)
  /\ UNCHANGED parent

CopyEnd ==
  /\ tx.active
  /\ tx.todo = {}
  /\ perms' = Recalculated(perms, parent, {tx.target})
  /\ tx' = NoTx
  /\ UNCHANGED parent

(* The rows of asset a are those before a request that raised.             *)
Undone(a) ==
  \/ tx.active /\ tx.target = a /\ tx.todo # {} /\ ~tx'.active
  \/ \E x \in Listed(perms[a]) :
       RevokeFails(perms[a], a, x[1], x[2]) /\ RemovePerm(a, x[1], x[2])

Next ==
  \/ \E a \in Assets, par \in Assets \cup {NoParent} : Save(a, par)
  \/ \E a \in Assets, u \in Users, p \in Codenames, pp \in PartialChoices \cup {{}} :
       AssignPerm(a, u, p, pp)
  \/ \E a \in Assets, u \in Users, p \in Codenames : RemovePerm(a, u, p)
  \/ \E a \in Assets : Deploy(a)
  \/ \E t \in Assets, src \in CopySources : CopyBegin(t, src)
  \/ CopyNext
  \/ CopyEnd

Spec == Init /\ [][Next]_vars
-----------------------------------------------------------------------------
(***************************************************************************)
(* Properties.                                                             *)
(***************************************************************************)

(* Whoever effectively holds a permission also holds what it implies, on   *)
(* every asset and whatever is granted, denied, inherited, moved or copied *)
(* (IMPLIED_PERMISSIONS): nobody edits submissions they cannot see.        *)
EffectiveClosed ==
  \A a \in Assets, u \in Users, p \in Codenames :
     Holds(a, u, p) => \A q \in Implied(p) \cap Assignable(a) : Holds(a, u, q)

(* Row-level access never coexists with an unrestricted permission on the  *)
(* submissions (CONTRADICTORY_PERMISSIONS).                                *)
NeverPartialAndFull ==
  \A a \in Assets, u \in Users :
     Holds(a, u, "partial_submissions") =>
       \A q \in CONTRADICTORY_PERMISSIONS["partial_submissions"] : ~Holds(a, u, q)

(* The owner keeps every assignable permission, through every             *)
(* recalculation and during a copy, and nothing is denied to the owner.    *)
OwnerHoldsEverything ==
  \A a \in Assets :
     /\ \A p \in Assignable(a) \ {"partial_submissions"} : Holds(a, Owner[a], p)
     /\ \A p \in Codenames : <<Owner[a], p>> \notin perms[a].denied

(* What an asset inherits is held on the collection it is in: a permission *)
(* revoked on a collection is revoked on everything below it.  (What a     *)
(* copy leaves while its transaction is open is nobody's to see.)          *)
InheritedFromParent ==
  ~tx.active =>
    \A a \in Assets : \A x \in perms[a].inherited :
       x[1] # Owner[a] => x \in ParentPerms(perms, parent, a)

(* A change to what a collection passes on reaches everything in it: what  *)
(* an asset inherits is then exactly what the collection now gives.        *)
ChangesArrive ==
  [][\A a \in Assets :
       ParentPerms(perms', parent', a) # ParentPerms(perms, parent, a) =>
         perms'[a].inherited = InheritedRows(a, ParentPerms(perms', parent', a))]_vars

(* KoBoCAT lets nobody but the owner of a deployed form do less than KPI   *)
(* does.                                                                   *)
KobocatKnows(P, a) ==
  P[a].deployed =>
    \A x \in Effective(P[a]) : x[1] # Owner[a] /\ x[2] \in KC(x[1]) => x \in P[a].kc

(* Requests that are not undone keep it so, through whatever they imply,   *)
(* contradict or recalculate, and so does every step of a copy: each row   *)
(* is told to KoBoCAT as it is assigned, and removed there when it is.     *)
KobocatStaysComplete ==
  [][\A a \in Assets : KobocatKnows(perms, a) /\ ~KobocatKnows(perms', a) => Undone(a)]_vars

(* A row lets its user view what it lets them change, delete or validate;  *)
(* and whoever has row-level access has a row that restricts it, unless    *)
(* full access has been denied to them (see PartialGrantHasRow).           *)
RowLevelIsRestricted ==
  \A a \in Assets, u \in Users :
     /\ \A q \in PartialRow(perms[a], u) :
          Implied(q) \cap SubmissionPerms \subseteq PartialRow(perms[a], u)
     /\ Holds(a, u, "partial_submissions") =>
          \/ PartialRow(perms[a], u) # {}
          \/ \E q \in CONTRADICTORY_PERMISSIONS["partial_submissions"] : <<u, q>> \in perms[a].denied

(* The public is listed with nothing it may not have: whatever is granted  *)
(* to the anonymous user, copied to it or inherited by it is among         *)
(* ALLOWED_ANONYMOUS_PERMISSIONS, so that a listing, which reads the rows, *)
(* and has_perm(), which filters them, agree.                              *)
AnonymousRowsAllowed ==
  \A a \in Assets : \A x \in Listed(perms[a]) :
     x[1] = Anonymous => x[2] \in ALLOWED_ANONYMOUS_PERMISSIONS

(* The rows of an asset, in any state a request can leave or find them in. *)
(* Nothing is both granted and denied, or granted explicitly without what  *)
(* it implies, or granted explicitly together with what contradicts it; a  *)
(* denial of view_asset comes with one of change_asset; the owner has rows *)
(* for everything and no other kind of row.                                *)
Coherent(a, s) ==
  /\ \A u \in Users, p \in Codenames : <<u, p>> \in s.granted =>
       /\ <<u, p>> \notin s.denied
       /\ u # Owner[a] /\ p \in Assignable(a)
       /\ \A q \in Implied(p) \cap Assignable(a) : <<u, q>> \in s.granted
       /\ \A q \in CONTRADICTORY_PERMISSIONS[p] : <<u, q>> \notin s.granted
  /\ \A u \in Users, p \in Codenames : <<u, p>> \in s.denied =>
       /\ u # Owner[a]
       /\ \A q \in ReverseImplied(p) \cap HERITABLE_PERMISSIONS \cap Codenames :
            <<u, q>> \in s.denied
  /\ \A u \in Users, p \in Codenames : u # Owner[a] /\ <<u, p>> \in s.inherited =>
       /\ p \in HERITABLE_PERMISSIONS
       /\ \A q \in Implied(p) \cap Codenames : <<u, q>> \in s.inherited
  /\ \A p \in Codenames : <<Owner[a], p>> \in s.inherited <=>
       p \in Assignable(a) \ {"partial_submissions"}

RowsCoherent == \A a \in Assets : Coherent(a, perms[a])

(* After remove_perm() the user does not hold the permission: there is no  *)
(* removal, but one that raises, of what a user had a row for and still    *)
(* holds.                                                                  *)
RemovedIsGone ==
  [][\A a \in Assets : \A x \in Listed(perms[a]) \cap Effective(perms'[a]) :
       RemovePerm(a, x[1], x[2]) => RevokeFails(perms[a], a, x[1], x[2])]_vars

(* A copy gives nobody but the owner less than the source did when it      *)
(* began.  What it gives more is what the target or the source inherits    *)
(* (denied there or not), or the add_submissions that an edit of some      *)
(* submissions needs.                                                      *)
CopyIsFaithful ==
  [][CopyEnd =>
       LET t         == tx.target
           src       == tx.saved[tx.source]
           others(S) == {x \in S : x[1] # Owner[t]}
           given     == others(Effective(perms'[t]))
       IN /\ others(Effective(src)) \subseteq given
          /\ \A x \in given \ Effective(src) :
               \/ x \in ParentPerms(perms, parent, t) \cup src.inherited
               \/ x[2] = "add_submissions" /\ <<x[1], "change_submissions">> \in src.partial]_vars

-----------------------------------------------------------------------------
(***************************************************************************)
(* What one would expect and TLC refutes.  One run shows it for            *)
(* PartialGrantHasRow; no run checks the others.                           *)
(***************************************************************************)

(* A user with row-level access has the row that restricts them: it "must  *)
(* be accompanied by `partial_perms`" (_update_partial_permissions()).     *)
(* When manage_asset is denied already, a denial that reaches it through   *)
(* change_asset returns early and deletes the row on its way, even if the  *)
(* user has been given row-level access in the meantime.                   *)
PartialGrantHasRow ==
  \A a \in Assets, u \in Users :
     Holds(a, u, "partial_submissions") => PartialRow(perms[a], u) # {}

(* What a collection passes on arrives, unless a denial blocks it.  A      *)
(* denial of view_asset on the asset also hides what is inherited of       *)
(* change_asset, and one that came with a removal outlives the move of the *)
(* asset to another collection.                                            *)
InheritedUnlessDenied ==
  \A a \in Assets : \A x \in ParentPerms(perms, parent, a) :
     x[1] # Owner[a] /\ x[2] \in HERITABLE_PERMISSIONS =>
       x \in Effective(perms[a]) \cup perms[a].denied

(* KoBoCAT lets nobody do more than KPI does: "permissions are synced in   *)
(* KoBoCAT and KPI".  A grant of partial_submissions deletes contradictory *)
(* rows without telling KoBoCAT, and so does the rollback of a removal.    *)
KobocatSound ==
  ~tx.active => \A a \in Assets : perms[a].kc \subseteq Effective(perms[a])

(* The row-level row goes when partial_submissions goes.  A removal of     *)
(* view_asset takes partial_submissions with it and leaves the row.        *)
RowHasPartialGrant ==
  ~tx.active => \A a \in Assets : \A x \in perms[a].partial :
                  Holds(a, x[1], "partial_submissions")

(* Whoever may edit some submissions may add submissions: "Otherwise, KC   *)
(* will reject some actions" (_update_partial_permissions()).  It can be   *)
(* removed again.                                                          *)
PartialEditorsMayAdd ==
  ~tx.active => \A a \in Assets, u \in Users :
    Holds(a, u, "partial_submissions") /\ <<u, "change_submissions">> \in perms[a].partial
      => Holds(a, u, "add_submissions")

(* get_objects_for_user() returns what the user "has *all* permissions" on.*)
(* It does not look at denials.                                            *)
ListedOnlyIfHeld == \A a \in Assets : Listed(perms[a]) \subseteq Effective(perms[a])

(* KoBoCAT lets nobody but the owner do less than KPI does: "permissions   *)
(* are synced in KoBoCAT and KPI" (copy_permissions_from()).  A copy that  *)
(* fails brings back the rows of KPI only.                                 *)
KobocatComplete == ~tx.active => \A a \in Assets : KobocatKnows(perms, a)

(* What is listed can be removed.  remove_perm() raises when it replaces   *)
(* an inherited grant by a denial that reaches a denial of                 *)
(* partial_submissions made before: no partial permissions come with it.   *)
RemovalsSucceed ==
  \A a \in Assets : ~tx.active =>
    \A x \in Listed(perms[a]) : ~RevokeFails(perms[a], a, x[1], x[2])

(* A copy gives nobody what the source denies them, unless the collection  *)
(* the target is in does.  The rows come in any order: an inherited row of *)
(* what the source denies is copied as a grant, which lifts the denial     *)
(* when it comes later.                                                    *)
CopyGivesNothingDenied ==
  [][CopyEnd =>
       \A x \in Effective(perms'[tx.target]) : x[1] # Owner[tx.target] =>
           \/ x \in ParentPerms(perms, parent, tx.target)
           \/ x \notin tx.saved[tx.source].denied]_vars
=============================================================================
