------------------------------ MODULE Listings ------------------------------
(***************************************************************************)
(* What a user is told about assets, in a list and one by one: their       *)
(* status, who may do what, how the user has access                        *)
(* (views/v2/asset.py, serializers/v2/asset.py).                           *)
(*                                                                         *)
(* A list fetches the permissions of all its assets at once; what is asked *)
(* of one asset is fetched for each answer.  Every query sees what others  *)
(* committed meanwhile: rows of permissions, as in AssetPermissions,       *)
(* subscriptions and deletions.  has_perm() reads the rows of a user once  *)
(* in a request.  `could` keeps on which assets the user could manage      *)
(* permissions at some time during the request.  Superusers, the search    *)
(* and pages of a list are left out.                                       *)
(***************************************************************************)
EXTENDS AssetPermissions, Naturals, FiniteSets

CONSTANTS Early,         \* the users whose name comes before AnonymousUser's
          Readers,       \* the users who ask, and subscribe
          MaxChanges,    \* bound on changes during a request
          Unset,         \* of a record: nothing
          MaxRows        \* bound on rows that are not inherited

VARIABLES subscriptions,    \* pairs of a user and a collection
          deleted,          \* the assets that are no more
          ask               \* the request

listingVars == <<vars, subscriptions, deleted, ask>>

Signed == Users \ {Anonymous}
There  == Assets \ deleted

NoAsk == [is |-> "none"]

-----------------------------------------------------------------------------
(* KpiObjectPermissionsFilter.                                             *)
Explicit(u)   == IF u = Anonymous THEN {} ELSE {a \in There : <<u, "view_asset">> \in Listed(perms[a])}
Publics       == {a \in There : <<Anonymous, "view_asset">> \in Listed(perms[a])}
Subscribed(u) == {a \in Publics : <<u, a>> \in subscriptions}
OnList(u)     == Explicit(u) \cup Subscribed(u) \cup {a \in There : parent[a] \in Subscribed(u)}
InDetail(u)   == Explicit(u) \cup Publics

(* has_perm(), given the rows that were read: the user's own on any asset, *)
(* and the anonymous user's, which are everybody's, read once in a request *)
(* (__get_all_user_permissions(), __get_object_permissions()).             *)
RowsOfUser(u) ==
  LET theirs(S) == {x \in S : x[1] \in {u, Anonymous}}
  IN [a \in Assets |-> [perms[a] EXCEPT !.granted = theirs(@), !.denied = theirs(@), !.inherited = theirs(@)]]

GrantsOf(rows, u, a) == {x \in Effective(rows[a]) : x[1] \in {u, Anonymous}}

Has(rows, u, a, p) == \E x \in GrantsOf(rows, u, a) : x[2] = p

-----------------------------------------------------------------------------
Alphabetic == <<"add_submissions", "change_asset", "change_submissions", "delete_submissions", "discover_asset",
                "manage_asset", "partial_submissions", "validate_submissions", "view_asset", "view_submissions">>
FirstOf(C) == Alphabetic[CHOOSE i \in DOMAIN Alphabetic : Alphabetic[i] \in C /\ \A j \in 1..i-1 : Alphabetic[j] \notin C]

(* _get_status(), which looks at the first row: the anonymous user's, if   *)
(* there is any.                                                           *)
Status(rows) ==
  LET public == {x[2] : x \in {y \in rows : y[1] = Anonymous}}
      first  == FirstOf(public)
  IN IF rows = {} THEN "private"
     ELSE IF public = {} THEN "shared"
     ELSE IF first = "discover_asset" THEN "public-discoverable"
     ELSE IF first = "view_asset" THEN "public" ELSE "shared"

OfOthers(a, rows) == {x \in rows : x[1] # Owner[a]}

(* get_status(), in detail and in a list.                                  *)
StatusInDetail(a) == Status(OfOthers(a, Listed(perms[a]) \cup perms[a].denied))
StatusInList(a, fetched) == Status(OfOthers(a, fetched))

(* get_user_permission_assignments_queryset(): who may not manage          *)
(* permissions sees the owner's, the public's and their own.  (A mutant    *)
(* asks for less.)                                                         *)
MayAllForViewers(held, u, a) == Has(held, u, a, "view_asset")
MayAll(held, u, a)           == Has(held, u, a, "manage_asset")

ShownInDetail(held, u, a) ==
  {x \in Listed(perms[a]) :
     \/ x[1] \in {Owner[a], Anonymous}
     \/ u # Anonymous /\ (x[1] = u \/ MayAll(held, u, a))}

(* get_user_permission_assignments(), which is meant to be the same.       *)
ShownInList(held, u, a, fetched) ==
  {x \in fetched :
     \/ x[1] = Owner[a]
     \/ u # Anonymous /\ (x[1] \in {u, Anonymous} \/ MayAll(held, u, a))}

(* What version 1 of the API lists: the rows that are the user's, that are *)
(* the owner's of what they have a row on, and all of what they own.       *)
ShownInVersion1(u) ==
  UNION {{a} \X {x \in Listed(perms[a]) \cup perms[a].denied :
                  /\ u # Anonymous
                  /\ \/ u \in {Owner[a], x[1]}
                     \/ x[1] = Owner[a] /\ \E y \in Listed(perms[a]) \cup perms[a].denied : y[1] = u} :
         a \in There}

(* get_access_types(): the rows are looked at until the user's first one,  *)
(* so that it matters whether the public's come before.                    *)
Types(a, u, rows, publicFirst, subscribers) ==
  LET public == <<Anonymous, "discover_asset">> \in rows
      mine   == u # Anonymous /\ \E x \in rows : x[1] = u
  IN (IF u = Owner[a] THEN {"owned"} ELSE {})
     \cup (IF public /\ (u = Owner[a] \/ ~mine \/ publicFirst) THEN {"public"} ELSE {})
     \cup (IF u # Owner[a] /\ mine THEN {"shared"} ELSE {})
     \cup (IF u \in subscribers THEN {"subscribed"} ELSE {})

Subscribers(a) == {x[1] : x \in {y \in subscriptions : y[2] = a}}

\* In a list the rows are in the order of names, in detail in any order.
TypesInList(a, u, fetched, subscribers) == Types(a, u, fetched, u \notin Early, subscribers)
TypesInDetail(a, u) == {Types(a, u, Listed(perms[a]), first, Subscribers(a)) : first \in BOOLEAN}

\* get_children(); a collection of nobody's is an error in get_access_types().
Count(a) == Cardinality(Children(parent, {a}) \ deleted)
Fails(a, types) == Type[a] = "collection" /\ types = {}

-----------------------------------------------------------------------------
(* get_metadata(): what a list can be narrowed down to.  Records that have *)
(* nothing to tell are not fetched; a language may be unnamed.             *)
Record == [languages : SUBSET {"en", Unset}, country : {"ht", Unset}, sector : {"health", Unset}, organization : {"aa", Unset}]

Silent(r) == r.languages \subseteq {Unset} /\ r.country = Unset /\ r.sector = Unset /\ r.organization = Unset

Metadata(records) ==
  LET fetched == {r \in records : ~Silent(r)}
  IN [languages     |-> UNION {r.languages : r \in fetched} \ {Unset},
      countries     |-> {r.country : r \in fetched} \ {Unset},
      sectors       |-> {r.sector : r \in fetched} \ {Unset},
      organizations |-> {r.organization : r \in fetched} \ {Unset}]

-----------------------------------------------------------------------------
ListingInit ==
  /\ Init /\ subscriptions = {} /\ deleted = {} /\ ask = NoAsk

(* list(): the assets, their rows in one query, subscriptions and children *)
(* in others, then an answer for each.                                     *)
StartList(u) ==
  /\ ask.is = "none"
  /\ ask' = [is |-> "filtered", user |-> u, changes |-> 0, could |-> {a \in There : Has(perms, u, a, "manage_asset")},
             assets |-> OnList(u)]
  /\ UNCHANGED <<vars, subscriptions, deleted>>

Extend(r, more) == [k \in DOMAIN r \cup DOMAIN more |-> IF k \in DOMAIN more THEN more[k] ELSE r[k]]

FetchRows ==
  /\ ask.is = "filtered"
  /\ ask' = Extend(ask, [is |-> "fetched", rows |-> [a \in ask.assets \ deleted |-> Listed(perms[a])]])
  /\ UNCHANGED <<vars, subscriptions, deleted>>

FetchOthers ==
  /\ ask.is = "fetched"
  /\ ask' = Extend(ask, [is |-> "held", subs |-> subscriptions, kids |-> [a \in ask.assets |-> Count(a)]])
  /\ UNCHANGED <<vars, subscriptions, deleted>>

(* The serializer: one asset that fails makes the list fail.               *)
AnswerList ==
  LET u == ask.user
      types(a) == TypesInList(a, u, ask.rows[a], {x[1] : x \in {y \in ask.subs : y[2] = a}})
  IN /\ ask.is = "held"
     /\ ask' = IF \E a \in ask.assets : a \notin DOMAIN ask.rows \/ Fails(a, types(a))
               THEN [is |-> "failed", user |-> u, changes |-> ask.changes, assets |-> ask.assets, could |-> {}]
               ELSE [is |-> "listed", user |-> u, changes |-> ask.changes, assets |-> ask.assets, could |-> ask.could,
                     told |-> [a \in ask.assets |->
                       [status |-> StatusInList(a, ask.rows[a]), shown |-> ShownInList(RowsOfUser(u), u, a, ask.rows[a]),
                        types |-> IF Type[a] = "collection" THEN {types(a)} ELSE {},
                        children |-> ask.kids[a]]]]
     /\ UNCHANGED <<vars, subscriptions, deleted>>

(* retrieve(): the filter, has_perm(), whose rows are kept, ...            *)
StartDetail(u, a) ==
  /\ ask.is = "none"
  /\ a \in InDetail(u) /\ Has(perms, u, a, "view_asset")
  /\ ask' = [is |-> "found", user |-> u, changes |-> 0, could |-> {b \in There : Has(perms, u, b, "manage_asset")},
             assets |-> {a}, held |-> RowsOfUser(u)]
  /\ UNCHANGED <<vars, subscriptions, deleted>>

(* ... then the queries of each answer.                                    *)
DescribeFirst ==
  /\ ask.is = "found"
  /\ \E a \in ask.assets :
       ask' = Extend(ask, [is |-> "described", status |-> StatusInDetail(a), children |-> Count(a)])
  /\ UNCHANGED <<vars, subscriptions, deleted>>

AnswerDetail ==
  /\ ask.is = "described"
  /\ \E a \in ask.assets : \E types \in TypesInDetail(a, ask.user) :
       ask' = IF Fails(a, types)
              THEN [is |-> "failed", user |-> ask.user, changes |-> ask.changes, assets |-> ask.assets, could |-> {}]
              ELSE [is |-> "listed", user |-> ask.user, changes |-> ask.changes, assets |-> ask.assets, could |-> ask.could,
                    told |-> [b \in {a} |->
                      [status |-> ask.status, shown |-> ShownInDetail(ask.held, ask.user, a),
                       types |-> IF Type[a] = "collection" THEN {types} ELSE {}, children |-> ask.children]]]
  /\ UNCHANGED <<vars, subscriptions, deleted>>

Done == ask.is \in {"listed", "failed"} /\ ask' = NoAsk /\ UNCHANGED <<vars, subscriptions, deleted>>

-----------------------------------------------------------------------------
(* What others do, between any two queries.                                *)
Note ==
  /\ ask.is \notin {"listed", "failed"}
  /\ IF ask.is = "none" THEN ask' = ask
     ELSE /\ ask.changes < MaxChanges
          /\ ask' = [ask EXCEPT !.changes = @ + 1,
                                !.could = @ \cup {a \in Assets \ deleted' : Has(perms', ask.user, a, "manage_asset")}]

RowsOf(P) == UNION {{<<a, x>> : x \in P[a].granted \cup P[a].denied} : a \in Assets}

Share ==
  /\ \/ \E a \in There, u \in Users, p \in Codenames : AssignPerm(a, u, p, {}) \/ RemovePerm(a, u, p)
     \/ \E a \in There, par \in There \cup {NoParent} : par # parent[a] /\ Save(a, par)
  /\ Cardinality(RowsOf(perms')) <= MaxRows
  /\ UNCHANGED <<subscriptions, deleted>> /\ Note

(* A subscription to what is discoverable, and its end.                    *)
Subscribe(u, a) ==
  /\ Type[a] = "collection" /\ a \in There /\ u # Owner[a]
  /\ IF <<u, a>> \in subscriptions THEN subscriptions' = subscriptions \ {<<u, a>>}
     ELSE Has(perms, Anonymous, a, "discover_asset") /\ subscriptions' = subscriptions \cup {<<u, a>>}
  /\ UNCHANGED <<vars, deleted>> /\ Note

(* Rows go with the asset; a collection takes what is in it along.         *)
Delete(a) ==
  /\ a \in There /\ ~\E b \in There : parent[b] = a
  /\ deleted' = deleted \cup {a}
  /\ subscriptions' = {x \in subscriptions : x[2] # a}
  /\ UNCHANGED vars /\ Note

ListingNext ==
  \/ \E u \in Readers : StartList(u) \/ \E a \in There : StartDetail(u, a)
  \/ FetchRows \/ FetchOthers \/ AnswerList \/ DescribeFirst \/ AnswerDetail \/ Done
  \/ Share
  \/ \E u \in Readers \ {Anonymous}, a \in Assets : Subscribe(u, a)
  \/ \E a \in Assets : Delete(a)

ListingSpec == ListingInit /\ [][ListingNext]_listingVars

-----------------------------------------------------------------------------
(* Others' permissions are told only to who could manage them at some time *)
(* during the request, whenever the rows, and the user's own, were read.   *)
OthersForManagers ==
  ask.is = "listed" =>
    \A a \in ask.assets : \A x \in ask.told[a].shown :
      x[1] \in {Owner[a], ask.user, Anonymous} \/ a \in ask.could

(* A list tells of an asset what one would be told by asking for it, if    *)
(* nothing is denied on it: "Works like                                    *)
(* get_user_permission_assignments_queryset"                               *)
(* (kpi/utils/object_permission.py:193); version 1 does not tell more.     *)
ListsTellTheSame ==
  ask.is = "none" => \A u \in Signed : \A a \in OnList(u) :
    LET fetched == Listed(perms[a])
    IN /\ ShownInList(perms, u, a, fetched) = ShownInDetail(perms, u, a)
       /\ perms[a].denied = {} => StatusInList(a, fetched) = StatusInDetail(a)
       /\ TypesInList(a, u, fetched, Subscribers(a)) \in TypesInDetail(a, u)
       /\ \A x \in fetched : <<a, x>> \in ShownInVersion1(u) => x \in ShownInDetail(perms, u, a)

(* A request that nobody interferes with fails only where a collection is  *)
(* public and not discoverable, or in one that was subscribed to.          *)
FailuresHaveReasons ==
  ask.is = "failed" /\ ask.changes = 0 => \E a \in ask.assets : a \in Publics \/ parent[a] \in Publics

(* Whatever two assets tell is in the metadata of a list of them.          *)
MetadataIsComplete ==
  ask.is = "none" => \A r1, r2 \in Record :
    LET told == Metadata({r1, r2})
    IN /\ told.languages = (r1.languages \cup r2.languages) \ {Unset}
       /\ told.countries = {r1.country, r2.country} \ {Unset}
       /\ told.sectors = {r1.sector, r2.sector} \ {Unset}
       /\ told.organizations = {r1.organization, r2.organization} \ {Unset}

ListingsAreRight == OthersForManagers /\ ListsTellTheSame /\ FailuresHaveReasons /\ MetadataIsComplete

(* "unexpected access" (kpi/serializers/v2/asset.py:476) is an assertion:  *)
(* who may list or view an asset has access of some type.  TLC refutes it  *)
(* (no run of the project does).                                           *)
AccessIsExpected == ask.is = "failed" => ask.changes > 0
=============================================================================
