----------------------------- MODULE MCProjects -----------------------------
(***************************************************************************)
(* What KPI does to projects and tells of them, for TLC: edits,            *)
(* deployments and removals of a form in KoBoCAT, one request after        *)
(* another and two at a time, the commands that bring KPI in line with     *)
(* KoBoCAT, lists of assets and of submissions, assignments of permissions *)
(* as they are posted, and the accounts of users.                          *)
(*                                                                         *)
(* One of them, `turn`, moves in a behaviour; the others stay where they   *)
(* begin.  They share no state.                                            *)
(***************************************************************************)
EXTENDS Deployments, Integers, TLC

CONSTANTS Others,           \* two requests
          OthersVersions, OthersRequests,
          Codenames, Users, Anonymous, Assets, a, MaxHash, MaxChanges,    \* of Reconcile
          People, AssetCodenames, NoParent, Early, Readers, Unset,
          MaxInterferences, MaxRows,                                     \* of Listings
          MaxPosts,                                                      \* of Assignments
          Limits, MaxLimit, MaxRemovals                                  \* of Queries

VARIABLES turn,
          row2, versions2, xform2, request2, made2, published2, unnamed2,
          s, flagged, form, asset, job, quiet, settled, changes, viaKpi, unflagged,
          perms, parent, tx, subscriptions, deleted, ask,
          known, collation, posted, verdict, kept, before, posts,
          user, kc, profile, method, details, token, used, req, past,
          mongo, query, page, shown, since

\* A survey.
Owner == [x \in Assets |-> "olga"]
Type  == [x \in Assets |-> "survey"]

C == INSTANCE Reconcile

ASSUME ReconcileAssumption ==
  /\ a \in Assets /\ "olga" \in Users \ {Anonymous}
  /\ Codenames \subseteq C!AllCodenames /\ MaxHash \in Nat \ {0}

T == INSTANCE Deployments WITH
       Requests <- Others, Kinds <- {"edit", "deploy"},
       MaxVersions <- OthersVersions, MaxRequests <- OthersRequests,
       row <- row2, versions <- versions2, xform <- xform2, request <- request2,
       made <- made2, published <- published2, unnamed <- unnamed2

ASSUME OthersAssumption ==
  /\ OthersVersions \in Nat \ {0} /\ OthersRequests \in Nat
  /\ Nothing \notin T!Contents \cup T!Deployment \cup T!XForm \cup T!Row

\* A collection in another one of the same owner.
Collections == {"lib", "sub"}
Olga        == [c \in Collections |-> "olga"]
Collection  == [c \in Collections |-> "collection"]

L == INSTANCE Listings WITH
       Codenames     <- AssetCodenames,
       Users         <- People,
       MaxChanges    <- MaxInterferences,
       Assets        <- Collections,
       Owner         <- Olga,
       Type          <- Collection,
       PartialChoices <- {},
       CopySources   <- {}

\* Two names that databases sort differently, two addresses of one user and
\* one that cannot be read; filters of users, and one that is not merged.
Alphabetic   == <<"a_c", "ab", "bo">>
Plain(f)     == [nested |-> FALSE, list |-> <<f>>]
ByUsers(S)   == Plain([merges |-> TRUE, by |-> S])
OtherFilter  == Plain([merges |-> FALSE, by |-> {"odd"}])

Addresses    == ("u1" :> "ab") @@ ("u2" :> "a_c") @@ ("u3" :> "bo") @@ ("u4" :> "bo") @@ ("u5" :> Nothing)
Orders       == {Alphabetic, <<"ab", "a_c", "bo">>}
SomeFilters  == {<<ByUsers({"x"})>>, <<ByUsers({"y"})>>, <<ByUsers({"z"}), OtherFilter>>}

G == INSTANCE Assignments WITH
       Urls <- Addresses, Names <- Alphabetic, Collations <- Orders, FilterChoices <- SomeFilters

\* Three submissions, one with a dot in the name of a question, two with a
\* validation status, and filters of each form.
Doc(i, age, dotted, status, by) ==
  (<<"_id">> :> i) @@ (<<"age">> :> age) @@ (<<"_submitted_by">> :> by)
  @@ (IF dotted = 0 THEN <<>> ELSE <<"a", ".", "b">> :> dotted)
  @@ (IF status = 0 THEN <<>> ELSE <<"_validation_status", ".", "uid">> :> status)

By(name)                  == <<"_submitted_by">> :> name
Conditions(nested, conds) == [nested |-> nested, list |-> conds]

ThreeDocs == <<Doc(1, 2, 1, 0, 5), Doc(2, 1, 0, 1, 6), Doc(3, 2, 1, 1, 5)>>
SomeLists == {Nothing,
              <<Conditions(FALSE, <<By(5)>>), Conditions(FALSE, <<<<"_validation_status", ".", "uid">> :> 1>>)>>,
              <<Conditions(TRUE, <<By(5)>>)>>,
              <<Conditions(TRUE, <<By(6)>>), Conditions(TRUE, <<By(5), <<"age">> :> 1>>)>>}

Q == INSTANCE Queries WITH Docs <- ThreeDocs, FilterLists <- SomeLists, ask <- query

U == INSTANCE Accounts WITH Workers <- Others, MaxRequests <- OthersRequests

\* What is not there is nothing that can be there.
ASSUME AccountsAssumption ==
  Nothing \notin U!Account \cup U!InKobocat \cup U!Profile \cup U!Details \cup Nat

othersVars  == <<row2, versions2, xform2, request2, made2, published2, unnamed2>>
syncVars    == <<s, flagged, form, asset, job, quiet, settled, changes, viaKpi, unflagged>>
listVars    == <<perms, parent, tx, subscriptions, deleted, ask>>
assignVars  == <<known, collation, posted, verdict, kept, before, posts>>
formVars    == <<deploymentVars, othersVars, syncVars>>
accountVars == <<user, kc, profile, method, details, token, used, req, past>>
pageVars    == <<mongo, query, page, shown, since>>
tellVars    == <<listVars, assignVars, pageVars>>
projectVars == <<turn, formVars, tellVars, accountVars>>

ProjectsInit ==
  /\ turn \in {"alone", "together", "commands", "lists", "assignments", "pages", "accounts"}
  /\ DeploymentsInit /\ T!DeploymentsInit /\ C!ReconcileInit
  /\ L!ListingInit /\ G!AssignmentsInit /\ Q!QueryInit /\ U!AccountsInit
  /\ turn # "alone" => xform = Nothing
  /\ turn # "together" => xform2 = Nothing
  /\ turn # "commands" => asset.there /\ asset.hash = 1
  /\ turn # "assignments" => known = {} /\ collation = Alphabetic

Alone    == turn = "alone" /\ DeploymentsNext /\ UNCHANGED <<turn, othersVars, syncVars, tellVars, accountVars>>
Together == turn = "together" /\ T!DeploymentsNext /\ UNCHANGED <<turn, deploymentVars, syncVars, tellVars, accountVars>>
Commands == turn = "commands" /\ C!ReconcileNext /\ UNCHANGED <<turn, deploymentVars, othersVars, tellVars, accountVars>>
Lists    == turn = "lists" /\ L!ListingNext /\ UNCHANGED <<turn, formVars, assignVars, pageVars, accountVars>>
Assigned == turn = "assignments" /\ G!AssignmentsNext /\ UNCHANGED <<turn, formVars, listVars, pageVars, accountVars>>
Pages    == turn = "pages" /\ Q!QueryNext /\ UNCHANGED <<turn, formVars, listVars, assignVars, accountVars>>
Accounts == turn = "accounts" /\ U!AccountsNext /\ UNCHANGED <<turn, formVars, tellVars>>

ProjectsNext == Alone \/ Together \/ Commands \/ Lists \/ Assigned \/ Pages \/ Accounts

ProjectsSpec == ProjectsInit /\ [][ProjectsNext]_projectVars

-----------------------------------------------------------------------------
(* The types of what becomes of forms.                                     *)
ProjectsTypeOK ==
  /\ turn = "alone" => DeploymentsTypeOK
  /\ turn = "together" => T!DeploymentsTypeOK
  /\ turn = "commands" => C!ReconcileTypeOK
  /\ turn = "accounts" => U!AccountsTypeOK

(* Versions and marks are as they should be, and KoBoCAT is not behind,    *)
(* whether requests are made one by one or two at a time.                  *)
FormsAreTrue ==
  /\ turn = "alone" => VersionsAreTrue
  /\ turn = "together" => T!KobocatLeads

(* Lists of assets tell everybody what they may know, and what asking for  *)
(* one of the assets would tell; assignments go to whom they name, and can *)
(* be posted again; pages of submissions are of what was meant.            *)
SharingIsTold ==
  /\ turn = "lists" => L!ListingsAreRight
  /\ turn = "assignments" => G!AssignmentsAreRight
  /\ turn = "pages" => Q!PagesAreRight

(* A user is in KoBoCAT what the user is in KPI.                           *)
AccountsAreRight == turn = "accounts" => U!AccountsAreRight

(* PullAgrees and NothingLeftBehind.                                       *)
CommandsReconcile == turn = "commands" => C!PullAgrees /\ C!NothingLeftBehind

SecondSyncChangesNothing == C!SecondSyncChangesNothing

\* TLC refutes it.
PurgedHaveNothing == turn = "commands" => C!PurgedHaveNothing
=============================================================================
