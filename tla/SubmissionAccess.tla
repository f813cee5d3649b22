--------------------------- MODULE SubmissionAccess ---------------------------
(***************************************************************************)
(* One user reads, changes, validates and deletes submissions through KPI  *)
(* (kpi/views/v2/data.py, kpi/permissions.py, deployment_backends/         *)
(* base_backend.py and kobocat_backend.py, utils/mongo_helper.py).         *)
(*                                                                         *)
(* KoBoCAT knows permissions on whole forms only.  Access that is limited  *)
(* to the submissions of some people is KPI's alone: it looks the          *)
(* submissions up in MongoDB, hands KoBoCAT their ids and vouches for them *)
(* with a token.  KoBoCAT stores the submissions in its own database and   *)
(* copies them to MongoDB afterwards; others add and delete submissions    *)
(* meanwhile.  A request checks the permission, then looks submissions up, *)
(* then calls KoBoCAT, and none of this is atomic.                         *)
(***************************************************************************)
EXTENDS Naturals, FiniteSets

CONSTANTS Submissions,   \* every submission there may ever be
          Submitters,    \* who makes them
          Endpoints,     \* what the user asks for, see Required
          Nothing        \* no row-level access

VARIABLES author,    \* _submitted_by
          stored,    \* the submissions in KoBoCAT's database
          mongo,     \* the submissions in MongoDB
          full,      \* permissions of the user on all submissions, in KPI and in KoBoCAT
          partial,   \* row-level permissions: the submitters each of them covers
          request,   \* the request in progress
          acted      \* history: the submissions that the request has read or changed

accessVars == <<author, stored, mongo, full, partial, request, acted>>

Perms == {"view", "change", "delete", "validate"}
Idle  == [pc |-> "idle"]

\* What PermissionRows and PartialFilters establish: every permission implies
\* "view", and row-level access excludes the other kind.
FullAccess == {{}} \cup {P \in SUBSET Perms : "view" \in P}
PartialAccess ==
  {f \in [Perms -> SUBSET Submitters] : \A p \in Perms : f["view"] # {} /\ f[p] \subseteq f["view"]}

(* SubmissionPermission and its subclasses: what the method of an endpoint *)
(* requires.  (A mutant asks for the same permission everywhere.)          *)
Required(e) ==
  CASE e \in {"list", "xml"}                      -> "view"
    [] e \in {"duplicate", "bulk_update", "edit"} -> "change"
    [] e \in {"destroy", "bulk_delete"}           -> "delete"
    [] e \in {"status", "reset", "statuses"}      -> "validate"

(* What the deployment backend passes to validate_access_with_partial_perms*)
RowRequiredView(e) == "view"

RowRequired(e) ==
  CASE e \in {"list", "xml"}                      -> "view"
    [] e \in {"duplicate", "bulk_update", "edit"} -> "change"
    [] e \in {"destroy", "bulk_delete"}           -> "delete"
    [] e \in {"status", "reset", "statuses"}      -> "validate"

Method(e) ==
  CASE e \in {"destroy", "bulk_delete", "reset"}    -> "DELETE"
    [] e \in {"status", "statuses"}                 -> "PATCH"
    [] e \in {"duplicate", "bulk_update", "edit"}   -> "POST"
    [] e \in {"list", "xml"}                        -> "GET"

\* The method that the token is made for.
TokenMethod(e) == IF e = "reset" THEN "PATCH" ELSE Method(e)

Bulk(e)  == e \in {"bulk_delete", "bulk_update", "statuses"}
Reads(e) == e \in {"list", "xml"}

\* `query` is the set of submissions that a query matches.  History, for the
\* properties: `granted` has what the user might act on, at each moment of the
\* request, and `stripped` says whether the user had neither row-level access
\* nor the permission at one of them.
Request ==
  [pc : {"permission", "validate", "match", "fetch", "send"},
   endpoint : Endpoints, ids : SUBSET Submissions, query : SUBSET Submissions,
   allowed : SUBSET Submissions, vouched : SUBSET Submissions,
   granted : SUBSET SUBSET Submissions, stripped : BOOLEAN]

AccessTypeOK ==
  /\ author \in [Submissions -> Submitters]
  /\ stored \subseteq Submissions /\ mongo \subseteq Submissions
  /\ full \in FullAccess /\ partial \in PartialAccess \cup {Nothing}
  /\ partial = Nothing \/ full = {}
  /\ request \in Request \cup {Idle}
  /\ acted \subseteq Submissions

AccessInit ==
  /\ author \in [Submissions -> Submitters]
  /\ stored \in SUBSET Submissions /\ mongo = stored
  /\ \/ full \in FullAccess /\ partial = Nothing
     \/ full = {} /\ partial \in PartialAccess
  /\ request = Idle /\ acted = {}

-----------------------------------------------------------------------------
At(pc)  == request.pc = pc
Go(pc)  == request' = [request EXCEPT !.pc = pc]
End     == request' = Idle
Partial == partial # Nothing

\* What the user may act on with permission p, when the permissions are these.
Grant(f, r, p) ==
  IF r # Nothing THEN {s \in Submissions : author[s] \in r[p]}
  ELSE IF p \in f THEN Submissions ELSE {}

Without(f, r, p) == r = Nothing /\ p \notin f

(* MongoHelper: the filters of row-level access are added to the query; if *)
(* the user has none, nothing is.                                          *)
Filter(p, S) == IF Partial THEN {s \in S : author[s] \in partial[p]} ELSE S

Found(p, ids, query) ==
  Filter(p, {s \in mongo : s \in query /\ (ids = {} \/ s \in ids)})

(* DataBulkActionsValidator wants ids, or a query, or a confirmation; the  *)
(* other endpoints have the id in their URL, except for lists, which have  *)
(* a query.                                                                *)
Begin(e) ==
  /\ request = Idle
  /\ \E ids \in IF Reads(e) THEN {{}} \cup {{s} : s \in Submissions}
                ELSE IF Bulk(e) THEN SUBSET Submissions ELSE {{s} : s \in Submissions},
        query \in IF Reads(e) \/ Bulk(e) THEN SUBSET Submissions ELSE {Submissions} :
       /\ ids # {} => query = Submissions
       /\ request' = [pc |-> "permission", endpoint |-> e, ids |-> ids, query |-> query,
                      allowed |-> {}, vouched |-> {},
                      granted |-> {Grant(full, partial, Required(e))},
                      stripped |-> Without(full, partial, Required(e))]
  /\ acted' = {}
  /\ UNCHANGED <<author, stored, mongo, full, partial>>

(* The permission class: the codenames of row-level access count as much   *)
(* as the others.                                                          *)
Held == full \cup (IF Partial THEN {p \in Perms : partial[p] # {}} ELSE {})

CheckPermission ==
  /\ At("permission")
  /\ IF Required(request.endpoint) \notin Held THEN End
     ELSE Go(IF Reads(request.endpoint) THEN "fetch" ELSE "validate")
  /\ UNCHANGED <<author, stored, mongo, full, partial, acted>>

(* validate_access_with_partial_perms(): without row-level access there is *)
(* nothing to vouch for.  Without ids, all that the user may touch is      *)
(* looked up first.  (A mutant takes a query for none.)                    *)
Vouch(S) == request' = [request EXCEPT !.pc = "send", !.vouched = S]

ValidateWithoutQuery ==
  /\ At("validate")
  /\ LET found == Found(RowRequired(request.endpoint), {}, Submissions)
     IN  IF ~ Partial THEN Go("send")
         ELSE IF request.ids # {} THEN Go("match")
         ELSE IF found = {} THEN End ELSE Vouch(found)
  /\ UNCHANGED <<author, stored, mongo, full, partial, acted>>

Validate ==
  /\ At("validate")
  /\ LET found == Found(RowRequired(request.endpoint), {}, Submissions)
     IN  IF ~ Partial THEN Go("send")
         ELSE IF request.ids # {} THEN Go("match")
         ELSE IF found = {} THEN End
         ELSE IF request.query # Submissions
              THEN request' = [request EXCEPT !.pc = "match", !.allowed = found]
              ELSE Vouch(found)
  /\ UNCHANGED <<author, stored, mongo, full, partial, acted>>

(* Then what was asked for: all of the ids, or some of what is allowed.    *)
(* (A mutant forgets to compare.)                                          *)
MatchAnything ==
  /\ At("match")
  /\ LET found == Found(RowRequired(request.endpoint), request.ids, request.query)
     IN  IF found = {} THEN End
         ELSE Vouch(found)
  /\ UNCHANGED <<author, stored, mongo, full, partial, acted>>

Match ==
  /\ At("match")
  /\ LET found == Found(RowRequired(request.endpoint), request.ids, request.query)
     IN  IF /\ found # {}
            /\ \/ request.allowed # {} /\ found \subseteq request.allowed
               \/ found = request.ids
         THEN Vouch(found)
         ELSE End
  /\ UNCHANGED <<author, stored, mongo, full, partial, acted>>

(* get_submissions(): JSON comes from MongoDB, XML from KoBoCAT's database *)
(* with the ids that MongoDB gives.                                        *)
Fetch ==
  /\ At("fetch")
  /\ LET found == Found("view", request.ids, request.query)
     IN  acted' = IF request.endpoint = "xml" THEN found \cap stored ELSE found
  /\ End
  /\ UNCHANGED <<author, stored, mongo, full, partial>>

-----------------------------------------------------------------------------
Vouched == request.vouched # {}

(* KoBoCAT lets the user do it if the token was made for this method, or   *)
(* if the user has the permission on the form.  Edits are sent in the name *)
(* of the owner.                                                           *)
Authorised ==
  \/ request.endpoint = "edit"
  \/ Vouched /\ TokenMethod(request.endpoint) = Method(request.endpoint)
  \/ Required(request.endpoint) \in full

(* What KoBoCAT is sent: the ids that KPI vouches for, and the query never *)
(* with them.                                                              *)
Sent ==
  IF Vouched THEN request.vouched
  ELSE IF request.ids # {} THEN request.ids ELSE request.query \cap mongo

(* duplicate_submission() and bulk_update_submissions() read the           *)
(* submissions again, as XML, and post the result one by one; KoBoCAT may  *)
(* refuse some of them.                                                    *)
Copied ==
  Found("view", IF Vouched THEN request.vouched ELSE request.ids,
        IF Vouched THEN Submissions ELSE request.query) \cap stored

Post ==
  /\ At("send") /\ request.endpoint \in {"duplicate", "bulk_update"}
  /\ acted' \in IF Authorised THEN SUBSET Copied ELSE {{}}
  /\ End
  /\ UNCHANGED <<author, stored, mongo, full, partial>>

(* The rest is one call of KoBoCAT.                                        *)
Delete ==
  /\ At("send") /\ request.endpoint \in {"destroy", "bulk_delete"}
  /\ acted' = IF Authorised THEN Sent \cap stored ELSE {}
  /\ stored' = stored \ acted'
  /\ End
  /\ UNCHANGED <<author, mongo, full, partial>>

SetStatus ==
  /\ At("send") /\ request.endpoint \in {"status", "reset", "statuses", "edit"}
  /\ acted' = IF Authorised THEN Sent \cap stored ELSE {}
  /\ End
  /\ UNCHANGED <<author, stored, mongo, full, partial>>

(* A worker dies, MongoDB takes too long, KoBoCAT does not answer.         *)
Fail ==
  /\ request # Idle
  /\ End
  /\ UNCHANGED <<author, stored, mongo, full, partial, acted>>

-----------------------------------------------------------------------------
(* Others submit and delete, and MongoDB learns of it some time later.     *)
Submit(s) ==
  /\ s \notin stored \cup mongo
  /\ stored' = stored \cup {s}
  /\ UNCHANGED <<author, mongo, full, partial, request, acted>>

Remove(s) ==
  /\ s \in stored
  /\ stored' = stored \ {s}
  /\ UNCHANGED <<author, mongo, full, partial, request, acted>>

CopyToMongo(s) ==
  /\ mongo' = IF s \in stored THEN mongo \cup {s} ELSE mongo \ {s}
  /\ UNCHANGED <<author, stored, full, partial, request, acted>>

(* Somebody else gives the user other permissions or other filters, more   *)
(* or less or none at all, while a request is under way: assign_perm() and *)
(* remove_perm().  The request reads the filters of the permission that it *)
(* requires and of the one to view; nothing depends on the others.         *)
Filters(p) == {r \in PartialAccess : \A q \in Perms \ {"view", p} : r[q] = {}}
Fulls(p)   == FullAccess \cap {{}, {"view"}, {"view", p}}

ChangeAccess ==
  /\ request # Idle
  /\ LET p == Required(request.endpoint)
     IN  /\ \/ full' \in Fulls(p) /\ partial' = Nothing
            \/ full' = {} /\ partial' \in Filters(p)
         /\ request' = [request EXCEPT !.granted = @ \cup {Grant(full', partial', p)},
                                       !.stripped = @ \/ Without(full', partial', p)]
  /\ UNCHANGED <<author, stored, mongo, acted>>

AccessNext ==
  \/ \E e \in Endpoints : Begin(e)
  \/ CheckPermission \/ Validate \/ Match \/ Fetch
  \/ Post \/ Delete \/ SetStatus \/ Fail
  \/ \E s \in Submissions : Submit(s) \/ Remove(s) \/ CopyToMongo(s)
  \/ ChangeAccess

AccessSpec == AccessInit /\ [][AccessNext]_accessVars

-----------------------------------------------------------------------------
(* Whatever a request reads or changes, the user might act on all of it    *)
(* with the permission that is required at some moment of the request,     *)
(* however the filters are narrowed, widened or replaced between the       *)
(* lookups and the call of KoBoCAT, and however MongoDB lags behind: what  *)
(* two lookups find is not put together.  Left out are requests during     *)
(* which the user had neither row-level access nor the permission.         *)
OnlyTheirs ==
  [][acted' # acted /\ acted' # {} /\ ~ request.stripped =>
       \E S \in request.granted : acted' \subseteq S]_accessVars

(* A request that goes through vouching and several lookups acts on        *)
(* nothing that was not asked for; and if submissions are named, then on   *)
(* all of them that are still there, not on some of them in silence        *)
(* ("Validate whether `user` is allowed to perform write actions").        *)
OnlyWhatWasAsked ==
  [][acted' # acted /\ acted' # {} =>
       /\ acted' \subseteq request.query
       /\ request.ids # {} =>
            /\ acted' \subseteq request.ids
            /\ request.endpoint # "bulk_update" => request.ids \cap stored \subseteq acted']_accessVars

-----------------------------------------------------------------------------
(***************************************************************************)
(* What docstrings say or one would expect, and TLC refutes: no run checks *)
(* these.                                                                  *)
(***************************************************************************)

(* What a user with row-level access reads or changes, the filters give    *)
(* the user then: they are read when a request is validated, and not again *)
(* when KoBoCAT is called with a token that vouches for it.                *)
OnlyTheirsNow ==
  [][Partial /\ acted' # acted =>
       \A s \in acted' : author[s] \in partial[Required(request.endpoint)]]_accessVars

(* "If `user` has no access to these submissions ..., an empty generator   *)
(* is returned."                                                           *)
NothingWithoutAccess ==
  [][At("fetch") /\ Held = {} => acted' = {}]_accessVars

(* "If `method` is `DELETE`, the status is reset to `None`": KoBoCAT lets  *)
(* the user do what KPI has vouched for.                                   *)
VouchedIsAuthorised ==
  request # Idle /\ At("send") /\ Vouched => Authorised
=============================================================================
