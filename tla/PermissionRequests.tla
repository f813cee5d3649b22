-------------------------- MODULE PermissionRequests --------------------------
(***************************************************************************)
(* The permission endpoints as concurrent requests                         *)
(* (kpi/views/v2/asset_permission_assignment.py and its serializers).      *)
(*                                                                         *)
(* Nothing makes a request one transaction (there is no ATOMIC_REQUESTS):  *)
(* what it reads, and each call of assign_perm() or remove_perm() that it  *)
(* makes, is a step of its own, and the steps of other requests come in    *)
(* between.  DELETE fetches a row and removes its permission; the bulk     *)
(* endpoint reads all rows of an asset, removes the assignments that were  *)
(* not posted and then makes those that are missing.                       *)
(*                                                                         *)
(* An assignment is <<user, codename, keys>>, keys being the partial       *)
(* permissions of partial_submissions and {} for all other codenames.      *)
(***************************************************************************)
EXTENDS AssetPermissions

CONSTANTS Requests,       \* the requests in progress at one time
          PostedChoices   \* the sets of assignments (Assignment) a client may post

Assignment == Users \X Codenames \X SUBSET SubmissionPerms

VARIABLE req     \* what every request is doing

allVars == <<perms, parent, tx, req>>

Idle == [pc |-> "idle"]

(* Types, and that no request is about to touch the owner's rows.          *)
RequestTypeOK ==
  \A r \in Requests :
     \/ req[r] = Idle
     \/ req[r] \in [pc : {"delete"}, asset : Assets, user : Users, perm : Codenames]
     \/ /\ req[r] \in [pc : {"bulk", "rows", "removals", "additions"}, asset : Assets,
                    posted : SUBSET Assignment, partial : SUBSET Pair,
                    removals : SUBSET Assignment, additions : SUBSET Assignment,
                    alone : BOOLEAN]
       /\ \A x \in req[r].removals \cup req[r].additions : x[1] # Owner[req[r].asset]

RequestsInit == Init /\ req = [r \in Requests |-> Idle]

(* Request r goes on to v; the others have had company.                    *)
Goes(r, v) ==
  req' = [x \in Requests |->
            IF x = r THEN v
            ELSE IF req[x].pc \in {"idle", "delete"} THEN req[x]
            ELSE [req[x] EXCEPT !.alone = FALSE]]

-----------------------------------------------------------------------------
(* DELETE: the row is fetched; somebody may come in between; remove_perm() *)
(* does not ask whether the row is still there.                            *)
FetchRow(r, a, u, p) ==
  /\ req[r] = Idle
  /\ u # Owner[a]
  /\ <<u, p>> \in Listed(perms[a])
  /\ Goes(r, [pc |-> "delete", asset |-> a, user |-> u, perm |-> p])
  /\ UNCHANGED vars

Destroy(r) ==
  /\ req[r].pc = "delete"
  /\ perms' = AfterRemove(perms, req[r].asset, req[r].user, req[r].perm)
  /\ Goes(r, Idle)
  /\ UNCHANGED <<parent, tx>>

-----------------------------------------------------------------------------
(* Mutant: what is implied is forgotten, so that it is removed.            *)
ExpandedToItself(a, posted) == {<<x[1], x[2], PartialKeys(x[3])>> : x \in posted}

(* The bulk endpoint.  Posted assignments are completed with what they     *)
(* imply; a manager of the asset sees all its rows.                        *)
Expanded(a, posted) ==
  UNION {{<<x[1], x[2], PartialKeys(x[3])>>}
           \cup {<<x[1], q, {}>> : q \in Implied(x[2]) \cap Assignable(a)} : x \in posted}

Existing(a, partial) ==
  {<<x[1], x[2], IF x[2] = "partial_submissions"
                 THEN {q \in SubmissionPerms : <<x[1], q>> \in partial} ELSE {}>> :
     x \in {y \in Listed(perms[a]) : y[1] # Owner[a]}}

BulkBegin(r, a, posted) ==
  /\ req[r] = Idle
  /\ \A x \in posted : x[1] # Owner[a] /\ x[2] \in Assignable(a)
  /\ Goes(r, [pc |-> "bulk", asset |-> a, posted |-> posted, partial |-> {},
              removals |-> {}, additions |-> {},
              alone |-> \A x \in Requests : req[x] = Idle])
  /\ UNCHANGED vars

(* One query for the partial permissions ...                               *)
ReadPartial(r) ==
  /\ req[r].pc = "bulk"
  /\ Goes(r, [req[r] EXCEPT !.pc = "rows", !.partial = perms[req[r].asset].partial])
  /\ UNCHANGED vars

(* ... and one for the rows.  A partial_submissions row of a user who had  *)
(* no partial permissions is a KeyError.                                   *)
ReadRows(r) ==
  LET a == req[r].asset
      existing == Existing(a, req[r].partial)
      incoming == Expanded(a, req[r].posted)
  IN /\ req[r].pc = "rows"
     /\ IF \E x \in existing : x[2] = "partial_submissions" /\ x[3] = {}
        THEN Goes(r, Idle)
        ELSE Goes(r, [req[r] EXCEPT !.pc = "removals", !.partial = {},
                                    !.removals = existing \ incoming,
                                    !.additions = incoming \ existing])
     /\ UNCHANGED vars

(* An exception ends the request: what it did before stays done.           *)
BulkRemove(r) ==
  LET a == req[r].asset
  IN /\ req[r].pc = "removals"
     /\ \E x \in req[r].removals :
          /\ perms' = AfterRemove(perms, a, x[1], x[2])
          /\ Goes(r, IF RevokeFails(perms[a], a, x[1], x[2]) THEN Idle
                     ELSE [req[r] EXCEPT !.removals = @ \ {x}])
     /\ UNCHANGED <<parent, tx>>

BulkRemoved(r) ==
  /\ req[r].pc = "removals"
  /\ req[r].removals = {}
  /\ Goes(r, [req[r] EXCEPT !.pc = "additions"])
  /\ UNCHANGED vars

BulkAdd(r) ==
  LET a == req[r].asset
  IN /\ req[r].pc = "additions"
     /\ \E x \in req[r].additions :
          IF AssignFails(perms[a], a, x[1], x[2], FALSE, x[3])
          THEN Goes(r, Idle) /\ UNCHANGED perms
          ELSE /\ perms' = AfterAssign(perms, a, x[1], x[2], FALSE, x[3])
               /\ Goes(r, [req[r] EXCEPT !.additions = @ \ {x}])
     /\ UNCHANGED <<parent, tx>>

BulkEnd(r) ==
  /\ req[r].pc = "additions"
  /\ req[r].additions = {}
  /\ Goes(r, Idle)
  /\ UNCHANGED vars

-----------------------------------------------------------------------------
(* POST and PATCH are one transaction each.                                *)
Other ==
  /\ \/ \E a \in Assets, u \in Users, p \in Codenames, pp \in PartialChoices \cup {{}} :
          AssignPerm(a, u, p, pp)
     \/ \E a \in Assets, par \in Assets \cup {NoParent} : Save(a, par)
     \/ \E a \in Assets : Deploy(a)
  /\ req' = [x \in Requests |-> IF req[x].pc \in {"idle", "delete"} THEN req[x]
                                ELSE [req[x] EXCEPT !.alone = FALSE]]

RequestStep(r) ==
  \/ \E a \in Assets, u \in Users, p \in Codenames : FetchRow(r, a, u, p)
  \/ Destroy(r)
  \/ \E a \in Assets, posted \in PostedChoices : BulkBegin(r, a, posted)
  \/ ReadPartial(r)
  \/ ReadRows(r)
  \/ BulkRemove(r)
  \/ BulkRemoved(r)
  \/ BulkAdd(r)
  \/ BulkEnd(r)

RequestsNext == (\E r \in Requests : RequestStep(r)) \/ Other

RequestsSpec == RequestsInit /\ [][RequestsNext]_allVars

-----------------------------------------------------------------------------
(* What a client that is alone posts to an asset is what everybody but the *)
(* owner holds afterwards; add_submissions, which a partial                *)
(* change_submissions brings along and the client need not post, apart.    *)
BulkIsExact ==
  [][\A r \in Requests : BulkEnd(r) /\ req[r].alone =>
       LET a    == req[r].asset
           held == {x \in Effective(perms[a]) : x[1] # Owner[a]}
           said == {<<x[1], x[2]>> : x \in Expanded(a, req[r].posted)}
       IN /\ {x \in held : x[2] # "add_submissions"} = {x \in said : x[2] # "add_submissions"}
          /\ \A x \in held \ said :
               \E y \in req[r].posted : y[1] = x[1] /\ "change_submissions" \in y[3]]_allVars

-----------------------------------------------------------------------------
(***************************************************************************)
(* What one would expect and TLC refutes: no run checks these.             *)
(***************************************************************************)

(* Posting a partial change_submissions leaves its user with the           *)
(* add_submissions it needs ("Otherwise, KC will reject some actions").    *)
BulkKeepsEditing ==
  [][\A r \in Requests : BulkEnd(r) /\ req[r].alone =>
       \A x \in req[r].posted :
          x[2] = "partial_submissions" /\ "change_submissions" \in x[3]
            => Holds(req[r].asset, x[1], "add_submissions")]_allVars
=============================================================================
