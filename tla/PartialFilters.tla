---------------------------- MODULE PartialFilters ----------------------------
(***************************************************************************)
(* AssetUserPartialPermission.update_partial_perms_to_include_implied():   *)
(* the filters of a row-level assignment are passed on to the permissions  *)
(* that the posted ones imply.                                             *)
(*                                                                         *)
(* The posted assignment gives every permission a list of filters.  A list *)
(* is either one {'_submitted_by': {'$in': [...]}}, which can be merged,   *)
(* or anything else, which cannot; it is described by what it matches: the *)
(* submitters, or an opaque condition of its own.  The lists are objects:  *)
(* `content` is what each list holds now, and an entry of the result is    *)
(* the set of lists it refers to (their disjunction, when more than one).  *)
(* A result that refers to a list of another permission changes it when it *)
(* is merged into.                                                         *)
(***************************************************************************)
EXTENDS PermissionTables

CONSTANT Submitters     \* whose submissions the filters select

VARIABLES posted,    \* the assignment as it was posted: a match per permission
          content,   \* what the list of each posted permission matches now
          result,    \* new_partial_perms: the lists each permission refers to
          current,   \* the permission being processed and its implied ones
          waiting    \* the permissions still to be processed

filterVars == <<posted, content, result, current, waiting>>

(* What a list matches.                                                    *)
Mergeable == [merges : {TRUE}, by : SUBSET Submitters \ {{}}]
Opaque    == [merges : {FALSE}, by : {{p} : p \in SubmissionPerms}]

\* Mutants: the codenames that are not about submissions are kept; a posted
\* permission is not kept; a list that is there is not added to; a filter is
\* merged into one of several.
ImpliedFiltersOfAnyKind(p) == Implied(p)

ImpliedFilters(p) == Implied(p) \cap SubmissionPerms

FiltersTypeOK ==
  /\ DOMAIN posted \subseteq SubmissionPerms
  /\ DOMAIN content = DOMAIN posted
  /\ \A p \in DOMAIN content : content[p] \in [merges : BOOLEAN, by : SUBSET (Submitters \cup SubmissionPerms)]
  /\ result \in [SubmissionPerms -> SUBSET DOMAIN posted]
  /\ waiting \subseteq DOMAIN posted
  /\ current.todo \subseteq SubmissionPerms

Idle == [perm |-> "none", todo |-> {}]

(* Any assignment a client may post: each permission with a list of its    *)
(* own.                                                                    *)
FiltersInit ==
  /\ \E D \in SUBSET SubmissionPerms \ {{}} :
       posted \in {f \in [D -> Mergeable \cup Opaque] :
                     \A p \in D : f[p].merges \/ f[p].by = {p}}
  /\ content = posted
  /\ result = [p \in SubmissionPerms |-> {}]
  /\ current = Idle
  /\ waiting = DOMAIN posted

(* The outer loop: the next permission, in the order of the posted object. *)
NextPerm(p) ==
  /\ current.todo = {}
  /\ p \in waiting
  /\ waiting' = waiting \ {p}
  /\ result' = [result EXCEPT ![p] = IF @ = {} THEN {p} ELSE @]
  /\ current' = [perm |-> p, todo |-> ImpliedFilters(p)]
  /\ UNCHANGED <<posted, content>>

PassOnIfEmpty(q) ==
  LET entry == IF result[q] = {} /\ q \in DOMAIN posted THEN {q} ELSE result[q]
  IN /\ q \in current.todo
     /\ result' = [result EXCEPT ![q] = IF entry = {} THEN {current.perm} ELSE entry]
     /\ current' = [current EXCEPT !.todo = @ \ {q}]
     /\ UNCHANGED <<posted, content, waiting>>

PassOnIntoOneOfSeveral(q) ==
  LET p      == current.perm
      entry  == IF result[q] = {} /\ q \in DOMAIN posted THEN {q} ELSE result[q]
      merged == {r \in entry : content[r].merges /\ content[p].merges}
  IN /\ q \in current.todo
     /\ content' = [r \in DOMAIN content |->
          IF r \in merged THEN [content[r] EXCEPT !.by = @ \cup content[p].by] ELSE content[r]]
     /\ result' = [result EXCEPT ![q] = IF merged = {} THEN entry \cup {p} ELSE entry]
     /\ current' = [current EXCEPT !.todo = @ \ {q}]
     /\ UNCHANGED <<posted, waiting>>

(* The inner loop: one of the implied permissions, in the order of a set.  *)
(* Its entry starts as the posted one.  A single mergeable filter is       *)
(* merged into a single mergeable filter; otherwise the list is taken      *)
(* over, or joined to those that are there.                                *)
PassOn(q) ==
  LET p      == current.perm
      entry  == IF result[q] = {} /\ q \in DOMAIN posted THEN {q} ELSE result[q]
      merged == {r \in entry : entry = {r} /\ content[r].merges /\ content[p].merges}
  IN /\ q \in current.todo
     /\ content' = [r \in DOMAIN content |->
          IF r \in merged THEN [content[r] EXCEPT !.by = @ \cup content[p].by] ELSE content[r]]
     /\ result' = [result EXCEPT ![q] = IF merged = {} THEN entry \cup {p} ELSE entry]
     /\ current' = [current EXCEPT !.todo = @ \ {q}]
     /\ UNCHANGED <<posted, waiting>>

FiltersNext == \E p \in SubmissionPerms : NextPerm(p) \/ PassOn(p)

FiltersSpec == FiltersInit /\ [][FiltersNext]_filterVars

-----------------------------------------------------------------------------
Done == waiting = {} /\ current.todo = {}

Matched(p) == UNION {content[r].by : r \in result[p]}

(* What permission p is meant to cover: the submissions it was posted for, *)
(* and those of every posted permission that implies it.                   *)
Meant(p) ==
  UNION {posted[r].by : r \in {x \in DOMAIN posted : x = p \/ p \in ImpliedFilters(x)}}

(* The permissions that get filters are those AssetPermissions takes a     *)
(* partial assignment to have, in every order of the loops.                *)
KeysAsAssumed == Done => {p \in SubmissionPerms : result[p] # {}} = PartialKeys(DOMAIN posted)

(* Nothing is lost: an implied permission covers whatever a permission     *)
(* implying it covers, whichever order the two loops run in.               *)
NothingLost ==
  /\ KeysAsAssumed
  /\ Done => \A p \in SubmissionPerms : Meant(p) \subseteq Matched(p)

(* Nothing is gained either when view_submissions is posted along with the *)
(* permissions that imply it.                                              *)
ExactWhenViewPosted ==
  Done /\ "view_submissions" \in DOMAIN posted => \A p \in SubmissionPerms : Matched(p) = Meant(p)

(* Each permission covers just the submissions it was assigned for: "to    *)
(* allow `user` also to validate only submissions made by 'bob'"           *)
(* (Asset._update_partial_permissions()).                                  *)
FiltersExact == Done => \A p \in SubmissionPerms : Matched(p) = Meant(p)
=============================================================================
