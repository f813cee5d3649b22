--------------------------- MODULE PermissionTables ---------------------------
(***************************************************************************)
(* The permission tables of class Asset (kpi/models/asset.py) and the      *)
(* closure that get_implied_perms() (kpi/mixins/object_permission.py)      *)
(* computes over them.                                                     *)
(*                                                                         *)
(* The ten codenames are the assignable permissions of the source.  An     *)
(* instance may restrict itself to some of them with Codenames: every      *)
(* closure is computed over the whole table first, and restricted after.   *)
(***************************************************************************)
CONSTANT Codenames      \* the codenames an instance uses

AllCodenames ==
  {"view_asset", "change_asset", "discover_asset", "manage_asset",
   "add_submissions", "view_submissions", "partial_submissions",
   "change_submissions", "delete_submissions", "validate_submissions"}

ASSUME CodenamesAssumption ==
  /\ Codenames \subseteq AllCodenames
  /\ "partial_submissions" \in Codenames => "view_submissions" \in Codenames

(* Types that can carry permissions; templates, blocks and questions share  *)
(* one row of ASSIGNABLE_PERMISSIONS_BY_TYPE, which "item" stands for.      *)
AssetTypes == {"survey", "item", "collection"}

ASSIGNABLE_PERMISSIONS_BY_TYPE ==
  [survey     |-> Codenames \ {"discover_asset"},
   item       |-> Codenames \cap {"view_asset", "change_asset", "manage_asset"},
   collection |-> Codenames \cap {"view_asset", "change_asset", "discover_asset", "manage_asset"}]

HERITABLE_PERMISSIONS == {"view_asset", "change_asset"}

IMPLIED_PERMISSIONS ==
  [view_asset           |-> {},
   change_asset         |-> {"view_asset"},
   discover_asset       |-> {"view_asset"},
   manage_asset         |-> AllCodenames \ {"manage_asset", "partial_submissions"},
   add_submissions      |-> {"view_asset"},
   view_submissions     |-> {"view_asset"},
   partial_submissions  |-> {"view_asset"},
   change_submissions   |-> {"view_submissions", "add_submissions"},
   delete_submissions   |-> {"view_submissions"},
   validate_submissions |-> {"view_submissions"}]

(* The worklist of get_implied_perms() ends after two rounds: no chain of   *)
(* IMPLIED_PERMISSIONS is longer (ImpliedTransitive, in the proofs).        *)
Implied(p) ==
  IMPLIED_PERMISSIONS[p] \cup UNION {IMPLIED_PERMISSIONS[q] : q \in IMPLIED_PERMISSIONS[p]}

(* get_implied_perms(reverse=True): the permissions that imply p.           *)
ReverseImplied(p) == {q \in AllCodenames : p \in Implied(q)}

FullAccess ==
  {"view_submissions", "change_submissions", "delete_submissions", "validate_submissions"}

CONTRADICTORY_PERMISSIONS ==
  [view_asset           |-> {},
   change_asset         |-> {},
   discover_asset       |-> {},
   manage_asset         |-> {},
   add_submissions      |-> {},
   view_submissions     |-> {"partial_submissions"},
   partial_submissions  |-> FullAccess \cup {"manage_asset"},
   change_submissions   |-> {"partial_submissions"},
   delete_submissions   |-> {"partial_submissions"},
   validate_submissions |-> {"partial_submissions"}]

(* Keys of KC_PERMISSIONS_MAP: the codenames copied to KoBoCAT.  For the    *)
(* anonymous user only view_submissions has a counterpart there, a flag of  *)
(* the XForm.                                                               *)
KC_PERMISSIONS == FullAccess \cup {"add_submissions"}
KC_ANONYMOUS   == {"view_submissions"}

ALLOWED_ANONYMOUS_PERMISSIONS == {"view_asset", "discover_asset", "view_submissions"}

(* The permissions a row-level (partial) assignment may name, and those it  *)
(* is stored with (update_partial_perms_to_include_implied()).              *)
SubmissionPerms == KC_PERMISSIONS \cap Codenames

PartialKeysAsPosted(pp) == pp \cap SubmissionPerms

PartialKeys(pp) == (pp \cup UNION {Implied(q) : q \in pp}) \cap SubmissionPerms
=============================================================================
