----------------------------- MODULE Reconcile -----------------------------
(***************************************************************************)
(* What brings KPI in line with KoBoCAT when both were changed: the        *)
(* commands sync_kobocat_xforms, for a form that was uploaded, replaced or *)
(* shared in KoBoCAT, and sync_kobocat_perms (kpi/management/commands).    *)
(*                                                                         *)
(* One form of KoBoCAT and its asset.  A content is the hash of the form   *)
(* it comes from; 0 is what was edited in KPI.  Users of both sides go on  *)
(* changing the form and its permissions while a command runs.  `quiet`    *)
(* tells whether none of them did since it began.                          *)
(*                                                                         *)
(* sync_kobocat_xforms runs in a transaction for each form: one that is    *)
(* rolled back is one that did nothing, so that it may be cut short only   *)
(* before it writes.                                                       *)
(***************************************************************************)
EXTENDS Integers, PermissionRows

CONSTANTS MaxHash,       \* how many times the form is uploaded
          MaxChanges,    \* how many changes users make
          a              \* the asset

VARIABLES s,          \* the rows of the asset, and the permissions in KoBoCAT
          flagged,    \* the users with a from_kc_only row
          form,       \* the XForm: hash, downloadable
          asset,      \* there, content, hash (of backend_response, 0 unknown), active, known (downloadable)
          job,        \* the command that runs
          quiet, settled, changes, viaKpi, unflagged    \* history

reconcileVars == <<s, flagged, form, asset, job, quiet, settled, changes, viaKpi, unflagged>>

NoJob == [pc |-> "idle", kind |-> "none", form |-> [hash |-> 0, active |-> FALSE],
          asset |-> [there |-> FALSE, content |-> 0, hash |-> 0, active |-> FALSE, known |-> FALSE], kc |-> {}, rows |-> {},
          flagged |-> {}, todo |-> {}, user |-> Anonymous, grant |-> {}, revoke |-> {}, purge |-> FALSE,
          changed |-> FALSE]
Idle  == job.pc = "idle"
Members == Users \ {Owner[a]}

OwnersRows == {Owner[a]} \X (Codenames \cap KC_PERMISSIONS)

ReconcileInit ==
  /\ s = [granted |-> {}, denied |-> {}, inherited |-> InheritedRows(a, {}), partial |-> {},
          kc |-> OwnersRows, deployed |-> TRUE]
  /\ form = [hash |-> 1, active |-> TRUE]
  /\ asset \in [there : BOOLEAN, content : {1}, hash : {0, 1}, active : {TRUE}, known : {TRUE}]
  /\ asset.there \/ asset.hash = 1
  /\ job = NoJob
  /\ flagged = {} /\ quiet = TRUE /\ settled = FALSE /\ changes = 0 /\ viaKpi = {} /\ unflagged = FALSE

-----------------------------------------------------------------------------
(* What users do.                                                          *)
Change ==
  /\ changes < MaxChanges
  /\ changes' = changes + 1 /\ quiet' = FALSE /\ settled' = FALSE
  /\ UNCHANGED <<job, flagged, unflagged>>

\* In KoBoCAT: implied permissions are not assigned there.
KobocatGrants(u, p) ==
  Change /\ <<u, p>> \notin s.kc /\ s' = [s EXCEPT !.kc = @ \cup {<<u, p>>}] /\ UNCHANGED <<form, asset, viaKpi>>

KobocatRevokes(u, p) ==
  Change /\ <<u, p>> \in s.kc /\ s' = [s EXCEPT !.kc = @ \ {<<u, p>>}] /\ UNCHANGED <<form, asset, viaKpi>>

KobocatReplaces ==
  Change /\ form.hash < MaxHash /\ form' = [form EXCEPT !.hash = @ + 1] /\ UNCHANGED <<s, asset, viaKpi>>

KobocatToggles ==
  Change /\ form' = [form EXCEPT !.active = ~@] /\ UNCHANGED <<s, asset, viaKpi>>

\* In KPI, whose endpoints leave the from_kc_only rows alone.  `viaKpi` is whose
\* permissions were changed there.
KpiAssigns(u, p) ==
  /\ Change /\ asset.there /\ ~AssignFails(s, a, u, p, FALSE, {p})
  /\ s' = Assigned(s, a, u, p, FALSE, {"view_submissions"})
  /\ viaKpi' = viaKpi \cup {u}
  /\ UNCHANGED <<form, asset>>

KpiRemoves(u, p) ==
  /\ Change /\ asset.there /\ ~RevokeFails(s, a, u, p)
  /\ s' = CleanPartial(Revoke(s, a, u, p), u, p)
  /\ viaKpi' = viaKpi \cup {u}
  /\ UNCHANGED <<form, asset>>

KpiEdits ==
  Change /\ asset.there /\ asset' = [asset EXCEPT !.content = 0] /\ UNCHANGED <<s, form, viaKpi>>

Users_ ==
  \/ \E u \in Members, p \in KC_PERMISSIONS \cap Codenames :
       p \in KC(u) /\ (KobocatGrants(u, p) \/ KobocatRevokes(u, p))
  \/ KobocatReplaces \/ KobocatToggles \/ KpiEdits
  \/ \E u \in Members, p \in Assignable(a) : KpiAssigns(u, p) \/ KpiRemoves(u, p)

-----------------------------------------------------------------------------
Go(pc)    == job' = [job EXCEPT !.pc = pc]
History   == UNCHANGED <<form, changes, viaKpi>>
StaysSettled == settled' = (settled /\ quiet)

(* handle() lists the forms of a user, with the flags that stand for what  *)
(* is granted to everyone, and loads the asset.                            *)
StartForms ==
  /\ Idle
  /\ job' = [NoJob EXCEPT !.pc = "content", !.kind = "xforms", !.form = form, !.asset = asset,
                         !.kc = {x \in s.kc : x[1] = Anonymous}]
  /\ quiet' = TRUE
  /\ UNCHANGED <<s, flagged, asset, unflagged, settled>> /\ History

(* _sync_form_content(): a new asset, or one whose hash differs, gets the  *)
(* content that KoBoCAT gives now.  When KPI does not know the hash, the   *)
(* dates decide: they may be close enough for just the hash to be fetched. *)
SyncContent ==
  /\ job.pc = "content"
  /\ \E update \in (IF ~job.asset.there THEN {TRUE}
                    ELSE IF job.asset.hash = 0 THEN BOOLEAN
                    ELSE {job.asset.hash # job.form.hash}) :
       job' = [job EXCEPT !.pc = IF update \/ job.asset.hash = 0 THEN "response" ELSE "metadata",
                          !.changed = update \/ job.asset.hash = 0,
                          !.asset.content = IF update THEN form.hash ELSE @]
  /\ UNCHANGED <<s, flagged, asset, quiet, settled, unflagged>> /\ History

\* Mutant: the hash is not stored with the content.
StoreResponseLater ==
  /\ job.pc = "response"
  /\ Go("metadata")
  /\ UNCHANGED <<s, flagged, asset, quiet, settled, unflagged>> /\ History

\* _get_kc_backend_response(): hash and downloadable as they are now.
Response == [job.asset EXCEPT !.hash = form.hash, !.known = form.active]

(* The hash is stored along with the content.                              *)
StoreResponse ==
  /\ job.pc = "response"
  /\ job' = [job EXCEPT !.pc = "metadata", !.asset = IF job.asset.there THEN Response ELSE @]
  /\ UNCHANGED <<s, flagged, asset, quiet, settled, unflagged>> /\ History

(* _sync_form_metadata(): active as the form was when it was listed.  A    *)
(* new asset is given its deployment.                                      *)
SyncMetadata ==
  /\ job.pc = "metadata"
  /\ LET differs == ~job.asset.there \/ job.asset.active # job.form.active \/ job.asset.known # job.form.active
     IN job' = [job EXCEPT !.pc = "perms", !.changed = @ \/ differs,
                  !.asset = IF differs THEN [Response EXCEPT !.active = job.form.active] ELSE @]
  /\ UNCHANGED <<s, flagged, asset, quiet, settled, unflagged>> /\ History

(* KoBoCAT answers 404, or worse: the form is left as it is.               *)
Skip ==
  /\ job.pc \in {"content", "response", "metadata"}
  /\ job' = NoJob /\ StaysSettled
  /\ UNCHANGED <<s, flagged, asset, quiet, unflagged>> /\ History

-----------------------------------------------------------------------------
(* _sync_permissions().                                                    *)
KpiRows(u) == {x[2] : x \in {y \in job.rows : y[1] = u}}

\* What KoBoCAT has for u, with what that implies in KPI.
Expected(kc, u) ==
  LET given == {x[2] : x \in {y \in kc : y[1] = u}}
  IN (given \cup UNION {Implied(p) : p \in given}) \cap KC_PERMISSIONS \cap Codenames

(* The permissions of both sides are read.                                 *)
ReadPerms ==
  /\ job.pc = "perms"
  /\ LET rows == s.granted \cup s.inherited
         kc   == {x \in s.kc : x[1] # Anonymous \/ job.kind = "perms"} \cup job.kc
     IN job' = [job EXCEPT !.pc = "users", !.kc = kc, !.rows = rows, !.flagged = flagged,
                           !.todo = ({x[1] : x \in rows \cup kc} \cup flagged) \ {Owner[a]}]
  /\ UNCHANGED <<s, flagged, asset, quiet, settled, unflagged>> /\ History

(* (A mutant forgets to resolve what the permissions in KoBoCAT imply.)    *)
NextUserAsGiven(u) ==
  /\ job.pc = "users" /\ u \in job.todo
  /\ LET expected == {x[2] : x \in {y \in job.kc : y[1] = u}}
         mapped   == KpiRows(u) \cap KC_PERMISSIONS
         revoke   == mapped \ expected
     IN /\ job' = [job EXCEPT !.pc = "user", !.user = u, !.todo = @ \ {u},
                     !.grant = expected \ mapped, !.revoke = revoke,
                     !.changed = @ \/ expected \ mapped # {} \/ revoke # {},
                     !.purge = revoke # {} /\ mapped \ revoke = {} /\ u \in job.flagged]
        /\ flagged' = IF KpiRows(u) = {} /\ u \notin job.flagged /\ expected \ mapped # {}
                      THEN flagged \cup {u} ELSE flagged
  /\ UNCHANGED <<s, asset, quiet, settled, unflagged>> /\ History

(* A user: what to assign and what to revoke.  A user without a permission *)
(* in KPI gets the flag that this command is their only reason for access. *)
NextUser(u) ==
  /\ job.pc = "users" /\ u \in job.todo
  /\ LET expected == Expected(job.kc, u)
         mapped   == KpiRows(u) \cap KC_PERMISSIONS
         revoke   == mapped \ expected
     IN /\ job' = [job EXCEPT !.pc = "user", !.user = u, !.todo = @ \ {u},
                     !.grant = expected \ mapped, !.revoke = revoke,
                     !.changed = @ \/ expected \ mapped # {} \/ revoke # {},
                     !.purge = revoke # {} /\ mapped \ revoke = {} /\ u \in job.flagged]
        /\ flagged' = IF KpiRows(u) = {} /\ u \notin job.flagged /\ expected \ mapped # {}
                      THEN flagged \cup {u} ELSE flagged
  /\ UNCHANGED <<s, asset, quiet, settled, unflagged>> /\ History

AssignOne(p) ==
  /\ job.pc = "user" /\ p \in job.grant
  /\ s' = [Assigned(s, a, job.user, p, FALSE, {}) EXCEPT !.kc = s.kc]       \* skip_kc
  /\ job' = [job EXCEPT !.grant = @ \ {p}]
  /\ UNCHANGED <<flagged, asset, quiet, settled, unflagged>> /\ History

RemoveOne(p) ==
  /\ job.pc = "user" /\ job.grant = {} /\ p \in job.revoke
  /\ s' = [CleanPartial(Revoke(s, a, job.user, p), job.user, p) EXCEPT !.kc = s.kc]
  /\ job' = [job EXCEPT !.revoke = @ \ {p}]
  /\ UNCHANGED <<flagged, asset, quiet, settled, unflagged>> /\ History

EndUserWithoutPurge ==
  /\ job.pc = "user" /\ job.grant = {} /\ job.revoke = {}
  /\ UNCHANGED <<s, flagged>>
  /\ Go("users")
  /\ UNCHANGED <<asset, quiet, settled, unflagged>> /\ History

(* Who had access through KoBoCAT only and lost all of it loses what that  *)
(* implied: every row that grants.                                         *)
EndUser ==
  /\ job.pc = "user" /\ job.grant = {} /\ job.revoke = {}
  /\ IF job.purge
     THEN /\ s' = [s EXCEPT !.granted = @ \ Of(job.user, Codenames), !.inherited = @ \ Of(job.user, Codenames)]
          /\ flagged' = flagged \ {job.user}
     ELSE UNCHANGED <<s, flagged>>
  /\ Go("users")
  /\ UNCHANGED <<asset, quiet, settled, unflagged>> /\ History

\* A user whose permissions in KoBoCAT were all exchanged for others since the
\* last pull.
Exchanged(u) ==
  /\ u \in job.flagged /\ KpiRows(u) \cap KC_PERMISSIONS # {}
  /\ KpiRows(u) \cap Expected(job.kc, u) = {} /\ Expected(job.kc, u) # {}

(* handle(): if anything changed the asset is saved, whatever was saved in *)
(* between.                                                                *)
SaveForm ==
  /\ job.pc = "users" /\ job.todo = {} /\ job.kind = "xforms"
  /\ asset' = IF job.changed THEN [job.asset EXCEPT !.there = TRUE] ELSE asset
  /\ job' = NoJob
  /\ settled' = (quiet /\ \A u \in Members : ~Exchanged(u))
  /\ UNCHANGED <<s, flagged, quiet, unflagged>> /\ History

-----------------------------------------------------------------------------
(* sync_kobocat_perms: pull as above, or, with --mirror-kpi, delete every  *)
(* permission in KoBoCAT that is not the owner's; the flags of the form    *)
(* that make it public are no such permissions.                            *)
StartPerms ==
  /\ Idle /\ asset.there
  /\ job' = [NoJob EXCEPT !.pc = "perms", !.kind = "perms"]
  /\ quiet' = TRUE /\ settled' = FALSE
  /\ UNCHANGED <<s, flagged, asset, unflagged>> /\ History

StartMirror ==
  /\ Idle /\ asset.there
  /\ s' = [s EXCEPT !.kc = {x \in @ : x[1] \in {Owner[a], Anonymous}}]
  /\ job' = [NoJob EXCEPT !.pc = "users", !.kind = "mirror"]
  /\ quiet' = TRUE /\ settled' = FALSE
  /\ UNCHANGED <<flagged, asset, unflagged>> /\ History

Pushed(u) == {p \in KC_PERMISSIONS \cap Codenames : <<u, p>> \in s.granted}

(* _copy_perms_from_kpi_to_kc(): for each user with rows that grant and    *)
(* are not inherited.  assign_applicable_kc_permissions() is given a       *)
(* number, and takes the primary key of it: AttributeError, unless there   *)
(* is nothing to assign or the user is anonymous.                          *)
PushStart ==
  /\ job.pc = "users" /\ job.todo = {} /\ job.kind \in {"perms", "mirror"}
  /\ job' = [job EXCEPT !.pc = "push", !.todo = {u \in Members : Pushed(u) # {}}]
  /\ UNCHANGED <<s, flagged, asset, quiet, settled, unflagged>> /\ History

Push(u) ==
  /\ job.pc = "push" /\ u \in job.todo
  /\ IF u = Anonymous
     THEN /\ s' = [s EXCEPT !.kc = @ \cup Of(u, Pushed(u) \cap KC(u))]
          /\ job' = [job EXCEPT !.todo = @ \ {u}]
     ELSE /\ job' = [job EXCEPT !.pc = "ended"]
          /\ UNCHANGED s
  /\ UNCHANGED <<flagged, asset, quiet, settled, unflagged>> /\ History

(* At the very end every flag is deleted.                                  *)
Unflag ==
  /\ job.pc = "push" /\ job.todo = {}
  /\ flagged' = {} /\ unflagged' = TRUE
  /\ Go("ended")
  /\ UNCHANGED <<s, asset, quiet, settled>> /\ History

End ==
  /\ job.pc = "ended"
  /\ job' = NoJob
  /\ UNCHANGED <<s, flagged, asset, quiet, settled, unflagged>> /\ History

Commands ==
  \/ StartForms \/ SyncContent \/ StoreResponse \/ SyncMetadata \/ Skip
  \/ ReadPerms \/ EndUser \/ SaveForm
  \/ StartPerms \/ StartMirror \/ PushStart \/ Unflag \/ End
  \/ \E u \in Members : NextUser(u) \/ Push(u)
  \/ \E p \in KC_PERMISSIONS \cap Codenames : AssignOne(p) \/ RemoveOne(p)

ReconcileNext == Users_ \/ Commands

ReconcileSpec == ReconcileInit /\ [][ReconcileNext]_reconcileVars

-----------------------------------------------------------------------------
ReconcileTypeOK ==
  /\ s \in AssetState
  /\ flagged \subseteq Members /\ viaKpi \subseteq Members
  /\ form.hash \in 1..MaxHash
  /\ asset.content \in 0..MaxHash /\ asset.hash \in 0..MaxHash
  /\ job.todo \subseteq Members

\* Rows that u has in KPI.
Held(u) == {x[2] : x \in {y \in s.granted \cup s.inherited : y[1] = u}}

(* When the permissions have been pulled, whatever order the users and the *)
(* permissions came in, every user has in KPI what they have in KoBoCAT,   *)
(* what that implies, and nothing else that KoBoCAT knows of; and with     *)
(* every permission those it implies.  Users whose permissions were        *)
(* exchanged are another matter.                                           *)
PullAgrees ==
  quiet /\ job.pc = "users" /\ job.todo = {} /\ job.kind \in {"xforms", "perms"} =>
    \A u \in Members :
      /\ Exchanged(u) \/ Held(u) \cap KC_PERMISSIONS = Expected(s.kc, u)
      /\ \A p \in Held(u) : (Including(a, p) \cap Codenames) \subseteq Held(u)

(* Permissions are only purged when "all KC permissions have been removed" *)
(* (_sync_permissions()).  TLC refutes it: those that were assigned a      *)
(* moment before, in exchange for the others, are purged with them.        *)
PurgedHaveNothing ==
  job.pc = "user" /\ job.purge => Expected(job.kc, job.user) = {}

(* Whose permissions were never changed in KPI, and who has nothing left   *)
(* in KoBoCAT, has nothing left in KPI once the forms were synchronised -  *)
(* as long as sync_kobocat_perms has not deleted the flags.                *)
NothingLeftBehind ==
  settled /\ ~unflagged =>
    \A u \in Members \ viaKpi : Expected(s.kc, u) = {} => Held(u) = {}

(* A form that nobody touched since it was synchronised is not changed by  *)
(* synchronising it again: "otherwise, we'll be re-syncing the same        *)
(* content forever (issue #1302)".                                         *)
SecondSyncChangesNothing ==
  [][settled /\ settled' => UNCHANGED <<s, flagged, asset>>]_reconcileVars

-----------------------------------------------------------------------------
(* No run checks what follows: TLC refutes it.                             *)

(* "This user's KPI access came only from this script": a flag stays when  *)
(* KPI grants the same user more, which is then purged with the rest.      *)
PurgedCameFromKobocat ==
  job.pc = "user" /\ job.purge => job.user \notin viaKpi

(* "Remove all KoBoCAT permission assignments and repopulate them from     *)
(* KPI" (sync_kobocat_perms --mirror-kpi): it stops at the first user.     *)
MirrorRepopulates ==
  job.pc = "ended" /\ job.kind = "mirror" /\ quiet =>
    \A u \in Members \ {Anonymous} : Of(u, Pushed(u)) \subseteq s.kc

(* The stored hash is that of the content: the two are fetched one after   *)
(* the other, and a form that is replaced in between is never noticed.     *)
HashTellsContent == Idle /\ asset.there => asset.content \in {0, asset.hash}
=============================================================================
