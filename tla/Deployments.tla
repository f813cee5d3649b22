----------------------------- MODULE Deployments -----------------------------
(***************************************************************************)
(* Deployment of one form to KoBoCAT (kpi/deployment_backends/mixin.py,    *)
(* kobocat_backend.py, Asset.save() and AssetVersion): the row of the      *)
(* asset, its versions, KoBoCAT's XForm, and the requests.                 *)
(*                                                                         *)
(* A request loads the asset and works on its copy.  There is no           *)
(* transaction around it (ATOMIC_REQUESTS is not set): each query, each    *)
(* save and each call of KoBoCAT is a step, other requests come in between,*)
(* and a request may be cut short at every step, because a worker dies or  *)
(* because KoBoCAT does not answer.  save() writes every field of the copy.*)
(* Versions are numbered in the order of date_modified; `latest_version`   *)
(* is queried each time it is used.                                        *)
(***************************************************************************)
EXTENDS Naturals, Sequences

CONSTANTS Requests,      \* who can make requests at the same time
          Kinds,         \* which ones they make
          Nothing,       \* no row, no deployment, no form
          MaxVersions,   \* how many versions there may be (a bound)
          MaxRequests    \* how many requests are made (a bound)

ASSUME DeploymentsAssumption ==
  /\ Kinds \subseteq {"edit", "deploy", "destroy"}
  /\ MaxVersions \in Nat \ {0} /\ MaxRequests \in Nat

VARIABLES row,        \* the asset in the database
          versions,   \* its AssetVersion rows
          xform,      \* the form in KoBoCAT
          request,    \* what each request is doing
          made,       \* how many were made so far
          published,  \* history: the versions whose number KoBoCAT was sent
          unnamed     \* history: contents that were saved, but not as a version

deploymentVars == <<row, versions, xform, request, made, published, unnamed>>

Contents == 1..MaxVersions
NotGiven == 0
Idle     == [pc |-> "idle"]

Latest == Len(versions)

\* `_deployment_data`; `linked` says whether backend_response has a kpi_asset_uid.
Deployment == [version : 0..MaxVersions, active : BOOLEAN, linked : BOOLEAN]
XForm      == [content : Contents, version : 0..MaxVersions, active : BOOLEAN, linked : BOOLEAN]
Row        == [content : Contents, deployment : Deployment \cup {Nothing}]
Version    == [content : Contents, deployed : BOOLEAN]

Request ==
  [pc : {"check", "post", "patch", "store", "link", "mark", "save", "sync", "version",
         "activate", "record", "delete", "drop"},
   kind : Kinds, content : Contents, deployment : Deployment \cup {Nothing},
   active : BOOLEAN, version : 0..MaxVersions]

\* What is not there is none of these.
ASSUME NothingAssumption ==
  Nothing \notin Contents \cup Deployment \cup XForm \cup Row \cup [content : Contents, active : BOOLEAN]

(* Every record has its type, and what the database says was deployed is a *)
(* version.                                                                *)
DeploymentsTypeOK ==
  /\ row \in Row \cup {Nothing}
  /\ versions \in Seq(Version)
  /\ xform \in XForm \cup {Nothing}
  /\ request \in [Requests -> Request \cup {Idle}]
  /\ made \in 0..MaxRequests
  /\ published \subseteq 1..MaxVersions /\ unnamed \subseteq Contents
  /\ row # Nothing /\ row.deployment # Nothing => row.deployment.version \in 1..Latest

(* A draft, or a form of the time when KoBoCAT did not know about assets.  *)
DeploymentsInit ==
  /\ request = [r \in Requests |-> Idle]
  /\ made = 0 /\ unnamed = {}
  /\ \/ /\ versions = <<[content |-> 1, deployed |-> FALSE]>>
        /\ row = [content |-> 1, deployment |-> Nothing]
        /\ xform = Nothing
        /\ published = {}
     \/ /\ versions = <<[content |-> 1, deployed |-> TRUE]>>
        /\ row = [content |-> 1,
                  deployment |-> [version |-> 1, active |-> TRUE, linked |-> FALSE]]
        /\ xform = [content |-> 1, version |-> 1, active |-> TRUE, linked |-> FALSE]
        /\ published = {1}

-----------------------------------------------------------------------------
At(r, pc)   == request[r].pc = pc
GoTo(r, pc) == request' = [request EXCEPT ![r].pc = pc]
End(r)      == request' = [request EXCEPT ![r] = Idle]
Goes(r, pc, d) == request' = [request EXCEPT ![r].pc = pc, ![r].deployment = d]

(* get_object(), and what the client asks for.  DELETE calls               *)
(* perform_destroy(), which deletes the form first if there is one.  (A    *)
(* mutant forgets the form.)                                               *)
FirstStepForgetful(kind) ==
  IF kind = "edit" THEN "save" ELSE IF kind = "deploy" THEN "check" ELSE "drop"

FirstStep(kind) ==
  IF kind = "edit" THEN "save"
  ELSE IF kind = "deploy" THEN "check"
  ELSE IF row.deployment = Nothing THEN "drop" ELSE "delete"

Begin(r, kind) ==
  /\ request[r] = Idle /\ made < MaxRequests
  /\ row # Nothing
  /\ made' = made + 1
  /\ \E content \in IF kind = "edit" THEN {row.content, Latest + 1} \cap Contents
                    ELSE {row.content},
        active \in IF kind = "deploy" THEN BOOLEAN ELSE {FALSE},
        version \in IF kind = "deploy" THEN {NotGiven} \cup 1..Latest ELSE {NotGiven} :
       request' = [request EXCEPT ![r] =
         [pc |-> FirstStep(kind), kind |-> kind, content |-> content,
          deployment |-> row.deployment, active |-> active, version |-> version]]
  /\ UNCHANGED <<row, versions, xform, published, unnamed>>

(* DeploymentSerializer.create() and update(): POST without a deployment,  *)
(* PATCH with one; a version other than the deployed one asks for a        *)
(* deployment, and only the latest one is accepted.                        *)
Check(r) ==
  /\ At(r, "check")
  /\ LET v == request[r].version
         d == request[r].deployment
         deployed == IF d = Nothing THEN NotGiven ELSE d.version
     IN  CASE d # Nothing /\ v \in {NotGiven, deployed} -> GoTo(r, "activate")
           [] d = Nothing /\ v \in {NotGiven, Latest}   -> GoTo(r, "post")
           [] d # Nothing /\ v # deployed /\ v = Latest -> GoTo(r, "patch")
           [] OTHER -> End(r)
  /\ UNCHANGED <<row, versions, xform, made, published, unnamed>>

(* connect() posts the form; redeploy() patches it, and turns to connect() *)
(* if it is gone.  The file has the content of the copy and the version    *)
(* that is the latest by now.  (One mutant stamps it with the version      *)
(* deployed before, another goes on when KoBoCAT has refused.)             *)
StampDeployed(r) ==
  IF request[r].deployment = Nothing THEN Latest ELSE request[r].deployment.version

Stamp(r) == Latest

Linked(r) == At(r, "post") \/ xform = Nothing \/ xform.linked

SendRegardless(r) ==
  /\ request[r].pc \in {"post", "patch"} /\ Latest > 0
  /\ \/ UNCHANGED xform
     \/ xform' = [content |-> request[r].content, version |-> Stamp(r),
                  active |-> request[r].active, linked |-> Linked(r)]
  /\ published' = published \cup {Stamp(r)}
  /\ Goes(r, "store", [version |-> 0, active |-> request[r].active, linked |-> Linked(r)])
  /\ UNCHANGED <<row, versions, made, unnamed>>

Send(r) ==
  /\ request[r].pc \in {"post", "patch"} /\ Latest > 0
  /\ xform' = [content |-> request[r].content, version |-> Stamp(r),
               active |-> request[r].active, linked |-> Linked(r)]
  /\ published' = published \cup {Stamp(r)}
  /\ Goes(r, "store", [version |-> 0, active |-> request[r].active, linked |-> Linked(r)])
  /\ UNCHANGED <<row, versions, made, unnamed>>

(* store_data(): the version is queried once more.                         *)
StoreWithoutVersion(r) ==
  /\ At(r, "store") /\ Latest > 0
  /\ GoTo(r, "mark")
  /\ UNCHANGED <<row, versions, xform, made, published, unnamed>>

Store(r) ==
  /\ At(r, "store") /\ Latest > 0
  /\ LET d == [request[r].deployment EXCEPT !.version = Latest]
     IN  Goes(r, IF d.linked THEN "mark" ELSE "link", d)
  /\ UNCHANGED <<row, versions, xform, made, published, unnamed>>

(* set_asset_uid()                                                         *)
Link(r) ==
  /\ At(r, "link") /\ xform # Nothing
  /\ xform' = [xform EXCEPT !.linked = TRUE]
  /\ Goes(r, "mark", [request[r].deployment EXCEPT !.linked = TRUE])
  /\ UNCHANGED <<row, versions, made, published, unnamed>>

(* _mark_latest_version_as_deployed(), after another query.  (A mutant     *)
(* marks all of them.)                                                     *)
MarkAll(r) ==
  /\ At(r, "mark") /\ Latest > 0
  /\ versions' = [v \in 1..Latest |-> [versions[v] EXCEPT !.deployed = TRUE]]
  /\ GoTo(r, "save")
  /\ UNCHANGED <<row, xform, made, published, unnamed>>

Mark(r) ==
  /\ At(r, "mark") /\ Latest > 0
  /\ versions' = [versions EXCEPT ![Latest].deployed = TRUE]
  /\ GoTo(r, "save")
  /\ UNCHANGED <<row, xform, made, published, unnamed>>

-----------------------------------------------------------------------------
(* Asset.save(): all of the copy is written (a row that is gone comes      *)
(* back), then paired data is synchronised with KoBoCAT, then, unless      *)
(* create_version=False, comes the version.                                *)
Save(r) ==
  /\ At(r, "save")
  /\ row' = [content |-> request[r].content, deployment |-> request[r].deployment]
  /\ IF request[r].deployment # Nothing THEN GoTo(r, "sync") ELSE GoTo(r, "version")
  /\ UNCHANGED <<versions, xform, made, published, unnamed>>

Sync(r) ==
  /\ At(r, "sync") /\ xform # Nothing
  /\ IF request[r].kind = "edit" THEN GoTo(r, "version") ELSE End(r)
  /\ UNCHANGED <<row, versions, xform, made, published, unnamed>>

CreateVersion(r) ==
  /\ At(r, "version") /\ Latest < MaxVersions
  /\ versions' = Append(versions, [content |-> request[r].content, deployed |-> FALSE])
  /\ End(r)
  /\ UNCHANGED <<row, xform, made, published, unnamed>>

-----------------------------------------------------------------------------
(* set_active(), and save_to_db() afterwards, which replaces some values   *)
(* in the row and leaves the others alone.  If the form is active and has  *)
(* files to synchronise, all of the copy is saved too.  (A mutant only     *)
(* keeps the values in the copy.)                                          *)
SetActive(r) ==
  /\ At(r, "activate") /\ xform # Nothing
  /\ xform' = [xform EXCEPT !.active = request[r].active]
  /\ Goes(r, "record", [request[r].deployment EXCEPT !.active = request[r].active,
                                                     !.linked = xform.linked])
  /\ UNCHANGED <<row, versions, made, published, unnamed>>

StoreInCopy(r) ==
  /\ At(r, "record")
  /\ End(r)
  /\ UNCHANGED <<row, versions, xform, made, published, unnamed>>

SaveToDb(r) ==
  /\ At(r, "record")
  /\ row' = IF row = Nothing \/ row.deployment = Nothing THEN row
            ELSE [row EXCEPT !.deployment.active = request[r].deployment.active,
                             !.deployment.linked = request[r].deployment.linked]
  /\ End(r) \/ (request[r].active /\ GoTo(r, "save"))
  /\ UNCHANGED <<versions, xform, made, published, unnamed>>

-----------------------------------------------------------------------------
(* KobocatDeploymentBackend.delete(), which does not mind if the form is   *)
(* gone already; then the asset, and its versions with it.                 *)
DeleteForm(r) ==
  /\ At(r, "delete")
  /\ xform' = Nothing
  /\ GoTo(r, "drop")
  /\ UNCHANGED <<row, versions, made, published, unnamed>>

DropAsset(r) ==
  /\ At(r, "drop")
  /\ row' = Nothing /\ versions' = <<>>
  /\ End(r)
  /\ UNCHANGED <<xform, made, published, unnamed>>

(* A worker dies, or KoBoCAT refuses, or does not answer: what was done    *)
(* stays done.                                                             *)
Unversioned(r) ==
  /\ request[r].kind = "edit" /\ request[r].pc \in {"sync", "version"}
  /\ request[r].content # versions[Latest].content

Cut(r) ==
  /\ request[r] # Idle
  /\ End(r)
  /\ unnamed' = IF Latest > 0 /\ Unversioned(r) THEN unnamed \cup {request[r].content} ELSE unnamed
  /\ UNCHANGED <<row, versions, xform, made, published>>

-----------------------------------------------------------------------------
Step(r) ==
  \/ \E kind \in Kinds : Begin(r, kind)
  \/ Check(r) \/ Send(r) \/ Store(r) \/ Link(r) \/ Mark(r)
  \/ Save(r) \/ Sync(r) \/ CreateVersion(r)
  \/ SetActive(r) \/ SaveToDb(r)
  \/ DeleteForm(r) \/ DropAsset(r)
  \/ Cut(r)

DeploymentsNext == \E r \in Requests : Step(r)

DeploymentsSpec == DeploymentsInit /\ [][DeploymentsNext]_deploymentVars

-----------------------------------------------------------------------------
(* Submissions are read with the version that KoBoCAT has stamped on them: *)
(* it is the one with the content that they were collected with, unless    *)
(* this content was saved and its version was not.                         *)
StampedWithItsVersion ==
  xform # Nothing /\ Latest > 0 /\ xform.content \notin unnamed =>
    versions[xform.version].content = xform.content

(* A version that is marked as deployed was sent to KoBoCAT: exports and   *)
(* reports rely on the mark to choose the versions that data may have.     *)
DeployedWasPublished ==
  \A v \in 1..Latest : versions[v].deployed => v \in published

(* The record of what was published when is true.                          *)
VersionsAreTrue == StampedWithItsVersion /\ DeployedWasPublished

(* A deployment or an activation that ends, and is not cut short, leaves   *)
(* KPI and KoBoCAT in agreement, whatever was cut short before.            *)
Completes(r) ==
  \/ Sync(r) /\ request[r].kind = "deploy"
  \/ SaveToDb(r)

Agree(d, x) == d.active = x.active /\ d.linked = x.linked

CompletedAgrees ==
  [][\A r \in Requests :
       Completes(r) => Agree(row'.deployment, xform')]_deploymentVars

(* Requests in sequence implement the abstract specification.              *)
P == INSTANCE Publication WITH
       draft <- IF row = Nothing THEN Nothing ELSE row.content,
       form  <- IF xform = Nothing THEN Nothing
                ELSE [content |-> xform.content, active |-> xform.active],
       known <- IF row = Nothing \/ row.deployment = Nothing THEN Nothing
                ELSE row.deployment.active

ImplementsPublication == P!PublicationSpec

(* Whatever requests do at the same time, DELETE apart, a project that KPI *)
(* takes for deployed has a form in KoBoCAT.                               *)
KobocatLeads ==
  row # Nothing /\ row.deployment # Nothing => xform # Nothing

-----------------------------------------------------------------------------
(***************************************************************************)
(* What the code's comments say and TLC refutes: the first for an edit     *)
(* that is cut short, the others for concurrent requests.                  *)
(***************************************************************************)

(* "asset.deploy deploys the latest version": what KoBoCAT has under the   *)
(* number of a version is the content of that version.                     *)
DeploysLatestVersion ==
  xform # Nothing /\ Latest > 0 => versions[xform.version].content = xform.content

(* "in certain circumstances, we don't want content to be altered on save. *)
(* (e.g. on asset.deploy())": a deployment does not touch the content.     *)
DeployKeepsContent ==
  [][\A r \in Requests :
       request[r] # Idle /\ request[r].kind = "deploy" /\ request'[r] # request[r]
         => row'.content = row.content]_deploymentVars

(* "Ensure `_deployment_data` is not saved directly": an edit does not     *)
(* touch the deployment.                                                   *)
EditKeepsDeployment ==
  [][\A r \in Requests :
       request[r] # Idle /\ request[r].kind = "edit" /\ request'[r] # request[r]
         => row'.deployment = row.deployment]_deploymentVars
=============================================================================
