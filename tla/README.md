# Verification of KPI

KPI is the form-management server of KoBoToolbox: a Django application with Celery
workers, a PostgreSQL database of its own, a second one that belongs to KoBoCAT (the
server that collects submissions), MongoDB with the submissions, a file storage, and a
single-page user interface. This directory holds TLA+ modules that model the parts of it
where what goes wrong is hard to see in a test, TLC configurations that check them, and
proofs that TLAPS checks.

Contents: [inventory](#inventory), [modules](#modules-and-their-correspondence-to-the-code),
[runs](#runs), [proofs](#proofs), [what the code does not keep](#what-the-code-does-not-keep),
[what is not modelled](#what-is-not-modelled), [plan](#plan).

Run a model with `tlc -config PermissionsTree.cfg MCPermissions` (every run is listed in
`PROJECT.json`) and check proofs with `tlapm M.tla`, where `M` is `AssetPermissions_proofs`,
`Requests_proofs`, `Exports_proofs`, `Background_proofs`, `Files_proofs`, `Processes_proofs`,
`Projects_proofs` or `Kobocat_proofs` (a minute to eleven each).

## Inventory

| Component | State | Operations | Talks to |
|---|---|---|---|
| Object permissions (`kpi/mixins/object_permission.py`, `kpi/models/object_permission.py`, parts of `kpi/models/asset.py`) | rows (user, codename, deny, inherited) of each asset; the partial-permission row; the tree of collections | `assign_perm`, `remove_perm`, `copy_permissions_from`, `save`, `recalculate_descendants_perms` | KoBoCAT synchronisation |
| KoBoCAT permission synchronisation (`kc_access/utils.py`) | permissions on the XForm in the other database, its `shared` flags | assign, remove, bulk assignment at deployment | called from inside KPI's transactions, not part of them |
| Permission endpoints (`views/v2/asset_permission_assignment.py` and its serializers) | none between requests | POST, DELETE, `clone` (PATCH), `bulk` (POST); what is posted and shown | object permissions |
| Row-level filters (`models/asset_user_partial_permission.py`) | a JSON object: codename to list of filters | `update_partial_perms_to_include_implied` | written by `assign_perm` |
| Asset lists (`views/v2/asset.py`, `serializers/v2/asset.py`) | none; rows prefetched for one answer | list, retrieve, metadata, children | object permissions, subscriptions |
| Search (`kpi/utils/query_parser`, `kpi/filters.py`) | none | parse `q`, build a Q object, filter the list | asset lists |
| Deployment and versions (`deployment_backends/`, `models/asset.py`, `models/asset_version.py`) | `_deployment_data`, AssetVersion rows, KoBoCAT's XForm | edit, connect, redeploy, activate, delete | KoBoCAT over HTTP |
| Commands that bring KPI in line with KoBoCAT (`sync_kobocat_xforms`, `sync_kobocat_perms`) | flags in KoBoCAT, hashes in the deployment data | pull forms and permissions, mirror | both databases |
| Content pipeline (`kpi/utils/autoname.py`, `kobo_to_xlsform.py`, `xlsform_preprocessors`, `kpi/mixins`) | the JSON content of an asset, the summary of collections | name, expand, translate, summarise | deployment, snapshots |
| Asset snapshots and edits in Enketo (`views/v2/asset_snapshot.py`, `views/v2/data.py`, `Asset._snapshot`) | AssetSnapshot rows, Enketo's cache | edit, preview, submit, purge | Enketo, KoBoCAT |
| Submissions (`views/v2/data.py`, `permissions.py`, the KoBoCAT backend, `utils/mongo_helper.py`) | none; KoBoCAT's rows and MongoDB's copies | list, validate, change, duplicate, delete | KoBoCAT over HTTP, MongoDB |
| Attachments (`views/v2/attachment.py`, shadow models) | MP3 files | find, convert, serve | KoBoCAT's database, storage |
| Media files and paired data (`models/asset_file.py`, `models/paired_data.py`, the KoBoCAT backend, `sync_kobocat_form_media`) | AssetFile rows, files in KoBoCAT, connections and their XML files | upload, delete, synchronise, take over, connect, serve | KoBoCAT, storage |
| Asynchronous exports (`models/import_export_task.py`, `views/v2/export_task.py`, `tasks.py`) | rows of ExportTask, files in storage, the task's copy of the row | create, `run`, housekeeping, `delete` | Celery, storage |
| Synchronous exports (same file, `views/v2/asset_export_settings.py`) | one row per user, settings and format; a file | `generate_or_return_existing` | row lock, storage |
| Imports (same file, `views/v2/import_task.py`, `zip_importer.py`) | rows of ImportTask, assets | create, `run` | Celery |
| REST services (`kobo/apps/hook`) | HookLog rows, Celery retries | signal, task, save of the log, retry of one, retry of all | external servers, KoBoCAT |
| Accounts (`kpi/signals.py`, `kc_access/shadow_models.py`, `kobo/apps/mfa`, `serializers/current_user.py`) | users, tokens, profiles and counters, here and in KoBoCAT | register, change, delete and make tokens, switch the second factor, copy profiles | KoBoCAT's database |
| jsonb migration (`migrate_json_text_to_jsonb`) | columns, mirrors and triggers of two tables | the command and its two options | the application that goes on writing |
| User interface (`jsapp`) | views | calls of the API | everything over HTTP |

**Which behaviours are hard, and what makes each component correct.**

* *Object permissions.* A grant implies others and removes what contradicts it; a removal
  takes away what implies the removed permission and replaces an inherited grant with a
  denial; what a collection passes on is stored in every asset below it. A long sequence of
  legal calls must leave rows that mean what they say: closed under implication, never
  row-level and unrestricted access at once, nothing inherited that the collection does not
  give, nothing left after a removal. The calls recurse in the order of a Python set, so the
  result must not depend on it.
* *KoBoCAT synchronisation.* Two databases and one transaction: a rollback undoes one half.
* *Permission endpoints.* DELETE and the bulk endpoint are several transactions each; other
  requests come in between (`ATOMIC_REQUESTS` is not set).
* *Row-level filters.* Lists are shared and merged in place while a set is iterated.
* *Asset lists.* A list reads assets, permissions and subscriptions by queries of their own
  and keeps a user's rows for the rest of the request; it must not tell more than asking
  for each asset would.
* *Search.* A recursive-descent grammar without backtracking into what it has skipped; a
  permission filter that reads the parameters of `q` apart from its operators.
* *Deployments.* KPI and KoBoCAT agree only by steps that may fail in between; a request
  works on its copy of the row and writes all of it; the latest version is queried again at
  each step.
* *Commands.* They compute once what they apply one by one, while users go on.
* *Content.* Names are made up at different moments for the form and its preview, and
  expressions must go on mentioning the right rows; languages are moved with their values.
* *Snapshots and edits.* One snapshot per version, replaced by whoever opens a submission. An
  edit that is posted is looked up, checked, and then passed on as the owner: others edit the
  same submission, and permissions change, between any two of these.
* *Submissions.* KoBoCAT knows no row-level access: KPI looks submissions up, then vouches; the
  filters may be others at each step.
* *Lists of submissions, attachments.* Names are encoded; pages and counts are queries of
  their own; a file that is being converted is there already.
* *Media files, paired data.* A synchronisation compares a list it asked for once with rows
  it read once; a connection, its file, and the hash devices know are three writes.
* *Exports.* Every run also tidies up after others, whatever they are doing; rows and files
  are written at different moments; workers are killed by time limits or for want of memory;
  messages are delivered twice. A complete export must have its file and stay complete; every
  export must end.
* *Synchronous exports.* Requests wait for a row lock with the cut-off they computed before;
  the file of the old export is deleted outside of the transaction.
* *Imports.* A message may be delivered twice; nothing is undone and nothing resumed.
* *REST services.* At-least-once delivery with automatic and manual retries, counted in two
  places, and a log that is looked up and created without a lock.
* *Accounts.* Each save in KPI is followed by several in KoBoCAT, in signals that may be cut
  short, and whole rows are written back.
* *jsonb migration.* It may die between two queries, and the application writes meanwhile.

`PROJECT.json` lists the hazards line by line, with the property that covers each or the
reason why none does.

## Modules and their correspondence to the code

```
PermissionTables --> PermissionRows --> AssetPermissions --> PermissionCalls --------> MCProcesses
       |                     |            |   |      \  \--> PermissionRequests ----------^
       |                     |            |   |       \----> Listings ----------------> MCProjects
       |                     |            |   `--> MCPermissions
       |                     |            `--> AssetPermissions_proofs --> Requests_proofs
       |                     `--> Reconcile -------------------------------------------> MCProjects
       `--> PartialFilters ------------------------------------------------------------> MCWeb

Exports --> Exports_proofs --> Background_proofs (with MCBackground)
MCProjects --> Projects_proofs --> Kobocat_proofs
MCFiles --> Files_proofs       MCProcesses --> Processes_proofs

MCProcesses   PermissionCalls, PermissionRequests, EnketoSessions, JsonbMigration
MCProjects    Deployments twice (requests one after another, with Publication, their
              abstract specification, and two at a time), Reconcile, Listings,
              Assignments, Queries, Accounts
MCFiles       MediaSync, PairedData, SubmissionAccess
MCWeb         Search, PartialFilters, Content, Translations, Attachments
MCBackground  HookDelivery, SyncExports, Exports, Imports
```

Components that share no state are checked side by side: in the MC modules above `turn`
picks one of them, it alone moves in a behaviour, and its properties are guarded by `turn`.
A behaviour of all of them is a behaviour of each with steps of the others in between, and
those change nothing that a property of the one can tell, so that this is enough; and the
states of the components add up instead of multiplying. (The MC modules take most components
with `INSTANCE` because two of them may have variables of the same name. It has a price in
MCProcesses: TLC evaluates a constant of an instance anew wherever it is used.)

### Sharing

**PermissionTables** has the tables of class `Asset` (`IMPLIED_PERMISSIONS`,
`CONTRADICTORY_PERMISSIONS`, `ASSIGNABLE_PERMISSIONS_BY_TYPE`, ...) with all ten codenames.
`Codenames` restricts an instance to some of them; closures are computed over the whole
table first, so that `manage_asset` implies `view_asset` through whatever is left out.

**PermissionRows** says what the mixin's methods do to the rows of one asset. The state of an
asset is a record of sets of (user, codename) pairs: `granted` and `denied` are the explicit
rows, `inherited` the rows with `inherited=True`, `partial` the keys of the
`AssetUserPartialPermission` row, `kc` what KoBoCAT holds, `deployed` whether there is a
deployment. `Grant`, `Deny` and `Revoke` are the recursive methods in closed form.

**AssetPermissions** is the abstract specification of sharing: one action per request that
changes permissions, for every asset of a tree. `Save` is a PATCH (moving included),
`AssignPerm` a POST, `RemovePerm` a DELETE, `Deploy` a deployment, and `CopyBegin`,
`CopyNext`, `CopyEnd` a clone, row by row because the database returns the rows of the source
in any order and the result could depend on it (`tx` is that transaction; a failure restores
`tx.saved`, but not what KoBoCAT was told). `Effective` is what `get_perms()` goes by, `Listed`
what `get_objects_for_user()` goes by, and `May` is `has_perm()`, which falls back on the public's
rows: it decides who may move an asset and who may clone.

**PermissionCalls** is the detailed specification: a stack of calls in progress, each of which
goes on to the implied permissions in any order, as `assign_perm()` and `remove_perm()` do.
`AtomicCalls` says that it implements `AssetPermissions` (the same variables are committed by
`Commit` and `Rollback`, all other steps stutter): this justifies the closed forms.

**PermissionRequests** composes the endpoints with `AssetPermissions`: `Requests` are requests
in progress; DELETE is a query and a call, the bulk endpoint two queries, any number of calls
that remove and any number that add. Other requests take steps in between.

**PartialFilters** models `update_partial_perms_to_include_implied()` with its two loops in any
order. A list of filters is an object that several entries of the result may refer to. What it
concludes about the keys of the result (`KeysAsAssumed`, a part of `NothingLost`) is what
`PartialKeys` in PermissionTables takes for granted.

**Assignments** is what surrounds it: the addresses of users that are posted (a bulk request
sorts them by Python and pairs them with users that the database has sorted), and the lists of
filters that are shown, posted again and expanded again, in the orders of JSON and of jsonb.

**Listings** extends AssetPermissions with what users are told: the status, the permissions and
the types of access of each asset, computed from rows that a list fetches for all assets
(`FetchRows`, `ask.told`) and from others for a single asset; others share and move (`Share`), delete
and subscribe between the queries of a request.

**Reconcile** composes PermissionRows with two commands. `form`, `flagged` and `s.kc` are
KoBoCAT's, `asset` and the rest of `s` KPI's; `job` is the command and the user it has come to.
Each assignment and each removal of a permission is a step of the command, and users of both
sides take theirs in between.

### Forms

**Publication** is an abstract specification: KoBoCAT collects data with a draft that KPI had at
that moment, KPI believes only what KoBoCAT has confirmed, and a project whose form is known is
not removed before its form. **Deployments** is the code: a request loads the row and works on
its copy (`request[r].content` and `.deployment`), and every query, save and call of KoBoCAT is
a step at which it may be cut short (`Cut`). `row` is the asset, `versions` its `AssetVersion`
rows, `xform` KoBoCAT's form. With one request at a time it implements Publication
(`ImplementsPublication`, under `P == INSTANCE Publication WITH draft <- ..., form <- ...,
known <- ...`), whatever is cut short.

**Content** is the JSON of a survey as a sequence of rows and the functions that make of it the
form (`Deployed`) and its preview (`Previewed`): names (`Autoname`, `Slug`), the groups that
stand for rankings, scores and matrices (`Expanded`, a fold over the rows that carries the
handler of the group it is in), and references (`Replaced`). A name is the sequence of the words
between its underscores, so that joining, cutting and comparing them is what the code does to
strings: references are found by name, and whether two names collide depends on where they are
cut. **Translations** is the list of languages that a client sends, the moves of columns it
leads to (`Moved`, `Added`, `RemovedLast`), and the summary of collections.

**EnketoSessions** has the requests that open a submission in Enketo, one at a time per user and
interleaved, the snapshot per version that they replace, KoBoCAT's uuids, and the request that
saves: the permission class and the snapshot (`Save`), the lookup of the submission by the uuid
that was edited (`Find`, `kobocat_backend.py:500`), the check of row-level access (`Check`, `:514`)
and the call of KoBoCAT as the owner (`Post`, `:529`) are steps of their own. Between them others
edit the same submission, and permissions change (`ChangeAccess`); the call may succeed and its
answer be lost. KoBoCAT is external: what it does with an edit whose text is gone is left open (it
refuses, or takes it as a new submission, which `strays` counts).

### Submissions

**SubmissionAccess** is one user's request for submissions: the permission class, then the
validation, then the lookup in MongoDB with the filters of row-level access (`Filter`), then the
call of KoBoCAT with the ids KPI vouches for (`Sent`); others submit and delete, give the user
more, less or other access at any step (`ChangeAccess`), and MongoDB lags (`CopyToMongo`).
`request.granted` is history: what the user might act on at each moment of the request. **Queries** is the text of such a lookup: parameters, encoded names
(`SafePath`), sorting, filters joined by `$or` and `$and`, counts, pages, and what becomes of
names in the answer. **Attachments** is the file of a submission: found by its key or by the
question it answers, converted to MP3 by whoever comes first, and served.

**Search** reads `q` rule by rule as the generated parser does (the recursive operators `ReadGroup`,
`AndTail`, ... take an offset and return what was read and the next offset), builds the Q object
(`AndPart` is where precedence is decided) and applies the two filters of the list.

### Files and background work

**MediaSync** has the rows of `AssetFile` (`files`, with those that are flagged as deleted in
`gone`), KoBoCAT's `metadata`, and workers that run `sync_media_files()` or the command
`sync_kobocat_form_media`, call by call, with failures before and after each call.
**PairedData** has connections to other projects, their XML files and KoBoCAT's hashes; `Void`,
`SavePair`, `Sync` are the writes of one request.

**Exports** models one user's exports of one form: rows, files, and the runs of their Celery
task, step by step through `export_in_background()`, `ExportTask.run()` and `_run_task()`. A
message may be delivered again at any time (`Redeliver`): the n-th delivery of export `e` is the run
`<<e, n>>`, and two runs of an export overlap as the code lets them, since `run()` reads the status
(`Receive`) and writes it (`Claim`) without a lock. `task[r].status` and `task[r].read` are the
copies of rows a run holds in memory; `Raise` is an exception at any point of `_run_task()`, which
`run()` catches, `Refuse` the one of `InaccessibleData`, which escapes it, and `Crash` the end of a
worker.

**SyncExports** models requests for one synchronous export: the cut-off is computed before the
lock is taken, a run that fails may have made a file or not, and one that is rolled back keeps the
files it deleted deleted.

**Imports** models one import and the workers its message is delivered to, item by item:
`Sheet` and `Create` for surveys and libraries, `Archive` and `Move` for zip files; the
destination is renamed and access to it revoked meanwhile.

**HookDelivery** models one submission, one hook and its log. An attempt posts, then reads the
log, then saves it (`send()`, `save_log()`), or fails to save it, which the code logs and ignores
(`LoseLog`); `Raises` is the path through the exception handler of `HookLog.retry()`. Signals may
come twice before there is a log, tasks may run late, and manual retries overlap with all of it.

**Accounts** has one username in both databases. Each signal is a sequence of queries of
KoBoCAT's database (`SyncUser`, `Undigest`, `Digest`, `LookForCounter`, `AddCounter`, ...), and
requests overlap and may be cut short between any two. `DeleteToken` and `AskForToken` are the
two requests of `TokenView`. Of the counters, which are one per month, those of one month are
modelled. **JsonbMigration** has the command's
queries in their order (`pc`), two columns, triggers, and an application that writes.

### Mutants

An operator whose name is that of another with a suffix (`ChildrenRecalculated`,
`RaiseUncaught`, ...) and that no action uses is a deliberately broken variant: each property
is checked to fail when the variant replaces the original (`"mutants"` in `PROJECT.json`;
properties that join those of several components have one for each).

## Runs

| Run | Asks | Instance, and why it is enough |
|---|---|---|
| permissions_tree | Do the rows stay coherent, do revocations and changes reach every depth? | three assets of three levels, one member besides the owner, two heritable codenames and one that is not. Three levels is where recalculating only the children differs from recalculating all (the mutant of `InheritedFromParent`); users do not interact except through the owner's rows |
| permissions_copy | Row-level against unrestricted access, cloning, KoBoCAT, the public | two surveys, a member and the public, six codenames with every kind of contradiction, two partial assignments, one with a change that brings `add_submissions` along; clones from one to the other at any moment |
| processes | Does the order of recursion matter? What do interleaved requests leave? Is an edit in Enketo one of what was opened? Does the migration lose anything? | recursion: a collection and a survey, five codenames that give depth three with diamonds. Requests: two and any number of one-step requests on a survey; three bulk assignments. Enketo: two editors, two submissions with different root nodes, two versions and two snapshots; each submission is edited once, which is enough for a second edit of the same text to come too late, at each step of its request. Migration: two rows and columns, batches of one, one write and two starts, so that it is killed at every query and resumed |
| projects | What do requests, cut short anywhere, leave of a form? Do the commands bring KPI in line? What are users told? Is KoBoCAT's account KPI's? | forms: six requests one after another on four versions (a stale version, a repeated one, and a removal in between need four), and four requests on three versions two at a time. Commands: a member and the public, two hashes, two changes, any number of commands. Lists: a collection in another, two members and the public, three rows, one change between queries. Assignments: three names, five addresses and two collations, filters that can be merged and one that cannot, three posts. Pages: three submissions (a dotted name, a validation status, equal values), pages of one, one removal. Accounts: two workers, four requests |
| files | What is synchronised and served, and to whom? | media: a name and the one a file gets that the command takes over, two contents, two files of KPI and two of KoBoCAT, two workers. Paired data: two sources, one of them with two fields, two filenames, two connections in all. Access: two submissions of two submitters and all endpoints, any change of access at any step |
| web | Searches, filters, contents, languages, attachments | expressions of depth two and texts that are no expressions; every assignment of mergeable and opaque filters to the five permissions; surveys of one or two blocks of each kind with names that collide after cutting at four words; two surveys, two collections and three languages; two submissions with one UUID, two attachments, two downloads |
| background | Files and rows of exports, completeness of imports, tries of deliveries; does everything end? | two runs, of two exports or of one whose message is delivered twice, and a limit of one, so that an export may be removed by another's run, and by a DELETE at the same time; three requests for one synchronous export, so that one can hold a stale cut-off while two others run, a clock up to 2 with a maximum age of 1, one change of settings; two deliveries of an import of each kind; two signals, one automatic retry and one by hand, two attempts at once, each as late as may be: the two off-by-one mutants of the count tell one retry from none and from two |
| clone_onto_collection, filters_exact, stuck_export, partial_without_row, purged_too_much | violations, see [below](#what-the-code-does-not-keep) | |

What a joint property is made of: `RowsStayRight` is RequestTypeOK, `RowsCoherent`,
`NeverPartialAndFull` and `KobocatComplete` under concurrent requests; `FormsAreTrue`, that
versions are those of what was sent (`VersionsAreTrue`) and, two requests at a time, that a
project KPI takes for deployed has a form (`KobocatLeads`); `CommandsReconcile`, `PullAgrees`
and `NothingLeftBehind`; `SharingIsTold`, what Listings, Assignments and Queries state at their
ends; `AccountsAreRight`, the five properties at the end of Accounts; `FilesAreTrue`,
`SyncedIsInKobocat`, `FilesAreOfTheirPairs` and `KobocatKnowsHashes`; `CompleteIsWhole`, that of
Exports, `RecentHasFile` of SyncExports and `CompleteIsInPlace` of Imports;
`DeliveriesAreCounted`, `FailedAfterRetries` and `TriesAreCounted` (no try twice; every try, if
none overlapped with another and no worker died) of HookDelivery and
`RedeliveryDoesNothing` of Imports; `SearchIsRight`, the two properties of Search and those of
Attachments; `FiltersAreRight`, `NothingLost` and `ExactWhenViewPosted`; `ContentIsRight`, those
of Content (unique names, references that resolve, form and preview that agree) and
Translations; `NothingIsLost`, `NothingWrittenIsLost` of the migration and
`FormFitsSubmission` of Enketo.

Bounds: `Nested` (at most three levels, in AssetPermissions), `Count`, `MaxDeliveries` and
`MaxRuns` (exports and deliveries of their messages), `Horizon` and `Edits` (clock and changes of
settings), `Senders`, `MaxSignals` and `MaxManual` (hooks), the constants named `Max...` of each
module, `Requests` and `Workers`. `CHECK_DEADLOCK FALSE` everywhere: all these systems may stop
when no request comes. Symmetry is used where it is sound: for workers, submissions, contents,
filenames and submitters (files), surveys and collections (web), requests, editors and submissions
(processes); none of the runs with symmetry checks liveness.

**Fairness.** The liveness property (`EverythingSettles`) assumes weak fairness of the steps of
workers, of all of them together, and nothing about users, time, crashes or the network:
`WF(\E r : Work(r))` of exports, `WF(\E w : Import(w))` and `WF(\E s : Attempt(s))` say that the
workers of a queue are never idle for ever while there is something to do. Celery hands a queued
task to a free worker, and a worker goes on with what it has begun; the assumption is weak, since
`Raise` is one of the steps a worker may take, and the time limit ends a step that does not end. A
countdown of a retry expires, and a request to an endpoint has a timeout of 30 seconds, so `Post`
ends. It is enough, because every task takes a bounded number of steps. Exports, imports and
deliveries whose worker dies are excluded with a history variable (`lost`, `died`), because nothing
in the code brings them to an end; so are exports whose data cannot be accessed (`lost`), and
deliveries of which two attempts overlapped (`raced`), which may leave their log pending.

## Proofs

Eight modules prove the following, for every value of the constants that the assumptions below
allow (any number of users, assets, exports, workers, requests, versions, ...).

| Module | Theorem | Property |
|---|---|---|
| AssetPermissions_proofs | `TypeCorrect` | `TypeOK` |
| | `RowsAlwaysCoherent` | `RowsCoherent` |
| | `HoldersHoldTheImplied` | `EffectiveClosed` |
| | `OwnersHoldEverything` | `OwnerHoldsEverything` |
| | `NeverBothPartialAndFull` | `NeverPartialAndFull` |
| | `PublicRowsAllowed` | `AnonymousRowsAllowed` |
| | `RevocationReachesEveryDepth` | `InheritedFromParent`, if nothing is copied |
| | `ChangesReachEveryDepth` | `ChangesArrive`, if nothing is copied |
| Requests_proofs | `RowLevelRestricted` | `RowLevelIsRestricted` |
| | `KobocatKeepsUp` | `KobocatStaysComplete` |
| | `Removed` | `RemovedIsGone` |
| Exports_proofs | `ExportsInductive` | the invariant `ExportsInv` |
| | `CompleteStaysComplete` | `CompleteIsFinal` |
| Background_proofs | `BackgroundTypes` | `BackgroundTypeOK` |
| | `CompleteMeansWhole` | `CompleteIsWhole` |
| | `DeliveriesCounted` | `DeliveriesAreCounted` |
| | `RunsSpaced` | `RunsAreSpaced` |
| Files_proofs | `FilesTypes` | `FilesTypeOK` |
| | `FilesTrue` | `FilesAreTrue` |
| | `OnlyAllowed` | `OnlyTheirs` |
| | `OnlyAsked` | `OnlyWhatWasAsked` |
| Processes_proofs | `NothingLost` | `NothingIsLost` |
| | `EditsReplace` | `EditsReplaceWhatTheyRead` |
| Projects_proofs | `FormsTrue` | `FormsAreTrue`, under `Solo` |
| | `RequestsAgree` | `CompletedAgrees`, under `Solo` |
| | `ImplementsPublished` | `ImplementsPublication`, under `Solo` |
| Kobocat_proofs | `AccountsRight` | `AccountsAreRight` |
| | `PullsReconcile` | `CommandsReconcile` |
| | `SyncsOnce` | `SecondSyncChangesNothing` |
| | `ProjectsTypes` | `ProjectsTypeOK`, under `Removes` |

**Assumptions.** Those named in the modules, which say what the constants are: bounds are
numbers; an asset's owner is a user and not the anonymous one, an asset has one of the types,
`NoParent` and `Nothing` are none of the things they stand beside; `view_submissions` is there
where `partial_submissions` is (`CodenamesAssumption`); copies come from assets. Hypotheses of a
theorem, where it needs more:

* *Nothing is copied* (`CopySources = {}`), for inheritance: with copies the two properties are
  false, which the run clone_onto_collection shows.
* `Solo`: `Requests` has one member, that is, requests about a project follow one another, each
  cut short anywhere. Those that overlap overwrite each other's fields (`DeployKeepsContent`);
  what is proved of them, the requests in `Others`, is `KobocatLeads`, a part of `FormsTrue`.
* `Removes`: no removal of a project overlaps another request. The versions go
  with the row, and another request would go on with the number of one.

**Sharing.** Neither `EffectiveClosed` nor `NeverPartialAndFull` is inductive: a grant and an
inherited row, minus denials, say too little about what a removal will leave. `Coherent` says it
of the three kinds of rows separately: nothing is both granted and denied; explicit grants are
closed under implication and free of contradictions by themselves; whatever implies a denied
permission and could be inherited is denied as well; inherited rows are heritable and closed.
`IInv` adds that the rows a copy would restore are coherent too, and that its todo list does not
name the target's owner. That a request preserves it comes down to one asset at a time
(`GrantGood`, `DenyGood`, `StrippedGood`, `DenyInheritedGood`, `AssignedGood`,
`RecalculatedGood`), and these to a handful of facts about the tables: implication is transitive
and never leads to row-level access, what implies a contradicting permission contradicts as well,
and contradiction is mutual but for `manage_asset`, which does not name `partial_submissions` and
is saved by implying `view_submissions`, which does (`ContradictionMutual`). The table lemmas are
the place to look when a permission is added to `Asset`. `PublicRowsAllowed` needs one more
conjunct (`PInv`): the public has no row-level access either, now and in the rows a copy may
restore. A grant checks the permission that is asked for and not those it implies; that these
are allowed too is a fact about the tables (`ImpliedTransitive`).

*Inheritance* is about depth and order. A request changes the rows of one asset, and then
`recalculate_descendants_perms()` goes down level by level, each asset taking what its
collection has at that moment. `HInv` says that every asset inherits no more than its collection
gives, and that the tree is `Nested`; a tree that shallow has no cycle, and nothing is below
the level recalculated last (`NestedIsShallow`, `DescendantsInherit`). Where nothing is
recalculated, the asset gives no less than before (`GivesNoLess`).

`RInv` is what the action properties need, with copies: `IInv`, a `Nested` tree, rows with
filters for whoever has row-level access (in the rows and in those a copy would restore,
`AllRestricted`), and that a copy in progress has changed nothing but its target
(`CopiesElsewhere`). From the latter follows what a rollback may undo: KoBoCAT is told nothing of
other assets. `KobocatComplete` itself is not an invariant (a copy that fails leaves KoBoCAT
behind), and what is proved is that no other step loses it.

**Exports.** `Kept` is the point: as long as an export is neither old, nor overtaken, nor one whose
removal was rolled back, its row refers to the file of the run that made it, and from the moment
it is written that file is there and whole, unless it is being removed, whether the row says so
already or only the run's copy of the row. It is inductive with `Own` (no row, removal or list
read by a run names another export's file), `Phases` (a run at work holds a copy that says
processing, what it marks as stuck is old), `Single` (of the runs of an export that none overtook,
one at most is past its claim, and none once the row is complete) and `Fresh` (exports and
deliveries still to come). *Synchronous exports*: `Serial` (one request has
the lock) and `Spaced` (whoever runs although there is a complete export began after that was
too old). *Imports*: one worker gets past the claim (`OneWorks`), and how far it
is tells which items are in their place (`Progress`). *Deliveries* need two arguments. Whatever
overlaps, a log, or an attempt's copy of one, plus the attempts that have sent the data and are
still to count it, is never more than what was sent (`Counted`), and what is failed was tried more
often than retries are made (`Failures`). While nobody died and nothing overlapped, the two are
equal, because one attempt at most is active and its copy is the log (`Exactly`).

**Files.** `PairedInv`: a request about to write holds an identity and a filename of its own,
and no file is there whose content it would keep (`Requested`). `AccessInv`: the ids
that are vouched for are those that were named, or among those that were asked for (`Vouching`);
what the user may act on now is part of the request's history (`Recorded`); and what is about to
be sent was all within the user's access at one moment of it (`Passing`), though two lookups with
two filters may have led to it.
`MediaInv` relates each worker's list to files as they are now, but for names that two files of
KPI have had together (`doubled`, which the command brings about): one live file bears a name
(`Single`); one that is flagged is in KoBoCAT with its content (`Stored`); a list has the deleted
files of a name before the live one, so that the name is free when that is sent (`Gathered`); and
a worker that knows of the file KoBoCAT has now has read the rows after it was sent, and does not
take it for an orphan (`Watched`).

**Processes.** `EnketoInv` says of each editor what the snapshot was made of at each stage
(`Fits`), with versions and keys that only grow (`Numbered`), and what was so at some moment of a
request that saves (`Recorded`): the text was there when it was found, and whoever passed the
check was allowed, or without access, since the request began. `JsonbInv` says of each cell what
it holds, given which of its columns are there and what was written last (`Cells`), and which
columns are there at each step of the command (`Progress`).

**Projects.** `SoloInv`: published versions are rows of `AssetVersion` in their order
(`Versioned`), a form bears a version of its content unless the edit was cut short (`Stamped`),
a mark was made by a publication (`DeployedWasPublished`), and the row, the request's copy and
KoBoCAT differ by what the request has done so far (`InOrder`). Given it, every step is a
step of Publication or a stutter under the refinement mapping. `TwoInv` has only types and
`Backed`: as long as KoBoCAT has no form, neither the row nor any copy of it knows of one.

`AccountsInv` is about who runs alone. A request that nobody overlapped is the only one at work
(`Company`) and everything in KoBoCAT is of its doing from its first step on, step by step
(`OnUser`, `OnRights`, `OnToken`, `OnProfile`); what is left when nobody is at work depends on
what was cut short or overlapped before (`UserLeft`, `MethodLeft`, `TokensLeft`, `BlanksLeft`).

`PullInv` is about a command that computes from what it has read while users change rows on
both sides. `RowsInv` is a lighter `Coherent` (who has a permission has what it implies, nobody but
the owner inherits); `ReadInv` and `FormInv` say that what was read is still so while the
command is undisturbed; `OfOne(u)` says of every user how KPI stands to KoBoCAT before the command
comes to them (`ToCome`), after (`SeenTo`) and meanwhile (`SeesTo`), and where rows come from
that KoBoCAT does not explain (`Explained`). `SettledInv` is the same after a command: everything
agrees, so that the next one finds nothing to do.

A proof cannot cite the theorems of an instance. This is why requests that overlap have lemmas of
their own (their names begin with `Two`), and why no theorem is about `RowsStayRight`, which
says of interleaved requests (an instance of AssetPermissions) what `RowsAlwaysCoherent`
and `NeverBothPartialAndFull` prove of the same steps.

**Only model-checked.** Liveness (`EverythingSettles`), which is out of the prover's reach like
fairness and ENABLED. The four properties of the run web: Search has recursive operators, with
which the provers cannot work, and MCWeb includes it. `RowsStayRight` and `BulkIsExact`, of
interleaved requests, and the refinement `AtomicCalls`, which needs that a recursion over sets in
any order computes the closed forms: an induction over the depth of calls that no installed prover can
make. Not proved yet: `CopyIsFaithful`, which needs what a copy has left behind after each of its rows;
`SyncAgrees`, which needs what each step of a synchronisation without interference has achieved,
beside `MediaInv`; and `SharingIsTold`, which joins lists, assignments and pages.

## What the code does not keep

Five disagreements with what the code's own documentation says have a run of their own
(`"findings"` in `PROJECT.json`): cloning permissions onto a collection does not reach the
assets in it; the in-place merge of filters widens another permission's filter; the housekeeping
of exports sets a completed export to ERROR; a user may keep `partial_submissions` without the row
that says what it restricts; pulling permissions from KoBoCAT purges those of a user whose
permissions were exchanged for others.

The fourth is the longest (partial_without_row, eight steps): somebody with row-level
access and a denial of `manage_asset` of their own loses an inherited `change_asset`. That is
denied, and with it `manage_asset` again; `assign_perm()` finds that this denial exists, and calls
`_update_partial_permissions()` before it returns (`object_permission.py:482`): without partial
permissions, that deletes the row with the filters.

Further properties one would expect and TLC refutes are stated at the end of their modules and
checked by no run; to see a counterexample, let the MC module define it for its `turn`, and add
the name to the configuration:

| Property | Module | What happens |
|---|---|---|
| `InheritedUnlessDenied` | AssetPermissions (PermissionsTree) | a denied permission that is granted and removed again is neither held nor denied until the next recalculation |
| `ListedOnlyIfHeld` | AssetPermissions (PermissionsTree) | `get_objects_for_user()` lists an asset whose inherited permission is denied |
| `RemovalsSucceed`, `CopyGivesNothingDenied`, `KobocatComplete` | AssetPermissions (PermissionsCopy) | a removal fails where it denies what is denied already; a copy grants what its source inherits and is denied; KoBoCAT keeps what a failed copy removed |
| `KobocatSound` | AssetPermissions (PermissionsCopy) | a grant of `partial_submissions` deletes contradictory rows with their queryset (`object_permission.py:504`), KoBoCAT keeps the unrestricted permission |
| `RowHasPartialGrant` | AssetPermissions (PermissionsCopy) | removing `view_asset` removes `partial_submissions` and leaves its row |
| `PartialEditorsMayAdd` | AssetPermissions (PermissionsCopy) | `add_submissions` can be removed from somebody who may edit some submissions |
| `BulkKeepsEditing` | PermissionRequests | the bulk endpoint removes the `add_submissions` that row-level editing needs (`asset.py:1071`) when it was not posted |
| `DeletedStaysDeleted`, `NoOrphanedFile` | Exports | `result.save()` writes the row of an export that was deleted while it ran; files stay behind |
| `OnlyCreatedIsRun` | Exports | of two deliveries whose status was read together both run, and the later writes PROCESSING over what the other began or completed |
| `CompleteHasFile` | Exports | a removal that deleted the file and then died or failed leaves a complete row without its file |
| `SameSettings` | SyncExports | the answer may have been generated before the settings were changed |
| `SuccessIsFinal`, `OneAttempt`, `EveryTryIsCounted`, `OneLog` | HookDelivery | two retries run at once, and the slower overwrites what the faster recorded, its try included; two early signals for one submission make two logs |
| `CollectionsHaveNoContent`, `ErrorChangesNothing`, `RenamesSurvive` | Imports | an archive of one file writes the content of a collection; what fails half-way stays; an import saves the whole row, and with it the name that was there when it began |
| `DeploysLatestVersion` | Deployments | an edit that is cut short between the row and the version is deployed under the number of the version before |
| `DeployKeepsContent`, `EditKeepsDeployment` | Deployments | one request's copy of the row overwrites another's fields |
| `NothingWithoutAccess`, `OnlyTheirsNow`, `VouchedIsAuthorised` | SubmissionAccess | a user whose access is revoked between the check and the lookup is not filtered at all; one whose filters are narrowed after the lookup changes what was found before; the token for resetting a validation status is made for another method |
| `ListedCanBeOpened`, `NoSearchCrashes`, `OrWidens`, `WordsMayBeginLikeKeywords` | Search | children of a subscribed collection that are not public are listed; `true` without a field is an error; `data_sharing__enabled` narrows an OR; `foo ORfoo` is a syntax error |
| `PurgedCameFromKobocat`, `MirrorRepopulates`, `HashTellsContent` | Reconcile | a purge deletes what KPI granted too; `--mirror-kpi` stops at the first user; a form that is replaced while it is imported is never noticed |
| `DirectFilesStay`, `DeletedIsNoticed` | MediaSync | a file that the command has announced and not yet created is removed as an orphan; one deleted while it is sent is flagged as synchronised |
| `ServesOnlyAllowed`, `ChangesAreAnnounced` | PairedData | an empty intersection of fields stands for all of them (`paired_data.py:93`); the hash is of the file made before |
| `AccessIsExpected` | Listings | the list, or a collection's page, fails on what is public and not discoverable (`asset.py:476`) |
| `FieldsCome` | Queries | an attribute of a reserved name is never among the fields |
| `ServesWholeFiles`, `NeverSeveral` | Attachments | an MP3 file is served while it is written; several files of one name are an error 500 |
| `UsersAreAlwaysThoseNamed`, `ListsStay` | Assignments | under another collation than C, permissions go to the wrong users; lists that cannot be merged grow with every post |
| `OpenCanBeSaved`, `KeyIsOfText` | EnketoSessions | opening any submission replaces the snapshot the first was opened with; a submission is read twice, and may change in between |
| `AllowedWhenReplaced`, `NoStrays` | EnketoSessions | permissions are revoked between the check and the call of KoBoCAT as the owner; two edits of one text pass the lookup before either is passed on, and KoBoCAT gets the second for a text that is gone |
| `WritesGoOn` | JsonbMigration | of encoded null characters in a row every other one is left: every write of the row fails until the trigger is dropped |
| `MfaIsKnown`, `TokensAlwaysAgree` | Accounts | saving the profile switches off a second factor that was switched on meanwhile; after a deletion that was cut short a new token is not copied |

Some properties that hold are stated with the exception the code makes. `CompleteIsWhole` and
`CompleteIsFinal` leave out exports old enough to pass for stuck (`old`: the finding stuck_export)
and those that one run claimed behind another's back (`overtaken`); the former also those whose
removal was rolled back after their file was deleted (`stripped`). `EverythingSettles` leaves out
`lost` exports (among them those whose data cannot be accessed: `import_export_task.py:132` uses
`msg` before it is defined) and deliveries of which an attempt died or overlapped with another.
`TriesAreCounted` is exact for those that did neither, and otherwise excludes only double counting;
`FailedAfterRetries` is about a submission with one log, `RedeliveryDoesNothing` about imports that
no two workers claimed together. `OnlyTheirs` leaves out
requests during which the user had neither row-level access nor the permission: there the code
filters nothing. `EditsReplaceWhatTheyRead` is about what was allowed at some moment of the request
(or an editor who lost all access between the checks, whom the second lets pass), not when KoBoCAT
replaces the submission. `InheritedFromParent` is about what others can read: not about the
rows in the middle of a copy's transaction. `KobocatStaysComplete` leaves out
requests that are undone, by a failed copy or a removal that fails
(`BadPermissionsException`: a denial of `partial_submissions` that is there already);
`RemovedIsGone` is about removals that do not. `CompleteIsWhole` of synchronous exports is about
those not older than the maximum age.
`StampedWithItsVersion` leaves out contents whose edit was cut short, `ImplementsPublication`
and `CompletedAgrees` are about requests one after another, `SyncAgrees` and `AccountsAreRight`
about synchronisations and requests that nobody overlapped (whatever was cut short or
overlapped before), `PullAgrees` about commands during which nobody changed anything,
`CollectionsHaveTheirLanguages` not about collections that a survey was taken out of,
`SameNames` not about names that collide.

## What is not modelled

* Interleavings *inside* two calls of `assign_perm()` or `remove_perm()` (READ COMMITTED without
  locks): a call is one step. The calls of different requests do interleave.
* Superusers, who pass every check of permissions (`has_perm()`): they ask for nothing that an
  owner could not ask for.
* More than two deliveries of the message of an export; failures of the broker other than
  delivering again.
* The per-request cache of permissions but for the reading of a user's rows (Listings);
  ownership transfer.
* `set_has_kpi_hooks()`, links for data collection and the mock backend; passwords, sessions,
  codes and LDAP; CRUD of hooks and `failures_reports()`.
* What formpack, pyxform, ffmpeg, S3, PostgreSQL's parser and MongoDB's other operators do.
* Reports, styles, downloads, tags, stars and the views of version 1 of the API where they only
  lay out what the modelled parts decide.
* One-off commands that run alone; `remove_duplicate_assetversions` cannot run on Python 3 (it
  takes the MD5 digest of a string).
* The user interface: rendering and calls of the API.

## Plan

Done: sharing; exports, imports and hooks; deployments with their abstract specification;
submissions, queries, attachments and edits; search; content and languages; media files and
paired data; commands; lists; accounts.

Proved: what the table under [proofs](#proofs) lists.

Next, in this order:

1. Ownership transfer and the permission cache of a request, composed with PermissionRequests.
2. `failures_reports()` and `set_has_kpi_hooks()`, composed with HookDelivery and Deployments.
3. Theorems about `SyncAgrees` and `CopyIsFaithful`, and, with the recursive operators of Search
   in a module that no proof reaches, about Content, Translations and PartialFilters.
4. Reports and the summary of assets.
