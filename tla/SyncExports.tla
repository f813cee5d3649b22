------------------------------ MODULE SyncExports ------------------------------
(***************************************************************************)
(* Synchronous exports: SynchronousExport.generate_or_return_existing()    *)
(* (kpi/models/import_export_task.py) as it is called by the `data` action *)
(* of kpi/views/v2/asset_export_settings.py.                               *)
(*                                                                         *)
(* There is one row per user, export settings and format, and the requests *)
(* for it take turns with SELECT FOR UPDATE.  What a request does while it *)
(* holds the lock is a transaction, which an exception or the death of the *)
(* process rolls back; the files in storage are not part of it.  Request r *)
(* generates the file r, if it generates one.                              *)
(***************************************************************************)
EXTENDS Integers, FiniteSets

CONSTANTS Requests,    \* requests for the same export
          MaxAge,      \* SYNCHRONOUS_EXPORT_CACHE_MAX_AGE
          Horizon,     \* the clock's bound
          Edits        \* how often the export settings are changed (a bound)

ASSUME SyncAssumption ==
  /\ MaxAge \in Nat /\ Horizon \in Nat /\ Edits \in Nat
  /\ {"nobody", "no file"} \cap Requests = {}

VARIABLES now,       \* the clock
          settings,  \* the version of the export settings
          row,       \* the row of SynchronousExport, as it is committed
          holder,    \* the request that has the row locked
          files,     \* the files in storage
          req        \* what every request is doing

syncVars == <<now, settings, row, holder, files, req>>

NoFile  == "no file"
Nobody  == "nobody"
Nowhere == [pc |-> "new", since |-> 0, data |-> 0, got |-> NoFile]

ExportRow ==
  [status : {"absent", "created", "complete", "error"}, date : 0..Horizon,
   data : 0..Edits, result : Requests \cup {NoFile}]

SyncTypeOK ==
  /\ now \in 0..Horizon /\ settings \in 0..Edits
  /\ row \in ExportRow
  /\ holder \in Requests \cup {Nobody}
  /\ files \subseteq Requests
  /\ req \in [Requests ->
       [pc : {"new", "insert", "lock", "run", "answer", "done"}, since : 0..Horizon,
        data : 0..Edits, got : Requests \cup {NoFile}]]

SyncInit ==
  /\ now = 0 /\ settings = 0
  /\ row = [status |-> "absent", date |-> 0, data |-> 0, result |-> NoFile]
  /\ holder = Nobody
  /\ files = {}
  /\ req = [r \in Requests |-> Nowhere]

Step(r, pc) == req' = [req EXCEPT ![r].pc = pc]

-----------------------------------------------------------------------------
(* The settings are loaded and the cut-off is taken: MaxAge before now.    *)
Arrive(r) ==
  /\ req[r].pc = "new"
  /\ req' = [req EXCEPT ![r] = [@ EXCEPT !.pc = "insert", !.since = now, !.data = settings]]
  /\ UNCHANGED <<now, settings, row, holder, files>>

(* get_or_create(): a row must exist before it can be locked.              *)
GetOrCreate(r) ==
  /\ req[r].pc = "insert"
  /\ row' = IF row.status = "absent"
            THEN [status |-> "created", date |-> now, data |-> req[r].data, result |-> NoFile]
            ELSE row
  /\ Step(r, "lock")
  /\ UNCHANGED <<now, settings, holder, files>>

(* With the lock: a complete export that is recent enough is returned.     *)
RecentStrictly(r) == row.status = "complete" /\ row.date > req[r].since - MaxAge

RecentNever(r) == FALSE

Recent(r) == row.status = "complete" /\ row.date >= req[r].since - MaxAge

ReturnExisting(r) ==
  /\ req[r].pc = "lock" /\ holder = Nobody
  /\ Recent(r)
  /\ req' = [req EXCEPT ![r].pc = "answer", ![r].got = row.result]
  /\ UNCHANGED <<now, settings, row, holder, files>>

(* Otherwise its file is deleted, and it is generated anew: from here on   *)
(* `since` is the date of the new export ...                               *)
Regenerate(r) ==
  /\ req[r].pc = "lock" /\ holder = Nobody
  /\ ~Recent(r)
  /\ holder' = r
  /\ files' = files \ {row.result}
  /\ req' = [req EXCEPT ![r].pc = "run", ![r].since = now]
  /\ UNCHANGED <<now, settings, row>>

(* ... and committed, complete or with the exception that run() caught     *)
(* before or after a file was made.                                        *)
Commit(r, status, file) ==
  /\ req[r].pc = "run"
  /\ row' = [status |-> status, date |-> req[r].since, data |-> req[r].data, result |-> file]
  /\ files' = files \cup ({file} \ {NoFile})
  /\ holder' = Nobody
  /\ req' = [req EXCEPT ![r].pc = IF status = "complete" THEN "answer" ELSE "done", ![r].got = file]
  /\ UNCHANGED <<now, settings>>

(* InaccessibleData escapes from run(), or the process is killed: before   *)
(* or after a file was made.                                               *)
Rollback(r) ==
  /\ req[r].pc = "run"
  /\ holder' = Nobody
  /\ files' \in {files, files \cup {r}}
  /\ Step(r, "done")
  /\ UNCHANGED <<now, settings, row>>

(* The file is sent.                                                       *)
Answer(r) ==
  /\ req[r].pc = "answer"
  /\ Step(r, "done")
  /\ UNCHANGED <<now, settings, row, holder, files>>

(* PATCH of the export settings; the clock.                                *)
Edit == settings < Edits /\ settings' = settings + 1 /\ UNCHANGED <<now, row, holder, files, req>>
Tick == now < Horizon /\ now' = now + 1 /\ UNCHANGED <<settings, row, holder, files, req>>

SyncNext ==
  \/ \E r \in Requests :
       \/ Arrive(r) \/ GetOrCreate(r) \/ ReturnExisting(r) \/ Regenerate(r)
       \/ Commit(r, "complete", r) \/ Commit(r, "error", r) \/ Commit(r, "error", NoFile)
       \/ Rollback(r) \/ Answer(r)
  \/ Edit
  \/ Tick

SyncSpec == SyncInit /\ [][SyncNext]_syncVars

-----------------------------------------------------------------------------
(* As long as a complete export may be returned to somebody who asks now,  *)
(* its file is there: no rolled-back run and no slower request that took   *)
(* its cut-off earlier has deleted it.                                     *)
RecentHasFile ==
  row.status = "complete" /\ row.date >= now - MaxAge => row.result \in files

(* A complete export is replaced only when it is older than the settings   *)
(* allow, however long requests waited for the lock: what a user asks for  *)
(* again and again is generated no more than once per MaxAge.              *)
RunsAreSpaced ==
  [][row.status = "complete" /\ row' # row => row'.date - row.date > MaxAge]_syncVars

-----------------------------------------------------------------------------
(***************************************************************************)
(* What one would expect and TLC refutes: no run checks these.             *)
(***************************************************************************)

(* "will return the last export generated with the same settings unless it *)
(* is older than this value": the export returned was made with the        *)
(* settings the request was made with.                                     *)
SameSettings ==
  \A r \in Requests : req[r].pc = "answer" /\ req[r].got = row.result => row.data = req[r].data
=============================================================================
