------------------------------- MODULE Exports -------------------------------
(***************************************************************************)
(* Asynchronous exports (kpi/models/import_export_task.py): the rows of    *)
(* ExportTask of one user for one form, the files in storage, the runs of  *)
(* the Celery task of every export, and the requests that delete exports.  *)
(*                                                                         *)
(* Exports are numbered in the order of date_created.  Celery may deliver  *)
(* a message again (Redis restores what is not acknowledged in time): the  *)
(* n-th delivery of the message of export e is the run <<e, n>>, and the   *)
(* file that it makes is called <<e, n>> as well.  A run keeps its own     *)
(* copy of the row (`self`), and what it saves depends on how it saves it: *)
(* save(update_fields=...) raises when the row is gone, a plain save()     *)
(* writes every field and inserts a row that is gone.  run() catches the   *)
(* exceptions of _run_task() and no others.                                *)
(***************************************************************************)
EXTENDS Naturals, FiniteSets

CONSTANTS Count,          \* how many exports are requested (a bound)
          MaxDeliveries,  \* how often a message is delivered (a bound)
          MaxRuns,        \* how many deliveries there are in all (a bound)
          Limit,          \* MAXIMUM_EXPORTS_PER_USER_PER_FORM
          MaxDeletions    \* how many are being deleted at one time (a bound)

Exports    == 1..Count
Deliveries == 1..MaxDeliveries
Runs       == Exports \X Deliveries

VARIABLES row,        \* the database
          delivered,  \* how often the message of each export was delivered
          old,        \* those that are older than any export may take
          task,       \* what each run is doing
          files,      \* storage: what is there of the file of each run
          deletion,   \* DELETE requests in progress
          lost,       \* history: the exports that a worker died of, or whose data
                      \* the user could not access
          stripped,   \* history: those whose removal was rolled back after their
                      \* file was deleted
          overtaken   \* history: those claimed by a run after another had claimed
                      \* or marked them since it looked

exportVars ==
  <<row, delivered, old, task, files, deletion, lost, stripped, overtaken>>

CREATED    == "created"
PROCESSING == "processing"
COMPLETE   == "complete"
ERROR      == "error"

Gone   == [status |-> "gone"]
NoFile == <<0, 0>>
None   == [pc |-> "none"]

Status == {CREATED, PROCESSING, COMPLETE, ERROR}
Result == Runs \cup {NoFile}
Row    == [status : Status, result : Result]
File   == {"none", "empty", "whole"}

\* `read`: what a query of the housekeeping has returned, export by export.
Task ==
  [pc : {"queued", "claim", "clean", "mark", "open", "write", "touch", "trim",
         "unlink", "drop", "finish"},
   status : Status, read : SUBSET (Exports \X Result)]

ExportsTypeOK ==
  /\ row \in [Exports -> Row \cup {Gone}]
  /\ delivered \in [Exports -> 0..MaxDeliveries]
  /\ old \subseteq Exports
  /\ task \in [Runs -> Task \cup {None}]
  /\ files \in [Runs -> File]
  /\ deletion \in [Exports -> [pc : {"file", "row"}, result : Result] \cup {None}]
  /\ lost \subseteq Exports /\ stripped \subseteq Exports /\ overtaken \subseteq Exports

There(e)  == row[e] # Gone
Unlink(R) == [r \in Runs |-> IF r \in R THEN "none" ELSE files[r]]

ExportsInit ==
  /\ row = [e \in Exports |-> Gone]
  /\ delivered = [e \in Exports |-> 0] /\ old = {}
  /\ task = [r \in Runs |-> None]
  /\ files = [r \in Runs |-> "none"]
  /\ deletion = [e \in Exports |-> None]
  /\ lost = {} /\ stripped = {} /\ overtaken = {}

-----------------------------------------------------------------------------
Queued == [pc |-> "queued", status |-> CREATED, read |-> {}]

MayRun == Cardinality({r \in Runs : r[2] <= delivered[r[1]]}) < MaxRuns

(* POST on exports: the row, then export_in_background.delay().            *)
Create(e) ==
  /\ delivered[e] = 0 /\ MaxDeliveries > 0 /\ MayRun
  /\ \A f \in 1..(e - 1) : delivered[f] > 0
  /\ delivered' = [delivered EXCEPT ![e] = 1]
  /\ row' = [row EXCEPT ![e] = [status |-> CREATED, result |-> NoFile]]
  /\ task' = [task EXCEPT ![<<e, 1>>] = Queued]
  /\ UNCHANGED <<old, files, deletion, lost, stripped, overtaken>>

(* The message is delivered once more, whatever became of the runs before. *)
Redeliver(e) ==
  /\ delivered[e] \in 1..(MaxDeliveries - 1)
  /\ MayRun
  /\ delivered' = [delivered EXCEPT ![e] = @ + 1]
  /\ task' = [task EXCEPT ![<<e, delivered'[e]>>] = Queued]
  /\ UNCHANGED <<row, old, files, deletion, lost, stripped, overtaken>>

(* Time passes: four times CELERY_TASK_TIME_LIMIT since export e.          *)
Age(e) ==
  /\ delivered[e] > 0
  /\ e \notin old
  /\ \A f \in 1..(e - 1) : f \in old
  /\ old' = old \cup {e}
  /\ UNCHANGED <<row, delivered, task, files, deletion, lost, stripped, overtaken>>

-----------------------------------------------------------------------------
(* A run of the task of export e, on some worker.                          *)
At(r, pc)       == task[r].pc = pc
GoTo(r, pc)     == task' = [task EXCEPT ![r].pc = pc]
Reads(r, pc, S) ==
  task' = [task EXCEPT ![r].pc = pc, ![r].read = {<<f, row[f].result>> : f \in S}]
Done(r, pc, status) ==
  task' = [task EXCEPT ![r] = [pc |-> pc, status |-> status, read |-> {}]]
Leave(r)        == task' = [task EXCEPT ![r] = None]
HasRead(r, f)   == \E x \in task[r].read : x[1] = f

(* export_in_background() loads the row, and run() reads its status once   *)
(* more, without a lock: only what was just created is run.  (A mutant     *)
(* starts over, as a retry would.)                                         *)
ReceiveAgain(r) ==
  /\ At(r, "queued")
  /\ IF There(r[1]) THEN Done(r, "claim", row[r[1]].status) ELSE Leave(r)
  /\ UNCHANGED <<row, delivered, old, files, deletion, lost, stripped, overtaken>>

Receive(r) ==
  /\ At(r, "queued")
  /\ IF row[r[1]].status = CREATED THEN Done(r, "claim", CREATED) ELSE Leave(r)
  /\ UNCHANGED <<row, delivered, old, files, deletion, lost, stripped, overtaken>>

(* The status is written, whatever it is by now, unless the row is gone.   *)
(* (A mutant does not notice that it is.)                                  *)
Overtakes(r) == {e \in {r[1]} : row[e].status # task[r].status}

ClaimRegardless(r) ==
  /\ At(r, "claim")
  /\ row' = [row EXCEPT ![r[1]].status = PROCESSING]
  /\ Done(r, "clean", PROCESSING)
  /\ overtaken' = overtaken \cup Overtakes(r)
  /\ UNCHANGED <<delivered, old, files, deletion, lost, stripped>>

Claim(r) ==
  /\ At(r, "claim")
  /\ IF There(r[1])
     THEN /\ row' = [row EXCEPT ![r[1]].status = PROCESSING]
          /\ Done(r, "clean", PROCESSING)
          /\ overtaken' = overtaken \cup Overtakes(r)
     ELSE Leave(r) /\ UNCHANGED <<row, overtaken>>
  /\ UNCHANGED <<delivered, old, files, deletion, lost, stripped>>

(* log_and_mark_stuck_as_errored(): what is old and not finished is read,  *)
(* its own row included ...  (A mutant forgets about the age.)             *)
StuckOfAnyAge == {f \in Exports : There(f) /\ row[f].status \notin {COMPLETE, ERROR}}

Stuck == {f \in old : There(f) /\ row[f].status \notin {COMPLETE, ERROR}}

FindStuck(r) ==
  /\ At(r, "clean")
  /\ Reads(r, "mark", Stuck)
  /\ UNCHANGED <<row, delivered, old, files, deletion, lost, stripped, overtaken>>

(* ... and written as it was read, with another status: a plain save().    *)
MarkStuck(r) ==
  /\ At(r, "mark")
  /\ row' = [f \in Exports |->
       IF HasRead(r, f)
       THEN [status |-> ERROR, result |-> (CHOOSE x \in task[r].read : x[1] = f)[2]]
       ELSE row[f]]
  /\ Done(r, "open", task[r].status)
  /\ UNCHANGED <<delivered, old, files, deletion, lost, stripped, overtaken>>

(* get_export_object() may raise InaccessibleData, whose handler raises in *)
(* its turn (`msg` is not defined), and the run is over ...                *)
Refuse(r) ==
  /\ At(r, "open")
  /\ Leave(r)
  /\ lost' = lost \cup {r[1]}
  /\ UNCHANGED <<row, delivered, old, files, deletion, stripped, overtaken>>

(* ... or else self.result.save() makes an empty file under a new name,    *)
(* and saves all of the row with it.                                       *)
Prepare(r) ==
  /\ At(r, "open")
  /\ GoTo(r, "write")
  /\ files' = [files EXCEPT ![r] = "empty"]
  /\ row' = [row EXCEPT ![r[1]] = [status |-> task[r].status, result |-> r]]
  /\ UNCHANGED <<delivered, old, deletion, lost, stripped, overtaken>>

Write(r) ==
  /\ At(r, "write")
  /\ GoTo(r, "touch")
  /\ files' = [files EXCEPT ![r] = "whole"]
  /\ UNCHANGED <<row, delivered, old, deletion, lost, stripped, overtaken>>

(* save(update_fields=['last_submission_time'])                            *)
Touch(r) ==
  /\ At(r, "touch")
  /\ IF There(r[1]) THEN GoTo(r, "trim") ELSE Done(r, "finish", ERROR)
  /\ UNCHANGED <<row, delivered, old, files, deletion, lost, stripped, overtaken>>

(* remove_excess(), whatever the status of what it removes: one query, the *)
(* files, and, when the transaction commits, the rows.                     *)
Excess == {f \in Exports : There(f) /\ Cardinality({g \in Exports : There(g) /\ g > f}) >= Limit}

FindExcess(r) ==
  /\ At(r, "trim")
  /\ Reads(r, "unlink", Excess)
  /\ UNCHANGED <<row, delivered, old, files, deletion, lost, stripped, overtaken>>

UnlinkExcess(r) ==
  /\ At(r, "unlink")
  /\ files' = Unlink({x[2] : x \in task[r].read})
  /\ GoTo(r, "drop")
  /\ UNCHANGED <<row, delivered, old, deletion, lost, stripped, overtaken>>

RemoveExcess(r) ==
  /\ At(r, "drop")
  /\ row' = [f \in Exports |-> IF HasRead(r, f) THEN Gone ELSE row[f]]
  /\ Done(r, "finish", COMPLETE)
  /\ UNCHANGED <<delivered, old, files, deletion, lost, stripped, overtaken>>

(* Anything else that _run_task() raises, the soft time limit included.    *)
(* The rows that were to be removed are there again, their files are not.  *)
RolledBack(r) == IF At(r, "drop") THEN {x[1] : x \in task[r].read} ELSE {}

(* (A mutant does not catch it.)                                           *)
RaiseUncaught(r) ==
  /\ task[r].pc \in {"clean", "mark", "open", "write", "touch", "trim", "unlink", "drop"}
  /\ Leave(r)
  /\ stripped' = stripped \cup RolledBack(r)
  /\ UNCHANGED <<row, delivered, old, files, deletion, lost, overtaken>>

Raise(r) ==
  /\ task[r].pc \in {"clean", "mark", "open", "write", "touch", "trim", "unlink", "drop"}
  /\ Done(r, "finish", ERROR)
  /\ stripped' = stripped \cup RolledBack(r)
  /\ UNCHANGED <<row, delivered, old, files, deletion, lost, overtaken>>

(* The last save() of run() raises when the row is gone.  (A mutant saves  *)
(* what is gone all the same.)                                             *)
FinishRegardless(r) ==
  /\ At(r, "finish")
  /\ row' = [row EXCEPT ![r[1]] = [status |-> task[r].status, result |-> r]]
  /\ Leave(r)
  /\ UNCHANGED <<delivered, old, files, deletion, lost, stripped, overtaken>>

Finish(r) ==
  /\ At(r, "finish")
  /\ row' = IF There(r[1]) THEN [row EXCEPT ![r[1]].status = task[r].status] ELSE row
  /\ Leave(r)
  /\ UNCHANGED <<delivered, old, files, deletion, lost, stripped, overtaken>>

(* The worker is killed: out of memory, or by the hard time limit.         *)
Crash(r) ==
  /\ task[r].pc \notin {"none", "queued"}
  /\ Leave(r)
  /\ lost' = lost \cup {r[1]}
  /\ stripped' = stripped \cup RolledBack(r)
  /\ UNCHANGED <<row, delivered, old, files, deletion, overtaken>>

-----------------------------------------------------------------------------
(* DELETE of an export: the row is fetched, then its file is deleted, then *)
(* the row.  (One that dies in between takes no further step, and holds    *)
(* one of MaxDeletions for good.)                                          *)
FetchExport(e) ==
  /\ deletion[e] = None /\ Cardinality({f \in Exports : deletion[f] # None}) < MaxDeletions
  /\ There(e)
  /\ deletion' = [deletion EXCEPT ![e] = [pc |-> "file", result |-> row[e].result]]
  /\ UNCHANGED <<row, delivered, old, task, files, lost, stripped, overtaken>>

DeleteFile(e) ==
  /\ deletion[e].pc = "file"
  /\ files' = Unlink({deletion[e].result})
  /\ deletion' = [deletion EXCEPT ![e].pc = "row"]
  /\ UNCHANGED <<row, delivered, old, task, lost, stripped, overtaken>>

DeleteRow(e) ==
  /\ deletion[e].pc = "row"
  /\ row' = [row EXCEPT ![e] = Gone]
  /\ deletion' = [deletion EXCEPT ![e] = None]
  /\ UNCHANGED <<delivered, old, task, files, lost, stripped, overtaken>>

-----------------------------------------------------------------------------
Work(r) ==
  \/ Receive(r) \/ Claim(r) \/ FindStuck(r) \/ MarkStuck(r)
  \/ Refuse(r) \/ Prepare(r) \/ Write(r) \/ Touch(r)
  \/ FindExcess(r) \/ UnlinkExcess(r) \/ RemoveExcess(r) \/ Raise(r) \/ Finish(r)

ExportsNext ==
  \/ \E r \in Runs : Work(r) \/ Crash(r)
  \/ \E e \in Exports :
       \/ Create(e) \/ Redeliver(e) \/ Age(e)
       \/ FetchExport(e) \/ DeleteFile(e) \/ DeleteRow(e)

ExportsSpec == ExportsInit /\ [][ExportsNext]_exportVars

(* Workers take what is queued, and go on with what they have taken.       *)
FairExportsSpec == ExportsSpec /\ WF_exportVars(\E r \in Runs : Work(r))

-----------------------------------------------------------------------------
HasFile(e, S) == row[e].result \in Runs /\ files[row[e].result] \in S

Removing(e) ==
  \/ deletion[e].pc = "row"
  \/ \E r \in Runs : At(r, "drop") /\ HasRead(r, e)

(* An export that is complete can be downloaded, and all of it, unless     *)
(* somebody began to remove it: nothing that the housekeeping of other     *)
(* exports, a DELETE that began earlier or a message delivered again does  *)
(* to rows and files takes its file away.  `stripped` are those whose      *)
(* removal got no further than their file, like those that are Removing.   *)
(* Two cases are left out: an export old enough to pass for stuck, and one *)
(* whose status a second run wrote after another had written it, having    *)
(* read it before.                                                         *)
CompleteIsWhole ==
  \A e \in Exports \ (old \cup stripped \cup overtaken) :
    row[e].status = COMPLETE /\ ~Removing(e) => HasFile(e, {"whole"})

(* Nor does it start over, or become an error, in the same two cases but   *)
(* no other.                                                               *)
CompleteIsFinal ==
  [][\A e \in Exports \ (old \cup overtaken') : row[e].status = COMPLETE =>
       row'[e].status \in {COMPLETE, "gone"}]_exportVars

(* Whatever its age: the housekeeping sets to ERROR what has "been in an   *)
(* incomplete state for too long", never what is complete.                 *)
OnlyIncompleteMarked ==
  [][\A r \in Runs, e \in Exports :
       MarkStuck(r) /\ row[e].status = COMPLETE => row'[e].status = COMPLETE]_exportVars

(* An export does not stay in the queue or in progress for ever, unless a  *)
(* worker dies of it or its data cannot be accessed.                       *)
Unsettled == \E e \in Exports : row[e].status = CREATED
Settled   == \A e \in Exports : row[e].status \in {CREATED, PROCESSING} => e \in lost

EveryExportSettles == Unsettled ~> Settled

-----------------------------------------------------------------------------
(***************************************************************************)
(* What one would expect and TLC refutes: no run checks these.             *)
(***************************************************************************)

(* "Only recently created {}s can be executed": of two workers that read   *)
(* the status together, the later takes what the other has begun, or even  *)
(* completed, back to PROCESSING.                                          *)
OnlyCreatedIsRun ==
  [][\A r \in Runs : Claim(r) /\ There(r[1]) => row[r[1]].status = CREATED]_exportVars

(* What is complete has its file, whoever deleted it and died over it.     *)
CompleteHasFile ==
  \A e \in Exports : row[e].status = COMPLETE /\ ~Removing(e) => HasFile(e, {"empty", "whole"})

(* "Deletes current export task": a deleted export does not come back.     *)
DeletedStaysDeleted ==
  [][\A e \in Exports : delivered[e] > 0 /\ row[e] = Gone => row'[e] = Gone]_exportVars

(* delete() is "removing exported file from storage": when nothing is      *)
(* going on, every file belongs to an export.                              *)
NoOrphanedFile ==
  (\A e \in Exports : deletion[e] = None) /\ (\A r \in Runs : task[r] = None) =>
    \A r \in Runs : files[r] # "none" => There(r[1]) /\ row[r[1]].result = r
=============================================================================
