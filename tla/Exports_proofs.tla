--------------------------- MODULE Exports_proofs ---------------------------
(***************************************************************************)
(* What is proved of Exports, for every number of exports, of deliveries   *)
(* of their messages and of rows that are kept: a complete export has a    *)
(* file that is whole, and stays complete until it is gone.  The exports   *)
(* run beside the rest of MCBackground.                                    *)
(*                                                                         *)
(* CompleteIsWhole is not inductive: a row becomes complete in a step that *)
(* no longer looks at the file.  What carries it is `Kept`: from the write *)
(* on, as long as the row may become or is complete and no-one is about to *)
(* remove it, the row names the file of the run that wrote it, and the     *)
(* file is there and whole.  That takes `Single` (of the runs of an export *)
(* that nobody overtook, one works, and none once it is complete), `Own`   *)
(* (a run that removes excess files removes those of the rows it read),    *)
(* `Phases` (what a run is doing tells what it will save) and `Fresh`      *)
(* (what is not requested yet has no run).                                 *)
(***************************************************************************)
EXTENDS MCBackground, TLAPS

(* Exports not requested yet: no row, nobody deletes them; and a message   *)
(* not delivered yet has no run.                                           *)
Fresh ==
  /\ \A e \in E!Exports : delivered[e] = 0 =>
       exportRow[e] = E!Gone /\ deletion[e] = E!None /\ e \notin old
  /\ \A r \in E!Runs : r[2] > delivered[r[1]] => task[r] = E!None

(* An export's row, a deletion in progress and what a run has read name no *)
(* files but the export's own.                                             *)
OwnAt(e) ==
  /\ E!There(e) => exportRow[e].result = E!NoFile \/ exportRow[e].result[1] = e
  /\ deletion[e] # E!None => deletion[e].result = E!NoFile \/ deletion[e].result[1] = e

ReadsOwn(r) ==
  task[r] # E!None => \A x \in task[r].read : x[2] = E!NoFile \/ x[2][1] = x[1]

Own == (\A e \in E!Exports : OwnAt(e)) /\ (\A r \in E!Runs : ReadsOwn(r))

(* What a run does between its claim and its end.                          *)
Busy == {"clean", "mark", "open", "write", "touch", "trim", "unlink", "drop"}

(* A run's copy of the row says created until it claims it, and processing *)
(* while it works; and it marks as stuck only what is old.                 *)
PhaseAt(r) ==
  /\ task[r].pc = "claim" => task[r].status = "created"
  /\ task[r].pc \in Busy => task[r].status = "processing"
  /\ task[r].pc = "finish" => task[r].status \in {"complete", "error"}
  /\ task[r].pc = "mark" => \A x \in task[r].read : x[1] \in old

Phases == \A r \in E!Runs : PhaseAt(r)

(* A run that has claimed its export.                                      *)
Past(r) == task[r].pc \in Busy \cup {"finish"}

(* Nobody works on an export that is still to be claimed; and unless one   *)
(* run overtook another, one works at most, and none once it is complete.  *)
SingleAt(e) ==
  /\ exportRow[e].status = "created" => \A r \in E!Runs : r[1] = e => ~Past(r)
  /\ e \notin overtaken =>
       /\ \A r, s \in E!Runs : r[1] = e /\ s[1] = e /\ Past(r) /\ Past(s) => r = s
       /\ exportRow[e].status = "complete" => \A r \in E!Runs : r[1] = e => ~Past(r)

Single == \A e \in E!Exports : SingleAt(e)

(* A run that has written its file, and one that has at least made it.     *)
Wrote(r) ==
  \/ task[r].pc \in {"touch", "trim", "unlink", "drop"}
  \/ task[r].pc = "finish" /\ task[r].status = "complete"

Made(r) == task[r].pc = "write" \/ Wrote(r)

(* The row names the file of the run that made it, and once written it is  *)
(* there and whole, unless the export is being removed; and so it is when  *)
(* the export is complete.                                                 *)
KeptAt(e) ==
  e \notin old \cup stripped \cup overtaken /\ E!There(e) =>
    /\ \A r \in E!Runs : r[1] = e /\ Made(r) =>
         exportRow[e].result = r /\ (Wrote(r) /\ ~E!Removing(e) => exportFiles[r] = "whole")
    /\ exportRow[e].status = "complete" /\ ~E!Removing(e) => E!HasFile(e, {"whole"})

Kept == \A e \in E!Exports : KeptAt(e)

(* The inductive invariant.                                                *)
ExportsInv == E!ExportsTypeOK /\ Fresh /\ Own /\ Phases /\ Single /\ Kept

(* The program counters of a run.                                          *)
Pcs == {"queued", "claim", "clean", "mark", "open", "write", "touch", "trim", "unlink",
        "drop", "finish"}

(* A run is a delivery of the message of an export.                        *)
LEMMA RunParts ==
  /\ \A r \in E!Runs : /\ r[1] \in E!Exports /\ r[2] \in E!Deliveries /\ r = <<r[1], r[2]>>
                       /\ r # E!NoFile
  /\ \A e \in E!Exports, n \in E!Deliveries :
       <<e, n>> \in E!Runs /\ <<e, n>>[1] = e /\ <<e, n>>[2] = n
  /\ E!NoFile \notin E!Runs
BY BoundsAssumption DEF E!Runs, E!Exports, E!Deliveries, E!NoFile

(* How a run moves on keeps the type of task ...                           *)
LEMMA Running ==
  ASSUME E!ExportsTypeOK, NEW r \in E!Runs, task[r].pc # "none"
  PROVE  /\ task[r] \in E!Task
         /\ \A pc \in Pcs : E!GoTo(r, pc) =>
              task' \in [E!Runs -> E!Task \cup {E!None}]
         /\ \A pc \in Pcs, s \in E!Status : E!Done(r, pc, s) =>
              task' \in [E!Runs -> E!Task \cup {E!None}]
         /\ E!Leave(r) => task' \in [E!Runs -> E!Task \cup {E!None}]
         /\ \A pc \in Pcs, S \in SUBSET E!Exports :
              (\A f \in S : E!There(f)) /\ E!Reads(r, pc, S) =>
                 task' \in [E!Runs -> E!Task \cup {E!None}]
<1>1. task[r] \in E!Task
  BY DEF E!ExportsTypeOK, E!None
<1>2. ASSUME NEW pc \in Pcs, E!GoTo(r, pc) PROVE task' \in [E!Runs -> E!Task \cup {E!None}]
  BY <1>1, <1>2 DEF E!GoTo, E!ExportsTypeOK, E!Task, Pcs
<1>3. ASSUME NEW pc \in Pcs, NEW s \in E!Status, E!Done(r, pc, s)
      PROVE  task' \in [E!Runs -> E!Task \cup {E!None}]
  BY <1>1, <1>3 DEF E!Done, E!ExportsTypeOK, E!Task, Pcs
<1>4. E!Leave(r) => task' \in [E!Runs -> E!Task \cup {E!None}]
  BY DEF E!Leave, E!ExportsTypeOK
<1>5. ASSUME NEW pc \in Pcs, NEW S \in SUBSET E!Exports, \A f \in S : E!There(f), E!Reads(r, pc, S)
      PROVE  task' \in [E!Runs -> E!Task \cup {E!None}]
  <2>1. \A f \in S : exportRow[f].result \in E!Result
    BY <1>5 DEF E!There, E!ExportsTypeOK, E!Row
  <2>2. {<<f, exportRow[f].result>> : f \in S} \in SUBSET (E!Exports \X E!Result)
    BY <2>1
  <2>3. [task[r] EXCEPT !.pc = pc, !.read = {<<f, exportRow[f].result>> : f \in S}] \in E!Task
    BY <1>1, <2>2 DEF E!Task, Pcs
  <2>4. task' = [task EXCEPT ![r] =
                   [task[r] EXCEPT !.pc = pc, !.read = {<<f, exportRow[f].result>> : f \in S}]]
    BY <1>5 DEF E!Reads, E!ExportsTypeOK
  <2>5. QED
    BY <2>3, <2>4 DEF E!ExportsTypeOK
<1>6. QED
  BY <1>1, <1>2, <1>3, <1>4, <1>5

(* ... every change of a row the type of row ...                           *)
LEMMA RowChanges ==
  ASSUME E!ExportsTypeOK, NEW e \in E!Exports
  PROVE  /\ E!There(e) => exportRow[e] \in E!Row
         /\ \A s \in E!Status : E!There(e) =>
              [exportRow EXCEPT ![e].status = s] \in [E!Exports -> E!Row \cup {E!Gone}]
         /\ \A s \in E!Status, f \in E!Result :
              [exportRow EXCEPT ![e] = [status |-> s, result |-> f]]
                 \in [E!Exports -> E!Row \cup {E!Gone}]
         /\ [exportRow EXCEPT ![e] = E!Gone] \in [E!Exports -> E!Row \cup {E!Gone}]
<1>1. E!There(e) => exportRow[e] \in E!Row
  BY DEF E!ExportsTypeOK, E!There
<1>2. \A s \in E!Status : E!There(e) => [exportRow[e] EXCEPT !.status = s] \in E!Row
  BY <1>1 DEF E!Row
<1>3. \A s \in E!Status, f \in E!Result : [status |-> s, result |-> f] \in E!Row
  BY DEF E!Row
<1>4. QED
  BY <1>1, <1>2, <1>3 DEF E!ExportsTypeOK

(* ... and every change of a file, or of several, the type of files.       *)
LEMMA FileChanges ==
  ASSUME E!ExportsTypeOK
  PROVE  /\ \A r \in E!Runs : \A v \in E!File :
              /\ [exportFiles EXCEPT ![r] = v] \in [E!Runs -> E!File]
              /\ [exportFiles EXCEPT ![r] = v][r] = v
              /\ \A s \in E!Runs \ {r} : [exportFiles EXCEPT ![r] = v][s] = exportFiles[s]
         /\ \A R : /\ E!Unlink(R) \in [E!Runs -> E!File]
                   /\ \A r \in E!Runs \ R : E!Unlink(R)[r] = exportFiles[r]
BY DEF E!ExportsTypeOK, E!Unlink, E!File

(* Every step keeps the types.                                             *)
LEMMA ExportTypes ==
  ASSUME E!ExportsTypeOK, E!ExportsNext
  PROVE  E!ExportsTypeOK'
<1> DEFINE RowOK == exportRow' \in [E!Exports -> E!Row \cup {E!Gone}]
           TaskOK == task' \in [E!Runs -> E!Task \cup {E!None}]
           RestOK == /\ delivered' \in [E!Exports -> 0..MaxDeliveries]
                     /\ old' \subseteq E!Exports
                     /\ exportFiles' \in [E!Runs -> E!File]
                     /\ deletion' \in [E!Exports ->
                          [pc : {"file", "row"}, result : E!Result] \cup {E!None}]
                     /\ lost' \subseteq E!Exports
                     /\ stripped' \subseteq E!Exports
                     /\ overtaken' \subseteq E!Exports
<1>0. RowOK /\ TaskOK /\ RestOK => E!ExportsTypeOK'
  BY DEF E!ExportsTypeOK
<1> HIDE DEF RowOK, TaskOK, RestOK
<1>a. /\ {"created", "processing", "complete", "error"} = E!Status
      /\ E!CREATED = "created" /\ E!PROCESSING = "processing"
      /\ E!COMPLETE = "complete" /\ E!ERROR = "error"
  BY DEF E!Status, E!CREATED, E!PROCESSING, E!COMPLETE, E!ERROR
<1>b. E!Queued \in E!Task
  BY <1>a DEF E!Task, E!Queued
<1>c. {"none", "empty", "whole"} = E!File
  BY DEF E!File
<1>1. ASSUME NEW e \in E!Exports, E!Create(e) PROVE E!ExportsTypeOK'
  <2>1. 1 \in E!Deliveries /\ 1 \in 0..MaxDeliveries
    BY <1>1, BoundsAssumption DEF E!Create, E!Deliveries
  <2>2. TaskOK
    BY <1>1, <1>b, <2>1, RunParts DEF TaskOK, E!Create, E!ExportsTypeOK
  <2>4. RowOK
    BY <1>1, <1>a, RowChanges DEF RowOK, E!Create, E!Result
  <2>6. RestOK
    BY <1>1, <2>1 DEF RestOK, E!Create, E!ExportsTypeOK
  <2>7. QED
    BY <1>0, <2>2, <2>4, <2>6
<1>2. ASSUME NEW e \in E!Exports, E!Redeliver(e) PROVE E!ExportsTypeOK'
  <2>1. /\ delivered[e] + 1 \in E!Deliveries /\ delivered[e] + 1 \in 0..MaxDeliveries
        /\ delivered' = [delivered EXCEPT ![e] = delivered[e] + 1]
        /\ delivered'[e] = delivered[e] + 1
    BY <1>2, BoundsAssumption DEF E!Redeliver, E!Deliveries, E!ExportsTypeOK
  <2>2. TaskOK
    BY <1>2, <1>b, <2>1, RunParts DEF TaskOK, E!Redeliver, E!ExportsTypeOK
  <2>4. RowOK
    BY <1>2 DEF RowOK, E!Redeliver, E!ExportsTypeOK
  <2>6. RestOK
    BY <1>2, <2>1 DEF RestOK, E!Redeliver, E!ExportsTypeOK
  <2>7. QED
    BY <1>0, <2>2, <2>4, <2>6
<1>3. ASSUME NEW e \in E!Exports, E!Age(e) PROVE E!ExportsTypeOK'
  <2>2. TaskOK
    BY <1>3 DEF TaskOK, E!Age, E!ExportsTypeOK
  <2>4. RowOK
    BY <1>3 DEF RowOK, E!Age, E!ExportsTypeOK
  <2>6. RestOK
    BY <1>3 DEF RestOK, E!Age, E!ExportsTypeOK
  <2>7. QED
    BY <1>0, <2>2, <2>4, <2>6
<1>4. ASSUME NEW r \in E!Runs, E!Receive(r) PROVE E!ExportsTypeOK'
  <2>2. TaskOK
    BY <1>4, <1>a, Running DEF TaskOK, E!Receive, E!At, Pcs
  <2>4. RowOK
    BY <1>4 DEF RowOK, E!Receive, E!ExportsTypeOK
  <2>6. RestOK
    BY <1>4 DEF RestOK, E!Receive, E!ExportsTypeOK
  <2>7. QED
    BY <1>0, <2>2, <2>4, <2>6
<1>5. ASSUME NEW r \in E!Runs, E!Claim(r) PROVE E!ExportsTypeOK'
  <2>2. TaskOK
    BY <1>5, <1>a, Running DEF TaskOK, E!Claim, E!At, Pcs
  <2>4. RowOK
    <3>1. CASE E!There(r[1])
      BY <1>5, <1>a, <3>1, RunParts, RowChanges DEF RowOK, E!Claim
    <3>2. CASE ~E!There(r[1])
      BY <1>5, <3>2 DEF RowOK, E!Claim, E!ExportsTypeOK
    <3>3. QED
      BY <3>1, <3>2
  <2>6. RestOK
    BY <1>5, RunParts DEF RestOK, E!Claim, E!Overtakes, E!ExportsTypeOK
  <2>7. QED
    BY <1>0, <2>2, <2>4, <2>6
<1>6. ASSUME NEW r \in E!Runs, E!FindStuck(r) PROVE E!ExportsTypeOK'
  <2>1. E!Stuck \in SUBSET E!Exports /\ \A f \in E!Stuck : E!There(f)
    BY DEF E!Stuck, E!ExportsTypeOK
  <2>2. TaskOK
    BY <1>6, <2>1, Running DEF TaskOK, E!FindStuck, E!At, Pcs
  <2>4. RowOK
    BY <1>6 DEF RowOK, E!FindStuck, E!ExportsTypeOK
  <2>6. RestOK
    BY <1>6 DEF RestOK, E!FindStuck, E!ExportsTypeOK
  <2>7. QED
    BY <1>0, <2>2, <2>4, <2>6
<1>7. ASSUME NEW r \in E!Runs, E!MarkStuck(r) PROVE E!ExportsTypeOK'
  <2>2. TaskOK
    BY <1>7, <1>a, Running DEF TaskOK, E!MarkStuck, E!At, Pcs, E!Task
  <2>3. \A f \in E!Exports : E!HasRead(r, f) =>
          [status |-> E!ERROR, result |-> (CHOOSE x \in task[r].read : x[1] = f)[2]] \in E!Row
    BY <1>7, <1>a, Running DEF E!MarkStuck, E!At, E!HasRead, E!Task, E!Row
  <2>4. RowOK
    BY <1>7, <2>3 DEF RowOK, E!MarkStuck, E!ExportsTypeOK
  <2>6. RestOK
    BY <1>7 DEF RestOK, E!MarkStuck, E!ExportsTypeOK
  <2>7. QED
    BY <1>0, <2>2, <2>4, <2>6
<1>8. ASSUME NEW r \in E!Runs, E!Refuse(r) PROVE E!ExportsTypeOK'
  <2>2. TaskOK
    BY <1>8, <1>a, Running DEF TaskOK, E!Refuse, E!At, Pcs
  <2>4. RowOK
    BY <1>8 DEF RowOK, E!Refuse, E!ExportsTypeOK
  <2>6. RestOK
    BY <1>8, RunParts DEF RestOK, E!Refuse, E!ExportsTypeOK
  <2>7. QED
    BY <1>0, <2>2, <2>4, <2>6
<1>9. ASSUME NEW r \in E!Runs, E!Prepare(r) PROVE E!ExportsTypeOK'
  <2>2. TaskOK
    BY <1>9, <1>a, Running DEF TaskOK, E!Prepare, E!At, Pcs
  <2>4. RowOK
    BY <1>9, RunParts, RowChanges, Running DEF RowOK, E!Prepare, E!At, E!Task, E!Result
  <2>6. RestOK
    BY <1>9, <1>c, FileChanges DEF RestOK, E!Prepare, E!ExportsTypeOK
  <2>7. QED
    BY <1>0, <2>2, <2>4, <2>6
<1>10. ASSUME NEW r \in E!Runs, E!Write(r) PROVE E!ExportsTypeOK'
  <2>2. TaskOK
    BY <1>10, <1>a, Running DEF TaskOK, E!Write, E!At, Pcs
  <2>4. RowOK
    BY <1>10 DEF RowOK, E!Write, E!ExportsTypeOK
  <2>6. RestOK
    BY <1>10, <1>c, FileChanges DEF RestOK, E!Write, E!ExportsTypeOK
  <2>7. QED
    BY <1>0, <2>2, <2>4, <2>6
<1>11. ASSUME NEW r \in E!Runs, E!Touch(r) PROVE E!ExportsTypeOK'
  <2>2. TaskOK
    BY <1>11, <1>a, Running DEF TaskOK, E!Touch, E!At, Pcs
  <2>4. RowOK
    BY <1>11 DEF RowOK, E!Touch, E!ExportsTypeOK
  <2>6. RestOK
    BY <1>11 DEF RestOK, E!Touch, E!ExportsTypeOK
  <2>7. QED
    BY <1>0, <2>2, <2>4, <2>6
<1>12. ASSUME NEW r \in E!Runs, E!FindExcess(r) PROVE E!ExportsTypeOK'
  <2>1. E!Excess \in SUBSET E!Exports /\ \A f \in E!Excess : E!There(f)
    BY DEF E!Excess, E!ExportsTypeOK
  <2>2. TaskOK
    BY <1>12, <2>1, Running DEF TaskOK, E!FindExcess, E!At, Pcs
  <2>4. RowOK
    BY <1>12 DEF RowOK, E!FindExcess, E!ExportsTypeOK
  <2>6. RestOK
    BY <1>12 DEF RestOK, E!FindExcess, E!ExportsTypeOK
  <2>7. QED
    BY <1>0, <2>2, <2>4, <2>6
<1>13. ASSUME NEW r \in E!Runs, E!UnlinkExcess(r) PROVE E!ExportsTypeOK'
  <2>2. TaskOK
    BY <1>13, <1>a, Running DEF TaskOK, E!UnlinkExcess, E!At, Pcs
  <2>4. RowOK
    BY <1>13 DEF RowOK, E!UnlinkExcess, E!ExportsTypeOK
  <2>6. RestOK
    BY <1>13, <1>c, FileChanges DEF RestOK, E!UnlinkExcess, E!ExportsTypeOK
  <2>7. QED
    BY <1>0, <2>2, <2>4, <2>6
<1>14. ASSUME NEW r \in E!Runs, E!RemoveExcess(r) PROVE E!ExportsTypeOK'
  <2>2. TaskOK
    BY <1>14, <1>a, Running DEF TaskOK, E!RemoveExcess, E!At, Pcs
  <2>4. RowOK
    BY <1>14 DEF RowOK, E!RemoveExcess, E!ExportsTypeOK
  <2>6. RestOK
    BY <1>14 DEF RestOK, E!RemoveExcess, E!ExportsTypeOK
  <2>7. QED
    BY <1>0, <2>2, <2>4, <2>6
<1>15. ASSUME NEW r \in E!Runs, E!Raise(r) PROVE E!ExportsTypeOK'
  <2>2. TaskOK
    BY <1>15, <1>a, Running DEF TaskOK, E!Raise, E!At, Pcs
  <2>4. RowOK
    BY <1>15 DEF RowOK, E!Raise, E!ExportsTypeOK
  <2>5. E!RolledBack(r) \subseteq E!Exports /\ r[1] \in E!Exports
    BY <1>15, Running, RunParts DEF E!Raise, E!RolledBack, E!At, E!Task
  <2>6. RestOK
    BY <1>15, <2>5 DEF RestOK, E!Raise, E!ExportsTypeOK
  <2>7. QED
    BY <1>0, <2>2, <2>4, <2>6
<1>16. ASSUME NEW r \in E!Runs, E!Finish(r) PROVE E!ExportsTypeOK'
  <2>2. TaskOK
    BY <1>16, <1>a, Running DEF TaskOK, E!Finish, E!At, Pcs
  <2>4. RowOK
    BY <1>16, RunParts, RowChanges, Running DEF RowOK, E!Finish, E!At, E!Task, E!ExportsTypeOK
  <2>6. RestOK
    BY <1>16 DEF RestOK, E!Finish, E!ExportsTypeOK
  <2>7. QED
    BY <1>0, <2>2, <2>4, <2>6
<1>17. ASSUME NEW r \in E!Runs, E!Crash(r) PROVE E!ExportsTypeOK'
  <2>2. TaskOK
    BY <1>17, <1>a, Running DEF TaskOK, E!Crash, E!At, Pcs
  <2>4. RowOK
    BY <1>17 DEF RowOK, E!Crash, E!ExportsTypeOK
  <2>5. E!RolledBack(r) \subseteq E!Exports /\ r[1] \in E!Exports
    BY <1>17, Running, RunParts DEF E!Crash, E!RolledBack, E!At, E!Task
  <2>6. RestOK
    BY <1>17, <2>5 DEF RestOK, E!Crash, E!ExportsTypeOK
  <2>7. QED
    BY <1>0, <2>2, <2>4, <2>6
<1>18. ASSUME NEW e \in E!Exports, E!FetchExport(e) PROVE E!ExportsTypeOK'
  <2>2. TaskOK
    BY <1>18 DEF TaskOK, E!FetchExport, E!ExportsTypeOK
  <2>4. RowOK
    BY <1>18 DEF RowOK, E!FetchExport, E!ExportsTypeOK
  <2>6. RestOK
    BY <1>18, RowChanges DEF RestOK, E!FetchExport, E!ExportsTypeOK, E!Row
  <2>7. QED
    BY <1>0, <2>2, <2>4, <2>6
<1>19. ASSUME NEW e \in E!Exports, E!DeleteFile(e) PROVE E!ExportsTypeOK'
  <2>2. TaskOK
    BY <1>19 DEF TaskOK, E!DeleteFile, E!ExportsTypeOK
  <2>4. RowOK
    BY <1>19 DEF RowOK, E!DeleteFile, E!ExportsTypeOK
  <2>5. deletion[e] \in [pc : {"file", "row"}, result : E!Result]
    BY <1>19 DEF E!DeleteFile, E!ExportsTypeOK, E!None
  <2>6. RestOK
    BY <1>19, <2>5, FileChanges DEF RestOK, E!DeleteFile, E!ExportsTypeOK
  <2>7. QED
    BY <1>0, <2>2, <2>4, <2>6
<1>20. ASSUME NEW e \in E!Exports, E!DeleteRow(e) PROVE E!ExportsTypeOK'
  <2>2. TaskOK
    BY <1>20 DEF TaskOK, E!DeleteRow, E!ExportsTypeOK
  <2>4. RowOK
    BY <1>20, RowChanges DEF RowOK, E!DeleteRow
  <2>6. RestOK
    BY <1>20 DEF RestOK, E!DeleteRow, E!ExportsTypeOK
  <2>7. QED
    BY <1>0, <2>2, <2>4, <2>6
<1>21. QED
  BY <1>1, <1>2, <1>3, <1>4, <1>5, <1>6, <1>7, <1>8, <1>9, <1>10, <1>11, <1>12, <1>13, <1>14,
     <1>15, <1>16, <1>17, <1>18, <1>19, <1>20 DEF E!ExportsNext, E!Work

(* What each way to move on does to the run and to the other runs.         *)
LEMMA Moves ==
  ASSUME E!ExportsTypeOK, NEW r \in E!Runs, task[r].pc # "none"
  PROVE  /\ task[r] # E!None
         /\ \A pc \in Pcs : E!GoTo(r, pc) =>
              /\ \A s \in E!Runs \ {r} : task'[s] = task[s]
              /\ task'[r].pc = pc
              /\ task'[r].status = task[r].status /\ task'[r].read = task[r].read
              /\ task'[r] # E!None
         /\ \A pc \in Pcs : \A v : E!Done(r, pc, v) =>
              /\ \A s \in E!Runs \ {r} : task'[s] = task[s]
              /\ task'[r].pc = pc /\ task'[r].status = v /\ task'[r].read = {}
              /\ task'[r] # E!None
         /\ E!Leave(r) =>
              /\ \A s \in E!Runs \ {r} : task'[s] = task[s]
              /\ task'[r] = E!None /\ task'[r].pc = "none"
         /\ \A pc \in Pcs : \A S : E!Reads(r, pc, S) =>
              /\ \A s \in E!Runs \ {r} : task'[s] = task[s]
              /\ task'[r].pc = pc /\ task'[r].status = task[r].status
              /\ task'[r].read = {<<f, exportRow[f].result>> : f \in S}
              /\ task'[r] # E!None
<1>1. task[r] \in E!Task /\ task[r] # E!None /\ DOMAIN task = E!Runs
  BY DEF E!ExportsTypeOK, E!None
<1>2. ASSUME NEW pc \in Pcs, E!GoTo(r, pc)
      PROVE  /\ \A s \in E!Runs \ {r} : task'[s] = task[s]
             /\ task'[r].pc = pc /\ task'[r].status = task[r].status /\ task'[r].read = task[r].read
             /\ task'[r] # E!None
  BY <1>1, <1>2 DEF E!GoTo, E!ExportsTypeOK, E!Task, E!None, Pcs
<1>3. ASSUME NEW pc \in Pcs, NEW v, E!Done(r, pc, v)
      PROVE  /\ \A s \in E!Runs \ {r} : task'[s] = task[s]
             /\ task'[r].pc = pc /\ task'[r].status = v /\ task'[r].read = {}
             /\ task'[r] # E!None
  BY <1>1, <1>3 DEF E!Done, E!ExportsTypeOK, E!None, Pcs
<1>4. E!Leave(r) =>
              /\ \A s \in E!Runs \ {r} : task'[s] = task[s]
              /\ task'[r] = E!None /\ task'[r].pc = "none"
  BY <1>1 DEF E!Leave, E!ExportsTypeOK, E!None
<1>5. ASSUME NEW pc \in Pcs, NEW S, E!Reads(r, pc, S)
      PROVE  /\ \A s \in E!Runs \ {r} : task'[s] = task[s]
             /\ task'[r].pc = pc /\ task'[r].status = task[r].status
             /\ task'[r].read = {<<f, exportRow[f].result>> : f \in S}
             /\ task'[r] # E!None
  BY <1>1, <1>5 DEF E!Reads, E!ExportsTypeOK, E!Task, E!None, Pcs
<1>6. QED
  BY <1>1, <1>2, <1>3, <1>4, <1>5

(* What a change of one row, or of one deletion, leaves alone.             *)
LEMMA RowMoves ==
  ASSUME E!ExportsTypeOK, NEW e \in E!Exports
  PROVE  /\ \A s : exportRow' = [exportRow EXCEPT ![e].status = s] =>
              /\ \A f \in E!Exports \ {e} : exportRow'[f] = exportRow[f]
              /\ E!There(e) => /\ exportRow'[e].status = s
                               /\ exportRow'[e].result = exportRow[e].result
                               /\ exportRow'[e] # E!Gone
         /\ \A v : exportRow' = [exportRow EXCEPT ![e] = v] =>
              /\ \A f \in E!Exports \ {e} : exportRow'[f] = exportRow[f]
              /\ exportRow'[e] = v
         /\ \A v : deletion' = [deletion EXCEPT ![e] = v] =>
              /\ \A f \in E!Exports \ {e} : deletion'[f] = deletion[f]
              /\ deletion'[e] = v
         /\ \A s, f : [status |-> s, result |-> f] # E!Gone
<1>1. DOMAIN exportRow = E!Exports /\ DOMAIN deletion = E!Exports
  BY DEF E!ExportsTypeOK
<1>2. ASSUME NEW s, exportRow' = [exportRow EXCEPT ![e].status = s], E!There(e)
      PROVE  /\ exportRow'[e].status = s
             /\ exportRow'[e].result = exportRow[e].result
             /\ exportRow'[e] # E!Gone
  <2>1. exportRow[e] \in E!Row
    BY <1>2, RowChanges
  <2>2. exportRow'[e] = [exportRow[e] EXCEPT !.status = s]
    BY <1>1, <1>2
  <2>3. QED
    BY <2>1, <2>2 DEF E!Row, E!Gone
<1>3. \A s, f : [status |-> s, result |-> f] # E!Gone
  BY DEF E!Gone
<1>4. QED
  BY <1>1, <1>2, <1>3

(* A deletion that has removed the file goes on to the row.                *)
LEMMA DeletionMoves ==
  ASSUME E!ExportsTypeOK, NEW e \in E!Exports, deletion[e].pc = "file",
         deletion' = [deletion EXCEPT ![e].pc = "row"]
  PROVE  /\ \A f \in E!Exports \ {e} : deletion'[f] = deletion[f]
         /\ deletion[e] # E!None
         /\ deletion'[e].pc = "row" /\ deletion'[e].result = deletion[e].result
<1>1. deletion[e] \in [pc : {"file", "row"}, result : E!Result]
  BY DEF E!ExportsTypeOK, E!None
<1>2. QED
  BY <1>1 DEF E!ExportsTypeOK, E!None

(* A delivery, the first or another one, queues a run of its own.          *)
LEMMA DeliveryMoves ==
  ASSUME E!ExportsTypeOK, Fresh, NEW e \in E!Exports, E!Create(e) \/ E!Redeliver(e)
  PROVE  \E r \in E!Runs :
           /\ r[1] = e /\ r[2] = delivered'[e] /\ r[2] > delivered[e]
           /\ task[r] = E!None /\ task'[r] = E!Queued
           /\ \A s \in E!Runs \ {r} : task'[s] = task[s]
           /\ \A f \in E!Exports \ {e} : delivered'[f] = delivered[f]
<1>1. CASE E!Create(e)
  <2>1. 1 \in E!Deliveries /\ delivered[e] = 0 /\ delivered'[e] = 1
    BY <1>1, BoundsAssumption DEF E!Create, E!Deliveries, E!ExportsTypeOK
  <2>2. <<e, 1>> \in E!Runs /\ task[<<e, 1>>] = E!None
    BY <2>1, RunParts DEF Fresh
  <2>3. QED
    BY <1>1, <2>1, <2>2, RunParts DEF E!Create, E!ExportsTypeOK
<1>2. CASE E!Redeliver(e)
  <2> DEFINE n == delivered[e] + 1
  <2>1. n \in E!Deliveries /\ delivered'[e] = n /\ n > delivered[e]
    BY <1>2, BoundsAssumption DEF E!Redeliver, E!Deliveries, E!ExportsTypeOK
  <2> HIDE DEF n
  <2>2. <<e, n>> \in E!Runs /\ task[<<e, n>>] = E!None
    BY <2>1, RunParts DEF Fresh
  <2>3. task' = [task EXCEPT ![<<e, n>>] = E!Queued]
    BY <1>2, <2>1 DEF E!Redeliver
  <2>4. QED
    BY <1>2, <2>1, <2>2, <2>3, RunParts DEF E!Redeliver, E!ExportsTypeOK
<1>3. QED
  BY <1>1, <1>2

(* What a first delivery adds besides: the row.                            *)
LEMMA CreateMoves ==
  ASSUME E!ExportsTypeOK, Fresh, NEW e \in E!Exports, E!Create(e)
  PROVE  /\ \A f \in E!Exports \ {e} : exportRow'[f] = exportRow[f]
         /\ exportRow'[e].status = "created" /\ exportRow'[e].result = E!NoFile
         /\ exportRow[e] = E!Gone
         /\ \A r \in E!Runs : r[1] = e => task[r] = E!None
<1>1. /\ \A f \in E!Exports \ {e} : exportRow'[f] = exportRow[f]
      /\ exportRow'[e].status = "created" /\ exportRow'[e].result = E!NoFile
  BY DEF E!Create, E!CREATED, E!ExportsTypeOK
<1>2. \A r \in E!Runs : r[1] = e => r[2] > delivered[r[1]]
  BY RunParts, BoundsAssumption DEF E!Create, E!Deliveries
<1>3. QED
  BY <1>1, <1>2 DEF Fresh, E!Create

(* What other runs' steps leave of a removal.                              *)
LEMMA StillRemoving ==
  ASSUME NEW f \in E!Exports, E!Removing(f), deletion'[f] = deletion[f],
         NEW r \in E!Runs, ~E!At(r, "drop"),
         \A s \in E!Runs \ {r} : task'[s] = task[s]
  PROVE  E!Removing(f)'
  BY DEF E!Removing, E!At, E!HasRead

(* Every step keeps OwnAt ...                                              *)
LEMMA ExportsOwn ==
  ASSUME E!ExportsTypeOK, Fresh, Own, Phases, E!ExportsNext, NEW f \in E!Exports
  PROVE  OwnAt(f)'
<1> USE DEF E!At, E!There, E!CREATED, E!PROCESSING, E!COMPLETE, E!ERROR, Pcs
<1>1. ASSUME NEW e \in E!Exports, E!Create(e) PROVE OwnAt(f)'
  BY <1>1, CreateMoves DEF E!Create, OwnAt, Own
<1>2. ASSUME NEW e \in E!Exports, E!Redeliver(e) PROVE OwnAt(f)'
  BY <1>2 DEF E!Redeliver, OwnAt, Own
<1>3. ASSUME NEW e \in E!Exports, E!Age(e) PROVE OwnAt(f)'
  BY <1>3 DEF E!Age, OwnAt, Own
<1>4. ASSUME NEW r \in E!Runs, E!Receive(r) PROVE OwnAt(f)'
  BY <1>4 DEF E!Receive, OwnAt, Own
<1>5. ASSUME NEW r \in E!Runs, E!Claim(r) PROVE OwnAt(f)'
  BY <1>5, RunParts, RowMoves, SMTT(30) DEF E!Claim, OwnAt, Own
<1>6. ASSUME NEW r \in E!Runs, E!FindStuck(r) PROVE OwnAt(f)'
  BY <1>6 DEF E!FindStuck, OwnAt, Own
<1>7. ASSUME NEW r \in E!Runs, E!MarkStuck(r) PROVE OwnAt(f)'
  <2>1. E!HasRead(r, f) =>
          (CHOOSE x \in task[r].read : x[1] = f) \in {x \in task[r].read : x[1] = f}
    BY DEF E!HasRead
  <2>2. QED
    BY <1>7, <2>1, Moves, RowMoves DEF E!MarkStuck, ReadsOwn, OwnAt, Own
<1>8. ASSUME NEW r \in E!Runs, E!Refuse(r) PROVE OwnAt(f)'
  BY <1>8 DEF E!Refuse, OwnAt, Own
<1>9. ASSUME NEW r \in E!Runs, E!Prepare(r) PROVE OwnAt(f)'
  BY <1>9, RunParts, RowMoves DEF E!Prepare, OwnAt, Own
<1>10. ASSUME NEW r \in E!Runs, E!Write(r) PROVE OwnAt(f)'
  BY <1>10 DEF E!Write, OwnAt, Own
<1>11. ASSUME NEW r \in E!Runs, E!Touch(r) PROVE OwnAt(f)'
  BY <1>11 DEF E!Touch, OwnAt, Own
<1>12. ASSUME NEW r \in E!Runs, E!FindExcess(r) PROVE OwnAt(f)'
  BY <1>12 DEF E!FindExcess, OwnAt, Own
<1>13. ASSUME NEW r \in E!Runs, E!UnlinkExcess(r) PROVE OwnAt(f)'
  BY <1>13 DEF E!UnlinkExcess, OwnAt, Own
<1>14. ASSUME NEW r \in E!Runs, E!RemoveExcess(r) PROVE OwnAt(f)'
  BY <1>14 DEF E!RemoveExcess, OwnAt, Own
<1>15. ASSUME NEW r \in E!Runs, E!Raise(r) PROVE OwnAt(f)'
  BY <1>15 DEF E!Raise, OwnAt, Own
<1>16. ASSUME NEW r \in E!Runs, E!Finish(r) PROVE OwnAt(f)'
  BY <1>16, RunParts, RowMoves DEF E!Finish, OwnAt, Own
<1>17. ASSUME NEW r \in E!Runs, E!Crash(r) PROVE OwnAt(f)'
  BY <1>17 DEF E!Crash, OwnAt, Own
<1>18. ASSUME NEW e \in E!Exports, E!FetchExport(e) PROVE OwnAt(f)'
  BY <1>18, RowMoves DEF E!FetchExport, OwnAt, Own
<1>19. ASSUME NEW e \in E!Exports, E!DeleteFile(e) PROVE OwnAt(f)'
  <2>1. CASE e = f
    BY <1>19, <2>1, DeletionMoves DEF E!DeleteFile, OwnAt, Own
  <2>2. CASE e # f
    <3>1. deletion'[f] = deletion[f] /\ exportRow' = exportRow
      BY <1>19, <2>2, DeletionMoves DEF E!DeleteFile
    <3>2. QED
      BY <3>1 DEF OwnAt, Own
  <2>3. QED
    BY <2>1, <2>2
<1>20. ASSUME NEW e \in E!Exports, E!DeleteRow(e) PROVE OwnAt(f)'
  BY <1>20, RowMoves DEF E!DeleteRow, OwnAt, Own
<1>21. QED
  BY <1>1, <1>2, <1>3, <1>4, <1>5, <1>6, <1>7, <1>8, <1>9, <1>10, <1>11, <1>12, <1>13, <1>14,
     <1>15, <1>16, <1>17, <1>18, <1>19, <1>20 DEF E!ExportsNext, E!Work

(* ... what each run has read, and what it will save ...                   *)
LEMMA ExportsPhases ==
  ASSUME E!ExportsTypeOK, Fresh, Own, Phases, E!ExportsNext, NEW t \in E!Runs
  PROVE  ReadsOwn(t)' /\ PhaseAt(t)'
<1> USE DEF E!At, E!There, E!CREATED, E!PROCESSING, E!COMPLETE, E!ERROR, Pcs
<1> USE DEF ReadsOwn, PhaseAt, Own, Phases, Busy
<1>1. ASSUME NEW e \in E!Exports, E!Create(e) PROVE ReadsOwn(t)' /\ PhaseAt(t)'
  BY <1>1, DeliveryMoves DEF E!Create, E!Queued
<1>2. ASSUME NEW e \in E!Exports, E!Redeliver(e) PROVE ReadsOwn(t)' /\ PhaseAt(t)'
  BY <1>2, DeliveryMoves DEF E!Redeliver, E!Queued
<1>3. ASSUME NEW e \in E!Exports, E!Age(e) PROVE ReadsOwn(t)' /\ PhaseAt(t)'
  BY <1>3 DEF E!Age
<1>4. ASSUME NEW r \in E!Runs, E!Receive(r) PROVE ReadsOwn(t)' /\ PhaseAt(t)'
  BY <1>4, Moves DEF E!Receive
<1>5. ASSUME NEW r \in E!Runs, E!Claim(r) PROVE ReadsOwn(t)' /\ PhaseAt(t)'
  BY <1>5, Moves DEF E!Claim
<1>6. ASSUME NEW r \in E!Runs, E!FindStuck(r) PROVE ReadsOwn(t)' /\ PhaseAt(t)'
  <2>1. \A g \in E!Exports : E!There(g) =>
          exportRow[g].result = E!NoFile \/ exportRow[g].result[1] = g
    BY DEF OwnAt
  <2>2. E!Stuck \subseteq {g \in E!Exports : E!There(g)} /\ E!Stuck \subseteq old
    BY DEF E!Stuck, E!ExportsTypeOK
  <2>3. \A x \in {<<g, exportRow[g].result>> : g \in E!Stuck} :
          x[2] = E!NoFile \/ x[2][1] = x[1]
    BY <2>1, <2>2
  <2>4. \A x \in {<<g, exportRow[g].result>> : g \in E!Stuck} : x[1] \in E!Stuck
    OBVIOUS
  <2>5. QED
    BY <1>6, <2>2, <2>3, <2>4, Moves DEF E!FindStuck
<1>7. ASSUME NEW r \in E!Runs, E!MarkStuck(r) PROVE ReadsOwn(t)' /\ PhaseAt(t)'
  BY <1>7, Moves DEF E!MarkStuck
<1>8. ASSUME NEW r \in E!Runs, E!Refuse(r) PROVE ReadsOwn(t)' /\ PhaseAt(t)'
  BY <1>8, Moves DEF E!Refuse
<1>9. ASSUME NEW r \in E!Runs, E!Prepare(r) PROVE ReadsOwn(t)' /\ PhaseAt(t)'
  BY <1>9, Moves DEF E!Prepare
<1>10. ASSUME NEW r \in E!Runs, E!Write(r) PROVE ReadsOwn(t)' /\ PhaseAt(t)'
  BY <1>10, Moves DEF E!Write
<1>11. ASSUME NEW r \in E!Runs, E!Touch(r) PROVE ReadsOwn(t)' /\ PhaseAt(t)'
  BY <1>11, Moves DEF E!Touch
<1>12. ASSUME NEW r \in E!Runs, E!FindExcess(r) PROVE ReadsOwn(t)' /\ PhaseAt(t)'
  <2>1. \A g \in E!Exports : E!There(g) =>
          exportRow[g].result = E!NoFile \/ exportRow[g].result[1] = g
    BY DEF OwnAt
  <2>2. E!Excess \subseteq {g \in E!Exports : E!There(g)}
    BY DEF E!Excess, E!ExportsTypeOK
  <2>3. \A x \in {<<g, exportRow[g].result>> : g \in E!Excess} :
          x[2] = E!NoFile \/ x[2][1] = x[1]
    BY <2>1, <2>2
  <2>4. \A x \in {<<g, exportRow[g].result>> : g \in E!Excess} : x[1] \in E!Excess
    OBVIOUS
  <2>5. QED
    BY <1>12, <2>2, <2>3, <2>4, Moves DEF E!FindExcess
<1>13. ASSUME NEW r \in E!Runs, E!UnlinkExcess(r) PROVE ReadsOwn(t)' /\ PhaseAt(t)'
  BY <1>13, Moves DEF E!UnlinkExcess
<1>14. ASSUME NEW r \in E!Runs, E!RemoveExcess(r) PROVE ReadsOwn(t)' /\ PhaseAt(t)'
  BY <1>14, Moves DEF E!RemoveExcess
<1>15. ASSUME NEW r \in E!Runs, E!Raise(r) PROVE ReadsOwn(t)' /\ PhaseAt(t)'
  BY <1>15, Moves DEF E!Raise
<1>16. ASSUME NEW r \in E!Runs, E!Finish(r) PROVE ReadsOwn(t)' /\ PhaseAt(t)'
  BY <1>16, Moves DEF E!Finish
<1>17. ASSUME NEW r \in E!Runs, E!Crash(r) PROVE ReadsOwn(t)' /\ PhaseAt(t)'
  BY <1>17, Moves DEF E!Crash
<1>18. ASSUME NEW e \in E!Exports, E!FetchExport(e) PROVE ReadsOwn(t)' /\ PhaseAt(t)'
  BY <1>18 DEF E!FetchExport
<1>19. ASSUME NEW e \in E!Exports, E!DeleteFile(e) PROVE ReadsOwn(t)' /\ PhaseAt(t)'
  BY <1>19 DEF E!DeleteFile
<1>20. ASSUME NEW e \in E!Exports, E!DeleteRow(e) PROVE ReadsOwn(t)' /\ PhaseAt(t)'
  BY <1>20 DEF E!DeleteRow
<1>21. QED
  BY <1>1, <1>2, <1>3, <1>4, <1>5, <1>6, <1>7, <1>8, <1>9, <1>10, <1>11, <1>12, <1>13, <1>14,
     <1>15, <1>16, <1>17, <1>18, <1>19, <1>20 DEF E!ExportsNext, E!Work

(* ... Fresh ...                                                           *)
LEMMA ExportsFresh ==
  ASSUME E!ExportsTypeOK, Fresh, Own, Phases, E!ExportsNext, NEW f \in E!Exports
  PROVE  /\ delivered'[f] = 0 =>
              exportRow'[f] = E!Gone /\ deletion'[f] = E!None /\ f \notin old'
         /\ \A t \in E!Runs : t[2] > delivered'[t[1]] => task'[t] = E!None
<1> DEFINE FreshAt(g) ==
             delivered'[g] = 0 =>
               exportRow'[g] = E!Gone /\ deletion'[g] = E!None /\ g \notin old'
           NotYet == \A t \in E!Runs : t[2] > delivered'[t[1]] => task'[t] = E!None
<1> USE DEF E!At, E!There, E!CREATED, E!PROCESSING, E!COMPLETE, E!ERROR, Pcs
<1>1. ASSUME NEW e \in E!Exports, E!Create(e) PROVE FreshAt(f) /\ NotYet
  <2>1. PICK n \in E!Runs :
          /\ n[1] = e /\ n[2] = delivered'[e] /\ n[2] > delivered[e]
          /\ \A s \in E!Runs \ {n} : task'[s] = task[s]
          /\ \A g \in E!Exports \ {e} : delivered'[g] = delivered[g]
    BY <1>1, DeliveryMoves
  <2>2. delivered'[e] # 0 /\ \A m \in E!Deliveries : m > delivered'[e] => m > delivered[e]
    BY <2>1, RunParts, BoundsAssumption DEF E!ExportsTypeOK, E!Deliveries
  <2>3. FreshAt(f)
    BY <1>1, <2>1, <2>2, CreateMoves DEF E!Create, Fresh
  <2>4. NotYet
    BY <2>1, <2>2, RunParts, BoundsAssumption DEF Fresh, E!Deliveries
  <2>5. QED
    BY <2>3, <2>4
<1>2. ASSUME NEW e \in E!Exports, E!Redeliver(e) PROVE FreshAt(f) /\ NotYet
  <2>1. PICK n \in E!Runs :
          /\ n[1] = e /\ n[2] = delivered'[e] /\ n[2] > delivered[e]
          /\ \A s \in E!Runs \ {n} : task'[s] = task[s]
          /\ \A g \in E!Exports \ {e} : delivered'[g] = delivered[g]
    BY <1>2, DeliveryMoves
  <2>2. delivered'[e] # 0 /\ \A m \in E!Deliveries : m > delivered'[e] => m > delivered[e]
    BY <2>1, RunParts, BoundsAssumption DEF E!ExportsTypeOK, E!Deliveries
  <2>3. FreshAt(f)
    BY <1>2, <2>1, <2>2, CreateMoves DEF E!Redeliver, Fresh
  <2>4. NotYet
    BY <2>1, <2>2, RunParts, BoundsAssumption DEF Fresh, E!Deliveries
  <2>5. QED
    BY <2>3, <2>4
<1>3. ASSUME NEW e \in E!Exports, E!Age(e) PROVE FreshAt(f) /\ NotYet
  BY <1>3 DEF E!Age, Fresh, E!ExportsTypeOK
<1>4. ASSUME NEW r \in E!Runs, E!Receive(r) PROVE FreshAt(f) /\ NotYet
  <2>1. FreshAt(f)
    BY <1>4 DEF E!Receive, Fresh
  <2>2. NotYet
    BY <1>4, Moves DEF E!Receive, Fresh, E!None
  <2>3. QED
    BY <2>1, <2>2
<1>5. ASSUME NEW r \in E!Runs, E!Claim(r) PROVE FreshAt(f) /\ NotYet
  <2>0. delivered[r[1]] # 0
    BY <1>5, RunParts, BoundsAssumption DEF E!Claim, Fresh, E!None, E!Deliveries, E!ExportsTypeOK
  <2>1. FreshAt(f)
    BY <1>5, <2>0, RunParts, RowMoves DEF E!Claim, Fresh
  <2>2. NotYet
    BY <1>5, Moves DEF E!Claim, Fresh, E!None
  <2>3. QED
    BY <2>1, <2>2
<1>6. ASSUME NEW r \in E!Runs, E!FindStuck(r) PROVE FreshAt(f) /\ NotYet
  <2>1. FreshAt(f)
    BY <1>6 DEF E!FindStuck, Fresh
  <2>2. NotYet
    BY <1>6, Moves DEF E!FindStuck, Fresh, E!None
  <2>3. QED
    BY <2>1, <2>2
<1>7. ASSUME NEW r \in E!Runs, E!MarkStuck(r) PROVE FreshAt(f) /\ NotYet
  <2>0. delivered'[f] = 0 => ~E!HasRead(r, f)
    BY <1>7 DEF E!MarkStuck, E!HasRead, Phases, PhaseAt, Fresh
  <2>1. FreshAt(f)
    BY <1>7, <2>0 DEF E!MarkStuck, Fresh
  <2>2. NotYet
    BY <1>7, Moves DEF E!MarkStuck, Fresh, E!None
  <2>3. QED
    BY <2>1, <2>2
<1>8. ASSUME NEW r \in E!Runs, E!Refuse(r) PROVE FreshAt(f) /\ NotYet
  <2>1. FreshAt(f)
    BY <1>8 DEF E!Refuse, Fresh
  <2>2. NotYet
    BY <1>8, Moves DEF E!Refuse, Fresh, E!None
  <2>3. QED
    BY <2>1, <2>2
<1>9. ASSUME NEW r \in E!Runs, E!Prepare(r) PROVE FreshAt(f) /\ NotYet
  <2>0. delivered[r[1]] # 0
    BY <1>9, RunParts, BoundsAssumption DEF E!Prepare, Fresh, E!None, E!Deliveries, E!ExportsTypeOK
  <2>1. FreshAt(f)
    BY <1>9, <2>0, RunParts, RowMoves DEF E!Prepare, Fresh
  <2>2. NotYet
    BY <1>9, Moves DEF E!Prepare, Fresh, E!None
  <2>3. QED
    BY <2>1, <2>2
<1>10. ASSUME NEW r \in E!Runs, E!Write(r) PROVE FreshAt(f) /\ NotYet
  <2>1. FreshAt(f)
    BY <1>10 DEF E!Write, Fresh
  <2>2. NotYet
    BY <1>10, Moves DEF E!Write, Fresh, E!None
  <2>3. QED
    BY <2>1, <2>2
<1>11. ASSUME NEW r \in E!Runs, E!Touch(r) PROVE FreshAt(f) /\ NotYet
  <2>1. FreshAt(f)
    BY <1>11 DEF E!Touch, Fresh
  <2>2. NotYet
    BY <1>11, Moves DEF E!Touch, Fresh, E!None
  <2>3. QED
    BY <2>1, <2>2
<1>12. ASSUME NEW r \in E!Runs, E!FindExcess(r) PROVE FreshAt(f) /\ NotYet
  <2>1. FreshAt(f)
    BY <1>12 DEF E!FindExcess, Fresh
  <2>2. NotYet
    BY <1>12, Moves DEF E!FindExcess, Fresh, E!None
  <2>3. QED
    BY <2>1, <2>2
<1>13. ASSUME NEW r \in E!Runs, E!UnlinkExcess(r) PROVE FreshAt(f) /\ NotYet
  <2>1. FreshAt(f)
    BY <1>13 DEF E!UnlinkExcess, Fresh
  <2>2. NotYet
    BY <1>13, Moves DEF E!UnlinkExcess, Fresh, E!None
  <2>3. QED
    BY <2>1, <2>2
<1>14. ASSUME NEW r \in E!Runs, E!RemoveExcess(r) PROVE FreshAt(f) /\ NotYet
  <2>1. FreshAt(f)
    BY <1>14 DEF E!RemoveExcess, Fresh
  <2>2. NotYet
    BY <1>14, Moves DEF E!RemoveExcess, Fresh, E!None
  <2>3. QED
    BY <2>1, <2>2
<1>15. ASSUME NEW r \in E!Runs, E!Raise(r) PROVE FreshAt(f) /\ NotYet
  <2>1. FreshAt(f)
    BY <1>15 DEF E!Raise, Fresh
  <2>2. NotYet
    BY <1>15, Moves DEF E!Raise, Fresh, E!None
  <2>3. QED
    BY <2>1, <2>2
<1>16. ASSUME NEW r \in E!Runs, E!Finish(r) PROVE FreshAt(f) /\ NotYet
  <2>0. delivered[r[1]] # 0
    BY <1>16, RunParts, BoundsAssumption DEF E!Finish, Fresh, E!None, E!Deliveries, E!ExportsTypeOK
  <2>1. FreshAt(f)
    BY <1>16, <2>0, RunParts, RowMoves DEF E!Finish, Fresh
  <2>2. NotYet
    BY <1>16, Moves DEF E!Finish, Fresh, E!None
  <2>3. QED
    BY <2>1, <2>2
<1>17. ASSUME NEW r \in E!Runs, E!Crash(r) PROVE FreshAt(f) /\ NotYet
  <2>1. FreshAt(f)
    BY <1>17 DEF E!Crash, Fresh
  <2>2. NotYet
    BY <1>17, Moves DEF E!Crash, Fresh, E!None
  <2>3. QED
    BY <2>1, <2>2
<1>18. ASSUME NEW e \in E!Exports, E!FetchExport(e) PROVE FreshAt(f) /\ NotYet
  BY <1>18, RowMoves DEF E!FetchExport, Fresh
<1>19. ASSUME NEW e \in E!Exports, E!DeleteFile(e) PROVE FreshAt(f) /\ NotYet
  BY <1>19, DeletionMoves DEF E!DeleteFile, Fresh
<1>20. ASSUME NEW e \in E!Exports, E!DeleteRow(e) PROVE FreshAt(f) /\ NotYet
  BY <1>20, RowMoves DEF E!DeleteRow, Fresh
<1>21. QED
  BY <1>1, <1>2, <1>3, <1>4, <1>5, <1>6, <1>7, <1>8, <1>9, <1>10, <1>11, <1>12, <1>13, <1>14,
     <1>15, <1>16, <1>17, <1>18, <1>19, <1>20 DEF E!ExportsNext, E!Work

(* A step of a run makes it Past only by a claim; it has made a file only   *)
(* by Prepare, and written it only by Write.                               *)
LEMMA RunSteps ==
  ASSUME E!ExportsTypeOK, NEW r \in E!Runs, E!Work(r) \/ E!Crash(r), NEW t \in E!Runs
  PROVE  /\ Past(t)' => Past(t) \/ (t = r /\ E!Claim(r))
         /\ Made(t)' => Made(t) \/ (t = r /\ E!Prepare(r))
         /\ Wrote(t)' => Wrote(t) \/ (t = r /\ E!Write(r))
<1> USE DEF E!At, E!CREATED, E!PROCESSING, E!COMPLETE, E!ERROR, Pcs
<1> DEFINE Goal == /\ Past(t)' => Past(t) \/ (t = r /\ E!Claim(r))
                   /\ Made(t)' => Made(t) \/ (t = r /\ E!Prepare(r))
                   /\ Wrote(t)' => Wrote(t) \/ (t = r /\ E!Write(r))
<1>1. CASE E!Receive(r)
  BY <1>1, Moves DEF E!Receive, Past, Made, Wrote, Busy
<1>2. CASE E!Claim(r)
  BY <1>2, Moves DEF E!Claim, Past, Made, Wrote, Busy
<1>3. CASE E!FindStuck(r)
  BY <1>3, Moves DEF E!FindStuck, Past, Made, Wrote, Busy
<1>4. CASE E!MarkStuck(r)
  BY <1>4, Moves DEF E!MarkStuck, Past, Made, Wrote, Busy
<1>5. CASE E!Refuse(r)
  BY <1>5, Moves DEF E!Refuse, Past, Made, Wrote, Busy
<1>6. CASE E!Prepare(r)
  BY <1>6, Moves DEF E!Prepare, Past, Made, Wrote, Busy
<1>7. CASE E!Write(r)
  BY <1>7, Moves DEF E!Write, Past, Made, Wrote, Busy
<1>8. CASE E!Touch(r)
  BY <1>8, Moves DEF E!Touch, Past, Made, Wrote, Busy
<1>9. CASE E!FindExcess(r)
  BY <1>9, Moves DEF E!FindExcess, Past, Made, Wrote, Busy
<1>10. CASE E!UnlinkExcess(r)
  BY <1>10, Moves DEF E!UnlinkExcess, Past, Made, Wrote, Busy
<1>11. CASE E!RemoveExcess(r)
  BY <1>11, Moves DEF E!RemoveExcess, Past, Made, Wrote, Busy
<1>12. CASE E!Raise(r)
  BY <1>12, Moves DEF E!Raise, Past, Made, Wrote, Busy
<1>13. CASE E!Finish(r)
  BY <1>13, Moves DEF E!Finish, Past, Made, Wrote, Busy
<1>14. CASE E!Crash(r)
  BY <1>14, Moves DEF E!Crash, Past, Made, Wrote, Busy
<1>15. QED
  BY <1>1, <1>2, <1>3, <1>4, <1>5, <1>6, <1>7, <1>8, <1>9, <1>10, <1>11, <1>12, <1>13, <1>14
     DEF E!Work

(* A step that does not claim export f, and does not complete it, keeps     *)
(* SingleAt(f).                                                            *)
LEMMA SingleFrame ==
  ASSUME NEW f \in E!Exports, SingleAt(f), overtaken \subseteq overtaken',
         \A r \in E!Runs : r[1] = f /\ Past(r)' => Past(r),
         exportRow'[f].status \in {"created", "complete"} =>
           exportRow'[f].status = exportRow[f].status
  PROVE  SingleAt(f)'
  BY DEF SingleAt

(* ... SingleAt: of two runs that claim an export, the later finds that it  *)
(* was claimed, or is complete ...                                         *)
LEMMA ExportsSingle ==
  ASSUME E!ExportsTypeOK, Fresh, Phases, Single, E!ExportsNext, NEW f \in E!Exports
  PROVE  SingleAt(f)'
<1> USE DEF E!At, E!There, E!CREATED, E!PROCESSING, E!COMPLETE, E!ERROR, Pcs
<1>1. ASSUME NEW e \in E!Exports, E!Create(e) PROVE SingleAt(f)'
  <2>1. \A s \in E!Runs : Past(s)' => Past(s)
    BY <1>1, DeliveryMoves DEF Past, Busy, E!Queued
  <2>2. CASE e = f
    BY <1>1, <2>1, <2>2, CreateMoves DEF SingleAt, Past, Busy, E!None
  <2>3. CASE e # f
    BY <1>1, <2>1, <2>3, CreateMoves, SingleFrame DEF E!Create, Single
  <2>4. QED
    BY <2>2, <2>3
<1>2. ASSUME NEW e \in E!Exports, E!Redeliver(e) PROVE SingleAt(f)'
  <2>1. \A s \in E!Runs : Past(s)' => Past(s)
    BY <1>2, DeliveryMoves DEF Past, Busy, E!Queued
  <2>2. QED
    BY <1>2, <2>1, SingleFrame DEF E!Redeliver, Single
<1>3. ASSUME NEW e \in E!Exports, E!Age(e) PROVE SingleAt(f)'
  BY <1>3 DEF E!Age, Single, SingleAt, Past
<1>4. ASSUME NEW r \in E!Runs, E!Receive(r) PROVE SingleAt(f)'
  <2>1. \A s \in E!Runs : s[1] = f /\ Past(s)' => Past(s)
    BY <1>4, RunSteps, Moves DEF E!Work, E!Receive, E!Claim, Past, Busy
  <2>2. QED
    BY <1>4, <2>1, SingleFrame DEF E!Receive, Single
<1>5. ASSUME NEW r \in E!Runs, E!Claim(r) PROVE SingleAt(f)'
  <2>0. r[1] \in E!Exports /\ task[r].status = "created"
    BY <1>5, RunParts DEF E!Claim, Phases, PhaseAt
  <2>1. \A s \in E!Runs : Past(s)' => Past(s) \/ s = r
    BY <1>5, RunSteps DEF E!Work
  <2>2. CASE ~E!There(r[1])
    <3>1. \A s \in E!Runs : Past(s)' => Past(s)
      BY <1>5, <2>1, <2>2, Moves DEF E!Claim, Past, Busy
    <3>2. QED
      BY <1>5, <2>2, <3>1, SingleFrame DEF E!Claim, Single
  <2>3. CASE E!There(r[1]) /\ r[1] # f
    BY <1>5, <2>0, <2>1, <2>3, RowMoves, SingleFrame DEF E!Claim, Single
  <2>4. CASE E!There(r[1]) /\ r[1] = f
    <3>1. exportRow'[f].status = "processing"
      BY <1>5, <2>0, <2>4, RowMoves DEF E!Claim
    <3>2. f \notin overtaken' => exportRow[f].status = "created"
      BY <1>5, <2>0, <2>4 DEF E!Claim, E!Overtakes
    <3>3. exportRow[f].status = "created" => \A s \in E!Runs : s[1] = f => ~Past(s)
      BY DEF Single, SingleAt
    <3>4. QED
      BY <2>1, <3>1, <3>2, <3>3 DEF SingleAt
  <2>5. QED
    BY <2>2, <2>3, <2>4
<1>6. ASSUME NEW r \in E!Runs, E!FindStuck(r) PROVE SingleAt(f)'
  <2>1. \A s \in E!Runs : s[1] = f /\ Past(s)' => Past(s)
    BY <1>6, RunSteps, Moves DEF E!Work, E!FindStuck, E!Claim, Past, Busy
  <2>2. QED
    BY <1>6, <2>1, SingleFrame DEF E!FindStuck, Single
<1>7. ASSUME NEW r \in E!Runs, E!MarkStuck(r) PROVE SingleAt(f)'
  <2>1. \A s \in E!Runs : s[1] = f /\ Past(s)' => Past(s)
    BY <1>7, RunSteps DEF E!Work, E!MarkStuck, E!Claim
  <2>2. exportRow'[f].status \in {"created", "complete"} =>
          exportRow'[f].status = exportRow[f].status
    BY <1>7 DEF E!MarkStuck
  <2>3. QED
    BY <1>7, <2>1, <2>2, SingleFrame DEF E!MarkStuck, Single
<1>8. ASSUME NEW r \in E!Runs, E!Refuse(r) PROVE SingleAt(f)'
  <2>1. \A s \in E!Runs : s[1] = f /\ Past(s)' => Past(s)
    BY <1>8, RunSteps, Moves DEF E!Work, E!Refuse, E!Claim, Past, Busy
  <2>2. QED
    BY <1>8, <2>1, SingleFrame DEF E!Refuse, Single
<1>9. ASSUME NEW r \in E!Runs, E!Prepare(r) PROVE SingleAt(f)'
  <2>0. r[1] \in E!Exports /\ task[r].status = "processing"
    BY <1>9, RunParts DEF E!Prepare, Phases, PhaseAt, Busy
  <2>1. \A s \in E!Runs : s[1] = f /\ Past(s)' => Past(s)
    BY <1>9, RunSteps DEF E!Work, E!Prepare, E!Claim
  <2>2. exportRow'[f].status \in {"created", "complete"} =>
          exportRow'[f].status = exportRow[f].status
    BY <1>9, <2>0, RowMoves DEF E!Prepare
  <2>3. QED
    BY <1>9, <2>1, <2>2, SingleFrame DEF E!Prepare, Single
<1>10. ASSUME NEW r \in E!Runs, E!Write(r) PROVE SingleAt(f)'
  <2>1. \A s \in E!Runs : s[1] = f /\ Past(s)' => Past(s)
    BY <1>10, RunSteps, Moves DEF E!Work, E!Write, E!Claim, Past, Busy
  <2>2. QED
    BY <1>10, <2>1, SingleFrame DEF E!Write, Single
<1>11. ASSUME NEW r \in E!Runs, E!Touch(r) PROVE SingleAt(f)'
  <2>1. \A s \in E!Runs : s[1] = f /\ Past(s)' => Past(s)
    BY <1>11, RunSteps, Moves DEF E!Work, E!Touch, E!Claim, Past, Busy
  <2>2. QED
    BY <1>11, <2>1, SingleFrame DEF E!Touch, Single
<1>12. ASSUME NEW r \in E!Runs, E!FindExcess(r) PROVE SingleAt(f)'
  <2>1. \A s \in E!Runs : s[1] = f /\ Past(s)' => Past(s)
    BY <1>12, RunSteps, Moves DEF E!Work, E!FindExcess, E!Claim, Past, Busy
  <2>2. QED
    BY <1>12, <2>1, SingleFrame DEF E!FindExcess, Single
<1>13. ASSUME NEW r \in E!Runs, E!UnlinkExcess(r) PROVE SingleAt(f)'
  <2>1. \A s \in E!Runs : s[1] = f /\ Past(s)' => Past(s)
    BY <1>13, RunSteps, Moves DEF E!Work, E!UnlinkExcess, E!Claim, Past, Busy
  <2>2. QED
    BY <1>13, <2>1, SingleFrame DEF E!UnlinkExcess, Single
<1>14. ASSUME NEW r \in E!Runs, E!RemoveExcess(r) PROVE SingleAt(f)'
  <2>1. \A s \in E!Runs : s[1] = f /\ Past(s)' => Past(s)
    BY <1>14, RunSteps DEF E!Work, E!RemoveExcess, E!Claim
  <2>2. exportRow'[f].status \in {"created", "complete"} =>
          exportRow'[f].status = exportRow[f].status
    BY <1>14 DEF E!RemoveExcess, E!Gone
  <2>3. QED
    BY <1>14, <2>1, <2>2, SingleFrame DEF E!RemoveExcess, Single
<1>15. ASSUME NEW r \in E!Runs, E!Raise(r) PROVE SingleAt(f)'
  <2>1. \A s \in E!Runs : s[1] = f /\ Past(s)' => Past(s)
    BY <1>15, RunSteps, Moves DEF E!Work, E!Raise, E!Claim, Past, Busy
  <2>2. QED
    BY <1>15, <2>1, SingleFrame DEF E!Raise, Single
<1>16. ASSUME NEW r \in E!Runs, E!Finish(r) PROVE SingleAt(f)'
  <2>0. r[1] \in E!Exports /\ Past(r)
    BY <1>16, RunParts DEF E!Finish, Past
  <2>1. /\ \A s \in E!Runs : s[1] = f /\ Past(s)' => Past(s) /\ s # r
    BY <1>16, RunSteps, Moves DEF E!Work, E!Finish, E!Claim, Past, Busy
  <2>2. CASE r[1] # f \/ ~E!There(f)
    BY <1>16, <2>0, <2>1, <2>2, RowMoves, SingleFrame DEF E!Finish, Single
  <2>3. CASE r[1] = f /\ E!There(f)
    <3>2. f \notin overtaken => \A s \in E!Runs : s[1] = f => ~Past(s)'
      BY <2>0, <2>1, <2>3 DEF Single, SingleAt
    <3>3. exportRow'[f].status = "created" => \A s \in E!Runs : s[1] = f => ~Past(s)'
      <4>1. exportRow'[f].status = task[r].status
        <5>1. exportRow[f] \in E!Row /\ DOMAIN exportRow = E!Exports
          BY <2>3, RowChanges DEF E!ExportsTypeOK
        <5>2. exportRow' = [exportRow EXCEPT ![f] = [exportRow[f] EXCEPT !.status = task[r].status]]
          BY <1>16, <2>3, <5>1 DEF E!Finish
        <5>3. QED
          BY <5>1, <5>2 DEF E!Row
      <4>2. task[r].status # "created"
        BY <1>16 DEF E!Finish, Phases, PhaseAt
      <4>3. QED
        BY <4>1, <4>2
    <3>4. QED
      BY <1>16, <3>2, <3>3 DEF E!Finish, SingleAt
  <2>4. QED
    BY <2>2, <2>3
<1>17. ASSUME NEW r \in E!Runs, E!Crash(r) PROVE SingleAt(f)'
  <2>1. \A s \in E!Runs : s[1] = f /\ Past(s)' => Past(s)
    BY <1>17, RunSteps, Moves DEF E!Work, E!Crash, E!Claim, Past, Busy
  <2>2. QED
    BY <1>17, <2>1, SingleFrame DEF E!Crash, Single
<1>18. ASSUME NEW e \in E!Exports, E!FetchExport(e) PROVE SingleAt(f)'
  BY <1>18 DEF E!FetchExport, Single, SingleAt, Past
<1>19. ASSUME NEW e \in E!Exports, E!DeleteFile(e) PROVE SingleAt(f)'
  BY <1>19 DEF E!DeleteFile, Single, SingleAt, Past
<1>20. ASSUME NEW e \in E!Exports, E!DeleteRow(e) PROVE SingleAt(f)'
  <2>1. \A s \in E!Runs : Past(s)' => Past(s)
    BY <1>20 DEF E!DeleteRow, Past
  <2>2. exportRow'[f].status \in {"created", "complete"} =>
          exportRow'[f].status = exportRow[f].status
    BY <1>20, RowMoves DEF E!DeleteRow, E!Gone
  <2>3. QED
    BY <1>20, <2>1, <2>2, SingleFrame DEF E!DeleteRow, Single
<1>21. QED
  BY <1>1, <1>2, <1>3, <1>4, <1>5, <1>6, <1>7, <1>8, <1>9, <1>10, <1>11, <1>12, <1>13, <1>14,
     <1>15, <1>16, <1>17, <1>18, <1>19, <1>20 DEF E!ExportsNext, E!Work

(* A step that writes and removes nothing of export f keeps KeptAt(f).     *)
LEMMA KeptFrame ==
  ASSUME NEW f \in E!Exports, KeptAt(f), OwnAt(f), E!ExportsTypeOK,
         old \subseteq old', overtaken \subseteq overtaken', stripped \subseteq stripped',
         E!There(f)' =>
           /\ E!There(f) /\ exportRow'[f].result = exportRow[f].result
           /\ exportRow'[f].status = "complete" => exportRow[f].status = "complete"
           /\ E!Removing(f) /\ f \notin stripped' => E!Removing(f)',
         \A r \in E!Runs : r[1] = f =>
           /\ (Made(r)' => Made(r)) /\ (Wrote(r)' => Wrote(r))
           /\ exportFiles[r] = "whole" => exportFiles'[r] = "whole" \/ E!Removing(f)'
  PROVE  KeptAt(f)'
<1> SUFFICES ASSUME f \notin (old \cup stripped \cup overtaken)', E!There(f)'
             PROVE  /\ \A r \in E!Runs : r[1] = f /\ Made(r)' =>
                         /\ exportRow'[f].result = r
                         /\ Wrote(r)' /\ ~E!Removing(f)' => exportFiles'[r] = "whole"
                    /\ exportRow'[f].status = "complete" /\ ~E!Removing(f)' =>
                         E!HasFile(f, {"whole"})'
  BY DEF KeptAt
<1>1. /\ f \notin old \cup stripped \cup overtaken /\ E!There(f)
      /\ exportRow'[f].result = exportRow[f].result
  OBVIOUS
<1>2. exportRow[f].result \in E!Runs => exportRow[f].result[1] = f
  BY <1>1, RunParts DEF OwnAt
<1>3. \A r \in E!Runs : r[1] = f /\ Made(r)' =>
                         /\ exportRow'[f].result = r
                         /\ Wrote(r)' /\ ~E!Removing(f)' => exportFiles'[r] = "whole"
  BY <1>1 DEF KeptAt
<1>4. exportRow'[f].status = "complete" /\ ~E!Removing(f)' => E!HasFile(f, {"whole"})'
  BY <1>1, <1>2 DEF KeptAt, E!HasFile
<1>5. QED
  BY <1>3, <1>4

(* What of a removal a step of run r leaves, unless it is rolled back.     *)
LEMMA RemovalsGoOn ==
  ASSUME E!ExportsTypeOK, NEW r \in E!Runs, E!Work(r) \/ E!Crash(r), NEW f \in E!Exports,
         E!Removing(f), E!There(f)', f \notin stripped'
  PROVE  E!Removing(f)'
<1> USE DEF E!At, E!There, Pcs
<1>0. deletion' = deletion /\ task[r].pc # "none"
  BY DEF E!Work, E!Receive, E!Claim, E!FindStuck, E!MarkStuck, E!Refuse, E!Prepare, E!Write,
         E!Touch, E!FindExcess, E!UnlinkExcess, E!RemoveExcess, E!Raise, E!Finish, E!Crash
<1>1. \A s \in E!Runs \ {r} : task'[s] = task[s]
  BY <1>0, Moves
     DEF E!Work, E!Receive, E!Claim, E!FindStuck, E!MarkStuck, E!Refuse, E!Prepare, E!Write,
         E!Touch, E!FindExcess, E!UnlinkExcess, E!RemoveExcess, E!Raise, E!Finish, E!Crash
<1>2. CASE task[r].pc # "drop"
  BY <1>0, <1>1, <1>2, StillRemoving
<1>3. CASE task[r].pc = "drop"
  <2>1. E!RemoveExcess(r) \/ E!Raise(r) \/ E!Crash(r)
    BY <1>3 DEF E!Work, E!Receive, E!Claim, E!FindStuck, E!MarkStuck, E!Refuse, E!Prepare,
         E!Write, E!Touch, E!FindExcess, E!UnlinkExcess, E!Finish
  <2>2. ~E!HasRead(r, f)
    BY <1>3, <2>1 DEF E!RemoveExcess, E!Raise, E!Crash, E!RolledBack, E!HasRead
  <2>3. QED
    BY <1>0, <1>1, <2>2 DEF E!Removing, E!HasRead
<1>4. QED
  BY <1>2, <1>3

(* ... and KeptAt: nobody but who is removing an export removes its file,  *)
(* and what becomes complete has been written.                             *)
LEMMA ExportsKept ==
  ASSUME E!ExportsTypeOK, Fresh, Own, Phases, Single, Kept, E!ExportsNext,
         NEW f \in E!Exports
  PROVE  KeptAt(f)'
<1> USE DEF E!At, E!There, E!CREATED, E!PROCESSING, E!COMPLETE, E!ERROR, Pcs
<1>1. ASSUME NEW e \in E!Exports, E!Create(e) PROVE KeptAt(f)'
  <2>0. PICK n \in E!Runs : /\ task[n] = E!None /\ task'[n] = E!Queued
                           /\ \A s \in E!Runs \ {n} : task'[s] = task[s]
    BY <1>1, DeliveryMoves
  <2>a. /\ deletion' = deletion /\ exportFiles' = exportFiles /\ old' = old
        /\ stripped' = stripped /\ overtaken' = overtaken
    BY <1>1 DEF E!Create
  <2>1. /\ \A s \in E!Runs : (Made(s)' => Made(s)) /\ (Wrote(s)' => Wrote(s))
        /\ E!Removing(f) => E!Removing(f)'
    <3>1. \A s \in E!Runs : (Made(s)' => Made(s)) /\ (Wrote(s)' => Wrote(s))
      BY <2>0 DEF Made, Wrote, E!Queued
    <3>2. \A s \in E!Runs : E!At(s, "drop") => task'[s] = task[s]
      BY <2>0 DEF E!None
    <3>3. QED
      BY <2>a, <3>1, <3>2 DEF E!Removing, E!HasRead
  <2>2. CASE e = f
    <3>1. \A s \in E!Runs : s[1] = f => ~Made(s)
      BY <1>1, <2>2, CreateMoves DEF Made, Wrote, E!None
    <3>2. QED
      BY <1>1, <2>a, <2>1, <2>2, <3>1, CreateMoves DEF KeptAt
  <2>3. CASE e # f
    BY <1>1, <2>a, <2>1, <2>3, CreateMoves, KeptFrame DEF Kept, Own
  <2>4. QED
    BY <2>2, <2>3
<1>2. ASSUME NEW e \in E!Exports, E!Redeliver(e) PROVE KeptAt(f)'
  <2>0. PICK n \in E!Runs : /\ task[n] = E!None /\ task'[n] = E!Queued
                           /\ \A s \in E!Runs \ {n} : task'[s] = task[s]
    BY <1>2, DeliveryMoves
  <2>a. /\ deletion' = deletion /\ exportFiles' = exportFiles /\ old' = old
        /\ stripped' = stripped /\ overtaken' = overtaken
    BY <1>2 DEF E!Redeliver
  <2>1. /\ \A s \in E!Runs : (Made(s)' => Made(s)) /\ (Wrote(s)' => Wrote(s))
        /\ E!Removing(f) => E!Removing(f)'
    <3>1. \A s \in E!Runs : (Made(s)' => Made(s)) /\ (Wrote(s)' => Wrote(s))
      BY <2>0 DEF Made, Wrote, E!Queued
    <3>2. \A s \in E!Runs : E!At(s, "drop") => task'[s] = task[s]
      BY <2>0 DEF E!None
    <3>3. QED
      BY <2>a, <3>1, <3>2 DEF E!Removing, E!HasRead
  <2>2. QED
    BY <1>2, <2>1, KeptFrame DEF E!Redeliver, Kept, Own
<1>3. ASSUME NEW e \in E!Exports, E!Age(e) PROVE KeptAt(f)'
  <2>1. /\ \A s \in E!Runs : (Made(s)' => Made(s)) /\ (Wrote(s)' => Wrote(s))
        /\ E!Removing(f) => E!Removing(f)'
    BY <1>3 DEF E!Age, Made, Wrote, E!Removing, E!HasRead
  <2>2. QED
    BY <1>3, <2>1, KeptFrame DEF E!Age, Kept, Own
<1>4. ASSUME NEW r \in E!Runs, E!Receive(r) PROVE KeptAt(f)'
  <2>1. \A s \in E!Runs : (Made(s)' => Made(s)) /\ (Wrote(s)' => Wrote(s))
    BY <1>4, RunSteps, Moves DEF E!Work, E!Receive, E!Prepare, E!Write, Made, Wrote
  <2>2. E!Removing(f) /\ E!There(f)' /\ f \notin stripped' => E!Removing(f)'
    BY <1>4, RemovalsGoOn DEF E!Work
  <2>3. QED
    BY <1>4, <2>1, <2>2, KeptFrame DEF E!Receive, Kept, Own
<1>5. ASSUME NEW r \in E!Runs, E!Claim(r) PROVE KeptAt(f)'
  <2>1. \A s \in E!Runs : (Made(s)' => Made(s)) /\ (Wrote(s)' => Wrote(s))
    BY <1>5, RunSteps, Moves DEF E!Work, E!Claim, E!Prepare, E!Write, Made, Wrote
  <2>2. E!Removing(f) /\ E!There(f)' /\ f \notin stripped' => E!Removing(f)'
    BY <1>5, RemovalsGoOn DEF E!Work
  <2>3. E!There(f)' => /\ E!There(f) /\ exportRow'[f].result = exportRow[f].result
                      /\ (exportRow'[f].status = "complete" => exportRow[f].status = "complete")
    BY <1>5, RunParts, RowMoves DEF E!Claim
  <2>4. QED
    BY <1>5, <2>1, <2>2, <2>3, KeptFrame DEF E!Claim, Kept, Own
<1>6. ASSUME NEW r \in E!Runs, E!FindStuck(r) PROVE KeptAt(f)'
  <2>1. \A s \in E!Runs : (Made(s)' => Made(s)) /\ (Wrote(s)' => Wrote(s))
    BY <1>6, RunSteps, Moves DEF E!Work, E!FindStuck, E!Prepare, E!Write, Made, Wrote
  <2>2. E!Removing(f) /\ E!There(f)' /\ f \notin stripped' => E!Removing(f)'
    BY <1>6, RemovalsGoOn DEF E!Work
  <2>3. QED
    BY <1>6, <2>1, <2>2, KeptFrame DEF E!FindStuck, Kept, Own
<1>7. ASSUME NEW r \in E!Runs, E!MarkStuck(r) PROVE KeptAt(f)'
  <2>1. \A s \in E!Runs : (Made(s)' => Made(s)) /\ (Wrote(s)' => Wrote(s))
    BY <1>7, RunSteps DEF E!Work, E!MarkStuck, E!Prepare, E!Write
  <2>2. E!Removing(f) /\ E!There(f)' /\ f \notin stripped' => E!Removing(f)'
    BY <1>7, RemovalsGoOn DEF E!Work
  <2>3. CASE f \in old
    BY <1>7, <2>3 DEF E!MarkStuck, KeptAt
  <2>4. CASE f \notin old
    <3>1. exportRow'[f] = exportRow[f]
      BY <1>7, <2>4 DEF E!MarkStuck, E!HasRead, Phases, PhaseAt
    <3>2. QED
      BY <1>7, <2>1, <2>2, <3>1, KeptFrame DEF E!MarkStuck, Kept, Own
  <2>5. QED
    BY <2>3, <2>4
<1>8. ASSUME NEW r \in E!Runs, E!Refuse(r) PROVE KeptAt(f)'
  <2>1. \A s \in E!Runs : (Made(s)' => Made(s)) /\ (Wrote(s)' => Wrote(s))
    BY <1>8, RunSteps, Moves DEF E!Work, E!Refuse, E!Prepare, E!Write, Made, Wrote
  <2>2. E!Removing(f) /\ E!There(f)' /\ f \notin stripped' => E!Removing(f)'
    BY <1>8, RemovalsGoOn DEF E!Work
  <2>3. QED
    BY <1>8, <2>1, <2>2, KeptFrame DEF E!Refuse, Kept, Own
<1>9. ASSUME NEW r \in E!Runs, E!Prepare(r) PROVE KeptAt(f)'
  <2>0. /\ r[1] \in E!Exports /\ task[r].status = "processing" /\ Past(r)
        /\ task'[r].pc = "write" /\ \A s \in E!Runs \ {r} : task'[s] = task[s]
    BY <1>9, RunParts, Moves DEF E!Prepare, Phases, PhaseAt, Past, Busy
  <2>1. \A s \in E!Runs \ {r} : (Made(s)' => Made(s)) /\ (Wrote(s)' => Wrote(s))
    BY <2>0 DEF Made, Wrote
  <2>2. CASE r[1] = f
    <3>1. f \notin overtaken => \A s \in E!Runs : s[1] = f /\ Made(s)' => s = r
      BY <2>0, <2>1, <2>2 DEF Single, SingleAt, Past, Made, Wrote, Busy
    <3>2. exportRow'[f].result = r /\ exportRow'[f].status = "processing" /\ ~Wrote(r)'
      BY <1>9, <2>0, <2>2 DEF E!Prepare, Wrote, E!ExportsTypeOK
    <3>3. QED
      BY <1>9, <3>1, <3>2 DEF E!Prepare, KeptAt
  <2>3. CASE r[1] # f
    <3>1. /\ exportRow'[f] = exportRow[f]
          /\ \A s \in E!Runs : s[1] = f => exportFiles'[s] = exportFiles[s]
      BY <1>9, <2>0, <2>3, RowMoves, FileChanges DEF E!Prepare, E!File
    <3>2. E!Removing(f) /\ E!There(f)' /\ f \notin stripped' => E!Removing(f)'
      BY <1>9, RemovalsGoOn DEF E!Work
    <3>3. \A s \in E!Runs : s[1] = f =>
            /\ (Made(s)' => Made(s)) /\ (Wrote(s)' => Wrote(s))
            /\ exportFiles[s] = "whole" => exportFiles'[s] = "whole" \/ E!Removing(f)'
      BY <2>1, <2>3, <3>1
    <3>4. QED
      BY <1>9, <3>1, <3>2, <3>3, KeptFrame DEF E!Prepare, Kept, Own
  <2>4. QED
    BY <2>2, <2>3
<1>10. ASSUME NEW r \in E!Runs, E!Write(r) PROVE KeptAt(f)'
  <2>0. /\ r[1] \in E!Exports /\ Made(r) /\ task'[r].pc = "touch"
        /\ \A s \in E!Runs \ {r} : task'[s] = task[s]
    BY <1>10, RunParts, Moves DEF E!Write, Made
  <2>1. /\ \A s \in E!Runs \ {r} : (Made(s)' => Made(s)) /\ (Wrote(s)' => Wrote(s))
        /\ \A s \in E!Runs \ {r} : exportFiles'[s] = exportFiles[s]
        /\ exportFiles'[r] = "whole"
    BY <1>10, <2>0, FileChanges DEF E!Write, Made, Wrote, E!File
  <2>2. E!Removing(f) /\ E!There(f)' /\ f \notin stripped' => E!Removing(f)'
    BY <1>10, RemovalsGoOn DEF E!Work
  <2>3. \A s \in E!Runs : exportFiles[s] = "whole" => exportFiles'[s] = "whole"
    BY <2>1
  <2>4. E!HasFile(f, {"whole"}) => E!HasFile(f, {"whole"})'
    BY <1>10, <2>3 DEF E!Write, E!HasFile
  <2>5. SUFFICES ASSUME f \notin old \cup stripped \cup overtaken, E!There(f)
                 PROVE  KeptAt(f)'
    BY <1>10 DEF E!Write, KeptAt
  <2>6. KeptAt(f) /\ exportRow' = exportRow
    BY <1>10 DEF E!Write, Kept
  <2>7. E!Removing(f) => E!Removing(f)'
    BY <1>10, <2>2, <2>5 DEF E!Write
  <2>8. \A s \in E!Runs : s[1] = f /\ Made(s)' =>
          /\ exportRow'[f].result = s
          /\ Wrote(s)' /\ ~E!Removing(f)' => exportFiles'[s] = "whole"
    BY <2>0, <2>1, <2>5, <2>6, <2>7 DEF KeptAt
  <2>9. exportRow'[f].status = "complete" /\ ~E!Removing(f)' => E!HasFile(f, {"whole"})'
    BY <2>4, <2>5, <2>6, <2>7 DEF KeptAt
  <2>10. QED
    BY <2>8, <2>9 DEF KeptAt
<1>11. ASSUME NEW r \in E!Runs, E!Touch(r) PROVE KeptAt(f)'
  <2>1. \A s \in E!Runs : (Made(s)' => Made(s)) /\ (Wrote(s)' => Wrote(s))
    BY <1>11, RunSteps, Moves DEF E!Work, E!Touch, E!Prepare, E!Write, Made, Wrote
  <2>2. E!Removing(f) /\ E!There(f)' /\ f \notin stripped' => E!Removing(f)'
    BY <1>11, RemovalsGoOn DEF E!Work
  <2>3. QED
    BY <1>11, <2>1, <2>2, KeptFrame DEF E!Touch, Kept, Own
<1>12. ASSUME NEW r \in E!Runs, E!FindExcess(r) PROVE KeptAt(f)'
  <2>1. \A s \in E!Runs : (Made(s)' => Made(s)) /\ (Wrote(s)' => Wrote(s))
    BY <1>12, RunSteps, Moves DEF E!Work, E!FindExcess, E!Prepare, E!Write, Made, Wrote
  <2>2. E!Removing(f) /\ E!There(f)' /\ f \notin stripped' => E!Removing(f)'
    BY <1>12, RemovalsGoOn DEF E!Work
  <2>3. QED
    BY <1>12, <2>1, <2>2, KeptFrame DEF E!FindExcess, Kept, Own
<1>13. ASSUME NEW r \in E!Runs, E!UnlinkExcess(r) PROVE KeptAt(f)'
  <2>1. \A s \in E!Runs : (Made(s)' => Made(s)) /\ (Wrote(s)' => Wrote(s))
    BY <1>13, RunSteps DEF E!Work, E!UnlinkExcess, E!Prepare, E!Write
  <2>2. E!Removing(f) /\ E!There(f)' /\ f \notin stripped' => E!Removing(f)'
    BY <1>13, RemovalsGoOn DEF E!Work
  <2>3. task'[r].pc = "drop" /\ task'[r].read = task[r].read /\ task[r] # E!None
    BY <1>13, Moves DEF E!UnlinkExcess
  <2>4. ASSUME NEW s \in E!Runs, s[1] = f, exportFiles[s] = "whole"
        PROVE  exportFiles'[s] = "whole" \/ E!Removing(f)'
    <3>1. CASE s \notin {x[2] : x \in task[r].read}
      BY <1>13, <2>4, <3>1, FileChanges DEF E!UnlinkExcess
    <3>2. ASSUME NEW x \in task[r].read, x[2] = s PROVE E!Removing(f)'
      <4>1. x[1] = f
        BY <2>3, <2>4, <3>2, RunParts DEF Own, ReadsOwn
      <4>2. QED
        BY <2>3, <4>1 DEF E!Removing, E!HasRead
    <3>3. QED
      BY <3>1, <3>2
  <2>5. QED
    BY <1>13, <2>1, <2>2, <2>4, KeptFrame DEF E!UnlinkExcess, Kept, Own
<1>14. ASSUME NEW r \in E!Runs, E!RemoveExcess(r) PROVE KeptAt(f)'
  <2>1. \A s \in E!Runs : (Made(s)' => Made(s)) /\ (Wrote(s)' => Wrote(s))
    BY <1>14, RunSteps, Moves DEF E!Work, E!RemoveExcess, E!Prepare, E!Write, Made, Wrote
  <2>2. E!Removing(f) /\ E!There(f)' /\ f \notin stripped' => E!Removing(f)'
    BY <1>14, RemovalsGoOn DEF E!Work
  <2>3. E!There(f)' => /\ E!There(f) /\ exportRow'[f].result = exportRow[f].result
                      /\ (exportRow'[f].status = "complete" => exportRow[f].status = "complete")
    BY <1>14 DEF E!RemoveExcess
  <2>4. QED
    BY <1>14, <2>1, <2>2, <2>3, KeptFrame DEF E!RemoveExcess, Kept, Own
<1>15. ASSUME NEW r \in E!Runs, E!Raise(r) PROVE KeptAt(f)'
  <2>1. \A s \in E!Runs : (Made(s)' => Made(s)) /\ (Wrote(s)' => Wrote(s))
    BY <1>15, RunSteps, Moves DEF E!Work, E!Raise, E!Prepare, E!Write, Made, Wrote
  <2>2. E!Removing(f) /\ E!There(f)' /\ f \notin stripped' => E!Removing(f)'
    BY <1>15, RemovalsGoOn DEF E!Work
  <2>3. QED
    BY <1>15, <2>1, <2>2, KeptFrame DEF E!Raise, Kept, Own
<1>16. ASSUME NEW r \in E!Runs, E!Finish(r) PROVE KeptAt(f)'
  <2>0. r[1] \in E!Exports /\ Past(r)
    BY <1>16, RunParts DEF E!Finish, Past
  <2>1. \A s \in E!Runs : (Made(s)' => Made(s)) /\ (Wrote(s)' => Wrote(s))
    BY <1>16, RunSteps DEF E!Work, E!Finish, E!Prepare, E!Write
  <2>2. E!Removing(f) /\ E!There(f)' /\ f \notin stripped' => E!Removing(f)'
    BY <1>16, RemovalsGoOn DEF E!Work
  <2>3. CASE r[1] # f \/ ~E!There(f) \/ task[r].status # "complete"
    BY <1>16, <2>0, <2>1, <2>2, <2>3, RowMoves, KeptFrame DEF E!Finish, Kept, Own
  <2>4. CASE r[1] = f /\ E!There(f) /\ task[r].status = "complete"
    <3>0. SUFFICES ASSUME f \notin old \cup stripped \cup overtaken PROVE KeptAt(f)'
      BY <1>16 DEF E!Finish, KeptAt
    <3>1. exportRow'[f].result = exportRow[f].result
      BY <1>16, <2>0, <2>4, RowMoves DEF E!Finish
    <3>2. Wrote(r) /\ Made(r)
      BY <1>16, <2>4 DEF E!Finish, Wrote, Made
    <3>3. \A s \in E!Runs : s[1] = f => ~Made(s)'
      <4>1. \A s \in E!Runs : s[1] = f /\ Made(s)' => s = r
        BY <2>0, <2>1, <2>4, <3>0 DEF Single, SingleAt, Past, Made, Wrote, Busy
      <4>2. ~Made(r)'
        BY <1>16, Moves DEF E!Finish, Made, Wrote
      <4>3. QED
        BY <4>1, <4>2
    <3>4. exportRow[f].result = r /\ (~E!Removing(f) => exportFiles[r] = "whole")
      BY <2>4, <3>0, <3>2 DEF Kept, KeptAt
    <3>5. ~E!Removing(f)' => E!HasFile(f, {"whole"})'
      <4>1. E!There(f)' /\ f \notin stripped'
        BY <1>16, <2>0, <2>4, <3>0, RowMoves DEF E!Finish
      <4>2. QED
        BY <1>16, <2>2, <3>1, <3>4, <4>1 DEF E!Finish, E!HasFile
    <3>6. QED
      BY <3>3, <3>5 DEF KeptAt
  <2>5. QED
    BY <2>3, <2>4
<1>17. ASSUME NEW r \in E!Runs, E!Crash(r) PROVE KeptAt(f)'
  <2>1. \A s \in E!Runs : (Made(s)' => Made(s)) /\ (Wrote(s)' => Wrote(s))
    BY <1>17, RunSteps, Moves DEF E!Work, E!Crash, E!Prepare, E!Write, Made, Wrote
  <2>2. E!Removing(f) /\ E!There(f)' /\ f \notin stripped' => E!Removing(f)'
    BY <1>17, RemovalsGoOn DEF E!Work
  <2>3. QED
    BY <1>17, <2>1, <2>2, KeptFrame DEF E!Crash, Kept, Own
<1>18. ASSUME NEW e \in E!Exports, E!FetchExport(e) PROVE KeptAt(f)'
  <2>1. /\ \A s \in E!Runs : (Made(s)' => Made(s)) /\ (Wrote(s)' => Wrote(s))
        /\ E!Removing(f) => E!Removing(f)'
    BY <1>18, RowMoves DEF E!FetchExport, Made, Wrote, E!Removing, E!HasRead, E!None
  <2>2. QED
    BY <1>18, <2>1, KeptFrame DEF E!FetchExport, Kept, Own
<1>19. ASSUME NEW e \in E!Exports, E!DeleteFile(e) PROVE KeptAt(f)'
  <2>1. /\ \A s \in E!Runs : (Made(s)' => Made(s)) /\ (Wrote(s)' => Wrote(s))
        /\ E!Removing(f) => E!Removing(f)'
    BY <1>19, DeletionMoves DEF E!DeleteFile, Made, Wrote, E!Removing, E!HasRead
  <2>2. deletion[e] # E!None /\ deletion'[e].pc = "row"
    BY <1>19, DeletionMoves DEF E!DeleteFile
  <2>3. ASSUME NEW s \in E!Runs, s[1] = f, exportFiles[s] = "whole"
        PROVE  exportFiles'[s] = "whole" \/ E!Removing(f)'
    <3>1. CASE s # deletion[e].result
      BY <1>19, <2>3, <3>1, FileChanges DEF E!DeleteFile
    <3>2. CASE s = deletion[e].result
      <4>1. e = f
        BY <2>2, <2>3, <3>2, RunParts DEF Own, OwnAt
      <4>2. QED
        BY <2>2, <4>1 DEF E!Removing
    <3>3. QED
      BY <3>1, <3>2
  <2>4. QED
    BY <1>19, <2>1, <2>3, KeptFrame DEF E!DeleteFile, Kept, Own
<1>20. ASSUME NEW e \in E!Exports, E!DeleteRow(e) PROVE KeptAt(f)'
  <2>1. \A s \in E!Runs : (Made(s)' => Made(s)) /\ (Wrote(s)' => Wrote(s))
    BY <1>20 DEF E!DeleteRow, Made, Wrote
  <2>2. CASE e = f
    <3>1. ~E!There(f)'
      BY <1>20, <2>2 DEF E!DeleteRow, E!ExportsTypeOK
    <3>2. QED
      BY <3>1 DEF KeptAt
  <2>3. CASE e # f
    <3>1. exportRow'[f] = exportRow[f] /\ deletion'[f] = deletion[f]
      BY <1>20, <2>3, RowMoves DEF E!DeleteRow
    <3>2. E!Removing(f) => E!Removing(f)'
      BY <1>20, <3>1 DEF E!DeleteRow, E!Removing, E!HasRead
    <3>3. QED
      BY <1>20, <2>1, <3>1, <3>2, KeptFrame DEF E!DeleteRow, Kept, Own
  <2>4. QED
    BY <2>2, <2>3
<1>21. QED
  BY <1>1, <1>2, <1>3, <1>4, <1>5, <1>6, <1>7, <1>8, <1>9, <1>10, <1>11, <1>12, <1>13, <1>14,
     <1>15, <1>16, <1>17, <1>18, <1>19, <1>20 DEF E!ExportsNext, E!Work

(* The invariant holds at first, before any export.                        *)
LEMMA ExportsStart == E!ExportsInit => ExportsInv
<1> SUFFICES ASSUME E!ExportsInit PROVE ExportsInv
  OBVIOUS
<1>1. E!ExportsTypeOK
  BY BoundsAssumption DEF E!ExportsInit, E!ExportsTypeOK, E!File
<1>2. \A r \in E!Runs : task[r] = E!None
  BY DEF E!ExportsInit
<1>3. \A e \in E!Exports : exportRow[e] = E!Gone /\ deletion[e] = E!None /\ e \notin old
  BY DEF E!ExportsInit
<1>4. Fresh /\ Own /\ Phases
  BY <1>2, <1>3 DEF Fresh, Own, OwnAt, ReadsOwn, Phases, PhaseAt, Busy, E!There, E!None
<1>5. Single /\ Kept
  BY <1>2, <1>3 DEF Single, SingleAt, Past, Busy, Kept, KeptAt, E!There, E!None, E!Gone
<1>6. QED
  BY <1>1, <1>4, <1>5 DEF ExportsInv

(* The invariant is inductive.                                             *)
LEMMA ExportsGoOn ==
  ASSUME ExportsInv, [E!ExportsNext]_exportVars
  PROVE  ExportsInv'
<1>1. CASE E!ExportsNext
  <2>1. E!ExportsTypeOK /\ Fresh /\ Own /\ Phases /\ Single /\ Kept
    BY DEF ExportsInv
  <2>2. E!ExportsTypeOK'
    BY <1>1, <2>1, ExportTypes
  <2>3. Own' /\ Phases'
    <3>1. \A f \in E!Exports : OwnAt(f)'
      BY <1>1, <2>1, ExportsOwn
    <3>2. \A t \in E!Runs : ReadsOwn(t)' /\ PhaseAt(t)'
      BY <1>1, <2>1, ExportsPhases
    <3>3. QED
      BY <3>1, <3>2 DEF Own, Phases
  <2>4. Fresh'
    <3>1. \A f \in E!Exports :
            /\ delivered'[f] = 0 =>
                 exportRow'[f] = E!Gone /\ deletion'[f] = E!None /\ f \notin old'
            /\ \A t \in E!Runs : t[2] > delivered'[t[1]] => task'[t] = E!None
      BY <1>1, <2>1, ExportsFresh
    <3>2. QED
      BY <3>1, RunParts DEF Fresh
  <2>5. Single'
    BY <1>1, <2>1, ExportsSingle DEF Single
  <2>6. Kept'
    BY <1>1, <2>1, ExportsKept DEF Kept
  <2>7. QED
    BY <2>2, <2>3, <2>4, <2>5, <2>6 DEF ExportsInv
<1>2. CASE UNCHANGED exportVars
  <2>1. E!ExportsTypeOK' /\ Fresh' /\ Own' /\ Phases' /\ Single'
    BY <1>2
       DEF exportVars, ExportsInv, E!ExportsTypeOK, Fresh, Own, OwnAt, ReadsOwn, Phases, PhaseAt,
           Busy, Single, SingleAt, Past, E!There
  <2>2. Kept'
    BY <1>2
       DEF exportVars, ExportsInv, Kept, KeptAt, Made, Wrote, E!There, E!Removing, E!At, E!HasRead,
           E!HasFile
  <2>3. QED
    BY <2>1, <2>2 DEF ExportsInv
<1>3. QED
  BY <1>1, <1>2

(* What the invariant is for.                                              *)
LEMMA ExportsWhole == ExportsInv => E!CompleteIsWhole
  BY DEF ExportsInv, Kept, KeptAt, E!CompleteIsWhole, E!COMPLETE, E!There, E!Gone

(* The same in the composition, where the other components' steps change   *)
(* nothing of exports.                                                     *)
LEMMA BackgroundExports ==
  /\ BackgroundInit => ExportsInv
  /\ ExportsInv /\ [BackgroundNext]_backgroundVars => ExportsInv'
<1>1. BackgroundInit => ExportsInv
  BY ExportsStart DEF BackgroundInit
<1>2. [BackgroundNext]_backgroundVars => [E!ExportsNext]_exportVars
  BY DEF backgroundVars, BackgroundNext, Deliver, Synchronous, Export, Import, exportVars
<1>3. QED
  BY <1>1, <1>2, ExportsGoOn

(* Exports: in every behaviour, for every Count, Limit and MaxDeletions    *)
(* and however often messages are delivered, the types of rows, runs and   *)
(* files hold, of the runs of one export only one works unless it overtook *)
(* another, and the file of a complete row is its own and whole            *)
(* (models/import_export_task.py, ExportTaskBase).                         *)
THEOREM ExportsInductive == BackgroundSpec => []ExportsInv
<1>1. BackgroundSpec => BackgroundInit /\ [][BackgroundNext]_backgroundVars
  BY PTL DEF BackgroundSpec
<1>2. QED
  BY <1>1, BackgroundExports, PTL

(* One step: a complete row that is not old, and that no run has            *)
(* overtaken, is left alone or deleted.                                    *)
LEMMA FinalStep ==
  ASSUME ExportsInv, [E!ExportsNext]_exportVars
  PROVE  \A e \in E!Exports \ (old \cup overtaken') : exportRow[e].status = E!COMPLETE =>
           exportRow'[e].status \in {E!COMPLETE, "gone"}
<1> SUFFICES ASSUME NEW f \in E!Exports, f \notin old, f \notin overtaken',
                    exportRow[f].status = E!COMPLETE
             PROVE  exportRow'[f].status \in {E!COMPLETE, "gone"}
  OBVIOUS
<1>0. /\ E!ExportsTypeOK /\ E!There(f) /\ delivered[f] # 0
      /\ f \notin overtaken => \A r \in E!Runs : r[1] = f => ~Past(r)
      /\ exportRow[f].status = "complete"
  BY DEF ExportsInv, Single, SingleAt, Fresh, E!COMPLETE, E!Gone, E!There
<1>1. ASSUME NEW e \in E!Exports, E!Create(e) PROVE exportRow'[f] = exportRow[f]
  BY <1>0, <1>1, RowMoves DEF E!Create
<1>2. ASSUME NEW r \in E!Runs, E!MarkStuck(r) PROVE exportRow'[f] = exportRow[f]
  BY <1>2 DEF E!MarkStuck, E!HasRead, E!At, ExportsInv, Phases, PhaseAt
<1>3. ASSUME NEW r \in E!Runs, E!RemoveExcess(r)
      PROVE  exportRow'[f] = exportRow[f] \/ exportRow'[f] = E!Gone
  BY <1>3 DEF E!RemoveExcess
<1>4. ASSUME NEW e \in E!Exports, E!DeleteRow(e)
      PROVE  exportRow'[f] = exportRow[f] \/ exportRow'[f] = E!Gone
  BY <1>0, <1>4, RowMoves DEF E!DeleteRow
<1>5. ASSUME NEW r \in E!Runs, E!Claim(r) PROVE exportRow'[f] = exportRow[f]
  <2>1. task[r].status = "created"
    BY <1>5 DEF E!Claim, E!At, ExportsInv, Phases, PhaseAt
  <2>2. r[1] # f
    BY <1>0, <1>5, <2>1 DEF E!Claim, E!Overtakes, E!There
  <2>3. QED
    BY <1>0, <1>5, <2>2, RunParts, RowMoves DEF E!Claim
<1>6. ASSUME NEW r \in E!Runs, E!Prepare(r) \/ E!Finish(r) PROVE exportRow'[f] = exportRow[f]
  <2>1. Past(r) /\ f \notin overtaken
    BY <1>6 DEF E!Prepare, E!Finish, E!At, Past, Busy
  <2>2. r[1] # f
    BY <1>0, <2>1
  <2>3. QED
    BY <1>0, <1>6, <2>2, RunParts, RowMoves DEF E!Prepare, E!Finish
<1>7. ASSUME NEW r \in E!Runs,
             \/ E!Receive(r) \/ E!FindStuck(r) \/ E!Refuse(r) \/ E!Write(r) \/ E!Touch(r)
             \/ E!FindExcess(r) \/ E!UnlinkExcess(r) \/ E!Raise(r) \/ E!Crash(r)
      PROVE  exportRow'[f] = exportRow[f]
  BY <1>7 DEF E!Receive, E!FindStuck, E!Refuse, E!Write, E!Touch, E!FindExcess, E!UnlinkExcess,
              E!Raise, E!Crash
<1>8. ASSUME NEW e \in E!Exports, E!Redeliver(e) \/ E!Age(e) \/ E!FetchExport(e) \/ E!DeleteFile(e)
      PROVE  exportRow'[f] = exportRow[f]
  BY <1>8 DEF E!Redeliver, E!Age, E!FetchExport, E!DeleteFile
<1>9. CASE UNCHANGED exportVars
  BY <1>9 DEF exportVars
<1>10. QED
  BY <1>1, <1>2, <1>3, <1>4, <1>5, <1>6, <1>7, <1>8, <1>9 DEF E!ExportsNext, E!Work, E!Gone

(* A complete export stays complete until it is deleted, however often its *)
(* message is delivered and whoever removes other exports, with two        *)
(* exceptions: what is old enough to pass for stuck, which                 *)
(* log_and_mark_stuck_as_errored() may mark, and what a second run claimed *)
(* that had read its status before another run claimed it                  *)
(* (ImportExportTask.run(), models/import_export_task.py).                 *)
THEOREM CompleteStaysComplete == BackgroundSpec => CompleteIsFinal
<1>1. BackgroundSpec => BackgroundInit /\ [][BackgroundNext]_backgroundVars
  BY PTL DEF BackgroundSpec
<1>2. ExportsInv /\ [BackgroundNext]_backgroundVars =>
        [\A e \in E!Exports \ (old \cup overtaken') : exportRow[e].status = E!COMPLETE =>
           exportRow'[e].status \in {E!COMPLETE, "gone"}]_exportVars
  <2>1. [BackgroundNext]_backgroundVars => [E!ExportsNext]_exportVars
    BY DEF backgroundVars, BackgroundNext, Deliver, Synchronous, Export, Import, exportVars
  <2>2. QED
    BY <2>1, FinalStep
<1>3. QED
  BY <1>1, <1>2, ExportsInductive, PTL
     DEF CompleteIsFinal, E!CompleteIsFinal, exportVars, E!exportVars
=============================================================================
