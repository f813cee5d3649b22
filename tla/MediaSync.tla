------------------------------ MODULE MediaSync ------------------------------
(***************************************************************************)
(* The media files of one deployed form (kpi/models/asset_file.py): what   *)
(* KPI has, what KoBoCAT has, and the two that bring them together:        *)
(* KobocatDeploymentBackend.sync_media_files(), which a Celery worker runs *)
(* after a deployment, and the command sync_kobocat_form_media, which      *)
(* takes over what was uploaded to KoBoCAT directly.                       *)
(*                                                                         *)
(* Both compare a list that they ask for once with rows that they read     *)
(* once, and go on when either has changed.  Every call of KoBoCAT may     *)
(* fail, before or after KoBoCAT has done what it asks for.                *)
(***************************************************************************)
EXTENDS Integers, Sequences, FiniteSets

CONSTANTS Originals,   \* names that users give to files
          Hashes,      \* what a file contains
          Workers,     \* Celery's, or who runs the command
          Nothing,
          MaxFiles,    \* how many files KPI may come to have (a bound)
          MaxMetadata  \* how many KoBoCAT may come to have (a bound)

\* Who gives a name to a file does not give one that the command makes.
ASSUME NamesAssumption == \A m, n \in Originals : <<"copy-of", m>> # n

VARIABLES files,       \* rows of AssetFile, and what became of them
          gone,        \* those that are flagged as deleted, by date_deleted
          metadata,    \* of KoBoCAT, by name, which is unique there
          posted,      \* how many it has had
          work,        \* what each worker is doing; `alone`: with nobody in between
          doubled      \* history: names that two files of KPI have had together

mediaVars == <<files, gone, metadata, posted, work, doubled>>

CopyOf(n) == <<"copy-of", n>>
Names     == Originals \cup {CopyOf(n) : n \in Originals}
Ids       == 1..MaxFiles

File == [name : Names, hash : Hashes, state : {"live", "gone", "away"}, synced : BOOLEAN]
Meta == [pk : 1..MaxMetadata, hash : Hashes, fromKpi : BOOLEAN]

Idle == [pc |-> "idle"]

\* The model value for what is not there is no record of KoBoCAT's.
ASSUME NothingAssumption == \A m \in Meta : m # Nothing

MediaTypeOK ==
  /\ files \in Seq(File) /\ Len(files) <= MaxFiles
  /\ \A i \in DOMAIN files : files[i].state = "gone" <=> \E k \in DOMAIN gone : gone[k] = i
  /\ gone \in Seq(DOMAIN files) /\ \A j, k \in DOMAIN gone : gone[j] = gone[k] => j = k
  /\ metadata \in [Names -> Meta \cup {Nothing}]
  /\ posted \in 0..MaxMetadata
  /\ \A m, n \in Names : m # n /\ metadata[m] # Nothing /\ metadata[n] # Nothing =>
       metadata[m].pk # metadata[n].pk

MediaInit ==
  /\ files = << >> /\ gone = << >> /\ posted = 0
  /\ metadata = [n \in Names |-> Nothing]
  /\ work = [w \in Workers |-> Idle]
  /\ doubled = {}

-----------------------------------------------------------------------------
Live(n) == {i \in DOMAIN files : files[i].state = "live" /\ files[i].name = n}

At(w, pc) == work[w].pc = pc

(* What a worker does next, having changed something, which the others     *)
(* have in between, or nothing.                                            *)
Becomes(by, v) ==
  work' = [w \in Workers |-> IF w = by THEN v ELSE IF work[w] = Idle THEN Idle
                             ELSE [work[w] EXCEPT !.alone = FALSE]]

Continues(w, v) == work' = [work EXCEPT ![w] = v]
Disturb         == Becomes(Nothing, Idle)

(* AssetFileSerializer._validate_duplicate(): one file of a name that is   *)
(* not deleted.                                                            *)
Upload(n, h) ==
  /\ Len(files) < MaxFiles
  /\ Live(n) = {}
  /\ files' = Append(files, [name |-> n, hash |-> h, state |-> "live", synced |-> FALSE])
  /\ Disturb
  /\ UNCHANGED <<gone, metadata, posted>>

(* AssetFile.delete() without force.                                       *)
Delete(i) ==
  /\ files[i].state = "live"
  /\ files' = [files EXCEPT ![i].state = "gone", ![i].synced = FALSE]
  /\ gone' = Append(gone, i)
  /\ Disturb
  /\ UNCHANGED <<metadata, posted>>

\* KoBoCAT's own users.
DirectUpload(n, h) ==
  /\ metadata[n] = Nothing /\ posted < MaxMetadata
  /\ posted' = posted + 1
  /\ metadata' = [metadata EXCEPT ![n] = [pk |-> posted + 1, hash |-> h, fromKpi |-> FALSE]]
  /\ Disturb
  /\ UNCHANGED <<files, gone>>

DirectDelete(n) ==
  /\ metadata[n] # Nothing /\ ~ metadata[n].fromKpi
  /\ metadata' = [metadata EXCEPT ![n] = Nothing]
  /\ Disturb
  /\ UNCHANGED <<files, gone, posted>>

-----------------------------------------------------------------------------
(* sync_media_files(): the list of KoBoCAT, `known`, and then the rows of  *)
(* KPI, `todo`, those that are deleted first.  async_media_files() asks    *)
(* for it after a deployment, whatever there is to do.                     *)
List(w) ==
  /\ work[w] = Idle
  /\ Continues(w, [pc |-> "query", known |-> metadata, todo |-> << >>, alone |-> TRUE])
  /\ UNCHANGED <<files, gone, metadata, posted>>

Instance(i) == [id |-> i, name |-> files[i].name, hash |-> files[i].hash,
                deleted |-> files[i].state = "gone"]

Query(w) ==
  /\ At(w, "query")
  /\ LET live == {i \in DOMAIN files : files[i].state = "live"}
     IN  \E order \in [1..Cardinality(live) -> live] :
           /\ \A i \in live : \E k \in DOMAIN order : order[k] = i
           /\ LET ids == gone \o order
              IN  Continues(w, [work[w] EXCEPT !.pc = "next",
                                  !.todo = [k \in DOMAIN ids |-> Instance(ids[k])]])
  /\ UNCHANGED <<files, gone, metadata, posted>>

\* Of ids that differ.
Without(s, i) ==
  IF \A k \in DOMAIN s : s[k] # i THEN s
  ELSE LET at == CHOOSE k \in DOMAIN s : s[k] = i
       IN  [k \in 1..Len(s) - 1 |-> IF k < at THEN s[k] ELSE s[k + 1]]

(* delete(force=True) of the row, wherever it went.  (A mutant leaves it   *)
(* among those that are flagged.)                                          *)
PurgedForgetful(i) == files' = [files EXCEPT ![i].state = "away", ![i].synced = FALSE] /\ gone' = gone

Purged(i) ==
  /\ files' = [files EXCEPT ![i].state = "away", ![i].synced = FALSE]
  /\ gone' = Without(gone, i)

(* A file is done: its name is not an orphan.  (A mutant forgets to say    *)
(* so.)                                                                    *)
DoneForgetful(w) == [work[w] EXCEPT !.pc = "next", !.todo = Tail(@)]
Done(w) ==
  [pc |-> "next", known |-> [work[w].known EXCEPT ![Head(work[w].todo).name] = Nothing],
   todo |-> Tail(work[w].todo), alone |-> work[w].alone]

(* What is done about the next file:                                       *)
(*   post     it is new;                                                   *)
(*   replace  KoBoCAT has another of its name, whoever has uploaded it;    *)
(*   nothing  KoBoCAT has it;                                              *)
(*   remove   it is deleted, and KoBoCAT has it from KPI;                  *)
(*   purge    it is deleted, and KoBoCAT has not, or has its own, whose    *)
(*            name remains to be compared with the next one.               *)
Verdict(f, known) ==
  IF known[f.name] = Nothing THEN IF f.deleted THEN "purge" ELSE "post"
  ELSE IF f.deleted THEN IF known[f.name].fromKpi THEN "remove" ELSE "purge"
  ELSE IF f.hash = known[f.name].hash THEN "nothing" ELSE "replace"

Compare(w) ==
  /\ At(w, "next") /\ work[w].todo # << >>
  /\ LET f == Head(work[w].todo)
         v == Verdict(f, work[w].known)
     IN  CASE v = "nothing" -> /\ Continues(w, Done(w))
                               /\ UNCHANGED <<files, gone>>
           [] v = "purge"   -> /\ Purged(f.id)
                               /\ Becomes(w, [work[w] EXCEPT !.todo = Tail(@)])
           [] OTHER         -> /\ Continues(w, [work[w] EXCEPT !.pc = v])
                               /\ UNCHANGED <<files, gone>>
  /\ UNCHANGED <<metadata, posted>>

(* __save_kc_metadata(): KoBoCAT refuses a name that it has, and there is  *)
(* nothing to send of a file whose content is deleted.  The flag is set    *)
(* afterwards, whatever became of the row.  (A mutant sets it although     *)
(* KoBoCAT has refused.)                                                   *)
Flagged(i) == [files EXCEPT ![i].synced = TRUE]

SaveRefused(w) ==
  /\ At(w, "post")
  /\ files' = Flagged(Head(work[w].todo).id)
  /\ Continues(w, Done(w))
  /\ UNCHANGED <<gone, metadata, posted>>

Save(w) ==
  LET f == Head(work[w].todo)
  IN  \/ /\ At(w, "post") /\ posted < MaxMetadata
         /\ metadata[f.name] = Nothing /\ files[f.id].state # "away"
         /\ posted' = posted + 1
         /\ metadata' = [metadata EXCEPT ![f.name] =
                           [pk |-> posted + 1, hash |-> f.hash, fromKpi |-> TRUE]]
         /\ Becomes(w, [work[w] EXCEPT !.pc = "flag"])
         /\ UNCHANGED <<files, gone>>
      \/ /\ At(w, "flag") /\ files[f.id].state # "away"
         /\ files' = Flagged(f.id)
         /\ Continues(w, Done(w))
         /\ UNCHANGED <<gone, metadata, posted>>

(* __delete_kc_metadata(): by its pk; it fails when somebody was first.    *)
Deletes(w, n, v) ==
  /\ metadata[n] = work[w].known[n]
  /\ metadata' = [metadata EXCEPT ![n] = Nothing]
  /\ Becomes(w, v)
  /\ UNCHANGED <<files, gone, posted>>

Remove(w) ==
  \/ /\ At(w, "remove")
     /\ Deletes(w, Head(work[w].todo).name, [work[w] EXCEPT !.pc = "purge"])
  \/ /\ At(w, "purge")
     /\ Purged(Head(work[w].todo).id)
     /\ Becomes(w, Done(w))
     /\ UNCHANGED <<metadata, posted>>

Replace(w) ==
  At(w, "replace") /\ Deletes(w, Head(work[w].todo).name, [work[w] EXCEPT !.pc = "post"])

Orphans(w) == {n \in Names : work[w].known[n] # Nothing /\ work[w].known[n].fromKpi}

RemoveOrphan(w) ==
  /\ At(w, "next") /\ work[w].todo = << >>
  /\ \E n \in Orphans(w) : Deletes(w, n, [work[w] EXCEPT !.known[n] = Nothing])

Finish(w) ==
  /\ At(w, "next") /\ work[w].todo = << >> /\ Orphans(w) = {}
  /\ Continues(w, Idle)
  /\ UNCHANGED <<files, gone, metadata, posted>>

(* KoBoCAT does not answer or refuses, a row is gone, the worker dies.     *)
Cut(w) ==
  /\ work[w] # Idle /\ ~ (At(w, "next") /\ work[w].todo = << >> /\ Orphans(w) = {})
  /\ Continues(w, Idle)
  /\ UNCHANGED <<files, gone, metadata, posted>>

SyncMediaFiles(w) ==
  \/ List(w) \/ Query(w) \/ Compare(w) \/ Save(w) \/ Remove(w) \/ Replace(w)
  \/ RemoveOrphan(w) \/ Finish(w)

-----------------------------------------------------------------------------
(* Command._sync_media_files(): the files of KoBoCAT that are not KPI's.   *)
(* A file of KPI that has the name and not the content steps aside.  What  *)
(* KoBoCAT is told fails silently, and comes before the file is created.   *)
Direct == {n \in Names : metadata[n] # Nothing /\ ~ metadata[n].fromKpi}

AdoptionList(w) ==
  /\ work[w] = Idle /\ Direct # {}
  /\ Continues(w, [pc |-> "rename", known |-> metadata, todo |-> << >>, left |-> Direct,
                   at |-> Nothing, alone |-> TRUE])
  /\ UNCHANGED <<files, gone, metadata, posted, doubled>>

AdoptionRename(w) ==
  /\ At(w, "rename")
  /\ \E n \in work[w].left :
       LET others == {i \in Live(n) : files[i].hash # work[w].known[n].hash}
       IN  /\ Cardinality(others) < 2 /\ (n \in Originals \/ others = {})
           /\ files' = [i \in DOMAIN files |->
                          IF i \in others THEN [files[i] EXCEPT !.name = CopyOf(@)] ELSE files[i]]
           /\ Becomes(w, [work[w] EXCEPT !.pc = "tell", !.at = n])
  /\ UNCHANGED <<gone, metadata, posted, doubled>>

AdoptionTell(w) ==
  /\ At(w, "tell")
  /\ LET n == work[w].at
         same == \E i \in Live(n) : files[i].hash = work[w].known[n].hash
     IN  /\ Becomes(w, [work[w] EXCEPT !.pc = IF same THEN "rename" ELSE "create", !.left = @ \ {n}])
         /\ \/ UNCHANGED metadata
            \/ /\ metadata[n] # Nothing /\ metadata[n].pk = work[w].known[n].pk
               /\ metadata' = [metadata EXCEPT ![n].fromKpi = TRUE]
  /\ UNCHANGED <<files, gone, posted, doubled>>

AdoptionCreate(w) ==
  /\ At(w, "create") /\ Len(files) < MaxFiles
  /\ files' = Append(files, [name |-> work[w].at, hash |-> work[w].known[work[w].at].hash,
                             state |-> "live", synced |-> FALSE])
  /\ Becomes(w, [work[w] EXCEPT !.pc = "rename"])
  /\ doubled' = IF Live(work[w].at) = {} THEN doubled ELSE doubled \cup {work[w].at}
  /\ UNCHANGED <<gone, metadata, posted>>

AdoptionEnd(w) ==
  /\ At(w, "rename") /\ work[w].left = {}
  /\ Continues(w, Idle)
  /\ UNCHANGED <<files, gone, metadata, posted, doubled>>

SyncKobocatFormMedia(w) ==
  \/ AdoptionList(w) \/ AdoptionRename(w) \/ AdoptionTell(w) \/ AdoptionCreate(w)
  \/ AdoptionEnd(w)

-----------------------------------------------------------------------------
Users ==
  \/ \E n \in Originals, h \in Hashes : Upload(n, h) \/ DirectUpload(n, h)
  \/ \E i \in DOMAIN files : Delete(i)
  \/ \E n \in Names : DirectDelete(n)

MediaNext ==
  \/ Users /\ UNCHANGED doubled
  \/ \E w \in Workers :
       \/ (SyncMediaFiles(w) \/ Cut(w)) /\ UNCHANGED doubled
       \/ SyncKobocatFormMedia(w)

MediaSpec == MediaInit /\ [][MediaNext]_mediaVars

-----------------------------------------------------------------------------
(* A file that KPI has for synchronized is in KoBoCAT, with its content,   *)
(* whatever failed and whoever synchronized it, unless the command has     *)
(* renamed it, which keeps the flag, or has created another of its name.   *)
SyncedIsInKobocat ==
  \A i \in DOMAIN files :
    files[i].state = "live" /\ files[i].synced /\ files[i].name \in Originals \ doubled =>
      /\ metadata[files[i].name] # Nothing
      /\ metadata[files[i].name].hash = files[i].hash

\* KPI's files and no others, save those that KoBoCAT has of its own.
Agrees ==
  /\ gone = << >>
  /\ \A n \in Names :
       IF Live(n) = {} THEN metadata[n] = Nothing \/ ~ metadata[n].fromKpi
       ELSE metadata[n] # Nothing /\ \E i \in Live(n) : files[i].hash = metadata[n].hash

(* A synchronization that ends, and in which nobody interfered, leaves in  *)
(* KoBoCAT what KPI has, and nothing in KPI that is deleted, whatever the  *)
(* ones before it have left; and the command leaves no file without its    *)
(* like in KPI: the next synchronization keeps them all.                   *)
SyncAgrees ==
  [][\A w \in Workers : work[w] # Idle /\ work'[w] = Idle /\ work[w].alone =>
       /\ At(w, "next") /\ work[w].todo = << >> /\ Orphans(w) = {} => Agrees
       /\ At(w, "rename") /\ work[w].left = {} =>
            \A n \in Names : work[w].known[n] # Nothing /\ ~ work[w].known[n].fromKpi =>
              \E i \in Live(n) : files[i].hash = work[w].known[n].hash
    ]_mediaVars

-----------------------------------------------------------------------------
(***************************************************************************)
(* What one would expect and TLC refutes: no run checks these.             *)
(***************************************************************************)

(* "Remote file has been uploaded directly to KC. We cannot delete it":    *)
(* a file of KPI with the same name and another content replaces it, and   *)
(* one that the command has taken over and not yet created is an orphan.   *)
DirectFilesStay ==
  [][\A n \in Names : n \in Direct /\ n \notin Direct' => metadata'[n] # Nothing \/ Users]_mediaVars

(* There is always a file that is not synchronized when the two disagree:  *)
(* a file that is deleted while it is being sent is flagged afterwards.    *)
DeletedIsNoticed ==
  \A i \in DOMAIN files : files[i].state = "gone" => ~ files[i].synced
=============================================================================
