------------------------------- MODULE Imports -------------------------------
(***************************************************************************)
(* One import (kpi/models/import_export_task.py, ImportTask), from its     *)
(* request (kpi/views/v2/import_task.py) to the assets that it creates or  *)
(* changes (kpi/utils/models.py, kpi/zip_importer.py).                     *)
(*                                                                         *)
(* The Celery message may be delivered more than once.  Nothing that an    *)
(* import does is undone when it fails, and nothing resumes it.            *)
(***************************************************************************)
EXTENDS Naturals, FiniteSets, SequencesExt

CONSTANTS Workers      \* that the message is delivered to, one after another or together

VARIABLES upload,      \* what is imported
          status,      \* of the row of ImportTask
          target,      \* the asset that is imported into: its type, content and name
          allowed,     \* whether the user may change it
          assets,      \* those that were created: item, parent and worker
          work,        \* what each worker is doing
          died,        \* history: whether a worker has died
          together     \* history: whether two workers have claimed the task

importVars == <<upload, status, target, allowed, assets, work, died, together>>

-----------------------------------------------------------------------------
\* An archive lists directories and files in any order, and directories not always.
\* Or else there is one file.  `Up` is the dirname.
Entries == {"a/", "a/b/", "a/x.xls"}
Up(e) == IF e \in {"a/b/", "a/x.xls"} THEN "a/" ELSE "root"
IsDir(e) == e \in {"root", "a/", "a/b/"}

Listings ==
  {<<"root">> \o s : s \in UNION {SetToSeqs(S) : S \in SUBSET Entries}} \cup {<<"form.xls">>}

(* parse(): "re-check to see if a better match exists"; what has no entry  *)
(* for its directory belongs to the archive.                               *)
ParentIn(l, e) == IF e = l[1] THEN "none" ELSE IF Up(e) \in ToSet(l) THEN Up(e) ELSE l[1]

(* What remove_empty_collections() leaves, when it finds no more of them.   *)
Pruned(l) ==
  LET rounds[n \in 0..Len(l)] ==
        IF n = 0 THEN ToSet(l)
        ELSE {e \in rounds[n - 1] :
                IsDir(e) /\ e # "root" => \E c \in rounds[n - 1] : ParentIn(l, c) = e}
  IN  rounds[Len(l)]

\* A library has rows in blocks and rows without; it becomes a collection.
Library == <<"library", "question", "block">>

\* What Survey, Library and Archive make of an upload, and in which order.
Items(u) ==
  CASE u.kind = "survey" /\ u.into = "none"  -> {"survey"}
    [] u.kind = "library"                    -> ToSet(Library)
    [] u.kind = "archive"                    -> Pruned(u.listing)
    [] OTHER                                 -> {}

Order(u) ==
  CASE u.kind = "library" -> Library [] u.kind = "archive" -> u.listing [] OTHER -> <<"survey">>

IsFirst(i, S) ==
  LET all == Order(upload)
  IN \E n \in 1..Len(all) : i \in S /\ all[n] = i /\ \A m \in 1..(n - 1) : all[m] \notin S

Place(u, i) ==
  CASE u.kind = "library" /\ i # "library" -> "library"
    [] u.kind = "archive" -> LET p == ParentIn(u.listing, i)
                             IN  IF p = "none" /\ u.into = "collection" THEN "target" ELSE p
    [] OTHER -> "none"

\* `asLibrary`: the user imports into the library; "both" has the two sheets.
Uploads ==
  [kind : {"survey", "library", "both", "broken"}, asLibrary : BOOLEAN,
   into : {"none", "survey", "empty", "collection"}, listing : {<< >>}]
  \cup [kind : {"archive"}, asLibrary : {FALSE},
        into : {"none", "survey", "collection"}, listing : Listings]

\* What is left to be created, and then to be moved to its parent.
NoWork == [pc |-> "none", copy |-> "none", todo |-> {}, moves |-> {}]

ImportsTypeOK ==
  /\ upload \in Uploads
  /\ status \in {"created", "processing", "complete", "error"}
  /\ target \in [type : {"none", "survey", "empty", "collection"},
                 content : {"old", "new"}, name : {"old", "edited"}]
  /\ allowed \in BOOLEAN /\ died \in BOOLEAN /\ together \in BOOLEAN
  /\ \A a \in assets : a.by \in Workers
  /\ \A w \in Workers : work[w].copy \in {"none", "old", "edited"}

ImportsInit ==
  /\ upload \in Uploads
  /\ status = "created"
  /\ target = [type |-> upload.into, content |-> "old", name |-> "old"]
  /\ allowed \in BOOLEAN
  /\ assets = {} /\ work = [w \in Workers |-> NoWork]
  /\ died = FALSE /\ together = FALSE

-----------------------------------------------------------------------------
At(w, pc)  == work[w].pc = pc
Go(w, pc)  == work' = [work EXCEPT ![w].pc = pc]
Leave(w)   == work' = [work EXCEPT ![w] = [NoWork EXCEPT !.pc = "done"]]
Same       == UNCHANGED <<upload, died>>

(* import_in_background() and run(): only what was just created is run.    *)
(* (A mutant runs it again, as a retry would.)                             *)
ReceiveAgain(w) ==
  /\ At(w, "none")
  /\ Go(w, "claim")
  /\ Same /\ UNCHANGED <<status, target, allowed, assets, together>>

Receive(w) ==
  /\ At(w, "none")
  /\ IF status = "created" THEN Go(w, "claim") ELSE Leave(w)
  /\ Same /\ UNCHANGED <<status, target, allowed, assets, together>>

Claim(w) ==
  /\ At(w, "claim")
  /\ status' = "processing"
  /\ together' = (together \/ \E v \in Workers \ {w} : ~ At(v, "none") /\ ~ At(v, "done"))
  /\ Go(w, "start")
  /\ Same /\ UNCHANGED <<target, allowed, assets>>

(* An error is caught and recorded.                                        *)
End(w, result) ==
  /\ Leave(w)
  /\ status' = result

(* _run_task(): the status is written once more, the destination is        *)
(* loaded, and its permission checked.                                     *)
(* _load_assets_from_url() asks for the type of a destination that may not *)
(* be there.                                                               *)
Start(w) ==
  /\ At(w, "start")
  /\ IF \/ target.type # "none" /\ ~ allowed
        \/ upload.kind = "archive" /\ target.type = "none"
        \/ upload.kind \in {"both", "broken"}
     THEN End(w, "error")
     ELSE /\ work' = [work EXCEPT ![w].pc = IF upload.kind = "archive" THEN "archive" ELSE "sheet",
                                  ![w].copy = target.name, ![w].todo = Items(upload)]
          /\ status' = "processing"
  /\ Same /\ UNCHANGED <<target, allowed, assets, together>>

(* _parse_b64_upload(): what may not be imported; otherwise the content of *)
(* the destination, with everything else as it was loaded, or new assets.  *)
Sheet(w) ==
  /\ At(w, "sheet")
  /\ IF \/ target.type = "collection"
        \/ upload.kind = "library" /\ (~ upload.asLibrary \/ target.type # "none")
     THEN End(w, "error") /\ UNCHANGED target
     ELSE /\ IF target.type = "none" THEN UNCHANGED target
             ELSE target' = [type |-> "survey", content |-> "new", name |-> work[w].copy]
          /\ Go(w, "create") /\ UNCHANGED status
  /\ Same /\ UNCHANGED <<allowed, assets, together>>

(* _load_library_content(), or the only asset.  (A mutant ends before the  *)
(* last one, as if a block that nothing follows were never closed.)        *)
CreateAllButLast(w) ==
  /\ At(w, "create")
  /\ IF \A i, j \in work[w].todo : i = j THEN End(w, "complete") /\ UNCHANGED assets
     ELSE \E i \in work[w].todo :
            /\ IsFirst(i, work[w].todo)
            /\ assets' = assets \cup {[item |-> i, parent |-> Place(upload, i), by |-> w]}
            /\ work' = [work EXCEPT ![w].todo = @ \ {i}]
            /\ UNCHANGED status
  /\ Same /\ UNCHANGED <<target, allowed, together>>

Create(w) ==
  /\ At(w, "create")
  /\ IF work[w].todo = {} THEN End(w, "complete") /\ UNCHANGED assets
     ELSE \E i \in work[w].todo :
            /\ IsFirst(i, work[w].todo)
            /\ assets' = assets \cup {[item |-> i, parent |-> Place(upload, i), by |-> w]}
            /\ work' = [work EXCEPT ![w].todo = @ \ {i}]
            /\ UNCHANGED status
  /\ Same /\ UNCHANGED <<target, allowed, together>>

Made(w) == {a.item : a \in {b \in assets : b.by = w}}

(* _load_assets_from_url(): collections are created; a file goes into the  *)
(* destination, whatever it is, and has no asset of its own.  What has a   *)
(* parent, or goes into a collection, is noted, which fails if one of the  *)
(* two has no asset: so it does for every file in an archive.              *)
Entry(w, i, home) ==
  /\ IF IsDir(i)
     THEN /\ assets' = assets \cup {[item |-> i, parent |-> "none", by |-> w]}
          /\ UNCHANGED target
     ELSE target' = [target EXCEPT !.content = "new", !.name = work[w].copy] /\ UNCHANGED assets
  /\ IF home = "none"
     THEN work' = [work EXCEPT ![w].todo = @ \ {i}] /\ UNCHANGED status
     ELSE IF IsDir(i) /\ home \in Made(w) \cup {"target"}
     THEN /\ work' = [work EXCEPT ![w].todo = @ \ {i}, ![w].moves = @ \cup {i}]
          /\ UNCHANGED status
     ELSE End(w, "error")

Archive(w) ==
  /\ At(w, "archive")
  /\ IF work[w].todo = {}
     THEN Go(w, "move") /\ UNCHANGED <<assets, target, status>>
     ELSE \E i \in work[w].todo : IsFirst(i, work[w].todo) /\ Entry(w, i, Place(upload, i))
  /\ Same /\ UNCHANGED <<allowed, together>>

Move(w) ==
  /\ At(w, "move")
  /\ IF work[w].moves = {} THEN End(w, "complete") /\ UNCHANGED assets
     ELSE \E i \in work[w].moves :
            /\ IsFirst(i, work[w].moves)
            /\ assets' = {IF a.item = i /\ a.by = w
                          THEN [a EXCEPT !.parent = Place(upload, i)] ELSE a : a \in assets}
            /\ work' = [work EXCEPT ![w].moves = @ \ {i}]
            /\ UNCHANGED status
  /\ Same /\ UNCHANGED <<target, allowed, together>>

(* Anything else that is raised, the soft time limit included.  (A mutant  *)
(* does not catch it.)                                                     *)
Busy(w) == work[w].pc \in {"start", "sheet", "create", "archive", "move"}

RaiseUncaught(w) ==
  /\ Busy(w)
  /\ Leave(w)
  /\ Same /\ UNCHANGED <<status, target, allowed, assets, together>>

Raise(w) ==
  /\ Busy(w)
  /\ End(w, "error")
  /\ Same /\ UNCHANGED <<target, allowed, assets, together>>

(* The worker is killed.  Nothing ever looks for imports that are stuck.   *)
Crash(w) ==
  /\ Busy(w) \/ At(w, "claim")
  /\ Leave(w)
  /\ died' = TRUE
  /\ UNCHANGED <<upload, status, target, allowed, assets, together>>

(* Somebody else renames the destination, or takes the permission back.    *)
Rename ==
  /\ target.type # "none" /\ target.name = "old"
  /\ target' = [target EXCEPT !.name = "edited"]
  /\ UNCHANGED <<upload, status, allowed, assets, work, died, together>>

Revoke ==
  /\ allowed' = FALSE
  /\ UNCHANGED <<upload, status, target, assets, work, died, together>>

Import(w) ==
  \/ Receive(w) \/ Claim(w) \/ Start(w) \/ Sheet(w) \/ Create(w)
  \/ Archive(w) \/ Move(w) \/ Raise(w)

ImportsNext == Rename \/ Revoke \/ \E w \in Workers : Import(w) \/ Crash(w)

ImportsSpec == ImportsInit /\ [][ImportsNext]_importVars

(* Workers take what is delivered to them, and go on with it.              *)
FairImportsSpec == ImportsSpec /\ WF_importVars(\E w \in Workers : Import(w))

-----------------------------------------------------------------------------
(* An import that is complete has left nothing out: every collection and   *)
(* every asset of the upload is there and in its place, by one worker, or  *)
(* else in the destination.                                                *)
CompleteIsInPlace ==
  status = "complete" =>
    \E w \in Workers : \A i \in Items(upload) :
      IF upload.kind = "archive" /\ ~ IsDir(i) THEN target.content = "new"
      ELSE [item |-> i, parent |-> Place(upload, i), by |-> w] \in assets

(* "Only recently created importtasks can be executed": a message that is  *)
(* delivered again creates nothing again, whatever became of the import,   *)
(* unless two workers read the status before either has claimed the task.  *)
RedeliveryDoesNothing ==
  ~ together => \A a, b \in assets : a.by = b.by

(* An import does not stay in the queue or in progress for ever, unless a  *)
(* worker dies.                                                            *)
Unsettled == status = "created"
Settled   == status \in {"complete", "error"} \/ died

EveryImportSettles == Unsettled ~> Settled

-----------------------------------------------------------------------------
(***************************************************************************)
(* What one would expect and TLC refutes: no run checks these.             *)
(***************************************************************************)

(* "Cannot import into a collection at this time": a collection never gets *)
(* the content of a form.  One file of an archive is enough.               *)
CollectionsHaveNoContent ==
  target.type = "collection" => target.content = "old"

(* What fails changes nothing.                                             *)
ErrorChangesNothing ==
  status = "error" => assets = {} /\ target.content = "old"

(* An import writes the content of its destination, and not its name.      *)
RenamesSurvive ==
  [][target.name = "edited" => target'.name = "edited"]_importVars
=============================================================================
