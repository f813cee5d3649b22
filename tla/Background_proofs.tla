-------------------------- MODULE Background_proofs --------------------------
(***************************************************************************)
(* What is proved of synchronous exports, imports and REST services, and   *)
(* of all that MCBackground composes, for every number of requests,        *)
(* workers, attempts and retries.                                          *)
(*                                                                         *)
(* Each component has an inductive invariant of its own (SyncInv,          *)
(* ImportsInv, HookInv and, in Exports_proofs, ExportsInv); a step of one  *)
(* is a stuttering step of the others (Steps), so that the theorems at the *)
(* end only put them together.  Where an invariant relates many requests,  *)
(* workers or attempts, it is stated for one of them (`Progress(w)`,       *)
(* `SenderAt(s)`), and the proof of a step looks at who moves and at the   *)
(* others in turn.                                                         *)
(***************************************************************************)
EXTENDS Exports_proofs, FiniteSetTheorems, TLAPS

-----------------------------------------------------------------------------
(***************************************************************************)
(* Synchronous exports: the row is locked while an export runs, and what   *)
(* ran is not run again while it is recent.                                *)
(***************************************************************************)

(* Only the request that holds the row's lock generates an export.         *)
Serial ==
  /\ \A r \in Requests : req[r].pc = "run" => holder = r
  /\ \A r \in Requests : req[r].since <= now

(* A run that replaces a complete export began after that was too old.     *)
Spaced ==
  \A r \in Requests :
    req[r].pc = "run" /\ row.status = "complete" => row.date < req[r].since - MaxAge

(* The inductive invariant of synchronous exports.                         *)
SyncInv == SyncTypeOK /\ Serial /\ Spaced /\ RecentHasFile

(* The states of a request.                                                *)
Request ==
  [pc : {"new", "insert", "lock", "run", "answer", "done"}, since : 0..Horizon,
   data : 0..Edits, got : Requests \cup {NoFile}]

(* What the assumption on the constants says, fact by fact.                *)
LEMMA SyncBounds ==
  /\ MaxAge \in Nat /\ 0 \in 0..Horizon /\ 0 \in 0..Edits
  /\ \A n \in 0..Horizon : n \in Int /\ (n < Horizon => n + 1 \in 0..Horizon)
  /\ \A n \in 0..Edits : n \in Int /\ (n < Edits => n + 1 \in 0..Edits)
  /\ Nobody \notin Requests /\ NoFile \notin Requests
<1>1. MaxAge \in Nat /\ Horizon \in Nat /\ Edits \in Nat
  BY SyncAssumption
<1>2. Nobody \notin Requests /\ NoFile \notin Requests
  BY SyncAssumption DEF Nobody, NoFile
<1>3. QED
  BY <1>1, <1>2

(* SyncInv holds at first.                                                 *)
LEMMA SyncStart == SyncInit => SyncInv
<1> SUFFICES ASSUME SyncInit PROVE SyncInv
  OBVIOUS
<1>1. Nowhere \in Request
  BY SyncBounds DEF Nowhere, Request
<1>2. SyncTypeOK
  BY <1>1, SyncBounds DEF SyncInit, SyncTypeOK, ExportRow, Request
<1>3. Serial /\ Spaced /\ RecentHasFile
  BY DEF SyncInit, Serial, Spaced, RecentHasFile, Nowhere
<1>4. QED
  BY <1>2, <1>3 DEF SyncInv

(* What the types say of the row, the clock and the requests.              *)
LEMMA SyncFacts ==
  ASSUME SyncTypeOK
  PROVE  /\ MaxAge \in Nat /\ now \in Int /\ row.date \in Int /\ row \in ExportRow
         /\ now \in 0..Horizon /\ settings \in 0..Edits
         /\ \A r \in Requests : req[r] \in Request /\ req[r].since \in Int
  BY SyncBounds DEF SyncTypeOK, ExportRow, Request

(* What a step of request r means to it and to the others.                 *)
LEMMA RequestMoves ==
  ASSUME SyncTypeOK, NEW r \in Requests, NEW new \in Request,
         req' = [req EXCEPT ![r] = new]
  PROVE  /\ req' \in [Requests -> Request]
         /\ \A q \in Requests \ {r} : req'[q] = req[q]
         /\ req'[r] = new
  BY DEF SyncTypeOK, Request

(* The types hold when each variable's does.                               *)
LEMMA SyncTypes ==
  ASSUME SyncTypeOK, req' \in [Requests -> Request], now' \in 0..Horizon, settings' \in 0..Edits,
         row' \in ExportRow, holder' \in Requests \cup {Nobody}, files' \subseteq Requests
  PROVE  SyncTypeOK'
  BY DEF SyncTypeOK, Request

(* SyncInv is inductive: a case for every step of a request, an edit of    *)
(* the settings and a tick of the clock.                                   *)
LEMMA SyncGoOn ==
  ASSUME SyncInv, [SyncNext]_syncVars
  PROVE  SyncInv'
<1>0. SyncTypeOK /\ Serial /\ Spaced /\ RecentHasFile
  BY DEF SyncInv
<1>1. ASSUME NEW r \in Requests, Arrive(r) PROVE SyncInv'
  <2> DEFINE new == [req[r] EXCEPT !.pc = "insert", !.since = now, !.data = settings]
  <2>1. new \in Request /\ req' = [req EXCEPT ![r] = new]
    BY <1>0, <1>1, SyncFacts DEF Arrive, SyncTypeOK, Request, ExportRow
  <2>2. new.pc = "insert" /\ new.since = now
    BY <1>0, SyncFacts DEF Request
  <2> HIDE DEF new
  <2>3. /\ req' \in [Requests -> Request] /\ req'[r] = new
        /\ \A q \in Requests \ {r} : req'[q] = req[q]
    BY <1>0, <2>1, RequestMoves
  <2>5. SyncTypeOK'
    BY <1>0, <1>1, <2>3, SyncFacts, SyncTypes DEF Arrive, SyncTypeOK
  <2>7. Serial'
    BY <1>0, <1>1, <2>2, <2>3, SyncFacts, SyncBounds DEF Arrive, Serial
  <2>8. Spaced'
    BY <1>0, <1>1, <2>2, <2>3, SyncFacts DEF Arrive, Spaced
  <2>9. RecentHasFile'
    BY <1>0, <1>1, SyncFacts DEF Arrive, RecentHasFile
  <2>10. QED
    BY <2>5, <2>7, <2>8, <2>9 DEF SyncInv
<1>2. ASSUME NEW r \in Requests, GetOrCreate(r) PROVE SyncInv'
  <2> DEFINE new == [req[r] EXCEPT !.pc = "lock"]
  <2>1. new \in Request /\ req' = [req EXCEPT ![r] = new]
    BY <1>0, <1>2, SyncFacts DEF GetOrCreate, Step, SyncTypeOK, Request, ExportRow
  <2>2. new.pc = "lock" /\ new.since = req[r].since
    BY <1>0, SyncFacts DEF Request
  <2> HIDE DEF new
  <2>3. /\ req' \in [Requests -> Request] /\ req'[r] = new
        /\ \A q \in Requests \ {r} : req'[q] = req[q]
    BY <1>0, <2>1, RequestMoves
  <2>4. row' \in ExportRow /\ (row' = row \/ row'.status = "created")
    BY <1>0, <1>2, SyncFacts DEF GetOrCreate, ExportRow, Request
  <2>5. SyncTypeOK'
    BY <1>0, <1>2, <2>3, <2>4, SyncFacts, SyncTypes DEF GetOrCreate, SyncTypeOK
  <2>7. Serial'
    BY <1>0, <1>2, <2>2, <2>3, <2>4, SyncFacts, SyncBounds DEF GetOrCreate, Serial
  <2>8. Spaced'
    BY <1>0, <1>2, <2>2, <2>3, <2>4, SyncFacts DEF GetOrCreate, Spaced
  <2>9. RecentHasFile'
    BY <1>0, <1>2, <2>4, SyncFacts DEF GetOrCreate, RecentHasFile
  <2>10. QED
    BY <2>5, <2>7, <2>8, <2>9 DEF SyncInv
<1>3. ASSUME NEW r \in Requests, ReturnExisting(r) PROVE SyncInv'
  <2> DEFINE new == [req[r] EXCEPT !.pc = "answer", !.got = row.result]
  <2>1. new \in Request /\ req' = [req EXCEPT ![r] = new]
    BY <1>0, <1>3, SyncFacts DEF ReturnExisting, SyncTypeOK, Request, ExportRow
  <2>2. new.pc = "answer" /\ new.since = req[r].since
    BY <1>0, SyncFacts DEF Request
  <2> HIDE DEF new
  <2>3. /\ req' \in [Requests -> Request] /\ req'[r] = new
        /\ \A q \in Requests \ {r} : req'[q] = req[q]
    BY <1>0, <2>1, RequestMoves
  <2>5. SyncTypeOK'
    BY <1>0, <1>3, <2>3, SyncFacts, SyncTypes DEF ReturnExisting, SyncTypeOK
  <2>7. Serial'
    BY <1>0, <1>3, <2>2, <2>3, SyncFacts, SyncBounds DEF ReturnExisting, Serial
  <2>8. Spaced'
    BY <1>0, <1>3, <2>2, <2>3, SyncFacts DEF ReturnExisting, Spaced
  <2>9. RecentHasFile'
    BY <1>0, <1>3, SyncFacts DEF ReturnExisting, RecentHasFile
  <2>10. QED
    BY <2>5, <2>7, <2>8, <2>9 DEF SyncInv
<1>4. ASSUME NEW r \in Requests, Regenerate(r) PROVE SyncInv'
  <2> DEFINE new == [req[r] EXCEPT !.pc = "run", !.since = now]
  <2>1. new \in Request /\ req' = [req EXCEPT ![r] = new]
    BY <1>0, <1>4, SyncFacts DEF Regenerate, SyncTypeOK, Request, ExportRow
  <2>2. new.pc = "run" /\ new.since = now
    BY <1>0, SyncFacts DEF Request
  <2> HIDE DEF new
  <2>3. /\ req' \in [Requests -> Request] /\ req'[r] = new
        /\ \A q \in Requests \ {r} : req'[q] = req[q]
    BY <1>0, <2>1, RequestMoves
  <2>5. SyncTypeOK'
    BY <1>0, <1>4, <2>3, SyncFacts, SyncTypes DEF Regenerate, SyncTypeOK
  <2>6. row.status = "complete" => row.date < now - MaxAge
    BY <1>0, <1>4, SyncFacts DEF Regenerate, Recent, Serial
  <2>7. Serial'
    BY <1>0, <1>4, <2>2, <2>3, <2>6, SyncFacts, SyncBounds DEF Regenerate, Serial
  <2>8. Spaced'
    BY <1>0, <1>4, <2>2, <2>3, <2>6, SyncFacts DEF Regenerate, Spaced
  <2>9. RecentHasFile'
    BY <1>0, <1>4, <2>6, SyncFacts DEF Regenerate, RecentHasFile
  <2>10. QED
    BY <2>5, <2>7, <2>8, <2>9 DEF SyncInv
<1>5. ASSUME NEW r \in Requests, NEW s \in {"complete", "error"}, NEW f \in {r, NoFile},
             Commit(r, s, f), s = "complete" => f = r
      PROVE  SyncInv'
  <2> DEFINE new == [req[r] EXCEPT !.pc = IF s = "complete" THEN "answer" ELSE "done", !.got = f]
  <2>1. new \in Request /\ req' = [req EXCEPT ![r] = new]
    BY <1>0, <1>5, SyncFacts DEF Commit, SyncTypeOK, Request, ExportRow
  <2>2. new.pc # "run" /\ new.since = req[r].since
    BY <1>0, SyncFacts DEF Request
  <2> HIDE DEF new
  <2>3. /\ req' \in [Requests -> Request] /\ req'[r] = new
        /\ \A q \in Requests \ {r} : req'[q] = req[q]
    BY <1>0, <2>1, RequestMoves
  <2>4. row' \in ExportRow
    BY <1>0, <1>5, SyncFacts DEF Commit, ExportRow, Request
  <2>5. SyncTypeOK'
    BY <1>0, <1>5, <2>3, <2>4, SyncFacts, SyncTypes DEF Commit, SyncTypeOK
  <2>6. \A q \in Requests : req'[q].pc # "run"
    BY <1>0, <1>5, <2>2, <2>3 DEF Commit, Serial
  <2>7. Serial'
    BY <1>0, <1>5, <2>2, <2>3, <2>4, <2>6, SyncFacts, SyncBounds DEF Commit, Serial
  <2>8. Spaced'
    BY <1>0, <1>5, <2>2, <2>3, <2>4, <2>6, SyncFacts DEF Commit, Spaced
  <2>9. RecentHasFile'
    <3>1. row'.status = s /\ row'.result = f /\ files' = files \cup ({f} \ {NoFile})
      BY <1>5 DEF Commit
    <3>2. s = "complete" => f \in files'
      BY <1>5, <3>1, SyncBounds
    <3>3. QED
      BY <3>1, <3>2 DEF RecentHasFile
  <2>10. QED
    BY <2>5, <2>7, <2>8, <2>9 DEF SyncInv
<1>6. ASSUME NEW r \in Requests, Rollback(r) PROVE SyncInv'
  <2> DEFINE new == [req[r] EXCEPT !.pc = "done"]
  <2>1. new \in Request /\ req' = [req EXCEPT ![r] = new]
    BY <1>0, <1>6, SyncFacts DEF Rollback, Step, SyncTypeOK, Request, ExportRow
  <2>2. new.pc = "done" /\ new.since = req[r].since
    BY <1>0, SyncFacts DEF Request
  <2> HIDE DEF new
  <2>3. /\ req' \in [Requests -> Request] /\ req'[r] = new
        /\ \A q \in Requests \ {r} : req'[q] = req[q]
    BY <1>0, <2>1, RequestMoves
  <2>5. SyncTypeOK'
    BY <1>0, <1>6, <2>3, SyncFacts, SyncTypes DEF Rollback, SyncTypeOK
  <2>6. \A q \in Requests : req'[q].pc # "run"
    BY <1>0, <1>6, <2>2, <2>3 DEF Rollback, Serial
  <2>7. Serial'
    BY <1>0, <1>6, <2>2, <2>3, <2>6, SyncFacts, SyncBounds DEF Rollback, Serial
  <2>8. Spaced'
    BY <1>0, <1>6, <2>2, <2>3, <2>6, SyncFacts DEF Rollback, Spaced
  <2>9. RecentHasFile'
    BY <1>0, <1>6, <2>6, SyncFacts DEF Rollback, RecentHasFile
  <2>10. QED
    BY <2>5, <2>7, <2>8, <2>9 DEF SyncInv
<1>7. ASSUME NEW r \in Requests, Answer(r) PROVE SyncInv'
  <2> DEFINE new == [req[r] EXCEPT !.pc = "done"]
  <2>1. new \in Request /\ req' = [req EXCEPT ![r] = new]
    BY <1>0, <1>7, SyncFacts DEF Answer, Step, SyncTypeOK, Request, ExportRow
  <2>2. new.pc = "done" /\ new.since = req[r].since
    BY <1>0, SyncFacts DEF Request
  <2> HIDE DEF new
  <2>3. /\ req' \in [Requests -> Request] /\ req'[r] = new
        /\ \A q \in Requests \ {r} : req'[q] = req[q]
    BY <1>0, <2>1, RequestMoves
  <2>5. SyncTypeOK'
    BY <1>0, <1>7, <2>3, SyncFacts, SyncTypes DEF Answer, SyncTypeOK
  <2>7. Serial'
    BY <1>0, <1>7, <2>2, <2>3, SyncFacts, SyncBounds DEF Answer, Serial
  <2>8. Spaced'
    BY <1>0, <1>7, <2>2, <2>3, SyncFacts DEF Answer, Spaced
  <2>9. RecentHasFile'
    BY <1>0, <1>7, SyncFacts DEF Answer, RecentHasFile
  <2>10. QED
    BY <2>5, <2>7, <2>8, <2>9 DEF SyncInv
<1>8. CASE Edit
  <2>1. SyncTypeOK'
    BY <1>0, <1>8, SyncBounds DEF Edit, SyncTypeOK
  <2>2. QED
    BY <1>0, <1>8, <2>1 DEF Edit, SyncInv, Serial, Spaced, RecentHasFile
<1>9. CASE Tick
  <2>1. SyncTypeOK'
    BY <1>0, <1>9, SyncBounds DEF Tick, SyncTypeOK
  <2>2. Serial' /\ Spaced' /\ RecentHasFile'
    BY <1>0, <1>9, SyncFacts DEF Tick, Serial, Spaced, RecentHasFile
  <2>3. QED
    BY <2>1, <2>2 DEF SyncInv
<1>10. CASE UNCHANGED syncVars
  BY <1>10, <1>0 DEF syncVars, SyncInv, SyncTypeOK, Serial, Spaced, RecentHasFile
<1>11. QED
  BY <1>1, <1>2, <1>3, <1>4, <1>5, <1>6, <1>7, <1>8, <1>9, <1>10 DEF SyncNext

(* One step: a complete row is replaced only by a commit, of a run that    *)
(* began more than MaxAge after it.                                        *)
LEMMA SpacedStep ==
  ASSUME SyncInv, [SyncNext]_syncVars, row.status = "complete", row' # row
  PROVE  row'.date - row.date > MaxAge
<1>1. PICK r \in Requests, s \in {"complete", "error"}, f \in Requests \cup {NoFile} :
        Commit(r, s, f)
  BY DEF SyncNext, syncVars, Arrive, GetOrCreate, ReturnExisting, Regenerate, Rollback, Answer,
         Edit, Tick
<1>2. row'.date = req[r].since /\ req[r].pc = "run"
  BY <1>1 DEF Commit
<1>3. QED
  BY <1>2, SyncFacts DEF SyncInv, Spaced

-----------------------------------------------------------------------------
(***************************************************************************)
(* Imports: unless two workers claimed one import together, one worker     *)
(* works, and what it has not yet made or moved it still has to do.        *)
(***************************************************************************)

(* What a worker may be doing with an import.                              *)
Doing == {"none", "claim", "start", "sheet", "create", "archive", "move", "done"}

(* The states of a worker.                                                 *)
Works ==
  [pc : Doing, copy : {"none", "old", "edited"},
   todo : SUBSET I!Items(upload), moves : SUBSET I!Items(upload)]

(* The types of what the workers hold and of the assets made.              *)
WorkTypes ==
  /\ work \in [Workers -> Works]
  /\ \A a \in assets : a = [item |-> a.item, parent |-> a.parent, by |-> a.by]
  /\ \A w \in Workers : work[w].pc \in {"sheet", "create", "archive", "move"} =>
       work[w].copy \in {"old", "edited"}

(* A worker that has not begun, or is done.                                *)
Waiting == {"none", "claim", "done"}

(* Before the task is claimed nobody has made anything, and while no two   *)
(* workers have claimed it together, at most one works and has made        *)
(* anything.                                                               *)
OneWorks ==
  /\ status = "created" => assets = {} /\ \A w \in Workers : work[w].pc \in Waiting
  /\ status # "created" /\ ~together =>
       \E w \in Workers :
         /\ \A a \in assets : a.by = w
         /\ \A v \in Workers \ {w} : work[v].pc \in {"none", "done"}
         /\ work[w].pc # "claim"

(* What item i of the upload becomes is made by w and where it belongs.    *)
InItsPlace(i, w) ==
  IF upload.kind = "archive" /\ ~ I!IsDir(i) THEN target.content = "new"
  ELSE [item |-> i, parent |-> I!Place(upload, i), by |-> w] \in assets

(* w has made something of item i, wherever it is.                         *)
IsMade(i, w) == \E a \in assets : a.item = i /\ a.by = w

(* What w works on is to do, in its place, or made and to be moved.        *)
Progress(w) ==
  /\ work[w].pc \in {"sheet", "create"} => upload.kind # "archive" /\ work[w].moves = {}
  /\ work[w].pc \in {"archive", "move"} => upload.kind = "archive"
  /\ work[w].pc \in {"sheet", "create", "archive", "move"} =>
       \A i \in I!Items(upload) :
         \/ i \in work[w].todo
         \/ InItsPlace(i, w)
         \/ i \in work[w].moves /\ I!IsDir(i) /\ IsMade(i, w)
  /\ work[w].pc = "start" => work[w].moves = {}
  /\ work[w].pc \in {"none", "claim"} => work[w].moves = {}
  /\ work[w].pc = "move" => work[w].todo = {}

(* A complete import was completed by a worker that is done and has made   *)
(* everything.                                                             *)
Completed ==
  status = "complete" =>
    \E w \in Workers : work[w].pc = "done" /\ \A i \in I!Items(upload) : InItsPlace(i, w)

(* The inductive invariant of imports.                                     *)
ImportsInv ==
  /\ I!ImportsTypeOK /\ WorkTypes /\ OneWorks
  /\ \A w \in Workers : Progress(w)
  /\ Completed

(* ImportsInv holds at first.                                              *)
LEMMA ImportsStart == I!ImportsInit => ImportsInv
<1> SUFFICES ASSUME I!ImportsInit PROVE ImportsInv
  OBVIOUS
<1>1. I!ImportsTypeOK
  <2>1. upload.into \in {"none", "survey", "empty", "collection"}
    BY DEF I!ImportsInit, I!Uploads
  <2>2. QED
    BY <2>1 DEF I!ImportsInit, I!ImportsTypeOK, I!NoWork
<1>2. WorkTypes
  BY DEF I!ImportsInit, WorkTypes, Works, Doing, I!NoWork
<1>3. OneWorks /\ Completed /\ \A w \in Workers : Progress(w)
  BY DEF I!ImportsInit, OneWorks, Waiting, Completed, Progress, I!NoWork
<1>4. QED
  BY <1>1, <1>2, <1>3 DEF ImportsInv

(* What a step of worker w means to it and to the others.                  *)
LEMMA WorkMoves ==
  ASSUME WorkTypes, NEW w \in Workers, NEW new \in Works, work' = [work EXCEPT ![w] = new],
         upload' = upload
  PROVE  /\ work' \in [Workers -> Works'] /\ work'[w] = new
         /\ \A v \in Workers \ {w} : work'[v] = work[v]
  BY DEF WorkTypes, Works

(* What the other workers have done stays done.                            *)
LEMMA OthersStay ==
  ASSUME NEW v \in Workers, work'[v] = work[v], upload' = upload,
         target.content = "new" => target'.content = "new",
         \A a \in assets : a.by = v => a \in assets'
  PROVE  /\ \A i : InItsPlace(i, v) => InItsPlace(i, v)'
         /\ Progress(v) => Progress(v)'
<1>1. ASSUME NEW i, InItsPlace(i, v) PROVE InItsPlace(i, v)'
  BY <1>1 DEF InItsPlace
<1>2. ASSUME NEW i, IsMade(i, v) PROVE IsMade(i, v)'
  BY <1>2 DEF IsMade
<1>3. Progress(v) => Progress(v)'
  BY <1>1, <1>2 DEF Progress
<1>4. QED
  BY <1>1, <1>3

(* What a step of worker w has to show.                                    *)
LEMMA WorkerStep ==
  ASSUME ImportsInv, NEW w \in Workers, NEW new \in Works, work' = [work EXCEPT ![w] = new],
         upload' = upload, importDied' \in BOOLEAN, allowed' \in BOOLEAN, together' \in BOOLEAN,
         target' \in [type : {"none", "survey", "empty", "collection"},
                      content : {"old", "new"}, name : {"old", "edited"}],
         target.content = "new" => target'.content = "new",
         status' \in {"created", "processing", "complete", "error"},
         \A a \in assets : a.by # w => a \in assets',
         \A a \in assets' : a \in assets \/ (a = [item |-> a.item, parent |-> a.parent, by |-> w]),
         new.pc \in {"sheet", "create", "archive", "move"} => new.copy \in {"old", "edited"},
         work[w].pc # "done",
         Progress(w)',
         status' = "complete" => \/ status' = status
                                 \/ new.pc = "done" /\ \A i \in I!Items(upload) : InItsPlace(i, w)',
         OneWorks'
  PROVE  ImportsInv'
<1>1. /\ work' \in [Workers -> Works'] /\ work'[w] = new
      /\ \A v \in Workers \ {w} : work'[v] = work[v]
  BY WorkMoves DEF ImportsInv
<1>2. \A a \in assets' :
        a = [item |-> a.item, parent |-> a.parent, by |-> a.by] /\ a.by \in Workers
  BY DEF ImportsInv, WorkTypes, I!ImportsTypeOK
<1>3. I!ImportsTypeOK'
  <2>1. \A v \in Workers : work'[v].copy \in {"none", "old", "edited"}
    BY <1>1 DEF Works
  <2>2. QED
    BY <1>2, <2>1 DEF ImportsInv, I!ImportsTypeOK, I!Uploads
<1>4. WorkTypes'
  BY <1>1, <1>2 DEF ImportsInv, WorkTypes
<1>5. \A v \in Workers : Progress(v)'
  <2>1. ASSUME NEW v \in Workers, v # w PROVE Progress(v)'
    BY <1>1, <2>1, OthersStay DEF ImportsInv
  <2>2. QED
    BY <2>1
<1>6. Completed'
  <2>1. CASE status' = "complete" /\ status' = status
    <3>1. PICK v \in Workers : work[v].pc = "done" /\ \A i \in I!Items(upload) : InItsPlace(i, v)
      BY <2>1 DEF ImportsInv, Completed
    <3>2. v # w
      BY <3>1
    <3>3. work'[v] = work[v] /\ \A i \in I!Items(upload) : InItsPlace(i, v)'
      BY <1>1, <3>1, <3>2, OthersStay
    <3>4. QED
      BY <3>1, <3>3 DEF Completed, I!Items
  <2>2. CASE status' = "complete" /\ status' # status
    BY <1>1, <2>2 DEF Completed, I!Items
  <2>3. QED
    BY <2>1, <2>2 DEF Completed
<1>7. QED
  BY <1>3, <1>4, <1>5, <1>6 DEF ImportsInv

(* What ImportsInv says of one worker.                                     *)
LEMMA WorkFacts ==
  ASSUME ImportsInv, NEW w \in Workers
  PROVE  /\ work[w] \in Works /\ DOMAIN work = Workers
         /\ target \in [type : {"none", "survey", "empty", "collection"},
                        content : {"old", "new"}, name : {"old", "edited"}]
         /\ importDied \in BOOLEAN /\ allowed \in BOOLEAN /\ together \in BOOLEAN
         /\ status \in {"created", "processing", "complete", "error"}
         /\ Progress(w) /\ OneWorks
<1>1. work[w] \in Works /\ DOMAIN work = Workers
  BY DEF ImportsInv, WorkTypes
<1>2. QED
  BY <1>1 DEF ImportsInv, I!ImportsTypeOK

(* A worker that goes on keeps what it holds ...                           *)
LEMMA GoFacts ==
  ASSUME ImportsInv, NEW w \in Workers, NEW pc \in Doing, I!Go(w, pc)
  PROVE  \E new \in Works :
           /\ work' = [work EXCEPT ![w] = new] /\ new.pc = pc
           /\ new.copy = work[w].copy /\ new.todo = work[w].todo /\ new.moves = work[w].moves
<1> DEFINE new == [work[w] EXCEPT !.pc = pc]
<1>1. /\ new \in Works /\ new.pc = pc
      /\ new.copy = work[w].copy /\ new.todo = work[w].todo /\ new.moves = work[w].moves
  BY WorkFacts DEF Works
<1>2. work' = [work EXCEPT ![w] = new]
  BY WorkFacts DEF I!Go
<1> HIDE DEF new
<1>3. QED
  BY <1>1, <1>2

(* ... and one that leaves has nothing more to do.                         *)
LEMMA LeaveFacts ==
  ASSUME ImportsInv, NEW w \in Workers, I!Leave(w), upload' = upload
  PROVE  \E new \in Works : /\ work' = [work EXCEPT ![w] = new]
                            /\ new.pc = "done" /\ Progress(w)'
<1> DEFINE new == [I!NoWork EXCEPT !.pc = "done"]
<1>1. new \in Works /\ new.pc = "done"
  BY DEF I!NoWork, Works, Doing
<1>2. work' = [work EXCEPT ![w] = new]
  BY DEF I!Leave
<1> HIDE DEF new
<1>3. work'[w].pc = "done"
  BY <1>1, <1>2, WorkFacts
<1>4. QED
  BY <1>1, <1>2, <1>3 DEF Progress

(* OneWorks survives what works on after a claim, and what leaves.         *)
LEMMA StillOne ==
  ASSUME ImportsInv, NEW w \in Workers, NEW new \in Works, work' = [work EXCEPT ![w] = new],
         together' = together, new.pc # "claim",
         \/ work[w].pc \in {"start", "sheet", "create", "archive", "move"}
         \/ new.pc = "done" /\ assets' = assets,
         status' = "created" => status = "created" /\ assets' = assets /\ new.pc = "done",
         status # "created" \/ status' = status,
         \A a \in assets' : a \in assets \/ a.by = w
  PROVE  OneWorks'
<1>1. work'[w] = new /\ \A v \in Workers \ {w} : work'[v] = work[v]
  BY WorkFacts
<1>2. status' = "created" => assets' = {} /\ \A v \in Workers : work'[v].pc \in Waiting
  BY <1>1 DEF ImportsInv, OneWorks, Waiting
<1>3. ASSUME status' # "created", ~together' 
      PROVE  \E u \in Workers :
               /\ \A a \in assets' : a.by = u
               /\ \A v \in Workers \ {u} : work'[v].pc \in {"none", "done"}
               /\ work'[u].pc # "claim"
  <2>1. PICK u \in Workers : /\ \A a \in assets : a.by = u
                             /\ \A v \in Workers \ {u} : work[v].pc \in {"none", "done"}
                             /\ work[u].pc # "claim"
    BY <1>3 DEF ImportsInv, OneWorks
  <2>2. CASE new.pc = "done" /\ assets' = assets
    BY <1>1, <2>1, <2>2
  <2>3. CASE work[w].pc \in {"start", "sheet", "create", "archive", "move"}
    <3>1. u = w
      BY <2>1, <2>3
    <3>2. QED
      BY <1>1, <2>1, <3>1
  <2>4. QED
    BY <2>2, <2>3
<1>4. QED
  BY <1>2, <1>3 DEF OneWorks

(* ImportsInv is inductive: a case for every step of a worker, the errors, *)
(* a crash, and a user who edits the target or loses access to it.         *)
LEMMA ImportsGoOn ==
  ASSUME ImportsInv, [I!ImportsNext]_importVars
  PROVE  ImportsInv'
<1>1. ASSUME NEW w \in Workers, I!Receive(w) PROVE ImportsInv'
  <2>1. CASE status = "created"
    <3>0. work[w].moves = {}
      BY <1>1, WorkFacts DEF I!Receive, I!At, Progress
    <3>1. PICK new \in Works : /\ work' = [work EXCEPT ![w] = new] /\ new.pc = "claim"
                               /\ new.copy = work[w].copy /\ new.todo = work[w].todo
                               /\ new.moves = work[w].moves
      BY <1>1, <2>1, GoFacts DEF I!Receive, Doing
    <3>2. work'[w] = new /\ \A v \in Workers \ {w} : work'[v] = work[v]
      BY <3>1, WorkFacts
    <3>3. Progress(w)'
      BY <3>0, <3>1, <3>2 DEF Progress
    <3>4. OneWorks'
      BY <1>1, <2>1, <3>1, <3>2, WorkFacts DEF OneWorks, Waiting, I!Receive
    <3>5. QED
      BY <1>1, <2>1, <3>1, <3>3, <3>4, WorkFacts, WorkerStep DEF I!Receive, I!Same, I!At
  <2>2. CASE status # "created"
    <3>1. PICK new \in Works : work' = [work EXCEPT ![w] = new] /\ new.pc = "done" /\ Progress(w)'
      BY <1>1, <2>2, LeaveFacts DEF I!Receive, I!Same
    <3>2. OneWorks'
      BY <1>1, <2>2, <3>1, StillOne DEF I!Receive, I!Same
    <3>3. QED
      BY <1>1, <3>1, <3>2, WorkFacts, WorkerStep DEF I!Receive, I!Same, I!At
  <2>3. QED
    BY <2>1, <2>2
<1>2. ASSUME NEW w \in Workers, I!Claim(w) PROVE ImportsInv'
  <2>0. work[w].moves = {}
    BY <1>2, WorkFacts DEF I!Claim, I!At, Progress
  <2>1. PICK new \in Works : /\ work' = [work EXCEPT ![w] = new] /\ new.pc = "start"
                               /\ new.copy = work[w].copy /\ new.todo = work[w].todo
                               /\ new.moves = work[w].moves
    BY <1>2, GoFacts DEF I!Claim, Doing
  <2>2. work'[w] = new /\ \A v \in Workers \ {w} : work'[v] = work[v]
    BY <2>1, WorkFacts
  <2>3. Progress(w)'
    BY <2>0, <2>1, <2>2 DEF Progress
  <2>4. OneWorks'
    <3>1. ASSUME ~together'
          PROVE  /\ \A a \in assets' : a.by = w
                 /\ \A v \in Workers \ {w} : work'[v].pc \in {"none", "done"}
      <4>1. \A v \in Workers \ {w} : work'[v].pc \in {"none", "done"}
        BY <1>2, <2>2, <3>1 DEF I!Claim, I!At
      <4>2. status = "created"
        BY <1>2, <3>1, <4>1, <2>2, WorkFacts DEF I!Claim, I!At, OneWorks
      <4>3. QED
        BY <1>2, <4>1, <4>2, WorkFacts DEF I!Claim, OneWorks
    <3>2. QED
      BY <1>2, <2>1, <2>2, <3>1 DEF OneWorks, I!Claim
  <2>5. together' \in BOOLEAN
    BY <1>2, WorkFacts DEF I!Claim
  <2>6. QED
    BY <1>2, <2>1, <2>3, <2>4, <2>5, WorkFacts, WorkerStep DEF I!Claim, I!Same, I!At
<1>3. ASSUME NEW w \in Workers, NEW r \in {"error"}, I!End(w, r), I!Busy(w), I!Same,
             target' \in [type : {"none", "survey", "empty", "collection"},
                          content : {"old", "new"}, name : {"old", "edited"}],
             target.content = "new" => target'.content = "new",
             allowed' = allowed, together' = together,
             \A a \in assets : a \in assets',
             \A a \in assets' :
               a \in assets \/ (a = [item |-> a.item, parent |-> a.parent, by |-> w])
      PROVE  ImportsInv'
  <2>1. PICK new \in Works : work' = [work EXCEPT ![w] = new] /\ new.pc = "done" /\ Progress(w)'
    BY <1>3, LeaveFacts DEF I!End, I!Same
  <2>2. \A a \in assets' : a \in assets \/ a.by = w
    <3>1. ASSUME NEW a \in assets', a = [item |-> a.item, parent |-> a.parent, by |-> w]
          PROVE  a.by = w
      BY <3>1
    <3>2. QED
      BY <1>3, <3>1
  <2>3. status # "created" /\ status' = "error"
    BY <1>3, WorkFacts DEF OneWorks, Waiting, I!Busy, I!End
  <2>4. OneWorks'
    BY <1>3, <2>1, <2>2, <2>3, StillOne DEF I!Busy
  <2>5. QED
    BY <1>3, <2>1, <2>3, <2>4, WorkFacts, WorkerStep DEF I!Same, I!Busy
<1>4. ASSUME NEW w \in Workers, I!Raise(w) PROVE ImportsInv'
  BY <1>3, <1>4, WorkFacts DEF I!Raise
<1>5. ASSUME NEW w \in Workers, I!Crash(w) PROVE ImportsInv'
  <2>1. PICK new \in Works : work' = [work EXCEPT ![w] = new] /\ new.pc = "done" /\ Progress(w)'
    BY <1>5, LeaveFacts DEF I!Crash
  <2>2. OneWorks'
    BY <1>5, <2>1, StillOne DEF I!Crash
  <2>3. work[w].pc # "done"
    BY <1>5 DEF I!Crash, I!Busy, I!At
  <2>4. QED
    BY <1>5, <2>1, <2>2, <2>3, WorkFacts, WorkerStep DEF I!Crash
<1>6. ASSUME NEW w \in Workers, I!Start(w) PROVE ImportsInv'
  <2>1. CASE I!End(w, "error")
    BY <1>3, <1>6, <2>1, WorkFacts DEF I!Start, I!Busy, I!At
  <2>2. CASE ~I!End(w, "error")
    <3> DEFINE pc  == IF upload.kind = "archive" THEN "archive" ELSE "sheet"
               new == [work[w] EXCEPT !.pc = pc, !.copy = target.name, !.todo = I!Items(upload)]
    <3>1. work[w].pc = "start" /\ work[w].moves = {}
      BY <1>6, WorkFacts DEF I!Start, I!At, Progress
    <3>2. /\ work' = [work EXCEPT ![w] = new] /\ status' = "processing"
          /\ assets' = assets
          /\ target' = target /\ allowed' = allowed /\ together' = together
          /\ upload' = upload /\ importDied' = importDied
      BY <1>6, <2>2, WorkFacts DEF I!Start, I!Same
    <3>3. /\ new \in Works /\ new.pc = pc /\ new.copy = target.name
          /\ new.todo = I!Items(upload) /\ new.moves = {}
      <4>1. target.name \in {"old", "edited"} /\ pc \in Doing
        BY WorkFacts DEF Doing
      <4> HIDE DEF pc
      <4>2. QED
        BY <3>1, <4>1, WorkFacts DEF Works
    <3>4. /\ upload.kind = "archive" => pc = "archive"
          /\ upload.kind # "archive" => pc = "sheet"
      OBVIOUS
    <3> HIDE DEF pc, new
    <3>5. work'[w] = new
      BY <3>2, <3>3, WorkFacts
    <3>6. Progress(w)'
      BY <3>2, <3>3, <3>4, <3>5 DEF Progress
    <3>7. status # "created" /\ new.pc \notin {"claim", "done"}
      BY <3>1, <3>3, <3>4, WorkFacts DEF OneWorks, Waiting
    <3>8. OneWorks'
      BY <3>1, <3>2, <3>3, <3>7, StillOne
    <3>9. QED
      BY <3>1, <3>2, <3>3, <3>6, <3>7, <3>8, WorkFacts, WorkerStep
  <2>3. QED
    BY <2>1, <2>2
<1>7. ASSUME NEW w \in Workers, I!Sheet(w) PROVE ImportsInv'
  <2>1. CASE I!End(w, "error") /\ UNCHANGED target
    BY <1>3, <1>7, <2>1, WorkFacts DEF I!Sheet, I!Busy, I!At
  <2>2. CASE ~(I!End(w, "error") /\ UNCHANGED target)
    <3>1. work[w].pc = "sheet" /\ work[w].copy \in {"old", "edited"} /\ upload.kind # "archive"
      BY <1>7, WorkFacts DEF I!Sheet, I!At, Progress, ImportsInv, WorkTypes
    <3>2. /\ I!Go(w, "create") /\ status' = status /\ assets' = assets
          /\ allowed' = allowed /\ together' = together
          /\ upload' = upload /\ importDied' = importDied
          /\ \/ target' = target
             \/ target' = [type |-> "survey", content |-> "new", name |-> work[w].copy]
      BY <1>7, <2>2 DEF I!Sheet, I!Same
    <3>3. PICK new \in Works : /\ work' = [work EXCEPT ![w] = new] /\ new.pc = "create"
                               /\ new.copy = work[w].copy /\ new.todo = work[w].todo
                               /\ new.moves = work[w].moves
      BY <3>2, GoFacts DEF Doing
    <3>4. work'[w] = new
      BY <3>3, WorkFacts
    <3>5. /\ target' \in [type : {"none", "survey", "empty", "collection"},
                          content : {"old", "new"}, name : {"old", "edited"}]
          /\ target.content = "new" => target'.content = "new"
      BY <3>1, <3>2, WorkFacts
    <3>6. Progress(w)'
      BY <3>1, <3>2, <3>3, <3>4, WorkFacts DEF Progress, InItsPlace, IsMade
    <3>7. status # "created"
      BY <3>1, WorkFacts DEF OneWorks, Waiting
    <3>8. OneWorks'
      BY <3>1, <3>2, <3>3, <3>7, StillOne
    <3>9. QED
      BY <3>1, <3>2, <3>3, <3>5, <3>6, <3>7, <3>8, WorkFacts, WorkerStep
  <2>3. QED
    BY <2>1, <2>2
<1>8. ASSUME NEW w \in Workers, I!Busy(w), I!End(w, "complete"), I!Same,
             UNCHANGED <<assets, target, allowed, together>>,
             \A i \in I!Items(upload) : InItsPlace(i, w)
      PROVE  ImportsInv'
  <2>1. PICK new \in Works : work' = [work EXCEPT ![w] = new] /\ new.pc = "done" /\ Progress(w)'
    BY <1>8, LeaveFacts DEF I!End, I!Same
  <2>2. \A i \in I!Items(upload) : InItsPlace(i, w)'
    BY <1>8 DEF InItsPlace, I!Same
  <2>3. status # "created" /\ status' = "complete"
    BY <1>8, WorkFacts DEF OneWorks, Waiting, I!Busy, I!End
  <2>4. OneWorks'
    BY <1>8, <2>1, <2>3, StillOne DEF I!Busy
  <2>5. QED
    BY <1>8, <2>1, <2>2, <2>3, <2>4, WorkFacts, WorkerStep DEF I!Same, I!Busy
<1>9. ASSUME NEW w \in Workers, I!Create(w) PROVE ImportsInv'
  <2>1. /\ work[w].pc = "create" /\ work[w].moves = {} /\ upload.kind # "archive"
        /\ work[w].copy \in {"old", "edited"}
    BY <1>9, WorkFacts DEF I!Create, I!At, Progress, ImportsInv, WorkTypes
  <2>2. CASE work[w].todo = {}
    <3>1. \A i \in I!Items(upload) : InItsPlace(i, w)
      BY <2>1, <2>2, WorkFacts DEF Progress
    <3>2. QED
      BY <1>8, <1>9, <2>1, <2>2, <3>1 DEF I!Create, I!Busy, I!At
  <2>3. CASE work[w].todo # {}
    <3>1. PICK i \in work[w].todo :
            /\ assets' = assets \cup {[item |-> i, parent |-> I!Place(upload, i), by |-> w]}
            /\ work' = [work EXCEPT ![w].todo = @ \ {i}]
            /\ status' = status
      BY <1>9, <2>3 DEF I!Create
    <3> DEFINE new == [work[w] EXCEPT !.todo = work[w].todo \ {i}]
    <3>2. /\ work' = [work EXCEPT ![w] = new] /\ new \in Works
          /\ new.pc = "create" /\ new.moves = {}
          /\ new.todo = work[w].todo \ {i} /\ new.copy = work[w].copy
      BY <2>1, <3>1, WorkFacts DEF Works
    <3> HIDE DEF new
    <3>3. /\ upload' = upload /\ importDied' = importDied /\ target' = target
          /\ allowed' = allowed /\ together' = together
      BY <1>9 DEF I!Create, I!Same
    <3>4. work'[w] = new
      BY <3>2, WorkFacts
    <3>5. Progress(w)'
      BY <2>1, <3>1, <3>2, <3>3, <3>4, WorkFacts DEF Progress, InItsPlace
    <3>6. status # "created"
      BY <2>1, WorkFacts DEF OneWorks, Waiting
    <3>7. \A a \in assets' :
            a \in assets \/ (a.by = w /\ a = [item |-> a.item, parent |-> a.parent, by |-> w])
      BY <3>1
    <3>8. OneWorks'
      BY <2>1, <3>1, <3>2, <3>3, <3>6, <3>7, StillOne
    <3>9. /\ \A a \in assets : a.by # w => a \in assets'
          /\ \A a \in assets' :
               a \in assets \/ (a = [item |-> a.item, parent |-> a.parent, by |-> w])
      BY <3>1, <3>7
    <3>10. /\ work[w].pc # "done" /\ status' = status /\ new.copy \in {"old", "edited"}
           /\ status' \in {"created", "processing", "complete", "error"}
           /\ importDied' \in BOOLEAN /\ allowed' \in BOOLEAN /\ together' \in BOOLEAN
           /\ target' \in [type : {"none", "survey", "empty", "collection"},
                           content : {"old", "new"}, name : {"old", "edited"}]
           /\ target.content = "new" => target'.content = "new"
      BY <2>1, <3>1, <3>2, <3>3, WorkFacts
    <3>11. QED
      BY <3>2, <3>3, <3>5, <3>8, <3>9, <3>10, WorkerStep
  <2>4. QED
    BY <2>2, <2>3
<1>10. ASSUME NEW w \in Workers, I!Archive(w) PROVE ImportsInv'
  <2>1. /\ work[w].pc = "archive" /\ upload.kind = "archive" /\ work[w].copy \in {"old", "edited"}
        /\ upload' = upload /\ importDied' = importDied
        /\ allowed' = allowed /\ together' = together
        /\ status # "created" /\ I!Busy(w)
    BY <1>10, WorkFacts
       DEF I!Archive, I!At, I!Same, I!Busy, Progress, ImportsInv, WorkTypes, OneWorks, Waiting
  <2>2. CASE work[w].todo = {}
    <3>1. I!Go(w, "move") /\ assets' = assets /\ target' = target /\ status' = status
      BY <1>10, <2>2 DEF I!Archive
    <3>2. PICK new \in Works : /\ work' = [work EXCEPT ![w] = new] /\ new.pc = "move"
                               /\ new.copy = work[w].copy /\ new.todo = work[w].todo
                               /\ new.moves = work[w].moves
      BY <3>1, GoFacts DEF Doing
    <3>3. work'[w] = new
      BY <3>2, WorkFacts
    <3>4. Progress(w)'
      BY <2>1, <2>2, <3>1, <3>2, <3>3, WorkFacts DEF Progress, InItsPlace, IsMade
    <3>5. OneWorks'
      BY <2>1, <3>1, <3>2, StillOne
    <3>6. QED
      BY <2>1, <3>1, <3>2, <3>4, <3>5, WorkFacts, WorkerStep
  <2>3. ASSUME NEW i \in work[w].todo, I!Entry(w, i, I!Place(upload, i)) PROVE ImportsInv'
    <3>1. /\ target' \in [type : {"none", "survey", "empty", "collection"},
                          content : {"old", "new"}, name : {"old", "edited"}]
          /\ target.content = "new" => target'.content = "new"
          /\ ~I!IsDir(i) => target'.content = "new"
      BY <2>1, <2>3, WorkFacts DEF I!Entry
    <3>2. /\ \A a \in assets : a \in assets'
          /\ \A a \in assets' :
               a \in assets \/ (a.by = w /\ a = [item |-> a.item, parent |-> a.parent, by |-> w])
          /\ I!IsDir(i) => [item |-> i, parent |-> "none", by |-> w] \in assets'
      BY <2>3 DEF I!Entry
    <3>3. CASE I!End(w, "error")
      BY <1>3, <2>1, <3>1, <3>2, <3>3 DEF I!Same
    <3>4. ASSUME NEW moved \in {{}, {i}},
                 work' = [work EXCEPT ![w] = [work[w] EXCEPT !.todo = work[w].todo \ {i},
                                                             !.moves = work[w].moves \cup moved]],
                 status' = status,
                 I!IsDir(i) /\ I!Place(upload, i) # "none" => i \in moved,
                 \A m \in moved : m = i /\ I!IsDir(i)
          PROVE  ImportsInv'
      <4> DEFINE new == [work[w] EXCEPT !.todo = work[w].todo \ {i},
                                        !.moves = work[w].moves \cup moved]
      <4>1. /\ new \in Works /\ new.pc = "archive" /\ new.moves = work[w].moves \cup moved
            /\ new.todo = work[w].todo \ {i} /\ new.copy = work[w].copy
        BY <2>1, WorkFacts DEF Works
      <4>2. work' = [work EXCEPT ![w] = new]
        BY <3>4
      <4> HIDE DEF new
      <4>3. work'[w] = new
        BY <4>1, <4>2, WorkFacts
      <4>4. \A j : /\ InItsPlace(j, w) => InItsPlace(j, w)'
                   /\ IsMade(j, w) => IsMade(j, w)'
        BY <2>1, <3>1, <3>2 DEF InItsPlace, IsMade
      <4>5. ~I!IsDir(i) \/ I!Place(upload, i) = "none" => InItsPlace(i, w)'
        BY <2>1, <3>1, <3>2 DEF InItsPlace
      <4>6. I!IsDir(i) => IsMade(i, w)'
        BY <3>2 DEF IsMade
      <4>7. \A j \in I!Items(upload) :
              \/ j \in new.todo
              \/ InItsPlace(j, w)'
              \/ j \in new.moves /\ I!IsDir(j) /\ IsMade(j, w)'
        BY <2>1, <3>4, <4>1, <4>4, <4>5, <4>6, WorkFacts DEF Progress
      <4>8. Progress(w)'
        BY <2>1, <4>1, <4>3, <4>7 DEF Progress
      <4>9. OneWorks'
        BY <2>1, <3>2, <3>4, <4>1, <4>2, StillOne
      <4>10. QED
        BY <2>1, <3>1, <3>2, <3>4, <4>1, <4>2, <4>8, <4>9, WorkFacts, WorkerStep
    <3>5. CASE /\ I!Place(upload, i) = "none" /\ status' = status
               /\ work' = [work EXCEPT ![w].todo = @ \ {i}]
      <4>1. work' = [work EXCEPT ![w] = [work[w] EXCEPT !.todo = work[w].todo \ {i},
                                                        !.moves = work[w].moves \cup {}]]
        BY <3>5, WorkFacts DEF Works
      <4>2. \A m \in {} : m = i /\ I!IsDir(i)
        OBVIOUS
      <4>3. {} \in {{}, {i}}
        OBVIOUS
      <4>4. QED
        BY <3>4, <3>5, <4>1, <4>2, <4>3
    <3>6. CASE /\ I!IsDir(i) /\ status' = status
               /\ work' = [work EXCEPT ![w].todo = @ \ {i}, ![w].moves = @ \cup {i}]
      <4>1. work' = [work EXCEPT ![w] = [work[w] EXCEPT !.todo = work[w].todo \ {i},
                                                        !.moves = work[w].moves \cup {i}]]
        BY <3>6, WorkFacts DEF Works
      <4>2. /\ \A m \in {i} : m = i /\ I!IsDir(i)
            /\ i \in {i}
        BY <3>6
      <4>3. {i} \in {{}, {i}}
        OBVIOUS
      <4>4. QED
        BY <3>4, <3>6, <4>1, <4>2, <4>3
    <3>7. QED
      BY <2>3, <3>3, <3>5, <3>6 DEF I!Entry
  <2>4. QED
    BY <1>10, <2>2, <2>3 DEF I!Archive
<1>11. ASSUME NEW w \in Workers, I!Move(w) PROVE ImportsInv'
  <2>1. /\ work[w].pc = "move" /\ upload.kind = "archive" /\ work[w].copy \in {"old", "edited"}
        /\ upload' = upload /\ importDied' = importDied
        /\ allowed' = allowed /\ together' = together
        /\ target' = target /\ work[w].todo = {} /\ status # "created" /\ I!Busy(w)
    BY <1>11, WorkFacts
       DEF I!Move, I!At, I!Same, I!Busy, Progress, ImportsInv, WorkTypes, OneWorks, Waiting
  <2>2. CASE work[w].moves = {}
    <3>1. \A i \in I!Items(upload) : InItsPlace(i, w)
      BY <2>1, <2>2, WorkFacts DEF Progress
    <3>2. QED
      BY <1>8, <1>11, <2>1, <2>2, <3>1 DEF I!Move
  <2>3. ASSUME NEW i \in work[w].moves,
               assets' = {IF a.item = i /\ a.by = w
                          THEN [a EXCEPT !.parent = I!Place(upload, i)] ELSE a : a \in assets},
               work' = [work EXCEPT ![w].moves = @ \ {i}], status' = status
        PROVE  ImportsInv'
    <3> DEFINE new == [work[w] EXCEPT !.moves = work[w].moves \ {i}]
    <3>1. /\ new \in Works /\ new.pc = "move" /\ new.moves = work[w].moves \ {i}
          /\ new.todo = {} /\ new.copy = work[w].copy
          /\ work' = [work EXCEPT ![w] = new]
      BY <2>1, <2>3, WorkFacts DEF Works
    <3> HIDE DEF new
    <3>2. work'[w] = new
      BY <3>1, WorkFacts
    <3>3. \A a \in assets : a.by # w => a \in assets'
      BY <2>3
    <3>4. \A a \in assets : a.item # i => a \in assets'
      BY <2>3
    <3>5. ASSUME NEW a \in assets, a.item = i, a.by = w
          PROVE  [item |-> i, parent |-> I!Place(upload, i), by |-> w] \in assets'
      <4>1. a = [item |-> a.item, parent |-> a.parent, by |-> a.by]
        BY DEF ImportsInv, WorkTypes
      <4>2. [a EXCEPT !.parent = I!Place(upload, i)] =
              [item |-> i, parent |-> I!Place(upload, i), by |-> w]
        BY <3>5, <4>1
      <4>3. QED
        BY <2>3, <3>5, <4>2
    <3>6. \A a \in assets' :
            a \in assets \/ (a.by = w /\ a = [item |-> a.item, parent |-> a.parent, by |-> w])
      <4>1. SUFFICES ASSUME NEW b \in assets, b.item = i, b.by = w
                     PROVE  LET a == [b EXCEPT !.parent = I!Place(upload, i)]
                            IN a.by = w /\ a = [item |-> a.item, parent |-> a.parent, by |-> w]
        BY <2>3
      <4>2. b = [item |-> b.item, parent |-> b.parent, by |-> b.by]
        BY DEF ImportsInv, WorkTypes
      <4>3. QED
        BY <4>1, <4>2
    <3>7. \A j : j # i => /\ InItsPlace(j, w) => InItsPlace(j, w)'
                          /\ IsMade(j, w) => IsMade(j, w)'
      BY <2>1, <3>4 DEF InItsPlace, IsMade
    <3>8. i \in I!Items(upload) => InItsPlace(i, w)'
      <4>1. SUFFICES ASSUME i \in I!Items(upload) PROVE InItsPlace(i, w)'
        OBVIOUS
      <4>2. CASE ~I!IsDir(i)
        BY <2>1, <4>1, <4>2, WorkFacts DEF Progress, InItsPlace
      <4>3. CASE IsMade(i, w) /\ I!IsDir(i)
        BY <2>1, <3>5, <4>3 DEF IsMade, InItsPlace
      <4>4. CASE InItsPlace(i, w) /\ I!IsDir(i)
        BY <2>1, <3>5, <4>4 DEF InItsPlace
      <4>5. QED
        BY <2>1, <4>1, <4>2, <4>3, <4>4, WorkFacts DEF Progress
    <3>9. Progress(w)'
      BY <2>1, <3>1, <3>2, <3>7, <3>8, WorkFacts DEF Progress
    <3>10. OneWorks'
      BY <2>1, <2>3, <3>1, <3>6, StillOne
    <3>11. \A a \in assets' :
             a \in assets \/ (a = [item |-> a.item, parent |-> a.parent, by |-> w])
      BY <3>6
    <3>12. /\ work[w].pc # "done" /\ status' = status /\ new.copy \in {"old", "edited"}
           /\ status' \in {"created", "processing", "complete", "error"}
           /\ importDied' \in BOOLEAN /\ allowed' \in BOOLEAN /\ together' \in BOOLEAN
           /\ target' \in [type : {"none", "survey", "empty", "collection"},
                           content : {"old", "new"}, name : {"old", "edited"}]
           /\ target.content = "new" => target'.content = "new"
      BY <2>1, <2>3, <3>1, WorkFacts
    <3>13. QED
      BY <2>1, <3>1, <3>3, <3>9, <3>10, <3>11, <3>12, WorkerStep
  <2>4. QED
    BY <1>11, <2>2, <2>3 DEF I!Move
<1>12. CASE I!Rename \/ I!Revoke \/ UNCHANGED importVars
  <2>1. /\ work' = work /\ upload' = upload /\ status' = status /\ assets' = assets
        /\ together' = together /\ importDied' = importDied /\ allowed' \in BOOLEAN
        /\ target'.content = target.content
        /\ target' \in [type : {"none", "survey", "empty", "collection"},
                        content : {"old", "new"}, name : {"old", "edited"}]
    BY <1>12 DEF I!Rename, I!Revoke, importVars, ImportsInv, I!ImportsTypeOK
  <2>2. I!ImportsTypeOK' /\ WorkTypes' /\ OneWorks'
    BY <2>1 DEF ImportsInv, I!ImportsTypeOK, WorkTypes, Works, OneWorks
  <2>3. (\A w \in Workers : Progress(w)') /\ Completed'
    BY <2>1 DEF ImportsInv, Progress, InItsPlace, IsMade, Completed
  <2>4. QED
    BY <2>2, <2>3 DEF ImportsInv
<1>13. QED
  BY <1>1, <1>2, <1>4, <1>5, <1>6, <1>7, <1>9, <1>10, <1>11, <1>12 DEF I!ImportsNext, I!Import

(* What the invariant is for.                                              *)
LEMMA ImportsAreRight ==
  ASSUME ImportsInv
  PROVE  I!ImportsTypeOK /\ I!CompleteIsInPlace /\ I!RedeliveryDoesNothing
<1>1. I!CompleteIsInPlace
  BY DEF ImportsInv, Completed, InItsPlace, I!CompleteIsInPlace
<1>2. I!RedeliveryDoesNothing
  BY DEF ImportsInv, OneWorks, I!RedeliveryDoesNothing
<1>3. QED
  BY <1>1, <1>2 DEF ImportsInv

-----------------------------------------------------------------------------
(***************************************************************************)
(* REST services: however many attempts overlap, are late or die, a log    *)
(* never counts more tries than the data were sent, those still to be      *)
(* counted set aside; and exactly as many unless an attempt died or        *)
(* overlapped with another.                                                *)
(***************************************************************************)

(* The attempts that have sent the data and are still to count it.         *)
InFlight == {s \in Senders : sender[s].pc \in {"load", "save"}}

(* What a number of tries, in a log or in a copy at hand, leaves for them: *)
(* not less than they need, and not more.                                  *)
Fits(n)  == n + Cardinality(InFlight) <= posts
Exact(n) == n + Cardinality(InFlight) = posts

(* ... and after a step.                                                   *)
WillFit(n)     == n + Cardinality(InFlight)' <= posts'
WillBeExact(n) == n + Cardinality(InFlight)' = posts'

(* Every log and every copy fits.                                          *)
Counted ==
  /\ Fits(0)
  /\ \A l \in LogIds : Fits(logs[l].tries)
  /\ \A s \in Senders : sender[s] # Free => Fits(sender[s].copy.tries)

(* What says failed was tried more often than retries are made, as long as *)
(* there are not two logs.                                                 *)
Exhausted(x) == x.status = "failed" => x.tries > MaxRetries

Failures ==
  Cardinality(Existing) <= 1 =>
    /\ \A l \in LogIds : Exhausted(logs[l])
    /\ \A s \in Senders : sender[s] # Free => Exhausted(sender[s].copy)

(* The log that an attempt saves is one; the one it marks exists.          *)
Holds ==
  \A s \in Senders :
    /\ sender[s].pc = "save" => sender[s].copy \in Log
    /\ sender[s].pc = "mark" => sender[s].log \in Existing

(* Nobody died and no two attempts were under way at once.                 *)
Calm == ~died /\ ~raced

(* Then one attempt is active at most, there is one log at most, and       *)
(* nothing was missed.                                                     *)
Exactly ==
  Calm =>
    /\ \A s, t \in Senders : Active(s) /\ Active(t) => s = t
    /\ \A l, m \in Existing : l = m
    /\ Existing = {} => Exact(0)
    /\ \A l \in Existing : Exact(logs[l].tries)
    /\ \A s \in Senders : sender[s].pc \in {"mark", "save"} =>
         Exact(sender[s].copy.tries) /\ Existing \subseteq {sender[s].log}

(* The inductive invariant of deliveries.                                  *)
HookInv == HookTypeOK /\ Counted /\ Failures /\ Holds /\ Exactly

-----------------------------------------------------------------------------
(* The values of a log, and what a process has of it.                      *)
LEMMA LogFacts ==
  ASSUME HookTypeOK
  PROVE  /\ \A l \in LogIds : /\ logs[l] \in Log \cup {Absent} /\ logs[l].tries \in Nat
                              /\ Copy(l) \in Log \cup {Absent}
                              /\ Copy(l).tries = logs[l].tries /\ Copy(l).status = logs[l].status
                              /\ logs[l] # Absent => logs[l] \in Log /\ Copy(l) \in Log
         /\ \A x \in Log : x.tries \in Nat /\ x # Absent
         /\ Absent.tries = 0 /\ Absent.status = "absent"
         /\ NewLog \in Log /\ NewLog.tries = 0 /\ NewLog.status = "pending"
<1>1. /\ Absent.tries = 0 /\ Absent.status = "absent"
      /\ NewLog \in Log /\ NewLog.tries = 0 /\ NewLog.status = "pending"
  BY DEF Absent, NewLog, Log, Status
<1>2. \A x \in Log : x.tries \in Nat /\ x # Absent
  BY DEF Log, Absent, Status
<1>3. ASSUME NEW l \in LogIds
      PROVE  /\ logs[l] \in Log \cup {Absent} /\ logs[l].tries \in Nat
             /\ Copy(l) \in Log \cup {Absent}
             /\ Copy(l).tries = logs[l].tries /\ Copy(l).status = logs[l].status
             /\ logs[l] # Absent => logs[l] \in Log /\ Copy(l) \in Log
  <2>1. logs[l] \in Log \cup {Absent}
    BY DEF HookTypeOK
  <2>2. CASE logs[l] \in Log
    BY <1>2, <2>2 DEF Copy, Log
  <2>3. CASE logs[l] = Absent
    <3>1. [Absent EXCEPT !.stale = FALSE] = Absent
      <4>1. \A x \in [status : {"absent"}, tries : {0}, stale : {FALSE}] :
              [x EXCEPT !.stale = FALSE] = x
        OBVIOUS
      <4>2. Absent \in [status : {"absent"}, tries : {0}, stale : {FALSE}]
        BY DEF Absent
      <4>3. QED
        BY <4>1, <4>2
    <3>2. Copy(l) = Absent
      BY <2>3, <3>1 DEF Copy
    <3>3. QED
      BY <1>1, <2>3, <3>2
  <2>4. QED
    BY <2>1, <2>2, <2>3
<1>4. QED
  BY <1>1, <1>2, <1>3

(* A log with another status.                                              *)
LEMMA Restated ==
  ASSUME NEW c \in Log \cup {Absent}, NEW st \in Status
  PROVE  /\ [c EXCEPT !.status = st] \in Log
         /\ [c EXCEPT !.status = st].tries = c.tries
         /\ [c EXCEPT !.status = st].status = st
<1>1. CASE c \in Log
  BY <1>1 DEF Log
<1>2. CASE c = Absent
  BY <1>2 DEF Log, Absent
<1>3. QED
  BY <1>1, <1>2

(* What the types say of an attempt.                                       *)
LEMMA SenderFacts ==
  ASSUME HookTypeOK, NEW s \in Senders
  PROVE  /\ Free.pc = "free" /\ sender[s] \in Sender \cup {Free}
         /\ sender[s].pc # "free" => sender[s] \in Sender /\ sender[s] # Free
         /\ sender[s] # Free => sender[s] \in Sender /\ sender[s].copy.tries \in Nat
         /\ sender[s].pc = "free" => sender[s] = Free
<1>1. sender[s] \in Sender \cup {Free} /\ Free.pc = "free"
  BY DEF HookTypeOK, Free
<1>2. sender[s] \in Sender => sender[s].pc # "free" /\ sender[s].copy \in Log \cup {Absent}
  BY DEF Sender
<1>3. QED
  BY <1>1, <1>2, LogFacts

(* Numbers of tries, of attempts and of posts are natural.                 *)
LEMMA Numbers ==
  ASSUME HookTypeOK
  PROVE  /\ MaxRetries \in Nat /\ MaxSignals \in Nat /\ MaxManual \in Nat /\ posts \in Nat
         /\ IsFiniteSet(InFlight) /\ Cardinality(InFlight) \in Nat
         /\ InFlight = {} => Cardinality(InFlight) = 0
<1>1. IsFiniteSet(InFlight)
  BY HookAssumption, FS_Subset DEF InFlight
<1>2. QED
  BY <1>1, HookAssumption, FS_CardinalityType, FS_EmptySet DEF HookTypeOK

(* What a step of attempt s means to it and to the others.                 *)
LEMMA SenderMoves ==
  ASSUME HookTypeOK, NEW s \in Senders, NEW new \in Sender \cup {Free},
         sender' = [sender EXCEPT ![s] = new]
  PROVE  /\ sender' \in [Senders -> Sender \cup {Free}] /\ sender'[s] = new
         /\ \A t \in Senders \ {s} : sender'[t] = sender[t]
BY DEF HookTypeOK

(* ... and to the number of those that are still to count.                 *)
LEMMA FlightMoves ==
  ASSUME HookTypeOK, NEW s \in Senders, NEW new \in Sender \cup {Free},
         sender' = [sender EXCEPT ![s] = new]
  PROVE  /\ Cardinality(InFlight)' \in Nat
         /\ s \notin InFlight /\ new.pc \in {"load", "save"} =>
              Cardinality(InFlight)' = Cardinality(InFlight) + 1
         /\ s \in InFlight /\ new.pc \notin {"load", "save"} =>
              Cardinality(InFlight)' = Cardinality(InFlight) - 1
         /\ (s \in InFlight <=> new.pc \in {"load", "save"}) =>
              Cardinality(InFlight)' = Cardinality(InFlight)
<1>1. /\ new.pc \in {"load", "save"} => InFlight' = InFlight \cup {s}
      /\ new.pc \notin {"load", "save"} => InFlight' = InFlight \ {s}
  BY SenderMoves DEF InFlight
<1>2. IsFiniteSet(InFlight) /\ Cardinality(InFlight) \in Nat
  BY Numbers
<1>3. CASE s \notin InFlight /\ new.pc \in {"load", "save"}
  <2>1. /\ IsFiniteSet(InFlight \cup {s})
        /\ Cardinality(InFlight \cup {s}) = Cardinality(InFlight) + 1
    BY <1>2, <1>3, FS_AddElement
  <2>2. InFlight' = InFlight \cup {s}
    BY <1>1, <1>3
  <2>3. Cardinality(InFlight') = Cardinality(InFlight) + 1 /\ Cardinality(InFlight') \in Nat
    BY <2>1, <2>2, FS_CardinalityType
  <2>4. QED
    BY <1>3, <2>3
<1>4. CASE s \in InFlight /\ new.pc \notin {"load", "save"}
  <2>1. Cardinality(InFlight \ {s}) = Cardinality(InFlight) - 1 /\ IsFiniteSet(InFlight \ {s})
    BY <1>2, <1>4, FS_RemoveElement
  <2>2. QED
    BY <1>1, <1>4, <2>1, FS_CardinalityType
<1>5. CASE s \in InFlight <=> new.pc \in {"load", "save"}
  <2>1. InFlight' = InFlight
    BY <1>1, <1>5
  <2>2. QED
    BY <1>2, <1>5, <2>1
<1>6. QED
  BY <1>3, <1>4, <1>5

(* What saving a log means to the logs.                                    *)
LEMMA LogMoves ==
  ASSUME HookTypeOK, NEW l \in LogIds, NEW x \in Log, logs' = [logs EXCEPT ![l] = x]
  PROVE  /\ logs' \in [LogIds -> Log \cup {Absent}] /\ logs'[l] = x
         /\ \A m \in LogIds \ {l} : logs'[m] = logs[m]
         /\ Existing' = Existing \cup {l}
<1>1. /\ logs' \in [LogIds -> Log \cup {Absent}] /\ logs'[l] = x
      /\ \A m \in LogIds \ {l} : logs'[m] = logs[m]
  BY DEF HookTypeOK
<1>2. x # Absent
  BY LogFacts
<1>3. QED
  BY <1>1, <1>2 DEF Existing

(* ... and that its tries stay when it is saved with them.                 *)
LEMMA SameTries ==
  ASSUME HookTypeOK, NEW l \in Existing, NEW x \in Log, logs' = [logs EXCEPT ![l] = x],
         x.tries = logs[l].tries
  PROVE  /\ Existing' = Existing
         /\ \A m \in LogIds : logs'[m].tries = logs[m].tries
         /\ \A m \in LogIds \ {l} : logs'[m] = logs[m]
<1>1. l \in LogIds
  BY DEF Existing
<1>2. /\ logs'[l] = x /\ Existing' = Existing \cup {l}
      /\ \A m \in LogIds \ {l} : logs'[m] = logs[m]
  BY <1>1, LogMoves
<1>3. QED
  BY <1>2

(* There are not fewer logs than before.                                   *)
LEMMA MoreLogs ==
  ASSUME HookTypeOK, Existing \subseteq Existing', Existing' \subseteq LogIds,
         Cardinality(Existing)' <= 1
  PROVE  Cardinality(Existing) <= 1
<1>1. IsFiniteSet(LogIds)
  BY Numbers, FS_Interval DEF LogIds
<1>2. IsFiniteSet(Existing')
  BY <1>1, FS_Subset
<1>3. /\ Cardinality(Existing) <= Cardinality(Existing') /\ IsFiniteSet(Existing)
      /\ Cardinality(Existing') \in Nat
  BY <1>2, FS_Subset, FS_CardinalityType
<1>4. Cardinality(Existing) \in Nat
  BY <1>3, FS_CardinalityType
<1>5. QED
  BY <1>3, <1>4

(* Logs of which no two differ are not more than one.                      *)
LEMMA OneLogThen ==
  ASSUME \A l, m \in Existing : l = m
  PROVE  ~(Cardinality(Existing) > 1)
<1>1. CASE Existing = {}
  BY <1>1, FS_EmptySet
<1>2. CASE Existing # {}
  <2>1. PICK l \in Existing : TRUE
    BY <1>2
  <2>2. Existing = {l}
    BY <2>1
  <2>3. Cardinality(Existing) = 1
    BY <2>2, FS_Singleton
  <2>4. QED
    BY <2>3
<1>3. QED
  BY <1>1, <1>2

(* HookInv holds at first.                                                 *)
LEMMA HookStart == HookInit => HookInv
<1> SUFFICES ASSUME HookInit PROVE HookInv
  OBVIOUS
<1>1. /\ \A s \in Senders : sender[s] = Free /\ sender[s].pc = "free"
      /\ \A l \in LogIds : logs[l] = Absent
      /\ posts = 0 /\ MaxSignals \in Nat /\ MaxManual \in Nat /\ MaxRetries \in Nat
  BY HookAssumption DEF HookInit, Free
<1>2. HookTypeOK
  <2>1. logs \in [LogIds -> Log \cup {Absent}]
    BY DEF HookInit
  <2>2. sender \in [Senders -> Sender \cup {Free}]
    BY DEF HookInit
  <2>3. /\ signals \in 0..MaxSignals /\ manual \in 0..MaxManual
        /\ posts \in Nat /\ died \in BOOLEAN /\ raced \in BOOLEAN
    <3>1. signals = 0 /\ manual = 0 /\ posts = 0
      BY DEF HookInit
    <3>2. MaxSignals \in Nat /\ MaxManual \in Nat
      BY HookAssumption
    <3>3. died \in BOOLEAN /\ raced \in BOOLEAN
      BY DEF HookInit
    <3>4. QED
      BY <3>1, <3>2, <3>3
  <2>4. QED
    BY <2>1, <2>2, <2>3 DEF HookTypeOK
<1>3. InFlight = {} /\ Existing = {} /\ Cardinality(InFlight) = 0
  BY <1>1, <1>2, Numbers DEF InFlight, Existing
<1>4. Counted /\ Failures
  BY <1>1, <1>3, LogFacts, <1>2 DEF Counted, Fits, Failures, Exhausted
<1>5. Holds /\ Exactly
  BY <1>1, <1>3 DEF Holds, Exactly, Exact, Active
<1>6. QED
  BY <1>2, <1>4, <1>5 DEF HookInv

(* What a step saves and what attempt s holds afterwards fits, and the     *)
(* posts keep up with those still to count.                                *)
Saves ==
  \/ logs' = logs
  \/ \E l \in LogIds, x \in Log :
       /\ logs' = [logs EXCEPT ![l] = x]
       /\ WillFit(x.tries) /\ (Cardinality(Existing) <= 1 => Exhausted(x))

Carries(new) ==
  new # Free =>
    /\ WillFit(new.copy.tries) /\ (Cardinality(Existing) <= 1 => Exhausted(new.copy))
    /\ new.pc = "save" => new.copy \in Log
    /\ new.pc = "mark" => new.log \in Existing

KeepsUp ==
  posts' \in Nat /\ Cardinality(InFlight)' + posts <= Cardinality(InFlight) + posts'

(* What a step of attempt s has to show: what it saves and what it holds   *)
(* afterwards fits, and the posts keep up with those still to count.       *)
LEMMA HookStep ==
  ASSUME HookInv, NEW s \in Senders, NEW new \in Sender \cup {Free},
         sender' = [sender EXCEPT ![s] = new],
         Saves, KeepsUp,
         signals' \in 0..MaxSignals, manual' \in 0..MaxManual, died' \in BOOLEAN,
         raced' \in BOOLEAN,
         Carries(new),
         Exactly'
  PROVE  HookInv'
<1>0. HookTypeOK /\ Counted /\ Failures /\ Holds
  BY DEF HookInv
<1>1. /\ sender' \in [Senders -> Sender \cup {Free}] /\ sender'[s] = new
      /\ \A t \in Senders \ {s} : sender'[t] = sender[t]
  BY <1>0, SenderMoves
<1>2. /\ logs' \in [LogIds -> Log \cup {Absent}]
      /\ Existing \subseteq Existing'
      /\ \A l \in LogIds : logs'[l] = logs[l] \/
           (WillFit(logs'[l].tries) /\ (Cardinality(Existing) <= 1 => Exhausted(logs'[l])))
  <2>1. CASE logs' = logs
    BY <1>0, <2>1 DEF HookTypeOK, Existing
  <2>2. CASE logs' # logs
    <3>1. PICK l \in LogIds, x \in Log :
              /\ logs' = [logs EXCEPT ![l] = x]
              /\ WillFit(x.tries) /\ (Cardinality(Existing) <= 1 => Exhausted(x))
      BY <2>2 DEF Saves
    <3>2. QED
      BY <1>0, <3>1, LogMoves
  <2>3. QED
    BY <2>1, <2>2
<1>3. HookTypeOK'
  BY <1>1, <1>2 DEF HookTypeOK, KeepsUp
<1>4. ASSUME NEW n \in Nat, Fits(n) PROVE WillFit(n)
  <2>1. Cardinality(InFlight) \in Nat /\ posts \in Nat /\ Cardinality(InFlight)' \in Nat
    BY <1>0, Numbers, FlightMoves
  <2>2. QED
    BY <1>4, <2>1 DEF Fits, WillFit, KeepsUp
<1>5. Counted'
  <2>1. \A l \in LogIds : WillFit(logs'[l].tries)
    BY <1>0, <1>2, <1>4, LogFacts DEF Counted
  <2>2. ASSUME NEW t \in Senders, sender'[t] # Free PROVE WillFit(sender'[t].copy.tries)
    BY <1>0, <1>1, <1>4, <2>2, SenderFacts DEF Counted, Carries
  <2>3. WillFit(0)
    BY <1>0, <1>4 DEF Counted
  <2>4. QED
    BY <2>1, <2>2, <2>3 DEF Counted, Fits, WillFit
<1>6. Failures'
  <2>1. Existing' \subseteq LogIds
    BY DEF Existing
  <2>2. SUFFICES ASSUME Cardinality(Existing)' <= 1
                 PROVE  /\ \A l \in LogIds : Exhausted(logs'[l])
                        /\ \A t \in Senders : sender'[t] # Free => Exhausted(sender'[t].copy)
    BY DEF Failures, Exhausted
  <2>3. Cardinality(Existing) <= 1
    BY <1>0, <1>2, <2>1, <2>2, MoreLogs
  <2>4. QED
    BY <1>0, <1>1, <1>2, <2>3 DEF Failures, Carries
<1>7. Holds'
  BY <1>0, <1>1, <1>2, SenderFacts DEF Holds, Carries
<1>8. QED
  BY <1>3, <1>5, <1>6, <1>7 DEF HookInv

(* Exactly is kept by a step of s after which as many are still to count   *)
(* as before, and one more when the data were sent once more; if s was not *)
(* active before, it becomes so alone.                                     *)
LEMMA ExactOn ==
  ASSUME HookInv, NEW s \in Senders, NEW new \in Sender \cup {Free},
         sender' = [sender EXCEPT ![s] = new],
         Calm' => Calm, posts' \in Nat,
         Cardinality(InFlight)' + posts = Cardinality(InFlight) + posts',
         Calm => /\ Existing' = Existing
                 /\ \A l \in LogIds : logs'[l].tries = logs[l].tries,
         Calm' /\ new.pc \in {"mark", "post", "load", "save"} /\ ~Active(s) =>
           \A t \in Senders \ {s} : ~Active(t),
         Calm /\ new.pc \in {"mark", "save"} =>
           Exact(new.copy.tries) /\ new.copy.tries \in Nat /\ Existing \subseteq {new.log}
  PROVE  Exactly'
<1>0. HookTypeOK
  BY DEF HookInv
<1>1. SUFFICES ASSUME Calm' PROVE Exactly'
  BY DEF Exactly
<1>2. Calm /\ Existing' = Existing /\ \A l \in LogIds : logs'[l].tries = logs[l].tries
  BY <1>1
<1>3. /\ sender'[s] = new
      /\ \A t \in Senders \ {s} : sender'[t] = sender[t]
  BY <1>0, SenderMoves
<1>4. ASSUME NEW n \in Nat, Exact(n) PROVE WillBeExact(n)
  <2>1. Cardinality(InFlight) \in Nat /\ posts \in Nat /\ Cardinality(InFlight)' \in Nat
    BY <1>0, Numbers, FlightMoves
  <2>2. QED
    BY <1>4, <2>1 DEF Exact, WillBeExact
<1>5. \A t, u \in Senders : Active(t)' /\ Active(u)' => t = u
  BY <1>1, <1>2, <1>3 DEF HookInv, Exactly, Active
<1>6. /\ \A l, m \in Existing' : l = m
      /\ Existing' = {} => WillBeExact(0)
      /\ \A l \in Existing' : WillBeExact(logs'[l].tries)
  <2>1. /\ \A l, m \in Existing : l = m
        /\ Existing = {} => Exact(0)
        /\ \A l \in Existing : Exact(logs[l].tries)
    BY <1>2 DEF HookInv, Exactly
  <2>2. \A l \in Existing : l \in LogIds /\ logs[l].tries \in Nat
    BY <1>0, LogFacts DEF Existing
  <2>3. QED
    BY <1>2, <1>4, <2>1, <2>2
<1>7. ASSUME NEW t \in Senders, sender'[t].pc \in {"mark", "save"}
      PROVE  WillBeExact(sender'[t].copy.tries) /\ Existing' \subseteq {sender'[t].log}
  <2>1. CASE t = s
    BY <1>2, <1>3, <1>4, <1>7, <2>1
  <2>2. CASE t # s
    <3>1. sender'[t] = sender[t] /\ sender[t].copy.tries \in Nat
      BY <1>0, <1>3, <1>7, <2>2, SenderFacts DEF Free
    <3>2. QED
      BY <1>2, <1>4, <1>7, <3>1 DEF HookInv, Exactly
  <2>3. QED
    BY <2>1, <2>2
<1>8. QED
  BY <1>5, <1>6, <1>7 DEF Exactly, Exact, WillBeExact

(* What RacesNow says: a step that leaves all calm had nobody beside it.   *)
LEMMA NoRace ==
  ASSUME HookTypeOK, NEW s \in Senders, RacesNow(s), died' = died
  PROVE  /\ raced' \in BOOLEAN
         /\ Calm' => Calm /\ \A t \in Senders \ {s} : ~Active(t)
BY DEF RacesNow, Calm, HookTypeOK

(* HookInv is inductive: a case for every step of an attempt, a crash, a   *)
(* user's retry of one log or of all, and a log that grows stale.          *)
LEMMA HookGoOn ==
  ASSUME HookInv, [HookNext]_hookVars
  PROVE  HookInv'
<1>0. /\ HookTypeOK /\ Counted /\ Failures /\ Holds /\ Exactly
      /\ signals \in 0..MaxSignals /\ manual \in 0..MaxManual
      /\ died \in BOOLEAN /\ raced \in BOOLEAN
      /\ MaxManual \in Nat /\ MaxRetries \in Nat /\ MaxSignals \in Nat
      /\ posts \in Nat /\ Cardinality(InFlight) \in Nat
  BY Numbers DEF HookInv, HookTypeOK
<1>a. ASSUME NEW s \in Senders, sender[s] # Free
      PROVE  /\ sender[s] \in Sender /\ sender[s].log \in LogIds
             /\ sender[s].copy.tries \in Nat /\ Fits(sender[s].copy.tries)
             /\ sender[s].copy \in Log \cup {Absent} /\ sender[s].retries \in 0..MaxRetries
             /\ Cardinality(Existing) <= 1 => Exhausted(sender[s].copy)
  BY <1>0, <1>a, SenderFacts DEF Sender, Counted, Failures
<1>b. /\ \A l \in LogIds : /\ Fits(Copy(l).tries) /\ Copy(l).tries \in Nat
                           /\ Cardinality(Existing) <= 1 => Exhausted(Copy(l))
      /\ Fits(0)
  <2>1. \A l \in LogIds : Copy(l).tries = logs[l].tries /\ Copy(l).status = logs[l].status
                          /\ logs[l].tries \in Nat
    BY <1>0, LogFacts
  <2>2. QED
    BY <1>0, <2>1 DEF Counted, Failures, Exhausted
<1>c. /\ Exhausted(Absent) /\ Absent \in Log \cup {Absent}
      /\ Absent.tries = 0 /\ Absent.status # "failed"
  BY <1>0, LogFacts DEF Exhausted
<1>d. ASSUME NEW n \in Nat, Fits(n), posts' \in Nat, Cardinality(InFlight)' \in Nat,
             Cardinality(InFlight)' + posts <= Cardinality(InFlight) + posts'
      PROVE  WillFit(n)
  BY <1>0, <1>d DEF Fits, WillFit
<1>1. ASSUME NEW s \in Senders, Signal(s) PROVE HookInv'
  <2>1. /\ sender[s] = Free /\ signals' = signals + 1 /\ signals' \in 0..MaxSignals
        /\ signals' \in LogIds
        /\ logs' = logs /\ manual' = manual /\ died' = died /\ raced' = raced /\ posts' = posts
    BY <1>0, <1>1, SenderFacts DEF Signal, At, LogIds
  <2> DEFINE queued == [pc |-> "queued", kind |-> "auto", retries |-> 0, log |-> signals',
                        copy |-> Absent, sent |-> FALSE]
             new == IF Existing # {} THEN Free ELSE queued
  <2>2. /\ new \in Sender \cup {Free} /\ new.pc \in {"free", "queued"}
        /\ new # Free => new.copy = Absent
    BY <1>0, <1>c, <2>1 DEF Sender, Free
  <2>3. sender' = [sender EXCEPT ![s] = new]
    BY <1>0, <1>1, <2>1 DEF Signal, HookTypeOK
  <2> HIDE DEF new, queued
  <2>a. s \notin InFlight
    BY <2>1 DEF InFlight, Free
  <2>4. Cardinality(InFlight)' = Cardinality(InFlight)
    BY <1>0, <2>a, <2>2, <2>3, FlightMoves
  <2>5. Exactly'
    BY <1>0, <2>1, <2>2, <2>3, <2>4, ExactOn DEF Calm, Existing
  <2>6. WillFit(0)
    BY <1>0, <1>b, <1>d, <2>1, <2>4
  <2>7. Saves /\ KeepsUp /\ Carries(new)
    BY <1>0, <1>c, <2>1, <2>2, <2>4, <2>6 DEF Saves, KeepsUp, Carries, Free
  <2>8. QED
    BY <1>0, <2>1, <2>2, <2>3, <2>5, <2>7, HookStep
<1>2. ASSUME NEW s \in Senders, Run(s) PROVE HookInv'
  <2>1. /\ sender[s] # Free /\ sender[s].pc = "queued" /\ logs' = logs /\ posts' = posts
        /\ signals' = signals /\ manual' = manual /\ died' = died /\ RacesNow(s)
    BY <1>2 DEF Run, At, Free
  <2> DEFINE c == IF sender[s].kind = "all" THEN Copy(sender[s].log) ELSE sender[s].copy
             new == [sender[s] EXCEPT !.pc = "post", !.copy = c]
  <2>2. /\ c \in Log \cup {Absent} /\ Fits(c.tries) /\ c.tries \in Nat
        /\ Cardinality(Existing) <= 1 => Exhausted(c)
    BY <1>0, <1>a, <1>b, <2>1, LogFacts
  <2> HIDE DEF c
  <2>3. new \in Sender /\ new.pc = "post" /\ new.copy = c
    BY <1>a, <2>1, <2>2 DEF Sender
  <2>4. sender' = [sender EXCEPT ![s] = new]
    BY <1>0, <1>2, <2>1 DEF Run, HookTypeOK, c
  <2> HIDE DEF new
  <2>5. Cardinality(InFlight)' = Cardinality(InFlight)
    BY <1>0, <2>1, <2>3, <2>4, FlightMoves DEF InFlight
  <2>6. Exactly'
    BY <1>0, <2>1, <2>3, <2>4, <2>5, NoRace, ExactOn DEF Existing
  <2>7. WillFit(c.tries) /\ raced' \in BOOLEAN
    BY <1>0, <1>d, <2>1, <2>2, <2>5, NoRace
  <2>8. Saves /\ KeepsUp /\ Carries(new)
    BY <1>0, <2>1, <2>2, <2>3, <2>5, <2>7 DEF Saves, KeepsUp, Carries
  <2>9. QED
    BY <1>0, <2>1, <2>3, <2>4, <2>6, <2>7, <2>8, HookStep
<1>3. ASSUME NEW s \in Senders, Post(s) PROVE HookInv'
  <2>1. /\ sender[s] # Free /\ sender[s].pc = "post" /\ logs' = logs /\ posts' = posts + 1
        /\ signals' = signals /\ manual' = manual /\ died' = died /\ raced' = raced
    BY <1>3 DEF Post, At, Free
  <2>2. PICK ok \in BOOLEAN : sender' = [sender EXCEPT ![s].pc = "load", ![s].sent = ok]
    BY <1>3 DEF Post
  <2> DEFINE new == [sender[s] EXCEPT !.pc = "load", !.sent = ok]
  <2>3. new \in Sender /\ new.pc = "load" /\ new.copy = sender[s].copy
    BY <1>a, <2>1 DEF Sender
  <2>4. sender' = [sender EXCEPT ![s] = new]
    BY <1>0, <2>1, <2>2 DEF HookTypeOK
  <2> HIDE DEF new
  <2>5. Cardinality(InFlight)' = Cardinality(InFlight) + 1
    BY <1>0, <2>1, <2>3, <2>4, FlightMoves DEF InFlight
  <2>6. Active(s) /\ Existing' = Existing /\ (Calm' => Calm)
    BY <2>1 DEF Active, Existing, Calm
  <2>7. Exactly'
    <3>1. /\ posts' \in Nat /\ Cardinality(InFlight)' + posts = Cardinality(InFlight) + posts'
          /\ \A l \in LogIds : logs'[l].tries = logs[l].tries
      BY <1>0, <2>1, <2>5
    <3>2. QED
      BY <2>3, <2>4, <2>6, <3>1, ExactOn
  <2>8. WillFit(new.copy.tries)
    BY <1>0, <1>a, <1>d, <2>1, <2>3, <2>5
  <2>9. Saves /\ KeepsUp /\ Carries(new)
    BY <1>0, <1>a, <2>1, <2>3, <2>5, <2>8 DEF Saves, KeepsUp, Carries
  <2>10. QED
    BY <1>0, <2>1, <2>3, <2>4, <2>7, <2>9, HookStep
<1>4. ASSUME NEW s \in Senders, LoadLog(s) PROVE HookInv'
  <2>a. /\ sender[s].pc = "load"
        /\ posts' = posts /\ signals' = signals /\ manual' = manual
        /\ died' = died /\ raced' = raced
    BY <1>4 DEF LoadLog, At
  <2>1. /\ sender[s] # Free /\ sender[s].pc = "load" /\ s \in InFlight /\ Active(s)
        /\ posts' = posts /\ signals' = signals /\ manual' = manual
        /\ died' = died /\ raced' = raced
    BY <2>a DEF Free, InFlight, Active
  <2>2. CASE Cardinality(Existing) > 1
    <3>1. /\ sender' = [sender EXCEPT ![s] = Free] /\ Free \in Sender \cup {Free}
          /\ Raises(s)
      BY <1>4, <2>2 DEF LoadLog, Raises, Ends
    <3>2. Cardinality(InFlight)' = Cardinality(InFlight) - 1
      BY <1>0, <2>1, <3>1, FlightMoves DEF Free
    <3>3. Exactly'
      <4>1. Calm => ~(Cardinality(Existing) > 1)
        BY <1>0, OneLogThen DEF Exactly
      <4>2. QED
        BY <2>1, <2>2, <4>1 DEF Exactly, Calm
    <3> DEFINE x == [sender[s].copy EXCEPT !.status = "failed"]
    <3>4. x \in Log /\ x.tries = sender[s].copy.tries
      BY <1>a, <2>1, Restated DEF Status
    <3>5. logs' = logs \/ logs' = [logs EXCEPT ![sender[s].log] = x]
      BY <3>1 DEF Raises
    <3> HIDE DEF x
    <3>6. WillFit(x.tries) /\ KeepsUp
      <4>1. /\ posts' \in Nat /\ Cardinality(InFlight)' \in Nat
            /\ Cardinality(InFlight)' + posts <= Cardinality(InFlight) + posts'
        <5>1. Cardinality(InFlight)' \in Nat
          BY <1>0, <3>1, FlightMoves
        <5>2. QED
          BY <1>0, <2>1, <3>2, <5>1
      <4>2. WillFit(sender[s].copy.tries)
        BY <1>a, <1>d, <2>1, <4>1
      <4>3. QED
        BY <3>4, <4>1, <4>2 DEF KeepsUp
    <3>7. ~(Cardinality(Existing) <= 1)
      <4>1. IsFiniteSet(LogIds)
        BY <1>0, FS_Interval DEF LogIds
      <4>2. Cardinality(Existing) \in Nat
        BY <4>1, FS_Subset, FS_CardinalityType DEF Existing
      <4>3. QED
        BY <2>2, <4>2
    <3>8. Saves /\ Carries(Free)
      BY <1>a, <2>1, <3>4, <3>5, <3>6, <3>7 DEF Saves, Carries
    <3>9. QED
      BY <1>0, <2>1, <3>1, <3>3, <3>6, <3>8, HookStep
  <2>3. CASE ~(Cardinality(Existing) > 1)
    <3>1. PICK l \in LogIds, c \in Log :
            /\ sender' = [sender EXCEPT ![s].pc = "save", ![s].log = l, ![s].copy = c]
            /\ Fits(c.tries) /\ c.tries \in Nat /\ (Cardinality(Existing) <= 1 => Exhausted(c))
            /\ Calm => Exact(c.tries) /\ Existing \subseteq {l}
      <4>1. CASE Existing = {}
        <5>1. sender' = [sender EXCEPT ![s].pc = "save", ![s].copy = NewLog]
          BY <1>4, <2>3, <4>1 DEF LoadLog
        <5>2. sender' = [sender EXCEPT ![s].pc = "save", ![s].log = sender[s].log,
                                       ![s].copy = NewLog]
          BY <1>0, <1>a, <2>1, <5>1 DEF HookTypeOK, Sender
        <5>3. Calm => Exact(0)
          BY <1>0, <4>1 DEF Exactly
        <5>4. QED
          BY <1>0, <1>a, <1>b, <2>1, <4>1, <5>2, <5>3, LogFacts DEF Exhausted
      <4>2. CASE Existing # {}
        <5> DEFINE k == CHOOSE m \in Existing : TRUE
        <5>1. sender' = [sender EXCEPT ![s].pc = "save", ![s].log = k, ![s].copy = Copy(k)]
          BY <1>4, <2>3, <4>2 DEF LoadLog
        <5>2. k \in Existing /\ k \in LogIds
          BY <4>2 DEF Existing
        <5> HIDE DEF k
        <5>3. Copy(k) \in Log /\ Copy(k).tries = logs[k].tries
          BY <1>0, <5>2, LogFacts DEF Existing
        <5>4. Calm => Exact(Copy(k).tries) /\ Existing \subseteq {k}
          BY <1>0, <5>2, <5>3 DEF Exactly
        <5>5. QED
          BY <1>b, <5>1, <5>2, <5>3, <5>4
      <4>3. QED
        BY <4>1, <4>2
    <3> DEFINE new == [sender[s] EXCEPT !.pc = "save", !.log = l, !.copy = c]
    <3>2. new \in Sender /\ new.pc = "save" /\ new.copy = c /\ new.log = l
      BY <1>a, <2>1, <3>1 DEF Sender
    <3>3. sender' = [sender EXCEPT ![s] = new]
      BY <1>0, <2>1, <3>1 DEF HookTypeOK
    <3> HIDE DEF new
    <3>4. Cardinality(InFlight)' = Cardinality(InFlight)
      BY <1>0, <2>1, <3>2, <3>3, FlightMoves
    <3>a. logs' = logs
      BY <1>4, <2>3 DEF LoadLog
    <3>5. logs' = logs /\ Existing' = Existing /\ (Calm' => Calm)
      BY <2>1, <3>a DEF Existing, Calm
    <3>6. Exactly'
      BY <1>0, <2>1, <3>1, <3>2, <3>3, <3>4, <3>5, ExactOn
    <3>7. WillFit(c.tries)
      BY <1>0, <1>d, <2>1, <3>1, <3>4
    <3>8. Saves /\ KeepsUp /\ Carries(new)
      BY <1>0, <2>1, <3>1, <3>2, <3>4, <3>5, <3>7 DEF Saves, KeepsUp, Carries
    <3>9. QED
      BY <1>0, <2>1, <3>2, <3>3, <3>6, <3>8, HookStep
  <2>4. QED
    BY <2>2, <2>3
<1>5. ASSUME NEW s \in Senders, sender[s].pc = "save", GoesOn(s)
      PROVE  /\ Cardinality(InFlight)' = Cardinality(InFlight) - 1
             /\ \E new \in Sender \cup {Free} :
                  /\ sender' = [sender EXCEPT ![s] = new]
                  /\ new.pc \in {"free", "queued"} /\ (new # Free => new.copy = Absent)
  <2>1. sender[s] # Free /\ s \in InFlight
    BY <1>5 DEF Free, InFlight
  <2>2. PICK new \in Sender \cup {Free} :
          /\ sender' = [sender EXCEPT ![s] = new]
          /\ new.pc \in {"free", "queued"} /\ (new # Free => new.copy = Absent)
    <3>1. CASE WillRetry(s)
      <4> DEFINE r == sender[s].retries + 1
                 n == [sender[s] EXCEPT !.pc = "queued", !.retries = r, !.copy = Absent]
      <4>1. r \in 0..MaxRetries
        BY <1>0, <1>a, <2>1, <3>1 DEF WillRetry
      <4>2. sender' = [sender EXCEPT ![s] = n]
        BY <1>0, <1>5, <3>1 DEF GoesOn, HookTypeOK
      <4> HIDE DEF r
      <4>3. n \in Sender /\ n.pc = "queued" /\ n.copy = Absent
        BY <1>a, <2>1, <4>1 DEF Sender
      <4> HIDE DEF n
      <4>4. QED
        BY <4>2, <4>3
    <3>2. CASE ~WillRetry(s)
      BY <1>5, <3>2 DEF GoesOn, Ends, Free
    <3>3. QED
      BY <3>1, <3>2
  <2>3. QED
    BY <1>0, <2>1, <2>2, FlightMoves
<1>6. ASSUME NEW s \in Senders, SaveLog(s) PROVE HookInv'
  <2>1. /\ sender[s] # Free /\ sender[s].pc = "save" /\ s \in InFlight /\ Active(s)
        /\ posts' = posts /\ signals' = signals /\ manual' = manual
        /\ died' = died /\ raced' = raced
        /\ logs' = [logs EXCEPT ![sender[s].log] = LogAfter(sender[s].copy, sender[s].sent)]
    BY <1>6 DEF SaveLog, At, Free, InFlight, Active
  <2>2. Cardinality(InFlight)' = Cardinality(InFlight) - 1
    BY <1>5, <1>6, <2>1 DEF SaveLog
  <2>3. PICK new \in Sender \cup {Free} :
          /\ sender' = [sender EXCEPT ![s] = new]
          /\ new.pc \in {"free", "queued"} /\ (new # Free => new.copy = Absent)
    BY <1>5, <1>6, <2>1 DEF SaveLog
  <2> DEFINE x == LogAfter(sender[s].copy, sender[s].sent)
  <2>4. sender[s].copy \in Log
    BY <1>0, <2>1 DEF Holds
  <2>5. x \in Log /\ x.tries = sender[s].copy.tries + 1
    <3>1. NewStatus(sender[s].copy, sender[s].sent) \in Status
      BY <2>4 DEF NewStatus, Log, Status
    <3>2. QED
      BY <1>a, <2>1, <3>1 DEF LogAfter, Log
  <2>6. Cardinality(Existing) <= 1 => Exhausted(x)
    <3>1. NewStatus(sender[s].copy, sender[s].sent) = "failed" =>
            sender[s].copy.tries >= MaxRetries \/ sender[s].copy.status = "failed"
      BY DEF NewStatus
    <3>2. QED
      BY <1>0, <1>a, <2>1, <3>1 DEF LogAfter, Exhausted
  <2> HIDE DEF x
  <2>7. /\ sender[s].log \in LogIds /\ logs' = [logs EXCEPT ![sender[s].log] = x]
    BY <1>a, <2>1 DEF x
  <2>8. WillFit(x.tries) /\ WillFit(0)
    BY <1>0, <1>a, <1>b, <2>1, <2>2, <2>5 DEF Fits, WillFit
  <2>9. Exactly'
    <3>1. SUFFICES ASSUME Calm' PROVE Exactly'
      BY DEF Exactly
    <3>2. Calm /\ Exact(sender[s].copy.tries) /\ Existing \subseteq {sender[s].log}
      BY <1>0, <2>1, <3>1 DEF Exactly, Calm
    <3>3. /\ Existing' = {sender[s].log} /\ logs'[sender[s].log] = x
      BY <1>0, <2>5, <2>7, <3>2, LogMoves
    <3>4. \A t \in Senders : ~Active(t)' /\ sender'[t].pc \notin {"mark", "save"}
      BY <1>0, <2>1, <2>3, <3>2, SenderMoves DEF Exactly, Active
    <3>5. WillBeExact(x.tries)
      BY <1>0, <1>a, <2>1, <2>2, <2>5, <3>2 DEF Exact, WillBeExact
    <3>6. QED
      BY <3>3, <3>4, <3>5 DEF Exactly, Exact, WillBeExact
  <2>10. Saves /\ KeepsUp /\ Carries(new)
    <3>1. Saves
      BY <2>5, <2>6, <2>7, <2>8 DEF Saves
    <3>2. KeepsUp
      BY <1>0, <2>1, <2>2 DEF KeepsUp
    <3>3. Carries(new)
      BY <1>c, <2>3, <2>8 DEF Carries
    <3>4. QED
      BY <3>1, <3>2, <3>3
  <2>11. QED
    BY <1>0, <2>1, <2>3, <2>9, <2>10, HookStep
<1>7. ASSUME NEW s \in Senders, LoseLog(s) PROVE HookInv'
  <2>1. /\ sender[s] # Free /\ sender[s].pc = "save" /\ GoesOn(s)
        /\ posts' = posts /\ signals' = signals /\ manual' = manual
        /\ died' = TRUE /\ raced' = raced /\ logs' = logs
    BY <1>7 DEF LoseLog, At, Free
  <2>2. Cardinality(InFlight)' = Cardinality(InFlight) - 1
    BY <1>5, <2>1
  <2>3. PICK new \in Sender \cup {Free} :
          /\ sender' = [sender EXCEPT ![s] = new]
          /\ new.pc \in {"free", "queued"} /\ (new # Free => new.copy = Absent)
    BY <1>5, <2>1
  <2>4. WillFit(0) /\ Cardinality(InFlight)' + posts <= Cardinality(InFlight) + posts'
    BY <1>0, <1>b, <2>1, <2>2 DEF Fits, WillFit
  <2>5. Exactly'
    BY <2>1 DEF Exactly, Calm
  <2>6. Saves /\ KeepsUp /\ Carries(new)
    BY <1>0, <1>c, <2>1, <2>3, <2>4 DEF Saves, KeepsUp, Carries, Free
  <2>7. QED
    BY <1>0, <2>1, <2>3, <2>5, <2>6, HookStep
<1>8. ASSUME NEW s \in Senders, MarkPending(s) PROVE HookInv'
  <2>1. /\ sender[s] # Free /\ sender[s].pc = "mark" /\ Active(s)
        /\ posts' = posts /\ signals' = signals /\ manual' = manual
        /\ died' = died /\ raced' = raced
    BY <1>8 DEF MarkPending, At, Free, Active
  <2> DEFINE x == [sender[s].copy EXCEPT !.status = "pending"]
             new == [sender[s] EXCEPT !.pc = "post"]
  <2>2. x \in Log /\ x.status = "pending" /\ x.tries = sender[s].copy.tries
    BY <1>a, <2>1, Restated DEF Status
  <2>3. /\ new \in Sender /\ new.pc = "post" /\ new.copy = sender[s].copy
    BY <1>a, <2>1 DEF Sender
  <2>4. logs' = [logs EXCEPT ![sender[s].log] = x] /\ sender' = [sender EXCEPT ![s] = new]
    BY <1>0, <1>8 DEF MarkPending, HookTypeOK
  <2> HIDE DEF x, new
  <2>5. Cardinality(InFlight)' = Cardinality(InFlight)
    BY <1>0, <2>1, <2>3, <2>4, FlightMoves DEF InFlight
  <2>6. Calm => /\ Existing' = Existing
                /\ \A l \in LogIds : logs'[l].tries = logs[l].tries
    <3>1. SUFFICES ASSUME Calm PROVE /\ Existing' = Existing
                                     /\ \A l \in LogIds : logs'[l].tries = logs[l].tries
      OBVIOUS
    <3>2. sender[s].log \in Existing /\ sender[s].log \in LogIds
      BY <1>0, <1>a, <2>1 DEF Holds
    <3>3. Exact(sender[s].copy.tries) /\ Exact(logs[sender[s].log].tries)
      BY <1>0, <2>1, <3>1, <3>2 DEF Exactly
    <3>4. x.tries = logs[sender[s].log].tries
      <4>1. logs[sender[s].log].tries \in Nat
        BY <1>0, <3>2, LogFacts
      <4>2. QED
        BY <1>0, <1>a, <2>1, <2>2, <3>3, <4>1 DEF Exact
    <3>5. QED
      BY <1>0, <2>2, <2>4, <3>2, <3>4, SameTries
  <2>7. Exactly'
    BY <1>0, <2>1, <2>3, <2>4, <2>5, <2>6, ExactOn DEF Calm
  <2>8. WillFit(x.tries) /\ WillFit(new.copy.tries)
    BY <1>0, <1>a, <1>d, <2>1, <2>2, <2>3, <2>5
  <2>9. Exhausted(x) /\ sender[s].log \in LogIds
    BY <1>a, <2>1, <2>2 DEF Exhausted
  <2>10. Saves /\ KeepsUp /\ Carries(new)
    <3>1. Saves
      BY <2>2, <2>4, <2>8, <2>9 DEF Saves
    <3>2. KeepsUp
      BY <1>0, <2>1, <2>5 DEF KeepsUp
    <3>3. Carries(new)
      BY <1>a, <2>1, <2>3, <2>8 DEF Carries
    <3>4. QED
      BY <3>1, <3>2, <3>3
  <2>11. QED
    BY <1>0, <2>1, <2>3, <2>4, <2>7, <2>10, HookStep
<1>9. ASSUME NEW s \in Senders, Crash(s) PROVE HookInv'
  <2>1. /\ sender' = [sender EXCEPT ![s] = Free] /\ Free \in Sender \cup {Free}
        /\ posts' = posts /\ signals' = signals /\ manual' = manual
        /\ died' = TRUE /\ raced' = raced /\ logs' = logs
    BY <1>9 DEF Crash, Ends
  <2>2. Cardinality(InFlight)' \in {Cardinality(InFlight) - 1, Cardinality(InFlight)}
    BY <1>0, <2>1, FlightMoves DEF Free
  <2>3. Cardinality(InFlight)' + posts <= Cardinality(InFlight) + posts'
    BY <1>0, <2>1, <2>2
  <2>4. Exactly'
    BY <2>1 DEF Exactly, Calm
  <2>5. Saves /\ KeepsUp /\ Carries(Free)
    BY <1>0, <2>1, <2>3 DEF Saves, KeepsUp, Carries
  <2>6. QED
    BY <1>0, <2>1, <2>4, <2>5, HookStep
<1>10. ASSUME NEW s \in Senders, NEW l \in LogIds, RetryOne(s, l) PROVE HookInv'
  <2>1. /\ sender[s] = Free /\ l \in Existing /\ manual' \in 0..MaxManual /\ RacesNow(s)
        /\ logs' = logs /\ posts' = posts /\ signals' = signals /\ died' = died
        /\ sender' = [sender EXCEPT ![s] = Retrier("one", "mark", l)]
    BY <1>0, <1>10, SenderFacts DEF RetryOne, At
  <2>a. s \notin InFlight /\ ~Active(s)
    BY <2>1 DEF InFlight, Active, Free
  <2> DEFINE new == Retrier("one", "mark", l)
  <2>2. new \in Sender /\ new.pc = "mark" /\ new.copy = Copy(l) /\ new.log = l
    BY <1>0, LogFacts DEF Retrier, Sender
  <2>3. sender' = [sender EXCEPT ![s] = new]
    BY <2>1
  <2> HIDE DEF new
  <2>4. Cardinality(InFlight)' = Cardinality(InFlight)
    BY <1>0, <2>a, <2>2, <2>3, FlightMoves
  <2>5. Calm => Exact(Copy(l).tries) /\ Existing \subseteq {l}
    BY <1>0, <2>1, LogFacts DEF Exactly
  <2>6. Exactly'
    <3>1. Existing' = Existing /\ \A m \in LogIds : logs'[m].tries = logs[m].tries
      BY <2>1 DEF Existing
    <3>2. Calm' => Calm /\ \A t \in Senders \ {s} : ~Active(t)
      BY <1>0, <2>1, NoRace
    <3>3. /\ posts' \in Nat /\ Cardinality(InFlight)' + posts = Cardinality(InFlight) + posts'
          /\ new \in Sender \cup {Free} /\ new.copy.tries \in Nat
          /\ Calm => Exact(new.copy.tries) /\ Existing \subseteq {new.log}
      BY <1>0, <1>b, <2>1, <2>2, <2>4, <2>5
    <3>4. QED
      BY <2>3, <3>1, <3>2, <3>3, ExactOn
  <2>7. WillFit(Copy(l).tries) /\ raced' \in BOOLEAN
    BY <1>0, <1>b, <1>d, <2>1, <2>4, NoRace
  <2>8. Saves /\ KeepsUp /\ Carries(new)
    BY <1>0, <1>b, <2>1, <2>2, <2>4, <2>7 DEF Saves, KeepsUp, Carries
  <2>9. QED
    BY <1>0, <2>1, <2>2, <2>3, <2>6, <2>7, <2>8, HookStep
<1>11. ASSUME NEW s \in Senders, NEW l \in LogIds, RetryAll(s, l) PROVE HookInv'
  <2>1. /\ sender[s] = Free /\ l \in Existing /\ manual' \in 0..MaxManual
        /\ posts' = posts /\ signals' = signals /\ died' = died /\ raced' = raced
        /\ sender' = [sender EXCEPT ![s] = Retrier("all", "queued", l)]
    BY <1>0, <1>11, SenderFacts DEF RetryAll, At
  <2>a. s \notin InFlight
    BY <2>1 DEF InFlight, Free
  <2> DEFINE new == Retrier("all", "queued", l)
             x == [logs[l] EXCEPT !.status = "pending"]
  <2>2. new \in Sender /\ new.pc = "queued" /\ new.copy = Copy(l) /\ new.log = l
    BY <1>0, LogFacts DEF Retrier, Sender
  <2>3. x \in Log /\ x.status = "pending" /\ x.tries = logs[l].tries
    BY <1>0, <2>1, LogFacts, Restated DEF Status
  <2>4. sender' = [sender EXCEPT ![s] = new] /\ logs' = [logs EXCEPT ![l] = x]
    BY <1>0, <1>11, <2>1 DEF RetryAll, HookTypeOK
  <2> HIDE DEF new, x
  <2>5. Cardinality(InFlight)' = Cardinality(InFlight)
    BY <1>0, <2>a, <2>2, <2>4, FlightMoves
  <2>6. Existing' = Existing /\ \A m \in LogIds : logs'[m].tries = logs[m].tries
    BY <1>0, <2>1, <2>3, <2>4, SameTries
  <2>7. Exactly'
    <3>1. /\ posts' \in Nat /\ Cardinality(InFlight)' + posts = Cardinality(InFlight) + posts'
          /\ new \in Sender \cup {Free} /\ (Calm' => Calm)
      BY <1>0, <2>1, <2>2, <2>5 DEF Calm
    <3>2. QED
      BY <2>2, <2>4, <2>6, <3>1, ExactOn
  <2>8. WillFit(Copy(l).tries) /\ WillFit(x.tries) /\ Exhausted(x)
    BY <1>0, <1>b, <1>d, <2>1, <2>3, <2>5, LogFacts DEF Exhausted
  <2>9. Saves /\ KeepsUp /\ Carries(new)
    <3>1. Saves
      BY <2>3, <2>4, <2>8 DEF Saves
    <3>2. KeepsUp
      BY <1>0, <2>1, <2>5 DEF KeepsUp
    <3>3. Carries(new)
      BY <1>b, <2>2, <2>8 DEF Carries
    <3>4. QED
      BY <3>1, <3>2, <3>3
  <2>10. QED
    BY <1>0, <2>1, <2>2, <2>4, <2>7, <2>9, HookStep
<1>12. ASSUME NEW l \in LogIds, GrowStale(l) PROVE HookInv'
  <2> DEFINE x == [logs[l] EXCEPT !.stale = TRUE]
  <2>1. /\ l \in Existing /\ logs' = [logs EXCEPT ![l] = x]
        /\ sender' = sender /\ posts' = posts /\ signals' = signals /\ manual' = manual
        /\ died' = died /\ raced' = raced
    BY <1>0, <1>12 DEF GrowStale, HookTypeOK
  <2>2. x \in Log /\ x.status = logs[l].status /\ x.tries = logs[l].tries
    BY <1>0, <2>1, LogFacts DEF Log, Existing
  <2> HIDE DEF x
  <2>3. /\ logs' \in [LogIds -> Log \cup {Absent}] /\ Existing' = Existing
        /\ \A m \in LogIds : logs'[m].tries = logs[m].tries /\ logs'[m].status = logs[m].status
    BY <1>0, <2>1, <2>2, LogMoves, SameTries
  <2>4. HookTypeOK' /\ Counted' /\ Holds'
    BY <1>0, <2>1, <2>3 DEF HookTypeOK, Counted, Fits, InFlight, Holds
  <2>5. Failures'
    BY <1>0, <2>1, <2>3 DEF Failures, Exhausted
  <2>6. Exactly'
    BY <1>0, <2>1, <2>3 DEF Exactly, Calm, Active, Exact, InFlight, Existing
  <2>7. QED
    BY <2>4, <2>5, <2>6 DEF HookInv
<1>13. CASE UNCHANGED hookVars
  BY <1>13 DEF hookVars, HookInv, HookTypeOK, Counted, Fits, InFlight, Failures, Exhausted, Holds,
               Exactly, Calm, Active, Exact, Existing
<1>14. QED
  BY <1>1, <1>2, <1>3, <1>4, <1>6, <1>7, <1>8, <1>9, <1>10, <1>11, <1>12, <1>13
     DEF HookNext, Attempt

(* What the invariant is for.                                              *)
LEMMA HookCounts ==
  ASSUME HookInv
  PROVE  FailedAfterRetries /\ TriesAreCounted
<1>1. /\ posts \in Nat /\ Cardinality(InFlight) \in Nat /\ MaxRetries \in Nat
      /\ \A l \in LogIds : logs[l].tries \in Nat /\ logs[l].tries <= posts
  BY Numbers, LogFacts DEF HookInv, Counted, Fits
<1>2. FailedAfterRetries
  BY <1>1 DEF HookInv, Failures, Exhausted, FailedAfterRetries
<1>3. ASSUME ~died, ~raced, \A s \in Senders : ~At(s, "load") /\ ~At(s, "save")
      PROVE  \A l \in Existing : logs[l].tries = posts
  <2>1. InFlight = {}
    BY <1>3 DEF InFlight, At
  <2>2. Cardinality(InFlight) = 0
    BY <2>1, FS_EmptySet
  <2>3. QED
    BY <1>1, <1>3, <2>2 DEF HookInv, Exactly, Calm, Exact, Existing
<1>4. QED
  BY <1>1, <1>2, <1>3 DEF TriesAreCounted

-----------------------------------------------------------------------------
(***************************************************************************)
(* All of them.                                                            *)
(***************************************************************************)

(* A step of one of them changes nothing of the others.                    *)
LEMMA Steps ==
  ASSUME [BackgroundNext]_backgroundVars
  PROVE  /\ [HookNext]_hookVars /\ [SyncNext]_syncVars
         /\ [E!ExportsNext]_exportVars /\ [I!ImportsNext]_importVars
BY DEF BackgroundNext, Deliver, Synchronous, Export, Import, backgroundVars,
       hookVars, syncVars, exportVars, importVars

(* Every invariant holds at first.                                         *)
LEMMA Starts == BackgroundInit => HookInv /\ SyncInv /\ ExportsInv /\ ImportsInv
BY HookStart, SyncStart, ExportsStart, ImportsStart DEF BackgroundInit

(* The theorems use no fairness.                                           *)
LEMMA SafetyPart == BackgroundSpec => BackgroundInit /\ [][BackgroundNext]_backgroundVars
BY PTL DEF BackgroundSpec

(* The type invariant, of all that runs in the background.                 *)
THEOREM BackgroundTypes == BackgroundSpec => []BackgroundTypeOK
<1> DEFINE Inv == HookInv /\ SyncInv /\ ExportsInv /\ ImportsInv
<1>1. BackgroundInit => Inv
  BY Starts
<1>2. Inv /\ [BackgroundNext]_backgroundVars => Inv'
  BY Steps, HookGoOn, SyncGoOn, ExportsGoOn, ImportsGoOn
<1>3. Inv => BackgroundTypeOK
  BY DEF BackgroundTypeOK, HookInv, SyncInv, ExportsInv, ImportsInv
<1> HIDE DEF Inv
<1>4. QED
  BY <1>1, <1>2, <1>3, SafetyPart, PTL

(* A complete export has a file that is whole, unless somebody began to    *)
(* remove it, it is old enough to pass for stuck, or a second run claimed  *)
(* it behind another's back; a synchronous one as long as it may be        *)
(* returned; and what a complete import promised is in place: for every    *)
(* number of exports, deliveries, requests, workers and items              *)
(* (ExportTaskBase._run_task(), ImportTask._run_task(),                    *)
(* SynchronousExport.generate_or_return_existing()).                       *)
THEOREM CompleteMeansWhole == BackgroundSpec => []CompleteIsWhole
<1> DEFINE Inv == SyncInv /\ ExportsInv /\ ImportsInv
<1>1. BackgroundInit => Inv
  BY Starts
<1>2. Inv /\ [BackgroundNext]_backgroundVars => Inv'
  BY Steps, SyncGoOn, ExportsGoOn, ImportsGoOn
<1>3. Inv => CompleteIsWhole
  BY ExportsWhole, ImportsAreRight DEF CompleteIsWhole, SyncInv
<1> HIDE DEF Inv
<1>4. QED
  BY <1>1, <1>2, <1>3, SafetyPart, PTL

(* A delivery fails only after the data were sent as often as all          *)
(* automatic attempts send them; the log counts no try twice, and none is  *)
(* missed unless an attempt died or two overlapped                         *)
(* (service_definition_task(), ServiceDefinitionInterface.save_log()); and *)
(* an import that the broker delivers again does nothing unless two        *)
(* workers claimed it together (ImportExportTask.run()).                   *)
THEOREM DeliveriesCounted == BackgroundSpec => []DeliveriesAreCounted
<1> DEFINE Inv == HookInv /\ ImportsInv
<1>1. BackgroundInit => Inv
  BY Starts
<1>2. Inv /\ [BackgroundNext]_backgroundVars => Inv'
  BY Steps, HookGoOn, ImportsGoOn
<1>3. Inv => DeliveriesAreCounted
  BY HookCounts, ImportsAreRight DEF DeliveriesAreCounted
<1> HIDE DEF Inv
<1>4. QED
  BY <1>1, <1>2, <1>3, SafetyPart, PTL

(* A complete synchronous export is replaced only when it is older than    *)
(* the settings allow (SynchronousExport.generate_or_return_existing()):   *)
(* the lock serialises the requests, and whoever waited looks again.       *)
THEOREM RunsSpaced == BackgroundSpec => RunsAreSpaced
<1>1. BackgroundInit => SyncInv
  BY Starts
<1>2. SyncInv /\ [BackgroundNext]_backgroundVars => SyncInv'
  BY Steps, SyncGoOn
<1>3. SyncInv /\ [BackgroundNext]_backgroundVars =>
        [row.status = "complete" /\ row' # row => row'.date - row.date > MaxAge]_syncVars
  BY Steps, SpacedStep
<1>4. QED
  BY <1>1, <1>2, <1>3, SafetyPart, PTL DEF RunsAreSpaced
=============================================================================
