----------------------------- MODULE Attachments -----------------------------
(***************************************************************************)
(* Files of submissions: the one that is asked for by its key or by the    *)
(* question it answers is looked up in KoBoCAT's database once the         *)
(* submission was (get_attachment(), kpi/views/v2/attachment.py), and      *)
(* sound and video are converted to MP3, which is kept (absolute_mp3_path, *)
(* kpi/deployment_backends/kc_access/shadow_models.py), while users edit   *)
(* submissions, answering with other files, and rights are taken.          *)
(*                                                                         *)
(* Files are on a disk: one that is being written is there already.  The   *)
(* syntax of XPath, errors of ffmpeg and S3 are left out.                  *)
(***************************************************************************)
EXTENDS Naturals, FiniteSets

CONSTANTS Requests, Nothing,
          Uuid,         \* the UUID of every submission, which others may have
          Filenames,    \* that users give to what they upload
          MaxKeys       \* bound on attachments

VARIABLES rows,         \* KoBoCAT's attachments
          answered,     \* the file name in the text of each submission
          visible,      \* the submissions that the user may view
          mp3,          \* of each attachment: "none", "part" or "whole"
          asked,        \* what each request asks for
          stage,        \* and where it is
          cut           \* the attachments whose conversion was cut short

attachmentVars == <<rows, answered, visible, mp3, asked, stage, cut>>

Submissions == DOMAIN Uuid
Keys        == 1..MaxKeys
RowsOf(s)   == {r \in rows : r.sub = s}

-----------------------------------------------------------------------------
(* The filters of the query: the submission, or all with its UUID, and the *)
(* key, or the name in the text.  (A mutant leaves out the submission when *)
(* there is a key.)                                                        *)
FoundByKey(q, name) ==
  {r \in rows : IF q.key # Nothing THEN r.key = q.key ELSE r.name = name /\ r.sub = q.sub}

Found(q, name) ==
  {r \in rows : /\ IF q.uuid THEN Uuid[r.sub] = Uuid[q.sub] ELSE r.sub = q.sub
                /\ IF q.key # Nothing THEN r.key = q.key ELSE r.name = name}

(* The submission that the user may view, or the first that has the UUID.  *)
Candidates(q) == {s \in visible : IF q.uuid THEN Uuid[s] = Uuid[q.sub] ELSE s = q.sub}

AttachmentsInit ==
  /\ rows = {} /\ answered = [s \in Submissions |-> Nothing]
  /\ visible \in SUBSET Submissions
  /\ mp3 = [k \in Keys |-> "none"] /\ cut = {}
  /\ asked = [r \in Requests |-> Nothing] /\ stage = [r \in Requests |-> [is |-> "idle"]]

(* A submission comes, or is edited, with a file: what it replaces stays   *)
(* in the database.                                                        *)
Answer(s, name) ==
  LET key == Cardinality(rows) + 1
  IN /\ key \in Keys
     /\ rows' = rows \cup {[key |-> key, sub |-> s, name |-> name]}
     /\ answered' = [answered EXCEPT ![s] = name]
     /\ UNCHANGED <<visible, mp3, asked, stage, cut>>

Hide(s) == s \in visible /\ visible' = visible \ {s}
           /\ UNCHANGED <<rows, answered, mp3, asked, stage, cut>>

At(r, where) == stage[r].is = where
Goes(r, to)  == stage' = [stage EXCEPT ![r] = to]

(* retrieve() asks by the key, as the addresses in a list of submissions   *)
(* do (__rewrite_json_attachment_urls()), list() by the question.          *)
Links(s) == {[sub |-> s, uuid |-> FALSE, key |-> x.key, as |-> f] : x \in RowsOf(s), f \in {"file", "mp3"}}

Ask(r) ==
  /\ At(r, "idle")
  /\ \/ \E s \in Submissions : \E q \in Links(s) : asked' = [asked EXCEPT ![r] = q]
     \/ \E s \in Submissions, uuid \in BOOLEAN, key \in {Nothing} \cup {x.key : x \in rows} :
          asked' = [asked EXCEPT ![r] = [sub |-> s, uuid |-> uuid, key |-> key, as |-> "file"]]
  /\ Goes(r, [is |-> "asked"])
  /\ UNCHANGED <<rows, answered, visible, mp3, cut>>

(* get_submission(), or the first of get_submissions(), as XML.            *)
LookUp(r) ==
  /\ At(r, "asked")
  /\ IF Candidates(asked[r]) = {} THEN Goes(r, [is |-> "404"])
     ELSE LET first == CHOOSE s \in Candidates(asked[r]) : \A t \in Candidates(asked[r]) : s <= t
          IN IF asked[r].key = Nothing /\ answered[first] = Nothing THEN Goes(r, [is |-> "400"])
             ELSE Goes(r, [is |-> "vouched", sub |-> first, name |-> answered[first]])
  /\ UNCHANGED <<rows, answered, visible, mp3, asked, cut>>

(* objects.get(): MultipleObjectsReturned is not caught.                   *)
Get(r) ==
  LET found == Found(asked[r], stage[r].name)
  IN /\ At(r, "vouched")
     /\ \E x \in IF found = {} THEN {Nothing} ELSE found :
          Goes(r, CASE found = {} -> [is |-> "404"]
                    [] Cardinality(found) > 1 -> [is |-> "500"]
                    [] OTHER -> [is |-> IF asked[r].as = "mp3" THEN "found" ELSE "served", row |-> x,
                                 sub |-> stage[r].sub, name |-> stage[r].name, whole |-> TRUE])
     /\ UNCHANGED <<rows, answered, visible, mp3, asked, cut>>

(* absolute_mp3_path: convert and save, unless there is a file.            *)
LookForMp3(r) ==
  /\ At(r, "found")
  /\ Goes(r, [stage[r] EXCEPT !.is = IF mp3[stage[r].row.key] = "none" THEN "converting" ELSE "ready"])
  /\ UNCHANGED <<rows, answered, visible, mp3, asked, cut>>

(* save() takes another name if there is a file by now, and the path that  *)
(* is served is that of the first.                                         *)
BeginToSave(r) ==
  LET k == stage[r].row.key
  IN /\ At(r, "converting")
     /\ mp3' = [mp3 EXCEPT ![k] = IF @ = "none" THEN "part" ELSE @]
     /\ Goes(r, [stage[r] EXCEPT !.is = IF mp3[k] = "none" THEN "saving" ELSE "ready"])
     /\ UNCHANGED <<rows, answered, visible, asked, cut>>

EndToSave(r) ==
  /\ At(r, "saving")
  /\ mp3' = [mp3 EXCEPT ![stage[r].row.key] = "whole"]
  /\ Goes(r, [stage[r] EXCEPT !.is = "ready"])
  /\ UNCHANGED <<rows, answered, visible, asked, cut>>

(* NGINX sends what there is.                                              *)
Serve(r) ==
  /\ At(r, "ready")
  /\ Goes(r, [stage[r] EXCEPT !.is = "served", !.whole = mp3[stage[r].row.key] = "whole"])
  /\ UNCHANGED <<rows, answered, visible, mp3, asked, cut>>

Done(r) ==
  /\ stage[r].is \in {"served", "400", "404", "500"}
  /\ Goes(r, [is |-> "idle"]) /\ asked' = [asked EXCEPT ![r] = Nothing]
  /\ UNCHANGED <<rows, answered, visible, mp3, cut>>

(* A process of the server dies.                                           *)
Die(r) ==
  /\ stage[r].is \notin {"idle", "served"}
  /\ Goes(r, [is |-> "idle"]) /\ asked' = [asked EXCEPT ![r] = Nothing]
  /\ cut' = IF At(r, "saving") THEN cut \cup {stage[r].row.key} ELSE cut
  /\ UNCHANGED <<rows, answered, visible, mp3>>

AttachmentsNext ==
  \/ \E s \in Submissions, n \in Filenames : Answer(s, n)
  \/ \E s \in Submissions : Hide(s)
  \/ \E r \in Requests : \/ Ask(r) \/ LookUp(r) \/ Get(r) \/ LookForMp3(r) \/ BeginToSave(r)
                         \/ EndToSave(r) \/ Serve(r) \/ Done(r) \/ Die(r)

AttachmentsSpec == AttachmentsInit /\ [][AttachmentsNext]_attachmentVars

-----------------------------------------------------------------------------
(* The file that is served is one of the submission that was asked for,    *)
(* which the user could view, or of one with its UUID: "using the uuid may *)
(* match several submissions" (kpi/views/v2/attachment.py:37).  Asked for  *)
(* by the question, it is the one in the text of what was looked up.       *)
ServesWhatWasAsked ==
  \A r \in Requests : At(r, "served") =>
    LET row == stage[r].row
    IN /\ IF asked[r].uuid THEN Uuid[row.sub] = Uuid[stage[r].sub]
          ELSE row.sub = asked[r].sub /\ row.sub = stage[r].sub
       /\ asked[r].key \in {Nothing, row.key}
       /\ asked[r].key = Nothing => row.name = stage[r].name

(* An MP3 file is served incomplete only while it is written, or if its    *)
(* conversion was cut short, after which it stays so.                      *)
PartsHaveReasons ==
  \A k \in Keys : mp3[k] = "part" =>
    k \in cut \/ Cardinality({r \in Requests : At(r, "saving") /\ stage[r].row.key = k}) = 1

AttachmentsAreRight == ServesWhatWasAsked /\ PartsHaveReasons

(* What TLC refutes (no run of the project does): what is served is whole; *)
(* a question never leads to several.                                      *)
ServesWholeFiles == \A r \in Requests : At(r, "served") => stage[r].whole
NeverSeveral     == \A r \in Requests : ~At(r, "500")
=============================================================================
