--------------------------- MODULE EnketoSessions ---------------------------
(***************************************************************************)
(* Submissions of one survey that users edit in Enketo, and previews of    *)
(* its form (views/v2/data.py, views/v2/asset_snapshot.py,                 *)
(* Asset._snapshot(), KobocatDeploymentBackend.edit_submission()).         *)
(*                                                                         *)
(* To edit a submission, the form of the latest version is made again, as  *)
(* a snapshot that replaces the one there was: there is one per version.   *)
(* Enketo gets its URL, and posts the edited submission to it: KPI checks  *)
(* what it is an edit of, step by step, and passes it on as the owner of   *)
(* the asset.  KoBoCAT gives a submission a new uuid when it is edited;    *)
(* the text that was edited keeps the one before, as its deprecatedID.     *)
(***************************************************************************)
EXTENDS Naturals, FiniteSets

CONSTANTS Users, Subs,
          Root,             \* of a submission: the name of its root node
          NoShot,           \* no snapshot
          MaxVersions, MaxShots, MaxEdits      \* bounds

VARIABLES latest,     \* the asset's latest version
          shots,      \* the snapshots: [id, version, root]
          made,       \* how many were made
          uuid,       \* of a submission: its uuid
          access,     \* of a user: the submissions they may change
          rowLevel,   \* the users with row-level access; others may change all or none
          strays,     \* edits that KoBoCAT took for submissions of their own
          session     \* of a user: the request, or the form that is open

sessionVars == <<latest, shots, made, uuid, access, rowLevel, strays, session>>

\* `held` is not in the code: what held at some moment of a request that saves.
NewSession == [stage |-> "idle", kind |-> "edit", sub |-> NoShot, base |-> 0, key |-> 0,
               version |-> 0, shot |-> NoShot, held |-> {}]
Ids        == {s.id : s \in shots}
Of(v)      == {s \in shots : s.version = v}

-----------------------------------------------------------------------------
EnketoInit ==
  /\ latest = 1 /\ shots = {} /\ made = 0
  /\ uuid = [s \in Subs |-> 0]
  /\ access \in [Users -> SUBSET Subs] /\ rowLevel \in SUBSET Users
  /\ \A u \in Users : IF u \in rowLevel THEN access[u] # Subs ELSE access[u] \in {{}, Subs}
  /\ strays = 0
  /\ session = [u \in Users |-> NewSession]

(* enketo_edit() up to the text of the submission.                         *)
Ask(u, s) ==
  /\ session[u].stage = "idle" /\ s \in access[u]
  /\ session' = [session EXCEPT ![u] = [NewSession EXCEPT !.stage = "asked", !.sub = s, !.base = uuid[s]]]
  /\ UNCHANGED <<latest, shots, made, uuid, access, rowLevel, strays>>

(* AssetSnapshotSerializer.create(), without a source of its own.          *)
AskPreview(u) ==
  /\ session[u].stage = "idle"
  /\ session' = [session EXCEPT ![u] = [NewSession EXCEPT !.stage = "asked", !.kind = "preview"]]
  /\ UNCHANGED <<latest, shots, made, uuid, access, rowLevel, strays>>

(* The submission's uuid is read again from its JSON, and _snapshot() looks *)
(* for the snapshot of the latest version.                                 *)
Look(u) ==
  LET r == session[u]
  IN /\ r.stage = "asked"
     /\ session' = [session EXCEPT ![u] =
          [r EXCEPT !.stage = "looked", !.version = latest,
                    !.key = IF r.kind = "edit" THEN uuid[r.sub] ELSE 0,
                    !.shot = IF Of(latest) = {} THEN NoShot ELSE (CHOOSE s \in Of(latest) : TRUE).id]]
     /\ UNCHANGED <<latest, shots, made, uuid, access, rowLevel, strays>>

(* ... and replaces it, unless it is for a preview.  Two cannot be of the  *)
(* same version: the transaction that makes the second fails.  (A mutant   *)
(* goes on with the one there is.)                                         *)
KeepsWhatIsThere(r) == r.shot # NoShot
Keeps(r)            == r.kind = "preview" /\ r.shot # NoShot

Snapshot(u) ==
  LET r    == session[u]
      left == {s \in shots : s.id # r.shot}
      root == IF r.kind = "edit" THEN Root[r.sub] ELSE "asset"
      done(shot) == IF r.kind = "preview" THEN NewSession ELSE [r EXCEPT !.stage = "made", !.version = 0, !.shot = shot]
  IN /\ r.stage = "looked"
     /\ \/ /\ Keeps(r)
           /\ session' = [session EXCEPT ![u] = done(r.shot)]
           /\ UNCHANGED <<shots, made>>
        \/ /\ ~Keeps(r) /\ \E s \in left : s.version = r.version
           /\ session' = [session EXCEPT ![u] = NewSession]
           /\ UNCHANGED <<shots, made>>
        \/ /\ ~Keeps(r) /\ \A s \in left : s.version # r.version
           /\ made < MaxShots /\ made' = made + 1
           /\ shots' = left \cup {[id |-> made + 1, version |-> r.version, root |-> root]}
           /\ session' = [session EXCEPT ![u] = done(made + 1)]
     /\ UNCHANGED <<latest, uuid, access, rowLevel, strays>>

(* Enketo opens the submission, or says that it already has it, if it has  *)
(* not forgotten.                                                          *)
Open(u) ==
  /\ session[u].stage = "made"
  /\ session' \in {[session EXCEPT ![u] = NewSession], [session EXCEPT ![u].stage = "open"]}
  /\ UNCHANGED <<latest, shots, made, uuid, access, rowLevel, strays>>

(* AssetSnapshotViewSet.submission(), step by step.  Its permission class  *)
(* asks for change_submissions, which row-level access counts as, and      *)
(* get_object() for the snapshot.                                          *)
Held(r, may, rows) == (IF r.sub \in may THEN {"allowed"} ELSE {})
                      \cup (IF may = {} /\ ~rows THEN {"without"} ELSE {})

Goes(u, stage) == session' = [session EXCEPT ![u].stage = stage]

Save(u) ==
  LET r == session[u]
  IN /\ r.stage = "open" /\ (u \in rowLevel \/ access[u] # {}) /\ r.shot \in Ids
     /\ session' = [session EXCEPT ![u] =
          [r EXCEPT !.stage = "saving",
                    !.held = Held(r, access[u], u \in rowLevel)
                             \cup (IF uuid[r.sub] = r.base THEN {"fresh"} ELSE {})]]
     /\ UNCHANGED <<latest, shots, made, uuid, access, rowLevel, strays>>

(* edit_submission(): a submission with the deprecated uuid must be there. *)
(* (A mutant looks for it by its id.)                                      *)
FoundById(r) == r.sub \in Subs
Found(r)     == uuid[r.sub] = r.base

Find(u) ==
  /\ session[u].stage = "saving" /\ Found(session[u]) /\ Goes(u, "found")
  /\ UNCHANGED <<latest, shots, made, uuid, access, rowLevel, strays>>

(* validate_access_with_partial_perms() of the one that was found, which   *)
(* lets whoever has no row-level access pass.  (A mutant lets all pass:    *)
(* they were checked when the form was opened.)                            *)
PassesAll(u) == u \in Users
Passes(u)    == u \notin rowLevel \/ session[u].sub \in access[u]

Check(u) ==
  /\ session[u].stage = "found" /\ Passes(u) /\ Goes(u, "checked")
  /\ UNCHANGED <<latest, shots, made, uuid, access, rowLevel, strays>>

(* The call of KoBoCAT, as the owner.  KoBoCAT replaces the submission     *)
(* with the deprecated uuid; if there is none any more, it refuses, or     *)
(* takes what it gets for a submission of its own.  The answer may be      *)
(* lost, and Enketo keeps the form open.                                   *)
Post(u) ==
  LET r == session[u]
  IN /\ r.stage = "checked"
     /\ IF uuid[r.sub] = r.base
        THEN uuid[r.sub] < MaxEdits /\ uuid' = [uuid EXCEPT ![r.sub] = @ + 1] /\ UNCHANGED strays
        ELSE strays' \in {strays, strays + 1} /\ UNCHANGED uuid
     /\ session' \in {[session EXCEPT ![u] = NewSession],
                      [session EXCEPT ![u] = [r EXCEPT !.stage = "open", !.held = {}]]}
     /\ UNCHANGED <<latest, shots, made, access, rowLevel>>

(* A step is refused, or fails: Enketo keeps the form open.                *)
Refuse(u) ==
  /\ session[u].stage \in {"saving", "found", "checked"}
  /\ session' = [session EXCEPT ![u] = [@ EXCEPT !.stage = "open", !.held = {}]]
  /\ UNCHANGED <<latest, shots, made, uuid, access, rowLevel, strays>>

Leave(u) ==
  /\ session[u].stage = "open" /\ session' = [session EXCEPT ![u] = NewSession]
  /\ UNCHANGED <<latest, shots, made, uuid, access, rowLevel, strays>>

Publish ==
  /\ latest < MaxVersions /\ latest' = latest + 1
  /\ UNCHANGED <<shots, made, uuid, access, rowLevel, strays, session>>

(* The permissions of a user change, or the filters of their row-level     *)
(* access.  (What passes all submissions is like having no filter.)        *)
ChangeAccess(u) ==
  /\ \E may \in SUBSET Subs, rows \in BOOLEAN :
       /\ IF rows THEN may # Subs ELSE may \in {{}, Subs}
       /\ access' = [access EXCEPT ![u] = may]
       /\ rowLevel' = IF rows THEN rowLevel \cup {u} ELSE rowLevel \ {u}
       /\ session' = [session EXCEPT ![u].held =
            IF session[u].stage \in {"saving", "found"} THEN @ \cup Held(session[u], may, rows) ELSE @]
  /\ UNCHANGED <<latest, shots, made, uuid, strays>>

(* The command delete_assets_snapshots: old ones, but not those of the     *)
(* latest version that has one.                                            *)
Purge ==
  /\ \E old \in SUBSET {s \in shots : \E t \in shots : s.version < t.version} \ {{}} : shots' = shots \ old
  /\ UNCHANGED <<latest, made, uuid, access, rowLevel, strays, session>>

EnketoNext ==
  \/ \E u \in Users : AskPreview(u) \/ Look(u) \/ Snapshot(u) \/ Open(u) \/ Leave(u) \/ ChangeAccess(u)
  \/ \E u \in Users : Save(u) \/ Find(u) \/ Check(u) \/ Post(u) \/ Refuse(u)
  \/ \E u \in Users, s \in Subs : Ask(u, s)
  \/ Publish \/ Purge

EnketoSpec == EnketoInit /\ [][EnketoNext]_sessionVars

-----------------------------------------------------------------------------
(* A form that Enketo opens and that is still there has the root node of   *)
(* the submission it opens, whatever previews and edits of others replaced *)
(* meanwhile: Enketo would refuse it otherwise                             *)
(* (views/v2/data.py:619-622).                                             *)
FormFitsSubmission ==
  \A u \in Users : \A s \in shots :
    session[u].stage \in {"made", "open"} /\ session[u].shot = s.id => s.root = Root[session[u].sub]

(* Forms and edits of many users meet: there is one form per version, and  *)
(* an edit replaces the text that its form was opened with and no later    *)
(* one.  Whoever it is from could change the submission at some moment of  *)
(* the request, not only when the form was opened (or had no access at all *)
(* between two of its checks); and KoBoCAT is asked to replace a text that *)
(* is gone only if it was there when the request began: edits that are     *)
(* repeated, or late, do not become submissions.                           *)
EditsReplaceWhatTheyRead ==
  [][/\ Cardinality({s.version : s \in shots'}) = Cardinality(shots')
     /\ \A s \in Subs : uuid'[s] # uuid[s] =>
          \E u \in Users : session[u].stage = "checked" /\ session[u].sub = s
                           /\ session[u].base = uuid[s] /\ session[u].held \cap {"allowed", "without"} # {}
     /\ strays' # strays =>
          \E u \in Users : session[u].stage = "checked" /\ "fresh" \in session[u].held]_sessionVars

(* What TLC refutes (no run of the project does).  What is open can be     *)
(* saved, as long as it is allowed and the submission was not edited:      *)
(* opening any submission of the survey, the same one too, which Enketo    *)
(* then refuses, replaces the snapshot that the first was opened with.     *)
OpenCanBeSaved ==
  \A u \in Users :
    session[u].stage = "open" /\ Found(session[u]) /\ session[u].sub \in access[u] => session[u].shot \in Ids

(* Enketo knows the text by its uuid: the uuid is read twice.              *)
KeyIsOfText == \A u \in Users : session[u].stage = "open" => session[u].key = session[u].base

(* The user may change the submission when it is replaced: it is replaced  *)
(* as the owner, after the check.                                          *)
AllowedWhenReplaced ==
  [][\A s \in Subs : uuid'[s] # uuid[s] => \E u \in Users : session[u].sub = s /\ s \in access[u]]_sessionVars

(* No edit becomes a submission of its own: two that were opened with the  *)
(* same text pass the lookup before either is passed on.                   *)
NoStrays == strays = 0
=============================================================================
