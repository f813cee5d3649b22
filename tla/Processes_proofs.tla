--------------------------- MODULE Processes_proofs ---------------------------
(***************************************************************************)
(* What is proved of the processes that write the same rows: edits of      *)
(* submissions in Enketo, for every number of users, submissions, versions *)
(* and snapshots, and the command that turns columns of text into jsonb,   *)
(* for every number of rows, values, writes and starts.                    *)
(*                                                                         *)
(* Each has an inductive invariant of its own (EnketoInv, JsonbInv).       *)
(***************************************************************************)
EXTENDS MCProcesses, FiniteSetTheorems, TLAPS

-----------------------------------------------------------------------------
(***************************************************************************)
(* Edits in Enketo.  A snapshot's identity is never used again, so that a  *)
(* session whose snapshot is still there has the one that was made for it. *)
(***************************************************************************)

(* The snapshots there are: numbered as they were made, one per version.   *)
Numbered ==
  /\ made \in Nat /\ IsFiniteSet(shots)
  /\ \A s \in shots : s.id \in 1..made
  /\ \A s, t \in shots : s.version = t.version => s = t

Opened == {"made", "open", "saving", "found", "checked"}

Session ==
  [stage : {"idle", "asked", "looked"} \cup Opened, kind : {"edit", "preview"},
   sub : Subs \cup {NoShot}, base : Nat, key : Nat, version : Nat, shot : Nat \cup {NoShot},
   held : SUBSET {"allowed", "without", "fresh"}]

Shot == [id : Nat, version : Nat, root : Subs \cup {"asset"}]

(* A session r: a submission is opened only for an edit, with the text that *)
(* it has or had, and the snapshot it was opened with is of its root node,  *)
(* while it is there.                                                       *)
Fits(r) ==
  /\ r.stage # "idle" /\ r.kind = "edit" => r.sub \in Subs /\ r.base <= uuid[r.sub]
  /\ r.stage \in Opened =>
       /\ r.kind = "edit" /\ r.shot \in 1..made
       /\ \A s \in shots : s.id = r.shot => s.root = OwnRoot[r.sub]

(* What is recorded of a request of the user u that saves.                 *)
Recorded(u, r) ==
  /\ r.stage \in {"saving", "found"} => E!Held(r, access[u], u \in rowLevel) \subseteq r.held
  /\ r.stage = "saving" /\ "fresh" \notin r.held => r.base # uuid[r.sub]
  /\ r.stage \in {"found", "checked"} => "fresh" \in r.held
  /\ r.stage = "checked" => r.held \cap {"allowed", "without"} # {}

SessionAt(u) == Fits(session[u]) /\ Recorded(u, session[u])

\* Row-level access, or to all or none.
AccessTo(u) == u \notin rowLevel => access[u] \in {{}, Subs}

EnketoInv ==
  /\ latest \in Nat /\ uuid \in [Subs -> Nat] /\ session \in [Editors -> Session]
  /\ access \in [Editors -> SUBSET Subs] /\ \A u \in Editors : AccessTo(u)
  /\ shots \subseteq Shot
  /\ Numbered
  /\ \A u \in Editors : SessionAt(u)

(* A step of one user leaves the snapshots, the access and the sessions of *)
(* others alone; texts only ever get newer.                                *)
LEMMA OneSession ==
  ASSUME EnketoInv, NEW u \in Editors, NEW r \in Session,
         session' = [session EXCEPT ![u] = r],
         UNCHANGED <<latest, shots, made, access, rowLevel>>,
         uuid' \in [Subs -> Nat], \A s \in Subs : uuid[s] <= uuid'[s],
         Fits(r)', Recorded(u, r)'
  PROVE  EnketoInv'
<1>1. session' \in [Editors -> Session] /\ session'[u] = r
      /\ \A v \in Editors \ {u} : session'[v] = session[v]
  BY DEF EnketoInv
<1>2. SessionAt(u)'
  BY <1>1 DEF SessionAt, Fits, Recorded, E!Held
<1>3. ASSUME NEW v \in Editors \ {u} PROVE SessionAt(v)'
  <2>0. PICK q : q = session[v]
    OBVIOUS
  <2>1. session'[v] = q /\ session[v] = q /\ q \in Session /\ Fits(q) /\ Recorded(v, q)
    BY <1>1, <2>0 DEF EnketoInv, SessionAt
  <2>2. q.stage # "idle" /\ q.kind = "edit" => uuid[q.sub] \in Nat /\ uuid'[q.sub] \in Nat
                                               /\ q.base \in Nat /\ uuid[q.sub] <= uuid'[q.sub]
    BY <2>1 DEF Fits, EnketoInv, Session
  <2>3. Fits(q)'
    BY <2>1, <2>2 DEF Fits
  <2>4. q.stage = "saving" => q.kind = "edit" /\ q.base <= uuid[q.sub]
    BY <2>1 DEF Fits, Opened
  <2>5. q.stage = "saving" /\ "fresh" \notin q.held => q.base # uuid'[q.sub]
    BY <2>1, <2>2, <2>4 DEF Recorded, E!Held
  <2>6. Recorded(v, q)'
    BY <2>1, <2>5 DEF Recorded, E!Held
  <2>7. QED
    BY <2>1, <2>3, <2>6 DEF SessionAt, Fits, Recorded, E!Held
<1>4. Numbered' /\ \A v \in Editors : AccessTo(v)'
  BY DEF EnketoInv, Numbered, AccessTo
<1>5. QED
  BY <1>1, <1>2, <1>3, <1>4 DEF EnketoInv

\* What u is doing becomes r.
Becomes(u, r) == session' = [session EXCEPT ![u] = r]

\* The snapshots `left`, and a new one.
Added(left, v, root) == left \cup {[id |-> made + 1, version |-> v, root |-> root]}

(* The snapshots change: one that is new has a number of its own, and is   *)
(* that of the session r of u.                                             *)
LEMMA OneShot ==
  ASSUME EnketoInv, NEW u \in Editors, NEW left, left \subseteq shots, NEW v \in Nat,
         NEW root \in Subs \cup {"asset"},
         \A s \in left : s.version # v, made' = made + 1,
         shots' = Added(left, v, root),
         NEW r \in Session, Becomes(u, r), UNCHANGED <<latest, uuid, access, rowLevel>>,
         \/ r.stage = "idle" /\ r.kind \in {"edit", "preview"}
         \/ /\ r.stage = "made" /\ r.kind = "edit" /\ r.sub \in Subs
            /\ r.base <= uuid[r.sub] /\ r.shot = made + 1 /\ root = OwnRoot[r.sub]
  PROVE  EnketoInv'
<1> DEFINE new == [id |-> made + 1, version |-> v, root |-> root]
<1>1. session' \in [Editors -> Session] /\ session'[u] = r
      /\ \A w \in Editors \ {u} : session'[w] = session[w]
  BY DEF EnketoInv, Becomes
<1>2. /\ made \in Nat /\ made' \in Nat /\ made' = made + 1 /\ new.id = made + 1 /\ new.version = v
      /\ new.root = root /\ new \in Shot
  BY DEF EnketoInv, Numbered, Shot
<1>3. Numbered'
  <2>1. IsFiniteSet(shots')
    <3>1. IsFiniteSet(left)
      BY FS_Subset DEF EnketoInv, Numbered
    <3>2. QED
      BY <3>1, FS_AddElement DEF Added
  <2>2. \A s \in shots' : s.id \in 1..made'
    BY <1>2 DEF EnketoInv, Numbered, Added
  <2>3. \A s, t \in shots' : s.version = t.version => s = t
    BY <1>2 DEF EnketoInv, Numbered, Added
  <2>4. QED
    BY <1>2, <2>1, <2>2, <2>3 DEF Numbered
<1>4. SessionAt(u)'
  <2>1. \A s \in left : s.id # made + 1
    BY <1>2 DEF EnketoInv, Numbered
  <2>2. QED
    BY <1>1, <1>2, <2>1 DEF SessionAt, Fits, Recorded, Opened, Session, Added, E!Held
<1>5. ASSUME NEW w \in Editors \ {u} PROVE SessionAt(w)'
  <2>1. session'[w] = session[w] /\ Fits(session[w]) /\ Recorded(w, session[w])
    BY <1>1 DEF EnketoInv, SessionAt
  <2>2. Fits(session[w])'
    BY <1>1, <1>2, <2>1 DEF Fits, Added
  <2>3. Recorded(w, session[w])'
    BY <1>1, <2>1 DEF Recorded, E!Held
  <2>4. QED
    BY <2>2, <2>3 DEF SessionAt
<1>6. shots' \subseteq Shot
  BY <1>2 DEF EnketoInv, Added
<1>7. \A w \in Editors : AccessTo(w)'
  BY DEF EnketoInv, AccessTo
<1>8. QED
  BY <1>1, <1>3, <1>4, <1>5, <1>6, <1>7 DEF EnketoInv

(* Snapshots are removed, or nothing that matters changes.                 *)
LEMMA FewerShots ==
  ASSUME EnketoInv, shots' \subseteq shots,
         UNCHANGED <<made, session, uuid, access, rowLevel>>, latest' \in Nat
  PROVE  EnketoInv'
<1>1. IsFiniteSet(shots')
  BY FS_Subset DEF EnketoInv, Numbered
<1>2. Numbered'
  BY <1>1 DEF EnketoInv, Numbered
<1>3. \A u \in Editors : SessionAt(u)' /\ AccessTo(u)'
  BY DEF EnketoInv, SessionAt, Fits, Recorded, E!Held, AccessTo
<1>4. QED
  BY <1>2, <1>3 DEF EnketoInv

(* The invariant of snapshots in Enketo holds initially,                   *)
LEMMA EnketoStarts == E!EnketoInit => EnketoInv
<1> SUFFICES ASSUME E!EnketoInit PROVE EnketoInv
  OBVIOUS
<1>1. E!NewSession \in Session
  BY DEF E!NewSession, Session
<1>2. Numbered
  BY FS_EmptySet DEF E!EnketoInit, Numbered
<1>3. \A u \in Editors : SessionAt(u) /\ AccessTo(u)
  BY DEF E!EnketoInit, E!NewSession, SessionAt, Fits, Recorded, Opened, AccessTo, E!Held
<1>4. QED
  BY <1>1, <1>2, <1>3 DEF E!EnketoInit, EnketoInv

(* The identity of the snapshot of a version, which is CHOOSEn among those *)
(* that there are.                                                         *)
LEMMA SnapshotLooked ==
  ASSUME EnketoInv, NEW v, E!Of(v) # {}
  PROVE  (CHOOSE s \in E!Of(v) : TRUE).id \in Nat
<1>1. (CHOOSE s \in E!Of(v) : TRUE) \in E!Of(v)
  OBVIOUS
<1>2. QED
  BY <1>1 DEF EnketoInv, Shot, E!Of

\* What an editor's session becomes when a request ends,
Ended(u, r) ==
  /\ r.stage \in {"idle", "open"}
  /\ r.stage = "open" => /\ session[u].stage \in Opened
                         /\ \A f \in {"kind", "sub", "base", "shot"} : r[f] = session[u][f]

\* and when one step of it is done.
Moved(u, r) == Fits(r) /\ Recorded(u, r)

(* A request that ends leaves the form open, or the user leaves.           *)
LEMMA EditorEnds ==
  ASSUME EnketoInv, NEW u \in Editors, session[u].stage \in Opened,
         session' \in {[session EXCEPT ![u] = E!NewSession],
                       [session EXCEPT ![u] = [session[u] EXCEPT !.stage = "open", !.held = {}]]}
  PROVE  \E r \in Session : session' = [session EXCEPT ![u] = r] /\ Ended(u, r)
<1> DEFINE open == [session[u] EXCEPT !.stage = "open", !.held = {}]
<1>1. session[u] \in Session
  BY DEF EnketoInv
<1>2. E!NewSession \in Session /\ Ended(u, E!NewSession)
  BY DEF E!NewSession, Session, Ended
<1>3. open \in Session
  BY <1>1 DEF Session, Opened
<1>4. Ended(u, open)
  BY <1>1 DEF Session, Ended
<1>5. QED
  BY <1>2, <1>3, <1>4

(* Every other step of a request keeps what is recorded of it.             *)
LEMMA EditorMoves ==
  ASSUME EnketoInv, NEW u \in Editors,
         E!Open(u) \/ E!Leave(u) \/ E!Refuse(u) \/ E!Save(u) \/ E!Find(u) \/ E!Check(u)
  PROVE  \E r \in Session : session' = [session EXCEPT ![u] = r] /\ Moved(u, r)
<1> DEFINE q == session[u]
           held == E!Held(q, access[u], u \in rowLevel)
           saving == [q EXCEPT !.stage = "saving",
                               !.held = held \cup (IF uuid[q.sub] = q.base THEN {"fresh"} ELSE {})]
           to(stage) == [q EXCEPT !.stage = stage]
<1>1. q \in Session /\ Fits(q) /\ Recorded(u, q)
  BY DEF EnketoInv, SessionAt
<1>2. \A r : Ended(u, r) => Moved(u, r)
  <2> SUFFICES ASSUME NEW r, Ended(u, r) PROVE Moved(u, r)
    OBVIOUS
  <2>1. r.stage = "open" => r.kind = q.kind /\ r.sub = q.sub /\ r.base = q.base /\ r.shot = q.shot
                            /\ q.stage \in Opened
    BY DEF Ended
  <2>2. r.stage \in {"idle", "open"}
    BY DEF Ended
  <2>3. QED
    BY <1>1, <2>1, <2>2 DEF Moved, Fits, Recorded, Opened, E!Held
<1>3. CASE E!Open(u)
  <2>1. q.stage = "made" /\ session' \in {[session EXCEPT ![u] = E!NewSession], [session EXCEPT ![u] = to("open")]}
    BY <1>3 DEF E!Open
  <2>2. to("open") \in Session /\ Moved(u, to("open"))
    BY <1>1, <2>1 DEF Session, Opened, Moved, Fits, Recorded, E!Held
  <2>3. E!NewSession \in Session /\ Moved(u, E!NewSession)
    BY DEF E!NewSession, Session, Moved, Fits, Recorded, Opened, E!Held
  <2>4. QED
    BY <2>1, <2>2, <2>3
<1>4. CASE E!Leave(u) \/ E!Refuse(u)
  <2>1. q.stage \in Opened
        /\ session' \in {[session EXCEPT ![u] = E!NewSession],
                         [session EXCEPT ![u] = [q EXCEPT !.stage = "open", !.held = {}]]}
    BY <1>4 DEF E!Leave, E!Refuse, Opened
  <2>2. QED
    BY <1>2, <2>1, EditorEnds
<1>5. CASE E!Save(u)
  <2>1. q.stage = "open" /\ session' = [session EXCEPT ![u] = saving]
    BY <1>5 DEF E!Save
  <2>2. held \subseteq {"allowed", "without", "fresh"}
    BY DEF E!Held
  <2>3. /\ saving \in Session /\ saving.stage = "saving" /\ saving.kind = q.kind
        /\ saving.sub = q.sub /\ saving.base = q.base /\ saving.shot = q.shot
        /\ saving.held = held \cup (IF uuid[q.sub] = q.base THEN {"fresh"} ELSE {})
    BY <1>1, <2>2 DEF Session, Opened
  <2>4. E!Held(saving, access[u], u \in rowLevel) = held
    BY <2>3 DEF E!Held
  <2> HIDE DEF saving, held
  <2>5. Fits(saving)
    BY <1>1, <2>1, <2>3 DEF Fits, Opened
  <2>6. Recorded(u, saving)
    BY <2>3, <2>4 DEF Recorded, E!Held
  <2>7. QED
    BY <2>1, <2>3, <2>5, <2>6 DEF Moved
<1>6. CASE E!Find(u)
  <2>1. q.stage = "saving" /\ uuid[q.sub] = q.base /\ session' = [session EXCEPT ![u] = to("found")]
    BY <1>1, <1>6 DEF E!Find, E!Found, E!Goes, EnketoInv, Session
  <2>2. to("found") \in Session /\ Fits(to("found"))
    BY <1>1, <2>1 DEF Session, Opened, Fits
  <2>3. Recorded(u, to("found"))
    BY <1>1, <2>1 DEF Session, Recorded, E!Held
  <2>4. QED
    BY <2>1, <2>2, <2>3 DEF Moved
<1>7. CASE E!Check(u)
  <2>1. q.stage = "found" /\ E!Passes(u) /\ session' = [session EXCEPT ![u] = to("checked")]
    BY <1>1, <1>7 DEF E!Check, E!Goes, EnketoInv, Session
  <2>2. to("checked") \in Session /\ Fits(to("checked"))
    BY <1>1, <2>1 DEF Session, Opened, Fits
  <2>3. q.sub \in Subs /\ (u \in rowLevel => q.sub \in access[u])
        /\ (u \notin rowLevel => access[u] \in {{}, Subs})
    BY <1>1, <2>1 DEF Fits, Opened, E!Passes, EnketoInv, AccessTo
  <2>4. held \cap {"allowed", "without"} # {}
    BY <2>3 DEF E!Held
  <2>5. held \subseteq q.held /\ "fresh" \in q.held
    BY <1>1, <2>1 DEF Recorded, E!Held
  <2> HIDE DEF held
  <2>6. Recorded(u, to("checked"))
    BY <1>1, <2>4, <2>5 DEF Session, Recorded, E!Held
  <2>7. QED
    BY <2>1, <2>2, <2>6 DEF Moved
<1>8. QED
  BY <1>3, <1>4, <1>5, <1>6, <1>7

(* The access of a user changes, and a request that is not yet checked     *)
(* records it.                                                             *)
LEMMA AccessChanges ==
  ASSUME EnketoInv, NEW u \in Editors, E!ChangeAccess(u)
  PROVE  EnketoInv'
<1>0. PICK q : q = session[u]
  OBVIOUS
<1>1. PICK may \in SUBSET Subs, some \in BOOLEAN :
        /\ ~some => may \in {{}, Subs}
        /\ access' = [access EXCEPT ![u] = may]
        /\ rowLevel' = IF some THEN rowLevel \cup {u} ELSE rowLevel \ {u}
        /\ session' = [session EXCEPT ![u].held =
             IF q.stage \in {"saving", "found"} THEN q.held \cup E!Held(q, may, some) ELSE q.held]
  BY <1>0 DEF E!ChangeAccess
<1>2. UNCHANGED <<latest, shots, made, uuid>>
  BY DEF E!ChangeAccess
<1>3. q \in Session /\ Fits(q) /\ Recorded(u, q)
  BY <1>0 DEF EnketoInv, SessionAt
<1>4. access' \in [Editors -> SUBSET Subs] /\ access'[u] = may /\ ((u \in rowLevel)' <=> some)
      /\ \A v \in Editors \ {u} : access'[v] = access[v] /\ ((v \in rowLevel)' <=> v \in rowLevel)
  BY <1>1 DEF EnketoInv
<1>5. \A v \in Editors : AccessTo(v)'
  BY <1>1, <1>4 DEF EnketoInv, AccessTo
<1> DEFINE seen == E!Held(q, may, some)
           held == IF q.stage \in {"saving", "found"} THEN q.held \cup seen ELSE q.held
<1>r. PICK r : r = [q EXCEPT !.held = held]
  OBVIOUS
<1>6. seen \subseteq {"allowed", "without", "fresh"}
  BY DEF E!Held
<1>7. /\ r \in Session /\ r.stage = q.stage /\ r.kind = q.kind /\ r.sub = q.sub
      /\ r.base = q.base /\ r.shot = q.shot /\ r.held = held
  BY <1>3, <1>6, <1>r DEF Session
<1>8. session' \in [Editors -> Session] /\ session'[u] = r
      /\ \A v \in Editors \ {u} : session'[v] = session[v]
  BY <1>0, <1>1, <1>7, <1>r DEF EnketoInv
<1>9. E!Held(r, may, some) = seen /\ (u \in rowLevel') = some
  BY <1>4, <1>7 DEF E!Held
<1> HIDE DEF seen
<1>10. Fits(r)'
  BY <1>2, <1>3, <1>7 DEF Fits
<1>11. Recorded(u, r)'
  BY <1>2, <1>3, <1>4, <1>7, <1>9 DEF Recorded, E!Held
<1>12. ASSUME NEW v \in Editors \ {u} PROVE SessionAt(v)'
  <2>0. PICK p : p = session[v]
    OBVIOUS
  <2>1. session'[v] = p /\ session[v] = p /\ Fits(p) /\ Recorded(v, p)
        /\ access'[v] = access[v] /\ ((v \in rowLevel)' <=> v \in rowLevel)
    BY <1>4, <1>8, <2>0 DEF EnketoInv, SessionAt
  <2>2. Fits(p)'
    BY <1>2, <2>1 DEF Fits
  <2>3. Recorded(v, p)'
    BY <1>2, <2>1 DEF Recorded, E!Held
  <2>4. QED
    BY <2>1, <2>2, <2>3 DEF SessionAt, Fits, Recorded, E!Held
<1>13. SessionAt(u)'
  BY <1>8, <1>10, <1>11 DEF SessionAt, Fits, Recorded, E!Held
<1>14. Numbered'
  BY <1>2 DEF EnketoInv, Numbered
<1>15. QED
  BY <1>2, <1>4, <1>5, <1>8, <1>12, <1>13, <1>14 DEF EnketoInv

(* and every step of the builders, the editors and Enketo keeps it.        *)
LEMMA EnketoStep ==
  ASSUME EnketoInv, E!EnketoNext
  PROVE  EnketoInv'
<1> DEFINE Same == UNCHANGED <<latest, shots, made, access, rowLevel, uuid>>
<1>0. /\ E!NewSession \in Session /\ E!NewSession.stage = "idle" /\ E!NewSession.kind = "edit"
      /\ Same => uuid' \in [Subs -> Nat] /\ \A s \in Subs : uuid[s] <= uuid'[s]
      /\ \A u : Fits(E!NewSession)' /\ Recorded(u, E!NewSession)'
  BY DEF E!NewSession, Session, EnketoInv, Fits, Recorded, Opened, E!Held
<1>1. ASSUME NEW u \in Editors, E!AskPreview(u) PROVE EnketoInv'
  <2>0. PICK r : r = [E!NewSession EXCEPT !.stage = "asked", !.kind = "preview"]
    OBVIOUS
  <2>1. r \in Session /\ r.stage = "asked" /\ r.kind = "preview"
    BY <2>0 DEF E!NewSession, Session
  <2>2. session' = [session EXCEPT ![u] = r] /\ Same
    BY <1>1, <2>0 DEF E!AskPreview
  <2>3. Fits(r)' /\ Recorded(u, r)'
    BY <2>1 DEF Fits, Recorded, Opened, E!Held
  <2>4. QED
    BY <1>0, <2>1, <2>2, <2>3, OneSession
<1>2. ASSUME NEW u \in Editors, NEW s \in Subs, E!Ask(u, s) PROVE EnketoInv'
  <2>0. PICK r : r = [E!NewSession EXCEPT !.stage = "asked", !.sub = s, !.base = uuid[s]]
    OBVIOUS
  <2>1. r \in Session /\ r.stage = "asked" /\ r.kind = "edit" /\ r.sub = s /\ r.base = uuid[s]
        /\ uuid[s] \in Nat
    BY <2>0 DEF E!NewSession, Session, EnketoInv
  <2>2. session' = [session EXCEPT ![u] = r] /\ Same
    BY <1>2, <2>0 DEF E!Ask
  <2>3. Fits(r)' /\ Recorded(u, r)'
    BY <2>1, <2>2 DEF Fits, Recorded, Opened, E!Held
  <2>4. QED
    BY <1>0, <2>1, <2>2, <2>3, OneSession
<1>3. ASSUME NEW u \in Editors, E!Look(u) PROVE EnketoInv'
  <2> DEFINE key == IF session[u].kind = "edit" THEN uuid[session[u].sub] ELSE 0
             shot == IF E!Of(latest) = {} THEN NoShot ELSE (CHOOSE s \in E!Of(latest) : TRUE).id
  <2>0. PICK r : r = [session[u] EXCEPT !.stage = "looked", !.version = latest, !.key = key, !.shot = shot]
    OBVIOUS
  <2>1. session[u] \in Session /\ session[u].stage = "asked" /\ Fits(session[u])
    BY <1>3 DEF E!Look, EnketoInv, SessionAt
  <2>2. key \in Nat
    BY <2>1 DEF EnketoInv, Fits
  <2>3. shot \in Nat \cup {NoShot}
    BY SnapshotLooked
  <2>4. r \in Session /\ r.stage = "looked" /\ r.kind = session[u].kind /\ r.sub = session[u].sub
        /\ r.base = session[u].base
    BY <2>0, <2>1, <2>2, <2>3 DEF Session, EnketoInv
  <2>5. session' = [session EXCEPT ![u] = r] /\ Same
    BY <1>3, <2>0 DEF E!Look
  <2>6. Fits(r)' /\ Recorded(u, r)'
    BY <2>1, <2>4, <2>5 DEF Fits, Recorded, Opened, E!Held
  <2>7. QED
    BY <1>0, <2>4, <2>5, <2>6, OneSession
<1>4. ASSUME NEW u \in Editors, E!Snapshot(u) PROVE EnketoInv'
  <2> DEFINE left == {s \in shots : s.id # session[u].shot}
             root == IF session[u].kind = "edit" THEN OwnRoot[session[u].sub] ELSE "asset"
             r == IF session[u].kind = "preview" THEN E!NewSession
                  ELSE [session[u] EXCEPT !.stage = "made", !.version = 0, !.shot = made + 1]
  <2>1. session[u] \in Session /\ session[u].stage = "looked" /\ Fits(session[u]) /\ made + 1 \in Nat
    BY <1>4 DEF E!Snapshot, EnketoInv, Numbered, SessionAt
  <2>2. UNCHANGED <<latest, uuid, access, rowLevel>>
    BY <1>4 DEF E!Snapshot
  <2>3. CASE session' = [session EXCEPT ![u] = E!NewSession] /\ UNCHANGED <<shots, made>>
    BY <1>0, <2>2, <2>3, OneSession
  <2>4. CASE /\ \A s \in left : s.version # session[u].version
             /\ made' = made + 1
             /\ shots' = Added(left, session[u].version, root)
             /\ session' = [session EXCEPT ![u] = r]
    <3>1. r \in Session
      BY <1>0, <2>1 DEF Session, Opened
    <3>2. \/ r.stage = "idle" /\ r.kind \in {"edit", "preview"}
          \/ /\ r.stage = "made" /\ r.kind = "edit" /\ r.sub \in Subs
             /\ r.base <= uuid[r.sub] /\ r.shot = made + 1 /\ root = OwnRoot[r.sub]
      BY <1>0, <2>1 DEF Session, Fits
    <3>3. session[u].version \in Nat /\ root \in Subs \cup {"asset"}
      BY <2>1 DEF Session, Fits, OwnRoot
    <3>4. left \subseteq shots
      OBVIOUS
    <3>5. ASSUME NEW L, L = left, NEW top, top = root, NEW new, new = r
          PROVE  EnketoInv'
      <4>1. /\ L \subseteq shots /\ \A s \in L : s.version # session[u].version
            /\ top \in Subs \cup {"asset"} /\ session[u].version \in Nat
            /\ made' = made + 1 /\ shots' = Added(L, session[u].version, top)
        BY <2>4, <3>3, <3>4, <3>5
      <4>2. new \in Session /\ Becomes(u, new)
        BY <2>4, <3>1, <3>5 DEF Becomes
      <4>3. \/ new.stage = "idle" /\ new.kind \in {"edit", "preview"}
            \/ /\ new.stage = "made" /\ new.kind = "edit" /\ new.sub \in Subs
               /\ new.base <= uuid[new.sub] /\ new.shot = made + 1 /\ top = OwnRoot[new.sub]
        BY <3>2, <3>5
      <4>4. QED
        BY <2>2, <4>1, <4>2, <4>3, OneShot
    <3>6. QED
      BY <3>5
  <2>5. CASE E!Keeps(session[u])
    <3>1. session' = [session EXCEPT ![u] = E!NewSession] /\ UNCHANGED <<shots, made>>
      BY <1>4, <2>5 DEF E!Snapshot, E!Keeps
    <3>2. QED
      BY <2>3, <3>1
  <2>6. CASE ~E!Keeps(session[u])
    BY <1>4, <2>3, <2>4, <2>6 DEF E!Snapshot, Added
  <2>7. QED
    BY <2>5, <2>6
<1>5. ASSUME NEW u \in Editors,
             E!Open(u) \/ E!Leave(u) \/ E!Refuse(u) \/ E!Save(u) \/ E!Find(u) \/ E!Check(u)
      PROVE  EnketoInv'
  <2>1. Same
    BY <1>5 DEF E!Open, E!Leave, E!Refuse, E!Save, E!Find, E!Check
  <2>2. PICK r \in Session : session' = [session EXCEPT ![u] = r] /\ Moved(u, r)
    BY <1>5, EditorMoves
  <2>3. Fits(r)' /\ Recorded(u, r)'
    BY <2>1, <2>2 DEF Moved, Fits, Recorded, E!Held
  <2>4. QED
    BY <1>0, <2>1, <2>2, <2>3, OneSession
<1>6. ASSUME NEW u \in Editors, E!Post(u) PROVE EnketoInv'
  <2>1. UNCHANGED <<latest, shots, made, access, rowLevel>>
    BY <1>6 DEF E!Post
  <2>2. session[u].sub \in Subs /\ uuid \in [Subs -> Nat] /\ session[u].stage = "checked"
        /\ session[u] \in Session /\ Fits(session[u])
    BY <1>6 DEF E!Post, EnketoInv, SessionAt, Fits, Opened
  <2>3. uuid' \in [Subs -> Nat] /\ \A s \in Subs : uuid[s] <= uuid'[s]
    BY <1>6, <2>2 DEF E!Post
  <2>4. PICK r \in Session : session' = [session EXCEPT ![u] = r] /\ Ended(u, r)
    <3>1. session' \in {[session EXCEPT ![u] = E!NewSession],
                        [session EXCEPT ![u] = [session[u] EXCEPT !.stage = "open", !.held = {}]]}
      BY <1>6 DEF E!Post
    <3>2. QED
      BY <2>2, <3>1, EditorEnds DEF Opened
  <2>5. Fits(r)'
    <3>1. r.stage # "idle" => r.sub \in Subs /\ r.base \in Nat /\ uuid[r.sub] \in Nat /\ uuid'[r.sub] \in Nat
                              /\ uuid[r.sub] <= uuid'[r.sub] /\ r.base <= uuid[r.sub]
      BY <2>2, <2>3, <2>4 DEF Ended, Fits, Opened, Session
    <3>2. r.stage # "idle" => /\ r.stage = "open" /\ r.kind = "edit" /\ r.shot \in 1..made
                              /\ \A s \in shots : s.id = r.shot => s.root = OwnRoot[r.sub]
      BY <2>2, <2>4 DEF Ended, Fits, Opened
    <3>3. r.stage # "idle" => r.base <= uuid'[r.sub]
      BY <3>1
    <3>4. QED
      BY <2>1, <3>1, <3>2, <3>3 DEF Fits, Opened
  <2>6. Recorded(u, r)'
    BY <2>4 DEF Ended, Recorded, E!Held
  <2>7. QED
    BY <2>1, <2>3, <2>4, <2>5, <2>6, OneSession
<1>7. ASSUME NEW u \in Editors, E!ChangeAccess(u) PROVE EnketoInv'
  BY <1>7, AccessChanges
<1>8. ASSUME E!Publish PROVE EnketoInv'
  BY <1>8, FewerShots DEF E!Publish, EnketoInv
<1>9. ASSUME E!Purge PROVE EnketoInv'
  BY <1>9, FewerShots DEF E!Purge, EnketoInv
<1>10. QED
  BY <1>1, <1>2, <1>3, <1>4, <1>5, <1>6, <1>7, <1>8, <1>9 DEF E!EnketoNext

(* An edit is of the text that was read, by somebody who could make it     *)
(* during the request; what is passed on was an edit of a text that was    *)
(* there; and as many versions have a snapshot as there are snapshots.     *)
LEMMA EditStep ==
  ASSUME EnketoInv, EnketoInv', E!EnketoNext
  PROVE  /\ Cardinality({s.version : s \in shots'}) = Cardinality(shots')
         /\ \A s \in Subs : uuid'[s] # uuid[s] =>
              \E u \in Editors : session[u].stage = "checked" /\ session[u].sub = s
                                 /\ session[u].base = uuid[s]
                                 /\ session[u].held \cap {"allowed", "without"} # {}
         /\ strays' # strays =>
              \E u \in Editors : session[u].stage = "checked" /\ "fresh" \in session[u].held
<1>1. Cardinality({s.version : s \in shots'}) = Cardinality(shots')
  <2> DEFINE V == {s.version : s \in shots'}
             f == [s \in shots' |-> s.version]
  <2>1. f \in Surjection(shots', V)
    BY DEF Surjection
  <2>2. f \in Injection(shots', V)
    BY DEF Injection, EnketoInv, Numbered, IsInjective
  <2>3. IsFiniteSet(shots')
    BY DEF EnketoInv, Numbered
  <2>4. QED
    BY <2>1, <2>2, <2>3, FS_Surjection
<1>2. ASSUME uuid' # uuid \/ strays' # strays
      PROVE  \E u \in Editors : E!Post(u)
  BY <1>2 DEF E!EnketoNext, E!AskPreview, E!Look, E!Snapshot, E!Open, E!Leave, E!Ask,
     E!ChangeAccess,
              E!Save, E!Find, E!Check, E!Refuse, E!Publish, E!Purge
<1>3. ASSUME NEW u \in Editors, E!Post(u)
      PROVE  /\ session[u].stage = "checked" /\ "fresh" \in session[u].held
             /\ session[u].held \cap {"allowed", "without"} # {}
             /\ \A s \in Subs : uuid'[s] # uuid[s] => session[u].sub = s /\ session[u].base = uuid[s]
  <2>1. session[u].stage = "checked" /\ Recorded(u, session[u]) /\ uuid \in [Subs -> Nat]
    BY <1>3 DEF E!Post, EnketoInv, SessionAt
  <2>2. ASSUME NEW s \in Subs, uuid'[s] # uuid[s]
        PROVE  session[u].sub = s /\ session[u].base = uuid[s]
    BY <1>3, <2>1, <2>2 DEF E!Post
  <2>3. QED
    BY <2>1, <2>2 DEF Recorded
<1>4. QED
  BY <1>1, <1>2, <1>3

-----------------------------------------------------------------------------
(***************************************************************************)
(* The command that replaces columns of text: a mirror has what was        *)
(* written, and a column is replaced only by a mirror that is full.        *)
(***************************************************************************)

\* A value without its null characters.
Bare(v) == [v EXCEPT !.nulls = 0]
Plain   == {Bare(v) : v \in J!Text}

(* Rows are there in all columns or none; what is in a column or in its    *)
(* mirror was written last, but for null characters.                       *)
CellAt(r, c) ==
  /\ cell[r][c] = Absent => written[r][c] = Absent
  /\ cell[r][c] # Absent =>
       written[r][c] \in J!Text /\ cell[r][c] \in {written[r][c], Bare(written[r][c])}
  /\ mirror[r][c] # Absent =>
       /\ c \in temporary /\ cell[r][c] # Absent
       /\ mirror[r][c] = Bare(written[r][c])
  /\ c \in required /\ cell[r][c] # Absent => mirror[r][c] # Absent

Cells ==
  /\ cell \in [Rows -> [J!Col -> J!Text \cup Plain \cup {Absent}]]
  /\ mirror \in [Rows -> [J!Col -> Plain \cup {Absent}]]
  /\ written \in [Rows -> [J!Col -> J!Text \cup {Absent}]]
  /\ \A r \in Rows : J!Exists(r) \/ \A c \in J!Col : cell[r][c] = Absent
  /\ required \subseteq temporary /\ temporary \subseteq J!Col
  /\ \A r \in Rows, c \in J!Col : CellAt(r, c)

(* Where the command is, and what it has done by then.                     *)
Progress ==
  /\ pc \in ({"drop", "add", "require", "replace"} \X {1, 2}) \cup {<<"fill", 1>>, <<"stopped", 0>>, <<"stopped", 1>>}
  /\ pc = <<"add", 2>> => "content" \in temporary
  /\ pc[1] \in {"fill", "require"} => temporary = J!Col
  /\ pc \in {<<"require", 2>>, <<"replace", 1>>} => "content" \in required
  /\ pc[1] = "replace" => "summary" \in required

JsonbInv == Cells /\ Progress

(* The columns and the order of the steps, written out.                    *)
LEMMA ColumnsAre ==
  /\ J!Col = {"content", "summary"} /\ TwoColumns[1] = "content" /\ TwoColumns[2] = "summary"
  /\ Len(TwoColumns) = 2
  /\ J!After("drop", 1) = <<"drop", 2>> /\ J!After("drop", 2) = <<"add", 1>>
  /\ J!After("add", 1) = <<"add", 2>> /\ J!After("add", 2) = <<"fill", 1>>
  /\ J!After("require", 1) = <<"require", 2>> /\ J!After("require", 2) = <<"replace", 1>>
  /\ J!After("replace", 1) = <<"replace", 2>> /\ J!After("replace", 2) = <<"stopped", 1>>
<1>1. DOMAIN TwoColumns = {1, 2}
  BY DEF TwoColumns
<1>2. Len(TwoColumns) = 2 /\ TwoColumns[1] = "content" /\ TwoColumns[2] = "summary"
  BY DEF TwoColumns
<1>3. J!Col = {"content", "summary"}
  BY <1>1, <1>2 DEF J!Col
<1>4. ASSUME NEW i \in 1..5, NEW p, p = J!Phases[i]
      PROVE  J!PhaseAfter(p) = J!Phases[1 + i]
  <2> DEFINE k == CHOOSE j \in DOMAIN J!Phases : J!Phases[j] = p
  <2>1. DOMAIN J!Phases = 1..6
    BY DEF J!Phases
  <2>2. \A j, l \in 1..6 : J!Phases[j] = J!Phases[l] => j = l
    BY DEF J!Phases
  <2>3. k \in DOMAIN J!Phases /\ J!Phases[k] = p
    BY <1>4, <2>1
  <2>4. k = i
    BY <1>4, <2>1, <2>2, <2>3
  <2>5. J!PhaseAfter(p) = J!Phases[1 + k]
    BY DEF J!PhaseAfter
  <2>6. QED
    BY <2>4, <2>5
<1>5. ASSUME NEW i \in 1..5 PROVE J!PhaseAfter(J!Phases[i]) = J!Phases[1 + i]
  BY <1>4
<1>6. /\ J!Phases[1] = "drop" /\ J!Phases[2] = "add" /\ J!Phases[3] = "fill"
      /\ J!Phases[4] = "require" /\ J!Phases[5] = "replace" /\ J!Phases[6] = "stopped"
  BY DEF J!Phases
<1>7. /\ J!PhaseAfter("drop") = "add" /\ J!PhaseAfter("add") = "fill"
      /\ J!PhaseAfter("require") = "replace" /\ J!PhaseAfter("replace") = "stopped"
  <2>1. J!PhaseAfter(J!Phases[1]) = J!Phases[1 + 1] /\ J!PhaseAfter(J!Phases[2]) = J!Phases[1 + 2]
    BY <1>5
  <2>2. J!PhaseAfter(J!Phases[4]) = J!Phases[1 + 4] /\ J!PhaseAfter(J!Phases[5]) = J!Phases[1 + 5]
    BY <1>5
  <2>3. QED
    BY <1>6, <2>1, <2>2
<1>8. QED
  BY <1>2, <1>3, <1>7 DEF J!After

(* The trigger copies what it may cast: what was written, bare.            *)
LEMMA TextIs ==
  ASSUME NEW v \in J!Text
  PROVE  /\ Bare(v).nulls = 0 /\ Bare(v) # Absent /\ v # Absent /\ Bare(Bare(v)) = Bare(v)
         /\ J!Castable(v) => J!Stripped(v) = Bare(v)
         /\ J!Castable(Bare(v)) /\ J!Stripped(Bare(v)) = Bare(v)
<1>1. v.nulls \in Nat /\ v \in [value : Values, nulls : Nulls \cup {0}]
      /\ Bare(v) \in [value : Values, nulls : Nulls \cup {0}]
  BY ProcessesAssumption DEF J!Text, Bare
<1>2. Bare(v).nulls = 0 /\ Bare(Bare(v)) = Bare(v)
  BY DEF J!Text, Bare
<1>3. J!Castable(v) => J!Stripped(v) = Bare(v)
  <2>1. J!Stripped(v) = [v EXCEPT !.nulls = v.nulls \div 2]
    BY DEF J!Stripped
  <2>2. J!Stripped(v).nulls = v.nulls \div 2
    BY <2>1 DEF J!Text
  <2>3. QED
    BY <2>1, <2>2 DEF J!Castable, Bare
<1>4. J!Castable(Bare(v)) /\ J!Stripped(Bare(v)) = Bare(v)
  <2>1. J!Stripped(Bare(v)) = [Bare(v) EXCEPT !.nulls = 0 \div 2]
    BY <1>2 DEF J!Stripped
  <2>2. 0 \div 2 = 0
    OBVIOUS
  <2>3. J!Stripped(Bare(v)) = Bare(Bare(v))
    BY <2>1, <2>2 DEF Bare
  <2>4. QED
    BY <1>2, <2>3 DEF J!Castable
<1>5. QED
  BY <1>1, <1>2, <1>3, <1>4, ProcessesAssumption

(* The invariant of the columns holds initially,                           *)
LEMMA JsonbStarts == J!JsonbInit => JsonbInv
<1> SUFFICES ASSUME J!JsonbInit PROVE JsonbInv
  OBVIOUS
<1> DEFINE none == [c \in J!Col |-> Absent]
<1>1. none \in [J!Col -> {Absent}] /\ [J!Col -> J!Text] \subseteq [J!Col -> J!Text \cup {Absent}]
  OBVIOUS
<1>2. cell \in [Rows -> {none} \cup [J!Col -> J!Text]] /\ written = cell
      /\ mirror = [r \in Rows |-> none]
  BY DEF J!JsonbInit
<1>3. ASSUME NEW r \in Rows
      PROVE  /\ cell[r] \in [J!Col -> J!Text \cup {Absent}]
             /\ J!Exists(r) \/ \A c \in J!Col : cell[r][c] = Absent
  <2>1. CASE cell[r] = none
    BY <2>1
  <2>2. CASE cell[r] \in [J!Col -> J!Text]
    BY <2>2, TextIs DEF J!Exists
  <2>3. QED
    BY <1>2, <2>1, <2>2
<1>4. ASSUME NEW r \in Rows, NEW c \in J!Col PROVE CellAt(r, c)
  BY <1>2, <1>3, TextIs DEF CellAt, J!JsonbInit
<1>5. Cells
  <2>1. written \in [Rows -> [J!Col -> J!Text \cup {Absent}]]
    BY <1>2, <1>3
  <2>2. cell \in [Rows -> [J!Col -> J!Text \cup Plain \cup {Absent}]]
    BY <1>2, <1>3
  <2>3. mirror \in [Rows -> [J!Col -> Plain \cup {Absent}]]
    BY <1>2
  <2>4. QED
    BY <1>3, <1>4, <2>1, <2>2, <2>3 DEF Cells, J!JsonbInit
<1>6. Progress
  BY DEF Progress, J!JsonbInit
<1>7. QED
  BY <1>5, <1>6 DEF JsonbInv

(* What the triggers write into the mirrors of a row.                      *)
LEMMA TriggersWrite ==
  ASSUME Cells, NEW r \in Rows, NEW new \in [J!Col -> J!Text \cup Plain],
         \A c \in temporary : J!Castable(new[c])
  PROVE  /\ J!Mirrored(r, new) \in [J!Col -> Plain \cup {Absent}]
         /\ \A c \in J!Col : IF c \in temporary THEN J!Mirrored(r, new)[c] = Bare(new[c])
                                                ELSE J!Mirrored(r, new)[c] = Absent
<1> DEFINE m == J!Mirrored(r, new)
<1>1. m = [c \in J!Col |-> IF c \in temporary THEN J!Stripped(new[c]) ELSE mirror[r][c]]
  BY DEF J!Mirrored
<1>2. ASSUME NEW c \in J!Col, c \in temporary PROVE m[c] = Bare(new[c]) /\ Bare(new[c]) \in Plain
  <2>1. m[c] = J!Stripped(new[c]) /\ J!Castable(new[c])
    BY <1>1, <1>2
  <2>2. CASE new[c] \in J!Text
    BY <2>1, <2>2, TextIs DEF Plain
  <2>3. CASE new[c] \in Plain
    <3>1. PICK v \in J!Text : new[c] = Bare(v)
      BY <2>3 DEF Plain
    <3>2. QED
      BY <2>1, <3>1, TextIs DEF Plain
  <2>4. QED
    BY <2>2, <2>3
<1>3. ASSUME NEW c \in J!Col, c \notin temporary PROVE m[c] = Absent
  BY <1>1, <1>3 DEF Cells, CellAt
<1> HIDE DEF m
<1>4. \A c \in J!Col : IF c \in temporary THEN m[c] = Bare(new[c]) ELSE m[c] = Absent
  BY <1>2, <1>3
<1>5. m \in [J!Col -> Plain \cup {Absent}]
  BY <1>1, <1>2, <1>3
<1>6. QED
  BY <1>4, <1>5 DEF m

(* A row is written by the application.                                    *)
LEMMA WriteStep ==
  ASSUME JsonbInv, NEW r \in Rows, NEW new \in [J!Col -> J!Text], J!Write(r, new)
  PROVE  JsonbInv'
<1> DEFINE m == J!Mirrored(r, new)
<1>1. /\ cell' = [cell EXCEPT ![r] = new] /\ written' = [written EXCEPT ![r] = new]
      /\ mirror' = [mirror EXCEPT ![r] = m]
      /\ UNCHANGED <<temporary, required, jsonb, pc>>
      /\ \A c \in temporary : J!Castable(new[c])
  BY DEF J!Write
<1>2. new \in [J!Col -> J!Text \cup Plain]
  OBVIOUS
<1>3. /\ m \in [J!Col -> Plain \cup {Absent}]
      /\ \A c \in J!Col : IF c \in temporary THEN m[c] = Bare(new[c]) ELSE m[c] = Absent
  BY <1>1, <1>2, TriggersWrite DEF JsonbInv
<1> HIDE DEF m
<1>4. /\ cell' \in [Rows -> [J!Col -> J!Text \cup Plain \cup {Absent}]]
      /\ mirror' \in [Rows -> [J!Col -> Plain \cup {Absent}]]
      /\ written' \in [Rows -> [J!Col -> J!Text \cup {Absent}]]
  BY <1>1, <1>3 DEF JsonbInv, Cells
<1>5. cell'[r] = new /\ written'[r] = new /\ mirror'[r] = m
      /\ \A s \in Rows \ {r} : cell'[s] = cell[s] /\ written'[s] = written[s] /\ mirror'[s] = mirror[s]
  BY <1>1 DEF JsonbInv, Cells
<1>6. ASSUME NEW c \in J!Col PROVE CellAt(r, c)'
  <2>1. new[c] \in J!Text /\ new[c] # Absent /\ Bare(new[c]) # Absent
    BY TextIs
  <2>2. required' \subseteq temporary
    BY <1>1 DEF JsonbInv, Cells
  <2>3. QED
    BY <1>1, <1>3, <1>5, <2>1, <2>2 DEF CellAt
<1>7. ASSUME NEW s \in Rows \ {r}, NEW c \in J!Col PROVE CellAt(s, c)'
  BY <1>1, <1>5 DEF JsonbInv, Cells, CellAt
<1>8. ASSUME NEW s \in Rows PROVE J!Exists(s)' \/ \A c \in J!Col : cell'[s][c] = Absent
  <2>1. CASE s = r
    BY <1>5, <2>1, TextIs DEF J!Exists
  <2>2. CASE s # r
    BY <1>5, <2>2 DEF J!Exists, JsonbInv, Cells
  <2>3. QED
    BY <2>1, <2>2
<1>9. Cells'
  BY <1>1, <1>4, <1>6, <1>7, <1>8 DEF JsonbInv, Cells
<1>10. Progress'
  BY <1>1 DEF JsonbInv, Progress
<1>11. QED
  BY <1>9, <1>10 DEF JsonbInv

(* A batch is written again as it is.                                      *)
LEMMA FillStep ==
  ASSUME JsonbInv, J!Fill
  PROVE  JsonbInv'
<1>1. pc[1] = "fill" /\ temporary = J!Col
      /\ UNCHANGED <<cell, temporary, required, jsonb, written>>
  BY DEF J!Fill, JsonbInv, Progress
<1>2. CASE UNCHANGED mirror /\ pc' \in {<<"require", 1>>, <<"stopped", 1>>}
  <2>1. Cells'
    BY <1>1, <1>2 DEF JsonbInv, Cells, CellAt, J!Exists
  <2>2. Progress'
    BY <1>1, <1>2 DEF JsonbInv, Progress
  <2>3. QED
    BY <2>1, <2>2 DEF JsonbInv
<1>3. CASE /\ UNCHANGED pc
           /\ \E batch \in SUBSET J!Empty :
                /\ \A r \in batch, c \in temporary : J!Castable(cell[r][c])
                /\ mirror' = [r \in Rows |-> IF r \in batch THEN J!Mirrored(r, cell[r]) ELSE mirror[r]]
  <2>1. PICK batch \in SUBSET J!Empty :
               /\ \A r \in batch, c \in temporary : J!Castable(cell[r][c])
               /\ mirror' = [r \in Rows |-> IF r \in batch THEN J!Mirrored(r, cell[r]) ELSE mirror[r]]
    BY <1>3
  <2>2. ASSUME NEW r \in batch
        PROVE  /\ r \in Rows /\ mirror'[r] \in [J!Col -> Plain \cup {Absent}]
               /\ \A c \in J!Col : cell[r][c] # Absent /\ mirror'[r][c] = Bare(cell[r][c])
    <3>1. r \in Rows /\ J!Exists(r)
      BY DEF J!Empty
    <3>2. cell[r] \in [J!Col -> J!Text \cup Plain]
      BY <3>1 DEF JsonbInv, Cells, J!Exists
    <3>3. mirror'[r] = J!Mirrored(r, cell[r])
      BY <2>1, <3>1
    <3>4. QED
      BY <1>1, <2>1, <3>1, <3>2, <3>3, TriggersWrite DEF JsonbInv, J!Exists
  <2>3. ASSUME NEW r \in Rows \ batch PROVE mirror'[r] = mirror[r]
    BY <2>1
  <2>4. mirror' \in [Rows -> [J!Col -> Plain \cup {Absent}]]
    <3>1. \A r \in Rows : mirror'[r] \in [J!Col -> Plain \cup {Absent}]
      BY <2>2, <2>3 DEF JsonbInv, Cells
    <3>2. QED
      BY <2>1, <3>1
  <2>5. ASSUME NEW r \in Rows, NEW c \in J!Col PROVE CellAt(r, c)'
    <3>1. CellAt(r, c)
      BY DEF JsonbInv, Cells
    <3>2. CASE r \notin batch
      BY <1>1, <2>3, <3>1, <3>2 DEF CellAt
    <3>3. CASE r \in batch
      <4>1. cell[r][c] # Absent /\ mirror'[r][c] = Bare(cell[r][c])
        BY <2>2, <3>3
      <4>2. written[r][c] \in J!Text /\ cell[r][c] \in {written[r][c], Bare(written[r][c])}
        BY <3>1, <4>1 DEF CellAt
      <4>3. Bare(cell[r][c]) = Bare(written[r][c]) /\ Bare(written[r][c]) # Absent
        BY <4>2, TextIs
      <4>4. QED
        BY <1>1, <4>1, <4>2, <4>3 DEF CellAt
    <3>4. QED
      BY <3>2, <3>3
  <2>6. Cells'
    BY <1>1, <2>4, <2>5 DEF JsonbInv, Cells, J!Exists
  <2>7. Progress'
    BY <1>1, <1>3 DEF JsonbInv, Progress
  <2>8. QED
    BY <2>6, <2>7 DEF JsonbInv
<1>4. QED
  BY <1>2, <1>3 DEF J!Fill

(* A column whose mirror is full of what was written may require it.       *)
LEMMA RequireStep ==
  ASSUME JsonbInv, NEW c \in J!Col, J!Require(c)
  PROVE  JsonbInv'
<1>1. pc[1] = "require" /\ temporary = J!Col /\ pc[2] \in {1, 2} /\ pc = <<pc[1], pc[2]>>
      /\ UNCHANGED <<cell, mirror, temporary, jsonb, written>>
  BY DEF J!Require, JsonbInv, Progress
<1>2. CASE pc' = <<"stopped", 1>> /\ UNCHANGED required
  <2>1. Cells'
    BY <1>1, <1>2 DEF JsonbInv, Cells, CellAt, J!Exists
  <2>2. Progress'
    BY <1>2 DEF JsonbInv, Progress
  <2>3. QED
    BY <2>1, <2>2 DEF JsonbInv
<1>3. CASE /\ \A r \in Rows : J!Exists(r) => mirror[r][c] # Absent
           /\ pc' = J!After("require", pc[2]) /\ required' = required \cup {c}
  <2>1. ASSUME NEW r \in Rows, NEW d \in J!Col PROVE CellAt(r, d)'
    <3>1. J!Exists(r) \/ cell[r][d] = Absent
      BY DEF JsonbInv, Cells
    <3>2. CellAt(r, d)
      BY DEF JsonbInv, Cells
    <3>3. QED
      BY <1>1, <1>3, <3>1, <3>2 DEF CellAt
  <2>2. Cells'
    BY <1>1, <1>3, <2>1 DEF JsonbInv, Cells, J!Exists
  <2>3. CASE pc[2] = 1
    <3>1. c = "content" /\ pc' = <<"require", 2>>
      BY <1>3, <2>3, ColumnsAre DEF J!Require
    <3>2. QED
      BY <1>1, <1>3, <2>2, <3>1 DEF JsonbInv, Progress
  <2>4. CASE pc[2] = 2
    <3>1. c = "summary" /\ pc' = <<"replace", 1>> /\ pc = <<"require", 2>>
      BY <1>1, <1>3, <2>4, ColumnsAre DEF J!Require
    <3>2. QED
      BY <1>1, <1>3, <2>2, <3>1 DEF JsonbInv, Progress
  <2>5. QED
    BY <1>1, <2>3, <2>4
<1>4. QED
  BY <1>2, <1>3 DEF J!Require

(* A column is replaced by its mirror, which has what it had.              *)
LEMMA ReplaceStep ==
  ASSUME JsonbInv, NEW c \in J!Col, J!Replace(c)
  PROVE  JsonbInv'
<1>1. /\ pc[1] = "replace" /\ pc[2] \in {1, 2} /\ pc = <<pc[1], pc[2]>> /\ UNCHANGED written
      /\ cell' = [r \in Rows |-> IF J!Exists(r) THEN [cell[r] EXCEPT ![c] = mirror[r][c]] ELSE cell[r]]
      /\ temporary' = temporary \ {c} /\ required' = required \ {c}
      /\ mirror' = [r \in Rows |-> [mirror[r] EXCEPT ![c] = Absent]]
      /\ pc' = J!After("replace", pc[2])
  BY DEF J!Replace, JsonbInv, Progress
<1>2. c \in required /\ Progress'
  <2>1. CASE pc[2] = 1
    <3>1. c = "content" /\ pc' = <<"replace", 2>> /\ pc = <<"replace", 1>>
      BY <1>1, <2>1, ColumnsAre DEF J!Replace
    <3>2. QED
      BY <1>1, <3>1 DEF JsonbInv, Progress
  <2>2. CASE pc[2] = 2
    <3>1. c = "summary" /\ pc' = <<"stopped", 1>>
      BY <1>1, <2>2, ColumnsAre DEF J!Replace
    <3>2. QED
      BY <1>1, <3>1 DEF JsonbInv, Progress
  <2>3. QED
    BY <1>1, <2>1, <2>2
<1>3. ASSUME NEW r \in Rows
      PROVE  /\ cell'[r] \in [J!Col -> J!Text \cup Plain \cup {Absent}]
             /\ mirror'[r] \in [J!Col -> Plain \cup {Absent}]
             /\ J!Exists(r)' \/ \A d \in J!Col : cell'[r][d] = Absent
             /\ \A d \in J!Col : CellAt(r, d)'
  <2>1. /\ cell[r] \in [J!Col -> J!Text \cup Plain \cup {Absent}]
        /\ mirror[r] \in [J!Col -> Plain \cup {Absent}] /\ \A d \in J!Col : CellAt(r, d)
        /\ J!Exists(r) \/ \A d \in J!Col : cell[r][d] = Absent
    BY DEF JsonbInv, Cells
  <2>2. /\ mirror'[r] = [mirror[r] EXCEPT ![c] = Absent]
        /\ cell'[r] = IF J!Exists(r) THEN [cell[r] EXCEPT ![c] = mirror[r][c]] ELSE cell[r]
    BY <1>1
  <2>3. mirror'[r][c] = Absent /\ \A d \in J!Col \ {c} : mirror'[r][d] = mirror[r][d]
    BY <2>1, <2>2
  <2>4. CASE J!Exists(r)
    <3>1. cell'[r][c] = mirror[r][c] /\ \A d \in J!Col \ {c} : cell'[r][d] = cell[r][d]
      BY <2>1, <2>2, <2>4
    <3>2. /\ mirror[r][c] # Absent /\ mirror[r][c] = Bare(written[r][c])
          /\ written[r][c] \in J!Text
      BY <1>2, <2>1, <2>4 DEF CellAt, J!Exists
    <3>3. CellAt(r, c)'
      BY <1>1, <2>3, <3>1, <3>2 DEF CellAt
    <3>4. ASSUME NEW d \in J!Col \ {c} PROVE CellAt(r, d)'
      BY <1>1, <2>1, <2>3, <3>1 DEF CellAt
    <3>5. J!Exists(r)'
      BY <2>4, <3>1, <3>2 DEF J!Exists
    <3>6. QED
      BY <2>1, <2>2, <2>4, <3>3, <3>4, <3>5
  <2>5. CASE ~J!Exists(r)
    <3>1. cell'[r] = cell[r] /\ \A d \in J!Col : cell[r][d] = Absent
      BY <2>1, <2>2, <2>5
    <3>2. ASSUME NEW d \in J!Col PROVE CellAt(r, d)'
      BY <1>1, <2>1, <2>3, <3>1 DEF CellAt
    <3>3. QED
      BY <2>1, <2>2, <3>1, <3>2
  <2>6. QED
    BY <2>4, <2>5
<1>4. Cells'
  <2>1. /\ cell' \in [Rows -> [J!Col -> J!Text \cup Plain \cup {Absent}]]
        /\ mirror' \in [Rows -> [J!Col -> Plain \cup {Absent}]]
    BY <1>1, <1>3
  <2>2. QED
    BY <1>1, <1>3, <2>1 DEF JsonbInv, Cells
<1>5. QED
  BY <1>2, <1>4 DEF JsonbInv

(* A column loses its mirror, or gets an empty one.                        *)
LEMMA DropStep ==
  ASSUME JsonbInv, NEW c \in J!Col, J!Drop(c)
  PROVE  JsonbInv'
<1>1. /\ pc[1] = "drop" /\ pc[2] \in {1, 2} /\ pc' = J!After("drop", pc[2])
      /\ temporary' = temporary \ {c} /\ required' = required \ {c}
      /\ mirror' = [r \in Rows |-> [mirror[r] EXCEPT ![c] = Absent]]
      /\ UNCHANGED <<cell, written>>
  BY DEF J!Drop, JsonbInv, Progress
<1>2. pc' \in {<<"drop", 2>>, <<"add", 1>>}
  BY <1>1, ColumnsAre
<1>3. ASSUME NEW r \in Rows
      PROVE  /\ mirror'[r] \in [J!Col -> Plain \cup {Absent}]
             /\ \A d \in J!Col : CellAt(r, d)'
  <2>1. mirror[r] \in [J!Col -> Plain \cup {Absent}] /\ \A d \in J!Col : CellAt(r, d)
    BY DEF JsonbInv, Cells
  <2>2. mirror'[r] = [mirror[r] EXCEPT ![c] = Absent]
    BY <1>1
  <2>3. mirror'[r][c] = Absent /\ \A d \in J!Col \ {c} : mirror'[r][d] = mirror[r][d]
    BY <2>1, <2>2
  <2>4. QED
    BY <1>1, <2>1, <2>2, <2>3 DEF CellAt
<1>4. mirror' \in [Rows -> [J!Col -> Plain \cup {Absent}]]
  BY <1>1, <1>3
<1>5. Cells'
  BY <1>1, <1>3, <1>4 DEF JsonbInv, Cells, J!Exists
<1>6. Progress'
  BY <1>2 DEF Progress
<1>7. QED
  BY <1>5, <1>6 DEF JsonbInv

(* The command adds a temporary column.                                    *)
LEMMA AddStep ==
  ASSUME JsonbInv, NEW c \in J!Col, J!Add(c)
  PROVE  JsonbInv'
<1>1. /\ pc[1] = "add" /\ pc[2] \in {1, 2} /\ pc = <<pc[1], pc[2]>>
      /\ UNCHANGED <<cell, mirror, required, written>>
      /\ temporary \subseteq temporary' /\ temporary' \subseteq J!Col
  BY DEF J!Add, JsonbInv, Progress, Cells
<1>2. Cells'
  BY <1>1 DEF JsonbInv, Cells, CellAt, J!Exists
<1>3. Progress'
  <2>1. CASE pc' = <<"stopped", 1>>
    BY <2>1 DEF Progress
  <2>2. CASE pc' = J!After("add", pc[2]) /\ temporary' = temporary \cup {c}
    <3>1. CASE pc[2] = 1
      <4>1. c = "content" /\ pc' = <<"add", 2>>
        BY <2>2, <3>1, ColumnsAre DEF J!Add
      <4>2. QED
        BY <2>2, <4>1 DEF Progress
    <3>2. CASE pc[2] = 2
      <4>1. c = "summary" /\ pc' = <<"fill", 1>> /\ pc = <<"add", 2>>
        BY <1>1, <2>2, <3>2, ColumnsAre DEF J!Add
      <4>2. temporary' = J!Col
        BY <1>1, <2>2, <4>1, ColumnsAre DEF JsonbInv, Progress
      <4>3. QED
        BY <4>1, <4>2 DEF Progress
    <3>3. QED
      BY <1>1, <3>1, <3>2
  <2>3. QED
    BY <2>1, <2>2 DEF J!Add
<1>4. QED
  BY <1>2, <1>3 DEF JsonbInv

(* and every step of the command and of the writers keeps it.              *)
LEMMA JsonbStep ==
  ASSUME JsonbInv, J!JsonbNext
  PROVE  JsonbInv'
<1>1. ASSUME pc' \in {<<"drop", 1>>, <<"add", 1>>, <<"stopped", 1>>},
             UNCHANGED <<cell, mirror, temporary, required, jsonb, written>>
      PROVE  JsonbInv'
  <2>1. Cells'
    BY <1>1 DEF JsonbInv, Cells, CellAt, J!Exists
  <2>2. Progress'
    BY <1>1 DEF Progress
  <2>3. QED
    BY <2>1, <2>2 DEF JsonbInv
<1>2. ASSUME NEW d \in BOOLEAN, J!Start(d) PROVE JsonbInv'
  BY <1>1, <1>2 DEF J!Start
<1>3. ASSUME J!Kill PROVE JsonbInv'
  BY <1>1, <1>3 DEF J!Kill
<1>4. QED
  BY <1>2, <1>3, WriteStep, DropStep, AddStep, RequireStep, ReplaceStep, FillStep DEF J!JsonbNext

(* What the invariant says of what was written.                            *)
LEMMA JsonbKeeps == JsonbInv => J!NothingWrittenIsLost
<1> SUFFICES ASSUME JsonbInv, NEW r \in Rows, NEW c \in J!Col
             PROVE  /\ J!Exists(r) => J!Kept(cell[r][c], written[r][c])
                    /\ mirror[r][c] # Absent => J!Kept(mirror[r][c], written[r][c])
                    /\ cell[r][c] = Absent => written[r][c] = Absent
  BY DEF J!NothingWrittenIsLost
<1>1. CellAt(r, c)
  BY DEF JsonbInv, Cells
<1>2. QED
  BY <1>1 DEF CellAt, J!Kept, Bare, J!Exists

-----------------------------------------------------------------------------
(***************************************************************************)
(* One of the processes moves, and the others stay where they began.       *)
(***************************************************************************)

ProcessesInv ==
  /\ turn = "enketo" => EnketoInv
  /\ turn = "jsonb" => JsonbInv

(* Both invariants hold initially,                                         *)
LEMMA ProcessesStart == ProcessInit => ProcessesInv
BY EnketoStarts, JsonbStarts DEF ProcessInit, ProcessesInv

(* and every step keeps both: one moves, the other rests.                  *)
LEMMA ProcessesStep == ProcessesInv /\ [ProcessNext]_processVars => ProcessesInv'
<1> SUFFICES ASSUME ProcessesInv, [ProcessNext]_processVars PROVE ProcessesInv'
  OBVIOUS
<1>1. UNCHANGED enketoVars => UNCHANGED <<latest, shots, made, uuid, access, rowLevel, session>>
  BY DEF enketoVars
<1>2. ASSUME turn = "enketo", UNCHANGED <<turn, enketoVars>> PROVE ProcessesInv'
  <2>1. EnketoInv'
    BY <1>1, <1>2, FewerShots DEF ProcessesInv, EnketoInv
  <2>2. QED
    BY <1>2, <2>1 DEF ProcessesInv
<1>3. ASSUME turn = "jsonb", UNCHANGED <<turn, jsonbVars>> PROVE ProcessesInv'
  <2>1. UNCHANGED <<cell, mirror, temporary, required, written, pc>>
    BY <1>3 DEF jsonbVars
  <2>2. Cells' /\ Progress'
    BY <1>3, <2>1 DEF ProcessesInv, JsonbInv, Cells, CellAt, J!Exists, Progress
  <2>3. QED
    BY <1>3, <2>2 DEF ProcessesInv, JsonbInv
<1>4. ASSUME turn \notin {"enketo", "jsonb"}, UNCHANGED turn PROVE ProcessesInv'
  BY <1>4 DEF ProcessesInv
<1>5. CASE Calls
  BY <1>4, <1>5 DEF Calls
<1>6. CASE RequestsOfMany
  BY <1>4, <1>6 DEF RequestsOfMany
<1>7. CASE Editing
  BY <1>7, EnketoStep DEF Editing, ProcessesInv
<1>8. CASE Migrating
  BY <1>8, JsonbStep DEF Migrating, ProcessesInv
<1>9. CASE UNCHANGED processVars
  BY <1>2, <1>3, <1>4, <1>9 DEF processVars
<1>10. QED
  BY <1>5, <1>6, <1>7, <1>8, <1>9 DEF ProcessNext

(* Whatever is made, published, purged, opened and sent meanwhile, a form  *)
(* that Enketo opens for an edit fits the submission; and however often    *)
(* the command is killed and started again while the application writes,   *)
(* nothing that was written is lost but null characters.                   *)
THEOREM NothingLost == ProcessSpec => []NothingIsLost
<1>1. EnketoInv => E!FormFitsSubmission
  BY DEF EnketoInv, SessionAt, Fits, Opened, E!FormFitsSubmission
<1>2. ProcessesInv => NothingIsLost
  BY <1>1, JsonbKeeps DEF ProcessesInv, NothingIsLost
<1>3. QED
  BY <1>2, ProcessesStart, ProcessesStep, PTL DEF ProcessSpec

(* A version has one snapshot.  Lookup, check and call of KoBoCAT are      *)
(* steps between which access changes and others edit: an edit replaces    *)
(* the text that whoever sends it has read, and they could change it at    *)
(* some moment of the request (or had no access at all between two checks  *)
(* of it); what becomes a submission of its own was an edit of a text that *)
(* was replaced during the request.                                        *)
THEOREM EditsReplace == ProcessSpec => EditsReplaceWhatTheyRead
<1> DEFINE Replaces ==
             /\ E!Cardinality({s.version : s \in shots'}) = E!Cardinality(shots')
             /\ \A s \in Subs : uuid'[s] # uuid[s] =>
                  \E u \in Editors : session[u].stage = "checked" /\ session[u].sub = s
                                     /\ session[u].base = uuid[s]
                                     /\ session[u].held \cap {"allowed", "without"} # {}
             /\ strays' # strays =>
                  \E u \in Editors : session[u].stage = "checked" /\ "fresh" \in session[u].held
<1>1. \A S : E!Cardinality(S) = Cardinality(S)
  BY DEF E!Cardinality, Cardinality
<1>2. ProcessesInv /\ [ProcessNext]_processVars => [Replaces]_(E!sessionVars)
  <2> SUFFICES ASSUME ProcessesInv, [ProcessNext]_processVars, ProcessesInv'
               PROVE  [Replaces]_(E!sessionVars)
    BY ProcessesStep
  <2>1. UNCHANGED enketoVars => UNCHANGED E!sessionVars
    BY DEF enketoVars, E!sessionVars
  <2>2. CASE Editing
    BY <1>1, <2>2, EditStep DEF Editing, ProcessesInv
  <2>3. CASE Calls \/ RequestsOfMany \/ Migrating \/ UNCHANGED processVars
    BY <2>1, <2>3 DEF Calls, RequestsOfMany, Migrating, processVars
  <2>4. QED
    BY <2>2, <2>3 DEF ProcessNext
<1>3. EditsReplaceWhatTheyRead <=> [][Replaces]_(E!sessionVars)
  BY DEF EditsReplaceWhatTheyRead, E!EditsReplaceWhatTheyRead
<1>4. QED
  BY <1>2, <1>3, ProcessesStart, ProcessesStep, PTL DEF ProcessSpec
=============================================================================
