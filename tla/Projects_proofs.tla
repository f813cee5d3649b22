--------------------------- MODULE Projects_proofs ---------------------------
(***************************************************************************)
(* What is proved of the deployment of projects, for every number of       *)
(* versions and of requests: what is told of versions, what a request      *)
(* leaves when it ends, and that Deployments implements Publication; and   *)
(* of accounts, that what runs alone leaves KoBoCAT with what KPI has.     *)
(*                                                                         *)
(* Requests that follow one another are those of Deployments (Solo says    *)
(* that there are no two of them); requests that overlap are those of T,   *)
(* the instance of it in MCProjects, and the lemmas of that part begin     *)
(* with Two: a proof cannot cite the theorems of an instance, so that what *)
(* is needed of both is proved of both.                                    *)
(***************************************************************************)
EXTENDS MCProjects, SequenceTheorems, TLAPS

-----------------------------------------------------------------------------
(***************************************************************************)
(* The types, of requests in any order.                                    *)
(***************************************************************************)

(* What the request r carries fits the step it is at: only a removal       *)
(* deletes and drops, a step that writes data of a deployment has some,    *)
(* and these are of a version that is there.                               *)
AtWork(r) ==
  request[r] # Idle =>
    /\ request[r].pc \in {"delete", "drop"} => request[r].kind = "destroy"
    /\ request[r].pc \in {"store", "link", "mark", "activate", "record"} =>
         request[r].deployment # Nothing
    /\ request[r].deployment # Nothing /\ request[r].pc # "store" =>
         request[r].deployment.version \in 1..Latest

(* The types, and what keeps them: requests at work, versions within their *)
(* bound.                                                                  *)
TypesInv == DeploymentsTypeOK /\ (\A r \in Requests : AtWork(r)) /\ Latest \in 0..MaxVersions

(* What the assumptions on the constants say, fact by fact.                *)
LEMMA Bounds ==
  /\ MaxVersions \in Nat /\ MaxVersions >= 1 /\ MaxRequests \in Nat
  /\ \A x \in Contents : x # Nothing
  /\ \A d \in Deployment : d # Nothing
  /\ \A f \in XForm : f # Nothing
  /\ \A w \in Row : w # Nothing
  /\ \A f \in [content : Contents, active : BOOLEAN] : f # Nothing
<1>1. MaxVersions \in Nat \ {0} /\ MaxRequests \in Nat
  BY DeploymentsAssumption
<1>2. /\ Nothing \notin Contents /\ Nothing \notin Deployment /\ Nothing \notin XForm
      /\ Nothing \notin Row
      /\ Nothing \notin [content : Contents, active : BOOLEAN]
  BY NothingAssumption
<1>3. MaxVersions \in Nat /\ MaxVersions >= 1
  BY <1>1
<1>4. QED
  BY <1>1, <1>2, <1>3

(* What a reader of the types needs of the row, the form, the versions and *)
(* a request.                                                              *)
LEMMA Facts ==
  ASSUME DeploymentsTypeOK
  PROVE  /\ row # Nothing => row \in Row /\ row.content \in Contents
                             /\ (row.deployment # Nothing => row.deployment \in Deployment)
         /\ xform # Nothing => xform \in XForm /\ xform.content \in Contents
         /\ Latest \in Nat /\ DOMAIN versions = 1..Latest
         /\ \A v \in 1..Latest : versions[v] \in Version
         /\ \A r \in Requests : request[r] # Idle =>
              /\ request[r] \in Request /\ request[r].kind \in Kinds
              /\ request[r].content \in Contents
              /\ request[r].deployment # Nothing => request[r].deployment \in Deployment
              /\ request[r].active \in BOOLEAN
         /\ \A r \in Requests : request[r] = Idle <=> request[r].pc = "idle"
<1>1. /\ row # Nothing => row \in Row /\ row.content \in Contents
                             /\ (row.deployment # Nothing => row.deployment \in Deployment)
      /\ xform # Nothing => xform \in XForm /\ xform.content \in Contents
  BY DEF DeploymentsTypeOK, Row, XForm
<1>2. versions \in Seq(Version)
  BY DEF DeploymentsTypeOK
<1>3. Latest \in Nat /\ DOMAIN versions = 1..Latest
         /\ \A v \in 1..Latest : versions[v] \in Version
  BY <1>2 DEF Latest
<1>4. ASSUME NEW r \in Requests
      PROVE  /\ request[r] # Idle =>
                  /\ request[r] \in Request /\ request[r].kind \in Kinds
                  /\ request[r].content \in Contents
                  /\ request[r].deployment # Nothing => request[r].deployment \in Deployment
                  /\ request[r].active \in BOOLEAN
             /\ request[r] = Idle <=> request[r].pc = "idle"
  <2>1. request[r] \in Request \cup {Idle}
    BY DEF DeploymentsTypeOK
  <2>2. CASE request[r] \in Request
    BY <2>2 DEF Request, Idle
  <2>3. CASE request[r] = Idle
    BY <2>3 DEF Idle
  <2>4. QED
    BY <2>1, <2>2, <2>3
<1>5. QED
  BY <1>1, <1>3, <1>4

(* A step of the request r leaves the other requests where they are.       *)
LEMMA Moves ==
  ASSUME DeploymentsTypeOK, NEW r \in Requests, NEW new \in Request \cup {Idle},
         request' = [request EXCEPT ![r] = new]
  PROVE  /\ request' \in [Requests -> Request \cup {Idle}]
         /\ request'[r] = new /\ \A t \in Requests : t # r => request'[t] = request[t]
  BY DEF DeploymentsTypeOK

(* The steps a request may be at.                                          *)
Pcs ==
  {"check", "post", "patch", "store", "link", "mark", "save", "sync", "version",
   "activate", "record", "delete", "drop"}

(* A request that goes to another step takes with it all it carries.       *)
LEMMA GoesTo ==
  ASSUME DeploymentsTypeOK, NEW r \in Requests, request[r] # Idle, NEW pc \in Pcs, GoTo(r, pc)
  PROVE  /\ request' \in [Requests -> Request \cup {Idle}]
         /\ \A t \in Requests : t # r => request'[t] = request[t]
         /\ request'[r] # Idle /\ request'[r].pc = pc /\ request'[r].kind = request[r].kind
         /\ request'[r].content = request[r].content
         /\ request'[r].deployment = request[r].deployment
         /\ request'[r].active = request[r].active
<1> DEFINE new == [request[r] EXCEPT !.pc = pc]
<1>1. request[r] \in Request
  BY Facts
<1>2. /\ new \in Request /\ new.pc = pc /\ new.kind = request[r].kind
      /\ new.content = request[r].content
      /\ new.deployment = request[r].deployment /\ new.active = request[r].active /\ new # Idle
  BY <1>1 DEF Request, Pcs, Idle
<1>3. request' = [request EXCEPT ![r] = new]
  BY DEF GoTo
<1> HIDE DEF new
<1>4. QED
  BY <1>2, <1>3, Moves

(* A request that goes on with other deployment data keeps the rest.       *)
LEMMA GoesOn ==
  ASSUME DeploymentsTypeOK, NEW r \in Requests, request[r] # Idle, NEW pc \in Pcs,
         NEW d \in Deployment,
         Goes(r, pc, d)
  PROVE  /\ request' \in [Requests -> Request \cup {Idle}]
         /\ \A t \in Requests : t # r => request'[t] = request[t]
         /\ request'[r] # Idle /\ request'[r].pc = pc /\ request'[r].kind = request[r].kind
         /\ request'[r].content = request[r].content /\ request'[r].deployment = d
         /\ request'[r].active = request[r].active
<1> DEFINE new == [request[r] EXCEPT !.pc = pc, !.deployment = d]
<1>1. request[r] \in Request
  BY Facts
<1>2. /\ new \in Request /\ new.pc = pc /\ new.kind = request[r].kind
      /\ new.content = request[r].content
      /\ new.deployment = d /\ new.active = request[r].active /\ new # Idle
  BY <1>1 DEF Request, Pcs, Idle
<1>3. request' = [request EXCEPT ![r] = new]
  BY DEF Goes
<1> HIDE DEF new
<1>4. QED
  BY <1>2, <1>3, Moves

(* A request that ends is idle.                                            *)
LEMMA Ends ==
  ASSUME DeploymentsTypeOK, NEW r \in Requests, End(r)
  PROVE  /\ request' \in [Requests -> Request \cup {Idle}]
         /\ request'[r] = Idle /\ \A t \in Requests : t # r => request'[t] = request[t]
  BY Moves DEF End

(* Versions are never taken away, so that the other requests keep theirs.  *)
LEMMA OthersAtWork ==
  ASSUME TypesInv, NEW r \in Requests, Latest \in Nat, Latest' \in Nat, Latest <= Latest',
         \A t \in Requests : t # r => request'[t] = request[t], AtWork(r)'
  PROVE  \A t \in Requests : AtWork(t)'
  BY DEF TypesInv, AtWork

(* A step that leaves the versions alone keeps the types.                  *)
LEMMA Keeps ==
  ASSUME TypesInv, NEW r \in Requests, UNCHANGED versions,
         request' \in [Requests -> Request \cup {Idle}],
         \A t \in Requests : t # r => request'[t] = request[t], AtWork(r)',
         row' \in Row \cup {Nothing}, xform' \in XForm \cup {Nothing}, made' \in 0..MaxRequests,
         published' \subseteq 1..MaxVersions, unnamed' \subseteq Contents,
         row' # Nothing /\ row'.deployment # Nothing => row'.deployment.version \in 1..Latest
  PROVE  TypesInv'
<1>1. Latest' = Latest /\ Latest \in 0..MaxVersions /\ Latest \in Nat
  BY Bounds DEF Latest, TypesInv
<1>2. DeploymentsTypeOK'
  BY <1>1 DEF DeploymentsTypeOK, TypesInv
<1>3. \A t \in Requests : AtWork(t)'
  BY <1>1, OthersAtWork
<1>4. QED
  BY <1>1, <1>2, <1>3 DEF TypesInv

(* A step that changes nothing but its request keeps the types.            *)
LEMMA Works ==
  ASSUME TypesInv, NEW r \in Requests, UNCHANGED <<row, versions, xform, made, published, unnamed>>,
         request' \in [Requests -> Request \cup {Idle}],
         \A t \in Requests : t # r => request'[t] = request[t], AtWork(r)'
  PROVE  TypesInv'
  BY Keeps DEF TypesInv, DeploymentsTypeOK

(* Projects are not removed while another request is at work.              *)
Removes == "destroy" \in Kinds => \A p, q \in Requests : p = q

(* A request begins with what the row holds.                               *)
LEMMA TypesBegin ==
  ASSUME TypesInv, NEW r \in Requests, NEW kind \in Kinds, Begin(r, kind)
  PROVE  /\ TypesInv' /\ row # Nothing /\ UNCHANGED <<row, versions, xform, published, unnamed>>
         /\ request'[r] # Idle /\ request'[r].pc = FirstStep(kind) /\ request'[r].kind = kind
         /\ request'[r].deployment = row.deployment
         /\ kind # "edit" => request'[r].content = row.content
<1>1. Kinds \subseteq {"edit", "deploy", "destroy"}
  BY DeploymentsAssumption
<1>2. /\ row \in Row /\ row.content \in Contents
      /\ row.deployment # Nothing =>
           row.deployment \in Deployment /\ row.deployment.version \in 1..Latest
  BY Facts DEF Begin, TypesInv, DeploymentsTypeOK
<1>3. Latest \in Nat /\ Latest <= MaxVersions /\ MaxVersions \in Nat /\ MaxRequests \in Nat
  BY Bounds DEF TypesInv
<1>4. PICK content \in
               IF kind = "edit" THEN {row.content, Latest + 1} \cap Contents ELSE {row.content},
           active \in IF kind = "deploy" THEN BOOLEAN ELSE {FALSE},
           version \in IF kind = "deploy" THEN {NotGiven} \cup 1..Latest ELSE {NotGiven} :
        request' = [request EXCEPT ![r] =
         [pc |-> FirstStep(kind), kind |-> kind, content |-> content,
          deployment |-> row.deployment, active |-> active, version |-> version]]
  BY DEF Begin
<1> DEFINE new == [pc |-> FirstStep(kind), kind |-> kind, content |-> content,
                   deployment |-> row.deployment, active |-> active, version |-> version]
<1>5. content \in Contents /\ active \in BOOLEAN /\ version \in 0..MaxVersions
  <2>1. content \in Contents
    BY <1>2
  <2>2. active \in BOOLEAN
    BY Zenon
  <2>3. version \in {0} \cup 1..Latest
    BY DEF NotGiven
  <2>4. version \in 0..MaxVersions
    BY <2>3, <1>3
  <2>5. QED
    BY <2>1, <2>2, <2>4
<1>6. FirstStep(kind) \in {"save", "check", "delete", "drop"}
      /\ (FirstStep(kind) \in {"delete", "drop"} => kind = "destroy")
      /\ (kind = "deploy" => FirstStep(kind) # "save")
  BY <1>1 DEF FirstStep
<1>7. row.deployment \in Deployment \cup {Nothing}
  BY <1>2
<1>8. new \in Request
  BY <1>5, <1>6, <1>7 DEF Request
<1>9. /\ new # Idle /\ new.pc = FirstStep(kind) /\ new.kind = kind
      /\ new.deployment = row.deployment
  BY <1>6 DEF Idle
<1> HIDE DEF new
<1>10. /\ request' \in [Requests -> Request \cup {Idle}]
       /\ request'[r] = new /\ \A t \in Requests : t # r => request'[t] = request[t]
  BY <1>4, <1>8, Moves DEF TypesInv, new
<1>11. UNCHANGED <<row, versions, xform, published, unnamed>> /\ made' \in 0..MaxRequests
  BY <1>3 DEF Begin, TypesInv, DeploymentsTypeOK
<1>12. Latest' = Latest
  BY <1>11 DEF Latest
<1>13. AtWork(r)'
  BY <1>2, <1>6, <1>9, <1>10, <1>12 DEF AtWork
<1>14. TypesInv'
  BY <1>10, <1>11, <1>13, Keeps DEF TypesInv, DeploymentsTypeOK
<1>15. row # Nothing /\ (kind # "edit" => content = row.content)
  BY DEF Begin
<1>16. kind # "edit" => request'[r].content = row.content
  BY <1>10, <1>15 DEF new
<1>17. QED
  BY <1>9, <1>10, <1>11, <1>14, <1>15, <1>16

(* The check of the hash goes on to post, patch or activate, or ends.      *)
LEMMA TypesCheck ==
  ASSUME TypesInv, NEW r \in Requests, Check(r)
  PROVE  TypesInv'
<1>1. request[r].pc = "check" /\ request[r] # Idle
  BY DEF Check, At, Idle
<1>2. UNCHANGED <<row, versions, xform, made, published, unnamed>>
  BY DEF Check
<1>3. \/ request[r].deployment # Nothing /\ GoTo(r, "activate")
      \/ GoTo(r, "post") \/ GoTo(r, "patch") \/ End(r)
  BY DEF Check
<1>4. AtWork(r) /\ DeploymentsTypeOK
  BY DEF TypesInv
<1>5. Latest' = Latest
  BY <1>2 DEF Latest
<1>6. CASE End(r)
  BY <1>2, <1>4, <1>6, Ends, Works DEF AtWork
<1>7. CASE GoTo(r, "activate") /\ request[r].deployment # Nothing
  <2>1. GoTo(r, "activate") /\ "activate" \in Pcs
    BY <1>7 DEF Pcs
  <2>2. AtWork(r)'
    BY <1>1, <1>4, <1>5, <1>7, <2>1, GoesTo DEF AtWork
  <2>3. QED
    BY <1>1, <1>2, <1>4, <2>1, <2>2, GoesTo, Works
<1>8. CASE GoTo(r, "post")
  <2>1. GoTo(r, "post") /\ "post" \in Pcs
    BY <1>8 DEF Pcs
  <2>2. AtWork(r)'
    BY <1>1, <1>4, <1>5, <2>1, GoesTo DEF AtWork
  <2>3. QED
    BY <1>1, <1>2, <1>4, <2>1, <2>2, GoesTo, Works
<1>9. CASE GoTo(r, "patch")
  <2>1. GoTo(r, "patch") /\ "patch" \in Pcs
    BY <1>9 DEF Pcs
  <2>2. AtWork(r)'
    BY <1>1, <1>4, <1>5, <2>1, GoesTo DEF AtWork
  <2>3. QED
    BY <1>1, <1>2, <1>4, <2>1, <2>2, GoesTo, Works
<1>10. QED
  BY <1>3, <1>6, <1>7, <1>8, <1>9

(* What is sent to KoBoCAT is of the request, and the form that is there   *)
(* keeps what a patch leaves.                                              *)
LEMMA TypesSend ==
  ASSUME TypesInv, NEW r \in Requests, Send(r)
  PROVE  TypesInv' /\ xform' # Nothing
<1> DEFINE d == [version |-> 0, active |-> request[r].active, linked |-> Linked(r)]
           x == [content |-> request[r].content, version |-> Latest, active |-> request[r].active,
                 linked |-> Linked(r)]
<1>1. request[r].pc \in {"post", "patch"} /\ request[r] # Idle /\ Latest > 0
  BY DEF Send, Idle
<1>2. /\ xform' = x /\ published' = published \cup {Latest}
      /\ Goes(r, "store", d) /\ UNCHANGED <<row, versions, made, unnamed>>
  BY DEF Send, Stamp
<1>3. DeploymentsTypeOK /\ Latest \in Nat /\ Latest <= MaxVersions /\ MaxVersions \in Nat
  BY Bounds DEF TypesInv
<1>4. request[r].content \in Contents /\ request[r].active \in BOOLEAN
  BY <1>1, <1>3, Facts
<1>5. Linked(r) \in BOOLEAN
  <2>1. xform # Nothing => xform.linked \in BOOLEAN
    BY <1>3 DEF DeploymentsTypeOK, XForm
  <2>2. QED
    BY <2>1 DEF Linked, At
<1>6. d \in Deployment /\ x \in XForm
  BY <1>1, <1>3, <1>4, <1>5 DEF Deployment, XForm
<1>7. published' \subseteq 1..MaxVersions
  <2>1. Latest \in 1..MaxVersions
    BY <1>1, <1>3
  <2>2. published \subseteq 1..MaxVersions
    BY <1>3 DEF DeploymentsTypeOK
  <2>3. QED
    BY <1>2, <2>1, <2>2
<1>8. xform' \in XForm
  BY <1>2, <1>6
<1> HIDE DEF d, x
<1>9. "store" \in Pcs
  BY DEF Pcs
<1>10. /\ request' \in [Requests -> Request \cup {Idle}]
       /\ \A t \in Requests : t # r => request'[t] = request[t]
       /\ request'[r].pc = "store" /\ request'[r].deployment = d
  BY <1>1, <1>2, <1>3, <1>6, <1>9, GoesOn
<1>11. AtWork(r)'
  BY <1>6, <1>10, Bounds DEF AtWork
<1>12. Latest' = Latest
  BY <1>2 DEF Latest
<1>13. QED
  BY <1>2, <1>3, <1>7, <1>8, <1>10, <1>11, Bounds, Keeps DEF DeploymentsTypeOK

(* The answer of KoBoCAT becomes the deployment data of the request.       *)
LEMMA TypesStore ==
  ASSUME TypesInv, NEW r \in Requests, Store(r)
  PROVE  TypesInv'
<1> DEFINE d == [request[r].deployment EXCEPT !.version = Latest]
<1>1. request[r].pc = "store" /\ request[r] # Idle /\ Latest > 0
  BY DEF Store, At, Idle
<1>2. UNCHANGED <<row, versions, xform, made, published, unnamed>> /\ Latest' = Latest
  BY DEF Store, Latest
<1>3. /\ DeploymentsTypeOK /\ Latest \in Nat /\ Latest <= MaxVersions
      /\ MaxVersions \in Nat /\ AtWork(r)
  BY Bounds DEF TypesInv
<1>4. request[r].deployment \in Deployment
  BY <1>1, <1>3, Facts DEF AtWork
<1>5. d \in Deployment /\ d.version = Latest
  BY <1>3, <1>4 DEF Deployment
<1>6. PICK pc : pc = IF d.linked THEN "mark" ELSE "link"
  OBVIOUS
<1>7. Goes(r, pc, d) /\ pc \in Pcs /\ pc \in {"mark", "link"}
  BY <1>6 DEF Store, Pcs
<1> HIDE DEF d
<1>8. /\ request' \in [Requests -> Request \cup {Idle}]
      /\ \A t \in Requests : t # r => request'[t] = request[t]
      /\ request'[r].pc = pc /\ request'[r].deployment = d
  BY <1>1, <1>3, <1>5, <1>7, GoesOn
<1>9. AtWork(r)'
  BY <1>1, <1>2, <1>3, <1>5, <1>7, <1>8, Bounds DEF AtWork
<1>10. QED
  BY <1>2, <1>8, <1>9, Works

(* The link of the form to KPI is stored.                                  *)
LEMMA TypesLink ==
  ASSUME TypesInv, NEW r \in Requests, Link(r)
  PROVE  TypesInv'
<1> DEFINE d == [request[r].deployment EXCEPT !.linked = TRUE]
           x == [xform EXCEPT !.linked = TRUE]
<1>1. request[r].pc = "link" /\ request[r] # Idle /\ xform # Nothing
  BY DEF Link, At, Idle
<1>2. /\ UNCHANGED <<row, versions, made, published, unnamed>> /\ Latest' = Latest
      /\ xform' = x /\ Goes(r, "mark", d)
  BY DEF Link, Latest
<1>3. DeploymentsTypeOK /\ AtWork(r)
  BY DEF TypesInv
<1>4. request[r].deployment \in Deployment /\ request[r].deployment.version \in 1..Latest
  BY <1>1, <1>3, Facts DEF AtWork
<1>5. d \in Deployment /\ d.version = request[r].deployment.version
  BY <1>4 DEF Deployment
<1>6. xform \in XForm
  BY <1>1, <1>3, Facts
<1>7. x \in XForm
  BY <1>6 DEF XForm
<1>8. xform' \in XForm
  BY <1>2, <1>7
<1> HIDE DEF d, x
<1>9. "mark" \in Pcs
  BY DEF Pcs
<1>10. /\ request' \in [Requests -> Request \cup {Idle}]
       /\ \A t \in Requests : t # r => request'[t] = request[t]
       /\ request'[r].pc = "mark" /\ request'[r].deployment = d
  BY <1>1, <1>2, <1>3, <1>5, <1>9, GoesOn
<1>11. AtWork(r)'
  BY <1>2, <1>4, <1>5, <1>10, Bounds DEF AtWork
<1>12. QED
  BY <1>2, <1>3, <1>8, <1>10, <1>11, Keeps DEF DeploymentsTypeOK

(* A step that adds or marks versions keeps the types.                     *)
LEMMA Grows ==
  ASSUME TypesInv, NEW r \in Requests, UNCHANGED <<row, xform, made, published, unnamed>>,
         versions' \in Seq(Version),
         Latest' \in 0..MaxVersions, Latest <= Latest',
         request' \in [Requests -> Request \cup {Idle}],
         \A t \in Requests : t # r => request'[t] = request[t], AtWork(r)'
  PROVE  TypesInv'
<1>1. Latest \in Nat /\ Latest' \in Nat /\ MaxVersions \in Nat
  BY Bounds DEF TypesInv
<1>2. row' # Nothing /\ row'.deployment # Nothing => row'.deployment.version \in 1..Latest'
  BY <1>1 DEF TypesInv, DeploymentsTypeOK
<1>3. DeploymentsTypeOK'
  BY <1>2 DEF TypesInv, DeploymentsTypeOK
<1>4. \A t \in Requests : AtWork(t)'
  BY <1>1, OthersAtWork
<1>5. QED
  BY <1>3, <1>4 DEF TypesInv

(* The newest version is marked as deployed.                               *)
LEMMA TypesMark ==
  ASSUME TypesInv, NEW r \in Requests, Mark(r)
  PROVE  /\ TypesInv' /\ Latest' = Latest
         /\ \A v \in 1..Latest : /\ versions'[v].content = versions[v].content
                                 /\ v # Latest => versions'[v] = versions[v]
<1>1. request[r].pc = "mark" /\ request[r] # Idle /\ Latest > 0
  BY DEF Mark, At, Idle
<1>2. /\ UNCHANGED <<row, xform, made, published, unnamed>> /\ GoTo(r, "save")
      /\ versions' = [versions EXCEPT ![Latest].deployed = TRUE]
  BY DEF Mark
<1>3. DeploymentsTypeOK /\ AtWork(r) /\ Latest \in Nat /\ Latest \in 0..MaxVersions
  BY Bounds DEF TypesInv
<1>5. versions \in Seq(Version) /\ \A v \in 1..Latest : versions[v] \in Version
  BY <1>3, Facts DEF DeploymentsTypeOK
<1>6. PICK w : w = [versions[Latest] EXCEPT !.deployed = TRUE]
  OBVIOUS
<1>7. w \in Version /\ w.content = versions[Latest].content
  <2>1. versions[Latest] \in Version
    BY <1>1, <1>3, <1>5
  <2>2. QED
    BY <1>6, <2>1 DEF Version
<1>8. versions' = [versions EXCEPT ![Latest] = w]
  BY <1>2, <1>6
<1>9. /\ versions' \in Seq(Version) /\ Len(versions') = Len(versions)
      /\ \A v \in 1..Latest : versions'[v] = IF v = Latest THEN w ELSE versions[v]
  BY <1>1, <1>3, <1>5, <1>7, <1>8 DEF Latest
<1>10. Latest' = Latest
  BY <1>9 DEF Latest
<1>11. "save" \in Pcs
  BY DEF Pcs
<1>12. AtWork(r)'
  BY <1>1, <1>2, <1>3, <1>10, <1>11, GoesTo DEF AtWork
<1>13. TypesInv'
  <2>1. /\ request' \in [Requests -> Request \cup {Idle}]
        /\ \A t \in Requests : t # r => request'[t] = request[t]
    BY <1>1, <1>2, <1>3, <1>11, GoesTo
  <2>2. Latest' \in 0..MaxVersions /\ Latest <= Latest' /\ versions' \in Seq(Version)
    BY <1>3, <1>9, <1>10
  <2>3. QED
    BY <1>2, <1>12, <2>1, <2>2, Grows
<1>14. QED
  BY <1>7, <1>9, <1>10, <1>13

(* The row is saved with what the request carries.                         *)
LEMMA TypesSave ==
  ASSUME TypesInv, NEW r \in Requests, Save(r)
  PROVE  TypesInv'
<1>1. request[r].pc = "save" /\ request[r] # Idle
  BY DEF Save, At, Idle
<1>2. /\ UNCHANGED <<versions, xform, made, published, unnamed>> /\ Latest' = Latest
      /\ row' = [content |-> request[r].content, deployment |-> request[r].deployment]
  BY DEF Save, Latest
<1>3. DeploymentsTypeOK /\ AtWork(r)
  BY DEF TypesInv
<1>4. /\ request[r].content \in Contents
      /\ request[r].deployment # Nothing => request[r].deployment \in Deployment
                                            /\ request[r].deployment.version \in 1..Latest
  BY <1>1, <1>3, Facts DEF AtWork
<1>5. row' \in Row /\ row'.deployment = request[r].deployment
  BY <1>2, <1>4 DEF Row
<1>6. PICK pc : pc = IF request[r].deployment # Nothing THEN "sync" ELSE "version"
  OBVIOUS
<1>7. GoTo(r, pc) /\ pc \in Pcs /\ pc \in {"sync", "version"}
  BY <1>6 DEF Save, Pcs
<1>8. AtWork(r)'
  BY <1>1, <1>2, <1>3, <1>7, GoesTo DEF AtWork
<1>9. /\ request' \in [Requests -> Request \cup {Idle}]
      /\ \A t \in Requests : t # r => request'[t] = request[t]
  BY <1>1, <1>3, <1>7, GoesTo
<1>10. QED
  BY <1>2, <1>3, <1>4, <1>5, <1>8, <1>9, Keeps DEF DeploymentsTypeOK

(* The files of media follow; the data is untouched.                       *)
LEMMA TypesSync ==
  ASSUME TypesInv, NEW r \in Requests, Sync(r)
  PROVE  TypesInv'
<1>1. request[r].pc = "sync" /\ request[r] # Idle
  BY DEF Sync, At, Idle
<1>2. UNCHANGED <<row, versions, xform, made, published, unnamed>> /\ Latest' = Latest
  BY DEF Sync, Latest
<1>3. DeploymentsTypeOK /\ AtWork(r) /\ "version" \in Pcs
  BY DEF TypesInv, Pcs
<1>4. CASE End(r)
  BY <1>2, <1>3, <1>4, Ends, Works DEF AtWork
<1>5. CASE GoTo(r, "version")
  <2>1. AtWork(r)'
    BY <1>1, <1>2, <1>3, <1>5, GoesTo DEF AtWork
  <2>2. QED
    BY <1>1, <1>2, <1>3, <1>5, <2>1, GoesTo, Works
<1>6. QED
  BY <1>4, <1>5 DEF Sync

(* A version is made of the row.                                           *)
LEMMA TypesCreateVersion ==
  ASSUME TypesInv, NEW r \in Requests, CreateVersion(r)
  PROVE  /\ TypesInv' /\ Latest' = Latest + 1
         /\ \A v \in 1..Latest : versions'[v] = versions[v]
         /\ versions'[Latest'] = [content |-> request[r].content, deployed |-> FALSE]
<1>1. request[r].pc = "version" /\ request[r] # Idle /\ Latest < MaxVersions
  BY DEF CreateVersion, At, Idle
<1>2. UNCHANGED <<row, xform, made, published, unnamed>> /\ End(r)
  BY DEF CreateVersion
<1>3. DeploymentsTypeOK /\ AtWork(r) /\ Latest \in Nat /\ MaxVersions \in Nat
  BY Bounds DEF TypesInv
<1>5. PICK w : w = [content |-> request[r].content, deployed |-> FALSE]
  OBVIOUS
<1>6. request[r].content \in Contents
  BY <1>1, <1>3, Facts
<1>7. w \in Version
  BY <1>5, <1>6 DEF Version
<1>8. versions \in Seq(Version) /\ versions' = Append(versions, w)
  BY <1>3, <1>5 DEF DeploymentsTypeOK, CreateVersion
<1>9. /\ versions' \in Seq(Version) /\ Len(versions') = Len(versions) + 1
      /\ \A v \in 1..Len(versions) : versions'[v] = versions[v]
      /\ versions'[Len(versions) + 1] = w
  BY <1>7, <1>8, AppendProperties
<1>10. Latest' = Latest + 1 /\ \A v \in 1..Latest : versions'[v] = versions[v]
  BY <1>9 DEF Latest
<1>11. Latest' \in 0..MaxVersions /\ Latest <= Latest'
  BY <1>1, <1>3, <1>10
<1>12. AtWork(r)'
  BY <1>2, <1>3, Ends DEF AtWork
<1>13. TypesInv'
  BY <1>2, <1>3, <1>9, <1>11, <1>12, Ends, Grows
<1>14. versions'[Latest'] = [content |-> request[r].content, deployed |-> FALSE]
  <2>1. versions'[Latest'] = w
    BY <1>9 DEF Latest
  <2>2. QED
    BY <1>5, <2>1
<1>15. QED
  BY <1>10, <1>13, <1>14, Zenon

(* The form is opened or closed in KoBoCAT.                                *)
LEMMA TypesSetActive ==
  ASSUME TypesInv, NEW r \in Requests, SetActive(r)
  PROVE  TypesInv'
<1> DEFINE d == [request[r].deployment EXCEPT !.active = request[r].active, !.linked = xform.linked]
           x == [xform EXCEPT !.active = request[r].active]
<1>1. request[r].pc = "activate" /\ request[r] # Idle /\ xform # Nothing
  BY DEF SetActive, At, Idle
<1>2. /\ UNCHANGED <<row, versions, made, published, unnamed>> /\ Latest' = Latest
      /\ xform' = x /\ Goes(r, "record", d)
  BY DEF SetActive, Latest
<1>3. DeploymentsTypeOK /\ AtWork(r)
  BY DEF TypesInv
<1>4. /\ request[r].deployment \in Deployment /\ request[r].deployment.version \in 1..Latest
      /\ request[r].active \in BOOLEAN
  BY <1>1, <1>3, Facts DEF AtWork
<1>5. xform \in XForm /\ xform.linked \in BOOLEAN
  BY <1>1, <1>3, Facts DEF XForm
<1>6. d \in Deployment /\ d.version = request[r].deployment.version
  BY <1>4, <1>5 DEF Deployment
<1>7. x \in XForm
  BY <1>4, <1>5 DEF XForm
<1>8. xform' \in XForm
  BY <1>2, <1>7
<1> HIDE DEF d, x
<1>9. "record" \in Pcs
  BY DEF Pcs
<1>10. /\ request' \in [Requests -> Request \cup {Idle}]
       /\ \A t \in Requests : t # r => request'[t] = request[t]
       /\ request'[r].pc = "record" /\ request'[r].deployment = d
  BY <1>1, <1>2, <1>3, <1>6, <1>9, GoesOn
<1>11. AtWork(r)'
  BY <1>2, <1>4, <1>6, <1>10, Bounds DEF AtWork
<1>12. QED
  BY <1>2, <1>3, <1>8, <1>10, <1>11, Keeps DEF DeploymentsTypeOK

(* The state of the form is recorded in the row.                           *)
LEMMA TypesSaveToDb ==
  ASSUME TypesInv, NEW r \in Requests, SaveToDb(r)
  PROVE  TypesInv'
<1> DEFINE w == [row EXCEPT !.deployment.active = request[r].deployment.active,
                            !.deployment.linked = request[r].deployment.linked]
<1>1. request[r].pc = "record" /\ request[r] # Idle
  BY DEF SaveToDb, At, Idle
<1>2. /\ UNCHANGED <<versions, xform, made, published, unnamed>> /\ Latest' = Latest
      /\ row' = IF row = Nothing \/ row.deployment = Nothing THEN row ELSE w
      /\ End(r) \/ GoTo(r, "save")
  BY DEF SaveToDb, Latest
<1>3. DeploymentsTypeOK /\ AtWork(r)
  BY DEF TypesInv
<1>4. request[r].deployment \in Deployment
  BY <1>1, <1>3, Facts DEF AtWork
<1>5. request[r].deployment.active \in BOOLEAN /\ request[r].deployment.linked \in BOOLEAN
  BY <1>4 DEF Deployment
<1>6. /\ row' \in Row \cup {Nothing}
      /\ row' # Nothing /\ row'.deployment # Nothing => row'.deployment.version \in 1..Latest
  <2>1. CASE row = Nothing \/ row.deployment = Nothing
    BY <1>2, <1>3, <2>1 DEF DeploymentsTypeOK
  <2>2. CASE row # Nothing /\ row.deployment # Nothing
    <3>1. row \in Row /\ row.deployment \in Deployment /\ row.deployment.version \in 1..Latest
      BY <1>3, <2>2, Facts DEF DeploymentsTypeOK
    <3>2. w \in Row /\ w.deployment.version = row.deployment.version
      BY <1>5, <3>1 DEF Row, Deployment
    <3>3. QED
      BY <1>2, <2>2, <3>1, <3>2
  <2>3. QED
    BY <2>1, <2>2
<1> HIDE DEF w
<1>7. /\ request' \in [Requests -> Request \cup {Idle}]
      /\ \A t \in Requests : t # r => request'[t] = request[t]
      /\ AtWork(r)'
  <2>1. CASE End(r)
    BY <1>3, <2>1, Ends DEF AtWork
  <2>2. CASE GoTo(r, "save")
    <3>1. "save" \in Pcs
      BY DEF Pcs
    <3>2. AtWork(r)'
      BY <1>1, <1>2, <1>3, <2>2, <3>1, GoesTo DEF AtWork
    <3>3. QED
      BY <1>1, <1>3, <2>2, <3>1, <3>2, GoesTo
  <2>3. QED
    BY <1>2, <2>1, <2>2
<1>8. QED
  BY <1>2, <1>3, <1>6, <1>7, Keeps DEF DeploymentsTypeOK

(* The form is deleted in KoBoCAT.                                         *)
LEMMA TypesDeleteForm ==
  ASSUME TypesInv, NEW r \in Requests, DeleteForm(r)
  PROVE  TypesInv'
<1>1. request[r].pc = "delete" /\ request[r] # Idle
  BY DEF DeleteForm, At, Idle
<1>2. /\ UNCHANGED <<row, versions, made, published, unnamed>> /\ Latest' = Latest
      /\ xform' = Nothing /\ GoTo(r, "drop")
  BY DEF DeleteForm, Latest
<1>3. DeploymentsTypeOK /\ AtWork(r) /\ "drop" \in Pcs
  BY DEF TypesInv, Pcs
<1>4. AtWork(r)'
  BY <1>1, <1>2, <1>3, GoesTo DEF AtWork
<1>5. /\ request' \in [Requests -> Request \cup {Idle}]
      /\ \A t \in Requests : t # r => request'[t] = request[t]
  BY <1>1, <1>2, <1>3, GoesTo
<1>6. QED
  BY <1>2, <1>3, <1>4, <1>5, Keeps DEF DeploymentsTypeOK

(* The row is deleted.                                                     *)
LEMMA TypesDropAsset ==
  ASSUME Removes, TypesInv, NEW r \in Requests, DropAsset(r)
  PROVE  TypesInv' /\ Latest' = 0 /\ \A t \in Requests : request'[t] = Idle
<1>1. request[r].pc = "drop" /\ request[r] # Idle
  BY DEF DropAsset, At, Idle
<1>2. /\ UNCHANGED <<xform, made, published, unnamed>> /\ row' = Nothing
      /\ versions' = <<>> /\ End(r)
  BY DEF DropAsset
<1>3. DeploymentsTypeOK /\ AtWork(r)
  BY DEF TypesInv
<1>4. \A t \in Requests : t = r
  BY <1>1, <1>3, Facts DEF AtWork, Removes
<1>5. request' \in [Requests -> Request \cup {Idle}] /\ \A t \in Requests : request'[t] = Idle
  BY <1>2, <1>3, <1>4, Ends
<1>6. Latest' = 0
  BY <1>2 DEF Latest
<1>7. MaxVersions \in Nat
  BY Bounds
<1>8. DeploymentsTypeOK'
  BY <1>2, <1>3, <1>5 DEF DeploymentsTypeOK
<1>9. \A t \in Requests : AtWork(t)'
  BY <1>5 DEF AtWork
<1>10. QED
  BY <1>5, <1>6, <1>7, <1>8, <1>9 DEF TypesInv

(* A request may be cut off at any step.                                   *)
LEMMA TypesCut ==
  ASSUME TypesInv, NEW r \in Requests, Cut(r)
  PROVE  TypesInv'
<1>1. /\ request[r] # Idle /\ UNCHANGED <<row, versions, xform, made, published>>
      /\ End(r) /\ unnamed' \in {unnamed, unnamed \cup {request[r].content}}
  BY DEF Cut
<1>2. DeploymentsTypeOK /\ AtWork(r)
  BY DEF TypesInv
<1>3. request[r].content \in Contents /\ unnamed \subseteq Contents
  BY <1>1, <1>2, Facts DEF DeploymentsTypeOK
<1>4. unnamed' \subseteq Contents
  BY <1>1, <1>3
<1>5. AtWork(r)'
  BY <1>1, <1>2, Ends DEF AtWork
<1>6. QED
  BY <1>1, <1>2, <1>4, <1>5, Ends, Keeps DEF DeploymentsTypeOK

(* Every step keeps the types, as long as removals come alone.             *)
LEMMA TypesStep ==
  ASSUME Removes, TypesInv, DeploymentsNext
  PROVE  TypesInv'
<1>1. PICK r \in Requests : Step(r)
  BY DEF DeploymentsNext
<1>2. CASE \E kind \in Kinds : Begin(r, kind)
  BY <1>2, TypesBegin
<1>3. CASE Check(r) \/ Send(r) \/ Store(r) \/ Link(r) \/ Mark(r)
  BY <1>3, TypesCheck, TypesSend, TypesStore, TypesLink, TypesMark
<1>4. CASE Save(r) \/ Sync(r) \/ CreateVersion(r) \/ SetActive(r) \/ SaveToDb(r)
  BY <1>4, TypesSave, TypesSync, TypesCreateVersion, TypesSetActive, TypesSaveToDb
<1>5. CASE DeleteForm(r) \/ DropAsset(r) \/ Cut(r)
  BY <1>5, TypesDeleteForm, TypesDropAsset, TypesCut
<1>6. QED
  BY <1>1, <1>2, <1>3, <1>4, <1>5 DEF Step

(* The types hold initially: a draft, or a form deployed as its first      *)
(* version.                                                                *)
LEMMA TypesStart ==
  ASSUME DeploymentsInit
  PROVE  TypesInv /\ Latest = 1 /\ row # Nothing /\ \A r \in Requests : request[r] = Idle
<1>1. MaxVersions \in Nat /\ MaxVersions >= 1 /\ MaxRequests \in Nat
  BY Bounds
<1>2. 1 \in Contents /\ 1 \in 0..MaxVersions /\ 0 \in 0..MaxRequests /\ 1 \in 1..MaxVersions
  BY <1>1 DEF Contents
<1>3. PICK b, w : b \in BOOLEAN /\ versions = <<w>> /\ w = [content |-> 1, deployed |-> b]
  BY DEF DeploymentsInit
<1>4. w \in Version
  BY <1>2, <1>3 DEF Version
<1>5. versions \in Seq(Version) /\ Latest = 1
  BY <1>3, <1>4 DEF Latest
<1>6. /\ request \in [Requests -> Request \cup {Idle}] /\ \A r \in Requests : request[r] = Idle
      /\ made = 0 /\ unnamed = {}
  BY DEF DeploymentsInit
<1>7. /\ row \in Row /\ xform \in XForm \cup {Nothing} /\ published \subseteq 1..MaxVersions
      /\ row.deployment # Nothing => row.deployment.version = 1
  <2>1. CASE row = [content |-> 1, deployment |-> Nothing] /\ xform = Nothing /\ published = {}
    BY <1>2, <2>1 DEF Row
  <2>2. CASE /\ row = [content |-> 1,
                  deployment |-> [version |-> 1, active |-> TRUE, linked |-> FALSE]]
             /\ xform = [content |-> 1, version |-> 1, active |-> TRUE, linked |-> FALSE]
             /\ published = {1}
    BY <1>2, <2>2 DEF Row, XForm, Deployment
  <2>3. QED
    BY <2>1, <2>2 DEF DeploymentsInit
<1>8. DeploymentsTypeOK
  BY <1>2, <1>5, <1>6, <1>7 DEF DeploymentsTypeOK
<1>9. row # Nothing
  BY <1>7, Bounds
<1>10. QED
  BY <1>2, <1>5, <1>6, <1>8, <1>9 DEF TypesInv, AtWork

-----------------------------------------------------------------------------
(***************************************************************************)
(* Requests that follow one another.                                       *)
(***************************************************************************)

(* Requests follow one another.                                            *)
Solo == \A p, q \in Requests : p = q

(* A request alone sees the row as it found it or left it: the kind that a *)
(* step belongs to, the content and the deployment data that the request   *)
(* and the row have in common, and what KoBoCAT has taken by then.         *)
InOrder(r) ==
  request[r] # Idle =>
    /\ row # Nothing
    /\ request[r].pc \in {"check", "post", "patch", "store", "link", "mark", "activate", "record"} =>
         request[r].kind = "deploy"
    /\ request[r].pc = "version" => request[r].kind = "edit"
    /\ request[r].pc \in {"save", "sync"} => request[r].kind \in {"edit", "deploy"}
    /\ request[r].kind # "edit" \/ request[r].pc \in {"sync", "version"} =>
         request[r].content = row.content
    /\ request[r].kind = "edit" \/ request[r].pc \in {"check", "post", "patch", "activate", "sync"} =>
         request[r].deployment = row.deployment
    /\ request[r].pc = "record" => row.deployment # Nothing
    /\ request[r].pc = "drop" => row.deployment = Nothing \/ xform = Nothing
    /\ request[r].kind = "deploy" /\ request[r].pc \in {"store", "link", "mark", "record", "save", "sync"} =>
         xform # Nothing /\ request[r].deployment # Nothing /\ Agree(request[r].deployment, xform)
    /\ request[r].pc \in {"store", "link", "mark"} => Latest \in published

(* An edit that has saved the row, and has made no version of it yet.      *)
Pending(r) == request[r] # Idle /\ request[r].kind = "edit" /\ request[r].pc \in {"sync", "version"}

(* The newest version is of the content of the row, unless a cut has left  *)
(* that content without a version.                                         *)
Named == row.content \in unnamed \/ row.content = versions[Latest].content

(* The row is of its newest version, or about to be.                       *)
Versioned == row # Nothing => Latest > 0 /\ (Named \/ \E r \in Requests : Pending(r))

(* The form bears a version whose content it has.                          *)
Stamped ==
  xform # Nothing /\ Latest > 0 =>
    /\ xform.version \in 1..Latest
    /\ xform.content \notin unnamed => versions[xform.version].content = xform.content

(* The inductive invariant of requests that follow one another.            *)
SoloInv ==
  /\ TypesInv /\ Versioned /\ Stamped /\ DeployedWasPublished
  /\ \A r \in Requests : InOrder(r)

(* What a step of the request r may use.                                   *)
LEMMA SoloFacts ==
  ASSUME Solo, SoloInv, NEW r \in Requests
  PROVE  /\ TypesInv /\ DeploymentsTypeOK /\ AtWork(r) /\ InOrder(r) /\ Stamped
         /\ DeployedWasPublished
         /\ Latest \in Nat /\ Removes
         /\ row # Nothing => Latest > 0 /\ (Named \/ Pending(r))
  BY Bounds DEF Solo, SoloInv, TypesInv, Removes, Versioned

(* What a step of the request r must show.                                 *)
LEMMA SoloMove ==
  ASSUME Solo, NEW r \in Requests, TypesInv', Stamped', DeployedWasPublished', InOrder(r)',
         row' # Nothing => Latest' > 0 /\ (Named' \/ Pending(r)')
  PROVE  SoloInv'
<1>1. Versioned'
  BY DEF Versioned
<1>2. \A t \in Requests : InOrder(t)'
  BY DEF Solo
<1>3. QED
  BY <1>1, <1>2 DEF SoloInv

(* A step that changes nothing but its request keeps the invariant.        *)
LEMMA SoloStays ==
  ASSUME Solo, SoloInv, NEW r \in Requests, TypesInv', InOrder(r)',
         UNCHANGED <<row, versions, xform, published, unnamed>>, Pending(r) => Pending(r)'
  PROVE  SoloInv'
<1>1. Latest' = Latest
  BY DEF Latest
<1>2. Stamped /\ DeployedWasPublished /\ (row # Nothing => Latest > 0 /\ (Named \/ Pending(r)))
  BY SoloFacts
<1>3. Stamped' /\ DeployedWasPublished'
  BY <1>1, <1>2 DEF Stamped, DeployedWasPublished
<1>4. row' # Nothing => Latest' > 0 /\ (Named' \/ Pending(r)')
  BY <1>1, <1>2 DEF Named
<1>5. QED
  BY <1>3, <1>4, SoloMove

(* A request that begins is in order.                                      *)
LEMMA SoloBegin ==
  ASSUME Solo, SoloInv, NEW r \in Requests, NEW kind \in Kinds, Begin(r, kind)
  PROVE  SoloInv'
<1>1. kind \in {"edit", "deploy", "destroy"}
  BY DeploymentsAssumption
<1>2. /\ TypesInv' /\ row # Nothing /\ UNCHANGED <<row, versions, xform, published, unnamed>>
      /\ request'[r] # Idle /\ request'[r].pc = FirstStep(kind) /\ request'[r].kind = kind
      /\ request'[r].deployment = row.deployment
      /\ kind # "edit" => request'[r].content = row.content
  BY SoloFacts, TypesBegin
<1>3. ~ Pending(r)
  BY DEF Begin, Pending
<1>4. /\ kind = "edit" => FirstStep(kind) = "save"
      /\ kind = "deploy" => FirstStep(kind) = "check"
      /\ kind = "destroy" =>
           FirstStep(kind) = "delete" \/ (FirstStep(kind) = "drop" /\ row.deployment = Nothing)
  BY DEF FirstStep
<1>5. InOrder(r)'
  BY <1>1, <1>2, <1>4 DEF InOrder
<1>6. QED
  BY <1>2, <1>3, <1>5, SoloStays

(* So is one whose hash has been checked.                                  *)
LEMMA SoloCheck ==
  ASSUME Solo, SoloInv, NEW r \in Requests, Check(r)
  PROVE  SoloInv'
<1>1. /\ request[r].pc = "check" /\ request[r] # Idle
      /\ UNCHANGED <<row, versions, xform, published, unnamed>>
  BY DEF Check, At, Idle
<1>2. /\ TypesInv /\ TypesInv' /\ DeploymentsTypeOK /\ InOrder(r)
  BY SoloFacts, TypesCheck
<1>3. PICK pc : pc \in {"activate", "post", "patch"} /\ (GoTo(r, pc) \/ End(r))
  BY DEF Check
<1>4. CASE End(r)
  <2>1. InOrder(r)'
    BY <1>2, <1>4, Ends DEF InOrder
  <2>2. QED
    BY <1>1, <1>2, <2>1, SoloStays DEF Pending
<1>5. CASE GoTo(r, pc)
  <2>1. pc \in Pcs
    BY <1>3 DEF Pcs
  <2>2. InOrder(r)'
    BY <1>1, <1>2, <1>3, <1>5, <2>1, GoesTo DEF InOrder
  <2>3. QED
    BY <1>1, <1>2, <2>2, SoloStays DEF Pending
<1>6. QED
  BY <1>3, <1>4, <1>5

(* The form that is sent is of the newest version, or of a content that    *)
(* has none.                                                               *)
LEMMA SoloSend ==
  ASSUME Solo, SoloInv, NEW r \in Requests, Send(r)
  PROVE  SoloInv'
<1> DEFINE d == [version |-> 0, active |-> request[r].active, linked |-> Linked(r)]
           x == [content |-> request[r].content, version |-> Latest, active |-> request[r].active,
                 linked |-> Linked(r)]
<1>1. request[r].pc \in {"post", "patch"} /\ request[r] # Idle /\ Latest > 0
  BY DEF Send, Idle
<1>2. /\ xform' = x /\ published' = published \cup {Latest}
      /\ Goes(r, "store", d) /\ UNCHANGED <<row, versions, unnamed>>
  BY DEF Send, Stamp
<1>3. /\ TypesInv /\ TypesInv' /\ DeploymentsTypeOK /\ InOrder(r) /\ Stamped /\ DeployedWasPublished
      /\ Latest \in Nat /\ (row # Nothing => Latest > 0 /\ (Named \/ Pending(r)))
  BY SoloFacts, TypesSend
<1>4. Latest' = Latest /\ "store" \in Pcs
  BY <1>2 DEF Latest, Pcs
<1>5. request[r].active \in BOOLEAN
  BY <1>1, <1>3, Facts
<1>6. Linked(r) \in BOOLEAN
  <2>1. xform # Nothing => xform.linked \in BOOLEAN
    BY <1>3 DEF DeploymentsTypeOK, XForm
  <2>2. QED
    BY <2>1 DEF Linked, At
<1>7. d \in Deployment /\ d # Nothing
  <2>1. MaxVersions \in Nat
    BY Bounds
  <2>2. d \in Deployment
    BY <1>5, <1>6, <2>1 DEF Deployment
  <2>3. QED
    BY <2>2, Bounds
<1>8. Agree(d, x) /\ x.content = request[r].content /\ x.version = Latest
  BY DEF Agree
<1>9. xform' # Nothing
  <2>1. xform' \in XForm \cup {Nothing} /\ request[r].content \in Contents /\ MaxVersions \in Nat
        /\ Latest <= MaxVersions
    BY <1>1, <1>3, Facts, Bounds DEF TypesInv, DeploymentsTypeOK
  <2>2. x \in XForm
    BY <1>1, <1>3, <1>5, <1>6, <2>1 DEF XForm
  <2>3. QED
    BY <1>2, <2>2, Bounds
<1> HIDE DEF d, x
<1>10. /\ request'[r] # Idle /\ request'[r].pc = "store" /\ request'[r].kind = request[r].kind
       /\ request'[r].content = request[r].content /\ request'[r].deployment = d
  BY <1>1, <1>2, <1>3, <1>4, <1>7, GoesOn
<1>11. /\ row # Nothing /\ request[r].kind = "deploy" /\ request[r].content = row.content
  BY <1>1, <1>3 DEF InOrder
<1>12. Named
  BY <1>1, <1>3, <1>11 DEF Pending
<1>13. InOrder(r)'
  BY <1>2, <1>4, <1>7, <1>8, <1>9, <1>10, <1>11 DEF InOrder
<1>14. Stamped'
  BY <1>1, <1>2, <1>3, <1>4, <1>8, <1>11, <1>12 DEF Stamped, Named
<1>15. DeployedWasPublished'
  BY <1>2, <1>3, <1>4 DEF DeployedWasPublished
<1>16. Named' /\ Latest' > 0
  BY <1>1, <1>2, <1>4, <1>12 DEF Named
<1>17. QED
  BY <1>3, <1>13, <1>14, <1>15, <1>16, SoloMove

(* What is stored of the answer agrees with the form.                      *)
LEMMA SoloStore ==
  ASSUME Solo, SoloInv, NEW r \in Requests, Store(r)
  PROVE  SoloInv'
<1> DEFINE d == [request[r].deployment EXCEPT !.version = Latest]
<1>1. /\ request[r].pc = "store" /\ request[r] # Idle
      /\ UNCHANGED <<row, versions, xform, published, unnamed>> /\ Latest' = Latest
  BY DEF Store, At, Idle, Latest
<1>2. /\ TypesInv /\ TypesInv' /\ DeploymentsTypeOK /\ AtWork(r) /\ InOrder(r) /\ Latest \in Nat
  BY SoloFacts, TypesStore
<1>3. request[r].deployment \in Deployment /\ Latest <= MaxVersions /\ MaxVersions \in Nat
  BY <1>1, <1>2, Facts, Bounds DEF AtWork, TypesInv
<1>4. /\ d \in Deployment /\ d.active = request[r].deployment.active
      /\ d.linked = request[r].deployment.linked
  BY <1>2, <1>3 DEF Deployment
<1>5. PICK pc : pc = IF d.linked THEN "mark" ELSE "link"
  OBVIOUS
<1>6. Goes(r, pc, d) /\ pc \in Pcs /\ pc \in {"mark", "link"}
  BY <1>5 DEF Store, Pcs
<1> HIDE DEF d
<1>7. d # Nothing
  BY <1>4, Bounds
<1>8. /\ request'[r] # Idle /\ request'[r].pc = pc /\ request'[r].kind = request[r].kind
      /\ request'[r].content = request[r].content /\ request'[r].deployment = d
  BY <1>1, <1>2, <1>4, <1>6, GoesOn
<1>9. InOrder(r)'
  BY <1>1, <1>2, <1>4, <1>6, <1>7, <1>8 DEF InOrder, Agree
<1>10. QED
  BY <1>1, <1>2, <1>9, SoloStays DEF Pending

(* So does the link.                                                       *)
LEMMA SoloLink ==
  ASSUME Solo, SoloInv, NEW r \in Requests, Link(r)
  PROVE  SoloInv'
<1> DEFINE d == [request[r].deployment EXCEPT !.linked = TRUE]
           x == [xform EXCEPT !.linked = TRUE]
<1>1. /\ request[r].pc = "link" /\ request[r] # Idle /\ xform # Nothing
      /\ UNCHANGED <<row, versions, published, unnamed>> /\ Latest' = Latest
      /\ xform' = x /\ Goes(r, "mark", d)
  BY DEF Link, At, Idle, Latest
<1>2. /\ TypesInv /\ TypesInv' /\ DeploymentsTypeOK /\ AtWork(r) /\ InOrder(r) /\ Stamped
      /\ DeployedWasPublished /\ Latest \in Nat
      /\ row # Nothing => Latest > 0 /\ (Named \/ Pending(r))
  BY SoloFacts, TypesLink
<1>3. request[r].deployment \in Deployment /\ xform \in XForm
  BY <1>1, <1>2, Facts DEF AtWork
<1>4. d \in Deployment /\ d.active = request[r].deployment.active /\ d.linked = TRUE
  BY <1>3 DEF Deployment
<1>5. /\ x \in XForm /\ x.active = xform.active /\ x.linked = TRUE
      /\ x.content = xform.content /\ x.version = xform.version
  BY <1>3 DEF XForm
<1> HIDE DEF d, x
<1>6. d # Nothing /\ x # Nothing /\ "mark" \in Pcs
  BY <1>4, <1>5, Bounds DEF Pcs
<1>7. /\ request'[r] # Idle /\ request'[r].pc = "mark" /\ request'[r].kind = request[r].kind
      /\ request'[r].content = request[r].content /\ request'[r].deployment = d
  BY <1>1, <1>2, <1>4, <1>6, GoesOn
<1>8. InOrder(r)'
  BY <1>1, <1>2, <1>4, <1>5, <1>6, <1>7 DEF InOrder, Agree
<1>9. Stamped' /\ DeployedWasPublished'
  BY <1>1, <1>2, <1>5 DEF Stamped, DeployedWasPublished
<1>10. row' # Nothing => Latest' > 0 /\ Named'
  BY <1>1, <1>2 DEF Named, Pending
<1>11. QED
  BY <1>2, <1>8, <1>9, <1>10, SoloMove

(* The version that is marked is the one that was published.               *)
LEMMA SoloMark ==
  ASSUME Solo, SoloInv, NEW r \in Requests, Mark(r)
  PROVE  SoloInv'
<1>1. /\ request[r].pc = "mark" /\ request[r] # Idle /\ Latest > 0
      /\ UNCHANGED <<row, xform, published, unnamed>> /\ GoTo(r, "save") /\ "save" \in Pcs
  BY DEF Mark, At, Idle, Pcs
<1>2. /\ TypesInv /\ TypesInv' /\ DeploymentsTypeOK /\ InOrder(r) /\ Stamped
      /\ DeployedWasPublished /\ Latest \in Nat
      /\ row # Nothing => Latest > 0 /\ (Named \/ Pending(r))
  BY SoloFacts, TypesMark
<1>3. /\ Latest' = Latest
      /\ \A v \in 1..Latest : /\ versions'[v].content = versions[v].content
                              /\ v # Latest => versions'[v] = versions[v]
  BY <1>2, TypesMark
<1>4. /\ request'[r] # Idle /\ request'[r].pc = "save" /\ request'[r].kind = request[r].kind
      /\ request'[r].content = request[r].content /\ request'[r].deployment = request[r].deployment
  BY <1>1, <1>2, GoesTo
<1>5. Latest \in published
  BY <1>1, <1>2 DEF InOrder
<1>6. InOrder(r)'
  BY <1>1, <1>2, <1>3, <1>4 DEF InOrder
<1>7. Stamped'
  BY <1>1, <1>2, <1>3 DEF Stamped
<1>8. DeployedWasPublished'
  BY <1>1, <1>2, <1>3, <1>5 DEF DeployedWasPublished
<1>9. Latest \in 1..Latest /\ (row' # Nothing => Latest' > 0)
  BY <1>1, <1>2, <1>3
<1>10. row' # Nothing => Named'
  BY <1>1, <1>2, <1>3, <1>9 DEF Named, Pending
<1>11. QED
  BY <1>2, <1>6, <1>7, <1>8, <1>9, <1>10, SoloMove

(* What is saved is what KoBoCAT has: the row of a deployment agrees with  *)
(* the form.                                                               *)
LEMMA SoloSave ==
  ASSUME Solo, SoloInv, NEW r \in Requests, Save(r)
  PROVE  /\ SoloInv' /\ request[r].kind \in {"edit", "deploy"} /\ row # Nothing
         /\ request[r].kind = "deploy" => request[r].content = row.content
         /\ request[r].kind = "edit" => request[r].deployment = row.deployment
         /\ request[r].kind = "deploy" =>
              /\ xform # Nothing /\ request[r].deployment # Nothing
              /\ Agree(request[r].deployment, xform)
         /\ row' = [content |-> request[r].content, deployment |-> request[r].deployment] /\ row' # Nothing
<1>1. /\ request[r].pc = "save" /\ request[r] # Idle
      /\ UNCHANGED <<versions, xform, published, unnamed>> /\ Latest' = Latest
      /\ row' = [content |-> request[r].content, deployment |-> request[r].deployment]
  BY DEF Save, At, Idle, Latest
<1>2. /\ TypesInv /\ TypesInv' /\ DeploymentsTypeOK /\ InOrder(r) /\ Stamped
      /\ DeployedWasPublished /\ Latest \in Nat
      /\ row # Nothing => Latest > 0 /\ (Named \/ Pending(r))
  BY SoloFacts, TypesSave
<1>3. /\ request[r].content \in Contents
      /\ request[r].deployment # Nothing => request[r].deployment \in Deployment
  BY <1>1, <1>2, Facts
<1>4. row' # Nothing
  <2>1. row' \in Row
    BY <1>1, <1>3 DEF Row
  <2>2. QED
    BY <2>1, Bounds
<1>5. row'.content = request[r].content /\ row'.deployment = request[r].deployment
  BY <1>1
<1>6. PICK pc : pc = IF request[r].deployment # Nothing THEN "sync" ELSE "version"
  OBVIOUS
<1>7. GoTo(r, pc) /\ pc \in Pcs /\ pc \in {"sync", "version"}
      /\ (pc = "version" => request[r].deployment = Nothing)
  BY <1>6 DEF Save, Pcs
<1>8. /\ request'[r] # Idle /\ request'[r].pc = pc /\ request'[r].kind = request[r].kind
      /\ request'[r].content = request[r].content /\ request'[r].deployment = request[r].deployment
  BY <1>1, <1>2, <1>7, GoesTo
<1>9. /\ request[r].kind \in {"edit", "deploy"} /\ row # Nothing
      /\ request[r].kind = "deploy" => request[r].content = row.content
      /\ request[r].kind = "edit" => request[r].deployment = row.deployment
      /\ request[r].kind = "deploy" =>
              /\ xform # Nothing /\ request[r].deployment # Nothing
              /\ Agree(request[r].deployment, xform)
  BY <1>1, <1>2 DEF InOrder
<1>10. InOrder(r)'
  BY <1>1, <1>4, <1>5, <1>7, <1>8, <1>9 DEF InOrder, Agree
<1>11. Stamped' /\ DeployedWasPublished'
  BY <1>1, <1>2 DEF Stamped, DeployedWasPublished
<1>12. Latest' > 0
  BY <1>1, <1>2, <1>9
<1>13. Named' \/ Pending(r)'
  <2>1. CASE request[r].kind = "edit"
    BY <1>7, <1>8, <2>1 DEF Pending
  <2>2. CASE request[r].kind = "deploy"
    BY <1>1, <1>2, <1>5, <1>9, <2>2 DEF Pending, Named
  <2>3. QED
    BY <1>9, <2>1, <2>2
<1>14. SoloInv'
  BY <1>2, <1>10, <1>11, <1>12, <1>13, SoloMove
<1>15. QED
  BY <1>1, <1>4, <1>9, <1>14

(* A deployment that ends agrees with KoBoCAT.                             *)
LEMMA SoloSync ==
  ASSUME Solo, SoloInv, NEW r \in Requests, Sync(r)
  PROVE  /\ SoloInv'
         /\ request[r].kind = "deploy" => Agree(row'.deployment, xform')
<1>1. /\ request[r].pc = "sync" /\ request[r] # Idle /\ xform # Nothing
      /\ UNCHANGED <<row, versions, xform, published, unnamed>> /\ Latest' = Latest
      /\ "version" \in Pcs
  BY DEF Sync, At, Idle, Latest, Pcs
<1>2. TypesInv /\ TypesInv' /\ DeploymentsTypeOK /\ InOrder(r)
  BY SoloFacts, TypesSync
<1>3. request[r].kind = "deploy" => Agree(row'.deployment, xform')
  BY <1>1, <1>2 DEF InOrder, Agree
<1>4. request[r].kind \in {"edit", "deploy"}
  BY <1>1, <1>2 DEF InOrder
<1>5. CASE request[r].kind = "edit"
  <2>1. GoTo(r, "version")
    BY <1>5 DEF Sync
  <2>2. /\ request'[r] # Idle /\ request'[r].pc = "version" /\ request'[r].kind = request[r].kind
        /\ request'[r].content = request[r].content
        /\ request'[r].deployment = request[r].deployment
    BY <1>1, <1>2, <2>1, GoesTo
  <2>3. InOrder(r)' /\ Pending(r)'
    BY <1>1, <1>2, <1>5, <2>2 DEF InOrder, Pending
  <2>4. QED
    BY <1>1, <1>2, <1>3, <2>3, SoloStays
<1>6. CASE request[r].kind = "deploy"
  <2>1. End(r)
    BY <1>6 DEF Sync
  <2>2. InOrder(r)' /\ ~ Pending(r)
    BY <1>2, <1>6, <2>1, Ends DEF InOrder, Pending
  <2>3. QED
    BY <1>1, <1>2, <1>3, <2>2, SoloStays
<1>7. QED
  BY <1>4, <1>5, <1>6

(* The version of an edit is of the content just saved.                    *)
LEMMA SoloCreateVersion ==
  ASSUME Solo, SoloInv, NEW r \in Requests, CreateVersion(r)
  PROVE  SoloInv'
<1>1. /\ request[r].pc = "version" /\ request[r] # Idle
      /\ UNCHANGED <<row, xform, published, unnamed>> /\ End(r)
  BY DEF CreateVersion, At, Idle
<1>2. /\ TypesInv /\ TypesInv' /\ DeploymentsTypeOK /\ InOrder(r) /\ Stamped
      /\ DeployedWasPublished /\ Latest \in Nat
      /\ row # Nothing => Latest > 0 /\ (Named \/ Pending(r))
  BY SoloFacts, TypesCreateVersion
<1>3. /\ Latest' = Latest + 1 /\ \A v \in 1..Latest : versions'[v] = versions[v]
  BY <1>2, TypesCreateVersion
<1>4. versions'[Latest'] = [content |-> request[r].content, deployed |-> FALSE]
  BY <1>2, TypesCreateVersion
<1>5. versions'[Latest'].content = request[r].content /\ ~ versions'[Latest'].deployed
  BY <1>4
<1>6. request[r].content = row.content /\ row # Nothing
  BY <1>1, <1>2 DEF InOrder
<1>7. InOrder(r)'
  BY <1>1, <1>2, Ends DEF InOrder
<1>8. Stamped'
  BY <1>1, <1>2, <1>3, <1>6 DEF Stamped
<1>9. DeployedWasPublished'
  BY <1>1, <1>2, <1>3, <1>5 DEF DeployedWasPublished
<1>10. Named'
  BY <1>1, <1>5, <1>6 DEF Named
<1>11. Latest' > 0
  BY <1>2, <1>3
<1>12. QED
  BY <1>2, <1>7, <1>8, <1>9, <1>10, <1>11, SoloMove

(* A form that is opened or closed keeps its content and its version.      *)
LEMMA SoloSetActive ==
  ASSUME Solo, SoloInv, NEW r \in Requests, SetActive(r)
  PROVE  SoloInv'
<1> DEFINE d == [request[r].deployment EXCEPT !.active = request[r].active, !.linked = xform.linked]
           x == [xform EXCEPT !.active = request[r].active]
<1>1. /\ request[r].pc = "activate" /\ request[r] # Idle /\ xform # Nothing
      /\ UNCHANGED <<row, versions, published, unnamed>> /\ Latest' = Latest
      /\ xform' = x /\ Goes(r, "record", d)
  BY DEF SetActive, At, Idle, Latest
<1>2. /\ TypesInv /\ TypesInv' /\ DeploymentsTypeOK /\ AtWork(r) /\ InOrder(r) /\ Stamped
      /\ DeployedWasPublished /\ Latest \in Nat
      /\ row # Nothing => Latest > 0 /\ (Named \/ Pending(r))
  BY SoloFacts, TypesSetActive
<1>3. request[r].deployment \in Deployment /\ xform \in XForm /\ request[r].active \in BOOLEAN
  BY <1>1, <1>2, Facts DEF AtWork
<1>4. xform.linked \in BOOLEAN
  BY <1>3 DEF XForm
<1>5. d \in Deployment /\ d.active = request[r].active /\ d.linked = xform.linked
  BY <1>3, <1>4 DEF Deployment
<1>6. /\ x \in XForm /\ x.active = request[r].active /\ x.linked = xform.linked
      /\ x.content = xform.content /\ x.version = xform.version
  BY <1>3 DEF XForm
<1> HIDE DEF d, x
<1>7. d # Nothing /\ x # Nothing /\ "record" \in Pcs
  BY <1>5, <1>6, Bounds DEF Pcs
<1>8. /\ request'[r] # Idle /\ request'[r].pc = "record" /\ request'[r].kind = request[r].kind
      /\ request'[r].content = request[r].content /\ request'[r].deployment = d
  BY <1>1, <1>2, <1>5, <1>7, GoesOn
<1>9. row.deployment # Nothing
  BY <1>1, <1>2 DEF InOrder, AtWork
<1>10. InOrder(r)'
  BY <1>1, <1>2, <1>5, <1>6, <1>7, <1>8, <1>9 DEF InOrder, Agree
<1>11. Stamped' /\ DeployedWasPublished'
  BY <1>1, <1>2, <1>6 DEF Stamped, DeployedWasPublished
<1>12. row' # Nothing => Latest' > 0 /\ Named'
  BY <1>1, <1>2 DEF Named, Pending
<1>13. QED
  BY <1>2, <1>10, <1>11, <1>12, SoloMove

(* The form goes first.                                                    *)
LEMMA SoloDeleteForm ==
  ASSUME Solo, SoloInv, NEW r \in Requests, DeleteForm(r)
  PROVE  SoloInv'
<1>1. /\ request[r].pc = "delete" /\ request[r] # Idle
      /\ UNCHANGED <<row, versions, published, unnamed>> /\ Latest' = Latest
      /\ xform' = Nothing /\ GoTo(r, "drop") /\ "drop" \in Pcs
  BY DEF DeleteForm, At, Idle, Latest, Pcs
<1>2. /\ TypesInv /\ TypesInv' /\ DeploymentsTypeOK /\ AtWork(r) /\ InOrder(r)
      /\ DeployedWasPublished /\ Latest \in Nat
      /\ row # Nothing => Latest > 0 /\ (Named \/ Pending(r))
  BY SoloFacts, TypesDeleteForm
<1>3. request[r].kind = "destroy"
  BY <1>1, <1>2 DEF AtWork
<1>4. /\ request'[r] # Idle /\ request'[r].pc = "drop" /\ request'[r].kind = request[r].kind
      /\ request'[r].content = request[r].content /\ request'[r].deployment = request[r].deployment
  BY <1>1, <1>2, GoesTo
<1>5. InOrder(r)'
  BY <1>1, <1>2, <1>3, <1>4 DEF InOrder
<1>6. Stamped' /\ DeployedWasPublished'
  BY <1>1, <1>2 DEF Stamped, DeployedWasPublished
<1>7. row' # Nothing => Latest' > 0 /\ Named'
  BY <1>1, <1>2 DEF Named, Pending
<1>8. QED
  BY <1>2, <1>5, <1>6, <1>7, SoloMove

(* The row goes when there is no form, or none that KPI knows of.          *)
LEMMA SoloDropAsset ==
  ASSUME Solo, SoloInv, NEW r \in Requests, DropAsset(r)
  PROVE  SoloInv'
<1>1. /\ request[r].pc = "drop" /\ request[r] # Idle /\ row' = Nothing
  BY DEF DropAsset, At, Idle
<1>2. /\ TypesInv /\ DeploymentsTypeOK /\ Removes
  BY SoloFacts
<1>3. TypesInv' /\ Latest' = 0 /\ \A t \in Requests : request'[t] = Idle
  BY <1>2, TypesDropAsset
<1>4. InOrder(r)'
  BY <1>3 DEF InOrder, Idle
<1>5. Stamped' /\ DeployedWasPublished'
  BY <1>3 DEF Stamped, DeployedWasPublished
<1>6. QED
  BY <1>1, <1>3, <1>4, <1>5, SoloMove

(* A request that is cut after its edit was saved leaves a content without *)
(* a version; elsewhere a cut loses nothing.                               *)
LEMMA SoloCut ==
  ASSUME Solo, SoloInv, NEW r \in Requests, Cut(r)
  PROVE  SoloInv'
<1>1. /\ request[r] # Idle /\ UNCHANGED <<row, versions, xform, published>> /\ End(r)
      /\ unnamed' = IF Latest > 0 /\ Unversioned(r) THEN unnamed \cup {request[r].content} ELSE unnamed
      /\ Latest' = Latest
  BY DEF Cut, Latest
<1>2. /\ TypesInv /\ TypesInv' /\ DeploymentsTypeOK /\ InOrder(r) /\ Stamped
      /\ DeployedWasPublished /\ Latest \in Nat
      /\ row # Nothing => Latest > 0 /\ (Named \/ Pending(r))
  BY SoloFacts, TypesCut
<1>3. InOrder(r)'
  BY <1>1, <1>2, Ends DEF InOrder
<1>4. unnamed \subseteq unnamed'
  BY <1>1
<1>5. Stamped' /\ DeployedWasPublished'
  BY <1>1, <1>2, <1>4 DEF Stamped, DeployedWasPublished
<1>6. row # Nothing => Named'
  <2>1. CASE Named
    BY <1>1, <1>4, <2>1 DEF Named
  <2>2. CASE Pending(r) /\ row # Nothing /\ ~ Named
    <3>1. request[r].content = row.content /\ Unversioned(r) /\ Latest > 0
      BY <1>2, <2>2 DEF InOrder, Pending, Named, Unversioned
    <3>2. QED
      BY <1>1, <3>1 DEF Named
  <2>3. QED
    BY <1>2, <2>1, <2>2
<1>7. QED
  BY <1>1, <1>2, <1>3, <1>5, <1>6, SoloMove

(* A change of state that ends agrees with KoBoCAT.                        *)
LEMMA SoloSaveToDb ==
  ASSUME Solo, SoloInv, NEW r \in Requests, SaveToDb(r)
  PROVE  /\ SoloInv' /\ xform # Nothing /\ xform' = xform /\ row # Nothing
         /\ row.deployment # Nothing
         /\ row' # Nothing /\ row'.deployment # Nothing /\ row'.content = row.content
         /\ Agree(row'.deployment, xform')
<1> DEFINE w == [row EXCEPT !.deployment.active = request[r].deployment.active,
                            !.deployment.linked = request[r].deployment.linked]
<1>1. /\ request[r].pc = "record" /\ request[r] # Idle
      /\ UNCHANGED <<versions, xform, published, unnamed>> /\ Latest' = Latest
      /\ row' = IF row = Nothing \/ row.deployment = Nothing THEN row ELSE w
      /\ End(r) \/ GoTo(r, "save")
  BY DEF SaveToDb, At, Idle, Latest
<1>2. /\ TypesInv /\ TypesInv' /\ DeploymentsTypeOK /\ AtWork(r) /\ InOrder(r) /\ Stamped
      /\ DeployedWasPublished /\ Latest \in Nat
      /\ row # Nothing => Latest > 0 /\ (Named \/ Pending(r))
  BY SoloFacts, TypesSaveToDb
<1>3. /\ row # Nothing /\ row.deployment # Nothing /\ request[r].kind = "deploy"
      /\ xform # Nothing /\ request[r].deployment # Nothing /\ Agree(request[r].deployment, xform)
      /\ request[r].content = row.content
  BY <1>1, <1>2 DEF InOrder
<1>4. request[r].deployment \in Deployment /\ row \in Row /\ row.deployment \in Deployment
  BY <1>1, <1>2, <1>3, Facts
<1>5. request[r].deployment.active \in BOOLEAN /\ request[r].deployment.linked \in BOOLEAN
  BY <1>4 DEF Deployment
<1>6. /\ w.content = row.content /\ w \in Row /\ w.deployment \in Deployment
      /\ w.deployment.active = request[r].deployment.active
      /\ w.deployment.linked = request[r].deployment.linked
  BY <1>4, <1>5 DEF Row, Deployment
<1>7. row' = w
  BY <1>1, <1>3
<1> HIDE DEF w
<1>8. row' # Nothing /\ row'.deployment # Nothing /\ row'.content = row.content
  BY <1>6, <1>7, Bounds
<1>9. Agree(row'.deployment, xform')
  BY <1>1, <1>3, <1>6, <1>7 DEF Agree
<1>10. InOrder(r)'
  <2>1. CASE End(r)
    BY <1>2, <2>1, Ends DEF InOrder
  <2>2. CASE GoTo(r, "save")
    <3>1. "save" \in Pcs
      BY DEF Pcs
    <3>2. /\ request'[r] # Idle /\ request'[r].pc = "save" /\ request'[r].kind = request[r].kind
          /\ request'[r].content = request[r].content
          /\ request'[r].deployment = request[r].deployment
      BY <1>1, <1>2, <2>2, <3>1, GoesTo
    <3>3. QED
      BY <1>1, <1>3, <1>8, <3>2 DEF InOrder, Agree
  <2>3. QED
    BY <1>1, <2>1, <2>2
<1>11. Stamped' /\ DeployedWasPublished'
  BY <1>1, <1>2 DEF Stamped, DeployedWasPublished
<1>12. row' # Nothing => Latest' > 0 /\ Named'
  BY <1>1, <1>2, <1>3, <1>8 DEF Named, Pending
<1>13. SoloInv'
  BY <1>2, <1>10, <1>11, <1>12, SoloMove
<1>14. QED
  BY <1>1, <1>3, <1>8, <1>9, <1>13

(* Every step keeps the invariant.                                         *)
LEMMA SoloStep ==
  ASSUME Solo, SoloInv, DeploymentsNext
  PROVE  SoloInv'
<1>1. PICK r \in Requests : Step(r)
  BY DEF DeploymentsNext
<1>2. CASE \E kind \in Kinds : Begin(r, kind)
  BY <1>2, SoloBegin
<1>3. CASE Check(r) \/ Send(r) \/ Store(r) \/ Link(r) \/ Mark(r)
  BY <1>3, SoloCheck, SoloSend, SoloStore, SoloLink, SoloMark
<1>4. CASE Save(r) \/ Sync(r) \/ CreateVersion(r) \/ SetActive(r) \/ SaveToDb(r)
  BY <1>4, SoloSave, SoloSync, SoloCreateVersion, SoloSetActive, SoloSaveToDb
<1>5. CASE DeleteForm(r) \/ DropAsset(r) \/ Cut(r)
  BY <1>5, SoloDeleteForm, SoloDropAsset, SoloCut
<1>6. QED
  BY <1>1, <1>2, <1>3, <1>4, <1>5 DEF Step

(* The invariant holds initially, and the abstract specification begins as *)
(* well.                                                                   *)
LEMMA SoloStarts ==
  ASSUME DeploymentsInit
  PROVE  SoloInv /\ P!PublicationInit
<1>1. TypesInv /\ Latest = 1 /\ row # Nothing /\ \A r \in Requests : request[r] = Idle
  BY TypesStart
<1>2. /\ row # Nothing /\ row.content = 1 /\ versions[1].content = 1
      /\ versions[1].deployed => published = {1}
      /\ xform # Nothing => xform.version = 1 /\ xform.content = 1
  BY <1>1 DEF DeploymentsInit
<1>3. \A r \in Requests : InOrder(r)
  BY <1>1 DEF InOrder
<1>4. Versioned
  BY <1>1, <1>2 DEF Versioned, Named
<1>5. Stamped /\ DeployedWasPublished
  BY <1>1, <1>2 DEF Stamped, DeployedWasPublished
<1>6. P!PublicationInit
  <2>1. 1 \in Contents
    BY Bounds DEF Contents
  <2>2. CASE row = [content |-> 1, deployment |-> Nothing] /\ xform = Nothing
    BY <1>2, <2>1, <2>2 DEF P!PublicationInit
  <2>3. CASE /\ row = [content |-> 1,
                  deployment |-> [version |-> 1, active |-> TRUE, linked |-> FALSE]]
             /\ xform = [content |-> 1, version |-> 1, active |-> TRUE, linked |-> FALSE]
    <3>1. xform # Nothing /\ row.deployment # Nothing
      <4>1. MaxVersions \in Nat /\ MaxVersions >= 1
        BY Bounds
      <4>2. xform \in XForm /\ row.deployment \in Deployment
        BY <2>1, <2>3, <4>1 DEF XForm, Deployment
      <4>3. QED
        BY <4>2, Bounds
    <3>2. QED
      BY <1>2, <2>1, <2>3, <3>1 DEF P!PublicationInit, P!Form
  <2>4. QED
    BY <2>2, <2>3 DEF DeploymentsInit
<1>7. QED
  BY <1>1, <1>3, <1>4, <1>5, <1>6 DEF SoloInv

-----------------------------------------------------------------------------
(***************************************************************************)
(* The refinement.                                                         *)
(***************************************************************************)

(* What the abstract specification sees of a state: the draft,             *)
Draft == IF row = Nothing THEN Nothing ELSE row.content

(* the form that is out,                                                   *)
FormOf == IF xform = Nothing THEN Nothing ELSE [content |-> xform.content, active |-> xform.active]

(* and whether KPI takes it for open.                                      *)
Known == IF row = Nothing \/ row.deployment = Nothing THEN Nothing ELSE row.deployment.active

(* Every step of a request is a step of the abstract specification, or one *)
(* that it does not see.                                                   *)
LEMMA Refines ==
  ASSUME Solo, SoloInv, DeploymentsNext
  PROVE  P!PublicationNext \/ UNCHANGED <<Draft, FormOf, Known>>
<1>1. PICK r \in Requests : Step(r)
  BY DEF DeploymentsNext
<1>2. TypesInv /\ DeploymentsTypeOK /\ InOrder(r) /\ AtWork(r)
  BY SoloFacts
<1>3. CASE UNCHANGED <<row, xform>>
  BY <1>3 DEF Draft, FormOf, Known
<1>4. CASE Send(r)
  <2>1. /\ request[r] # Idle /\ request[r].pc \in {"post", "patch"} /\ UNCHANGED row
        /\ xform' = [content |-> request[r].content, version |-> Stamp(r),
                     active |-> request[r].active, linked |-> Linked(r)]
    BY <1>4 DEF Send, Idle
  <2>2. row # Nothing /\ request[r].content = row.content /\ request[r].active \in BOOLEAN
    BY <1>2, <2>1, Facts DEF InOrder
  <2>3. row.content # Nothing
    BY <1>2, <2>2, Facts, Bounds
  <2>4. xform' # Nothing
    <3>1. TypesInv' 
      BY <1>2, <1>4, TypesSend
    <3>2. Linked(r) \in BOOLEAN
      <4>1. xform # Nothing => xform.linked \in BOOLEAN
        BY <1>2 DEF DeploymentsTypeOK, XForm
      <4>2. QED
        BY <4>1 DEF Linked, At
    <3>3. request[r].content \in Contents /\ Stamp(r) \in 0..MaxVersions
      BY <1>2, <2>1, Facts DEF Stamp, TypesInv
    <3>4. xform' \in XForm
      BY <2>1, <2>2, <3>2, <3>3 DEF XForm
    <3>5. QED
      BY <3>4, Bounds
  <2>5. Draft' = Draft /\ Known' = Known /\ Draft = row.content
    BY <2>1, <2>2 DEF Draft, Known
  <2>6. FormOf' = [content |-> Draft, active |-> request[r].active]
    BY <2>1, <2>2, <2>4, <2>5 DEF FormOf
  <2>7. P!Publish
    BY <2>2, <2>3, <2>5, <2>6 DEF P!Publish, Draft, FormOf, Known
  <2>8. QED
    BY <2>7 DEF P!PublicationNext
<1>5. CASE Link(r)
  <2>1. UNCHANGED row /\ xform # Nothing /\ xform' = [xform EXCEPT !.linked = TRUE]
    BY <1>5 DEF Link
  <2>2. xform \in XForm
    BY <1>2, <2>1, Facts
  <2>3. xform' \in XForm /\ xform'.content = xform.content /\ xform'.active = xform.active
    BY <2>1, <2>2 DEF XForm
  <2>4. xform' # Nothing
    BY <2>3, Bounds
  <2>5. QED
    BY <2>1, <2>3, <2>4 DEF Draft, FormOf, Known
<1>6. CASE Save(r)
  <2>1. /\ request[r].kind \in {"edit", "deploy"} /\ row # Nothing /\ xform' = xform
        /\ request[r].kind = "deploy" => request[r].content = row.content
        /\ request[r].kind = "edit" => request[r].deployment = row.deployment
        /\ request[r].kind = "deploy" =>
              /\ xform # Nothing /\ request[r].deployment # Nothing
              /\ Agree(request[r].deployment, xform)
        /\ row' # Nothing /\ request[r] # Idle
        /\ row'.content = request[r].content /\ row'.deployment = request[r].deployment
    BY <1>6, SoloSave DEF Save, At, Idle
  <2>2. request[r].content \in Contents /\ row.content \in Contents
    BY <1>2, <2>1, Facts
  <2>3. row.content # Nothing /\ FormOf' = FormOf
    BY <2>1, <2>2, Bounds DEF FormOf
  <2>4. CASE request[r].kind = "edit"
    <3>1. Known' = Known /\ Draft' = request[r].content /\ Draft = row.content
      BY <2>1, <2>4 DEF Known, Draft
    <3>2. P!Edit
      BY <2>2, <2>3, <3>1 DEF P!Edit, Draft, FormOf, Known
    <3>3. QED
      BY <3>2 DEF P!PublicationNext
  <2>5. CASE request[r].kind = "deploy"
    <3>1. Draft' = Draft
      BY <2>1, <2>5 DEF Draft
    <3>2. Known' = xform.active
      BY <2>1, <2>5 DEF Known, Agree
    <3>3. FormOf # Nothing /\ FormOf.active = xform.active
      <4>1. xform \in XForm
        BY <1>2, <2>1, <2>5, Facts
      <4>2. [content |-> xform.content, active |-> xform.active] \in [content : Contents, active : BOOLEAN]
        BY <4>1 DEF XForm
      <4>3. QED
        BY <2>1, <2>5, <4>2, Bounds DEF FormOf
    <3>4. P!Notice
      BY <2>3, <3>1, <3>2, <3>3 DEF P!Notice, Draft, FormOf, Known
    <3>5. QED
      BY <3>4 DEF P!PublicationNext
  <2>6. QED
    BY <2>1, <2>4, <2>5
<1>7. CASE SetActive(r)
  <2>1. /\ UNCHANGED row /\ xform # Nothing /\ xform' = [xform EXCEPT !.active = request[r].active]
        /\ request[r] # Idle
    BY <1>7 DEF SetActive, At, Idle
  <2>2. xform \in XForm /\ request[r].active \in BOOLEAN
    BY <1>2, <2>1, Facts
  <2>3. xform' \in XForm /\ xform'.content = xform.content /\ xform'.active = request[r].active
    BY <2>1, <2>2 DEF XForm
  <2>4. xform' # Nothing
    BY <2>3, Bounds
  <2>5. Draft' = Draft /\ Known' = Known
    BY <2>1 DEF Draft, Known
  <2>6. FormOf = [content |-> xform.content, active |-> xform.active]
        /\ FormOf' = [content |-> xform.content, active |-> request[r].active]
    BY <2>1, <2>3, <2>4 DEF FormOf
  <2>7. FormOf # Nothing
    <3>1. FormOf \in [content : Contents, active : BOOLEAN]
      BY <2>2, <2>6 DEF XForm
    <3>2. QED
      BY <3>1, Bounds
  <2>8. FormOf' = [FormOf EXCEPT !.active = request[r].active]
    BY <2>6
  <2>9. P!Activate
    BY <2>2, <2>5, <2>7, <2>8 DEF P!Activate, Draft, FormOf, Known
  <2>10. QED
    BY <2>9 DEF P!PublicationNext
<1>8. CASE SaveToDb(r)
  <2>1. /\ xform # Nothing /\ xform' = xform /\ row # Nothing /\ row.deployment # Nothing
        /\ row' # Nothing /\ row'.deployment # Nothing /\ row'.content = row.content
        /\ Agree(row'.deployment, xform')
    BY <1>8, SoloSaveToDb
  <2>2. Draft' = Draft /\ FormOf' = FormOf /\ Known' = xform.active
    BY <2>1 DEF Draft, FormOf, Known, Agree
  <2>3. FormOf # Nothing /\ FormOf.active = xform.active
    <3>1. xform \in XForm
      BY <1>2, <2>1, Facts
    <3>2. [content |-> xform.content, active |-> xform.active] \in [content : Contents, active : BOOLEAN]
      BY <3>1 DEF XForm
    <3>3. QED
      BY <2>1, <3>2, Bounds DEF FormOf
  <2>4. P!Notice
    BY <2>2, <2>3 DEF P!Notice, Draft, FormOf, Known
  <2>5. QED
    BY <2>4 DEF P!PublicationNext
<1>9. CASE DeleteForm(r)
  <2>1. UNCHANGED row /\ xform' = Nothing
    BY <1>9 DEF DeleteForm
  <2>2. Draft' = Draft /\ Known' = Known /\ FormOf' = Nothing
    BY <2>1 DEF Draft, FormOf, Known
  <2>3. P!Withdraw
    BY <2>2 DEF P!Withdraw, Draft, FormOf, Known
  <2>4. QED
    BY <2>3 DEF P!PublicationNext
<1>10. CASE DropAsset(r)
  <2>1. UNCHANGED xform /\ row' = Nothing /\ request[r].pc = "drop" /\ request[r] # Idle
    BY <1>10 DEF DropAsset, At, Idle
  <2>2. row.deployment = Nothing \/ xform = Nothing
    BY <1>2, <2>1 DEF InOrder
  <2>3. Draft' = Nothing /\ Known' = Nothing /\ FormOf' = FormOf /\ (Known = Nothing \/ FormOf = Nothing)
    BY <2>1, <2>2 DEF Draft, FormOf, Known
  <2>4. P!Remove
    BY <2>3 DEF P!Remove, Draft, FormOf, Known
  <2>5. QED
    BY <2>4 DEF P!PublicationNext
<1>11. CASE (\E kind \in Kinds : Begin(r, kind)) \/ Check(r) \/ Store(r) \/ Mark(r) \/ Sync(r)
            \/ CreateVersion(r) \/ Cut(r)
  <2>1. UNCHANGED <<row, xform>>
    BY <1>11 DEF Begin, Check, Store, Mark, Sync, CreateVersion, Cut
  <2>2. QED
    BY <1>3, <2>1
<1>12. QED
  BY <1>1, <1>4, <1>5, <1>6, <1>7, <1>8, <1>9, <1>10, <1>11 DEF Step

-----------------------------------------------------------------------------
(***************************************************************************)
(* The types, of requests that overlap.                                    *)
(***************************************************************************)

(* What a request carries, as above, when requests overlap.                *)
TwoAtWork(r) ==
  request2[r] # T!Idle =>
    /\ request2[r].pc \in {"delete", "drop"} => request2[r].kind = "destroy"
    /\ request2[r].pc \in {"store", "link", "mark", "activate", "record"} =>
         request2[r].deployment # Nothing
    /\ request2[r].deployment # Nothing /\ request2[r].pc # "store" =>
         request2[r].deployment.version \in 1..T!Latest

(* The types of requests that overlap.                                     *)
TwoTypesInv == T!DeploymentsTypeOK /\ (\A r \in Others : TwoAtWork(r)) /\ T!Latest \in 0..OthersVersions

(* The bounds of requests that overlap, fact by fact.                      *)
LEMMA TwoBounds ==
  /\ OthersVersions \in Nat /\ OthersVersions >= 1 /\ OthersRequests \in Nat
  /\ \A x \in T!Contents : x # Nothing
  /\ \A d \in T!Deployment : d # Nothing
  /\ \A f \in T!XForm : f # Nothing
  /\ \A w \in T!Row : w # Nothing
<1>1. OthersVersions \in Nat \ {0} /\ OthersRequests \in Nat
  BY OthersAssumption
<1>2. /\ Nothing \notin T!Contents /\ Nothing \notin T!Deployment
      /\ Nothing \notin T!XForm /\ Nothing \notin T!Row
  BY OthersAssumption
<1>3. OthersVersions \in Nat /\ OthersVersions >= 1
  BY <1>1
<1>4. QED
  BY <1>1, <1>2, <1>3

(* What a reader of their types needs.                                     *)
LEMMA TwoFacts ==
  ASSUME T!DeploymentsTypeOK
  PROVE  /\ row2 # Nothing => row2 \in T!Row /\ row2.content \in T!Contents
                             /\ (row2.deployment # Nothing => row2.deployment \in T!Deployment)
         /\ xform2 # Nothing => xform2 \in T!XForm /\ xform2.content \in T!Contents
         /\ T!Latest \in Nat /\ DOMAIN versions2 = 1..T!Latest
         /\ \A v \in 1..T!Latest : versions2[v] \in T!Version
         /\ \A r \in Others : request2[r] # T!Idle =>
              /\ request2[r] \in T!Request /\ request2[r].kind \in {"edit", "deploy"}
              /\ request2[r].content \in T!Contents
              /\ request2[r].deployment # Nothing => request2[r].deployment \in T!Deployment
              /\ request2[r].active \in BOOLEAN
         /\ \A r \in Others : request2[r] = T!Idle <=> request2[r].pc = "idle"
<1>1. /\ row2 # Nothing => row2 \in T!Row /\ row2.content \in T!Contents
                             /\ (row2.deployment # Nothing => row2.deployment \in T!Deployment)
      /\ xform2 # Nothing => xform2 \in T!XForm /\ xform2.content \in T!Contents
  BY DEF T!DeploymentsTypeOK, T!Row, T!XForm
<1>2. versions2 \in Seq(T!Version)
  BY DEF T!DeploymentsTypeOK
<1>3. T!Latest \in Nat /\ DOMAIN versions2 = 1..T!Latest
         /\ \A v \in 1..T!Latest : versions2[v] \in T!Version
  BY <1>2 DEF T!Latest
<1>4. ASSUME NEW r \in Others
      PROVE  /\ request2[r] # T!Idle =>
                  /\ request2[r] \in T!Request /\ request2[r].kind \in {"edit", "deploy"}
                  /\ request2[r].content \in T!Contents
                  /\ request2[r].deployment # Nothing => request2[r].deployment \in T!Deployment
                  /\ request2[r].active \in BOOLEAN
             /\ request2[r] = T!Idle <=> request2[r].pc = "idle"
  <2>1. request2[r] \in T!Request \cup {T!Idle}
    BY DEF T!DeploymentsTypeOK
  <2>2. CASE request2[r] \in T!Request
    BY <2>2 DEF T!Request, T!Idle
  <2>3. CASE request2[r] = T!Idle
    BY <2>3 DEF T!Idle
  <2>4. QED
    BY <2>1, <2>2, <2>3
<1>5. QED
  BY <1>1, <1>3, <1>4

(* A step of one leaves the others.                                        *)
LEMMA TwoMoves ==
  ASSUME T!DeploymentsTypeOK, NEW r \in Others, NEW new \in T!Request \cup {T!Idle},
         request2' = [request2 EXCEPT ![r] = new]
  PROVE  /\ request2' \in [Others -> T!Request \cup {T!Idle}]
         /\ request2'[r] = new /\ \A t \in Others : t # r => request2'[t] = request2[t]
  BY DEF T!DeploymentsTypeOK

(* The steps they may be at.                                               *)
TwoPcs ==
  {"check", "post", "patch", "store", "link", "mark", "save", "sync", "version",
   "activate", "record", "delete", "drop"}

(* Going to another step.                                                  *)
LEMMA TwoGoesTo ==
  ASSUME T!DeploymentsTypeOK, NEW r \in Others, request2[r] # T!Idle, NEW pc \in TwoPcs,
         T!GoTo(r, pc)
  PROVE  /\ request2' \in [Others -> T!Request \cup {T!Idle}]
         /\ \A t \in Others : t # r => request2'[t] = request2[t]
         /\ request2'[r] # T!Idle /\ request2'[r].pc = pc /\ request2'[r].kind = request2[r].kind
         /\ request2'[r].content = request2[r].content
         /\ request2'[r].deployment = request2[r].deployment
         /\ request2'[r].active = request2[r].active
<1> DEFINE new == [request2[r] EXCEPT !.pc = pc]
<1>1. request2[r] \in T!Request
  BY TwoFacts
<1>2. /\ new \in T!Request /\ new.pc = pc /\ new.kind = request2[r].kind
      /\ new.content = request2[r].content
      /\ new.deployment = request2[r].deployment /\ new.active = request2[r].active /\ new # T!Idle
  BY <1>1 DEF T!Request, TwoPcs, T!Idle
<1>3. request2' = [request2 EXCEPT ![r] = new]
  BY DEF T!GoTo
<1> HIDE DEF new
<1>4. QED
  BY <1>2, <1>3, TwoMoves

(* Going on with other deployment data.                                    *)
LEMMA TwoGoesOn ==
  ASSUME T!DeploymentsTypeOK, NEW r \in Others, request2[r] # T!Idle, NEW pc \in TwoPcs,
         NEW d \in T!Deployment,
         T!Goes(r, pc, d)
  PROVE  /\ request2' \in [Others -> T!Request \cup {T!Idle}]
         /\ \A t \in Others : t # r => request2'[t] = request2[t]
         /\ request2'[r] # T!Idle /\ request2'[r].pc = pc /\ request2'[r].kind = request2[r].kind
         /\ request2'[r].content = request2[r].content /\ request2'[r].deployment = d
         /\ request2'[r].active = request2[r].active
<1> DEFINE new == [request2[r] EXCEPT !.pc = pc, !.deployment = d]
<1>1. request2[r] \in T!Request
  BY TwoFacts
<1>2. /\ new \in T!Request /\ new.pc = pc /\ new.kind = request2[r].kind
      /\ new.content = request2[r].content
      /\ new.deployment = d /\ new.active = request2[r].active /\ new # T!Idle
  BY <1>1 DEF T!Request, TwoPcs, T!Idle
<1>3. request2' = [request2 EXCEPT ![r] = new]
  BY DEF T!Goes
<1> HIDE DEF new
<1>4. QED
  BY <1>2, <1>3, TwoMoves

(* The end of a request.                                                   *)
LEMMA TwoEnds ==
  ASSUME T!DeploymentsTypeOK, NEW r \in Others, T!End(r)
  PROVE  /\ request2' \in [Others -> T!Request \cup {T!Idle}]
         /\ request2'[r] = T!Idle /\ \A t \in Others : t # r => request2'[t] = request2[t]
  BY TwoMoves DEF T!End

(* The others keep their versions.                                         *)
LEMMA TwoOthersAtWork ==
  ASSUME TwoTypesInv, NEW r \in Others, T!Latest \in Nat, T!Latest' \in Nat, T!Latest <= T!Latest',
         \A t \in Others : t # r => request2'[t] = request2[t], TwoAtWork(r)'
  PROVE  \A t \in Others : TwoAtWork(t)'
  BY DEF TwoTypesInv, TwoAtWork

(* Steps that leave the versions alone.                                    *)
LEMMA TwoKeeps ==
  ASSUME TwoTypesInv, NEW r \in Others, UNCHANGED versions2,
         request2' \in [Others -> T!Request \cup {T!Idle}],
         \A t \in Others : t # r => request2'[t] = request2[t], TwoAtWork(r)',
         row2' \in T!Row \cup {Nothing}, xform2' \in T!XForm \cup {Nothing},
         made2' \in 0..OthersRequests,
         published2' \subseteq 1..OthersVersions, unnamed2' \subseteq T!Contents,
         row2' # Nothing /\ row2'.deployment # Nothing => row2'.deployment.version \in 1..T!Latest
  PROVE  TwoTypesInv'
<1>1. T!Latest' = T!Latest /\ T!Latest \in 0..OthersVersions /\ T!Latest \in Nat
  BY TwoBounds DEF T!Latest, TwoTypesInv
<1>2. T!DeploymentsTypeOK'
  BY <1>1 DEF T!DeploymentsTypeOK, TwoTypesInv
<1>3. \A t \in Others : TwoAtWork(t)'
  BY <1>1, TwoOthersAtWork
<1>4. QED
  BY <1>1, <1>2, <1>3 DEF TwoTypesInv

(* Steps that change nothing but a request.                                *)
LEMMA TwoWorks ==
  ASSUME TwoTypesInv, NEW r \in Others,
         UNCHANGED <<row2, versions2, xform2, made2, published2, unnamed2>>,
         request2' \in [Others -> T!Request \cup {T!Idle}],
         \A t \in Others : t # r => request2'[t] = request2[t], TwoAtWork(r)'
  PROVE  TwoTypesInv'
  BY TwoKeeps DEF TwoTypesInv, T!DeploymentsTypeOK

(* A request begins.                                                       *)
LEMMA TwoTypesBegin ==
  ASSUME TwoTypesInv, NEW r \in Others, NEW kind \in {"edit", "deploy"}, T!Begin(r, kind)
  PROVE  /\ TwoTypesInv' /\ row2 # Nothing
         /\ UNCHANGED <<row2, versions2, xform2, published2, unnamed2>>
         /\ request2'[r] # T!Idle /\ request2'[r].pc = T!FirstStep(kind) /\ request2'[r].kind = kind
         /\ request2'[r].deployment = row2.deployment
         /\ kind # "edit" => request2'[r].content = row2.content
<1>1. {"edit", "deploy"} \subseteq {"edit", "deploy", "destroy"}
  OBVIOUS
<1>2. /\ row2 \in T!Row /\ row2.content \in T!Contents
      /\ row2.deployment # Nothing =>
           row2.deployment \in T!Deployment /\ row2.deployment.version \in 1..T!Latest
  BY TwoFacts DEF T!Begin, TwoTypesInv, T!DeploymentsTypeOK
<1>3. /\ T!Latest \in Nat /\ T!Latest <= OthersVersions /\ OthersVersions \in Nat
      /\ OthersRequests \in Nat
  BY TwoBounds DEF TwoTypesInv
<1>4. PICK content \in
               IF kind = "edit" THEN {row2.content, T!Latest + 1} \cap T!Contents ELSE {row2.content},
           active \in IF kind = "deploy" THEN BOOLEAN ELSE {FALSE},
           version \in IF kind = "deploy" THEN {T!NotGiven} \cup 1..T!Latest ELSE {T!NotGiven} :
        request2' = [request2 EXCEPT ![r] =
         [pc |-> T!FirstStep(kind), kind |-> kind, content |-> content,
          deployment |-> row2.deployment, active |-> active, version |-> version]]
  BY DEF T!Begin
<1> DEFINE new == [pc |-> T!FirstStep(kind), kind |-> kind, content |-> content,
                   deployment |-> row2.deployment, active |-> active, version |-> version]
<1>5. content \in T!Contents /\ active \in BOOLEAN /\ version \in 0..OthersVersions
  <2>1. content \in T!Contents
    BY <1>2
  <2>2. active \in BOOLEAN
    BY Zenon
  <2>3. version \in {0} \cup 1..T!Latest
    BY DEF T!NotGiven
  <2>4. version \in 0..OthersVersions
    BY <2>3, <1>3
  <2>5. QED
    BY <2>1, <2>2, <2>4
<1>6. T!FirstStep(kind) \in {"save", "check", "delete", "drop"}
      /\ (T!FirstStep(kind) \in {"delete", "drop"} => kind = "destroy")
      /\ (kind = "deploy" => T!FirstStep(kind) # "save")
  BY <1>1 DEF T!FirstStep
<1>7. row2.deployment \in T!Deployment \cup {Nothing}
  BY <1>2
<1>8. new \in T!Request
  BY <1>5, <1>6, <1>7 DEF T!Request
<1>9. /\ new # T!Idle /\ new.pc = T!FirstStep(kind) /\ new.kind = kind
      /\ new.deployment = row2.deployment
  BY <1>6 DEF T!Idle
<1> HIDE DEF new
<1>10. /\ request2' \in [Others -> T!Request \cup {T!Idle}]
       /\ request2'[r] = new /\ \A t \in Others : t # r => request2'[t] = request2[t]
  BY <1>4, <1>8, TwoMoves DEF TwoTypesInv, new
<1>11. UNCHANGED <<row2, versions2, xform2, published2, unnamed2>> /\ made2' \in 0..OthersRequests
  BY <1>3 DEF T!Begin, TwoTypesInv, T!DeploymentsTypeOK
<1>12. T!Latest' = T!Latest
  BY <1>11 DEF T!Latest
<1>13. TwoAtWork(r)'
  BY <1>2, <1>6, <1>9, <1>10, <1>12 DEF TwoAtWork
<1>14. TwoTypesInv'
  BY <1>10, <1>11, <1>13, TwoKeeps DEF TwoTypesInv, T!DeploymentsTypeOK
<1>15. row2 # Nothing /\ (kind # "edit" => content = row2.content)
  BY DEF T!Begin
<1>16. kind # "edit" => request2'[r].content = row2.content
  BY <1>10, <1>15 DEF new
<1>17. QED
  BY <1>9, <1>10, <1>11, <1>14, <1>15, <1>16

(* The hash is checked.                                                    *)
LEMMA TwoTypesCheck ==
  ASSUME TwoTypesInv, NEW r \in Others, T!Check(r)
  PROVE  TwoTypesInv'
<1>1. request2[r].pc = "check" /\ request2[r] # T!Idle
  BY DEF T!Check, T!At, T!Idle
<1>2. UNCHANGED <<row2, versions2, xform2, made2, published2, unnamed2>>
  BY DEF T!Check
<1>3. \/ request2[r].deployment # Nothing /\ T!GoTo(r, "activate")
      \/ T!GoTo(r, "post") \/ T!GoTo(r, "patch") \/ T!End(r)
  BY DEF T!Check
<1>4. TwoAtWork(r) /\ T!DeploymentsTypeOK
  BY DEF TwoTypesInv
<1>5. T!Latest' = T!Latest
  BY <1>2 DEF T!Latest
<1>6. CASE T!End(r)
  BY <1>2, <1>4, <1>6, TwoEnds, TwoWorks DEF TwoAtWork
<1>7. CASE T!GoTo(r, "activate") /\ request2[r].deployment # Nothing
  <2>1. T!GoTo(r, "activate") /\ "activate" \in TwoPcs
    BY <1>7 DEF TwoPcs
  <2>2. TwoAtWork(r)'
    BY <1>1, <1>4, <1>5, <1>7, <2>1, TwoGoesTo DEF TwoAtWork
  <2>3. QED
    BY <1>1, <1>2, <1>4, <2>1, <2>2, TwoGoesTo, TwoWorks
<1>8. CASE T!GoTo(r, "post")
  <2>1. T!GoTo(r, "post") /\ "post" \in TwoPcs
    BY <1>8 DEF TwoPcs
  <2>2. TwoAtWork(r)'
    BY <1>1, <1>4, <1>5, <2>1, TwoGoesTo DEF TwoAtWork
  <2>3. QED
    BY <1>1, <1>2, <1>4, <2>1, <2>2, TwoGoesTo, TwoWorks
<1>9. CASE T!GoTo(r, "patch")
  <2>1. T!GoTo(r, "patch") /\ "patch" \in TwoPcs
    BY <1>9 DEF TwoPcs
  <2>2. TwoAtWork(r)'
    BY <1>1, <1>4, <1>5, <2>1, TwoGoesTo DEF TwoAtWork
  <2>3. QED
    BY <1>1, <1>2, <1>4, <2>1, <2>2, TwoGoesTo, TwoWorks
<1>10. QED
  BY <1>3, <1>6, <1>7, <1>8, <1>9

(* The form is sent, and is there after it.                                *)
LEMMA TwoTypesSend ==
  ASSUME TwoTypesInv, NEW r \in Others, T!Send(r)
  PROVE  TwoTypesInv' /\ xform2' # Nothing
<1> DEFINE d == [version |-> 0, active |-> request2[r].active, linked |-> T!Linked(r)]
           x == [content |-> request2[r].content, version |-> T!Latest,
           active |-> request2[r].active,
                 linked |-> T!Linked(r)]
<1>1. request2[r].pc \in {"post", "patch"} /\ request2[r] # T!Idle /\ T!Latest > 0
  BY DEF T!Send, T!Idle
<1>2. /\ xform2' = x /\ published2' = published2 \cup {T!Latest}
      /\ T!Goes(r, "store", d) /\ UNCHANGED <<row2, versions2, made2, unnamed2>>
  BY DEF T!Send, T!Stamp
<1>3. /\ T!DeploymentsTypeOK /\ T!Latest \in Nat /\ T!Latest <= OthersVersions
      /\ OthersVersions \in Nat
  BY TwoBounds DEF TwoTypesInv
<1>4. request2[r].content \in T!Contents /\ request2[r].active \in BOOLEAN
  BY <1>1, <1>3, TwoFacts
<1>5. T!Linked(r) \in BOOLEAN
  <2>1. xform2 # Nothing => xform2.linked \in BOOLEAN
    BY <1>3 DEF T!DeploymentsTypeOK, T!XForm
  <2>2. QED
    BY <2>1 DEF T!Linked, T!At
<1>6. d \in T!Deployment /\ x \in T!XForm
  BY <1>1, <1>3, <1>4, <1>5 DEF T!Deployment, T!XForm
<1>7. published2' \subseteq 1..OthersVersions
  <2>1. T!Latest \in 1..OthersVersions
    BY <1>1, <1>3
  <2>2. published2 \subseteq 1..OthersVersions
    BY <1>3 DEF T!DeploymentsTypeOK
  <2>3. QED
    BY <1>2, <2>1, <2>2
<1>8. xform2' \in T!XForm
  BY <1>2, <1>6
<1> HIDE DEF d, x
<1>9. "store" \in TwoPcs
  BY DEF TwoPcs
<1>10. /\ request2' \in [Others -> T!Request \cup {T!Idle}]
       /\ \A t \in Others : t # r => request2'[t] = request2[t]
       /\ request2'[r].pc = "store" /\ request2'[r].deployment = d
  BY <1>1, <1>2, <1>3, <1>6, <1>9, TwoGoesOn
<1>11. TwoAtWork(r)'
  BY <1>6, <1>10, TwoBounds DEF TwoAtWork
<1>12. T!Latest' = T!Latest
  BY <1>2 DEF T!Latest
<1>13. QED
  BY <1>2, <1>3, <1>7, <1>8, <1>10, <1>11, TwoBounds, TwoKeeps DEF T!DeploymentsTypeOK

(* The answer is stored.                                                   *)
LEMMA TwoTypesStore ==
  ASSUME TwoTypesInv, NEW r \in Others, T!Store(r)
  PROVE  TwoTypesInv'
<1> DEFINE d == [request2[r].deployment EXCEPT !.version = T!Latest]
<1>1. request2[r].pc = "store" /\ request2[r] # T!Idle /\ T!Latest > 0
  BY DEF T!Store, T!At, T!Idle
<1>2. UNCHANGED <<row2, versions2, xform2, made2, published2, unnamed2>> /\ T!Latest' = T!Latest
  BY DEF T!Store, T!Latest
<1>3. /\ T!DeploymentsTypeOK /\ T!Latest \in Nat /\ T!Latest <= OthersVersions
      /\ OthersVersions \in Nat /\ TwoAtWork(r)
  BY TwoBounds DEF TwoTypesInv
<1>4. request2[r].deployment \in T!Deployment
  BY <1>1, <1>3, TwoFacts DEF TwoAtWork
<1>5. d \in T!Deployment /\ d.version = T!Latest
  BY <1>3, <1>4 DEF T!Deployment
<1>6. PICK pc : pc = IF d.linked THEN "mark" ELSE "link"
  OBVIOUS
<1>7. T!Goes(r, pc, d) /\ pc \in TwoPcs /\ pc \in {"mark", "link"}
  BY <1>6 DEF T!Store, TwoPcs
<1> HIDE DEF d
<1>8. /\ request2' \in [Others -> T!Request \cup {T!Idle}]
      /\ \A t \in Others : t # r => request2'[t] = request2[t]
      /\ request2'[r].pc = pc /\ request2'[r].deployment = d
  BY <1>1, <1>3, <1>5, <1>7, TwoGoesOn
<1>9. TwoAtWork(r)'
  BY <1>1, <1>2, <1>3, <1>5, <1>7, <1>8, TwoBounds DEF TwoAtWork
<1>10. QED
  BY <1>2, <1>8, <1>9, TwoWorks

(* The link is stored.                                                     *)
LEMMA TwoTypesLink ==
  ASSUME TwoTypesInv, NEW r \in Others, T!Link(r)
  PROVE  TwoTypesInv'
<1> DEFINE d == [request2[r].deployment EXCEPT !.linked = TRUE]
           x == [xform2 EXCEPT !.linked = TRUE]
<1>1. request2[r].pc = "link" /\ request2[r] # T!Idle /\ xform2 # Nothing
  BY DEF T!Link, T!At, T!Idle
<1>2. /\ UNCHANGED <<row2, versions2, made2, published2, unnamed2>> /\ T!Latest' = T!Latest
      /\ xform2' = x /\ T!Goes(r, "mark", d)
  BY DEF T!Link, T!Latest
<1>3. T!DeploymentsTypeOK /\ TwoAtWork(r)
  BY DEF TwoTypesInv
<1>4. request2[r].deployment \in T!Deployment /\ request2[r].deployment.version \in 1..T!Latest
  BY <1>1, <1>3, TwoFacts DEF TwoAtWork
<1>5. d \in T!Deployment /\ d.version = request2[r].deployment.version
  BY <1>4 DEF T!Deployment
<1>6. xform2 \in T!XForm
  BY <1>1, <1>3, TwoFacts
<1>7. x \in T!XForm
  BY <1>6 DEF T!XForm
<1>8. xform2' \in T!XForm
  BY <1>2, <1>7
<1> HIDE DEF d, x
<1>9. "mark" \in TwoPcs
  BY DEF TwoPcs
<1>10. /\ request2' \in [Others -> T!Request \cup {T!Idle}]
       /\ \A t \in Others : t # r => request2'[t] = request2[t]
       /\ request2'[r].pc = "mark" /\ request2'[r].deployment = d
  BY <1>1, <1>2, <1>3, <1>5, <1>9, TwoGoesOn
<1>11. TwoAtWork(r)'
  BY <1>2, <1>4, <1>5, <1>10, TwoBounds DEF TwoAtWork
<1>12. QED
  BY <1>2, <1>3, <1>8, <1>10, <1>11, TwoKeeps DEF T!DeploymentsTypeOK

(* Steps that add or mark versions.                                        *)
LEMMA TwoGrows ==
  ASSUME TwoTypesInv, NEW r \in Others, UNCHANGED <<row2, xform2, made2, published2, unnamed2>>,
         versions2' \in Seq(T!Version),
         T!Latest' \in 0..OthersVersions, T!Latest <= T!Latest',
         request2' \in [Others -> T!Request \cup {T!Idle}],
         \A t \in Others : t # r => request2'[t] = request2[t], TwoAtWork(r)'
  PROVE  TwoTypesInv'
<1>1. T!Latest \in Nat /\ T!Latest' \in Nat /\ OthersVersions \in Nat
  BY TwoBounds DEF TwoTypesInv
<1>2. row2' # Nothing /\ row2'.deployment # Nothing => row2'.deployment.version \in 1..T!Latest'
  BY <1>1 DEF TwoTypesInv, T!DeploymentsTypeOK
<1>3. T!DeploymentsTypeOK'
  BY <1>2 DEF TwoTypesInv, T!DeploymentsTypeOK
<1>4. \A t \in Others : TwoAtWork(t)'
  BY <1>1, TwoOthersAtWork
<1>5. QED
  BY <1>3, <1>4 DEF TwoTypesInv

(* A version is marked.                                                    *)
LEMMA TwoTypesMark ==
  ASSUME TwoTypesInv, NEW r \in Others, T!Mark(r)
  PROVE  /\ TwoTypesInv' /\ T!Latest' = T!Latest
         /\ \A v \in 1..T!Latest : /\ versions2'[v].content = versions2[v].content
                                 /\ v # T!Latest => versions2'[v] = versions2[v]
<1>1. request2[r].pc = "mark" /\ request2[r] # T!Idle /\ T!Latest > 0
  BY DEF T!Mark, T!At, T!Idle
<1>2. /\ UNCHANGED <<row2, xform2, made2, published2, unnamed2>> /\ T!GoTo(r, "save")
      /\ versions2' = [versions2 EXCEPT ![T!Latest].deployed = TRUE]
  BY DEF T!Mark
<1>3. T!DeploymentsTypeOK /\ TwoAtWork(r) /\ T!Latest \in Nat /\ T!Latest \in 0..OthersVersions
  BY TwoBounds DEF TwoTypesInv
<1>5. versions2 \in Seq(T!Version) /\ \A v \in 1..T!Latest : versions2[v] \in T!Version
  BY <1>3, TwoFacts DEF T!DeploymentsTypeOK
<1>6. PICK w : w = [versions2[T!Latest] EXCEPT !.deployed = TRUE]
  OBVIOUS
<1>7. w \in T!Version /\ w.content = versions2[T!Latest].content
  <2>1. versions2[T!Latest] \in T!Version
    BY <1>1, <1>3, <1>5
  <2>2. QED
    BY <1>6, <2>1 DEF T!Version
<1>8. versions2' = [versions2 EXCEPT ![T!Latest] = w]
  BY <1>2, <1>6
<1>9. /\ versions2' \in Seq(T!Version) /\ Len(versions2') = Len(versions2)
      /\ \A v \in 1..T!Latest : versions2'[v] = IF v = T!Latest THEN w ELSE versions2[v]
  BY <1>1, <1>3, <1>5, <1>7, <1>8 DEF T!Latest
<1>10. T!Latest' = T!Latest
  BY <1>9 DEF T!Latest
<1>11. "save" \in TwoPcs
  BY DEF TwoPcs
<1>12. TwoAtWork(r)'
  BY <1>1, <1>2, <1>3, <1>10, <1>11, TwoGoesTo DEF TwoAtWork
<1>13. TwoTypesInv'
  <2>1. /\ request2' \in [Others -> T!Request \cup {T!Idle}]
        /\ \A t \in Others : t # r => request2'[t] = request2[t]
    BY <1>1, <1>2, <1>3, <1>11, TwoGoesTo
  <2>2. T!Latest' \in 0..OthersVersions /\ T!Latest <= T!Latest' /\ versions2' \in Seq(T!Version)
    BY <1>3, <1>9, <1>10
  <2>3. QED
    BY <1>2, <1>12, <2>1, <2>2, TwoGrows
<1>14. QED
  BY <1>7, <1>9, <1>10, <1>13

(* The row is saved.                                                       *)
LEMMA TwoTypesSave ==
  ASSUME TwoTypesInv, NEW r \in Others, T!Save(r)
  PROVE  TwoTypesInv'
<1>1. request2[r].pc = "save" /\ request2[r] # T!Idle
  BY DEF T!Save, T!At, T!Idle
<1>2. /\ UNCHANGED <<versions2, xform2, made2, published2, unnamed2>> /\ T!Latest' = T!Latest
      /\ row2' = [content |-> request2[r].content, deployment |-> request2[r].deployment]
  BY DEF T!Save, T!Latest
<1>3. T!DeploymentsTypeOK /\ TwoAtWork(r)
  BY DEF TwoTypesInv
<1>4. /\ request2[r].content \in T!Contents
      /\ request2[r].deployment # Nothing => request2[r].deployment \in T!Deployment
                                            /\ request2[r].deployment.version \in 1..T!Latest
  BY <1>1, <1>3, TwoFacts DEF TwoAtWork
<1>5. row2' \in T!Row /\ row2'.deployment = request2[r].deployment
  BY <1>2, <1>4 DEF T!Row
<1>6. PICK pc : pc = IF request2[r].deployment # Nothing THEN "sync" ELSE "version"
  OBVIOUS
<1>7. T!GoTo(r, pc) /\ pc \in TwoPcs /\ pc \in {"sync", "version"}
  BY <1>6 DEF T!Save, TwoPcs
<1>8. TwoAtWork(r)'
  BY <1>1, <1>2, <1>3, <1>7, TwoGoesTo DEF TwoAtWork
<1>9. /\ request2' \in [Others -> T!Request \cup {T!Idle}]
      /\ \A t \in Others : t # r => request2'[t] = request2[t]
  BY <1>1, <1>3, <1>7, TwoGoesTo
<1>10. QED
  BY <1>2, <1>3, <1>4, <1>5, <1>8, <1>9, TwoKeeps DEF T!DeploymentsTypeOK

(* The media files follow.                                                 *)
LEMMA TwoTypesSync ==
  ASSUME TwoTypesInv, NEW r \in Others, T!Sync(r)
  PROVE  TwoTypesInv'
<1>1. request2[r].pc = "sync" /\ request2[r] # T!Idle
  BY DEF T!Sync, T!At, T!Idle
<1>2. UNCHANGED <<row2, versions2, xform2, made2, published2, unnamed2>> /\ T!Latest' = T!Latest
  BY DEF T!Sync, T!Latest
<1>3. T!DeploymentsTypeOK /\ TwoAtWork(r) /\ "version" \in TwoPcs
  BY DEF TwoTypesInv, TwoPcs
<1>4. CASE T!End(r)
  BY <1>2, <1>3, <1>4, TwoEnds, TwoWorks DEF TwoAtWork
<1>5. CASE T!GoTo(r, "version")
  <2>1. TwoAtWork(r)'
    BY <1>1, <1>2, <1>3, <1>5, TwoGoesTo DEF TwoAtWork
  <2>2. QED
    BY <1>1, <1>2, <1>3, <1>5, <2>1, TwoGoesTo, TwoWorks
<1>6. QED
  BY <1>4, <1>5 DEF T!Sync

(* A version is made.                                                      *)
LEMMA TwoTypesCreateVersion ==
  ASSUME TwoTypesInv, NEW r \in Others, T!CreateVersion(r)
  PROVE  /\ TwoTypesInv' /\ T!Latest' = T!Latest + 1
         /\ \A v \in 1..T!Latest : versions2'[v] = versions2[v]
         /\ versions2'[T!Latest'] = [content |-> request2[r].content, deployed |-> FALSE]
<1>1. request2[r].pc = "version" /\ request2[r] # T!Idle /\ T!Latest < OthersVersions
  BY DEF T!CreateVersion, T!At, T!Idle
<1>2. UNCHANGED <<row2, xform2, made2, published2, unnamed2>> /\ T!End(r)
  BY DEF T!CreateVersion
<1>3. T!DeploymentsTypeOK /\ TwoAtWork(r) /\ T!Latest \in Nat /\ OthersVersions \in Nat
  BY TwoBounds DEF TwoTypesInv
<1>5. PICK w : w = [content |-> request2[r].content, deployed |-> FALSE]
  OBVIOUS
<1>6. request2[r].content \in T!Contents
  BY <1>1, <1>3, TwoFacts
<1>7. w \in T!Version
  BY <1>5, <1>6 DEF T!Version
<1>8. versions2 \in Seq(T!Version) /\ versions2' = Append(versions2, w)
  BY <1>3, <1>5 DEF T!DeploymentsTypeOK, T!CreateVersion
<1>9. /\ versions2' \in Seq(T!Version) /\ Len(versions2') = Len(versions2) + 1
      /\ \A v \in 1..Len(versions2) : versions2'[v] = versions2[v]
      /\ versions2'[Len(versions2) + 1] = w
  BY <1>7, <1>8, AppendProperties
<1>10. T!Latest' = T!Latest + 1 /\ \A v \in 1..T!Latest : versions2'[v] = versions2[v]
  BY <1>9 DEF T!Latest
<1>11. T!Latest' \in 0..OthersVersions /\ T!Latest <= T!Latest'
  BY <1>1, <1>3, <1>10
<1>12. TwoAtWork(r)'
  BY <1>2, <1>3, TwoEnds DEF TwoAtWork
<1>13. TwoTypesInv'
  BY <1>2, <1>3, <1>9, <1>11, <1>12, TwoEnds, TwoGrows
<1>14. versions2'[T!Latest'] = [content |-> request2[r].content, deployed |-> FALSE]
  <2>1. versions2'[T!Latest'] = w
    BY <1>9 DEF T!Latest
  <2>2. QED
    BY <1>5, <2>1
<1>15. QED
  BY <1>10, <1>13, <1>14, Zenon

(* The form is opened or closed.                                           *)
LEMMA TwoTypesSetActive ==
  ASSUME TwoTypesInv, NEW r \in Others, T!SetActive(r)
  PROVE  TwoTypesInv'
<1> DEFINE d == [request2[r].deployment EXCEPT !.active = request2[r].active, !.linked = xform2.linked]
           x == [xform2 EXCEPT !.active = request2[r].active]
<1>1. request2[r].pc = "activate" /\ request2[r] # T!Idle /\ xform2 # Nothing
  BY DEF T!SetActive, T!At, T!Idle
<1>2. /\ UNCHANGED <<row2, versions2, made2, published2, unnamed2>> /\ T!Latest' = T!Latest
      /\ xform2' = x /\ T!Goes(r, "record", d)
  BY DEF T!SetActive, T!Latest
<1>3. T!DeploymentsTypeOK /\ TwoAtWork(r)
  BY DEF TwoTypesInv
<1>4. /\ request2[r].deployment \in T!Deployment /\ request2[r].deployment.version \in 1..T!Latest
      /\ request2[r].active \in BOOLEAN
  BY <1>1, <1>3, TwoFacts DEF TwoAtWork
<1>5. xform2 \in T!XForm /\ xform2.linked \in BOOLEAN
  BY <1>1, <1>3, TwoFacts DEF T!XForm
<1>6. d \in T!Deployment /\ d.version = request2[r].deployment.version
  BY <1>4, <1>5 DEF T!Deployment
<1>7. x \in T!XForm
  BY <1>4, <1>5 DEF T!XForm
<1>8. xform2' \in T!XForm
  BY <1>2, <1>7
<1> HIDE DEF d, x
<1>9. "record" \in TwoPcs
  BY DEF TwoPcs
<1>10. /\ request2' \in [Others -> T!Request \cup {T!Idle}]
       /\ \A t \in Others : t # r => request2'[t] = request2[t]
       /\ request2'[r].pc = "record" /\ request2'[r].deployment = d
  BY <1>1, <1>2, <1>3, <1>6, <1>9, TwoGoesOn
<1>11. TwoAtWork(r)'
  BY <1>2, <1>4, <1>6, <1>10, TwoBounds DEF TwoAtWork
<1>12. QED
  BY <1>2, <1>3, <1>8, <1>10, <1>11, TwoKeeps DEF T!DeploymentsTypeOK

(* Its state is recorded.                                                  *)
LEMMA TwoTypesSaveToDb ==
  ASSUME TwoTypesInv, NEW r \in Others, T!SaveToDb(r)
  PROVE  TwoTypesInv'
<1> DEFINE w == [row2 EXCEPT !.deployment.active = request2[r].deployment.active,
                            !.deployment.linked = request2[r].deployment.linked]
<1>1. request2[r].pc = "record" /\ request2[r] # T!Idle
  BY DEF T!SaveToDb, T!At, T!Idle
<1>2. /\ UNCHANGED <<versions2, xform2, made2, published2, unnamed2>> /\ T!Latest' = T!Latest
      /\ row2' = IF row2 = Nothing \/ row2.deployment = Nothing THEN row2 ELSE w
      /\ T!End(r) \/ T!GoTo(r, "save")
  BY DEF T!SaveToDb, T!Latest
<1>3. T!DeploymentsTypeOK /\ TwoAtWork(r)
  BY DEF TwoTypesInv
<1>4. request2[r].deployment \in T!Deployment
  BY <1>1, <1>3, TwoFacts DEF TwoAtWork
<1>5. request2[r].deployment.active \in BOOLEAN /\ request2[r].deployment.linked \in BOOLEAN
  BY <1>4 DEF T!Deployment
<1>6. /\ row2' \in T!Row \cup {Nothing}
      /\ row2' # Nothing /\ row2'.deployment # Nothing => row2'.deployment.version \in 1..T!Latest
  <2>1. CASE row2 = Nothing \/ row2.deployment = Nothing
    BY <1>2, <1>3, <2>1 DEF T!DeploymentsTypeOK
  <2>2. CASE row2 # Nothing /\ row2.deployment # Nothing
    <3>1. /\ row2 \in T!Row /\ row2.deployment \in T!Deployment
          /\ row2.deployment.version \in 1..T!Latest
      BY <1>3, <2>2, TwoFacts DEF T!DeploymentsTypeOK
    <3>2. w \in T!Row /\ w.deployment.version = row2.deployment.version
      BY <1>5, <3>1 DEF T!Row, T!Deployment
    <3>3. QED
      BY <1>2, <2>2, <3>1, <3>2
  <2>3. QED
    BY <2>1, <2>2
<1> HIDE DEF w
<1>7. /\ request2' \in [Others -> T!Request \cup {T!Idle}]
      /\ \A t \in Others : t # r => request2'[t] = request2[t]
      /\ TwoAtWork(r)'
  <2>1. CASE T!End(r)
    BY <1>3, <2>1, TwoEnds DEF TwoAtWork
  <2>2. CASE T!GoTo(r, "save")
    <3>1. "save" \in TwoPcs
      BY DEF TwoPcs
    <3>2. TwoAtWork(r)'
      BY <1>1, <1>2, <1>3, <2>2, <3>1, TwoGoesTo DEF TwoAtWork
    <3>3. QED
      BY <1>1, <1>3, <2>2, <3>1, <3>2, TwoGoesTo
  <2>3. QED
    BY <1>2, <2>1, <2>2
<1>8. QED
  BY <1>2, <1>3, <1>6, <1>7, TwoKeeps DEF T!DeploymentsTypeOK

(* A request is cut.                                                       *)
LEMMA TwoTypesCut ==
  ASSUME TwoTypesInv, NEW r \in Others, T!Cut(r)
  PROVE  TwoTypesInv'
<1>1. /\ request2[r] # T!Idle /\ UNCHANGED <<row2, versions2, xform2, made2, published2>>
      /\ T!End(r) /\ unnamed2' \in {unnamed2, unnamed2 \cup {request2[r].content}}
  BY DEF T!Cut
<1>2. T!DeploymentsTypeOK /\ TwoAtWork(r)
  BY DEF TwoTypesInv
<1>3. request2[r].content \in T!Contents /\ unnamed2 \subseteq T!Contents
  BY <1>1, <1>2, TwoFacts DEF T!DeploymentsTypeOK
<1>4. unnamed2' \subseteq T!Contents
  BY <1>1, <1>3
<1>5. TwoAtWork(r)'
  BY <1>1, <1>2, TwoEnds DEF TwoAtWork
<1>6. QED
  BY <1>1, <1>2, <1>4, <1>5, TwoEnds, TwoKeeps DEF T!DeploymentsTypeOK

(* The types hold initially.                                               *)
LEMMA TwoTypesStart ==
  ASSUME T!DeploymentsInit
  PROVE  TwoTypesInv /\ T!Latest = 1 /\ row2 # Nothing /\ \A r \in Others : request2[r] = T!Idle
<1>1. OthersVersions \in Nat /\ OthersVersions >= 1 /\ OthersRequests \in Nat
  BY TwoBounds
<1>2. /\ 1 \in T!Contents /\ 1 \in 0..OthersVersions /\ 0 \in 0..OthersRequests
      /\ 1 \in 1..OthersVersions
  BY <1>1 DEF T!Contents
<1>3. PICK b, w : b \in BOOLEAN /\ versions2 = <<w>> /\ w = [content |-> 1, deployed |-> b]
  BY DEF T!DeploymentsInit
<1>4. w \in T!Version
  BY <1>2, <1>3 DEF T!Version
<1>5. versions2 \in Seq(T!Version) /\ T!Latest = 1
  BY <1>3, <1>4 DEF T!Latest
<1>6. /\ request2 \in [Others -> T!Request \cup {T!Idle}] /\ \A r \in Others : request2[r] = T!Idle
      /\ made2 = 0 /\ unnamed2 = {}
  BY DEF T!DeploymentsInit
<1>7. /\ row2 \in T!Row /\ xform2 \in T!XForm \cup {Nothing}
      /\ published2 \subseteq 1..OthersVersions
      /\ row2.deployment # Nothing => row2.deployment.version = 1
  <2>1. CASE row2 = [content |-> 1, deployment |-> Nothing] /\ xform2 = Nothing /\ published2 = {}
    BY <1>2, <2>1 DEF T!Row
  <2>2. CASE /\ row2 = [content |-> 1,
                  deployment |-> [version |-> 1, active |-> TRUE, linked |-> FALSE]]
             /\ xform2 = [content |-> 1, version |-> 1, active |-> TRUE, linked |-> FALSE]
             /\ published2 = {1}
    BY <1>2, <2>2 DEF T!Row, T!XForm, T!Deployment
  <2>3. QED
    BY <2>1, <2>2 DEF T!DeploymentsInit
<1>8. T!DeploymentsTypeOK
  BY <1>2, <1>5, <1>6, <1>7 DEF T!DeploymentsTypeOK
<1>9. row2 # Nothing
  BY <1>7, TwoBounds
<1>10. QED
  BY <1>2, <1>5, <1>6, <1>8, <1>9 DEF TwoTypesInv, TwoAtWork

(* None of the requests is a removal.                                      *)
LEMMA TwoNeverRemoves ==
  ASSUME TwoTypesInv, NEW r \in Others
  PROVE  ~ T!DeleteForm(r) /\ ~ T!DropAsset(r)
<1>1. T!DeploymentsTypeOK /\ TwoAtWork(r)
  BY DEF TwoTypesInv
<1>2. request2[r] # T!Idle => request2[r].pc \notin {"delete", "drop"}
  BY <1>1, TwoFacts DEF TwoAtWork
<1>3. T!At(r, "delete") \/ T!At(r, "drop") => request2[r] # T!Idle
  BY DEF T!At, T!Idle
<1>4. QED
  BY <1>2, <1>3 DEF T!DeleteForm, T!DropAsset, T!At

(* Every step keeps the types.                                             *)
LEMMA TwoTypesStep ==
  ASSUME TwoTypesInv, T!DeploymentsNext
  PROVE  TwoTypesInv'
<1>1. PICK r \in Others : T!Step(r)
  BY DEF T!DeploymentsNext
<1>2. CASE \E kind \in {"edit", "deploy"} : T!Begin(r, kind)
  BY <1>2, TwoTypesBegin
<1>3. CASE T!Check(r) \/ T!Send(r) \/ T!Store(r) \/ T!Link(r) \/ T!Mark(r)
  BY <1>3, TwoTypesCheck, TwoTypesSend, TwoTypesStore, TwoTypesLink, TwoTypesMark
<1>4. CASE T!Save(r) \/ T!Sync(r) \/ T!CreateVersion(r) \/ T!SetActive(r) \/ T!SaveToDb(r)
  BY <1>4, TwoTypesSave, TwoTypesSync, TwoTypesCreateVersion, TwoTypesSetActive, TwoTypesSaveToDb
<1>5. CASE T!Cut(r)
  BY <1>5, TwoTypesCut
<1>6. QED
  BY <1>1, <1>2, <1>3, <1>4, <1>5, TwoNeverRemoves DEF T!Step

-----------------------------------------------------------------------------
(***************************************************************************)
(* Requests that overlap: KoBoCAT leads.                                   *)
(***************************************************************************)

(* Nobody believes in a form that KoBoCAT does not have: neither the row   *)
(* nor a request has deployment data.                                      *)
Backed ==
  xform2 = Nothing =>
    /\ row2 # Nothing => row2.deployment = Nothing
    /\ \A r \in Others : request2[r] # T!Idle => request2[r].deployment = Nothing

(* The inductive invariant of requests that overlap.                       *)
TwoInv == TwoTypesInv /\ Backed

(* Without removals, a form that is there stays.                           *)
LEMMA FormStays ==
  ASSUME TwoTypesInv, T!DeploymentsNext, xform2 # Nothing
  PROVE  xform2' # Nothing
<1>1. PICK r \in Others : T!Step(r)
  BY DEF T!DeploymentsNext
<1>2. TwoTypesInv' /\ T!DeploymentsTypeOK /\ xform2 \in T!XForm
  BY TwoTypesStep, TwoFacts DEF TwoTypesInv
<1>3. CASE T!Send(r)
  BY <1>2, <1>3, TwoTypesSend
<1>4. CASE T!Link(r)
  <2>1. xform2' = [xform2 EXCEPT !.linked = TRUE]
    BY <1>4 DEF T!Link
  <2>2. xform2' \in T!XForm
    BY <1>2, <2>1 DEF T!XForm
  <2>3. QED
    BY <2>2, TwoBounds
<1>5. CASE T!SetActive(r)
  <2>1. xform2' = [xform2 EXCEPT !.active = request2[r].active] /\ request2[r] # T!Idle
    BY <1>5 DEF T!SetActive, T!At, T!Idle
  <2>2. request2[r].active \in BOOLEAN
    BY <1>2, <2>1, TwoFacts
  <2>3. xform2' \in T!XForm
    BY <1>2, <2>1, <2>2 DEF T!XForm
  <2>4. QED
    BY <2>3, TwoBounds
<1>6. CASE \/ \E kind \in {"edit", "deploy"} : T!Begin(r, kind)
           \/ T!Check(r) \/ T!Store(r) \/ T!Mark(r) \/ T!Save(r) \/ T!Sync(r) \/ T!CreateVersion(r)
           \/ T!SaveToDb(r) \/ T!Cut(r)
  <2>1. xform2' = xform2
    BY <1>6
       DEF T!Begin, T!Check, T!Store, T!Mark, T!Save, T!Sync, T!CreateVersion, T!SaveToDb, T!Cut
  <2>2. QED
    BY <2>1
<1>7. QED
  BY <1>1, <1>3, <1>4, <1>5, <1>6, TwoNeverRemoves DEF T!Step

(* Every step keeps it. Where there is no form there is none that a        *)
(* request could have stored, linked or recorded.                          *)
LEMMA TwoStep ==
  ASSUME TwoInv, T!DeploymentsNext
  PROVE  TwoInv'
<1>1. TwoTypesInv /\ TwoTypesInv' /\ T!DeploymentsTypeOK
  BY TwoTypesStep DEF TwoInv, TwoTypesInv
<1>2. CASE xform2' # Nothing
  BY <1>1, <1>2 DEF TwoInv, Backed
<1>3. CASE xform2' = Nothing
  <2>1. xform2 = Nothing
    BY <1>1, <1>3, FormStays
  <2>2. /\ row2 # Nothing => row2.deployment = Nothing
        /\ \A r \in Others : request2[r] # T!Idle => request2[r].deployment = Nothing
    BY <2>1 DEF TwoInv, Backed
  <2>3. PICK r \in Others : T!Step(r)
    BY DEF T!DeploymentsNext
  <2>4. request2[r] # T!Idle =>
          request2[r].pc \notin {"store", "link", "mark", "activate", "record"}
    BY <1>1, <2>2 DEF TwoTypesInv, TwoAtWork
  <2>5. ~ T!Send(r)
    BY <1>1, <1>3, TwoTypesSend
  <2>6. /\ ~ T!Store(r) /\ ~ T!Link(r) /\ ~ T!Mark(r) /\ ~ T!SetActive(r) /\ ~ T!SaveToDb(r)
    BY <2>4 DEF T!Store, T!Link, T!Mark, T!SetActive, T!SaveToDb, T!At, T!Idle
  <2>7. ~ T!Sync(r)
    BY <2>1 DEF T!Sync
  <2>8. CASE \E kind \in {"edit", "deploy"} : T!Begin(r, kind)
    <3>1. PICK kind \in {"edit", "deploy"} : T!Begin(r, kind)
      BY <2>8
    <3>2. /\ row2 # Nothing /\ UNCHANGED row2 /\ request2'[r].deployment = row2.deployment
          /\ \A t \in Others : t # r => request2'[t] = request2[t]
      BY <1>1, <3>1, TwoTypesBegin DEF T!Begin, T!DeploymentsTypeOK
    <3>3. QED
      BY <1>1, <2>2, <3>2 DEF TwoInv, Backed
  <2>9. CASE T!Check(r)
    <3>1. /\ UNCHANGED row2 /\ request2[r] # T!Idle
          /\ T!GoTo(r, "activate") \/ T!GoTo(r, "post") \/ T!GoTo(r, "patch") \/ T!End(r)
      BY <2>9 DEF T!Check, T!At, T!Idle
    <3>2. PICK pc : pc \in {"activate", "post", "patch"} /\ (T!GoTo(r, pc) \/ T!End(r))
      BY <3>1
    <3>3. pc \in TwoPcs
      BY <3>2 DEF TwoPcs
    <3>4. /\ \A t \in Others : t # r => request2'[t] = request2[t]
          /\ request2'[r] # T!Idle => request2'[r].deployment = Nothing
      BY <1>1, <2>2, <3>1, <3>2, <3>3, TwoGoesTo, TwoEnds
    <3>5. QED
      BY <1>1, <2>2, <3>1, <3>4 DEF TwoInv, Backed
  <2>10. CASE T!Save(r)
    <3>1. /\ request2[r] # T!Idle
          /\ row2' = [content |-> request2[r].content, deployment |-> request2[r].deployment]
      BY <2>10 DEF T!Save, T!At, T!Idle
    <3>2. request2[r].deployment = Nothing /\ row2'.deployment = Nothing
      BY <2>2, <3>1
    <3>3. T!GoTo(r, "version") /\ "version" \in TwoPcs
      BY <2>10, <3>2 DEF T!Save, TwoPcs
    <3>4. /\ \A t \in Others : t # r => request2'[t] = request2[t]
          /\ request2'[r].deployment = Nothing
      BY <1>1, <3>1, <3>2, <3>3, TwoGoesTo
    <3>5. QED
      BY <1>1, <2>2, <3>2, <3>4 DEF TwoInv, Backed
  <2>11. CASE T!CreateVersion(r) \/ T!Cut(r)
    <3>1. UNCHANGED row2 /\ T!End(r)
      BY <2>11 DEF T!CreateVersion, T!Cut
    <3>2. request2'[r] = T!Idle /\ \A t \in Others : t # r => request2'[t] = request2[t]
      BY <1>1, <3>1, TwoEnds
    <3>3. QED
      BY <1>1, <2>2, <3>1, <3>2 DEF TwoInv, Backed
  <2>12. QED
    BY <1>1, <2>3, <2>5, <2>6, <2>7, <2>8, <2>9, <2>10, <2>11, TwoNeverRemoves DEF T!Step
<1>4. QED
  BY <1>2, <1>3

(* It holds initially.                                                     *)
LEMMA TwoStarts ==
  ASSUME T!DeploymentsInit
  PROVE  TwoInv
<1>1. TwoTypesInv /\ \A r \in Others : request2[r] = T!Idle
  BY TwoTypesStart
<1>2. xform2 = Nothing => row2.deployment = Nothing
  <2>1. CASE xform2 = [content |-> 1, version |-> 1, active |-> TRUE, linked |-> FALSE]
    <3>1. OthersVersions \in Nat /\ OthersVersions >= 1
      BY TwoBounds
    <3>2. xform2 \in T!XForm
      BY <2>1, <3>1 DEF T!XForm, T!Contents
    <3>3. QED
      BY <3>2, TwoBounds
  <2>2. CASE row2 = [content |-> 1, deployment |-> Nothing]
    BY <2>2
  <2>3. QED
    BY <2>1, <2>2 DEF T!DeploymentsInit
<1>3. QED
  BY <1>1, <1>2 DEF TwoInv, Backed

-----------------------------------------------------------------------------
(***************************************************************************)
(* Of all parts of MCProjects.                                             *)
(***************************************************************************)

(* Requests one by one keep their invariant while other parts move,        *)
LEMMA SoloRests == SoloInv /\ UNCHANGED deploymentVars => SoloInv'
<1> SUFFICES ASSUME SoloInv, UNCHANGED deploymentVars PROVE SoloInv'
  OBVIOUS
<1>1. UNCHANGED <<row, versions, xform, request, made, published, unnamed>>
  BY DEF deploymentVars
<1>2. Latest' = Latest
  BY <1>1 DEF Latest
<1>3. TypesInv'
  BY <1>1, <1>2 DEF SoloInv, TypesInv, DeploymentsTypeOK, AtWork
<1>4. Stamped' /\ DeployedWasPublished'
  BY <1>1, <1>2 DEF SoloInv, Stamped, DeployedWasPublished
<1>5. Versioned'
  BY <1>1, <1>2 DEF SoloInv, Versioned, Named, Pending
<1>6. \A r \in Requests : InOrder(r)'
  BY <1>1, <1>2 DEF SoloInv, InOrder, Agree
<1>7. QED
  BY <1>3, <1>4, <1>5, <1>6 DEF SoloInv

(* and so do requests that overlap.                                        *)
LEMMA TwoRests == TwoInv /\ UNCHANGED othersVars => TwoInv'
<1> SUFFICES ASSUME TwoInv, UNCHANGED othersVars PROVE TwoInv'
  OBVIOUS
<1>1. UNCHANGED <<row2, versions2, xform2, request2, made2, published2, unnamed2>>
  BY DEF othersVars
<1>2. T!Latest' = T!Latest
  BY <1>1 DEF T!Latest
<1>3. TwoTypesInv'
  BY <1>1, <1>2 DEF TwoInv, TwoTypesInv, T!DeploymentsTypeOK, TwoAtWork
<1>4. Backed'
  BY <1>1 DEF TwoInv, Backed
<1>5. QED
  BY <1>3, <1>4 DEF TwoInv

(* Only one part moves in a behaviour.                                     *)
ProjectsInv ==
  /\ turn = "alone" => SoloInv
  /\ turn = "together" => TwoInv

(* The invariant holds initially.                                          *)
LEMMA ProjectsStarts == ProjectsInit => ProjectsInv
  BY SoloStarts, TwoStarts DEF ProjectsInit, ProjectsInv

(* A step moves one part, and leaves the others.                           *)
LEMMA Moving ==
  ASSUME [ProjectsNext]_projectVars
  PROVE  /\ turn' = turn
         /\ (turn = "alone" /\ DeploymentsNext) \/ UNCHANGED deploymentVars
         /\ (turn = "together" /\ T!DeploymentsNext) \/ UNCHANGED othersVars
<1>1. CASE UNCHANGED projectVars
  BY <1>1 DEF projectVars, formVars
<1>2. CASE Alone
  BY <1>2 DEF Alone
<1>3. CASE Together
  BY <1>3 DEF Together
<1>4. CASE Commands
  BY <1>4 DEF Commands
<1>5. CASE Lists \/ Assigned \/ Pages \/ Accounts
  BY <1>5 DEF Lists, Assigned, Pages, Accounts, formVars
<1>6. QED
  BY <1>1, <1>2, <1>3, <1>4, <1>5 DEF ProjectsNext

(* Every step keeps the invariant.                                         *)
LEMMA ProjectsStep ==
  ASSUME Solo, ProjectsInv, [ProjectsNext]_projectVars
  PROVE  ProjectsInv'
<1>1. turn = "alone" => SoloInv'
  BY Moving, SoloStep, SoloRests DEF ProjectsInv
<1>2. turn = "together" => TwoInv'
  BY Moving, TwoStep, TwoRests DEF ProjectsInv
<1>3. QED
  BY <1>1, <1>2, Moving DEF ProjectsInv

(* What the invariant says of forms.                                       *)
LEMMA ProjectsMean == ProjectsInv => FormsAreTrue
<1> SUFFICES ASSUME ProjectsInv PROVE FormsAreTrue
  OBVIOUS
<1>1. turn = "alone" => VersionsAreTrue
  BY DEF ProjectsInv, SoloInv, VersionsAreTrue, Stamped, StampedWithItsVersion
<1>2. turn = "together" => T!KobocatLeads
  BY DEF ProjectsInv, TwoInv, Backed, T!KobocatLeads
<1>3. QED
  BY <1>1, <1>2 DEF FormsAreTrue

(* Versions and marks are as they should be: a form bears a version of its *)
(* own content and a version that is marked as deployed was published,     *)
(* when requests follow one another; and when they overlap, KPI knows of   *)
(* no deployment that KoBoCAT does not have (backend.save,                 *)
(* sync_media_files and store_data of KobocatDeploymentBackend, in the     *)
(* order of deploy and redeploy).                                          *)
THEOREM FormsTrue ==
  ASSUME Solo
  PROVE  ProjectsSpec => []FormsAreTrue
<1>1. ProjectsInit => ProjectsInv
  BY ProjectsStarts
<1>2. ProjectsInv /\ [ProjectsNext]_projectVars => ProjectsInv'
  BY ProjectsStep
<1>3. ProjectsInv => FormsAreTrue
  BY ProjectsMean
<1>4. QED
  BY <1>1, <1>2, <1>3, PTL DEF ProjectsSpec

(* A deployment or a change of state that comes to its end leaves in the   *)
(* row what KoBoCAT has: the same version, open or closed alike, linked or *)
(* not.                                                                    *)
THEOREM RequestsAgree ==
  ASSUME Solo
  PROVE  ProjectsSpec => CompletedAgrees
<1>1. ProjectsInit => ProjectsInv
  BY ProjectsStarts
<1>2. ProjectsInv /\ [ProjectsNext]_projectVars => ProjectsInv'
  BY ProjectsStep
<1>3. ProjectsInv /\ [ProjectsNext]_projectVars =>
        [\A r \in Requests : Completes(r) => Agree(row'.deployment, xform')]_deploymentVars
  <2> SUFFICES ASSUME ProjectsInv, [ProjectsNext]_projectVars, deploymentVars' # deploymentVars,
                      NEW r \in Requests, Completes(r)
               PROVE  Agree(row'.deployment, xform')
    OBVIOUS
  <2>1. SoloInv
    BY Moving DEF ProjectsInv
  <2>2. QED
    BY <2>1, SoloSync, SoloSaveToDb DEF Completes
<1>4. QED
  BY <1>1, <1>2, <1>3, PTL DEF ProjectsSpec, CompletedAgrees

(* Edits, deployments, changes of state and removals, each one of several  *)
(* steps that a crash may cut between any two, implement the abstract      *)
(* specification: a form is published from the draft in one step, is       *)
(* noticed later, and is never left behind by a row that knew of it.       *)
THEOREM ImplementsPublished ==
  ASSUME Solo
  PROVE  ProjectsSpec => ImplementsPublication
<1>1. ProjectsInit => ProjectsInv /\ P!PublicationInit
  BY ProjectsStarts, SoloStarts DEF ProjectsInit
<1>2. ProjectsInv /\ [ProjectsNext]_projectVars => ProjectsInv'
  BY ProjectsStep
<1>3. ProjectsInv /\ [ProjectsNext]_projectVars => [P!PublicationNext]_P!publicationVars
  <2> SUFFICES ASSUME ProjectsInv, [ProjectsNext]_projectVars
               PROVE  P!PublicationNext \/ UNCHANGED P!publicationVars
    OBVIOUS
  <2>1. CASE UNCHANGED deploymentVars
    BY <2>1 DEF deploymentVars, P!publicationVars
  <2>2. CASE turn = "alone" /\ DeploymentsNext
    <3>1. P!PublicationNext \/ UNCHANGED <<Draft, FormOf, Known>>
      BY <2>2, Refines DEF ProjectsInv
    <3>2. QED
      BY <3>1 DEF P!publicationVars, Draft, FormOf, Known
  <2>3. QED
    BY <2>1, <2>2, Moving
<1>4. QED
  BY <1>1, <1>2, <1>3, PTL DEF ProjectsSpec, ImplementsPublication, P!PublicationSpec

=============================================================================
