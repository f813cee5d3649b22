---------------------------- MODULE Files_proofs ----------------------------
(***************************************************************************)
(* What is proved of media files, of the data that forms pull from other   *)
(* projects, and of the requests of users with row-level access, for every *)
(* number of files, workers, connections, submissions and endpoints.       *)
(*                                                                         *)
(* The three share no state and one of them moves in a behaviour, so that  *)
(* each has an inductive invariant of its own (PairedInv, AccessInv,       *)
(* MediaInv), and FilesInv at the end says which of them holds when.       *)
(***************************************************************************)
EXTENDS MCFiles, SequenceTheorems, FiniteSetTheorems, TLAPS

-----------------------------------------------------------------------------
(***************************************************************************)
(* Data of other projects: the file of a connection is of its fields.      *)
(***************************************************************************)

(* What a request about a connection may be doing.                         *)
Calling ==
  [pc : {"void", "save", "sync"}, source : Sources, pair : D!Pair]
    \cup [pc : {"purge", "forget", "sync"}, source : Sources] \cup [pc : {"sync"}] \cup {D!Idle}

(* The file of connection u is there, with its content.                    *)
Content(u) == xml[u] # Nothing /\ xml[u].content # Nothing

(* A request that is about to write has an identity and a filename that no *)
(* other connection has, and no file is there whose content it would keep. *)
Requested ==
  /\ request \in Calling
  /\ request.pc \in {"void", "save"} =>
       /\ request.source \in Sources /\ request.pair \in D!Pair
       /\ request.pair.uid <= uids
       /\ pairs[request.source] # Nothing => pairs[request.source].uid = request.pair.uid
       /\ \A t \in Sources : pairs[t] # Nothing /\ t # request.source =>
            pairs[t].uid # request.pair.uid /\ pairs[t].filename # request.pair.filename
  /\ request.pc = "save" => ~ Content(request.pair.uid)
  /\ request.pc \in {"purge", "forget"} =>
       request.source \in Sources /\ pairs[request.source] # Nothing
  /\ request.pc = "forget" => ~ Content(pairs[request.source].uid)

(* Identities are given in turn.                                           *)
Numbered == \A s \in Sources : pairs[s] # Nothing => pairs[s].uid <= uids

(* The inductive invariant of connections.                                 *)
PairedInv ==
  /\ D!PairedTypeOK /\ Requested /\ Numbered
  /\ D!FilesAreOfTheirPairs /\ D!KobocatKnowsHashes

(* What the assumption on the constants says, fact by fact.                *)
LEMMA Bounds == MaxUids \in Nat /\ MaxFiles \in Nat /\ MaxMetadata \in Nat
  BY FilesAssumption

(* The fields that a source shares or a connection keeps are fields.       *)
LEMMA FieldSets ==
  ASSUME NEW s \in Sources
  PROVE  /\ FieldsOf[s] \in SUBSET D!Fields
         /\ \A f \in SUBSET FieldsOf[s] : D!Kept(s, f) \in SUBSET FieldsOf[s]
         /\ \A sh \in D!Shared(s) : sh.fields \in SUBSET FieldsOf[s]
  BY DEF FieldsOf, D!Fields, D!Kept, D!Shared

(* What the types say of connections and of their files.                   *)
LEMMA Readings ==
  ASSUME D!PairedTypeOK
  PROVE  /\ \A s \in Sources : pairs[s] # Nothing =>
              /\ pairs[s] \in D!Pair /\ pairs[s].uid \in D!Uids /\ pairs[s].filename \in Filenames
              /\ pairs[s].fields \in SUBSET D!Fields
         /\ \A u \in D!Uids : xml[u] # Nothing => xml[u] \in D!XmlFile
         /\ \A s \in Sources : pairs[s] # Nothing => D!Kept(s,
             D!AllowedFields(s)) \in SUBSET D!Fields
         /\ \A s \in Sources : D!Askable(s) \subseteq SUBSET D!Fields
         /\ uids \in Nat /\ uids <= MaxUids
<1>1. \A s \in Sources : pairs[s] # Nothing =>
              /\ pairs[s] \in D!Pair /\ pairs[s].uid \in D!Uids /\ pairs[s].filename \in Filenames
              /\ pairs[s].fields \in SUBSET D!Fields
  BY DEF D!PairedTypeOK, D!Pair
<1>2. \A u \in D!Uids : xml[u] # Nothing => xml[u] \in D!XmlFile
  BY DEF D!PairedTypeOK
<1>3. \A s \in Sources : sharing[s].fields \in SUBSET FieldsOf[s] /\ FieldsOf[s] \in SUBSET D!Fields
  BY FieldSets DEF D!PairedTypeOK
<1>4. \A s \in Sources : D!Askable(s) \subseteq SUBSET D!Fields
  BY <1>3, FieldSets DEF D!Askable
<1>5. \A s \in Sources : pairs[s] # Nothing => D!Kept(s, D!AllowedFields(s)) \in SUBSET D!Fields
  BY <1>1, <1>3 DEF D!Kept, D!AllowedFields
<1>6. uids \in Nat /\ uids <= MaxUids
  BY Bounds DEF D!PairedTypeOK
<1>7. QED
  BY <1>1, <1>2, <1>3, <1>4, <1>5, <1>6

(* What voiding a file leaves.                                             *)
LEMMA VoidedFile ==
  ASSUME NEW x \in D!XmlFile
  PROVE  [x EXCEPT !.content = Nothing] = [content |-> Nothing, hash |-> x.hash]
         /\ [content |-> Nothing, hash |-> x.hash] \in D!XmlFile
  BY DEF D!XmlFile

(* What voiding the file of a connection changes, and what it does not.    *)
LEMMA Voids ==
  ASSUME D!PairedTypeOK, NEW u \in D!Uids, xml[u] # Nothing,
         xml' = [xml EXCEPT ![u].content = Nothing]
  PROVE  xml' = [xml EXCEPT ![u] = [content |-> Nothing, hash |-> xml[u].hash]]
         /\ [content |-> Nothing, hash |-> xml[u].hash] \in D!XmlFile
<1>1. xml[u] \in D!XmlFile
  BY Readings
<1>2. xml' = [xml EXCEPT ![u] = [xml[u] EXCEPT !.content = Nothing]]
  OBVIOUS
<1>3. QED
  BY <1>1, <1>2, VoidedFile

(* PairedInv holds at first.                                               *)
LEMMA PairedStarts == ASSUME D!PairedInit PROVE PairedInv
<1>0. \A s \in Sources : [enabled |-> TRUE, fields |-> {}] \in D!Shared(s)
  BY DEF D!Shared
<1>1. D!PairedTypeOK
  <2>1. \A s \in Sources : sharing[s] \in D!Shared(s)
    BY <1>0 DEF D!PairedInit
  <2>2. uids \in 0..MaxUids
    BY Bounds DEF D!PairedInit
  <2>3. xml \in [D!Uids -> D!XmlFile \cup {Nothing}] /\ pairs \in [Sources -> D!Pair \cup {Nothing}]
    BY DEF D!PairedInit
  <2>4. \A u \in D!Uids : hashes[u] = Nothing
    BY DEF D!PairedInit
  <2>5. \A s \in Sources : pairs[s] = Nothing
    BY DEF D!PairedInit
  <2>6. old = {} /\ cut = FALSE
    BY DEF D!PairedInit
  <2>7. QED
    BY <2>1, <2>2, <2>3, <2>4, <2>5, <2>6 DEF D!PairedTypeOK
<1>2. Requested /\ Numbered
  BY DEF D!PairedInit, Requested, Numbered, Calling, D!Idle
<1>3. D!FilesAreOfTheirPairs /\ D!KobocatKnowsHashes
  BY DEF D!PairedInit, D!FilesAreOfTheirPairs, D!KobocatKnowsHashes, D!Paired
<1>4. QED
  BY <1>1, <1>2, <1>3 DEF PairedInv

(* Every step keeps the types.                                             *)
LEMMA PairedTypes ==
  ASSUME D!PairedTypeOK, Requested, D!PairedNext
  PROVE  D!PairedTypeOK'
<1> DEFINE SharingOK == \A s \in Sources : sharing'[s] \in D!Shared(s)
           PairsOK == pairs' \in [Sources -> D!Pair \cup {Nothing}]
           XmlOK   == xml' \in [D!Uids -> D!XmlFile \cup {Nothing}]
           HashesOK == \A u \in D!Uids : hashes'[u] \in (SUBSET D!Fields) \cup {Nothing,
           D!OfTheMoment}
           RestOK  == uids' \in 0..MaxUids /\ old' \subseteq D!Uids /\ cut' \in BOOLEAN
           Unique  == \A s, t \in Sources : s # t /\ pairs'[s] # Nothing
           /\ pairs'[t] # Nothing => pairs'[s].uid # pairs'[t].uid
<1> SUFFICES SharingOK /\ PairsOK /\ XmlOK /\ HashesOK /\ RestOK /\ Unique
  BY DEF D!PairedTypeOK
<1>a. UNCHANGED sharing => SharingOK
  BY DEF D!PairedTypeOK
<1>b. UNCHANGED pairs => PairsOK /\ Unique
  BY DEF D!PairedTypeOK
<1>c. UNCHANGED xml => XmlOK
  BY DEF D!PairedTypeOK
<1>d. UNCHANGED hashes => HashesOK
  BY DEF D!PairedTypeOK
<1>e. uids \in 0..MaxUids /\ old \subseteq D!Uids /\ cut \in BOOLEAN
  BY DEF D!PairedTypeOK
<1>f. ASSUME NEW s \in Sources, NEW p \in D!Pair \cup {Nothing}, pairs' = [pairs EXCEPT ![s] = p]
      PROVE  PairsOK
  BY <1>f DEF D!PairedTypeOK
<1>g. ASSUME NEW u \in D!Uids, NEW x \in D!XmlFile \cup {Nothing}, xml' = [xml EXCEPT ![u] = x]
      PROVE  XmlOK
  BY <1>g DEF D!PairedTypeOK
<1> HIDE DEF SharingOK, PairsOK, XmlOK, HashesOK, Unique
<1>1. ASSUME NEW s \in Sources, D!Create(s) \/ D!Update(s) \/ D!Unpair(s)
      PROVE  SharingOK /\ PairsOK /\ XmlOK /\ HashesOK /\ RestOK /\ Unique
  BY <1>1, <1>a, <1>b, <1>c, <1>d, <1>e, Bounds DEF D!Create, D!Update, D!Unpair
<1>2. ASSUME NEW s \in Sources, D!External(s)
      PROVE  SharingOK /\ PairsOK /\ XmlOK /\ HashesOK /\ RestOK /\ Unique
  <2>1. UNCHANGED <<sharing, pairs, hashes, uids, cut>> /\ old' = old \ {D!UidOf(s)}
    BY <1>2 DEF D!External
  <2>2. D!UidOf(s) \in D!Uids /\ D!Kept(s, D!AllowedFields(s)) \in SUBSET D!Fields
    BY <1>2, Readings DEF D!External, D!Paired, D!UidOf
  <2>3. [content |-> D!Kept(s, D!AllowedFields(s)), hash |-> D!Kept(s,
        D!AllowedFields(s))] \in D!XmlFile
    BY <2>2 DEF D!XmlFile
  <2>4. XmlOK
    BY <1>2, <2>2, <2>3, <1>g DEF D!External
  <2>5. QED
    BY <2>1, <2>4, <1>a, <1>b, <1>d, <1>e
<1>3. ASSUME NEW s \in Sources, NEW shared \in D!Shared(s), D!Share(s, shared)
      PROVE  SharingOK /\ PairsOK /\ XmlOK /\ HashesOK /\ RestOK /\ Unique
  <2>1. SharingOK
    BY <1>3 DEF D!Share, SharingOK, D!PairedTypeOK
  <2>2. RestOK
    BY <1>3, <1>e, Readings DEF D!Share, D!UidOf
  <2>3. QED
    BY <1>3, <2>1, <2>2, <1>b, <1>c, <1>d DEF D!Share
<1>4. CASE D!Voiding
  <2>1. request.pair.uid \in D!Uids
    BY <1>4 DEF D!Voiding, D!Void, Requested, D!Pair
  <2>2. XmlOK
    <3>1. CASE xml[request.pair.uid] = Nothing
      BY <1>4, <3>1, <1>c DEF D!Voiding, D!Void
    <3>2. CASE xml[request.pair.uid] # Nothing
      <4>1. xml' = [xml EXCEPT ![request.pair.uid].content = Nothing]
        BY <1>4, <3>2 DEF D!Voiding, D!Void
      <4>2. QED
        BY <2>1, <3>2, <4>1, Voids, <1>g
    <3>3. QED
      BY <3>1, <3>2
  <2>3. RestOK
    BY <1>4, <1>e DEF D!Voiding, D!Void
  <2>4. QED
    BY <1>4, <2>2, <2>3, <1>a, <1>b, <1>d DEF D!Voiding
<1>5. CASE D!SavePair
  <2>1. request.source \in Sources /\ request.pair \in D!Pair
    BY <1>5 DEF D!SavePair, Requested
  <2>2. PairsOK
    BY <1>5, <2>1, <1>f DEF D!SavePair
  <2>3. Unique
    <3>1. \A t \in Sources : pairs'[t] = IF t = request.source THEN request.pair ELSE pairs[t]
      BY <1>5 DEF D!SavePair, D!PairedTypeOK
    <3>2. \A t \in Sources : pairs[t] # Nothing /\ t # request.source =>
            pairs[t].uid # request.pair.uid
      BY <1>5 DEF D!SavePair, Requested
    <3>3. QED
      BY <3>1, <3>2, <2>1 DEF Unique, D!PairedTypeOK
  <2>4. QED
    BY <1>5, <2>2, <2>3, <1>a, <1>c, <1>d, <1>e DEF D!SavePair
<1>6. CASE D!Purge
  <2>1. D!UidOf(request.source) \in D!Uids
    BY <1>6, Readings DEF D!Purge, Requested, D!UidOf
  <2>2. XmlOK
    BY <1>6, <2>1, <1>g DEF D!Purge
  <2>3. QED
    BY <1>6, <2>2, <1>a, <1>b, <1>d, <1>e DEF D!Purge
<1>7. CASE D!Forget
  <2>1. request.source \in Sources
    BY <1>7 DEF D!Forget, Requested
  <2>2. PairsOK
    BY <1>7, <2>1, <1>f DEF D!Forget
  <2>3. Unique
    BY <1>7, <2>1 DEF D!Forget, Unique, D!PairedTypeOK
  <2>4. QED
    BY <1>7, <2>2, <2>3, <1>a, <1>c, <1>d, <1>e DEF D!Forget
<1>8. CASE D!Sync
  <2>1. \A u \in D!Uids : D!HashOf(u) \in (SUBSET D!Fields) \cup {D!OfTheMoment}
    BY Readings DEF D!HashOf, D!XmlFile
  <2>2. HashesOK
    BY <1>8, <2>1 DEF D!Sync, HashesOK
  <2>3. QED
    BY <1>8, <2>2, <1>a, <1>b, <1>c, <1>e DEF D!Sync
<1>9. CASE D!Cut
  BY <1>9, <1>a, <1>b, <1>c, <1>d, <1>e DEF D!Cut
<1>10. QED
  BY <1>1, <1>2, <1>3, <1>4, <1>5, <1>6, <1>7, <1>8, <1>9 DEF D!PairedNext

(* Every step keeps what is said of requests and identities.               *)
LEMMA RequestedStep ==
  ASSUME D!PairedTypeOK, Requested, Numbered, D!FilesAreOfTheirPairs, D!PairedNext
  PROVE  Requested' /\ Numbered'
<1>a. UNCHANGED <<pairs, uids>> => Numbered'
  BY DEF Numbered
<1>i. request' = D!Idle => Requested'
  BY DEF Requested, D!Idle, Calling
<1>1. ASSUME NEW s \in Sources, D!Create(s) PROVE Requested' /\ Numbered'
  <2>1. PICK name \in Filenames, fields \in D!Askable(s) :
          /\ D!FilenameFree(s, name)
          /\ request' = [pc |-> "save", source |-> s,
                         pair |-> [uid |-> uids + 1, filename |-> name, fields |-> fields]]
    BY <1>1 DEF D!Create
  <2> DEFINE pair == [uid |-> uids + 1, filename |-> name, fields |-> fields]
  <2>2. uids + 1 \in D!Uids /\ uids' = uids + 1 /\ UNCHANGED <<pairs, xml>>
        /\ pairs[s] = Nothing /\ uids \in Nat
    BY <1>1, Readings, Bounds DEF D!Create, D!Uids
  <2>3. pair \in D!Pair
    BY <2>2, Readings DEF D!Pair
  <2>4. pair.uid = uids + 1 /\ pair.filename = name
    OBVIOUS
  <2>5. Numbered'
    <3>1. \A t \in Sources : pairs[t] # Nothing => pairs[t].uid \in D!Uids
      BY Readings
    <3>2. QED
      BY <2>2, <3>1 DEF Numbered, D!Uids
  <2>6. \A t \in Sources : pairs[t] # Nothing => pairs[t].uid # uids + 1 /\ pairs[t].uid \in Nat
    <3>1. \A t \in Sources : pairs[t] # Nothing => pairs[t].uid \in D!Uids
      BY Readings
    <3>2. QED
      BY <2>2, <3>1 DEF Numbered, D!Uids
  <2>7. ~ Content(uids + 1)
    BY <2>2, <2>6 DEF D!FilesAreOfTheirPairs, Content, D!Paired, D!UidOf
  <2>8. \A t \in Sources : pairs[t] # Nothing /\ t # s => pairs[t].filename # name
    BY <2>1 DEF D!FilenameFree, D!Paired
  <2>9. request' = [pc |-> "save", source |-> s, pair |-> pair]
    BY <2>1
  <2> HIDE DEF pair
  <2>10. request' \in Calling /\ request'.pc = "save" /\ request'.source = s /\ request'.pair = pair
    BY <2>3, <2>9 DEF Calling
  <2>11. ~ (xml'[pair.uid] # Nothing /\ xml'[pair.uid].content # Nothing)
    BY <2>2, <2>4, <2>7 DEF Content
  <2>12. pair.uid <= uids'
    BY <2>2, <2>4
  <2>13. Requested'
    BY <2>2, <2>3, <2>4, <2>6, <2>8, <2>10, <2>11, <2>12 DEF Requested, Content
  <2>14. QED
    BY <2>5, <2>13
<1>2. ASSUME NEW s \in Sources, D!Update(s) PROVE Requested' /\ Numbered'
  <2>1. PICK name \in Filenames, fields \in D!Askable(s) :
          /\ D!FilenameFree(s, name)
          /\ request' = [pc |-> "void", source |-> s,
                         pair |-> [uid |-> D!UidOf(s), filename |-> name, fields |-> fields]]
    BY <1>2 DEF D!Update
  <2> DEFINE pair == [uid |-> D!UidOf(s), filename |-> name, fields |-> fields]
  <2>2. UNCHANGED <<pairs, uids, xml>> /\ pairs[s] # Nothing
    BY <1>2 DEF D!Update, D!Paired
  <2>3. pair \in D!Pair
    BY <2>2, Readings DEF D!Pair, D!UidOf
  <2>4. pair.uid = pairs[s].uid /\ pair.filename = name
    BY DEF D!UidOf
  <2>5. pairs[s].uid <= uids
    BY <2>2 DEF Numbered
  <2>6. \A t \in Sources : pairs[t] # Nothing /\ t # s => pairs[t].uid # pairs[s].uid
    BY <2>2 DEF D!PairedTypeOK
  <2>8. \A t \in Sources : pairs[t] # Nothing /\ t # s => pairs[t].filename # name
    BY <2>1 DEF D!FilenameFree, D!Paired
  <2>9. request' = [pc |-> "void", source |-> s, pair |-> pair]
    BY <2>1
  <2> HIDE DEF pair
  <2>10. request' \in Calling /\ request'.pc = "void" /\ request'.source = s /\ request'.pair = pair
    BY <2>3, <2>9 DEF Calling
  <2>13. Requested'
    BY <2>2, <2>3, <2>4, <2>5, <2>6, <2>8, <2>10 DEF Requested
  <2>14. QED
    BY <2>2, <2>13, <1>a
<1>3. ASSUME NEW s \in Sources, D!Unpair(s) PROVE Requested' /\ Numbered'
  BY <1>3, <1>a DEF D!Unpair, D!Paired, Requested, Calling
<1>4. ASSUME NEW s \in Sources, D!External(s) PROVE Requested' /\ Numbered'
  <2>1. request' = D!Idle \/ request' = [pc |-> "sync"]
    BY <1>4 DEF D!External
  <2>2. Requested'
    BY <2>1, <1>i DEF Requested, Calling
  <2>3. QED
    BY <1>4, <1>a, <2>2 DEF D!External
<1>5. ASSUME NEW s \in Sources, NEW shared \in D!Shared(s), D!Share(s, shared)
      PROVE  Requested' /\ Numbered'
  BY <1>5, <1>a, <1>i DEF D!Share
<1>6. CASE D!Voiding
  <2>0. /\ request.source \in Sources /\ request.pair \in D!Pair /\ request.pair.uid \in D!Uids
        /\ request.pc = "void" /\ request \in Calling
        /\ UNCHANGED <<pairs, uids>>
    BY <1>6 DEF D!Voiding, D!Void, Requested, D!Pair
  <2>1. request' = [request EXCEPT !.pc = "save"]
    BY <1>6 DEF D!Voiding, D!Void, D!Then
  <2>2. request \in [pc : {"void", "save", "sync"}, source : Sources, pair : D!Pair]
    BY <2>0 DEF Calling, D!Idle
  <2>3. /\ request' \in Calling /\ request'.pc = "save"
        /\ request'.source = request.source /\ request'.pair = request.pair
    BY <2>1, <2>2 DEF Calling
  <2>4. ~ (xml'[request.pair.uid] # Nothing /\ xml'[request.pair.uid].content # Nothing)
    <3>1. CASE xml[request.pair.uid] = Nothing
      BY <1>6, <3>1 DEF D!Voiding, D!Void
    <3>2. CASE xml[request.pair.uid] # Nothing
      <4>1. xml' = [xml EXCEPT ![request.pair.uid].content = Nothing]
        BY <1>6, <3>2 DEF D!Voiding, D!Void
      <4>2. xml' = [xml EXCEPT ![request.pair.uid] = [content |-> Nothing,
            hash |-> xml[request.pair.uid].hash]]
        BY <2>0, <3>2, <4>1, Voids
      <4>3. xml'[request.pair.uid] = [content |-> Nothing, hash |-> xml[request.pair.uid].hash]
        BY <2>0, <4>2 DEF D!PairedTypeOK
      <4>4. QED
        BY <4>3
    <3>3. QED
      BY <3>1, <3>2
  <2>5. Requested'
    BY <2>0, <2>3, <2>4 DEF Requested, Content
  <2>6. QED
    BY <2>0, <2>5, <1>a
<1>7. CASE D!SavePair
  <2>0. /\ request.source \in Sources /\ request.pair \in D!Pair /\ request.pair.uid <= uids
        /\ request.pc = "save" /\ request \in Calling /\ UNCHANGED uids
    BY <1>7 DEF D!SavePair, Requested
  <2>1. request \in [pc : {"void", "save", "sync"}, source : Sources, pair : D!Pair]
    BY <2>0 DEF Calling, D!Idle
  <2>2. request' = [request EXCEPT !.pc = "sync"]
    BY <1>7 DEF D!SavePair, D!Then
  <2>3. request' \in Calling /\ request'.pc = "sync"
    BY <2>1, <2>2 DEF Calling
  <2>4. Requested'
    BY <2>3 DEF Requested
  <2>5. pairs' = [pairs EXCEPT ![request.source] = request.pair]
    BY <1>7 DEF D!SavePair
  <2>6. Numbered'
    BY <2>0, <2>5 DEF Numbered, D!PairedTypeOK
  <2>7. QED
    BY <2>4, <2>6
<1>8. CASE D!Purge
  <2>0. /\ request.source \in Sources /\ pairs[request.source] # Nothing
        /\ request.pc = "purge" /\ request \in Calling /\ UNCHANGED <<pairs, uids>>
    BY <1>8 DEF D!Purge, Requested
  <2>1. request \in [pc : {"purge", "forget", "sync"}, source : Sources]
    BY <2>0 DEF Calling, D!Idle
  <2>2. request' = [request EXCEPT !.pc = "forget"]
    BY <1>8 DEF D!Purge, D!Then
  <2>3. request' \in Calling /\ request'.pc = "forget" /\ request'.source = request.source
    BY <2>1, <2>2 DEF Calling
  <2>4. xml' = [xml EXCEPT ![pairs[request.source].uid] = Nothing]
    BY <1>8 DEF D!Purge, D!UidOf
  <2>5. pairs[request.source].uid \in D!Uids
    BY <2>0, Readings
  <2>6. xml'[pairs[request.source].uid] = Nothing
    BY <2>0, <2>4, <2>5 DEF D!PairedTypeOK
  <2>7. Requested'
    BY <2>0, <2>3, <2>6 DEF Requested, Content
  <2>8. QED
    BY <2>0, <2>7, <1>a
<1>9. CASE D!Forget
  <2>0. /\ request.source \in Sources /\ request.pc = "forget" /\ request \in Calling
            /\ UNCHANGED uids
    BY <1>9 DEF D!Forget, Requested
  <2>1. request \in [pc : {"purge", "forget", "sync"}, source : Sources]
    BY <2>0 DEF Calling, D!Idle
  <2>2. request' = [request EXCEPT !.pc = "sync"]
    BY <1>9 DEF D!Forget, D!Then
  <2>3. request' \in Calling /\ request'.pc = "sync"
    BY <2>1, <2>2 DEF Calling
  <2>4. Requested'
    BY <2>3 DEF Requested
  <2>5. Numbered'
    BY <1>9, <2>0 DEF D!Forget, Numbered, D!PairedTypeOK
  <2>6. QED
    BY <2>4, <2>5
<1>10. CASE D!Sync
  BY <1>10, <1>a, <1>i DEF D!Sync, D!Over
<1>11. CASE D!Cut
  BY <1>11, <1>a, <1>i DEF D!Cut, D!Over
<1>12. QED
  BY <1>1, <1>2, <1>3, <1>4, <1>5, <1>6, <1>7, <1>8, <1>9, <1>10, <1>11 DEF D!PairedNext

(* Some connection has identity u.                                         *)
Theirs(u) == \E s \in Sources : /\ pairs[s] # Nothing /\ pairs[s].uid = u
                                /\ u \in old \/ xml[u].content = D!Kept(s, D!AllowedFields(s))

(* FilesAreOfTheirPairs, said of one file at a time.                       *)
LEMMA FilesMeans ==
  /\ D!FilesAreOfTheirPairs <=>
       /\ \A u \in D!Uids : Content(u) => Theirs(u)
       /\ \A s, t \in Sources : pairs[s] # Nothing /\ pairs[t] # Nothing
            /\ pairs[s].filename = pairs[t].filename => s = t
  BY DEF D!FilesAreOfTheirPairs, Content, Theirs, D!Paired, D!UidOf

(* A connection that stays keeps its identity.                             *)
LEMMA TheirsStays ==
  ASSUME NEW u, Theirs(u), \A s \in Sources : pairs[s] # Nothing /\ pairs[s].uid = u =>
           pairs'[s] = pairs[s],
         UNCHANGED sharing, xml'[u] = xml[u], u \in old => u \in old'
  PROVE  Theirs(u)'
  BY DEF Theirs, D!Kept, D!AllowedFields

(* Every step keeps the files those of their connections: what a file      *)
(* contains is what the connection keeps of what the source allows at that *)
(* moment, and later changes of either void it or mark it old.             *)
LEMMA FilesStep ==
  ASSUME D!PairedTypeOK, Requested, D!FilesAreOfTheirPairs, D!PairedNext
  PROVE  D!FilesAreOfTheirPairs'
<1> DEFINE A1 == \A u \in D!Uids : Content(u)' => Theirs(u)'
           A2 == \A s, t \in Sources : pairs'[s] # Nothing /\ pairs'[t] # Nothing
            /\ pairs'[s].filename = pairs'[t].filename => s = t
<1> SUFFICES A1 /\ A2
  BY FilesMeans DEF Content, Theirs, D!FilesAreOfTheirPairs, D!Paired, D!UidOf
<1>0. /\ \A u \in D!Uids : Content(u) => Theirs(u)
      /\ \A s, t \in Sources : pairs[s] # Nothing /\ pairs[t] # Nothing
            /\ pairs[s].filename = pairs[t].filename => s = t
  BY FilesMeans
<1>a. UNCHANGED pairs => A2
  BY <1>0
<1>b. UNCHANGED <<pairs, sharing, xml, old>> => A1 /\ A2
  BY <1>0, <1>a, TheirsStays DEF Content
<1>c. \A s \in Sources : pairs[s] # Nothing => pairs[s].uid \in D!Uids
  BY Readings
<1>d. ASSUME NEW u \in D!Uids, UNCHANGED <<pairs, sharing>>, old' = old \ {u},
             \A v \in D!Uids \ {u} : xml'[v] = xml[v], Content(u)' => Theirs(u)'
      PROVE  A1 /\ A2
  BY <1>0, <1>a, <1>d, TheirsStays DEF Content
<1> HIDE DEF A1, A2
<1>1. ASSUME NEW s \in Sources, D!Create(s) \/ D!Update(s) \/ D!Unpair(s) PROVE A1 /\ A2
  BY <1>1, <1>b DEF D!Create, D!Update, D!Unpair
<1>2. ASSUME NEW s \in Sources, D!External(s) PROVE A1 /\ A2
  <2> DEFINE file == D!Kept(s, D!AllowedFields(s))
  <2>0. PICK u \in D!Uids : u = pairs[s].uid
    BY <1>2, <1>c DEF D!External, D!Paired
  <2>1. pairs[s] # Nothing /\ UNCHANGED <<pairs, sharing>> /\ old' = old \ {u}
    BY <1>2, <2>0 DEF D!External, D!Paired, D!UidOf
  <2>2. \/ xml' = [xml EXCEPT ![u] = Nothing]
        \/ xml' = [xml EXCEPT ![u] = [content |-> file, hash |-> file]]
    BY <1>2, <2>0 DEF D!External, D!UidOf
  <2>3. \A v \in D!Uids \ {u} : xml'[v] = xml[v]
    BY <2>2 DEF D!PairedTypeOK
  <2>4. xml'[u] = Nothing \/ xml'[u].content = file
    BY <2>1, <2>2 DEF D!PairedTypeOK
  <2>5. file = D!Kept(s, D!AllowedFields(s))'
    BY <2>1 DEF D!Kept, D!AllowedFields
  <2>6. Content(u)' => Theirs(u)'
    BY <2>0, <2>1, <2>4, <2>5 DEF Content, Theirs
  <2>7. QED
    BY <2>1, <2>3, <2>6, <1>d
<1>3. ASSUME NEW s \in Sources, NEW shared \in D!Shared(s), D!Share(s, shared) PROVE A1 /\ A2
  <2>1. UNCHANGED <<pairs, xml>> /\ sharing' = [sharing EXCEPT ![s] = shared]
        /\ old' = IF pairs[s] = Nothing THEN old ELSE old \cup {pairs[s].uid}
    BY <1>3 DEF D!Share, D!UidOf
  <2>2. ASSUME NEW u \in D!Uids, Content(u)' PROVE Theirs(u)'
    <3>1. PICK t \in Sources : /\ pairs[t] # Nothing /\ pairs[t].uid = u
                               /\ u \in old \/ xml[u].content = D!Kept(t, D!AllowedFields(t))
      BY <1>0, <2>1, <2>2 DEF Content, Theirs
    <3>2. CASE t = s
      BY <2>1, <3>1, <3>2 DEF Theirs
    <3>3. CASE t # s
      <4>1. D!Kept(t, D!AllowedFields(t))' = D!Kept(t, D!AllowedFields(t))
        BY <2>1, <3>3 DEF D!Kept, D!AllowedFields
      <4>2. QED
        BY <2>1, <3>1, <4>1 DEF Theirs
    <3>4. QED
      BY <3>2, <3>3
  <2>3. QED
    BY <2>1, <2>2, <1>a DEF A1
<1>4. CASE D!Voiding
  <2>0. PICK u \in D!Uids : u = request.pair.uid
    BY <1>4 DEF D!Voiding, D!Void, Requested, D!Pair
  <2>1. UNCHANGED <<pairs, sharing>>
    BY <1>4 DEF D!Voiding
  <2>2. CASE xml[u] = Nothing
    BY <1>4, <2>0, <2>2, <1>b DEF D!Voiding, D!Void
  <2>3. CASE xml[u] # Nothing
    <3>1. xml' = [xml EXCEPT ![u].content = Nothing] /\ old' = old \ {u}
      BY <1>4, <2>0, <2>3 DEF D!Voiding, D!Void
    <3>2. xml' = [xml EXCEPT ![u] = [content |-> Nothing, hash |-> xml[u].hash]]
      BY <2>1, <2>3, <3>1, Voids
    <3>3. \A v \in D!Uids \ {u} : xml'[v] = xml[v]
      BY <3>2 DEF D!PairedTypeOK
    <3>4. xml'[u] = [content |-> Nothing, hash |-> xml[u].hash]
      BY <2>1, <3>2 DEF D!PairedTypeOK
    <3>5. ~ Content(u)' 
      BY <3>4 DEF Content
    <3>6. QED
      BY <2>1, <3>1, <3>3, <3>5, <1>d
  <2>4. QED
    BY <2>2, <2>3
<1>5. CASE D!SavePair
  <2>1. /\ request.source \in Sources /\ ~ Content(request.pair.uid)
        /\ pairs[request.source] # Nothing => pairs[request.source].uid = request.pair.uid
        /\ \A t \in Sources : pairs[t] # Nothing /\ t # request.source =>
             pairs[t].filename # request.pair.filename
    BY <1>5 DEF D!SavePair, Requested
  <2>2. UNCHANGED <<sharing, xml, old>>
    BY <1>5 DEF D!SavePair
  <2>3. \A t \in Sources : pairs'[t] = IF t = request.source THEN request.pair ELSE pairs[t]
    BY <1>5 DEF D!SavePair, D!PairedTypeOK
  <2>4. A2
    BY <1>0, <2>1, <2>3 DEF A2
  <2>5. ASSUME NEW u \in D!Uids, Content(u)' PROVE Theirs(u)'
    <3>1. Content(u) /\ Theirs(u) /\ u # request.pair.uid
      BY <1>0, <2>1, <2>2, <2>5 DEF Content
    <3>2. \A t \in Sources : pairs[t] # Nothing /\ pairs[t].uid = u => pairs'[t] = pairs[t]
      BY <2>1, <2>3, <3>1
    <3>3. QED
      BY <2>2, <3>1, <3>2, TheirsStays
  <2>6. QED
    BY <2>4, <2>5 DEF A1
<1>6. CASE D!Purge
  <2>0. PICK u \in D!Uids : u = pairs[request.source].uid
    BY <1>6, <1>c DEF D!Purge, Requested
  <2>1. UNCHANGED <<pairs, sharing>> /\ old' = old \ {u} /\ xml' = [xml EXCEPT ![u] = Nothing]
    BY <1>6, <2>0 DEF D!Purge, Requested, D!UidOf
  <2>2. xml'[u] = Nothing /\ \A v \in D!Uids \ {u} : xml'[v] = xml[v]
    BY <2>1 DEF D!PairedTypeOK
  <2>3. ~ Content(u)'
    BY <2>2 DEF Content
  <2>4. QED
    BY <2>1, <2>2, <2>3, <1>d
<1>7. CASE D!Forget
  <2>1. /\ request.source \in Sources /\ pairs[request.source] # Nothing
        /\ ~ Content(pairs[request.source].uid)
        /\ UNCHANGED <<sharing, xml, old>>
    BY <1>7 DEF D!Forget, Requested
  <2>3. \A t \in Sources : pairs'[t] = IF t = request.source THEN Nothing ELSE pairs[t]
    BY <1>7 DEF D!Forget, D!PairedTypeOK
  <2>4. A2
    BY <1>0, <2>1, <2>3 DEF A2
  <2>5. ASSUME NEW u \in D!Uids, Content(u)' PROVE Theirs(u)'
    <3>1. Content(u) /\ Theirs(u) /\ u # pairs[request.source].uid
      BY <1>0, <2>1, <2>5 DEF Content
    <3>2. \A t \in Sources : pairs[t] # Nothing /\ pairs[t].uid = u => pairs'[t] = pairs[t]
      BY <2>1, <2>3, <3>1
    <3>3. QED
      BY <2>1, <3>1, <3>2, TheirsStays
  <2>6. QED
    BY <2>4, <2>5 DEF A1
<1>8. CASE D!Sync \/ D!Cut
  BY <1>8, <1>b DEF D!Sync, D!Cut
<1>9. QED
  BY <1>1, <1>2, <1>3, <1>4, <1>5, <1>6, <1>7, <1>8 DEF D!PairedNext

(* Whenever no request is under way and none was cut short KoBoCAT knows   *)
(* every hash: a request that writes one ends with telling KoBoCAT.        *)
LEMMA HashesStep ==
  ASSUME D!PairedTypeOK, Requested, D!FilesAreOfTheirPairs, D!KobocatKnowsHashes, D!PairedNext
  PROVE  D!KobocatKnowsHashes'
<1>a. (request # D!Idle)' \/ cut' => D!KobocatKnowsHashes'
  BY DEF D!KobocatKnowsHashes
<1>b. UNCHANGED <<request, cut, xml, hashes, pairs>> => D!KobocatKnowsHashes'
  BY DEF D!KobocatKnowsHashes, D!Paired, D!UidOf
<1>1. ASSUME NEW s \in Sources, D!Create(s) \/ D!Update(s) \/ D!Unpair(s)
      PROVE  D!KobocatKnowsHashes'
  BY <1>1, <1>a DEF D!Create, D!Update, D!Unpair, D!Idle
<1>2. ASSUME NEW s \in Sources, D!External(s) PROVE D!KobocatKnowsHashes'
  <2> DEFINE u == pairs[s].uid
             file == D!Kept(s, D!AllowedFields(s))
  <2>1. pairs[s] # Nothing /\ UNCHANGED <<pairs, sharing, hashes, cut>> /\ u \in D!Uids
        /\ request = D!Idle
    BY <1>2, Readings DEF D!External, D!Paired, D!UidOf
  <2>2. CASE request' = [pc |-> "sync"]
    BY <2>2, <1>a DEF D!Idle
  <2>3. CASE UNCHANGED request /\ xml' = [xml EXCEPT ![u] = Nothing]
    <3>1. xml'[u] = Nothing /\ \A v \in D!Uids \ {u} : xml'[v] = xml[v]
      BY <2>1, <2>3 DEF D!PairedTypeOK
    <3>2. QED
      BY <2>1, <2>3, <3>1 DEF D!KobocatKnowsHashes, D!Paired, D!UidOf
  <2>4. CASE /\ UNCHANGED request /\ xml' = [xml EXCEPT ![u] = [content |-> file, hash |-> file]]
             /\ Content(u) /\ xml[u].hash = file
    <3> HIDE DEF u, file
    <3>1. xml'[u].hash = file /\ \A v \in D!Uids \ {u} : xml'[v] = xml[v]
      BY <2>1, <2>4 DEF D!PairedTypeOK
    <3>2. QED
      BY <2>1, <2>4, <3>1 DEF D!KobocatKnowsHashes, D!Paired, D!UidOf, Content
  <2>5. \/ request' = [pc |-> "sync"]
        \/ UNCHANGED request /\ xml' = [xml EXCEPT ![u] = Nothing]
        \/ /\ UNCHANGED request /\ xml' = [xml EXCEPT ![u] = [content |-> file, hash |-> file]]
           /\ Content(u) /\ xml[u].hash = file
    BY <1>2 DEF D!External, D!UidOf, Content
  <2>6. QED
    BY <2>2, <2>3, <2>4, <2>5
<1>3. ASSUME NEW s \in Sources, NEW shared \in D!Shared(s), D!Share(s, shared)
      PROVE  D!KobocatKnowsHashes'
  BY <1>3, <1>b DEF D!Share
<1>4. CASE D!Voiding \/ D!SavePair \/ D!Purge \/ D!Forget
  <2>1. request \in Calling /\ request # D!Idle
    BY <1>4 DEF D!Voiding, D!Void, D!SavePair, D!Purge, D!Forget, D!Idle, Requested
  <2>2. \E pc \in {"save", "sync", "forget"} : request' = [request EXCEPT !.pc = pc]
    BY <1>4 DEF D!Voiding, D!Void, D!SavePair, D!Purge, D!Forget, D!Then
  <2>3. (request # D!Idle)'
    BY <2>1, <2>2 DEF Calling, D!Idle
  <2>4. QED
    BY <2>3, <1>a
<1>5. CASE D!Sync
  <2>1. hashes' = [u \in D!Uids |-> IF \E s \in D!Paired : D!UidOf(s) = u
                                    THEN D!HashOf(u) ELSE Nothing]
        /\ UNCHANGED <<pairs, xml>>
    BY <1>5 DEF D!Sync
  <2>2. ASSUME NEW u \in D!Uids
        PROVE  /\ Content(u) => hashes'[u] = xml[u].hash
               /\ hashes'[u] # Nothing => \E s \in D!Paired : D!UidOf(s) = u
    BY <2>1, FilesMeans DEF Content, Theirs, D!HashOf, D!Paired, D!UidOf
  <2>3. QED
    BY <2>1, <2>2 DEF D!KobocatKnowsHashes, Content, D!Paired, D!UidOf
<1>6. CASE D!Cut
  BY <1>6, <1>a DEF D!Cut
<1>7. QED
  BY <1>1, <1>2, <1>3, <1>4, <1>5, <1>6 DEF D!PairedNext

(* PairedInv is inductive.                                                 *)
LEMMA PairedStep == ASSUME PairedInv, D!PairedNext PROVE PairedInv'
  BY PairedTypes, RequestedStep, FilesStep, HashesStep DEF PairedInv

-----------------------------------------------------------------------------
(***************************************************************************)
(* Requests for submissions: what is sent to KoBoCAT was vouched for, or   *)
(* else the user might act on all submissions, at one moment of the        *)
(* request.                                                                *)
(***************************************************************************)

(* Before a request is sent nothing is vouched for; what was named is      *)
(* vouched for as a whole, and what was asked for with a query is among    *)
(* what it matches.                                                        *)
Vouching ==
  call # A!Idle =>
    /\ call.pc # "send" => call.vouched = {}
    /\ call.allowed # {} => call.ids = {}
    /\ call.vouched # {} /\ call.ids # {} => call.vouched = call.ids
    /\ call.vouched \subseteq call.query
    /\ call.ids # {} => call.query = Submissions
    /\ call.ids # {} /\ ~A!Bulk(call.endpoint) => \E s \in Submissions : call.ids = {s}
    /\ call.pc = "fetch" <=> call.pc # "permission" /\ A!Reads(call.endpoint)

(* What the user may act on now, with what the request requires, is among  *)
(* the sets that the history has.                                          *)
Recorded ==
  call # A!Idle =>
    /\ A!Grant(full, partial, A!Required(call.endpoint)) \in call.granted
    /\ A!Without(full, partial, A!Required(call.endpoint)) => call.stripped

(* What is vouched for when the request is sent was within one of those    *)
(* sets; if nothing is, one of them has all submissions.                   *)
Allows(S) == IF call.vouched = {} THEN S = Submissions ELSE call.vouched \subseteq S

Passing ==
  call # A!Idle /\ call.pc = "send" /\ ~call.stripped => \E S \in call.granted : Allows(S)

(* The inductive invariant of requests for submissions.                    *)
AccessInv == A!AccessTypeOK /\ Vouching /\ Recorded /\ Passing

(* The permission whose rows are looked up is the one that is required,    *)
(* and what reads requires the one to view.                                *)
LEMMA Rows == \A e \in Endpoints : A!RowRequired(e) = A!Required(e)
              /\ A!Required(e) \in A!Perms /\ (A!Reads(e) => A!Required(e) = "view")
  BY EndpointsAssumption DEF A!RowRequired, A!Required, A!Perms, A!Reads

(* What the types say of a request that is under way.                      *)
LEMMA Calls ==
  ASSUME A!AccessTypeOK, call # A!Idle
  PROVE  /\ call \in A!Request /\ call.endpoint \in Endpoints
         /\ call.ids \in SUBSET Submissions /\ call.query \in SUBSET Submissions
         /\ call.vouched \in SUBSET Submissions /\ call.granted \in SUBSET SUBSET Submissions
  BY DEF A!AccessTypeOK, A!Request

(* The request has moved on to pc, with S allowed and T vouched for.       *)
GoesTo(pc, S, T) ==
  /\ call' \in A!Request /\ call' # A!Idle
  /\ call'.pc = pc /\ call'.allowed = S /\ call'.vouched = T
  /\ call'.endpoint = call.endpoint /\ call'.ids = call.ids /\ call'.query = call.query
  /\ call'.granted = call.granted /\ call'.stripped = call.stripped

(* What moves a request on leaves it a request.                            *)
LEMMA Moves ==
  ASSUME A!AccessTypeOK, call # A!Idle,
         NEW pc \in {"permission", "validate", "match", "fetch", "send"},
         NEW S \in SUBSET Submissions
  PROVE  /\ call' = [call EXCEPT !.pc = pc] => GoesTo(pc, call.allowed, call.vouched)
         /\ call' = [call EXCEPT !.pc = pc, !.allowed = S] => GoesTo(pc, S, call.vouched)
         /\ call' = [call EXCEPT !.pc = pc, !.vouched = S] => GoesTo(pc, call.allowed, S)
<1>1. call \in A!Request
  BY Calls
<1>2. \A c \in A!Request : c # A!Idle
  BY DEF A!Request, A!Idle
<1>3. call' = [call EXCEPT !.pc = pc] => GoesTo(pc, call.allowed, call.vouched)
  BY <1>1, <1>2 DEF A!Request, GoesTo
<1>4. call' = [call EXCEPT !.pc = pc, !.allowed = S] => GoesTo(pc, S, call.vouched)
  BY <1>1, <1>2 DEF A!Request, GoesTo
<1>5. call' = [call EXCEPT !.pc = pc, !.vouched = S] => GoesTo(pc, call.allowed, S)
  BY <1>1, <1>2 DEF A!Request, GoesTo
<1>6. QED
  BY <1>3, <1>4, <1>5

(* What a lookup finds is among what was asked for, and of submitters that *)
(* the user is given.                                                      *)
LEMMA Finds ==
  ASSUME A!AccessTypeOK, NEW p \in A!Perms, NEW ids \in SUBSET Submissions,
         NEW query \in SUBSET Submissions
  PROVE  /\ A!Found(p, ids, query) \in SUBSET Submissions
         /\ A!Found(p, ids, query) \subseteq query
         /\ ids # {} => A!Found(p, ids, query) \subseteq ids
         /\ A!Partial => A!Found(p, ids, query) \subseteq A!Grant(full, partial, p)
         /\ ~A!Partial /\ ~A!Without(full, partial, p) =>
              A!Grant(full, partial, p) = Submissions
  BY DEF A!Found, A!Filter, A!AccessTypeOK, A!Partial, A!Grant, A!Without

(* AccessInv holds at first.                                               *)
LEMMA AccessStarts == ASSUME A!AccessInit PROVE AccessInv
<1>1. A!AccessTypeOK
  BY DEF A!AccessInit, A!AccessTypeOK, A!FullAccess
<1>2. QED
  BY <1>1 DEF AccessInv, Vouching, Recorded, Passing, A!AccessInit

(* What Begin makes of the request.                                        *)
LEMMA Begins ==
  ASSUME A!AccessTypeOK, NEW e \in Endpoints, A!Begin(e)
  PROVE  /\ call' \in A!Request /\ call' # A!Idle
         /\ call'.pc = "permission" /\ call'.endpoint = e
         /\ call'.allowed = {} /\ call'.vouched = {}
         /\ call'.ids # {} => call'.query = Submissions
         /\ call'.ids # {} /\ ~A!Bulk(e) => \E s \in Submissions : call'.ids = {s}
         /\ call'.granted = {A!Grant(full, partial, A!Required(e))}
         /\ A!Without(full, partial, A!Required(e)) => call'.stripped
<1> DEFINE S == A!Grant(full, partial, A!Required(e))
           b == A!Without(full, partial, A!Required(e))
           new(ids, query) ==
             [pc |-> "permission", endpoint |-> e, ids |-> ids, query |-> query,
              allowed |-> {}, vouched |-> {}, granted |-> {S}, stripped |-> b]
           asked == IF A!Reads(e) THEN {{}} \cup {{s} : s \in Submissions}
                    ELSE IF A!Bulk(e) THEN SUBSET Submissions ELSE {{s} : s \in Submissions}
           queries == IF A!Reads(e) \/ A!Bulk(e) THEN SUBSET Submissions ELSE {Submissions}
<1>0. \E ids \in asked, query \in queries :
        (ids # {} => query = Submissions) /\ call' = new(ids, query)
  BY DEF A!Begin
<1>1. PICK ids \in asked, query \in queries :
        (ids # {} => query = Submissions) /\ call' = new(ids, query)
  BY <1>0
<1>a. ids \in SUBSET Submissions /\ query \in SUBSET Submissions
  OBVIOUS
<1>b. ids # {} /\ ~A!Bulk(e) => \E s \in Submissions : ids = {s}
  OBVIOUS
<1>2. S \in SUBSET Submissions
  BY DEF A!Grant
<1>3. b \in BOOLEAN
  BY DEF A!Without
<1> HIDE DEF S, b, asked, queries
<1>4. new(ids, query) \in A!Request
  BY <1>a, <1>2, <1>3 DEF A!Request
<1>5. new(ids, query) # A!Idle
  BY DEF A!Idle
<1>6. /\ call' \in A!Request /\ call' # A!Idle /\ call'.pc = "permission" /\ call'.endpoint = e
      /\ call'.allowed = {} /\ call'.vouched = {} /\ call'.ids = ids /\ call'.query = query
      /\ call'.granted = {S} /\ call'.stripped = b
  BY <1>1, <1>4, <1>5
<1>7. QED
  BY <1>1, <1>b, <1>6 DEF S, b

(* A change of the user's access leaves the request as it is but for its    *)
(* record of what was granted meanwhile.                                   *)
LEMMA Changes ==
  ASSUME A!AccessTypeOK, A!ChangeAccess
  PROVE  /\ call # A!Idle /\ call' \in A!Request /\ call' # A!Idle
         /\ call'.pc = call.pc /\ call'.endpoint = call.endpoint
         /\ call'.ids = call.ids /\ call'.query = call.query
         /\ call'.allowed = call.allowed /\ call'.vouched = call.vouched
         /\ call.granted \subseteq call'.granted
         /\ A!Grant(full, partial, A!Required(call.endpoint))' \in call'.granted
         /\ A!Without(full, partial, A!Required(call.endpoint))' => call'.stripped
         /\ call.stripped => call'.stripped
<1> DEFINE S == A!Grant(full', partial', A!Required(call.endpoint))
           b == call.stripped \/ A!Without(full', partial', A!Required(call.endpoint))
           new == [call EXCEPT !.granted = call.granted \cup {S}, !.stripped = b]
<1>1. call # A!Idle /\ call \in A!Request /\ call.granted \subseteq SUBSET Submissions
  BY Calls DEF A!ChangeAccess
<1>2. S \in SUBSET Submissions /\ b \in BOOLEAN
  BY DEF A!Grant, A!Without
<1>3. call' = new /\ author' = author
  BY <1>1 DEF A!ChangeAccess, A!Request
<1> HIDE DEF S, b
<1>4. /\ new \in A!Request /\ new.granted = call.granted \cup {S} /\ new.stripped = b
      /\ new.pc = call.pc /\ new.endpoint = call.endpoint /\ new.ids = call.ids
      /\ new.query = call.query /\ new.allowed = call.allowed /\ new.vouched = call.vouched
  BY <1>1, <1>2 DEF A!Request
<1>5. call' # A!Idle
  BY <1>3, <1>4 DEF A!Request, A!Idle
<1> HIDE DEF new
<1>6. A!Grant(full, partial, A!Required(call.endpoint))' = S
  BY <1>3, <1>4 DEF A!Grant, S
<1>7. A!Without(full, partial, A!Required(call.endpoint))' => b
  BY <1>3, <1>4 DEF A!Without, b
<1>8. call.stripped => b
  BY DEF b
<1>9. QED
  BY <1>1, <1>3, <1>4, <1>5, <1>6, <1>7, <1>8

(* Every step of a request: how it moves on.                               *)
LEMMA RequestMoves ==
  ASSUME A!AccessTypeOK, A!CheckPermission \/ A!Validate \/ A!Match
  PROVE  /\ call # A!Idle /\ UNCHANGED <<author, stored, copied, full, partial, acted>>
         /\ \/ call' = A!Idle
            \/ /\ call.pc = "permission"
               /\ \/ A!Reads(call.endpoint) /\ GoesTo("fetch", call.allowed, call.vouched)
                  \/ ~A!Reads(call.endpoint) /\ GoesTo("validate", call.allowed, call.vouched)
            \/ /\ call.pc = "validate" /\ ~A!Partial
               /\ GoesTo("send", call.allowed, call.vouched)
            \/ /\ call.pc = "validate" /\ call.ids # {}
               /\ GoesTo("match", call.allowed, call.vouched)
            \/ \E S \in SUBSET Submissions :
                 /\ call.pc = "validate" /\ call.ids = {}
                 /\ GoesTo("match", S, call.vouched)
            \/ \E S \in SUBSET Submissions :
                 /\ call.pc = "validate" /\ call.ids = {} /\ call.query = Submissions
                 /\ A!Partial /\ S # {} /\ GoesTo("send", call.allowed, S)
                 /\ S \subseteq A!Grant(full, partial, A!Required(call.endpoint))
            \/ \E S \in SUBSET Submissions :
                 /\ call.pc = "match" /\ (call.allowed # {} \/ S = call.ids)
                 /\ S # {} /\ S \subseteq call.query /\ GoesTo("send", call.allowed, S)
                 /\ A!Partial => S \subseteq A!Grant(full, partial, A!Required(call.endpoint))
                 /\ ~A!Partial /\ ~A!Without(full, partial, A!Required(call.endpoint)) =>
                      A!Grant(full, partial, A!Required(call.endpoint)) = Submissions
<1>0. /\ call # A!Idle /\ UNCHANGED <<author, stored, copied, full, partial, acted>>
  BY DEF A!CheckPermission, A!Validate, A!Match, A!At, A!Idle
<1>1. call.ids \in SUBSET Submissions /\ call.query \in SUBSET Submissions
      /\ call.endpoint \in Endpoints
  BY <1>0, Calls
<1>2. A!RowRequired(call.endpoint) = A!Required(call.endpoint)
      /\ A!Required(call.endpoint) \in A!Perms
      /\ Submissions \in SUBSET Submissions /\ {} \in SUBSET Submissions
  BY <1>1, Rows
<1>3. CASE A!CheckPermission
  <2>1. call.pc = "permission"
        /\ \/ call' = A!Idle
           \/ A!Reads(call.endpoint) /\ call' = [call EXCEPT !.pc = "fetch"]
           \/ ~A!Reads(call.endpoint) /\ call' = [call EXCEPT !.pc = "validate"]
    BY <1>3 DEF A!CheckPermission, A!At, A!Go, A!End
  <2>2. QED
    BY <1>0, <1>2, <2>1, Moves
<1>4. CASE A!Validate
  <2> DEFINE found == A!Found(A!RowRequired(call.endpoint), {}, Submissions)
  <2>1. call.pc = "validate"
        /\ \/ call' = A!Idle
           \/ ~ A!Partial /\ call' = [call EXCEPT !.pc = "send"]
           \/ call.ids # {} /\ call' = [call EXCEPT !.pc = "match"]
           \/ call.ids = {} /\ call' = [call EXCEPT !.pc = "match", !.allowed = found]
           \/ /\ call.ids = {} /\ call.query = Submissions /\ A!Partial /\ found # {}
              /\ call' = [call EXCEPT !.pc = "send", !.vouched = found]
    BY <1>4 DEF A!Validate, A!At, A!Go, A!End, A!Vouch
  <2>2. /\ found \in SUBSET Submissions
        /\ A!Partial => found \subseteq A!Grant(full, partial, A!Required(call.endpoint))
    BY <1>2, Finds
  <2> HIDE DEF found
  <2>3. QED
    BY <1>0, <2>1, <2>2, Moves
<1>5. CASE A!Match
  <2> DEFINE found == A!Found(A!RowRequired(call.endpoint), call.ids, call.query)
  <2>1. call.pc = "match"
        /\ \/ call' = A!Idle
           \/ /\ found # {} /\ (call.allowed # {} \/ found = call.ids)
              /\ call' = [call EXCEPT !.pc = "send", !.vouched = found]
    BY <1>5 DEF A!Match, A!At, A!End, A!Vouch
  <2>2. /\ found \in SUBSET Submissions /\ found \subseteq call.query
        /\ A!Partial => found \subseteq A!Grant(full, partial, A!Required(call.endpoint))
        /\ ~A!Partial /\ ~A!Without(full, partial, A!Required(call.endpoint)) =>
             A!Grant(full, partial, A!Required(call.endpoint)) = Submissions
    BY <1>1, <1>2, Finds
  <2> HIDE DEF found
  <2>3. QED
    BY <1>0, <2>1, <2>2, Moves
<1>6. QED
  BY <1>3, <1>4, <1>5

(* Every step keeps the types.                                             *)
LEMMA AccessTypes ==
  ASSUME A!AccessTypeOK, A!AccessNext
  PROVE  A!AccessTypeOK'
<1> DEFINE CallOK == call' \in A!Request \cup {A!Idle}
           RestOK == /\ author' \in [Submissions -> Submitters]
                     /\ stored' \subseteq Submissions /\ copied' \subseteq Submissions
                     /\ full' \in A!FullAccess /\ partial' \in A!PartialAccess \cup {Nothing}
                     /\ partial' = Nothing \/ full' = {}
                     /\ acted' \subseteq Submissions
<1> SUFFICES CallOK /\ RestOK
  BY DEF A!AccessTypeOK
<1>i. UNCHANGED call => CallOK
  BY DEF A!AccessTypeOK
<1>r. UNCHANGED <<author, full, partial>> /\ stored' \subseteq Submissions
      /\ copied' \subseteq Submissions /\ acted' \subseteq Submissions => RestOK
  BY DEF A!AccessTypeOK
<1>s. stored \subseteq Submissions /\ copied \subseteq Submissions /\ acted \subseteq Submissions
  BY DEF A!AccessTypeOK
<1> HIDE DEF RestOK
<1>1. ASSUME NEW e \in Endpoints, A!Begin(e) PROVE CallOK /\ RestOK
  <2>1. RestOK
    BY <1>1, <1>r, <1>s DEF A!Begin
  <2>2. QED
    BY <1>1, <2>1, Begins
<1>2. CASE A!CheckPermission \/ A!Validate \/ A!Match
  BY <1>2, <1>r, <1>s, RequestMoves DEF GoesTo
<1>3. CASE A!Fetch
  <2>1. call # A!Idle
    BY <1>3 DEF A!Fetch, A!At, A!Idle
  <2>2. A!Found("view", call.ids, call.query) \in SUBSET Submissions
    BY <2>1, Calls, Finds DEF A!Perms
  <2>3. QED
    BY <1>3, <2>2, <1>r, <1>s DEF A!Fetch, A!End
<1>4. CASE A!Post \/ A!Delete \/ A!SetStatus \/ A!Fail
  <2>1. CallOK
    BY <1>4 DEF A!Post, A!Delete, A!SetStatus, A!Fail, A!End
  <2>2. acted' \subseteq Submissions /\ stored' \subseteq Submissions
    BY <1>4, <1>s DEF A!Post, A!Delete, A!SetStatus, A!Fail, A!Copied
  <2>3. QED
    BY <1>4, <2>1, <2>2, <1>r, <1>s DEF A!Post, A!Delete, A!SetStatus, A!Fail
<1>5. ASSUME NEW s \in Submissions, A!Submit(s) \/ A!Remove(s) \/ A!CopyToMongo(s)
      PROVE  CallOK /\ RestOK
  BY <1>5, <1>i, <1>r, <1>s DEF A!Submit, A!Remove, A!CopyToMongo
<1>6. CASE A!ChangeAccess
  <2>1. CallOK
    BY <1>6, Changes
  <2>2. RestOK
    BY <1>6, <1>s
       DEF A!ChangeAccess, RestOK, A!FullAccess, A!Fulls, A!Filters, A!AccessTypeOK
  <2>3. QED
    BY <2>1, <2>2
<1>7. QED
  BY <1>1, <1>2, <1>3, <1>4, <1>5, <1>6 DEF A!AccessNext

(* AccessInv is inductive. Submissions that come and go, rows that MongoDB *)
(* has not yet, and filters that others change in between do not change    *)
(* what was vouched for, nor what the user might act on then.              *)
LEMMA AccessStep ==
  ASSUME AccessInv, A!AccessNext
  PROVE  AccessInv'
<1>0. A!AccessTypeOK /\ A!AccessTypeOK' /\ Vouching /\ Recorded /\ Passing
  BY AccessTypes DEF AccessInv
<1> SUFFICES Vouching' /\ Recorded' /\ Passing'
  BY <1>0 DEF AccessInv
<1>a. call' = A!Idle => Vouching' /\ Recorded' /\ Passing'
  BY DEF Vouching, Recorded, Passing
<1>b. UNCHANGED <<author, full, partial, call>> => Vouching' /\ Recorded' /\ Passing'
  BY <1>0 DEF Vouching, Recorded, Passing, Allows, A!Grant, A!Without
<1>1. ASSUME NEW e \in Endpoints, A!Begin(e) PROVE Vouching' /\ Recorded' /\ Passing'
  <2>1. UNCHANGED <<author, full, partial>>
    BY <1>1 DEF A!Begin
  <2>2. Vouching' /\ Passing'
    BY <1>0, <1>1, Begins DEF Vouching, Passing
  <2>3. Recorded'
    BY <1>0, <1>1, <2>1, Begins DEF Recorded, A!Grant, A!Without
  <2>4. QED
    BY <2>2, <2>3
<1>2. CASE A!CheckPermission \/ A!Validate \/ A!Match
  <2>1. call # A!Idle /\ UNCHANGED <<author, full, partial>>
    BY <1>0, <1>2, RequestMoves
  <2>2. ASSUME NEW pc, NEW S, NEW T, GoesTo(pc, S, T)
        PROVE  Recorded'
    BY <1>0, <2>1, <2>2 DEF Recorded, GoesTo, A!Grant, A!Without
  <2>3. CASE /\ call.pc = "permission"
             /\ \/ A!Reads(call.endpoint) /\ GoesTo("fetch", call.allowed, call.vouched)
                \/ ~A!Reads(call.endpoint) /\ GoesTo("validate", call.allowed, call.vouched)
    <3>1. Vouching' /\ Passing'
      BY <1>0, <2>1, <2>3 DEF Vouching, Passing, GoesTo
    <3>2. QED
      BY <2>2, <2>3, <3>1
  <2>4. CASE /\ call.pc = "validate" /\ ~A!Partial
             /\ GoesTo("send", call.allowed, call.vouched)
    <3>1. Vouching'
      BY <1>0, <2>1, <2>4 DEF Vouching, GoesTo
    <3>2. ~call.stripped => Submissions \in call.granted
      BY <1>0, <2>1, <2>4 DEF Recorded, A!Grant, A!Without, A!Partial
    <3>3. Passing'
      BY <1>0, <2>1, <2>4, <3>2 DEF Passing, Allows, Vouching, GoesTo
    <3>4. QED
      BY <2>2, <2>4, <3>1, <3>3
  <2>5. CASE /\ call.pc = "validate"
             /\ \/ call.ids # {} /\ GoesTo("match", call.allowed, call.vouched)
                \/ \E S \in SUBSET Submissions :
                     call.ids = {} /\ GoesTo("match", S, call.vouched)
    <3>1. Vouching' /\ Passing'
      BY <1>0, <2>1, <2>5 DEF Vouching, Passing, GoesTo
    <3>2. QED
      BY <2>2, <2>5, <3>1
  <2>6. ASSUME NEW S \in SUBSET Submissions,
               \/ call.pc = "validate" /\ call.ids = {} /\ call.query = Submissions
               \/ call.pc = "match" /\ (call.allowed # {} \/ S = call.ids),
               S # {}, S \subseteq call.query, GoesTo("send", call.allowed, S),
               A!Partial => S \subseteq A!Grant(full, partial, A!Required(call.endpoint)),
               ~A!Partial /\ ~A!Without(full, partial, A!Required(call.endpoint)) =>
                 A!Grant(full, partial, A!Required(call.endpoint)) = Submissions
        PROVE  Vouching' /\ Recorded' /\ Passing'
    <3>1. Vouching'
      BY <1>0, <2>1, <2>6 DEF Vouching, GoesTo
    <3>2. ~call.stripped => S \subseteq A!Grant(full, partial, A!Required(call.endpoint))
      BY <1>0, <2>1, <2>6 DEF Recorded
    <3>3. Passing'
      BY <1>0, <2>1, <2>6, <3>2 DEF Passing, Recorded, Allows, GoesTo
    <3>4. QED
      BY <2>2, <2>6, <3>1, <3>3
  <2>7. A!Partial => ~(~A!Partial /\ ~A!Without(full, partial, A!Required(call.endpoint)))
    OBVIOUS
  <2>8. QED
    BY <1>0, <1>2, <1>a, <2>3, <2>4, <2>5, <2>6, <2>7, RequestMoves
<1>3. CASE A!Post \/ A!Delete \/ A!SetStatus \/ A!Fail \/ A!Fetch
  BY <1>3, <1>a DEF A!Post, A!Delete, A!SetStatus, A!Fail, A!Fetch, A!End
<1>4. ASSUME NEW s \in Submissions, A!Submit(s) \/ A!Remove(s) \/ A!CopyToMongo(s)
      PROVE  Vouching' /\ Recorded' /\ Passing'
  BY <1>4, <1>b DEF A!Submit, A!Remove, A!CopyToMongo
<1>5. CASE A!ChangeAccess
  <2>1. Recorded'
    <3>1. call' # A!Idle /\ call'.endpoint = call.endpoint
      BY <1>0, <1>5, Changes
    <3>2. QED
      BY <1>0, <1>5, <3>1, Changes DEF Recorded
  <2>2. Vouching'
    BY <1>0, <1>5, Changes DEF Vouching
  <2>3. Passing'
    BY <1>0, <1>5, Changes DEF Passing, Allows
  <2>4. QED
    BY <2>1, <2>2, <2>3
<1>6. QED
  BY <1>1, <1>2, <1>3, <1>4, <1>5 DEF A!AccessNext

(* Only Fetch and what is sent act on something.                           *)
LEMMA Acting ==
  ASSUME A!AccessNext, acted' # acted, acted' # {}
  PROVE  A!Fetch \/ A!Post \/ A!Delete \/ A!SetStatus
<1>1. ASSUME NEW e \in Endpoints PROVE ~A!Begin(e)
  BY DEF A!Begin
<1>2. ~(A!CheckPermission \/ A!Validate \/ A!Match \/ A!Fail \/ A!ChangeAccess)
  BY DEF A!CheckPermission, A!Validate, A!Match, A!Fail, A!ChangeAccess
<1>3. ASSUME NEW s \in Submissions PROVE ~(A!Submit(s) \/ A!Remove(s) \/ A!CopyToMongo(s))
  BY DEF A!Submit, A!Remove, A!CopyToMongo
<1>4. QED
  BY <1>1, <1>2, <1>3 DEF A!AccessNext

(* What a request is when it acts, and what its lookups find then.         *)
LEMMA ActsFacts ==
  ASSUME AccessInv, A!Fetch \/ A!Post \/ A!Delete \/ A!SetStatus
  PROVE  /\ A!AccessTypeOK /\ Vouching /\ Recorded /\ Passing
         /\ call # A!Idle /\ call.endpoint \in Endpoints
         /\ call.ids \subseteq Submissions /\ call.query \subseteq Submissions
         /\ call.vouched \subseteq Submissions /\ call.granted \subseteq SUBSET Submissions
         /\ A!Fetch => /\ call.pc = "fetch" /\ A!Reads(call.endpoint)
                       /\ acted' \subseteq A!Found("view", call.ids, call.query)
         /\ ~A!Fetch => call.pc = "send"
         /\ ~A!Fetch /\ call.vouched # {} => acted' \subseteq call.vouched
         /\ ~A!Fetch /\ call.vouched = {} =>
              acted' \subseteq IF call.ids # {} THEN call.ids ELSE call.query
<1>0. A!AccessTypeOK /\ Vouching /\ Recorded /\ Passing
  BY DEF AccessInv
<1>1. call # A!Idle
  BY DEF A!Fetch, A!Post, A!Delete, A!SetStatus, A!At, A!Idle
<1>2. /\ call.endpoint \in Endpoints
      /\ call.ids \in SUBSET Submissions /\ call.query \in SUBSET Submissions
      /\ call.vouched \in SUBSET Submissions /\ call.granted \in SUBSET SUBSET Submissions
      /\ "view" \in A!Perms /\ Submissions \in SUBSET Submissions
  BY <1>0, <1>1, Calls DEF A!Perms
<1>3. A!Fetch => /\ call.pc = "fetch" /\ A!Reads(call.endpoint)
                 /\ acted' \subseteq A!Found("view", call.ids, call.query)
  <2>1. A!Fetch => call.pc = "fetch" /\ acted' \subseteq A!Found("view", call.ids, call.query)
    BY DEF A!Fetch, A!At
  <2>2. QED
    BY <1>0, <1>1, <2>1 DEF Vouching
<1>4. ~A!Fetch => call.pc = "send"
  BY DEF A!Post, A!Delete, A!SetStatus, A!At
<1>5. ~A!Fetch => acted' \subseteq A!Copied \/ acted' \subseteq A!Sent
  BY DEF A!Post, A!Delete, A!SetStatus
<1>6. call.vouched # {} => A!Copied \subseteq call.vouched /\ A!Sent \subseteq call.vouched
  <2>1. SUFFICES ASSUME call.vouched # {}
                 PROVE  A!Copied \subseteq call.vouched /\ A!Sent \subseteq call.vouched
    OBVIOUS
  <2>2. A!Copied \subseteq A!Found("view", call.vouched, Submissions)
    BY <2>1 DEF A!Copied, A!Vouched
  <2>3. A!Found("view", call.vouched, Submissions) \subseteq call.vouched
    BY <1>0, <1>2, <2>1, Finds
  <2>4. A!Sent = call.vouched
    BY <2>1 DEF A!Sent, A!Vouched
  <2>5. QED
    BY <2>2, <2>3, <2>4
<1>7. call.vouched = {} =>
        LET asked == IF call.ids # {} THEN call.ids ELSE call.query
        IN  A!Copied \subseteq asked /\ A!Sent \subseteq asked
  <2>1. SUFFICES ASSUME call.vouched = {}
                 PROVE  LET asked == IF call.ids # {} THEN call.ids ELSE call.query
                        IN  A!Copied \subseteq asked /\ A!Sent \subseteq asked
    OBVIOUS
  <2>2. A!Copied \subseteq A!Found("view", call.ids, call.query)
    BY <2>1 DEF A!Copied, A!Vouched
  <2>3. /\ A!Found("view", call.ids, call.query) \subseteq call.query
        /\ call.ids # {} => A!Found("view", call.ids, call.query) \subseteq call.ids
    BY <1>0, <1>2, Finds
  <2>4. A!Sent \subseteq IF call.ids # {} THEN call.ids ELSE call.query
    BY <2>1 DEF A!Sent, A!Vouched
  <2>5. QED
    BY <2>2, <2>3, <2>4
<1>8. QED
  BY <1>0, <1>1, <1>2, <1>3, <1>4, <1>5, <1>6, <1>7

(* One step: what is read or changed was within what the user might act on *)
(* at one moment, because it is what was vouched for, or what MongoDB      *)
(* finds of it.                                                            *)
LEMMA TheirsStep ==
  ASSUME AccessInv, A!AccessNext, acted' # acted, acted' # {}, ~call.stripped
  PROVE  \E S \in call.granted : acted' \subseteq S
<1>0. A!Fetch \/ A!Post \/ A!Delete \/ A!SetStatus
  BY Acting
<1>1. CASE A!Fetch
  <2>1. /\ A!Required(call.endpoint) = "view" /\ "view" \in A!Perms
        /\ call.ids \in SUBSET Submissions /\ call.query \in SUBSET Submissions
    BY <1>0, <1>1, ActsFacts, Rows DEF A!Perms
  <2>2. /\ A!Grant(full, partial, "view") \in call.granted
        /\ ~A!Without(full, partial, "view")
    BY <1>0, <2>1, ActsFacts DEF Recorded
  <2>3. A!Found("view", call.ids, call.query) \subseteq A!Grant(full, partial, "view")
    BY <1>0, <2>1, <2>2, ActsFacts, Finds
  <2>4. QED
    BY <1>0, <1>1, <2>2, <2>3, ActsFacts
<1>2. CASE ~A!Fetch
  <2>1. PICK S \in call.granted : Allows(S)
    BY <1>0, <1>2, ActsFacts DEF Passing
  <2>2. acted' \subseteq S
    BY <1>0, <1>2, <2>1, ActsFacts DEF Allows
  <2>3. QED
    BY <2>1, <2>2
<1>3. QED
  BY <1>1, <1>2

(* One step: what is read or changed was asked for, and of what was named  *)
(* nothing that is there is left out.                                      *)
LEMMA AskedStep ==
  ASSUME AccessInv, A!AccessNext, acted' # acted, acted' # {}
  PROVE  /\ acted' \subseteq call.query
         /\ call.ids # {} =>
              /\ acted' \subseteq call.ids
              /\ call.endpoint # "bulk_update" => call.ids \cap stored \subseteq acted'
<1>0. A!Fetch \/ A!Post \/ A!Delete \/ A!SetStatus
  BY Acting
<1>1. call.ids \in SUBSET Submissions /\ call.query \in SUBSET Submissions /\ "view" \in A!Perms
  BY <1>0, ActsFacts DEF A!Perms
<1>2. /\ A!Found("view", call.ids, call.query) \subseteq call.query
      /\ call.ids # {} => A!Found("view", call.ids, call.query) \subseteq call.ids
  BY <1>0, <1>1, ActsFacts, Finds
<1>3. acted' \subseteq call.query /\ (call.ids # {} => acted' \subseteq call.ids)
  <2>1. CASE A!Fetch
    BY <1>0, <1>2, <2>1, ActsFacts
  <2>2. CASE ~A!Fetch
    <3>1. /\ call.vouched # {} /\ call.ids # {} => call.vouched = call.ids
          /\ call.vouched \subseteq call.query /\ (call.ids # {} => call.query = Submissions)
      BY <1>0, ActsFacts DEF Vouching
    <3>2. CASE call.vouched # {}
      BY <1>0, <2>2, <3>1, <3>2, ActsFacts
    <3>3. CASE call.vouched = {}
      BY <1>0, <1>1, <2>2, <3>1, <3>3, ActsFacts
    <3>4. QED
      BY <3>2, <3>3
  <2>3. QED
    BY <2>1, <2>2
<1>4. ASSUME call.ids # {}, call.endpoint # "bulk_update"
      PROVE  call.ids \cap stored \subseteq acted'
  <2>1. CASE ~A!Bulk(call.endpoint)
    <3>1. PICK s \in Submissions : call.ids = {s}
      BY <1>0, <1>4, <2>1, ActsFacts DEF Vouching
    <3>2. QED
      BY <1>3, <1>4, <3>1
  <2>2. CASE A!Bulk(call.endpoint)
    <3>1. A!Delete \/ A!SetStatus
      <4>1. ~A!Reads(call.endpoint)
        BY <2>2 DEF A!Bulk, A!Reads
      <4>2. ~A!Fetch
        BY <1>0, <4>1, ActsFacts
      <4>3. call.endpoint \in {"bulk_delete", "statuses"}
        BY <1>4, <2>2 DEF A!Bulk
      <4>4. QED
        BY <1>0, <4>2, <4>3 DEF A!Post
    <3>2. acted' = A!Sent \cap stored
      BY <3>1 DEF A!Delete, A!SetStatus
    <3>3. A!Sent = call.ids
      BY <1>0, <1>4, ActsFacts DEF A!Sent, A!Vouched, Vouching
    <3>4. QED
      BY <3>2, <3>3
  <2>3. QED
    BY <2>1, <2>2
<1>5. QED
  BY <1>3, <1>4

-----------------------------------------------------------------------------
(***************************************************************************)
(* Media files. A file that is flagged is in KoBoCAT, although each worker *)
(* acts on a list and on rows that may be out of date. Three facts carry   *)
(* this: there is one live file of a name; its deleted namesakes come      *)
(* first in what a worker read; and who could remove it from KoBoCAT knows *)
(* its pk, has listed after it was sent, and so has read its row after     *)
(* that.                                                                   *)
(***************************************************************************)

(* A row as a worker has read it.                                          *)
Entry == [id : Ids, name : Names, hash : Hashes, deleted : BOOLEAN]

(* What a worker knows of KoBoCAT's list.                                  *)
Known == [Names -> Meta \cup {Nothing}]

(* Where a worker is that has read the rows.                               *)
Past  == {"next", "post", "flag", "remove", "purge", "replace"}

(* What a worker does that synchronizes ...                                *)
Sync  == [pc : Past \cup {"query"}, known : Known, todo : Seq(Entry), alone : BOOLEAN]

(* ... or who runs the command.                                            *)
Adoption == [pc : {"rename", "tell", "create"}, known : Known, todo : Seq(Entry),
             left : SUBSET Names, at : Names \cup {Nothing}, alone : BOOLEAN]

(* What somebody may be doing.                                             *)
Job == Sync \cup Adoption \cup {Idle}

(* The types of all that.                                                  *)
Working == work \in [Workers -> Job]

(* What the assumption on the constants says, fact by fact.                *)
LEMMA Numbers == MaxFiles \in Nat /\ MaxMetadata \in Nat
  BY FilesAssumption

(* A name that the command makes is not one that a user gives.             *)
LEMMA CopiesDiffer == \A n \in Originals : CopyOf(n) \notin Originals /\ CopyOf(n) \in Names
  BY NamesAssumption DEF CopyOf, Names

(* A sequence, its domain and its first element.                           *)
LEMMA SeqFacts ==
  ASSUME NEW S, NEW s \in Seq(S)
  PROVE  /\ Len(s) \in Nat /\ DOMAIN s = 1..Len(s) /\ \A k \in DOMAIN s : s[k] \in S
         /\ s # << >> => Head(s) = s[1] /\ 1 \in DOMAIN s
         /\ s = << >> <=> DOMAIN s = {}
  OBVIOUS

(* What the types say of files and of KoBoCAT's list.                      *)
LEMMA Types ==
  ASSUME MediaTypeOK
  PROVE  /\ files \in Seq(File) /\ Len(files) \in Nat /\ DOMAIN files = 1..Len(files)
             /\ Len(files) <= MaxFiles
         /\ \A i \in DOMAIN files : files[i] \in File /\ i \in Ids
         /\ metadata \in [Names -> Meta \cup {Nothing}]
         /\ \A n \in Names : metadata[n] # Nothing => metadata[n] \in Meta
         /\ posted \in Nat /\ posted <= MaxMetadata
<1>1. files \in Seq(File) /\ Len(files) <= MaxFiles
      /\ metadata \in [Names -> Meta \cup {Nothing}] /\ posted \in 0..MaxMetadata
  BY DEF MediaTypeOK
<1>2. Len(files) \in Nat /\ DOMAIN files = 1..Len(files)
      /\ \A i \in DOMAIN files : files[i] \in File
  BY <1>1, SeqFacts
<1>3. \A i \in DOMAIN files : i \in Ids
  BY <1>1, <1>2, Numbers DEF Ids
<1>4. QED
  BY <1>1, <1>2, <1>3, Numbers

(* The pc of a job says which it is.                                       *)
LEMMA Jobs ==
  ASSUME Working, NEW w \in Workers
  PROVE  /\ work[w] \in Job
         /\ work[w] # Idle => work[w].known \in Known /\ work[w].todo \in Seq(Entry)
         /\ work[w] # Idle <=> work[w].pc # "idle"
         /\ work[w].pc \in Past \cup {"query"} => work[w] \in Sync
         /\ work[w].pc \in {"rename", "tell", "create"} => work[w] \in Adoption
  BY DEF Working, Job, Sync, Adoption, Idle, Past

(* What moves a synchronization on leaves it one ...                       *)
LEMMA SyncMoves ==
  ASSUME NEW v \in Sync
  PROVE  /\ \A pc \in Past : [v EXCEPT !.pc = pc] \in Sync
         /\ [v EXCEPT !.alone = FALSE] \in Sync
         /\ \A t \in Seq(Entry) : [v EXCEPT !.todo = t] \in Sync
         /\ \A k \in Known : [v EXCEPT !.known = k] \in Sync
  BY DEF Sync, Past

(* ... and so with the command.                                            *)
LEMMA AdoptionMoves ==
  ASSUME NEW v \in Adoption
  PROVE  /\ \A pc \in {"rename", "tell", "create"} : [v EXCEPT !.pc = pc] \in Adoption
         /\ [v EXCEPT !.alone = FALSE] \in Adoption
         /\ \A n \in Names : [v EXCEPT !.pc = "tell", !.at = n] \in Adoption
         /\ \A S \in SUBSET Names, pc \in {"rename", "tell", "create"} : [v EXCEPT !.pc = pc,
             !.left = S] \in Adoption
  BY DEF Adoption

(* u has stopped, or goes on with what it was doing: nothing but `alone`   *)
(* has changed.                                                            *)
Undisturbed(u) ==
  \/ work'[u] = Idle
  \/ /\ work[u] # Idle /\ work'[u] # Idle
     /\ work'[u].pc = work[u].pc /\ work'[u].known = work[u].known /\ work'[u].todo = work[u].todo
     /\ work[u].pc \in {"rename", "tell", "create"} =>
          work'[u].left = work[u].left /\ work'[u].at = work[u].at

(* A worker that is no longer alone is undisturbed.                        *)
LEMMA Alone ==
  ASSUME Working, NEW u \in Workers, work[u] # Idle
  PROVE  /\ [work[u] EXCEPT !.alone = FALSE] \in Job
         /\ [work[u] EXCEPT !.alone = FALSE] # Idle
         /\ [work[u] EXCEPT !.alone = FALSE].pc = work[u].pc
         /\ [work[u] EXCEPT !.alone = FALSE].known = work[u].known
         /\ [work[u] EXCEPT !.alone = FALSE].todo = work[u].todo
         /\ work[u].pc \in {"rename", "tell", "create"} =>
              /\ [work[u] EXCEPT !.alone = FALSE].left = work[u].left
              /\ [work[u] EXCEPT !.alone = FALSE].at = work[u].at
<1>1. CASE work[u] \in Sync
  <2>1. [work[u] EXCEPT !.alone = FALSE] \in Sync
    BY <1>1, SyncMoves
  <2>2. work[u].pc \in Past \cup {"query"}
    BY <1>1 DEF Sync
  <2>3. QED
    BY <1>1, <2>1, <2>2 DEF Sync, Job, Idle, Past
<1>2. CASE work[u] \in Adoption
  <2>1. [work[u] EXCEPT !.alone = FALSE] \in Adoption
    BY <1>2, AdoptionMoves
  <2>2. QED
    BY <1>2, <2>1 DEF Adoption, Job, Idle
<1>3. QED
  BY <1>1, <1>2, Jobs DEF Job

(* Becomes(w, v) changes what w does, and disturbs nobody.                 *)
LEMMA Becoming ==
  ASSUME Working, NEW w, NEW v \in Job, Becomes(w, v)
  PROVE  /\ Working'
         /\ w \in Workers => work'[w] = v
         /\ \A u \in Workers : u # w \/ v = Idle => Undisturbed(u)
<1> DEFINE next(u) == IF u = w THEN v ELSE IF work[u] = Idle THEN Idle
                      ELSE [work[u] EXCEPT !.alone = FALSE]
<1>1. work' = [u \in Workers |-> next(u)]
  BY DEF Becomes
<1>2. \A u \in Workers : next(u) \in Job
  BY Alone DEF Job
<1>3. Working'
  <2> HIDE DEF next
  <2>1. QED
    BY <1>1, <1>2 DEF Working
<1>4. ASSUME NEW u \in Workers, u # w \/ v = Idle PROVE Undisturbed(u)
  <2>1. work'[u] = next(u)
    BY <1>1
  <2>2. CASE work[u] = Idle \/ u = w
    BY <1>4, <2>1, <2>2 DEF Undisturbed
  <2>3. CASE work[u] # Idle /\ u # w
    <3>1. work'[u] = [work[u] EXCEPT !.alone = FALSE]
      BY <2>1, <2>3
    <3>2. QED
      BY <3>1, <2>3, Alone DEF Undisturbed
  <2>4. QED
    BY <2>2, <2>3
<1>5. w \in Workers => work'[w] = v
  BY <1>1
<1>6. QED
  BY <1>3, <1>4, <1>5

(* So does Continues(w, v) ...                                             *)
LEMMA Continuing ==
  ASSUME Working, NEW w \in Workers, NEW v \in Job, Continues(w, v)
  PROVE  /\ Working'
         /\ work'[w] = v
         /\ \A u \in Workers : u # w \/ v = Idle => Undisturbed(u)
  BY DEF Continues, Working, Undisturbed

(* ... and what users do changes no job at all.                            *)
LEMMA Disturbing ==
  ASSUME Working, Disturb
  PROVE  Working' /\ \A u \in Workers : Undisturbed(u)
<1>1. Becomes(Nothing, Idle) /\ Idle \in Job
  BY DEF Disturb, Job
<1>2. QED
  BY <1>1, Becoming

(* What Done(w) is.                                                        *)
LEMMA Doing ==
  ASSUME Working, NEW w \in Workers, work[w] \in Sync, work[w].todo # << >>
  PROVE  /\ Done(w) \in Sync /\ Done(w).pc = "next" /\ Done(w).todo = Tail(work[w].todo)
         /\ Done(w).known = [work[w].known EXCEPT ![Head(work[w].todo).name] = Nothing]
         /\ Head(work[w].todo) \in Entry /\ Tail(work[w].todo) \in Seq(Entry)
<1>1. Head(work[w].todo) \in Entry /\ Tail(work[w].todo) \in Seq(Entry)
  BY HeadTailProperties DEF Sync
<1>2. [work[w].known EXCEPT ![Head(work[w].todo).name] = Nothing] \in Known
  BY <1>1 DEF Sync, Known, Entry
<1>3. QED
  BY <1>1, <1>2 DEF Done, Sync, Past

(* File j of name n is flagged as deleted.                                 *)
Gone(j, n) == j \in DOMAIN files /\ files[j].state = "gone" /\ files[j].name = n

(* No file of name n is.                                                   *)
Clear(n) == \A j \in DOMAIN files : ~ Gone(j, n)

(* File i is flagged as synchronized, or will be: KoBoCAT has taken it.    *)
Placed(i) ==
  \/ files[i].synced
  \/ \E w \in Workers : work[w].pc = "flag" /\ Head(work[w].todo).id = i

(* What w knows of name n is what KoBoCAT has, not an earlier or later     *)
(* file.                                                                   *)
Same(w, n) == /\ work[w].known[n] # Nothing /\ metadata[n] # Nothing
              /\ work[w].known[n].pk = metadata[n].pk

(* A row that was read may have been renamed by the command, or deleted    *)
(* since: the rest is still so.                                            *)
EntryAt(e) ==
  /\ e.id \in DOMAIN files /\ e.hash = files[e.id].hash
  /\ files[e.id].name \in Originals => e.name = files[e.id].name
  /\ e.deleted => files[e.id].state # "live"

(* What w knows was once so, and what has the same pk has the same         *)
(* content.                                                                *)
KnownAt(w) ==
  \A n \in Names : work[w].known[n] # Nothing =>
    /\ work[w].known[n].pk <= posted
    /\ Same(w, n) => work[w].known[n].hash = metadata[n].hash

(* What the pc of w says of the first of its rows.                         *)
PhaseAt(w) ==
  /\ work[w].pc = "query" => work[w].todo = << >>
  /\ work[w].pc \in {"post", "flag", "remove", "purge", "replace"} => work[w].todo # << >>
  /\ work[w].pc \in {"post", "flag", "replace"} => ~ Head(work[w].todo).deleted
  /\ work[w].pc \in {"remove", "purge"} => Head(work[w].todo).deleted
  /\ work[w].pc = "replace" =>
       work[w].known[Head(work[w].todo).name].hash # Head(work[w].todo).hash
  /\ work[w].pc \in {"tell", "create"} => work[w].at \in Names
      /\ work[w].known[work[w].at] # Nothing
  /\ work[w].pc \in {"rename", "tell", "create"} =>
        \A n \in work[w].left : work[w].known[n] # Nothing

(* What is said of one worker, relating it to files and KoBoCAT's list     *)
(* only.                                                                   *)
JobAt(w) == /\ PhaseAt(w)
            /\ work[w].pc # "idle" => /\ KnownAt(w)
                                      /\ \A k \in DOMAIN work[w].todo : EntryAt(work[w].todo[k])

(* Users and synchronizations leave one live file of a name.               *)
Single == \A n \in Originals \ doubled : \A i, j \in Live(n) : i = j

(* A live file that is flagged, or about to be, is in KoBoCAT with its     *)
(* content, as KPI's, and no file of its name waits to be removed there.   *)
Stored ==
  \A n \in Originals \ doubled : \A i \in Live(n) : Placed(i) =>
    metadata[n] # Nothing /\ metadata[n].hash = files[i].hash /\ metadata[n].fromKpi /\ Clear(n)

(* If the k-th row of w is a live file, the deleted files of its name come *)
(* before it: they are removed from KoBoCAT first, and their names are     *)
(* free.                                                                   *)
GatheredAt(w, k) ==
  LET e == work[w].todo[k] IN
  ~ e.deleted /\ e.name \in Originals \ doubled /\ e.id \in Live(e.name) =>
    \A j \in DOMAIN files : Gone(j, e.name) =>
      \E m \in 1..k-1 : work[w].todo[m].id = j /\ work[w].todo[m].deleted

(* So it is for all rows of all workers.                                   *)
Gathered == \A w \in Workers : work[w].pc \in Past =>
  \A k \in DOMAIN work[w].todo : GatheredAt(w, k)

(* Among the rows of w file i is, and it is the only one of its name.      *)
WatchedAt(w, n, i) ==
  /\ \E k \in DOMAIN work[w].todo : work[w].todo[k].id = i /\ ~ work[w].todo[k].deleted
  /\ \A k \in DOMAIN work[w].todo : work[w].todo[k].name = n =>
       work[w].todo[k].id = i /\ ~ work[w].todo[k].deleted

(* A worker whose list has the file that KoBoCAT has now read the rows     *)
(* after KPI had sent it: it does not take it for an orphan, and does not  *)
(* remove it for another.                                                  *)
Watched ==
  \A w \in Workers : work[w].pc \in Past =>
    \A n \in Originals \ doubled : \A i \in Live(n) : Placed(i) /\ Same(w, n) => WatchedAt(w, n, i)

(* What every step means to files: their contents stay, names change to    *)
(* copies only, nothing comes back to life, and what is new has a name of  *)
(* its own unless the command created it.                                  *)
FilesMove ==
  /\ DOMAIN files \subseteq DOMAIN files' /\ doubled \subseteq doubled'
  /\ \A i \in DOMAIN files :
       /\ files'[i].hash = files[i].hash
       /\ files'[i].name = files[i].name \/ files'[i].name \notin Originals
       /\ files'[i].state = "live" => files[i].state = "live"
       /\ files'[i].state = "gone" =>
            files'[i].name = files[i].name /\ files[i].state \in {"live", "gone"}
  /\ \A i \in DOMAIN files' \ DOMAIN files :
       /\ files'[i].state = "live" /\ ~ files'[i].synced
       /\ Live(files'[i].name) = {} \/ files'[i].name \in doubled'
       /\ i = Len(files) + 1

(* What every step means to KoBoCAT's list: a pk has one content.          *)
MetadataMove ==
  \A n \in Names :
    \/ metadata'[n] = metadata[n]
    \/ metadata'[n] = Nothing
    \/ metadata[n] = Nothing /\ metadata'[n].pk = posted + 1
    \/ /\ metadata[n] # Nothing /\ metadata'[n].pk = metadata[n].pk
       /\ metadata'[n].hash = metadata[n].hash /\ metadata'[n].fromKpi

(* Of its list u forgets names only.                                       *)
KnownMove(u) == \A n \in Names : work'[u].known[n] \in {work[u].known[n], Nothing}

(* u has all of its rows to do still ...                                   *)
Stays(u) == work[u].pc \in Past /\ work'[u].todo = work[u].todo

(* ... or has done the first of them ...                                   *)
Pops(u) ==
  /\ work[u].pc \in Past /\ work[u].todo # << >> /\ work'[u].todo = Tail(work[u].todo)
  /\ IF Head(work[u].todo).deleted THEN files'[Head(work[u].todo).id].state # "gone"
     ELSE work'[u].known[Head(work[u].todo).name] = Nothing

(* ... or has just read them: the deleted ones first, and then all that    *)
(* are live.                                                               *)
Queries(u) ==
  /\ work[u].pc = "query" /\ UNCHANGED <<files, metadata, doubled>>
  /\ \A k \in DOMAIN work'[u].todo :
       /\ work'[u].todo[k] = Instance(work'[u].todo[k].id)
       /\ work'[u].todo[k].id \in DOMAIN files
       /\ files[work'[u].todo[k].id].state \in {"live", "gone"}
       /\ ~ work'[u].todo[k].deleted =>
            \A j \in DOMAIN files : files[j].state = "gone" =>
              \E m \in 1..k-1 : work'[u].todo[m].id = j
  /\ \A i \in DOMAIN files : files[i].state = "live" =>
       \E k \in DOMAIN work'[u].todo : work'[u].todo[k].id = i

(* One of these, for a worker that has read the rows.                      *)
WorkMove(u) ==
  work'[u].pc \in Past => KnownMove(u) /\ work[u].pc # "idle" /\ (Stays(u) \/ Pops(u) \/ Queries(u))

(* A file becomes one that is flagged or about to be by being sent, when   *)
(* KoBoCAT has none of its name and none waits to be removed.              *)
PlacedMove ==
  \A i \in DOMAIN files', n \in Originals :
    files'[i].state = "live" /\ files'[i].name = n /\ n \notin doubled' /\ Placed(i)' =>
      /\ i \in DOMAIN files
      /\ \/ Placed(i)
         \/ /\ metadata[n] = Nothing /\ metadata'[n] # Nothing
            /\ metadata'[n].hash = files[i].hash /\ metadata'[n].fromKpi /\ Clear(n)

(* What came from KPI is removed by a worker that knows it, as the one of  *)
(* its row, or as an orphan when all rows are done.                        *)
Removal ==
  \A n \in Names : metadata[n] # Nothing /\ metadata'[n] = Nothing /\ metadata[n].fromKpi =>
    \E w \in Workers :
      /\ metadata[n] = work[w].known[n]
      /\ \/ work[w].pc \in {"remove", "replace"} /\ Head(work[w].todo).name = n
         \/ work[w].pc = "next" /\ work[w].todo = << >>

(* What is live after a step was live before.                              *)
LEMMA WasLive ==
  ASSUME FilesMove, NEW n \in Originals, NEW i \in DOMAIN files, i \in Live(n)'
  PROVE  i \in Live(n)
  BY DEF FilesMove, Live

(* Single is kept ...                                                      *)
LEMMA SingleStep ==
  ASSUME FilesMove, Single
  PROVE  Single'
<1> SUFFICES ASSUME NEW n \in Originals, n \notin doubled', NEW i, NEW j, i \in Live(n)',
                    j \in Live(n)'
             PROVE  i = j
  BY DEF Single
<1>1. n \notin doubled
  BY DEF FilesMove
<1>2. ASSUME NEW k, k \in Live(n)' PROVE k \in Live(n) \/ (Live(n) = {} /\ k = Len(files) + 1)
  BY <1>2, WasLive DEF FilesMove, Live
<1>3. QED
  BY <1>1, <1>2 DEF Single

(* ... a name that is clear of deleted files stays so while its file lives *)
(* A change of the user's access leaves the request as it is but for its    *)
(* record of what was granted meanwhile.                                   *)
LEMMA ClearStays ==
  ASSUME FilesMove, Single, NEW n \in Originals, n \notin doubled', NEW i \in Live(n)',
         i \in DOMAIN files, Clear(n)
  PROVE  Clear(n)'
<1> SUFFICES ASSUME NEW j \in DOMAIN files', files'[j].state = "gone", files'[j].name = n
             PROVE  FALSE
  BY DEF Clear, Gone
<1>1. j \in DOMAIN files /\ files[j].name = n /\ files[j].state \in {"live", "gone"}
  BY DEF FilesMove
<1>2. files[j].state = "live"
  BY <1>1 DEF Clear, Gone
<1>3. j \in Live(n) /\ i \in Live(n)
  BY <1>1, <1>2, WasLive DEF Live
<1>4. n \in Originals \ doubled
  BY DEF FilesMove
<1>5. j = i
  BY <1>3, <1>4 DEF Single
<1>6. QED
  BY <1>5 DEF Live

(* ... and what is in KoBoCAT stays there: who removes it would have to be *)
(* a worker that knows it, and such a worker has the file among its rows,  *)
(* is not at the end of them, and does not replace a file by one of the    *)
(* same content.                                                           *)
LEMMA StoredStep ==
  ASSUME FilesMove, MetadataMove, PlacedMove, Removal, Single, Stored, Watched, Working,
         \A w \in Workers : JobAt(w)
  PROVE  Stored'
<1> SUFFICES ASSUME NEW n \in Originals, n \notin doubled', NEW i \in Live(n)', Placed(i)'
             PROVE  (metadata[n] # Nothing /\ metadata[n].hash = files[i].hash
                    /\ metadata[n].fromKpi /\ Clear(n))'
  BY DEF Stored
<1>0. i \in DOMAIN files' /\ files'[i].state = "live" /\ files'[i].name = n /\ n \in Names
      /\ n \in Originals \ doubled
  BY DEF Live, FilesMove, Names
<1>1. i \in DOMAIN files
  BY <1>0 DEF PlacedMove
<1>2. i \in Live(n) /\ files'[i].hash = files[i].hash
  BY <1>1, WasLive DEF FilesMove
<1>3. CASE Placed(i)
  <2>1. metadata[n] # Nothing /\ metadata[n].hash = files[i].hash /\ metadata[n].fromKpi /\ Clear(n)
    BY <1>0, <1>2, <1>3 DEF Stored
  <2>2. Clear(n)'
    BY <1>1, <2>1, ClearStays
  <2>3. ASSUME metadata'[n] = Nothing PROVE FALSE
    <3>1. PICK w \in Workers :
            /\ metadata[n] = work[w].known[n]
            /\ \/ work[w].pc \in {"remove", "replace"} /\ Head(work[w].todo).name = n
               \/ work[w].pc = "next" /\ work[w].todo = << >>
      BY <1>0, <2>1, <2>3 DEF Removal
    <3>2. Same(w, n) /\ work[w].pc \in Past
      BY <2>1, <3>1 DEF Same, Past
    <3>3. WatchedAt(w, n, i)
      BY <1>0, <1>2, <1>3, <3>2 DEF Watched
    <3>4. PhaseAt(w) /\ work[w].pc # "idle" /\ work[w].todo \in Seq(Entry)
      BY <3>1, Jobs DEF JobAt, Idle
    <3>5. work[w].todo # << >>
      BY <3>3, <3>4, SeqFacts DEF WatchedAt
    <3>6. Head(work[w].todo) = work[w].todo[1] /\ 1 \in DOMAIN work[w].todo
      BY <3>4, <3>5, SeqFacts
    <3>7. work[w].pc \in {"remove", "replace"} /\ Head(work[w].todo).name = n
      BY <3>1, <3>5
    <3>8. Head(work[w].todo).id = i /\ ~ Head(work[w].todo).deleted
      BY <3>3, <3>6, <3>7 DEF WatchedAt
    <3>9. work[w].pc = "replace" /\ work[w].known[n].hash # Head(work[w].todo).hash
      BY <3>4, <3>7, <3>8 DEF PhaseAt
    <3>10. Head(work[w].todo).hash = files[i].hash
      BY <3>4, <3>6, <3>8 DEF JobAt, EntryAt
    <3>11. QED
      BY <2>1, <3>1, <3>9, <3>10
  <2>4. metadata'[n] # Nothing => metadata'[n].hash = files[i].hash /\ metadata'[n].fromKpi
    BY <1>0, <2>1 DEF MetadataMove
  <2>5. QED
    BY <1>2, <2>2, <2>3, <2>4
<1>4. CASE ~ Placed(i)
  <2>1. metadata'[n] # Nothing /\ metadata'[n].hash = files[i].hash /\ metadata'[n].fromKpi
        /\ Clear(n)
    BY <1>0, <1>4 DEF PlacedMove
  <2>2. Clear(n)'
    BY <1>1, <2>1, ClearStays
  <2>3. QED
    BY <1>2, <2>1, <2>2
<1>5. QED
  BY <1>3, <1>4

(* The fields of a row that is read.                                       *)
LEMMA Instances ==
  ASSUME NEW i
  PROVE  /\ Instance(i).id = i /\ Instance(i).name = files[i].name
             /\ Instance(i).hash = files[i].hash
         /\ Instance(i).deleted = (files[i].state = "gone")
  BY Zenon DEF Instance

(* While a file of its name lives, a deleted file was deleted before the   *)
(* step.                                                                   *)
LEMMA WasGone ==
  ASSUME FilesMove, Single, NEW n \in Originals, n \notin doubled', NEW i \in Live(n)',
         i \in DOMAIN files,
         NEW j \in DOMAIN files', Gone(j, n)'
  PROVE  Gone(j, n)
<1>1. j \in DOMAIN files /\ files[j].name = n /\ files[j].state \in {"live", "gone"}
  BY DEF FilesMove, Gone
<1>2. ASSUME files[j].state = "live" PROVE FALSE
  <2>1. j \in Live(n) /\ i \in Live(n)
    BY <1>1, <1>2, WasLive DEF Live
  <2>2. n \in Originals \ doubled
    BY DEF FilesMove
  <2>3. j = i
    BY <2>1, <2>2 DEF Single
  <2>4. QED
    BY <2>3 DEF Live, Gone
<1>3. QED
  BY <1>1, <1>2 DEF Gone

(* The rows that a worker has read stay in order: a deleted row leaves     *)
(* only when its file is gone for good.                                    *)
LEMMA GatheredStep ==
  ASSUME FilesMove, Single, Gathered, Working, Working', NEW w \in Workers, WorkMove(w), JobAt(w),
         work'[w].pc \in Past
  PROVE  \A k \in DOMAIN work'[w].todo : GatheredAt(w, k)'
<1> SUFFICES ASSUME NEW k \in DOMAIN work'[w].todo,
                    NEW e, e = work'[w].todo[k], ~ e.deleted, e.name \in Originals,
                    e.name \notin doubled',
                    e.id \in Live(e.name)', NEW j \in DOMAIN files', Gone(j, e.name)'
             PROVE  \E m \in 1..k-1 : work'[w].todo[m].id = j /\ work'[w].todo[m].deleted
  BY DEF GatheredAt, Gone
<1>0. /\ work[w].pc # "idle" /\ work[w] # Idle /\ work[w].todo \in Seq(Entry)
      /\ \A m \in DOMAIN work[w].todo : EntryAt(work[w].todo[m])
  BY Jobs DEF WorkMove, JobAt, Idle
<1>1. e.name \in Originals \ doubled
  BY DEF FilesMove
<1>2. ASSUME NEW l \in DOMAIN work[w].todo, e = work[w].todo[l], work[w].pc \in Past
      PROVE  \E m \in 1..l-1 : work[w].todo[m].id = j /\ work[w].todo[m].deleted
  <2>1. e.id \in DOMAIN files
    BY <1>0, <1>2 DEF EntryAt
  <2>2. e.id \in Live(e.name) /\ Gone(j, e.name)
    BY <2>1, WasLive, WasGone
  <2>3. GatheredAt(w, l)
    BY <1>2 DEF Gathered
  <2>4. QED
    BY <1>1, <1>2, <2>2, <2>3 DEF GatheredAt, Gone
<1>3. CASE Stays(w)
  BY <1>2, <1>3 DEF Stays
<1>4. CASE Pops(w)
  <2>1. /\ work[w].todo # << >> /\ work'[w].todo = Tail(work[w].todo) /\ work[w].pc \in Past
    BY <1>4 DEF Pops
  <2>2. /\ Len(work[w].todo) \in Nat /\ DOMAIN work[w].todo = 1..Len(work[w].todo)
        /\ DOMAIN work'[w].todo = 1..(Len(work[w].todo) - 1)
        /\ Head(work[w].todo) = work[w].todo[1]
        /\ \A m \in DOMAIN work'[w].todo : work'[w].todo[m] = work[w].todo[m + 1]
    BY <1>0, <2>1, HeadTailProperties, SeqFacts
  <2>3. k + 1 \in DOMAIN work[w].todo /\ e = work[w].todo[k + 1] /\ k \in Nat
    BY <2>2
  <2>4. PICK m \in 1..(k + 1) - 1 : work[w].todo[m].id = j /\ work[w].todo[m].deleted
    BY <1>2, <2>1, <2>3
  <2>5. m # 1
    <3>1. ASSUME m = 1 PROVE FALSE
      <4>1. Head(work[w].todo).deleted /\ Head(work[w].todo).id = j
        BY <2>2, <2>4, <3>1
      <4>2. QED
        BY <1>4, <4>1 DEF Pops, Gone
    <3>2. QED
      BY <3>1
  <2>6. m - 1 \in 1..k-1 /\ m - 1 \in DOMAIN work'[w].todo
    BY <2>2, <2>3, <2>4, <2>5
  <2>7. work'[w].todo[m - 1] = work[w].todo[m]
    BY <2>2, <2>3, <2>6
  <2>8. QED
    BY <2>4, <2>6, <2>7
<1>5. CASE Queries(w)
  <2>1. Gone(j, e.name)
    BY <1>5 DEF Queries, Gone
  <2>2. PICK m \in 1..k-1 : work'[w].todo[m].id = j
    BY <1>5, <2>1 DEF Queries, Gone
  <2>3. m \in DOMAIN work'[w].todo
    <3>1. work'[w].todo \in Seq(Entry)
      <4>1. work'[w] # Idle
        BY DEF Idle, Past
      <4>2. work' \in [Workers -> Job]
        BY DEF Working
      <4>3. QED
        BY <4>1, <4>2 DEF Job, Sync, Adoption
    <3>2. Len(work'[w].todo) \in Nat /\ DOMAIN work'[w].todo = 1..Len(work'[w].todo)
      BY <3>1, SeqFacts
    <3>3. QED
      BY <3>2, <2>2
  <2>4. work'[w].todo[m] = Instance(j)
    BY <1>5, <2>2, <2>3 DEF Queries
  <2>5. work'[w].todo[m].deleted
    BY <2>1, <2>4, Instances, Zenon DEF Gone
  <2>6. QED
    BY <2>2, <2>5
<1>6. QED
  BY <1>3, <1>4, <1>5 DEF WorkMove

(* A worker whose list has a file goes on having it among its rows, until  *)
(* it has compared the two and forgotten the name; one that reads its rows *)
(* finds it; and one that listed before the file was sent has another pk,  *)
(* or none.                                                                *)
LEMMA WatchedStep ==
  ASSUME FilesMove, MetadataMove, PlacedMove, Single, Stored, Watched, MediaTypeOK, Working,
         Working',
         NEW w \in Workers, WorkMove(w), JobAt(w), work'[w].pc \in Past,
         NEW n \in Originals, n \notin doubled', NEW i \in Live(n)', Placed(i)', Same(w, n)'
  PROVE  WatchedAt(w, n, i)'
<1>0. /\ work[w].pc # "idle" /\ work[w] # Idle /\ work[w].todo \in Seq(Entry)
      /\ \A m \in DOMAIN work[w].todo : EntryAt(work[w].todo[m])
      /\ KnownAt(w) /\ KnownMove(w)
  BY Jobs DEF WorkMove, JobAt, Idle
<1>1. n \in Originals \ doubled /\ n \in Names
  BY DEF FilesMove, Names
<1>2. i \in DOMAIN files' /\ files'[i].state = "live" /\ files'[i].name = n
  BY DEF Live
<1>3. i \in DOMAIN files
  BY <1>2 DEF PlacedMove
<1>4. i \in Live(n)
  BY <1>3, WasLive
<1>5. metadata'[n] # Nothing /\ work'[w].known[n] # Nothing
      /\ work'[w].known[n].pk = metadata'[n].pk
  BY DEF Same
<1>6. work[w].known[n] = work'[w].known[n] /\ Same(w, n)
  <2>1. work[w].known[n] = work'[w].known[n]
    BY <1>0, <1>1, <1>5 DEF KnownMove
  <2>2. work[w].known[n].pk <= posted
    BY <1>0, <1>1, <1>5, <2>1 DEF KnownAt
  <2>3. work[w].known[n].pk \in Nat /\ posted \in Nat
    <3>1. work[w].known[n] \in Meta
      BY <1>0, <1>1, <1>5, <2>1, Jobs DEF Known
    <3>2. QED
      BY <3>1, Types, Numbers DEF Meta
  <2>4. metadata'[n].pk # posted + 1
    BY <1>5, <2>1, <2>2, <2>3
  <2>5. metadata[n] # Nothing /\ metadata'[n].pk = metadata[n].pk
    BY <1>1, <1>5, <2>4 DEF MetadataMove
  <2>6. QED
    BY <1>5, <2>1, <2>5 DEF Same
<1>7. Placed(i)
  BY <1>2, <1>6 DEF PlacedMove, Same
<1>8. ASSUME work[w].pc \in Past PROVE WatchedAt(w, n, i)
  BY <1>1, <1>4, <1>6, <1>7, <1>8 DEF Watched
<1>9. CASE Stays(w)
  BY <1>8, <1>9 DEF Stays, WatchedAt
<1>10. CASE Pops(w)
  <2>1. /\ work[w].todo # << >> /\ work'[w].todo = Tail(work[w].todo) /\ work[w].pc \in Past
    BY <1>10 DEF Pops
  <2>2. /\ Len(work[w].todo) \in Nat /\ DOMAIN work[w].todo = 1..Len(work[w].todo)
        /\ DOMAIN work'[w].todo = 1..(Len(work[w].todo) - 1)
        /\ Head(work[w].todo) = work[w].todo[1]
        /\ \A m \in DOMAIN work'[w].todo : work'[w].todo[m] = work[w].todo[m + 1]
    BY <1>0, <2>1, HeadTailProperties, SeqFacts
  <2>3. WatchedAt(w, n, i)
    BY <1>8, <2>1
  <2>4. PICK k \in DOMAIN work[w].todo : work[w].todo[k].id = i /\ ~ work[w].todo[k].deleted
    BY <2>3 DEF WatchedAt
  <2>5. k # 1
    <3>1. ASSUME k = 1 PROVE FALSE
      <4>1. Head(work[w].todo).id = i /\ ~ Head(work[w].todo).deleted
        BY <2>2, <2>4, <3>1
      <4>2. Head(work[w].todo).name = n
        BY <1>0, <1>4, <2>2, <2>4, <3>1 DEF EntryAt, Live
      <4>3. QED
        BY <1>5, <1>10, <4>1, <4>2 DEF Pops
    <3>2. QED
      BY <3>1
  <2>6. k - 1 \in DOMAIN work'[w].todo /\ work'[w].todo[k - 1] = work[w].todo[k]
    BY <2>2, <2>4, <2>5
  <2>7. \A m \in DOMAIN work'[w].todo : m + 1 \in DOMAIN work[w].todo
        /\ work'[w].todo[m] = work[w].todo[m + 1]
    BY <2>2
  <2>8. \A m \in DOMAIN work'[w].todo : work'[w].todo[m].name = n =>
          work'[w].todo[m].id = i /\ ~ work'[w].todo[m].deleted
    BY <2>3, <2>7 DEF WatchedAt
  <2>9. QED
    BY <2>4, <2>6, <2>8 DEF WatchedAt
<1>11. CASE Queries(w)
  <2>1. PICK k \in DOMAIN work'[w].todo : work'[w].todo[k].id = i
    BY <1>3, <1>4, <1>11 DEF Queries, Live
  <2>2. \A m \in DOMAIN work'[w].todo :
          /\ work'[w].todo[m] = Instance(work'[w].todo[m].id)
          /\ work'[w].todo[m].id \in DOMAIN files
          /\ files[work'[w].todo[m].id].state \in {"live", "gone"}
    BY <1>11 DEF Queries
  <2>3. ~ work'[w].todo[k].deleted
    <3>1. files[i].state # "gone" /\ work'[w].todo[k] = Instance(i)
      BY <1>4, <2>1, <2>2 DEF Live
    <3>2. QED
      BY <3>1, Instances, Zenon
  <2>4. Clear(n)
    BY <1>1, <1>4, <1>7 DEF Stored
  <2>5. ASSUME NEW m \in DOMAIN work'[w].todo, work'[w].todo[m].name = n
        PROVE  work'[w].todo[m].id = i /\ ~ work'[w].todo[m].deleted
    <3>0. PICK d \in DOMAIN files : /\ work'[w].todo[m] = Instance(d) /\ work'[w].todo[m].id = d
                                   /\ files[d].state \in {"live", "gone"}
      BY <2>2
    <3>1. files[d].name = n
      BY <2>5, <3>0, Instances
    <3>2. files[d].state = "live"
      BY <2>4, <3>0, <3>1 DEF Clear, Gone
    <3>3. d \in Live(n)
      BY <3>0, <3>1, <3>2 DEF Live
    <3>4. d = i
      BY <1>1, <1>4, <3>3 DEF Single
    <3>7. files[d].state # "gone"
      BY <3>2
    <3>8. ~ work'[w].todo[m].deleted
      BY <3>0, <3>7, Instances, Zenon
    <3>9. QED
      BY <3>0, <3>4, <3>8
  <2>6. QED
    BY <2>1, <2>3, <2>5 DEF WatchedAt
<1>12. QED
  BY <1>9, <1>10, <1>11 DEF WorkMove

(* The pks that KoBoCAT has given are no greater than their number.        *)
Counted == \A n \in Names : metadata[n] # Nothing => metadata[n].pk <= posted

(* What every step means to one worker's list and rows.                    *)
JobMove(u) ==
  \/ work'[u] = Idle
  \/ /\ work[u] # Idle /\ work'[u] # Idle /\ KnownMove(u)
     /\ work'[u].todo = work[u].todo \/ (work[u].todo # << >> /\ work'[u].todo = Tail(work[u].todo))
  \/ work'[u].known = metadata /\ UNCHANGED metadata /\ work'[u].todo = << >>
  \/ work[u] # Idle /\ work'[u] # Idle /\ KnownMove(u) /\ Queries(u)

(* Who sets a flag next did so before: none but Save goes there.           *)
Flagging(u) == work'[u].pc = "flag" => work[u].pc = "flag" /\ work'[u].todo = work[u].todo

(* What is true of a row that was read stays true ...                      *)
LEMMA EntryStays ==
  ASSUME FilesMove, NEW e, EntryAt(e)
  PROVE  EntryAt(e)'
  BY DEF FilesMove, EntryAt

(* ... and so does what is true of a worker's list.                        *)
LEMMA JobStep ==
  ASSUME FilesMove, MetadataMove, Counted, posted <= posted', posted' \in Nat, MediaTypeOK,
         Working, Working',
         NEW u \in Workers, JobAt(u), JobMove(u), work'[u].pc # "idle"
  PROVE  KnownAt(u)' /\ \A k \in DOMAIN work'[u].todo : EntryAt(work[u].todo[k])'
<1>0. work'[u] # Idle /\ work'[u].todo \in Seq(Entry) /\ posted \in Nat
  <2>1. work'[u] # Idle
    BY DEF Idle
  <2>2. work' \in [Workers -> Job]
    BY DEF Working
  <2>3. QED
    BY <2>1, <2>2, Types DEF Job, Sync, Adoption
<1>1. ASSUME work[u] # Idle, KnownMove(u) PROVE KnownAt(u)'
  <2> SUFFICES ASSUME NEW n \in Names, work'[u].known[n] # Nothing
               PROVE  /\ work'[u].known[n].pk <= posted'
                      /\ Same(u, n)' => work'[u].known[n].hash = metadata'[n].hash
    BY DEF KnownAt
  <2>1. work'[u].known[n] = work[u].known[n] /\ KnownAt(u)
    BY <1>1, Jobs DEF KnownMove, JobAt
  <2>2. work[u].known[n].pk <= posted /\ work[u].known[n].pk \in Nat
    <3>1. work[u].known[n] \in Meta
      BY <1>1, <2>1, Jobs DEF Known
    <3>2. QED
      BY <2>1, <3>1, Numbers DEF Meta, KnownAt
  <2>3. ASSUME Same(u, n)' PROVE work'[u].known[n].hash = metadata'[n].hash
    <3>1. metadata'[n] # Nothing /\ metadata'[n].pk = work[u].known[n].pk
      BY <2>1, <2>3 DEF Same
    <3>2. metadata'[n].pk # posted + 1
      BY <1>0, <2>2, <3>1
    <3>3. metadata[n] # Nothing /\ metadata'[n].pk = metadata[n].pk
          /\ metadata'[n].hash = metadata[n].hash
      BY <3>1, <3>2 DEF MetadataMove
    <3>4. Same(u, n)
      BY <2>1, <3>1, <3>3 DEF Same
    <3>5. QED
      BY <2>1, <3>3, <3>4 DEF KnownAt
  <2>4. QED
    BY <1>0, <2>1, <2>2, <2>3
<1>2. CASE /\ work[u] # Idle /\ KnownMove(u)
           /\ work'[u].todo = work[u].todo \/ (work[u].todo # << >>
               /\ work'[u].todo = Tail(work[u].todo))
  <2>1. work[u].todo \in Seq(Entry) /\ \A k \in DOMAIN work[u].todo : EntryAt(work[u].todo[k])
    BY <1>2, Jobs DEF JobAt
  <2>2. \A k \in DOMAIN work'[u].todo :
          \E m \in DOMAIN work[u].todo : work'[u].todo[k] = work[u].todo[m]
    <3>1. CASE work'[u].todo = work[u].todo
      BY <3>1
    <3>2. CASE work[u].todo # << >> /\ work'[u].todo = Tail(work[u].todo)
      <4>1. /\ Len(work[u].todo) \in Nat /\ DOMAIN work[u].todo = 1..Len(work[u].todo)
            /\ DOMAIN work'[u].todo = 1..(Len(work[u].todo) - 1)
            /\ \A m \in DOMAIN work'[u].todo : work'[u].todo[m] = work[u].todo[m + 1]
        BY <2>1, <3>2, HeadTailProperties, SeqFacts
      <4>2. \A m \in DOMAIN work'[u].todo : m + 1 \in DOMAIN work[u].todo
        BY <4>1
      <4>3. QED
        BY <4>1, <4>2
    <3>3. QED
      BY <1>2, <3>1, <3>2
  <2>3. ASSUME NEW k \in DOMAIN work'[u].todo PROVE EntryAt(work[u].todo[k])'
    <3>1. PICK e : e = work'[u].todo[k] /\ EntryAt(e)
      BY <2>1, <2>2
    <3>2. EntryAt(e)'
      BY <3>1, EntryStays
    <3>3. QED
      BY <3>1, <3>2 DEF EntryAt
  <2>4. QED
    BY <1>1, <1>2, <2>3
<1>3. CASE work'[u].known = metadata /\ UNCHANGED metadata /\ work'[u].todo = << >>
  <2>1. \A n \in Names : metadata[n] # Nothing => metadata[n].pk \in Nat
    BY Types, Numbers DEF Meta
  <2>2. KnownAt(u)'
    BY <1>0, <1>3, <2>1 DEF KnownAt, Same, Counted
  <2>3. QED
    BY <1>3, <2>2
<1>4. CASE work[u] # Idle /\ KnownMove(u) /\ Queries(u)
  <2>1. ASSUME NEW k \in DOMAIN work'[u].todo PROVE EntryAt(work[u].todo[k])'
    <3>1. PICK d \in DOMAIN files : work'[u].todo[k] = Instance(d) /\ work'[u].todo[k].id = d
      BY <1>4 DEF Queries
    <3>2. EntryAt(Instance(d))
      <4>1. Instance(d).deleted => files[d].state # "live"
        BY Instances, Zenon
      <4>2. QED
        BY <4>1, Instances DEF EntryAt
    <3>3. PICK e : e = Instance(d)
      OBVIOUS
    <3>4. EntryAt(e)'
      BY <3>2, <3>3, EntryStays
    <3>5. QED
      BY <3>1, <3>3, <3>4 DEF EntryAt
  <2>2. QED
    BY <1>1, <1>4, <2>1
<1>5. QED
  BY <1>2, <1>3, <1>4, <1>0 DEF JobMove

(* Who is undisturbed makes none but the allowed moves.                    *)
LEMMA Others ==
  ASSUME Working, Working', NEW u \in Workers, PhaseAt(u), Undisturbed(u)
  PROVE  PhaseAt(u)' /\ JobMove(u) /\ WorkMove(u) /\ Flagging(u)
<1>1. CASE work'[u] = Idle
  BY <1>1 DEF PhaseAt, JobMove, WorkMove, Flagging, Idle, Past
<1>2. CASE work'[u] # Idle /\ work[u] # Idle /\ Undisturbed(u)
  <2>1. work[u].pc # "idle"
    BY <1>2, Jobs
  <2>2. PhaseAt(u)'
    BY <1>2 DEF Undisturbed, PhaseAt
  <2>3. KnownMove(u)
    BY <1>2 DEF Undisturbed, KnownMove
  <2>4. QED
    BY <1>2, <2>1, <2>2, <2>3 DEF Undisturbed, JobMove, WorkMove, Stays, Flagging
<1>3. QED
  BY <1>1, <1>2 DEF Undisturbed

(* A step that sends nothing flags nothing that was not to be flagged.     *)
LEMMA NotPlacing ==
  ASSUME \A u \in Workers : Flagging(u),
         \A i \in DOMAIN files' \ DOMAIN files : ~ files'[i].synced,
         \A i \in DOMAIN files : files'[i].synced => Placed(i),
         Working, Working', \A u \in Workers : JobAt(u)
  PROVE  PlacedMove
<1> SUFFICES ASSUME NEW i \in DOMAIN files', Placed(i)'
             PROVE  i \in DOMAIN files /\ Placed(i)
  BY DEF PlacedMove
<1>1. CASE files'[i].synced
  BY <1>1
<1>2. ASSUME NEW u \in Workers, work'[u].pc = "flag", Head(work'[u].todo).id = i
      PROVE  i \in DOMAIN files /\ Placed(i)
  <2>1. work[u].pc = "flag" /\ work'[u].todo = work[u].todo
    BY <1>2 DEF Flagging
  <2>2. work[u] # Idle /\ work[u].todo # << >> /\ work[u].todo \in Seq(Entry)
    BY <2>1, Jobs DEF JobAt, PhaseAt, Idle
  <2>3. Head(work[u].todo) = work[u].todo[1] /\ 1 \in DOMAIN work[u].todo
    BY <2>2, SeqFacts
  <2>4. EntryAt(Head(work[u].todo))
    BY <2>1, <2>3 DEF JobAt
  <2>5. QED
    BY <1>2, <2>1, <2>4 DEF EntryAt, Placed
<1>3. QED
  BY <1>1, <1>2 DEF Placed

(* The types of files, with what is flagged as deleted.                    *)
FilesOK ==
  /\ files \in Seq(File) /\ Len(files) <= MaxFiles
  /\ \A i \in DOMAIN files : files[i].state = "gone" <=> \E k \in DOMAIN gone : gone[k] = i
  /\ gone \in Seq(DOMAIN files) /\ \A j, k \in DOMAIN gone : gone[j] = gone[k] => j = k

(* The types of KoBoCAT's list.                                            *)
MetadataOK ==
  /\ metadata \in [Names -> Meta \cup {Nothing}]
  /\ posted \in 0..MaxMetadata
  /\ \A m, n \in Names : m # n /\ metadata[m] # Nothing /\ metadata[n] # Nothing =>
       metadata[m].pk # metadata[n].pk
  /\ Counted

(* These are MediaTypeOK.                                                  *)
LEMMA TypesAre == MediaTypeOK /\ Counted <=> FilesOK /\ MetadataOK
  BY DEF MediaTypeOK, FilesOK, MetadataOK

(* What flagging, deleting and renaming do to the row of a file.           *)
LEMMA FileRecords ==
  ASSUME NEW f \in File
  PROVE  /\ \A s \in {"gone", "away"} :
              /\ [f EXCEPT !.state = s, !.synced = FALSE] \in File
              /\ [f EXCEPT !.state = s, !.synced = FALSE].name = f.name
              /\ [f EXCEPT !.state = s, !.synced = FALSE].hash = f.hash
              /\ [f EXCEPT !.state = s, !.synced = FALSE].state = s
              /\ ~ [f EXCEPT !.state = s, !.synced = FALSE].synced
         /\ [f EXCEPT !.synced = TRUE] \in File
         /\ [f EXCEPT !.synced = TRUE].name = f.name
         /\ [f EXCEPT !.synced = TRUE].hash = f.hash
         /\ [f EXCEPT !.synced = TRUE].state = f.state
         /\ \A n \in Names :
              /\ [f EXCEPT !.name = n] \in File
              /\ [f EXCEPT !.name = n].name = n
              /\ [f EXCEPT !.name = n].hash = f.hash
              /\ [f EXCEPT !.name = n].state = f.state
              /\ [f EXCEPT !.name = n].synced = f.synced
<1>1. ASSUME NEW s \in {"gone", "away"}
      PROVE  /\ [f EXCEPT !.state = s, !.synced = FALSE] \in File
             /\ [f EXCEPT !.state = s, !.synced = FALSE].name = f.name
             /\ [f EXCEPT !.state = s, !.synced = FALSE].hash = f.hash
             /\ [f EXCEPT !.state = s, !.synced = FALSE].state = s
             /\ ~ [f EXCEPT !.state = s, !.synced = FALSE].synced
  BY Zenon DEF File
<1>2. /\ [f EXCEPT !.synced = TRUE] \in File
      /\ [f EXCEPT !.synced = TRUE].name = f.name
      /\ [f EXCEPT !.synced = TRUE].hash = f.hash
      /\ [f EXCEPT !.synced = TRUE].state = f.state
  BY Zenon DEF File
<1>3. ASSUME NEW n \in Names
      PROVE  /\ [f EXCEPT !.name = n] \in File
             /\ [f EXCEPT !.name = n].name = n
             /\ [f EXCEPT !.name = n].hash = f.hash
             /\ [f EXCEPT !.name = n].state = f.state
             /\ [f EXCEPT !.name = n].synced = f.synced
  BY Zenon DEF File
<1>4. QED
  BY <1>1, <1>2, <1>3

(* Changing one row leaves the others.                                     *)
LEMMA Rewrites ==
  ASSUME files \in Seq(File), NEW i \in DOMAIN files, NEW r \in File,
         files' = [files EXCEPT ![i] = r]
  PROVE  /\ files' \in Seq(File) /\ DOMAIN files' = DOMAIN files /\ Len(files') = Len(files)
         /\ files'[i] = r /\ \A j \in DOMAIN files : j # i => files'[j] = files[j]
  BY ExceptSeq, SeqFacts

(* Without(s, i) is s but for i.                                           *)
LEMMA Unlisting ==
  ASSUME NEW S, NEW s \in Seq(S), \A j, k \in DOMAIN s : s[j] = s[k] => j = k, NEW i
  PROVE  /\ Without(s, i) \in Seq(S)
         /\ \A j, k \in DOMAIN Without(s, i) : Without(s, i)[j] = Without(s, i)[k] => j = k
         /\ \A x : (\E k \in DOMAIN Without(s, i) : Without(s, i)[k] = x)
                      <=> x # i /\ (\E k \in DOMAIN s : s[k] = x)
<1>1. CASE \A k \in DOMAIN s : s[k] # i
  BY <1>1 DEF Without
<1>2. CASE \E k \in DOMAIN s : s[k] = i
  <2>1. PICK at \in DOMAIN s : s[at] = i
    BY <1>2
  <2>2. (CHOOSE k \in DOMAIN s : s[k] = i) = at
    BY <2>1
  <2> DEFINE t == [k \in 1..Len(s) - 1 |-> IF k < at THEN s[k] ELSE s[k + 1]]
  <2>3. Without(s, i) = t
    BY <1>2, <2>2 DEF Without
  <2>4. Len(s) \in Nat /\ DOMAIN s = 1..Len(s) /\ at \in 1..Len(s)
        /\ \A k \in 1..Len(s) : s[k] \in S
    BY <2>1, SeqFacts
  <2>5. Len(s) - 1 \in Nat
    BY <2>4
  <2>6. DOMAIN t = 1..Len(s) - 1
        /\ \A k \in 1..Len(s) - 1 : t[k] = IF k < at THEN s[k] ELSE s[k + 1]
    OBVIOUS
  <2>7. t \in [1..Len(s) - 1 -> S]
    BY <2>4
  <2>8. t \in Seq(S)
    BY <2>5, <2>7, SeqDef
  <2> HIDE DEF t
  <2>9. ASSUME NEW j \in DOMAIN t, NEW k \in DOMAIN t, t[j] = t[k] PROVE j = k
    <3>1. /\ j \in Int /\ k \in Int /\ j \in DOMAIN s /\ k \in DOMAIN s /\ j + 1 \in DOMAIN s
              /\ k + 1 \in DOMAIN s
          /\ at \in Int
      BY <2>4, <2>6
    <3>2. t[j] = (IF j < at THEN s[j] ELSE s[j + 1]) /\ t[k] = (IF k < at THEN s[k] ELSE s[k + 1])
      BY <2>6
    <3>3. (IF j < at THEN j ELSE j + 1) = (IF k < at THEN k ELSE k + 1)
      BY <2>9, <3>1, <3>2
    <3>4. QED
      BY <3>1, <3>3
  <2>10. ASSUME NEW x, x # i, NEW k \in DOMAIN s, s[k] = x PROVE \E m \in DOMAIN t : t[m] = x
    <3>1. k \in Int /\ at \in Int /\ k # at
      BY <2>1, <2>4, <2>10
    <3>2. CASE k < at
      <4>1. k \in DOMAIN t /\ t[k] = s[k]
        BY <2>4, <2>6, <3>1, <3>2
      <4>2. QED
        BY <2>10, <4>1
    <3>3. CASE k > at
      <4>1. k - 1 \in DOMAIN t /\ ~ (k - 1 < at) /\ (k - 1) + 1 = k
        BY <2>4, <2>6, <3>1, <3>3
      <4>2. t[k - 1] = s[k]
        BY <2>6, <4>1
      <4>3. QED
        BY <2>10, <4>1, <4>2
    <3>4. QED
      BY <3>1, <3>2, <3>3
  <2>11. ASSUME NEW k \in DOMAIN t PROVE t[k] # i /\ \E m \in DOMAIN s : s[m] = t[k]
    <3>1. k \in Int /\ at \in Int /\ k \in DOMAIN s /\ k + 1 \in DOMAIN s
      BY <2>4, <2>6
    <3>2. CASE k < at
      <4>1. t[k] = s[k] /\ k # at
        BY <2>6, <3>1, <3>2
      <4>2. QED
        BY <2>1, <3>1, <4>1
    <3>3. CASE ~ (k < at)
      <4>1. t[k] = s[k + 1] /\ k + 1 # at
        BY <2>6, <3>1, <3>3
      <4>2. QED
        BY <2>1, <3>1, <4>1
    <3>4. QED
      BY <3>2, <3>3
  <2>12. QED
    BY <2>3, <2>8, <2>9, <2>10, <2>11
<1>3. QED
  BY <1>1, <1>2

(* The files are the same.                                                 *)
LEMMA FilesSame ==
  ASSUME FilesOK, UNCHANGED <<files, gone>>, doubled \subseteq doubled'
  PROVE  FilesOK' /\ FilesMove /\ (\A i \in DOMAIN files' \ DOMAIN files : ~ files'[i].synced)
<1>1. FilesOK'
  BY DEF FilesOK
<1>2. \A i \in DOMAIN files : files[i].state \in {"live", "gone", "away"}
  <2>1. \A i \in DOMAIN files : files[i] \in File
    BY SeqFacts DEF FilesOK
  <2>2. QED
    BY <2>1 DEF File
<1>3. QED
  BY <1>1, <1>2 DEF FilesMove

(* One is added.                                                           *)
LEMMA FileAdded ==
  ASSUME FilesOK, NEW n \in Names, NEW h \in Hashes, Len(files) < MaxFiles,
         files' = Append(files, [name |-> n, hash |-> h, state |-> "live", synced |-> FALSE]),
         UNCHANGED gone, doubled \subseteq doubled', Live(n) = {} \/ n \in doubled'
  PROVE  /\ FilesOK' /\ FilesMove
         /\ \A i \in DOMAIN files' \ DOMAIN files : ~ files'[i].synced
         /\ \A i \in DOMAIN files : files'[i] = files[i]
<1> DEFINE f == [name |-> n, hash |-> h, state |-> "live", synced |-> FALSE]
<1>1. f \in File
  BY Zenon DEF File
<1>2. /\ files' \in Seq(File) /\ Len(files') = Len(files) + 1
      /\ \A i \in 1..Len(files) : files'[i] = files[i]
      /\ files'[Len(files) + 1] = f
  BY <1>1, AppendProperties DEF FilesOK
<1>3. Len(files) \in Nat /\ DOMAIN files = 1..Len(files) /\ DOMAIN files' = 1..(Len(files) + 1)
      /\ \A i \in DOMAIN files : files[i] \in File
  BY <1>2, SeqFacts DEF FilesOK
<1>4. DOMAIN files' = DOMAIN files \cup {Len(files) + 1} /\ Len(files) + 1 \notin DOMAIN files
  BY <1>3
<1>5. f.state = "live" /\ ~ f.synced /\ f.name = n
  BY Zenon
<1> HIDE DEF f
<1>6. \A i \in DOMAIN files : files'[i] = files[i] /\ files[i].state \in {"live", "gone", "away"}
  BY <1>2, <1>3 DEF File
<1>7. FilesMove
  BY <1>2, <1>4, <1>5, <1>6 DEF FilesMove
<1>8. gone' \in Seq(DOMAIN files') /\ \A k \in DOMAIN gone : gone[k] \in DOMAIN files
  <2>1. gone \in Seq(DOMAIN files) /\ \A k \in DOMAIN gone : gone[k] \in DOMAIN files
    BY SeqFacts DEF FilesOK
  <2>2. gone \in Seq(DOMAIN files')
    BY <1>4, <2>1, SeqMonotonic
  <2>3. QED
    BY <2>1, <2>2
<1>9. ASSUME NEW i \in DOMAIN files'
      PROVE  files'[i].state = "gone" <=> \E k \in DOMAIN gone' : gone'[k] = i
  <2>1. CASE i \in DOMAIN files
    BY <1>6, <2>1 DEF FilesOK
  <2>2. CASE i = Len(files) + 1
    BY <1>2, <1>4, <1>5, <1>8, <2>2
  <2>3. QED
    BY <1>4, <2>1, <2>2
<1>10. Len(files') <= MaxFiles
  BY <1>2, <1>3, Numbers
<1>11. FilesOK'
  BY <1>2, <1>8, <1>9, <1>10 DEF FilesOK
<1>12. QED
  BY <1>2, <1>4, <1>5, <1>6, <1>7, <1>11

(* One is flagged as deleted.                                              *)
LEMMA FileDeleted ==
  ASSUME FilesOK, NEW i \in DOMAIN files, files[i].state = "live",
         files' = [files EXCEPT ![i].state = "gone", ![i].synced = FALSE],
         gone' = Append(gone, i), doubled \subseteq doubled'
  PROVE  /\ FilesOK' /\ FilesMove
         /\ \A j \in DOMAIN files' \ DOMAIN files : ~ files'[j].synced
         /\ \A j \in DOMAIN files : files'[j].synced => files[j].synced
<1> DEFINE r == [files[i] EXCEPT !.state = "gone", !.synced = FALSE]
<1>0. files \in Seq(File) /\ \A j \in DOMAIN files : files[j] \in File
  BY SeqFacts DEF FilesOK
<1>1. files' = [files EXCEPT ![i] = r]
  BY <1>0
<1>2. r \in File /\ r.name = files[i].name /\ r.hash = files[i].hash /\ r.state = "gone"
      /\ ~ r.synced
  BY <1>0, FileRecords
<1> HIDE DEF r
<1>3. /\ files' \in Seq(File) /\ DOMAIN files' = DOMAIN files /\ Len(files') = Len(files)
      /\ files'[i] = r /\ \A j \in DOMAIN files : j # i => files'[j] = files[j]
  BY <1>0, <1>1, <1>2, Rewrites
<1>4. \A j \in DOMAIN files : files[j].state \in {"live", "gone", "away"}
  BY <1>0 DEF File
<1>5. FilesMove
  BY <1>2, <1>3, <1>4 DEF FilesMove
<1>6. /\ gone' \in Seq(DOMAIN files) /\ Len(gone') = Len(gone) + 1
      /\ \A k \in 1..Len(gone) : gone'[k] = gone[k]
      /\ gone'[Len(gone) + 1] = i
  BY AppendProperties DEF FilesOK
<1>7. Len(gone) \in Nat /\ DOMAIN gone = 1..Len(gone) /\ DOMAIN gone' = 1..(Len(gone) + 1)
  BY <1>6, SeqFacts DEF FilesOK
<1>8. DOMAIN gone' = DOMAIN gone \cup {Len(gone) + 1}
      /\ \A k \in DOMAIN gone : gone'[k] = gone[k] /\ gone[k] # i
  <2>1. \A k \in DOMAIN gone : gone[k] # i
    BY DEF FilesOK
  <2>2. QED
    BY <1>6, <1>7, <2>1
<1>9. \A j \in DOMAIN files : files'[j].state = "gone" <=> \E k \in DOMAIN gone' : gone'[k] = j
  BY <1>2, <1>3, <1>6, <1>8 DEF FilesOK
<1>10. \A j, k \in DOMAIN gone' : gone'[j] = gone'[k] => j = k
  BY <1>6, <1>8 DEF FilesOK
<1>11. FilesOK'
  BY <1>3, <1>6, <1>9, <1>10 DEF FilesOK
<1>12. QED
  BY <1>2, <1>3, <1>5, <1>11

(* One that is not live is deleted for good.                               *)
LEMMA FilePurged ==
  ASSUME FilesOK, NEW i \in DOMAIN files, files[i].state # "live", Purged(i),
         doubled \subseteq doubled'
  PROVE  /\ FilesOK' /\ FilesMove /\ files'[i].state = "away"
         /\ \A j \in DOMAIN files' \ DOMAIN files : ~ files'[j].synced
         /\ \A j \in DOMAIN files : files'[j].synced => files[j].synced
<1> DEFINE r == [files[i] EXCEPT !.state = "away", !.synced = FALSE]
<1>0. files \in Seq(File) /\ \A j \in DOMAIN files : files[j] \in File
  BY SeqFacts DEF FilesOK
<1>1. files' = [files EXCEPT ![i] = r]
  BY <1>0 DEF Purged
<1>2. r \in File /\ r.name = files[i].name /\ r.hash = files[i].hash /\ r.state = "away"
      /\ ~ r.synced
  BY <1>0, FileRecords
<1> HIDE DEF r
<1>3. /\ files' \in Seq(File) /\ DOMAIN files' = DOMAIN files /\ Len(files') = Len(files)
      /\ files'[i] = r /\ \A j \in DOMAIN files : j # i => files'[j] = files[j]
  BY <1>0, <1>1, <1>2, Rewrites
<1>4. \A j \in DOMAIN files : files[j].state \in {"live", "gone", "away"}
  BY <1>0 DEF File
<1>5. FilesMove
  BY <1>2, <1>3, <1>4 DEF FilesMove
<1>6. /\ gone' \in Seq(DOMAIN files)
      /\ \A j, k \in DOMAIN gone' : gone'[j] = gone'[k] => j = k
      /\ \A x : (\E k \in DOMAIN gone' : gone'[k] = x) <=> x # i
          /\ (\E k \in DOMAIN gone : gone[k] = x)
  <2>1. gone \in Seq(DOMAIN files) /\ \A j, k \in DOMAIN gone : gone[j] = gone[k] => j = k
    BY DEF FilesOK
  <2>2. gone' = Without(gone, i)
    BY DEF Purged
  <2>3. /\ Without(gone, i) \in Seq(DOMAIN files)
        /\ \A j, k \in DOMAIN Without(gone, i) : Without(gone, i)[j] = Without(gone, i)[k] => j = k
        /\ \A x : (\E k \in DOMAIN Without(gone, i) : Without(gone, i)[k] = x)
                     <=> x # i /\ (\E k \in DOMAIN gone : gone[k] = x)
    BY <2>1, Unlisting
  <2>4. QED
    BY <2>2, <2>3
<1>7. \A j \in DOMAIN files : files'[j].state = "gone" <=> \E k \in DOMAIN gone' : gone'[k] = j
  <2>1. ASSUME NEW j \in DOMAIN files, j # i
        PROVE  files'[j].state = "gone" <=> \E k \in DOMAIN gone' : gone'[k] = j
    <3>1. files'[j] = files[j]
      BY <1>3, <2>1
    <3>2. files[j].state = "gone" <=> \E k \in DOMAIN gone : gone[k] = j
      BY DEF FilesOK
    <3>3. (\E k \in DOMAIN gone' : gone'[k] = j) <=> \E k \in DOMAIN gone : gone[k] = j
      BY <1>6, <2>1
    <3>4. QED
      BY <3>1, <3>2, <3>3
  <2>2. files'[i].state # "gone" /\ ~ \E k \in DOMAIN gone' : gone'[k] = i
    BY <1>2, <1>3, <1>6
  <2>3. QED
    BY <2>1, <2>2
<1>8. FilesOK'
  BY <1>3, <1>6, <1>7 DEF FilesOK
<1>9. QED
  BY <1>2, <1>3, <1>5, <1>8

(* One is flagged as synchronized.                                         *)
LEMMA FileFlagged ==
  ASSUME FilesOK, NEW i \in DOMAIN files, files' = Flagged(i), UNCHANGED gone,
         doubled \subseteq doubled'
  PROVE  /\ FilesOK' /\ FilesMove
         /\ \A j \in DOMAIN files' \ DOMAIN files : ~ files'[j].synced
         /\ \A j \in DOMAIN files : files'[j].synced => files[j].synced \/ j = i
<1> DEFINE r == [files[i] EXCEPT !.synced = TRUE]
<1>0. files \in Seq(File) /\ \A j \in DOMAIN files : files[j] \in File
  BY SeqFacts DEF FilesOK
<1>1. files' = [files EXCEPT ![i] = r]
  BY <1>0 DEF Flagged
<1>2. r \in File /\ r.name = files[i].name /\ r.hash = files[i].hash /\ r.state = files[i].state
  BY <1>0, FileRecords
<1> HIDE DEF r
<1>3. /\ files' \in Seq(File) /\ DOMAIN files' = DOMAIN files /\ Len(files') = Len(files)
      /\ files'[i] = r /\ \A j \in DOMAIN files : j # i => files'[j] = files[j]
  BY <1>0, <1>1, <1>2, Rewrites
<1>4. \A j \in DOMAIN files : files[j].state \in {"live", "gone", "away"}
  BY <1>0 DEF File
<1>5. FilesMove
  BY <1>2, <1>3, <1>4 DEF FilesMove
<1>7. \A j \in DOMAIN files : files'[j].state = "gone" <=> \E k \in DOMAIN gone' : gone'[k] = j
  BY <1>2, <1>3 DEF FilesOK
<1>8. FilesOK'
  BY <1>3, <1>7 DEF FilesOK
<1>9. QED
  BY <1>2, <1>3, <1>5, <1>8

(* The command renames those of a name.                                    *)
LEMMA FilesRenamed ==
  ASSUME FilesOK, NEW S \in SUBSET DOMAIN files, NEW n \in Names, S # {} => n \in Originals,
         \A i \in S : files[i].state = "live" /\ files[i].name = n,
         files' = [i \in DOMAIN files |->
                     IF i \in S THEN [files[i] EXCEPT !.name = CopyOf(@)] ELSE files[i]],
         UNCHANGED gone, doubled \subseteq doubled'
  PROVE  /\ FilesOK' /\ FilesMove
         /\ \A j \in DOMAIN files' \ DOMAIN files : ~ files'[j].synced
         /\ \A j \in DOMAIN files : files'[j].synced => files[j].synced
<1>0. files \in Seq(File) /\ \A j \in DOMAIN files : files[j] \in File
      /\ files[j].state \in {"live", "gone", "away"}
      /\ Len(files) \in Nat /\ DOMAIN files = 1..Len(files)
  <2>1. files \in Seq(File) /\ Len(files) \in Nat /\ DOMAIN files = 1..Len(files)
        /\ \A j \in DOMAIN files : files[j] \in File
    BY SeqFacts DEF FilesOK
  <2>2. QED
    BY <2>1 DEF File
<1>1. ASSUME NEW i \in S
      PROVE  /\ files'[i] \in File /\ files'[i].name \notin Originals
                 /\ files'[i].hash = files[i].hash
             /\ files'[i].state = "live" /\ files[i].state = "live"
                 /\ files'[i].synced = files[i].synced
  <2>1. files'[i] = [files[i] EXCEPT !.name = CopyOf(n)]
    OBVIOUS
  <2>2. CopyOf(n) \in Names /\ CopyOf(n) \notin Originals
    BY CopiesDiffer
  <2>3. files[i] \in File
    BY <1>0
  <2>4. /\ [files[i] EXCEPT !.name = CopyOf(n)] \in File
        /\ [files[i] EXCEPT !.name = CopyOf(n)].name = CopyOf(n)
        /\ [files[i] EXCEPT !.name = CopyOf(n)].hash = files[i].hash
        /\ [files[i] EXCEPT !.name = CopyOf(n)].state = files[i].state
        /\ [files[i] EXCEPT !.name = CopyOf(n)].synced = files[i].synced
    BY <2>2, <2>3, FileRecords
  <2>5. QED
    BY <2>1, <2>2, <2>4
<1>2. \A i \in DOMAIN files \ S : files'[i] = files[i]
  OBVIOUS
<1>3. DOMAIN files' = DOMAIN files
  OBVIOUS
<1>4. files' \in [1..Len(files) -> File]
  <2>1. files' = [j \in 1..Len(files) |-> files'[j]]
    BY <1>0
  <2>2. ASSUME NEW j \in 1..Len(files) PROVE files'[j] \in File
    <3>1. CASE j \in S
      BY <1>1, <3>1
    <3>2. CASE j \notin S
      <4>1. j \in DOMAIN files \ S
        BY <1>0, <3>2
      <4>2. files'[j] = files[j] /\ files[j] \in File
        BY <1>0, <1>2, <4>1
      <4>3. QED
        BY <4>2
    <3>3. QED
      BY <3>1, <3>2
  <2>3. QED
    BY <2>1, <2>2
<1>5. files' \in Seq(File) /\ Len(files') = Len(files)
  <2>1. files' \in Seq(File)
    BY <1>0, <1>4, SeqDef
  <2>2. QED
    BY <1>0, <1>3, <2>1, SeqFacts
<1>6. FilesMove
  BY <1>0, <1>1, <1>2, <1>3 DEF FilesMove
<1>7. \A j \in DOMAIN files : files'[j].state = "gone" <=> \E k \in DOMAIN gone' : gone'[k] = j
  BY <1>1, <1>2 DEF FilesOK
<1>8. FilesOK'
  BY <1>3, <1>5, <1>7 DEF FilesOK
<1>9. QED
  BY <1>1, <1>2, <1>3, <1>6, <1>8

(* KoBoCAT's list is the same.                                             *)
LEMMA MetadataSame ==
  ASSUME MetadataOK, UNCHANGED <<metadata, posted>>
  PROVE  MetadataOK' /\ MetadataMove /\ Removal /\ posted' \in Nat /\ posted <= posted'
  BY Numbers DEF MetadataOK, Counted, MetadataMove, Removal

(* It gets a file.                                                         *)
LEMMA MetadataAdded ==
  ASSUME MetadataOK, NEW n \in Names, NEW h \in Hashes, NEW b \in BOOLEAN, metadata[n] = Nothing,
         posted < MaxMetadata, posted' = posted + 1,
         metadata' = [metadata EXCEPT ![n] = [pk |-> posted + 1, hash |-> h, fromKpi |-> b]]
  PROVE  /\ MetadataOK' /\ MetadataMove /\ Removal /\ posted' \in Nat /\ posted <= posted'
<1> DEFINE m == [pk |-> posted + 1, hash |-> h, fromKpi |-> b]
<1>1. posted \in Nat /\ posted + 1 \in 1..MaxMetadata /\ posted <= posted + 1
      /\ posted' \in 0..MaxMetadata
  BY Numbers DEF MetadataOK
<1>2. m \in Meta /\ m.pk = posted + 1
  BY <1>1 DEF Meta
<1> HIDE DEF m
<1>3. metadata' = [metadata EXCEPT ![n] = m]
  BY DEF m
<1>4. /\ metadata' \in [Names -> Meta \cup {Nothing}]
      /\ metadata'[n] = m /\ \A o \in Names : o # n => metadata'[o] = metadata[o]
  BY <1>2, <1>3 DEF MetadataOK
<1>5. \A o \in Names : metadata[o] # Nothing => metadata[o].pk \in Nat /\ metadata[o].pk <= posted
  BY Numbers DEF MetadataOK, Counted, Meta
<1>6. Counted'
  BY <1>1, <1>2, <1>4, <1>5 DEF Counted
<1>7. MetadataOK'
  <2>1. ASSUME NEW o \in Names, NEW q \in Names, o # q, metadata'[o] # Nothing,
               metadata'[q] # Nothing
        PROVE  metadata'[o].pk # metadata'[q].pk
    <3>1. CASE o = n
      BY <1>1, <1>2, <1>4, <1>5, <2>1, <3>1
    <3>2. CASE q = n
      BY <1>1, <1>2, <1>4, <1>5, <2>1, <3>2
    <3>3. CASE o # n /\ q # n
      BY <1>4, <2>1, <3>3 DEF MetadataOK
    <3>4. QED
      BY <3>1, <3>2, <3>3
  <2>2. QED
    BY <1>1, <1>4, <1>6, <2>1 DEF MetadataOK
<1>8. MetadataMove /\ Removal
  BY <1>2, <1>4 DEF MetadataMove, Removal
<1>9. QED
  BY <1>1, <1>7, <1>8

(* It loses one, which is not KPI's or is removed by a worker that knows   *)
(* it.                                                                     *)
LEMMA MetadataRemoved ==
  ASSUME MetadataOK, NEW n \in Names, UNCHANGED posted,
         metadata' = [metadata EXCEPT ![n] = Nothing],
         metadata[n] # Nothing => ~ metadata[n].fromKpi
           \/ \E w \in Workers :
                /\ metadata[n] = work[w].known[n]
                /\ \/ work[w].pc \in {"remove", "replace"} /\ Head(work[w].todo).name = n
                   \/ work[w].pc = "next" /\ work[w].todo = << >>
  PROVE  /\ MetadataOK' /\ MetadataMove /\ Removal /\ posted' \in Nat /\ posted <= posted'
<1>1. /\ metadata' \in [Names -> Meta \cup {Nothing}]
      /\ metadata'[n] = Nothing /\ \A o \in Names : o # n => metadata'[o] = metadata[o]
  BY DEF MetadataOK
<1>2. MetadataOK'
  BY <1>1 DEF MetadataOK, Counted
<1>3. MetadataMove /\ Removal
  BY <1>1 DEF MetadataMove, Removal
<1>4. QED
  BY <1>2, <1>3, Numbers DEF MetadataOK

(* It is told that one is KPI's.                                           *)
LEMMA MetadataTold ==
  ASSUME MetadataOK, NEW n \in Names, UNCHANGED posted, metadata[n] # Nothing,
         metadata' = [metadata EXCEPT ![n].fromKpi = TRUE]
  PROVE  /\ MetadataOK' /\ MetadataMove /\ Removal /\ posted' \in Nat /\ posted <= posted'
<1> DEFINE m == [metadata[n] EXCEPT !.fromKpi = TRUE]
<1>0. metadata[n] \in Meta
  BY DEF MetadataOK
<1>1. m \in Meta /\ m.pk = metadata[n].pk /\ m.hash = metadata[n].hash /\ m.fromKpi
  BY <1>0, Zenon DEF Meta
<1>2. metadata' = [metadata EXCEPT ![n] = m]
  OBVIOUS
<1> HIDE DEF m
<1>3. /\ metadata' \in [Names -> Meta \cup {Nothing}]
      /\ metadata'[n] = m /\ \A o \in Names : o # n => metadata'[o] = metadata[o]
  BY <1>1, <1>2 DEF MetadataOK
<1>4. MetadataOK'
  BY <1>1, <1>3 DEF MetadataOK, Counted
<1>5. MetadataMove
  BY <1>1, <1>3 DEF MetadataMove
<1>6. Removal
  <2>1. m # Nothing
    BY <1>1, NothingAssumption
  <2>2. QED
    BY <1>1, <1>3, <2>1 DEF Removal
<1>7. QED
  BY <1>4, <1>5, <1>6, Numbers DEF MetadataOK

(* The inductive invariant of media files.                                 *)
MediaInv == /\ FilesOK /\ MetadataOK /\ Working /\ (\A w \in Workers : JobAt(w))
            /\ Single /\ Stored /\ Gathered /\ Watched

(* What every step does: one conjunct for each part of the state.          *)
MediaMove ==
  /\ FilesOK' /\ FilesMove
  /\ MetadataOK' /\ MetadataMove /\ Removal /\ posted' \in Nat /\ posted <= posted'
  /\ Working' /\ (\A u \in Workers : PhaseAt(u)' /\ JobMove(u) /\ WorkMove(u))
  /\ PlacedMove

(* Any such step keeps MediaInv.                                           *)
LEMMA MediaKept ==
  ASSUME MediaInv, MediaMove
  PROVE  MediaInv'
<1>1. MediaTypeOK /\ Counted /\ FilesOK /\ MetadataOK /\ Working
  BY TypesAre DEF MediaInv
<1>2. Single' /\ Stored'
  <2>1. Single'
    BY SingleStep DEF MediaInv, MediaMove
  <2>2. Stored'
    BY <1>1, StoredStep DEF MediaInv, MediaMove
  <2>3. QED
    BY <2>1, <2>2
<1>3. ASSUME NEW u \in Workers PROVE JobAt(u)'
  <2>1. JobAt(u) /\ JobMove(u) /\ PhaseAt(u)'
    BY DEF MediaInv, MediaMove
  <2>2. work'[u].pc # "idle" => KnownAt(u)'
        /\ \A k \in DOMAIN work'[u].todo : EntryAt(work[u].todo[k])'
    BY <1>1, <2>1, JobStep DEF MediaMove
  <2>3. QED
    BY <2>1, <2>2 DEF JobAt
<1>4. Gathered'
  <2>1. ASSUME NEW u \in Workers, work'[u].pc \in Past
        PROVE  \A k \in DOMAIN work'[u].todo : GatheredAt(u, k)'
    BY <1>1, <2>1, GatheredStep DEF MediaInv, MediaMove
  <2>2. QED
    BY <2>1 DEF Gathered
<1>5. Watched'
  <2>1. ASSUME NEW u \in Workers, work'[u].pc \in Past, NEW n \in Originals, n \notin doubled',
               NEW i \in Live(n)', Placed(i)', Same(u, n)'
        PROVE  WatchedAt(u, n, i)'
    BY <1>1, <2>1, WatchedStep DEF MediaInv, MediaMove
  <2>2. QED
    BY <2>1 DEF Watched
<1>6. FilesOK' /\ MetadataOK' /\ Working'
  BY DEF MediaMove
<1>7. QED
  BY <1>2, <1>3, <1>4, <1>5, <1>6 DEF MediaInv

(* What has to be shown of worker u in one step.                           *)
Acts(u) == PhaseAt(u)' /\ JobMove(u) /\ WorkMove(u) /\ Flagging(u)

(* What users do ...                                                       *)
LEMMA NobodyActs ==
  ASSUME MediaInv, Disturb
  PROVE  Working' /\ \A u \in Workers : Acts(u)
<1>1. Working' /\ \A u \in Workers : Undisturbed(u)
  BY Disturbing DEF MediaInv
<1>2. QED
  BY <1>1, Others DEF MediaInv, JobAt, Acts

(* ... and what worker w does leave the others undisturbed.                *)
LEMMA OneActs ==
  ASSUME MediaInv, NEW w \in Workers, NEW v \in Job, Becomes(w, v) \/ Continues(w, v)
  PROVE  /\ Working' /\ work'[w] = v
         /\ \A u \in Workers : u # w \/ v = Idle => Acts(u)
<1>1. Working' /\ work'[w] = v /\ \A u \in Workers : u # w \/ v = Idle => Undisturbed(u)
  BY Becoming, Continuing DEF MediaInv
<1>2. QED
  BY <1>1, Others DEF MediaInv, JobAt, Acts

(* So that MediaInv is kept if the files, the list and w do as they        *)
(* should, and nothing is sent.                                            *)
LEMMA Moved ==
  ASSUME MediaInv,
         FilesOK' /\ FilesMove, \A i \in DOMAIN files' \ DOMAIN files : ~ files'[i].synced,
         \A i \in DOMAIN files : files'[i].synced => Placed(i),
         MetadataOK' /\ MetadataMove /\ Removal /\ posted' \in Nat /\ posted <= posted',
         Working', \A u \in Workers : Acts(u)
  PROVE  MediaInv'
<1>1. PlacedMove
  BY NotPlacing DEF MediaInv, Acts
<1>2. MediaMove
  BY <1>1 DEF MediaMove, Acts
<1>3. QED
  BY <1>2, MediaKept

(* What MediaInv says of one worker.                                       *)
LEMMA AtWork ==
  ASSUME MediaInv, NEW w \in Workers
  PROVE  /\ work[w] \in Job /\ PhaseAt(w) /\ (work[w] = Idle <=> work[w].pc = "idle")
         /\ work[w] # Idle => work[w].known \in Known /\ work[w].todo \in Seq(Entry)
         /\ work[w].pc \in Past \cup {"query"} => work[w] \in Sync
         /\ work[w].pc \in {"rename", "tell", "create"} => work[w] \in Adoption
         /\ work[w] # Idle => \A n \in Names : work[w].known[n] # Nothing =>
               work[w].known[n] \in Meta
         /\ work[w] # Idle /\ work[w].todo # << >> =>
              /\ Head(work[w].todo) \in Entry /\ EntryAt(Head(work[w].todo))
              /\ Head(work[w].todo).id \in DOMAIN files /\ Head(work[w].todo).name \in Names
<1>1. Working /\ JobAt(w)
  BY DEF MediaInv
<1>2. /\ work[w] \in Job /\ (work[w] = Idle <=> work[w].pc = "idle")
      /\ work[w] # Idle => work[w].known \in Known /\ work[w].todo \in Seq(Entry)
      /\ work[w].pc \in Past \cup {"query"} => work[w] \in Sync
      /\ work[w].pc \in {"rename", "tell", "create"} => work[w] \in Adoption
  BY <1>1, Jobs
<1>3. work[w] # Idle => \A n \in Names : work[w].known[n] # Nothing => work[w].known[n] \in Meta
  BY <1>2 DEF Known
<1>4. ASSUME work[w] # Idle, work[w].todo # << >>
      PROVE  Head(work[w].todo) \in Entry /\ EntryAt(Head(work[w].todo))
  <2>1. Head(work[w].todo) = work[w].todo[1] /\ 1 \in DOMAIN work[w].todo
        /\ work[w].todo[1] \in Entry
    BY <1>2, <1>4, SeqFacts
  <2>2. QED
    BY <1>1, <1>2, <1>4, <2>1 DEF JobAt
<1>5. QED
  BY <1>1, <1>2, <1>3, <1>4 DEF JobAt, EntryAt, Entry

(* A user uploads a file.                                                  *)
LEMMA Uploads ==
  ASSUME MediaInv, NEW n \in Originals, NEW h \in Hashes, Upload(n, h), UNCHANGED doubled
  PROVE  MediaInv'
<1>1. n \in Names
  BY DEF Names
<1>2. /\ FilesOK' /\ FilesMove
      /\ \A i \in DOMAIN files' \ DOMAIN files : ~ files'[i].synced
      /\ \A i \in DOMAIN files : files'[i] = files[i]
  BY <1>1, FileAdded DEF MediaInv, Upload
<1>3. MetadataOK' /\ MetadataMove /\ Removal /\ posted' \in Nat /\ posted <= posted'
  BY MetadataSame DEF MediaInv, Upload
<1>4. Working' /\ \A u \in Workers : Acts(u)
  BY NobodyActs DEF Upload
<1>5. QED
  BY <1>2, <1>3, <1>4, Moved DEF Placed

(* A user deletes one.                                                     *)
LEMMA Deletions ==
  ASSUME MediaInv, NEW i \in DOMAIN files, Delete(i), UNCHANGED doubled
  PROVE  MediaInv'
<1>1. /\ FilesOK' /\ FilesMove
      /\ \A j \in DOMAIN files' \ DOMAIN files : ~ files'[j].synced
      /\ \A j \in DOMAIN files : files'[j].synced => files[j].synced
  BY FileDeleted DEF MediaInv, Delete
<1>2. MetadataOK' /\ MetadataMove /\ Removal /\ posted' \in Nat /\ posted <= posted'
  BY MetadataSame DEF MediaInv, Delete
<1>3. Working' /\ \A u \in Workers : Acts(u)
  BY NobodyActs DEF Delete
<1>4. QED
  BY <1>1, <1>2, <1>3, Moved DEF Placed

(* The files are the same, and nothing is sent.                            *)
LEMMA SameFiles ==
  ASSUME MediaInv, UNCHANGED <<files, gone, doubled>>,
         MetadataOK' /\ MetadataMove /\ Removal /\ posted' \in Nat /\ posted <= posted',
         Working', \A u \in Workers : Acts(u)
  PROVE  MediaInv'
<1>1. FilesOK' /\ FilesMove /\ (\A i \in DOMAIN files' \ DOMAIN files : ~ files'[i].synced)
  BY FilesSame DEF MediaInv
<1>2. \A i \in DOMAIN files : files'[i].synced => Placed(i)
  BY DEF Placed
<1>3. QED
  BY <1>1, <1>2, Moved

(* Somebody uploads a file to KoBoCAT ...                                  *)
LEMMA DirectUploads ==
  ASSUME MediaInv, NEW n \in Originals, NEW h \in Hashes, DirectUpload(n, h), UNCHANGED doubled
  PROVE  MediaInv'
<1>1. MetadataOK' /\ MetadataMove /\ Removal /\ posted' \in Nat /\ posted <= posted'
  BY MetadataAdded DEF MediaInv, DirectUpload, Names
<1>2. Working' /\ \A u \in Workers : Acts(u)
  BY NobodyActs DEF DirectUpload
<1>3. QED
  BY <1>1, <1>2, SameFiles DEF DirectUpload

(* ... or deletes it there.                                                *)
LEMMA DirectDeletions ==
  ASSUME MediaInv, NEW n \in Names, DirectDelete(n), UNCHANGED doubled
  PROVE  MediaInv'
<1>1. MetadataOK' /\ MetadataMove /\ Removal /\ posted' \in Nat /\ posted <= posted'
  BY MetadataRemoved DEF MediaInv, DirectDelete
<1>2. Working' /\ \A u \in Workers : Acts(u)
  BY NobodyActs DEF DirectDelete
<1>3. QED
  BY <1>1, <1>2, SameFiles DEF DirectDelete

(* A worker that changes nothing but what it is doing.                     *)
LEMMA Thinks ==
  ASSUME MediaInv, NEW w \in Workers, NEW v \in Job, Continues(w, v),
         UNCHANGED <<files, gone, metadata, posted, doubled>>, v # Idle => (work'[w] = v => Acts(w))
  PROVE  MediaInv'
<1>1. MetadataOK' /\ MetadataMove /\ Removal /\ posted' \in Nat /\ posted <= posted'
  BY MetadataSame DEF MediaInv
<1>2. Working' /\ \A u \in Workers : Acts(u)
  BY OneActs
<1>3. QED
  BY <1>1, <1>2, SameFiles

(* KoBoCAT's list is asked for.                                            *)
LEMMA Lists ==
  ASSUME MediaInv, NEW w \in Workers, List(w), UNCHANGED doubled
  PROVE  MediaInv'
<1> DEFINE v == [pc |-> "query", known |-> metadata, todo |-> << >>, alone |-> TRUE]
<1>1. v \in Sync
  <2>1. metadata \in Known /\ << >> \in Seq(Entry)
    BY DEF MediaInv, MetadataOK, Known
  <2>2. QED
    BY <2>1 DEF Sync
<1>2. v.pc = "query" /\ v.known = metadata /\ v.todo = << >>
  OBVIOUS
<1>3. v \in Job /\ Continues(w, v) /\ UNCHANGED <<files, gone, metadata, posted>>
  BY <1>1 DEF List, Job
<1> HIDE DEF v
<1>4. work'[w] = v => Acts(w)
  BY <1>2, <1>3 DEF Acts, PhaseAt, JobMove, WorkMove, Flagging, Past
<1>5. QED
  BY <1>3, <1>4, Thinks

(* Somebody finishes or is cut short.                                      *)
LEMMA Ends ==
  ASSUME MediaInv, NEW w \in Workers, Continues(w, Idle), UNCHANGED <<files, gone, metadata,
         posted, doubled>>
  PROVE  MediaInv'
  BY Thinks DEF Job

(* The next row is compared, and something is to be done in KoBoCAT.       *)
LEMMA Decides ==
  ASSUME MediaInv, NEW w \in Workers, At(w, "next"), work[w].todo # << >>,
         NEW p \in {"post", "remove", "replace"}, p = Verdict(Head(work[w].todo), work[w].known),
         Continues(w, [work[w] EXCEPT !.pc = p]), UNCHANGED <<files, gone, metadata, posted,
         doubled>>
  PROVE  MediaInv'
<1>1. work[w] \in Sync /\ work[w] # Idle /\ Head(work[w].todo) \in Entry /\ PhaseAt(w)
  BY AtWork DEF At, Past, Idle
<1> DEFINE v == [work[w] EXCEPT !.pc = p]
<1>2. v \in Sync /\ v.pc = p /\ v.known = work[w].known /\ v.todo = work[w].todo
  <2>1. v \in Sync
    BY <1>1, SyncMoves DEF Past
  <2>2. QED
    BY <1>1, <2>1 DEF Sync
<1>3. v \in Job /\ Continues(w, v)
  BY <1>2 DEF Job
<1> HIDE DEF v
<1>4. /\ p = "post" => ~ Head(work[w].todo).deleted
      /\ p = "replace" => /\ ~ Head(work[w].todo).deleted
                          /\ work[w].known[Head(work[w].todo).name].hash # Head(work[w].todo).hash
      /\ p = "remove" => Head(work[w].todo).deleted
  BY DEF Verdict
<1>5. ASSUME work'[w] = v PROVE Acts(w)
  <2>1. PhaseAt(w)'
    BY <1>2, <1>4, <1>5 DEF PhaseAt
  <2>2. KnownMove(w) /\ Stays(w) /\ work[w].pc = "next" /\ work'[w].pc = p
        /\ work'[w].todo = work[w].todo
    BY <1>2, <1>5 DEF KnownMove, Stays, At, Past
  <2>3. work'[w] # Idle
    BY <2>2 DEF Idle
  <2>4. JobMove(w)
    BY <1>1, <2>2, <2>3 DEF JobMove
  <2>5. WorkMove(w)
    BY <2>2 DEF WorkMove
  <2>6. QED
    BY <2>1, <2>2, <2>4, <2>5 DEF Acts, Flagging
<1>6. QED
  BY <1>3, <1>5, Thinks

(* A row is done ...                                                       *)
LEMMA DoneActs ==
  ASSUME MediaInv, NEW w \in Workers, work[w].pc \in Past, work[w].todo # << >>, work'[w] = Done(w),
         Head(work[w].todo).deleted => files'[Head(work[w].todo).id].state # "gone"
  PROVE  Acts(w)
<1>1. work[w] \in Sync /\ work[w] # Idle /\ Head(work[w].todo) \in Entry
  BY AtWork DEF Past, Idle
<1>2. /\ work'[w].pc = "next" /\ work'[w].todo = Tail(work[w].todo)
      /\ work'[w].known = [work[w].known EXCEPT ![Head(work[w].todo).name] = Nothing]
  BY <1>1, Doing DEF MediaInv
<1>3. work[w].known \in Known /\ Head(work[w].todo).name \in Names
  BY <1>1 DEF Sync, Entry
<1>4. KnownMove(w) /\ work'[w].known[Head(work[w].todo).name] = Nothing
  BY <1>2, <1>3 DEF KnownMove, Known
<1>5. Pops(w)
  BY <1>2, <1>4 DEF Pops
<1>6. work'[w] # Idle /\ work[w].pc # "idle"
  BY <1>2 DEF Idle, Past
<1>7. PhaseAt(w)'
  BY <1>2 DEF PhaseAt
<1>8. JobMove(w)
  BY <1>1, <1>2, <1>4, <1>6 DEF JobMove
<1>9. WorkMove(w)
  BY <1>4, <1>5, <1>6 DEF WorkMove
<1>10. Flagging(w)
  BY <1>2 DEF Flagging
<1>11. QED
  BY <1>7, <1>8, <1>9, <1>10 DEF Acts

(* ... and the worker goes on.                                             *)
LEMMA DoneIsJob ==
  ASSUME MediaInv, NEW w \in Workers, work[w].pc \in Past, work[w].todo # << >>
  PROVE  Done(w) \in Job /\ Done(w) # Idle
<1>1. work[w] \in Sync
  BY AtWork
<1>2. Done(w) \in Sync /\ Done(w).pc = "next"
  BY <1>1, Doing DEF MediaInv
<1>3. QED
  BY <1>2 DEF Job, Idle

(* The next row is compared, and both agree.                               *)
LEMMA Agreements ==
  ASSUME MediaInv, NEW w \in Workers, At(w, "next"), work[w].todo # << >>,
         Verdict(Head(work[w].todo), work[w].known) = "nothing",
         Continues(w, Done(w)), UNCHANGED <<files, gone, metadata, posted, doubled>>
  PROVE  MediaInv'
<1>1. ~ Head(work[w].todo).deleted
  BY DEF Verdict
<1>2. work[w].pc \in Past
  BY DEF At, Past
<1>3. QED
  BY <1>1, <1>2, DoneIsJob, DoneActs, Thinks

(* A deleted row goes away for good ...                                    *)
LEMMA PurgesKeep ==
  ASSUME MediaInv, NEW w \in Workers, work[w].pc \in Past, work[w].todo # << >>,
         Head(work[w].todo).deleted,
         Purged(Head(work[w].todo).id), NEW v \in Job, Becomes(w, v), v # Idle,
         work'[w] = v /\ files'[Head(work[w].todo).id].state # "gone" => Acts(w),
         UNCHANGED <<metadata, posted, doubled>>
  PROVE  MediaInv'
<1>1. /\ Head(work[w].todo).id \in DOMAIN files /\ files[Head(work[w].todo).id].state # "live"
  BY AtWork DEF Past, Idle, EntryAt
<1>2. /\ FilesOK' /\ FilesMove /\ files'[Head(work[w].todo).id].state = "away"
      /\ \A j \in DOMAIN files' \ DOMAIN files : ~ files'[j].synced
      /\ \A j \in DOMAIN files : files'[j].synced => files[j].synced
  BY <1>1, FilePurged DEF MediaInv
<1>3. MetadataOK' /\ MetadataMove /\ Removal /\ posted' \in Nat /\ posted <= posted'
  BY MetadataSame DEF MediaInv
<1>4. Working' /\ \A u \in Workers : Acts(u)
  BY <1>2, OneActs
<1>5. QED
  BY <1>2, <1>3, <1>4, Moved DEF Placed

(* ... at once ...                                                         *)
LEMMA ComparePurges ==
  ASSUME MediaInv, NEW w \in Workers, At(w, "next"), work[w].todo # << >>,
         Verdict(Head(work[w].todo), work[w].known) = "purge",
         Purged(Head(work[w].todo).id), Becomes(w, [work[w] EXCEPT !.todo = Tail(@)]),
         UNCHANGED <<metadata, posted, doubled>>
  PROVE  MediaInv'
<1>1. work[w] \in Sync /\ work[w] # Idle /\ work[w].pc \in Past /\ work[w].todo \in Seq(Entry)
  BY AtWork DEF At, Past, Idle
<1>2. Tail(work[w].todo) \in Seq(Entry)
  BY <1>1, HeadTailProperties
<1> DEFINE v == [work[w] EXCEPT !.todo = Tail(@)]
<1>3. v \in Sync /\ v.pc = "next" /\ v.known = work[w].known /\ v.todo = Tail(work[w].todo)
  <2>1. v \in Sync
    BY <1>1, <1>2, SyncMoves
  <2>2. QED
    BY <1>1, <2>1 DEF Sync, At
<1>4. v \in Job /\ Becomes(w, v)
  BY <1>3 DEF Job
<1> HIDE DEF v
<1>5. v # Idle /\ Head(work[w].todo).deleted
  <2>1. Head(work[w].todo).deleted
    BY DEF Verdict
  <2>2. QED
    BY <1>3, <2>1 DEF Idle
<1>6. ASSUME work'[w] = v, files'[Head(work[w].todo).id].state # "gone" PROVE Acts(w)
  <2>1. work'[w].pc = "next" /\ work'[w].known = work[w].known /\ work'[w].todo = Tail(work[w].todo)
    BY <1>3, <1>6
  <2>2. PhaseAt(w)'
    BY <2>1 DEF PhaseAt
  <2>3. KnownMove(w)
    BY <2>1 DEF KnownMove
  <2>4. Pops(w)
    BY <1>1, <1>5, <1>6, <2>1 DEF Pops
  <2>5. JobMove(w)
    BY <1>1, <1>5, <1>6, <2>1, <2>3 DEF JobMove
  <2>6. WorkMove(w) /\ Flagging(w)
    BY <2>1, <2>3, <2>4 DEF WorkMove, Flagging, At
  <2>7. QED
    BY <2>2, <2>5, <2>6 DEF Acts
<1>7. QED
  BY <1>1, <1>4, <1>5, <1>6, PurgesKeep

(* The next row is compared.                                               *)
LEMMA Compares ==
  ASSUME MediaInv, NEW w \in Workers, Compare(w), UNCHANGED doubled
  PROVE  MediaInv'
<1> DEFINE v == Verdict(Head(work[w].todo), work[w].known)
<1>0. At(w, "next") /\ work[w].todo # << >> /\ UNCHANGED <<metadata, posted>>
  BY DEF Compare
<1>1. v \in {"nothing", "purge", "post", "remove", "replace"}
  BY DEF Verdict
<1>2. /\ v = "nothing" => Continues(w, Done(w)) /\ UNCHANGED <<files, gone>>
      /\ v = "purge" => Purged(Head(work[w].todo).id) /\ Becomes(w,
          [work[w] EXCEPT !.todo = Tail(@)])
      /\ v \in {"post", "remove", "replace"} =>
           Continues(w, [work[w] EXCEPT !.pc = v]) /\ UNCHANGED <<files, gone>>
  <2> HIDE DEF v
  <2>1. CASE v = "nothing"
    BY <2>1 DEF Compare, v
  <2>2. CASE v = "purge"
    BY <2>2 DEF Compare, v
  <2>3. CASE v \in {"post", "remove", "replace"}
    BY <2>3 DEF Compare, v
  <2>4. QED
    BY <1>1, <2>1, <2>2, <2>3
<1>3. PICK p : p = v
  OBVIOUS
<1> HIDE DEF v
<1>4. CASE v = "nothing"
  BY <1>0, <1>2, <1>4, Agreements DEF v
<1>5. CASE v = "purge"
  BY <1>0, <1>2, <1>5, ComparePurges DEF v
<1>6. CASE v \in {"post", "remove", "replace"}
  <2>1. /\ p \in {"post", "remove", "replace"} /\ p = Verdict(Head(work[w].todo), work[w].known)
        /\ Continues(w, [work[w] EXCEPT !.pc = p]) /\ UNCHANGED <<files, gone, metadata, posted,
            doubled>>
    BY <1>0, <1>2, <1>3, <1>6 DEF v
  <2>2. QED
    BY <1>0, <2>1, Decides
<1>7. QED
  BY <1>1, <1>4, <1>5, <1>6

(* What is read of a row is what a worker holds.                           *)
LEMMA InstanceIsEntry ==
  ASSUME NEW i \in DOMAIN files, FilesOK
  PROVE  Instance(i) \in Entry
<1>1. files[i].name \in Names /\ files[i].hash \in Hashes /\ i \in Ids
  <2>1. files[i] \in File /\ DOMAIN files = 1..Len(files) /\ Len(files) \in Nat
        /\ Len(files) <= MaxFiles
    BY SeqFacts DEF FilesOK
  <2>2. i \in Ids
    BY <2>1, Numbers DEF Ids
  <2>3. QED
    BY <2>1, <2>2 DEF File
<1>2. (files[i].state = "gone") \in BOOLEAN
  OBVIOUS
<1>3. QED
  BY <1>1, <1>2, Zenon DEF Instance, Entry

(* ids are of rows that are deleted, and then of all that are live.        *)
Ordered(ids) ==
  /\ ids \in Seq(DOMAIN files) /\ DOMAIN ids = 1..Len(ids) /\ Len(ids) \in Nat
  /\ \A k \in DOMAIN ids : files[ids[k]].state \in {"live", "gone"}
  /\ \A k \in DOMAIN ids, j \in DOMAIN files : files[ids[k]].state # "gone"
      /\ files[j].state = "gone" =>
       \E m \in 1..k-1 : m \in DOMAIN ids /\ ids[m] = j
  /\ \A i \in DOMAIN files : files[i].state = "live" => \E k \in DOMAIN ids : ids[k] = i

(* In this order they are read.                                            *)
LEMMA Orders ==
  ASSUME FilesOK, NEW live, live = {i \in DOMAIN files : files[i].state = "live"},
         NEW order \in [1..Cardinality(live) -> live],
         \A i \in live : \E k \in DOMAIN order : order[k] = i,
         NEW ids, ids = gone \o order
  PROVE  Ordered(ids)
<1>1. gone \in Seq(DOMAIN files) /\ DOMAIN gone = 1..Len(gone) /\ Len(gone) \in Nat
      /\ DOMAIN files = 1..Len(files) /\ Len(files) \in Nat
  BY SeqFacts DEF FilesOK
<1>2. IsFiniteSet(live)
  <2>1. IsFiniteSet(1..Len(files))
    BY <1>1, FS_Interval
  <2>2. live \subseteq 1..Len(files)
    BY <1>1
  <2>3. QED
    BY <2>1, <2>2, FS_Subset
<1>3. Cardinality(live) \in Nat
  BY <1>2, FS_CardinalityType
<1>4. order \in Seq(DOMAIN files) /\ DOMAIN order = 1..Len(order) /\ Len(order) \in Nat
  <2>1. order \in [1..Cardinality(live) -> DOMAIN files]
    OBVIOUS
  <2>2. order \in Seq(DOMAIN files)
    BY <1>3, <2>1, SeqDef
  <2>3. QED
    BY <2>2, SeqFacts
<1>5. /\ ids \in Seq(DOMAIN files) /\ Len(ids) = Len(gone) + Len(order)
      /\ \A k \in 1..(Len(gone) + Len(order)) :
           ids[k] = IF k <= Len(gone) THEN gone[k] ELSE order[k - Len(gone)]
  BY <1>1, <1>4, ConcatProperties
<1>6. DOMAIN ids = 1..(Len(gone) + Len(order)) /\ Len(ids) \in Nat
  BY <1>5, SeqFacts
<1>7. \A k \in DOMAIN gone : k \in DOMAIN ids /\ ids[k] = gone[k]
  BY <1>1, <1>4, <1>5, <1>6
<1>8. \A k \in DOMAIN order : k + Len(gone) \in DOMAIN ids /\ ids[k + Len(gone)] = order[k]
  <2>1. ASSUME NEW k \in DOMAIN order
        PROVE  k + Len(gone) \in DOMAIN ids /\ ids[k + Len(gone)] = order[k]
    <3>1. k \in Int /\ k >= 1 /\ k <= Len(order) /\ k + Len(gone) \in 1..(Len(gone) + Len(order))
      BY <1>1, <1>4
    <3>2. ~ (k + Len(gone) <= Len(gone)) /\ (k + Len(gone)) - Len(gone) = k
      BY <1>1, <3>1
    <3>3. QED
      BY <1>5, <1>6, <3>1, <3>2
  <2>2. QED
    BY <2>1
<1>9. \A k \in DOMAIN gone : files[gone[k]].state = "gone"
  BY <1>1, SeqFacts DEF FilesOK
<1>10. ASSUME NEW k \in DOMAIN ids
       PROVE  \/ k \in DOMAIN gone /\ files[ids[k]].state = "gone"
              \/ k > Len(gone) /\ files[ids[k]].state = "live"
  <2>1. k \in Int /\ k >= 1 /\ k <= Len(gone) + Len(order)
    BY <1>1, <1>4, <1>6
  <2>2. CASE k <= Len(gone)
    BY <1>1, <1>7, <1>9, <2>1, <2>2
  <2>3. CASE k > Len(gone)
    <3>1. k - Len(gone) \in DOMAIN order
      BY <1>1, <1>4, <2>1, <2>3
    <3>2. ids[k] = order[k - Len(gone)]
      BY <1>1, <1>5, <1>6, <2>3
    <3>3. order[k - Len(gone)] \in live
      BY <3>1
    <3>4. QED
      BY <2>3, <3>2, <3>3
  <2>4. QED
    BY <1>1, <2>1, <2>2, <2>3
<1>11. ASSUME NEW k \in DOMAIN ids, NEW j \in DOMAIN files, files[ids[k]].state # "gone",
              files[j].state = "gone"
       PROVE  \E m \in 1..k-1 : m \in DOMAIN ids /\ ids[m] = j
  <2>1. PICK m \in DOMAIN gone : gone[m] = j
    BY <1>11 DEF FilesOK
  <2>2. k > Len(gone) /\ k \in Int
    <3>1. k > Len(gone)
      BY <1>10, <1>11
    <3>2. k \in Int
      BY <1>1, <1>4, <1>6
    <3>3. QED
      BY <3>1, <3>2
  <2>3. m \in 1..k-1
    <3>1. m \in Int /\ m >= 1 /\ m <= Len(gone) /\ Len(gone) \in Int
      BY <1>1
    <3>2. QED
      BY <2>2, <3>1
  <2>4. QED
    BY <1>7, <2>1, <2>3
<1>12. ASSUME NEW i \in DOMAIN files, files[i].state = "live"
       PROVE  \E k \in DOMAIN ids : ids[k] = i
  <2>1. PICK k \in DOMAIN order : order[k] = i
    BY <1>12
  <2>2. QED
    BY <1>8, <2>1
<1>13. \A k \in DOMAIN ids : files[ids[k]].state \in {"live", "gone"}
  BY <1>10
<1>14. DOMAIN ids = 1..Len(ids)
  BY <1>5, <1>6
<1>16. \A k \in DOMAIN ids, j \in DOMAIN files : files[ids[k]].state # "gone"
       /\ files[j].state = "gone" =>
         \E m \in 1..k-1 : m \in DOMAIN ids /\ ids[m] = j
  BY <1>11
<1>17. \A i \in DOMAIN files : files[i].state = "live" => \E k \in DOMAIN ids : ids[k] = i
  BY <1>12
<1>15. QED
  BY <1>5, <1>6, <1>13, <1>14, <1>16, <1>17 DEF Ordered

(* The rows are read.                                                      *)
LEMMA QueriesRows ==
  ASSUME MediaInv, NEW w \in Workers, Query(w), UNCHANGED doubled
  PROVE  MediaInv'
<1>0. work[w] \in Sync /\ work[w] # Idle /\ work[w].pc = "query" /\ FilesOK
  BY AtWork DEF Query, At, Idle, MediaInv
<1>1. UNCHANGED <<files, gone, metadata, posted, doubled>>
  BY DEF Query
<1>20. PICK live : live = {i \in DOMAIN files : files[i].state = "live"}
  OBVIOUS
<1>21. PICK order \in [1..Cardinality(live) -> live] :
        /\ \A i \in live : \E k \in DOMAIN order : order[k] = i
        /\ Continues(w, [work[w] EXCEPT
                           !.pc = "next",
                           !.todo = [k \in DOMAIN (gone \o order) |->
                                       Instance((gone \o order)[k])]])
  BY <1>20 DEF Query
<1>22. PICK ids : ids = gone \o order
  OBVIOUS
<1>23. PICK todo : todo = [k \in DOMAIN ids |-> Instance(ids[k])]
  OBVIOUS
<1>2. /\ todo = [k \in DOMAIN ids |-> Instance(ids[k])]
      /\ Continues(w, [work[w] EXCEPT !.pc = "next", !.todo = todo])
  BY <1>21, <1>22, <1>23
<1>19. Ordered(ids)
  BY <1>0, <1>20, <1>21, <1>22, Orders
<1>3. /\ ids \in Seq(DOMAIN files) /\ DOMAIN ids = 1..Len(ids) /\ Len(ids) \in Nat
      /\ \A k \in DOMAIN ids : files[ids[k]].state \in {"live", "gone"}
      /\ \A k \in DOMAIN ids, j \in DOMAIN files : files[ids[k]].state # "gone"
          /\ files[j].state = "gone" =>
           \E m \in 1..k-1 : m \in DOMAIN ids /\ ids[m] = j
      /\ \A i \in DOMAIN files : files[i].state = "live" => \E k \in DOMAIN ids : ids[k] = i
  BY <1>19 DEF Ordered
<1>4. \A k \in DOMAIN ids : ids[k] \in DOMAIN files
  BY <1>3, SeqFacts
<1>5. DOMAIN todo = DOMAIN ids /\ \A k \in DOMAIN ids : todo[k] = Instance(ids[k])
  BY <1>2
<1>6. todo \in Seq(Entry)
  <2>1. \A k \in DOMAIN ids : Instance(ids[k]) \in Entry
    BY <1>0, <1>4, InstanceIsEntry
  <2>2. todo \in [1..Len(ids) -> Entry]
    BY <1>2, <1>3, <2>1
  <2>3. QED
    BY <1>3, <2>2, SeqDef
<1>7. \A k \in DOMAIN todo : todo[k].id = ids[k]
      /\ (todo[k].deleted <=> files[ids[k]].state = "gone")
  <2>1. ASSUME NEW k \in DOMAIN ids
        PROVE  Instance(ids[k]).id = ids[k]
               /\ (Instance(ids[k]).deleted <=> files[ids[k]].state = "gone")
    BY Zenon DEF Instance
  <2>2. QED
    BY <1>5, <2>1, Zenon
<1> DEFINE v == [work[w] EXCEPT !.pc = "next", !.todo = todo]
<1>8. v \in Sync /\ v.pc = "next" /\ v.todo = todo /\ v.known = work[w].known
  BY <1>0, <1>6 DEF Sync, Past
<1>9. v \in Job /\ Continues(w, v) /\ v # Idle
  BY <1>2, <1>8 DEF Job, Idle
<1> HIDE DEF v
<1>10. ASSUME work'[w] = v PROVE Acts(w)
  <2>1. work'[w].pc = "next" /\ work'[w].todo = todo /\ work'[w].known = work[w].known
    BY <1>8, <1>10
  <2>2. Queries(w)
    <3>1. ASSUME NEW k \in DOMAIN todo
          PROVE  /\ todo[k] = Instance(todo[k].id) /\ todo[k].id \in DOMAIN files
                 /\ files[todo[k].id].state \in {"live", "gone"}
      BY <1>3, <1>4, <1>5, <1>7
    <3>2. ASSUME NEW k \in DOMAIN todo, ~ todo[k].deleted, NEW j \in DOMAIN files,
                 files[j].state = "gone"
          PROVE  \E m \in 1..k-1 : todo[m].id = j
      <4>1. k \in DOMAIN ids /\ files[ids[k]].state # "gone"
        BY <1>5, <1>7, <3>2
      <4>2. PICK m \in 1..k-1 : m \in DOMAIN ids /\ ids[m] = j
        BY <1>3, <3>2, <4>1
      <4>3. QED
        BY <1>5, <1>7, <4>2
    <3>3. ASSUME NEW i \in DOMAIN files, files[i].state = "live"
          PROVE  \E k \in DOMAIN todo : todo[k].id = i
      <4>1. PICK k \in DOMAIN ids : ids[k] = i
        BY <1>3, <3>3
      <4>2. QED
        BY <1>5, <1>7, <4>1
    <3>4. QED
      BY <1>0, <1>1, <2>1, <3>1, <3>2, <3>3 DEF Queries
  <2>3. PhaseAt(w)' /\ KnownMove(w) /\ Flagging(w)
    BY <2>1 DEF PhaseAt, KnownMove, Flagging
  <2>4. JobMove(w)
    BY <1>0, <1>9, <1>10, <2>2, <2>3 DEF JobMove
  <2>5. WorkMove(w)
    BY <1>0, <2>2, <2>3 DEF WorkMove
  <2>6. QED
    BY <2>3, <2>4, <2>5 DEF Acts
<1>11. QED
  BY <1>1, <1>9, <1>10, Thinks

(* A worker does something about a row, which remains the first.           *)
LEMMA PhaseActs ==
  ASSUME MediaInv, NEW w \in Workers, work[w].pc \in Past, work[w].todo # << >>,
         NEW p \in Past, NEW v, v = [work[w] EXCEPT !.pc = p],
         p \in {"post", "flag"} => ~ Head(work[w].todo).deleted,
         p \in {"remove", "purge"} => Head(work[w].todo).deleted,
         p # "replace"
  PROVE  /\ v \in Job /\ v # Idle
         /\ work'[w] = v => PhaseAt(w)' /\ JobMove(w) /\ WorkMove(w) /\ (p # "flag" => Flagging(w))
<1>1. work[w] \in Sync /\ work[w] # Idle /\ work[w].pc # "idle"
  BY AtWork DEF Past, Idle
<1>2. v \in Sync /\ v.pc = p /\ v.known = work[w].known /\ v.todo = work[w].todo
  <2>1. v \in Sync
    BY <1>1, SyncMoves
  <2>2. QED
    BY <1>1, <2>1 DEF Sync
<1>3. v \in Job /\ v # Idle
  BY <1>2 DEF Job, Idle, Past
<1>4. ASSUME work'[w] = v
      PROVE  PhaseAt(w)' /\ JobMove(w) /\ WorkMove(w) /\ (p # "flag" => Flagging(w))
  <2>1. work'[w].pc = p /\ work'[w].known = work[w].known /\ work'[w].todo = work[w].todo
        /\ work'[w] # Idle
    BY <1>2, <1>3, <1>4
  <2>2. PhaseAt(w)'
    BY <2>1 DEF PhaseAt, Past
  <2>3. KnownMove(w) /\ Stays(w)
    BY <2>1 DEF KnownMove, Stays
  <2>4. QED
    BY <1>1, <2>1, <2>2, <2>3 DEF JobMove, WorkMove, Flagging
<1>5. QED
  BY <1>3, <1>4

(* KoBoCAT takes a file: no file of its name waits to be removed there,    *)
(* because the row is the worker's first, and those come before it.        *)
LEMMA Posts ==
  ASSUME MediaInv, NEW w \in Workers, At(w, "post"), posted < MaxMetadata,
         metadata[Head(work[w].todo).name] = Nothing, posted' = posted + 1,
         metadata' = [metadata EXCEPT ![Head(work[w].todo).name] =
                        [pk |-> posted + 1, hash |-> Head(work[w].todo).hash, fromKpi |-> TRUE]],
         Becomes(w, [work[w] EXCEPT !.pc = "flag"]), UNCHANGED <<files, gone, doubled>>
  PROVE  MediaInv'
<1>1. /\ work[w].pc \in Past /\ work[w].todo # << >> /\ ~ Head(work[w].todo).deleted
      /\ work[w] # Idle /\ work[w] \in Sync
  BY AtWork DEF At, Past, PhaseAt, Idle
<1>2. PICK f : f = Head(work[w].todo)
  OBVIOUS
<1>3. /\ f.name \in Names /\ f.hash \in Hashes /\ ~ f.deleted /\ EntryAt(f) /\ f.id \in DOMAIN files
      /\ f = work[w].todo[1] /\ 1 \in DOMAIN work[w].todo
  <2>1. f \in Entry /\ EntryAt(f)
    BY <1>1, <1>2, AtWork
  <2>2. work[w].todo \in Seq(Entry)
    BY <1>1 DEF Sync
  <2>3. f = work[w].todo[1] /\ 1 \in DOMAIN work[w].todo
    BY <1>1, <1>2, <2>2, SeqFacts
  <2>4. QED
    BY <1>1, <1>2, <2>1, <2>3 DEF Entry, EntryAt
<1>4. PICK m : m = [pk |-> posted + 1, hash |-> f.hash, fromKpi |-> TRUE]
  OBVIOUS
<1>5. metadata[f.name] = Nothing /\ metadata' = [metadata EXCEPT ![f.name] = m]
  BY <1>2, <1>4
<1>6. MetadataOK' /\ MetadataMove /\ Removal /\ posted' \in Nat /\ posted <= posted'
  BY <1>2, <1>3, MetadataAdded DEF MediaInv
<1>7. metadata'[f.name] # Nothing /\ metadata'[f.name].hash = f.hash /\ metadata'[f.name].fromKpi
  <2>1. metadata'[f.name] = m
    BY <1>3, <1>5 DEF MediaInv, MetadataOK
  <2>2. m \in Meta
    <3>1. posted + 1 \in 1..MaxMetadata
      BY Numbers DEF MediaInv, MetadataOK
    <3>2. QED
      BY <1>3, <1>4, <3>1 DEF Meta
  <2>3. QED
    <3>1. m # Nothing
      BY <2>2, NothingAssumption
    <3>2. m.hash = f.hash /\ m.fromKpi
      BY <1>4
    <3>3. QED
      BY <2>1, <3>1, <3>2
<1>8. PICK v : v = [work[w] EXCEPT !.pc = "flag"]
  OBVIOUS
<1>9. /\ v \in Job /\ v # Idle
      /\ work'[w] = v => PhaseAt(w)' /\ JobMove(w) /\ WorkMove(w)
  <2>1. "flag" \in Past
    BY DEF Past
  <2>2. QED
    BY <1>1, <1>8, <2>1, PhaseActs
<1>10. /\ Working' /\ work'[w] = v
       /\ \A u \in Workers : u # w => Acts(u)
  BY <1>8, <1>9, OneActs
<1>11. \A u \in Workers : PhaseAt(u)' /\ JobMove(u) /\ WorkMove(u)
  BY <1>9, <1>10 DEF Acts
<1>12. /\ FilesOK' /\ FilesMove
  BY FilesSame DEF MediaInv
<1>13. work'[w].todo = work[w].todo
  BY <1>1, <1>8, <1>10 DEF Sync
<1>14. PlacedMove
  <2> SUFFICES ASSUME NEW i \in DOMAIN files, NEW n \in Originals, files[i].state = "live",
                      files[i].name = n,
                      n \notin doubled, Placed(i)'
               PROVE  \/ Placed(i)
                      \/ /\ metadata[n] = Nothing /\ metadata'[n] # Nothing
                         /\ metadata'[n].hash = files[i].hash /\ metadata'[n].fromKpi /\ Clear(n)
    BY DEF PlacedMove
  <2>1. CASE files'[i].synced
    BY <2>1 DEF Placed
  <2>2. ASSUME NEW u \in Workers, u # w, work'[u].pc = "flag", Head(work'[u].todo).id = i
        PROVE  Placed(i)
    BY <1>10, <2>2 DEF Acts, Flagging, Placed
  <2>3. CASE f.id = i
    <3>1. f.name = n /\ f.hash = files[i].hash
      BY <1>3, <2>3 DEF EntryAt
    <3>2. GatheredAt(w, 1)
      BY <1>1, <1>3 DEF MediaInv, Gathered
    <3>3. f.id \in Live(f.name) /\ f.name \in Originals \ doubled
      BY <2>3, <3>1 DEF Live
    <3>4. \A j \in DOMAIN files : ~ Gone(j, n)
      BY <1>3, <3>1, <3>2, <3>3 DEF GatheredAt
    <3>5. QED
      BY <1>5, <1>7, <3>1, <3>4 DEF Clear
  <2>4. ASSUME work'[w].pc = "flag", Head(work'[w].todo).id = i PROVE f.id = i
    BY <1>2, <1>13, <2>4
  <2>5. QED
    BY <2>1, <2>2, <2>3, <2>4 DEF Placed
<1>15. MediaMove
  BY <1>6, <1>10, <1>11, <1>12, <1>14 DEF MediaMove
<1>16. QED
  BY <1>15, MediaKept

(* The flag is set of what KoBoCAT has taken.                              *)
LEMMA Flags ==
  ASSUME MediaInv, NEW w \in Workers, At(w, "flag"), files' = Flagged(Head(work[w].todo).id),
         Continues(w, Done(w)), UNCHANGED <<gone, metadata, posted, doubled>>
  PROVE  MediaInv'
<1>1. /\ work[w].pc = "flag" /\ work[w].pc \in Past /\ work[w].todo # << >>
          /\ ~ Head(work[w].todo).deleted
      /\ Head(work[w].todo).id \in DOMAIN files
  BY AtWork DEF At, Past, PhaseAt, Idle
<1>2. /\ FilesOK' /\ FilesMove
      /\ \A j \in DOMAIN files' \ DOMAIN files : ~ files'[j].synced
      /\ \A j \in DOMAIN files : files'[j].synced => files[j].synced \/ j = Head(work[w].todo).id
  BY <1>1, FileFlagged DEF MediaInv
<1>3. \A j \in DOMAIN files : files'[j].synced => Placed(j)
  BY <1>1, <1>2 DEF Placed
<1>4. MetadataOK' /\ MetadataMove /\ Removal /\ posted' \in Nat /\ posted <= posted'
  BY MetadataSame DEF MediaInv
<1>5. Done(w) \in Job /\ Done(w) # Idle
  BY <1>1, DoneIsJob
<1>6. Working' /\ work'[w] = Done(w) /\ \A u \in Workers : u # w => Acts(u)
  BY <1>5, OneActs
<1>7. Acts(w)
  BY <1>1, <1>6, DoneActs
<1>8. QED
  BY <1>2, <1>3, <1>4, <1>6, <1>7, Moved

(* A file is sent.                                                         *)
LEMMA Saves ==
  ASSUME MediaInv, NEW w \in Workers, Save(w), UNCHANGED doubled
  PROVE  MediaInv'
<1>1. \/ /\ At(w, "post") /\ posted < MaxMetadata
         /\ metadata[Head(work[w].todo).name] = Nothing /\ posted' = posted + 1
         /\ metadata' = [metadata EXCEPT ![Head(work[w].todo).name] =
                           [pk |-> posted + 1, hash |-> Head(work[w].todo).hash, fromKpi |-> TRUE]]
         /\ Becomes(w, [work[w] EXCEPT !.pc = "flag"]) /\ UNCHANGED <<files, gone>>
      \/ /\ At(w, "flag") /\ files' = Flagged(Head(work[w].todo).id)
         /\ Continues(w, Done(w)) /\ UNCHANGED <<gone, metadata, posted>>
  BY DEF Save
<1>2. QED
  BY <1>1, Posts, Flags

(* A worker deletes what it knows of KoBoCAT.                              *)
LEMMA Takes ==
  ASSUME MediaInv, NEW w \in Workers, NEW n \in Names, NEW v \in Job, Deletes(w, n, v),
         UNCHANGED doubled,
         \/ work[w].pc \in {"remove", "replace"} /\ Head(work[w].todo).name = n
         \/ work[w].pc = "next" /\ work[w].todo = << >>,
         work'[w] = v => Acts(w)
  PROVE  MediaInv'
<1>1. MetadataOK' /\ MetadataMove /\ Removal /\ posted' \in Nat /\ posted <= posted'
  BY MetadataRemoved DEF MediaInv, Deletes
<1>2. Working' /\ \A u \in Workers : Acts(u)
  BY OneActs DEF Deletes
<1>3. QED
  BY <1>1, <1>2, SameFiles DEF Deletes

(* What was deleted in KPI is removed.                                     *)
LEMMA Removes ==
  ASSUME MediaInv, NEW w \in Workers, Remove(w), UNCHANGED doubled
  PROVE  MediaInv'
<1>1. CASE At(w, "remove") /\ Deletes(w, Head(work[w].todo).name, [work[w] EXCEPT !.pc = "purge"])
  <2>1. /\ work[w].pc = "remove" /\ work[w].pc \in Past /\ work[w].todo # << >>
            /\ Head(work[w].todo).deleted
        /\ Head(work[w].todo).name \in Names
    BY <1>1, AtWork DEF At, Past, PhaseAt, Idle
  <2>2. PICK v : v = [work[w] EXCEPT !.pc = "purge"]
    OBVIOUS
  <2>3. "purge" \in Past
    BY DEF Past
  <2>4. v \in Job /\ (work'[w] = v => Acts(w))
    BY <2>1, <2>2, <2>3, PhaseActs DEF Acts
  <2>5. QED
    BY <1>1, <2>1, <2>2, <2>4, Takes
<1>2. CASE /\ At(w, "purge") /\ Purged(Head(work[w].todo).id) /\ Becomes(w, Done(w))
           /\ UNCHANGED <<metadata, posted>>
  <2>1. work[w].pc \in Past /\ work[w].todo # << >> /\ Head(work[w].todo).deleted
    BY <1>2, AtWork DEF At, Past, PhaseAt, Idle
  <2>2. Done(w) \in Job /\ Done(w) # Idle
    BY <2>1, DoneIsJob
  <2>3. work'[w] = Done(w) /\ files'[Head(work[w].todo).id].state # "gone" => Acts(w)
    BY <2>1, DoneActs
  <2>4. QED
    BY <1>2, <2>1, <2>2, <2>3, PurgesKeep
<1>3. QED
  BY <1>1, <1>2 DEF Remove

(* What has another content is removed, to be sent again.                  *)
LEMMA Replaces ==
  ASSUME MediaInv, NEW w \in Workers, Replace(w), UNCHANGED doubled
  PROVE  MediaInv'
<1>1. /\ work[w].pc = "replace" /\ work[w].pc \in Past /\ work[w].todo # << >>
          /\ ~ Head(work[w].todo).deleted
      /\ Head(work[w].todo).name \in Names
      /\ Deletes(w, Head(work[w].todo).name, [work[w] EXCEPT !.pc = "post"])
  BY AtWork DEF Replace, At, Past, PhaseAt, Idle
<1>2. PICK v : v = [work[w] EXCEPT !.pc = "post"]
  OBVIOUS
<1>3. "post" \in Past
  BY DEF Past
<1>4. v \in Job /\ (work'[w] = v => Acts(w))
  BY <1>1, <1>2, <1>3, PhaseActs DEF Acts
<1>5. QED
  BY <1>1, <1>2, <1>4, Takes

(* What no row is left for is removed.                                     *)
LEMMA RemovesOrphans ==
  ASSUME MediaInv, NEW w \in Workers, RemoveOrphan(w), UNCHANGED doubled
  PROVE  MediaInv'
<1>1. PICK n \in Names : Deletes(w, n, [work[w] EXCEPT !.known[n] = Nothing])
  BY DEF RemoveOrphan, Orphans
<1>2. /\ work[w].pc = "next" /\ work[w].todo = << >> /\ work[w] \in Sync /\ work[w] # Idle
      /\ work[w].pc \in Past
  BY AtWork DEF RemoveOrphan, At, Past, Idle
<1>3. PICK known : known = [work[w].known EXCEPT ![n] = Nothing]
  OBVIOUS
<1>4. known \in Known /\ \A m \in Names : known[m] \in {work[w].known[m], Nothing}
  BY <1>2, <1>3 DEF Sync, Known
<1>5. PICK v : v = [work[w] EXCEPT !.known = known]
  OBVIOUS
<1>6. v = [work[w] EXCEPT !.known[n] = Nothing]
  BY <1>3, <1>5
<1>7. v \in Sync /\ v.pc = "next" /\ v.todo = << >> /\ v.known = known
  <2>1. v \in Sync
    BY <1>2, <1>4, <1>5, SyncMoves
  <2>2. QED
    BY <1>2, <1>5, <2>1 DEF Sync
<1>8. v \in Job /\ v # Idle
  BY <1>7 DEF Job, Idle
<1>9. ASSUME work'[w] = v PROVE Acts(w)
  <2>1. work'[w].pc = "next" /\ work'[w].todo = work[w].todo /\ work'[w].known = known
        /\ work'[w] # Idle
    BY <1>2, <1>7, <1>8, <1>9
  <2>2. PhaseAt(w)'
    BY <2>1 DEF PhaseAt
  <2>3. KnownMove(w) /\ Stays(w)
    BY <1>2, <1>4, <2>1 DEF KnownMove, Stays
  <2>4. QED
    BY <1>2, <2>1, <2>2, <2>3 DEF Acts, JobMove, WorkMove, Flagging
<1>10. QED
  BY <1>1, <1>2, <1>6, <1>8, <1>9, Takes

(* The command changes none of its list and rows.                          *)
LEMMA AdoptionActs ==
  ASSUME MediaInv, NEW w \in Workers, work[w] # Idle, NEW v \in Adoption, v.known = work[w].known,
         v.todo = work[w].todo, v.pc \in {"tell", "create"} => v.at \in Names
         /\ work[w].known[v.at] # Nothing,
         \A n \in v.left : work[w].known[n] # Nothing
  PROVE  v \in Job /\ v # Idle /\ (work'[w] = v => Acts(w))
<1>1. v \in Job /\ v # Idle /\ v.pc \in {"rename", "tell", "create"}
  BY DEF Adoption, Job, Idle
<1>2. ASSUME work'[w] = v PROVE Acts(w)
  <2>1. /\ work'[w].pc = v.pc /\ work'[w].known = work[w].known /\ work'[w].todo = work[w].todo
        /\ work'[w] # Idle /\ work'[w].left = v.left /\ work'[w].at = v.at
    BY <1>1, <1>2
  <2>2. PhaseAt(w)'
    BY <1>1, <2>1 DEF PhaseAt
  <2>3. KnownMove(w)
    BY <2>1 DEF KnownMove
  <2>4. QED
    BY <1>1, <2>1, <2>2, <2>3 DEF Acts, JobMove, WorkMove, Flagging, Past
<1>3. QED
  BY <1>1, <1>2

(* What MediaInv says of the command.                                      *)
LEMMA Adopting ==
  ASSUME MediaInv, NEW w \in Workers, work[w].pc \in {"rename", "tell", "create"}
  PROVE  /\ work[w] \in Adoption /\ work[w] # Idle /\ work[w].left \subseteq Names
         /\ \A n \in work[w].left : work[w].known[n] \in Meta /\ work[w].known[n] # Nothing
         /\ work[w].pc \in {"tell", "create"} => work[w].at \in Names
             /\ work[w].known[work[w].at] # Nothing
                                                /\ work[w].known[work[w].at] \in Meta
<1>1. work[w] \in Adoption /\ work[w] # Idle /\ PhaseAt(w)
  BY AtWork DEF Idle
<1>2. work[w].left \subseteq Names
  BY <1>1 DEF Adoption
<1>3. \A n \in work[w].left : work[w].known[n] # Nothing
  BY <1>1 DEF PhaseAt
<1>4. \A n \in Names : work[w].known[n] # Nothing => work[w].known[n] \in Meta
  BY <1>1, AtWork
<1>5. work[w].pc \in {"tell", "create"} => work[w].at \in Names
      /\ work[w].known[work[w].at] # Nothing
  BY <1>1 DEF PhaseAt
<1>6. QED
  BY <1>1, <1>2, <1>3, <1>4, <1>5

(* The command lists what is not KPI's.                                    *)
LEMMA AdoptionLists ==
  ASSUME MediaInv, NEW w \in Workers, AdoptionList(w)
  PROVE  MediaInv'
<1>1. PICK v : v = [pc |-> "rename", known |-> metadata, todo |-> << >>, left |-> Direct,
                    at |-> Nothing, alone |-> TRUE]
  OBVIOUS
<1>2. Direct \in SUBSET Names /\ \A n \in Direct : metadata[n] # Nothing
  BY DEF Direct
<1>3. metadata \in Known /\ << >> \in Seq(Entry)
  BY DEF MediaInv, MetadataOK, Known
<1>4. v \in Adoption
  BY <1>1, <1>2, <1>3 DEF Adoption
<1>5. v \in Job /\ v # Idle /\ v.pc = "rename" /\ v.known = metadata /\ v.todo = << >>
      /\ v.left = Direct
  BY <1>1, <1>4 DEF Job, Idle
<1>6. Continues(w, v) /\ UNCHANGED <<files, gone, metadata, posted, doubled>>
  BY <1>1 DEF AdoptionList
<1>7. work'[w] = v => Acts(w)
  BY <1>2, <1>5, <1>6 DEF Acts, PhaseAt, JobMove, WorkMove, Flagging, Past
<1>8. QED
  BY <1>5, <1>6, <1>7, Thinks

(* The files of KPI step aside.                                            *)
LEMMA AdoptionRenames ==
  ASSUME MediaInv, NEW w \in Workers, AdoptionRename(w)
  PROVE  MediaInv'
<1>1. PICK n, others :
        /\ n \in work[w].left
        /\ others = {i \in Live(n) : files[i].hash # work[w].known[n].hash}
        /\ n \in Originals \/ others = {}
        /\ files' = [i \in DOMAIN files |->
                       IF i \in others THEN [files[i] EXCEPT !.name = CopyOf(@)] ELSE files[i]]
        /\ Becomes(w, [work[w] EXCEPT !.pc = "tell", !.at = n])
  <2>1. PICK n \in work[w].left :
          LET others == {i \in Live(n) : files[i].hash # work[w].known[n].hash}
          IN  /\ Cardinality(others) < 2 /\ (n \in Originals \/ others = {})
              /\ files' = [i \in DOMAIN files |->
                             IF i \in others THEN [files[i] EXCEPT !.name = CopyOf(@)] ELSE files[i]]
              /\ Becomes(w, [work[w] EXCEPT !.pc = "tell", !.at = n])
    BY DEF AdoptionRename
  <2>2. PICK others : others = {i \in Live(n) : files[i].hash # work[w].known[n].hash}
    OBVIOUS
  <2>3. /\ n \in Originals \/ others = {}
        /\ files' = [i \in DOMAIN files |->
                       IF i \in others THEN [files[i] EXCEPT !.name = CopyOf(@)] ELSE files[i]]
        /\ Becomes(w, [work[w] EXCEPT !.pc = "tell", !.at = n])
    BY <2>1, <2>2
  <2>4. QED
    BY <2>2, <2>3, Zenon
<1>2. UNCHANGED <<gone, metadata, posted, doubled>> /\ work[w].pc = "rename"
  BY DEF AdoptionRename, At
<1>3. /\ work[w] \in Adoption /\ work[w] # Idle /\ n \in Names /\ work[w].known[n] # Nothing
      /\ \A m \in work[w].left : work[w].known[m] # Nothing
  BY <1>1, <1>2, Adopting
<1>4. PICK v : v = [work[w] EXCEPT !.pc = "tell", !.at = n]
  OBVIOUS
<1>5. /\ v \in Adoption /\ v.pc = "tell" /\ v.at = n /\ v.left = work[w].left
      /\ v.known = work[w].known /\ v.todo = work[w].todo
  <2>1. v \in Adoption
    BY <1>3, <1>4, AdoptionMoves
  <2>2. QED
    BY <1>3, <1>4, <2>1 DEF Adoption
<1>6. v \in Job /\ v # Idle /\ (work'[w] = v => Acts(w))
  BY <1>3, <1>5, AdoptionActs
<1>7. Working' /\ \A u \in Workers : Acts(u)
  BY <1>1, <1>4, <1>6, OneActs
<1>8. others \in SUBSET DOMAIN files /\ \A i \in others : files[i].state = "live"
      /\ files[i].name = n
  BY <1>1 DEF Live
<1>9. /\ FilesOK' /\ FilesMove
      /\ \A j \in DOMAIN files' \ DOMAIN files : ~ files'[j].synced
      /\ \A j \in DOMAIN files : files'[j].synced => files[j].synced
  BY <1>1, <1>2, <1>3, <1>8, FilesRenamed DEF MediaInv
<1>10. MetadataOK' /\ MetadataMove /\ Removal /\ posted' \in Nat /\ posted <= posted'
  BY <1>2, MetadataSame DEF MediaInv
<1>11. QED
  BY <1>7, <1>9, <1>10, Moved DEF Placed

(* KoBoCAT is told, or fails to be.                                        *)
LEMMA AdoptionTells ==
  ASSUME MediaInv, NEW w \in Workers, AdoptionTell(w)
  PROVE  MediaInv'
<1>1. PICK n, pc, left :
        /\ n = work[w].at /\ left = work[w].left \ {n} /\ pc \in {"rename", "create"}
        /\ Becomes(w, [work[w] EXCEPT !.pc = pc, !.left = left])
        /\ \/ UNCHANGED metadata
           \/ metadata[n] # Nothing /\ metadata' = [metadata EXCEPT ![n].fromKpi = TRUE]
  <2>1. PICK n, pc :
          /\ n = work[w].at /\ pc \in {"rename", "create"}
          /\ Becomes(w, [work[w] EXCEPT !.pc = pc, !.left = @ \ {n}])
          /\ \/ UNCHANGED metadata
             \/ metadata[n] # Nothing /\ metadata' = [metadata EXCEPT ![n].fromKpi = TRUE]
    BY DEF AdoptionTell
  <2>2. QED
    BY <2>1
<1>2. UNCHANGED <<files, gone, posted, doubled>> /\ work[w].pc = "tell"
  BY DEF AdoptionTell, At
<1>3. /\ work[w] \in Adoption /\ work[w] # Idle /\ n \in Names /\ work[w].known[n] # Nothing
      /\ left \in SUBSET Names /\ \A m \in left : work[w].known[m] # Nothing
  BY <1>1, <1>2, Adopting
<1>4. PICK v : v = [work[w] EXCEPT !.pc = pc, !.left = left]
  OBVIOUS
<1>5. /\ v \in Adoption /\ v.pc = pc /\ v.at = n /\ v.left = left
      /\ v.known = work[w].known /\ v.todo = work[w].todo
  <2>1. v \in Adoption
    BY <1>1, <1>3, <1>4, AdoptionMoves
  <2>2. QED
    BY <1>1, <1>3, <1>4, <2>1 DEF Adoption
<1>6. v \in Job /\ v # Idle /\ (work'[w] = v => Acts(w))
  BY <1>3, <1>5, AdoptionActs
<1>7. Working' /\ \A u \in Workers : Acts(u)
  BY <1>1, <1>4, <1>6, OneActs
<1>8. MetadataOK' /\ MetadataMove /\ Removal /\ posted' \in Nat /\ posted <= posted'
  <2>1. CASE UNCHANGED metadata
    BY <1>2, <2>1, MetadataSame DEF MediaInv
  <2>2. CASE metadata[n] # Nothing /\ metadata' = [metadata EXCEPT ![n].fromKpi = TRUE]
    BY <1>2, <1>3, <2>2, MetadataTold DEF MediaInv
  <2>3. QED
    BY <1>1, <2>1, <2>2
<1>9. QED
  BY <1>2, <1>7, <1>8, SameFiles

(* The file of KPI is created.                                             *)
LEMMA AdoptionCreates ==
  ASSUME MediaInv, NEW w \in Workers, AdoptionCreate(w)
  PROVE  MediaInv'
<1>1. PICK n, h : n = work[w].at /\ h = work[w].known[n].hash
  OBVIOUS
<1>2. /\ UNCHANGED <<gone, metadata, posted>> /\ work[w].pc = "create" /\ Len(files) < MaxFiles
      /\ files' = Append(files, [name |-> n, hash |-> h, state |-> "live", synced |-> FALSE])
      /\ Becomes(w, [work[w] EXCEPT !.pc = "rename"])
      /\ doubled' = IF Live(n) = {} THEN doubled ELSE doubled \cup {n}
  BY <1>1 DEF AdoptionCreate, At
<1>3. /\ work[w] \in Adoption /\ work[w] # Idle /\ n \in Names /\ h \in Hashes
      /\ \A m \in work[w].left : work[w].known[m] # Nothing
  <2>1. /\ work[w] \in Adoption /\ work[w] # Idle /\ n \in Names /\ work[w].known[n] \in Meta
        /\ \A m \in work[w].left : work[w].known[m] # Nothing
    BY <1>1, <1>2, Adopting
  <2>2. QED
    BY <1>1, <2>1 DEF Meta
<1>4. PICK v : v = [work[w] EXCEPT !.pc = "rename"]
  OBVIOUS
<1>5. /\ v \in Adoption /\ v.pc = "rename" /\ v.left = work[w].left
      /\ v.known = work[w].known /\ v.todo = work[w].todo
  <2>1. v \in Adoption
    BY <1>3, <1>4, AdoptionMoves
  <2>2. QED
    BY <1>3, <1>4, <2>1 DEF Adoption
<1>6. v \in Job /\ v # Idle /\ (work'[w] = v => Acts(w))
  BY <1>3, <1>5, AdoptionActs
<1>7. Working' /\ \A u \in Workers : Acts(u)
  BY <1>2, <1>4, <1>6, OneActs
<1>8. doubled \subseteq doubled' /\ (Live(n) = {} \/ n \in doubled')
  BY <1>2
<1>9. /\ FilesOK' /\ FilesMove
      /\ \A i \in DOMAIN files' \ DOMAIN files : ~ files'[i].synced
      /\ \A i \in DOMAIN files : files'[i] = files[i]
  BY <1>2, <1>3, <1>8, FileAdded DEF MediaInv
<1>10. MetadataOK' /\ MetadataMove /\ Removal /\ posted' \in Nat /\ posted <= posted'
  BY <1>2, MetadataSame DEF MediaInv
<1>11. QED
  BY <1>7, <1>9, <1>10, Moved DEF Placed

(* MediaInv is inductive.                                                  *)
LEMMA MediaStep ==
  ASSUME MediaInv, MediaNext
  PROVE  MediaInv'
<1>1. CASE Users /\ UNCHANGED doubled
  BY <1>1, Uploads, DirectUploads, Deletions, DirectDeletions DEF Users
<1>2. ASSUME NEW w \in Workers, SyncMediaFiles(w) \/ Cut(w), UNCHANGED doubled PROVE MediaInv'
  <2>1. CASE Finish(w) \/ Cut(w)
    BY <1>2, <2>1, Ends DEF Finish, Cut
  <2>2. QED
    BY <1>2, <2>1, Lists, QueriesRows, Compares, Saves, Removes, Replaces, RemovesOrphans
       DEF SyncMediaFiles
<1>3. ASSUME NEW w \in Workers, SyncKobocatFormMedia(w) PROVE MediaInv'
  <2>1. CASE AdoptionEnd(w)
    BY <2>1, Ends DEF AdoptionEnd
  <2>2. QED
    BY <1>3, <2>1, AdoptionLists, AdoptionRenames, AdoptionTells, AdoptionCreates
       DEF SyncKobocatFormMedia
<1>4. QED
  BY <1>1, <1>2, <1>3 DEF MediaNext

(* It holds at first.                                                      *)
LEMMA MediaStarts ==
  ASSUME MediaInit
  PROVE  MediaInv
<1>1. FilesOK /\ MetadataOK
  BY Numbers DEF MediaInit, FilesOK, MetadataOK, Counted
<1>2. Working /\ \A w \in Workers : work[w] = Idle
  BY DEF MediaInit, Working, Job
<1>3. \A w \in Workers : JobAt(w)
  BY <1>2 DEF JobAt, PhaseAt, Idle
<1>4. Gathered /\ Watched
  BY <1>2 DEF Gathered, Watched, Idle, Past
<1>5. Single /\ Stored
  BY DEF MediaInit, Single, Stored, Live
<1>6. QED
  BY <1>1, <1>2, <1>3, <1>4, <1>5 DEF MediaInv

(* What the invariant is for.                                              *)
LEMMA MediaMeans ==
  ASSUME MediaInv
  PROVE  MediaTypeOK /\ SyncedIsInKobocat
<1>1. MediaTypeOK
  BY TypesAre DEF MediaInv
<1>2. SyncedIsInKobocat
  BY DEF MediaInv, Stored, SyncedIsInKobocat, Live, Placed
<1>3. QED
  BY <1>1, <1>2

-----------------------------------------------------------------------------
(***************************************************************************)
(* The composition.                                                        *)
(***************************************************************************)

(* The invariants say nothing but of their component's variables.          *)
LEMMA MediaRests == MediaInv /\ UNCHANGED mediaVars => MediaInv'
  BY DEF MediaInv, mediaVars, FilesOK, MetadataOK, Counted, Working, JobAt, PhaseAt, KnownAt,
         Same, EntryAt,
         Single, Stored, Placed, Clear, Gone, Live, Gathered, GatheredAt, Watched, WatchedAt

(* The connections'.                                                       *)
LEMMA PairedRests == PairedInv /\ UNCHANGED pairedVars => PairedInv'
<1> SUFFICES ASSUME PairedInv, UNCHANGED pairedVars PROVE PairedInv'
  OBVIOUS
<1>1. UNCHANGED <<sharing, pairs, xml, hashes, uids, request, old, cut>>
  BY DEF pairedVars
<1>2. D!PairedTypeOK'
  BY <1>1 DEF PairedInv, D!PairedTypeOK
<1>3. Requested' /\ Numbered'
  BY <1>1 DEF PairedInv, Requested, Content, Numbered
<1>4. D!FilesAreOfTheirPairs'
  BY <1>1, Zenon DEF PairedInv, D!FilesAreOfTheirPairs, D!Paired, D!UidOf, D!Kept,
     D!AllowedFields, D!Shared
<1>5. D!KobocatKnowsHashes'
  BY <1>1 DEF PairedInv, D!KobocatKnowsHashes, D!Paired, D!UidOf
<1>6. QED
  BY <1>2, <1>3, <1>4, <1>5 DEF PairedInv

(* The requests'.                                                          *)
LEMMA AccessRests == AccessInv /\ UNCHANGED accessVars => AccessInv'
  BY DEF AccessInv, accessVars, A!AccessTypeOK, Vouching, Recorded, Passing, Allows, A!Grant,
         A!Without

(* The invariant of the composition.                                       *)
FilesInv ==
  /\ turn = "media"  => MediaInv
  /\ turn = "paired" => PairedInv
  /\ turn = "access" => AccessInv

(* FilesInv holds at first ...                                             *)
LEMMA FilesStart == FilesInit => FilesInv
<1> SUFFICES ASSUME FilesInit PROVE FilesInv
  OBVIOUS
<1>1. MediaInv /\ PairedInv
  BY MediaStarts, PairedStarts DEF FilesInit
<1>2. turn = "access" => AccessInv
  BY AccessStarts DEF FilesInit
<1>3. QED
  BY <1>1, <1>2 DEF FilesInv

(* ... every step keeps it ...                                             *)
LEMMA FilesGoOn ==
  ASSUME FilesInv, [FilesNext]_filesVars
  PROVE  FilesInv'
<1>1. CASE Media
  BY <1>1, MediaStep DEF Media, FilesInv
<1>2. CASE Paired
  BY <1>2, PairedStep DEF Paired, FilesInv
<1>3. CASE Access
  BY <1>3, AccessStep DEF Access, FilesInv
<1>4. CASE UNCHANGED filesVars
  <2>1. UNCHANGED <<mediaVars, pairedVars, accessVars, turn>>
    BY <1>4 DEF filesVars
  <2>2. QED
    BY <2>1, MediaRests, PairedRests, AccessRests DEF FilesInv
<1>5. QED
  BY <1>1, <1>2, <1>3, <1>4 DEF FilesNext

(* ... and so it always holds.                                             *)
LEMMA FilesHold == FilesSpec => []FilesInv
<1>1. FilesInv /\ [FilesNext]_filesVars => FilesInv'
  BY FilesGoOn
<1>2. QED
  BY FilesStart, <1>1, PTL DEF FilesSpec

(* Files, KoBoCAT's list, connections and requests for submissions have    *)
(* their types in every state.                                             *)
THEOREM FilesTypes == FilesSpec => []FilesTypeOK
<1>1. FilesInv => FilesTypeOK
  BY MediaMeans DEF FilesInv, FilesTypeOK, PairedInv, AccessInv
<1>2. QED
  BY FilesHold, <1>1, PTL

(* A media file that KPI has for synchronized is in KoBoCAT with its       *)
(* content, whoever synchronized, failed or was late; the file of a        *)
(* connection has the fields that were asked for and are shared, and       *)
(* KoBoCAT knows its hash.                                                 *)
THEOREM FilesTrue == FilesSpec => []FilesAreTrue
<1>1. FilesInv => FilesAreTrue
  BY MediaMeans DEF FilesInv, FilesAreTrue, PairedInv
<1>2. QED
  BY FilesHold, <1>1, PTL

(* What a request reads or changes, the user might act on at one and the   *)
(* same moment of the request, with the permission that the endpoint       *)
(* requires, however the filters change meanwhile; unless the user had     *)
(* neither row-level access nor that permission at some moment of it.      *)
THEOREM OnlyAllowed == FilesSpec => OnlyTheirs
<1> DEFINE Allowed == acted' # acted /\ acted' # {} /\ ~call.stripped =>
                        \E S \in call.granted : acted' \subseteq S
<1>1. FilesInv /\ [FilesNext]_filesVars => [Allowed]_(A!accessVars)
  <2> SUFFICES ASSUME FilesInv, [FilesNext]_filesVars, ~ UNCHANGED A!accessVars,
                      acted' # acted, acted' # {}, ~call.stripped
               PROVE  \E S \in call.granted : acted' \subseteq S
    OBVIOUS
  <2>1. Access
    BY DEF FilesNext, Media, Paired, filesVars, accessVars
  <2>2. QED
    BY <2>1, TheirsStep DEF Access, FilesInv
<1>2. OnlyTheirs <=> [][Allowed]_(A!accessVars)
  BY DEF OnlyTheirs, A!OnlyTheirs
<1>3. QED
  BY FilesHold, <1>1, <1>2, PTL DEF FilesSpec

(* A request acts on nothing that was not asked for; and of submissions    *)
(* that it names, on all that are still there or on none of them, except   *)
(* that KoBoCAT may refuse some of what is posted in bulk.                 *)
THEOREM OnlyAsked == FilesSpec => OnlyWhatWasAsked
<1> DEFINE AsAsked == acted' # acted /\ acted' # {} =>
                      /\ acted' \subseteq call.query
                      /\ call.ids # {} =>
                           /\ acted' \subseteq call.ids
                           /\ call.endpoint # "bulk_update" => call.ids \cap stored \subseteq acted'
<1>1. FilesInv /\ [FilesNext]_filesVars => [AsAsked]_(A!accessVars)
  <2> SUFFICES ASSUME FilesInv, [FilesNext]_filesVars, ~ UNCHANGED A!accessVars,
                      acted' # acted, acted' # {}
               PROVE  AsAsked
    OBVIOUS
  <2>1. Access
    BY DEF FilesNext, Media, Paired, filesVars, accessVars
  <2>2. QED
    BY <2>1, AskedStep DEF Access, FilesInv
<1>2. OnlyWhatWasAsked <=> [][AsAsked]_(A!accessVars)
  BY DEF OnlyWhatWasAsked, A!OnlyWhatWasAsked
<1>3. QED
  BY FilesHold, <1>1, <1>2, PTL DEF FilesSpec
=============================================================================
