------------------------------ MODULE PairedData ------------------------------
(***************************************************************************)
(* A deployed form that pulls the data of other projects                   *)
(* (kpi/models/paired_data.py and the views and serializers of that name): *)
(* what it is connected to, which is in the row of the asset, the XML file *)
(* that is made of the data and kept for a while, and KoBoCAT's hash of    *)
(* it, by which devices know that there is something new.                  *)
(*                                                                         *)
(* One request at a time; each may be cut short between two writes.        *)
(***************************************************************************)
EXTENDS Naturals, FiniteSets

CONSTANTS Sources,     \* projects that share data
          FieldsOf,    \* the questions of each
          Filenames,
          Nothing,
          MaxUids      \* how many connections are made (a bound)

VARIABLES sharing,     \* what each source shares: whether, and which fields
          pairs,       \* Asset.paired_data
          xml,         \* the AssetFile of each connection
          hashes,      \* what KoBoCAT has been told
          uids,        \* how many connections there were
          request,     \* what is going on
          old,         \* history: files that were made before the sharing changed
          cut          \* history: whether KoBoCAT has not been told since a request was cut

pairedVars == <<sharing, pairs, xml, hashes, uids, request, old, cut>>

Uids   == 1..MaxUids
Fields == UNION {FieldsOf[s] : s \in Sources}

\* A list of fields that is empty stands for all of them; it does not matter when
\* nothing is shared.
Shared(s) == [enabled : {TRUE}, fields : SUBSET FieldsOf[s]] \cup [enabled : {FALSE}, fields : {{}}]
Pair   == [uid : Uids, filename : Filenames, fields : SUBSET Fields]
\* `content` is what the file contains, or Nothing when it was voided.
XmlFile == [content : (SUBSET Fields) \cup {Nothing}, hash : SUBSET Fields]

\* The hash of a file that is not there yet: it differs from every other.
OfTheMoment == {Nothing}

Idle == [pc |-> "idle"]

PairedTypeOK ==
  /\ \A s \in Sources : sharing[s] \in Shared(s)
  /\ pairs \in [Sources -> Pair \cup {Nothing}]
  /\ xml \in [Uids -> XmlFile \cup {Nothing}]
  /\ \A u \in Uids : hashes[u] \in (SUBSET Fields) \cup {Nothing, OfTheMoment}
  /\ uids \in 0..MaxUids /\ old \subseteq Uids /\ cut \in BOOLEAN
  /\ \A s, t \in Sources : s # t /\ pairs[s] # Nothing /\ pairs[t] # Nothing =>
       pairs[s].uid # pairs[t].uid

PairedInit ==
  /\ sharing = [s \in Sources |-> [enabled |-> TRUE, fields |-> {}]]
  /\ pairs = [s \in Sources |-> Nothing] /\ uids = 0
  /\ xml = [u \in Uids |-> Nothing] /\ hashes = [u \in Uids |-> Nothing]
  /\ request = Idle /\ old = {} /\ cut = FALSE

-----------------------------------------------------------------------------
Paired == {s \in Sources : pairs[s] # Nothing}
UidOf(s) == pairs[s].uid

(* PairedData.allowed_fields, and strip_nodes(), which keeps everything if *)
(* there is nothing to keep.                                               *)
AllowedFields(s) ==
  IF sharing[s].fields = {} THEN pairs[s].fields
  ELSE IF pairs[s].fields = {} THEN sharing[s].fields
  ELSE sharing[s].fields \cap pairs[s].fields

Kept(s, fields) == IF fields = {} THEN FieldsOf[s] ELSE fields

(* _validate_filename(): no other connection has it.  What it says of other *)
(* files is left out.                                                      *)
FilenameFree(s, name) == \A t \in Paired : pairs[t].filename = name => t = s

(* Of the source: AssetSerializer.validate_data_sharing(), or its owner    *)
(* takes permissions back.                                                 *)
Share(s, shared) ==
  /\ request = Idle /\ shared # sharing[s]
  /\ sharing' = [sharing EXCEPT ![s] = shared]
  /\ old' = IF pairs[s] = Nothing THEN old ELSE old \cup {UidOf(s)}
  /\ UNCHANGED <<pairs, xml, hashes, uids, request, cut>>

-----------------------------------------------------------------------------
Then(pc) == request' = [request EXCEPT !.pc = pc]
Over     == request' = Idle

\* Fields that one may ask for: those that the source shares.
Askable(s) == SUBSET Kept(s, sharing[s].fields)

(* PairedDataSerializer: validate_source(), and the instance.              *)
Create(s) ==
  /\ request = Idle /\ pairs[s] = Nothing /\ sharing[s].enabled /\ uids < MaxUids
  /\ \E name \in Filenames, fields \in Askable(s) :
       /\ FilenameFree(s, name)
       /\ request' = [pc |-> "save", source |-> s,
                      pair |-> [uid |-> uids + 1, filename |-> name, fields |-> fields]]
  /\ uids' = uids + 1
  /\ UNCHANGED <<sharing, pairs, xml, hashes, old, cut>>

\* update(): the content of the file is deleted, and its hash is not.
Update(s) ==
  /\ request = Idle /\ s \in Paired /\ sharing[s].enabled
  /\ \E name \in Filenames, fields \in Askable(s) :
       /\ FilenameFree(s, name)
       /\ request' = [pc |-> "void", source |-> s,
                      pair |-> [uid |-> UidOf(s), filename |-> name, fields |-> fields]]
  /\ UNCHANGED <<sharing, pairs, xml, hashes, uids, old, cut>>

(* void_external_xml_cache(), before the connection is saved.  (A mutant   *)
(* leaves it out.)                                                         *)
VoidNever ==
  request.pc = "void" /\ Then("save") /\ UNCHANGED <<xml, old>>

Void ==
  /\ request.pc = "void"
  /\ LET u == request.pair.uid
     IN  IF xml[u] = Nothing THEN UNCHANGED <<xml, old>>
         ELSE /\ xml' = [xml EXCEPT ![u].content = Nothing]
              /\ old' = old \ {u}
  /\ Then("save")

Voiding == Void /\ UNCHANGED <<sharing, pairs, hashes, uids, cut>>

\* save() and Asset.save(), which synchronizes.
SavePair ==
  /\ request.pc = "save"
  /\ pairs' = [pairs EXCEPT ![request.source] = request.pair]
  /\ Then("sync")
  /\ UNCHANGED <<sharing, xml, hashes, uids, old, cut>>

(* delete(): the file, and then the connection.                            *)
Unpair(s) ==
  /\ request = Idle /\ s \in Paired
  /\ request' = [pc |-> "purge", source |-> s]
  /\ UNCHANGED <<sharing, pairs, xml, hashes, uids, old, cut>>

Purge == /\ request.pc = "purge"
         /\ xml' = [xml EXCEPT ![UidOf(request.source)] = Nothing]
         /\ old' = old \ {UidOf(request.source)}
         /\ Then("forget")
         /\ UNCHANGED <<sharing, pairs, hashes, uids, cut>>

Forget == /\ request.pc = "forget"
          /\ pairs' = [pairs EXCEPT ![request.source] = Nothing]
          /\ Then("sync")
          /\ UNCHANGED <<sharing, xml, hashes, uids, old, cut>>

(* sync_media_files(PAIRED_DATA): every connection that is there, with the *)
(* hash of its file or one of the moment; the others are removed.          *)
HashOf(u) == IF xml[u] = Nothing THEN OfTheMoment ELSE xml[u].hash

Sync ==
  /\ request.pc = "sync"
  /\ hashes' = [u \in Uids |-> IF \E s \in Paired : UidOf(s) = u THEN HashOf(u) ELSE Nothing]
  /\ Over /\ cut' = FALSE
  /\ UNCHANGED <<sharing, pairs, xml, uids, old>>

(* external(): what is not shared any more has no file; what has expired,  *)
(* which may be at any time, is made anew, unless there is no submission,  *)
(* and KoBoCAT hears of it if it has changed; anything else is served.     *)
External(s) ==
  /\ request = Idle /\ s \in Paired
  /\ LET u == UidOf(s)
         file == Kept(s, AllowedFields(s))
         cached == xml[u] # Nothing /\ xml[u].content # Nothing
     IN  \/ /\ ~ sharing[s].enabled
            /\ xml' = [xml EXCEPT ![u] = Nothing] /\ old' = old \ {u}
            /\ UNCHANGED request
         \/ /\ sharing[s].enabled
            /\ xml' = [xml EXCEPT ![u] = [content |-> file, hash |-> file]]
            /\ old' = old \ {u}
            /\ IF cached /\ xml[u].hash = file THEN UNCHANGED request
               ELSE request' = [pc |-> "sync"]
  /\ UNCHANGED <<sharing, pairs, hashes, uids, cut>>

Cut ==
  /\ request # Idle
  /\ Over /\ cut' = TRUE
  /\ UNCHANGED <<sharing, pairs, xml, hashes, uids, old>>

PairedNext ==
  \/ \E s \in Sources : \/ Create(s) \/ Update(s) \/ Unpair(s) \/ External(s)
                        \/ \E shared \in Shared(s) : Share(s, shared)
  \/ Voiding \/ SavePair \/ Purge \/ Forget \/ Sync \/ Cut

PairedSpec == PairedInit /\ [][PairedNext]_pairedVars

-----------------------------------------------------------------------------
(* A file belongs to a connection that is there and, unless the source has *)
(* changed since, contains what that connection asks for and its source    *)
(* shares, as it is now, however the requests before were cut short; and   *)
(* no two connections have the same filename.                              *)
FilesAreOfTheirPairs ==
  /\ \A u \in Uids : xml[u] # Nothing /\ xml[u].content # Nothing =>
       \E s \in Paired :
         /\ UidOf(s) = u
         /\ u \in old \/ xml[u].content = Kept(s, AllowedFields(s))
  /\ \A s, t \in Paired : pairs[s].filename = pairs[t].filename => s = t

(* KoBoCAT has the hash of every file, whose content it may be asked for,  *)
(* and nothing of connections that are gone, unless a request was cut      *)
(* short and it has not been told since.                                   *)
KobocatKnowsHashes ==
  request = Idle /\ ~ cut =>
    \A u \in Uids :
      /\ xml[u] # Nothing /\ xml[u].content # Nothing => hashes[u] = xml[u].hash
      /\ hashes[u] # Nothing => \E s \in Paired : UidOf(s) = u

-----------------------------------------------------------------------------
(***************************************************************************)
(* What one would expect and TLC refutes: no run checks these.             *)
(***************************************************************************)

(* "Return only the fields (aka questions) that the destination project is *)
(* allowed to pull data from" (PairedData.allowed_fields).  If the source  *)
(* comes to share none of those that were asked for, the list is empty,    *)
(* and an empty list stands for all.                                       *)
ServesOnlyAllowed ==
  \A s \in Paired :
    xml[UidOf(s)] # Nothing /\ xml[UidOf(s)].content # Nothing /\ UidOf(s) \notin old =>
      xml[UidOf(s)].content \subseteq Kept(s, sharing[s].fields)

(* Devices learn that the fields have changed: the hash is of the file     *)
(* that was made before, until somebody asks for the new one.              *)
ChangesAreAnnounced ==
  [][request.pc = "sync" /\ "pair" \in DOMAIN request /\ request' = Idle /\ hashes' # hashes =>
       hashes'[request.pair.uid] # hashes[request.pair.uid]]_pairedVars
=============================================================================
