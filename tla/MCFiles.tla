------------------------------- MODULE MCFiles -------------------------------
(***************************************************************************)
(* Files and submissions, for TLC: the media files of forms, the data that *)
(* forms pull from other projects, and the requests for submissions of a   *)
(* user with row-level access.  They share no state, and one of them,      *)
(* `turn`, moves in a behaviour.                                           *)
(***************************************************************************)
EXTENDS MediaSync, Integers, TLC

CONSTANTS Sources, SourceFields, Filenames, MaxUids,     \* of PairedData
          Submissions, Submitters, Endpoints       \* of SubmissionAccess

VARIABLES turn,
          sharing, pairs, xml, hashes, uids, request, old, cut,
          author, stored, copied, full, partial, call, acted

\* One of the sources has fields; of the other it matters that it is there.
Asked    == CHOOSE s \in Sources : TRUE
FieldsOf == [s \in Sources |-> IF s = Asked THEN SourceFields ELSE {}]

D == INSTANCE PairedData

A == INSTANCE SubmissionAccess WITH mongo <- copied, request <- call

ASSUME FilesAssumption == MaxFiles \in Nat /\ MaxMetadata \in Nat /\ MaxUids \in Nat
ASSUME EndpointsAssumption ==
  Endpoints \subseteq {"list", "xml", "duplicate", "bulk_update", "edit", "destroy",
                       "bulk_delete", "status", "reset", "statuses"}

pairedVars == <<sharing, pairs, xml, hashes, uids, request, old, cut>>
accessVars == <<author, stored, copied, full, partial, call, acted>>
filesVars  == <<turn, mediaVars, pairedVars, accessVars>>

\* Workers are alike, and so are submissions; so are what files contain,
\* filenames, and those who submit.  Components share the values, so that
\* there are few permutations.
Alike == Permutations(Workers) \cup Permutations(Hashes)

FilesInit ==
  /\ turn \in {"media", "paired", "access"}
  /\ MediaInit /\ D!PairedInit
  /\ IF turn = "access" THEN A!AccessInit
     ELSE /\ author = << >> /\ stored = {} /\ copied = {} /\ full = {}
          /\ partial = Nothing /\ call = A!Idle /\ acted = {}

Media  == turn = "media"  /\ MediaNext
          /\ UNCHANGED <<turn, pairedVars, accessVars>>
Paired == turn = "paired" /\ D!PairedNext
          /\ UNCHANGED <<turn, mediaVars, accessVars>>
Access == turn = "access" /\ A!AccessNext
          /\ UNCHANGED <<turn, mediaVars, pairedVars>>

FilesNext == Media \/ Paired \/ Access

FilesSpec == FilesInit /\ [][FilesNext]_filesVars

-----------------------------------------------------------------------------
(* The types of those whose state has types worth stating.                 *)
FilesTypeOK ==
  /\ turn = "media"  => MediaTypeOK
  /\ turn = "paired" => D!PairedTypeOK
  /\ turn = "access" => A!AccessTypeOK

(* What is flagged as synchronized is in KoBoCAT, the file of a connection *)
(* is what the connection asks for, and KoBoCAT knows its hash.            *)
FilesAreTrue ==
  /\ turn = "media"  => SyncedIsInKobocat
  /\ turn = "paired" => D!FilesAreOfTheirPairs /\ D!KobocatKnowsHashes

(* Requests for submissions act on those that the user might act on, and   *)
(* on those that were asked for.                                           *)
OnlyTheirs       == A!OnlyTheirs
OnlyWhatWasAsked == A!OnlyWhatWasAsked
=============================================================================
