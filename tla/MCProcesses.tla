---------------------------- MODULE MCProcesses ----------------------------
(***************************************************************************)
(* Processes that write the same rows, for TLC: assign_perm() and          *)
(* remove_perm() call by call, bulk requests of several clients, edits of  *)
(* submissions in Enketo, and the command that turns columns of text into  *)
(* jsonb while the application writes them.                                *)
(*                                                                         *)
(* One of them, `turn`, moves in a behaviour; the others stay where they   *)
(* begin.  They share no state.                                            *)
(***************************************************************************)
EXTENDS Naturals, Sequences, TLC

CONSTANTS Codenames, RequestCodenames, Users, Anonymous, NoParent, PartialChoices,   \* of permissions
          Requests,
          Editors, Subs, NoShot, MaxVersions, MaxShots, MaxEdits,       \* of EnketoSessions
          Rows, Values, Nulls, BatchSize, Absent, MaxWrites, MaxStarts  \* of JsonbMigration

VARIABLES turn, perms, parent, tx, call, rows, stack, perms2, parent2, tx2, req,
          latest, shots, made, uuid, access, rowLevel, strays, session,
          cell, mirror, temporary, required, jsonb, written, pc, drop, writes, starts

\* For the calls: a collection and a survey.
PairAssets == {"root", "form"}
PairOwner  == [x \in PairAssets |-> "olga"]
PairType   == [x \in PairAssets |-> IF x = "form" THEN "survey" ELSE "collection"]

K == INSTANCE PermissionCalls WITH
       Assets <- PairAssets, Owner <- PairOwner, Type <- PairType, CopySources <- {}

\* For the requests: a survey in no collection.
SoloAssets == {"form"}
SoloOwner  == [x \in SoloAssets |-> "olga"]
SoloType   == [x \in SoloAssets |-> "survey"]

Partly(u, keys) == <<u, "partial_submissions", keys>>
Fully(u, p)     == <<u, p, {}>>

\* Nobody; row-level access, of another kind than PartialChoices; access to
\* everything.
SoloPosted ==
  {{}, {Partly("bob", {"view_submissions"})}, {Fully("bob", "change_submissions")}}

R == INSTANCE PermissionRequests WITH
       Codenames <- RequestCodenames, CopySources <- {}, Assets <- SoloAssets, Owner <- SoloOwner, Type <- SoloType,
       PostedChoices <- SoloPosted, perms <- perms2, parent <- parent2, tx <- tx2

\* For the submissions: each of a form that had another name.
OwnRoot == [x \in Subs |-> x]

E == INSTANCE EnketoSessions WITH Users <- Editors, Root <- OwnRoot

\* For the columns: two of one table.
TwoColumns == <<"content", "summary">>

J == INSTANCE JsonbMigration WITH Columns <- TwoColumns

\* What is absent is no value.
ASSUME ProcessesAssumption ==
  /\ NoShot \notin Nat /\ Nulls \subseteq Nat
  /\ Absent \notin [value : Values, nulls : Nulls \cup {0}]

callVars    == <<perms, parent, tx, call, rows, stack>>
requestVars == <<perms2, parent2, tx2, req>>
enketoVars  == <<latest, shots, made, uuid, access, rowLevel, strays, session>>
jsonbVars   == <<cell, mirror, temporary, required, jsonb, written, pc, drop, writes, starts>>
processVars == <<turn, callVars, requestVars, enketoVars, jsonbVars>>

ProcessInit ==
  /\ turn \in {"calls", "requests", "enketo", "jsonb"}
  /\ K!CallsInit /\ R!RequestsInit
  /\ IF turn = "enketo" THEN E!EnketoInit
     ELSE /\ latest = 1 /\ shots = {} /\ made = 0 /\ uuid = [x \in Subs |-> 0]
          /\ access = <<>> /\ rowLevel = {} /\ strays = 0 /\ session = <<>>
  /\ IF turn = "jsonb" THEN J!JsonbInit
     ELSE /\ cell = <<>> /\ mirror = <<>> /\ written = <<>>
          /\ temporary = {} /\ required = {} /\ jsonb = {}
          /\ pc = <<"stopped", 0>> /\ drop = FALSE /\ writes = 0 /\ starts = 0

Calls          == turn = "calls" /\ K!CallsNext /\ UNCHANGED <<turn, requestVars, enketoVars, jsonbVars>>
RequestsOfMany == turn = "requests" /\ R!RequestsNext /\ UNCHANGED <<turn, callVars, enketoVars, jsonbVars>>
Editing        == turn = "enketo" /\ E!EnketoNext /\ UNCHANGED <<turn, callVars, requestVars, jsonbVars>>
Migrating      == turn = "jsonb" /\ J!JsonbNext /\ UNCHANGED <<turn, callVars, requestVars, enketoVars>>

ProcessNext == Calls \/ RequestsOfMany \/ Editing \/ Migrating

ProcessSpec == ProcessInit /\ [][ProcessNext]_processVars

-----------------------------------------------------------------------------
(* What single requests establish holds when they interleave: the rows of  *)
(* a user stay coherent, row-level access excludes the other kind, and     *)
(* KoBoCAT lacks nothing.                                                  *)
RowsStayRight ==
  /\ turn = "calls" => K!CallsTypeOK
  /\ turn = "requests" => R!RequestTypeOK /\ R!RowsCoherent /\ R!NeverPartialAndFull /\ R!KobocatComplete

(* A form that Enketo opens is one that fits, and nothing that is written  *)
(* is lost while columns are replaced.                                     *)
NothingIsLost ==
  /\ turn = "enketo" => E!FormFitsSubmission
  /\ turn = "jsonb" => J!NothingWrittenIsLost

AtomicCalls == K!AtomicCalls

BulkIsExact == R!BulkIsExact

EditsReplaceWhatTheyRead == E!EditsReplaceWhatTheyRead

\* Requests are alike, and so are editors and rows, which have their names,
\* and submissions.
Interchangeable == Permutations(Requests) \cup Permutations(Subs)
=============================================================================
