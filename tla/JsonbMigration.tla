--------------------------- MODULE JsonbMigration ---------------------------
(***************************************************************************)
(* The command migrate_json_text_to_jsonb, which turns text columns into   *)
(* jsonb ones while the application goes on writing: a second column       *)
(* mirrors the first by a trigger, is filled in batches, and replaces it.  *)
(* It may be killed between two of its queries, and started again.         *)
(*                                                                         *)
(* Every query is one transaction.  A value is what was written, and how   *)
(* many encoded null characters follow one another in it: jsonb allows     *)
(* none, and the trigger's REGEXP_REPLACE, whose matches cannot overlap,   *)
(* takes away every other one of them.                                     *)
(***************************************************************************)
EXTENDS Naturals, FiniteSets, Sequences

CONSTANTS Rows,          \* of one table
          Columns,       \* its columns, in the order of TABLES_AND_TEXT_JSON_COLUMNS
          Values,        \* what the application writes
          Nulls,         \* how many encoded null characters in a row
          BatchSize,
          Absent,        \* no row yet, no value yet
          MaxWrites, MaxStarts          \* bounds

VARIABLES cell,       \* of a row and a column: its value
          mirror,     \* ... the value of the temporary column
          temporary,  \* the columns that have a temporary one, and its trigger
          required,   \* ... those where it is NOT NULL
          jsonb,      \* the columns that were replaced
          written,    \* of a row and a column: the value last written
          pc, drop, writes, starts

jsonbVars == <<cell, mirror, temporary, required, jsonb, written, pc, drop, writes, starts>>

Col      == {Columns[i] : i \in DOMAIN Columns}
Text     == [value : Values, nulls : Nulls]
Exists(r) == \A c \in Col : cell[r][c] # Absent

(* The trigger's expression, and the cast that follows.                    *)
Stripped(v) == [v EXCEPT !.nulls = @ \div 2]
Castable(v) == Stripped(v).nulls = 0

-----------------------------------------------------------------------------
JsonbInit ==
  /\ cell \in [Rows -> {[c \in Col |-> Absent]} \cup [Col -> Text]]
  /\ mirror = [r \in Rows |-> [c \in Col |-> Absent]]
  /\ temporary = {} /\ required = {} /\ jsonb = {}
  /\ written = cell
  /\ pc = <<"stopped", 0>> /\ drop = FALSE /\ writes = 0 /\ starts = 0

\* BEFORE INSERT OR UPDATE: the triggers of the table copy their columns.
\* (A mutant's triggers fill a mirror that is empty.)
MirroredOnce(r, new) ==
  [c \in Col |-> IF c \in temporary /\ mirror[r][c] = Absent THEN Stripped(new[c]) ELSE mirror[r][c]]

Mirrored(r, new) == [c \in Col |-> IF c \in temporary THEN Stripped(new[c]) ELSE mirror[r][c]]

(* The application writes a row: an error in a trigger is one of the       *)
(* query, and jsonb columns refuse null characters themselves.             *)
Write(r, new) ==
  /\ writes < MaxWrites
  /\ \A c \in temporary : Castable(new[c])
  /\ \A c \in jsonb : new[c].nulls = 0
  /\ cell' = [cell EXCEPT ![r] = new] /\ written' = [written EXCEPT ![r] = new]
  /\ mirror' = [mirror EXCEPT ![r] = Mirrored(r, new)]
  /\ writes' = writes + 1
  /\ UNCHANGED <<temporary, required, jsonb, pc, drop, starts>>

-----------------------------------------------------------------------------
Phases == <<"drop", "add", "fill", "require", "replace", "stopped">>

PhaseAfter(p) == Phases[1 + CHOOSE i \in DOMAIN Phases : Phases[i] = p]
After(p, i)    == IF i < Len(Columns) THEN <<p, i + 1>> ELSE <<PhaseAfter(p), 1>>

Start(d) ==
  /\ pc[1] = "stopped" /\ starts < MaxStarts
  /\ \E r \in Rows : Exists(r)
  /\ pc' = IF d THEN <<"drop", 1>> ELSE <<"add", 1>>
  /\ drop' = d /\ starts' = starts + 1
  /\ UNCHANGED <<cell, mirror, temporary, required, jsonb, written, writes>>

(* unconditionally_drop_jsonb_column_and_trigger(); what is not there is   *)
(* an error that is caught.                                                *)
Drop(c) ==
  /\ pc[1] = "drop" /\ c = Columns[pc[2]]
  /\ temporary' = temporary \ {c} /\ required' = required \ {c}
  /\ mirror' = [r \in Rows |-> [mirror[r] EXCEPT ![c] = Absent]]
  /\ pc' = After("drop", pc[2])
  /\ UNCHANGED <<cell, jsonb, written, drop, writes, starts>>

(* create_jsonb_column_with_trigger(), an error if there is one.           *)
Add(c) ==
  /\ pc[1] = "add" /\ c = Columns[pc[2]]
  /\ IF c \in temporary THEN pc' = <<"stopped", 1>> /\ UNCHANGED temporary
     ELSE pc' = After("add", pc[2]) /\ temporary' = temporary \cup {c}
  /\ UNCHANGED <<cell, mirror, required, jsonb, written, drop, writes, starts>>

(* run_trigger_via_trivial_update(): a batch of the rows where some mirror *)
(* is empty is written again as it is; without any, it is done.            *)
Empty == {r \in Rows : Exists(r) /\ \E c \in temporary : mirror[r][c] = Absent}

Fill ==
  /\ pc[1] = "fill"
  /\ \/ /\ Empty = {} /\ pc' = <<"require", 1>> /\ UNCHANGED mirror
     \/ \E batch \in SUBSET Empty :
          /\ batch # {}
          /\ Cardinality(batch) = BatchSize \/ (batch = Empty /\ Cardinality(batch) < BatchSize)
          /\ IF \A r \in batch, c \in temporary : Castable(cell[r][c])
             THEN /\ mirror' = [r \in Rows |-> IF r \in batch THEN Mirrored(r, cell[r]) ELSE mirror[r]]
                  /\ UNCHANGED pc
             ELSE pc' = <<"stopped", 1>> /\ UNCHANGED mirror
  /\ UNCHANGED <<cell, temporary, required, jsonb, written, drop, writes, starts>>

(* alter_column_set_not_null().                                            *)
Require(c) ==
  /\ pc[1] = "require" /\ c = Columns[pc[2]]
  /\ IF \E r \in Rows : Exists(r) /\ mirror[r][c] = Absent
     THEN pc' = <<"stopped", 1>> /\ UNCHANGED required
     ELSE pc' = After("require", pc[2]) /\ required' = required \cup {c}
  /\ UNCHANGED <<cell, mirror, temporary, jsonb, written, drop, writes, starts>>

(* replace_text_column_with_jsonb(), with its trigger.                     *)
Replace(c) ==
  /\ pc[1] = "replace" /\ c = Columns[pc[2]]
  /\ cell' = [r \in Rows |-> IF Exists(r) THEN [cell[r] EXCEPT ![c] = mirror[r][c]] ELSE cell[r]]
  /\ jsonb' = jsonb \cup {c}
  /\ temporary' = temporary \ {c} /\ required' = required \ {c}
  /\ mirror' = [r \in Rows |-> [mirror[r] EXCEPT ![c] = Absent]]
  /\ pc' = After("replace", pc[2])
  /\ UNCHANGED <<written, drop, writes, starts>>

Kill ==
  /\ pc[1] # "stopped" /\ pc' = <<"stopped", 1>>
  /\ UNCHANGED <<cell, mirror, temporary, required, jsonb, written, drop, writes, starts>>

JsonbNext ==
  \/ \E r \in Rows, new \in [Col -> Text] : Write(r, new)
  \/ \E d \in BOOLEAN : Start(d)
  \/ \E c \in Col : Drop(c) \/ Add(c) \/ Require(c) \/ Replace(c)
  \/ Fill \/ Kill

JsonbSpec == JsonbInit /\ [][JsonbNext]_jsonbVars

-----------------------------------------------------------------------------
Kept(v, w) == v = w \/ v = [w EXCEPT !.nulls = 0]

(* Whenever it is killed, started again, and written to meanwhile, nothing *)
(* that was written is lost but null characters: not from a column, not    *)
(* from its mirror once it is filled, and no mirror replaces a column      *)
(* before it is.                                                           *)
NothingWrittenIsLost ==
  \A r \in Rows, c \in Col :
    /\ Exists(r) => Kept(cell[r][c], written[r][c])
    /\ mirror[r][c] # Absent => Kept(mirror[r][c], written[r][c])
    /\ cell[r][c] = Absent => written[r][c] = Absent

(* What the application writes into a column of text it can write once     *)
(* the command has stopped: TLC refutes it when several null characters    *)
(* may follow one another (no run of the project does).  They fail in the  *)
(* trigger, and the command, which fails with it, leaves the trigger.      *)
WritesGoOn == pc[1] = "stopped" => \A v \in Text : v.nulls = 0 \/ temporary = {} \/ Castable(v)
=============================================================================
