------------------------------ MODULE Content ------------------------------
(***************************************************************************)
(* The content of a survey, from what is edited to the form that is        *)
(* deployed and the one that is previewed: names are made up for the rows  *)
(* without one (kpi/utils/autoname.py, sluggify.py), rankings, scores and  *)
(* matrices become groups of ordinary questions (kobo_to_xlsform.py and    *)
(* xlsform_preprocessors), by Asset.save(), ordered_xlsform_content() and  *)
(* AssetSnapshot.save().                                                   *)
(*                                                                         *)
(* A name is the sequence of words between its underscores, a label that   *)
(* of the words between its spaces; << >> is none at all and <<"">> an     *)
(* empty one.  `src` tells which row, and which item of a matrix, a row    *)
(* comes from if it is not generated, `refs` which names its expressions   *)
(* mention and what row each one means.  That an expression mentions a     *)
(* name twice, appearances, widths and the wording of labels are left out. *)
(***************************************************************************)
EXTENDS Integers, SequencesExt, FiniteSetsExt

CONSTANTS Surveys,     \* the contents to begin with, sequences of rows
          Items,       \* the items of every matrix, in order: [name, label]
          Limit,       \* the words of a name that is made from a label
          MaxEdits     \* bound on edits

VARIABLES content, saved, out, edits

contentVars == <<content, saved, out, edits>>

None   == <<>>
Numbers == <<"001", "002", "003", "004", "005", "006", "007">>
Digits == {"1"} \cup Range(Numbers)
Others == {"é", "!"}                 \* in XML names, and not even there
Lower(n) == [i \in DOMAIN n |-> IF n[i] = "A" THEN "a" ELSE n[i]]

NewRow(type, name, label) ==
  [type |-> type, name |-> name, label |-> label, auto |-> None, kuid |-> 0, refs |-> {}, src |-> <<0, 0>>]

-----------------------------------------------------------------------------
(* sluggify(): spaces around are stripped, what is no ASCII letter or      *)
(* digit becomes an underscore, one at the end goes, digits get one in     *)
(* front of them, and underscores never come in twos.                      *)
Stripped(w) ==
  LET kept == {i \in DOMAIN w : w[i] # " "}
  IN IF kept = {} THEN <<>> ELSE SubSeq(w, Min(kept), Max(kept))

Shortened(w, limit) ==
  IF limit = 0 \/ Len(w) <= limit THEN w
  ELSE SubSeq(w, 1, limit \div 2) \o SubSeq(w, Len(w) - limit \div 2 + 1, Len(w))

Slug(label, limit) ==
  LET w     == Stripped(label)
      lasts == IF Len(w) > 1 /\ Last(w) = "" /\ w[Len(w) - 1] \notin Others \cup {""} THEN Front(w) ELSE w
      short == Shortened(lasts, limit)
      core  == SelectSeq(short, LAMBDA x : x \notin Others \cup {"", " "})
      front == IF short[1] \in Others \cup {"", " "} \cup Digits THEN <<"">> ELSE <<>>
      back  == IF Last(short) \in Others \cup {"", " "} THEN <<"">> ELSE <<>>
  IN IF w \in {<<>>, <<"">>} THEN None
     ELSE IF core = <<>> THEN <<"", "">> ELSE front \o core \o back

\* ... and the first free number makes it differ from the other names,
\* whatever their case.
Distinct(name, others) ==
  LET names    == {Lower(o) : o \in others}
      taken(n) == Lower(n) \in names
      free     == {k \in DOMAIN Numbers : ~taken(Append(name, Numbers[k]))}
  IN IF taken(name) THEN Append(name, Numbers[Min(free)]) ELSE name

Sluggify(label, others, limit) == Distinct(Slug(label, limit), others)

IsValidNodeName(n) ==
  /\ n \notin {None, <<"">>}
  /\ n[1] \notin Digits
  /\ \A i \in DOMAIN n : n[i] \notin {" ", "!"}

-----------------------------------------------------------------------------
(* autoname_fields_in_place(): first the rows that have a name, in order,  *)
(* then the others, each for a name of its own.                            *)
HasName(row)    == row.name \notin {None, <<"">>}
IsGroupEnd(row) == row.type \in {"end_group", "end_rank", "end_score", "end_kobomatrix"}

Fallback(row, type) == IF row.kuid = 0 THEN <<type>> ELSE <<type, ToString(row.kuid)>>

RECURSIVE Given(_, _, _)
Given(name, row, others) ==
  IF IsValidNodeName(name) /\ name \notin others THEN name
  ELSE LET slug == Sluggify(name, others, 0)
       IN Given(IF slug = None THEN Fallback(row, row.type) ELSE slug, row, others)

MadeUp(row, others) ==
  LET type == IF row.type \in {"score__row", "rank__level"} THEN "select_one" ELSE row.type
      slug == IF row.label = None THEN None ELSE Sluggify(row.label, others, Limit)
  IN IF slug \in {None, <<"", "">>} THEN Sluggify(Fallback(row, type), others, Limit) ELSE slug

Autoname(rows) ==
  LET need  == SelectSeq([i \in DOMAIN rows |-> i], LAMBDA i : ~IsGroupEnd(rows[i]))
      order == SelectSeq(need, LAMBDA i : HasName(rows[i])) \o SelectSeq(need, LAMBDA i : ~HasName(rows[i]))
      name(acc, i) ==
        LET n == IF HasName(rows[i]) THEN Given(rows[i].name, rows[i], acc.used) ELSE MadeUp(rows[i], acc.used)
        IN [rows |-> [acc.rows EXCEPT ![i].auto = n], used |-> acc.used \cup {n}]
  IN FoldLeft(name, [rows |-> rows, used |-> {}], order).rows

(* autovalue_choices_in_place(): choices with a name keep it.              *)
ItemName(i) == IF Items[i].name # None THEN Items[i].name ELSE Items[i].label

(* replace_with_autofields().                                              *)
Replaced(rows) ==
  [i \in DOMAIN rows |-> [rows[i] EXCEPT !.name = IF rows[i].auto = None THEN @ ELSE rows[i].auto, !.auto = None]]

-----------------------------------------------------------------------------
(* _parse_contents_of_kobo_structures(): row by row, with a handler for    *)
(* the group that is open.  A handler that begins in another one would     *)
(* have to give its rows to it when it ends, which has no place for them.  *)
Handlers == [begin_rank |-> "rank", begin_score |-> "score", begin_kobomatrix |-> "matrix"]
Base     == [kind |-> "base", name |-> None, rows |-> <<>>, row |-> NewRow("none", None, None), nested |-> FALSE]

(* GroupHandler.begin(): the group is named as the row, or as was made up. *)
GroupName(row) == IF row.name # None THEN row.name ELSE row.auto

Generated(type, name) == NewRow(type, name, None)

Begun(row, h) ==
  LET name  == GroupName(row)
      kind  == Handlers[row.type]
      first == CASE kind = "rank"   -> <<Generated("begin_group", name),
                                         [row EXCEPT !.type = "note", !.name = name \o <<"label">>, !.src = <<0, 0>>]>>
                 [] kind = "score"  -> <<Generated("begin_group", name),
                                         [row EXCEPT !.type = "select_one", !.name = name \o <<"header">>, !.src = <<0, 0>>]>>
                 [] kind = "matrix" -> <<>>
  IN [kind |-> kind, name |-> name, rows |-> first, row |-> row, nested |-> h.kind # "base"]

(* KoboRankGroup.add_level(): a level must differ from those before it.    *)
(* (A mutant adds the level itself before it looks at them.)               *)
LevelAfterItself(row, h) ==
  LET levels == Append(SelectSeq(h.rows, LAMBDA r : r.type = "rank__level"), row)
  IN [row EXCEPT !.refs = {<<levels[i].auto, levels[i].kuid>> : i \in DOMAIN levels}]

Level(row, h) ==
  LET levels == SelectSeq(h.rows, LAMBDA r : r.type = "rank__level")
  IN [row EXCEPT !.refs = {<<levels[i].auto, levels[i].kuid>> : i \in DOMAIN levels}]

Selected(rows) ==
  [i \in DOMAIN rows |-> IF rows[i].type \in {"rank__level", "score__row"}
                         THEN [rows[i] EXCEPT !.type = "select_one"] ELSE rows[i]]

(* KoboMatrixGroupHandler: a group of notes, then one for every item with  *)
(* a question for every column, whose expressions mention the questions    *)
(* about the same item.                                                    *)
ColumnName(col) == IF HasName(col) THEN col.name ELSE col.auto

Header(h) ==
  LET name == h.name \o <<"header">>
  IN <<Generated("begin_group", name), Generated("note", name \o <<"note">>)>>
     \o [i \in DOMAIN h.rows |-> Generated("note", name \o ColumnName(h.rows[i]))]
     \o <<Generated("end_group", None)>>

RowsForItem(h, i) ==
  LET base      == h.name \o ItemName(i)
      columns   == {h.rows[j].auto : j \in DOMAIN h.rows}
      mapped(r) == IF r[1] \in columns THEN <<base \o r[1], r[2]>> ELSE r
  IN <<Generated("begin_group", base), Generated("note", base \o <<"note">>)>>
     \o [j \in DOMAIN h.rows |->
          [NewRow(h.rows[j].type, base \o ColumnName(h.rows[j]), h.rows[j].label)
             EXCEPT !.refs = {mapped(r) : r \in h.rows[j].refs}, !.src = <<h.rows[j].kuid, i>>]]
     \o <<Generated("end_group", None)>>

Finished(h) ==
  IF h.kind = "matrix"
  THEN Header(h) \o FlattenSeq([i \in DOMAIN Items |-> RowsForItem(h, i)])
  ELSE Selected(h.rows) \o <<Generated("end_group", None)>>

Ends == [rank |-> "end_rank", score |-> "end_score", matrix |-> "end_kobomatrix"]
Allowed(kind) == CASE kind = "rank" -> {"rank__level"} [] kind = "score" -> {"score__row"}

HandleRow(acc, row) ==
  IF row.type \in DOMAIN Handlers THEN [acc EXCEPT !.handler = Begun(row, acc.handler)]
  ELSE IF acc.handler.kind = "base" THEN [acc EXCEPT !.rows = Append(@, row)]
  ELSE IF row.type = Ends[acc.handler.kind]
       THEN [acc EXCEPT !.rows = @ \o Finished(acc.handler), !.handler = Base,
                        !.failed = @ \/ acc.handler.nested]
  ELSE IF acc.handler.kind = "matrix" THEN [acc EXCEPT !.handler.rows = Append(@, row)]
  ELSE IF row.type \in Allowed(acc.handler.kind)
       THEN [acc EXCEPT !.handler.rows = Append(@, IF row.type = "rank__level" THEN Level(row, acc.handler) ELSE row)]
  ELSE [acc EXCEPT !.failed = TRUE]

Expanded(rows) == FoldLeft(HandleRow, [rows |-> <<>>, handler |-> Base, failed |-> FALSE], rows)

-----------------------------------------------------------------------------
(* Asset.adjust_content_on_save(): rows without a type are dropped, new    *)
(* rows get a $kuid, and every row its $autoname.                          *)
Adjusted(rows) ==
  LET typed == SelectSeq(rows, LAMBDA r : r.type # "none")
      fresh(i) == Max({0} \cup {typed[j].kuid : j \in DOMAIN typed})
                    + Cardinality({j \in 1..i : typed[j].kuid = 0})
      known == [i \in DOMAIN typed |->
                  LET k == IF typed[i].kuid = 0 THEN fresh(i) ELSE typed[i].kuid
                  IN [typed[i] EXCEPT !.kuid = k, !.src = <<k, 0>>]]
  IN Autoname(known)

(* ordered_xlsform_content(), for the form that is deployed: the groups    *)
(* are expanded with the names from the last save, then all are named.     *)
Deployed(rows) ==
  LET e == Expanded(rows) IN [failed |-> e.failed, rows |-> Replaced(Autoname(e.rows))]

(* AssetSnapshot.save(), for the preview: named, then expanded.            *)
Previewed(rows) ==
  LET e == Expanded(Autoname(rows)) IN [failed |-> e.failed, rows |-> Replaced(e.rows)]

-----------------------------------------------------------------------------
ContentInit == content \in Surveys /\ saved = FALSE /\ out = <<>> /\ edits = 0

Edit(rows) ==
  /\ saved /\ edits < MaxEdits /\ \A i \in DOMAIN content : content[i].refs = {}
  /\ content' = rows
  /\ edits' = edits + 1 /\ saved' = FALSE /\ out' = <<>>

Insert(i, row) == Edit(InsertAt(content, i, row))
Rename(i, name) == Edit([content EXCEPT ![i].name = name])

\* Row i is a column of a matrix.
InMatrix(i) ==
  LET begun == {j \in 1..i : content[j].type = "begin_kobomatrix"}
  IN begun # {} /\ \A j \in Max(begun)..i : content[j].type # "end_kobomatrix"

(* An expression of row i mentions row j; a column has a meaning only for  *)
(* the others of its matrix.  One expression at a time is enough.            *)
Refer(i, j) ==
  /\ saved /\ out = <<>> /\ \A k \in DOMAIN content : content[k].refs = {}
  /\ content[i].type = "text" /\ content[j].type \in {"text", "rank__level"}
  /\ InMatrix(j) => InMatrix(i)
  /\ content' = [content EXCEPT ![i].refs = {<<content[j].auto, content[j].kuid>>}]
  /\ UNCHANGED <<saved, out, edits>>

Save ==
  /\ ~saved
  /\ content' = Adjusted(content) /\ saved' = TRUE
  /\ UNCHANGED <<out, edits>>

Publish ==
  /\ saved /\ out = <<>>
  /\ out' = <<Deployed(content), Previewed(content)>>
  /\ UNCHANGED <<content, saved, edits>>

NewNames == {None, <<"a">>, <<"A">>, <<"a", "label">>}

ContentNext ==
  \/ Save \/ Publish
  \/ \E i \in DOMAIN content, n \in NewNames : Insert(i, NewRow("text", n, <<"a">>)) \/ Rename(i, n)
  \/ \E i, j \in DOMAIN content : i # j /\ Refer(i, j)

ContentSpec == ContentInit /\ [][ContentNext]_contentVars

-----------------------------------------------------------------------------
Form    == out[1].rows
Preview == out[2].rows

Named(rows)     == {i \in DOMAIN rows : ~IsGroupEnd(rows[i])}
Questions(rows) == {i \in DOMAIN rows : rows[i].src # <<0, 0>>}

Apart(names) == \A i, j \in DOMAIN names : i # j => Lower(names[i]) # Lower(names[j])

\* No row has the name of another one, or would have if it were made up,
\* neither among the rows of the content nor among those of the form.
Settled ==
  LET rows(all) == SelectSeq(all, LAMBDA r : ~IsGroupEnd(r))
      before    == rows(content)
      after     == rows(Expanded(content).rows)
  IN /\ Apart([i \in DOMAIN before |-> IF HasName(before[i]) THEN before[i].name
                                       ELSE Slug(before[i].label, Limit)])
     /\ Apart([i \in DOMAIN after |-> IF after[i].name = None THEN after[i].auto ELSE after[i].name])

\* Every group of the content was ended, none inside another.
Wellformed == LET e == Expanded(content) IN ~e.failed /\ e.handler.kind = "base"

(* The names of a form that is deployed are valid and differ, those of the *)
(* rows that stand for rankings, scores and matrices too, whatever names   *)
(* and labels its author gave (kpi/utils/autoname.py).                     *)
NamesAreUnique ==
  out # <<>> =>
    \A i, j \in Named(Form) :
      /\ IsValidNodeName(Form[i].name)
      /\ i # j => Form[i].name # Form[j].name

(* An expression goes on mentioning the row it was written about, which in *)
(* a matrix is the one for the same item, and the levels of a ranking      *)
(* mention those before them, in the form and in the preview; and these    *)
(* name every question alike.                                              *)
Resolves(rows) ==
  \A i \in Questions(rows) : \A r \in rows[i].refs :
    \E j \in DOMAIN rows :
      /\ rows[j].name = r[1]
      /\ rows[j].src[1] = r[2] /\ rows[j].src[2] \in {0, rows[i].src[2]}
      /\ rows[j].src # rows[i].src

RefsResolve == out # <<>> /\ Settled /\ Wellformed => Resolves(Form) /\ Resolves(Preview)

SameNames ==
  out # <<>> /\ Settled /\ Wellformed =>
    \A i \in Questions(Form), j \in Questions(Preview) :
      Form[i].src = Preview[j].src => Form[i].name = Preview[j].name
=============================================================================
