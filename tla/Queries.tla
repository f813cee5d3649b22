------------------------------- MODULE Queries -------------------------------
(***************************************************************************)
(* Lists of submissions: what is asked for is checked                      *)
(* (validate_submission_list_params()), turned into a query of MongoDB     *)
(* (kpi/utils/mongo_helper.py), counted and fetched page by page           *)
(* (kpi/views/v2/data.py, the KoBoCAT backend), while others submit and    *)
(* remove.                                                                 *)
(*                                                                         *)
(* A name of a question is a sequence of parts and dots.  MongoDB takes a  *)
(* dot for a step into a record, so that KoBoCAT encodes those in names,   *)
(* and not those of reserved attributes: what is stored is a function of   *)
(* paths, sequences of encoded names.  Operators other than equality,      *)
(* errors of syntax, lists inside submissions and text that looks like     *)
(* what is encoded are left out.                                           *)
(***************************************************************************)
EXTENDS Integers, SequencesExt, FiniteSetsExt, Functions

CONSTANTS Docs,         \* the submissions, in the order they arrive: functions of names
          Nothing,
          FilterLists,  \* row-level permissions: Nothing, or sequences of lists of conditions
          Limits,       \* the sizes of pages that are asked for
          MaxLimit,     \* SUBMISSION_LIST_LIMIT
          MaxRemovals   \* bound on removals during a walk

VARIABLES mongo,        \* the ids that are there, in the order they came
          ask,          \* what is asked for
          page,         \* where the request is
          shown,        \* the ids of the pages of this walk, one after the other
          since         \* what was there when the walk began, and removals since

queryVars == <<mongo, ask, page, shown, since>>

Ids == DOMAIN Docs
Names == UNION {DOMAIN Docs[i] : i \in Ids}

-----------------------------------------------------------------------------
(* encode() and to_safe_dict().  Only the attributes of a reserved one,    *)
(* _validation_status, are paths, when a submission is stored and when a   *)
(* query mentions it.  (A mutant encodes those as well.)                   *)
Encode(name) == [i \in DOMAIN name |-> IF name[i] = "." THEN "Lg==" ELSE name[i]]
Decode(name) == [i \in DOMAIN name |-> IF name[i] = "Lg==" THEN "." ELSE name[i]]

Reserved(name) == Len(name) > 1 /\ name[1] = "_validation_status" /\ name[2] = "."
Steps(name)    == [i \in 1..((Len(name) + 1) \div 2) |-> <<name[2 * i - 1]>>]

SafePathOfAny(name) == <<Encode(name)>>
SafePath(name)      == IF Reserved(name) THEN Steps(name) ELSE <<Encode(name)>>

\* What is stored of a submission, and how MongoDB reads a name.
StoredPath(name) == IF Reserved(name) THEN Steps(name) ELSE <<Encode(name)>>

Stored ==
  [i \in Ids |->
    [p \in {StoredPath(n) : n \in DOMAIN Docs[i]} |-> Docs[i][CHOOSE n \in DOMAIN Docs[i] : StoredPath(n) = p]]]

(* to_readable_dict().                                                     *)
Joined(path)  == IF Len(path) = 1 THEN Decode(path[1]) ELSE path[1] \o <<".">> \o path[2]
Readable(doc) == [n \in {Joined(p) : p \in DOMAIN doc} |-> doc[CHOOSE p \in DOMAIN doc : Joined(p) = n]]

-----------------------------------------------------------------------------
(* A condition is a function of names; it holds where all of them match.   *)
Holds(i, cond) ==
  \A n \in DOMAIN cond : SafePath(n) \in DOMAIN Stored[i] /\ Stored[i][SafePath(n)] = cond[n]

(* _get_cursor_and_count(): the ids replace what is asked of _id; the      *)
(* filters are joined by $or, those that are lists of their own as well,   *)
(* except when there is only one, which must not be.                       *)
Selected(i, q) ==
  /\ IF q.ids # {} THEN i \in q.ids /\ Holds(i, Restrict(q.query, DOMAIN q.query \ {<<"_id">>}))
     ELSE Holds(i, q.query)
  /\ \/ q.filters = Nothing
     \/ \E k \in DOMAIN q.filters : \E c \in Range(q.filters[k].list) : Holds(i, c)

Fails(q) == q.filters # Nothing /\ Len(q.filters) = 1 /\ q.filters[1].nested

(* get_instances(): sorted by one attribute if one is asked for, by _id    *)
(* for XML.  Ties are in any order, which asking for _id never meets.     *)
Order(q) == IF q.format = "xml" THEN <<<<"_id">>, 1>> ELSE q.sort

Before(q, i, j) ==
  LET o == Order(q)
      value(k) == IF o[1] = <<"_id">> THEN k
                  ELSE IF SafePath(o[1]) \in DOMAIN Stored[k] THEN Stored[k][SafePath(o[1])] ELSE 0
  IN IF o[2] = 1 THEN value(i) < value(j) ELSE value(i) > value(j)

Sorted(S, q) ==
  LET there == SelectSeq(mongo, LAMBDA i : i \in S)
  IN IF Order(q) = Nothing THEN there ELSE SortSeq(there, LAMBDA i, j : Before(q, i, j))

Slice(s, start, limit) == SubSeq(s, start + 1, Min({Len(s), start + limit}))

\* The fields that are asked for are encoded, those of reserved attributes
\* too, and _id always comes.
Fields(i, fields) ==
  LET wanted == {<<Encode(n)>> : n \in fields \ {<<"_userform_id">>}} \cup {<<<<"_id">>>>}
  IN IF fields = {} THEN Stored[i] ELSE Restrict(Stored[i], wanted \cap DOMAIN Stored[i])

-----------------------------------------------------------------------------
(* _filter_mongo_query() and validate_submission_list_params().            *)
Limit(l) == IF l = Nothing \/ l > MaxLimit THEN MaxLimit ELSE l
Invalid(q) == \/ q.format = "xml" /\ (q.sort # Nothing \/ q.fields # {})
              \/ q.limit # Nothing /\ q.limit < 1

NoAsk == [is |-> "none"]

QueryInit ==
  /\ mongo = [i \in 1..(Len(Docs) - 1) |-> i]
  /\ ask = NoAsk /\ page = NoAsk /\ shown = <<>>
  /\ since = [start |-> {}, removals |-> 0]

Query == UNION {[{n} -> {Docs[i][n] : i \in {j \in Ids : n \in DOMAIN Docs[j]}}] : n \in Names} \cup {<<>>}
Sorts == {Nothing} \cup {<<n, d>> : n \in {<<"_id">>, <<"age">>}, d \in {1, -1}}

Asked(q) == IF Invalid(q) THEN [is |-> "invalid"] ELSE [is |-> "asked"]

(* list(), and retrieve() of one by its id, which may come with a query,   *)
(* or by its uuid, which is one.                                           *)
Ask(q) ==
  /\ ask.is = "none"
  /\ ask' = [q EXCEPT !.is = "asked"] /\ page' = Asked(q)
  /\ shown' = <<>> /\ since' = [start |-> ToSet(mongo), removals |-> 0]
  /\ UNCHANGED mongo

AskForList ==
  \E format \in {"json", "xml"}, query \in Query, filters \in FilterLists, limit \in Limits \cup {Nothing, 0} :
    Ask([is |-> "list", format |-> format, query |-> query, filters |-> filters, limit |-> limit,
         start |-> 0, sort |-> Nothing, fields |-> {}, ids |-> {}])

AskForOrder ==
  \E format \in {"json", "xml"}, sort \in Sorts, fields \in {{}} \cup {{n} : n \in Names}, limit \in Limits :
    (sort = Nothing \/ fields = {}) /\ Ask([is |-> "list", format |-> format, query |-> <<>>, filters |-> Nothing, limit |-> limit,
         start |-> 0, sort |-> sort, fields |-> fields, ids |-> {}])

\* get_submission().
ById(i, format, query, filters) ==
  [is |-> "one", format |-> format, query |-> query, filters |-> filters, limit |-> Nothing,
   start |-> 0, sort |-> Nothing, fields |-> {}, ids |-> {i}]

AskForOne ==
  \E i \in Ids, format \in {"json", "xml"}, query \in Query, filters \in FilterLists :
    Ask(ById(i, format, query, filters))

Matching(q) == {i \in ToSet(mongo) : Selected(i, q)}

(* The count is a query of its own ...                                     *)
Count ==
  /\ page.is = "asked"
  /\ page' = IF Fails(ask) THEN [is |-> "failed"]
             ELSE [is |-> "counted", count |-> Cardinality(Matching(ask)), there |-> ToSet(mongo)]
  /\ UNCHANGED <<mongo, ask, shown, since>>

(* ... before the cursor is read; for XML, the ids are looked up in        *)
(* KoBoCAT's database afterwards, in their order.                          *)
Fetch ==
  LET found == Slice(Sorted(Matching(ask), ask), ask.start, Limit(ask.limit))
  IN /\ page.is = "counted"
     /\ page' = [is |-> "fetched", count |-> page.count, there |-> ToSet(mongo), ids |-> found,
                 docs |-> IF ask.format = "xml" THEN <<>>
                          ELSE [k \in DOMAIN found |-> Readable(Fields(found[k], ask.fields))]]
     /\ shown' = shown \o found
     /\ UNCHANGED <<mongo, ask, since>>

(* The client goes on with the next page, or asks for something else.      *)
NextPage ==
  /\ page.is = "fetched"
  /\ ask.start + Limit(ask.limit) < page.count
  /\ ask' = [ask EXCEPT !.start = @ + Limit(ask.limit)]
  /\ page' = [is |-> "asked"]
  /\ UNCHANGED <<mongo, shown, since>>

Leave ==
  /\ page.is \in {"fetched", "invalid", "failed"}
  /\ ask' = NoAsk /\ page' = NoAsk /\ shown' = <<>>
  /\ since' = [start |-> {}, removals |-> 0]
  /\ UNCHANGED mongo

Arrive ==
  /\ ask.is # "none"
  /\ \E i \in Ids : (\A j \in ToSet(mongo) \cup since.start : j < i) /\ mongo' = Append(mongo, i)
  /\ UNCHANGED <<ask, page, shown, since>>

Delete ==
  /\ ask.is # "none" /\ since.removals < MaxRemovals
  /\ \E i \in ToSet(mongo) : mongo' = SelectSeq(mongo, LAMBDA j : j # i)
  /\ since' = [since EXCEPT !.removals = @ + 1]
  /\ UNCHANGED <<ask, page, shown>>

QueryNext == \/ AskForList \/ AskForOrder \/ AskForOne \/ Count \/ Fetch \/ NextPage \/ Leave
             \/ Arrive \/ Delete

QuerySpec == QueryInit /\ [][QueryNext]_queryVars

-----------------------------------------------------------------------------
(* What is meant, of the submissions that were there, as they were sent.   *)
Matches(doc, cond) == \A n \in DOMAIN cond : n \in DOMAIN doc /\ doc[n] = cond[n]

Meant(q, there) ==
  {i \in there :
     /\ Matches(Docs[i], IF q.ids = {} THEN q.query ELSE Restrict(q.query, DOMAIN q.query \ {<<"_id">>}))
     /\ q.ids = {} \/ i \in q.ids
     /\ q.filters = Nothing \/ \E k \in DOMAIN q.filters : \E c \in Range(q.filters[k].list) : Matches(Docs[i], c)}

Wanted(doc, fields) == IF fields = {} THEN doc ELSE Restrict(doc, (fields \cup {<<"_id">>}) \cap DOMAIN doc)

(* A page is the part that was asked for of what the query means and the   *)
(* user may see, in order, under the names and with the values that were   *)
(* sent, and its count is of all of it.  Attributes of reserved ones are   *)
(* not among the fields.                                                   *)
CountIsOfWhatIsMeant ==
  page.is = "counted" => page.count = Cardinality(Meant(ask, page.there))

PageIsOfWhatIsMeant ==
  page.is = "fetched" =>
    LET meant == Meant(ask, page.there)
    IN /\ ToSet(page.ids) \subseteq meant /\ IsInjective(page.ids)
       /\ Len(page.ids) = Min({Limit(ask.limit), Max({0, Cardinality(meant) - ask.start})})
       /\ \A k, l \in DOMAIN page.ids : k < l /\ Order(ask) # Nothing => ~Before(ask, page.ids[l], page.ids[k])
       /\ \A k \in DOMAIN page.docs :
            (\A n \in ask.fields : ~Reserved(n)) => page.docs[k] = Wanted(Docs[page.ids[k]], ask.fields)

(* A walk through the pages, without an order or in that of the ids, meets *)
(* everything that is meant and was there when it began once, whatever     *)
(* arrives meanwhile, if nothing is removed.                               *)
WalksMeetAllOnce ==
  page.is = "fetched" /\ since.removals = 0 /\ Order(ask) \in {Nothing, <<<<"_id">>, 1>>} =>
    /\ IsInjective(shown)
    /\ page.count <= ask.start + Limit(ask.limit) => Meant(ask, since.start) \subseteq ToSet(shown)

PagesAreRight == CountIsOfWhatIsMeant /\ PageIsOfWhatIsMeant /\ WalksMeetAllOnce

(* The fields that are asked for are those that come: TLC refutes it (no   *)
(* run of the project does), an attribute of _validation_status does not.  *)
FieldsCome ==
  page.is = "fetched" /\ ask.format = "json" =>
    \A k \in DOMAIN page.docs : page.docs[k] = Wanted(Docs[page.ids[k]], ask.fields)
=============================================================================
