------------------------------- MODULE Search -------------------------------
(***************************************************************************)
(* The search of assets: the parser of `q` (kpi/utils/query_parser), the   *)
(* Q object its actions build, and the two filters of the list that read   *)
(* `q`, KpiObjectPermissionsFilter and SearchFilter (kpi/filters.py).      *)
(*                                                                         *)
(* A text is a sequence of chunks: a keyword or a piece of a word, a       *)
(* space, a bracket, a colon, a quote or a backslash.  Adjacent pieces     *)
(* make one word, so that <<"OR", "foo">> is the word "ORfoo".  A reader   *)
(* takes an offset and gives what it read and the offset behind it; the    *)
(* parser's memo of rule and offset is left out, since a reader depends on *)
(* nothing else.  The recursive operators are for TLC alone.               *)
(***************************************************************************)
EXTENDS Integers, Sequences, SequencesExt, FiniteSets

CONSTANT MaxDepth      \* how deep the printed expressions nest

VARIABLES expr,     \* the expression that `q` was written for
          text,     \* `q`
          query,    \* what the parser makes of it, in both filters
          grants,   \* what the user and the anonymous user were given
          answer    \* what the request has returned

searchVars == <<expr, text, query, grants, answer>>

Quote     == "\""
Backslash == "\\"
Digraphs  == {" ", "(", ")", ":"}

-----------------------------------------------------------------------------
(* django.db.models.Q.  A child is a condition on a field or another Q.    *)
QOf(kids, conn) == [conn |-> conn, neg |-> FALSE, kids |-> kids]
QEmpty          == QOf(<<>>, "AND")
QLeaf(f, v)     == QOf(<<[field |-> f, value |-> v]>>, "AND")

IsQ(c) == "kids" \in DOMAIN c

(* Node.add(): a child of the same connector, or with one child, is taken  *)
(* apart.                                                                  *)
Added(q, c) ==
  IF \E i \in 1..Len(q.kids) : q.kids[i] = c THEN q
  ELSE IF ~c.neg /\ (c.conn = q.conn \/ Len(c.kids) = 1)
       THEN [q EXCEPT !.kids = @ \o c.kids]
       ELSE [q EXCEPT !.kids = Append(@, c)]

\* An empty Q leaves the other as it is.
Combined(l, r, conn) ==
  IF r.kids = <<>> THEN l ELSE IF l.kids = <<>> THEN r
  ELSE Added(Added(QOf(<<>>, conn), l), r)

Negated(q) == [Added(QEmpty, q) EXCEPT !.neg = ~@]

-----------------------------------------------------------------------------
(* What a reader returns: a result, or that it failed, or the exception    *)
(* that an action raised, which ends the parse.                            *)
Read(v, i)  == [is |-> "read", v |-> v, at |-> i]
Failed(i)   == [is |-> "failed", v |-> <<>>, at |-> i]
Raised(e)   == [is |-> e, v |-> <<>>, at |-> 0]

At(t, i, c) == i <= Len(t) /\ t[i] = c

(* `_*`: the offset behind the spaces.                                     *)
RECURSIVE Skip(_, _)
Skip(t, i) == IF At(t, i, " ") THEN Skip(t, i + 1) ELSE i

(* word: one or more characters that are no space, bracket or colon.       *)
RECURSIVE WordEnd(_, _)
WordEnd(t, i) == IF i <= Len(t) /\ t[i] \notin Digraphs THEN WordEnd(t, i + 1) ELSE i

ReadWord(t, i) ==
  IF WordEnd(t, i) = i THEN Failed(i) ELSE Read(SubSeq(t, i, WordEnd(t, i) - 1), WordEnd(t, i))

(* name: letters, digits, '_' and '-'.                                     *)
RECURSIVE NameEnd(_, _)
NameEnd(t, i) ==
  IF i <= Len(t) /\ t[i] \notin Digraphs \cup {Quote, Backslash} THEN NameEnd(t, i + 1) ELSE i

ReadName(t, i) ==
  IF NameEnd(t, i) = i THEN Failed(i) ELSE Read(SubSeq(t, i, NameEnd(t, i) - 1), NameEnd(t, i))

(* The inside of a string: a backslash takes the next character with it,   *)
(* unless it is the last one.                                              *)
RECURSIVE StringEnd(_, _)
StringEnd(t, i) ==
  IF At(t, i, Backslash) /\ i < Len(t) THEN StringEnd(t, i + 2)
  ELSE IF i > Len(t) \/ t[i] = Quote THEN i
  ELSE StringEnd(t, i + 1)

(* string: what is between two quotes, backslashes included.  There is one *)
(* kind of quote here: the other is read alike.                            *)
ReadString(t, i) ==
  LET end == StringEnd(t, i + 1)
  IN IF At(t, i, Quote) /\ At(t, end, Quote)
     THEN Read(SubSeq(t, i + 1, end - 1), end + 1)
     ELSE Failed(i)

(* The first of two readers that does not fail.                            *)
FirstOf(r, other) == IF r.is = "failed" THEN other ELSE r

ReadValue(t, i) == FirstOf(ReadString(t, i), ReadWord(t, i))

(* process_value(): the values that stand for None, True and False.        *)
ProcessValue(v) ==
  IF v = <<"null">> THEN [none |-> TRUE]
  ELSE IF v = <<"true">> THEN [bool |-> TRUE]
  ELSE IF v = <<"false">> THEN [bool |-> FALSE]
  ELSE [str |-> v]

Width(v) ==
  FoldLeft(LAMBDA n, c : n + (IF c = "OR" THEN 2 ELSE IF c \in {"foo", "AND", "NOT"} THEN 3 ELSE 1),
           0, v)

DefaultLookups == <<"name__icontains", "summary__icontains">>

(* The term action.  A value without a field is looked up in each default  *)
(* field; None and booleans have no length.                                *)
Term(field, v) ==
  LET value == ProcessValue(v)
  IN IF field = <<>>
     THEN IF "str" \notin DOMAIN value THEN Raised("TypeError")
          ELSE IF Width(v) < 3 THEN Raised("SearchQueryTooShort")
          ELSE Read(FoldLeft(LAMBDA q, f : Combined(q, QLeaf(<<f>>, value), "OR"),
                             QEmpty, DefaultLookups), 0)
     ELSE IF field = <<"status">> THEN Read(QEmpty, 0)
     ELSE Read(QLeaf(field, value), 0)

(* term: a value, with or without a field.  A field whose value cannot be  *)
(* read fails the term: the field is not tried as a value.                 *)
ReadTerm(t, i) ==
  LET name  == ReadName(t, i)
      named == name.is = "read" /\ At(t, name.at, ":")
      value == ReadValue(t, IF named THEN name.at + 1 ELSE i)
  IN IF value.is = "failed" THEN Failed(i)
     ELSE [Term(IF named THEN name.v ELSE <<>>, value.v) EXCEPT !.at = value.at]

RECURSIVE ReadGroup(_, _), AndTail(_, _), OrTail(_, _)

(* The repeated part of andexp: spaces, with an AND before them or         *)
(* without, and a group that does not begin with OR.  An AND that is only  *)
(* the beginning of a word is taken all the same, and the part fails.      *)
(* (A mutant does not look for OR.)                                        *)
AndPartThroughOr(t, i, behind) ==
  IF At(t, behind, " ") THEN ReadGroup(t, Skip(t, behind)) ELSE Failed(i)

AndPart(t, i, behind) ==
  IF At(t, behind, " ") /\ ~At(t, Skip(t, behind), "OR")
  THEN ReadGroup(t, Skip(t, behind)) ELSE Failed(i)

BehindAnd(t, i) == IF At(t, i, " ") /\ At(t, Skip(t, i), "AND") THEN Skip(t, i) + 1 ELSE i

\* Another part, with those that come after it; or none.
AndMore(t, left, right) ==
  IF right.is = "read" THEN AndTail(t, Read(Combined(left.v, right.v, "AND"), right.at))
  ELSE FirstOf(right, left)

AndTail(t, left) ==
  IF left.is # "read" THEN left
  ELSE AndMore(t, left, AndPart(t, left.at, BehindAnd(t, left.at)))

ReadAnd(t, i) == AndTail(t, ReadGroup(t, i))

(* The repeated part of orexp.                                             *)
OrPart(t, i, op) ==
  IF op > i /\ At(t, op, "OR") /\ At(t, op + 1, " ") THEN ReadAnd(t, Skip(t, op + 1)) ELSE Failed(op)

OrMore(t, left, right) ==
  IF right.is = "read" THEN OrTail(t, Read(Combined(left.v, right.v, "OR"), right.at))
  ELSE FirstOf(right, left)

OrTail(t, left) ==
  IF left.is # "read" THEN left
  ELSE OrMore(t, left, OrPart(t, left.at, Skip(t, left.at)))

ReadExp(t, i) == OrTail(t, ReadAnd(t, i))

(* groupexp: NOT and a group, a bracketed expression, or else a term.      *)
Not(r) == IF r.is = "read" THEN Read(Negated(r.v), r.at) ELSE r

ReadNot(t, i) ==
  IF At(t, i, "NOT") /\ At(t, i + 1, " ") THEN Not(ReadGroup(t, Skip(t, i + 1))) ELSE Failed(i)

Closed(t, r) ==
  IF r.is # "read" THEN r
  ELSE IF At(t, Skip(t, r.at), ")") THEN Read(r.v, Skip(t, r.at) + 1) ELSE Failed(r.at)

ReadBracketed(t, i) ==
  IF At(t, i, "(") THEN Closed(t, ReadExp(t, Skip(t, i + 1))) ELSE Failed(i)

ReadGroup(t, i) == FirstOf(ReadNot(t, i), FirstOf(ReadBracketed(t, i), ReadTerm(t, i)))

(* query: an expression or nothing, between spaces.                        *)
Spaced(t, r) == IF r.is = "read" THEN Read(r.v, Skip(t, r.at)) ELSE r

ReadQuery(t) == FirstOf(Spaced(t, ReadExp(t, Skip(t, 1))), Read(QEmpty, Skip(t, 1)))

(* Parser.parse(): the whole text, or a ParseError.                        *)
Whole(t, r) ==
  IF r.is # "read" \/ r.at = Len(t) + 1 THEN r ELSE Raised("ParseError")

Parse(t) == Whole(t, ReadQuery(t))

-----------------------------------------------------------------------------
(* get_parsed_parameters(): the values of each field, whatever the         *)
(* operators between them; those of a nested Q replace what is there.      *)
RECURSIVE ParsedParameters(_)
ParsedParameters(q) ==
  LET With(found, c) ==
        IF IsQ(c)
        THEN LET inner == ParsedParameters(c)
             IN [f \in DOMAIN found \cup DOMAIN inner |->
                   IF f \in DOMAIN inner THEN inner[f] ELSE found[f]]
        ELSE [f \in DOMAIN found \cup {c.field} |->
                (IF f \in DOMAIN found THEN found[f] ELSE <<>>)
                   \o (IF f = c.field THEN <<c.value>> ELSE <<>>)]
  IN FoldLeft(With, <<>>, q.kids)

-----------------------------------------------------------------------------
(* The assets there are: a collection, a form in it and another form.  A   *)
(* `world` is what conditions tell of an asset.                            *)
Phrase == <<"foo", " ", "OR", " ", "foo">>
Worlds == [parent : {"none", "c"}, sharing : BOOLEAN, says : SUBSET {<<"foo">>, Phrase}]

Assets == {"c", "k", "d"}

World(a) == [parent  |-> IF a = "k" THEN "c" ELSE "none",
             sharing |-> a # "c",
             says    |-> IF a = "k" THEN {<<"foo">>} ELSE {}]

Fields == {<<"parent__uid">>, <<"data_sharing__enabled">>} \cup {<<f>> : f \in ToSet(DefaultLookups)}

(* A condition: equality, or that one of the default fields contains it.   *)
Holds(field, value, w) ==
  \/ field = <<"parent__uid">> /\ value = (IF w.parent = "none" THEN [none |-> TRUE] ELSE [str |-> <<"c">>])
  \/ field = <<"data_sharing__enabled">> /\ value = [bool |-> w.sharing]
  \/ field = <<"name__icontains">> /\ \E v \in w.says : value = [str |-> v]

\* A Q without a condition anywhere in it adds none to the query.
RECURSIVE Hollow(_)
Hollow(c) == IsQ(c) /\ \A i \in 1..Len(c.kids) : Hollow(c.kids[i])

RECURSIVE Matches(_, _)
Matches(q, w) ==
  LET Child(c) == IF IsQ(c) THEN Matches(c, w) ELSE Holds(c.field, c.value, w)
      kids     == {Child(c) : c \in {x \in ToSet(q.kids) : ~Hollow(x)}}
  IN kids = {} \/ (q.neg # (IF q.conn = "AND" THEN FALSE \notin kids ELSE TRUE \in kids))

RECURSIVE Known(_)
Known(q) == \A i \in 1..Len(q.kids) :
              IF IsQ(q.kids[i]) THEN Known(q.kids[i]) ELSE q.kids[i].field \in Fields

-----------------------------------------------------------------------------
(* The expressions, and how they are written: with brackets where they are *)
(* needed, and with AND or without.                                        *)
Atoms == {[op |-> "term", chunks |-> c] :
            c \in {<<"parent__uid", ":", "c">>, <<"foo">>, <<Quote>> \o Phrase \o <<Quote>>, <<"status", ":", "foo">>}}

RECURSIVE Exprs(_)
Exprs(n) ==
  IF n = 0 THEN Atoms
  ELSE LET e == Exprs(n - 1)
       IN Atoms \cup [op : {"NOT"}, arg : e] \cup [op : {"AND", "OR"}, left : e, right : e]

Bracketed(yes, t) == IF yes THEN <<"(">> \o t \o <<")">> ELSE t

RECURSIVE Printed(_, _)
Printed(e, and) ==
  IF e.op = "term" THEN e.chunks
  ELSE IF e.op = "NOT"
       THEN <<"NOT", " ">> \o Bracketed(e.arg.op \in {"AND", "OR"}, Printed(e.arg, and))
  ELSE LET Side(s) == Bracketed(e.op = "AND" /\ s.op = "OR", Printed(s, and))
       IN Side(e.left) \o (IF e.op = "OR" THEN <<" ", "OR", " ">> ELSE and) \o Side(e.right)

\* Texts that a user may type, expressions or not.
Typed == {<<>>, <<"foo">>, <<"f">>, <<"true">>, <<"(", "foo">>, <<"foo", " ", "OR", "foo">>,
          <<"foo", " ", "AND", "foo">>, <<"OR", "foo">>, <<"foo", ":", "foo">>,
          <<"parent__uid", ":", "c">>, <<"parent__uid", ":", "x">>, <<"NOT", " ", "parent__uid", ":", "c">>,
          <<"data_sharing__enabled", ":", "true">>,
          <<"data_sharing__enabled", ":", "true", " ", "OR", " ", "foo">>,
          <<"(", "parent__uid", ":", "x", " ", "foo", ")", " ", "OR", " ", "parent__uid", ":", "c">>}

-----------------------------------------------------------------------------
(* KpiObjectPermissionsFilter.                                             *)
RowsOf(user)  == IF user = "anonymous" THEN {} ELSE grants.view
Subscribed(user) == IF user = "anonymous" THEN {} ELSE grants.subscribed \cap grants.public
ChildrenOf(A) == {a \in Assets : World(a).parent \in A}

(* The parameters of `q`; none when it cannot be parsed.                   *)
Parameters == IF query.is = "read" THEN ParsedParameters(query.v) ELSE <<>>

Asks(f) == f \in DOMAIN Parameters

(* status=...: what it narrows the list to.                                *)
ByStatus(user, status) ==
  CASE status = "private" -> IF user = "anonymous" THEN {} ELSE grants.owned
    [] status = "shared" -> IF user = "anonymous" THEN grants.public ELSE grants.view
    [] status = "public" -> Subscribed(user)
    [] status = "public-discoverable" -> grants.discoverable

(* The first data_sharing__enabled that `q` has, when it is true.          *)
AsksForShared ==
  /\ Asks(<<"data_sharing__enabled">>)
  /\ Head(Parameters[<<"data_sharing__enabled">>]) # [bool |-> FALSE]

WithData(user) == IF user = "anonymous" THEN {} ELSE grants.data

\* The collection that the first parent__uid of `q` names, if any.
ParentAsked == {p \in Assets : Asks(<<"parent__uid">>) /\ Head(Parameters[<<"parent__uid">>]) = [str |-> <<p>>]}

\* Mutant: the children of a discoverable collection, public or not.
DiscoverableChildrenOfAnyKind == ChildrenOf(ParentAsked)

DiscoverableChildren == grants.public \cap ChildrenOf(ParentAsked)

(* The assets a request may see.                                           *)
Permitted(user, action, status) ==
  IF user = "superuser" /\ action # "list" THEN Assets
  ELSE IF status # "" THEN ByStatus(user, status)
  ELSE IF AsksForShared THEN WithData(user)
  ELSE IF ParentAsked \cap grants.discoverable # {} THEN DiscoverableChildren
  ELSE IF action # "list" THEN RowsOf(user) \cup grants.public
  ELSE RowsOf(user) \cup Subscribed(user) \cup ChildrenOf(Subscribed(user))

\* queryset.get() of a parent that there is not raises DoesNotExist.
NoSuchParent(user, action, status) ==
  /\ ~(user = "superuser" /\ action # "list") /\ status = "" /\ ~AsksForShared
  /\ Asks(<<"parent__uid">>) /\ ParentAsked = {}

(* SearchFilter: what of it matches; nothing when `q` is no query, or one  *)
(* about fields that do not exist.                                         *)
Found(assets) ==
  IF query.is = "read" /\ Known(query.v) THEN {a \in assets : Matches(query.v, World(a))} ELSE {}

NoAnswer == [is |-> "none", user |-> "", action |-> "", status |-> "", assets |-> {}]

(* AssetViewSet.filter_queryset(): both filters.  Exceptions other than a  *)
(* ParseError end the request.                                             *)
Ask(user, action, status) ==
  LET error == query.is \in {"TypeError", "SearchQueryTooShort"} \/ NoSuchParent(user, action, status)
  IN /\ answer = NoAnswer
     /\ answer' = [is |-> IF error THEN "error" ELSE "list", user |-> user, action |-> action,
                   status |-> status,
                   assets |-> IF error THEN {} ELSE Found(Permitted(user, action, status))]
     /\ UNCHANGED <<expr, text, query, grants>>

-----------------------------------------------------------------------------
(* What an expression means.  A condition on `status` is none.             *)
RECURSIVE Neutral(_)
Neutral(e) ==
  IF e.op = "term" THEN Head(e.chunks) = "status"
  ELSE IF e.op = "NOT" THEN Neutral(e.arg)
  ELSE Neutral(e.left) /\ Neutral(e.right)

RECURSIVE Means(_, _)
Means(e, w) ==
  \/ Neutral(e)
  \/ e.op = "term" /\ (IF Len(e.chunks) = 3 THEN w.parent = "c"
                       ELSE (IF Len(e.chunks) = 1 THEN e.chunks ELSE Phrase) \in w.says)
  \/ e.op = "NOT" /\ ~Neutral(e.arg) /\ ~Means(e.arg, w)
  \/ e.op \in {"AND", "OR"} /\ ~Neutral(e) /\
       LET sides == {Means(s, w) : s \in {x \in {e.left, e.right} : ~Neutral(x)}}
       IN IF e.op = "AND" THEN FALSE \notin sides ELSE TRUE \in sides

(* What may be given: the owner sees the data, who sees the data sees the  *)
(* asset, and what is discoverable is public.  A form of a public          *)
(* collection need not be public: it may deny what it inherits.            *)
Grants == {g \in [view : SUBSET Assets, data : SUBSET {"k", "d"}, owned : SUBSET {"d"}, public : SUBSET {"c", "k"},
                  discoverable : SUBSET {"c"}, subscribed : SUBSET {"c"}] :
             /\ g.owned \subseteq g.data /\ g.data \subseteq g.view
             /\ g.discoverable \subseteq g.public
             /\ "d" \in g.view => g.owned # {}}

NoGrants == [view |-> {}, data |-> {}, owned |-> {}, public |-> {}, discoverable |-> {}, subscribed |-> {}]

NoExpr == [op |-> "none"]

SearchInit ==
  /\ \/ /\ expr \in Exprs(MaxDepth)
        /\ \E and \in {<<" ">>, <<" ", "AND", " ">>} : text = Printed(expr, and)
        /\ grants = NoGrants
     \/ expr = NoExpr /\ text \in Typed /\ grants \in Grants
  /\ query = Parse(text)
  /\ answer = NoAnswer

(* The texts of expressions are only read.                                 *)
SearchNext ==
  expr = NoExpr /\ \E user \in {"user", "anonymous", "superuser"}, action \in {"list", "retrieve"},
     status \in {"", "private", "shared", "public", "public-discoverable"} : Ask(user, action, status)

SearchSpec == SearchInit /\ [][SearchNext]_searchVars

-----------------------------------------------------------------------------
SearchTypeOK ==
  /\ text \in Seq(STRING)
  /\ grants \in Grants
  /\ answer.assets \subseteq Assets
  /\ answer.is \in {"none", "list", "error"}

(* A query that is written as the documentation of the parser describes    *)
(* selects what the expression says: NOT binds tightest, then AND and      *)
(* juxtaposition, then OR; brackets group; quoted text is one value.       *)
QueriesMeanWhatTheySay ==
  expr # NoExpr => query.is = "read" /\ \A w \in Worlds : Matches(query.v, w) = Means(expr, w)

(* Whatever `q` and `status` say - and two filters read the parameters of  *)
(* `q` without its operators to choose another list - a user is given only *)
(* assets that they, or everyone, were given, or that are in a public      *)
(* collection they have subscribed to.                                     *)
SearchShowsOnlyVisible ==
  answer.user # "superuser" =>
    answer.assets \subseteq
      RowsOf(answer.user) \cup grants.public \cup ChildrenOf(Subscribed(answer.user))

-----------------------------------------------------------------------------
(* No run checks what follows: TLC refutes it.                             *)

(* The list shows nothing that the same user cannot open: it does, since   *)
(* the forms of a subscribed collection are not asked whether they are     *)
(* public themselves.                                                      *)
ListedCanBeOpened ==
  answer.is = "list" /\ answer.user # "superuser" => answer.assets \subseteq RowsOf(answer.user) \cup grants.public

(* A text that is no query gives an empty list: `true` and `null` without  *)
(* a field are a TypeError, a parent that does not exist is DoesNotExist.  *)
NoSearchCrashes == answer.is = "error" => query.is = "SearchQueryTooShort"

(* What is listed for two conditions joined by OR is what is listed for    *)
(* either: not for data_sharing__enabled, which leaves out every asset     *)
(* whose submissions the user may not view.                                *)
OrWidens ==
  text = <<"data_sharing__enabled", ":", "true", " ", "OR", " ", "foo">> /\ answer.action = "list"
    /\ answer.user = "user" /\ answer.status = ""
    => {a \in grants.view : <<"foo">> \in World(a).says} \subseteq answer.assets

(* Words may begin with a keyword: after another word, those that begin    *)
(* with OR or AND are a ParseError.                                        *)
WordsMayBeginLikeKeywords == text = <<"foo", " ", "OR", "foo">> => query.is = "read"
=============================================================================
