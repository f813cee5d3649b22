------------------------------- MODULE MCWeb -------------------------------
(***************************************************************************)
(* What web processes do for their users, for TLC: searches, row-level     *)
(* assignments, the content and the languages of surveys, and the files of *)
(* submissions.                                                            *)
(*                                                                         *)
(* One of them, `turn`, moves in a behaviour; the others stay where they   *)
(* begin.  They share no state.                                            *)
(***************************************************************************)
EXTENDS Naturals, Sequences, TLC

CONSTANTS MaxDepth,                                        \* of Search
          Codenames, Submitters,                           \* of PartialFilters
          Limit, MaxRevisions,                             \* of Content
          Surveys, Collections, Languages, Unset, Nothing, MaxRequests,  \* of Translations
          Downloads, Filenames, MaxKeys                    \* of Attachments

VARIABLES turn,
          expr, text, query, grants, answer,
          posted, content, result, current, waiting,
          form, saved, out, edits,
          texts, default, parent, exists, summary, meaning, left, asked, requests,
          attached, answered, visible, mp3, wanted, stage, died

\* For the content: one or two rows, rankings, scores, matrices and groups,
\* named or not, some of which do not end as they should.
None          == <<>>
Row(t, n, l)  == [type |-> t, name |-> n, label |-> l, auto |-> None, kuid |-> 0, refs |-> {}, src |-> <<0, 0>>]
Block(rows)   == [i \in DOMAIN rows |-> Row(rows[i][1], rows[i][2], rows[i][3])]
Ending(t)     == <<t, None, None>>

SomeNames  == {None, <<"a">>, <<"A">>, <<"r", "label">>, <<"!">>, <<" ">>, <<"é">>}
SomeLabels == {None, <<"a">>, <<"é">>, <<"r", "label">>, <<"a", "!", "b", "b", "c">>}
Question   == {Block(<<<<"text", n, l>>>>) : n \in SomeNames, l \in SomeLabels}
Simple     == {Block(<<<<"text", n, l>>>>) : n \in {None, <<"a">>, <<"r", "label">>}, l \in {None, <<"a">>}}
Rank(n, l, m) == Block(<<<<"begin_rank", n, <<"r">>>>, <<"rank__level", None, l>>, <<"rank__level", m, <<"b">>>>, Ending("end_rank")>>)
Ranks      == {Rank(n, l, m) : n \in {None, <<"r">>, <<"">>}, l \in {<<"b">>, <<"é">>}, m \in {None, <<"b">>}}
Scores     == {Block(<<<<"begin_score", n, <<"r">>>>, <<"score__row", None, <<"a">>>>, Ending("end_score")>>) : n \in {None, <<"r">>}}
Matrices   == {Block(<<<<"begin_kobomatrix", None, <<"m">>>>, <<"text", m, <<"a">>>>, <<"text", None, <<"b">>>>,
                       Ending("end_kobomatrix")>>) : m \in {None, <<"a">>, <<"note">>}}
Groups     == {Block(<<<<"begin_group", None, <<"a">>>>, <<"text", None, <<"a">>>>, Ending("end_group")>>)}
Unended    == {Block(<<<<"begin_rank", None, <<"r">>>>, <<"rank__level", None, <<"a">>>>>>),
               Block(<<<<"begin_rank", None, <<"r">>>>, <<"text", None, <<"a">>>>, Ending("end_rank")>>),
               Block(<<<<"begin_kobomatrix", None, <<"m">>>>, <<"text", None, <<"a">>>>, <<"begin_score", None, <<"r">>>>,
                       <<"score__row", None, <<"a">>>>, Ending("end_score"), Ending("end_kobomatrix")>>),
               Block(<<<<"none", None, <<"a">>>>>>)}
Customs    == {Rank(None, l, m) : l \in {<<"b">>, <<"é">>}, m \in {None, <<"b">>}} \cup Scores \cup Matrices
Contents   == {x \o y : x \in Simple, y \in Customs} \cup {x \o y : x \in Matrices \cup Scores, y \in Customs}
              \cup Question \cup Ranks \cup Groups \cup Unended
TwoItems   == <<[name |-> <<"x">>, label |-> <<"X">>], [name |-> None, label |-> <<"y">>]>>

\* For the languages: two unnamed or three named ones, or a single one.
Firsts == {<<"en", "fr", "pl">>, <<Nothing, "en">>, <<"fr">>}

\* Two submissions with the same UUID.
SameUuid == <<"u", "u">>

A == INSTANCE Attachments WITH
       Requests <- Downloads, Uuid <- SameUuid, rows <- attached, asked <- wanted, cut <- died

S == INSTANCE Search
F == INSTANCE PartialFilters
C == INSTANCE Content WITH Surveys <- Contents, Items <- TwoItems, MaxEdits <- MaxRevisions, content <- form
L == INSTANCE Translations WITH FirstLists <- Firsts, content <- texts

searchVars   == <<expr, text, query, grants, answer>>
filterVars   == <<posted, content, result, current, waiting>>
formVars     == <<form, saved, out, edits>>
languageVars == <<texts, default, parent, exists, summary, meaning, left, asked, requests>>
fileVars     == <<attached, answered, visible, mp3, wanted, stage, died>>
webVars      == <<turn, searchVars, filterVars, formVars, languageVars, fileVars>>

WebInit ==
  /\ turn \in {"search", "filters", "forms", "languages", "files"}
  /\ A!AttachmentsInit
  /\ turn # "files" => visible = {}
  /\ IF turn = "search" THEN S!SearchInit
     ELSE expr = S!NoExpr /\ text = <<>> /\ query = <<>> /\ grants = S!NoGrants /\ answer = S!NoAnswer
  /\ IF turn = "filters" THEN F!FiltersInit
     ELSE /\ posted = <<>> /\ content = <<>> /\ waiting = {}
          /\ result = [p \in F!SubmissionPerms |-> {}] /\ current = F!Idle
  /\ IF turn = "forms" THEN C!ContentInit ELSE form = <<>> /\ saved = FALSE /\ out = <<>> /\ edits = 0
  /\ IF turn = "languages" THEN L!TranslationsInit
     ELSE /\ texts = <<>> /\ default = <<>> /\ parent = <<>> /\ exists = {} /\ summary = <<>>
          /\ meaning = <<>> /\ left = {} /\ asked = L!NoRequest /\ requests = 0

Searches    == turn = "search" /\ S!SearchNext
               /\ UNCHANGED <<turn, filterVars, formVars, languageVars, fileVars>>
Filters     == turn = "filters" /\ F!FiltersNext
               /\ UNCHANGED <<turn, searchVars, formVars, languageVars, fileVars>>
Forms       == turn = "forms" /\ C!ContentNext
               /\ UNCHANGED <<turn, searchVars, filterVars, languageVars, fileVars>>
Translating == turn = "languages" /\ L!TranslationsNext
               /\ UNCHANGED <<turn, searchVars, filterVars, formVars, fileVars>>
Files       == turn = "files" /\ A!AttachmentsNext
               /\ UNCHANGED <<turn, searchVars, filterVars, formVars, languageVars>>

WebNext == Searches \/ Filters \/ Forms \/ Translating \/ Files

WebSpec == WebInit /\ [][WebNext]_webVars

\* Downloads have the names of surveys, and their files those of collections.
Interchangeable == Permutations(Surveys) \cup Permutations(Collections)

-----------------------------------------------------------------------------
(* Every component's types.                                                *)
WebTypeOK ==
  /\ turn = "search" => S!SearchTypeOK
  /\ turn = "filters" => F!FiltersTypeOK

(* A search means what its text says, and shows only what may be seen;     *)
(* the file of a submission that is served is the one that was asked for.  *)
SearchIsRight ==
  /\ turn = "search" => S!QueriesMeanWhatTheySay /\ S!SearchShowsOnlyVisible
  /\ turn = "files" => A!AttachmentsAreRight

(* Row-level filters lose nothing of what was posted, and are exact when   *)
(* that of viewing is among them.                                          *)
FiltersAreRight == turn = "filters" => F!NothingLost /\ F!ExactWhenViewPosted

(* A deployed form has different and valid names, its expressions and      *)
(* those of its preview mention the rows they were written about, and both *)
(* name every question alike.                                              *)
FormsAreRight == C!NamesAreUnique /\ C!RefsResolve /\ C!SameNames

(* Values stay with their language, what was accepted was done, and        *)
(* collections show the languages that are in them.                        *)
TranslationsAreRight == L!ValuesFollowTheirLanguage /\ L!AcceptedIsDone /\ L!CollectionsHaveTheirLanguages

(* Contents are what their authors wrote, deployed or translated.          *)
ContentIsRight == (turn = "forms" => FormsAreRight) /\ (turn = "languages" => TranslationsAreRight)
=============================================================================
