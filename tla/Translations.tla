---------------------------- MODULE Translations ----------------------------
(***************************************************************************)
(* The languages of a survey, which a client changes by sending the list   *)
(* it would like (AssetSerializer.update(), asset_translation_utils.py and *)
(* FormpackXLSFormUtilsMixin), and those of a collection, which are kept   *)
(* in its summary (Asset.save(), update_languages()).                      *)
(*                                                                         *)
(* A row of the survey or of its choices has a value for every language in *)
(* each column that is translated; one such column stands for all of them. *)
(* `meaning` keeps which of the first languages the values of each one     *)
(* come from, `left` the collections that a survey was taken out of, and   *)
(* `asked` the request that was accepted last.                             *)
(***************************************************************************)
EXTENDS Integers, SequencesExt, FiniteSetsExt

CONSTANTS Surveys, Collections, Languages,
          FirstLists,           \* the languages a survey begins with
          Nothing,              \* no name, no collection, no column
          Unset,                \* no default_language in the settings
          MaxRequests           \* bound

VARIABLES content,     \* of a survey: [languages, rows], the names in order and
                       \* the values of every row
          default,     \* ... settings.default_language
          parent,      \* ... the collection that it is in
          exists,      \* the surveys that were created and not deleted
          summary,     \* of a collection: its languages
          meaning, left, asked, requests

translationVars == <<content, default, parent, exists, summary, meaning, left, asked, requests>>

Names == Languages \cup {Nothing}
Lists == {l \in SeqOf(Names, 3) : l # <<>>}

-----------------------------------------------------------------------------
(* compare_translations(): what a client wants, told from the lists alone. *)
Differ(t1, t2) == {i \in DOMAIN t1 : t1[i] # t2[i]}

Wanted(t1, t2) ==
  LET added   == Range(t2) \ Range(t1)
      removed == Range(t1) \ Range(t2)
  IN CASE t1 = t2 -> [change |-> "equal"]
       [] Len(t1) = Len(t2) /\ t1 # t2 /\ Range(t1) = Range(t2) -> [change |-> "out_of_order"]
       [] Len(t1) = Len(t2) /\ Range(t1) # Range(t2) /\ Cardinality(Differ(t1, t2)) = 1 ->
            LET i == CHOOSE i \in Differ(t1, t2) : TRUE IN [change |-> "renamed", from |-> t1[i], to |-> t2[i]]
       [] Len(t2) = Len(t1) + 1 /\ Cardinality(added) = 1 ->
            [change |-> "added", name |-> CHOOSE n \in added : TRUE]
       [] Len(t1) = Len(t2) + 1 /\ Cardinality(removed) = 1 ->
            [change |-> "deleted", name |-> CHOOSE n \in removed : TRUE]
       [] OTHER -> [change |-> "unsupported"]

(* A survey's content, or why there is none: the form of every operation.  *)
Content(ls, rs) == [ok |-> TRUE, languages |-> ls, rows |-> rs]
Failed == [ok |-> FALSE]

MoveFirst(s, i) == <<s[i]>> \o RemoveAt(s, i)

(* _prioritize_translation(): the values move with the name; a row without *)
(* the column is left alone.                                               *)
Prioritized(c, name) ==
  IF name \notin Range(c.languages)
  THEN IF c.languages = <<Nothing>> THEN c ELSE Failed
  ELSE LET i == CHOOSE i \in DOMAIN c.languages : c.languages[i] = name /\ \A j \in 1..i-1 : c.languages[j] # name
       IN Content(MoveFirst(c.languages, i),
                  [r \in DOMAIN c.rows |-> IF c.rows[r] = Nothing THEN Nothing ELSE MoveFirst(c.rows[r], i)])

(* ... and a new one begins with the values of the first, which every row  *)
(* must have.                                                              *)
Prepended(c, name) ==
  IF Nothing \in Range(c.rows) THEN Failed
  ELSE Content(<<name>> \o c.languages, [r \in DOMAIN c.rows |-> <<c.rows[r][1]>> \o c.rows[r]])

\* Mutant: the choices keep their values.
RemovedFromSurvey(c) ==
  IF Nothing \in Range(c.rows) THEN Failed
  ELSE Content(Front(c.languages), [r \in DOMAIN c.rows |-> IF r = 1 THEN Front(c.rows[r]) ELSE c.rows[r]])

RemovedLast(c) ==
  IF Nothing \in Range(c.rows) THEN Failed
  ELSE Content(Front(c.languages), [r \in DOMAIN c.rows |-> Front(c.rows[r])])

Reordered(c, list) ==
  FoldRight(LAMBDA name, acc : IF acc.ok THEN Prioritized(acc, name) ELSE acc, list, c)

Renamed(c, from, to) ==
  IF to \in Range(c.languages) THEN Failed
  ELSE Content([i \in DOMAIN c.languages |-> IF c.languages[i] = from THEN to ELSE c.languages[i]], c.rows)

(* update_translation_list().                                              *)
Updated(c, list) ==
  LET w == Wanted(c.languages, list)
  IN CASE Nothing \in Range(list) /\ list[1] # Nothing -> Failed
       [] w.change = "equal" -> c
       [] w.change = "out_of_order" -> Reordered(c, list)
       [] w.change = "renamed" -> Renamed(c, w.from, w.to)
       [] w.change = "added" -> IF Nothing \in Range(c.languages) THEN Failed ELSE Prepended(c, w.name)
       [] w.change = "deleted" -> IF w.name # Last(c.languages) THEN Failed ELSE RemovedLast(c)
       [] w.change = "unsupported" -> Failed

(* Asset.save(): the default language comes first, or nothing is saved.    *)
DefaultFirst(c, d) == IF c.ok /\ d # Unset THEN Prioritized(c, d) ELSE c

-----------------------------------------------------------------------------
NoRequest == [survey |-> Nothing, list |-> <<>>, resized |-> FALSE]

(* The values of the first content are named after their languages.        *)
TranslationsInit ==
  /\ content \in [Surveys -> {Content(l, <<l, l>>) : l \in FirstLists} \cup {Content(l, <<l, Nothing>>) : l \in FirstLists}]
  /\ default = [s \in Surveys |-> Unset]
  /\ parent = [s \in Surveys |-> Nothing] /\ exists = {}
  /\ summary = [c \in Collections |-> {}]
  /\ meaning = [s \in Surveys |-> [n \in Names |-> n]]
  /\ left = {} /\ asked = NoRequest /\ requests = 0

ChildrenOf(c, newParent, newExists) == {s \in newExists : newParent[s] = c}

(* update_languages(): a collection has the languages of its children.     *)
Gathered(c, newContent, newParent, newExists) ==
  UNION {Range(newContent[s].languages) : s \in ChildrenOf(c, newParent, newExists)} \ {Nothing}

Regathered(cs, newContent, newParent, newExists) ==
  [c \in Collections |-> IF c \in cs THEN Gathered(c, newContent, newParent, newExists) ELSE summary[c]]

(* AssetSerializer.update() with the list of translations.                 *)
Request(s, list) ==
  LET old == content[s]
      w   == Wanted(old.languages, list)
      new == DefaultFirst(Updated(old, list), default[s])
  IN /\ s \in exists /\ requests < MaxRequests /\ new.ok
     /\ content' = [content EXCEPT ![s] = new]
     /\ meaning' = CASE w.change = "renamed" -> [meaning EXCEPT ![s][w.to] = meaning[s][w.from]]
                     [] w.change = "added" -> [meaning EXCEPT ![s][w.name] = meaning[s][old.languages[1]]]
                     [] OTHER -> meaning
     /\ asked' = [survey |-> s, list |-> list, resized |-> Len(list) # Len(old.languages)]
     /\ summary' = Regathered({parent[s]}, content', parent, exists)
     /\ requests' = requests + 1
     /\ UNCHANGED <<default, parent, exists, left>>

(* The settings are edited.                                                *)
SetDefault(s, d) ==
  LET new == DefaultFirst(content[s], d)
  IN /\ s \in exists /\ requests < MaxRequests /\ d # default[s] /\ new.ok
     /\ content' = [content EXCEPT ![s] = new] /\ default' = [default EXCEPT ![s] = d]
     /\ asked' = NoRequest
     /\ summary' = Regathered({parent[s]}, content', parent, exists)
     /\ requests' = requests + 1
     /\ UNCHANGED <<meaning, parent, exists, left>>

(* A new survey adds its languages to those of its parent.                 *)
Create(s, c) ==
  /\ s \notin exists
  /\ exists' = exists \cup {s} /\ parent' = [parent EXCEPT ![s] = c]
  /\ summary' = IF c = Nothing THEN summary
                ELSE [summary EXCEPT ![c] = @ \cup (Range(content[s].languages) \ {Nothing})]
  /\ UNCHANGED <<content, default, meaning, left, asked, requests>>

(* A survey is moved: both collections are updated.                        *)
Move(s, c) ==
  /\ s \in exists /\ c # parent[s] /\ requests < MaxRequests
  /\ parent' = [parent EXCEPT ![s] = c]
  /\ summary' = Regathered({c, parent[s]}, content, parent', exists)
  /\ requests' = requests + 1
  /\ UNCHANGED <<content, default, exists, meaning, left, asked>>

(* ... or taken out of its collection, which is not: Asset.save() looks at *)
(* the previous parent only where there is a new one.                      *)
TakeOut(s) ==
  /\ s \in exists /\ parent[s] # Nothing /\ requests < MaxRequests
  /\ parent' = [parent EXCEPT ![s] = Nothing] /\ left' = left \cup {parent[s]}
  /\ requests' = requests + 1
  /\ UNCHANGED <<content, default, exists, summary, meaning, asked>>

(* post_delete_asset().                                                    *)
Delete(s) ==
  /\ s \in exists
  /\ exists' = exists \ {s}
  /\ summary' = Regathered({parent[s]}, content, parent, exists')
  /\ UNCHANGED <<content, default, parent, meaning, left, asked, requests>>

(* The command update_collection_languages.                                *)
UpdateAll ==
  /\ left # {} /\ left' = {}
  /\ summary' = Regathered(Collections, content, parent, exists)
  /\ UNCHANGED <<content, default, parent, exists, meaning, asked, requests>>

TranslationsNext ==
  \/ \E s \in Surveys, l \in Lists : Request(s, l)
  \/ \E s \in Surveys, d \in Names \cup {Unset} : SetDefault(s, d)
  \/ \E s \in Surveys, c \in Collections : Create(s, c) \/ Move(s, c)
  \/ \E s \in Surveys : Create(s, Nothing) \/ TakeOut(s) \/ Delete(s)
  \/ UpdateAll

TranslationsSpec == TranslationsInit /\ [][TranslationsNext]_translationVars

-----------------------------------------------------------------------------
(* Whatever is added, removed, renamed and reordered, the values of every  *)
(* row go on being those of their language, and the default comes first.   *)
ValuesFollowTheirLanguage ==
  \A s \in Surveys :
    LET ls == content[s].languages
    IN /\ \A r \in DOMAIN content[s].rows :
            content[s].rows[r] # Nothing => content[s].rows[r] = [i \in DOMAIN ls |-> meaning[s][ls[i]]]
       /\ default[s] \notin {Unset, ls[1]} => ls = <<Nothing>>

(* What was accepted is what was asked for: the same languages, and in the *)
(* same order where none is added, removed or the default.                 *)
AcceptedIsDone ==
  asked.survey # Nothing /\ IsInjective(asked.list) =>
    LET ls == content[asked.survey].languages
    IN /\ Range(ls) = Range(asked.list)
       /\ ~asked.resized /\ default[asked.survey] = Unset => ls = asked.list

(* A collection shows the languages of the surveys that are in it, unless  *)
(* one was taken out of it: Asset.save() says 'we want both collections to *)
(* be updated' only of one that is moved to another.                       *)
CollectionsHaveTheirLanguages ==
  \A c \in Collections \ left : summary[c] = Gathered(c, content, parent, exists)
=============================================================================
