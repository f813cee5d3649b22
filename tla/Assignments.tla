----------------------------- MODULE Assignments -----------------------------
(***************************************************************************)
(* Assignments of permissions as they are posted, one at a time or all at  *)
(* once, and shown again (serializers/v2/asset_permission_assignment.py):  *)
(* which users the addresses name, and which lists of filters come with a  *)
(* partial assignment when it is shown and posted over and over again.     *)
(*                                                                         *)
(* A list of filters is a sequence of entries, [nested |-> FALSE, list |-> *)
(* <<f>>] for a filter and TRUE for a list that was joined to others.      *)
(* Merging works on objects that lists share, as in PartialFilters, where  *)
(* every order is tried; here the orders are those of JSON and of jsonb.   *)
(* Lists without a filter are left out.                                    *)
(***************************************************************************)
EXTENDS Integers, SequencesExt, FiniteSetsExt, Functions

CONSTANTS Urls,         \* addresses of users: functions to their names, or to Nothing
          Nothing,
          Names,        \* in the order of their characters, which Python sorts by
          Collations,   \* the orders that the database may have them in
          FilterChoices, \* the lists of filters that a client may post
          MaxPosts      \* bound on posts of what was shown

VARIABLES known,        \* the users there are
          collation,    \* the database's order
          posted,       \* what is posted: users, or a partial assignment of one
          verdict,      \* what the validation made of it
          kept,         \* the lists in the database
          before,       \* and before the last post
          posts

assignmentVars == <<known, collation, posted, verdict, kept, before, posts>>

SubmissionPerms == {"change_submissions", "delete_submissions", "validate_submissions", "view_submissions"}
Alphabetic == <<"add_submissions", "change_submissions", "delete_submissions", "validate_submissions", "view_submissions">>
Jsonb      == <<"add_submissions", "view_submissions", "change_submissions", "delete_submissions", "validate_submissions">>

ImpliedOf(p) ==
  IF p = "change_submissions" THEN <<"add_submissions", "view_submissions">>
  ELSE IF p \in {"delete_submissions", "validate_submissions"} THEN <<"view_submissions">> ELSE <<>>

InOrder(D, order) == SelectSeq(order, LAMBDA p : p \in D)

-----------------------------------------------------------------------------
(* validate() of the bulk serializer: the addresses, sorted by the names   *)
(* they have, are paired with the users that the database finds and sorts. *)
(* A name that cannot be read cannot be sorted with others.  (A mutant     *)
(* takes the addresses as they come.)                                      *)
Rank(order, name) == CHOOSE i \in DOMAIN order : order[i] = name

ByNameAsPosted(urls) == urls
ByName(urls) == SortSeq(urls, LAMBDA u, v : Rank(Names, Urls[u]) < Rank(Names, Urls[v]))

UsersAt(urls) ==
  LET names == {Urls[u] : u \in ToSet(urls)}
      found == InOrder(names \cap known, collation)
      pairs == [i \in 1..Min({Len(urls), Len(found)}) |-> <<ByName(urls)[i], found[i]>>]
  IN IF Nothing \in names THEN (IF Len(urls) > 1 THEN [is |-> "error"] ELSE [is |-> "invalid"])
     ELSE IF Len(found) # Len(urls) THEN [is |-> "invalid"]
     ELSE [is |-> "users", of |-> [u \in ToSet(urls) |-> (CHOOSE x \in ToSet(pairs) : x[1] = u)[2]]]

-----------------------------------------------------------------------------
(* The lists of a partial assignment, [perm, filters] each.  One at a      *)
(* time, those of a permission that comes twice are joined, and filters    *)
(* have to be objects; all at once, the last is taken.                     *)
Perms(partial) == {partial[i].perm : i \in DOMAIN partial}
Listed(partial, p) == SelectSeq(partial, LAMBDA x : x.perm = p)

Single(partial) ==
  IF \E i \in DOMAIN partial : partial[i].perm \notin ToSet(Alphabetic) \/ \E e \in ToSet(partial[i].filters) : e.nested
  THEN [is |-> "invalid"]
  ELSE [is |-> "partial", lists |-> [p \in Perms(partial) |->
          FlattenSeq([i \in DOMAIN Listed(partial, p) |-> Listed(partial, p)[i].filters])]]

Bulk(partial) ==
  IF \E i \in DOMAIN partial : partial[i].perm \notin ToSet(Alphabetic) THEN [is |-> "invalid"]
  ELSE [is |-> "partial", lists |-> [p \in Perms(partial) |-> Last(Listed(partial, p)).filters]]

(* The dictionary that results is in the order of the first mentions.      *)
FirstMentions(partial) ==
  [k \in 1..Cardinality(Perms(partial)) |->
     CHOOSE p \in Perms(partial) :
       Cardinality({q \in Perms(partial) :
         Min({i \in DOMAIN partial : partial[i].perm = q}) <= Min({i \in DOMAIN partial : partial[i].perm = p})}) = k]

(* update_partial_perms_to_include_implied(): `is` tells whose list it is  *)
(* that a permission has, or that it has a list of its own.                *)
Plain(f) == [nested |-> FALSE, list |-> <<f>>]
Nest(l)  == [nested |-> TRUE, list |-> FlattenSeq([i \in DOMAIN l |-> l[i].list])]

MergedWith(e, f) == Plain([merges |-> TRUE, by |-> e.list[1].by \cup f.list[1].by])

Merges(l, m) == Len(l) = 1 /\ Len(m) = 1 /\ \A e \in {l[1], m[1]} : ~e.nested /\ e.list[1].merges

ListOf(acc, q) == IF acc.of[q].is = "own" THEN acc.of[q].list ELSE acc.heap[acc.of[q].is]

Put(f, k, v) == [x \in DOMAIN f \cup {k} |-> IF x = k THEN v ELSE f[x]]
Alias(p)     == [is |-> p, list |-> <<>>]

Joined(filters, list) ==
  IF list[1].nested THEN Append(list, Nest(filters)) ELSE <<Nest(filters), Nest(list)>>

PassOn(acc, p, q) ==
  LET there == IF q \notin DOMAIN acc.of /\ q \in DOMAIN acc.heap
               THEN [acc EXCEPT !.of = Put(@, q, Alias(q))] ELSE acc
      mine  == acc.heap[p]
  IN IF q \notin DOMAIN there.of THEN [there EXCEPT !.of = Put(@, q, Alias(p))]
     ELSE LET list == ListOf(there, q)
          IN IF Merges(mine, list)
             THEN [there EXCEPT !.heap[there.of[q].is] = <<MergedWith(list[1], mine[1])>>]
             ELSE [there EXCEPT !.of = Put(@, q, [is |-> "own", list |-> Joined(mine, list)])]

Expanded(lists, order) ==
  LET step(acc, p) ==
        LET start == IF p \in DOMAIN acc.of THEN acc ELSE [acc EXCEPT !.of = Put(@, p, Alias(p))]
        IN FoldLeft(LAMBDA a, q : PassOn(a, p, q), start, ImpliedOf(p))
      end == FoldLeft(step, [heap |-> lists, of |-> <<>>], order)
  IN [q \in DOMAIN end.of |-> ListOf(end, q)]

(* assign_perm() expands them; all at once, they were, to compare them     *)
(* with what is there, and come sorted from JSON.                          *)
AssignedOneByOne(lists, order) == Expanded(lists, order)

Compared(lists, order) == Expanded(lists, order)

AssignedAtOnce(lists, order) ==
  LET once == Compared(lists, order)
  IN IF kept = once THEN kept ELSE Expanded(once, InOrder(DOMAIN once, Alphabetic))

-----------------------------------------------------------------------------
NoVerdict == [is |-> "none"]

AssignmentsInit ==
  /\ known \in SUBSET ToSet(Names) /\ collation \in Collations
  /\ posted = NoVerdict /\ verdict = NoVerdict
  /\ kept = <<>> /\ before = <<>> /\ posts = 0

PostUsers(urls) ==
  /\ posted.is = "none"
  /\ posted' = [is |-> "users", urls |-> urls] /\ verdict' = UsersAt(urls)
  /\ UNCHANGED <<known, collation, kept, before, posts>>

\* The users there are do not matter for these.
Post(partial, how) ==
  /\ known = {} /\ collation = Names
  /\ verdict.is \in {"none", "kept"}
  /\ posted' = [is |-> how, partial |-> partial]
  /\ verdict' = IF how = "single" THEN Single(partial) ELSE Bulk(partial)
  /\ UNCHANGED <<known, collation, kept, before, posts>>

PostPartial ==
  \E n \in 1..3 : \E perms \in [1..n -> SubmissionPerms], filters \in [1..n -> FilterChoices], how \in {"single", "bulk"} :
    posted.is = "none" /\ Post([i \in 1..n |-> [perm |-> perms[i], filters |-> filters[i]]], how)

Keep ==
  /\ verdict.is = "partial"
  /\ LET order == FirstMentions(posted.partial)
     IN kept' = IF posted.is = "single" THEN AssignedOneByOne(verdict.lists, order)
                ELSE AssignedAtOnce(verdict.lists, order)
  /\ before' = kept /\ verdict' = [is |-> "kept"] /\ posts' = posts + 1
  /\ UNCHANGED <<known, collation, posted>>

(* to_representation(), get_partial_permissions(): in the order of jsonb.  *)
Shown ==
  LET order == InOrder(DOMAIN kept, Jsonb)
  IN [i \in DOMAIN order |-> [perm |-> order[i], filters |-> kept[order[i]]]]

PostShown(how) ==
  /\ verdict.is = "kept" /\ posts < MaxPosts
  /\ Post(Shown, how)

AssignmentsNext ==
  \/ \E n \in 1..3 : \E urls \in [1..n -> DOMAIN Urls] : IsInjective(urls) /\ PostUsers(urls)
  \/ PostPartial \/ Keep
  \/ \E how \in {"single", "bulk"} : PostShown(how)

AssignmentsSpec == AssignmentsInit /\ [][AssignmentsNext]_assignmentVars

-----------------------------------------------------------------------------
Matched(lists, p) == UNION {UNION {f.by : f \in ToSet(e.list)} : e \in ToSet(lists[p])}

(* Users are those that their addresses name, if the database has their    *)
(* names in the order of their characters.                                 *)
UsersAreThoseNamed ==
  verdict.is = "users" /\ collation = Names =>
    \A u \in ToSet(posted.urls) : verdict.of[u] = Urls[u]

(* What is shown and posted again, all at once, covers what it covered.    *)
PostedAgainMeansTheSame ==
  verdict.is = "kept" /\ posts > 1 =>
    DOMAIN kept = DOMAIN before /\ \A p \in DOMAIN kept : Matched(kept, p) = Matched(before, p)

(* What the front end posts, one filter of users for each permission, is   *)
(* no change when it is posted again.                                      *)
FrontEndChangesNothing ==
  verdict.is = "kept" /\ posts > 1 /\ (\A p \in DOMAIN before : Len(before[p]) = 1 /\ before[p][1].list[1].merges) =>
    kept = before

(* A partial assignment that is accepted one at a time and all at once     *)
(* covers the same either way, if no permission comes twice.               *)
HowIsNoMatter ==
  posts = 0 /\ posted.is \in {"single", "bulk"} /\ IsInjective([i \in DOMAIN posted.partial |-> posted.partial[i].perm])
    /\ Single(posted.partial).is = "partial" =>
    LET order  == FirstMentions(posted.partial)
        single == Expanded(Single(posted.partial).lists, order)
        once   == Expanded(Bulk(posted.partial).lists, order)
        bulk   == Expanded(once, InOrder(DOMAIN once, Alphabetic))
    IN \A p \in DOMAIN single : Matched(single, p) = Matched(bulk, p)

AssignmentsAreRight == UsersAreThoseNamed /\ PostedAgainMeansTheSame /\ FrontEndChangesNothing /\ HowIsNoMatter

(* What TLC refutes (no run of the project does): users are always those   *)
(* named; lists do not grow.                                               *)
UsersAreAlwaysThoseNamed == verdict.is = "users" => \A u \in ToSet(posted.urls) : verdict.of[u] = Urls[u]
ListsStay == verdict.is = "kept" /\ posts > 1 => kept = before
=============================================================================
