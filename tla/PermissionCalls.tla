--------------------------- MODULE PermissionCalls ---------------------------
(***************************************************************************)
(* assign_perm() and remove_perm() call by call: AssetPermissions with a   *)
(* request's call in the place of its effect.                              *)
(*                                                                         *)
(* Both methods call themselves for every permission implied by the one    *)
(* they are given, in the order in which Python iterates over a set, and   *)
(* remove_perm() calls assign_perm() to deny what it found inherited.  The *)
(* stack holds the calls in progress; `rows` is what the transaction sees, *)
(* `perms` what is committed.  That the calls implement the one-step       *)
(* actions of AssetPermissions, whatever the order, is AtomicCalls.        *)
(***************************************************************************)
EXTENDS AssetPermissions, Sequences

VARIABLES call,    \* the request being served
          rows,    \* the rows of its asset inside the transaction
          stack    \* the calls in progress, the innermost first

callVars == <<call, rows, stack>>

NoCall == [active |-> FALSE]

Frame ==
  [op : {"assign", "deny", "remove", "removed"}, perm : Codenames,
   todo : SUBSET Codenames, top : BOOLEAN]

CallsTypeOK ==
  /\ TypeOK
  /\ call.active => rows \in AssetState
  /\ \A i \in DOMAIN stack : stack[i] \in Frame
  /\ stack # <<>> => call.active

CallsInit == Init /\ call = NoCall /\ rows = NoCall /\ stack = <<>>

Call(op, q, todo, top) == [op |-> op, perm |-> q, todo |-> todo, top |-> top]

-----------------------------------------------------------------------------
(* What assign_perm(q) and assign_perm(q, deny=True) do themselves.        *)
CreateGrant(s, u, q) ==
  LET contradictory == Of(u, CONTRADICTORY_PERMISSIONS[q])
  IN [s EXCEPT !.granted   = (@ \ contradictory) \cup {<<u, q>>},
               !.denied    = @ \ (contradictory \cup {<<u, q>>}),
               !.inherited = @ \ contradictory,
               !.kc        = IF s.deployed /\ q \in KC(u) THEN @ \cup {<<u, q>>} ELSE @]

CreateDenial(s, u, q) ==
  [s EXCEPT !.granted = @ \ {<<u, q>>},
            !.denied  = @ \cup {<<u, q>>},
            !.kc      = IF <<u, q>> \in s.granted THEN @ \ {<<u, q>>} ELSE @]

(* What is left of remove_perm(q) after its recursive calls, once a denial *)
(* of what was inherited is in place.                                      *)
Unassign(s, u, q) ==
  [s EXCEPT !.granted = @ \ {<<u, q>>}, !.inherited = @ \ {<<u, q>>}]

ForgetNothing(s, u, q) == s

ForgetInKobocat(s, u, q) ==
  [s EXCEPT !.kc = IF q \in KC(u) THEN @ \ {<<u, q>>} ELSE @]

-----------------------------------------------------------------------------
(* A call is entered: the code before its loop.  A permission that is      *)
(* there already only has the partial permissions looked after.            *)
AssignEnter(s, q, deny, top, rest) ==
  LET a == call.asset  u == call.user
      implied == (IF deny THEN ReverseImplied(q) ELSE Implied(q)) \cap Assignable(a)
      kind    == IF deny THEN "deny" ELSE "assign"
  IN IF Identical(s, u, q, deny)
     THEN /\ q # "partial_submissions" \/ (top /\ ~deny)
          /\ rows' = UpdatePartial(s, a, u, q, IF top THEN call.partial ELSE {})
          /\ stack' = rest
     ELSE /\ rows' = IF deny THEN CreateDenial(s, u, q) ELSE CreateGrant(s, u, q)
          /\ stack' = <<Call(kind, q, implied, top)>> \o rest

RemoveEnter(q, top, rest) ==
  /\ rows' = rows
  /\ stack' = <<Call("remove", q, ReverseImplied(q) \cap Assignable(call.asset), top)>> \o rest

(* A denial of partial_submissions that is there already raises            *)
(* BadPermissionsException, for want of partial permissions.  KPI's rows   *)
(* are rolled back, KoBoCAT's are not.                                     *)
Raises(q, deny, top) ==
  /\ q = "partial_submissions"
  /\ Identical(rows, call.user, q, deny)
  /\ deny \/ ~top

Rollback(s) ==
  /\ perms' = [perms EXCEPT ![call.asset].kc = s.kc]
  /\ call' = NoCall /\ rows' = NoCall /\ stack' = <<>>

(* A request: the top-level call.                                          *)
Begin(op, a, u, q, pp) ==
  /\ ~call.active /\ ~tx.active
  /\ u # Owner[a]
  /\ IF op = "assign"
     THEN /\ (q = "partial_submissions") = (pp # {})
          /\ ~AssignFails(perms[a], a, u, q, FALSE, pp)
     ELSE <<u, q>> \in Listed(perms[a]) /\ pp = {}
  /\ call' = [active |-> TRUE, entered |-> FALSE, op |-> op, asset |-> a, user |-> u,
              perm |-> q, partial |-> pp]
  /\ rows' = perms[a]
  /\ stack' = <<>>
  /\ UNCHANGED vars

Enter ==
  /\ call.active /\ ~call.entered
  /\ call' = [call EXCEPT !.entered = TRUE]
  /\ IF call.op = "assign" THEN AssignEnter(rows, call.perm, FALSE, TRUE, <<>>)
                           ELSE RemoveEnter(call.perm, TRUE, <<>>)
  /\ UNCHANGED vars

(* The innermost call goes on to one of the implied permissions ...        *)
Recurse(q) ==
  /\ stack # <<>>
  /\ q \in stack[1].todo
  /\ LET frame == stack[1]
         rest  == <<[frame EXCEPT !.todo = @ \ {q}]>> \o Tail(stack)
     IN CASE frame.op = "remove" -> RemoveEnter(q, FALSE, rest) /\ UNCHANGED <<vars, call>>
          [] Raises(q, frame.op = "deny", FALSE) -> Rollback(rows) /\ UNCHANGED <<parent, tx>>
          [] OTHER -> /\ AssignEnter(rows, q, frame.op = "deny", FALSE, rest)
                      /\ UNCHANGED <<vars, call>>

(* ... or, after the last of them, does the rest of its work.  What        *)
(* remove_perm() finds inherited it denies first.                          *)
DenyFirst ==
  /\ stack # <<>> /\ stack[1].todo = {} /\ stack[1].op = "remove"
  /\ <<call.user, stack[1].perm>> \in rows.inherited
  /\ LET q    == stack[1].perm
         rest == <<[stack[1] EXCEPT !.op = "removed"]>> \o Tail(stack)
     IN IF Raises(q, TRUE, FALSE) THEN Rollback(rows) /\ UNCHANGED <<parent, tx>>
        ELSE /\ AssignEnter(Unassign(rows, call.user, q), q, TRUE, FALSE, rest)
             /\ UNCHANGED <<vars, call>>

Return ==
  /\ stack # <<>> /\ stack[1].todo = {}
  /\ stack[1].op = "remove" => <<call.user, stack[1].perm>> \notin rows.inherited
  /\ LET frame   == stack[1]  a == call.asset  u == call.user
         removes == frame.op \in {"remove", "removed"}
         done    == IF removes THEN ForgetInKobocat(Unassign(rows, u, frame.perm), u, frame.perm)
                               ELSE rows
     IN rows' = IF ~frame.top THEN done
                ELSE IF removes THEN CleanPartial(done, u, frame.perm)
                ELSE UpdatePartial(done, a, u, frame.perm, call.partial)
  /\ stack' = Tail(stack)
  /\ UNCHANGED <<vars, call>>

(* The request is answered: the transaction commits, after the descendants *)
(* are recalculated.                                                       *)
Commit ==
  /\ call.active /\ call.entered /\ stack = <<>>
  /\ LET changed == [perms EXCEPT ![call.asset] = rows]
     IN perms' = IF call.op = "assign" /\ Identical(perms[call.asset], call.user, call.perm, FALSE)
                 THEN changed ELSE DescendantsRecalculated(changed, parent, call.asset)
  /\ call' = NoCall /\ rows' = NoCall /\ stack' = <<>>
  /\ UNCHANGED <<parent, tx>>

CallsNext ==
  \/ \E op \in {"assign", "remove"}, a \in Assets, u \in Users, q \in Codenames,
        pp \in PartialChoices \cup {{}} : Begin(op, a, u, q, pp)
  \/ Enter
  \/ \E q \in Codenames : Recurse(q)
  \/ DenyFirst
  \/ Return
  \/ Commit
  \/ /\ ~call.active
     /\ \/ \E a \in Assets, par \in Assets \cup {NoParent} : Save(a, par)
        \/ \E a \in Assets : Deploy(a)
     /\ UNCHANGED callVars

CallsSpec == CallsInit /\ [][CallsNext]_<<vars, callVars>>

-----------------------------------------------------------------------------
(* Every request, in whatever order its recursive calls come, does to the  *)
(* committed rows what AssignPerm or RemovePerm does in one step: nothing  *)
(* of the order in which a set is iterated can be seen afterwards, and an  *)
(* exception leaves what RemovePerm says it leaves.                        *)
Atomic == INSTANCE AssetPermissions
AtomicCalls == Atomic!Spec
=============================================================================
