----------------------------- MODULE Publication -----------------------------
(***************************************************************************)
(* What publishing a form promises, whatever happens on the way: KoBoCAT   *)
(* collects data with a draft that KPI had at that moment, KPI believes of *)
(* the form only what KoBoCAT has confirmed, and a project whose form KPI  *)
(* knows of is not removed before its form.  Deployments.tla is shown to   *)
(* implement it as long as requests follow one another.                    *)
(***************************************************************************)
CONSTANTS Contents,   \* contents of a form
          Nothing     \* no draft, no form, nothing known

VARIABLES draft,      \* the content that KPI has
          form,       \* what KoBoCAT collects data with
          known       \* whether KPI believes the form to be active

publicationVars == <<draft, form, known>>

Form == [content : Contents, active : BOOLEAN]

PublicationInit ==
  /\ draft \in Contents
  /\ \/ form = Nothing /\ known = Nothing
     \/ form \in Form /\ form.content = draft /\ known = form.active

Edit ==
  /\ draft # Nothing
  /\ draft' \in Contents
  /\ UNCHANGED <<form, known>>

Publish ==
  /\ draft # Nothing
  /\ \E a \in BOOLEAN : form' = [content |-> draft, active |-> a]
  /\ UNCHANGED <<draft, known>>

Activate ==
  /\ form # Nothing
  /\ \E a \in BOOLEAN : form' = [form EXCEPT !.active = a]
  /\ UNCHANGED <<draft, known>>

Notice ==
  /\ form # Nothing
  /\ known' = form.active
  /\ UNCHANGED <<draft, form>>

Withdraw ==
  /\ form' = Nothing
  /\ UNCHANGED <<draft, known>>

Remove ==
  /\ known = Nothing \/ form = Nothing
  /\ draft' = Nothing /\ known' = Nothing
  /\ UNCHANGED form

PublicationNext == Edit \/ Publish \/ Activate \/ Notice \/ Withdraw \/ Remove

PublicationSpec == PublicationInit /\ [][PublicationNext]_publicationVars
=============================================================================
