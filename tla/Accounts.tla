------------------------------ MODULE Accounts ------------------------------
(***************************************************************************)
(* A user in KPI and in KoBoCAT: registration, changes of the account, its *)
(* token, two-factor authentication and profile (kpi/signals.py,           *)
(* kc_access/shadow_models.py and utils.py, kobo/apps/mfa/models.py,       *)
(* serializers/current_user.py) and two commands.                          *)
(*                                                                         *)
(* KoBoCAT's database is another one: what is written there stays, one     *)
(* query at a time, whatever becomes of the request.  A registration is    *)
(* one transaction of KPI's.  There is one username; `data` is everything  *)
(* in the account, its password and digests included.  LDAP, sessions,     *)
(* e-mails and the other fields of profiles are left out.                  *)
(***************************************************************************)
EXTENDS Naturals, FiniteSets

CONSTANTS Workers, Nothing,
          MaxRequests    \* bound on requests

VARIABLES user,      \* KPI's row
          kc,        \* KoBoCAT's
          profile,   \* KoBoCAT's profile
          method,    \* of two-factor authentication, KPI's: "none", "off", "on"
          details,   \* ExtraUserDetail
          token,     \* the keys in KPI and in KoBoCAT
          used,      \* how many requests there were, and how many tokens
          req,       \* what each worker does
          past       \* history: what was cut short, requests that overlapped, blanks

accountVars == <<user, kc, profile, method, details, token, used, req, past>>

Idle    == [pc |-> "idle"]
At(w, pc) == req[w].pc = pc
Busy(w) == req[w].pc \notin {"idle", "done", "failed"}

NoProfile  == [auth |-> FALSE, mfa |-> FALSE, city |-> "old"]
NewAccount == [digests |-> {}, counters |-> 0, granted |-> FALSE]

AccountsInit ==
  /\ user = Nothing /\ kc = Nothing /\ profile = Nothing
  /\ method = "none" /\ details = Nothing
  /\ token = [kpi |-> Nothing, kc |-> Nothing]
  /\ used = [requests |-> 0, tokens |-> 0]
  /\ req = [w \in Workers |-> Idle]
  /\ past = [cut |-> {}, overlapped |-> FALSE, blanked |-> FALSE]

Extend(r, more) == [k \in DOMAIN r \cup DOMAIN more |-> IF k \in DOMAIN more THEN more[k] ELSE r[k]]

(* Requests; `alone` as long as no other runs.                             *)
Begin(w, r) ==
  /\ ~Busy(w) /\ used.requests < MaxRequests
  /\ used' = [used EXCEPT !.requests = @ + 1]
  /\ LET others == {v \in Workers : v # w /\ Busy(v)}
     IN /\ req' = [v \in Workers |->
                     IF v = w THEN Extend(r, [alone |-> others = {}])
                     ELSE IF v \in others THEN [req[v] EXCEPT !.alone = FALSE] ELSE Idle]
        /\ past' = [past EXCEPT !.overlapped = @ \/ others # {}]

Goes(w, pc)    == req' = [req EXCEPT ![w].pc = pc]
Gives(w, r)    == req' = [req EXCEPT ![w] = Extend(req[w], r)]

-----------------------------------------------------------------------------
\* The number of the request makes what it writes unlike what was there.
Version == used.requests + 1

(* Registration, and changes: save(), with the signals after it.           *)
Register(w) ==
  /\ user = Nothing
  /\ \A v \in Workers : Busy(v) => req[v].kind # "register"
  /\ Begin(w, [pc |-> "sync", kind |-> "register", row |-> [pk |-> Version, data |-> Version, may |-> TRUE]])
  /\ UNCHANGED <<user, kc, profile, method, details, token>>

Change(w) ==
  /\ user # Nothing
  /\ user' = [user EXCEPT !.data = Version]
  /\ Begin(w, [pc |-> "sync", kind |-> "change", row |-> user'])
  /\ UNCHANGED <<kc, profile, method, details, token>>

(* KobocatUser.sync(): an account of the same name with another key makes  *)
(* it fail, and the registration is rolled back.                           *)
SyncUser(w) ==
  /\ At(w, "sync")
  /\ IF kc # Nothing /\ kc.pk # req[w].row.pk THEN Goes(w, "failed") /\ kc' = kc
     ELSE /\ kc' = IF kc = Nothing THEN Extend(req[w].row, NewAccount) ELSE [kc EXCEPT !.data = req[w].row.data]
          /\ Goes(w, "undigest")
  /\ UNCHANGED <<user, profile, method, details, token, used, past>>

(* KobocatDigestPartial.sync(); the digests are read when they are         *)
(* written.  (A mutant adds to those that are there.)                      *)
UndigestNothing(w) ==
  At(w, "undigest") /\ Goes(w, "digest") /\ UNCHANGED <<user, kc, profile, method, details, token, used, past>>

Undigest(w) ==
  /\ At(w, "undigest") /\ kc' = [kc EXCEPT !.digests = {}] /\ Goes(w, "digest")
  /\ UNCHANGED <<user, profile, method, details, token, used, past>>

Digest(w) ==
  LET row == IF req[w].kind = "register" THEN req[w].row ELSE user
  IN /\ At(w, "digest") /\ kc' = [kc EXCEPT !.digests = @ \cup {row.data}] /\ Goes(w, "look")
     /\ UNCHANGED <<user, profile, method, details, token, used, past>>

(* KobocatSubmissionCounter.sync(): "Todo: Handle race conditions".        *)
After(w) == IF req[w].kind = "register" THEN "lack" ELSE "done"

LookForCounter(w) ==
  /\ At(w, "look") /\ Goes(w, IF kc.counters > 0 THEN After(w) ELSE "count")
  /\ UNCHANGED <<user, kc, profile, method, details, token, used, past>>

\* A user has a counter for each month: these are those of one.
AddCounter(w) ==
  /\ At(w, "count") /\ kc' = [kc EXCEPT !.counters = @ + 1] /\ Goes(w, After(w))
  /\ UNCHANGED <<user, profile, method, details, token, used, past>>

(* grant_kc_model_level_perms(): those that are not there, all at once;    *)
(* one that has come to be there makes it fail.                            *)
ReadGrants(w) ==
  /\ At(w, "lack") /\ Gives(w, [pc |-> "grant", lacks |-> ~kc.granted])
  /\ UNCHANGED <<user, kc, profile, method, details, token, used, past>>

GrantMissing(w) ==
  /\ At(w, "grant")
  /\ IF req[w].lacks /\ kc.granted THEN Goes(w, "failed") /\ UNCHANGED <<user, kc>>
     ELSE /\ kc' = [kc EXCEPT !.granted = TRUE] /\ Goes(w, "done")
          /\ user' = IF req[w].kind = "register" THEN req[w].row ELSE user
  /\ UNCHANGED <<profile, method, details, token, used, past>>

(* The grant_default_permissions command.                                  *)
GrantDefaults(w) ==
  /\ user # Nothing
  /\ user' = [user EXCEPT !.may = TRUE]
  /\ Begin(w, [pc |-> "lack", kind |-> "grant"])
  /\ UNCHANGED <<kc, profile, method, details, token>>

-----------------------------------------------------------------------------
(* TokenView.delete(): KPI's row is gone when its transaction ends, after  *)
(* the signal.                                                             *)
DeleteToken(w) ==
  /\ user # Nothing /\ token.kpi # Nothing
  /\ Begin(w, [pc |-> "revoke", kind |-> "token", old |-> token.kpi])
  /\ UNCHANGED <<user, kc, profile, method, details, token>>

RevokeToken(w) ==
  /\ At(w, "revoke") /\ Goes(w, "forget")
  /\ token' = IF token.kc = req[w].old THEN [token EXCEPT !.kc = Nothing] ELSE token
  /\ UNCHANGED <<user, kc, profile, method, details, used, past>>

ForgetToken(w) ==
  /\ At(w, "forget") /\ Goes(w, "done")
  /\ token' = IF token.kpi = req[w].old THEN [token EXCEPT !.kpi = Nothing] ELSE token
  /\ UNCHANGED <<user, kc, profile, method, details, used, past>>

(* TokenView.post(): get_or_create().                                      *)
AskForToken(w) ==
  /\ user # Nothing
  /\ Begin(w, [pc |-> "make", kind |-> "token", old |-> Nothing])
  /\ UNCHANGED <<user, kc, profile, method, details, token>>

MakeToken(w) ==
  /\ At(w, "make")
  /\ IF token.kpi # Nothing THEN Goes(w, "done") /\ UNCHANGED <<token, used>>
     ELSE /\ token' = [token EXCEPT !.kpi = used.tokens + 1]
          /\ used' = [used EXCEPT !.tokens = @ + 1]
          /\ Gives(w, [pc |-> "tell", new |-> used.tokens + 1])
  /\ UNCHANGED <<user, kc, profile, method, details, past>>

(* KobocatToken.sync(): a token that is there is saved as it is.           *)
TellToken(w) ==
  /\ At(w, "tell")
  /\ token' = IF token.kc = Nothing THEN [token EXCEPT !.kc = req[w].new] ELSE token
  /\ Goes(w, "done")
  /\ UNCHANGED <<user, kc, profile, method, details, used, past>>

-----------------------------------------------------------------------------
(* Two-factor authentication: a method is made, then switched on and off,  *)
(* or deleted; KoBoCAT is not told of one that was made.                   *)
MakeMethod(w) ==
  /\ user # Nothing /\ kc # Nothing /\ method = "none"
  /\ method' = "off" /\ Begin(w, [pc |-> "done", kind |-> "make"])
  /\ UNCHANGED <<user, kc, profile, details, token>>

SwitchMethod(w, to) ==
  /\ method # "none" /\ to # method
  /\ method' = to /\ Begin(w, [pc |-> "mfa", kind |-> "mfa", on |-> to = "on"])
  /\ UNCHANGED <<user, kc, profile, details, token>>

(* set_mfa_status(): get_or_create(), and the one field.                   *)
ProfileForMfa(w) ==
  /\ At(w, "mfa")
  /\ profile' = IF profile = Nothing THEN NoProfile ELSE profile
  /\ Goes(w, "flag")
  /\ UNCHANGED <<user, kc, method, details, token, used, past>>

FlagMfa(w) ==
  /\ At(w, "flag")
  /\ profile' = [profile EXCEPT !.mfa = req[w].on] /\ Goes(w, "done")
  /\ UNCHANGED <<user, kc, method, details, token, used, past>>

-----------------------------------------------------------------------------
(* CurrentUserSerializer.update(): the details are read, KoBoCAT makes a   *)
(* profile if it is asked for one, and all of either is written back.      *)
NoDetails == [auth |-> FALSE, city |-> Nothing, copied |-> FALSE]

ReadDetails == IF details = Nothing THEN NoDetails ELSE details

Update(w, auth, city) ==
  /\ user # Nothing
  /\ details' = ReadDetails
  /\ Begin(w, [pc |-> "trigger", kind |-> "update", auth |-> auth, city |-> city, read |-> ReadDetails])
  /\ UNCHANGED <<user, kc, profile, method, token>>

(* _trigger_kc_profile_creation().                                         *)
Trigger(w) ==
  /\ At(w, "trigger")
  /\ profile' = IF profile = Nothing THEN NoProfile ELSE profile
  /\ Goes(w, IF req[w].kind = "copy" THEN "copy" ELSE "read")
  /\ UNCHANGED <<user, kc, method, details, token, used, past>>

ReadProfile(w) ==
  /\ At(w, "read") /\ Gives(w, [pc |-> "write", found |-> profile])
  /\ UNCHANGED <<user, kc, profile, method, details, token, used, past>>

RequireAuth(w) ==
  /\ At(w, "write")
  /\ profile' = IF req[w].found.auth # req[w].auth THEN [req[w].found EXCEPT !.auth = req[w].auth] ELSE profile
  /\ Goes(w, "details")
  /\ UNCHANGED <<user, kc, method, details, token, used, past>>

WriteDetails(w) ==
  /\ At(w, "details")
  /\ details' = [req[w].read EXCEPT !.auth = req[w].auth, !.city = req[w].city]
  /\ past' = [past EXCEPT !.blanked = details'.copied /\ req[w].city = Nothing]
  /\ Goes(w, "done")
  /\ UNCHANGED <<user, kc, profile, method, token, used>>

(* The copy_kc_profile command, without --again: what is not there is      *)
(* copied, once.                                                           *)
Copy(w) ==
  /\ user # Nothing /\ ~ReadDetails.copied
  /\ details' = ReadDetails
  /\ Begin(w, [pc |-> "trigger", kind |-> "copy", read |-> ReadDetails])
  /\ UNCHANGED <<user, kc, profile, method, token>>

CopyProfile(w) ==
  /\ At(w, "copy")
  /\ details' = IF req[w].read.city = Nothing
                THEN [req[w].read EXCEPT !.city = profile.city, !.copied = TRUE] ELSE req[w].read
  /\ Goes(w, "done")
  /\ UNCHANGED <<user, kc, profile, method, token, used, past>>

-----------------------------------------------------------------------------
(* A process dies, or KoBoCAT's database is away: KPI's transaction is     *)
(* rolled back, and the rest stays as it is.                               *)
Cut(w) ==
  /\ Busy(w)
  /\ past' = [past EXCEPT !.cut = @ \cup {req[w].kind}]
  /\ req' = [req EXCEPT ![w] = Idle]
  /\ UNCHANGED <<user, kc, profile, method, details, token, used>>

Step(w) ==
  \/ SyncUser(w) \/ Undigest(w) \/ Digest(w) \/ LookForCounter(w) \/ AddCounter(w) \/ ReadGrants(w) \/ GrantMissing(w)
  \/ RevokeToken(w) \/ ForgetToken(w) \/ MakeToken(w) \/ TellToken(w) \/ ProfileForMfa(w) \/ FlagMfa(w)
  \/ Trigger(w) \/ ReadProfile(w) \/ RequireAuth(w) \/ WriteDetails(w) \/ CopyProfile(w)

AccountsNext ==
  \E w \in Workers :
    \/ Register(w) \/ Change(w) \/ GrantDefaults(w) \/ DeleteToken(w) \/ AskForToken(w) \/ MakeMethod(w) \/ Copy(w)
    \/ \E to \in {"on", "off", "none"} : SwitchMethod(w, to)
    \/ \E auth \in BOOLEAN, city \in {Nothing, "new"} : Update(w, auth, city)
    \/ Step(w) \/ Cut(w)

AccountsSpec == AccountsInit /\ [][AccountsNext]_accountVars

-----------------------------------------------------------------------------
Account   == [pk : Nat, data : Nat, may : BOOLEAN]
InKobocat == [pk : Nat, data : Nat, may : BOOLEAN, digests : SUBSET Nat, counters : Nat, granted : BOOLEAN]
Profile   == [auth : BOOLEAN, mfa : BOOLEAN, city : {"old"}]
Details   == [auth : BOOLEAN, city : {Nothing, "new", "old"}, copied : BOOLEAN]

AccountsTypeOK ==
  /\ user \in Account \cup {Nothing} /\ kc \in InKobocat \cup {Nothing}
  /\ profile \in Profile \cup {Nothing} /\ details \in Details \cup {Nothing}
  /\ method \in {"none", "off", "on"}
  /\ token \in [kpi : Nat \cup {Nothing}, kc : Nat \cup {Nothing}]
  /\ used \in [requests : Nat, tokens : Nat]

Ended(w, kinds) == At(w, "done") /\ req[w].alone /\ req[w].kind \in kinds

(* After a request that nobody overlapped, KoBoCAT has what KPI has,       *)
(* whatever was cut short or overlapped before: the account, its digests,  *)
(* a counter, and the permissions of a new user ...                        *)
AccountsAgree ==
  \A w \in Workers :
    /\ Ended(w, {"register", "change"}) =>
         kc.pk = user.pk /\ kc.data = user.data /\ kc.digests = {user.data} /\ kc.counters > 0
    /\ Ended(w, {"register", "grant"}) => kc.granted /\ user.may

(* ... two-factor authentication and whether forms require authentication. *)
ProfilesAgree ==
  \A w \in Workers :
    /\ Ended(w, {"mfa"}) => profile.mfa = (method = "on")
    /\ Ended(w, {"update"}) => profile.auth = details.auth

(* The token is the same in both, unless a request for it was cut.        *)
TokensAgree ==
  \A w \in Workers : Ended(w, {"token"}) /\ "token" \notin past.cut /\ ~past.overlapped => token.kc = token.kpi

(* A registration fails only after one that was cut short (the FIXME of    *)
(* save_kobocat_user()), and a user has several counters only if requests  *)
(* overlapped.                                                             *)
FailuresHaveCauses ==
  /\ \A w \in Workers : At(w, "failed") /\ req[w].kind = "register" => "register" \in past.cut \/ past.overlapped
  /\ kc # Nothing /\ kc.counters > 1 => past.overlapped

(* What a user blanked out after the profile was copied stays blank:       *)
(* "without having the old value from KC reappear"                         *)
(* (kpi/management/commands/copy_kc_profile.py:31).                        *)
BlanksStay == past.blanked /\ ~past.overlapped => details.city = Nothing

AccountsAreRight == AccountsAgree /\ ProfilesAgree /\ TokensAgree /\ FailuresHaveCauses /\ BlanksStay

(* What TLC refutes (no run of the project does): KoBoCAT knows of the     *)
(* second factor once nothing runs and nothing was cut short; a new token  *)
(* is always KoBoCAT's as well.                                            *)
MfaIsKnown ==
  (\A w \in Workers : ~Busy(w)) /\ past.cut = {} /\ method = "on" => profile.mfa
TokensAlwaysAgree ==
  \A w \in Workers : Ended(w, {"token"}) => token.kc = token.kpi
=============================================================================
