---------------------------- MODULE Kobocat_proofs ----------------------------
(***************************************************************************)
(* What is proved of KPI beside KoBoCAT: of accounts, that what runs alone *)
(* leaves KoBoCAT with what KPI has (AccountsInv); of the commands that    *)
(* bring KPI in line with KoBoCAT, that they do (PullInv); and the types   *)
(* of all that MCProjects composes.                                        *)
(***************************************************************************)
EXTENDS Projects_proofs

-----------------------------------------------------------------------------
(***************************************************************************)
(* A user's account in KPI and in KoBoCAT: whoever does something alone    *)
(* finds what they left, however many requests were cut short or           *)
(* overlapped before.                                                      *)
(***************************************************************************)

\* Requests, as far as they have come.
OfUser   == {r \in [alone : BOOLEAN, kind : {"register", "change"}, row : U!Account,
                    pc : {"sync", "undigest", "digest", "look", "count", "lack", "done", "failed"}] :
               r.pc = "lack" => r.kind = "register"}
OfNew    == [alone : BOOLEAN, kind : {"register"}, row : U!Account, lacks : BOOLEAN,
             pc : {"grant", "done", "failed"}]
OfRights == [alone : BOOLEAN, kind : {"grant"}, pc : {"lack"}]
OfLacks  == [alone : BOOLEAN, kind : {"grant"}, lacks : BOOLEAN, pc : {"grant", "done", "failed"}]
OfToken  == [alone : BOOLEAN, kind : {"token"}, old : Nat \cup {Nothing}, pc : {"revoke", "forget", "make", "done"}]
OfKey    == [alone : BOOLEAN, kind : {"token"}, old : Nat \cup {Nothing}, new : Nat, pc : {"tell", "done"}]
OfMethod == [alone : BOOLEAN, kind : {"make"}, pc : {"done"}]
OfSwitch == [alone : BOOLEAN, kind : {"mfa"}, on : BOOLEAN, pc : {"mfa", "flag", "done"}]
OfUpdate == [alone : BOOLEAN, kind : {"update"}, auth : BOOLEAN, city : {Nothing, "new"}, read : U!Details,
             pc : {"trigger", "read"}]
OfFound  == [alone : BOOLEAN, kind : {"update"}, auth : BOOLEAN, city : {Nothing, "new"}, read : U!Details,
             found : U!Profile, pc : {"write", "details", "done"}]
OfCopy   == [alone : BOOLEAN, kind : {"copy"}, read : U!Details, pc : {"trigger", "copy", "done"}]

Doings == OfUser \cup OfNew \cup OfRights \cup OfLacks \cup OfToken \cup OfKey \cup OfMethod
          \cup OfSwitch \cup OfUpdate \cup OfFound \cup OfCopy

PastType == [cut : SUBSET {"register", "change", "grant", "token", "make", "mfa", "update", "copy"},
             overlapped : BOOLEAN, blanked : BOOLEAN]

AccountTypes ==
  /\ U!AccountsTypeOK
  /\ req \in [Others -> Doings \cup {U!Idle}]
  /\ past \in PastType

Doing(w) == req[w].pc # "idle"
Lone(w)  == Doing(w) /\ req[w].alone

(* Who does something alone is the only one that does or did anything;     *)
(* registrations are alone, and come before everything else.               *)
Company(w) ==
  /\ Lone(w) => \A v \in Others \ {w} : req[v] = U!Idle
  /\ Doing(w) /\ ~past.overlapped => req[w].alone
  /\ Doing(w) /\ req[w].kind = "register" => req[w].alone
  /\ Doing(w) /\ req[w].kind # "register" => user # Nothing
  /\ Doing(w) /\ req[w].pc \in {"flag", "read", "write", "details", "copy"} => profile # Nothing

(* What a registration or a change that is alone has brought about.        *)
Past == {"undigest", "digest", "look", "count", "lack", "grant", "done"}

OnUser(w) ==
  Lone(w) /\ req[w].kind \in {"register", "change"} =>
    /\ req[w].pc \in Past => kc # Nothing /\ kc.pk = req[w].row.pk /\ kc.data = req[w].row.data
    /\ req[w].pc = "digest" => kc.digests = {}
    /\ req[w].pc \in {"look", "count", "lack", "grant", "done"} => kc.digests = {req[w].row.data}
    /\ req[w].pc = "count" => kc.counters = 0
    /\ req[w].pc \in {"lack", "grant", "done"} => kc.counters > 0
    /\ req[w].kind = "change" => user = req[w].row
    /\ req[w].kind = "register" =>
         /\ req[w].row.may
         /\ user = IF req[w].pc = "done" THEN req[w].row ELSE Nothing
         /\ req[w].pc = "grant" => req[w].lacks = ~kc.granted
         /\ req[w].pc = "done" => kc.granted
         /\ req[w].pc = "failed" => "register" \in past.cut

OnRights(w) ==
  Lone(w) /\ req[w].kind = "grant" =>
    /\ user.may
    /\ req[w].pc = "grant" => req[w].lacks = ~kc.granted
    /\ req[w].pc = "done" => kc.granted

OnToken(w) ==
  Lone(w) /\ req[w].kind = "token" /\ ~past.overlapped /\ "token" \notin past.cut =>
    /\ req[w].pc = "revoke" => token.kpi = req[w].old /\ token.kc = req[w].old
    /\ req[w].pc = "forget" => token.kpi = req[w].old /\ token.kc = Nothing
    /\ req[w].pc = "make" => token.kpi = token.kc
    /\ req[w].pc = "tell" => token.kpi = req[w].new /\ token.kc = Nothing

OnProfile(w) ==
  Lone(w) =>
    /\ req[w].kind = "mfa" =>
         /\ req[w].on = (method = "on")
         /\ req[w].pc = "done" => profile # Nothing /\ profile.mfa = req[w].on
    /\ req[w].kind = "update" =>
         /\ req[w].pc \in {"trigger", "read", "write", "details"} => details = req[w].read
         /\ req[w].pc = "write" => profile = req[w].found
         /\ req[w].pc \in {"details", "done"} => profile # Nothing /\ profile.auth = req[w].auth
         /\ req[w].pc = "done" => details # Nothing /\ details.auth = req[w].auth
    /\ req[w].kind = "copy" /\ req[w].pc \in {"trigger", "copy"} => details = req[w].read /\ ~req[w].read.copied

(* What was left behind.                                                   *)
Registering(w) == Lone(w) /\ req[w].kind = "register" /\ req[w].pc \in Past

UserLeft ==
  /\ user # Nothing => kc # Nothing
  /\ user = Nothing /\ kc # Nothing => "register" \in past.cut \/ \E w \in Others : Registering(w)
  /\ kc # Nothing /\ ~past.overlapped => kc.counters <= 1

MethodLeft == method # "none" => user # Nothing

TokensLeft ==
  ~past.overlapped /\ "token" \notin past.cut =>
    token.kpi = token.kc \/ \E w \in Others : U!Busy(w) /\ req[w].kind = "token"

BlanksLeft ==
  past.blanked /\ ~past.overlapped => details # Nothing /\ details.copied /\ details.city = Nothing

LeftBehind == UserLeft /\ MethodLeft /\ TokensLeft /\ BlanksLeft

RequestAt(w) == Company(w) /\ OnUser(w) /\ OnRights(w) /\ OnToken(w) /\ OnProfile(w)

AccountsInv == AccountTypes /\ (\A w \in Others : RequestAt(w)) /\ LeftBehind

(* Where a request is tells what is known of it.                           *)
LEMMA Which ==
  ASSUME NEW r \in Doings
  PROVE  /\ r.pc # "idle" /\ r.alone \in BOOLEAN
         /\ r.kind \in {"register", "change", "grant", "token", "make", "mfa", "update", "copy"}
         /\ r.pc \in {"sync", "undigest", "digest", "look", "count"} => r \in OfUser
         /\ r.pc = "lack" => r \in OfUser \cup OfRights
         /\ r.pc = "grant" => r \in OfNew \cup OfLacks
         /\ r.pc \in {"revoke", "forget", "make"} => r \in OfToken
         /\ r.pc = "tell" => r \in OfKey
         /\ r.pc \in {"mfa", "flag"} => r \in OfSwitch
         /\ r.pc = "trigger" => r \in OfUpdate \cup OfCopy
         /\ r.pc = "read" => r \in OfUpdate
         /\ r.pc \in {"write", "details"} => r \in OfFound
         /\ r.pc = "copy" => r \in OfCopy
BY DEF Doings, OfUser, OfNew, OfRights, OfLacks, OfToken, OfKey, OfMethod, OfSwitch, OfUpdate,
       OfFound, OfCopy

LEMMA IdleIs == U!Idle.pc = "idle" /\ U!Idle \notin Doings
<1>1. U!Idle.pc = "idle"
  BY DEF U!Idle
<1>2. QED
  BY <1>1, Which

(* A request goes on: it is as alone as it was, and the others stay what   *)
(* they are.                                                               *)
LEMMA GoesOnAs ==
  ASSUME AccountsInv, NEW w \in Others, U!Busy(w), NEW r \in Doings,
         r.alone = req[w].alone, r.kind = req[w].kind, req' = [req EXCEPT ![w] = r],
         U!AccountsTypeOK', past' \in PastType, past'.cut = past.cut,
         past'.overlapped = past.overlapped,
         user # Nothing => user' # Nothing, profile # Nothing => profile' # Nothing,
         r.pc \in {"flag", "read", "write", "details", "copy"} => profile' # Nothing
  PROVE  /\ req'[w] = r /\ \A v \in Others \ {w} : req'[v] = req[v]
         /\ AccountTypes'
         /\ \A v \in Others : Company(v)'
         /\ \A v \in Others \ {w} : RequestAt(v)'
<1>1. req' \in [Others -> Doings \cup {U!Idle}] /\ req'[w] = r
      /\ \A v \in Others \ {w} : req'[v] = req[v]
  BY DEF AccountsInv, AccountTypes
<1>2. req[w] \in Doings /\ Doing(w)
  BY IdleIs DEF AccountsInv, AccountTypes, U!Busy, Doing
<1>3. AccountTypes'
  BY <1>1 DEF AccountTypes, PastType
<1>4. ASSUME NEW v \in Others \ {w} PROVE ~ Lone(v) /\ ~ Lone(v)'
  BY <1>1, <1>2, IdleIs DEF AccountsInv, RequestAt, Company, Lone, Doing
<1>5. ASSUME NEW v \in Others \ {w} PROVE Company(v)'
  BY <1>1, <1>4 DEF AccountsInv, RequestAt, Company, Lone, Doing
<1>6. Company(w)'
  <2>1. r.pc # "idle"
    BY Which
  <2>2. Company(w)
    BY DEF AccountsInv, RequestAt
  <2>3. QED
    BY <1>1, <1>2, <2>1, <2>2 DEF Company, Lone, Doing
<1>7. ASSUME NEW v \in Others \ {w} PROVE RequestAt(v)'
  BY <1>4, <1>5 DEF RequestAt, OnUser, OnRights, OnToken, OnProfile
<1>8. QED
  BY <1>1, <1>3, <1>5, <1>6, <1>7

(* A step of a registration, of a change or of a command that grants.      *)
AccountKept ==
  UNCHANGED <<profile, method, details, token, used, past>>

(* What it does not concern stays.                                         *)
LEMMA AccountGoesOn ==
  ASSUME AccountsInv, NEW w \in Others, U!Busy(w), NEW r \in Doings,
         r.alone = req[w].alone, r.kind = req[w].kind, req' = [req EXCEPT ![w] = r],
         r.kind \in {"register", "change", "grant"},
         AccountKept, user' \in U!Account \cup {Nothing}, kc' \in U!InKobocat \cup {Nothing},
         user # Nothing => user' # Nothing,
         r.pc \notin {"flag", "read", "write", "details", "copy"},
         OnUser(w)', OnRights(w)', UserLeft'
  PROVE  AccountsInv'
<1>1. U!AccountsTypeOK' /\ past' \in PastType
  BY DEF AccountsInv, AccountTypes, AccountKept, U!AccountsTypeOK
<1>2. past' = past /\ profile' = profile
  BY DEF AccountKept
<1>3. /\ req'[w] = r /\ \A v \in Others \ {w} : req'[v] = req[v]
      /\ AccountTypes'
      /\ \A v \in Others : Company(v)'
      /\ \A v \in Others \ {w} : RequestAt(v)'
  BY <1>1, <1>2, GoesOnAs
<1>4. OnToken(w)' /\ OnProfile(w)'
  BY <1>3 DEF OnToken, OnProfile
<1>5. RequestAt(w)'
  BY <1>3, <1>4 DEF RequestAt
<1>6. TokensLeft'
  <2>1. CASE past.overlapped \/ "token" \in past.cut \/ token.kpi = token.kc
    BY <2>1 DEF TokensLeft, AccountKept
  <2>2. CASE ~(past.overlapped \/ "token" \in past.cut \/ token.kpi = token.kc)
    <3>1. PICK v \in Others : U!Busy(v) /\ req[v].kind = "token"
      BY <2>2 DEF AccountsInv, LeftBehind, TokensLeft
    <3>2. v # w
      BY <3>1
    <3>3. req'[v] = req[v]
      BY <1>3, <3>2
    <3>4. QED
      BY <3>1, <3>3 DEF TokensLeft, U!Busy
  <2>3. QED
    BY <2>1, <2>2
<1>7. BlanksLeft'
  BY DEF AccountsInv, LeftBehind, BlanksLeft, AccountKept
<1>8. MethodLeft'
  BY DEF AccountsInv, LeftBehind, MethodLeft, AccountKept
<1>9. QED
  BY <1>3, <1>5, <1>6, <1>7, <1>8 DEF AccountsInv, LeftBehind

(* What is known of a request while it runs.                               *)
LEMMA Runs ==
  ASSUME AccountsInv, NEW w \in Others, NEW p \in {"sync", "undigest", "digest", "look", "count",
           "lack", "grant", "revoke", "forget", "make", "tell", "mfa", "flag", "trigger", "read", "write",
           "details", "copy"}, U!At(w, p)
  PROVE  req[w] \in Doings /\ req[w].pc = p /\ Doing(w) /\ U!Busy(w) /\ RequestAt(w)
<1>1. req[w].pc = p
  BY DEF U!At
<1>2. req[w] # U!Idle
  BY <1>1, IdleIs
<1>3. QED
  BY <1>1, <1>2 DEF AccountsInv, AccountTypes, Doing, U!Busy

(* The account and what goes with it are there once it is synchronized,    *)
LEMMA AccountThere ==
  ASSUME AccountsInv, NEW w \in Others, U!Busy(w), req[w].kind \in {"register", "change", "grant"},
         req[w].kind = "register" => req[w].pc \in Past
  PROVE  kc \in U!InKobocat
<1>1. CASE req[w].kind = "register"
  BY <1>1 DEF AccountsInv, RequestAt, Company, OnUser, Lone, Doing, U!Busy, AccountTypes,
     U!AccountsTypeOK
<1>2. CASE req[w].kind # "register"
  BY <1>2 DEF AccountsInv, RequestAt, Company, Doing, U!Busy, LeftBehind, UserLeft, AccountTypes,
     U!AccountsTypeOK
<1>3. QED
  BY <1>1, <1>2

LEMMA SyncUserStep ==
  ASSUME AccountsInv, NEW w \in Others, U!SyncUser(w)
  PROVE  AccountsInv'
<1>1. req[w] \in OfUser /\ req[w].pc = "sync" /\ Doing(w) /\ U!Busy(w) /\ RequestAt(w)
  BY Runs, Which DEF U!SyncUser
<1>2. AccountKept /\ user' = user
  BY DEF U!SyncUser, AccountKept
<1>3. CASE kc # Nothing /\ kc.pk # req[w].row.pk
  <2> DEFINE r == [req[w] EXCEPT !.pc = "failed"]
  <2>1. req' = [req EXCEPT ![w] = r] /\ kc' = kc
    BY <1>3 DEF U!SyncUser, U!Goes
  <2>2. r \in OfUser /\ r.pc = "failed" /\ r.kind = req[w].kind /\ r.alone = req[w].alone /\ r.row = req[w].row
    BY <1>1 DEF OfUser
  <2> HIDE DEF r
  <2>3. req'[w] = r /\ \A v \in Others \ {w} : req'[v] = req[v]
    BY <2>1 DEF AccountsInv, AccountTypes
  <2>4. ASSUME Lone(w), req[w].kind = "register" PROVE "register" \in past.cut
    <3>1. \A v \in Others : ~ Registering(v)
      BY <1>1, <2>4, IdleIs DEF RequestAt, Company, Registering, Lone, Doing, Past
    <3>2. user = Nothing
      BY <1>1, <2>4 DEF RequestAt, OnUser
    <3>3. QED
      BY <1>3, <3>1, <3>2 DEF AccountsInv, LeftBehind, UserLeft
  <2>5. OnUser(w)' /\ OnRights(w)'
    BY <1>1, <1>2, <2>1, <2>2, <2>3, <2>4 DEF RequestAt, OnUser, OnRights, Lone, Doing, Past,
       AccountKept, OfUser
  <2>6. UserLeft'
    <3>1. \A v \in Others : Registering(v) => Registering(v)'
      BY <1>1, <2>3 DEF Registering, Lone, Doing, Past
    <3>2. QED
      BY <1>2, <2>1, <3>1 DEF AccountsInv, LeftBehind, UserLeft, AccountKept
  <2>7. QED
    BY <1>1, <1>2, <2>1, <2>2, <2>5, <2>6, AccountGoesOn DEF OfUser, Doings, AccountsInv,
       AccountTypes, U!AccountsTypeOK
<1>4. CASE ~(kc # Nothing /\ kc.pk # req[w].row.pk)
  <2> DEFINE r == [req[w] EXCEPT !.pc = "undigest"]
  <2>1. req' = [req EXCEPT ![w] = r]
        /\ kc' = IF kc = Nothing THEN U!Extend(req[w].row, U!NewAccount) ELSE [kc EXCEPT !.data = req[w].row.data]
    BY <1>4 DEF U!SyncUser, U!Goes
  <2>2. r \in OfUser /\ r.pc = "undigest" /\ r.kind = req[w].kind /\ r.alone = req[w].alone /\ r.row = req[w].row
    BY <1>1 DEF OfUser
  <2> HIDE DEF r
  <2>3. req'[w] = r /\ \A v \in Others \ {w} : req'[v] = req[v]
    BY <2>1 DEF AccountsInv, AccountTypes
  <2>4. kc' \in U!InKobocat /\ kc'.pk = r.row.pk /\ kc'.data = r.row.data
        /\ (kc # Nothing => kc'.counters = kc.counters) /\ (kc = Nothing => kc'.counters = 0)
    <3>1. CASE kc = Nothing
      <4>1. r.row \in U!Account
        BY <2>2 DEF OfUser
      <4>2. kc' = U!Extend(r.row, U!NewAccount)
        BY <2>1, <2>2, <3>1
      <4>3. kc' \in U!InKobocat
        BY <4>1, <4>2 DEF U!Extend, U!NewAccount, U!InKobocat, U!Account
      <4>4. kc'.pk = r.row.pk /\ kc'.data = r.row.data /\ kc'.counters = 0
        BY <4>1, <4>2 DEF U!Extend, U!NewAccount, U!Account
      <4>5. QED
        BY <3>1, <4>3, <4>4
    <3>2. CASE kc # Nothing
      BY <1>1, <1>4, <2>1, <2>2, <3>2 DEF AccountsInv, AccountTypes, U!AccountsTypeOK,
         U!InKobocat, OfUser, U!Account
    <3>3. QED
      BY <3>1, <3>2
  <2>5. kc' # Nothing
    BY <2>4, AccountsAssumption
  <2>6. OnUser(w)' /\ OnRights(w)'
    BY <1>1, <1>2, <2>2, <2>3, <2>4, <2>5 DEF RequestAt, OnUser, OnRights, Lone, Doing, Past,
       AccountKept, OfUser
  <2>7. UserLeft'
    <3>1. user' = Nothing => Registering(w)'
      BY <1>1, <1>2, <2>2, <2>3 DEF RequestAt, Company, Registering, Lone, Doing, Past, OfUser
    <3>2. kc'.counters <= 1 \/ past'.overlapped
      BY <1>2, <2>4 DEF AccountsInv, LeftBehind, UserLeft, AccountKept
    <3>3. QED
      BY <2>5, <3>1, <3>2 DEF UserLeft
  <2>8. QED
    BY <1>1, <1>2, <2>1, <2>2, <2>4, <2>6, <2>7, AccountGoesOn DEF OfUser, Doings, AccountsInv,
       AccountTypes, U!AccountsTypeOK
<1>5. QED
  BY <1>3, <1>4

(* and a step after that keeps what is left behind.                        *)
LEMMA AccountStep ==
  ASSUME AccountsInv, NEW w \in Others, U!Busy(w), NEW r \in Doings,
         r.alone = req[w].alone, r.kind = req[w].kind, req' = [req EXCEPT ![w] = r],
         r.kind \in {"register", "change", "grant"}, r.pc \in Past, req[w].pc \in Past,
         AccountKept, user' = user, kc' \in U!InKobocat,
         kc'.counters = kc.counters \/ past.overlapped \/ kc'.counters <= 1,
         OnUser(w)', OnRights(w)'
  PROVE  AccountsInv'
<1>1. req'[w] = r /\ \A v \in Others \ {w} : req'[v] = req[v]
  BY DEF AccountsInv, AccountTypes
<1>2. kc \in U!InKobocat /\ kc # Nothing /\ kc' # Nothing
  BY AccountThere, AccountsAssumption
<1>3. \A v \in Others : Registering(v) => Registering(v)'
  BY <1>1, Which DEF Registering, Lone, Doing
<1>4. UserLeft'
  BY <1>2, <1>3 DEF AccountsInv, LeftBehind, UserLeft, AccountKept
<1>5. user' \in U!Account \cup {Nothing} /\ (user # Nothing => user' # Nothing)
  BY DEF AccountsInv, AccountTypes, U!AccountsTypeOK
<1>6. r.pc \notin {"flag", "read", "write", "details", "copy"}
  BY DEF Past
<1>7. QED
  BY <1>4, <1>5, <1>6, AccountGoesOn

LEMMA UndigestStep ==
  ASSUME AccountsInv, NEW w \in Others, U!Undigest(w)
  PROVE  AccountsInv'
<1> DEFINE r == [req[w] EXCEPT !.pc = "digest"]
<1>1. req[w] \in OfUser /\ req[w].pc = "undigest" /\ Doing(w) /\ U!Busy(w) /\ RequestAt(w)
  BY Runs, Which DEF U!Undigest
<1>2. AccountKept /\ user' = user /\ req' = [req EXCEPT ![w] = r] /\ kc' = [kc EXCEPT !.digests = {}]
  BY DEF U!Undigest, U!Goes, AccountKept
<1>3. /\ r \in OfUser /\ r \in Doings /\ r.pc = "digest" /\ r.kind = req[w].kind
      /\ r.alone = req[w].alone /\ r.row = req[w].row
  BY <1>1 DEF OfUser, Doings
<1> HIDE DEF r
<1>4. req'[w] = r
  BY <1>2 DEF AccountsInv, AccountTypes
<1>5. kc \in U!InKobocat
  BY <1>1, AccountThere DEF OfUser, Past
<1>6. kc' \in U!InKobocat /\ kc'.digests = {} /\ kc'.counters = kc.counters /\ kc'.pk = kc.pk
      /\ kc'.data = kc.data /\ kc' # Nothing
  BY <1>2, <1>5, AccountsAssumption DEF U!InKobocat
<1>7. OnUser(w)' /\ OnRights(w)'
  BY <1>1, <1>2, <1>3, <1>4, <1>6 DEF RequestAt, OnUser, OnRights, Lone, Doing, Past, AccountKept,
     OfUser
<1>8. QED
  BY <1>1, <1>2, <1>3, <1>6, <1>7, AccountStep DEF OfUser, Past

LEMMA DigestStep ==
  ASSUME AccountsInv, NEW w \in Others, U!Digest(w)
  PROVE  AccountsInv'
<1> DEFINE r == [req[w] EXCEPT !.pc = "look"]
           account == IF req[w].kind = "register" THEN req[w].row ELSE user
<1>1. req[w] \in OfUser /\ req[w].pc = "digest" /\ Doing(w) /\ U!Busy(w) /\ RequestAt(w)
  BY Runs, Which DEF U!Digest
<1>2. AccountKept /\ user' = user /\ req' = [req EXCEPT ![w] = r]
      /\ kc' = [kc EXCEPT !.digests = kc.digests \cup {account.data}]
  BY DEF U!Digest, U!Goes, AccountKept
<1>3. /\ r \in OfUser /\ r \in Doings /\ r.pc = "look" /\ r.kind = req[w].kind
      /\ r.alone = req[w].alone /\ r.row = req[w].row
  BY <1>1 DEF OfUser, Doings
<1>4. account \in U!Account /\ (Lone(w) => account = r.row)
  BY <1>1, <1>3 DEF RequestAt, Company, OnUser, OfUser, AccountsInv, AccountTypes, U!AccountsTypeOK
<1> HIDE DEF r, account
<1>5. req'[w] = r
  BY <1>2 DEF AccountsInv, AccountTypes
<1>6. kc \in U!InKobocat
  BY <1>1, AccountThere DEF OfUser, Past
<1>7. kc' \in U!InKobocat /\ kc'.digests = kc.digests \cup {account.data} /\ kc'.counters = kc.counters
      /\ kc'.pk = kc.pk /\ kc'.data = kc.data /\ kc' # Nothing
  <2>1. account.data \in Nat
    BY <1>4 DEF U!Account
  <2>2. kc' \in U!InKobocat /\ kc'.digests = kc.digests \cup {account.data} /\ kc'.counters = kc.counters
        /\ kc'.pk = kc.pk /\ kc'.data = kc.data
    BY <1>2, <1>6, <2>1 DEF U!InKobocat
  <2>3. QED
    BY <2>2, AccountsAssumption
<1>8. OnUser(w)' /\ OnRights(w)'
  BY <1>1, <1>2, <1>3, <1>4, <1>5, <1>7 DEF RequestAt, OnUser, OnRights, Lone, Doing, Past,
     AccountKept, OfUser
<1>9. QED
  BY <1>1, <1>2, <1>3, <1>7, <1>8, AccountStep DEF OfUser, Past

LEMMA LookForCounterStep ==
  ASSUME AccountsInv, NEW w \in Others, U!LookForCounter(w)
  PROVE  AccountsInv'
<1> DEFINE p == IF kc.counters > 0 THEN U!After(w) ELSE "count"
           r == [req[w] EXCEPT !.pc = p]
<1>1. req[w] \in OfUser /\ req[w].pc = "look" /\ Doing(w) /\ U!Busy(w) /\ RequestAt(w)
  BY Runs, Which DEF U!LookForCounter
<1>2. AccountKept /\ user' = user /\ req' = [req EXCEPT ![w] = r] /\ kc' = kc
  BY DEF U!LookForCounter, U!Goes, AccountKept
<1>3. p \in {"count", "lack", "done"}
      /\ (p = "count" <=> ~(kc.counters > 0)) /\ (p = "lack" => req[w].kind = "register")
      /\ (p = "done" => req[w].kind = "change")
  BY <1>1 DEF U!After, OfUser
<1>4. /\ r \in OfUser /\ r \in Doings /\ r.pc = p /\ r.kind = req[w].kind
      /\ r.alone = req[w].alone /\ r.row = req[w].row
  BY <1>1, <1>3 DEF OfUser, Doings
<1> HIDE DEF r, p
<1>5. req'[w] = r
  BY <1>2 DEF AccountsInv, AccountTypes
<1>6. kc \in U!InKobocat
  BY <1>1, AccountThere DEF OfUser, Past
<1>7. kc.counters \in Nat
  BY <1>6 DEF U!InKobocat
<1>8. OnUser(w)' /\ OnRights(w)'
  BY <1>1, <1>2, <1>3, <1>4, <1>5, <1>7 DEF RequestAt, OnUser, OnRights, Lone, Doing, Past,
     AccountKept, OfUser
<1>9. QED
  BY <1>1, <1>2, <1>3, <1>4, <1>6, <1>8, AccountStep DEF OfUser, Past

LEMMA AddCounterStep ==
  ASSUME AccountsInv, NEW w \in Others, U!AddCounter(w)
  PROVE  AccountsInv'
<1> DEFINE p == U!After(w)
           r == [req[w] EXCEPT !.pc = p]
<1>1. req[w] \in OfUser /\ req[w].pc = "count" /\ Doing(w) /\ U!Busy(w) /\ RequestAt(w)
  BY Runs, Which DEF U!AddCounter
<1>2. AccountKept /\ user' = user /\ req' = [req EXCEPT ![w] = r]
      /\ kc' = [kc EXCEPT !.counters = kc.counters + 1]
  BY DEF U!AddCounter, U!Goes, AccountKept
<1>3. p \in {"lack", "done"} /\ (p = "lack" <=> req[w].kind = "register")
  BY <1>1 DEF U!After, OfUser
<1>4. /\ r \in OfUser /\ r \in Doings /\ r.pc = p /\ r.kind = req[w].kind
      /\ r.alone = req[w].alone /\ r.row = req[w].row
  BY <1>1, <1>3 DEF OfUser, Doings
<1> HIDE DEF r, p
<1>5. req'[w] = r
  BY <1>2 DEF AccountsInv, AccountTypes
<1>6. kc \in U!InKobocat
  BY <1>1, AccountThere DEF OfUser, Past
<1>7. kc' \in U!InKobocat /\ kc'.digests = kc.digests /\ kc'.counters = kc.counters + 1
      /\ kc'.pk = kc.pk /\ kc'.data = kc.data /\ kc.counters \in Nat /\ kc' # Nothing
  BY <1>2, <1>6, AccountsAssumption DEF U!InKobocat
<1>8. past.overlapped \/ kc'.counters <= 1
  <2>1. CASE Lone(w)
    BY <1>1, <1>7, <2>1 DEF RequestAt, OnUser, OfUser
  <2>2. CASE ~Lone(w)
    BY <1>1, <2>2 DEF RequestAt, Company, Lone
  <2>3. QED
    BY <2>1, <2>2
<1>9. OnUser(w)' /\ OnRights(w)'
  BY <1>1, <1>2, <1>3, <1>4, <1>5, <1>7 DEF RequestAt, OnUser, OnRights, Lone, Doing, Past,
     AccountKept, OfUser
<1>10. QED
  BY <1>1, <1>2, <1>3, <1>4, <1>7, <1>8, <1>9, AccountStep DEF OfUser, Past

LEMMA ReadGrantsStep ==
  ASSUME AccountsInv, NEW w \in Others, U!ReadGrants(w)
  PROVE  AccountsInv'
<1> DEFINE r == U!Extend(req[w], [pc |-> "grant", lacks |-> ~kc.granted])
<1>1. req[w] \in OfUser \cup OfRights /\ req[w].pc = "lack" /\ Doing(w) /\ U!Busy(w) /\ RequestAt(w)
  BY Runs, Which DEF U!ReadGrants
<1>2. AccountKept /\ user' = user /\ req' = [req EXCEPT ![w] = r] /\ kc' = kc
  BY DEF U!ReadGrants, U!Gives, AccountKept
<1>3. kc \in U!InKobocat
  BY <1>1, AccountThere DEF OfUser, OfRights, Past
<1>4. kc.granted \in BOOLEAN
  BY <1>3 DEF U!InKobocat
<1>5. r.pc = "grant" /\ r.kind = req[w].kind /\ r.alone = req[w].alone /\ r.lacks = ~kc.granted
      /\ (req[w] \in OfUser => r.row = req[w].row)
  BY <1>1 DEF OfUser, OfRights, U!Extend
<1>6. req[w].kind \in {"register", "grant"}
  BY <1>1 DEF OfUser, OfRights
<1>7. r \in OfNew \cup OfLacks
  <2>1. CASE req[w] \in OfUser
    <3>1. req[w].kind = "register"
      BY <1>6, <2>1 DEF OfUser
    <3>2. r \in OfNew
      BY <1>4, <2>1, <3>1 DEF OfUser, OfNew, U!Extend
    <3>3. QED
      BY <3>2
  <2>2. CASE req[w] \in OfRights
    <3>1. r \in OfLacks
      BY <1>4, <2>2 DEF OfRights, OfLacks, U!Extend
    <3>2. QED
      BY <3>1
  <2>3. QED
    BY <1>1, <2>1, <2>2
<1>8. r \in Doings
  BY <1>7 DEF Doings
<1> HIDE DEF r
<1>9. req'[w] = r
  BY <1>2 DEF AccountsInv, AccountTypes
<1>10. OnUser(w)' /\ OnRights(w)'
  BY <1>1, <1>2, <1>5, <1>6, <1>9 DEF RequestAt, OnUser, OnRights, Lone, Doing, Past, AccountKept,
     OfUser, OfRights
<1>11. QED
  <2>1. CASE req[w].pc \in Past
    BY <1>1, <1>2, <1>3, <1>5, <1>6, <1>8, <1>10, AccountStep DEF Past
  <2>2. QED
    BY <1>1, <2>1 DEF Past

LEMMA GrantMissingStep ==
  ASSUME AccountsInv, NEW w \in Others, U!GrantMissing(w)
  PROVE  AccountsInv'
<1>1. req[w] \in OfNew \cup OfLacks /\ req[w].pc = "grant" /\ Doing(w) /\ U!Busy(w) /\ RequestAt(w)
  BY Runs, Which DEF U!GrantMissing
<1>2. AccountKept
  BY DEF U!GrantMissing, AccountKept
<1>3. kc \in U!InKobocat /\ kc # Nothing
  BY <1>1, AccountThere, AccountsAssumption DEF OfNew, OfLacks, Past
<1>4. CASE req[w].lacks /\ kc.granted
  <2> DEFINE r == [req[w] EXCEPT !.pc = "failed"]
  <2>1. req' = [req EXCEPT ![w] = r] /\ kc' = kc /\ user' = user
    BY <1>4 DEF U!GrantMissing, U!Goes
  <2>2. /\ r \in OfNew \cup OfLacks /\ r \in Doings /\ r.pc = "failed" /\ r.kind = req[w].kind
        /\ r.alone = req[w].alone /\ r.kind \in {"register", "grant"}
    BY <1>1 DEF OfNew, OfLacks, Doings
  <2> HIDE DEF r
  <2>3. req'[w] = r /\ \A v \in Others \ {w} : req'[v] = req[v]
    BY <2>1 DEF AccountsInv, AccountTypes
  <2>4. req[w].kind = "grant"
    <3>1. CASE Lone(w)
      BY <1>1, <1>4, <3>1 DEF RequestAt, OnUser, OfNew, OfLacks
    <3>2. CASE ~Lone(w)
      BY <1>1, <3>2 DEF RequestAt, Company, Lone, OfNew, OfLacks
    <3>3. QED
      BY <3>1, <3>2
  <2>5. OnUser(w)' /\ OnRights(w)'
    BY <1>1, <1>2, <2>1, <2>2, <2>3, <2>4 DEF RequestAt, OnUser, OnRights, Lone, Doing, AccountKept
  <2>6. UserLeft'
    <3>1. \A v \in Others : Registering(v) => Registering(v)'
      BY <2>3, <2>4 DEF Registering, Lone, Doing
    <3>2. QED
      BY <1>2, <2>1, <3>1 DEF AccountsInv, LeftBehind, UserLeft, AccountKept
  <2>7. user' \in U!Account \cup {Nothing} /\ (user # Nothing => user' # Nothing)
    BY <2>1 DEF AccountsInv, AccountTypes, U!AccountsTypeOK
  <2>8. QED
    BY <1>1, <1>2, <1>3, <2>1, <2>2, <2>5, <2>6, <2>7, AccountGoesOn
<1>5. CASE ~(req[w].lacks /\ kc.granted)
  <2> DEFINE r == [req[w] EXCEPT !.pc = "done"]
  <2>1. req' = [req EXCEPT ![w] = r] /\ kc' = [kc EXCEPT !.granted = TRUE]
        /\ user' = IF req[w].kind = "register" THEN req[w].row ELSE user
    BY <1>5 DEF U!GrantMissing, U!Goes
  <2>2. /\ r \in OfNew \cup OfLacks /\ r \in Doings /\ r.pc = "done" /\ r.kind = req[w].kind
        /\ r.alone = req[w].alone /\ r.kind \in {"register", "grant"}
        /\ (r.kind = "register" => r.row = req[w].row /\ r.row \in U!Account)
    BY <1>1 DEF OfNew, OfLacks, Doings
  <2> HIDE DEF r
  <2>3. req'[w] = r /\ \A v \in Others \ {w} : req'[v] = req[v]
    BY <2>1 DEF AccountsInv, AccountTypes
  <2>4. kc' \in U!InKobocat /\ kc'.digests = kc.digests /\ kc'.counters = kc.counters
        /\ kc'.pk = kc.pk /\ kc'.data = kc.data /\ kc'.granted /\ kc' # Nothing
    BY <1>3, <2>1, AccountsAssumption DEF U!InKobocat
  <2>5. user' \in U!Account /\ user' # Nothing
    <3>1. CASE req[w].kind = "register"
      BY <2>1, <2>2, <3>1, AccountsAssumption
    <3>2. CASE req[w].kind # "register"
      BY <1>1, <2>1, <3>2 DEF RequestAt, Company, AccountsInv, AccountTypes, U!AccountsTypeOK
    <3>3. QED
      BY <3>1, <3>2
  <2>6. OnUser(w)' /\ OnRights(w)'
    BY <1>1, <1>2, <2>1, <2>2, <2>3, <2>4 DEF RequestAt, OnUser, OnRights, Lone, Doing, Past,
       AccountKept
  <2>7. UserLeft'
    BY <1>2, <1>3, <2>4, <2>5 DEF AccountsInv, LeftBehind, UserLeft, AccountKept
  <2>8. QED
    BY <1>1, <1>2, <2>1, <2>2, <2>4, <2>5, <2>6, <2>7, AccountGoesOn
<1>6. QED
  BY <1>4, <1>5

(* A step of a request that deletes a token or asks for one.               *)
TokenKept ==
  UNCHANGED <<user, kc, profile, method, details, past>>

LEMMA TokenGoesOn ==
  ASSUME AccountsInv, NEW w \in Others, U!Busy(w), NEW r \in Doings,
         r.alone = req[w].alone, r.kind = "token", req[w].kind = "token",
         req' = [req EXCEPT ![w] = r], TokenKept,
         token' \in [kpi : Nat \cup {Nothing}, kc : Nat \cup {Nothing}],
         used' \in [requests : Nat, tokens : Nat],
         OnToken(w)',
         r.pc \in {"forget", "make", "tell"} \/ past.overlapped \/ "token" \in past.cut \/ token'.kpi = token'.kc
  PROVE  AccountsInv'
<1>1. U!AccountsTypeOK' /\ past' \in PastType
  BY DEF AccountsInv, AccountTypes, TokenKept, U!AccountsTypeOK
<1>2. past' = past /\ profile' = profile /\ user' = user
  BY DEF TokenKept
<1>3. r.pc \notin {"flag", "read", "write", "details", "copy"}
  BY DEF Doings, OfUser, OfNew, OfRights, OfLacks, OfToken, OfKey, OfMethod, OfSwitch, OfUpdate,
         OfFound, OfCopy
<1>4. /\ req'[w] = r /\ \A v \in Others \ {w} : req'[v] = req[v]
      /\ AccountTypes'
      /\ \A v \in Others : Company(v)'
      /\ \A v \in Others \ {w} : RequestAt(v)'
  BY <1>1, <1>2, <1>3, GoesOnAs
<1>5. OnUser(w)' /\ OnRights(w)' /\ OnProfile(w)'
  BY <1>4 DEF OnUser, OnRights, OnProfile
<1>6. RequestAt(w)'
  BY <1>4, <1>5 DEF RequestAt
<1>7. UserLeft'
  <2>1. \A v \in Others : Registering(v) => Registering(v)'
    BY <1>4 DEF Registering, Lone, Doing
  <2>2. QED
    BY <2>1 DEF AccountsInv, LeftBehind, UserLeft, TokenKept
<1>8. TokensLeft'
  <2>1. CASE r.pc \in {"forget", "make", "tell"}
    BY <1>4, <2>1 DEF TokensLeft, U!Busy
  <2>2. CASE past.overlapped \/ "token" \in past.cut \/ token'.kpi = token'.kc
    BY <1>2, <2>2 DEF TokensLeft
  <2>3. QED
    BY <2>1, <2>2
<1>9. MethodLeft' /\ BlanksLeft'
  BY DEF AccountsInv, LeftBehind, MethodLeft, BlanksLeft, TokenKept
<1>10. QED
  BY <1>4, <1>6, <1>7, <1>8, <1>9 DEF AccountsInv, LeftBehind

LEMMA RevokeTokenStep ==
  ASSUME AccountsInv, NEW w \in Others, U!RevokeToken(w)
  PROVE  AccountsInv'
<1> DEFINE r == [req[w] EXCEPT !.pc = "forget"]
<1>1. req[w] \in OfToken /\ req[w].pc = "revoke" /\ Doing(w) /\ U!Busy(w) /\ RequestAt(w)
  BY Runs, Which DEF U!RevokeToken
<1>2. TokenKept /\ used' = used /\ req' = [req EXCEPT ![w] = r]
      /\ token' = IF token.kc = req[w].old THEN [token EXCEPT !.kc = Nothing] ELSE token
  BY DEF U!RevokeToken, U!Goes, TokenKept
<1>3. /\ r \in OfToken /\ r \in Doings /\ r.pc = "forget" /\ r.kind = "token" /\ req[w].kind = "token"
      /\ r.alone = req[w].alone /\ r.old = req[w].old
  BY <1>1 DEF OfToken, Doings
<1> HIDE DEF r
<1>4. req'[w] = r
  BY <1>2 DEF AccountsInv, AccountTypes
<1>5. token \in [kpi : Nat \cup {Nothing}, kc : Nat \cup {Nothing}] /\ used' \in [requests : Nat, tokens : Nat]
  BY <1>2 DEF AccountsInv, AccountTypes, U!AccountsTypeOK
<1>6. token' \in [kpi : Nat \cup {Nothing}, kc : Nat \cup {Nothing}]
      /\ token'.kpi = token.kpi /\ (token.kc = req[w].old => token'.kc = Nothing)
  BY <1>2, <1>5
<1>7. OnToken(w)'
  BY <1>1, <1>2, <1>3, <1>4, <1>6 DEF RequestAt, OnToken, Lone, Doing, TokenKept
<1>8. QED
  BY <1>1, <1>2, <1>3, <1>5, <1>6, <1>7, TokenGoesOn

LEMMA ForgetTokenStep ==
  ASSUME AccountsInv, NEW w \in Others, U!ForgetToken(w)
  PROVE  AccountsInv'
<1> DEFINE r == [req[w] EXCEPT !.pc = "done"]
<1>1. req[w] \in OfToken /\ req[w].pc = "forget" /\ Doing(w) /\ U!Busy(w) /\ RequestAt(w)
  BY Runs, Which DEF U!ForgetToken
<1>2. TokenKept /\ used' = used /\ req' = [req EXCEPT ![w] = r]
      /\ token' = IF token.kpi = req[w].old THEN [token EXCEPT !.kpi = Nothing] ELSE token
  BY DEF U!ForgetToken, U!Goes, TokenKept
<1>3. /\ r \in OfToken /\ r \in Doings /\ r.pc = "done" /\ r.kind = "token" /\ req[w].kind = "token"
      /\ r.alone = req[w].alone
  BY <1>1 DEF OfToken, Doings
<1> HIDE DEF r
<1>4. req'[w] = r
  BY <1>2 DEF AccountsInv, AccountTypes
<1>5. token \in [kpi : Nat \cup {Nothing}, kc : Nat \cup {Nothing}] /\ used' \in [requests : Nat, tokens : Nat]
  BY <1>2 DEF AccountsInv, AccountTypes, U!AccountsTypeOK
<1>6. token' \in [kpi : Nat \cup {Nothing}, kc : Nat \cup {Nothing}]
      /\ token'.kc = token.kc /\ (token.kpi = req[w].old => token'.kpi = Nothing)
  BY <1>2, <1>5
<1>7. past.overlapped \/ "token" \in past.cut \/ token'.kpi = token'.kc
  BY <1>1, <1>3, <1>6 DEF RequestAt, Company, OnToken, Lone
<1>8. OnToken(w)'
  BY <1>3, <1>4 DEF OnToken
<1>9. QED
  BY <1>1, <1>2, <1>3, <1>5, <1>6, <1>7, <1>8, TokenGoesOn

LEMMA MakeTokenStep ==
  ASSUME AccountsInv, NEW w \in Others, U!MakeToken(w)
  PROVE  AccountsInv'
<1>1. req[w] \in OfToken /\ req[w].pc = "make" /\ Doing(w) /\ U!Busy(w) /\ RequestAt(w)
  BY Runs, Which DEF U!MakeToken
<1>2. TokenKept
  BY DEF U!MakeToken, TokenKept
<1>3. token \in [kpi : Nat \cup {Nothing}, kc : Nat \cup {Nothing}] /\ used \in [requests : Nat, tokens : Nat]
  BY DEF AccountsInv, AccountTypes, U!AccountsTypeOK
<1>4. CASE token.kpi # Nothing
  <2> DEFINE r == [req[w] EXCEPT !.pc = "done"]
  <2>1. req' = [req EXCEPT ![w] = r] /\ token' = token /\ used' = used
    BY <1>4 DEF U!MakeToken, U!Goes
  <2>2. /\ r \in OfToken /\ r \in Doings /\ r.pc = "done" /\ r.kind = "token" /\ req[w].kind = "token"
        /\ r.alone = req[w].alone
    BY <1>1 DEF OfToken, Doings
  <2> HIDE DEF r
  <2>3. req'[w] = r
    BY <2>1 DEF AccountsInv, AccountTypes
  <2>4. past.overlapped \/ "token" \in past.cut \/ token'.kpi = token'.kc
    BY <1>1, <2>1, <2>2 DEF RequestAt, Company, OnToken, Lone
  <2>5. OnToken(w)'
    BY <2>2, <2>3 DEF OnToken
  <2>6. QED
    BY <1>1, <1>2, <1>3, <2>1, <2>2, <2>4, <2>5, TokenGoesOn
<1>5. CASE token.kpi = Nothing
  <2> DEFINE n == used.tokens + 1
             r == U!Extend(req[w], [pc |-> "tell", new |-> n])
  <2>1. req' = [req EXCEPT ![w] = r] /\ token' = [token EXCEPT !.kpi = n]
        /\ used' = [used EXCEPT !.tokens = n]
    BY <1>5 DEF U!MakeToken, U!Gives
  <2>2. n \in Nat
    BY <1>3
  <2> HIDE DEF n
  <2>3. /\ r \in OfKey /\ r.pc = "tell" /\ r.kind = "token" /\ req[w].kind = "token"
        /\ r.alone = req[w].alone /\ r.new = n
    BY <1>1, <2>2 DEF OfToken, OfKey, U!Extend
  <2>4. r \in Doings
    BY <2>3 DEF Doings
  <2> HIDE DEF r
  <2>5. req'[w] = r
    BY <2>1 DEF AccountsInv, AccountTypes
  <2>6. token' \in [kpi : Nat \cup {Nothing}, kc : Nat \cup {Nothing}] /\ token'.kpi = n /\ token'.kc = token.kc
        /\ used' \in [requests : Nat, tokens : Nat]
    BY <1>3, <2>1, <2>2
  <2>7. OnToken(w)'
    BY <1>1, <1>2, <1>5, <2>3, <2>5, <2>6 DEF RequestAt, OnToken, Lone, Doing, TokenKept
  <2>8. QED
    BY <1>1, <1>2, <2>1, <2>3, <2>4, <2>6, <2>7, TokenGoesOn
<1>6. QED
  BY <1>4, <1>5

LEMMA TellTokenStep ==
  ASSUME AccountsInv, NEW w \in Others, U!TellToken(w)
  PROVE  AccountsInv'
<1> DEFINE r == [req[w] EXCEPT !.pc = "done"]
<1>1. req[w] \in OfKey /\ req[w].pc = "tell" /\ Doing(w) /\ U!Busy(w) /\ RequestAt(w)
  BY Runs, Which DEF U!TellToken
<1>2. TokenKept /\ used' = used /\ req' = [req EXCEPT ![w] = r]
      /\ token' = IF token.kc = Nothing THEN [token EXCEPT !.kc = req[w].new] ELSE token
  BY DEF U!TellToken, U!Goes, TokenKept
<1>3. /\ r \in OfKey /\ r \in Doings /\ r.pc = "done" /\ r.kind = "token" /\ req[w].kind = "token"
      /\ r.alone = req[w].alone /\ req[w].new \in Nat
  BY <1>1 DEF OfKey, Doings
<1> HIDE DEF r
<1>4. req'[w] = r
  BY <1>2 DEF AccountsInv, AccountTypes
<1>5. token \in [kpi : Nat \cup {Nothing}, kc : Nat \cup {Nothing}] /\ used' \in [requests : Nat, tokens : Nat]
  BY <1>2 DEF AccountsInv, AccountTypes, U!AccountsTypeOK
<1>6. token' \in [kpi : Nat \cup {Nothing}, kc : Nat \cup {Nothing}]
      /\ token'.kpi = token.kpi /\ (token.kc = Nothing => token'.kc = req[w].new)
  BY <1>2, <1>3, <1>5
<1>7. past.overlapped \/ "token" \in past.cut \/ token'.kpi = token'.kc
  BY <1>1, <1>3, <1>6 DEF RequestAt, Company, OnToken, Lone
<1>8. OnToken(w)'
  BY <1>3, <1>4 DEF OnToken
<1>9. QED
  BY <1>1, <1>2, <1>3, <1>5, <1>6, <1>7, <1>8, TokenGoesOn

(* A step of a request that is about the profile or the details.           *)
ProfileKept ==
  UNCHANGED <<user, kc, method, token, used>>

LEMMA ProfileGoesOn ==
  ASSUME AccountsInv, NEW w \in Others, U!Busy(w), NEW r \in Doings,
         r.alone = req[w].alone, r.kind = req[w].kind, r.kind \in {"mfa", "update", "copy"},
         req' = [req EXCEPT ![w] = r], ProfileKept,
         profile' \in U!Profile \cup {Nothing}, details' \in U!Details \cup {Nothing},
         past' \in PastType, past'.cut = past.cut, past'.overlapped = past.overlapped,
         profile # Nothing => profile' # Nothing,
         r.pc \in {"flag", "read", "write", "details", "copy"} => profile' # Nothing,
         OnProfile(w)', BlanksLeft'
  PROVE  AccountsInv'
<1>1. U!AccountsTypeOK'
  BY DEF AccountsInv, AccountTypes, ProfileKept, U!AccountsTypeOK
<1>2. user # Nothing => user' # Nothing
  BY DEF ProfileKept
<1>3. /\ req'[w] = r /\ \A v \in Others \ {w} : req'[v] = req[v]
      /\ AccountTypes'
      /\ \A v \in Others : Company(v)'
      /\ \A v \in Others \ {w} : RequestAt(v)'
  BY <1>1, <1>2, GoesOnAs
<1>4. OnUser(w)' /\ OnRights(w)' /\ OnToken(w)'
  BY <1>3 DEF OnUser, OnRights, OnToken
<1>5. RequestAt(w)'
  BY <1>3, <1>4 DEF RequestAt
<1>6. UserLeft'
  <2>1. \A v \in Others : Registering(v) => Registering(v)'
    BY <1>3 DEF Registering, Lone, Doing
  <2>2. QED
    BY <2>1 DEF AccountsInv, LeftBehind, UserLeft, ProfileKept
<1>7. TokensLeft'
  <2>1. \A v \in Others : U!Busy(v) /\ req[v].kind = "token" => (U!Busy(v) /\ req[v].kind = "token")'
    BY <1>3 DEF U!Busy
  <2>2. QED
    BY <2>1 DEF AccountsInv, LeftBehind, TokensLeft, ProfileKept
<1>8. MethodLeft'
  BY DEF AccountsInv, LeftBehind, MethodLeft, ProfileKept
<1>9. QED
  BY <1>3, <1>5, <1>6, <1>7, <1>8 DEF AccountsInv, LeftBehind

(* Details that nobody touches keep their blanks.                          *)
LEMMA BlanksKept ==
  ASSUME AccountsInv, UNCHANGED <<details, past>>
  PROVE  BlanksLeft' /\ details' \in U!Details \cup {Nothing} /\ past' \in PastType
BY DEF AccountsInv, LeftBehind, BlanksLeft, AccountTypes, U!AccountsTypeOK

(* A profile that is made for a request is one of KoBoCAT's.               *)
LEMMA ProfileMade ==
  ASSUME AccountsInv, profile' = IF profile = Nothing THEN U!NoProfile ELSE profile
  PROVE  profile' \in U!Profile /\ profile' # Nothing /\ (profile # Nothing => profile' = profile)
<1>1. U!NoProfile \in U!Profile
  BY DEF U!NoProfile, U!Profile
<1>2. profile' \in U!Profile
  BY <1>1 DEF AccountsInv, AccountTypes, U!AccountsTypeOK
<1>3. QED
  BY <1>2, AccountsAssumption

LEMMA ProfileForMfaStep ==
  ASSUME AccountsInv, NEW w \in Others, U!ProfileForMfa(w)
  PROVE  AccountsInv'
<1> DEFINE r == [req[w] EXCEPT !.pc = "flag"]
<1>1. req[w] \in OfSwitch /\ req[w].pc = "mfa" /\ Doing(w) /\ U!Busy(w) /\ RequestAt(w)
  BY Runs, Which DEF U!ProfileForMfa
<1>2. ProfileKept /\ details' = details /\ past' = past /\ req' = [req EXCEPT ![w] = r]
      /\ profile' = IF profile = Nothing THEN U!NoProfile ELSE profile
  BY DEF U!ProfileForMfa, U!Goes, ProfileKept
<1>3. /\ r \in OfSwitch /\ r \in Doings /\ r.pc = "flag" /\ r.kind = "mfa" /\ req[w].kind = "mfa"
      /\ r.alone = req[w].alone /\ r.on = req[w].on
  BY <1>1 DEF OfSwitch, Doings
<1> HIDE DEF r
<1>4. req'[w] = r
  BY <1>2 DEF AccountsInv, AccountTypes
<1>5. profile' \in U!Profile /\ profile' # Nothing
  BY <1>2, ProfileMade
<1>6. OnProfile(w)'
  BY <1>1, <1>2, <1>3, <1>4 DEF RequestAt, OnProfile, Lone, Doing, ProfileKept
<1>7. QED
  BY <1>1, <1>2, <1>3, <1>5, <1>6, BlanksKept, ProfileGoesOn

LEMMA FlagMfaStep ==
  ASSUME AccountsInv, NEW w \in Others, U!FlagMfa(w)
  PROVE  AccountsInv'
<1> DEFINE r == [req[w] EXCEPT !.pc = "done"]
<1>1. req[w] \in OfSwitch /\ req[w].pc = "flag" /\ Doing(w) /\ U!Busy(w) /\ RequestAt(w)
  BY Runs, Which DEF U!FlagMfa
<1>2. ProfileKept /\ details' = details /\ past' = past /\ req' = [req EXCEPT ![w] = r]
      /\ profile' = [profile EXCEPT !.mfa = req[w].on]
  BY DEF U!FlagMfa, U!Goes, ProfileKept
<1>3. /\ r \in OfSwitch /\ r \in Doings /\ r.pc = "done" /\ r.kind = "mfa" /\ req[w].kind = "mfa"
      /\ r.alone = req[w].alone /\ r.on = req[w].on /\ r.on \in BOOLEAN
  BY <1>1 DEF OfSwitch, Doings
<1> HIDE DEF r
<1>4. req'[w] = r
  BY <1>2 DEF AccountsInv, AccountTypes
<1>5. profile \in U!Profile
  BY <1>1 DEF RequestAt, Company, AccountsInv, AccountTypes, U!AccountsTypeOK
<1>6. profile' \in U!Profile /\ profile'.mfa = r.on /\ profile' # Nothing
  BY <1>2, <1>3, <1>5, AccountsAssumption DEF U!Profile
<1>7. OnProfile(w)'
  BY <1>1, <1>2, <1>3, <1>4, <1>6 DEF RequestAt, OnProfile, Lone, Doing, ProfileKept
<1>8. QED
  BY <1>1, <1>2, <1>3, <1>6, <1>7, BlanksKept, ProfileGoesOn

LEMMA TriggerStep ==
  ASSUME AccountsInv, NEW w \in Others, U!Trigger(w)
  PROVE  AccountsInv'
<1> DEFINE p == IF req[w].kind = "copy" THEN "copy" ELSE "read"
           r == [req[w] EXCEPT !.pc = p]
<1>1. req[w] \in OfUpdate \cup OfCopy /\ req[w].pc = "trigger" /\ Doing(w) /\ U!Busy(w) /\ RequestAt(w)
  BY Runs, Which DEF U!Trigger
<1>2. ProfileKept /\ details' = details /\ past' = past /\ req' = [req EXCEPT ![w] = r]
      /\ profile' = IF profile = Nothing THEN U!NoProfile ELSE profile
  BY DEF U!Trigger, U!Goes, ProfileKept
<1>3. /\ r \in OfUpdate \cup OfCopy /\ r \in Doings /\ r.pc = p /\ r.kind = req[w].kind
      /\ r.kind \in {"update", "copy"} /\ r.alone = req[w].alone /\ r.read = req[w].read
      /\ (r.kind = "copy" => r.pc = "copy") /\ (r.kind = "update" => r.pc = "read")
  BY <1>1 DEF OfUpdate, OfCopy, Doings
<1> HIDE DEF r, p
<1>4. req'[w] = r
  BY <1>2 DEF AccountsInv, AccountTypes
<1>5. profile' \in U!Profile /\ profile' # Nothing
  BY <1>2, ProfileMade
<1>6. OnProfile(w)'
  BY <1>1, <1>2, <1>3, <1>4 DEF RequestAt, OnProfile, Lone, Doing, ProfileKept
<1>7. QED
  BY <1>1, <1>2, <1>3, <1>5, <1>6, BlanksKept, ProfileGoesOn

LEMMA ReadProfileStep ==
  ASSUME AccountsInv, NEW w \in Others, U!ReadProfile(w)
  PROVE  AccountsInv'
<1> DEFINE r == U!Extend(req[w], [pc |-> "write", found |-> profile])
<1>1. req[w] \in OfUpdate /\ req[w].pc = "read" /\ Doing(w) /\ U!Busy(w) /\ RequestAt(w)
  BY Runs, Which DEF U!ReadProfile
<1>2. ProfileKept /\ details' = details /\ past' = past /\ req' = [req EXCEPT ![w] = r] /\ profile' = profile
  BY DEF U!ReadProfile, U!Gives, ProfileKept
<1>3. profile \in U!Profile /\ profile # Nothing
  BY <1>1 DEF RequestAt, Company, AccountsInv, AccountTypes, U!AccountsTypeOK
<1>4. /\ r \in OfFound /\ r.pc = "write" /\ r.kind = req[w].kind /\ r.kind = "update"
      /\ r.alone = req[w].alone /\ r.read = req[w].read /\ r.found = profile
  BY <1>1, <1>3 DEF OfUpdate, OfFound, U!Extend
<1>5. r \in Doings
  BY <1>4 DEF Doings
<1> HIDE DEF r
<1>6. req'[w] = r
  BY <1>2 DEF AccountsInv, AccountTypes
<1>7. OnProfile(w)'
  BY <1>1, <1>2, <1>4, <1>6 DEF RequestAt, OnProfile, Lone, Doing, ProfileKept
<1>8. QED
  BY <1>1, <1>2, <1>3, <1>4, <1>5, <1>7, BlanksKept, ProfileGoesOn

LEMMA RequireAuthStep ==
  ASSUME AccountsInv, NEW w \in Others, U!RequireAuth(w)
  PROVE  AccountsInv'
<1> DEFINE r == [req[w] EXCEPT !.pc = "details"]
<1>1. req[w] \in OfFound /\ req[w].pc = "write" /\ Doing(w) /\ U!Busy(w) /\ RequestAt(w)
  BY Runs, Which DEF U!RequireAuth
<1>2. ProfileKept /\ details' = details /\ past' = past /\ req' = [req EXCEPT ![w] = r]
      /\ profile' = IF req[w].found.auth # req[w].auth THEN [req[w].found EXCEPT !.auth = req[w].auth] ELSE profile
  BY DEF U!RequireAuth, U!Goes, ProfileKept
<1>3. /\ r \in OfFound /\ r \in Doings /\ r.pc = "details" /\ r.kind = req[w].kind /\ r.kind = "update"
      /\ r.alone = req[w].alone /\ r.read = req[w].read /\ r.auth = req[w].auth
      /\ req[w].found \in U!Profile /\ req[w].auth \in BOOLEAN
  BY <1>1 DEF OfFound, Doings
<1> HIDE DEF r
<1>4. req'[w] = r
  BY <1>2 DEF AccountsInv, AccountTypes
<1>5. profile \in U!Profile
  BY <1>1 DEF RequestAt, Company, AccountsInv, AccountTypes, U!AccountsTypeOK
<1>6. profile' \in U!Profile /\ profile' # Nothing /\ (profile = req[w].found => profile'.auth = r.auth)
  <2>1. profile' \in U!Profile /\ (profile = req[w].found => profile'.auth = r.auth)
    BY <1>2, <1>3, <1>5 DEF U!Profile
  <2>2. QED
    BY <2>1, AccountsAssumption
<1>7. OnProfile(w)'
  BY <1>1, <1>2, <1>3, <1>4, <1>6 DEF RequestAt, OnProfile, Lone, Doing, ProfileKept
<1>8. QED
  BY <1>1, <1>2, <1>3, <1>6, <1>7, BlanksKept, ProfileGoesOn

LEMMA WriteDetailsStep ==
  ASSUME AccountsInv, NEW w \in Others, U!WriteDetails(w)
  PROVE  AccountsInv'
<1> DEFINE r == [req[w] EXCEPT !.pc = "done"]
<1>1. req[w] \in OfFound /\ req[w].pc = "details" /\ Doing(w) /\ U!Busy(w) /\ RequestAt(w)
  BY Runs, Which DEF U!WriteDetails
<1>2. ProfileKept /\ profile' = profile /\ req' = [req EXCEPT ![w] = r]
      /\ details' = [req[w].read EXCEPT !.auth = req[w].auth, !.city = req[w].city]
      /\ past' = [past EXCEPT !.blanked = details'.copied /\ req[w].city = Nothing]
  BY DEF U!WriteDetails, U!Goes, ProfileKept
<1>3. /\ r \in OfFound /\ r \in Doings /\ r.pc = "done" /\ r.kind = req[w].kind /\ r.kind = "update"
      /\ r.alone = req[w].alone /\ r.auth = req[w].auth
      /\ req[w].read \in U!Details /\ req[w].auth \in BOOLEAN /\ req[w].city \in {Nothing, "new"}
  BY <1>1 DEF OfFound, Doings
<1> HIDE DEF r
<1>4. req'[w] = r
  BY <1>2 DEF AccountsInv, AccountTypes
<1>5. details' \in U!Details /\ details'.auth = r.auth /\ details'.city = req[w].city
      /\ details'.copied \in BOOLEAN
  BY <1>2, <1>3 DEF U!Details
<1>6. details' # Nothing
  BY <1>5, AccountsAssumption
<1>7. past' \in PastType /\ past'.cut = past.cut /\ past'.overlapped = past.overlapped
      /\ past'.blanked = (details'.copied /\ req[w].city = Nothing)
  BY <1>2, <1>5 DEF AccountsInv, AccountTypes, PastType
<1>8. profile' \in U!Profile \cup {Nothing} /\ profile' # Nothing
  BY <1>1, <1>2 DEF RequestAt, Company, AccountsInv, AccountTypes, U!AccountsTypeOK
<1>9. OnProfile(w)'
  BY <1>1, <1>2, <1>3, <1>4, <1>5, <1>6, <1>8 DEF RequestAt, OnProfile, Lone, Doing, ProfileKept
<1>10. BlanksLeft'
  BY <1>5, <1>6, <1>7 DEF BlanksLeft
<1>11. QED
  BY <1>1, <1>2, <1>3, <1>5, <1>7, <1>8, <1>9, <1>10, ProfileGoesOn

LEMMA CopyProfileStep ==
  ASSUME AccountsInv, NEW w \in Others, U!CopyProfile(w)
  PROVE  AccountsInv'
<1> DEFINE r == [req[w] EXCEPT !.pc = "done"]
<1>1. req[w] \in OfCopy /\ req[w].pc = "copy" /\ Doing(w) /\ U!Busy(w) /\ RequestAt(w)
  BY Runs, Which DEF U!CopyProfile
<1>2. ProfileKept /\ profile' = profile /\ past' = past /\ req' = [req EXCEPT ![w] = r]
      /\ details' = IF req[w].read.city = Nothing
                    THEN [req[w].read EXCEPT !.city = profile.city, !.copied = TRUE] ELSE req[w].read
  BY DEF U!CopyProfile, U!Goes, ProfileKept
<1>3. /\ r \in OfCopy /\ r \in Doings /\ r.pc = "done" /\ r.kind = req[w].kind /\ r.kind = "copy"
      /\ r.alone = req[w].alone /\ req[w].read \in U!Details
  BY <1>1 DEF OfCopy, Doings
<1> HIDE DEF r
<1>4. req'[w] = r
  BY <1>2 DEF AccountsInv, AccountTypes
<1>5. profile \in U!Profile /\ profile # Nothing
  BY <1>1 DEF RequestAt, Company, AccountsInv, AccountTypes, U!AccountsTypeOK
<1>6. details' \in U!Details
  BY <1>2, <1>3, <1>5 DEF U!Details, U!Profile
<1>7. past' \in PastType
  BY <1>2 DEF AccountsInv, AccountTypes
<1>8. OnProfile(w)'
  BY <1>3, <1>4 DEF OnProfile
<1>9. ~past.blanked \/ past.overlapped
  BY <1>1, <1>3 DEF RequestAt, Company, OnProfile, Lone, AccountsInv, LeftBehind, BlanksLeft
<1>10. BlanksLeft'
  BY <1>2, <1>9 DEF BlanksLeft
<1>11. QED
  BY <1>1, <1>2, <1>3, <1>5, <1>6, <1>7, <1>8, <1>10, ProfileGoesOn

(* A request begins: those that run are not alone any more, and those that *)
(* are over are forgotten.                                                 *)
Running(w) == {v \in Others : v # w /\ U!Busy(v)}

Unalone(r) == [r EXCEPT !.alone = FALSE]

LEMMA UnaloneIs ==
  ASSUME NEW r \in Doings
  PROVE  Unalone(r) \in Doings /\ Unalone(r).alone = FALSE /\ Unalone(r).kind = r.kind
         /\ Unalone(r).pc = r.pc
<1>1. ASSUME r \in OfUser PROVE Unalone(r) \in OfUser
  BY <1>1 DEF Unalone, OfUser
<1>2. ASSUME r \in OfNew PROVE Unalone(r) \in OfNew
  BY <1>2 DEF Unalone, OfNew
<1>3. ASSUME r \in OfRights PROVE Unalone(r) \in OfRights
  BY <1>3 DEF Unalone, OfRights
<1>4. ASSUME r \in OfLacks PROVE Unalone(r) \in OfLacks
  BY <1>4 DEF Unalone, OfLacks
<1>5. ASSUME r \in OfToken PROVE Unalone(r) \in OfToken
  BY <1>5 DEF Unalone, OfToken
<1>6. ASSUME r \in OfKey PROVE Unalone(r) \in OfKey
  BY <1>6 DEF Unalone, OfKey
<1>7. ASSUME r \in OfMethod PROVE Unalone(r) \in OfMethod
  BY <1>7 DEF Unalone, OfMethod
<1>8. ASSUME r \in OfSwitch PROVE Unalone(r) \in OfSwitch
  BY <1>8 DEF Unalone, OfSwitch
<1>9. ASSUME r \in OfUpdate PROVE Unalone(r) \in OfUpdate
  BY <1>9 DEF Unalone, OfUpdate
<1>10. ASSUME r \in OfFound PROVE Unalone(r) \in OfFound
  BY <1>10 DEF Unalone, OfFound
<1>11. ASSUME r \in OfCopy PROVE Unalone(r) \in OfCopy
  BY <1>11 DEF Unalone, OfCopy
<1>12. Unalone(r) \in Doings
  BY <1>1, <1>2, <1>3, <1>4, <1>5, <1>6, <1>7, <1>8, <1>9, <1>10, <1>11 DEF Doings
<1>13. Unalone(r).alone = FALSE /\ Unalone(r).kind = r.kind /\ Unalone(r).pc = r.pc
  BY DEF Unalone, Doings, OfUser, OfNew, OfRights, OfLacks, OfToken, OfKey, OfMethod, OfSwitch,
     OfUpdate,
         OfFound, OfCopy
<1>14. QED
  BY <1>12, <1>13

(* What a request that begins finds: whoever runs is about a user that is  *)
(* there, unless it registers one.                                         *)
LEMMA RunningAre ==
  ASSUME AccountsInv, NEW w \in Others, NEW v \in Running(w)
  PROVE  /\ v \in Others /\ v # w /\ req[v] \in Doings /\ Doing(v) /\ Company(v)
         /\ user # Nothing => req[v].kind # "register"
         /\ user = Nothing => req[v].kind = "register"
<1>1. v \in Others /\ v # w /\ U!Busy(v)
  BY DEF Running
<1>2. req[v] \in Doings /\ Doing(v) /\ RequestAt(v)
  BY <1>1, IdleIs DEF AccountsInv, AccountTypes, U!Busy, Doing
<1>3. req[v].kind = "register" => user = Nothing
  BY <1>1, <1>2 DEF RequestAt, Company, OnUser, Lone, U!Busy
<1>4. QED
  BY <1>1, <1>2, <1>3 DEF RequestAt, Company

LEMMA BeginsAs ==
  ASSUME AccountsInv, NEW w \in Others, NEW r0, U!Begin(w, r0), NEW r \in Doings,
         r = U!Extend(r0, [alone |-> Running(w) = {}]), r.alone = (Running(w) = {}),
         r.kind = "register" => Running(w) = {}, r.kind # "register" => user # Nothing /\ user' # Nothing,
         r.pc \notin {"flag", "read", "write", "details", "copy"},
         profile' = profile, kc' = kc,
         user' \in U!Account \cup {Nothing}, details' \in U!Details \cup {Nothing},
         method' \in {"none", "off", "on"}, token' \in [kpi : Nat \cup {Nothing}, kc : Nat \cup {Nothing}]
  PROVE  /\ req'[w] = r /\ AccountTypes'
         /\ \A v \in Others : Company(v)'
         /\ \A v \in Others \ {w} : RequestAt(v)'
         /\ past'.cut = past.cut /\ past'.blanked = past.blanked
         /\ past'.overlapped = (past.overlapped \/ Running(w) # {})
<1>1. req' = [v \in Others |-> IF v = w THEN r ELSE IF v \in Running(w) THEN Unalone(req[v]) ELSE U!Idle]
      /\ past' = [past EXCEPT !.overlapped = past.overlapped \/ Running(w) # {}]
      /\ used' = [used EXCEPT !.requests = used.requests + 1]
  BY DEF U!Begin, Running, Unalone
<1>2. past' \in PastType /\ past'.cut = past.cut /\ past'.blanked = past.blanked
      /\ past'.overlapped = (past.overlapped \/ Running(w) # {})
  BY <1>1 DEF AccountsInv, AccountTypes, PastType
<1>3. used' \in [requests : Nat, tokens : Nat]
  BY <1>1 DEF AccountsInv, AccountTypes, U!AccountsTypeOK
<1>4. ASSUME NEW v \in Others, v # w
      PROVE  /\ req'[v] \in Doings \cup {U!Idle} /\ ~Lone(v)'
             /\ Company(v)'
  <2>1. CASE v \in Running(w)
    <3>1. req'[v] = Unalone(req[v]) /\ Running(w) # {}
      BY <1>1, <1>4, <2>1
    <3>2. req[v] \in Doings /\ Doing(v) /\ Company(v) /\ (user # Nothing => req[v].kind # "register")
      BY <2>1, RunningAre
    <3>3. req'[v] \in Doings /\ req'[v].alone = FALSE /\ req'[v].kind = req[v].kind /\ req'[v].pc = req[v].pc
      BY <3>1, <3>2, UnaloneIs
    <3>4. past'.overlapped
      BY <1>2, <3>1
    <3>5. user # Nothing /\ user' # Nothing
      BY <3>1
    <3>6. Company(v)'
      BY <3>2, <3>3, <3>4, <3>5 DEF Company, Lone, Doing
    <3>7. QED
      BY <3>3, <3>6 DEF Lone
  <2>2. CASE v \notin Running(w)
    <3>1. req'[v] = U!Idle
      BY <1>1, <1>4, <2>2
    <3>2. QED
      BY <3>1, IdleIs DEF Lone, Doing, Company
  <2>3. QED
    BY <2>1, <2>2
<1>5. req'[w] = r
  BY <1>1
<1>6. AccountTypes'
  <2>1. U!AccountsTypeOK'
    BY <1>3 DEF AccountsInv, AccountTypes, U!AccountsTypeOK
  <2>2. req' \in [Others -> Doings \cup {U!Idle}]
    BY <1>1, <1>4, <1>5
  <2>3. QED
    BY <1>2, <2>1, <2>2 DEF AccountTypes
<1>7. Company(w)'
  <2>1. r.pc # "idle"
    BY Which
  <2>2. Running(w) = {} => \A v \in Others \ {w} : req'[v] = U!Idle
    BY <1>1
  <2>3. QED
    BY <1>2, <1>5, <2>1, <2>2 DEF Company, Lone, Doing
<1>8. ASSUME NEW v \in Others \ {w} PROVE RequestAt(v)'
  BY <1>4 DEF RequestAt, OnUser, OnRights, OnToken, OnProfile
<1>9. QED
  BY <1>2, <1>4, <1>5, <1>6, <1>7, <1>8

(* Before a request begins, nothing that runs alone is in its way.         *)
LEMMA BeforeItBegins ==
  ASSUME AccountsInv, NEW w \in Others, ~U!Busy(w)
  PROVE  ~past.overlapped /\ "token" \notin past.cut /\ Running(w) = {} => token.kpi = token.kc
BY DEF AccountsInv, LeftBehind, TokensLeft, Running

(* A request that does not register anybody begins.                        *)
LEMMA OthersBegin ==
  ASSUME AccountsInv, NEW w \in Others, NEW r0, U!Begin(w, r0), NEW r \in Doings,
         r = U!Extend(r0, [alone |-> Running(w) = {}]), r.alone = (Running(w) = {}),
         r.kind # "register", user # Nothing, user' \in U!Account,
         r.pc \notin {"flag", "read", "write", "details", "copy"},
         profile' = profile, kc' = kc,
         details' \in U!Details \cup {Nothing}, details # Nothing => details' = details,
         method' \in {"none", "off", "on"}, token' \in [kpi : Nat \cup {Nothing}, kc : Nat \cup {Nothing}],
         token' = token,
         (OnUser(w) /\ OnRights(w) /\ OnToken(w) /\ OnProfile(w))'
  PROVE  AccountsInv'
<1>1. user' # Nothing
  BY AccountsAssumption
<1>2. user' \in U!Account \cup {Nothing}
  OBVIOUS
<1>3. /\ req'[w] = r /\ AccountTypes'
      /\ \A v \in Others : Company(v)'
      /\ \A v \in Others \ {w} : RequestAt(v)'
      /\ past'.cut = past.cut /\ past'.blanked = past.blanked
      /\ past'.overlapped = (past.overlapped \/ Running(w) # {})
  BY <1>1, <1>2, BeginsAs
<1>4. RequestAt(w)'
  BY <1>3 DEF RequestAt
<1>5. UserLeft'
  BY <1>1, <1>3 DEF AccountsInv, LeftBehind, UserLeft
<1>6. MethodLeft'
  BY <1>1 DEF MethodLeft
<1>7. BlanksLeft'
  BY <1>3 DEF AccountsInv, LeftBehind, BlanksLeft
<1>8. TokensLeft'
  <2>1. ~U!Busy(w)
    BY DEF U!Begin
  <2>2. QED
    BY <1>3, <2>1, BeforeItBegins DEF TokensLeft
<1>9. QED
  BY <1>3, <1>4, <1>5, <1>6, <1>7, <1>8 DEF AccountsInv, LeftBehind

LEMMA RegisterStep ==
  ASSUME AccountsInv, NEW w \in Others, U!Register(w)
  PROVE  AccountsInv'
<1> DEFINE account == [pk |-> U!Version, data |-> U!Version, may |-> TRUE]
           r0 == [pc |-> "sync", kind |-> "register", row |-> account]
           r == U!Extend(r0, [alone |-> Running(w) = {}])
<1>1. U!Begin(w, r0) /\ user = Nothing /\ user' = user /\ kc' = kc /\ profile' = profile
      /\ UNCHANGED <<method, details, token>>
  BY DEF U!Register
<1>2. Running(w) = {}
  BY <1>1, RunningAre DEF U!Register, Running
<1>3. account \in U!Account /\ account.may
  BY DEF U!Version, U!Account, AccountsInv, AccountTypes, U!AccountsTypeOK
<1> HIDE DEF account
<1>4. r \in OfUser /\ r.pc = "sync" /\ r.kind = "register" /\ r.row = account /\ r.alone = (Running(w) = {})
  BY <1>3 DEF OfUser, U!Extend
<1>5. r \in Doings
  BY <1>4 DEF Doings
<1> HIDE DEF r0, r
<1>6. r = U!Extend(r0, [alone |-> Running(w) = {}])
  BY DEF r
<1>7. /\ req'[w] = r /\ AccountTypes'
      /\ \A v \in Others : Company(v)'
      /\ \A v \in Others \ {w} : RequestAt(v)'
      /\ past'.cut = past.cut /\ past'.blanked = past.blanked
      /\ past'.overlapped = past.overlapped
  <2>1. /\ user' \in U!Account \cup {Nothing} /\ details' \in U!Details \cup {Nothing}
        /\ method' \in {"none", "off", "on"} /\ token' \in [kpi : Nat \cup {Nothing}, kc : Nat \cup {Nothing}]
    BY <1>1 DEF AccountsInv, AccountTypes, U!AccountsTypeOK
  <2>2. past.overlapped \in BOOLEAN
    BY DEF AccountsInv, AccountTypes, PastType
  <2>3. QED
    BY <1>1, <1>2, <1>4, <1>5, <1>6, <2>1, <2>2, BeginsAs
<1>8. RequestAt(w)'
  BY <1>1, <1>3, <1>4, <1>7 DEF RequestAt, OnUser, OnRights, OnToken, OnProfile, Past
<1>9. UserLeft'
  <2>1. kc # Nothing => "register" \in past.cut
    <3>1. ASSUME NEW v \in Others, Registering(v) PROVE FALSE
      <4>1. req[v] \in Doings /\ Lone(v) /\ OnUser(v) /\ req[v].kind = "register" /\ req[v].pc \in Past
        BY <3>1, IdleIs DEF AccountsInv, AccountTypes, RequestAt, Registering, Lone, Doing
      <4>2. req[v].row \in U!Account
        BY <4>1 DEF Doings, OfUser, OfNew, OfRights, OfLacks, OfToken, OfKey, OfMethod, OfSwitch,
           OfUpdate,
           OfFound, OfCopy
      <4>3. req[v].pc # "done"
        BY <1>1, <4>1, <4>2, AccountsAssumption DEF OnUser
      <4>4. U!Busy(v)
        BY <4>1, <4>3 DEF U!Busy, Past
      <4>5. QED
        BY <4>1, <4>4 DEF U!Register
    <3>2. QED
      BY <1>1, <3>1 DEF AccountsInv, LeftBehind, UserLeft
  <2>2. QED
    BY <1>1, <1>7, <2>1 DEF AccountsInv, LeftBehind, UserLeft
<1>10. TokensLeft'
  <2>1. ~U!Busy(w)
    BY <1>1 DEF U!Begin
  <2>2. QED
    BY <1>1, <1>2, <1>7, <2>1, BeforeItBegins DEF TokensLeft
<1>11. MethodLeft' /\ BlanksLeft'
  BY <1>1, <1>7 DEF AccountsInv, LeftBehind, MethodLeft, BlanksLeft
<1>12. QED
  BY <1>7, <1>8, <1>9, <1>10, <1>11 DEF AccountsInv, LeftBehind

(* What all of these find.                                                 *)
LEMMA Found ==
  ASSUME AccountsInv
  PROVE  /\ user # Nothing => user \in U!Account
         /\ details \in U!Details \cup {Nothing} /\ method \in {"none", "off", "on"}
         /\ token \in [kpi : Nat \cup {Nothing}, kc : Nat \cup {Nothing}]
         /\ U!ReadDetails \in U!Details /\ (details # Nothing => U!ReadDetails = details)
         /\ method # "none" => user # Nothing
<1>1. U!NoDetails \in U!Details
  BY DEF U!NoDetails, U!Details
<1>2. QED
  BY <1>1 DEF AccountsInv, AccountTypes, U!AccountsTypeOK, U!ReadDetails, LeftBehind, MethodLeft

LEMMA ChangeStep ==
  ASSUME AccountsInv, NEW w \in Others, U!Change(w)
  PROVE  AccountsInv'
<1> DEFINE r0 == [pc |-> "sync", kind |-> "change", row |-> user']
           r == U!Extend(r0, [alone |-> Running(w) = {}])
<1>1. U!Begin(w, r0) /\ user # Nothing /\ user' = [user EXCEPT !.data = U!Version] /\ kc' = kc
      /\ profile' = profile /\ UNCHANGED <<method, details, token>>
  BY DEF U!Change
<1>2. user' \in U!Account
  <2>1. U!Version \in Nat
    BY DEF U!Version, AccountsInv, AccountTypes, U!AccountsTypeOK
  <2>2. QED
    BY <1>1, <2>1, Found DEF U!Account
<1>3. r \in OfUser /\ r.pc = "sync" /\ r.kind = "change" /\ r.row = user' /\ r.alone = (Running(w) = {})
  BY <1>2 DEF OfUser, U!Extend
<1>4. r \in Doings
  BY <1>3 DEF Doings
<1> HIDE DEF r0, r
<1>5. r = U!Extend(r0, [alone |-> Running(w) = {}])
  BY DEF r
<1>6. req'[w] = r
  <2>1. w \in Others
    OBVIOUS
  <2>2. req'[w] = U!Extend(r0, [alone |-> Running(w) = {}])
    BY <1>1 DEF U!Begin, Running
  <2>3. QED
    BY <1>5, <2>2
<1>7. (OnUser(w) /\ OnRights(w) /\ OnToken(w) /\ OnProfile(w))'
  BY <1>3, <1>6 DEF OnUser, OnRights, OnToken, OnProfile, Past
<1>8. QED
  BY <1>1, <1>2, <1>3, <1>4, <1>5, <1>7, Found, OthersBegin

LEMMA GrantDefaultsStep ==
  ASSUME AccountsInv, NEW w \in Others, U!GrantDefaults(w)
  PROVE  AccountsInv'
<1> DEFINE r0 == [pc |-> "lack", kind |-> "grant"]
           r == U!Extend(r0, [alone |-> Running(w) = {}])
<1>1. U!Begin(w, r0) /\ user # Nothing /\ user' = [user EXCEPT !.may = TRUE] /\ kc' = kc
      /\ profile' = profile /\ UNCHANGED <<method, details, token>>
  BY DEF U!GrantDefaults
<1>2. user' \in U!Account /\ user'.may
  BY <1>1, Found DEF U!Account
<1>3. r \in OfRights /\ r.pc = "lack" /\ r.kind = "grant" /\ r.alone = (Running(w) = {})
  BY DEF OfRights, U!Extend
<1>4. r \in Doings
  BY <1>3 DEF Doings
<1>5. req'[w] = r
  BY <1>1 DEF U!Begin, Running
<1> HIDE DEF r0, r
<1>6. r = U!Extend(r0, [alone |-> Running(w) = {}])
  BY DEF r
<1>7. (OnUser(w) /\ OnRights(w) /\ OnToken(w) /\ OnProfile(w))'
  BY <1>2, <1>3, <1>5 DEF OnUser, OnRights, OnToken, OnProfile
<1>8. QED
  BY <1>1, <1>2, <1>3, <1>4, <1>6, <1>7, Found, OthersBegin

LEMMA DeleteTokenStep ==
  ASSUME AccountsInv, NEW w \in Others, U!DeleteToken(w)
  PROVE  AccountsInv'
<1> DEFINE r0 == [pc |-> "revoke", kind |-> "token", old |-> token.kpi]
           r == U!Extend(r0, [alone |-> Running(w) = {}])
<1>1. U!Begin(w, r0) /\ user # Nothing /\ user' = user /\ kc' = kc /\ token' = token
      /\ profile' = profile /\ UNCHANGED <<method, details>>
  BY DEF U!DeleteToken
<1>2. token' \in [kpi : Nat \cup {Nothing}, kc : Nat \cup {Nothing}] /\ token.kpi \in Nat \cup {Nothing}
  BY <1>1, Found
<1>3. r \in OfToken /\ r.pc = "revoke" /\ r.kind = "token" /\ r.old = token.kpi /\ r.alone = (Running(w) = {})
  BY <1>2 DEF OfToken, U!Extend
<1>4. r \in Doings
  BY <1>3 DEF Doings
<1>5. req'[w] = r /\ past' = [past EXCEPT !.overlapped = past.overlapped \/ Running(w) # {}] /\ ~U!Busy(w)
  BY <1>1 DEF U!Begin, Running
<1> HIDE DEF r0, r
<1>6. r = U!Extend(r0, [alone |-> Running(w) = {}])
  BY DEF r
<1>7. past'.cut = past.cut /\ (past'.overlapped = (past.overlapped \/ Running(w) # {}))
  BY <1>5 DEF AccountsInv, AccountTypes, PastType
<1>8. OnToken(w)'
  <2>1. ~past'.overlapped /\ "token" \notin past'.cut => token.kpi = token.kc
    BY <1>5, <1>7, BeforeItBegins
  <2>2. QED
    BY <1>1, <1>3, <1>5, <2>1 DEF OnToken
<1>9. (OnUser(w) /\ OnRights(w) /\ OnToken(w) /\ OnProfile(w))'
  BY <1>3, <1>5, <1>8 DEF OnUser, OnRights, OnProfile
<1>10. QED
  BY <1>1, <1>2, <1>3, <1>4, <1>6, <1>9, Found, OthersBegin

LEMMA AskForTokenStep ==
  ASSUME AccountsInv, NEW w \in Others, U!AskForToken(w)
  PROVE  AccountsInv'
<1> DEFINE r0 == [pc |-> "make", kind |-> "token", old |-> Nothing]
           r == U!Extend(r0, [alone |-> Running(w) = {}])
<1>1. U!Begin(w, r0) /\ user # Nothing /\ user' = user /\ kc' = kc /\ token' = token
      /\ profile' = profile /\ UNCHANGED <<method, details>>
  BY DEF U!AskForToken
<1>2. token' \in [kpi : Nat \cup {Nothing}, kc : Nat \cup {Nothing}] /\ token.kpi \in Nat \cup {Nothing}
  BY <1>1, Found
<1>3. r \in OfToken /\ r.pc = "make" /\ r.kind = "token" /\ r.old = Nothing /\ r.alone = (Running(w) = {})
  BY <1>2 DEF OfToken, U!Extend
<1>4. r \in Doings
  BY <1>3 DEF Doings
<1>5. req'[w] = r /\ past' = [past EXCEPT !.overlapped = past.overlapped \/ Running(w) # {}] /\ ~U!Busy(w)
  BY <1>1 DEF U!Begin, Running
<1> HIDE DEF r0, r
<1>6. r = U!Extend(r0, [alone |-> Running(w) = {}])
  BY DEF r
<1>7. past'.cut = past.cut /\ (past'.overlapped = (past.overlapped \/ Running(w) # {}))
  BY <1>5 DEF AccountsInv, AccountTypes, PastType
<1>8. OnToken(w)'
  <2>1. ~past'.overlapped /\ "token" \notin past'.cut => token.kpi = token.kc
    BY <1>5, <1>7, BeforeItBegins
  <2>2. QED
    BY <1>1, <1>3, <1>5, <2>1 DEF OnToken
<1>9. (OnUser(w) /\ OnRights(w) /\ OnToken(w) /\ OnProfile(w))'
  BY <1>3, <1>5, <1>8 DEF OnUser, OnRights, OnProfile
<1>10. QED
  BY <1>1, <1>2, <1>3, <1>4, <1>6, <1>9, Found, OthersBegin

LEMMA MakeMethodStep ==
  ASSUME AccountsInv, NEW w \in Others, U!MakeMethod(w)
  PROVE  AccountsInv'
<1> DEFINE r0 == [pc |-> "done", kind |-> "make"]
           r == U!Extend(r0, [alone |-> Running(w) = {}])
<1>1. U!Begin(w, r0) /\ user # Nothing /\ user' = user /\ kc' = kc /\ method' = "off"
      /\ profile' = profile /\ UNCHANGED <<details, token>>
  BY DEF U!MakeMethod
<1>2. r \in OfMethod /\ r.pc = "done" /\ r.kind = "make" /\ r.alone = (Running(w) = {})
  BY DEF OfMethod, U!Extend
<1>3. r \in Doings
  BY <1>2 DEF Doings
<1>4. req'[w] = r
  BY <1>1 DEF U!Begin, Running
<1> HIDE DEF r0, r
<1>5. r = U!Extend(r0, [alone |-> Running(w) = {}])
  BY DEF r
<1>6. (OnUser(w) /\ OnRights(w) /\ OnToken(w) /\ OnProfile(w))'
  BY <1>2, <1>4 DEF OnUser, OnRights, OnToken, OnProfile
<1>7. QED
  BY <1>1, <1>2, <1>3, <1>5, <1>6, Found, OthersBegin

LEMMA SwitchMethodStep ==
  ASSUME AccountsInv, NEW w \in Others, NEW to \in {"on", "off", "none"}, U!SwitchMethod(w, to)
  PROVE  AccountsInv'
<1> DEFINE r0 == [pc |-> "mfa", kind |-> "mfa", on |-> to = "on"]
           r == U!Extend(r0, [alone |-> Running(w) = {}])
<1>1. U!Begin(w, r0) /\ user' = user /\ kc' = kc /\ method' = to /\ method # "none"
      /\ profile' = profile /\ UNCHANGED <<details, token>>
  BY DEF U!SwitchMethod
<1>2. r \in OfSwitch /\ r.pc = "mfa" /\ r.kind = "mfa" /\ r.on = (to = "on") /\ r.alone = (Running(w) = {})
  BY DEF OfSwitch, U!Extend
<1>3. r \in Doings
  BY <1>2 DEF Doings
<1>4. req'[w] = r
  BY <1>1 DEF U!Begin, Running
<1> HIDE DEF r0, r
<1>5. r = U!Extend(r0, [alone |-> Running(w) = {}])
  BY DEF r
<1>6. (OnUser(w) /\ OnRights(w) /\ OnToken(w) /\ OnProfile(w))'
  BY <1>1, <1>2, <1>4 DEF OnUser, OnRights, OnToken, OnProfile
<1>7. QED
  BY <1>1, <1>2, <1>3, <1>5, <1>6, Found, OthersBegin

LEMMA UpdateStep ==
  ASSUME AccountsInv, NEW w \in Others, NEW auth \in BOOLEAN, NEW city \in {Nothing, "new"},
         U!Update(w, auth, city)
  PROVE  AccountsInv'
<1> DEFINE r0 == [pc |-> "trigger", kind |-> "update", auth |-> auth, city |-> city, read |-> U!ReadDetails]
           r == U!Extend(r0, [alone |-> Running(w) = {}])
<1>1. U!Begin(w, r0) /\ user # Nothing /\ user' = user /\ kc' = kc /\ details' = U!ReadDetails
      /\ profile' = profile /\ UNCHANGED <<method, token>>
  BY DEF U!Update
<1>2. r \in OfUpdate /\ r.pc = "trigger" /\ r.kind = "update" /\ r.read = U!ReadDetails
      /\ r.alone = (Running(w) = {})
  BY Found DEF OfUpdate, U!Extend
<1>3. r \in Doings
  BY <1>2 DEF Doings
<1>4. req'[w] = r
  BY <1>1 DEF U!Begin, Running
<1> HIDE DEF r0, r
<1>5. r = U!Extend(r0, [alone |-> Running(w) = {}])
  BY DEF r
<1>6. (OnUser(w) /\ OnRights(w) /\ OnToken(w) /\ OnProfile(w))'
  BY <1>1, <1>2, <1>4 DEF OnUser, OnRights, OnToken, OnProfile
<1>7. QED
  BY <1>1, <1>2, <1>3, <1>5, <1>6, Found, OthersBegin

LEMMA CopyStep ==
  ASSUME AccountsInv, NEW w \in Others, U!Copy(w)
  PROVE  AccountsInv'
<1> DEFINE r0 == [pc |-> "trigger", kind |-> "copy", read |-> U!ReadDetails]
           r == U!Extend(r0, [alone |-> Running(w) = {}])
<1>1. U!Begin(w, r0) /\ user # Nothing /\ ~U!ReadDetails.copied /\ user' = user /\ kc' = kc
      /\ details' = U!ReadDetails /\ profile' = profile /\ UNCHANGED <<method, token>>
  BY DEF U!Copy
<1>2. r \in OfCopy /\ r.pc = "trigger" /\ r.kind = "copy" /\ r.read = U!ReadDetails
      /\ r.alone = (Running(w) = {})
  BY Found DEF OfCopy, U!Extend
<1>3. r \in Doings
  BY <1>2 DEF Doings
<1>4. req'[w] = r
  BY <1>1 DEF U!Begin, Running
<1> HIDE DEF r0, r
<1>5. r = U!Extend(r0, [alone |-> Running(w) = {}])
  BY DEF r
<1>6. (OnUser(w) /\ OnRights(w) /\ OnToken(w) /\ OnProfile(w))'
  BY <1>1, <1>2, <1>4 DEF OnUser, OnRights, OnToken, OnProfile
<1>7. QED
  BY <1>1, <1>2, <1>3, <1>5, <1>6, Found, OthersBegin

LEMMA AccountCut ==
  ASSUME AccountsInv, NEW w \in Others, U!Cut(w)
  PROVE  AccountsInv'
<1>1. U!Busy(w) /\ req' = [req EXCEPT ![w] = U!Idle] /\ past' = [past EXCEPT !.cut = past.cut \cup {req[w].kind}]
      /\ UNCHANGED <<user, kc, profile, method, details, token, used>>
  BY DEF U!Cut
<1>2. req[w] \in Doings /\ Doing(w)
  BY <1>1, IdleIs DEF AccountsInv, AccountTypes, U!Busy, Doing
<1>3. /\ req' \in [Others -> Doings \cup {U!Idle}] /\ req'[w] = U!Idle
      /\ \A v \in Others \ {w} : req'[v] = req[v]
  BY <1>1 DEF AccountsInv, AccountTypes
<1>4. past' \in PastType /\ past'.cut = past.cut \cup {req[w].kind} /\ past'.overlapped = past.overlapped
      /\ past'.blanked = past.blanked
  <2>1. req[w].kind \in {"register", "change", "grant", "token", "make", "mfa", "update", "copy"}
    BY <1>2, Which
  <2>2. QED
    BY <1>1, <2>1 DEF AccountsInv, AccountTypes, PastType
<1>5. AccountTypes'
  BY <1>1, <1>3, <1>4 DEF AccountsInv, AccountTypes, U!AccountsTypeOK
<1>6. ASSUME NEW v \in Others PROVE RequestAt(v)'
  <2>1. CASE v = w
    BY <1>3, <2>1, IdleIs DEF RequestAt, Company, OnUser, OnRights, OnToken, OnProfile, Lone, Doing
  <2>2. CASE v # w
    <3>1. req'[v] = req[v] /\ ~Lone(v) /\ ~Lone(v)'
      BY <1>2, <1>3, <2>2, IdleIs DEF AccountsInv, RequestAt, Company, Lone, Doing
    <3>2. Company(v)'
      BY <1>1, <1>4, <3>1 DEF AccountsInv, RequestAt, Company, Lone, Doing
    <3>3. QED
      BY <3>1, <3>2 DEF RequestAt, OnUser, OnRights, OnToken, OnProfile
  <2>3. QED
    BY <2>1, <2>2
<1>7. UserLeft'
  <2>1. \A v \in Others : Registering(v) => Registering(v)' \/ "register" \in past'.cut
    BY <1>3, <1>4 DEF Registering, Lone, Doing
  <2>2. QED
    BY <1>1, <1>4, <2>1 DEF AccountsInv, LeftBehind, UserLeft
<1>8. TokensLeft'
  <2>1. \A v \in Others : U!Busy(v) /\ req[v].kind = "token" =>
          (U!Busy(v) /\ req[v].kind = "token")' \/ "token" \in past'.cut
    BY <1>3, <1>4 DEF U!Busy
  <2>2. QED
    BY <1>1, <1>4, <2>1 DEF AccountsInv, LeftBehind, TokensLeft
<1>9. MethodLeft' /\ BlanksLeft'
  BY <1>1, <1>4 DEF AccountsInv, LeftBehind, MethodLeft, BlanksLeft
<1>10. QED
  BY <1>5, <1>6, <1>7, <1>8, <1>9 DEF AccountsInv, LeftBehind

LEMMA AccountsStarts == U!AccountsInit => AccountsInv
<1> SUFFICES ASSUME U!AccountsInit PROVE AccountsInv
  OBVIOUS
<1>1. AccountTypes
  BY DEF U!AccountsInit, AccountTypes, U!AccountsTypeOK, PastType
<1>2. ASSUME NEW w \in Others PROVE RequestAt(w)
  BY IdleIs DEF U!AccountsInit, RequestAt, Company, OnUser, OnRights, OnToken, OnProfile, Lone,
     Doing
<1>3. LeftBehind
  BY DEF U!AccountsInit, LeftBehind, UserLeft, MethodLeft, TokensLeft, BlanksLeft
<1>4. QED
  BY <1>1, <1>2, <1>3 DEF AccountsInv

LEMMA AccountsSteps == AccountsInv /\ U!AccountsNext => AccountsInv'
<1> SUFFICES ASSUME AccountsInv, U!AccountsNext PROVE AccountsInv'
  OBVIOUS
<1>1. PICK w \in Others :
        \/ U!Register(w) \/ U!Change(w) \/ U!GrantDefaults(w) \/ U!DeleteToken(w) \/ U!AskForToken(w) \/ U!MakeMethod(w) \/ U!Copy(w)
        \/ \E to \in {"on", "off", "none"} : U!SwitchMethod(w, to)
        \/ \E auth \in BOOLEAN, city \in {Nothing, "new"} : U!Update(w, auth, city)
        \/ U!Step(w) \/ U!Cut(w)
  BY DEF U!AccountsNext
<1>2. CASE U!Register(w) \/ U!Change(w) \/ U!GrantDefaults(w) \/ U!DeleteToken(w) \/ U!AskForToken(w) \/ U!MakeMethod(w) \/ U!Copy(w)
  BY <1>2, RegisterStep, ChangeStep, GrantDefaultsStep, DeleteTokenStep, AskForTokenStep,
     MakeMethodStep, CopyStep
<1>3. CASE \E to \in {"on", "off", "none"} : U!SwitchMethod(w, to)
  BY <1>3, SwitchMethodStep
<1>4. CASE \E auth \in BOOLEAN, city \in {Nothing, "new"} : U!Update(w, auth, city)
  BY <1>4, UpdateStep
<1>5. CASE U!Step(w)
  BY <1>5, SyncUserStep, UndigestStep, DigestStep, LookForCounterStep, AddCounterStep,
     ReadGrantsStep,
     GrantMissingStep, RevokeTokenStep, ForgetTokenStep, MakeTokenStep, TellTokenStep,
     ProfileForMfaStep,
     FlagMfaStep,
     TriggerStep, ReadProfileStep, RequireAuthStep, WriteDetailsStep, CopyProfileStep DEF U!Step
<1>6. CASE U!Cut(w)
  BY <1>6, AccountCut
<1>7. QED
  BY <1>1, <1>2, <1>3, <1>4, <1>5, <1>6

LEMMA AccountsRest == AccountsInv /\ UNCHANGED accountVars => AccountsInv'
BY DEF accountVars, AccountsInv, AccountTypes, U!AccountsTypeOK, RequestAt, Company, OnUser,
   OnRights, OnToken,
       OnProfile, LeftBehind, UserLeft, MethodLeft, TokensLeft, BlanksLeft, Registering, Lone,
       Doing, U!Busy

LEMMA AccountsMean == AccountsInv => U!AccountsAreRight
<1> SUFFICES ASSUME AccountsInv PROVE U!AccountsAreRight
  OBVIOUS
<1>1. ASSUME NEW w \in Others, NEW kinds, U!Ended(w, kinds)
      PROVE  Lone(w) /\ RequestAt(w) /\ req[w].pc = "done" /\ req[w].kind \in kinds
  BY <1>1 DEF U!Ended, U!At, Lone, Doing, AccountsInv
<1>2. U!AccountsAgree
  <2>1. ASSUME NEW w \in Others, U!Ended(w, {"register", "change"})
        PROVE  kc.pk = user.pk /\ kc.data = user.data /\ kc.digests = {user.data} /\ kc.counters > 0
    BY <1>1, <2>1 DEF RequestAt, OnUser, Past
  <2>2. ASSUME NEW w \in Others, U!Ended(w, {"register", "grant"})
        PROVE  kc.granted /\ user.may
    BY <1>1, <2>2 DEF RequestAt, OnUser, OnRights
  <2>3. QED
    BY <2>1, <2>2 DEF U!AccountsAgree
<1>3. U!ProfilesAgree
  BY <1>1 DEF U!ProfilesAgree, RequestAt, OnProfile
<1>4. U!TokensAgree
  <2> SUFFICES ASSUME NEW w \in Others, U!Ended(w, {"token"}), "token" \notin past.cut, ~past.overlapped
               PROVE  token.kc = token.kpi
    BY DEF U!TokensAgree
  <2>1. \A v \in Others : ~(U!Busy(v) /\ req[v].kind = "token")
    BY <1>1, IdleIs DEF RequestAt, Company, U!Busy
  <2>2. QED
    BY <2>1 DEF AccountsInv, LeftBehind, TokensLeft
<1>5. U!FailuresHaveCauses
  <2>1. ASSUME NEW w \in Others, U!At(w, "failed"), req[w].kind = "register"
        PROVE  "register" \in past.cut
    BY <2>1 DEF U!At, AccountsInv, RequestAt, Company, OnUser, Lone, Doing
  <2>2. kc # Nothing /\ kc.counters > 1 => past.overlapped
    BY DEF AccountsInv, LeftBehind, UserLeft, AccountTypes, U!AccountsTypeOK, U!InKobocat
  <2>3. QED
    BY <2>1, <2>2 DEF U!FailuresHaveCauses
<1>6. U!BlanksStay
  BY DEF AccountsInv, LeftBehind, BlanksLeft, U!BlanksStay
<1>7. QED
  BY <1>2, <1>3, <1>4, <1>5, <1>6 DEF U!AccountsAreRight

AccountsTurn == turn = "accounts" => AccountsInv

LEMMA AccountsTurnStarts == ProjectsInit => AccountsTurn
BY AccountsStarts DEF ProjectsInit, AccountsTurn

LEMMA AccountsTurnGoesOn == AccountsTurn /\ [ProjectsNext]_projectVars => AccountsTurn'
<1> SUFFICES ASSUME AccountsTurn, [ProjectsNext]_projectVars, turn' = "accounts" PROVE AccountsInv'
  BY DEF AccountsTurn
<1>1. turn = "accounts"
  BY DEF ProjectsNext, Alone, Together, Commands, Lists, Assigned, Pages, Accounts, projectVars
<1>2. U!AccountsNext \/ UNCHANGED accountVars
  BY DEF ProjectsNext, Alone, Together, Commands, Lists, Assigned, Pages, Accounts, projectVars
<1>3. QED
  BY <1>1, <1>2, AccountsSteps, AccountsRest DEF AccountsTurn

(* What runs alone leaves KoBoCAT with what KPI has: the account, its      *)
(* password's digest, one counter, the permissions, the second factor and  *)
(* what forms require, whatever was cut short or overlapped before; tokens *)
(* agree and blanks stay unless something was.                             *)
THEOREM AccountsRight == ProjectsSpec => []AccountsAreRight
<1>1. AccountsTurn => AccountsAreRight
  BY AccountsMean DEF AccountsTurn, AccountsAreRight
<1>2. QED
  BY <1>1, AccountsTurnStarts, AccountsTurnGoesOn, PTL DEF ProjectsSpec
-----------------------------------------------------------------------------
(***************************************************************************)
(* The commands that bring KPI in line with KoBoCAT.                       *)
(***************************************************************************)

(* The tables, written out.                                                *)
LEMMA ImpliedHere ==
  /\ C!Implied("view_asset") = {}
  /\ C!Implied("change_asset") = {"view_asset"}
  /\ C!Implied("discover_asset") = {"view_asset"}
  /\ C!Implied("manage_asset") = C!AllCodenames \ {"manage_asset", "partial_submissions"}
  /\ C!Implied("add_submissions") = {"view_asset"}
  /\ C!Implied("view_submissions") = {"view_asset"}
  /\ C!Implied("partial_submissions") = {"view_asset"}
  /\ C!Implied("change_submissions") = {"view_submissions", "add_submissions", "view_asset"}
  /\ C!Implied("delete_submissions") = {"view_submissions", "view_asset"}
  /\ C!Implied("validate_submissions") = {"view_submissions", "view_asset"}
<1>1. /\ C!IMPLIED_PERMISSIONS["view_asset"] = {}
      /\ C!IMPLIED_PERMISSIONS["change_asset"] = {"view_asset"}
      /\ C!IMPLIED_PERMISSIONS["discover_asset"] = {"view_asset"}
      /\ C!IMPLIED_PERMISSIONS["manage_asset"] =
           C!AllCodenames \ {"manage_asset", "partial_submissions"}
      /\ C!IMPLIED_PERMISSIONS["add_submissions"] = {"view_asset"}
      /\ C!IMPLIED_PERMISSIONS["view_submissions"] = {"view_asset"}
      /\ C!IMPLIED_PERMISSIONS["partial_submissions"] = {"view_asset"}
      /\ C!IMPLIED_PERMISSIONS["change_submissions"] = {"view_submissions", "add_submissions"}
      /\ C!IMPLIED_PERMISSIONS["delete_submissions"] = {"view_submissions"}
      /\ C!IMPLIED_PERMISSIONS["validate_submissions"] = {"view_submissions"}
  BY DEF C!IMPLIED_PERMISSIONS, C!AllCodenames
<1>2. QED
  BY <1>1 DEF C!Implied, C!AllCodenames

Synced == C!KC_PERMISSIONS \cap Codenames

(* What a permission implies implies nothing more; nothing implies         *)
(* row-level access; what KoBoCAT knows of implies what it knows of, or    *)
(* view_asset.                                                             *)
LEMMA ImpliedAll ==
  ASSUME NEW p \in C!AllCodenames
  PROVE  /\ C!Implied(p) \subseteq C!AllCodenames
         /\ "partial_submissions" \notin C!Implied(p)
         /\ "manage_asset" \notin C!Implied(p)
         /\ p # "view_asset" => p \notin C!Implied(p) /\ "view_asset" \in C!Implied(p)
         /\ \A q \in C!Implied(p) : C!Implied(q) \subseteq C!Implied(p)
         /\ p \in C!KC_PERMISSIONS => C!Implied(p) \subseteq C!KC_PERMISSIONS \cup {"view_asset"}
         /\ \A q \in C!FullAccess : q \in C!Implied(p) => p \in C!FullAccess \cup {"manage_asset"}
BY ImpliedHere DEF C!AllCodenames, C!KC_PERMISSIONS, C!FullAccess

LEMMA ContraryHere ==
  ASSUME NEW p \in C!AllCodenames
  PROVE  /\ p # "partial_submissions" => C!CONTRADICTORY_PERMISSIONS[p] \subseteq {"partial_submissions"}
         /\ C!CONTRADICTORY_PERMISSIONS["partial_submissions"] = C!FullAccess \cup {"manage_asset"}
BY DEF C!AllCodenames, C!CONTRADICTORY_PERMISSIONS, C!FullAccess

(* The form is a survey of olga's.                                         *)
LEMMA TheForm ==
  /\ C!Members = Users \ {"olga"} /\ Owner[a] = "olga"
  /\ C!Assignable(a) = Codenames \ {"discover_asset"}
  /\ Synced \subseteq Codenames \ {"discover_asset"}
  /\ Codenames \subseteq C!AllCodenames
BY ReconcileAssumption
   DEF C!Members, Owner, Type, C!Assignable, C!ASSIGNABLE_PERMISSIONS_BY_TYPE, Synced,
   C!KC_PERMISSIONS,
       C!FullAccess

-----------------------------------------------------------------------------
(* The rows of the form: nobody but the owner inherits any, and whoever    *)
(* has a permission has what it implies.                                   *)
Has(x, u) == {p \in Codenames : <<u, p>> \in x.granted \cup x.inherited}

With(p) == {p} \cup (C!Implied(p) \cap (Codenames \ {"discover_asset"}))

RowsInv(x) ==
  /\ x \in C!AssetState
  /\ \A u \in C!Members :
       /\ \A p : <<u, p>> \notin x.inherited
       /\ Has(x, u) \subseteq Codenames \ {"discover_asset"}
       /\ \A p \in Has(x, u) : With(p) \subseteq Has(x, u)

(* Only these two matter to it.                                            *)
LEMMA RowsAlike ==
  ASSUME NEW x, RowsInv(x), NEW y \in C!AssetState, y.granted = x.granted, y.inherited = x.inherited
  PROVE  RowsInv(y) /\ \A u : Has(y, u) = Has(x, u)
BY DEF RowsInv, Has

LEMMA OfHere ==
  ASSUME NEW u \in C!Members, NEW S
  PROVE  /\ C!Of(u, S) \subseteq C!Pair
         /\ \A v, q : <<v, q>> \in C!Of(u, S) <=> v = u /\ q \in S \cap Codenames
<1>1. u \in Users
  BY TheForm
<1>2. QED
  BY <1>1 DEF C!Of, C!Pair

(* The record with other rows.                                             *)
WithRows(x, granted, denied, inherited, told) ==
  [x EXCEPT !.granted = granted, !.denied = denied, !.inherited = inherited, !.kc = told]

LEMMA WithRowsIs ==
  ASSUME NEW x \in C!AssetState, NEW granted \in SUBSET C!Pair, NEW denied \in SUBSET C!Pair,
         NEW inherited \in SUBSET C!Pair, NEW told \in SUBSET C!Pair
  PROVE  LET y == WithRows(x, granted, denied, inherited, told)
         IN y \in C!AssetState /\ y.granted = granted /\ y.inherited = inherited /\ y.kc = told
BY DEF C!AssetState, WithRows

(* A permission that is assigned comes with what it implies; what it       *)
(* contradicts goes, which is nothing that KoBoCAT knows of unless it is   *)
(* row-level access that is assigned.                                      *)
LEMMA GrantsHere ==
  ASSUME NEW x, RowsInv(x), NEW u \in C!Members, NEW p \in C!Assignable(a)
  PROVE  LET y == C!Grant(x, a, u, p)
         IN /\ RowsInv(y)
            /\ \A v \in C!Members \ {u} : Has(y, v) = Has(x, v)
            /\ p \in Synced => Has(y, u) \cap Synced = (Has(x, u) \cap Synced) \cup (With(p) \cap Synced)
<1> DEFINE wanted == C!Including(a, p)
           new    == {q \in wanted : <<u, q>> \notin x.granted}
           contra == C!Contrary(new)
           y      == C!Grant(x, a, u, p)
<1>1. p \in Codenames \ {"discover_asset"} /\ p \in C!AllCodenames
  BY TheForm
<1>2. wanted = With(p) /\ With(p) \subseteq Codenames \ {"discover_asset"}
  BY <1>1, TheForm DEF C!Including, With
<1>3. \A c : c \in contra <=> \E q \in new : c \in C!CONTRADICTORY_PERMISSIONS[q]
  BY DEF C!Contrary
<1>4. CASE <<u, p>> \in x.granted
  <2>1. y = x
    BY <1>4 DEF C!Grant
  <2>2. With(p) \subseteq Has(x, u)
    BY <1>1, <1>4 DEF RowsInv, Has
  <2>3. QED
    BY <2>1, <2>2
<1>5. CASE <<u, p>> \notin x.granted
  <2> DEFINE granted   == (x.granted \ C!Of(u, contra)) \cup C!Of(u, wanted)
             denied    == x.denied \ C!Of(u, new \cup contra)
             inherited == x.inherited \ C!Of(u, contra)
             told      == IF x.deployed THEN x.kc \cup C!Of(u, new \cap C!KC(u)) ELSE x.kc
  <2>1. y = WithRows(x, granted, denied, inherited, told)
    BY <1>5 DEF C!Grant, WithRows
  <2> HIDE DEF wanted, new, contra
  <2>2. /\ granted \in SUBSET C!Pair /\ denied \in SUBSET C!Pair /\ inherited \in SUBSET C!Pair
        /\ told \in SUBSET C!Pair /\ x \in C!AssetState
    BY OfHere DEF RowsInv, C!AssetState
  <2>3. \A v, q : <<v, q>> \in granted <=>
          (<<v, q>> \in x.granted /\ ~(v = u /\ q \in contra \cap Codenames)) \/ (v = u /\ q \in wanted \cap Codenames)
    BY OfHere
  <2>4. \A v, q : <<v, q>> \in inherited <=> <<v, q>> \in x.inherited /\ ~(v = u /\ q \in contra \cap Codenames)
    BY OfHere
  <2> HIDE DEF y, granted, denied, inherited, told
  <2>5. y \in C!AssetState /\ y.granted = granted /\ y.inherited = inherited
    BY <2>1, <2>2, WithRowsIs
  <2>6. \A v \in C!Members \ {u} : Has(y, v) = Has(x, v) /\ \A q : <<v, q>> \notin y.inherited
    BY <2>3, <2>4, <2>5 DEF Has, RowsInv
  <2>7. Has(y, u) = (Has(x, u) \ contra) \cup With(p) /\ \A q : <<u, q>> \notin y.inherited
    BY <1>2, <2>3, <2>4, <2>5 DEF Has, RowsInv
  <2>8. ASSUME NEW q \in Has(y, u) PROVE With(q) \subseteq Has(y, u)
    <3>1. CASE q \in With(p)
      <4>1. With(q) \subseteq With(p)
        BY <1>1, <3>1, ImpliedAll, TheForm DEF With
      <4>2. QED
        BY <2>7, <4>1
    <3>2. CASE q \notin With(p)
      <4>1. q \in Has(x, u) /\ q \notin contra /\ q \in Codenames /\ q \in C!AllCodenames
        BY <2>7, <2>8, <3>2, TheForm DEF Has
      <4>2. With(q) \subseteq Has(x, u)
        BY <4>1 DEF RowsInv
      <4>3. ASSUME NEW c \in With(q), c \in contra PROVE c \in With(p)
        <5>1. c # q /\ c \in C!Implied(q) /\ c \in C!AllCodenames
          BY <4>1, <4>3, ImpliedAll DEF With
        <5>2. c # "partial_submissions"
          BY <4>1, <5>1, ImpliedAll
        <5>3. PICK d \in new : c \in C!CONTRADICTORY_PERMISSIONS[d]
          BY <1>3, <4>3
        <5>4. d \in wanted /\ d \in C!AllCodenames
          BY <1>2, <5>3, TheForm DEF new
        <5>5. d = "partial_submissions"
          BY <5>2, <5>3, <5>4, ContraryHere
        <5>6. c \in C!FullAccess \cup {"manage_asset"}
          BY <5>3, <5>5, ContraryHere, <5>4
        <5>7. c # "manage_asset"
          BY <4>1, <5>1, ImpliedAll
        <5>8. q \in C!FullAccess \cup {"manage_asset"}
          BY <4>1, <5>1, <5>6, <5>7, ImpliedAll
        <5>9. q \in contra
          BY <1>3, <5>3, <5>5, <5>8, ContraryHere, <5>4
        <5>10. QED
          BY <4>1, <5>9
      <4>4. QED
        BY <2>7, <4>2, <4>3
    <3>3. QED
      BY <3>1, <3>2
  <2>9. RowsInv(y)
    BY <1>2, <2>5, <2>6, <2>7, <2>8 DEF RowsInv
  <2>10. ASSUME p \in Synced
         PROVE  Has(y, u) \cap Synced = (Has(x, u) \cap Synced) \cup (With(p) \cap Synced)
    <3>1. ASSUME NEW c \in contra PROVE c = "partial_submissions"
      <4>1. PICK d \in new : c \in C!CONTRADICTORY_PERMISSIONS[d]
        BY <1>3, <3>1
      <4>2. d \in With(p) /\ d \in C!AllCodenames
        BY <1>2, <4>1, TheForm DEF new
      <4>3. d # "partial_submissions"
        BY <1>1, <2>10, <4>2, ImpliedAll DEF With, Synced, C!KC_PERMISSIONS, C!FullAccess
      <4>4. QED
        BY <4>1, <4>2, <4>3, ContraryHere
    <3>2. "partial_submissions" \notin Synced
      BY DEF Synced, C!KC_PERMISSIONS, C!FullAccess
    <3>3. QED
      BY <2>7, <3>1, <3>2
  <2>11. QED
    BY <2>6, <2>9, <2>10 DEF y
<1>6. QED
  BY <1>4, <1>5

(* The rows of partial permissions do not matter either.                   *)
WithPartial(x, partial) == [x EXCEPT !.partial = partial]

LEMMA WithPartialIs ==
  ASSUME NEW x \in C!AssetState, NEW partial \in SUBSET C!Pair
  PROVE  LET y == WithPartial(x, partial)
         IN y \in C!AssetState /\ y.granted = x.granted /\ y.inherited = x.inherited /\ y.kc = x.kc
BY DEF C!AssetState, WithPartial

LEMMA UpdatesHere ==
  ASSUME NEW x, RowsInv(x), NEW u \in C!Members, NEW p, NEW pp \in {{}, {"view_submissions"}}
  PROVE  LET y == C!UpdatePartial(x, a, u, p, pp)
         IN RowsInv(y) /\ \A v : Has(y, v) = Has(x, v)
<1>1. "add_submissions" \notin C!PartialKeys(pp)
  BY ImpliedHere DEF C!PartialKeys
<1>2. \E partial \in SUBSET C!Pair : C!UpdatePartial(x, a, u, p, pp) = WithPartial(x, partial)
  <2> DEFINE none == x.partial \ C!Of(u, Codenames)
             some == none \cup C!Of(u, C!PartialKeys(pp))
  <2>1. none \in SUBSET C!Pair /\ some \in SUBSET C!Pair /\ x.partial \in SUBSET C!Pair /\ x \in C!AssetState
    BY OfHere DEF RowsInv, C!AssetState
  <2>2. [WithPartial(x, none) EXCEPT !.partial = @ \cup C!Of(u, C!PartialKeys(pp))] = WithPartial(x, some)
    BY <2>1 DEF WithPartial, C!AssetState
  <2>3. x = WithPartial(x, x.partial)
    BY <2>1 DEF WithPartial, C!AssetState
  <2>4. C!UpdatePartial(x, a, u, p, pp) \in {WithPartial(x, none), WithPartial(x, some), x}
    BY <1>1, <2>2 DEF C!UpdatePartial, WithPartial
  <2>5. QED
    BY <2>1, <2>3, <2>4
<1>3. PICK partial \in SUBSET C!Pair : C!UpdatePartial(x, a, u, p, pp) = WithPartial(x, partial)
  BY <1>2
<1>4. x \in C!AssetState
  BY DEF RowsInv
<1>5. QED
  BY <1>3, <1>4, WithPartialIs, RowsAlike

Gains(x, y, u, p) ==
  /\ RowsInv(y)
  /\ \A v \in C!Members \ {u} : Has(y, v) = Has(x, v)
  /\ p \in Synced => Has(y, u) \cap Synced = (Has(x, u) \cap Synced) \cup (With(p) \cap Synced)

LEMMA AssignsHere ==
  ASSUME NEW x, RowsInv(x), NEW u \in C!Members, NEW p \in C!Assignable(a),
         NEW pp \in {{}, {"view_submissions"}}
  PROVE  Gains(x, C!Assigned(x, a, u, p, FALSE, pp), u, p)
<1> DEFINE w == C!Grant(x, a, u, p)
           y == C!Assigned(x, a, u, p, FALSE, pp)
<1>1. y = C!UpdatePartial(w, a, u, p, pp)
  BY DEF C!Assigned
<1>2. /\ RowsInv(w)
      /\ \A v \in C!Members \ {u} : Has(w, v) = Has(x, v)
      /\ p \in Synced => Has(w, u) \cap Synced = (Has(x, u) \cap Synced) \cup (With(p) \cap Synced)
  BY GrantsHere
<1> HIDE DEF w, y
<1>3. RowsInv(y) /\ \A v : Has(y, v) = Has(w, v)
  <2>1. RowsInv(w)
    BY <1>2
  <2>2. RowsInv(C!UpdatePartial(w, a, u, p, pp)) /\ \A v : Has(C!UpdatePartial(w, a, u, p, pp), v) = Has(w, v)
    BY <2>1, UpdatesHere
  <2>3. QED
    BY <1>1, <2>2
<1>4. Gains(x, y, u, p)
  BY <1>2, <1>3 DEF Gains
<1>5. QED
  BY <1>4 DEF y

(* A permission that is removed takes with it whatever implies it.         *)
LEMMA RevokesHere ==
  ASSUME NEW x, RowsInv(x), NEW u \in C!Members, NEW p \in Codenames
  PROVE  LET y == C!CleanPartial(C!Revoke(x, a, u, p), u, p)
         IN /\ RowsInv(y)
            /\ \A v \in C!Members \ {u} : Has(y, v) = Has(x, v)
            /\ Has(y, u) = {q \in Has(x, u) : p \notin With(q)} \/ p = "discover_asset"
            /\ p \notin Has(y, u)
<1> DEFINE required == C!Requiring(a, p)
           granted  == x.granted \ C!Of(u, required)
           told     == x.kc \ C!Of(u, required \cap C!KC(u))
           w        == C!Stripped(x, a, u, p)
           y        == C!CleanPartial(C!Revoke(x, a, u, p), u, p)
<1>1. x \in C!AssetState /\ granted \in SUBSET C!Pair /\ told \in SUBSET C!Pair
      /\ x.denied \in SUBSET C!Pair /\ x.inherited \in SUBSET C!Pair
  BY OfHere DEF RowsInv, C!AssetState
<1>2. w = WithRows(x, granted, x.denied, x.inherited, told)
  BY <1>1 DEF C!Stripped, WithRows, C!AssetState
<1>3. \A v, q : <<v, q>> \in granted <=> <<v, q>> \in x.granted /\ ~(v = u /\ q \in required \cap Codenames)
  BY OfHere
<1> HIDE DEF granted, told, w
<1>4. w \in C!AssetState /\ w.granted = granted /\ w.inherited = x.inherited
  BY <1>1, <1>2, WithRowsIs
<1>5. C!Revoke(x, a, u, p) = w
  <2>1. \A q : C!DenyInherited(w, a, u, q) = w
    BY <1>4 DEF C!DenyInherited, RowsInv
  <2>2. QED
    BY <2>1 DEF C!Revoke, C!RevokeImplied, w
<1>6. y \in C!AssetState /\ y.granted = granted /\ y.inherited = x.inherited
  <2> DEFINE none == w.partial \ C!Of(u, Codenames)
  <2>1. none \in SUBSET C!Pair
    BY <1>4 DEF C!AssetState
  <2>2. y = w \/ y = WithPartial(w, none)
    BY <1>5 DEF C!CleanPartial, WithPartial
  <2> HIDE DEF none, y
  <2>3. QED
    BY <1>4, <2>1, <2>2, WithPartialIs
<1> HIDE DEF y
<1>7. \A v \in C!Members \ {u} : Has(y, v) = Has(x, v)
  BY <1>3, <1>6 DEF Has
<1>8. Has(y, u) = Has(x, u) \ required
  BY <1>3, <1>6 DEF Has, RowsInv
<1>9. p \in required /\ required = {p} \cup {q \in C!AllCodenames : p \in C!Implied(q) /\ q \in C!Assignable(a)}
  BY DEF C!Requiring, C!ReverseImplied
<1> HIDE DEF required
<1>10. ASSUME NEW q \in Has(x, u)
       PROVE  q \in required <=> q = p \/ p \in C!Implied(q)
  BY <1>9, <1>10, TheForm DEF RowsInv
<1>11. Has(y, u) = {q \in Has(x, u) : p \notin With(q)} \/ p = "discover_asset"
  BY <1>8, <1>10, TheForm DEF With
<1>12. ASSUME NEW q \in Has(y, u) PROVE With(q) \subseteq Has(y, u)
  <2>1. q \in Has(x, u) /\ q \notin required /\ q \in C!AllCodenames
    BY <1>8, <1>12, TheForm DEF Has
  <2>2. With(q) \subseteq Has(x, u)
    BY <2>1 DEF RowsInv
  <2>3. ASSUME NEW c \in With(q) PROVE c \notin required
    <3>1. c = q \/ c \in C!Implied(q)
      BY <2>3 DEF With
    <3>2. c \in Has(x, u)
      BY <2>2, <2>3
    <3>3. QED
      BY <1>10, <2>1, <3>1, <3>2, ImpliedAll
  <2>4. QED
    BY <1>8, <2>2, <2>3
<1>13. RowsInv(y)
  BY <1>6, <1>7, <1>8, <1>12 DEF RowsInv
<1>14. QED
  BY <1>7, <1>8, <1>9, <1>11, <1>13 DEF y

-----------------------------------------------------------------------------
(* What a user should have, given what KoBoCAT has.                        *)
LEMMA ExpectedIs ==
  ASSUME NEW told \in SUBSET C!Pair, NEW u
  PROVE  /\ C!Expected(told, u) \subseteq Synced
         /\ \A p \in C!Expected(told, u) : With(p) \cap Synced \subseteq C!Expected(told, u)
         /\ (\A p : <<u, p>> \notin told) => C!Expected(told, u) = {}
<1> DEFINE given == {x[2] : x \in {y \in told : y[1] = u}}
<1>1. \A p : p \in given <=> <<u, p>> \in told
  BY DEF C!Pair
<1>2. given \subseteq C!AllCodenames
  BY <1>1, TheForm DEF C!Pair
<1>3. C!Expected(told, u) = (given \cup UNION {C!Implied(p) : p \in given}) \cap Synced
  BY DEF C!Expected, Synced
<1> HIDE DEF given
<1>4. ASSUME NEW p \in C!Expected(told, u) PROVE With(p) \cap Synced \subseteq C!Expected(told, u)
  <2>1. PICK q \in given : p = q \/ p \in C!Implied(q)
    BY <1>3
  <2>2. With(p) \subseteq {q} \cup C!Implied(q)
    BY <1>2, <2>1, ImpliedAll DEF With
  <2>3. QED
    BY <1>3, <2>2
<1>5. QED
  BY <1>1, <1>3, <1>4

-----------------------------------------------------------------------------
(* What a command knows, and how far it has come.                          *)
Forms  == [hash : 0..MaxHash, active : BOOLEAN]
Copies == [there : BOOLEAN, content : 0..MaxHash, hash : 0..MaxHash, active : BOOLEAN, known : BOOLEAN]
Jobs ==
  [pc : {"idle", "content", "response", "metadata", "perms", "users", "user", "push", "ended"},
   kind : {"none", "xforms", "perms", "mirror"}, form : Forms, asset : Copies,
   kc : SUBSET C!Pair, rows : SUBSET C!Pair, flagged : SUBSET C!Members, todo : SUBSET C!Members,
   user : Users \cup {Anonymous}, grant : SUBSET Synced, revoke : SUBSET Synced,
   purge : BOOLEAN, changed : BOOLEAN]

PullTypes ==
  /\ flagged \in SUBSET C!Members /\ viaKpi \in SUBSET C!Members
  /\ form \in Forms /\ form.hash # 0 /\ asset \in Copies /\ job \in Jobs
  /\ quiet \in BOOLEAN /\ settled \in BOOLEAN /\ unflagged \in BOOLEAN
  /\ job.pc \in {"content", "response", "metadata"} => job.kind = "xforms"
  /\ job.pc \in {"perms", "user"} => job.kind \in {"xforms", "perms"}
  /\ job.pc = "users" => job.kind \in {"xforms", "perms"} \/ (job.kind = "mirror" /\ job.todo = {})
  /\ job.pc \in {"push", "ended"} => job.kind \in {"perms", "mirror"}
  /\ job.pc = "idle" => job.kind = "none"
  /\ job.pc = "user" => job.user \in C!Members \ job.todo

Pulling    == job.pc \in {"users", "user"} /\ job.kind \in {"xforms", "perms"}
Rows(u)    == {p \in Codenames : <<u, p>> \in job.rows}
Wanted(u)  == C!Expected(job.kc, u)
Sees(u)      == job.pc = "user" /\ job.user = u
\* Nothing but the command has changed the rows of u since it read them.
Trusted(u) == quiet \/ u \notin viaKpi

(* What the command read is still so.                                      *)
ReadInv ==
  /\ quiet /\ job.kind = "xforms" /\ job.pc \in {"content", "response", "metadata", "perms"} =>
       job.kc = {x \in s.kc : x[1] = Anonymous}
  /\ job.kind = "perms" /\ job.pc = "perms" => job.kc = {}
  /\ quiet /\ Pulling => job.kc = s.kc

FormInv ==
  quiet /\ job.kind = "xforms" =>
    /\ job.form = form
    /\ ~job.changed => job.asset = asset
    /\ job.pc = "content" => ~job.changed
    /\ job.pc = "response" => job.changed
    /\ job.pc = "metadata" /\ job.asset.there => job.asset.hash = form.hash
    /\ job.pc \in {"perms", "users", "user"} =>
         /\ job.asset.hash = form.hash /\ job.asset.active = form.active /\ job.asset.known = form.active
         /\ ~job.changed => job.asset.there

(* A user who is still to come, one who was seen to, and the one who is.   *)
ToCome(u) ==
  Pulling /\ u \in job.todo /\ Trusted(u) => Has(s, u) = Rows(u) /\ (u \in job.flagged <=> u \in flagged)

SeenTo(u) ==
  Pulling /\ quiet /\ u \notin job.todo /\ ~Sees(u) => Has(s, u) \cap Synced = Wanted(u) \/ C!Exchanged(u)

SeesTo(u) ==
  Sees(u) /\ Trusted(u) =>
    /\ job.grant \subseteq Wanted(u) /\ job.revoke \cap Wanted(u) = {}
    /\ Wanted(u) \subseteq Has(s, u) \cup job.grant
    /\ Has(s, u) \cap Synced \subseteq Wanted(u) \cup job.revoke
    /\ job.purge => u \in job.flagged /\ Rows(u) \cap Synced # {} /\ Rows(u) \cap Wanted(u) = {}
    /\ ~unflagged /\ u \notin viaKpi =>
         /\ job.grant # {} => u \in flagged
         /\ ~job.purge /\ Wanted(u) = {} => Has(s, u) = {}

(* Who has something that KPI never gave is flagged, and has something     *)
(* that KoBoCAT knows of.                                                  *)
Explained(u) ==
  ~unflagged /\ u \notin viaKpi =>
    /\ Has(s, u) # {} => u \in flagged
    /\ ~Sees(u) /\ Has(s, u) \cap Synced = {} => Has(s, u) = {}

OfOne(u) == ToCome(u) /\ SeenTo(u) /\ SeesTo(u) /\ Explained(u)

(* Once the forms are synchronised, there is nothing to do.                *)
SettledInv ==
  settled =>
    /\ quiet /\ asset.there
    /\ asset.hash = form.hash /\ asset.active = form.active /\ asset.known = form.active
    /\ \A u \in C!Members : Has(s, u) \cap Synced = C!Expected(s.kc, u)
    /\ job.kind \in {"none", "xforms"}
    /\ job.kind = "xforms" => ~job.changed /\ job.pc # "response"
    /\ job.pc = "user" => job.grant = {} /\ job.revoke = {} /\ ~job.purge

PullInv ==
  RowsInv(s) /\ PullTypes /\ ReadInv /\ FormInv /\ (\A u \in C!Members : OfOne(u)) /\ SettledInv

(* The sets of the model, one by one.                                      *)
LEMMA HeldIs ==
  ASSUME RowsInv(s), job \in Jobs, NEW u
  PROVE  C!Held(u) = Has(s, u) /\ C!KpiRows(u) = Rows(u)
<1>1. s.granted \subseteq C!Pair /\ s.inherited \subseteq C!Pair /\ job.rows \subseteq C!Pair
  BY DEF RowsInv, C!AssetState, Jobs
<1>2. \A p : p \in C!Held(u) <=> <<u, p>> \in s.granted \cup s.inherited
  BY <1>1 DEF C!Held, C!Pair
<1>3. \A p : p \in C!KpiRows(u) <=> <<u, p>> \in job.rows
  BY <1>1 DEF C!KpiRows, C!Pair
<1>4. \A p : <<u, p>> \in C!Pair => p \in Codenames
  BY DEF C!Pair
<1>5. QED
  BY <1>1, <1>2, <1>3, <1>4 DEF Has, Rows

LEMMA ExchangedIs ==
  ASSUME RowsInv(s), job \in Jobs, NEW u
  PROVE  C!Exchanged(u) <=> /\ u \in job.flagged /\ Rows(u) \cap Synced # {}
                            /\ Rows(u) \cap Wanted(u) = {} /\ Wanted(u) # {}
<1>1. Rows(u) \cap C!KC_PERMISSIONS = Rows(u) \cap Synced
  BY DEF Rows, Synced
<1>2. QED
  BY <1>1, HeldIs DEF C!Exchanged, Wanted

LEMMA PullStarts == C!ReconcileInit => PullInv
<1> SUFFICES ASSUME C!ReconcileInit PROVE PullInv
  OBVIOUS
<1> DEFINE granted == {}
           inherited == C!InheritedRows(a, {})
<1>1. inherited = C!Of("olga", Codenames \ {"discover_asset", "partial_submissions"})
  BY TheForm DEF C!InheritedRows, C!Of
<1>2. inherited \subseteq C!Pair /\ \A v, q : <<v, q>> \in inherited => v = "olga"
  BY <1>1, ReconcileAssumption DEF C!Of, C!Pair
<1>3. C!OwnersRows \subseteq C!Pair
  BY TheForm, ReconcileAssumption DEF C!OwnersRows, C!Pair
<1> HIDE DEF inherited
<1>4. s = [granted |-> {}, denied |-> {}, inherited |-> inherited, partial |-> {}, kc |-> C!OwnersRows, deployed |-> TRUE]
  BY DEF C!ReconcileInit, inherited
<1> HIDE DEF granted
<1>5. s \in C!AssetState /\ s.granted = {} /\ s.inherited = inherited /\ s.kc = C!OwnersRows
  BY <1>2, <1>3, <1>4 DEF C!AssetState
<1>6. \A u \in C!Members : Has(s, u) = {} /\ \A q : <<u, q>> \notin s.inherited
  BY <1>2, <1>5, TheForm DEF Has
<1>7. RowsInv(s)
  BY <1>5, <1>6 DEF RowsInv
<1>8. job \in Jobs /\ job.pc = "idle" /\ job.kind = "none"
  BY ReconcileAssumption DEF C!ReconcileInit, C!NoJob, Jobs, Forms, Copies
<1>9. PullTypes
  <2>1. form \in Forms /\ form.hash # 0 /\ asset \in Copies
    <3>1. 0 \in 0..MaxHash /\ 1 \in 0..MaxHash
      BY ReconcileAssumption
    <3>2. form \in Forms /\ form.hash # 0
      BY <3>1 DEF C!ReconcileInit, Forms
    <3>3. asset \in [there : BOOLEAN, content : {1}, hash : {0, 1}, active : {TRUE}, known : {TRUE}]
      BY DEF C!ReconcileInit
    <3>4. asset \in Copies
      BY <3>1, <3>3 DEF Copies
    <3>5. QED
      BY <3>2, <3>4
  <2>2. QED
    BY <1>8, <2>1 DEF C!ReconcileInit, PullTypes
<1>10. ReadInv /\ FormInv /\ SettledInv
  BY <1>8 DEF ReadInv, FormInv, SettledInv, Pulling, C!ReconcileInit
<1>11. ASSUME NEW u \in C!Members PROVE OfOne(u)
  BY <1>6, <1>8 DEF OfOne, ToCome, SeenTo, SeesTo, Explained, Pulling, Sees
<1>12. QED
  BY <1>7, <1>9, <1>10, <1>11 DEF PullInv

LEMMA PullMeans == PullInv => C!PullAgrees /\ C!NothingLeftBehind /\ C!ReconcileTypeOK
<1> SUFFICES ASSUME PullInv PROVE C!PullAgrees /\ C!NothingLeftBehind /\ C!ReconcileTypeOK
  OBVIOUS
<1>1. RowsInv(s) /\ job \in Jobs /\ \A u \in C!Members : OfOne(u)
  BY DEF PullInv, PullTypes
<1>2. C!PullAgrees
  <2> SUFFICES ASSUME quiet, job.pc = "users", job.todo = {}, job.kind \in {"xforms", "perms"},
                      NEW u \in C!Members
               PROVE  /\ C!Exchanged(u) \/ C!Held(u) \cap C!KC_PERMISSIONS = C!Expected(s.kc, u)
                      /\ \A p \in C!Held(u) : (C!Including(a, p) \cap Codenames) \subseteq C!Held(u)
    BY DEF C!PullAgrees
  <2>1. job.kc = s.kc
    BY DEF PullInv, ReadInv, Pulling
  <2>2. Has(s, u) \cap Synced = C!Expected(s.kc, u) \/ C!Exchanged(u)
    BY <1>1, <2>1 DEF OfOne, SeenTo, Pulling, Sees, Wanted
  <2>3. C!Held(u) = Has(s, u) /\ Has(s, u) \cap C!KC_PERMISSIONS = Has(s, u) \cap Synced
    BY <1>1, HeldIs DEF Has, Synced
  <2>4. ASSUME NEW p \in Has(s, u) PROVE C!Including(a, p) \subseteq Has(s, u)
    BY <1>1, TheForm DEF RowsInv, C!Including, With
  <2>5. QED
    BY <2>2, <2>3, <2>4
<1>3. C!NothingLeftBehind
  <2> SUFFICES ASSUME settled, ~unflagged, NEW u \in C!Members \ viaKpi, C!Expected(s.kc, u) = {}
               PROVE  Has(s, u) = {}
    BY <1>1, HeldIs DEF C!NothingLeftBehind
  <2>1. Has(s, u) \cap Synced = {} /\ quiet /\ (job.pc = "user" => ~job.purge /\ job.kind \in {"xforms", "perms"})
    BY DEF PullInv, SettledInv, PullTypes
  <2>2. CASE ~Sees(u)
    BY <1>1, <2>1, <2>2 DEF OfOne, Explained
  <2>3. CASE Sees(u)
    <3>1. job.kc = s.kc
      BY <2>1, <2>3 DEF PullInv, ReadInv, Pulling, Sees
    <3>2. QED
      BY <1>1, <2>1, <2>3, <3>1 DEF OfOne, SeesTo, Trusted, Wanted, Sees
  <2>4. QED
    BY <2>2, <2>3
<1>4. C!ReconcileTypeOK
  BY <1>1 DEF PullInv, PullTypes, RowsInv, C!ReconcileTypeOK, Forms, Copies, Jobs
<1>5. QED
  BY <1>2, <1>3, <1>4

-----------------------------------------------------------------------------
(* What users do.                                                          *)
WithKc(x, told) == [x EXCEPT !.kc = told]

LEMMA TellsOnly ==
  ASSUME NEW x, RowsInv(x), NEW told \in SUBSET C!Pair
  PROVE  LET y == WithKc(x, told)
         IN RowsInv(y) /\ y.kc = told /\ \A u : Has(y, u) = Has(x, u)
<1> DEFINE y == WithKc(x, told)
<1>1. y \in C!AssetState /\ y.granted = x.granted /\ y.inherited = x.inherited /\ y.kc = told
  BY DEF RowsInv, C!AssetState, WithKc
<1>2. QED
  BY <1>1, RowsAlike

LEMMA ChangeKeeps ==
  ASSUME PullInv, C!Change, RowsInv(s)', viaKpi' \in SUBSET C!Members, viaKpi \subseteq viaKpi',
         form' \in Forms, form'.hash # 0, asset' \in Copies,
         \A u \in C!Members \ viaKpi' : Has(s, u)' = Has(s, u)
  PROVE  PullInv'
<1>1. quiet' = FALSE /\ settled' = FALSE /\ job' = job /\ flagged' = flagged /\ unflagged' = unflagged
  BY DEF C!Change
<1>2. PullTypes'
  BY <1>1 DEF PullInv, PullTypes
<1>3. ReadInv' /\ FormInv' /\ SettledInv'
  BY <1>1 DEF PullInv, ReadInv, FormInv, SettledInv
<1>4. ASSUME NEW u \in C!Members PROVE OfOne(u)'
  <2>1. OfOne(u)
    BY DEF PullInv
  <2>2. CASE u \in viaKpi'
    BY <1>1, <2>2 DEF OfOne, ToCome, SeenTo, SeesTo, Explained, Trusted
  <2>3. CASE u \notin viaKpi'
    <3>1. u \notin viaKpi /\ Has(s, u)' = Has(s, u)
      BY <2>3
    <3>2. QED
      BY <1>1, <2>1, <2>3, <3>1 DEF OfOne, ToCome, SeenTo, SeesTo, Explained, Trusted, Pulling,
         Sees, Rows,
         Wanted
  <2>4. QED
    BY <2>2, <2>3
<1>5. QED
  BY <1>2, <1>3, <1>4 DEF PullInv

LEMMA UsersStep == PullInv /\ C!Users_ => PullInv'
<1> SUFFICES ASSUME PullInv, C!Users_ PROVE PullInv'
  OBVIOUS
<1>1. RowsInv(s) /\ s.kc \subseteq C!Pair /\ viaKpi \in SUBSET C!Members /\ form \in Forms /\ form.hash # 0
      /\ asset \in Copies
  BY DEF PullInv, PullTypes, RowsInv, C!AssetState
<1>2. ASSUME NEW u \in C!Members, NEW p \in C!KC_PERMISSIONS \cap Codenames,
             C!KobocatGrants(u, p) \/ C!KobocatRevokes(u, p)
      PROVE  PullInv'
  <2>1. PICK told \in SUBSET C!Pair : s' = WithKc(s, told)
    <3>1. s.kc \cup {<<u, p>>} \in SUBSET C!Pair /\ s.kc \ {<<u, p>>} \in SUBSET C!Pair
      BY <1>1, TheForm DEF C!Pair
    <3>2. s' = WithKc(s, s.kc \cup {<<u, p>>}) \/ s' = WithKc(s, s.kc \ {<<u, p>>})
      BY <1>2 DEF C!KobocatGrants, C!KobocatRevokes, WithKc
    <3>3. QED
      BY <3>1, <3>2
  <2>2. RowsInv(s') /\ \A v : Has(s', v) = Has(s, v)
    BY <1>1, <2>1, TellsOnly
  <2>3. C!Change /\ UNCHANGED <<form, asset, viaKpi>>
    BY <1>2 DEF C!KobocatGrants, C!KobocatRevokes
  <2>4. QED
    BY <1>1, <2>2, <2>3, ChangeKeeps
<1>3. CASE C!KobocatReplaces \/ C!KobocatToggles \/ C!KpiEdits
  <2>1. C!Change /\ s' = s /\ viaKpi' = viaKpi
    BY <1>3 DEF C!KobocatReplaces, C!KobocatToggles, C!KpiEdits
  <2>2. form' \in Forms /\ form'.hash # 0 /\ asset' \in Copies
    <3>1. CASE C!KobocatReplaces
      BY <1>1, <3>1, ReconcileAssumption DEF C!KobocatReplaces, Forms
    <3>2. CASE C!KobocatToggles
      BY <1>1, <3>2 DEF C!KobocatToggles, Forms
    <3>3. CASE C!KpiEdits
      BY <1>1, <3>3, ReconcileAssumption DEF C!KpiEdits, Copies
    <3>4. QED
      BY <1>3, <3>1, <3>2, <3>3
  <2>3. QED
    BY <1>1, <2>1, <2>2, ChangeKeeps
<1>4. ASSUME NEW u \in C!Members, NEW p \in C!Assignable(a), C!KpiAssigns(u, p) \/ C!KpiRemoves(u, p)
      PROVE  PullInv'
  <2>1. C!Change /\ UNCHANGED <<form, asset>> /\ viaKpi' = viaKpi \cup {u}
    BY <1>4 DEF C!KpiAssigns, C!KpiRemoves
  <2>2. RowsInv(s') /\ \A v \in C!Members \ {u} : Has(s', v) = Has(s, v)
    <3>1. CASE C!KpiAssigns(u, p)
      <4>1. s' = C!Assigned(s, a, u, p, FALSE, {"view_submissions"})
        BY <3>1 DEF C!KpiAssigns
      <4>2. Gains(s, s', u, p)
        BY <1>1, <4>1, AssignsHere
      <4>3. QED
        BY <4>2 DEF Gains
    <3>2. CASE C!KpiRemoves(u, p)
      <4>1. p \in Codenames
        BY TheForm
      <4>2. QED
        BY <1>1, <3>2, <4>1, RevokesHere DEF C!KpiRemoves
    <3>3. QED
      BY <1>4, <3>1, <3>2
  <2>3. \A v \in C!Members \ viaKpi' : Has(s', v) = Has(s, v)
    BY <2>1, <2>2
  <2>4. QED
    BY <1>1, <2>1, <2>2, <2>3, ChangeKeeps
<1>5. QED
  BY <1>2, <1>3, <1>4 DEF C!Users_

-----------------------------------------------------------------------------
(* What commands do before and after they see to users.                    *)
LEMMA Elsewhere ==
  ASSUME PullInv, job.pc # "user", job'.pc # "user", ~Pulling', viaKpi' = viaKpi,
         \A u \in C!Members : Has(s, u)' = Has(s, u),
         unflagged' \/ (flagged' = flagged /\ unflagged' = unflagged)
  PROVE  \A u \in C!Members : OfOne(u)'
<1> SUFFICES ASSUME NEW u \in C!Members PROVE OfOne(u)'
  OBVIOUS
<1>1. Explained(u) /\ ~Sees(u) /\ ~Sees(u)'
  BY DEF PullInv, OfOne, Sees
<1>2. Explained(u)'
  BY <1>1 DEF Explained
<1>3. QED
  BY <1>1, <1>2 DEF OfOne, ToCome, SeenTo, SeesTo

(* A command that lists the forms, or stops.                               *)
LEMMA JobTypes ==
  ASSUME PullInv
  PROVE  /\ job \in Jobs /\ s \in C!AssetState /\ s.kc \subseteq C!Pair /\ asset \in Copies /\ form \in Forms
         /\ C!NoJob \in Jobs /\ C!NoJob.pc = "idle" /\ C!NoJob.kind = "none" /\ C!NoJob.todo = {}
         /\ C!NoJob.kc = {} /\ C!NoJob.changed = FALSE
<1>1. C!NoJob \in Jobs /\ C!NoJob.pc = "idle" /\ C!NoJob.kind = "none" /\ C!NoJob.todo = {}
      /\ C!NoJob.kc = {} /\ C!NoJob.changed = FALSE
  BY ReconcileAssumption DEF C!NoJob, Jobs, Forms, Copies
<1>2. QED
  BY <1>1 DEF PullInv, PullTypes, RowsInv, C!AssetState

(* The part that keeps the types.                                          *)
LEMMA TypesGoOn ==
  ASSUME PullInv, job' \in Jobs, flagged' \in SUBSET C!Members, UNCHANGED <<form, viaKpi>>,
         asset' \in Copies, quiet' \in BOOLEAN, settled' \in BOOLEAN, unflagged' \in BOOLEAN,
         job'.pc \in {"content", "response", "metadata"} => job'.kind = "xforms",
         job'.pc \in {"perms", "user"} => job'.kind \in {"xforms", "perms"},
         job'.pc = "users" => job'.kind \in {"xforms", "perms"} \/ (job'.kind = "mirror" /\ job'.todo = {}),
         job'.pc \in {"push", "ended"} => job'.kind \in {"perms", "mirror"},
         job'.pc = "idle" => job'.kind = "none",
         job'.pc = "user" => job'.user \in C!Members \ job'.todo
  PROVE  PullTypes'
BY DEF PullInv, PullTypes

LEMMA StartFormsStep ==
  ASSUME PullInv, C!StartForms
  PROVE  PullInv'
<1> DEFINE public == {x \in s.kc : x[1] = Anonymous}
<1>1. job.pc = "idle" /\ quiet' = TRUE /\ settled' = settled
      /\ UNCHANGED <<s, flagged, asset, unflagged, form, viaKpi>>
      /\ job' = [C!NoJob EXCEPT !.pc = "content", !.kind = "xforms", !.form = form, !.asset = asset, !.kc = public]
  BY DEF C!StartForms, C!Idle, C!History
<1>2. public \in SUBSET C!Pair
  BY JobTypes
<1> HIDE DEF public
<1>3. job' \in Jobs /\ job'.pc = "content" /\ job'.kind = "xforms" /\ job'.form = form /\ job'.asset = asset
      /\ job'.kc = public /\ job'.changed = FALSE
  BY <1>1, <1>2, JobTypes DEF Jobs
<1>4. PullTypes'
  <2>1. flagged' \in SUBSET C!Members /\ asset' \in Copies /\ settled' \in BOOLEAN /\ unflagged' \in BOOLEAN
    BY <1>1 DEF PullInv, PullTypes
  <2>2. QED
    BY <1>1, <1>3, <2>1, TypesGoOn
<1>5. ReadInv' /\ FormInv'
  BY <1>1, <1>3 DEF ReadInv, FormInv, Pulling, public
<1>6. SettledInv'
  BY <1>1, <1>3 DEF PullInv, SettledInv
<1>7. \A u \in C!Members : OfOne(u)'
  BY <1>1, <1>3, Elsewhere DEF Pulling
<1>8. RowsInv(s)'
  BY <1>1 DEF PullInv
<1>9. QED
  BY <1>4, <1>5, <1>6, <1>7, <1>8 DEF PullInv

LEMMA SyncContentStep ==
  ASSUME PullInv, C!SyncContent
  PROVE  PullInv'
<1>1. job.pc = "content" /\ job.kind = "xforms"
      /\ UNCHANGED <<s, flagged, asset, quiet, settled, unflagged, form, viaKpi>>
  BY DEF C!SyncContent, C!History, PullInv, PullTypes
<1>2. PICK update \in (IF ~job.asset.there THEN {TRUE}
                       ELSE IF job.asset.hash = 0 THEN BOOLEAN
                       ELSE {job.asset.hash # job.form.hash}) :
        job' = [job EXCEPT !.pc = IF update \/ job.asset.hash = 0 THEN "response" ELSE "metadata",
                           !.changed = update \/ job.asset.hash = 0,
                           !.asset.content = IF update THEN form.hash ELSE @]
  BY DEF C!SyncContent
<1> DEFINE p == IF update \/ job.asset.hash = 0 THEN "response" ELSE "metadata"
           copy == [job.asset EXCEPT !.content = IF update THEN form.hash ELSE @]
<1>3. copy \in Copies /\ copy.there = job.asset.there /\ copy.hash = job.asset.hash
      /\ copy.active = job.asset.active /\ copy.known = job.asset.known /\ (~update => copy = job.asset)
  BY JobTypes DEF Jobs, Copies, Forms
<1>4. update \in BOOLEAN
  BY <1>2
<1>5. job' = [job EXCEPT !.pc = p, !.changed = update \/ job.asset.hash = 0, !.asset = copy]
  BY <1>2
<1>6. p \in {"response", "metadata"} /\ (p = "response" <=> update \/ job.asset.hash = 0)
  OBVIOUS
<1> HIDE DEF p, copy
<1>7. job' \in Jobs /\ job'.pc = p /\ job'.kind = "xforms" /\ job'.form = job.form /\ job'.asset = copy
      /\ job'.kc = job.kc /\ job'.changed = (update \/ job.asset.hash = 0)
  BY <1>1, <1>3, <1>4, <1>5, <1>6, JobTypes DEF Jobs
<1>8. PullTypes'
  <2>1. flagged' \in SUBSET C!Members /\ asset' \in Copies /\ settled' \in BOOLEAN /\ unflagged' \in BOOLEAN
        /\ quiet' \in BOOLEAN
    BY <1>1 DEF PullInv, PullTypes
  <2>2. QED
    BY <1>1, <1>6, <1>7, <2>1, TypesGoOn
<1>9. ReadInv'
  BY <1>1, <1>6, <1>7 DEF PullInv, ReadInv, Pulling
<1>10. quiet => job.form = form /\ job.asset = asset
  BY <1>1 DEF PullInv, FormInv
<1>11. FormInv'
  BY <1>1, <1>2, <1>3, <1>6, <1>7, <1>10 DEF FormInv
<1>12. SettledInv'
  <2>1. settled => ~(update \/ job.asset.hash = 0)
    BY <1>2, <1>10 DEF PullInv, SettledInv, PullTypes
  <2>2. QED
    BY <1>1, <1>6, <1>7, <2>1 DEF PullInv, SettledInv
<1>13. \A u \in C!Members : OfOne(u)'
  BY <1>1, <1>6, <1>7, Elsewhere DEF Pulling
<1>14. RowsInv(s)'
  BY <1>1 DEF PullInv
<1>15. QED
  BY <1>8, <1>9, <1>11, <1>12, <1>13, <1>14 DEF PullInv

LEMMA ResponseIs ==
  ASSUME PullInv
  PROVE  /\ C!Response \in Copies /\ C!Response.hash = form.hash /\ C!Response.known = form.active
         /\ C!Response.there = job.asset.there
BY JobTypes DEF C!Response, Jobs, Copies, Forms

LEMMA StoreResponseStep ==
  ASSUME PullInv, C!StoreResponse
  PROVE  PullInv'
<1> DEFINE copy == IF job.asset.there THEN C!Response ELSE job.asset
<1>1. job.pc = "response" /\ job.kind = "xforms"
      /\ UNCHANGED <<s, flagged, asset, quiet, settled, unflagged, form, viaKpi>>
      /\ job' = [job EXCEPT !.pc = "metadata", !.asset = copy]
  BY DEF C!StoreResponse, C!History, PullInv, PullTypes
<1>2. copy \in Copies /\ copy.there = job.asset.there /\ (job.asset.there => copy.hash = form.hash)
  BY ResponseIs, JobTypes DEF Jobs
<1> HIDE DEF copy
<1>3. job' \in Jobs /\ job'.pc = "metadata" /\ job'.kind = "xforms" /\ job'.form = job.form /\ job'.asset = copy
      /\ job'.kc = job.kc /\ job'.changed = job.changed
  BY <1>1, <1>2, JobTypes DEF Jobs
<1>4. PullTypes'
  <2>1. flagged' \in SUBSET C!Members /\ asset' \in Copies /\ settled' \in BOOLEAN /\ unflagged' \in BOOLEAN
        /\ quiet' \in BOOLEAN
    BY <1>1 DEF PullInv, PullTypes
  <2>2. QED
    BY <1>1, <1>3, <2>1, TypesGoOn
<1>5. ReadInv' /\ FormInv'
  BY <1>1, <1>2, <1>3 DEF PullInv, ReadInv, FormInv, Pulling
<1>6. SettledInv'
  BY <1>1, <1>3 DEF PullInv, SettledInv
<1>7. \A u \in C!Members : OfOne(u)'
  BY <1>1, <1>3, Elsewhere DEF Pulling
<1>8. RowsInv(s)'
  BY <1>1 DEF PullInv
<1>9. QED
  BY <1>4, <1>5, <1>6, <1>7, <1>8 DEF PullInv

LEMMA SyncMetadataStep ==
  ASSUME PullInv, C!SyncMetadata
  PROVE  PullInv'
<1> DEFINE differs == \/ ~job.asset.there \/ job.asset.active # job.form.active
                      \/ job.asset.known # job.form.active
           written == [C!Response EXCEPT !.active = job.form.active]
           copy == IF differs THEN written ELSE job.asset
<1>1. job.pc = "metadata" /\ job.kind = "xforms"
      /\ UNCHANGED <<s, flagged, asset, quiet, settled, unflagged, form, viaKpi>>
      /\ job' = [job EXCEPT !.pc = "perms", !.changed = job.changed \/ differs, !.asset = copy]
  BY DEF C!SyncMetadata, C!History, PullInv, PullTypes
<1>2. written \in Copies /\ written.hash = form.hash /\ written.known = form.active
      /\ written.active = job.form.active
  BY ResponseIs, JobTypes DEF Jobs, Copies, Forms
<1> HIDE DEF written
<1>3. copy \in Copies /\ (differs => copy = written) /\ (~differs => copy = job.asset) /\ differs \in BOOLEAN
  BY <1>2, JobTypes DEF Jobs
<1> HIDE DEF copy
<1>4. job' \in Jobs /\ job'.pc = "perms" /\ job'.kind = "xforms" /\ job'.form = job.form /\ job'.asset = copy
      /\ job'.kc = job.kc /\ job'.changed = (job.changed \/ differs)
  BY <1>1, <1>3, JobTypes DEF Jobs
<1>5. PullTypes'
  <2>1. flagged' \in SUBSET C!Members /\ asset' \in Copies /\ settled' \in BOOLEAN /\ unflagged' \in BOOLEAN
        /\ quiet' \in BOOLEAN
    BY <1>1 DEF PullInv, PullTypes
  <2>2. QED
    BY <1>1, <1>4, <2>1, TypesGoOn
<1>6. ReadInv'
  BY <1>1, <1>4 DEF PullInv, ReadInv, Pulling
<1>7. quiet => /\ job.form = form /\ (~job.changed => job.asset = asset)
               /\ (job.asset.there => job.asset.hash = form.hash)
  BY <1>1 DEF PullInv, FormInv
<1>8. FormInv'
  BY <1>1, <1>2, <1>3, <1>4, <1>7 DEF FormInv
<1>9. SettledInv'
  <2>1. settled => ~differs
    BY <1>1, <1>7 DEF PullInv, SettledInv
  <2> HIDE DEF differs
  <2>2. QED
    BY <1>1, <1>4, <2>1 DEF PullInv, SettledInv
<1>10. \A u \in C!Members : OfOne(u)'
  BY <1>1, <1>4, Elsewhere DEF Pulling
<1>11. RowsInv(s)'
  BY <1>1 DEF PullInv
<1>12. QED
  BY <1>5, <1>6, <1>8, <1>9, <1>10, <1>11 DEF PullInv

LEMMA SkipStep ==
  ASSUME PullInv, C!Skip
  PROVE  PullInv'
<1>1. job.pc \in {"content", "response", "metadata"} /\ job' = C!NoJob /\ settled' = (settled /\ quiet)
      /\ UNCHANGED <<s, flagged, asset, quiet, unflagged, form, viaKpi>>
  BY DEF C!Skip, C!StaysSettled, C!History
<1>2. job' \in Jobs /\ job'.pc = "idle" /\ job'.kind = "none"
  BY <1>1, JobTypes
<1>3. PullTypes'
  <2>1. flagged' \in SUBSET C!Members /\ asset' \in Copies /\ settled' \in BOOLEAN /\ unflagged' \in BOOLEAN
        /\ quiet' \in BOOLEAN
    BY <1>1 DEF PullInv, PullTypes
  <2>2. QED
    BY <1>1, <1>2, <2>1, TypesGoOn
<1>4. ReadInv' /\ FormInv'
  BY <1>2 DEF ReadInv, FormInv, Pulling
<1>5. SettledInv'
  BY <1>1, <1>2 DEF PullInv, SettledInv
<1>6. \A u \in C!Members : OfOne(u)'
  BY <1>1, <1>2, Elsewhere DEF Pulling
<1>7. RowsInv(s)'
  BY <1>1 DEF PullInv
<1>8. QED
  BY <1>3, <1>4, <1>5, <1>6, <1>7 DEF PullInv

-----------------------------------------------------------------------------
(* What they do with one user after another.                               *)
LEMMA ReadPermsStep ==
  ASSUME PullInv, C!ReadPerms
  PROVE  PullInv'
<1> DEFINE rows == s.granted \cup s.inherited
           told == {x \in s.kc : x[1] # Anonymous \/ job.kind = "perms"} \cup job.kc
           todo == ({x[1] : x \in rows \cup told} \cup flagged) \ {Owner[a]}
<1>1. job.pc = "perms" /\ UNCHANGED <<s, flagged, asset, quiet, settled, unflagged, form, viaKpi>>
      /\ job' = [job EXCEPT !.pc = "users", !.kc = told, !.rows = rows, !.flagged = flagged, !.todo = todo]
  BY DEF C!ReadPerms, C!History
<1>2. job.kind \in {"xforms", "perms"} /\ RowsInv(s) /\ flagged \in SUBSET C!Members
  BY <1>1 DEF PullInv, PullTypes
<1>3. rows \in SUBSET C!Pair /\ told \in SUBSET C!Pair
  BY JobTypes DEF C!AssetState, Jobs
<1>4. todo \in SUBSET C!Members /\ \A u, p : <<u, p>> \in rows \cup told /\ u \in C!Members => u \in todo
  BY <1>2, <1>3, TheForm DEF C!Pair
<1>5. flagged \subseteq todo
  BY <1>2, TheForm
<1>6. quiet => told = s.kc
  BY <1>1, <1>2 DEF PullInv, ReadInv
<1> HIDE DEF told, todo
<1>7. job' \in Jobs /\ job'.pc = "users" /\ job'.kind = job.kind /\ job'.form = job.form /\ job'.asset = job.asset
      /\ job'.kc = told /\ job'.changed = job.changed /\ job'.rows = rows /\ job'.flagged = flagged
      /\ job'.todo = todo
  BY <1>1, <1>2, <1>3, <1>4, JobTypes DEF Jobs
<1>8. PullTypes'
  <2>1. flagged' \in SUBSET C!Members /\ asset' \in Copies /\ settled' \in BOOLEAN /\ unflagged' \in BOOLEAN
        /\ quiet' \in BOOLEAN
    BY <1>1 DEF PullInv, PullTypes
  <2>2. QED
    BY <1>1, <1>2, <1>7, <2>1, TypesGoOn
<1>9. ReadInv'
  BY <1>1, <1>6, <1>7 DEF ReadInv
<1>10. FormInv'
  BY <1>1, <1>7 DEF PullInv, FormInv
<1>11. SettledInv'
  BY <1>1, <1>7 DEF PullInv, SettledInv
<1>12. ASSUME NEW u \in C!Members PROVE OfOne(u)'
  <2>1. Has(s, u)' = Has(s, u) /\ Rows(u)' = Has(s, u)
    BY <1>1, <1>7 DEF Has, Rows
  <2>2. ToCome(u)' /\ SeesTo(u)'
    BY <1>1, <1>7, <2>1 DEF ToCome, SeesTo, Sees
  <2>3. Explained(u)'
    BY <1>1, <1>7, <2>1 DEF PullInv, OfOne, Explained, Sees
  <2>4. SeenTo(u)'
    <3> SUFFICES ASSUME u \notin todo PROVE Has(s, u)' \cap Synced = Wanted(u)'
      BY <1>7 DEF SeenTo
    <3>1. Has(s, u) = {}
      BY <1>4 DEF Has
    <3>2. Wanted(u)' = C!Expected(told, u)
      BY <1>7 DEF Wanted, C!Expected
    <3>3. C!Expected(told, u) = {}
      BY <1>3, <1>4, ExpectedIs
    <3>4. QED
      BY <2>1, <3>1, <3>2, <3>3
  <2>5. QED
    BY <2>2, <2>3, <2>4 DEF OfOne
<1>13. RowsInv(s)'
  BY <1>1 DEF PullInv
<1>14. QED
  BY <1>8, <1>9, <1>10, <1>11, <1>12, <1>13 DEF PullInv

(* What a step that sees to a user changes of the command.                 *)
SameReading ==
  job'.kind = job.kind /\ job'.form = job.form /\ job'.asset = job.asset /\ job'.kc = job.kc
  /\ job'.rows = job.rows /\ job'.flagged = job.flagged

LEMMA SameReadingMeans ==
  ASSUME SameReading, NEW u
  PROVE  Rows(u)' = Rows(u) /\ Wanted(u)' = Wanted(u) /\ C!Exchanged(u)' = C!Exchanged(u)
BY DEF SameReading, Rows, Wanted, C!Expected, C!Exchanged, C!KpiRows

(* The others stay as they are.                                            *)
LEMMA TheOthers ==
  ASSUME PullInv, NEW u \in C!Members, NEW v \in C!Members \ {u}, SameReading,
         quiet' = quiet, viaKpi' = viaKpi, unflagged' = unflagged,
         job.kind \in {"xforms", "perms"}, job.pc \in {"users", "user"}, job'.pc \in {"users", "user"},
         job.pc = "user" => job.user = u, job'.pc = "user" => job'.user = u,
         job'.todo \subseteq job.todo, job.todo \subseteq job'.todo \cup {u},
         Has(s, v)' = Has(s, v), v \in flagged' <=> v \in flagged
  PROVE  OfOne(v)'
<1>1. Rows(v)' = Rows(v) /\ Wanted(v)' = Wanted(v) /\ C!Exchanged(v)' = C!Exchanged(v)
  BY SameReadingMeans
<1>2. OfOne(v) /\ ~Sees(v) /\ ~Sees(v)' /\ Pulling
  BY DEF PullInv, Sees, Pulling
<1>3. job'.flagged = job.flagged /\ (v \in job'.todo <=> v \in job.todo)
  BY DEF SameReading
<1>4. QED
  BY <1>1, <1>2, <1>3 DEF OfOne, ToCome, SeenTo, SeesTo, Explained, Trusted

LEMMA NextUserStep ==
  ASSUME PullInv, NEW u \in C!Members, C!NextUser(u)
  PROVE  PullInv'
<1> DEFINE mapped == Rows(u) \cap Synced
           grant  == Wanted(u) \ mapped
           revoke == mapped \ Wanted(u)
           purge  == revoke # {} /\ mapped \ revoke = {} /\ u \in job.flagged
<1>1. RowsInv(s) /\ job \in Jobs /\ C!KpiRows(u) = Rows(u) /\ job.kc \in SUBSET C!Pair
      /\ Rows(u) \cap C!KC_PERMISSIONS = mapped
  <2>1. RowsInv(s) /\ job \in Jobs
    BY DEF PullInv, PullTypes
  <2>2. QED
    BY <2>1, HeldIs DEF Jobs, Rows, Synced
<1>2. Wanted(u) \subseteq Synced
  BY <1>1, ExpectedIs DEF Wanted
<1>3. job.pc = "users" /\ u \in job.todo /\ UNCHANGED <<s, asset, quiet, settled, unflagged, form, viaKpi>>
  BY DEF C!NextUser, C!History
<1>4. job' = [job EXCEPT !.pc = "user", !.user = u, !.todo = job.todo \ {u}, !.grant = grant, !.revoke = revoke,
                        !.changed = job.changed \/ grant # {} \/ revoke # {}, !.purge = purge]
  BY <1>1 DEF C!NextUser, Wanted
<1>5. flagged' = IF Rows(u) = {} /\ u \notin job.flagged /\ grant # {} THEN flagged \cup {u} ELSE flagged
  BY <1>1 DEF C!NextUser, Wanted
<1>6. grant \in SUBSET Synced /\ revoke \in SUBSET Synced /\ u \in Users
  BY <1>2, TheForm
<1>7. job.kind \in {"xforms", "perms"}
  BY <1>3 DEF PullInv, PullTypes
<1>8. grant = Wanted(u) \ mapped /\ revoke = mapped \ Wanted(u)
      /\ purge = (revoke # {} /\ mapped \ revoke = {} /\ u \in job.flagged) /\ mapped = Rows(u) \cap Synced
  OBVIOUS
<1> HIDE DEF mapped, grant, revoke, purge
<1>9. /\ job' \in Jobs /\ job'.pc = "user" /\ job'.user = u /\ job'.todo = job.todo \ {u}
      /\ job'.grant = grant /\ job'.revoke = revoke /\ job'.purge = purge
      /\ job'.changed = (job.changed \/ grant # {} \/ revoke # {}) /\ SameReading
  BY <1>1, <1>4, <1>6, <1>8 DEF Jobs, SameReading
<1>10. PullTypes'
  <2>1. flagged' \in SUBSET C!Members /\ asset' \in Copies /\ settled' \in BOOLEAN /\ unflagged' \in BOOLEAN
        /\ quiet' \in BOOLEAN
    BY <1>3, <1>5 DEF PullInv, PullTypes
  <2>2. QED
    BY <1>3, <1>7, <1>9, <2>1, TypesGoOn DEF SameReading
<1>11. ReadInv'
  BY <1>3, <1>7, <1>9 DEF PullInv, ReadInv, Pulling, SameReading
<1>12. FormInv'
  BY <1>3, <1>9 DEF PullInv, FormInv, SameReading
<1>13. OfOne(u) /\ Pulling /\ ~Sees(u) /\ Has(s, u)' = Has(s, u)
  BY <1>3, <1>7 DEF PullInv, Pulling, Sees
<1>14. Trusted(u) => Has(s, u) = Rows(u) /\ (u \in job.flagged <=> u \in flagged)
  BY <1>3, <1>13 DEF OfOne, ToCome
<1>15. SettledInv'
  <2>1. ASSUME settled PROVE grant = {} /\ revoke = {}
    <3>1. quiet /\ Has(s, u) \cap Synced = C!Expected(s.kc, u)
      BY <2>1 DEF PullInv, SettledInv
    <3>2. job.kc = s.kc
      BY <1>13, <3>1 DEF PullInv, ReadInv
    <3>3. QED
      BY <1>8, <1>14, <3>1, <3>2 DEF Trusted, Wanted
  <2>2. QED
    BY <1>3, <1>8, <1>9, <2>1 DEF PullInv, SettledInv, SameReading
<1>16. ASSUME NEW v \in C!Members PROVE OfOne(v)'
  <2>1. CASE v # u
    <3>1. Has(s, v)' = Has(s, v) /\ (v \in flagged' <=> v \in flagged)
      BY <1>3, <1>5, <2>1
    <3>2. v \in C!Members \ {u}
      BY <2>1
    <3>3. QED
      BY <1>3, <1>7, <1>9, <3>1, <3>2, TheOthers
  <2>2. CASE v = u
    <3>1. Rows(u)' = Rows(u) /\ Wanted(u)' = Wanted(u)
      BY <1>9, SameReadingMeans
    <3>2. ToCome(u)' /\ SeenTo(u)'
      BY <1>9 DEF ToCome, SeenTo, Sees
    <3>3. Explained(u) /\ flagged \subseteq flagged'
      BY <1>5, <1>13 DEF OfOne
    <3>4. Explained(u)'
      BY <1>3, <1>9, <1>13, <3>3 DEF Explained, Sees
    <3>5. SeesTo(u)'
      <4> SUFFICES ASSUME Trusted(u)
                   PROVE  /\ grant \subseteq Wanted(u) /\ revoke \cap Wanted(u) = {}
                          /\ Wanted(u) \subseteq Has(s, u) \cup grant
                          /\ Has(s, u) \cap Synced \subseteq Wanted(u) \cup revoke
                          /\ purge => u \in job.flagged /\ Rows(u) \cap Synced # {} /\ Rows(u) \cap Wanted(u) = {}
                          /\ ~unflagged /\ u \notin viaKpi =>
                               /\ grant # {} => u \in flagged'
                               /\ ~purge /\ Wanted(u) = {} => Has(s, u) = {}
        BY <1>3, <1>9, <1>13, <3>1 DEF SeesTo, Trusted, SameReading
      <4>1. Has(s, u) = Rows(u) /\ (u \in job.flagged <=> u \in flagged)
        BY <1>14
      <4>2. ASSUME ~unflagged, u \notin viaKpi
            PROVE  /\ grant # {} => u \in flagged'
                   /\ ~purge /\ Wanted(u) = {} => Has(s, u) = {}
        BY <1>5, <1>8, <1>13, <3>3, <4>1, <4>2 DEF Explained
      <4>3. purge => u \in job.flagged /\ Rows(u) \cap Synced # {} /\ Rows(u) \cap Wanted(u) = {}
        BY <1>2, <1>8
      <4>4. QED
        BY <1>2, <1>8, <4>1, <4>2, <4>3
    <3>6. QED
      BY <2>2, <3>2, <3>4, <3>5 DEF OfOne
  <2>3. QED
    BY <2>1, <2>2
<1>17. RowsInv(s)'
  BY <1>1, <1>3
<1>18. QED
  BY <1>10, <1>11, <1>12, <1>15, <1>16, <1>17 DEF PullInv

(* A permission of the user that is seen to is assigned or removed.        *)
LEMMA OneOfThem ==
  ASSUME PullInv, job.pc = "user", NEW u \in C!Members, job.user = u, NEW grant \in SUBSET Synced, NEW revoke \in SUBSET Synced,
         job' = [job EXCEPT !.grant = grant, !.revoke = revoke],
         UNCHANGED <<flagged, asset, quiet, settled, unflagged, form, viaKpi>>,
         RowsInv(s)', s'.kc = s.kc, ~settled,
         \A v \in C!Members \ {u} : Has(s, v)' = Has(s, v),
         Trusted(u) =>
           /\ grant \subseteq Wanted(u) /\ revoke \cap Wanted(u) = {}
           /\ Wanted(u) \subseteq Has(s, u)' \cup grant
           /\ Has(s, u)' \cap Synced \subseteq Wanted(u) \cup revoke,
         Trusted(u) /\ ~unflagged /\ u \notin viaKpi =>
           /\ grant # {} \/ Has(s, u)' # {} => u \in flagged
           /\ ~job.purge /\ Wanted(u) = {} => Has(s, u)' = {}
  PROVE  PullInv'
<1>1. u \in C!Members /\ u \notin job.todo /\ job.kind \in {"xforms", "perms"} /\ OfOne(u) /\ job \in Jobs
  BY DEF PullInv, PullTypes
<1>2. /\ job' \in Jobs /\ job'.pc = "user" /\ job'.user = u /\ job'.todo = job.todo
      /\ job'.grant = grant /\ job'.revoke = revoke /\ job'.purge = job.purge
      /\ job'.changed = job.changed /\ SameReading
  BY <1>1 DEF Jobs, SameReading
<1>3. PullTypes'
  <2>1. flagged' \in SUBSET C!Members /\ asset' \in Copies /\ settled' \in BOOLEAN /\ unflagged' \in BOOLEAN
        /\ quiet' \in BOOLEAN
    BY DEF PullInv, PullTypes
  <2>2. QED
    BY <1>1, <1>2, <2>1, TypesGoOn DEF SameReading
<1>4. ReadInv'
  BY <1>1, <1>2 DEF PullInv, ReadInv, Pulling, SameReading
<1>5. FormInv'
  BY <1>2 DEF PullInv, FormInv, SameReading
<1>6. SettledInv'
  BY DEF SettledInv
<1>7. ASSUME NEW v \in C!Members PROVE OfOne(v)'
  <2>1. CASE v # u
    <3>1. v \in C!Members \ {u} /\ Has(s, v)' = Has(s, v) /\ (v \in flagged' <=> v \in flagged)
      BY <2>1
    <3>2. QED
      BY <1>1, <1>2, <3>1, TheOthers
  <2>2. CASE v = u
    <3>1. Rows(u)' = Rows(u) /\ Wanted(u)' = Wanted(u)
      BY <1>2, SameReadingMeans
    <3>2. ToCome(u)' /\ SeenTo(u)'
      BY <1>1, <1>2 DEF ToCome, SeenTo, Sees
    <3>3. Sees(u) /\ Sees(u)'
      BY <1>2 DEF Sees
    <3>4. Explained(u)'
      BY <3>3 DEF Explained, Trusted
    <3>5. SeesTo(u)'
      <4>1. Trusted(u)' = Trusted(u) /\ job'.flagged = job.flagged
        BY <1>2 DEF Trusted, SameReading
      <4>2. Trusted(u) /\ job.purge =>
              u \in job.flagged /\ Rows(u) \cap Synced # {} /\ Rows(u) \cap Wanted(u) = {}
        BY <1>1, <3>3 DEF OfOne, SeesTo
      <4>3. QED
        BY <1>2, <3>1, <4>1, <4>2 DEF SeesTo
    <3>6. QED
      BY <2>2, <3>2, <3>4, <3>5 DEF OfOne
  <2>3. QED
    BY <2>1, <2>2
<1>8. QED
  BY <1>3, <1>4, <1>5, <1>6, <1>7 DEF PullInv

LEMMA AssignOneStep ==
  ASSUME PullInv, NEW p \in Synced, C!AssignOne(p)
  PROVE  PullInv'
<1>0. PICK u : u = job.user
  OBVIOUS
<1> DEFINE y == C!Assigned(s, a, u, p, FALSE, {})
           grant == job.grant \ {p}
<1>1. job.pc = "user" /\ p \in job.grant /\ UNCHANGED <<flagged, asset, quiet, settled, unflagged, form, viaKpi>>
  BY DEF C!AssignOne, C!History
<1>2. job \in Jobs /\ u \in C!Members /\ RowsInv(s) /\ OfOne(u) /\ Sees(u) /\ s.kc \in SUBSET C!Pair
  BY <1>0, <1>1, JobTypes DEF PullInv, PullTypes, Sees
<1>3. s' = WithKc(y, s.kc) /\ job' = [job EXCEPT !.grant = grant]
  BY <1>0 DEF C!AssignOne, WithKc
<1>4. p \in C!Assignable(a)
  BY TheForm
<1> HIDE DEF y
<1>5. /\ RowsInv(y) /\ \A v \in C!Members \ {u} : Has(y, v) = Has(s, v)
      /\ Has(y, u) \cap Synced = (Has(s, u) \cap Synced) \cup (With(p) \cap Synced)
  <2>1. u \in C!Members /\ RowsInv(s)
    BY <1>2
  <2>2. Gains(s, y, u, p)
    BY <1>4, <2>1, AssignsHere DEF y
  <2>3. QED
    BY <2>2 DEF Gains
<1>6. /\ RowsInv(s') /\ s'.kc = s.kc /\ \A v \in C!Members \ {u} : Has(s', v) = Has(s, v)
      /\ Has(s', u) \cap Synced = (Has(s, u) \cap Synced) \cup (With(p) \cap Synced)
  BY <1>2, <1>3, <1>5, TellsOnly
<1>7. grant \in SUBSET Synced /\ job.revoke \in SUBSET Synced
      /\ job' = [job EXCEPT !.grant = grant, !.revoke = job.revoke]
  BY <1>2, <1>3 DEF Jobs
<1>8. ~settled
  BY <1>1 DEF PullInv, SettledInv
<1>9. Wanted(u) \subseteq Synced /\ (p \in Wanted(u) => With(p) \cap Synced \subseteq Wanted(u)) /\ p \in With(p)
  BY <1>2, ExpectedIs DEF Jobs, Wanted, With
<1>10. Trusted(u) =>
         /\ p \in Wanted(u) /\ grant \subseteq Wanted(u) /\ job.revoke \cap Wanted(u) = {}
         /\ Wanted(u) \subseteq Has(s', u) \cup grant
         /\ Has(s', u) \cap Synced \subseteq Wanted(u) \cup job.revoke
  BY <1>1, <1>2, <1>6, <1>9 DEF OfOne, SeesTo
<1>11. Trusted(u) /\ ~unflagged /\ u \notin viaKpi => u \in flagged /\ Wanted(u) # {}
  BY <1>1, <1>2, <1>10 DEF OfOne, SeesTo
<1> HIDE DEF grant
<1>12. QED
  BY <1>0, <1>1, <1>2, <1>6, <1>7, <1>8, <1>10, <1>11, OneOfThem

LEMMA RemoveOneStep ==
  ASSUME PullInv, NEW p \in Synced, C!RemoveOne(p)
  PROVE  PullInv'
<1>0. PICK u : u = job.user
  OBVIOUS
<1> DEFINE y == C!CleanPartial(C!Revoke(s, a, u, p), u, p)
           revoke == job.revoke \ {p}
<1>1. job.pc = "user" /\ job.grant = {} /\ p \in job.revoke
      /\ UNCHANGED <<flagged, asset, quiet, settled, unflagged, form, viaKpi>>
  BY DEF C!RemoveOne, C!History
<1>2. job \in Jobs /\ u \in C!Members /\ RowsInv(s) /\ OfOne(u) /\ Sees(u) /\ s.kc \in SUBSET C!Pair
  BY <1>0, <1>1, JobTypes DEF PullInv, PullTypes, Sees
<1>3. s' = WithKc(y, s.kc) /\ job' = [job EXCEPT !.revoke = revoke]
  BY <1>0 DEF C!RemoveOne, WithKc
<1>4. p \in Codenames /\ p # "discover_asset"
  BY TheForm
<1> HIDE DEF y
<1>5. /\ RowsInv(y) /\ \A v \in C!Members \ {u} : Has(y, v) = Has(s, v)
      /\ Has(y, u) = {q \in Has(s, u) : p \notin With(q)} /\ p \notin Has(y, u)
  BY <1>2, <1>4, RevokesHere DEF y
<1>6. /\ RowsInv(s') /\ s'.kc = s.kc /\ \A v \in C!Members \ {u} : Has(s', v) = Has(s, v)
      /\ Has(s', u) = {q \in Has(s, u) : p \notin With(q)} /\ p \notin Has(s', u)
  BY <1>2, <1>3, <1>5, TellsOnly
<1>7. revoke \in SUBSET Synced /\ job.grant \in SUBSET Synced
      /\ job' = [job EXCEPT !.grant = job.grant, !.revoke = revoke]
  BY <1>2, <1>3 DEF Jobs
<1>8. ~settled
  BY <1>1 DEF PullInv, SettledInv
<1>9. Wanted(u) \subseteq Synced /\ \A q \in Wanted(u) : With(q) \cap Synced \subseteq Wanted(u)
  BY <1>2, ExpectedIs DEF Jobs, Wanted
<1>10. Trusted(u) =>
         /\ p \notin Wanted(u) /\ job.grant \subseteq Wanted(u) /\ revoke \cap Wanted(u) = {}
         /\ Wanted(u) \subseteq Has(s', u) \cup job.grant
         /\ Has(s', u) \cap Synced \subseteq Wanted(u) \cup revoke
  BY <1>1, <1>2, <1>6, <1>9 DEF OfOne, SeesTo
<1>11. Trusted(u) /\ ~unflagged /\ u \notin viaKpi =>
         /\ job.grant # {} \/ Has(s', u) # {} => u \in flagged
         /\ ~job.purge /\ Wanted(u) = {} => Has(s', u) = {}
  BY <1>1, <1>2, <1>6 DEF OfOne, SeesTo, Explained
<1>12. QED
  BY <1>0, <1>1, <1>2, <1>6, <1>7, <1>8, <1>10, <1>11, OneOfThem

(* Who lost all that was given through KoBoCAT loses what it implied.      *)
LEMMA EndUserStep ==
  ASSUME PullInv, C!EndUser
  PROVE  PullInv'
<1>0. PICK u : u = job.user
  OBVIOUS
<1>1. job.pc = "user" /\ job.grant = {} /\ job.revoke = {} /\ job' = [job EXCEPT !.pc = "users"]
      /\ UNCHANGED <<asset, quiet, settled, unflagged, form, viaKpi>>
  BY DEF C!EndUser, C!Go, C!History
<1>2. job \in Jobs /\ u \in C!Members /\ u \notin job.todo /\ RowsInv(s) /\ OfOne(u) /\ Sees(u) /\ Pulling
      /\ job.kind \in {"xforms", "perms"} /\ flagged \in SUBSET C!Members
  BY <1>0, <1>1 DEF PullInv, PullTypes, Sees, Pulling
<1>3. /\ job' \in Jobs /\ job'.pc = "users" /\ job'.todo = job.todo /\ job'.changed = job.changed
      /\ job'.purge = job.purge /\ SameReading
  BY <1>1, <1>2 DEF Jobs, SameReading
<1>4. /\ RowsInv(s') /\ s'.kc = s.kc /\ \A v \in C!Members \ {u} : Has(s', v) = Has(s, v)
      /\ Has(s', u) = IF job.purge THEN {} ELSE Has(s, u)
      /\ flagged' = IF job.purge THEN flagged \ {u} ELSE flagged
      /\ ~job.purge => s' = s
  <2>1. CASE ~job.purge
    BY <1>2, <2>1 DEF C!EndUser
  <2>2. CASE job.purge
    <3> DEFINE granted == s.granted \ C!Of(u, Codenames)
               inherited == s.inherited \ C!Of(u, Codenames)
    <3>1. s \in C!AssetState /\ granted \in SUBSET C!Pair /\ inherited \in SUBSET C!Pair
          /\ s.denied \in SUBSET C!Pair /\ s.kc \in SUBSET C!Pair
      BY <1>2 DEF RowsInv, C!AssetState
    <3>2. flagged' = flagged \ {u}
          /\ s' = [s EXCEPT !.granted = granted, !.inherited = inherited]
      BY <1>0, <2>2 DEF C!EndUser
    <3>3. \A v, q : (<<v, q>> \in granted <=> <<v, q>> \in s.granted /\ ~(v = u /\ q \in Codenames))
                    /\ (<<v, q>> \in inherited <=> <<v, q>> \in s.inherited /\ ~(v = u /\ q \in Codenames))
      BY <1>2, OfHere
    <3> HIDE DEF granted, inherited
    <3>4. s' = WithRows(s, granted, s.denied, inherited, s.kc)
      BY <3>1, <3>2 DEF WithRows, C!AssetState
    <3>5. s' \in C!AssetState /\ s'.granted = granted /\ s'.inherited = inherited /\ s'.kc = s.kc
      BY <3>1, <3>4, WithRowsIs
    <3>6. Has(s', u) = {}
      BY <3>3, <3>5 DEF Has
    <3>7. \A v \in C!Members \ {u} : Has(s', v) = Has(s, v)
      BY <3>3, <3>5 DEF Has
    <3>8. RowsInv(s')
      BY <1>2, <3>3, <3>5, <3>6, <3>7 DEF RowsInv
    <3>9. QED
      BY <2>2, <3>2, <3>5, <3>6, <3>7, <3>8
  <2>3. QED
    BY <2>1, <2>2
<1>5. PullTypes'
  <2>1. flagged' \in SUBSET C!Members /\ asset' \in Copies /\ settled' \in BOOLEAN /\ unflagged' \in BOOLEAN
        /\ quiet' \in BOOLEAN
    BY <1>1, <1>2, <1>4 DEF PullInv, PullTypes
  <2>2. QED
    BY <1>1, <1>2, <1>3, <2>1, TypesGoOn DEF SameReading
<1>6. ReadInv'
  BY <1>1, <1>2, <1>3, <1>4 DEF PullInv, ReadInv, Pulling, SameReading
<1>7. FormInv'
  BY <1>1, <1>3 DEF PullInv, FormInv, SameReading
<1>8. SettledInv'
  <2>1. settled => ~job.purge
    BY <1>1 DEF PullInv, SettledInv
  <2>2. QED
    BY <1>1, <1>3, <1>4, <2>1 DEF PullInv, SettledInv, SameReading
<1>9. Rows(u)' = Rows(u) /\ Wanted(u)' = Wanted(u) /\ C!Exchanged(u)' = C!Exchanged(u) /\ ~Sees(u)'
  BY <1>3, SameReadingMeans DEF Sees
<1>10. Trusted(u) => Wanted(u) \subseteq Has(s, u) /\ Has(s, u) \cap Synced \subseteq Wanted(u)
  BY <1>1, <1>2 DEF OfOne, SeesTo
<1>11. Wanted(u) \subseteq Synced
  BY <1>2, ExpectedIs DEF Jobs, Wanted
<1>12. SeenTo(u)'
  <2> SUFFICES ASSUME quiet PROVE Has(s', u) \cap Synced = Wanted(u) \/ C!Exchanged(u)
    BY <1>1, <1>9 DEF SeenTo
  <2>1. CASE ~job.purge
    BY <1>4, <1>10, <1>11, <2>1 DEF Trusted
  <2>2. CASE job.purge
    <3>1. u \in job.flagged /\ Rows(u) \cap Synced # {} /\ Rows(u) \cap Wanted(u) = {}
      BY <1>2, <2>2 DEF OfOne, SeesTo, Trusted
    <3>2. Has(s', u) \cap Synced = {}
      BY <1>4, <2>2
    <3>3. QED
      BY <1>2, <3>1, <3>2, ExchangedIs
  <2>3. QED
    BY <2>1, <2>2
<1>13. Explained(u)'
  <2> SUFFICES ASSUME ~unflagged, u \notin viaKpi
               PROVE  /\ Has(s', u) # {} => u \in flagged'
                      /\ Has(s', u) \cap Synced = {} => Has(s', u) = {}
    BY <1>1 DEF Explained
  <2>1. CASE ~job.purge
    <3>1. Has(s, u) # {} => u \in flagged
      BY <1>2 DEF OfOne, Explained
    <3>2. Wanted(u) = {} => Has(s, u) = {}
      BY <1>2, <2>1 DEF OfOne, SeesTo, Trusted
    <3>3. QED
      BY <1>4, <1>10, <1>11, <2>1, <3>1, <3>2 DEF Trusted
  <2>2. CASE job.purge
    BY <1>4, <2>2
  <2>3. QED
    BY <2>1, <2>2
<1>14. ASSUME NEW v \in C!Members PROVE OfOne(v)'
  <2>1. CASE v # u
    <3>1. v \in C!Members \ {u} /\ Has(s, v)' = Has(s, v) /\ (v \in flagged' <=> v \in flagged)
      BY <1>4, <2>1
    <3>2. QED
      BY <1>0, <1>1, <1>2, <1>3, <3>1, TheOthers
  <2>2. CASE v = u
    <3>1. ToCome(u)' /\ SeesTo(u)'
      BY <1>2, <1>3, <1>9 DEF ToCome, SeesTo
    <3>2. QED
      BY <1>12, <1>13, <2>2, <3>1 DEF OfOne
  <2>3. QED
    BY <2>1, <2>2
<1>15. QED
  BY <1>4, <1>5, <1>6, <1>7, <1>8, <1>14 DEF PullInv

LEMMA SaveFormStep ==
  ASSUME PullInv, C!SaveForm
  PROVE  PullInv'
<1> DEFINE saved == [job.asset EXCEPT !.there = TRUE]
<1>1. job.pc = "users" /\ job.todo = {} /\ job.kind = "xforms" /\ job' = C!NoJob
      /\ UNCHANGED <<s, flagged, quiet, unflagged, form, viaKpi>>
      /\ settled' = (quiet /\ \A u \in C!Members : ~C!Exchanged(u))
      /\ asset' = IF job.changed THEN saved ELSE asset
  BY DEF C!SaveForm, C!History
<1>2. saved \in Copies /\ saved.there /\ saved.hash = job.asset.hash /\ saved.active = job.asset.active
      /\ saved.known = job.asset.known
  BY JobTypes DEF Jobs, Copies
<1> HIDE DEF saved
<1>3. job' \in Jobs /\ job'.pc = "idle" /\ job'.kind = "none" /\ asset' \in Copies
  BY <1>1, <1>2, JobTypes
<1>4. PullTypes'
  <2>1. flagged' \in SUBSET C!Members /\ settled' \in BOOLEAN /\ unflagged' \in BOOLEAN /\ quiet' \in BOOLEAN
    BY <1>1 DEF PullInv, PullTypes
  <2>2. QED
    BY <1>1, <1>3, <2>1, TypesGoOn
<1>5. ReadInv' /\ FormInv'
  BY <1>3 DEF ReadInv, FormInv, Pulling
<1>6. SettledInv'
  <2> SUFFICES ASSUME quiet, \A u \in C!Members : ~C!Exchanged(u)
               PROVE  /\ asset'.there /\ asset'.hash = form.hash /\ asset'.active = form.active
                      /\ asset'.known = form.active
                      /\ \A u \in C!Members : Has(s, u) \cap Synced = C!Expected(s.kc, u)
    BY <1>1, <1>3 DEF SettledInv
  <2>1. /\ job.asset.hash = form.hash /\ job.asset.active = form.active /\ job.asset.known = form.active
        /\ ~job.changed => job.asset.there /\ job.asset = asset
    BY <1>1 DEF PullInv, FormInv
  <2>2. job.kc = s.kc
    BY <1>1 DEF PullInv, ReadInv, Pulling
  <2>3. ASSUME NEW u \in C!Members PROVE Has(s, u) \cap Synced = C!Expected(s.kc, u)
    <3>1. SeenTo(u) /\ ~Sees(u) /\ Pulling
      BY <1>1 DEF PullInv, OfOne, Sees, Pulling
    <3>2. QED
      BY <1>1, <2>2, <3>1 DEF SeenTo, Wanted
  <2>4. QED
    BY <1>1, <1>2, <2>1, <2>3
<1>7. \A u \in C!Members : OfOne(u)'
  BY <1>1, <1>3, Elsewhere DEF Pulling
<1>8. RowsInv(s)'
  BY <1>1 DEF PullInv
<1>9. QED
  BY <1>4, <1>5, <1>6, <1>7, <1>8 DEF PullInv

-----------------------------------------------------------------------------
(* sync_kobocat_perms, but for the pull.                                   *)
LEMMA PushKeeps ==
  ASSUME PullInv, RowsInv(s)', \A u \in C!Members : Has(s, u)' = Has(s, u),
         job' \in Jobs, job.pc # "user", job'.pc \in {"perms", "users", "push", "ended", "idle"},
         job'.kind \in {"none", "perms", "mirror"}, job'.pc = "idle" <=> job'.kind = "none",
         job'.pc = "perms" => job'.kind = "perms" /\ job'.kc = {},
         job'.pc = "users" => job'.kind = "mirror" /\ job'.todo = {},
         ~settled', UNCHANGED <<form, viaKpi, asset>>, quiet' \in BOOLEAN, unflagged' \in BOOLEAN,
         settled' \in BOOLEAN, flagged' \in SUBSET C!Members,
         unflagged' \/ (flagged' = flagged /\ unflagged' = unflagged)
  PROVE  PullInv'
<1>1. asset' \in Copies
  BY DEF PullInv, PullTypes
<1>2. PullTypes'
  BY <1>1, TypesGoOn
<1>3. ReadInv' /\ FormInv' /\ SettledInv'
  BY DEF ReadInv, FormInv, SettledInv, Pulling
<1>4. \A u \in C!Members : OfOne(u)'
  BY Elsewhere DEF Pulling
<1>5. QED
  BY <1>2, <1>3, <1>4 DEF PullInv

LEMMA StartPermsStep ==
  ASSUME PullInv, C!StartPerms
  PROVE  PullInv'
<1>1. job.pc = "idle" /\ quiet' = TRUE /\ settled' = FALSE
      /\ UNCHANGED <<s, flagged, asset, unflagged, form, viaKpi>>
      /\ job' = [C!NoJob EXCEPT !.pc = "perms", !.kind = "perms"]
  BY DEF C!StartPerms, C!Idle, C!History
<1>2. job' \in Jobs /\ job'.pc = "perms" /\ job'.kind = "perms" /\ job'.kc = {}
  BY <1>1, JobTypes DEF Jobs
<1>3. RowsInv(s') /\ flagged' \in SUBSET C!Members /\ unflagged' \in BOOLEAN
  BY <1>1 DEF PullInv, PullTypes
<1>4. QED
  BY <1>1, <1>2, <1>3, PushKeeps

LEMMA StartMirrorStep ==
  ASSUME PullInv, C!StartMirror
  PROVE  PullInv'
<1> DEFINE told == {x \in s.kc : x[1] \in {Owner[a], Anonymous}}
<1>1. job.pc = "idle" /\ quiet' = TRUE /\ settled' = FALSE
      /\ UNCHANGED <<flagged, asset, unflagged, form, viaKpi>> /\ s' = WithKc(s, told)
      /\ job' = [C!NoJob EXCEPT !.pc = "users", !.kind = "mirror"]
  BY DEF C!StartMirror, C!Idle, C!History, WithKc
<1>2. job' \in Jobs /\ job'.pc = "users" /\ job'.kind = "mirror" /\ job'.todo = {}
  BY <1>1, JobTypes DEF Jobs
<1>3. told \in SUBSET C!Pair /\ RowsInv(s)
  BY JobTypes DEF PullInv
<1> HIDE DEF told
<1>4. RowsInv(s') /\ \A u : Has(s', u) = Has(s, u)
  BY <1>1, <1>3, TellsOnly
<1>5. flagged' \in SUBSET C!Members /\ unflagged' \in BOOLEAN
  BY <1>1 DEF PullInv, PullTypes
<1>6. QED
  BY <1>1, <1>2, <1>4, <1>5, PushKeeps

LEMMA PushSteps ==
  ASSUME PullInv, C!PushStart \/ (\E u \in C!Members : C!Push(u)) \/ C!Unflag \/ C!End
  PROVE  PullInv'
<1>1. job.kind \in {"perms", "mirror"} /\ job.pc \in {"users", "push", "ended"}
  BY DEF C!PushStart, C!Push, C!Unflag, C!End, PullInv, PullTypes
<1>2. UNCHANGED <<asset, quiet, settled, form, viaKpi>> /\ ~settled /\ settled \in BOOLEAN /\ quiet \in BOOLEAN
      /\ unflagged \in BOOLEAN /\ flagged \in SUBSET C!Members /\ RowsInv(s) /\ job \in Jobs
  BY <1>1 DEF C!PushStart, C!Push, C!Unflag, C!End, C!History, PullInv, PullTypes, SettledInv
<1>3. CASE C!PushStart
  <2> DEFINE todo == {u \in C!Members : C!Pushed(u) # {}}
  <2>1. job' = [job EXCEPT !.pc = "push", !.todo = todo] /\ UNCHANGED <<s, flagged, unflagged>>
    BY <1>3 DEF C!PushStart
  <2>2. todo \in SUBSET C!Members
    OBVIOUS
  <2> HIDE DEF todo
  <2>3. job' \in Jobs /\ job'.pc = "push" /\ job'.kind = job.kind
    BY <1>2, <2>1, <2>2 DEF Jobs
  <2>4. RowsInv(s') /\ \A u : Has(s', u) = Has(s, u)
    BY <1>2, <2>1
  <2>5. QED
    BY <1>1, <1>2, <2>1, <2>3, <2>4, PushKeeps
<1>4. ASSUME NEW u \in C!Members, C!Push(u) PROVE PullInv'
  <2>1. CASE u = Anonymous
    <3> DEFINE told == s.kc \cup C!Of(u, C!Pushed(u) \cap C!KC(u))
               todo == job.todo \ {u}
    <3>1. s' = WithKc(s, told) /\ job' = [job EXCEPT !.todo = todo] /\ job.pc = "push"
          /\ UNCHANGED <<flagged, unflagged>>
      BY <1>4, <2>1 DEF C!Push, WithKc
    <3>2. told \in SUBSET C!Pair
      BY OfHere, JobTypes
    <3>3. todo \in SUBSET C!Members
      BY <1>2 DEF Jobs
    <3> HIDE DEF told, todo
    <3>4. job' \in Jobs /\ job'.pc = "push" /\ job'.kind = job.kind
      BY <1>2, <3>1, <3>3 DEF Jobs
    <3>5. RowsInv(s') /\ \A v : Has(s', v) = Has(s, v)
      BY <1>2, <3>1, <3>2, TellsOnly
    <3>6. QED
      BY <1>1, <1>2, <3>1, <3>4, <3>5, PushKeeps
  <2>2. CASE u # Anonymous
    <3>1. s' = s /\ job' = [job EXCEPT !.pc = "ended"] /\ UNCHANGED <<flagged, unflagged>>
      BY <1>4, <2>2 DEF C!Push
    <3>2. job' \in Jobs /\ job'.pc = "ended" /\ job'.kind = job.kind
      BY <1>2, <3>1 DEF Jobs
    <3>3. RowsInv(s') /\ \A v : Has(s', v) = Has(s, v)
      BY <1>2, <3>1
    <3>4. QED
      BY <1>1, <1>2, <3>1, <3>2, <3>3, PushKeeps
  <2>3. QED
    BY <2>1, <2>2
<1>5. CASE C!Unflag
  <2>1. s' = s /\ flagged' = {} /\ unflagged' = TRUE /\ job' = [job EXCEPT !.pc = "ended"]
    BY <1>5 DEF C!Unflag, C!Go
  <2>2. job' \in Jobs /\ job'.pc = "ended" /\ job'.kind = job.kind
    BY <1>2, <2>1 DEF Jobs
  <2>3. RowsInv(s') /\ \A v : Has(s', v) = Has(s, v)
    BY <1>2, <2>1
  <2>4. QED
    BY <1>1, <1>2, <2>1, <2>2, <2>3, PushKeeps
<1>6. CASE C!End
  <2>1. job' = C!NoJob /\ UNCHANGED <<s, flagged, unflagged>>
    BY <1>6 DEF C!End
  <2>2. job' \in Jobs /\ job'.pc = "idle" /\ job'.kind = "none"
    BY <2>1, JobTypes
  <2>3. RowsInv(s') /\ \A v : Has(s', v) = Has(s, v)
    BY <1>2, <2>1
  <2>4. QED
    BY <1>1, <1>2, <2>1, <2>2, <2>3, PushKeeps
<1>7. QED
  BY <1>3, <1>4, <1>5, <1>6

LEMMA PullSteps == PullInv /\ C!ReconcileNext => PullInv'
<1> SUFFICES ASSUME PullInv, C!ReconcileNext PROVE PullInv'
  OBVIOUS
<1>1. CASE C!Users_
  BY <1>1, UsersStep
<1>2. CASE C!StartForms \/ C!SyncContent \/ C!StoreResponse \/ C!SyncMetadata \/ C!Skip
  BY <1>2, StartFormsStep, SyncContentStep, StoreResponseStep, SyncMetadataStep, SkipStep
<1>3. CASE C!ReadPerms \/ C!EndUser \/ C!SaveForm
  BY <1>3, ReadPermsStep, EndUserStep, SaveFormStep
<1>4. CASE C!StartPerms \/ C!StartMirror
  BY <1>4, StartPermsStep, StartMirrorStep
<1>5. CASE C!PushStart \/ (\E u \in C!Members : C!Push(u)) \/ C!Unflag \/ C!End
  BY <1>5, PushSteps
<1>6. CASE \E u \in C!Members : C!NextUser(u)
  BY <1>6, NextUserStep
<1>7. CASE \E p \in C!KC_PERMISSIONS \cap Codenames : C!AssignOne(p) \/ C!RemoveOne(p)
  BY <1>7, AssignOneStep, RemoveOneStep DEF Synced
<1>8. QED
  BY <1>1, <1>2, <1>3, <1>4, <1>5, <1>6, <1>7 DEF C!ReconcileNext, C!Commands

LEMMA PullRests == PullInv /\ UNCHANGED syncVars => PullInv'
BY DEF syncVars, PullInv, PullTypes, ReadInv, FormInv, SettledInv, OfOne, ToCome, SeenTo, SeesTo,
   Explained,
       Trusted, Pulling, Rows, Wanted, Sees, C!Exchanged, C!KpiRows, C!Expected

(* Nothing is left to do once the forms are synchronised.                  *)
LEMMA NothingToDo ==
  ASSUME PullInv, C!ReconcileNext, settled, settled'
  PROVE  UNCHANGED <<s, flagged, asset>>
<1>1. /\ job.kind \in {"none", "xforms"} /\ (job.kind = "xforms" => ~job.changed /\ job.pc # "response")
      /\ job.pc = "user" => job.grant = {} /\ job.revoke = {} /\ ~job.purge
      /\ quiet /\ \A u \in C!Members : Has(s, u) \cap Synced = C!Expected(s.kc, u)
  BY DEF PullInv, SettledInv
<1>2. ~C!Users_
  BY DEF C!Users_, C!Change, C!KobocatGrants, C!KobocatRevokes, C!KobocatReplaces,
     C!KobocatToggles, C!KpiEdits,
         C!KpiAssigns, C!KpiRemoves
<1>3. ~C!StartPerms /\ ~C!StartMirror
  BY DEF C!StartPerms, C!StartMirror
<1>4. ~(C!PushStart \/ (\E u \in C!Members : C!Push(u)) \/ C!Unflag \/ C!End)
  BY <1>1 DEF C!PushStart, C!Push, C!Unflag, C!End, PullInv, PullTypes
<1>5. ~\E p \in C!KC_PERMISSIONS \cap Codenames : C!AssignOne(p) \/ C!RemoveOne(p)
  BY <1>1 DEF C!AssignOne, C!RemoveOne
<1>6. ASSUME NEW u \in C!Members, C!NextUser(u) PROVE UNCHANGED <<s, flagged, asset>>
  <2>1. job.pc = "users" /\ u \in job.todo /\ UNCHANGED <<s, asset>> /\ OfOne(u) /\ Pulling /\ job \in Jobs
        /\ RowsInv(s) /\ job.kc = s.kc
    BY <1>1, <1>6 DEF C!NextUser, PullInv, PullTypes, ReadInv, Pulling
  <2>2. Has(s, u) = Rows(u)
    BY <1>1, <2>1 DEF OfOne, ToCome, Trusted
  <2>3. C!Expected(job.kc, u) \subseteq Rows(u)
    BY <1>1, <2>1, <2>2
  <2>4. C!KpiRows(u) = Rows(u)
    BY <2>1, HeldIs
  <2>5. C!Expected(job.kc, u) \ (C!KpiRows(u) \cap C!KC_PERMISSIONS) = {}
    BY <2>3, <2>4 DEF C!Expected
  <2>6. flagged' = flagged
    BY <1>6, <2>5 DEF C!NextUser
  <2>7. QED
    BY <2>1, <2>6
<1>7. CASE C!StartForms \/ C!SyncContent \/ C!StoreResponse \/ C!SyncMetadata \/ C!Skip \/ C!ReadPerms
  BY <1>7 DEF C!StartForms, C!SyncContent, C!StoreResponse, C!SyncMetadata, C!Skip, C!ReadPerms
<1>8. CASE C!EndUser
  BY <1>1, <1>8 DEF C!EndUser
<1>9. CASE C!SaveForm
  BY <1>1, <1>9 DEF C!SaveForm
<1>10. QED
  BY <1>2, <1>3, <1>4, <1>5, <1>6, <1>7, <1>8, <1>9 DEF C!ReconcileNext, C!Commands

-----------------------------------------------------------------------------
PullsInv == turn = "commands" => PullInv

LEMMA PullsStart == ProjectsInit => PullsInv
BY PullStarts DEF ProjectsInit, PullsInv

LEMMA PullsGoOn == PullsInv /\ [ProjectsNext]_projectVars => PullsInv'
<1> SUFFICES ASSUME PullsInv, [ProjectsNext]_projectVars, turn' = "commands" PROVE PullInv'
  BY DEF PullsInv
<1>1. turn = "commands"
  BY DEF ProjectsNext, Alone, Together, Commands, Lists, Assigned, Pages, Accounts, projectVars
<1>2. PullInv
  BY <1>1 DEF PullsInv
<1>3. C!ReconcileNext \/ UNCHANGED syncVars
  BY DEF ProjectsNext, Alone, Together, Commands, Lists, Assigned, Pages, Accounts, projectVars,
     formVars
<1>4. QED
  BY <1>2, <1>3, PullSteps, PullRests

(* A pull that nobody interferes with gives every user in KPI what they    *)
(* have in KoBoCAT and what it implies, whatever users did on both sides   *)
(* before, and leaves nothing with those who have nothing there and were   *)
(* never given anything in KPI.                                            *)
THEOREM PullsReconcile == ProjectsSpec => []CommandsReconcile
<1>1. PullsInv => CommandsReconcile
  BY PullMeans DEF PullsInv, CommandsReconcile
<1>2. QED
  BY <1>1, PullsStart, PullsGoOn, PTL DEF ProjectsSpec

(* A form that nobody touched since it was synchronised is not changed by  *)
(* synchronising it again.                                                 *)
THEOREM SyncsOnce == ProjectsSpec => SecondSyncChangesNothing
<1> DEFINE Nothing2 == settled /\ settled' => UNCHANGED <<s, flagged, asset>>
<1>1. PullsInv /\ [ProjectsNext]_projectVars => [Nothing2]_(C!reconcileVars)
  <2> SUFFICES ASSUME PullsInv, [ProjectsNext]_projectVars, settled, settled',
                      C!reconcileVars' # C!reconcileVars
               PROVE  UNCHANGED <<s, flagged, asset>>
    OBVIOUS
  <2>1. turn = "commands" /\ C!ReconcileNext
    BY DEF ProjectsNext, Alone, Together, Commands, Lists, Assigned, Pages, Accounts, projectVars,
       formVars,
           syncVars, C!reconcileVars
  <2>2. QED
    BY <2>1, NothingToDo DEF PullsInv
<1>2. SecondSyncChangesNothing <=> [][Nothing2]_(C!reconcileVars)
  BY DEF SecondSyncChangesNothing, C!SecondSyncChangesNothing
<1> HIDE DEF Nothing2
<1>3. QED
  BY <1>1, <1>2, PullsStart, PullsGoOn, PTL DEF ProjectsSpec

-----------------------------------------------------------------------------
(***************************************************************************)
(* The types of every part.                                                *)
(***************************************************************************)
TypesTurn ==
  /\ turn = "alone" => TypesInv
  /\ turn = "together" => TwoTypesInv

LEMMA TypesRest == TypesInv /\ UNCHANGED deploymentVars => TypesInv'
<1> SUFFICES ASSUME TypesInv, UNCHANGED deploymentVars PROVE TypesInv'
  OBVIOUS
<1>1. UNCHANGED <<row, versions, xform, request, made, published, unnamed>>
  BY DEF deploymentVars
<1>2. Latest' = Latest
  BY <1>1 DEF Latest
<1>3. QED
  BY <1>1, <1>2 DEF TypesInv, DeploymentsTypeOK, AtWork

LEMMA TwoTypesRest == TwoTypesInv /\ UNCHANGED othersVars => TwoTypesInv'
<1> SUFFICES ASSUME TwoTypesInv, UNCHANGED othersVars PROVE TwoTypesInv'
  OBVIOUS
<1>1. UNCHANGED <<row2, versions2, xform2, request2, made2, published2, unnamed2>>
  BY DEF othersVars
<1>2. T!Latest' = T!Latest
  BY <1>1 DEF T!Latest
<1>3. QED
  BY <1>1, <1>2 DEF TwoTypesInv, T!DeploymentsTypeOK, TwoAtWork

LEMMA TypesTurnStarts == ProjectsInit => TypesTurn
BY TypesStart, TwoTypesStart DEF ProjectsInit, TypesTurn

LEMMA TypesTurnGoesOn ==
  ASSUME Removes, TypesTurn, [ProjectsNext]_projectVars
  PROVE  TypesTurn'
<1>1. turn = "alone" => TypesInv'
  BY Moving, TypesStep, TypesRest DEF TypesTurn
<1>2. turn = "together" => TwoTypesInv'
  BY Moving, TwoTypesStep, TwoTypesRest DEF TypesTurn
<1>3. QED
  BY <1>1, <1>2, Moving DEF TypesTurn

(* The rows, the forms of KoBoCAT, the requests, the commands and the      *)
(* accounts have their types, as long as nothing overlaps with a removal.  *)
THEOREM ProjectsTypes ==
  ASSUME Removes
  PROVE  ProjectsSpec => []ProjectsTypeOK
<1>1. TypesTurn /\ [ProjectsNext]_projectVars => TypesTurn'
  BY TypesTurnGoesOn
<1>2. TypesTurn /\ PullsInv /\ AccountsTurn => ProjectsTypeOK
  BY PullMeans DEF TypesTurn, TypesInv, TwoTypesInv, PullsInv, AccountsTurn, AccountsInv,
     AccountTypes,
     ProjectsTypeOK
<1>3. QED
  BY <1>1, <1>2, TypesTurnStarts, PullsStart, PullsGoOn, AccountsTurnStarts, AccountsTurnGoesOn, PTL
     DEF ProjectsSpec
=============================================================================
