----------------------------- MODULE HookDelivery -----------------------------
(***************************************************************************)
(* REST services (kobo/apps/hook): how one submission is sent to the       *)
(* endpoint of one active hook, and what HookLog says of it.               *)
(*                                                                         *)
(* KoBoCAT signals the submission; a Celery task posts it, and retries     *)
(* itself HOOK_MAX_RETRIES times; a user may retry one log, or all logs of *)
(* the hook that failed or have been pending for longer than all of the    *)
(* automatic retries take.  Every attempt (a sender) posts the data, then  *)
(* reads the log, then saves all of it: there is no lock and no unique     *)
(* constraint.  An endpoint may receive data and its answer be lost.       *)
(***************************************************************************)
EXTENDS Naturals, FiniteSets

CONSTANTS Senders,      \* attempts in progress at one time (a bound)
          MaxRetries,   \* HOOK_MAX_RETRIES
          MaxSignals,   \* how often KoBoCAT signals the submission (a bound)
          MaxManual     \* how often a user retries (a bound)

ASSUME HookAssumption ==
  /\ MaxRetries \in Nat /\ MaxSignals \in Nat /\ MaxManual \in Nat
  /\ IsFiniteSet(Senders)

VARIABLES logs,      \* the HookLog rows of the hook and the submission
          sender,    \* the attempts
          signals,   \* signals so far
          manual,    \* manual retries so far
          posts,     \* history: how often the data were sent
          died,      \* history: whether a worker died, or a log could not be saved
          raced      \* history: whether two attempts were under way at once

hookVars == <<logs, sender, signals, manual, posts, died, raced>>

LogIds == 1..MaxSignals
Free   == [pc |-> "free", kind |-> "none"]

Status == {"pending", "failed", "success"}

\* `stale`: date_modified is longer ago than all the retries take.
Log    == [status : Status, tries : Nat, stale : BOOLEAN]
Absent == [status |-> "absent", tries |-> 0, stale |-> FALSE]

\* `log`: the log that is saved; the one made for the n-th signal is the n-th.
Sender ==
  [pc : {"queued", "mark", "post", "load", "save"}, kind : {"auto", "one", "all"},
   retries : 0..MaxRetries, log : LogIds, copy : Log \cup {Absent}, sent : BOOLEAN]

HookTypeOK ==
  /\ logs \in [LogIds -> Log \cup {Absent}]
  /\ sender \in [Senders -> Sender \cup {Free}]
  /\ signals \in 0..MaxSignals /\ manual \in 0..MaxManual
  /\ posts \in Nat /\ died \in BOOLEAN /\ raced \in BOOLEAN

HookInit ==
  /\ logs = [l \in LogIds |-> Absent]
  /\ sender = [s \in Senders |-> Free]
  /\ signals = 0 /\ manual = 0
  /\ posts = 0 /\ died = FALSE /\ raced = FALSE

Existing == {l \in LogIds : logs[l] # Absent}

\* What a process has of a log; its date_modified is set by every save().
Copy(l) == [logs[l] EXCEPT !.stale = FALSE]

At(s, pc)   == sender[s].pc = pc
Ends(s)     == sender' = [sender EXCEPT ![s] = Free]
Active(s)   == sender[s].pc \in {"mark", "post", "load", "save"}
RacesNow(s) == raced' = (raced \/ \E t \in Senders \ {s} : Active(t))

-----------------------------------------------------------------------------
(* POST on hook-signal: HookUtils.call_services() queues a task unless     *)
(* there is a log.                                                         *)
Signal(s) ==
  /\ signals < MaxSignals
  /\ signals' = signals + 1
  /\ At(s, "free")
  /\ sender' = IF Existing # {} THEN sender
               ELSE [sender EXCEPT ![s] = [pc |-> "queued", kind |-> "auto", retries |-> 0,
                                           log |-> signals', copy |-> Absent, sent |-> FALSE]]
  /\ UNCHANGED <<logs, manual, posts, died, raced>>

(* service_definition_task() starts, the first time or after a countdown;  *)
(* or retry_all_task(), which fetches the log.                             *)
Run(s) ==
  /\ At(s, "queued")
  /\ sender' = [sender EXCEPT ![s].pc = "post",
                   ![s].copy = IF sender[s].kind = "all" THEN Copy(sender[s].log) ELSE @]
  /\ RacesNow(s)
  /\ UNCHANGED <<logs, signals, manual, posts, died>>

(* send(): the data are posted; the answer is a success or not.            *)
Post(s) ==
  /\ At(s, "post")
  /\ \E ok \in BOOLEAN : sender' = [sender EXCEPT ![s].pc = "load", ![s].sent = ok]
  /\ posts' = posts + 1
  /\ UNCHANGED <<logs, signals, manual, died, raced>>

(* What is left of an attempt that raises: nothing of a task, a failed log *)
(* of a manual retry (HookLog.retry()), saved from the copy it has.        *)
Raises(s) ==
  /\ logs' = IF sender[s].kind = "auto" THEN logs
             ELSE [logs EXCEPT ![sender[s].log] =
                     [sender[s].copy EXCEPT !.status = "failed"]]
  /\ Ends(s)

(* save_log(): the log is looked up by hook and submission.                *)
NewLog == [status |-> "pending", tries |-> 0, stale |-> FALSE]

LoadLog(s) ==
  /\ At(s, "load")
  /\ IF Cardinality(Existing) > 1 THEN Raises(s)
     ELSE /\ sender' =
               IF Existing = {}
               THEN [sender EXCEPT ![s].pc = "save", ![s].copy = NewLog]
               ELSE LET l == CHOOSE m \in Existing : TRUE
                    IN  [sender EXCEPT ![s].pc = "save", ![s].log = l, ![s].copy = Copy(l)]
          /\ UNCHANGED logs
  /\ UNCHANGED <<signals, manual, posts, died, raced>>

(* The status and the number of tries after an attempt; mutants give up    *)
(* too early or too late, or do not count it.                              *)
NewStatusTooEarly(copy, sent) ==
  IF sent THEN "success" ELSE IF copy.tries >= MaxRetries - 1 THEN "failed" ELSE copy.status

NewStatusTooLate(copy, sent) ==
  IF sent THEN "success" ELSE IF copy.tries > MaxRetries THEN "failed" ELSE copy.status

NewStatus(copy, sent) ==
  IF sent THEN "success" ELSE IF copy.tries >= MaxRetries THEN "failed" ELSE copy.status

LogAfterUncounted(copy, sent) == [status |-> NewStatus(copy, sent), tries |-> copy.tries, stale |-> FALSE]

LogAfter(copy, sent) == [status |-> NewStatus(copy, sent), tries |-> copy.tries + 1, stale |-> FALSE]

WillRetry(s) == sender[s].kind = "auto" /\ ~sender[s].sent /\ sender[s].retries < MaxRetries

(* The log is saved, every field of it; a task that has failed retries     *)
(* itself.                                                                 *)
GoesOn(s) ==
  IF WillRetry(s)
  THEN sender' = [sender EXCEPT ![s].pc = "queued", ![s].retries = @ + 1, ![s].copy = Absent]
  ELSE Ends(s)

SaveLog(s) ==
  /\ At(s, "save")
  /\ logs' = [logs EXCEPT ![sender[s].log] = LogAfter(sender[s].copy, sender[s].sent)]
  /\ GoesOn(s)
  /\ UNCHANGED <<signals, manual, posts, died, raced>>

(* When that fails, it is as if it had not.                                *)
LoseLog(s) ==
  /\ At(s, "save")
  /\ GoesOn(s)
  /\ died' = TRUE
  /\ UNCHANGED <<logs, signals, manual, posts, raced>>

-----------------------------------------------------------------------------
(* Manual retries.                                                         *)
CanRetry(l) == logs[l].status = "failed" \/ (logs[l].status = "pending" /\ logs[l].stale)

Retrier(kind, pc, l) ==
  [pc |-> pc, kind |-> kind, retries |-> 0, log |-> l, copy |-> Copy(l), sent |-> FALSE]

(* PATCH on retry of a log: it is read and checked ...                     *)
RetryOne(s, l) ==
  /\ manual < MaxManual /\ manual' = manual + 1
  /\ At(s, "free")
  /\ l \in Existing /\ CanRetry(l)
  /\ sender' = [sender EXCEPT ![s] = Retrier("one", "mark", l)]
  /\ RacesNow(s)
  /\ UNCHANGED <<logs, signals, posts, died>>

(* ... and saved as pending: change_status().  (A mutant forgets that this *)
(* is not a try: reset_status.)                                            *)
MarkPendingCounted(s) ==
  /\ At(s, "mark")
  /\ logs' = [logs EXCEPT ![sender[s].log] =
                [sender[s].copy EXCEPT !.status = "pending", !.tries = @ + 1]]
  /\ sender' = [sender EXCEPT ![s].pc = "post"]
  /\ UNCHANGED <<signals, manual, posts, died, raced>>

MarkPending(s) ==
  /\ At(s, "mark")
  /\ logs' = [logs EXCEPT ![sender[s].log] =
                [sender[s].copy EXCEPT !.status = "pending"]]
  /\ sender' = [sender EXCEPT ![s].pc = "post"]
  /\ UNCHANGED <<signals, manual, posts, died, raced>>

(* PATCH on retry of a hook: all its logs are updated, except for their    *)
(* date_modified, and retry_all_task() is queued.                          *)
RetryAll(s, l) ==
  /\ manual < MaxManual /\ manual' = manual + 1
  /\ At(s, "free")
  /\ l \in Existing /\ CanRetry(l)
  /\ logs' = [logs EXCEPT ![l].status = "pending"]
  /\ sender' = [sender EXCEPT ![s] = Retrier("all", "queued", l)]
  /\ UNCHANGED <<signals, posts, died, raced>>

(* Time passes: the log was last modified longer ago than the retries      *)
(* take, and so it may be while tasks are late.                            *)
GrowStale(l) ==
  /\ l \in Existing /\ ~logs[l].stale
  /\ logs' = [logs EXCEPT ![l].stale = TRUE]
  /\ UNCHANGED <<sender, signals, manual, posts, died, raced>>

(* A worker dies, and the attempt with it.                                 *)
Crash(s) ==
  /\ ~At(s, "free")
  /\ Ends(s)
  /\ died' = TRUE
  /\ UNCHANGED <<logs, signals, manual, posts, raced>>

-----------------------------------------------------------------------------
Attempt(s) == Run(s) \/ Post(s) \/ LoadLog(s) \/ SaveLog(s) \/ MarkPending(s)

HookNext ==
  \/ \E s \in Senders :
       \/ Signal(s) \/ Attempt(s) \/ LoseLog(s) \/ Crash(s)
       \/ \E l \in LogIds : RetryOne(s, l) \/ RetryAll(s, l)
  \/ \E l \in LogIds : GrowStale(l)

HookSpec == HookInit /\ [][HookNext]_hookVars

FairHookSpec == HookSpec /\ WF_hookVars(\E s \in Senders : Attempt(s))

-----------------------------------------------------------------------------
(* A log is failed, which invites a manual retry and goes into the report  *)
(* to the owner, only after the data were really sent as often as all the  *)
(* automatic attempts send them, whatever overlaps, is late or dies: as    *)
(* long as there is one log of the submission.                             *)
FailedAfterRetries ==
  Cardinality(Existing) <= 1 =>
    \A l \in LogIds : logs[l].status = "failed" => posts > MaxRetries

(* No try is counted twice; and every try is counted, by the end of each   *)
(* attempt, unless a worker died or two attempts were under way at once.   *)
TriesAreCounted ==
  /\ \A l \in LogIds : logs[l].tries <= posts
  /\ ~died /\ ~raced /\ (\A s \in Senders : ~At(s, "load") /\ ~At(s, "save")) =>
       \A l \in Existing : logs[l].tries = posts

(* Whatever was queued ends, with a log that says success or failed, under *)
(* the same two conditions.                                                *)
Undelivered == \E s \in Senders : sender[s] # Free
Settled     == died \/ raced \/ \E l \in LogIds : logs[l].status \in {"success", "failed"}

EveryDeliverySettles == Undelivered ~> Settled

-----------------------------------------------------------------------------
(***************************************************************************)
(* What one would expect and TLC refutes: no run checks these.             *)
(***************************************************************************)

(* One log for a hook and a submission ("we do know its `hook` FK and its  *)
(* `submission_id`", save_log()): two early signals make two.              *)
OneLog == Cardinality(Existing) <= 1

(* Every try is counted, in parallel too: of two that read the log         *)
(* together one is lost, and the last retry may leave the log pending.     *)
EveryTryIsCounted ==
  ~died /\ (\A s \in Senders : At(s, "free")) =>
    \A l \in Existing : logs[l].tries = posts

(* A delivery that was recorded stays recorded: no slower attempt writes   *)
(* an older state of the log over it.                                      *)
SuccessIsFinal ==
  [][\A l \in LogIds : logs[l].status = "success" => logs'[l].status = "success"]_hookVars

(* "Data is being or has already been processed": one attempt at a time.   *)
OneAttempt == ~raced
=============================================================================
