---------------------------- MODULE MCBackground ----------------------------
(***************************************************************************)
(* What Celery's workers and the web processes do side by side, for TLC:   *)
(* exports of both kinds, imports and REST services.                       *)
(*                                                                         *)
(* They share no state.  A behaviour of all of them is a behaviour of each *)
(* with the others' steps in between, which change nothing that a property *)
(* of one can tell: it is enough to let one of them, `turn`, move in a     *)
(* behaviour, and the states add up instead of multiplying.                *)
(***************************************************************************)
EXTENDS HookDelivery, SyncExports

CONSTANTS Count, MaxDeliveries, MaxRuns, Limit, MaxDeletions,  \* of Exports
          Workers                                              \* of Imports

ASSUME BoundsAssumption ==
  /\ Count \in Nat /\ MaxDeliveries \in Nat /\ MaxRuns \in Nat
  /\ Limit \in Nat /\ MaxDeletions \in Nat

VARIABLES turn,
          exportRow, delivered, old, task, exportFiles, deletion, lost, stripped,
          overtaken,
          upload, status, target, allowed, assets, work, importDied, together

E == INSTANCE Exports WITH row <- exportRow, files <- exportFiles
I == INSTANCE Imports WITH died <- importDied

exportVars ==
  <<exportRow, delivered, old, task, exportFiles, deletion, lost, stripped, overtaken>>
importVars == <<upload, status, target, allowed, assets, work, importDied, together>>
backgroundVars == <<turn, hookVars, syncVars, exportVars, importVars>>

BackgroundInit ==
  /\ turn \in {"hooks", "sync", "exports", "imports"}
  /\ HookInit /\ SyncInit /\ E!ExportsInit
  /\ I!ImportsInit
  /\ turn # "imports" => upload = (CHOOSE u \in I!Uploads : u.kind = "broken") /\ ~ allowed

Deliver     == turn = "hooks"   /\ HookNext      /\ UNCHANGED <<turn, syncVars, exportVars, importVars>>
Synchronous == turn = "sync"    /\ SyncNext      /\ UNCHANGED <<turn, hookVars, exportVars, importVars>>
Export      == turn = "exports" /\ E!ExportsNext /\ UNCHANGED <<turn, hookVars, syncVars, importVars>>
Import      == turn = "imports" /\ I!ImportsNext /\ UNCHANGED <<turn, hookVars, syncVars, exportVars>>

BackgroundNext == Deliver \/ Synchronous \/ Export \/ Import

\* FairHookSpec, FairExportsSpec and FairImportsSpec.
BackgroundSpec ==
  /\ BackgroundInit /\ [][BackgroundNext]_backgroundVars
  /\ WF_hookVars(turn = "hooks" /\ \E s \in Senders : Attempt(s))
  /\ WF_exportVars(turn = "exports" /\ \E r \in E!Runs : E!Work(r))
  /\ WF_importVars(turn = "imports" /\ \E w \in Workers : I!Import(w))

-----------------------------------------------------------------------------
(* Every component's types.                                                *)
BackgroundTypeOK == HookTypeOK /\ SyncTypeOK /\ E!ExportsTypeOK /\ I!ImportsTypeOK

(* A delivery fails only after the data were sent as often as all its      *)
(* automatic attempts send them; no try is counted twice and none is       *)
(* missed that overlaps with no other; and an import that the broker       *)
(* delivers again does nothing, if no two workers read it together.        *)
DeliveriesAreCounted == FailedAfterRetries /\ TriesAreCounted /\ I!RedeliveryDoesNothing

(* A complete export has a file that is whole, unless somebody began to    *)
(* remove it; so has a synchronous one as long as it may be returned, and  *)
(* what a complete import promised is in place.                            *)
CompleteIsWhole == E!CompleteIsWhole /\ RecentHasFile /\ I!CompleteIsInPlace

(* And a complete export stays complete until it is deleted.               *)
CompleteIsFinal == E!CompleteIsFinal

(* Whatever was queued ends, unless a worker dies of it: every delivery    *)
(* that overlaps with no other, every export whose data can be accessed    *)
(* and every import.                                                       *)
EverythingSettles ==
  (\/ turn = "hooks"   /\ Undelivered
   \/ turn = "exports" /\ E!Unsettled
   \/ turn = "imports" /\ I!Unsettled)
  ~>
  (\/ turn = "hooks"   /\ Settled
   \/ turn = "exports" /\ E!Settled
   \/ turn = "imports" /\ I!Settled)
=============================================================================
