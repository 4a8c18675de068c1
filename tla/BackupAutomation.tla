-------------------------- MODULE BackupAutomation --------------------------
(***************************************************************************)
(* The timers of BackupAutomationService and the store of backup files:    *)
(* one chain of timers takes a backup every day, or again after a failure, *)
(* the other deletes the backups that have expired.  Users take and delete *)
(* backups too.  The process may end at any moment and starts again; a     *)
(* package that it was writing may stay behind cut off.  Dates are left out: *)
(* a timer that is set fires, and a backup expires at some moment.         *)
(***************************************************************************)
EXTENDS Naturals, FiniteSets

CONSTANTS
  Backup,    \* names of backup files
  Cycle,     \* how many retention cycles can run at once
  MaxBoots   \* bound: starts of the process after the first

ASSUME AutomationAssumption == MaxBoots \in Nat /\ "none" \notin Cycle

VARIABLES
  store,      \* each file: none, kept, torn (cut off) or gone
  expired,    \* backups older than the retention period
  removals,   \* entries of the log that say a backup was deleted
  timers,     \* autoBackupTimer, autoBackupRetryTimer and retentionTimer that are set
  running,    \* whether runAutomaticBackup is under way
  cycles,     \* the retention cycles under way: what they have listed and still to do
  destroyed,  \* onModuleDestroy has run
  boots,
  doubled     \* whether two cycles, or a cycle and a user, ever deleted one backup at once

mvars == <<store, expired, removals, timers, running, cycles, destroyed, boots, doubled>>

AtEase == [at |-> "none", files |-> {}, file |-> "none"]
Kept == {b \in Backup : store[b] = "kept"}
Unused == {b \in Backup : store[b] = "none"}
Torn == {b \in Backup : store[b] = "torn"}
Removed(b) == removals' = [removals EXCEPT ![b] = @ + 1]

\* Scheduling replaces the timer that is set, if there is one
Schedule(set, ts) == IF destroyed THEN set ELSE set \cup ts

Files == <<store, expired, removals>>

-----------------------------------------------------------------------------
(* Automatic backups *)

FireBackup ==
  \E t \in timers \cap {"auto", "retry"} :
    /\ running' = TRUE
    /\ timers' = timers \ {t, "retry"}
    /\ UNCHANGED <<Files, cycles, destroyed, boots, doubled>>

BackupSucceeds ==
  /\ running /\ running' = FALSE
  /\ \E b \in Unused : store' = [store EXCEPT ![b] = "kept"]
  /\ timers' = Schedule(timers, {"retention", "auto"})
  /\ UNCHANGED <<expired, removals, cycles, destroyed, boots, doubled>>

\* Mutant: the next day's backup is all that is scheduled after a success
RetryTimers_None == {}

RetryTimers == {"retry"}

\* A failure may leave a package behind, whole or cut off
BackupFails ==
  /\ running /\ running' = FALSE
  /\ store' \in {store} \cup {[store EXCEPT ![b] = f] : b \in Unused, f \in {"kept", "torn"}}
  /\ timers' = Schedule(timers, RetryTimers)
  /\ UNCHANGED <<expired, removals, cycles, destroyed, boots, doubled>>

-----------------------------------------------------------------------------
(* Retention *)

FireRetention(c) ==
  /\ "retention" \in timers /\ cycles[c] = AtEase
  /\ timers' = timers \ {"retention"}
  /\ cycles' = [cycles EXCEPT ![c] = [at |-> "listing", files |-> Kept \cup Torn, file |-> "none"]]
  /\ UNCHANGED <<Files, running, destroyed, boots, doubled>>

\* Mutant: a cycle that failed does not schedule the next one
AfterFailure_None == timers

AfterFailure == Schedule(timers, {"retention"})

\* Every package is read; one that is unreadable, or gone by now, fails the cycle
ListStored(c) ==
  /\ cycles[c].at = "listing"
  /\ IF cycles[c].files \subseteq Kept
     THEN /\ cycles' = [cycles EXCEPT ![c].at = "deleting", ![c].files = @ \cap expired]
          /\ UNCHANGED timers
     ELSE /\ cycles' = [cycles EXCEPT ![c] = AtEase]
          /\ timers' = AfterFailure
  /\ UNCHANGED <<Files, running, destroyed, boots, doubled>>

\* isBackupStable: a file that is gone is passed over
Stable(b) == b \in Kept

Doomed(c, b) == \E d \in Cycle \ {c} : cycles[d].at = "remove" /\ cycles[d].file = b

CheckStable(c) ==
  \E b \in cycles[c].files :
    /\ cycles[c].at = "deleting"
    /\ cycles' = [cycles EXCEPT ![c] = [at    |-> IF Stable(b) THEN "remove" ELSE "deleting",
                                        files |-> @.files \ {b},
                                        file  |-> IF Stable(b) THEN b ELSE "none"]]
    /\ UNCHANGED <<Files, timers, running, destroyed, boots, doubled>>

\* rm with force does not mind that the file is gone
DeleteExpired(c) ==
  LET b == cycles[c].file IN
  /\ cycles[c].at = "remove"
  /\ store' = [store EXCEPT ![b] = "gone"]
  /\ Removed(b)
  /\ doubled' = (doubled \/ Doomed(c, b))
  /\ cycles' = [cycles EXCEPT ![c] = [at |-> "deleting", files |-> @.files, file |-> "none"]]
  /\ UNCHANGED <<expired, timers, running, destroyed, boots>>

EndCycle(c) ==
  /\ cycles[c].at = "deleting" /\ cycles[c].files = {}
  /\ cycles' = [cycles EXCEPT ![c] = AtEase]
  /\ timers' = Schedule(timers, {"retention"})
  /\ UNCHANGED <<Files, running, destroyed, boots, doubled>>

-----------------------------------------------------------------------------
(* Users, time and the process *)

UserBacksUp(b) ==
  /\ store[b] = "none" /\ store' = [store EXCEPT ![b] = "kept"]
  /\ UNCHANGED <<expired, removals, timers, running, cycles, destroyed, boots, doubled>>

\* deleteBackup reads the package first: one that is cut off stays
UserDeletes(b) ==
  /\ b \in Kept /\ store' = [store EXCEPT ![b] = "gone"]
  /\ Removed(b)
  /\ doubled' = (doubled \/ Doomed("none", b))
  /\ UNCHANGED <<expired, timers, running, cycles, destroyed, boots>>

Expires(b) ==
  /\ b \in Kept /\ expired' = expired \cup {b}
  /\ UNCHANGED <<store, removals, timers, running, cycles, destroyed, boots, doubled>>

Destroy ==
  /\ ~destroyed /\ destroyed' = TRUE
  /\ timers' = {}
  /\ UNCHANGED <<Files, running, cycles, boots, doubled>>

\* The process ends, perhaps while it writes a package, and starts again
Boot ==
  /\ boots < MaxBoots /\ boots' = boots + 1
  /\ store' \in {store} \cup {[store EXCEPT ![b] = "torn"] : b \in Unused}
  /\ timers' = {"auto", "retention"}
  /\ running' = FALSE /\ destroyed' = FALSE
  /\ cycles' = [c \in Cycle |-> AtEase]
  /\ UNCHANGED <<expired, removals, doubled>>

-----------------------------------------------------------------------------

AutomationInit ==
  /\ store = [b \in Backup |-> "none"] /\ expired = {}
  /\ removals = [b \in Backup |-> 0]
  /\ timers = {"auto", "retention"} /\ running = FALSE
  /\ cycles = [c \in Cycle |-> AtEase]
  /\ destroyed = FALSE /\ boots = 0 /\ doubled = FALSE

CycleStep(c) == ListStored(c) \/ CheckStable(c) \/ DeleteExpired(c) \/ EndCycle(c)

AutomationNext ==
  \/ FireBackup \/ BackupSucceeds \/ BackupFails \/ Destroy \/ Boot
  \/ \E c \in Cycle : FireRetention(c) \/ CycleStep(c)
  \/ \E b \in Backup : UserBacksUp(b) \/ UserDeletes(b) \/ Expires(b)

\* Timers fire and the handlers they start go on; backups may fail for ever
AutomationFairness ==
  /\ WF_mvars(FireBackup) /\ WF_mvars(BackupFails)
  /\ WF_mvars(\E c \in Cycle : FireRetention(c))
  /\ \A c \in Cycle : WF_mvars(CycleStep(c))

AutomationSpec == AutomationInit /\ [][AutomationNext]_mvars /\ AutomationFairness

-----------------------------------------------------------------------------
(* Properties *)

\* While the service lives exactly one thing will bring the next automatic backup: a
\* timer, its retry or the backup under way.  Once it is destroyed no timer is set
\* again, whatever was under way.
OneBackupPending ==
  IF destroyed THEN timers = {}
  ELSE Cardinality(timers \cap {"auto", "retry"}) + (IF running THEN 1 ELSE 0) = 1

\* A deletion is entered in the log once, unless two deletions of the file overlapped.
DeletionLoggedOnce ==
  \A b \in Backup : removals[b] > 1 => doubled

\* Both: the timers do each thing once.
TimersInOrder == OneBackupPending /\ DeletionLoggedOnce

\* An expired backup is deleted in the end, whatever fails on the way, unless the
\* process is stopped or a package was ever left cut off: that one fails every cycle.
ExpiredIsDeleted ==
  \A b \in Backup :
    b \in expired ~> store[b] = "gone" \/ Torn # {} \/ destroyed

=============================================================================
