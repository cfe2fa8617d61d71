-------------------------- MODULE AuthFileCooldown --------------------------
(***************************************************************************)
(* The cooldowns of auth files: a credential at its limit is disabled in   *)
(* CPA and enabled again when its cooldown is due. CPA keeps whether the   *)
(* file is disabled, the table keeps the cooldowns, and no transaction     *)
(* spans both. Starters are requests of the page and quota workers,        *)
(* restorers are requests of the page, and Job is the ticker of Run.       *)
(*                                                                         *)
(* One file per auth index. The transaction of a start is one action that  *)
(* may fail, as SQLite makes it: serialised, or refused with SQLITE_BUSY.  *)
(***************************************************************************)
EXTENDS Naturals, FiniteSets, SequencesExt

CONSTANTS
  Auths,         \* auth indexes
  Starters, Restorers, Job,
  Limit,         \* authFileCooldownRestoreLimit
  Durations,     \* lengths of cooldowns
  MaxCalls,      \* bound: calls of each starter and restorer
  MaxTime,       \* bound: the clock
  MaxDeleted,    \* bound: files deleted in CPA
  MaxFaults      \* bound: failed calls and writes, changes by hand, crashes

Callers == Starters \cup Restorers \cup {Job}
CooldownConstants ==
  /\ Limit \in Nat \ {0} /\ Durations \subseteq Nat
  /\ MaxCalls \in Nat /\ MaxTime \in Nat /\ MaxDeleted \in Nat /\ MaxFaults \in Nat
  /\ Starters \cap Restorers = {} /\ Job \notin Starters \cup Restorers

VARIABLES
  rows,          \* auth_file_cooldowns; a row's id is its place
  disabled,      \* auth indexes whose file CPA has disabled
  deleted,       \* auth indexes whose file is gone
  pc,            \* caller -> where it is
  row,           \* caller -> the row, or the request, it works on
  due,           \* the rows Job has still to restore
  calls,         \* caller -> calls so far
  clock,
  faults

callVars == <<pc, row, due, calls>>
vars == <<rows, disabled, deleted, callVars, clock, faults>>

Idle(c) == [id |-> 0, auth |-> "none", restoreAt |-> 0]

Init ==
  /\ rows = <<>> /\ disabled = {} /\ deleted = {}
  /\ pc = [c \in Callers |-> "idle"] /\ row = [c \in Callers |-> Idle(c)] /\ due = <<>>
  /\ calls = [c \in Callers |-> 0] /\ clock = 0 /\ faults = 0

Fault == faults < MaxFaults /\ faults' = faults + 1

Call(c) == calls[c] < MaxCalls /\ calls' = [calls EXCEPT ![c] = @ + 1]

Active(a) == {i \in DOMAIN rows : rows[i].active /\ rows[i].auth = a}

(* First orders by the primary key. *)
First(S) == CHOOSE i \in S : \A j \in S : i <= j

Copy(i) == [id |-> i, auth |-> rows[i].auth, restoreAt |-> rows[i].restoreAt]

(* What CPA does with a call it answers, and may do with one it does not.   *)
SetDisabled(a, value) == disabled' = IF value THEN disabled \cup {a} ELSE disabled \ {a}

-----------------------------------------------------------------------------
(* StartAuthFileCooldown: first CPA, then the table. *)

Disable(c) ==
  /\ pc[c] = "idle" /\ Call(c) /\ pc' = [pc EXCEPT ![c] = "save"]
  /\ \E a \in Auths \ deleted, d \in Durations :
       /\ row' = [row EXCEPT ![c] = [id |-> 0, auth |-> a, restoreAt |-> d]]
       /\ SetDisabled(a, TRUE)
  /\ UNCHANGED <<rows, deleted, due, clock, faults>>

DisableUnanswered(c) ==
  /\ pc[c] = "idle" /\ Call(c) /\ Fault
  /\ \E a \in Auths \ deleted : SetDisabled(a, TRUE)
  /\ UNCHANGED <<rows, deleted, pc, row, due, clock>>

New(c) == [auth |-> row[c].auth, active |-> TRUE, restoreAt |-> clock + row[c].restoreAt]

(* Faulty: a cooldown under way is not looked for. *)
SaveAlways(c) ==
  /\ pc[c] = "save" /\ pc' = [pc EXCEPT ![c] = "idle"] /\ row' = [row EXCEPT ![c] = Idle(c)]
  /\ rows' = Append(rows, New(c))
  /\ UNCHANGED <<disabled, deleted, due, calls, clock, faults>>

Save(c) ==
  /\ pc[c] = "save" /\ pc' = [pc EXCEPT ![c] = "idle"] /\ row' = [row EXCEPT ![c] = Idle(c)]
  /\ LET active == Active(row[c].auth) IN
       rows' = IF active = {} THEN Append(rows, New(c))
                              ELSE [rows EXCEPT ![First(active)] = New(c)]
  /\ UNCHANGED <<disabled, deleted, due, calls, clock, faults>>

SaveFails(c) ==
  /\ pc[c] = "save" /\ pc' = [pc EXCEPT ![c] = "idle"] /\ row' = [row EXCEPT ![c] = Idle(c)]
  /\ Fault
  /\ UNCHANGED <<rows, disabled, deleted, due, calls, clock>>

-----------------------------------------------------------------------------
(* Restores begin: a request reads one row, Job the due ones.               *)

Find(c) ==
  /\ pc[c] = "idle" /\ Call(c) /\ pc' = [pc EXCEPT ![c] = "enable"]
  /\ \E a \in Auths : Active(a) # {} /\ row' = [row EXCEPT ![c] = Copy(First(Active(a)))]
  /\ UNCHANGED <<rows, disabled, deleted, due, clock, faults>>

Due == {i \in DOMAIN rows : rows[i].active /\ rows[i].restoreAt <= clock}

Earlier(i, j) ==
  rows[i].restoreAt < rows[j].restoreAt \/ (rows[i].restoreAt = rows[j].restoreAt /\ i < j)

FindDue ==
  /\ pc[Job] = "idle" /\ Due # {} /\ pc' = [pc EXCEPT ![Job] = "next"]
  /\ LET order == SetToSortSeq(Due, Earlier)
         n == IF Len(order) < Limit THEN Len(order) ELSE Limit
     IN due' = [k \in 1..n |-> Copy(order[k])]
  /\ UNCHANGED <<rows, disabled, deleted, row, calls, clock, faults>>

NextDue ==
  /\ pc[Job] = "next"
  /\ IF due = <<>>
       THEN pc' = [pc EXCEPT ![Job] = "idle"] /\ UNCHANGED <<row, due>>
       ELSE /\ pc' = [pc EXCEPT ![Job] = "enable"]
            /\ row' = [row EXCEPT ![Job] = Head(due)] /\ due' = Tail(due)
  /\ UNCHANGED <<rows, disabled, deleted, calls, clock, faults>>

-----------------------------------------------------------------------------
(* restoreCooldown: first CPA, then the table.                              *)

Enable(c) ==
  /\ pc[c] = "enable" /\ row[c].auth \notin deleted
  /\ SetDisabled(row[c].auth, FALSE) /\ pc' = [pc EXCEPT ![c] = "mark"]
  /\ UNCHANGED <<rows, deleted, row, due, calls, clock, faults>>

Return(c) ==
  /\ pc' = [pc EXCEPT ![c] = IF c = Job THEN "next" ELSE "idle"]
  /\ row' = [row EXCEPT ![c] = Idle(c)] /\ UNCHANGED <<due, calls>>

(* Faulty: the first error ends the round of Job. *)
EnableFailsRound(c) ==
  /\ pc[c] = "enable"
  /\ \/ row[c].auth \in deleted /\ UNCHANGED <<disabled, faults>>
     \/ Fault /\ (UNCHANGED disabled \/ SetDisabled(row[c].auth, FALSE))
  /\ pc' = [pc EXCEPT ![c] = "idle"] /\ row' = [row EXCEPT ![c] = Idle(c)]
  /\ due' = <<>> /\ UNCHANGED <<rows, deleted, calls, clock>>

(* The file is gone, or CPA does not answer, whether or not it has enabled  *)
(* the file; the row stays active, only its last_error is written.          *)
EnableFails(c) ==
  /\ pc[c] = "enable"
  /\ \/ row[c].auth \in deleted /\ UNCHANGED <<disabled, faults>>
     \/ Fault /\ (UNCHANGED disabled \/ SetDisabled(row[c].auth, FALSE))
  /\ Return(c)
  /\ UNCHANGED <<rows, deleted, clock>>

(* Faulty: the row is removed, whoever else has read it. *)
MarkRemoving(c) ==
  /\ pc[c] = "mark" /\ Return(c)
  /\ rows' = RemoveAt(rows, row[c].id)
  /\ UNCHANGED <<disabled, deleted, clock, faults>>

(* Save writes every column of the row as it was read. *)
Mark(c) ==
  /\ pc[c] = "mark"
  /\ rows' = [rows EXCEPT ![row[c].id] =
       [auth |-> row[c].auth, active |-> FALSE, restoreAt |-> row[c].restoreAt]]
  /\ Return(c)
  /\ UNCHANGED <<disabled, deleted, clock, faults>>

MarkFails(c) ==
  /\ pc[c] = "mark" /\ Fault /\ Return(c)
  /\ UNCHANGED <<rows, disabled, deleted, clock>>

-----------------------------------------------------------------------------
(* Time, the operator of CPA or of the page, and the end of the process,    *)
(* after which Run begins anew.                                             *)

Tick ==
  /\ clock < MaxTime /\ clock' = clock + 1
  /\ UNCHANGED <<rows, disabled, deleted, callVars, faults>>

SetByHand(a) ==
  /\ a \notin deleted /\ Fault /\ SetDisabled(a, a \notin disabled)
  /\ UNCHANGED <<rows, deleted, callVars, clock>>

Delete(a) ==
  /\ a \notin deleted /\ Cardinality(deleted) < MaxDeleted
  /\ deleted' = deleted \cup {a} /\ disabled' = disabled \ {a}
  /\ UNCHANGED <<rows, callVars, clock, faults>>

Restart ==
  /\ Fault /\ due' = <<>>
  /\ pc' = [c \in Callers |-> "idle"] /\ row' = [c \in Callers |-> Idle(c)]
  /\ UNCHANGED <<rows, disabled, deleted, calls, clock>>

Restore(c) == Enable(c) \/ EnableFails(c) \/ Mark(c) \/ MarkFails(c)

Start(c) == Disable(c) \/ DisableUnanswered(c) \/ Save(c) \/ SaveFails(c)

RunJob == FindDue \/ NextDue \/ Restore(Job)

Next ==
  \/ \E c \in Starters : Start(c)
  \/ \E c \in Restorers : Find(c) \/ Restore(c)
  \/ RunJob
  \/ \E a \in Auths : SetByHand(a) \/ Delete(a)
  \/ Tick \/ Restart

Spec == Init /\ [][Next]_vars

(* The ticker goes on, and a call ends by its timeout at the latest.        *)
FairSpec == Spec /\ WF_vars(RunJob) /\ \A c \in Restorers : WF_vars(Restore(c))

-----------------------------------------------------------------------------
Row == [auth : Auths, active : BOOLEAN, restoreAt : Nat]

(* A caller that restores works on a row that exists, with its auth index.  *)
TypeOK ==
  /\ rows \in Seq(Row) /\ disabled \subseteq Auths /\ deleted \subseteq Auths
  /\ pc \in [Callers -> {"idle", "save", "next", "enable", "mark"}]
  /\ \A c \in Callers : pc[c] \in {"enable", "mark"} =>
       row[c].id \in DOMAIN rows /\ row[c].auth = rows[row[c].id].auth
  /\ \A c \in Callers : pc[c] = "save" => row[c].auth \in Auths /\ row[c].restoreAt \in Durations
  /\ \A k \in DOMAIN due : due[k].id \in DOMAIN rows /\ due[k].auth = rows[due[k].id].auth
  /\ calls \in [Callers -> 0..MaxCalls] /\ clock \in 0..MaxTime /\ faults \in 0..MaxFaults

(* A credential has one cooldown under way, whatever starts, restores and   *)
(* failures overlap: requests find it by First, and a second row would be   *)
(* restored on its own time.                                                *)
OneActive == \A a \in Auths : \A i, j \in Active(a) : i = j

(* A cooldown due is restored, or put off, also when other files of the same*)
(* round fail for ever because they are gone, as long as there are fewer of *)
(* those than a round takes.                                                *)
Overdue(a) == Active(a) \cap Due # {}
Settled(a) == ~Overdue(a) \/ a \in deleted
DueRestored == \A a \in Auths : Overdue(a) ~> Settled(a)

(* A file that a start has disabled keeps an active cooldown, or is being   *)
(* worked on. Refuted: a restore that has read the row before a start       *)
(* extends it marks it restored after the start has disabled the file.      *)
CooldownKept ==
  \A a \in disabled : Active(a) # {} \/ \E c \in Callers : pc[c] # "idle" /\ row[c].auth = a
=============================================================================
