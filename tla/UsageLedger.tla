----------------------------- MODULE UsageLedger -----------------------------
(***************************************************************************)
(* What the inbox and the process runner together promise about every      *)
(* usage message CPA hands over: it is waiting until it is either recorded *)
(* as a usage event, once and for all, or rejected, once and for all.      *)
(* Nothing is said of batches, attempts, transactions or restarts.         *)
(***************************************************************************)
CONSTANT Messages

VARIABLE fate

Fates == {"unseen", "waiting", "recorded", "rejected"}

With(f) == {m \in Messages : fate[m] = f}

(* The messages of S, all of which have fate "from", get fate "to". *)
Settle(S, from, to) ==
  /\ S \subseteq With(from)
  /\ fate' = [m \in Messages |-> IF m \in S THEN to ELSE fate[m]]

Receive(S) == Settle(S, "unseen", "waiting")
Record(S)  == Settle(S, "waiting", "recorded")
Reject(S)  == Settle(S, "waiting", "rejected")

Init == fate = [m \in Messages |-> "unseen"]

Next ==
  \E S \in SUBSET Messages : Receive(S) \/ Record(S) \/ Reject(S)

Spec == Init /\ [][Next]_fate

=============================================================================
