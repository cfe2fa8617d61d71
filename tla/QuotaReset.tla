----------------------------- MODULE QuotaReset -----------------------------
(***************************************************************************)
(* Resets of a Codex credential's quota (internal/quota/reset.go): each    *)
(* redeems one of the credits its account has at the provider, under a     *)
(* redeem id of its own, and one at a time per credential.                 *)
(***************************************************************************)
EXTENDS Naturals, FiniteSets

CONSTANTS
  AuthIndexes,
  Resetters,   \* requests served at one time
  MaxCredits   \* bound: credits of each account at first

VARIABLES
  credits,    \* external: credits of each account
  active,     \* credentials whose identity is there and not deleted
  inFlight,   \* Service.resetInFlight
  resets,     \* the requests
  redeemed,   \* history: credits redeemed for each credential
  told        \* history: resets answered with success
vars == <<credits, active, inFlight, resets, redeemed, told>>

NoReset == [pc |-> "idle", auth |-> "none", ok |-> FALSE]

Init ==
  /\ credits \in [AuthIndexes -> 0..MaxCredits] /\ active = AuthIndexes
  /\ inFlight = {} /\ resets = [r \in Resetters |-> NoReset]
  /\ redeemed = [a \in AuthIndexes |-> 0] /\ told = redeemed

At(r, pc) == resets[r].pc = pc
Become(r, pc, a, ok) == resets' = [resets EXCEPT ![r] = [pc |-> pc, auth |-> a, ok |-> ok]]
Goto(r, pc) == Become(r, pc, resets[r].auth, FALSE)

-----------------------------------------------------------------------------
\* A synchronisation of the metadata deletes or revives an identity.
SyncIdentity ==
  \E a \in AuthIndexes :
    /\ active' = IF a \in active THEN active \ {a} ELSE active \union {a}
    /\ UNCHANGED <<credits, inFlight, resets, redeemed, told>>

\* Faulty: the entry is not looked for.
BeginUnchecked(r) ==
  /\ At(r, "idle")
  /\ \E a \in AuthIndexes :
       /\ Become(r, "look", a, FALSE)
       /\ inFlight' = inFlight \union {a}
  /\ UNCHANGED <<credits, active, redeemed, told>>

\* beginReset: a second one is answered with a conflict at once.
BeginReset(r) ==
  /\ At(r, "idle")
  /\ \E a \in AuthIndexes \ inFlight :
       /\ Become(r, "look", a, FALSE)
       /\ inFlight' = inFlight \union {a}
  /\ UNCHANGED <<credits, active, redeemed, told>>

\* GetActiveAuthFileUsageIdentityByAuthIndex
IsActive(a) == a \in active

\* The identity is looked up, then the provider's handler.
LookUpIdentity(r) ==
  /\ At(r, "look")
  /\ \/ IsActive(resets[r].auth) /\ Goto(r, "redeem")
     \/ Goto(r, "finish")    \* unknown, of another provider, or the look-up failed
  /\ UNCHANGED <<credits, active, inFlight, redeemed, told>>

\* parseCodexResetCreditResponse: the account was reset, or anything else is an error.
Understood == BOOLEAN

\* codexProvider.Reset: the request reaches the provider or not, and its answer may be lost.
Redeem(r) ==
  /\ At(r, "redeem")
  /\ LET a == resets[r].auth IN
     \/ /\ credits[a] > 0
        /\ credits' = [credits EXCEPT ![a] = @ - 1]
        /\ redeemed' = [redeemed EXCEPT ![a] = @ + 1]
        /\ \E ok \in Understood : Become(r, "finish", a, ok)
     \/ Goto(r, "finish") /\ UNCHANGED <<credits, redeemed>>
  /\ UNCHANGED <<active, inFlight, told>>

\* The answer: what the user is told of a reset.
Told(r) == told' = IF resets[r].ok THEN [told EXCEPT ![resets[r].auth] = @ + 1] ELSE told

\* Faulty: only a reset that succeeded gives its entry back.
FinishSucceeded(r) ==
  /\ At(r, "finish") /\ resets' = [resets EXCEPT ![r] = NoReset]
  /\ inFlight' = IF resets[r].ok THEN inFlight \ {resets[r].auth} ELSE inFlight
  /\ Told(r)
  /\ UNCHANGED <<credits, active, redeemed>>

\* finishReset, deferred, and the answer.
FinishReset(r) ==
  /\ At(r, "finish") /\ resets' = [resets EXCEPT ![r] = NoReset]
  /\ inFlight' = inFlight \ {resets[r].auth}
  /\ Told(r)
  /\ UNCHANGED <<credits, active, redeemed>>

Next ==
  \/ SyncIdentity
  \/ \E r \in Resetters : BeginReset(r) \/ LookUpIdentity(r) \/ Redeem(r) \/ FinishReset(r)

Spec == Init /\ [][Next]_vars

-----------------------------------------------------------------------------
\* Shapes of the state.
TypeOK ==
  /\ credits \in [AuthIndexes -> 0..MaxCredits] /\ active \subseteq AuthIndexes
  /\ \A r \in Resetters : resets[r].pc \in {"idle", "look", "redeem", "finish"}

\* A credential is reset by one request at a time, and one whose request has ended, however it
\* ended, can be reset again; a reset answered with success has redeemed a credit of its own.
RedeemsOneByOne ==
  /\ \A r, s \in Resetters :
       resets[r].pc # "idle" /\ resets[s].pc # "idle" /\ resets[r].auth = resets[s].auth => r = s
  /\ inFlight = {resets[r].auth : r \in {r \in Resetters : resets[r].pc # "idle"}}
  /\ \A a \in AuthIndexes : told[a] <= redeemed[a]

\* What a lost answer does not keep: a credit is redeemed for an answered reset only.  Each
\* request has a new redeem id, so the provider cannot know a repeated one.
CreditsAnswered ==
  \A a \in AuthIndexes : inFlight = {} => redeemed[a] = told[a]
=============================================================================
