----------------------------- MODULE ProxyPools -----------------------------
(***************************************************************************)
(* The proxies a user keeps here to write into auth files                  *)
(* (internal/repository/proxy_pool.go, service/proxy_pool_service.go): the *)
(* table, what its list tells of the auth files bound to each proxy, and   *)
(* the test of a proxy, which asks every target at the same time and may   *)
(* be given up by its request.                                             *)
(*                                                                         *)
(* Names are numbered in the order of the list, and are unique; two rows   *)
(* may well have one URL.  Addresses that do not parse are left out.       *)
(***************************************************************************)
EXTENDS Naturals, Sequences, FiniteSets, FiniteSetsExt, Functions

CONSTANTS
  Names,      \* names of pools, naturals in the order of the list
  Urls,       \* proxy addresses
  AuthFiles,  \* credentials that are auth files
  Targets,    \* what a test asks
  MaxEdits    \* bound: requests that write the table

ProxyConstants ==
  Names \subseteq Nat /\ IsFiniteSet(Names) /\ IsFiniteSet(AuthFiles) /\ IsFiniteSet(Targets)

NoUrl == "none"

VARIABLES
  pools,    \* name -> proxy_url of the table, NoUrl for no row
  bound,    \* external: proxy_url of the active auth files
  test,     \* the test: its address, or NoUrl
  asked,    \* target -> "none", "asked", "answered" or "sent"
  results,  \* the channel: targets with a result in it
  waiting,  \* the handler still waits for them
  edits
vars == <<pools, bound, test, asked, results, waiting, edits>>

Init ==
  /\ pools = [n \in Names |-> NoUrl]
  /\ bound \in [AuthFiles -> Urls \union {NoUrl}]
  /\ test = NoUrl /\ asked = [t \in Targets |-> "none"]
  /\ results = {} /\ waiting = FALSE /\ edits = 0

Rows == {n \in Names : pools[n] # NoUrl}

-----------------------------------------------------------------------------
(* The table.  A taken name, or a row that is gone, is an error. *)
Edit ==
  /\ edits < MaxEdits /\ edits' = edits + 1
  /\ UNCHANGED <<bound, test, asked, results, waiting>>

CreateProxyPool ==
  /\ \E n \in Names \ Rows, u \in Urls : pools' = [pools EXCEPT ![n] = u]
  /\ Edit

UpdateProxyPool ==
  /\ \E n \in Rows, m \in Names, u \in Urls :
       /\ m = n \/ m \notin Rows
       /\ pools' = [pools EXCEPT ![n] = NoUrl, ![m] = u]
  /\ Edit

DeleteProxyPool ==
  /\ \E n \in Rows : pools' = [pools EXCEPT ![n] = NoUrl]
  /\ Edit

\* external: a synchronisation brings the addresses auth files have in CPA.
Rebound ==
  /\ \E f \in AuthFiles, u \in Urls \union {NoUrl} : bound' = [bound EXCEPT ![f] = u]
  /\ UNCHANGED <<pools, test, asked, results, waiting, edits>>

\* Faulty: every row of an address shows all the files bound to it.
ShownByEach(n) == Cardinality({f \in AuthFiles : bound[f] = pools[n]})

\* attachProxyPoolStats: counts are grouped by address and shown by its last row in the list.
BoundAuthFileCount(n) ==
  IF \E m \in Rows : m > n /\ pools[m] = pools[n] THEN 0
  ELSE Cardinality({f \in AuthFiles : bound[f] = pools[n]})

-----------------------------------------------------------------------------
(* testProxyURLWithOptions *)
\* Faulty: the channel holds one result.
RoomForOne == 1

\* make(chan probeResult, len(targets))
Room == Cardinality(Targets)

TestProxyPool ==
  /\ test = NoUrl
  /\ \E n \in Rows : test' = pools[n]
  /\ asked' = [t \in Targets |-> "asked"] /\ results' = {} /\ waiting' = TRUE
  /\ UNCHANGED <<pools, bound, edits>>

\* probeProxyTarget ends with an answer, an error or its timeout.
ProbeEnds(t) ==
  /\ asked[t] = "asked" /\ asked' = [asked EXCEPT ![t] = "answered"]
  /\ UNCHANGED <<pools, bound, test, results, waiting, edits>>

SendResult(t) ==
  /\ asked[t] = "answered" /\ Cardinality(results) < Room
  /\ asked' = [asked EXCEPT ![t] = "sent"]
  /\ results' = results \union {t}
  /\ UNCHANGED <<pools, bound, test, waiting, edits>>

\* The request's context ends: the handler answers, its goroutines go on.
GiveUp ==
  /\ waiting /\ waiting' = FALSE
  /\ UNCHANGED <<pools, bound, test, asked, results, edits>>

\* done is closed once every goroutine has sent; the answer is made of what they sent.
AllSent ==
  /\ test # NoUrl /\ \A t \in Targets : asked[t] = "sent"
  /\ test' = NoUrl /\ waiting' = FALSE /\ asked' = [t \in Targets |-> "none"] /\ results' = {}
  /\ UNCHANGED <<pools, bound, edits>>

Next ==
  \/ CreateProxyPool \/ UpdateProxyPool \/ DeleteProxyPool \/ Rebound
  \/ TestProxyPool \/ GiveUp \/ AllSent
  \/ \E t \in Targets : ProbeEnds(t) \/ SendResult(t)

Spec == Init /\ [][Next]_vars

-----------------------------------------------------------------------------
\* Shapes of the state.
TypeOK ==
  /\ pools \in [Names -> Urls \union {NoUrl}] /\ bound \in [AuthFiles -> Urls \union {NoUrl}]
  /\ test \in Urls \union {NoUrl} /\ asked \in [Targets -> {"none", "asked", "answered", "sent"}]
  /\ waiting \in BOOLEAN /\ edits \in 0..MaxEdits

\* The counts the list shows add up to the auth files whose address is in the table: none is
\* counted for two rows of one address, and none is missed.
BindingsCountedOnce ==
  FoldFunctionOnSet(+, 0, [n \in Names |-> BoundAuthFileCount(n)], Rows)
    = Cardinality({f \in AuthFiles : \E n \in Rows : pools[n] = bound[f]})

\* A goroutine of a test never waits for room in the channel: nobody takes a result out before
\* all are in, and after the request is given up nobody ever does.
ProbesNeverStuck ==
  \A t \in Targets : asked[t] = "answered" => Cardinality(results) < Room
=============================================================================
