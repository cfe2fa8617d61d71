---------------------------- MODULE AuthFileEdits ----------------------------
(***************************************************************************)
(* Requests that change auth files (auth_files_management.go): one         *)
(* goroutine per name for the status and the proxy, one name after another *)
(* for the note, one call for a deletion; then the metadata are            *)
(* synchronised, after a status change they are not.  With CPA on the same *)
(* machine the proxy and the note are written into the credential's file   *)
(* by reading it, changing one key and writing it whole                    *)
(* (internal/cpa/client.go), while CPA writes the same file itself.        *)
(***************************************************************************)
EXTENDS Naturals, FiniteSets

CONSTANTS
  AuthFiles,    \* names
  Editors,      \* requests, each of them one
  Limit,        \* authFilesStatusWorkerLimit
  Values,       \* of a proxy or a note
  Named,        \* bound: the files each request may be about
  MaxRest       \* bound: writes of a file by CPA

EditConstants == Named \in [Editors -> SUBSET AuthFiles] /\ "cpa" \notin Editors

VARIABLES
  disk,      \* external: the files
  writes,    \* changes of each file so far
  reqs,      \* the requests
  work,      \* request -> name -> its goroutine
  rows,      \* the change of each file that usage_identities shows
  want,      \* history: the files as every change asked
  clean      \* history: the files whose changes never overlapped nor failed half-way
vars == <<disk, writes, reqs, work, rows, want, clean>>

Fields == {"proxy", "note"}
New == [is |-> "whole", proxy |-> "none", note |-> "none", rest |-> 0]
NoWork == [pc |-> "none", read |-> New, wrote |-> 0]
NoReq == [pc |-> "idle", kind |-> "status", names |-> {}, value |-> "none",
          ok |-> TRUE, cancelled |-> FALSE, told |-> [n \in AuthFiles |-> 0]]

Init ==
  /\ disk = [n \in AuthFiles |-> New] /\ want = disk
  /\ writes = [n \in AuthFiles |-> 0] /\ rows = writes
  /\ reqs = [r \in Editors |-> NoReq]
  /\ work = [r \in Editors |-> [n \in AuthFiles |-> NoWork]]
  /\ clean = AuthFiles

At(r, n, pc) == reqs[r].pc = "run" /\ work[r][n].pc = pc
Goto(r, n, pc) == work' = [work EXCEPT ![r][n].pc = pc]
Busy(r) == {n \in AuthFiles : work[r][n].pc \in {"call", "open", "write"}}
Spoil(n) == clean' = clean \ {n}

\* Somebody has read the file and not written it yet.
Editing(n) == {r \in Editors : work[r][n].pc \in {"open", "write"}}

\* A change of n by r: what it asks for, and whether it overlaps another.
Ask(n, changed) == want' = [want EXCEPT ![n] = changed]
Overlap(r, n) == clean' = IF Editing(n) \ {r} = {} THEN clean ELSE clean \ {n}
Count(n) == writes' = [writes EXCEPT ![n] = @ + 1]

-----------------------------------------------------------------------------
(* CPA renews a login: it writes its own file. *)
CpaWrites(n) ==
  /\ disk[n].is = "whole" /\ disk[n].rest < MaxRest
  /\ disk' = [disk EXCEPT ![n].rest = @ + 1]
  /\ Ask(n, [want[n] EXCEPT !.rest = @ + 1]) /\ Overlap("cpa", n)
  /\ UNCHANGED <<writes, reqs, work, rows>>

\* cleanAuthFileNames: each name once, and at least one.
CleanNames(r) == SUBSET Named[r] \ {{}}

Request(r, kind) ==
  /\ reqs[r].pc = "idle"
  /\ \E names \in CleanNames(r), v \in IF kind \in Fields THEN Values ELSE {"none"} :
       /\ reqs' = [reqs EXCEPT ![r] = [NoReq EXCEPT !.pc = "run", !.kind = kind, !.names = names, !.value = v]]
       /\ work' = [work EXCEPT ![r] = [n \in AuthFiles |->
            IF n \in names THEN [NoWork EXCEPT !.pc = IF kind = "delete" THEN "call" ELSE "wait"] ELSE NoWork]]
  /\ UNCHANGED <<disk, writes, rows, want, clean>>

\* The browser goes away: the context of the request ends.
Cancel(r) ==
  /\ reqs[r].pc \in {"run", "sync", "store"} /\ ~reqs[r].cancelled
  /\ reqs' = [reqs EXCEPT ![r].cancelled = TRUE]
  /\ UNCHANGED <<disk, writes, work, rows, want, clean>>

-----------------------------------------------------------------------------
(* A name waits for a slot, or the end of the context; a note for its turn. *)
AtOnce(r) == IF reqs[r].kind = "note" THEN IF reqs[r].ok THEN 1 ELSE 0 ELSE Limit

TakeSlot(r, n) ==
  /\ At(r, n, "wait") /\ Cardinality(Busy(r)) < AtOnce(r) /\ Goto(r, n, "call")
  /\ UNCHANGED <<disk, writes, reqs, rows, want, clean>>

Done(r, n) == work' = [work EXCEPT ![r][n] = [NoWork EXCEPT !.pc = "done", !.wrote = writes[n] + 1]]
Failed(r, n) == /\ work' = [work EXCEPT ![r][n] = [NoWork EXCEPT !.pc = "done"]]
                /\ reqs' = [reqs EXCEPT ![r].ok = FALSE]
Skipped(r, n) ==
  /\ At(r, n, "wait")
  /\ IF reqs[r].kind = "note" THEN ~reqs[r].ok ELSE reqs[r].cancelled
  /\ Failed(r, n)
  /\ UNCHANGED <<disk, writes, rows, want, clean>>

\* UpdateAuthFileStatus: CPA writes the file; an error may hide that it did.
UpdateAuthFileStatus(r, n) ==
  /\ At(r, n, "call") /\ reqs[r].kind = "status"
  /\ \/ /\ disk[n].is = "whole" /\ disk[n].rest < MaxRest /\ ~reqs[r].cancelled
        /\ disk' = [disk EXCEPT ![n].rest = @ + 1] /\ Count(n)
        /\ Ask(n, [want[n] EXCEPT !.rest = @ + 1]) /\ Overlap(r, n)
        /\ \/ Done(r, n) /\ UNCHANGED reqs
           \/ Failed(r, n)
     \/ Failed(r, n) /\ UNCHANGED <<disk, writes, want, clean>>
  /\ UNCHANGED rows

\* UpdateAuthFileProxyURL, UpdateAuthFileNote: CPA lists where the file is, and it is read;
\* from here on the context is not looked at.
ReadAuthFile(r, n) ==
  /\ At(r, n, "call") /\ reqs[r].kind \in Fields
  /\ \/ /\ ~reqs[r].cancelled /\ disk[n].is = "whole" /\ UNCHANGED reqs
        /\ work' = [work EXCEPT ![r][n] = [@ EXCEPT !.pc = "open", !.read = disk[n]]]
     \/ Failed(r, n)
  /\ UNCHANGED <<disk, writes, rows, want, clean>>

\* os.WriteFile empties the file, or makes it again, and writes it then.
OpenAuthFile(r, n) ==
  /\ At(r, n, "open") /\ Goto(r, n, "write")
  /\ disk' = [disk EXCEPT ![n].is = "cut"] /\ Overlap(r, n)
  /\ UNCHANGED <<writes, reqs, rows, want>>

\* Faulty: the file is written from the one key.
EditedAlone(r, n) == [New EXCEPT ![reqs[r].kind] = reqs[r].value]

Edited(r, n) == [work[r][n].read EXCEPT ![reqs[r].kind] = reqs[r].value]

\* Over what another wrote meanwhile the longer of both leaves its tail; a file that was
\* removed meanwhile stays so.
WriteAuthFile(r, n) ==
  /\ At(r, n, "write") /\ Count(n) /\ UNCHANGED rows
  /\ \/ /\ \/ disk[n].is # "gone" /\ disk' = [disk EXCEPT ![n] = Edited(r, n)]
           \/ disk[n].is = "whole" /\ disk' = [disk EXCEPT ![n].is = "cut"]
           \/ disk[n].is = "gone" /\ UNCHANGED disk
        /\ Ask(n, [want[n] EXCEPT ![reqs[r].kind] = reqs[r].value]) /\ Overlap(r, n)
        /\ Done(r, n) /\ UNCHANGED reqs
     \/ /\ Failed(r, n) /\ Spoil(n) /\ UNCHANGED <<disk, want>>

\* DeleteAuthFiles: CPA removes all the names, or answers an error.
DeleteAuthFiles(r) ==
  /\ reqs[r].pc = "run" /\ reqs[r].kind = "delete" /\ \E n \in reqs[r].names : At(r, n, "call")
  /\ \/ /\ ~reqs[r].cancelled
        /\ disk' = [n \in AuthFiles |-> IF n \in reqs[r].names THEN [disk[n] EXCEPT !.is = "gone"] ELSE disk[n]]
        /\ want' = [n \in AuthFiles |-> IF n \in reqs[r].names THEN [want[n] EXCEPT !.is = "gone"] ELSE want[n]]
        /\ writes' = [n \in AuthFiles |-> IF n \in reqs[r].names THEN writes[n] + 1 ELSE writes[n]]
        /\ clean' = clean \ {n \in reqs[r].names : Editing(n) # {}}
        /\ work' = [work EXCEPT ![r] = [n \in AuthFiles |->
             IF n \in reqs[r].names THEN [NoWork EXCEPT !.pc = "done", !.wrote = writes[n] + 1] ELSE NoWork]]
        /\ \/ UNCHANGED reqs
           \/ reqs' = [reqs EXCEPT ![r].ok = FALSE]
     \/ /\ work' = [work EXCEPT ![r] = [n \in AuthFiles |-> [NoWork EXCEPT !.pc = "done"]]]
        /\ reqs' = [reqs EXCEPT ![r].ok = FALSE] /\ UNCHANGED <<disk, want, writes, clean>>
  /\ UNCHANGED rows

-----------------------------------------------------------------------------
(* The answer.  Nothing is synchronised after an error, nor after a change of the status. *)
AtRest(r) == \A n \in AuthFiles : work[r][n].pc \in {"none", "done"}

\* Faulty: a cancelled request is answered while its goroutines go on.
WaitedOrCancelled(r) == reqs[r].pc = "run" /\ (reqs[r].cancelled \/ AtRest(r))

\* wg.Wait: also a cancelled request waits for the calls under way.
Waited(r) == reqs[r].pc = "run" /\ AtRest(r)

Answer(r) ==
  /\ Waited(r)
  /\ reqs' = [reqs EXCEPT ![r].pc = IF reqs[r].ok /\ reqs[r].kind # "status" THEN "sync" ELSE "answered"]
  /\ UNCHANGED <<disk, writes, work, rows, want, clean>>

\* SyncMetadata: it reads CPA's files, then writes their rows; several may overlap.
FetchAuthFiles(r) ==
  /\ reqs[r].pc = "sync"
  /\ \/ /\ ~reqs[r].cancelled
        /\ reqs' = [reqs EXCEPT ![r].pc = "store", ![r].told = writes]
     \/ reqs' = [reqs EXCEPT ![r].pc = "answered", ![r].ok = FALSE]
  /\ UNCHANGED <<disk, writes, work, rows, want, clean>>

SyncAuthFiles(r) ==
  /\ reqs[r].pc = "store"
  /\ \/ ~reqs[r].cancelled /\ rows' = reqs[r].told /\ reqs' = [reqs EXCEPT ![r].pc = "answered"]
     \/ reqs' = [reqs EXCEPT ![r].pc = "answered", ![r].ok = FALSE] /\ rows' \in {rows, reqs[r].told}
  /\ UNCHANGED <<disk, writes, work, want, clean>>

Next ==
  \/ \E n \in AuthFiles : CpaWrites(n)
  \/ \E r \in Editors :
       \/ \E kind \in {"status", "proxy", "note", "delete"} : Request(r, kind)
       \/ Cancel(r) \/ DeleteAuthFiles(r) \/ Answer(r) \/ FetchAuthFiles(r) \/ SyncAuthFiles(r)
       \/ \E n \in AuthFiles :
            \/ TakeSlot(r, n) \/ Skipped(r, n) \/ UpdateAuthFileStatus(r, n) \/ ReadAuthFile(r, n)
            \/ OpenAuthFile(r, n) \/ WriteAuthFile(r, n)

Spec == Init /\ [][Next]_vars

-----------------------------------------------------------------------------
\* Shapes of the state.
TypeOK ==
  /\ \A n \in AuthFiles : disk[n].is \in {"whole", "cut", "gone"} /\ rows[n] <= writes[n]
  /\ \A r \in Editors : /\ reqs[r].pc \in {"idle", "run", "sync", "store", "answered"}
                        /\ Cardinality(Busy(r)) <= IF reqs[r].kind = "delete" THEN Cardinality(AuthFiles) ELSE Limit
  /\ clean \subseteq AuthFiles

\* An answer is final, also one to a request that was cancelled: no goroutine of the request
\* changes a file after it.  One without an error has changed every file it was asked for, and
\* the metadata were read after its last change.
AnswersAreFinal ==
  \A r \in Editors : reqs[r].pc \in {"sync", "store", "answered"} =>
    /\ AtRest(r)
    /\ reqs[r].pc = "answered" /\ reqs[r].ok =>
         \A n \in reqs[r].names :
           /\ work[r][n].wrote # 0
           /\ reqs[r].kind # "status" => reqs[r].told[n] >= work[r][n].wrote

\* Changes of a file that neither overlap nor fail add up: each leaves what the others and CPA
\* wrote, and a removed file stays removed.
EditsAddUp ==
  \A n \in clean : Editing(n) = {} => (disk[n].is = want[n].is /\ (disk[n].is = "whole" => disk[n] = want[n]))

\* What overlapping changes do not keep: the file stays readable and holds what CPA wrote last.
RestKept ==
  \A n \in AuthFiles : Editing(n) = {} /\ (\A r \in Editors : reqs[r].ok) /\ disk[n].is # "gone" =>
    disk[n].is = "whole" /\ disk[n].rest = want[n].rest

\* What overlapping synchronisations do not keep: the rows show an answered change.
RowsShowAnswered ==
  \A r \in Editors : reqs[r].pc = "answered" /\ reqs[r].ok /\ reqs[r].kind # "status" =>
    \A n \in reqs[r].names : rows[n] >= work[r][n].wrote
=============================================================================
