--------------------------- MODULE AuthFileImport ---------------------------
(***************************************************************************)
(* Importing credentials: the content a user pastes is searched for        *)
(* sessions, each becomes a Codex auth file with a name of its own         *)
(* (internal/service/auth_file_import.go), and the files are uploaded to   *)
(* CPA one after another (auth_files_management.go).                       *)
(*                                                                         *)
(* A JSON value is a node: whether an access token is found in it, the     *)
(* seed of the name its account gives, and the values in it, "hidden"      *)
(* those under the keys that hold tokens.  The keys of an object have no   *)
(* order; the nodes of a content stand for one of them.  Instants of a     *)
(* payload are in seconds; how one is written is left out.                 *)
(***************************************************************************)
EXTENDS Integers, Sequences, SequencesExt, FiniteSets

CONSTANTS
  Contents,     \* what users paste: nodes
  Nodes,        \* these, and the values in them
  Imports,      \* requests served at one time
  MaxNow,       \* bound: seconds
  MaxFailures   \* bound: uploads CPA refuses

\* A value has finitely many values in it, and is not inside of itself.
ImportConstants ==
  /\ Contents \subseteq Nodes
  /\ \A v \in Nodes : v.kids \in Seq(Nodes) /\ v.token \in BOOLEAN
  /\ \A S \in SUBSET Nodes \ {{}} : \E v \in S : ToSet(v.kids) \intersect S = {}

VARIABLES
  now,
  cpa,       \* external: CPA's auth files, name -> the session it was made of
  imports,   \* the requests
  synced,    \* external: the files the last metadata synchronisation saw
  failures
vars == <<now, cpa, imports, synced, failures>>

\* Faulty: the search goes on below a value that is a session itself.
CollectBelow(v) ==
  LET sessions[w \in Nodes] ==
        (IF w.token THEN <<w>> ELSE <<>>) \o
        FlattenSeq([k \in DOMAIN w.kids |-> IF k \in w.hidden THEN <<>> ELSE sessions[w.kids[k]]])
  IN sessions[v]

\* collectAuthFileImportRecords: the sessions in a value, those inside of one left out.
Collect(v) ==
  LET sessions[w \in Nodes] ==
        IF w.token THEN <<w>>
        ELSE FlattenSeq([k \in DOMAIN w.kids |-> IF k \in w.hidden THEN <<>> ELSE sessions[w.kids[k]]])
  IN sessions[v]

\* convertAuthFileImportRecord: a session that can be renewed has no end of its own, and the
\* made-up id token of one without an id token ends with it, or after 90 days.
Ninety == 90 * 24 * 60 * 60
Converted(s, t) ==
  LET expired == IF s.refresh THEN 0 ELSE s.expires IN
  [session |-> s, expired |-> expired,
   idToken |-> IF s.idToken \/ ~s.account THEN 0 ELSE IF expired = 0 THEN t + Ninety ELSE expired]

\* Faulty: the second file of a seed has the name of the first.
PlainName(seeds, i, t) == <<seeds[i], t, 1>>

\* uniqueAuthFileImportName: seed, time and which file of that seed it is in this import.
UniqueName(seeds, i, t) == <<seeds[i], t, Cardinality({j \in 1..i : seeds[j] = seeds[i]})>>

\* buildAuthFileImportsFromTokenContentAt
Files(content, t) ==
  LET records == Collect(content)
      seeds == [i \in DOMAIN records |-> records[i].seed]
  IN [i \in DOMAIN records |-> [name |-> UniqueName(seeds, i, t), payload |-> Converted(records[i], t)]]

Idle == [pc |-> "idle", content |-> CHOOSE c \in Contents : TRUE, files |-> <<>>, done |-> 0]

Init ==
  /\ now = 1 /\ cpa = {} /\ synced = {} /\ failures = 0
  /\ imports = [r \in Imports |-> Idle]

-----------------------------------------------------------------------------
Tick == now < MaxNow /\ now' = now + 1 /\ UNCHANGED <<cpa, imports, synced, failures>>

\* Content without a session is refused.
ImportAuthFiles(r) ==
  /\ imports[r].pc = "idle"
  /\ \E c \in Contents :
       /\ Collect(c) # <<>>
       /\ imports' = [imports EXCEPT ![r] = [pc |-> "upload", content |-> c, files |-> Files(c, now), done |-> 0]]
  /\ UNCHANGED <<now, cpa, synced, failures>>

\* CPA stores a file under its name, over another if there is one.
Stored(file) == {f \in cpa : f.name # file.name} \union {file}

\* Upload of the next file; an error ends the import, the files before it stay.
ImportAuthFile(r) ==
  /\ imports[r].pc = "upload" /\ imports[r].done < Len(imports[r].files)
  /\ LET next == imports[r].files[imports[r].done + 1] IN
     \/ /\ cpa' = Stored(next)
        /\ imports' = [imports EXCEPT ![r].done = @ + 1]
        /\ UNCHANGED failures
     \/ /\ failures < MaxFailures /\ failures' = failures + 1
        /\ imports' = [imports EXCEPT ![r] = Idle]
        /\ UNCHANGED cpa
  /\ UNCHANGED <<now, synced>>

\* onChanged: the metadata are synchronised, then the names are answered.
SyncImported(r) ==
  /\ imports[r].pc = "upload" /\ imports[r].done = Len(imports[r].files)
  /\ synced' = {f.name : f \in cpa}
  /\ imports' = [imports EXCEPT ![r].pc = "answered"]
  /\ UNCHANGED <<now, cpa, failures>>

Forget(r) ==
  /\ imports[r].pc = "answered" /\ imports' = [imports EXCEPT ![r] = Idle]
  /\ UNCHANGED <<now, cpa, synced, failures>>

Next ==
  \/ Tick
  \/ \E r \in Imports : ImportAuthFiles(r) \/ ImportAuthFile(r) \/ SyncImported(r) \/ Forget(r)

Spec == Init /\ [][Next]_vars

-----------------------------------------------------------------------------
\* Shapes of the state.
TypeOK ==
  /\ now \in 1..MaxNow /\ failures \in 0..MaxFailures
  /\ \A r \in Imports : imports[r].content \in Contents /\ imports[r].done \in 0..Len(imports[r].files)
  /\ \A f, g \in cpa : f.name = g.name => f = g

\* The sessions of a value that are in no other session and under no key of tokens.
Outermost(v) ==
  LET ids[w \in Nodes] ==
        IF w.token THEN {w.id} ELSE UNION {ids[w.kids[k]] : k \in DOMAIN w.kids \ w.hidden}
  IN ids[v]

\* An import that is answered has given each session it was pasted a file of its own, and the
\* synchronisation has seen it: sessions of one account get different names, and one that is
\* nested in another is not imported twice.
EachSessionHasItsFile ==
  \A r \in Imports : imports[r].pc = "answered" =>
    LET files == ToSet(imports[r].files)
        names == {f.name : f \in files} IN
    /\ {f.payload.session.id : f \in files} = Outermost(imports[r].content)
    /\ Cardinality(names) = Len(imports[r].files) /\ names \subseteq synced

\* What two imports in one second do not give: CPA holds the files of an answered import as
\* they were uploaded.
FilesStay ==
  \A r \in Imports : imports[r].pc = "answered" => ToSet(imports[r].files) \subseteq cpa
=============================================================================
