----------------------------- MODULE UpdateCheck -----------------------------
(***************************************************************************)
(* The check for a newer release of the application                        *)
(* (internal/updatecheck/checker.go) while releases are published.         *)
(*                                                                         *)
(* A version is its three numbers; one that is not of the form vX.Y.Z is   *)
(* NotStable, and a number that strconv.Atoi refuses is Huge.              *)
(***************************************************************************)
EXTENDS Integers, Sequences, SequencesExt

CONSTANTS
  Versions,      \* triples of numbers
  Currents,      \* versions the running build may be of
  MaxPublished,  \* bound: tags
  PageOfTags     \* tags GitHub answers, the youngest first

Huge == -1
NotStable == <<>>

UpdateConstants ==
  /\ Versions \subseteq [1..3 -> Int] /\ Currents \subseteq [1..3 -> Int] \union {NotStable}
  /\ PageOfTags \in Nat

VARIABLES
  release,   \* external: the tag of the latest release; <<>> also when there is none
  tags,      \* external: the tags, the youngest first
  check      \* the check under way
vars == <<release, tags, check>>

\* IsStableVersion, parseStableVersion
IsStableVersion(v) == v # NotStable
Parses(v) == IsStableVersion(v) /\ \A i \in 1..3 : v[i] # Huge

Digits(n) == IF n < 10 THEN <<n>> ELSE <<n \div 10, n % 10>>
Before(a, b) ==
  \E i \in 1..3 : a[i] < b[i] /\ \A j \in 1..(i - 1) : a[j] = b[j]

\* Faulty: the numbers are compared as they are written.
OlderInText(a, b) ==
  Parses(a) /\ Parses(b) /\
  \E i \in 1..3 :
    /\ \A j \in 1..(i - 1) : a[j] = b[j]
    /\ LET x == Digits(a[i]) y == Digits(b[i]) IN
       x[1] < y[1] \/ (x[1] = y[1] /\ Len(x) < Len(y)) \/ (x[1] = y[1] /\ Len(x) = Len(y) /\ x[Len(x)] < y[Len(y)])

\* CompareStableVersions answers -1: both parse and the first is older.
Older(a, b) == Parses(a) /\ Parses(b) /\ Before(a, b)

\* Faulty: the youngest tag is taken for the greatest.
YoungestTag(list) ==
  LET stable == SelectSeq(list, IsStableVersion) IN IF stable = <<>> THEN NotStable ELSE stable[1]

\* latestStableVersion: the first stable tag, given up for a greater one.
LatestTag(list) == FoldLeft(LAMBDA best, tag : IF ~IsStableVersion(tag) THEN best
                                               ELSE IF best = NotStable \/ Older(best, tag) THEN tag
                                               ELSE best, NotStable, list)

NoCheck == [pc |-> "idle", current |-> NotStable, from |-> "none", latest |-> NotStable, listed |-> <<>>,
            available |-> FALSE, comparable |-> FALSE]

Init ==
  /\ release = NotStable /\ tags = <<>>
  /\ \E v \in Currents : check = [NoCheck EXCEPT !.current = v]

-----------------------------------------------------------------------------
\* A tag is pushed; it may be made the latest release, an older branch's too.
Publish ==
  /\ Len(tags) < MaxPublished
  /\ \E v \in Versions \union {NotStable} :
       /\ v = NotStable \/ v \notin ToSet(tags)
       /\ tags' = <<v>> \o tags
       /\ release' \in {release, v}
  /\ UNCHANGED check

Answered(from, list, latest) ==
  [check EXCEPT !.pc = "answered", !.from = from, !.listed = list, !.latest = latest,
                !.comparable = Parses(check.current) /\ Parses(latest),
                !.available = Older(check.current, latest)]

\* A build without a stable version asks nobody.
Check ==
  /\ check.pc \in {"idle", "answered"}
  /\ check' = [NoCheck EXCEPT !.current = check.current, !.pc = IF IsStableVersion(check.current) THEN "release" ELSE "answered"]
  /\ UNCHANGED <<release, tags>>

\* fetchLatestRelease: no release and an error both lead to the tags.
FetchLatestRelease ==
  /\ check.pc = "release"
  /\ \/ IsStableVersion(release) /\ check' = Answered("release", <<>>, release)
     \/ check' = [check EXCEPT !.pc = "tags"]
  /\ UNCHANGED <<release, tags>>

\* fetchTags: an error ends the check without an answer.
FetchTags ==
  /\ check.pc = "tags"
  /\ LET list == SubSeq(tags, 1, IF Len(tags) < PageOfTags THEN Len(tags) ELSE PageOfTags) IN
     \/ check' = Answered("tags", list, LatestTag(list))
     \/ check' = [NoCheck EXCEPT !.current = check.current]
  /\ UNCHANGED <<release, tags>>

Next == Publish \/ Check \/ FetchLatestRelease \/ FetchTags
Spec == Init /\ [][Next]_vars

-----------------------------------------------------------------------------
\* Shapes of the state.
TypeOK ==
  /\ check.pc \in {"idle", "release", "tags", "answered"} /\ check.available \in BOOLEAN
  /\ Len(tags) <= MaxPublished

\* An update that is offered is newer than the running build, number by number, and was
\* published; one found among the tags is the greatest of the page, whatever order they were
\* pushed in, unless one of them is too great to read.
OffersTheNewest ==
  check.pc = "answered" =>
    /\ check.available => Before(check.current, check.latest) /\ check.latest \in ToSet(tags)
    /\ check.from = "tags" =>
         LET listed == {v \in ToSet(check.listed) : IsStableVersion(v)} IN
         /\ \A v \in listed : (\A w \in listed : Parses(w)) => ~Before(check.latest, v)
         /\ check.comparable /\ ~check.available => \A v \in listed : Parses(v) => ~Before(check.current, v)

\* What one tag with a number too great to read does not leave: a newer tag is offered.
NewerTagOffered ==
  check.pc = "answered" /\ check.from = "tags" /\ check.latest # NotStable =>
    \A v \in ToSet(check.listed) : Parses(v) /\ Parses(check.current) /\ Before(check.current, v) => check.available
=============================================================================
