--------------------------- MODULE Resume_proofs ---------------------------
(***************************************************************************)
(* Theorems about Resume, for every number of checks, builds, capacities   *)
(* and kills.                                                              *)
(***************************************************************************)
EXTENDS Resume, WellFoundedInduction, FiniteSetTheorems, TLAPS

-----------------------------------------------------------------------------
(* The strengthening of TwoStrikes that is inductive.  p is the one file every *)
(* run reads and writes.                                                       *)

\* What file d teaches build b about the checks it skips and watches is so.
Told(d, b) ==
    /\ \A c \in Check : c \in d.skip  => strikes[b][c] >= 2
    /\ \A c \in Check : c \in d.watch => strikes[b][c] >= 1

\* What its last word teaches is so: the announcement stands for a strike.
LastTold(d, b) ==
    d.pending \in Check =>
        /\ strikes[b][d.pending] >= 1
        /\ d.pending \in d.watch => strikes[b][d.pending] >= 2

FileTold(p) ==
    \A b \in Builds : Matches(report[p], b) =>
        /\ Told(report[p], b)
        /\ ~(sink = p /\ phase = "attempt") => LastTold(report[p], b)

TableTold ==
    /\ \A c \in Check : c \in skip => strikes[build][c] >= 2
    /\ phase \in {"open", "meta", "build", "resume"} =>
          \A c \in Check : c \in watch => strikes[build][c] >= 1

\* The file while this process is writing it.
Writing(p) ==
    sink = p =>
        /\ tried
        /\ phase \in {"meta", "build", "resume", "loop", "attempt"}
        /\ report[p].here
        /\ phase \in {"meta", "build", "resume"} =>
              /\ report[p].pending = None
              /\ report[p].skip = {} /\ report[p].watch = {}
        /\ phase \in {"meta", "build"} => report[p].id = None
        /\ phase # "meta" => report[p].checks = build.checks
        /\ phase \notin {"meta", "build"} => report[p].id = build.id
        /\ InLoop =>
              /\ report[p].pending = IF phase = "attempt" THEN next ELSE None
              /\ report[p].skip \subseteq skip
              /\ \A c \in 1..(next - 1) : c \notin report[p].watch

\* The file once this process has written it and closed it: complete.
Written(p) ==
    (sink = None /\ tried /\ phase # "down") =>
        /\ report[p].here
        /\ report[p].pending = None
        /\ Matches(report[p], build)
        /\ \A c \in 1..build.checks : c \notin report[p].watch
        /\ phase \notin {"idle", "load"} => report[p].skip \subseteq skip

Opened ==
    /\ phase \in {"down", "load", "open", "idle"} => sink = None
    /\ phase \notin {"down", "load", "open"} => tried

\* The loop attempts checks of its own build, and none it skips.
Attempting ==
    phase = "attempt" => next \in 1..build.checks /\ next \notin skip

IInv(p) ==
    /\ sink \in {None, p}
    /\ FileTold(p)
    /\ TableTold
    /\ Writing(p)
    /\ Written(p)
    /\ Opened
    /\ Attempting

-----------------------------------------------------------------------------
(* Type correctness. *)

\* Every operator of the loader takes a digest to a digest.
LEMMA HeaderClosed ==
    ASSUME NEW d \in Digest, NEW n \in Nat
    PROVE  ConsiderMeta(d, n) \in Digest /\ ConsiderBuild(d, n) \in Digest
BY DEF ConsiderMeta, ConsiderBuild, Digest

LEMMA TableClosed ==
    ASSUME NEW d \in Digest, NEW c \in Id
    PROVE  Remember(d, c) \in Digest /\ WatchAdd(d, c) \in Digest
BY DEF Remember, WatchAdd, Digest

LEMMA CheckClosed ==
    ASSUME NEW d \in Digest, NEW c \in Id
    PROVE  /\ ConsiderTry(d, c) \in Digest
           /\ ConsiderRes(d, c, TRUE) \in Digest
           /\ ConsiderRes(d, c, FALSE) \in Digest
BY DEF ConsiderTry, ConsiderRes, Remember, Digest, None

LEMMA ResumeClosed ==
    ASSUME NEW d \in Digest, NEW ids, ids \subseteq Id
    PROVE  ConsiderResume(d, ids) \in Digest
BY DEF ConsiderResume, Digest

LEMMA EndClosed ==
    ASSUME NEW d \in Digest
    PROVE  AtEnd(d) \in Digest
BY DEF AtEnd, Remember, WatchAdd, Digest

\* A cut id is still something a table can hold.
LEMMA CutIsId ==
    ASSUME NEW c
    PROVE  Cut(c) \subseteq Id
BY DEF Cut, Id

LEMMA CutListIsId ==
    ASSUME NEW ids, ids \subseteq Id, NEW n, NEW s \in CutLists(ids, n)
    PROVE  s \subseteq Id
BY CutIsId DEF CutLists

LEMMA ReadableIsId ==
    ASSUME NEW ids, ids \subseteq Id, NEW s \in ReadableIds(ids)
    PROVE  s \subseteq Id
BY CutListIsId DEF ReadableIds

LEMMA EmptyDigests == Absent \in Digest /\ Truncated \in Digest
BY DEF Absent, Truncated, Digest, None

\* The first of a nonempty set of paths is one of them.
LEMMA FirstOfPaths ==
    ASSUME NEW S, S \subseteq Path, S # {}, ConstantsAssumption
    PROVE  First(S) \in S
<1>1. S \subseteq Nat
  BY DEF Path, ConstantsAssumption
<1>. DEFINE Less == {ss \in Nat \X Nat : ss[1] < ss[2]}
<1>2. IsWellFoundedOn(Less, Nat)
  BY NatLessThanWellFounded DEF OpToRel
<1>. HIDE DEF Less
<1>3. PICK p \in S : \A q \in S : ~(<<q, p>> \in Less)
  BY <1>1, <1>2, WFMin
<1>4. \A a, b \in Nat : a < b => <<a, b>> \in Less
  BY DEF Less
<1>5. \A q \in S : p <= q
  <2>. TAKE q \in S
  <2>1. q \in Nat /\ p \in Nat
    BY <1>1
  <2>2. ~(q < p)
    BY <1>3, <1>4, <2>1
  <2>. QED
    BY <2>1, <2>2
<1>. QED
  BY <1>3, <1>5 DEF First

LEMMA PreviousIsDigest ==
    ASSUME TypeOK
    PROVE  Previous \in Digest
<1>1. CASE Readable = {}
  BY <1>1, EmptyDigests DEF Previous
<1>2. CASE Readable # {}
  <2>1. media.read \subseteq Path
    BY ConstantsAssumption DEF TypeOK, ConstantsAssumption
  <2>2. Readable \subseteq Path
    BY <2>1 DEF Readable
  <2>3. First(Readable) \in Path
    BY <1>2, <2>2, FirstOfPaths, ConstantsAssumption
  <2>. QED
    BY <1>2, <2>3 DEF Previous, TypeOK
<1>. QED
  BY <1>1, <1>2

\* The history stays a history.
LEMMA Counting ==
    ASSUME NEW f \in [Builds -> [Check -> 0..StrikeCap]], NEW b \in Builds, NEW c \in Check
    PROVE  [f EXCEPT ![b][c] = IF @ < StrikeCap THEN @ + 1 ELSE @]
              \in [Builds -> [Check -> 0..StrikeCap]]
<1>1. (IF f[b][c] < StrikeCap THEN f[b][c] + 1 ELSE f[b][c]) \in 0..StrikeCap
  BY DEF StrikeCap
<1>. QED
  BY <1>1

LEMMA LastWordKeepsType ==
    ASSUME TypeOK, NEW d, LastWord(d)
    PROVE  sightings' \in [Builds -> [Check -> 0..StrikeCap]]
<1>1. CASE d.pending \in Check
  <2>1. sightings' = [sightings EXCEPT ![build][d.pending] =
                         IF @ < StrikeCap THEN @ + 1 ELSE @]
    BY <1>1 DEF LastWord
  <2>2. sightings \in [Builds -> [Check -> 0..StrikeCap]] /\ build \in Builds
    BY DEF TypeOK
  <2>. QED
    BY <1>1, <2>1, <2>2, Counting
<1>2. CASE d.pending \notin Check
  BY <1>2 DEF LastWord, TypeOK
<1>. QED
  BY <1>1, <1>2

\* Whatever becomes of one record, the files stay digests.
LEMMA WriteKeepsTypes ==
    ASSUME TypeOK, NEW whole, NEW torn, Write(whole, torn),
           sink # None => whole \in Digest /\ torn \subseteq Digest
    PROVE  /\ report' \in [Path -> Digest]
           /\ sink' \in Path \cup {None}
           /\ sightings' \in [Builds -> [Check -> 0..StrikeCap]]
<1>1. CASE sink = None
  BY <1>1 DEF Write, TypeOK
<1>2. CASE sink # None
  <2>1. CASE report' = [report EXCEPT ![sink] = whole] /\ UNCHANGED <<sink, sightings>>
    BY <1>2, <2>1 DEF TypeOK
  <2>2. CASE /\ \E d \in torn \cup {whole, report[sink]} :
                   report' = [report EXCEPT ![sink] = d] /\ LastWord(d)
             /\ sink' = None
    <3>1. PICK d \in torn \cup {whole, report[sink]} :
             report' = [report EXCEPT ![sink] = d] /\ LastWord(d)
      BY <2>2
    <3>2. d \in Digest
      BY <1>2 DEF TypeOK
    <3>. QED
      BY <1>2, <2>2, <3>1, <3>2, LastWordKeepsType DEF TypeOK
  <2>. QED
    BY <1>2, <2>1, <2>2 DEF Write
<1>. QED
  BY <1>1, <1>2

\* What the header of a build says is in range.
LEMMA CountsOfBuild ==
    ASSUME TypeOK
    PROVE  build.id \in Nat /\ build.checks \in Nat /\ build.checks \in Check
BY ConstantsAssumption DEF TypeOK, ConstantsAssumption, Check

\* The loop stands at a check of its build.
LEMMA NextIsCheck ==
    ASSUME TypeOK, AtCheck
    PROVE  next \in Check
<1>1. build.checks \in Nat /\ build.checks <= NChecks
  BY CountsOfBuild, ConstantsAssumption DEF Check, ConstantsAssumption
<1>2. next \in Nat /\ 1 <= next /\ next <= build.checks
  BY ConstantsAssumption DEF TypeOK, AtCheck, ConstantsAssumption
<1>. QED
  BY <1>1, <1>2, ConstantsAssumption DEF Check, ConstantsAssumption

\* TypeOK alone is not inductive: an answer is recorded under `next`, which has to
\* be a check and not the end of the loop.
TypeInv ==
    /\ TypeOK
    /\ phase = "attempt" => next \in Check

LEMMA DownKeepsTypes ==
    ASSUME TypeInv, Down, kills' \in 0..MaxKills
    PROVE  TypeInv'
<1>1. strikes' \in [Builds -> [Check -> 0..StrikeCap]]
  BY Counting DEF Down, TypeInv, TypeOK
<1>2. sightings' \in [Builds -> [Check -> 0..StrikeCap]]
  <2>1. CASE sink # None
    BY <2>1, LastWordKeepsType DEF Down, TypeInv
  <2>2. CASE sink = None
    BY <2>2 DEF Down, TypeInv, TypeOK
  <2>. QED
    BY <2>1, <2>2
<1>. QED
  BY <1>1, <1>2 DEF Down, TypeInv, TypeOK, env, table

THEOREM TypesInductive == Spec => []TypeInv
<1>1. Init => TypeInv
  <2>. SUFFICES ASSUME Init PROVE TypeInv
    OBVIOUS
  <2>1. report \in [Path -> Digest]
    BY EmptyDigests DEF Init
  <2>2. /\ strikes \in [Builds -> [Check -> 0..StrikeCap]]
        /\ sightings \in [Builds -> [Check -> 0..StrikeCap]]
    BY DEF Init, StrikeCap
  <2>3. next \in 1..(NChecks + 1) /\ kills \in 0..MaxKills
    BY ConstantsAssumption DEF Init, ConstantsAssumption
  <2>. QED
    BY <2>1, <2>2, <2>3 DEF Init, TypeInv, TypeOK
<1>2. TypeInv /\ [Next]_vars => TypeInv'
  <2>. SUFFICES ASSUME TypeInv, [Next]_vars
                PROVE  TypeInv'
    OBVIOUS
  <2>t. TypeOK
    BY DEF TypeInv
  <2>d. sink # None => report[sink] \in Digest
    BY <2>t DEF TypeOK
  <2>n. /\ AtCheck => next \in Check
        /\ \A c \in Check : c + 1 \in 1..(NChecks + 1)
        /\ 1 \in 1..(NChecks + 1)
    <3>1. AtCheck => next \in Check
      BY <2>t, NextIsCheck
    <3>. QED
      BY <3>1, ConstantsAssumption DEF Check, ConstantsAssumption
  <2>1. CASE Boot
    BY <2>1, <2>n DEF Boot, TypeInv, TypeOK, hist, None
  <2>2. CASE ResumeLoad
    <3>1. Previous \in Digest
      BY <2>t, PreviousIsDigest
    <3>2. AtEnd(Previous) \in Digest
      BY <3>1, EndClosed
    <3>. QED
      BY <2>2, <3>2 DEF ResumeLoad, TypeInv, TypeOK, file, env, hist, Digest
  <2>3. CASE SinkOpen
    <3>1. media.write \subseteq Path
      BY ConstantsAssumption DEF TypeInv, TypeOK, ConstantsAssumption
    <3>2. CASE tried \/ media.write = {}
      BY <2>3, <3>2 DEF SinkOpen, TypeInv, TypeOK, file, table, hist
    <3>3. CASE ~(tried \/ media.write = {})
      <4>1. First(media.write) \in Path
        BY <3>1, <3>3, FirstOfPaths, ConstantsAssumption
      <4>. QED
        BY <2>3, <3>3, <4>1, EmptyDigests DEF SinkOpen, TypeInv, TypeOK, file, table, hist
    <3>. QED
      BY <3>2, <3>3
  <2>4. CASE ReportMeta
    <3>1. sink # None => ConsiderMeta(report[sink], build.checks) \in Digest
      BY <2>d, <2>t, CountsOfBuild, HeaderClosed
    <3>. QED
      BY <2>4, <3>1, WriteKeepsTypes DEF ReportMeta, TypeInv, TypeOK, env, table
  <2>5. CASE ReportBuild
    <3>1. sink # None => ConsiderBuild(report[sink], build.id) \in Digest
      BY <2>d, <2>t, CountsOfBuild, HeaderClosed
    <3>. QED
      BY <2>5, <3>1, WriteKeepsTypes DEF ReportBuild, TypeInv, TypeOK, env, table
  <2>6. CASE ReportResume
    <3>1. PICK ids \in ReadableIds(watch) :
             Write(ConsiderResume(report[sink], ids),
                   {ConsiderResume(report[sink], s) : s \in UNION {CutLists(watch, n) : n \in 0..LineIds}})
      BY <2>6 DEF ReportResume
    <3>2. ids \subseteq Id
      BY <2>t, <3>1, ReadableIsId DEF TypeOK
    <3>3. sink # None =>
             /\ ConsiderResume(report[sink], ids) \in Digest
             /\ {ConsiderResume(report[sink], s) : s \in UNION {CutLists(watch, n) : n \in 0..LineIds}} \subseteq Digest
      <4>1. \A n \in 0..LineIds : \A s \in CutLists(watch, n) : s \subseteq Id
        BY <2>t, CutListIsId DEF TypeOK
      <4>. QED
        BY <2>d, <3>2, <4>1, ResumeClosed
    <3>. QED
      BY <2>6, <3>1, <3>3, WriteKeepsTypes, ConstantsAssumption
         DEF ReportResume, TypeInv, TypeOK, env, table, ConstantsAssumption
  <2>7. CASE SkipLearned
    <3>1. next \in Check /\ next + 1 \in 1..(NChecks + 1)
      BY <2>7, <2>n DEF SkipLearned
    <3>2. sink # None => /\ ConsiderRes(report[sink], next, TRUE) \in Digest
                         /\ {ConsiderRes(report[sink], s, FALSE) : s \in Cut(next) \cup {next}} \subseteq Digest
      BY <3>1, CheckClosed, CutIsId, <2>d DEF Id
    <3>. QED
      BY <2>7, <2>t, <3>1, <3>2, WriteKeepsTypes
         DEF SkipLearned, AtCheck, ReportResult, TypeInv, TypeOK, env, table
  <2>8. CASE Decline
    <3>1. next \in Check /\ next + 1 \in 1..(NChecks + 1)
      BY <2>8, <2>n DEF Decline
    <3>2. sink # None => /\ ConsiderRes(report[sink], next, FALSE) \in Digest
                         /\ {ConsiderRes(report[sink], s, FALSE) : s \in Cut(next) \cup {next}} \subseteq Digest
      BY <3>1, CheckClosed, CutIsId, <2>d DEF Id
    <3>. QED
      BY <2>8, <2>t, <3>1, <3>2, WriteKeepsTypes
         DEF Decline, AtCheck, ReportResult, TypeInv, TypeOK, env, table
  <2>9. CASE Attempt
    <3>1. next \in Check
      BY <2>9, <2>n DEF Attempt
    <3>2. sink # None => /\ ConsiderTry(report[sink], next) \in Digest
                         /\ {ConsiderTry(report[sink], s) : s \in Cut(next)} \subseteq Digest
      BY <3>1, CheckClosed, CutIsId, <2>d DEF Id
    <3>. QED
      BY <2>9, <2>t, <3>1, <3>2, WriteKeepsTypes DEF Attempt, TypeInv, TypeOK, env, table
  <2>10. CASE Answer
    <3>1. next \in Check /\ next + 1 \in 1..(NChecks + 1)
      BY <2>10, ConstantsAssumption DEF Answer, TypeInv, Check, ConstantsAssumption
    <3>2. sink # None => /\ ConsiderRes(report[sink], next, TRUE) \in Digest
                         /\ ConsiderRes(report[sink], next, FALSE) \in Digest
                         /\ {ConsiderRes(report[sink], s, FALSE) : s \in Cut(next) \cup {next}} \subseteq Digest
      BY <3>1, CheckClosed, CutIsId, <2>d DEF Id
    <3>3. /\ report' \in [Path -> Digest]
          /\ sink' \in Path \cup {None}
          /\ sightings' \in [Builds -> [Check -> 0..StrikeCap]]
      BY <2>10, <3>2, WriteKeepsTypes DEF Answer, ReportResult, TypeInv
    <3>4. strikes' \in [Builds -> [Check -> 0..StrikeCap]]
      BY <2>10 DEF Answer, TypeInv, TypeOK, StrikeCap
    <3>. QED
      BY <2>10, <3>1, <3>3, <3>4 DEF Answer, TypeInv, TypeOK, env, table
  <2>11. CASE Finish
    BY <2>11 DEF Finish, TypeInv, TypeOK, env, table, hist
  <2>12. CASE StopInCheck
    BY <2>12, DownKeepsTypes DEF StopInCheck, TypeInv, TypeOK
  <2>13. CASE Kill
    BY <2>13, DownKeepsTypes, ConstantsAssumption DEF Kill, TypeInv, TypeOK, ConstantsAssumption
  <2>14. CASE Exit
    BY <2>14, DownKeepsTypes DEF Exit, TypeInv, TypeOK
  <2>15. CASE RunAgain
    BY <2>15, ConstantsAssumption DEF RunAgain, TypeInv, TypeOK, file, env, table, hist, ConstantsAssumption
  <2>16. CASE UNCHANGED vars
    BY <2>16 DEF vars, TypeInv, TypeOK
  <2>. QED
    BY <2>1, <2>2, <2>3, <2>4, <2>5, <2>6, <2>7, <2>8, <2>9, <2>10, <2>11, <2>12,
       <2>13, <2>14, <2>15, <2>16 DEF Next, Run
<1>. QED
  BY <1>1, <1>2, PTL DEF Spec

\* Every variable stays in its type, whatever the constants, the checks and the
\* disks do: no table, file or counter of the probe leaves its range.
THEOREM TypeCorrect == Spec => []TypeOK
BY TypesInductive, PTL DEF TypeInv

-----------------------------------------------------------------------------
(* Two strikes. *)

\* The premises of TwoStrikes, with the one file named.
Steady(p) ==
    /\ NothingQuotes /\ BuildsDistinct /\ IdsCutClean
    /\ "write" \notin Faults
    /\ \A m \in Media : m.read = {p} /\ m.write = {p}

\* Under the premises a record is written whole or not at all.
LEMMA SteadyWrite ==
    ASSUME NEW p \in Path, Steady(p), TypeOK, sink \in {None, p},
           NEW whole, NEW torn, Write(whole, torn)
    PROVE  /\ sink' = sink
           /\ sink = None => report'[p] = report[p]
           /\ sink = p    => report'[p] = whole
<1>1. p # None
  BY DEF Path, None
<1>2. CASE sink = None
  BY <1>1, <1>2 DEF Write, Steady
<1>3. CASE sink = p
  BY <1>1, <1>3 DEF Write, Steady, TypeOK
<1>. QED
  BY <1>2, <1>3

\* What the end of the file adds: the announced check, to one table or the other.
LEMMA EndFields ==
    ASSUME NEW d \in Digest
    PROVE  /\ AtEnd(d).watch \subseteq d.watch \cup {d.pending}
           /\ AtEnd(d).skip \subseteq d.skip \cup {d.pending}
           /\ d.pending \notin d.watch => AtEnd(d).skip = d.skip
           /\ d.pending = None => AtEnd(d) = d
BY DEF AtEnd, Remember, WatchAdd, Digest

\* Two builds that believe the same file are one.
LEMMA OneBuildBelieves ==
    ASSUME BuildsDistinct, NEW d, NEW a \in Builds, NEW b \in Builds,
           Matches(d, a), Matches(d, b)
    PROVE  a = b
BY DEF BuildsDistinct, Matches

\* An unanswered attempt is a strike, and strikes are only counted up by it.
LEMMA Strike ==
    ASSUME TypeInv, Down
    PROVE  /\ \A b \in Builds, c \in Check :
                 /\ strikes[b][c] >= 1 => strikes'[b][c] >= 1
                 /\ strikes[b][c] >= 2 => strikes'[b][c] >= 2
           /\ phase = "attempt" =>
                 /\ strikes'[build][next] >= 1
                 /\ strikes[build][next] >= 1 => strikes'[build][next] >= 2
<1>1. strikes \in [Builds -> [Check -> 0..2]] /\ build \in Builds
  BY DEF TypeInv, TypeOK, StrikeCap
<1>2. CASE phase = "attempt"
  <2>1. next \in Check
    BY <1>2 DEF TypeInv
  <2>2. strikes' = [strikes EXCEPT ![build][next] = IF @ < 2 THEN @ + 1 ELSE @]
    BY <1>2 DEF Down, StrikeCap
  <2>. QED
    BY <1>1, <2>1, <2>2
<1>3. CASE phase # "attempt"
  BY <1>3 DEF Down
<1>. QED
  BY <1>2, <1>3

\* What holds of the files and tables is still so when the process has ended.
LEMMA DownKeepsIInv ==
    ASSUME NEW p \in Path, Steady(p), TypeInv, IInv(p), Down
    PROVE  IInv(p)'
<1>. USE DEF IInv
<1>1. FileTold(p)'
  <2>. SUFFICES ASSUME NEW b \in Builds, Matches(report[p], b)
                PROVE  (Told(report[p], b) /\ LastTold(report[p], b))'
    BY DEF FileTold, Down, Matches
  <2>1. Told(report[p], b) /\ Told(report[p], b)'
    BY Strike DEF FileTold, Told, Down
  <2>2. CASE sink = p /\ phase = "attempt"
    <3>1. report[p].pending = next /\ Matches(report[p], build)
      BY <2>2 DEF Writing, InLoop, Matches
    <3>2. b = build
      BY <3>1, OneBuildBelieves DEF Steady, TypeInv, TypeOK
    <3>. QED
      BY <2>1, <2>2, <3>1, <3>2, Strike DEF LastTold, Told, Down
  <2>3. CASE ~(sink = p /\ phase = "attempt")
    BY <2>1, <2>3, Strike DEF FileTold, LastTold, Down
  <2>. QED
    BY <2>1, <2>2, <2>3
<1>2. TableTold'
  BY Strike DEF TableTold, Down, env, table, TypeInv, TypeOK
<1>. QED
  BY <1>1, <1>2 DEF Down, Writing, Written, Opened, Attempting, None, Path

LEMMA FirstOfOne ==
    ASSUME NEW p \in Path
    PROVE  First({p}) = p
BY FirstOfPaths, ConstantsAssumption

\* A run loads what its predecessor left, and what it left is so.
LEMMA LoadKeepsIInv ==
    ASSUME NEW p \in Path, Steady(p), TypeInv, IInv(p), ResumeLoad
    PROVE  IInv(p)'
<1>. USE DEF IInv
<1>1. /\ UNCHANGED <<report, sink, tried, build, strikes>>
      /\ phase = "load" /\ phase' = "open" /\ sink = None
  BY DEF ResumeLoad, file, env, hist, Opened
<1>2. CASE ~Matches(Previous, build)
  <2>1. skip' = {} /\ watch' = {}
    BY <1>2 DEF ResumeLoad
  <2>2. ~(tried /\ report[p].here /\ Matches(report[p], build))
    <3>1. SUFFICES ASSUME report[p].here PROVE Previous = report[p]
      BY <1>2
    <3>2. Readable = {p}
      BY <3>1 DEF Readable, Steady, TypeInv, TypeOK
    <3>. QED
      BY <3>2, FirstOfOne DEF Previous
  <2>. QED
    BY <1>1, <2>1, <2>2
       DEF FileTold, Told, LastTold, TableTold, Writing, Written, Opened, Attempting, Matches
<1>3. CASE Matches(Previous, build)
  <2>1. Previous = report[p] /\ report[p] \in Digest
    <3>1. Previous # Absent
      BY <1>3, ConstantsAssumption DEF Matches, Absent, None, TypeInv, TypeOK, ConstantsAssumption
    <3>2. Readable = {p}
      BY <3>1 DEF Previous, Readable, Steady, TypeInv, TypeOK
    <3>. QED
      BY <3>2, FirstOfOne DEF Previous, TypeInv, TypeOK
  <2>2. skip' = AtEnd(report[p]).skip /\ watch' = AtEnd(report[p]).watch
    BY <1>3, <2>1 DEF ResumeLoad
  <2>3. Told(report[p], build) /\ LastTold(report[p], build)
    BY <1>1, <1>3, <2>1 DEF FileTold, TypeInv, TypeOK, None, Path
  <2>4. \A c \in Check : c \in skip' => strikes[build][c] >= 2
    BY <2>1, <2>2, <2>3, EndFields DEF Told, LastTold
  <2>5. \A c \in Check : c \in watch' => strikes[build][c] >= 1
    BY <2>1, <2>2, <2>3, EndFields DEF Told, LastTold
  <2>6. report[p].pending = None => skip' = report[p].skip
    BY <2>1, <2>2, EndFields
  <2>. QED
    BY <1>1, <2>4, <2>5, <2>6
       DEF FileTold, Told, LastTold, TableTold, Writing, Written, Opened, Attempting, Matches
<1>. QED
  BY <1>2, <1>3

\* The file is truncated before anything is written to it.
LEMMA OpenKeepsIInv ==
    ASSUME NEW p \in Path, Steady(p), TypeInv, IInv(p), SinkOpen
    PROVE  IInv(p)'
<1>. USE DEF IInv
<1>1. /\ phase = "open" /\ phase' = "meta" /\ tried' = TRUE /\ sink = None
      /\ UNCHANGED <<build, next, skip, watch, strikes>>
  BY DEF SinkOpen, table, hist, Opened
<1>2. media.write = {p} /\ First(media.write) = p
  BY FirstOfOne DEF Steady, TypeInv, TypeOK
<1>3. CASE tried
  BY <1>1, <1>3
     DEF SinkOpen, file, FileTold, Told, LastTold, TableTold, Writing, Written, Opened,
         Attempting, Matches, None, Path
<1>4. CASE ~tried
  <2>1. sink' = p /\ report'[p] = Truncated /\ p # None
    <3>1. sink' = p /\ report' = [report EXCEPT ![p] = Truncated]
      BY <1>2, <1>4 DEF SinkOpen
    <3>. QED
      BY <3>1 DEF TypeInv, TypeOK, None, Path
  <2>2. \A b \in Builds : ~Matches(report'[p], b)
    BY <2>1, ConstantsAssumption DEF Matches, Truncated, Absent, None, ConstantsAssumption
  <2>. QED
    BY <1>1, <2>1, <2>2
       DEF FileTold, TableTold, Writing, Written, Opened, Attempting, Truncated, Absent,
           Matches, InLoop
<1>. QED
  BY <1>3, <1>4

\* The header: only after its second record does any build believe the file, and
\* then only the one that is writing.
LEMMA HeaderKeepsIInv ==
    ASSUME NEW p \in Path, Steady(p), TypeInv, IInv(p), ReportMeta \/ ReportBuild
    PROVE  IInv(p)'
<1>. USE DEF IInv
<1>1. report[p] \in Digest /\ TypeOK
  BY DEF TypeInv, TypeOK
<1>2. CASE ReportMeta
  <2>1. /\ sink' = sink
        /\ sink = None => report'[p] = report[p]
        /\ sink = p    => report'[p] = ConsiderMeta(report[p], build.checks)
    BY <1>1, <1>2, SteadyWrite DEF ReportMeta
  <2>2. CASE sink = p
    <3>1. report'[p] = [report[p] EXCEPT !.checks = build.checks]
      BY <2>1, <2>2 DEF ConsiderMeta
    <3>. QED
      BY <1>1, <1>2, <2>1, <2>2, <3>1, ConstantsAssumption
         DEF ReportMeta, env, table, FileTold, TableTold, Writing, Written, Opened, Attempting,
             Matches, InLoop, Digest, None, Path, ConstantsAssumption
  <2>3. CASE sink = None
    BY <1>2, <2>1, <2>3
       DEF ReportMeta, env, table, FileTold, Told, LastTold, TableTold, Writing, Written,
           Opened, Attempting, Matches, None, Path
  <2>. QED
    BY <2>2, <2>3
<1>3. CASE ReportBuild
  <2>1. /\ sink' = sink
        /\ sink = None => report'[p] = report[p]
        /\ sink = p    => report'[p] = ConsiderBuild(report[p], build.id)
    BY <1>1, <1>3, SteadyWrite DEF ReportBuild
  <2>2. CASE sink = p
    <3>1. report'[p] = [report[p] EXCEPT !.id = build.id]
      BY <2>1, <2>2 DEF ConsiderBuild
    <3>. QED
      BY <1>1, <1>3, <2>1, <2>2, <3>1
         DEF ReportBuild, env, table, FileTold, Told, LastTold, TableTold, Writing, Written,
             Opened, Attempting, Matches, InLoop, Digest, None, Path, Check
  <2>3. CASE sink = None
    BY <1>3, <2>1, <2>3
       DEF ReportBuild, env, table, FileTold, Told, LastTold, TableTold, Writing, Written,
           Opened, Attempting, Matches, None, Path
  <2>. QED
    BY <2>2, <2>3
<1>. QED
  BY <1>2, <1>3

\* The resume record puts what this run watches into its file.
LEMMA ResumeKeepsIInv ==
    ASSUME NEW p \in Path, Steady(p), TypeInv, IInv(p), ReportResume
    PROVE  IInv(p)'
<1>. USE DEF IInv
<1>1. report[p] \in Digest /\ TypeOK
  BY DEF TypeInv, TypeOK
<1>2. PICK ids \in ReadableIds(watch) :
         Write(ConsiderResume(report[sink], ids),
               {ConsiderResume(report[sink], s) : s \in UNION {CutLists(watch, n) : n \in 0..LineIds}})
  BY DEF ReportResume
<1>3. ids \cap Check \subseteq watch
  BY <1>2 DEF ReadableIds, CutLists, Cut, Steady, IdsCutClean, Stump, Check
<1>4. /\ sink' = sink
      /\ sink = None => report'[p] = report[p]
      /\ sink = p    => report'[p] = ConsiderResume(report[p], ids)
  BY <1>1, <1>2, SteadyWrite
<1>5. CASE sink = p
  <2>1. report'[p] = [report[p] EXCEPT !.watch = @ \cup ids]
    BY <1>4, <1>5 DEF ConsiderResume
  <2>2. Matches(report'[p], build)
    BY <1>1, <1>5, <2>1 DEF Writing, Matches, Digest, ReportResume
  <2>3. FileTold(p)'
    <3>. SUFFICES ASSUME NEW b \in Builds, Matches(report'[p], b)
                  PROVE  (Told(report[p], b) /\ LastTold(report[p], b))'
      BY DEF FileTold, ReportResume, env, Matches
    <3>1. b = build
      BY <2>2, OneBuildBelieves DEF Steady, TypeInv, TypeOK
    <3>. QED
      BY <1>1, <1>3, <1>5, <2>1, <3>1
         DEF Told, LastTold, TableTold, Writing, ReportResume, Digest, None, Check
  <2>. QED
    BY <1>1, <1>4, <1>5, <2>1, <2>2, <2>3
       DEF ReportResume, env, table, TableTold, Writing, Written, Opened, Attempting,
           Matches, InLoop, Digest, None, Path
<1>6. CASE sink = None
  BY <1>4, <1>6
     DEF ReportResume, env, table, FileTold, Told, LastTold, TableTold, Writing, Written,
         Opened, Attempting, Matches, None, Path
<1>. QED
  BY <1>5, <1>6

\* A skipped check is reported as a skip again; it was proven before.
LEMMA SkipKeepsIInv ==
    ASSUME NEW p \in Path, Steady(p), TypeInv, IInv(p), SkipLearned
    PROVE  IInv(p)'
<1>. USE DEF IInv
<1>1. report[p] \in Digest /\ TypeOK /\ next \in Check
  BY NextIsCheck DEF TypeInv, TypeOK, SkipLearned
<1>2. /\ sink' = sink
      /\ sink = None => report'[p] = report[p]
      /\ sink = p    => report'[p] = ConsiderRes(report[p], next, TRUE)
  BY <1>1, SteadyWrite DEF SkipLearned, ReportResult
<1>3. CASE sink = p
  <2>1. /\ report'[p].here /\ Matches(report[p], build) /\ Matches(report'[p], build)
        /\ report'[p].pending = None
        /\ report'[p].watch = report[p].watch \ {next}
        /\ report'[p].skip \subseteq report[p].skip \cup {next}
    <3>1. report[p].here /\ Matches(report[p], build)
      BY <1>3 DEF Writing, Matches, SkipLearned, AtCheck
    <3>2. LET d == [report[p] EXCEPT !.pending = None, !.watch = @ \ {next}]
          IN  report'[p] \in {d, [d EXCEPT !.full = TRUE], [d EXCEPT !.skip = @ \cup {next}]}
      BY <1>2, <1>3 DEF ConsiderRes, Remember
    <3>. QED
      BY <1>1, <3>1, <3>2 DEF Matches, Digest
  <2>2. FileTold(p)'
    <3>. SUFFICES ASSUME NEW b \in Builds, Matches(report'[p], b)
                  PROVE  (Told(report[p], b) /\ LastTold(report[p], b))'
      BY DEF FileTold, SkipLearned, env, Matches
    <3>1. b = build
      BY <2>1, OneBuildBelieves DEF Steady, TypeInv, TypeOK
    <3>. QED
      BY <1>1, <1>3, <2>1, <3>1
         DEF FileTold, Told, LastTold, TableTold, SkipLearned, None, Check
  <2>. QED
    BY <1>1, <1>2, <1>3, <2>1, <2>2
       DEF SkipLearned, AtCheck, env, table, TableTold, Writing, Written, Opened, Attempting,
           Matches, InLoop, None, Path, Check
<1>4. CASE sink = None
  BY <1>2, <1>4
     DEF SkipLearned, AtCheck, env, table, FileTold, Told, LastTold, TableTold, Writing,
         Written, Opened, Attempting, Matches, None, Path
<1>. QED
  BY <1>3, <1>4

\* A check that answers, or is declined, is no longer under watch; it was not one
\* the file taught to skip.
LEMMA ResultKeepsFile ==
    ASSUME NEW p \in Path, Steady(p), TypeInv, IInv(p), ReportResult(FALSE),
           next \in Check, InLoop
    PROVE  /\ sink' = sink
           /\ sink = None => report'[p] = report[p]
           /\ sink = p =>
                 /\ report'[p].here
                 /\ Matches(report[p], build)
                 /\ report'[p].id = report[p].id
                 /\ report'[p].checks = report[p].checks
                 /\ report'[p].pending = None
                 /\ report'[p].watch = report[p].watch \ {next}
                 /\ report'[p].skip = report[p].skip
<1>1. report[p] \in Digest /\ TypeOK /\ next \in Id /\ sink \in {None, p}
  BY DEF TypeInv, TypeOK, IInv, Id
<1>2. /\ sink' = sink
      /\ sink = None => report'[p] = report[p]
      /\ sink = p    => report'[p] = ConsiderRes(report[p], next, FALSE)
  BY <1>1, SteadyWrite DEF ReportResult
<1>3. sink = p => report[p].here /\ Matches(report[p], build)
  BY DEF IInv, Writing, Matches, InLoop
<1>4. sink = p => report'[p] = [report[p] EXCEPT !.pending = None, !.watch = @ \ {next}]
  BY <1>2 DEF ConsiderRes
<1>. QED
  <2>1. sink = p =>
           /\ report'[p].here = report[p].here
           /\ report'[p].id = report[p].id /\ report'[p].checks = report[p].checks
           /\ report'[p].pending = None
           /\ report'[p].watch = report[p].watch \ {next}
           /\ report'[p].skip = report[p].skip
    BY <1>1, <1>4 DEF Digest
  <2>. QED
    BY <1>2, <1>3, <2>1

LEMMA DeclineKeepsIInv ==
    ASSUME NEW p \in Path, Steady(p), TypeInv, IInv(p), Decline
    PROVE  IInv(p)'
<1>1. next \in Check /\ InLoop /\ phase = "loop"
  BY NextIsCheck DEF TypeInv, Decline, AtCheck, InLoop
<1>2. ReportResult(FALSE) /\ next' = next + 1 /\ UNCHANGED <<env, phase, table, kills, strikes>>
  BY DEF Decline
<1>w. /\ sink' = sink
      /\ sink = None => report'[p] = report[p]
      /\ sink = p =>
            /\ report'[p].here
            /\ Matches(report[p], build)
            /\ report'[p].id = report[p].id
            /\ report'[p].checks = report[p].checks
            /\ report'[p].pending = None
            /\ report'[p].watch = report[p].watch \ {next}
            /\ report'[p].skip = report[p].skip
  BY <1>1, <1>2, ResultKeepsFile
<1>. USE DEF IInv
<1>3. CASE sink = p
  <2>1. FileTold(p)'
    <3>. SUFFICES ASSUME NEW b \in Builds, Matches(report'[p], b)
                  PROVE  (Told(report[p], b) /\ LastTold(report[p], b))'
      BY <1>2 DEF FileTold, env, Matches
    <3>. QED
      BY <1>1, <1>2, <1>3, <1>w
         DEF FileTold, Told, LastTold, Matches, None, Check
  <2>. QED
    BY <1>1, <1>2, <1>3, <2>1, <1>w
       DEF env, table, TableTold, Writing, Written, Opened, Attempting,
           Matches, InLoop, None, Path, Check
<1>4. CASE sink = None
  BY <1>1, <1>2, <1>4, <1>w
     DEF env, table, FileTold, Told, LastTold, TableTold, Writing,
         Written, Opened, Attempting, Matches, None, Path
<1>. QED
  BY <1>3, <1>4

LEMMA AnswerKeepsIInv ==
    ASSUME NEW p \in Path, Steady(p), TypeInv, IInv(p), Answer
    PROVE  IInv(p)'
<1>1. next \in Check /\ InLoop /\ next \in 1..build.checks /\ next \notin skip
  BY DEF IInv, TypeInv, Answer, Attempting, InLoop
<1>2. /\ ReportResult(FALSE) /\ next' = next + 1 /\ phase' = "loop" /\ phase = "attempt"
      /\ UNCHANGED <<tried, build, skip, watch>>
  BY <1>1 DEF Answer, env, table, Steady, NothingQuotes, TypeInv, TypeOK
<1>w. /\ sink' = sink
      /\ sink = None => report'[p] = report[p]
      /\ sink = p =>
            /\ report'[p].here
            /\ Matches(report[p], build)
            /\ report'[p].id = report[p].id
            /\ report'[p].checks = report[p].checks
            /\ report'[p].pending = None
            /\ report'[p].watch = report[p].watch \ {next}
            /\ report'[p].skip = report[p].skip
  BY <1>1, <1>2, ResultKeepsFile
<1>. USE DEF IInv
<1>3. /\ strikes'[build][next] = 0
      /\ \A b \in Builds, c \in Check :
            b # build \/ c # next => strikes'[b][c] = strikes[b][c]
  <2>1. strikes' = [strikes EXCEPT ![build][next] = 0]
    BY DEF Answer
  <2>. QED
    BY <1>1, <2>1 DEF TypeInv, TypeOK
<1>4. next \notin report[p].skip
  BY <1>1, <1>2 DEF Writing, Written, InLoop, Opened
<1>5. CASE sink = p
  <2>1. FileTold(p)'
    <3>. SUFFICES ASSUME NEW b \in Builds, Matches(report'[p], b)
                  PROVE  (Told(report[p], b) /\ LastTold(report[p], b))'
      BY <1>2 DEF FileTold, Matches
    <3>. QED
      BY <1>1, <1>2, <1>3, <1>4, <1>5, <1>w
         DEF FileTold, Told, LastTold, Matches, None, Check
  <2>2. TableTold'
    BY <1>1, <1>2, <1>3 DEF TableTold, TypeInv, TypeOK
  <2>. QED
    BY <1>1, <1>2, <1>5, <2>1, <2>2, <1>w
       DEF Writing, Written, Opened, Attempting, Matches, InLoop, None, Path, Check
<1>6. CASE sink = None
  <2>1. /\ report'[p] = report[p] /\ sink' = None
        /\ Matches(report[p], build) /\ report[p].pending = None
        /\ next \notin report[p].watch
    BY <1>1, <1>2, <1>6, <1>w DEF Written, Opened
  <2>2. FileTold(p)'
    <3>. SUFFICES ASSUME NEW b \in Builds, Matches(report[p], b)
                  PROVE  (Told(report[p], b) /\ LastTold(report[p], b))'
      BY <1>2, <2>1 DEF FileTold, Matches
    <3>. QED
      BY <1>1, <1>2, <1>3, <1>4, <1>6, <2>1
         DEF FileTold, Told, LastTold, None, Check, Path
  <2>3. TableTold'
    BY <1>1, <1>2, <1>3 DEF TableTold, TypeInv, TypeOK
  <2>. QED
    BY <1>2, <1>6, <2>1, <2>2, <2>3
       DEF Writing, Written, Opened, Attempting, Matches, None, Path
<1>. QED
  BY <1>5, <1>6

\* Announce before attempting: the announcement is the file's last word from here on.
LEMMA AttemptKeepsIInv ==
    ASSUME NEW p \in Path, Steady(p), TypeInv, IInv(p), Attempt
    PROVE  IInv(p)'
<1>. USE DEF IInv
<1>1. report[p] \in Digest /\ TypeOK /\ next \in Check /\ next \in 1..build.checks
  BY NextIsCheck, CountsOfBuild DEF TypeInv, TypeOK, Attempt, AtCheck, Check
<1>2. /\ sink' = sink
      /\ sink = None => report'[p] = report[p]
      /\ sink = p    => report'[p] = ConsiderTry(report[p], next)
  BY <1>1, SteadyWrite DEF Attempt
<1>3. CASE sink = p
  <2>1. report'[p] = [report[p] EXCEPT !.pending = next]
    BY <1>2, <1>3 DEF ConsiderTry
  <2>. QED
    BY <1>1, <1>2, <1>3, <2>1
       DEF Attempt, AtCheck, env, table, FileTold, Told, LastTold, TableTold, Writing,
           Written, Opened, Attempting, Matches, InLoop, Digest, None, Path
<1>4. CASE sink = None
  BY <1>1, <1>2, <1>4
     DEF Attempt, AtCheck, env, table, FileTold, Told, LastTold, TableTold, Writing,
         Written, Opened, Attempting, Matches, None, Path
<1>. QED
  BY <1>3, <1>4

\* The end of the loop closes the file.
LEMMA FinishKeepsIInv ==
    ASSUME NEW p \in Path, Steady(p), TypeInv, IInv(p), Finish
    PROVE  IInv(p)'
<1>1. build.checks \in Nat /\ next \in Nat
  BY CountsOfBuild, ConstantsAssumption DEF TypeInv, TypeOK, ConstantsAssumption
<1>2. \A c \in 1..build.checks : c \in 1..(next - 1)
  BY <1>1 DEF Finish
<1>. QED
  BY <1>2 DEF Finish, env, table, hist, IInv, FileTold, Told, LastTold, TableTold, Writing,
      Written, Opened, Attempting, Matches, InLoop, None, Path

LEMMA IInvInductive ==
    ASSUME NEW p \in Path, Steady(p)
    PROVE  Spec => []IInv(p)
<1>1. Init => IInv(p)
  BY ConstantsAssumption
     DEF Init, IInv, FileTold, Told, LastTold, TableTold, Writing, Written, Opened,
         Attempting, Matches, Absent, None, Path, Check, ConstantsAssumption
<1>2. TypeInv /\ IInv(p) /\ [Next]_vars => IInv(p)'
  <2>. SUFFICES ASSUME TypeInv, IInv(p), [Next]_vars
                PROVE  IInv(p)'
    OBVIOUS
  <2>1. CASE Boot
    BY <2>1 DEF Boot, hist, IInv, FileTold, Told, LastTold, TableTold, Writing, Written,
        Opened, Attempting, Matches, None, Path
  <2>2. CASE RunAgain
    BY <2>2 DEF RunAgain, file, env, table, hist, IInv, FileTold, Told, LastTold, TableTold,
        Writing, Written, Opened, Attempting, Matches, None, Path
  <2>3. CASE Run
    BY <2>3, LoadKeepsIInv, OpenKeepsIInv, HeaderKeepsIInv, ResumeKeepsIInv, SkipKeepsIInv,
       DeclineKeepsIInv, AttemptKeepsIInv, AnswerKeepsIInv, FinishKeepsIInv DEF Run
  <2>4. CASE StopInCheck \/ Kill \/ Exit
    BY <2>4, DownKeepsIInv DEF StopInCheck, Kill, Exit
  <2>5. CASE UNCHANGED vars
    BY <2>5 DEF vars, IInv, FileTold, Told, LastTold, TableTold, Writing, Written, Opened,
        Attempting, Matches, InLoop
  <2>. QED
    BY <2>1, <2>2, <2>3, <2>4, <2>5 DEF Next
<1>. QED
  BY <1>1, <1>2, TypesInductive, PTL DEF Spec

\* Where every run finds the file the last one wrote, builds are told apart and no
\* check quotes the loader's own words, a check is skipped only after two attempts
\* in a row that did not return (D172), however the runs are interrupted.
THEOREM TwoStrikesHold == Spec => []TwoStrikes
<1>1. CASE Premises
  <2>1. PICK p \in Path : Steady(p)
    BY <1>1 DEF Premises, OneSteadyFile, Steady
  <2>2. Spec => []IInv(p)
    BY <2>1, IInvInductive
  <2>3. TypeInv /\ IInv(p) => TwoStrikes
    BY DEF TypeInv, IInv, TableTold, TwoStrikes
  <2>. QED
    BY <2>2, <2>3, TypesInductive, PTL
<1>2. CASE ~Premises
  <2>1. TwoStrikes
    BY <1>2 DEF TwoStrikes
  <2>. QED
    BY <2>1, PTL
<1>. QED
  BY <1>1, <1>2

-----------------------------------------------------------------------------
(* The runs implement the two-strike rule. *)

LearnerStrikes == [s \in Builds \X Check |-> strikes[s[1]][s[2]]]
LearnerAvoid   == IF Running THEN {build} \X (skip \cap Check) ELSE {}

LEMMA Subject ==
    ASSUME NEW s \in Builds \X Check, NEW b, NEW c
    PROVE  s[1] \in Builds /\ s[2] \in Check /\ (s = <<b, c>> <=> (s[1] = b /\ s[2] = c))
OBVIOUS

\* The report on disk, its loader and its writer are an implementation of the rule
\* that knows of none of them: a run starts by avoiding some of the checks proven to
\* hang, attempts none of those, and every interruption is one strike of one check.
THEOREM ImplementsTwoStrikes ==
    ASSUME Premises
    PROVE  Spec => LearnsByTwoStrikes
<1>. PICK p \in Path : Steady(p)
  BY DEF Premises, OneSteadyFile, Steady
<1>. USE DEF LearnerStrikes, LearnerAvoid
<1>1. Init => Learner!Init
  BY DEF Init, Learner!Init, Running
<1>2. TypeInv /\ TypeInv' /\ IInv(p) /\ IInv(p)' /\ [Next]_vars => [Learner!Next]_(Learner!vars)
  <2>. SUFFICES ASSUME TypeInv, TypeInv', IInv(p), IInv(p)', [Next]_vars
                PROVE  [Learner!Next]_(Learner!vars)
    OBVIOUS
  <2>1. CASE ResumeLoad
    <3>1. ~Running /\ Running' /\ UNCHANGED <<strikes, build>>
      BY <2>1 DEF ResumeLoad, Running, hist, env
    <3>2. \A c \in skip' \cap Check : strikes[build][c] = 2
      BY <3>1 DEF IInv, TableTold, TypeInv, TypeOK, StrikeCap
    <3>3. LearnerAvoid' \in SUBSET Learner!Proven
      BY <3>1, <3>2 DEF Learner!Proven, TypeInv, TypeOK
    <3>4. Learner!Start
      BY <3>1, <3>3 DEF Learner!Start
    <3>. QED
      BY <3>4 DEF Learner!Next
  <2>2. CASE Answer
    <3>. DEFINE s == <<build, next>>
    <3>1. /\ s \in Builds \X Check /\ s \notin LearnerAvoid /\ Running /\ Running'
          /\ UNCHANGED <<build, skip>>
      BY <2>2 DEF Answer, IInv, Attempting, TypeInv, TypeOK, Running, env, table
    <3>2. strikes' = [strikes EXCEPT ![build][next] = 0]
      BY <2>2 DEF Answer
    <3>3. strikes \in [Builds -> [Check -> 0..StrikeCap]] /\ build \in Builds /\ next \in Check
      BY <3>1 DEF TypeInv, TypeOK
    <3>4. LearnerStrikes' = [LearnerStrikes EXCEPT ![s] = 0]
      <4>1. \A x \in Builds, y \in Check :
               strikes'[x][y] = IF x = build /\ y = next THEN 0 ELSE strikes[x][y]
        BY <3>2, <3>3
      <4>. DEFINE g == [LearnerStrikes EXCEPT ![s] = 0]
      <4>2. \A t \in Builds \X Check : strikes'[t[1]][t[2]] = g[t]
        <5>. TAKE t \in Builds \X Check
        <5>1. t[1] \in Builds /\ t[2] \in Check /\ (t = s <=> (t[1] = build /\ t[2] = next))
          BY Subject
        <5>2. g[t] = IF t = s THEN 0 ELSE strikes[t[1]][t[2]]
          OBVIOUS
        <5>. QED
          BY <4>1, <5>1, <5>2
      <4>3. g = [t \in Builds \X Check |-> g[t]]
        OBVIOUS
      <4>. QED
        BY <4>2, <4>3
    <3>. QED
      BY <3>1, <3>4 DEF Learner!Ended, Learner!Next
  <2>3. CASE Finish
    <3>1. Running /\ ~Running' /\ UNCHANGED strikes
      BY <2>3 DEF Finish, Running, hist
    <3>. QED
      BY <3>1 DEF Learner!End, Learner!Next
  <2>4. CASE Down /\ phase = "attempt"
    <3>. DEFINE s == <<build, next>>
    <3>1. /\ s \in Builds \X Check /\ s \notin LearnerAvoid /\ Running /\ ~Running'
      BY <2>4 DEF Down, IInv, Attempting, TypeInv, TypeOK, Running
    <3>. DEFINE count == strikes[build][next]
                n == IF count < 2 THEN count + 1 ELSE count
    <3>2. strikes' = [strikes EXCEPT ![build][next] = n]
      BY <2>4 DEF Down, StrikeCap
    <3>3. strikes \in [Builds -> [Check -> 0..StrikeCap]] /\ build \in Builds /\ next \in Check
      BY <3>1 DEF TypeInv, TypeOK
    <3>4. LearnerStrikes' = [LearnerStrikes EXCEPT ![s] = n]
      <4>. HIDE DEF n
      <4>1. \A x \in Builds, y \in Check :
               strikes'[x][y] = IF x = build /\ y = next THEN n ELSE strikes[x][y]
        BY <3>2, <3>3
      <4>. DEFINE g == [LearnerStrikes EXCEPT ![s] = n]
      <4>2. \A t \in Builds \X Check : strikes'[t[1]][t[2]] = g[t]
        <5>. TAKE t \in Builds \X Check
        <5>1. t[1] \in Builds /\ t[2] \in Check /\ (t = s <=> (t[1] = build /\ t[2] = next))
          BY Subject
        <5>2. g[t] = IF t = s THEN n ELSE strikes[t[1]][t[2]]
          OBVIOUS
        <5>. QED
          BY <4>1, <5>1, <5>2
      <4>3. g = [t \in Builds \X Check |-> g[t]]
        OBVIOUS
      <4>. QED
        BY <4>2, <4>3
    <3>5. LearnerStrikes[s] = count
      BY <3>1
    <3>6. LearnerStrikes' = [LearnerStrikes EXCEPT ![s] = IF @ < 2 THEN @ + 1 ELSE @]
      BY <3>4, <3>5
    <3>. QED
      BY <3>1, <3>6 DEF Learner!NotEnded, Learner!Next, Running
  <2>5. CASE Down /\ phase # "attempt"
    <3>1. ~Running' /\ UNCHANGED strikes
      BY <2>5 DEF Down, Running
    <3>2. CASE Running
      BY <3>1, <3>2 DEF Learner!End, Learner!Next
    <3>3. CASE ~Running
      <4>1. LearnerAvoid' = LearnerAvoid /\ LearnerStrikes' = LearnerStrikes
        BY <3>1, <3>3
      <4>. QED
        BY <3>1, <3>3, <4>1 DEF Learner!vars, Running
    <3>. QED
      BY <3>2, <3>3
  <2>6. CASE Boot \/ RunAgain \/ UNCHANGED vars
    BY <2>6 DEF Boot, RunAgain, vars, env, table, hist, file, Running, Learner!vars
  <2>7. CASE SinkOpen \/ ReportMeta \/ ReportBuild \/ ReportResume \/ SkipLearned \/ Decline \/ Attempt
    BY <2>7 DEF SinkOpen, ReportMeta, ReportBuild, ReportResume, SkipLearned, Decline, Attempt,
        env, table, hist, Running, Learner!vars, AtCheck
  <2>. QED
    BY <2>1, <2>2, <2>3, <2>4, <2>5, <2>6, <2>7 DEF Next, Run, StopInCheck, Kill, Exit
<1>3. Spec => []IInv(p)
  BY IInvInductive
<1>. QED
  BY <1>1, <1>2, <1>3, TypesInductive, PTL DEF Spec, LearnsByTwoStrikes, Learner!Spec

-----------------------------------------------------------------------------
(* What needs no steady file: whatever disks come and go and whichever writes  *)
(* fail, the file being written says where the run is and carries what it knew, *)
(* and what a run knows it has from reports that ended where it says.           *)

-----------------------------------------------------------------------------
(* The file that is being written. *)

\* Its header is the run's, and it holds nothing yet before the loop begins.
Headed ==
    sink # None =>
        /\ phase \in {"meta", "build", "resume", "loop", "attempt"}
        /\ phase \in {"meta", "build", "resume"} =>
              /\ report[sink].pending = None
              /\ report[sink].skip = {} /\ report[sink].watch = {}
        /\ phase \in {"meta", "build"} => report[sink].id = None
        /\ phase # "meta" => report[sink].checks = build.checks
        /\ phase \notin {"meta", "build"} => report[sink].id = build.id

\* Its last word is the check in flight.
Following ==
    (sink # None /\ InLoop) =>
        report[sink].pending = IF phase = "attempt" THEN next ELSE None

\* What the run has passed of the checks it knew is in it, and what it has yet to
\* reach is still under watch.
Carrying ==
    (sink # None /\ InLoop) =>
        /\ \A c \in skip : c \in 1..(next - 1) => c \in report[sink].skip \/ report[sink].full
        /\ Cardinality(watch) <= LineIds =>
              \A c \in watch : c >= next => c \in report[sink].watch

Keeping == Headed /\ Following /\ Carrying /\ Attempting

\* A record that leaves the sink open was written whole.
LEMMA WrittenWhole ==
    ASSUME TypeOK, NEW whole, NEW torn, Write(whole, torn), sink' # None
    PROVE  /\ sink' = sink /\ sink # None
           /\ report' = [report EXCEPT ![sink] = whole]
           /\ report'[sink] = whole
           /\ UNCHANGED sightings
BY DEF Write, TypeOK

\* What each record of a result does to the fields of a digest.
LEMMA ResultFields ==
    ASSUME NEW d \in Digest, NEW c \in Id, NEW marked \in BOOLEAN
    PROVE  LET r == ConsiderRes(d, c, marked)
           IN  /\ r.pending = None /\ r.id = d.id /\ r.checks = d.checks
               /\ r.watch = d.watch \ {c}
               /\ d.skip \subseteq r.skip /\ r.skip \subseteq d.skip \cup {c}
               /\ d.full => r.full
               /\ marked  => c \in r.skip \/ r.full
               /\ ~marked => r.skip = d.skip
<1>1. CASE marked
  BY <1>1 DEF ConsiderRes, Remember, Digest
<1>2. CASE ~marked
  BY <1>2 DEF ConsiderRes, Remember, Digest
<1>. QED
  BY <1>1, <1>2

\* A result of the check the loop is at, and the next one in front of it.
LEMMA ResultKeeps ==
    ASSUME TypeInv, Keeping, InLoop, next \in Check, NEW marked \in BOOLEAN,
           ReportResult(marked), next' = next + 1, phase' = "loop",
           next \in skip => marked, UNCHANGED <<build, skip, watch>>
    PROVE  Keeping'
<1>1. Attempting'
  BY DEF Attempting
<1>2. SUFFICES ASSUME sink' # None
               PROVE  (Headed /\ Following /\ Carrying)'
  BY <1>1 DEF Keeping, Headed, Following, Carrying
<1>3. /\ sink' = sink /\ sink # None
      /\ report'[sink] = ConsiderRes(report[sink], next, marked)
  BY <1>2, WrittenWhole DEF ReportResult, TypeInv
<1>4. report[sink] \in Digest /\ next \in Id /\ next \in Nat
  BY <1>3, ConstantsAssumption DEF TypeInv, TypeOK, Id, ConstantsAssumption
<1>. DEFINE r == ConsiderRes(report[sink], next, marked)
<1>5. /\ r.pending = None /\ r.id = report[sink].id /\ r.checks = report[sink].checks
      /\ r.watch = report[sink].watch \ {next}
      /\ report[sink].skip \subseteq r.skip
      /\ report[sink].full => r.full
      /\ marked  => next \in r.skip \/ r.full
  BY <1>4, ResultFields
<1>. HIDE DEF r
<1>6. report'[sink] = r
  BY <1>3 DEF r
<1>7. Headed'
  BY <1>3, <1>5, <1>6 DEF Keeping, Headed, InLoop
<1>8. Following'
  BY <1>3, <1>5, <1>6 DEF Following
<1>9. Carrying'
  <2>1. \A c \in skip : c \in 1..next => c \in r.skip \/ r.full
    <3>. SUFFICES ASSUME NEW c \in skip, c \in 1..next
                  PROVE  c \in r.skip \/ r.full
      OBVIOUS
    <3>1. CASE c = next
      BY <3>1, <1>5
    <3>2. CASE c # next
      <4>1. c \in 1..(next - 1)
        BY <3>2, <1>4
      <4>. QED
        BY <4>1, <1>3, <1>5 DEF Keeping, Carrying
    <3>. QED
      BY <3>1, <3>2
  <2>2. Cardinality(watch) <= LineIds => \A c \in watch : c >= next + 1 => c \in r.watch
    <3>. SUFFICES ASSUME Cardinality(watch) <= LineIds, NEW c \in watch, c >= next + 1
                  PROVE  c \in r.watch
      OBVIOUS
    <3>1. c \in Int
      BY ConstantsAssumption DEF TypeInv, TypeOK, Id, Check, Stump, ConstantsAssumption
    <3>2. c >= next /\ c # next
      BY <3>1, <1>4
    <3>. QED
      BY <3>2, <1>3, <1>5 DEF Keeping, Carrying
  <2>3. 1..(next' - 1) = 1..next
    BY <1>4
  <2>. QED
    BY <2>1, <2>2, <2>3, <1>3, <1>6 DEF Carrying
<1>. QED
  BY <1>7, <1>8, <1>9

\* The header records, and what the run watches.
LEMMA HeaderKeeps ==
    ASSUME TypeInv, Keeping, SinkOpen \/ ReportMeta \/ ReportBuild
    PROVE  Keeping'
<1>1. phase' \in {"meta", "build", "resume"} /\ phase' # "attempt" /\ UNCHANGED build
  BY DEF SinkOpen, ReportMeta, ReportBuild, env
<1>2. Attempting' /\ Following' /\ Carrying'
  BY <1>1 DEF Attempting, Following, Carrying, InLoop
<1>3. SUFFICES ASSUME sink' # None
               PROVE  Headed'
  BY <1>2 DEF Keeping, Headed
<1>4. CASE SinkOpen
  <2>1. sink = None
    BY <1>4 DEF SinkOpen, Keeping, Headed
  <2>2. media.write # {} /\ sink' = First(media.write)
        /\ report' = [report EXCEPT ![First(media.write)] = Truncated]
    BY <1>3, <1>4, <2>1 DEF SinkOpen, file
  <2>3. media.write \subseteq Path
    BY ConstantsAssumption DEF TypeInv, TypeOK, ConstantsAssumption
  <2>4. First(media.write) \in Path
    BY <2>2, <2>3, FirstOfPaths, ConstantsAssumption
  <2>5. report'[sink'] = Truncated
    BY <2>2, <2>4 DEF TypeInv, TypeOK
  <2>. QED
    BY <1>1, <1>4, <2>5 DEF SinkOpen, Headed, Truncated, Absent
<1>5. CASE ReportMeta
  <2>1. sink' = sink /\ sink # None /\ report'[sink] = ConsiderMeta(report[sink], build.checks)
    BY <1>3, <1>5, WrittenWhole DEF ReportMeta, TypeInv
  <2>2. report[sink] \in Digest
    BY <2>1 DEF TypeInv, TypeOK
  <2>. QED
    BY <1>1, <1>5, <2>1, <2>2 DEF ReportMeta, ConsiderMeta, Keeping, Headed, Digest
<1>6. CASE ReportBuild
  <2>1. sink' = sink /\ sink # None /\ report'[sink] = ConsiderBuild(report[sink], build.id)
    BY <1>3, <1>6, WrittenWhole DEF ReportBuild, TypeInv
  <2>2. report[sink] \in Digest
    BY <2>1 DEF TypeInv, TypeOK
  <2>. QED
    BY <1>1, <1>6, <2>1, <2>2 DEF ReportBuild, ConsiderBuild, Keeping, Headed, Digest
<1>. QED
  BY <1>4, <1>5, <1>6

LEMMA ResumeKeeps ==
    ASSUME TypeInv, Keeping, ReportResume
    PROVE  Keeping'
<1>1. phase = "resume" /\ phase' = "loop" /\ next' = 1 /\ UNCHANGED <<build, skip, watch>>
  BY DEF ReportResume, env, table
<1>2. Attempting'
  BY <1>1 DEF Attempting
<1>3. SUFFICES ASSUME sink' # None
               PROVE  (Headed /\ Following /\ Carrying)'
  BY <1>2 DEF Keeping, Headed, Following, Carrying
<1>4. PICK ids \in ReadableIds(watch) :
         sink' = sink /\ sink # None /\ report'[sink] = ConsiderResume(report[sink], ids)
  BY <1>3, WrittenWhole DEF ReportResume, TypeInv
<1>5. report[sink] \in Digest
  BY <1>4 DEF TypeInv, TypeOK
<1>6. /\ report'[sink].pending = report[sink].pending
      /\ report'[sink].watch = report[sink].watch \cup ids
      /\ report'[sink].id = report[sink].id
      /\ report'[sink].checks = report[sink].checks
  BY <1>4, <1>5 DEF ConsiderResume, Digest
<1>7. Cardinality(watch) <= LineIds => ids = watch
  BY <1>4 DEF ReadableIds
<1>8. 1..(next' - 1) = {}
  BY <1>1
<1>9. Headed' /\ Following'
  BY <1>1, <1>4, <1>6 DEF Keeping, Headed, Following
<1>10. Carrying'
  BY <1>1, <1>4, <1>6, <1>7, <1>8 DEF Carrying
<1>. QED
  BY <1>9, <1>10

LEMMA AttemptKeeps ==
    ASSUME TypeInv, Keeping, Attempt
    PROVE  Keeping'
<1>1. phase' = "attempt" /\ phase = "loop" /\ UNCHANGED <<build, skip, watch, next>>
  BY DEF Attempt, AtCheck, env, table
<1>2. Attempting'
  <2>1. next \in Nat /\ 1 <= next /\ build.checks \in Nat
    BY CountsOfBuild, ConstantsAssumption DEF TypeInv, TypeOK, ConstantsAssumption
  <2>. QED
    BY <1>1, <2>1 DEF Attempt, AtCheck, Attempting
<1>3. SUFFICES ASSUME sink' # None
               PROVE  (Headed /\ Following /\ Carrying)'
  BY <1>2 DEF Keeping, Headed, Following, Carrying
<1>4. sink' = sink /\ sink # None /\ report'[sink] = ConsiderTry(report[sink], next)
  BY <1>3, WrittenWhole DEF Attempt, TypeInv
<1>5. report[sink] \in Digest
  BY <1>4 DEF TypeInv, TypeOK
<1>6. report'[sink] = [report[sink] EXCEPT !.pending = next]
  BY <1>4 DEF ConsiderTry
<1>7. Headed' /\ Following'
  BY <1>1, <1>4, <1>5, <1>6 DEF Keeping, Headed, Following, Digest
<1>8. Carrying'
  BY <1>1, <1>4, <1>5, <1>6 DEF Keeping, Carrying, InLoop, Digest
<1>. QED
  BY <1>7, <1>8

LEMMA KeepingHolds == Spec => []Keeping
<1>1. Init => Keeping
  BY DEF Init, Keeping, Headed, Following, Carrying, Attempting
<1>2. TypeInv /\ Keeping /\ [Next]_vars => Keeping'
  <2>. SUFFICES ASSUME TypeInv, Keeping, [Next]_vars
                PROVE  Keeping'
    OBVIOUS
  <2>1. CASE SinkOpen \/ ReportMeta \/ ReportBuild
    BY <2>1, HeaderKeeps
  <2>2. CASE ReportResume
    BY <2>2, ResumeKeeps
  <2>3. CASE SkipLearned
    <3>1. next \in Check
      BY <2>3, NextIsCheck DEF SkipLearned, TypeInv
    <3>. QED
      BY <2>3, <3>1, ResultKeeps DEF SkipLearned, AtCheck, InLoop, env, table
  <2>4. CASE Decline
    <3>1. next \in Check
      BY <2>4, NextIsCheck DEF Decline, TypeInv
    <3>. QED
      BY <2>4, <3>1, ResultKeeps DEF Decline, AtCheck, InLoop, env, table
  <2>5. CASE Attempt
    BY <2>5, AttemptKeeps
  <2>6. CASE Answer
    <3>1. next \in Check /\ next \notin skip
      BY <2>6 DEF Answer, TypeInv, Keeping, Attempting
    <3>2. PICK marked \in BOOLEAN : ReportResult(marked)
      BY <2>6 DEF Answer
    <3>. QED
      BY <2>6, <3>1, <3>2, ResultKeeps DEF Answer, InLoop, env, table
  <2>7. CASE Boot \/ ResumeLoad \/ RunAgain \/ Finish \/ Down
    <3>1. sink' = None /\ phase' # "attempt"
      BY <2>7 DEF Boot, ResumeLoad, RunAgain, Finish, Down, file, Keeping, Headed
    <3>. QED
      BY <3>1 DEF Keeping, Headed, Following, Carrying, Attempting
  <2>8. CASE UNCHANGED vars
    BY <2>8 DEF vars, Keeping, Headed, Following, Carrying, Attempting, InLoop
  <2>. QED
    BY <2>1, <2>2, <2>3, <2>4, <2>5, <2>6, <2>7, <2>8
       DEF Next, Run, StopInCheck, Kill, Exit
<1>. QED
  BY <1>1, <1>2, TypesInductive, PTL DEF Spec

\* While the sink is open the file names the check in flight and no other, under a
\* header that the next run of this build believes (sink.c, "The report is already the
\* state file"), for any number of checks and paths and whatever fails.
THEOREM FileNamesTheCheck == Spec => []AnnouncedFirst
<1>1. Keeping => AnnouncedFirst
  BY DEF Keeping, Headed, Following, AnnouncedFirst, InLoop, Matches
<1>. QED
  BY <1>1, KeepingHolds, PTL

\* Every check the run has skipped is in the set the file teaches, or the file says
\* that the set is full (OBS_RESUME_MAX), for every capacity.
THEOREM SkipsAreCarried == Spec => []SkipsCarried
<1>1. Keeping => SkipsCarried
  BY DEF Keeping, Carrying, SkipsCarried
<1>. QED
  BY <1>1, KeepingHolds, PTL

\* A watched check the run has yet to reach stays under watch in the file, whatever
\* the run did before it, for every line that holds what is watched.
THEOREM WatchIsCarried == Spec => []WatchCarried
<1>1. Keeping => WatchCarried
  BY DEF Keeping, Carrying, WatchCarried
<1>. QED
  BY <1>1, KeepingHolds, PTL

-----------------------------------------------------------------------------
(* Sightings. *)

\* What a file teaches build b of the checks it skips and watches was seen.
Seen(d, b) ==
    \A c \in Check :
        /\ c \in d.skip  => sightings[b][c] >= 2
        /\ c \in d.watch => sightings[b][c] >= 1

\* What its last word teaches was seen.
LastSeen(d, b) ==
    d.pending \in Check =>
        /\ sightings[b][d.pending] >= 1
        /\ d.pending \in d.watch => sightings[b][d.pending] >= 2

\* The same of a file this process may have left, whose last word counts from then on.
Mine(d) == \A b \in Builds : Matches(d, b) => b = build /\ Seen(d, b)

FilesSeen ==
    \A p \in Path, b \in Builds :
        Matches(report[p], b) =>
            Seen(report[p], b) /\ (p # sink => LastSeen(report[p], b))

TableSeen ==
    \A c \in Check :
        /\ c \in skip  => sightings[build][c] >= 2
        /\ c \in watch => sightings[build][c] >= 1

Sighted == FilesSeen /\ TableSeen

\* A last word is one more sighting, and takes none away.
LEMMA OneMore ==
    ASSUME TypeOK, NEW d, LastWord(d)
    PROVE  /\ \A b \in Builds, c \in Check :
                 /\ sightings[b][c] >= 1 => sightings'[b][c] >= 1
                 /\ sightings[b][c] >= 2 => sightings'[b][c] >= 2
           /\ d.pending \in Check =>
                 /\ sightings'[build][d.pending] >= 1
                 /\ sightings[build][d.pending] >= 1 => sightings'[build][d.pending] >= 2
<1>1. sightings \in [Builds -> [Check -> 0..2]] /\ build \in Builds
  BY DEF TypeOK, StrikeCap
<1>2. CASE d.pending \in Check
  <2>1. sightings' = [sightings EXCEPT ![build][d.pending] = IF @ < 2 THEN @ + 1 ELSE @]
    BY <1>2 DEF LastWord, StrikeCap
  <2>. QED
    BY <1>1, <1>2, <2>1
<1>3. CASE d.pending \notin Check
  BY <1>3 DEF LastWord
<1>. QED
  BY <1>2, <1>3

\* A file that ends with d as this run left it teaches nothing that was not seen.
LEMMA LeftSeen ==
    ASSUME TypeOK, Sighted, NEW d, Mine(d), LastWord(d),
           sink # None, sink' = None, report' = [report EXCEPT ![sink] = d]
    PROVE  FilesSeen'
<1>. SUFFICES ASSUME NEW p \in Path, NEW b \in Builds, Matches(report'[p], b)
              PROVE  (Seen(report[p], b) /\ LastSeen(report[p], b))'
  BY DEF FilesSeen, Matches
<1>1. \A c \in Check : /\ sightings[b][c] >= 1 => sightings'[b][c] >= 1
                       /\ sightings[b][c] >= 2 => sightings'[b][c] >= 2
  BY OneMore
<1>2. CASE p = sink
  <2>1. report'[p] = d
    BY <1>2 DEF TypeOK
  <2>2. b = build /\ Seen(d, b)
    BY <2>1 DEF Mine
  <2>3. d.pending \in Check =>
           /\ sightings'[build][d.pending] >= 1
           /\ sightings[build][d.pending] >= 1 => sightings'[build][d.pending] >= 2
    BY OneMore
  <2>. QED
    BY <1>1, <2>1, <2>2, <2>3 DEF Seen, LastSeen
<1>3. CASE p # sink
  <2>1. report'[p] = report[p]
    BY <1>3 DEF TypeOK
  <2>2. Seen(report[p], b) /\ LastSeen(report[p], b)
    BY <1>3, <2>1 DEF Sighted, FilesSeen
  <2>. QED
    BY <1>1, <2>1, <2>2 DEF Seen, LastSeen
<1>. QED
  BY <1>2, <1>3

\* Whatever becomes of one record.
LEMMA WriteSeen ==
    ASSUME TypeOK, Sighted, NEW whole, NEW torn, Write(whole, torn),
           sink # None => Mine(report[sink]) /\ Mine(whole) /\ \A d \in torn : Mine(d),
           UNCHANGED <<build, skip, watch>>
    PROVE  Sighted'
<1>1. CASE UNCHANGED <<report, sink, sightings>>
  BY <1>1 DEF Sighted, FilesSeen, TableSeen, Seen, LastSeen, Matches
<1>2. CASE sink # None /\ report' = [report EXCEPT ![sink] = whole] /\ UNCHANGED <<sink, sightings>>
  <2>1. TableSeen'
    BY <1>2 DEF Sighted, TableSeen
  <2>2. FilesSeen'
    <3>. SUFFICES ASSUME NEW p \in Path, NEW b \in Builds, Matches(report'[p], b)
                  PROVE  (Seen(report[p], b) /\ (p # sink => LastSeen(report[p], b)))'
      BY DEF FilesSeen, Matches
    <3>1. CASE p = sink
      <4>1. report'[p] = whole
        BY <1>2, <3>1 DEF TypeOK
      <4>. QED
        BY <1>2, <3>1, <4>1 DEF Mine, Seen
    <3>2. CASE p # sink
      <4>1. report'[p] = report[p]
        BY <1>2, <3>2 DEF TypeOK
      <4>. QED
        BY <1>2, <3>2, <4>1 DEF Sighted, FilesSeen, Seen, LastSeen
    <3>. QED
      BY <3>1, <3>2
  <2>. QED
    BY <2>1, <2>2 DEF Sighted
<1>3. CASE /\ sink # None /\ sink' = None
           /\ \E d \in torn \cup {whole, report[sink]} :
                 report' = [report EXCEPT ![sink] = d] /\ LastWord(d)
  <2>1. PICK d \in torn \cup {whole, report[sink]} :
           report' = [report EXCEPT ![sink] = d] /\ LastWord(d)
    BY <1>3
  <2>2. Mine(d)
    BY <1>3
  <2>3. FilesSeen'
    BY <1>3, <2>1, <2>2, LeftSeen
  <2>4. TableSeen'
    BY <2>1, OneMore DEF Sighted, TableSeen, TypeOK
  <2>. QED
    BY <2>3, <2>4 DEF Sighted
<1>. QED
  BY <1>1, <1>2, <1>3 DEF Write

\* The file being written is believed by no other build than the running one, and by
\* none before its header is there.
LEMMA SinkIsMine ==
    ASSUME TypeInv, Keeping, Sighted, BuildsDistinct, sink # None
    PROVE  /\ Mine(report[sink])
           /\ phase \in {"meta", "build"} =>
                 \A b \in Builds : ~Matches(report[sink], b)
           /\ phase \notin {"meta", "build"} => Matches(report[sink], build)
<1>1. sink \in Path /\ build \in Builds
  BY DEF TypeInv, TypeOK
<1>2. CASE phase \in {"meta", "build"}
  BY <1>2, ConstantsAssumption DEF Keeping, Headed, Mine, Matches, None, ConstantsAssumption
<1>3. CASE phase \notin {"meta", "build"}
  <2>1. Matches(report[sink], build)
    BY <1>3 DEF Keeping, Headed, Matches
  <2>2. \A b \in Builds : Matches(report[sink], b) => b = build
    BY <1>1, <2>1, OneBuildBelieves
  <2>. QED
    BY <1>1, <1>3, <2>1, <2>2 DEF Mine, Sighted, FilesSeen
<1>. QED
  BY <1>2, <1>3

\* A digest with the header of this build, and tables that were seen.
LEMMA MineByHeader ==
    ASSUME TypeInv, BuildsDistinct, NEW d, d.id = build.id, d.checks = build.checks,
           Seen(d, build)
    PROVE  Mine(d)
<1>1. Matches(d, build) /\ build \in Builds
  BY DEF Matches, TypeInv, TypeOK
<1>. QED
  BY <1>1, OneBuildBelieves DEF Mine

\* A cut id is no check's, when no id is the front of another.
LEMMA CutIsStump ==
    ASSUME IdsCutClean, NEW c
    PROVE  Cut(c) = {Stump} /\ Stump \notin Check
BY DEF IdsCutClean, Cut, Stump, Check

\* The resume record names, whole or cut, what the run watches and no other check.
LEMMA CutListsWatched ==
    ASSUME IdsCutClean, NEW ids, NEW n, NEW s \in CutLists(ids, n)
    PROVE  s \cap Check \subseteq ids
BY CutIsStump DEF CutLists

LEMMA HeaderSeen ==
    ASSUME TypeInv, Keeping, Sighted, BuildsDistinct, ReportMeta \/ ReportBuild
    PROVE  Sighted'
<1>. UNCHANGED <<build, skip, watch>> /\ TypeOK
  BY DEF ReportMeta, ReportBuild, env, table, TypeInv
<1>1. CASE ReportMeta
  <2>1. sink # None => Mine(report[sink]) /\ Mine(ConsiderMeta(report[sink], build.checks))
    <3>. SUFFICES ASSUME sink # None
                  PROVE  Mine(report[sink]) /\ Mine(ConsiderMeta(report[sink], build.checks))
      OBVIOUS
    <3>1. report[sink] \in Digest /\ report[sink].id = None
      BY <1>1 DEF ReportMeta, Keeping, Headed, TypeOK
    <3>. QED
      BY <3>1, SinkIsMine, ConstantsAssumption
         DEF Mine, Matches, ConsiderMeta, Digest, None, ConstantsAssumption
  <2>. QED
    BY <1>1, <2>1, WriteSeen DEF ReportMeta
<1>2. CASE ReportBuild
  <2>1. sink # None => Mine(report[sink]) /\ Mine(ConsiderBuild(report[sink], build.id))
    <3>. SUFFICES ASSUME sink # None
                  PROVE  Mine(report[sink]) /\ Mine(ConsiderBuild(report[sink], build.id))
      OBVIOUS
    <3>. DEFINE d == ConsiderBuild(report[sink], build.id)
    <3>1. /\ report[sink] \in Digest /\ report[sink].checks = build.checks
          /\ report[sink].skip = {} /\ report[sink].watch = {}
      BY <1>2 DEF ReportBuild, Keeping, Headed, TypeOK
    <3>2. /\ d.id = build.id /\ d.checks = build.checks
          /\ d.skip = {} /\ d.watch = {}
      BY <3>1 DEF ConsiderBuild, Digest
    <3>3. Seen(d, build)
      BY <3>2 DEF Seen
    <3>. HIDE DEF d
    <3>4. Mine(d)
      BY <3>2, <3>3, MineByHeader
    <3>. QED
      BY <3>4, SinkIsMine DEF d
  <2>. QED
    BY <1>2, <2>1, WriteSeen DEF ReportBuild
<1>. QED
  BY <1>1, <1>2

LEMMA ResumeSeen ==
    ASSUME TypeInv, Keeping, Sighted, BuildsDistinct, IdsCutClean, ReportResume
    PROVE  Sighted'
<1>1. PICK ids \in ReadableIds(watch) :
         Write(ConsiderResume(report[sink], ids),
               {ConsiderResume(report[sink], s) : s \in UNION {CutLists(watch, n) : n \in 0..LineIds}})
  BY DEF ReportResume
<1>2. ASSUME sink # None, NEW s, s \cap Check \subseteq watch
      PROVE  Mine(ConsiderResume(report[sink], s))
  <2>. DEFINE d == ConsiderResume(report[sink], s)
  <2>1. report[sink] \in Digest
    BY <1>2 DEF TypeInv, TypeOK
  <2>2. /\ report[sink].skip = {} /\ report[sink].watch = {}
        /\ report[sink].id = build.id /\ report[sink].checks = build.checks
    BY <1>2 DEF ReportResume, Keeping, Headed
  <2>3. d.id = build.id /\ d.checks = build.checks /\ d.skip = {} /\ d.watch = s
    BY <2>1, <2>2 DEF ConsiderResume, Digest
  <2>. HIDE DEF d
  <2>4. Seen(d, build)
    BY <1>2, <2>3 DEF Seen, Sighted, TableSeen
  <2>5. Mine(d)
    BY <2>3, <2>4, MineByHeader
  <2>. QED
    BY <2>5 DEF d
<1>3. ids \cap Check \subseteq watch
  BY <1>1, CutListsWatched DEF ReadableIds
<1>4. \A s \in UNION {CutLists(watch, n) : n \in 0..LineIds} : s \cap Check \subseteq watch
  BY CutListsWatched
<1>5. sink # None =>
         /\ Mine(report[sink]) /\ Mine(ConsiderResume(report[sink], ids))
         /\ \A d \in {ConsiderResume(report[sink], s) :
                        s \in UNION {CutLists(watch, n) : n \in 0..LineIds}} : Mine(d)
  BY <1>2, <1>3, <1>4, SinkIsMine
<1>. QED
  BY <1>1, <1>5, WriteSeen DEF ReportResume, env, table, TypeInv

\* A result takes its check off the watch and puts it on no list it was not on.
LEMMA ResultSeen ==
    ASSUME TypeInv, Keeping, Sighted, BuildsDistinct, IdsCutClean, InLoop, next \in Check,
           NEW marked \in BOOLEAN, marked => next \in skip, ReportResult(marked),
           UNCHANGED <<build, skip, watch>>
    PROVE  Sighted'
<1>1. ASSUME sink # None, NEW c \in Id, NEW m \in BOOLEAN,
             m => c \in skip
      PROVE  Mine(ConsiderRes(report[sink], c, m))
  <2>. DEFINE d == ConsiderRes(report[sink], c, m)
  <2>1. report[sink] \in Digest /\ sink \in Path /\ build \in Builds
    BY <1>1 DEF TypeInv, TypeOK
  <2>2. /\ d.id = report[sink].id /\ d.checks = report[sink].checks
        /\ d.watch \subseteq report[sink].watch
        /\ d.skip \subseteq report[sink].skip \cup {c}
        /\ ~m => d.skip = report[sink].skip
    BY <1>1, <2>1, ResultFields
  <2>. HIDE DEF d
  <2>3. Matches(report[sink], build)
    BY <1>1, SinkIsMine DEF InLoop
  <2>4. Seen(report[sink], build)
    BY <1>1, <2>1, <2>3 DEF Sighted, FilesSeen
  <2>5. Seen(d, build)
    BY <1>1, <2>2, <2>4 DEF Seen, Sighted, TableSeen
  <2>6. Mine(d)
    BY <2>2, <2>3, <2>5, MineByHeader DEF Matches
  <2>. QED
    BY <2>6 DEF d
<1>2. next \in Id /\ Cut(next) \cup {next} \subseteq Id
  BY CutIsId DEF Id
<1>3. sink # None =>
         /\ Mine(report[sink]) /\ Mine(ConsiderRes(report[sink], next, marked))
         /\ \A d \in {ConsiderRes(report[sink], s, FALSE) : s \in Cut(next) \cup {next}} : Mine(d)
  BY <1>1, <1>2, SinkIsMine
<1>. QED
  BY <1>3, WriteSeen DEF ReportResult, TypeInv

LEMMA AttemptSeen ==
    ASSUME TypeInv, Keeping, Sighted, BuildsDistinct, Attempt
    PROVE  Sighted'
<1>1. ASSUME sink # None, NEW c
      PROVE  Mine(ConsiderTry(report[sink], c))
  <2>. DEFINE d == ConsiderTry(report[sink], c)
  <2>1. report[sink] \in Digest
    BY <1>1 DEF TypeInv, TypeOK
  <2>2. /\ d.id = report[sink].id /\ d.checks = report[sink].checks
        /\ d.watch = report[sink].watch /\ d.skip = report[sink].skip
    BY <2>1 DEF ConsiderTry, Digest
  <2>. HIDE DEF d
  <2>3. Mine(d)
    BY <1>1, <2>2, SinkIsMine DEF Mine, Seen, Matches
  <2>. QED
    BY <2>3 DEF d
<1>2. sink # None =>
         /\ Mine(report[sink]) /\ Mine(ConsiderTry(report[sink], next))
         /\ \A d \in {ConsiderTry(report[sink], s) : s \in Cut(next)} : Mine(d)
  BY <1>1, SinkIsMine
<1>. QED
  BY <1>2, WriteSeen DEF Attempt, env, table, TypeInv

\* A report is believed by its build, and what its end adds was seen once or twice.
LEMMA LoadSeen ==
    ASSUME TypeInv, Keeping, Sighted, ResumeLoad
    PROVE  Sighted'
<1>1. sink = None /\ UNCHANGED <<report, sink, build, sightings>>
  BY DEF ResumeLoad, Keeping, Headed, file, env, hist
<1>2. FilesSeen'
  BY <1>1 DEF Sighted, FilesSeen, Seen, LastSeen, Matches
<1>3. CASE ~Matches(Previous, build)
  <2>1. skip' = {} /\ watch' = {}
    BY <1>3 DEF ResumeLoad
  <2>. QED
    BY <1>2, <2>1 DEF Sighted, TableSeen
<1>4. CASE Matches(Previous, build)
  <2>. DEFINE d == Previous
  <2>1. d \in Digest
    BY PreviousIsDigest DEF TypeInv
  <2>2. Readable # {}
    BY <1>4, ConstantsAssumption
       DEF Previous, Absent, Matches, None, TypeInv, TypeOK, ConstantsAssumption
  <2>3. Readable \subseteq Path
    BY ConstantsAssumption DEF Readable, TypeInv, TypeOK, ConstantsAssumption
  <2>4. First(Readable) \in Path /\ d = report[First(Readable)] /\ build \in Builds
    BY <2>2, <2>3, FirstOfPaths, ConstantsAssumption DEF Previous, TypeInv, TypeOK
  <2>5. First(Readable) # sink
    BY <1>1, <2>4 DEF Path, None
  <2>6. Seen(d, build) /\ LastSeen(d, build)
    BY <1>4, <2>4, <2>5 DEF Sighted, FilesSeen
  <2>. HIDE DEF d
  <2>7. /\ AtEnd(d).watch \subseteq d.watch \cup {d.pending}
        /\ AtEnd(d).skip \subseteq d.skip \cup {d.pending}
        /\ d.pending \notin d.watch => AtEnd(d).skip = d.skip
    BY <2>1, EndFields
  <2>8. skip' = AtEnd(d).skip /\ watch' = AtEnd(d).watch
    BY <1>4 DEF ResumeLoad, d
  <2>9. TableSeen'
    BY <1>1, <2>6, <2>7, <2>8 DEF TableSeen, Seen, LastSeen
  <2>. QED
    BY <1>2, <2>9 DEF Sighted
<1>. QED
  BY <1>3, <1>4

\* A truncated file is believed by nobody.
LEMMA OpenSeen ==
    ASSUME TypeInv, Keeping, Sighted, SinkOpen
    PROVE  Sighted'
<1>1. sink = None /\ UNCHANGED <<build, skip, watch, sightings>>
  BY DEF SinkOpen, Keeping, Headed, table, hist
<1>2. TableSeen'
  BY <1>1 DEF Sighted, TableSeen
<1>3. CASE UNCHANGED file
  BY <1>1, <1>2, <1>3 DEF file, Sighted, FilesSeen, Seen, LastSeen, Matches
<1>4. CASE ~UNCHANGED file
  <2>1. report' = [report EXCEPT ![First(media.write)] = Truncated]
    BY <1>4 DEF SinkOpen
  <2>2. FilesSeen'
    <3>. SUFFICES ASSUME NEW p \in Path, NEW b \in Builds, Matches(report'[p], b)
                  PROVE  (Seen(report[p], b) /\ LastSeen(report[p], b))'
      BY DEF FilesSeen, Matches
    <3>1. report'[p] \in {report[p], Truncated}
      BY <2>1 DEF TypeInv, TypeOK
    <3>2. report'[p] = report[p]
      BY <3>1, ConstantsAssumption DEF Truncated, Absent, Matches, None, ConstantsAssumption
    <3>3. p # sink
      BY <1>1 DEF Path, None
    <3>. QED
      BY <1>1, <3>2, <3>3 DEF Sighted, FilesSeen, Seen, LastSeen
  <2>. QED
    BY <1>2, <2>2 DEF Sighted
<1>. QED
  BY <1>3, <1>4

\* A finished report has no last word, and an interrupted one is counted where it ends.
LEMMA ClosedSeen ==
    ASSUME TypeInv, Keeping, Sighted, BuildsDistinct, Finish \/ Down
    PROVE  Sighted'
<1>1. sink' = None /\ UNCHANGED <<report, build, skip, watch>>
  BY DEF Finish, Down, env, table
<1>2. CASE sink = None /\ UNCHANGED sightings
  BY <1>1, <1>2 DEF Sighted, FilesSeen, TableSeen, Seen, LastSeen, Matches
<1>3. CASE Finish
  <2>1. sink # None => report[sink].pending = None
    BY <1>3 DEF Finish, Keeping, Following, InLoop
  <2>2. UNCHANGED sightings
    BY <1>3 DEF Finish, hist
  <2>3. None \notin Check
    BY DEF None, Check
  <2>. QED
    BY <1>1, <2>1, <2>2, <2>3 DEF Sighted, FilesSeen, TableSeen, Seen, LastSeen, Matches
<1>4. CASE Down /\ sink # None
  <2>1. LastWord(report[sink])
    BY <1>4 DEF Down
  <2>2. report' = [report EXCEPT ![sink] = report[sink]]
    BY <1>1 DEF TypeInv, TypeOK
  <2>3. FilesSeen'
    BY <1>1, <1>4, <2>1, <2>2, SinkIsMine, LeftSeen DEF TypeInv
  <2>4. TableSeen'
    BY <1>1, <2>1, OneMore DEF Sighted, TableSeen, TypeInv, TypeOK
  <2>. QED
    BY <2>3, <2>4 DEF Sighted
<1>. QED
  BY <1>2, <1>3, <1>4 DEF Down

LEMMA SightedHolds ==
    ASSUME NothingQuotes, BuildsDistinct, IdsCutClean
    PROVE  Spec => []Sighted
<1>1. Init => Sighted
  BY ConstantsAssumption
     DEF Init, Sighted, FilesSeen, TableSeen, Matches, Absent, None, ConstantsAssumption
<1>2. TypeInv /\ Keeping /\ Sighted /\ [Next]_vars => Sighted'
  <2>. SUFFICES ASSUME TypeInv, Keeping, Sighted, [Next]_vars
                PROVE  Sighted'
    OBVIOUS
  <2>1. CASE ResumeLoad
    BY <2>1, LoadSeen
  <2>2. CASE SinkOpen
    BY <2>2, OpenSeen
  <2>3. CASE ReportMeta \/ ReportBuild
    BY <2>3, HeaderSeen
  <2>4. CASE ReportResume
    BY <2>4, ResumeSeen
  <2>5. CASE SkipLearned
    <3>1. next \in Check
      BY <2>5, NextIsCheck DEF SkipLearned, TypeInv
    <3>. QED
      BY <2>5, <3>1, ResultSeen DEF SkipLearned, AtCheck, InLoop, env, table
  <2>6. CASE Decline
    <3>1. next \in Check
      BY <2>6, NextIsCheck DEF Decline, TypeInv
    <3>. QED
      BY <2>6, <3>1, ResultSeen DEF Decline, AtCheck, InLoop, env, table
  <2>7. CASE Attempt
    BY <2>7, AttemptSeen
  <2>8. CASE Answer
    <3>1. next \in Check /\ InLoop
      BY <2>8 DEF Answer, TypeInv, InLoop
    <3>2. ReportResult(FALSE)
      BY <2>8, <3>1 DEF Answer, NothingQuotes, TypeInv, TypeOK
    <3>. QED
      BY <2>8, <3>1, <3>2, ResultSeen DEF Answer, env, table
  <2>9. CASE Finish \/ Down
    BY <2>9, ClosedSeen
  <2>10. CASE Boot
    <3>1. sink = None
      BY <2>10 DEF Boot, Keeping, Headed
    <3>. QED
      BY <2>10, <3>1
         DEF Boot, hist, Sighted, FilesSeen, TableSeen, Seen, LastSeen, Matches
  <2>11. CASE RunAgain \/ UNCHANGED vars
    BY <2>11 DEF RunAgain, vars, file, env, table, hist, Sighted, FilesSeen, TableSeen, Seen,
        LastSeen, Matches
  <2>. QED
    BY <2>1, <2>2, <2>3, <2>4, <2>5, <2>6, <2>7, <2>8, <2>9, <2>10, <2>11
       DEF Next, Run, StopInCheck, Kill, Exit
<1>. QED
  BY <1>1, <1>2, TypesInductive, KeepingHolds, PTL DEF Spec

\* One observation is not evidence (D181): a check is skipped only after two reports of
\* this build ended with it in flight, for every number of paths, disks that come and go
\* at every boot, and writes that fail anywhere in a record.
THEOREM TwoSightingsHold == Spec => []TwoSightings
<1>1. CASE NothingQuotes /\ BuildsDistinct /\ IdsCutClean
  <2>1. Spec => []Sighted
    BY <1>1, SightedHolds
  <2>2. TypeOK /\ Sighted => TwoSightings
    BY DEF TypeOK, Sighted, TableSeen, TwoSightings
  <2>. QED
    BY <2>1, <2>2, TypeCorrect, PTL
<1>2. CASE ~(NothingQuotes /\ BuildsDistinct /\ IdsCutClean)
  <2>1. TwoSightings
    BY <1>2 DEF TwoSightings
  <2>. QED
    BY <2>1, PTL
<1>. QED
  BY <1>1, <1>2

\* What a run knows of a check comes from reports of its own build, where the loader can
\* tell builds apart, no check quotes its words and no id is the front of another (D172).
THEOREM OwnReportsOnly ==
    ASSUME NothingQuotes, IdsCutClean
    PROVE  Spec => []OtherBuildsIgnored
<1>1. CASE BuildsDistinct
  <2>1. Spec => []Sighted
    BY <1>1, SightedHolds
  <2>2. TypeOK /\ Sighted => OtherBuildsIgnored
    BY DEF TypeOK, Sighted, TableSeen, OtherBuildsIgnored, StrikeCap
  <2>. QED
    BY <2>1, <2>2, TypeCorrect, PTL
<1>2. CASE ~BuildsDistinct
  <2>1. OtherBuildsIgnored
    BY <1>2 DEF OtherBuildsIgnored
  <2>. QED
    BY <2>1, PTL
<1>. QED
  BY <1>1, <1>2

-----------------------------------------------------------------------------
(* Hangs are skipped.  Where the platform is constant, one binary writes one  *)
(* file and nobody kills it, the runs take the checks that hang in their turn: *)
(* what the tables and the file hold is exactly what has happened.             *)

\* A check that may stop always stops: "a genuine hang does that every time"
\* (sink.c:332).
HangsEveryTime ==
    \A f \in Conducts, c \in Check : "stops" \in f[c] => f[c] = {"stops"}

\* One binary takes every turn.
OneBuildOnly == \A a, b \in Builds : a = b

\* The premises, with the one file named.
Genuine(p) ==
    /\ NothingQuotes /\ HangsEveryTime /\ OneBuildOnly
    /\ "write" \notin Faults
    /\ \A m \in Media : m.read = {p} /\ m.write = {p}

Hangs == {c \in Check : "stops" \in conduct[c]}

Struck(n) == {c \in Check : strikes[build][c] = n}

\* The tables and the loader's line have room for every check that hangs.
Roomy ==
    kills = 0 /\ Cardinality(Hangs) <= ResumeMax /\ Cardinality(Hangs) <= LineIds

\* Only checks that hang are struck, and none before those ahead of it are skipped.
InTurn ==
    /\ Struck(1) \cup Struck(2) \subseteq {c \in Hangs : c <= build.checks}
    /\ \A e \in Struck(1) \cup Struck(2), c \in Hangs : c < e => c \in Struck(2)

\* A run knows what has happened,
Learned ==
    phase \notin {"down", "load"} => skip = Struck(2) /\ watch = Struck(1)

\* passes a check that hangs only by skipping it,
Passed == InLoop => \A c \in Hangs : c < next => c \in Struck(2)

\* and has passed them all when it is over.
Through ==
    sink = None /\ tried /\ phase # "down" =>
        \A c \in Hangs : c <= build.checks => c \in Struck(2)

\* A file that nobody is writing teaches what has happened,
Teaching(p) ==
    sink = None =>
        /\ AtEnd(report[p]).skip = Struck(2) /\ AtEnd(report[p]).watch = Struck(1)
        /\ \/ report[p].here /\ Matches(report[p], build)
           \/ Struck(1) = {} /\ Struck(2) = {}

\* and one that is being written says so of the checks that are behind.
Telling(p) ==
    sink = p =>
        /\ report[p].here
        /\ InLoop => /\ report[p].watch = Struck(1)
                     /\ report[p].skip = {c \in Struck(2) : c < next}

Turns(p) ==
    Roomy => InTurn /\ Learned /\ Passed /\ Through /\ Teaching(p) /\ Telling(p)

OneSink(p) ==
    /\ sink \in {None, p}
    /\ phase \notin {"down", "load", "open"} => tried

\* A record is written whole or, where there is no sink, not at all.
LEMMA WholeWrite ==
    ASSUME NEW p \in Path, Genuine(p), TypeOK, sink \in {None, p},
           NEW whole, NEW torn, Write(whole, torn)
    PROVE  /\ sink' = sink
           /\ sink = None => report'[p] = report[p]
           /\ sink = p    => report'[p] = whole
<1>1. p # None
  BY DEF Path, None
<1>2. CASE sink = None
  BY <1>1, <1>2 DEF Write, Genuine
<1>3. CASE sink = p
  BY <1>1, <1>3 DEF Write, Genuine, TypeOK
<1>. QED
  BY <1>2, <1>3

\* A table of checks that hang has room for one more.
LEMMA RoomForOne ==
    ASSUME Cardinality(Hangs) <= ResumeMax, NEW s, s \subseteq Hangs, NEW c \in Hangs, c \notin s
    PROVE  ~(Cardinality(s) >= ResumeMax)
<1>1. IsFiniteSet(Check)
  BY FS_Interval, ConstantsAssumption DEF Check, ConstantsAssumption
<1>2. Hangs \subseteq Check
  BY DEF Hangs
<1>3. IsFiniteSet(Hangs)
  BY <1>1, <1>2, FS_Subset
<1>4. IsFiniteSet(s)
  BY <1>3, FS_Subset
<1>5. Cardinality(s \cup {c}) = Cardinality(s) + 1
  BY <1>4, FS_AddElement
<1>6. Cardinality(s \cup {c}) <= Cardinality(Hangs)
  <2>1. s \cup {c} \subseteq Hangs
    OBVIOUS
  <2>. QED
    BY <1>3, <2>1, FS_Subset
<1>7. Cardinality(s) \in Nat /\ Cardinality(Hangs) \in Nat /\ ResumeMax \in Nat
  BY <1>3, <1>4, FS_CardinalityType, ConstantsAssumption DEF ConstantsAssumption
<1>. QED
  BY <1>5, <1>6, <1>7

\* The resume record of checks that hang is read back as it was written.
LEMMA LineHoldsThem ==
    ASSUME Cardinality(Hangs) <= LineIds, NEW s, s \subseteq Hangs
    PROVE  ReadableIds(s) = {s}
<1>1. IsFiniteSet(Check)
  BY FS_Interval, ConstantsAssumption DEF Check, ConstantsAssumption
<1>2. IsFiniteSet(Hangs)
  <2>1. Hangs \subseteq Check
    BY DEF Hangs
  <2>. QED
    BY <1>1, <2>1, FS_Subset
<1>3. IsFiniteSet(s) /\ Cardinality(s) <= Cardinality(Hangs)
  BY <1>2, FS_Subset
<1>4. Cardinality(s) \in Nat /\ Cardinality(Hangs) \in Nat /\ LineIds \in Nat
  BY <1>2, <1>3, FS_CardinalityType, ConstantsAssumption DEF ConstantsAssumption
<1>. QED
  BY <1>3, <1>4 DEF ReadableIds

\* The end of a file, where the tables have room for the announced check.
LEMMA EndWithRoom ==
    ASSUME Cardinality(Hangs) <= ResumeMax, NEW d \in Digest, d.pending \in Hangs,
           d.skip \subseteq Hangs, d.watch \subseteq Hangs, d.pending \notin d.skip
    PROVE  /\ d.pending \in d.watch => /\ AtEnd(d).skip = d.skip \cup {d.pending}
                                       /\ AtEnd(d).watch = d.watch \ {d.pending}
           /\ d.pending \notin d.watch => /\ AtEnd(d).skip = d.skip
                                          /\ AtEnd(d).watch = d.watch \cup {d.pending}
<1>0. d.pending # None
  BY DEF Hangs, Check, None
<1>1. CASE d.pending \in d.watch
  <2>1. ~(Cardinality(d.skip) >= ResumeMax)
    BY RoomForOne
  <2>2. Remember(d, d.pending) = [d EXCEPT !.skip = @ \cup {d.pending}]
    BY <2>1 DEF Remember
  <2>. QED
    BY <1>0, <1>1, <2>2 DEF AtEnd, Digest
<1>2. CASE d.pending \notin d.watch
  <2>1. ~(Cardinality(d.watch) >= ResumeMax)
    BY <1>2, RoomForOne
  <2>2. WatchAdd(d, d.pending) = [d EXCEPT !.watch = @ \cup {d.pending}]
    BY <2>1 DEF WatchAdd
  <2>. QED
    BY <1>0, <1>2, <2>2 DEF AtEnd, Digest
<1>. QED
  BY <1>1, <1>2

\* A check that hangs can do nothing else.
LEMMA OnlyHangs ==
    ASSUME NEW p, Genuine(p), TypeOK, NEW c \in Check
    PROVE  /\ c \in Hangs => conduct[c] = {"stops"}
           /\ "quotes" \notin conduct[c]
BY DEF Genuine, HangsEveryTime, NothingQuotes, TypeOK, Hangs

\* Steps that strike no check leave what has happened as it is.
LEMMA Unstruck ==
    ASSUME UNCHANGED <<strikes, build, conduct>>
    PROVE  Struck(1)' = Struck(1) /\ Struck(2)' = Struck(2) /\ Hangs' = Hangs
BY DEF Struck, Hangs

\* A run that loads a file knows what the file teaches, or there was nothing to know.
LEMMA LoadTurns ==
    ASSUME NEW p \in Path, Genuine(p), TypeInv, Keeping, OneSink(p), Turns(p), ResumeLoad
    PROVE  Turns(p)' /\ OneSink(p)'
<1>1. /\ UNCHANGED <<report, sink, tried, build, strikes, conduct, kills, next>>
      /\ phase = "load" /\ phase' = "open" /\ sink = None
  BY DEF ResumeLoad, file, env, hist, Keeping, Headed
<1>2. OneSink(p)'
  BY <1>1 DEF OneSink
<1>3. SUFFICES ASSUME Roomy'
               PROVE  (InTurn /\ Learned /\ Passed /\ Through /\ Teaching(p) /\ Telling(p))'
  BY <1>2 DEF Turns
<1>4. Roomy /\ Struck(1)' = Struck(1) /\ Struck(2)' = Struck(2) /\ Hangs' = Hangs
  BY <1>1, <1>3, Unstruck DEF Roomy, Hangs
<1>5. InTurn /\ Through /\ Teaching(p)
  BY <1>4 DEF Turns
<1>6. skip' = Struck(2) /\ watch' = Struck(1)
  <2>1. CASE ~Matches(Previous, build)
    <3>1. ~(report[p].here /\ Matches(report[p], build))
      <4>. SUFFICES ASSUME report[p].here PROVE Previous = report[p]
        BY <2>1
      <4>1. Readable = {p}
        BY DEF Readable, Genuine, TypeInv, TypeOK
      <4>. QED
        BY <4>1, FirstOfOne DEF Previous
    <3>. QED
      BY <1>1, <1>5, <2>1, <3>1 DEF ResumeLoad, Teaching
  <2>2. CASE Matches(Previous, build)
    <3>1. Previous # Absent
      BY <2>2, ConstantsAssumption
         DEF Matches, Absent, None, TypeInv, TypeOK, ConstantsAssumption
    <3>2. Readable = {p}
      BY <3>1 DEF Previous, Readable, Genuine, TypeInv, TypeOK
    <3>3. Previous = report[p]
      BY <3>2, FirstOfOne DEF Previous
    <3>. QED
      BY <1>1, <1>5, <2>2, <3>3 DEF ResumeLoad, Teaching
  <2>. QED
    BY <2>1, <2>2
<1>7. (InTurn /\ Learned /\ Passed)'
  BY <1>1, <1>4, <1>5, <1>6 DEF InTurn, Learned, Passed, InLoop
<1>8. (Through /\ Teaching(p) /\ Telling(p))'
  BY <1>1, <1>4, <1>5 DEF Through, Teaching, Telling, Matches, None, Path
<1>. QED
  BY <1>7, <1>8

\* It truncates the file when it has learned what was in it.
LEMMA OpenTurns ==
    ASSUME NEW p \in Path, Genuine(p), TypeInv, Keeping, OneSink(p), Turns(p), SinkOpen
    PROVE  Turns(p)' /\ OneSink(p)'
<1>1. /\ phase = "open" /\ phase' = "meta" /\ tried' = TRUE /\ sink = None
      /\ UNCHANGED <<build, next, skip, watch, strikes, conduct, kills>>
  BY DEF SinkOpen, table, hist, Keeping, Headed
<1>2. media.write = {p} /\ First(media.write) = p
  BY FirstOfOne DEF Genuine, TypeInv, TypeOK
<1>3. /\ tried => UNCHANGED <<report, sink>>
      /\ ~tried => sink' = p /\ report'[p] = Truncated
  BY <1>2 DEF SinkOpen, file, TypeInv, TypeOK
<1>4. OneSink(p)'
  BY <1>1, <1>3 DEF OneSink
<1>5. SUFFICES ASSUME Roomy'
               PROVE  (InTurn /\ Learned /\ Passed /\ Through /\ Teaching(p) /\ Telling(p))'
  BY <1>4 DEF Turns
<1>6. Roomy /\ Struck(1)' = Struck(1) /\ Struck(2)' = Struck(2) /\ Hangs' = Hangs
  BY <1>1, <1>5, Unstruck DEF Roomy, Hangs
<1>7. InTurn /\ Learned /\ Through /\ Teaching(p)
  BY <1>6 DEF Turns
<1>8. (InTurn /\ Learned /\ Passed)'
  BY <1>1, <1>6, <1>7 DEF InTurn, Learned, Passed, InLoop
<1>9. (Through /\ Teaching(p) /\ Telling(p))'
  BY <1>1, <1>3, <1>6, <1>7
     DEF Through, Teaching, Telling, Matches, None, Path, InLoop, Truncated, Absent
<1>. QED
  BY <1>8, <1>9

\* The header says nothing of any check.
LEMMA HeaderTurns ==
    ASSUME NEW p \in Path, Genuine(p), TypeInv, Keeping, OneSink(p), Turns(p),
           ReportMeta \/ ReportBuild
    PROVE  Turns(p)' /\ OneSink(p)'
<1>1. /\ UNCHANGED <<tried, build, next, skip, watch, strikes, conduct, kills>>
      /\ phase \in {"meta", "build"} /\ phase' \in {"build", "resume"}
      /\ tried
  BY DEF ReportMeta, ReportBuild, env, table, OneSink
<1>2. /\ sink' = sink
      /\ sink = None => report'[p] = report[p]
      /\ sink = p => report'[p].here = report[p].here
  <2>0. report[p] \in Digest /\ TypeOK /\ sink \in {None, p}
    BY DEF TypeInv, TypeOK, OneSink
  <2>1. CASE ReportMeta
    BY <2>0, <2>1, WholeWrite DEF ReportMeta, ConsiderMeta, Digest
  <2>2. CASE ReportBuild
    BY <2>0, <2>2, WholeWrite DEF ReportBuild, ConsiderBuild, Digest
  <2>. QED
    BY <2>1, <2>2
<1>3. OneSink(p)'
  BY <1>1, <1>2 DEF OneSink
<1>4. SUFFICES ASSUME Roomy'
               PROVE  (InTurn /\ Learned /\ Passed /\ Through /\ Teaching(p) /\ Telling(p))'
  BY <1>3 DEF Turns
<1>5. Roomy /\ Struck(1)' = Struck(1) /\ Struck(2)' = Struck(2) /\ Hangs' = Hangs
  BY <1>1, <1>4, Unstruck DEF Roomy, Hangs
<1>6. InTurn /\ Learned /\ Through /\ Teaching(p) /\ Telling(p)
  BY <1>5 DEF Turns
<1>7. (InTurn /\ Learned /\ Passed)'
  BY <1>1, <1>5, <1>6 DEF InTurn, Learned, Passed, InLoop
<1>8. (Through /\ Teaching(p) /\ Telling(p))'
  BY <1>1, <1>2, <1>5, <1>6 DEF Through, Teaching, Telling, Matches, None, Path, InLoop
<1>. QED
  BY <1>7, <1>8

\* The resume record has the checks that were struck once, each of them.
LEMMA ResumeTurns ==
    ASSUME NEW p \in Path, Genuine(p), TypeInv, Keeping, OneSink(p), Turns(p), ReportResume
    PROVE  Turns(p)' /\ OneSink(p)'
<1>1. /\ UNCHANGED <<tried, build, skip, watch, strikes, conduct, kills>>
      /\ phase = "resume" /\ phase' = "loop" /\ next' = 1 /\ tried
  BY DEF ReportResume, env, table, OneSink
<1>2. PICK ids \in ReadableIds(watch) :
         Write(ConsiderResume(report[sink], ids),
               {ConsiderResume(report[sink], s) : s \in UNION {CutLists(watch, n) : n \in 0..LineIds}})
  BY DEF ReportResume
<1>3. /\ sink' = sink
      /\ sink = None => report'[p] = report[p]
      /\ sink = p => report'[p] = ConsiderResume(report[p], ids)
  BY <1>2, WholeWrite DEF TypeInv, OneSink
<1>4. OneSink(p)'
  BY <1>1, <1>3 DEF OneSink
<1>5. SUFFICES ASSUME Roomy'
               PROVE  (InTurn /\ Learned /\ Passed /\ Through /\ Teaching(p) /\ Telling(p))'
  BY <1>4 DEF Turns
<1>6. Roomy /\ Struck(1)' = Struck(1) /\ Struck(2)' = Struck(2) /\ Hangs' = Hangs
  BY <1>1, <1>5, Unstruck DEF Roomy, Hangs
<1>7. InTurn /\ Learned /\ Through /\ Teaching(p) /\ Telling(p)
  BY <1>6 DEF Turns
<1>8. ids = Struck(1)
  <2>1. watch = Struck(1)
    BY <1>1, <1>7 DEF Learned
  <2>2. Struck(1) \subseteq Hangs
    BY <1>7 DEF InTurn
  <2>. QED
    BY <1>2, <1>6, <2>1, <2>2, LineHoldsThem DEF Roomy
<1>9. (InTurn /\ Learned /\ Passed)'
  BY <1>1, <1>6, <1>7 DEF InTurn, Learned, Passed, InLoop, Hangs, Check
<1>10. Telling(p)'
  <2>. SUFFICES ASSUME sink = p
                PROVE  /\ report'[p].here
                       /\ report'[p].watch = Struck(1) /\ report'[p].skip = {}
    BY <1>1, <1>3, <1>6 DEF Telling, Struck, Check
  <2>1. report[p] \in Digest /\ report[p].here
    BY <1>7 DEF Telling, TypeInv, TypeOK
  <2>2. report[p].watch = {} /\ report[p].skip = {}
    <3>1. sink # None
      BY DEF None, Path
    <3>. QED
      BY <1>1, <3>1 DEF Keeping, Headed
  <2>. QED
    BY <1>3, <1>8, <2>1, <2>2 DEF ConsiderResume, Digest
<1>11. (Through /\ Teaching(p))'
  BY <1>1, <1>3, <1>6, <1>7 DEF Through, Teaching, Matches
<1>. QED
  BY <1>9, <1>10, <1>11

\* A result of the check the loop is at: of one that is skipped again, or of one that
\* does not hang.
LEMMA ResultTurns ==
    ASSUME NEW p \in Path, Genuine(p), TypeInv, Keeping, OneSink(p), Turns(p),
           InLoop, next \in Check, NEW marked \in BOOLEAN, ReportResult(marked),
           next' = next + 1, phase' = "loop",
           marked <=> next \in skip, ~marked => next \notin Hangs,
           UNCHANGED <<tried, build, skip, watch, conduct, kills>>,
           Roomy => Struck(1)' = Struck(1) /\ Struck(2)' = Struck(2)
    PROVE  Turns(p)' /\ OneSink(p)'
<1>1. /\ sink' = sink
      /\ sink = None => report'[p] = report[p]
      /\ sink = p => report'[p] = ConsiderRes(report[p], next, marked)
  BY WholeWrite DEF TypeInv, OneSink, ReportResult
<1>2. OneSink(p)'
  BY <1>1 DEF OneSink, InLoop
<1>3. SUFFICES ASSUME Roomy'
               PROVE  (InTurn /\ Learned /\ Passed /\ Through /\ Teaching(p) /\ Telling(p))'
  BY <1>2 DEF Turns
<1>4. Roomy /\ Struck(1)' = Struck(1) /\ Struck(2)' = Struck(2) /\ Hangs' = Hangs
  BY <1>3 DEF Roomy, Hangs
<1>5. InTurn /\ Learned /\ Passed /\ Through /\ Teaching(p) /\ Telling(p)
  BY <1>4 DEF Turns
<1>6. skip = Struck(2) /\ watch = Struck(1) /\ next \notin Struck(1)
  <2>1. skip = Struck(2) /\ watch = Struck(1)
    BY <1>5 DEF Learned, InLoop
  <2>. QED
    BY <1>5, <2>1 DEF InTurn, Struck
<1>7. next \in Nat /\ Hangs \subseteq Nat /\ Struck(2) \subseteq Nat
  BY DEF Check, Hangs, Struck
<1>8. (InTurn /\ Learned)'
  BY <1>4, <1>5, <1>6 DEF InTurn, Learned
<1>9. Passed'
  <2>. SUFFICES ASSUME NEW c \in Hangs, c < next + 1 PROVE c \in Struck(2)
    BY <1>4 DEF Passed
  <2>1. CASE c = next
    BY <1>6, <2>1
  <2>2. CASE c # next
    BY <1>5, <1>7, <2>2 DEF Passed
  <2>. QED
    BY <2>1, <2>2
<1>10. (Through /\ Teaching(p))'
  BY <1>1, <1>4, <1>5 DEF Through, Teaching, Matches, InLoop
<1>11. Telling(p)'
  <2>. SUFFICES ASSUME sink = p
                PROVE  /\ report'[p].here
                       /\ report'[p].watch = Struck(1)
                       /\ report'[p].skip = {c \in Struck(2) : c < next + 1}
    BY <1>1, <1>4 DEF Telling
  <2>. DEFINE d == report[p]
              r == [d EXCEPT !.pending = None, !.watch = @ \ {next}]
  <2>1. /\ d \in Digest /\ d.here
        /\ d.watch = Struck(1) /\ d.skip = {c \in Struck(2) : c < next}
    BY <1>5 DEF Telling, TypeInv, TypeOK
  <2>2. r.here /\ r.watch = Struck(1) /\ r.skip = d.skip
    BY <1>6, <2>1 DEF Digest
  <2>3. CASE marked
    <3>1. d.skip \subseteq Hangs /\ next \in Hangs /\ next \notin d.skip
      BY <1>5, <1>6, <1>7, <2>1, <2>3 DEF InTurn
    <3>2. ~(Cardinality(r.skip) >= ResumeMax)
      BY <1>4, <2>2, <3>1, RoomForOne DEF Roomy
    <3>3. report'[p] = [r EXCEPT !.skip = @ \cup {next}]
      BY <1>1, <2>3, <3>2 DEF ConsiderRes, Remember
    <3>4. report'[p].here /\ report'[p].watch = Struck(1)
          /\ report'[p].skip = d.skip \cup {next}
      BY <2>1, <2>2, <3>3 DEF Digest
    <3>5. d.skip \cup {next} = {c \in Struck(2) : c < next + 1}
      BY <1>6, <1>7, <2>1, <2>3
    <3>. QED
      BY <3>4, <3>5
  <2>4. CASE ~marked
    <3>1. report'[p] = r
      BY <1>1, <2>4 DEF ConsiderRes
    <3>2. d.skip = {c \in Struck(2) : c < next + 1}
      BY <1>6, <1>7, <2>1, <2>4
    <3>. QED
      BY <2>2, <3>1, <3>2
  <2>. QED
    BY <2>3, <2>4
<1>. QED
  BY <1>8, <1>9, <1>10, <1>11

LEMMA SkipTurns ==
    ASSUME NEW p \in Path, Genuine(p), TypeInv, Keeping, OneSink(p), Turns(p), SkipLearned
    PROVE  Turns(p)' /\ OneSink(p)'
<1>1. next \in Check
  BY NextIsCheck DEF SkipLearned, TypeInv
<1>2. /\ InLoop /\ ReportResult(TRUE) /\ next \in skip /\ next' = next + 1 /\ phase' = "loop"
      /\ UNCHANGED <<tried, build, skip, watch, conduct, kills, strikes>>
  BY DEF SkipLearned, AtCheck, InLoop, env, table
<1>. QED
  BY <1>1, <1>2, Unstruck, ResultTurns

LEMMA DeclineTurns ==
    ASSUME NEW p \in Path, Genuine(p), TypeInv, Keeping, OneSink(p), Turns(p), Decline
    PROVE  Turns(p)' /\ OneSink(p)'
<1>1. next \in Check
  BY NextIsCheck DEF Decline, TypeInv
<1>2. /\ InLoop /\ ReportResult(FALSE) /\ next \notin skip /\ next' = next + 1
      /\ phase' = "loop"
      /\ UNCHANGED <<tried, build, skip, watch, conduct, kills, strikes>>
  BY DEF Decline, AtCheck, InLoop, env, table
<1>3. next \notin Hangs
  BY <1>1, OnlyHangs DEF Decline, TypeInv
<1>. QED
  BY <1>1, <1>2, <1>3, Unstruck, ResultTurns

\* What answers was not struck.
LEMMA AnswerTurns ==
    ASSUME NEW p \in Path, Genuine(p), TypeInv, Keeping, OneSink(p), Turns(p), Answer
    PROVE  Turns(p)' /\ OneSink(p)'
<1>1. /\ phase = "attempt" /\ next \in Check /\ next \notin skip
      /\ "answers" \in conduct[next] \/ "quotes" \in conduct[next]
  BY DEF Answer, TypeInv, Keeping, Attempting
<1>2. next \notin Hangs /\ "quotes" \notin conduct[next]
  BY <1>1, OnlyHangs DEF TypeInv
<1>3. /\ InLoop /\ ReportResult(FALSE) /\ next' = next + 1 /\ phase' = "loop"
      /\ UNCHANGED <<tried, build, skip, watch, conduct, kills>>
      /\ strikes' = [strikes EXCEPT ![build][next] = 0]
  BY <1>1, <1>2 DEF Answer, InLoop, env, table
<1>4. ASSUME Roomy PROVE Struck(1)' = Struck(1) /\ Struck(2)' = Struck(2)
  <2>1. next \notin Struck(1) /\ next \notin Struck(2)
    BY <1>2, <1>4 DEF Turns, InTurn
  <2>2. \A c \in Check : strikes'[build'][c] = IF c = next THEN 0 ELSE strikes[build][c]
    BY <1>1, <1>3 DEF TypeInv, TypeOK
  <2>. QED
    BY <1>1, <2>1, <2>2 DEF Struck
<1>. QED
  BY <1>1, <1>2, <1>3, <1>4, ResultTurns

\* An announcement leaves the tables of the file alone.
LEMMA AttemptTurns ==
    ASSUME NEW p \in Path, Genuine(p), TypeInv, Keeping, OneSink(p), Turns(p), Attempt
    PROVE  Turns(p)' /\ OneSink(p)'
<1>1. /\ UNCHANGED <<tried, build, next, skip, watch, conduct, kills, strikes>>
      /\ phase = "loop" /\ phase' = "attempt"
  BY DEF Attempt, AtCheck, env, table
<1>2. /\ sink' = sink
      /\ sink = None => report'[p] = report[p]
      /\ sink = p => report'[p] = ConsiderTry(report[p], next)
  BY WholeWrite DEF Attempt, TypeInv, OneSink
<1>3. OneSink(p)'
  BY <1>1, <1>2 DEF OneSink
<1>4. SUFFICES ASSUME Roomy'
               PROVE  (InTurn /\ Learned /\ Passed /\ Through /\ Teaching(p) /\ Telling(p))'
  BY <1>3 DEF Turns
<1>5. Roomy /\ Struck(1)' = Struck(1) /\ Struck(2)' = Struck(2) /\ Hangs' = Hangs
  BY <1>1, <1>4, Unstruck DEF Roomy, Hangs
<1>6. InTurn /\ Learned /\ Passed /\ Through /\ Teaching(p) /\ Telling(p)
  BY <1>5 DEF Turns
<1>7. (InTurn /\ Learned /\ Passed)'
  BY <1>1, <1>5, <1>6 DEF InTurn, Learned, Passed, InLoop
<1>8. (Through /\ Teaching(p))'
  BY <1>1, <1>2, <1>5, <1>6 DEF Through, Teaching, Matches
<1>9. Telling(p)'
  <2>1. sink = p => /\ report'[p].here = report[p].here
                    /\ report'[p].watch = report[p].watch
                    /\ report'[p].skip = report[p].skip
    BY <1>2 DEF ConsiderTry, TypeInv, TypeOK, Digest
  <2>. QED
    BY <1>1, <1>2, <1>5, <1>6, <2>1 DEF Telling, InLoop
<1>. QED
  BY <1>7, <1>8, <1>9

\* A file that is closed at the end has every check that hangs.
LEMMA FinishTurns ==
    ASSUME NEW p \in Path, Genuine(p), TypeInv, Keeping, OneSink(p), Turns(p), Finish
    PROVE  Turns(p)' /\ OneSink(p)'
<1>1. /\ UNCHANGED <<report, tried, build, next, skip, watch, conduct, kills, strikes>>
      /\ phase = "loop" /\ phase' = "idle" /\ sink' = None /\ next > build.checks
  BY DEF Finish, env, table, hist
<1>2. OneSink(p)'
  BY <1>1 DEF OneSink
<1>3. SUFFICES ASSUME Roomy'
               PROVE  (InTurn /\ Learned /\ Passed /\ Through /\ Teaching(p) /\ Telling(p))'
  BY <1>2 DEF Turns
<1>4. Roomy /\ Struck(1)' = Struck(1) /\ Struck(2)' = Struck(2) /\ Hangs' = Hangs
  BY <1>1, <1>3, Unstruck DEF Roomy, Hangs
<1>5. InTurn /\ Learned /\ Passed /\ Through /\ Teaching(p) /\ Telling(p)
  BY <1>4 DEF Turns
<1>6. (InTurn /\ Learned /\ Passed)'
  BY <1>1, <1>4, <1>5 DEF InTurn, Learned, Passed, InLoop
<1>7. build.checks \in Nat /\ next \in Nat /\ Hangs \subseteq Nat
  <2>1. build.checks \in Nat
    BY CountsOfBuild DEF TypeInv
  <2>2. next \in Nat
    BY ConstantsAssumption DEF TypeInv, TypeOK, ConstantsAssumption
  <2>3. Hangs \subseteq Nat
    BY DEF Hangs, Check
  <2>. QED
    BY <2>1, <2>2, <2>3
<1>8. \A c \in Hangs : c <= build.checks => c \in Struck(2)
  BY <1>1, <1>5, <1>7 DEF Passed, InLoop
<1>9. \A c \in Struck(2) : c < next
  <2>. SUFFICES ASSUME NEW c \in Struck(2) PROVE c < next
    OBVIOUS
  <2>1. c \in Hangs /\ c <= build.checks
    BY <1>5 DEF InTurn
  <2>. QED
    BY <1>1, <1>7, <2>1
<1>10. Teaching(p)'
  <2>1. CASE sink = None
    BY <1>1, <1>4, <1>5, <2>1 DEF Teaching, Matches
  <2>2. CASE sink = p
    <3>1. /\ report[p].here /\ report[p].watch = Struck(1) /\ report[p].skip = Struck(2)
      BY <1>1, <1>5, <1>9, <2>2 DEF Telling, InLoop
    <3>2. p # None
      BY DEF Path, None
    <3>3. report[p].pending = None /\ Matches(report[p], build)
      BY <1>1, <2>2, <3>2 DEF Keeping, Headed, Following, InLoop, Matches
    <3>4. AtEnd(report[p]) = report[p]
      BY <3>3 DEF AtEnd
    <3>. QED
      BY <1>1, <1>4, <3>1, <3>3, <3>4 DEF Teaching, Matches
  <2>. QED
    BY <2>1, <2>2 DEF OneSink
<1>11. (Through /\ Telling(p))'
  BY <1>1, <1>4, <1>8 DEF Through, Telling, None, Path
<1>. QED
  BY <1>6, <1>10, <1>11

\* A check that stops the process is struck, and the file it leaves says so.
LEMMA StopTurns ==
    ASSUME NEW p \in Path, Genuine(p), TypeInv, Keeping, OneSink(p), Turns(p), StopInCheck
    PROVE  Turns(p)' /\ OneSink(p)'
<1>1. /\ UNCHANGED <<report, tried, build, next, skip, watch, conduct, kills>>
      /\ phase = "attempt" /\ phase' = "down" /\ sink' = None
      /\ strikes' = [strikes EXCEPT ![build][next] = IF @ < 2 THEN @ + 1 ELSE @]
  BY DEF StopInCheck, Down, env, table, StrikeCap
<1>2. OneSink(p)'
  BY <1>1 DEF OneSink
<1>3. SUFFICES ASSUME Roomy'
               PROVE  (InTurn /\ Learned /\ Passed /\ Through /\ Teaching(p) /\ Telling(p))'
  BY <1>2 DEF Turns
<1>4. Roomy /\ Hangs' = Hangs
  BY <1>1, <1>3 DEF Roomy, Hangs
<1>5. InTurn /\ Learned /\ Passed /\ Through /\ Telling(p)
  BY <1>4 DEF Turns
<1>6. next \in Hangs /\ next <= build.checks /\ next \notin Struck(2)
  <2>1. next \in Check /\ "stops" \in conduct[next]
    BY <1>1 DEF TypeInv, StopInCheck
  <2>2. next \in 1..build.checks /\ next \notin skip
    BY <1>1 DEF Keeping, Attempting
  <2>3. build.checks \in Nat
    BY CountsOfBuild DEF TypeInv
  <2>. QED
    BY <1>1, <1>5, <2>1, <2>2, <2>3 DEF Hangs, Learned
<1>7. sink = p
  BY <1>1, <1>5, <1>6 DEF Through, OneSink
\* None beyond it has been struck.
<1>8. /\ Hangs \subseteq Nat /\ next \in Nat
      /\ \A e \in Struck(1) \cup Struck(2) : e <= next
      /\ \A c \in Hangs : c < next => c \in Struck(2)
      /\ Struck(1) \subseteq Hangs /\ Struck(2) \subseteq Hangs
  <2>1. Hangs \subseteq Nat
    BY DEF Hangs, Check
  <2>2. Struck(1) \subseteq Hangs /\ Struck(2) \subseteq Hangs
    BY <1>5 DEF InTurn
  <2>3. \A e \in Struck(1) \cup Struck(2) : ~(next < e)
    BY <1>5, <1>6 DEF InTurn
  <2>. QED
    BY <1>1, <1>5, <1>6, <2>1, <2>2, <2>3 DEF Passed, InLoop
<1>9. /\ next \in Struck(1) => /\ Struck(1)' = Struck(1) \ {next}
                               /\ Struck(2)' = Struck(2) \cup {next}
      /\ next \notin Struck(1) => /\ Struck(1)' = Struck(1) \cup {next}
                                  /\ Struck(2)' = Struck(2)
  <2>1. /\ strikes \in [Builds -> [Check -> 0..2]] /\ build \in Builds /\ next \in Check
    BY <1>1 DEF TypeInv, TypeOK, StrikeCap
  <2>2. \A c \in Check : strikes'[build'][c] =
           IF c = next THEN IF strikes[build][c] < 2 THEN strikes[build][c] + 1
                                                     ELSE strikes[build][c]
                       ELSE strikes[build][c]
    BY <1>1, <2>1
  <2>3. strikes[build][next] \in 0..2 /\ strikes[build][next] # 2
    BY <1>6, <2>1 DEF Struck
  <2>4. CASE next \in Struck(1)
    <3>1. strikes[build][next] = 1
      BY <2>4 DEF Struck
    <3>2. \A c \in Check : strikes'[build'][c] = IF c = next THEN 2 ELSE strikes[build][c]
      BY <2>2, <3>1
    <3>. QED
      BY <2>1, <2>4, <3>1, <3>2 DEF Struck
  <2>5. CASE next \notin Struck(1)
    <3>1. strikes[build][next] = 0
      BY <2>1, <2>3, <2>5 DEF Struck
    <3>2. \A c \in Check : strikes'[build'][c] = IF c = next THEN 1 ELSE strikes[build][c]
      BY <2>2, <3>1
    <3>. QED
      BY <2>1, <2>5, <3>1, <3>2 DEF Struck
  <2>. QED
    BY <2>4, <2>5
<1>10. InTurn'
  <2>1. (Struck(1) \cup Struck(2))' = Struck(1) \cup Struck(2) \cup {next}
    BY <1>9
  <2>2. Struck(2) \subseteq Struck(2)'
    BY <1>9
  <2>3. \A e \in Struck(1) \cup Struck(2) \cup {next}, c \in Hangs : c < e => c \in Struck(2)
    BY <1>5, <1>8 DEF InTurn
  <2>4. Struck(1) \cup Struck(2) \cup {next} \subseteq {c \in Hangs : c <= build.checks}
    BY <1>5, <1>6 DEF InTurn
  <2>. QED
    BY <1>1, <1>4, <2>1, <2>2, <2>3, <2>4 DEF InTurn
<1>11. Teaching(p)'
  <2>. DEFINE d == report[p]
  <2>0. p # None
    BY DEF Path, None
  <2>1. d \in Digest
    BY DEF TypeInv, TypeOK
  <2>2. d.pending = next /\ Matches(d, build)
    BY <1>1, <1>7, <2>0 DEF Keeping, Headed, Following, InLoop, Matches
  <2>3. d.here /\ d.watch = Struck(1) /\ d.skip = {c \in Struck(2) : c < next}
    BY <1>1, <1>5, <1>7 DEF Telling, InLoop
  <2>4. d.skip = Struck(2)
    <3>1. ASSUME NEW e \in Struck(2) PROVE e < next
      <4>1. e \in Nat /\ e # next /\ e <= next
        BY <1>6, <1>8
      <4>. QED
        BY <1>8, <4>1
    <3>. QED
      BY <2>3, <3>1
  <2>5. /\ next \in d.watch => /\ AtEnd(d).skip = d.skip \cup {next}
                               /\ AtEnd(d).watch = d.watch \ {next}
        /\ next \notin d.watch => /\ AtEnd(d).skip = d.skip
                                  /\ AtEnd(d).watch = d.watch \cup {next}
    <3>1. d.pending \in Hangs /\ d.pending \notin d.skip
      BY <1>6, <2>2, <2>4
    <3>2. d.skip \subseteq Hangs /\ d.watch \subseteq Hangs
      BY <1>8, <2>3, <2>4
    <3>3. Cardinality(Hangs) <= ResumeMax
      BY <1>4 DEF Roomy
    <3>. HIDE DEF d
    <3>4. d.pending = next
      BY <2>2
    <3>. QED
      BY <2>1, <3>1, <3>2, <3>3, <3>4, EndWithRoom
  <2>6. AtEnd(d).skip = Struck(2)' /\ AtEnd(d).watch = Struck(1)'
    BY <1>9, <2>3, <2>4, <2>5
  <2>. QED
    BY <1>1, <2>2, <2>3, <2>6 DEF Teaching, Matches
<1>12. (Learned /\ Passed /\ Through /\ Telling(p))'
  BY <1>1 DEF Learned, Passed, InLoop, Through, Telling, None, Path
<1>. QED
  BY <1>10, <1>11, <1>12

\* Where no check runs, a process ends without a strike.
LEMMA ExitTurns ==
    ASSUME NEW p \in Path, Genuine(p), TypeInv, Keeping, OneSink(p), Turns(p), Exit
    PROVE  Turns(p)' /\ OneSink(p)'
<1>1. /\ UNCHANGED <<report, tried, build, next, skip, watch, conduct, kills, strikes>>
      /\ phase = "idle" /\ phase' = "down" /\ sink' = None
  BY DEF Exit, Down, env, table
<1>2. sink = None
  BY <1>1 DEF Keeping, Headed
<1>3. OneSink(p)'
  BY <1>1 DEF OneSink
<1>4. SUFFICES ASSUME Roomy'
               PROVE  (InTurn /\ Learned /\ Passed /\ Through /\ Teaching(p) /\ Telling(p))'
  BY <1>3 DEF Turns
<1>5. Roomy /\ Struck(1)' = Struck(1) /\ Struck(2)' = Struck(2) /\ Hangs' = Hangs
  BY <1>1, <1>4, Unstruck DEF Roomy, Hangs
<1>6. InTurn /\ Teaching(p)
  BY <1>5 DEF Turns
<1>. QED
  BY <1>1, <1>2, <1>5, <1>6
     DEF InTurn, Learned, Passed, InLoop, Through, Teaching, Telling, Matches, None, Path

LEMMA KillTurns ==
    ASSUME NEW p \in Path, TypeInv, OneSink(p), Kill
    PROVE  Turns(p)' /\ OneSink(p)'
<1>1. kills' # 0
  BY ConstantsAssumption DEF Kill, TypeInv, TypeOK, ConstantsAssumption
<1>2. phase' = "down" /\ sink' = None
  BY DEF Kill, Down
<1>. QED
  BY <1>1, <1>2 DEF Turns, Roomy, OneSink

\* A process starts, or serves again, with what the file has to teach it.
LEMMA BootTurns ==
    ASSUME NEW p \in Path, Genuine(p), TypeInv, Keeping, OneSink(p), Turns(p),
           Boot \/ RunAgain
    PROVE  Turns(p)' /\ OneSink(p)'
<1>1. /\ UNCHANGED <<report, build, conduct, kills, strikes>>
      /\ phase \in {"down", "idle"} /\ phase' = "load" /\ sink' = None /\ sink = None
      /\ tried' => tried /\ phase = "idle"
  <2>1. build' = build
    BY DEF Boot, RunAgain, env, Genuine, OneBuildOnly, TypeInv, TypeOK
  <2>. QED
    BY <2>1 DEF Boot, RunAgain, file, env, hist, Keeping, Headed
<1>2. OneSink(p)'
  BY <1>1 DEF OneSink
<1>3. SUFFICES ASSUME Roomy'
               PROVE  (InTurn /\ Learned /\ Passed /\ Through /\ Teaching(p) /\ Telling(p))'
  BY <1>2 DEF Turns
<1>4. Roomy /\ Struck(1)' = Struck(1) /\ Struck(2)' = Struck(2) /\ Hangs' = Hangs
  BY <1>1, <1>3, Unstruck DEF Roomy, Hangs
<1>5. InTurn /\ Through /\ Teaching(p)
  BY <1>4 DEF Turns
<1>. QED
  BY <1>1, <1>4, <1>5
     DEF InTurn, Learned, Passed, InLoop, Through, Teaching, Telling, Matches, None, Path

LEMMA TurnsHold ==
    ASSUME NEW p \in Path, Genuine(p)
    PROVE  Spec => [](Turns(p) /\ OneSink(p))
<1>1. Init => Turns(p) /\ OneSink(p)
  <2>. SUFFICES ASSUME Init PROVE Turns(p) /\ OneSink(p)
    OBVIOUS
  <2>1. OneSink(p)
    BY DEF Init, OneSink
  <2>2. Struck(1) = {} /\ Struck(2) = {}
    BY DEF Init, Struck
  <2>3. AtEnd(report[p]).skip = {} /\ AtEnd(report[p]).watch = {}
    BY DEF Init, AtEnd, Absent
  <2>4. InTurn
    BY <2>2 DEF InTurn
  <2>5. Learned /\ Passed /\ Through
    BY DEF Init, Learned, Passed, InLoop, Through
  <2>6. Teaching(p)
    BY <2>2, <2>3 DEF Teaching
  <2>7. Telling(p)
    BY DEF Init, Telling, None, Path
  <2>. QED
    BY <2>1, <2>4, <2>5, <2>6, <2>7 DEF Turns
<1>2. TypeInv /\ Keeping /\ Turns(p) /\ OneSink(p) /\ [Next]_vars => (Turns(p) /\ OneSink(p))'
  <2>. SUFFICES ASSUME TypeInv, Keeping, Turns(p), OneSink(p), [Next]_vars
                PROVE  (Turns(p) /\ OneSink(p))'
    OBVIOUS
  <2>1. CASE Run
    BY <2>1, LoadTurns, OpenTurns, HeaderTurns, ResumeTurns, SkipTurns, DeclineTurns,
       AttemptTurns, AnswerTurns, FinishTurns DEF Run
  <2>2. CASE Boot \/ RunAgain
    BY <2>2, BootTurns
  <2>3. CASE StopInCheck \/ Kill \/ Exit
    BY <2>3, StopTurns, KillTurns, ExitTurns
  <2>4. CASE UNCHANGED vars
    <3>1. Struck(1)' = Struck(1) /\ Struck(2)' = Struck(2) /\ Hangs' = Hangs /\ Roomy' = Roomy
      BY <2>4, Unstruck DEF vars, Roomy, Hangs
    <3>. QED
      BY <2>4, <3>1
         DEF vars, Turns, OneSink, InTurn, Learned, Passed, InLoop, Through, Teaching, Telling,
             Matches
  <2>. QED
    BY <2>1, <2>2, <2>3, <2>4 DEF Next
<1>. QED
  BY <1>1, <1>2, TypesInductive, KeepingHolds, PTL DEF Spec

\* "A genuine hang ... is skipped on the second run" (sink.c:332): where one binary
\* writes one file, a check that may stop always does, and none quotes the loader, no
\* check is attempted after two strikes, for as long as nobody kills a run and the
\* tables have room for the checks that hang.
THEOREM HangsSkippedAtTwo ==
    ASSUME NothingQuotes, HangsEveryTime, OneBuildOnly, OneSteadyFile
    PROVE  Spec => []HangsAreSkipped
<1>1. PICK p \in Path : Genuine(p)
  BY DEF OneSteadyFile, Genuine
<1>2. TypeInv /\ Keeping /\ Turns(p) => HangsAreSkipped
  <2>. SUFFICES ASSUME TypeInv, Keeping, Turns(p), Roomy, phase = "attempt"
                PROVE  strikes[build][next] < 2
    BY DEF HangsAreSkipped, NoThirdAttempt, Roomy, Hangs
  <2>1. next \in Check /\ next \notin skip
    BY DEF TypeInv, Keeping, Attempting
  <2>2. strikes[build][next] \in 0..2
    BY <2>1 DEF TypeInv, TypeOK, StrikeCap
  <2>3. strikes[build][next] # 2
    BY <2>1 DEF Turns, Learned, Struck
  <2>. QED
    BY <2>2, <2>3
<1>. QED
  BY <1>1, <1>2, TurnsHold, TypesInductive, KeepingHolds, PTL
=============================================================================
