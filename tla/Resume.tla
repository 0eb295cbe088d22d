------------------------------- MODULE Resume -------------------------------
(***************************************************************************)
(* The probe over many runs: src/probe/sink.c, and the part of             *)
(* obs_run_all (src/probe/harness.c) that reads and writes it.             *)
(*                                                                         *)
(* A run writes its report record by record and may stop at any of them: a *)
(* check hangs or crashes, somebody kills the process, the disk fills.     *)
(* The next run reads that report before truncating it and learns which    *)
(* checks to skip (twice in flight when the process stopped) and which to  *)
(* watch (once).  The report is the only thing that survives a run.        *)
(*                                                                         *)
(* A file is represented by what obs_resume_consider makes of its records: *)
(* the loader reads a file with a left fold, so a file and the fold of its *)
(* records so far are the same thing to it.                                *)
(***************************************************************************)
EXTENDS Integers, FiniteSets

CONSTANTS
    NChecks,    \* how many checks the largest build registers
    Builds,     \* the binaries that take turns: records [id, target, checks]
    Conducts,   \* what the platform may be like: functions giving for each check
                \* the outcomes it may have when the loop reaches it
    NPaths,     \* how many candidate paths obs_sink_paths lists
    Media,      \* what a boot may find: records [read, write] of sets of paths
    Faults,     \* the faults of the environment this instance allows
    ResumeMax,  \* OBS_RESUME_MAX, the capacity of the skip and watch tables
    LineIds,    \* how many whole ids of a resume record the line buffer holds
    Prefixes,   \* pairs of checks: the first one's id is a prefix of the second's
    MaxKills    \* bound: how often the process is killed from outside

None  == 0      \* no id, no path, no build
Stump == -1     \* an id that lost its tail and names no check

\* obs_sink_paths is tried in order: the first of a set of paths is its least.
First(paths) == CHOOSE p \in paths : \A q \in paths : p <= q

Check    == 1..NChecks
Id       == Check \cup {Stump}
Path     == 1..NPaths
Outcome  == {"answers", "quotes", "stops", "declined"}
Fault    == {"kill", "write"}
StrikeCap == 2  \* bound: consecutive strikes and sightings are counted to two

ASSUME ConstantsAssumption ==
    /\ NChecks \in Nat \ {0} /\ NPaths \in Nat \ {0}
    /\ ResumeMax \in Nat \ {0} /\ LineIds \in Nat /\ MaxKills \in Nat
    /\ \A b \in Builds : b.id \in Nat \ {0} /\ b.checks \in Check
    /\ Conducts \subseteq [Check -> SUBSET Outcome]
    /\ \A m \in Media : m.read \subseteq Path /\ m.write \subseteq Path
    /\ Faults \subseteq Fault
    /\ Prefixes \subseteq Check \X Check

VARIABLES
    report,     \* [Path -> Digest]: what the file at each path says
    sink,       \* obs_sink_fd: the path open for writing, or None
    tried,      \* obs_sink_tried
    phase,      \* where obs_run_all is, or "down"
    build,      \* the binary that is running (the last one, when down)
    media,      \* the paths this boot can read and write
    conduct,    \* the platform's conduct, one of Conducts and never changed
    next,       \* the check the loop has reached
    skip,       \* obs_resume_ids
    watch,      \* obs_resume_watch
    full,       \* obs_resume_full
    kills,      \* how many kills have been spent
    strikes,    \* history: consecutive attempts of a check that did not end
    sightings   \* history: how often a report's last word was this check

table == <<skip, watch, full>>
file  == <<report, sink>>
env   == <<tried, build, media, conduct>>
hist  == <<strikes, sightings>>
vars  == <<report, sink, tried, phase, build, media, conduct, next, skip, watch, full,
           kills, strikes, sightings>>

-----------------------------------------------------------------------------
(* What the loader makes of a file, record by record (obs_resume_consider). *)

Digest == [here: BOOLEAN, id: Nat, checks: Nat, pending: Id \cup {None},
           watch: SUBSET Id, skip: SUBSET Id, full: BOOLEAN]

Absent == [here |-> FALSE, id |-> None, checks |-> 0, pending |-> None,
           watch |-> {}, skip |-> {}, full |-> FALSE]

Truncated == [Absent EXCEPT !.here = TRUE]

\* obs_resume_remember: the capacity is tested before the duplicate.
Remember(d, c) ==
    IF Cardinality(d.skip) >= ResumeMax
    THEN [d EXCEPT !.full = TRUE]
    ELSE [d EXCEPT !.skip = @ \cup {c}]

\* obs_resume_watch_add: a full table drops the id and says nothing.
WatchAdd(d, c) ==
    IF Cardinality(d.watch) >= ResumeMax
    THEN d
    ELSE [d EXCEPT !.watch = @ \cup {c}]

ConsiderMeta(d, n)   == [d EXCEPT !.checks = n]
ConsiderBuild(d, id) == [d EXCEPT !.id = id]
ConsiderTry(d, c)    == [d EXCEPT !.pending = c]

\* Mutant: an answer leaves the id under watch, so two failures ever are enough.
AnswerKeepsWatch(d, c, marked) ==
    LET answered == [d EXCEPT !.pending = None]
    IN  IF marked THEN Remember(answered, c) ELSE answered

\* Mutant: an answer leaves the announcement standing.
AnswerKeepsPending(d, c, marked) ==
    LET answered == [d EXCEPT !.watch = @ \ {c}]
    IN  IF marked THEN Remember(answered, c) ELSE answered

\* `marked`: the line contains "did not ret" somewhere after the id.
ConsiderRes(d, c, marked) ==
    LET answered == [d EXCEPT !.pending = None, !.watch = @ \ {c}]
    IN  IF marked THEN Remember(answered, c) ELSE answered

\* The record comes first in a run, from a table of the same capacity, so every
\* id it carries fits.
ConsiderResume(d, ids) == [d EXCEPT !.watch = @ \cup ids]

\* Mutant: the first sighting is believed.
SkipAtFirstSight(d) ==
    IF d.pending = None THEN d ELSE Remember(d, d.pending)

\* The end of the file: an announcement without an answer is where the run
\* ended.  Seen before, it is skipped; seen for the first time, it is watched.
AtEnd(d) ==
    IF d.pending = None THEN d
    ELSE IF d.pending \in d.watch
         THEN LET r == Remember(d, d.pending)
              IN  [r EXCEPT !.watch = @ \ {d.pending}]
         ELSE WatchAdd(d, d.pending)

\* Mutant: the build id is not looked at.
SameCount(d, b) == d.checks = b.checks

\* The two signals that have to agree: the build id and the number of checks.
Matches(d, b) == d.id = b.id /\ d.checks = b.checks

\* What an id is to the loader that reads only the front of it.
Cut(c) == {Stump} \cup {a \in Check : <<a, c>> \in Prefixes}

\* A list of ids cut after n of them: the next one may be there in part.
CutLists(ids, n) ==
    LET kept == {k \in SUBSET ids : Cardinality(k) = n}
    IN  kept \cup UNION {{k \cup {s} : s \in UNION {Cut(c) : c \in ids \ k}} : k \in kept}

\* Mutant: the resume record carries the count and no ids.
NoIds(ids) == {{}}

\* What of a resume record of these ids a later run reads back: the line buffer of
\* the loader cuts the list.
ReadableIds(ids) ==
    IF Cardinality(ids) <= LineIds THEN {ids} ELSE CutLists(ids, LineIds)

-----------------------------------------------------------------------------
(* obs_sink_write of one record.  `whole` is the file with the record, `torn` *)
(* the files a write that fails part of the way can leave, besides one with   *)
(* nothing of the record and one that only lacks its newline.  A failed write *)
(* closes the sink and the run goes on without it.                            *)

LastWord(d) ==
    IF d.pending \in Check
    THEN sightings' = [sightings EXCEPT ![build][d.pending] =
                          IF @ < StrikeCap THEN @ + 1 ELSE @]
    ELSE UNCHANGED sightings

Write(whole, torn) ==
    \/ /\ sink = None
       /\ UNCHANGED <<report, sink, sightings>>
    \/ /\ sink # None
       /\ report' = [report EXCEPT ![sink] = whole]
       /\ UNCHANGED <<sink, sightings>>
    \/ /\ sink # None /\ "write" \in Faults
       /\ \E d \in torn \cup {whole, report[sink]} :
             /\ report' = [report EXCEPT ![sink] = d]
             /\ LastWord(d)
       /\ sink' = None

-----------------------------------------------------------------------------
(* One run. *)

Init ==
    /\ report = [p \in Path |-> Absent]
    /\ sink = None /\ tried = FALSE
    /\ phase = "down"
    /\ build \in Builds
    /\ media \in Media
    /\ conduct \in Conducts
    /\ next = 1
    /\ skip = {} /\ watch = {} /\ full = FALSE
    /\ kills = 0
    /\ strikes   = [b \in Builds |-> [c \in Check |-> 0]]
    /\ sightings = [b \in Builds |-> [c \in Check |-> 0]]

\* A process starts: its statics are zero, whatever the last one held.
Boot ==
    /\ phase = "down"
    /\ phase' = "load"
    /\ build' \in Builds
    /\ media' \in Media
    /\ sink' = None /\ tried' = FALSE
    /\ next' = 1
    /\ skip' = {} /\ watch' = {} /\ full' = FALSE
    /\ UNCHANGED <<report, conduct, kills, hist>>

\* The file obs_resume_load reads: the first path that opens, and only that one.
Readable == {p \in media.read : report[p].here}
Previous == IF Readable = {} THEN Absent ELSE report[First(Readable)]

\* obs_resume_load.
ResumeLoad ==
    LET d == AtEnd(Previous)
        believed == Matches(Previous, build)
    IN  /\ phase = "load"
        /\ phase' = "open"
        /\ skip'  = IF believed THEN d.skip  ELSE {}
        /\ watch' = IF believed THEN d.watch ELSE {}
        /\ full'  = (believed /\ d.full)
        /\ UNCHANGED <<file, env, next, kills, hist>>

\* obs_sink_open: once per process, the first path that opens for writing, which
\* truncates it.
SinkOpen ==
    /\ phase = "open"
    /\ phase' = "meta"
    /\ tried' = TRUE
    /\ IF tried \/ media.write = {}
       THEN UNCHANGED file
       ELSE /\ sink' = First(media.write)
            /\ report' = [report EXCEPT ![First(media.write)] = Truncated]
    /\ UNCHANGED <<build, media, conduct, next, table, kills, hist>>

\* Without a whole header no run will believe the file, so a torn header record
\* is as good as none.
ReportMeta ==
    /\ phase = "meta"
    /\ phase' = "build"
    /\ Write(ConsiderMeta(report[sink], build.checks), {})
    /\ UNCHANGED <<env, next, table, kills, strikes>>

ReportBuild ==
    /\ phase = "build"
    /\ phase' = "resume"
    /\ Write(ConsiderBuild(report[sink], build.id), {})
    /\ UNCHANGED <<env, next, table, kills, strikes>>

\* Between `build` and `resume` the run opens devices and looks for modules; a
\* run that dies there is Killed in this phase.
ReportResume ==
    /\ phase = "resume"
    /\ phase' = "loop"
    /\ next' = 1
    /\ \E ids \in ReadableIds(watch) :
          Write(ConsiderResume(report[sink], ids),
                {ConsiderResume(report[sink], s) :
                    s \in UNION {CutLists(watch, n) : n \in 0..LineIds}})
    /\ UNCHANGED <<env, table, kills, strikes>>

\* The `res` record of the check the loop is at.  Torn, it can lose its detail.
ReportResult(marked) ==
    Write(ConsiderRes(report[sink], next, marked),
          {ConsiderRes(report[sink], s, FALSE) : s \in Cut(next) \cup {next}})

\* The loop has a check of this build in front of it.
AtCheck == phase = "loop" /\ next <= build.checks

\* Mutant: the skip is worded so that the loader does not know it again.
SkipReworded ==
    /\ AtCheck /\ next \in skip
    /\ ReportResult(FALSE)
    /\ next' = next + 1
    /\ UNCHANGED <<env, phase, table, kills, strikes>>

\* A check a previous run did not return from: a result, and no announcement.
SkipLearned ==
    /\ AtCheck /\ next \in skip
    /\ ReportResult(TRUE)
    /\ next' = next + 1
    /\ UNCHANGED <<env, phase, table, kills, strikes>>

\* An unresolved symbol or a capability nothing established: skipped as well,
\* for a reason that is no news about the check.
Decline ==
    /\ AtCheck /\ next \notin skip
    /\ "declined" \in conduct[next]
    /\ ReportResult(FALSE)
    /\ next' = next + 1
    /\ UNCHANGED <<env, phase, table, kills, strikes>>

\* Announce before attempting.
Attempt ==
    /\ AtCheck /\ next \notin skip
    /\ conduct[next] # {"declined"}
    /\ Write(ConsiderTry(report[sink], next),
             {ConsiderTry(report[sink], s) : s \in Cut(next)})
    /\ phase' = "attempt"
    /\ UNCHANGED <<env, next, table, kills, strikes>>

\* The check comes back: it returned, or faulted and the guard caught it.
Answer ==
    /\ phase = "attempt"
    /\ \/ "answers" \in conduct[next] /\ ReportResult(FALSE)
       \/ "quotes"  \in conduct[next] /\ ReportResult(TRUE)
    /\ phase' = "loop"
    /\ next' = next + 1
    /\ strikes' = [strikes EXCEPT ![build][next] = 0]
    /\ UNCHANGED <<env, table, kills>>

\* The loop is over: the last records, and obs_sink_close.
Finish ==
    /\ phase = "loop" /\ next > build.checks
    /\ phase' = "idle"
    /\ sink' = None
    /\ UNCHANGED <<report, env, next, table, kills, hist>>

-----------------------------------------------------------------------------
(* How a process ends. *)

Down ==
    /\ phase' = "down"
    /\ sink' = None
    /\ strikes' = IF phase = "attempt"
                  THEN [strikes EXCEPT ![build][next] =
                           IF @ < StrikeCap THEN @ + 1 ELSE @]
                  ELSE strikes
    /\ IF sink # None THEN LastWord(report[sink]) ELSE UNCHANGED sightings
    /\ UNCHANGED <<report, env, next, table>>

\* The check ends the process, or hangs until its watcher ends it.
StopInCheck ==
    /\ phase = "attempt" /\ "stops" \in conduct[next]
    /\ Down
    /\ UNCHANGED kills

Kill ==
    /\ phase \notin {"down", "idle"}
    /\ "kill" \in Faults /\ kills < MaxKills
    /\ kills' = kills + 1
    /\ Down

Exit ==
    /\ phase = "idle"
    /\ Down
    /\ UNCHANGED kills

\* A serving process (net.c, runtime.c) runs the suite again: the statics stay.
RunAgain ==
    /\ phase = "idle"
    /\ phase' = "load"
    /\ next' = 1
    /\ UNCHANGED <<file, env, table, kills, hist>>

Run == \/ ResumeLoad \/ SinkOpen \/ ReportMeta \/ ReportBuild \/ ReportResume
       \/ SkipLearned \/ Decline \/ Attempt \/ Answer \/ Finish

Next == Run \/ Boot \/ StopInCheck \/ Kill \/ Exit \/ RunAgain

Spec == Init /\ [][Next]_vars

\* The loop is prompt, a down probe is started again and a finished one exits:
\* scripts/repeat.sh and the sweeps run the binary in a loop.  Nothing is assumed
\* of kills, nor that a check with a choice takes the better one.
Fairness == WF_vars(Run) /\ WF_vars(Boot) /\ WF_vars(StopInCheck) /\ WF_vars(Exit)

FairSpec == Spec /\ Fairness

-----------------------------------------------------------------------------
(* Properties. *)

InLoop == phase \in {"loop", "attempt"}

TypeOK ==
    /\ report \in [Path -> Digest]
    /\ sink \in Path \cup {None}
    /\ tried \in BOOLEAN
    /\ phase \in {"down", "load", "open", "meta", "build", "resume", "loop",
                  "attempt", "idle"}
    /\ build \in Builds
    /\ media \in Media
    /\ conduct \in Conducts
    /\ next \in 1..(NChecks + 1)
    /\ skip \subseteq Id /\ watch \subseteq Id /\ full \in BOOLEAN
    /\ kills \in 0..MaxKills
    /\ strikes   \in [Builds -> [Check -> 0..StrikeCap]]
    /\ sightings \in [Builds -> [Check -> 0..StrikeCap]]

\* While the sink is intact, the file on disk names the check that is in flight and
\* no other, under a header the next run of this build believes: announced before
\* attempted (sink.c, "The report is already the state file"; D002).
AnnouncedFirst ==
    (sink # None /\ InLoop) =>
        /\ report[sink].pending = IF phase = "attempt" THEN next ELSE None
        /\ Matches(report[sink], build)

\* What the run knew and has passed, the file carries to the next run: every check
\* skipped so far is in the set the file teaches, unless the file says it is full
\* (sink.c, OBS_RESUME_MAX: "the set accumulates through the report").
SkipsCarried ==
    (sink # None /\ InLoop) =>
        \A c \in skip : c \in 1..(next - 1) =>
            (c \in report[sink].skip \/ report[sink].full)

\* A watched check the run has not reached yet is still under watch in the file, as
\* long as the watch list fits on the resume line (D172: "watched and retried").
WatchCarried ==
    (sink # None /\ InLoop /\ Cardinality(watch) <= LineIds) =>
        \A c \in watch : c >= next => c \in report[sink].watch

\* No check answers with the words the loader takes for a learned skip.
NothingQuotes == \A f \in Conducts, c \in Check : "quotes" \notin f[c]

\* Builds that the loader cannot tell apart are the same binary.
BuildsDistinct ==
    \A a, b \in Builds : (a.id = b.id /\ a.checks = b.checks) => a = b

\* Every run reads and writes the one file, and no write fails.
OneSteadyFile ==
    /\ "write" \notin Faults
    /\ \E p \in Path : \A m \in Media : m.read = {p} /\ m.write = {p}

\* No id is the front of another.
IdsCutClean == Prefixes = {}

Premises == NothingQuotes /\ BuildsDistinct /\ OneSteadyFile /\ IdsCutClean

\* One observation is not evidence (sink.c, D181): whatever the disks do, a check is
\* skipped only when two reports of this build ended with it in flight.
TwoSightings ==
    NothingQuotes /\ BuildsDistinct /\ IdsCutClean =>
        \A c \in skip \cap Check : sightings[build][c] >= 2

\* D172: a check is skipped only when it failed to return twice running, with no
\* answer between, where every run finds the file the last one wrote.
TwoStrikes ==
    Premises =>
        \A c \in skip \cap Check : strikes[build][c] >= 2

\* "A genuine hang does that every time and is skipped on the second run"
\* (sink.c:332): no check is attempted a third time after two strikes in a row.
NoThirdAttempt == phase = "attempt" => strikes[build][next] < 2

\* It is so as long as nobody kills a run from outside and no more checks stop than
\* the tables and the loader's line have room for.
HangsAreSkipped ==
    LET stopping == {c \in Check : "stops" \in conduct[c]}
    IN  (kills = 0 /\ Cardinality(stopping) <= ResumeMax
                   /\ Cardinality(stopping) <= LineIds) => NoThirdAttempt

\* The same without the premise on what a check may say of itself (sink.c:332).
TwoStrikesAlways == \A c \in skip \cap Check : strikes[build][c] >= 2

\* A report of another binary teaches nothing: what a run knows of a check it has
\* from reports of its own build (D172: "A report from a different build or check
\* count is ignored").
OtherBuildsIgnored ==
    BuildsDistinct => \A c \in (skip \cup watch) \cap Check : sightings[build][c] >= 1

\* With every check either always answering or always stopping, the runs converge:
\* from some point on no run stops, and runs keep reaching their end (sink.c:
\* "Two runs of one binary get past one crash; N runs get past N").
Converges == <>[][~StopInCheck]_vars /\ []<>(phase = "idle")

\* The runs implement the two-strike rule: a run is under way from the moment it has
\* read its predecessor, and avoids what its skip table holds.
Running == phase \notin {"down", "load", "idle"}

Learner == INSTANCE TwoStrikes WITH
    Subjects <- Builds \X Check,
    running  <- Running,
    avoid    <- IF Running THEN {build} \X (skip \cap Check) ELSE {},
    strikes  <- [s \in Builds \X Check |-> strikes[s[1]][s[2]]]

LearnsByTwoStrikes == Learner!Spec
=============================================================================
