------------------------------- MODULE Suite -------------------------------
(***************************************************************************)
(* obs_run_all (src/probe/harness.c): one run over the sections, its       *)
(* capabilities, and the report it writes.  A check is announced before it *)
(* is called; it may return, fault and be recovered, or end the process.   *)
(* The gate of tool/src/caps.rs judges the same table before anything runs.*)
(***************************************************************************)
EXTENDS Reader

CONSTANTS
    Suites,     \* the tables run: records [sections, requires, provides]
    Granted,    \* OBS_CAP_OUTPUT, which the run starts with
    Guards,     \* whether a fault is recovered: a subset of BOOLEAN
    MaxAbsent   \* bound: how many checks are excluded or unresolved

Checks(t) == UNION {ToSet(t.sections[i]) : i \in DOMAIN t.sections}

ASSUME SuitesAssumption ==
    /\ \A t \in Suites :
          /\ t.sections \in Seq(Seq(STRING)) /\ <<>> \notin ToSet(t.sections)
          /\ {t.requires, t.provides} \subseteq [Checks(t) -> SUBSET STRING]
    /\ Granted \in STRING
    /\ Guards \subseteq BOOLEAN /\ MaxAbsent \in Nat

\* No id is in a table twice: verify.rs rejects a report that has one twice.
ASSUME OneRowEach ==
    \A t \in Suites : \A i, k \in DOMAIN t.sections :
        \A j \in DOMAIN t.sections[i], l \in DOMAIN t.sections[k] :
            t.sections[i][j] = t.sections[k][l] => i = k /\ j = l

VARIABLES
    suite,       \* the registry
    excluded,    \* checks obs_check_is_excluded names
    unresolved,  \* checks whose address the loader left unresolved
    guarded,     \* obs_fault_available
    phase,       \* where the run is
    s, c,        \* the section and the check in it
    available, blocked, deepest, tally, total,
    report       \* the records written

table  == <<suite, excluded, unresolved, guarded>>
counts == <<available, blocked, deepest, tally, total>>
vars   == <<table, phase, s, c, counts, report>>

Sections == suite.sections
Check    == Sections[s][c]
Missing  == suite.requires[Check] \ available

Init ==
    /\ suite \in Suites /\ guarded \in Guards
    /\ excluded \in SUBSET Checks(suite) /\ unresolved \in SUBSET Checks(suite)
    /\ Cardinality(excluded) + Cardinality(unresolved) <= MaxAbsent
    /\ phase = "start" /\ s = 1 /\ c = 1
    /\ available = {Granted} /\ blocked = 0 /\ deepest = 0 /\ tally = Zero /\ total = Zero
    /\ report = <<>>

\* How many checks the sections have.
CheckCount(sections) ==
    LET upTo[i \in 0..Len(sections)] ==
            IF i = 0 THEN 0 ELSE upTo[i - 1] + Len(sections[i])
    IN  upTo[Len(sections)]

\* obs_report_meta, and the records the tool's readers leave alone.
Start ==
    /\ phase = "start" /\ phase' = "started"
    /\ report' = Append(report, Meta(Len(Sections), CheckCount(Sections)))
    /\ UNCHANGED <<table, s, c, counts>>

\* Mutant: a section goes on from the tally of the last one.
OpenSectionKeeps ==
    /\ phase = "section" /\ s <= Len(Sections)
    /\ phase' = "check" /\ c' = 1
    /\ report' = Append(report, Section(s))
    /\ UNCHANGED <<table, s, counts>>

OpenSection ==
    /\ phase = "section" /\ s <= Len(Sections)
    /\ phase' = "check" /\ c' = 1 /\ tally' = Zero
    /\ report' = Append(report, Section(s))
    /\ UNCHANGED <<table, s, available, blocked, deepest, total>>

\* obs_report_result, and both tallies.
Record(status) ==
    /\ phase' = "recorded" /\ c' = c + 1
    /\ report' = Append(report, Res(Check, status))
    /\ tally' = Add(tally, status) /\ total' = Add(total, status)
    /\ UNCHANGED <<table, s, deepest>>

Selected == phase = "check" /\ c <= Len(Sections[s])

\* Mutant: the loop goes on to the next check before the tallies.
SkipAbsentUncounted ==
    /\ Selected /\ Check \in excluded \cup unresolved
    /\ phase' = "recorded" /\ c' = c + 1
    /\ report' = Append(report, Res(Check, "skip"))
    /\ UNCHANGED <<table, s, counts>>

\* Mutant: every skip counts as blocked.
SkipAbsentAsBlocked ==
    /\ Selected /\ Check \in excluded \cup unresolved
    /\ Record("skip")
    /\ blocked' = blocked + 1
    /\ UNCHANGED available

\* Excluded, or not resolved: a skip that counts as nothing else.
SkipAbsent ==
    /\ Selected /\ Check \in excluded \cup unresolved
    /\ Record("skip")
    /\ UNCHANGED <<available, blocked>>

SkipBlocked ==
    /\ Selected /\ Check \notin excluded \cup unresolved /\ Missing # {}
    /\ Record("skip")
    /\ blocked' = blocked + 1
    /\ UNCHANGED available

Attempt ==
    /\ Selected /\ Check \notin excluded \cup unresolved /\ Missing = {}
    /\ phase' = "attempt"
    /\ report' = Append(report, Try(Check))
    /\ UNCHANGED <<table, s, c, counts>>

\* Mutant: whatever is not a failure grants.
ReturnGrants(status) ==
    /\ phase = "attempt" /\ status \in Status \ {"crash"}
    /\ Record(status)
    /\ available' = IF status # "fail" THEN available \cup suite.provides[Check]
                    ELSE available
    /\ UNCHANGED blocked

\* The check returns one of the statuses a check constructs.
Return(status) ==
    /\ phase = "attempt" /\ status \in Status \ {"crash"}
    /\ Record(status)
    /\ available' = IF status = "pass" THEN available \cup suite.provides[Check]
                    ELSE available
    /\ UNCHANGED blocked

\* The fault guard brings the run back, and grants nothing.
Crash ==
    /\ phase = "attempt" /\ guarded
    /\ Record("crash")
    /\ UNCHANGED <<available, blocked>>

\* The call ends the process, or never returns and the process is ended.
Die ==
    /\ phase = "attempt" /\ phase' = "dead"
    /\ UNCHANGED <<table, s, c, counts, report>>

\* obs_harness_heartbeat, at the start, after a check and after a section.  Its calls
\* into the platform are not announced; where one does not come back, or faults without
\* a guard, the process is ended there.
Heartbeat ==
    \/ /\ phase \in {"started", "recorded", "tallied"}
       /\ phase' = IF phase = "recorded" THEN "check" ELSE "section"
       /\ UNCHANGED <<table, s, c, counts, report>>
    \/ /\ phase \in {"started", "recorded", "tallied"}
       /\ phase' = "stopped"
       /\ UNCHANGED <<table, s, c, counts, report>>

\* The section's tally, and how deep the run has come out green.
CloseSection ==
    /\ phase = "check" /\ c > Len(Sections[s])
    /\ phase' = "tallied" /\ s' = s + 1
    /\ report' = Append(report, SectionTally(s, tally))
    /\ deepest' = IF /\ tally["fail"] = 0 /\ tally["partial"] = 0
                     /\ tally["skip"] = 0 /\ tally["pass"] > 0
                  THEN s ELSE deepest
    /\ UNCHANGED <<table, c, available, blocked, tally, total>>

Finish ==
    /\ phase = "section" /\ s > Len(Sections) /\ phase' = "over"
    /\ report' = report \o <<Frontier(Cardinality(available), blocked, deepest),
                             TallyRecord(total), End>>
    /\ UNCHANGED <<table, s, c, counts>>

Next ==
    \/ Start \/ OpenSection \/ SkipAbsent \/ SkipBlocked \/ Attempt
    \/ \E status \in Status \ {"crash"} : Return(status)
    \/ Crash \/ Die \/ Heartbeat \/ CloseSection \/ Finish

Spec == Init /\ [][Next]_vars

-----------------------------------------------------------------------------
(* caps.rs: the gate over the table. *)

\* running_order: the rows of a table, the id in a row, and what the rows before it grant.
Rows(t)       == UNION {{<<k, l>> : l \in DOMAIN t.sections[k]} : k \in DOMAIN t.sections}
At(t, row)    == t.sections[row[1]][row[2]]
Given(t, row) ==
    UNION {t.provides[At(t, r)] :
              r \in {r \in Rows(t) : r[1] < row[1] \/ (r[1] = row[1] /\ r[2] < row[2])}}

\* Mutant: a capability anything provides will do.
UnsatisfiableAnywhere(t) ==
    UNION {{<<id, wanted>> : wanted \in t.requires[id] \ (UNION {t.provides[x] : x \in Checks(t)})}
              : id \in Checks(t)}

\* Requirements no earlier check can satisfy.
Unsatisfiable(t) ==
    UNION {{<<At(t, row), wanted>> : wanted \in t.requires[At(t, row)] \ Given(t, row)}
              : row \in Rows(t)}

-----------------------------------------------------------------------------
(* Properties. *)

TypeOK ==
    /\ suite \in Suites /\ guarded \in Guards
    /\ excluded \subseteq Checks(suite) /\ unresolved \subseteq Checks(suite)
    /\ phase \in {"start", "started", "section", "check", "attempt", "recorded",
                  "tallied", "over", "dead", "stopped"}
    /\ s \in 1..(Len(Sections) + 1) /\ c \in Nat \ {0}
    /\ available \subseteq STRING
    /\ blocked \in Nat /\ deepest \in 0..(s - 1)
    /\ {tally, total} \subseteq [Status -> Nat]

\* The records of a kind, by their places; the checks announced, and those that passed
\* before place n; and what those passes established.
Of(r, kind)      == {i \in DOMAIN r : r[i].kind = kind}
Tried(r, id)     == \E i \in Of(r, "try") : r[i].id = id
Passed(r, n)     == {r[i].id : i \in {j \in Of(r, "res") : j < n /\ r[j].status = "pass"}}
Backing(t, r, n) == {Granted} \cup UNION {t.provides[id] : id \in Passed(r, n)}

Backed(t, absent, r) ==
    /\ \A i \in Of(r, "try") : t.requires[r[i].id] \subseteq Backing(t, r, i)
    /\ \A i \in Of(r, "res") :
          ~Tried(r, r[i].id) =>
              \/ r[i].id \in absent
              \/ ~(t.requires[r[i].id] \subseteq Backing(t, r, i))

\* "Without it a single failed prerequisite cascades into a wall of false reds"
\* (status.h:4): a check is attempted only if passes earlier in the same report
\* established all it requires, and one that is there to be run and skipped lacks one.
AttemptsAreBacked == Backed(suite, excluded \cup unresolved, report)

\* A run that reached its end wrote a report that verify.rs believes (OUTPUT.md, Verify).
WholeReportVerifies == phase = "over" => Verifies(report)

\* How many results between two places of a report are of a status.
CountOf(r, low, high, status) ==
    Cardinality({k \in Of(r, "res") : low < k /\ k < high /\ r[k].status = status})

\* Each section declares what was recorded between its header and its tally, and the
\* report as a whole what was recorded in all of it.
SectionsAddUp ==
    /\ \A i \in Of(report, "sectiontally") :
          \E j \in Of(report, "section") :
             /\ report[j].id = report[i].id /\ j < i
             /\ \A status \in Status :
                   report[i].tally[status] = CountOf(report, j, i, status)
    /\ \A i \in Of(report, "tally") : \A status \in Status :
          report[i].tally[status] = CountOf(report, 0, Len(report) + 1, status)

\* "Under an emulator ... the last line names the exact call that did it" (DESIGN.md:20):
\* a run that died in a check is read back as dead in that check, and one that did not
\* is read back as dead in none, one that the heartbeat ended included.  The account of
\* the compatibility table is the same, but for an attempt of the census control, which
\* it never takes as answered.
DeathIsNamed ==
    LET p    == ParseReport(report)
        died == DiedIn(report)
        but  == IF Tried(report, Control) THEN {Control} ELSE {}
    IN  /\ phase = "dead" => /\ ~p.ended /\ p.announced = Check
                             /\ died \in {Check} \cup but
        /\ phase \notin {"dead", "attempt"} => /\ p.announced = None
                                              /\ died \in {None} \cup but

\* The results of checks that were there to be run and were not.
Behind(absent, r) ==
    {j \in Of(r, "res") : r[j].id \notin absent /\ ~Tried(r, r[j].id)}

\* The frontier: what was established is what passes established, and the checks behind
\* the floor are those that were there to be run and lacked a capability.
FrontierIsReal ==
    \A i \in Of(report, "frontier") :
        /\ report[i].established = Cardinality(Backing(suite, report, i))
        /\ report[i].blocked = Cardinality(Behind(excluded \cup unresolved, report))

\* The gate reports "only requirements that fail even then" (caps.rs:26), when every check
\* reached grants what it claims: a check it names is attempted in no run, and in a table
\* it accepts nothing is skipped before some check came out other than it could.
GateIsRight ==
    LET misses == Unsatisfiable(suite)
    IN  /\ \A miss \in misses : ~Tried(report, miss[1])
        /\ (misses = {} /\ excluded \cup unresolved = {}) =>
              \A i \in Of(report, "res") :
                  \/ Tried(report, report[i].id)
                  \/ \E j \in Of(report, "res") : j < i /\ report[j].status # "pass"
=============================================================================
