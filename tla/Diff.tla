-------------------------------- MODULE Diff --------------------------------
(***************************************************************************)
(* The comparison of two reports (tool/src/diff.rs), and the run loop run  *)
(* a second time, so that there are two to compare: the same table, on a   *)
(* platform that may by then resolve other checks.                         *)
(***************************************************************************)
EXTENDS Suite

CONSTANT Compared   \* bound: the tables that are run twice

VARIABLE before     \* the report of the first run, and nothing until it ended

dvars == <<vars, before>>

-----------------------------------------------------------------------------
\* The order of the statuses, from the worst (report.rs).
Worst == <<"crash", "pending", "skip", "fail", "partial", "pass">>

Rank(status) == CHOOSE i \in DOMAIN Worst : Worst[i] = status

\* Report::by_id: of two results with one id the later is kept.
ById(p) ==
    [id \in {r.id : r \in ToSet(p.results)} |->
        LET last == CHOOSE i \in DOMAIN p.results :
                        /\ p.results[i].id = id
                        /\ \A j \in DOMAIN p.results : p.results[j].id = id => j <= i
        IN  p.results[last].status]

\* Mutant: a check that is in the newer report only is looked at, one that is in the
\* older report only is not.
CompareWhatRan(older, newer) ==
    LET old == ById(older)
        new == ById(newer)
        both == DOMAIN old \cap DOMAIN new
    IN  [improved  |-> {id \in both : Rank(new[id]) > Rank(old[id])}
                       \cup (DOMAIN new \ DOMAIN old),
         regressed |-> {id \in both : Rank(new[id]) < Rank(old[id])},
         vanished  |-> {}]

\* compare and classify, between reports of one target: a check that is new counts as
\* improved, one that is gone as vanished.
Compare(older, newer) ==
    LET old == ById(older)
        new == ById(newer)
        both == DOMAIN old \cap DOMAIN new
    IN  [improved  |-> {id \in both : Rank(new[id]) > Rank(old[id])}
                       \cup (DOMAIN new \ DOMAIN old),
         regressed |-> {id \in both : Rank(new[id]) < Rank(old[id])},
         vanished  |-> DOMAIN old \ DOMAIN new]

\* has_regression: what the diff command exits with.
HasRegression(comparison) == comparison.regressed \cup comparison.vanished # {}

-----------------------------------------------------------------------------
InitTwice == Init /\ before = <<>>

\* The program is started again after its first run, however that ended.
Again ==
    /\ suite \in Compared /\ before = <<>>
    /\ phase \in {"over", "dead", "stopped"}
    /\ before' = report
    /\ unresolved' \in SUBSET Checks(suite)
    /\ Cardinality(excluded) + Cardinality(unresolved') <= MaxAbsent
    /\ phase' = "start" /\ s' = 1 /\ c' = 1
    /\ available' = {Granted} /\ blocked' = 0 /\ deepest' = 0
    /\ tally' = Zero /\ total' = Zero
    /\ report' = <<>>
    /\ UNCHANGED <<suite, excluded, guarded>>

NextTwice == (Next /\ UNCHANGED before) \/ Again

SpecTwice == InitTwice /\ [][NextTwice]_dvars

-----------------------------------------------------------------------------
\* What a report without a regression shows has not receded from the one before it
\* (diff.rs:8-18): everything established then is established now, no check that was
\* attempted then is behind the floor now, and none has come to crash that had answered
\* or had been skipped.
FrontierHolds ==
    before # <<>> /\ ~HasRegression(Compare(ParseReport(before), ParseReport(report))) =>
        /\ Backing(suite, before, Len(before) + 1)
               \subseteq Backing(suite, report, Len(report) + 1)
        /\ \A i \in Of(report, "res") :
              /\ Tried(before, report[i].id) =>
                    Tried(report, report[i].id) \/ report[i].id \in excluded \cup unresolved
              /\ report[i].status = "crash" =>
                    \A j \in Of(before, "res") :
                        before[j].id = report[i].id => before[j].status = "crash"
=============================================================================
