------------------------------- MODULE Reader -------------------------------
(***************************************************************************)
(* What the tool reads out of a report: Report::parse (tool/src/report.rs) *)
(* and parse of the compatibility table (tool/src/compat.rs), two loops    *)
(* over the same records, and the invariants of tool/src/verify.rs.        *)
(***************************************************************************)
EXTENDS Naturals, Sequences, SequencesExt, FiniteSets, FiniteSetsExt

CONSTANT Control  \* the census control, 900-surface/control, which compat.rs treats apart

Status == {"pass", "partial", "fail", "skip", "crash", "pending"}
None   == "none"

\* The records of a report, as far as its readers tell them apart.
Meta(sections, checks)     == [kind |-> "meta", sections |-> sections, checks |-> checks]
Section(id)                == [kind |-> "section", id |-> id]
Try(id)                    == [kind |-> "try", id |-> id]
Res(id, status)            == [kind |-> "res", id |-> id, status |-> status]
SectionTally(id, tally)    == [kind |-> "sectiontally", id |-> id, tally |-> tally]
Frontier(caps, behind, at) == [kind |-> "frontier", established |-> caps,
                               blocked |-> behind, deepest |-> at]
TallyRecord(tally)         == [kind |-> "tally", tally |-> tally]
End                        == [kind |-> "end"]

Zero == [s \in Status |-> 0]
Add(tally, status) == [tally EXCEPT ![status] = @ + 1]

\* Report::parse.
Unread == [declares |-> <<>>, sections |-> <<>>, results |-> <<>>, tally |-> <<>>,
           ended |-> FALSE, announced |-> None]

\* Mutant: a result does not settle the announcement before it.
ReadNoSettle(p, r) ==
    CASE r.kind = "try" -> [p EXCEPT !.announced = r.id]
      [] r.kind = "res" -> [p EXCEPT !.results = Append(@, r)]
      [] r.kind = "end" -> [p EXCEPT !.ended = TRUE]
      [] OTHER          -> p

Read(p, r) ==
    CASE r.kind = "meta"    -> [p EXCEPT !.declares = <<r.sections, r.checks>>]
      [] r.kind = "section" -> [p EXCEPT !.sections = Append(@, r.id)]
      [] r.kind = "try"     -> [p EXCEPT !.announced = r.id]
      [] r.kind = "res"     -> [p EXCEPT !.announced = None, !.results = Append(@, r)]
      [] r.kind = "tally"   -> [p EXCEPT !.tally = <<r.tally>>]
      [] r.kind = "end"     -> [p EXCEPT !.ended = TRUE]
      [] r.kind \in {"sectiontally", "frontier"} -> p

ParseReport(report) ==
    LET upTo[i \in 0..Len(report)] ==
            IF i = 0 THEN Unread ELSE Read(upTo[i - 1], report[i])
    IN  upTo[Len(report)]

\* Report::counted.
Counted(results) ==
    LET upTo[i \in 0..Len(results)] ==
            IF i = 0 THEN Zero ELSE Add(upTo[i - 1], results[i].status)
    IN  upTo[Len(results)]

\* verify::check has nothing to say: the report can be believed.
Verifies(report) ==
    LET p == ParseReport(report)
    IN  /\ p.ended /\ p.announced = None
        /\ p.declares = <<Len(p.sections), Len(p.results)>>
        /\ Cardinality({r.id : r \in ToSet(p.results)}) = Len(p.results)
        /\ p.tally = <<Counted(p.results)>>

\* compat::parse: the attempts that no later result takes away.  The result of the census
\* control is matched by an arm of its own, which leaves its attempt where it is.
Unanswered(report) ==
    {i \in DOMAIN report :
        /\ report[i].kind = "try"
        /\ \A j \in DOMAIN report :
              (j > i /\ report[j].kind = "res" /\ report[j].id # Control) =>
                  report[j].id # report[i].id}

\* The check the compatibility table says the run died in: the first of them.
DiedIn(report) ==
    LET tried == Unanswered(report)
    IN  IF tried = {} THEN None ELSE report[Min(tried)].id
=============================================================================
