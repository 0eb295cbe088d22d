---------------------------- MODULE Suite_proofs ----------------------------
(***************************************************************************)
(* Theorems about Suite, for every table, every choice of excluded and     *)
(* unresolved checks, and every conduct of the checks.                     *)
(***************************************************************************)
EXTENDS Diff, SequenceTheorems, FiniteSetTheorems, TLAPS

-----------------------------------------------------------------------------
(* Reports that grow: p is a report, q the same one with more in it.       *)

IsReport(p) == \E S : p \in Seq(S)

Extends(q, p) ==
    /\ IsReport(q) /\ Len(p) \in Nat /\ Len(q) \in Nat /\ Len(p) <= Len(q)
    /\ DOMAIN p = 1..Len(p) /\ DOMAIN q = 1..Len(q)
    /\ \A i \in 1..Len(p) : q[i] = p[i]

LEMMA AppendExtends ==
    ASSUME NEW p, NEW r, IsReport(p)
    PROVE  LET q == Append(p, r)
           IN  Extends(q, p) /\ Len(q) = Len(p) + 1 /\ q[Len(p) + 1] = r
<1> DEFINE q == Append(p, r)
<1>1. PICK S : p \in Seq(S)
    BY DEF IsReport
<1>2. p \in Seq(S \cup {r})
    BY <1>1, SeqMonotonic
<1>3. /\ q \in Seq(S \cup {r})
      /\ Len(q) = Len(p) + 1
      /\ \A i \in 1..Len(p) : q[i] = p[i]
      /\ q[Len(p) + 1] = r
    BY <1>2, AppendProperties
<1>4. /\ Len(p) \in Nat /\ DOMAIN p = 1..Len(p)
      /\ Len(q) \in Nat /\ DOMAIN q = 1..Len(q)
    BY <1>1, <1>3, LenProperties
<1> HIDE DEF q
<1>5. Extends(q, p)
    BY <1>3, <1>4 DEF Extends, IsReport
<1> QED
    BY <1>3, <1>5 DEF q

LEMMA ConcatExtends ==
    ASSUME NEW p, NEW a, NEW b, NEW c0, IsReport(p)
    PROVE  LET q == p \o <<a, b, c0>>
           IN  /\ Extends(q, p) /\ Len(q) = Len(p) + 3
               /\ q[Len(p) + 1] = a /\ q[Len(p) + 2] = b /\ q[Len(p) + 3] = c0
               /\ \A i \in (Len(p) + 1)..Len(q) : q[i] \in {a, b, c0}
<1> DEFINE z == <<a, b, c0>>
           q == p \o z
<1>1. PICK S : p \in Seq(S)
    BY DEF IsReport
<1> DEFINE T == S \cup {a, b, c0}
<1>2. p \in Seq(T)
    BY <1>1, SeqMonotonic
<1>3. /\ z \in Seq(T) /\ Len(z) = 3 /\ \A i \in 1..3 : z[i] \in {a, b, c0}
      /\ z[1] = a /\ z[2] = b /\ z[3] = c0
    OBVIOUS
<1>4. /\ q \in Seq(T) /\ Len(q) = Len(p) + 3
      /\ \A i \in 1..Len(q) : q[i] = IF i <= Len(p) THEN p[i] ELSE z[i - Len(p)]
    <2> HIDE DEF z, T
    <2>1. /\ q \in Seq(T) /\ Len(q) = Len(p) + Len(z)
          /\ \A i \in 1..Len(p) + Len(z) :
                q[i] = IF i <= Len(p) THEN p[i] ELSE z[i - Len(p)]
        BY <1>2, <1>3, ConcatProperties, Zenon
    <2> HIDE DEF q
    <2> QED
        BY <2>1, <1>3
<1>5. /\ Len(p) \in Nat /\ DOMAIN p = 1..Len(p)
      /\ Len(q) \in Nat /\ DOMAIN q = 1..Len(q)
    <2> HIDE DEF q, T
    <2> QED
        BY <1>1, <1>4, LenProperties
<1> HIDE DEF q, z, T
<1>6. Extends(q, p)
    BY <1>4, <1>5 DEF Extends, IsReport
<1>7. \A i \in (Len(p) + 1)..Len(q) : q[i] \in {a, b, c0}
    BY <1>3, <1>4, <1>5
<1>8. q[Len(p) + 1] = a /\ q[Len(p) + 2] = b /\ q[Len(p) + 3] = c0
    BY <1>3, <1>4, <1>5
<1> QED
    BY <1>4, <1>6, <1>7, <1>8 DEF q, z

LEMMA SameExtends ==
    ASSUME NEW p, IsReport(p)
    PROVE  Extends(p, p)
<1>1. PICK S : p \in Seq(S)
    BY DEF IsReport
<1>2. Len(p) \in Nat /\ DOMAIN p = 1..Len(p)
    BY <1>1, LenProperties
<1> QED
    BY <1>2 DEF Extends, IsReport

\* What earlier passes established does not change as a report grows.
LEMMA BackingStays ==
    ASSUME NEW t, NEW p, NEW q, Extends(q, p), NEW n \in 1..(Len(p) + 1)
    PROVE  Backing(t, q, n) = Backing(t, p, n)
<1>1. \A j : /\ j \in Of(p, "res") /\ j < n => j \in Of(q, "res") /\ q[j] = p[j]
             /\ j \in Of(q, "res") /\ j < n => j \in Of(p, "res") /\ q[j] = p[j]
    BY DEF Extends, Of
<1>2. Passed(q, n) = Passed(p, n)
    BY <1>1 DEF Passed
<1> QED
    BY <1>2 DEF Backing

\* An announcement stands.
LEMMA TriedStays ==
    ASSUME NEW p, NEW q, Extends(q, p), NEW id, Tried(p, id)
    PROVE  Tried(q, id)
BY DEF Extends, Tried, Of

\* The part of Backed that is about the records of p holds in every longer report.
LEMMA BackedStays ==
    ASSUME NEW t, NEW absent, NEW p, NEW q, Extends(q, p), Backed(t, absent, p)
    PROVE  /\ \A i \in Of(p, "try") : t.requires[q[i].id] \subseteq Backing(t, q, i)
           /\ \A i \in Of(p, "res") :
                 ~Tried(q, q[i].id) =>
                     \/ q[i].id \in absent
                     \/ ~(t.requires[q[i].id] \subseteq Backing(t, q, i))
<1>1. \A i \in Of(p, "try") \cup Of(p, "res") : i \in 1..(Len(p) + 1) /\ q[i] = p[i]
    BY DEF Extends, Of
<1>2. \A i \in Of(p, "try") \cup Of(p, "res") : Backing(t, q, i) = Backing(t, p, i)
    BY <1>1, BackingStays
<1>3. \A i \in Of(p, "res") : ~Tried(q, q[i].id) => ~Tried(p, p[i].id)
    BY <1>1, TriedStays
<1> QED
    BY <1>1, <1>2, <1>3 DEF Backed

-----------------------------------------------------------------------------
(* What each kind of record does to a report that is backed.               *)

\* Records that are neither announcements nor results.
LEMMA QuietKeeps ==
    ASSUME NEW t, NEW absent, NEW p, NEW q, Extends(q, p), Backed(t, absent, p),
           \A i \in (Len(p) + 1)..Len(q) : q[i].kind \notin {"try", "res"}
    PROVE  /\ Backed(t, absent, q)
           /\ Backing(t, q, Len(q) + 1) = Backing(t, p, Len(p) + 1)
<1>1. Of(q, "try") = Of(p, "try") /\ Of(q, "res") = Of(p, "res")
    BY DEF Extends, Of
<1>2. Backed(t, absent, q)
    BY <1>1, BackedStays DEF Backed
<1>3. \A j \in Of(p, "res") : j < Len(p) + 1 /\ j < Len(q) + 1 /\ q[j] = p[j]
    BY DEF Extends, Of
<1>4. Passed(q, Len(q) + 1) = Passed(p, Len(p) + 1)
    BY <1>1, <1>3 DEF Passed
<1> QED
    BY <1>2, <1>4 DEF Backing

LEMMA UnionOneMore ==
    ASSUME NEW f, NEW S, NEW e
    PROVE  UNION {f[x] : x \in S \cup {e}} = (UNION {f[x] : x \in S}) \cup f[e]
<1>1. \A y : y \in UNION {f[x] : x \in S \cup {e}} <=>
              y \in (UNION {f[x] : x \in S}) \cup f[e]
    OBVIOUS
<1> QED
    BY <1>1

\* What a report backs for the check that comes next.
Now(t, p) == Backing(t, p, Len(p) + 1)

\* q backs what p does and what the result of a check establishes.
Widens(t, q, p, id, status) ==
    Now(t, q) = IF status = "pass" THEN Now(t, p) \cup t.provides[id] ELSE Now(t, p)

\* What backs a report does not let this check go next.
Lacks(t, p, id) == ~(t.requires[id] \subseteq Now(t, p))

\* The result of a check that was announced, or had a reason to be skipped.
LEMMA ResultKeeps ==
    ASSUME NEW t, NEW absent, NEW p, NEW id, NEW status, NEW q,
           IsReport(p), Backed(t, absent, p),
           Tried(p, id) \/ id \in absent \/ Lacks(t, p, id),
           q = Append(p, Res(id, status))
    PROVE  /\ IsReport(q) /\ Backed(t, absent, q)
           /\ Widens(t, q, p, id, status)
<1> DEFINE r == Res(id, status)
           n == Len(p) + 1
<1>1. Extends(q, p) /\ Len(q) = n /\ q[n] = r
    BY AppendExtends
<1>2. r.kind = "res" /\ r.id = id /\ r.status = status
    BY DEF Res
<1> HIDE DEF r
<1>3. n \in 1..n /\ n \in Nat /\ \A j \in 1..Len(q) : j \in 1..Len(p) \/ j = n
    BY <1>1 DEF Extends
<1>4. Of(q, "try") = Of(p, "try") /\ Of(q, "res") = Of(p, "res") \cup {n}
    BY <1>1, <1>2, <1>3 DEF Extends, Of
<1>5. Backing(t, q, n) = Backing(t, p, n)
    BY <1>1, <1>3, BackingStays
<1>6. Passed(q, n + 1) = IF status = "pass" THEN Passed(q, n) \cup {id} ELSE Passed(q, n)
    <2>1. \A j \in Of(q, "res") : j < n + 1 <=> (j < n \/ j = n)
        BY <1>3, <1>1 DEF Extends, Of
    <2>2. n \in Of(q, "res") /\ q[n].status = status /\ q[n].id = id /\ ~(n < n)
        BY <1>1, <1>2, <1>3, <1>4
    <2> QED
        BY <2>1, <2>2 DEF Passed
<1>7. Widens(t, q, p, id, status)
    <2>1. Backing(t, q, Len(q) + 1) = {Granted} \cup UNION {t.provides[x] : x \in Passed(q, n + 1)}
        BY <1>1 DEF Backing
    <2>2. Backing(t, p, n) = {Granted} \cup UNION {t.provides[x] : x \in Passed(q, n)}
        BY <1>5 DEF Backing
    <2>3. CASE status = "pass"
        <3>1. UNION {t.provides[x] : x \in Passed(q, n) \cup {id}} =
                  (UNION {t.provides[x] : x \in Passed(q, n)}) \cup t.provides[id]
            BY UnionOneMore
        <3> QED
            BY <2>1, <2>2, <2>3, <3>1, <1>6 DEF Widens, Now
    <2>4. CASE status # "pass"
        BY <2>1, <2>2, <2>4, <1>6 DEF Widens, Now
    <2> QED
        BY <2>3, <2>4
<1>8. ~Tried(q, q[n].id) =>
          \/ q[n].id \in absent \/ ~(t.requires[q[n].id] \subseteq Backing(t, q, n))
    BY <1>1, <1>2, <1>5, TriedStays DEF Lacks, Now
<1>9. Backed(t, absent, q)
    <2>1. \A i \in Of(q, "try") : t.requires[q[i].id] \subseteq Backing(t, q, i)
        BY <1>1, <1>4, BackedStays
    <2>2. \A i \in Of(p, "res") : ~Tried(q, q[i].id) =>
              q[i].id \in absent \/ ~(t.requires[q[i].id] \subseteq Backing(t, q, i))
        BY <1>1, BackedStays
    <2> QED
        BY <1>4, <1>8, <2>1, <2>2 DEF Backed
<1> QED
    BY <1>1, <1>7, <1>9 DEF Extends

\* The announcement of a check with everything there that it requires.
LEMMA AttemptKeeps ==
    ASSUME NEW t, NEW absent, NEW p, NEW id, IsReport(p), Backed(t, absent, p),
           t.requires[id] \subseteq Backing(t, p, Len(p) + 1)
    PROVE  LET q == Append(p, Try(id))
           IN  /\ IsReport(q) /\ Backed(t, absent, q) /\ Tried(q, id)
               /\ Backing(t, q, Len(q) + 1) = Backing(t, p, Len(p) + 1)
<1> DEFINE r == Try(id)
           q == Append(p, r)
           n == Len(p) + 1
<1>1. Extends(q, p) /\ Len(q) = n /\ q[n] = r
    BY AppendExtends
<1>2. r.kind = "try" /\ r.id = id
    BY DEF Try
<1> HIDE DEF q, r
<1>3. n \in 1..n /\ n \in Nat /\ \A j \in 1..Len(q) : j \in 1..Len(p) \/ j = n
    BY <1>1 DEF Extends
<1>4. Of(q, "try") = Of(p, "try") \cup {n} /\ Of(q, "res") = Of(p, "res")
    BY <1>1, <1>2, <1>3 DEF Extends, Of
<1>5. Backing(t, q, n) = Backing(t, p, n)
    BY <1>1, <1>3, BackingStays
<1>6. Passed(q, n + 1) = Passed(q, n)
    BY <1>1, <1>4 DEF Extends, Of, Passed
<1>7. Backing(t, q, Len(q) + 1) = Backing(t, p, n)
    BY <1>1, <1>5, <1>6 DEF Backing
<1>8. Tried(q, id)
    BY <1>1, <1>2, <1>4 DEF Tried
<1>9. t.requires[q[n].id] \subseteq Backing(t, q, n)
    BY <1>1, <1>2, <1>5
<1>10. Backed(t, absent, q)
    BY <1>1, <1>4, <1>9, BackedStays DEF Backed
<1> QED
    BY <1>1, <1>7, <1>8, <1>10 DEF Extends, q, r

-----------------------------------------------------------------------------
(* The strengthening of AttemptsAreBacked that is inductive: the run's     *)
(* capabilities are at every moment those the report so far backs, and a   *)
(* check being run is one the report has announced.                        *)

Inv ==
    /\ IsReport(report)
    /\ available = Backing(suite, report, Len(report) + 1)
    /\ phase = "attempt" => Tried(report, Check)
    /\ AttemptsAreBacked

LEMMA Initially == Init => Inv
<1> SUFFICES ASSUME Init PROVE Inv
    OBVIOUS
<1>1. report \in Seq({}) /\ Len(report) = 0 /\ DOMAIN report = {}
    BY EmptySeq DEF Init
<1>2. Of(report, "res") = {} /\ Of(report, "try") = {}
    BY <1>1 DEF Of
<1>3. Backing(suite, report, 1) = {Granted}
    BY <1>2 DEF Backing, Passed
<1> QED
    BY <1>1, <1>2, <1>3 DEF Inv, IsReport, AttemptsAreBacked, Backed, Init

\* A step that writes no announcement and no result, and leaves the table alone.
LEMMA QuietStep ==
    ASSUME Inv, Extends(report', report),
           \A i \in (Len(report) + 1)..Len(report') : report'[i].kind \notin {"try", "res"},
           UNCHANGED <<suite, excluded, unresolved, available>>, phase' # "attempt"
    PROVE  Inv'
BY QuietKeeps DEF Inv, AttemptsAreBacked, Extends

\* A result.
LEMMA ResultStep ==
    ASSUME Inv, NEW status, Record(status), UNCHANGED suite,
           \/ Tried(report, Check) \/ Check \in excluded \cup unresolved \/ Missing # {},
           available' = IF status = "pass" THEN available \cup suite.provides[Check]
                        ELSE available
    PROVE  Inv'
<1> DEFINE absent == excluded \cup unresolved
<1>1. Tried(report, Check) \/ Check \in absent \/ Lacks(suite, report, Check)
    BY DEF Missing, Inv, Lacks, Now
<1>2. /\ report' = Append(report, Res(Check, status)) /\ phase' # "attempt"
      /\ UNCHANGED <<excluded, unresolved>>
    BY DEF Record, table
<1>3. IsReport(report) /\ Backed(suite, absent, report)
    BY DEF Inv, AttemptsAreBacked
<1>4. /\ IsReport(report') /\ Backed(suite, absent, report')
      /\ Widens(suite, report', report, Check, status)
    <2> HIDE DEF absent
    <2> QED
        BY <1>1, <1>2, <1>3, ResultKeeps
<1>5. Backed(suite', excluded' \cup unresolved', report')
    BY <1>2, <1>4
<1>6. available' = Backing(suite', report', Len(report') + 1)
    BY <1>4 DEF Inv, Widens, Now
<1> QED
    BY <1>2, <1>4, <1>5, <1>6 DEF Inv, AttemptsAreBacked

LEMMA Steps == Inv /\ [Next]_vars => Inv'
<1> SUFFICES ASSUME Inv, [Next]_vars PROVE Inv'
    OBVIOUS
<1> USE DEF table, counts
<1>1. ASSUME NEW r, report' = Append(report, r), r.kind \notin {"try", "res"},
             UNCHANGED <<suite, excluded, unresolved, available>>, phase' # "attempt"
      PROVE  Inv'
    <2>1. /\ Extends(report', report) /\ Len(report') = Len(report) + 1
          /\ report'[Len(report) + 1] = r
        BY <1>1, AppendExtends DEF Inv
    <2>2. \A i \in (Len(report) + 1)..Len(report') : i = Len(report) + 1
        BY <2>1 DEF Extends
    <2> QED
        BY <1>1, <2>1, <2>2, QuietStep
<1>2. ASSUME UNCHANGED <<suite, excluded, unresolved, available, report>>,
             phase' # "attempt"
      PROVE  Inv'
    BY <1>2, SameExtends, QuietStep DEF Inv, Extends
<1>3. CASE Start
    BY <1>1, <1>3 DEF Start, Meta
<1>4. CASE OpenSection
    BY <1>1, <1>4 DEF OpenSection, Section
<1>5. CASE SkipAbsent
    BY <1>5, ResultStep DEF SkipAbsent, Record
<1>6. CASE SkipBlocked
    BY <1>6, ResultStep DEF SkipBlocked, Record
<1>7. CASE Attempt
    <2>1. suite.requires[Check] \subseteq Backing(suite, report, Len(report) + 1)
        BY <1>7 DEF Attempt, Missing, Inv
    <2>2. Check' = Check
        BY <1>7 DEF Attempt, Check, Sections
    <2> QED
        BY <1>7, <2>1, <2>2, AttemptKeeps DEF Attempt, Inv, AttemptsAreBacked
<1>8. ASSUME NEW status \in Status \ {"crash"}, Return(status)
      PROVE  Inv'
    BY <1>8, ResultStep DEF Return, Record, Inv
<1>9. CASE Crash
    BY <1>9, ResultStep DEF Crash, Record, Inv
<1>10. CASE Die
    BY <1>2, <1>10 DEF Die
<1>11. CASE Heartbeat
    BY <1>2, <1>11 DEF Heartbeat
<1>12. CASE CloseSection
    BY <1>1, <1>12 DEF CloseSection, SectionTally
<1>13. CASE Finish
    <2>1. /\ Extends(report', report)
          /\ \A i \in (Len(report) + 1)..Len(report') :
                report'[i] \in {Frontier(Cardinality(available), blocked, deepest),
                                TallyRecord(total), End}
        BY <1>13, ConcatExtends DEF Finish, Inv
    <2>2. \A i \in (Len(report) + 1)..Len(report') : report'[i].kind \notin {"try", "res"}
        BY <2>1 DEF Frontier, TallyRecord, End
    <2> QED
        BY <1>13, <2>1, <2>2, QuietStep DEF Finish
<1>14. CASE UNCHANGED vars
    BY <1>14 DEF vars, Inv, AttemptsAreBacked, Check, Sections
<1> QED
    BY <1>3, <1>4, <1>5, <1>6, <1>7, <1>8, <1>9, <1>10, <1>11, <1>12, <1>13, <1>14
    DEF Next

\* No failed prerequisite cascades (status.h:4): a check is announced only when passes
\* earlier in the same report established all it requires, and one that is skipped though
\* it was there to be run lacks one.
THEOREM AttemptsBacked == Spec => []AttemptsAreBacked
<1>1. Inv => AttemptsAreBacked
    BY DEF Inv
<1> QED
    BY Initially, Steps, <1>1, PTL DEF Spec
-----------------------------------------------------------------------------
(* The types.  What makes them inductive is where a check is looked at:    *)
(* the loop stands in a section of the table, and at a check of it.        *)

Placed ==
    /\ phase \in {"check", "attempt", "recorded"} => s \in 1..Len(Sections)
    /\ phase = "attempt" => c \in 1..Len(Sections[s])

Types == TypeOK /\ Placed

LEMMA TableTyped ==
    ASSUME suite \in Suites
    PROVE  /\ Len(Sections) \in Nat /\ DOMAIN Sections = 1..Len(Sections)
           /\ suite.provides \in [Checks(suite) -> SUBSET STRING]
           /\ \A i \in 1..Len(Sections) :
                 /\ Len(Sections[i]) \in Nat /\ DOMAIN Sections[i] = 1..Len(Sections[i])
                 /\ \A j \in 1..Len(Sections[i]) : Sections[i][j] \in Checks(suite)
<1>1. /\ Sections \in Seq(Seq(STRING))
      /\ suite.provides \in [Checks(suite) -> SUBSET STRING]
    BY SuitesAssumption DEF Sections
<1>2. Len(Sections) \in Nat /\ DOMAIN Sections = 1..Len(Sections)
    BY <1>1, LenProperties
<1>3. ASSUME NEW i \in 1..Len(Sections)
      PROVE  /\ Len(Sections[i]) \in Nat /\ DOMAIN Sections[i] = 1..Len(Sections[i])
             /\ \A j \in 1..Len(Sections[i]) : Sections[i][j] \in Checks(suite)
    <2>1. Sections[i] \in Seq(STRING)
        BY <1>1, ElementOfSeq
    <2>2. Len(Sections[i]) \in Nat /\ DOMAIN Sections[i] = 1..Len(Sections[i])
        BY <2>1, LenProperties
    <2>3. \A j \in 1..Len(Sections[i]) : Sections[i][j] \in ToSet(Sections[i])
        BY <2>2 DEF ToSet
    <2>4. ToSet(suite.sections[i]) \subseteq Checks(suite)
        BY <1>2 DEF Checks, Sections
    <2> QED
        BY <2>2, <2>3, <2>4 DEF Sections
<1> QED
    BY <1>1, <1>2, <1>3

LEMMA AddTyped ==
    ASSUME NEW t \in [Status -> Nat], NEW status \in Status
    PROVE  Add(t, status) \in [Status -> Nat]
BY DEF Add

LEMMA TypesInitially == Init => Types
<1> SUFFICES ASSUME Init PROVE Types
    OBVIOUS
<1>1. Len(Sections) \in Nat
    BY TableTyped DEF Init
<1>2. Zero \in [Status -> Nat]
    BY DEF Zero
<1> QED
    BY <1>1, <1>2, SuitesAssumption DEF Init, Types, TypeOK, Placed

\* A result, of a status the loop knows, with what it makes available.
LEMMA TypesResult ==
    ASSUME Types, NEW status \in Status, Record(status), s \in 1..Len(Sections),
           blocked' \in Nat, available' \subseteq STRING
    PROVE  Types'
<1>1. {tally, total} \subseteq [Status -> Nat] /\ tally' = Add(tally, status)
      /\ total' = Add(total, status)
    BY DEF Types, TypeOK, Record
<1>2. tally' \in [Status -> Nat] /\ total' \in [Status -> Nat]
    BY <1>1, AddTyped
<1> QED
    BY <1>2 DEF Types, TypeOK, Placed, Record, table, Sections

LEMMA TypesKept == Types /\ [Next]_vars => Types'
<1> SUFFICES ASSUME Types, [Next]_vars PROVE Types'
    OBVIOUS
<1> USE DEF table, counts
<1>0. /\ Len(Sections) \in Nat /\ suite.provides \in [Checks(suite) -> SUBSET STRING]
      /\ \A i \in 1..Len(Sections) :
            /\ Len(Sections[i]) \in Nat
            /\ \A j \in 1..Len(Sections[i]) : Sections[i][j] \in Checks(suite)
    BY TableTyped DEF Types, TypeOK
<1>1. CASE Start
    BY <1>1 DEF Start, Types, TypeOK, Placed, Sections
<1>2. CASE OpenSection
    <2>1. Zero \in [Status -> Nat]
        BY DEF Zero
    <2> QED
        BY <1>0, <1>2, <2>1 DEF OpenSection, Types, TypeOK, Placed, Sections
<1>3. CASE SkipAbsent
    BY <1>3, TypesResult DEF SkipAbsent, Selected, Types, TypeOK, Placed, Status
<1>4. CASE SkipBlocked
    <2>1. /\ Record("skip") /\ s \in 1..Len(Sections)
          /\ blocked' \in Nat /\ available' \subseteq STRING
        BY <1>4 DEF SkipBlocked, Selected, Types, TypeOK, Placed
    <2> QED
        BY <2>1, TypesResult DEF Status
<1>5. CASE Attempt
    <2>1. c \in 1..Len(Sections[s])
        BY <1>0, <1>5 DEF Attempt, Selected, Types, TypeOK, Placed
    <2> QED
        BY <1>5, <2>1 DEF Attempt, Selected, Types, TypeOK, Placed, Sections
<1>6. ASSUME NEW status \in Status \ {"crash"}, Return(status)
      PROVE  Types'
    <2>1. suite.provides[Check] \subseteq STRING
        BY <1>0, <1>6 DEF Return, Types, Placed, Check
    <2> QED
        BY <1>6, <2>1, TypesResult DEF Return, Types, TypeOK, Placed
<1>7. CASE Crash
    BY <1>7, TypesResult DEF Crash, Types, TypeOK, Placed, Status
<1>8. CASE Die
    BY <1>8 DEF Die, Types, TypeOK, Placed, Sections
<1>9. CASE Heartbeat
    BY <1>9 DEF Heartbeat, Types, TypeOK, Placed, Sections
<1>10. CASE CloseSection
    BY <1>0, <1>10 DEF CloseSection, Types, TypeOK, Placed, Sections
<1>11. CASE Finish
    BY <1>11 DEF Finish, Types, TypeOK, Placed, Sections
<1>12. CASE UNCHANGED vars
    BY <1>12 DEF vars, Types, TypeOK, Placed, Sections
<1> QED
    BY <1>1, <1>2, <1>3, <1>4, <1>5, <1>6, <1>7, <1>8, <1>9, <1>10, <1>11, <1>12 DEF Next

\* Every variable of the run has its type, the section and the frontier within the table,
\* for every table.
THEOREM TypeCorrect == Spec => []TypeOK
<1>1. Types => TypeOK
    BY DEF Types
<1> QED
    BY TypesInitially, TypesKept, <1>1, PTL DEF Spec
-----------------------------------------------------------------------------
(* The frontier counts what was skipped and not attempted.  No id is twice *)
(* in a table, so a check the loop comes to is one no record names yet.    *)

\* Reports that differ in records that are neither announcements nor results.
LEMMA BehindQuiet ==
    ASSUME NEW absent, NEW p, NEW q, Extends(q, p),
           \A i \in (Len(p) + 1)..Len(q) : q[i].kind \notin {"try", "res"}
    PROVE  /\ Of(q, "try") = Of(p, "try") /\ Of(q, "res") = Of(p, "res")
           /\ \A i \in Of(p, "try") \cup Of(p, "res") : q[i] = p[i]
           /\ Behind(absent, q) = Behind(absent, p)
<1>1. /\ Of(q, "try") = Of(p, "try") /\ Of(q, "res") = Of(p, "res")
      /\ \A i \in Of(p, "try") \cup Of(p, "res") : q[i] = p[i]
    BY DEF Extends, Of
<1>2. \A id : Tried(q, id) <=> Tried(p, id)
    BY <1>1 DEF Tried
<1> QED
    BY <1>1, <1>2 DEF Behind

\* The only check that q names and p may not is id.
Names(q, p, id) ==
    \A i \in Of(q, "res") \cup Of(q, "try") :
        \/ i \in Of(p, "res") \cup Of(p, "try") /\ q[i] = p[i]
        \/ q[i].id = id

\* What the result of a check does to those behind.
Counts(absent, q, p, id) ==
    /\ Len(p) + 1 \notin Behind(absent, p)
    /\ Behind(absent, q) = IF id \in absent \/ Tried(p, id) THEN Behind(absent, p)
                           ELSE Behind(absent, p) \cup {Len(p) + 1}

\* A result counts as behind where its check was there and was not announced.
LEMMA BehindResult ==
    ASSUME NEW absent, NEW p, NEW id, NEW status, NEW q, IsReport(p),
           q = Append(p, Res(id, status))
    PROVE  /\ Names(q, p, id) /\ Counts(absent, q, p, id)
           /\ Of(q, "frontier") = Of(p, "frontier")
<1> DEFINE r == Res(id, status)
           n == Len(p) + 1
<1>1. Extends(q, p) /\ Len(q) = n /\ q[n] = r
    BY AppendExtends
<1>2. r.kind = "res" /\ r.id = id
    BY DEF Res
<1> HIDE DEF r
<1>3. n \in Nat /\ n \notin 1..Len(p) /\ 1..n = 1..Len(p) \cup {n}
    BY <1>1 DEF Extends
<1>4. /\ Of(q, "try") = Of(p, "try") /\ Of(q, "res") = Of(p, "res") \cup {n}
      /\ Of(q, "frontier") = Of(p, "frontier")
      /\ \A i \in Of(p, "try") \cup Of(p, "res") : q[i] = p[i]
      /\ n \notin Of(p, "res")
    BY <1>1, <1>2, <1>3 DEF Extends, Of
<1>5. \A x : Tried(q, x) <=> Tried(p, x)
    BY <1>4 DEF Tried
<1>6. n \notin Behind(absent, p)
    BY <1>4 DEF Behind
<1>7. \A j : j \in Behind(absent, q) <=>
              \/ j \in Behind(absent, p)
              \/ j = n /\ id \notin absent /\ ~Tried(p, id)
    BY <1>1, <1>2, <1>4, <1>5 DEF Behind
<1> QED
    BY <1>1, <1>2, <1>4, <1>6, <1>7 DEF Names, Counts

\* The announcement of a check that has no result yet.
LEMMA BehindTry ==
    ASSUME NEW absent, NEW p, NEW id, NEW q, IsReport(p), q = Append(p, Try(id)),
           \A i \in Of(p, "res") : p[i].id # id
    PROVE  /\ Names(q, p, id) /\ Of(q, "frontier") = Of(p, "frontier")
           /\ Behind(absent, q) = Behind(absent, p)
<1> DEFINE r == Try(id)
           n == Len(p) + 1
<1>1. Extends(q, p) /\ Len(q) = n /\ q[n] = r
    BY AppendExtends
<1>2. r.kind = "try" /\ r.id = id
    BY DEF Try
<1> HIDE DEF r
<1>3. n \in Nat /\ n \notin 1..Len(p) /\ 1..n = 1..Len(p) \cup {n}
    BY <1>1 DEF Extends
<1>4. /\ Of(q, "try") = Of(p, "try") \cup {n} /\ Of(q, "res") = Of(p, "res")
      /\ Of(q, "frontier") = Of(p, "frontier")
      /\ \A i \in Of(p, "try") \cup Of(p, "res") : q[i] = p[i]
    BY <1>1, <1>2, <1>3 DEF Extends, Of
<1>5. \A i \in Of(p, "res") : Tried(q, p[i].id) <=> Tried(p, p[i].id)
    BY <1>1, <1>2, <1>4 DEF Tried
<1>6. Behind(absent, q) = Behind(absent, p)
    BY <1>4, <1>5 DEF Behind
<1> QED
    BY <1>1, <1>2, <1>4, <1>6 DEF Names

\* The check is in a row the loop has been at.
AtRow(id) ==
    \E k \in 1..Len(Sections) : \E l \in 1..Len(Sections[k]) :
        /\ id = Sections[k][l]
        /\ \/ k < s
           \/ /\ k = s /\ phase \in {"check", "recorded", "attempt", "dead", "stopped"}
              /\ l < c \/ (l = c /\ phase \in {"attempt", "dead"})

Named(r) == {r[i].id : i \in Of(r, "res") \cup Of(r, "try")}

Counting ==
    LET behind == Behind(excluded \cup unresolved, report)
    IN  /\ \A id \in Named(report) : AtRow(id)
        /\ IsFiniteSet(behind) /\ blocked = Cardinality(behind)
        /\ phase # "over" => Of(report, "frontier") = {}
        /\ FrontierIsReal
LEMMA CountingInitially == Init => Counting
<1> SUFFICES ASSUME Init PROVE Counting
    OBVIOUS
<1>1. DOMAIN report = {}
    BY EmptySeq DEF Init
<1>2. \A kind : Of(report, kind) = {}
    BY <1>1 DEF Of
<1> DEFINE behind == Behind(excluded \cup unresolved, report)
<1>3. behind = {}
    BY <1>2 DEF Behind
<1>4. IsFiniteSet(behind) /\ Cardinality(behind) = 0
    BY <1>3, FS_EmptySet
<1> QED
    BY <1>2, <1>4 DEF Counting, Named, FrontierIsReal, Init

\* The loop comes to no row twice.
LEMMA NewName ==
    ASSUME Types, Counting, Selected
    PROVE  Check \notin Named(report)
<1> SUFFICES ASSUME AtRow(Check) PROVE FALSE
    BY DEF Counting
<1>1. /\ s \in 1..Len(Sections) /\ c \in 1..Len(Sections[s]) /\ phase = "check"
      /\ DOMAIN Sections = 1..Len(Sections)
      /\ \A k \in 1..Len(Sections) : DOMAIN Sections[k] = 1..Len(Sections[k])
    BY TableTyped DEF Types, TypeOK, Placed, Selected
<1> DEFINE IsPast(k, l) ==
        \/ k < s
        \/ /\ k = s /\ phase \in {"check", "recorded", "attempt", "dead", "stopped"}
           /\ l < c \/ (l = c /\ phase \in {"attempt", "dead"})
<1>a. PICK k \in 1..Len(Sections) : \E l \in 1..Len(Sections[k]) :
          Check = Sections[k][l] /\ IsPast(k, l)
    BY DEF AtRow
<1>2. PICK l \in 1..Len(Sections[k]) : Check = Sections[k][l] /\ IsPast(k, l)
    BY <1>a
<1>3. k < s \/ (k = s /\ l < c)
    BY <1>1, <1>2
<1>4. k = s /\ l = c
    <2>1. suite \in Suites /\ Sections[s][c] = Sections[k][l]
        BY <1>2 DEF Check, Types, TypeOK
    <2>2. /\ k \in DOMAIN Sections /\ l \in DOMAIN Sections[k]
          /\ s \in DOMAIN Sections /\ c \in DOMAIN Sections[s]
        BY <1>1
    <2> QED
        BY <2>1, <2>2, OneRowEach DEF Sections
<1> QED
    BY <1>1, <1>3, <1>4

\* The loop goes forward over the rows.
LEMMA RowsGo ==
    ASSUME Types, Next, NEW id, AtRow(id)
    PROVE  AtRow(id)'
<1> USE DEF table, counts, Sections
<1>0. s \in Nat /\ c \in Nat /\ \A k \in 1..Len(Sections) : Len(Sections[k]) \in Nat
    BY TableTyped DEF Types, TypeOK
<1>1. PICK k \in 1..Len(Sections) : \E l \in 1..Len(Sections[k]) :
        /\ id = Sections[k][l]
        /\ \/ k < s
           \/ /\ k = s /\ phase \in {"check", "recorded", "attempt", "dead", "stopped"}
              /\ l < c \/ (l = c /\ phase \in {"attempt", "dead"})
    BY DEF AtRow
<1>2. PICK l \in 1..Len(Sections[k]) :
        /\ id = Sections[k][l]
        /\ \/ k < s
           \/ /\ k = s /\ phase \in {"check", "recorded", "attempt", "dead", "stopped"}
              /\ l < c \/ (l = c /\ phase \in {"attempt", "dead"})
    BY <1>1
<1>3. SUFFICES \/ k < s'
               \/ /\ k = s' /\ phase' \in {"check", "recorded", "attempt", "dead", "stopped"}
                  /\ l < c' \/ (l = c' /\ phase' \in {"attempt", "dead"})
    <2>1. suite' = suite
        BY DEF Next, Start, OpenSection, SkipAbsent, SkipBlocked, Attempt, Return, Crash,
               Die, Heartbeat, CloseSection, Finish, Record
    <2> QED
        BY <1>2, <2>1 DEF AtRow
<1>4. CASE Start \/ OpenSection \/ CloseSection \/ Finish
    <2>1. phase \in {"start", "section"} => k < s
        BY <1>2
    <2>2. k \in Nat /\ (k < s \/ k = s)
        BY <1>2
    <2>3. (s' = s /\ phase \in {"start", "section"}) \/ s' = s + 1
        BY <1>4 DEF Start, OpenSection, CloseSection, Finish
    <2> QED
        BY <1>0, <2>1, <2>2, <2>3
<1>5. CASE \E status : Record(status) /\ phase \in {"check", "attempt"}
    BY <1>0, <1>2, <1>5 DEF Record
<1>6. CASE Attempt \/ Die \/ Heartbeat
    BY <1>0, <1>2, <1>6 DEF Attempt, Selected, Die, Heartbeat
<1> QED
    BY <1>4, <1>5, <1>6 DEF Next, SkipAbsent, SkipBlocked, Selected, Return, Crash

\* A step that writes no announcement, no result and no frontier.
LEMMA CountingQuiet ==
    ASSUME Counting, Extends(report', report), phase # "over",
           \A i \in (Len(report) + 1)..Len(report') :
              report'[i].kind \notin {"try", "res", "frontier"},
           UNCHANGED <<suite, excluded, unresolved, blocked>>,
           \A id : AtRow(id) => AtRow(id)'
    PROVE  Counting'
<1>1. /\ Of(report', "try") = Of(report, "try") /\ Of(report', "res") = Of(report, "res")
      /\ \A i \in Of(report, "try") \cup Of(report, "res") : report'[i] = report[i]
      /\ \A absent : Behind(absent, report') = Behind(absent, report)
    BY BehindQuiet
<1>1a. Named(report') = Named(report)
    BY <1>1 DEF Named
<1>2. Of(report', "frontier") = {}
    BY DEF Counting, Extends, Of
<1> QED
    BY <1>1, <1>1a, <1>2 DEF Counting, FrontierIsReal

\* The result of a check, which the frontier counts where it was skipped for want of a
\* capability.
LEMMA CountingResult ==
    ASSUME Types, Inv, Counting, NEW status, Record(status), Next,
           UNCHANGED suite, phase \in {"check", "attempt"},
           phase = "check" => Selected,
           blocked' = IF phase = "check" /\ Check \notin excluded \cup unresolved
                      THEN blocked + 1 ELSE blocked
    PROVE  Counting'
<1> DEFINE absent == excluded \cup unresolved
           n == Len(report) + 1
<1>1. /\ report' = Append(report, Res(Check, status)) /\ phase' = "recorded"
      /\ s' = s /\ c' = c + 1
      /\ UNCHANGED <<excluded, unresolved>>
    BY DEF Record, table
<1>2. IsReport(report)
    BY DEF Inv
<1>3. /\ \A id \in Named(report') : id \in Named(report) \/ id = Check
      /\ Of(report', "frontier") = Of(report, "frontier")
      /\ n \notin Behind(absent, report)
      /\ Behind(absent, report') =
             IF Check \in absent \/ Tried(report, Check) THEN Behind(absent, report)
             ELSE Behind(absent, report) \cup {n}
    <2> HIDE DEF absent
    <2>1. /\ Names(report', report, Check) /\ Counts(absent, report', report, Check)
          /\ Of(report', "frontier") = Of(report, "frontier")
        BY <1>1, <1>2, BehindResult
    <2> QED
        BY <2>1 DEF Named, Names, Counts
<1>4. phase = "check" => ~Tried(report, Check)
    BY NewName DEF Named, Tried
<1>5. phase = "attempt" => Tried(report, Check)
    BY DEF Inv
<1>6. Behind(absent, report') = IF blocked' = blocked THEN Behind(absent, report)
                                ELSE Behind(absent, report) \cup {n}
    BY <1>3, <1>4, <1>5 DEF Types, TypeOK
<1>7. /\ IsFiniteSet(Behind(absent, report'))
      /\ Cardinality(Behind(absent, report')) = blocked'
    <2>1. IsFiniteSet(Behind(absent, report)) /\ blocked = Cardinality(Behind(absent, report))
        BY DEF Counting
    <2> HIDE DEF absent
    <2>2. blocked' = blocked \/ blocked' = blocked + 1
        OBVIOUS
    <2>3. /\ IsFiniteSet(Behind(absent, report) \cup {n})
          /\ Cardinality(Behind(absent, report) \cup {n}) = blocked + 1
        BY <1>3, <2>1, FS_AddElement
    <2> QED
        BY <1>6, <2>1, <2>2, <2>3
<1>8. ASSUME NEW id, id = Check
      PROVE  AtRow(id)'
    <2>1. s \in 1..Len(Sections) /\ c \in 1..Len(Sections[s])
        BY TableTyped DEF Types, TypeOK, Placed, Selected
    <2> QED
        BY <1>1, <1>8, <2>1, SMTT(30) DEF AtRow, Check, Sections
<1>9. \A id \in Named(report') : AtRow(id)'
    BY <1>3, <1>8, RowsGo DEF Counting
<1>10. Of(report', "frontier") = {}
    BY <1>3 DEF Counting
<1> QED
    BY <1>1, <1>7, <1>9, <1>10 DEF Counting, FrontierIsReal
LEMMA CountingKept == Types /\ Inv /\ Counting /\ [Next]_vars => Counting'
<1> SUFFICES ASSUME Types, Inv, Counting, [Next]_vars PROVE Counting'
    OBVIOUS
<1> USE DEF table, counts
<1>1. CASE Next
    <2>1. \A id : AtRow(id) => AtRow(id)'
        BY <1>1, RowsGo
    <2>2. ASSUME NEW r, report' = Append(report, r), r.kind \notin {"try", "res", "frontier"},
                 UNCHANGED <<suite, excluded, unresolved, blocked>>, phase # "over"
          PROVE  Counting'
        <3>1. /\ Extends(report', report) /\ Len(report') = Len(report) + 1
              /\ report'[Len(report) + 1] = r
            BY <2>2, AppendExtends DEF Inv
        <3>2. \A i \in (Len(report) + 1)..Len(report') : i = Len(report) + 1
            BY <3>1 DEF Extends
        <3> QED
            BY <2>1, <2>2, <3>1, <3>2, CountingQuiet
    <2>3. ASSUME UNCHANGED <<suite, excluded, unresolved, blocked, report>>, phase # "over"
          PROVE  Counting'
        BY <2>1, <2>3, SameExtends, CountingQuiet DEF Inv, Extends
    <2>4. CASE Start
        BY <2>2, <2>4 DEF Start, Meta
    <2>5. CASE OpenSection
        BY <2>2, <2>5 DEF OpenSection, Section
    <2>6. CASE SkipAbsent
        BY <1>1, <2>6, CountingResult DEF SkipAbsent, Selected, Record
    <2>7. CASE SkipBlocked
        BY <1>1, <2>7, CountingResult DEF SkipBlocked, Selected, Record
    <2>8. CASE Attempt
        <3> DEFINE absent == excluded \cup unresolved
        <3>1. Check \notin Named(report)
            BY <2>8, NewName DEF Attempt
        <3>2. /\ Names(report', report, Check) /\ Of(report', "frontier") = Of(report, "frontier")
              /\ Behind(absent, report') = Behind(absent, report)
            <4>1. IsReport(report) /\ report' = Append(report, Try(Check))
                BY <2>8 DEF Attempt, Inv
            <4>2. \A i \in Of(report, "res") : report[i].id # Check
                BY <3>1 DEF Named
            <4> HIDE DEF absent
            <4> QED
                BY <4>1, <4>2, BehindTry
        <3>3. ASSUME NEW id, id = Check
              PROVE  AtRow(id)'
            <4>1. s \in 1..Len(Sections) /\ c \in 1..Len(Sections[s])
                BY <2>8, TableTyped DEF Attempt, Selected, Types, TypeOK, Placed
            <4> QED
                BY <2>8, <3>3, <4>1 DEF Attempt, AtRow, Check, Sections
        <3>4. \A id \in Named(report') : AtRow(id)'
            BY <2>1, <3>2, <3>3 DEF Named, Names, Counting
        <3>5. /\ UNCHANGED <<excluded, unresolved, blocked>>
              /\ Of(report', "frontier") = {}
            BY <2>8, <3>2 DEF Attempt, Selected, Counting
        <3> QED
            BY <3>2, <3>4, <3>5 DEF Counting, FrontierIsReal
    <2>9. ASSUME NEW status \in Status \ {"crash"}, Return(status)
          PROVE  Counting'
        BY <1>1, <2>9, CountingResult DEF Return, Record
    <2>10. CASE Crash
        BY <1>1, <2>10, CountingResult DEF Crash, Record
    <2>11. CASE Die
        BY <2>3, <2>11 DEF Die
    <2>12. CASE Heartbeat
        BY <2>3, <2>12 DEF Heartbeat
    <2>13. CASE CloseSection
        BY <2>2, <2>13 DEF CloseSection, SectionTally
    <2>14. CASE Finish
        <3> DEFINE absent == excluded \cup unresolved
                   n == Len(report) + 1
                   f == Frontier(Cardinality(available), blocked, deepest)
        <3>1. IsReport(report) /\ report' = report \o <<f, TallyRecord(total), End>>
            BY <2>14 DEF Finish, Inv
        <3>2. /\ Extends(report', report) /\ Len(report') = Len(report) + 3
              /\ report'[n] = f
              /\ \A i \in n..Len(report') :
                    /\ report'[i].kind \notin {"try", "res"}
                    /\ report'[i].kind = "frontier" => i = n
            <4>1. /\ Extends(report', report) /\ Len(report') = Len(report) + 3
                  /\ report'[n] = f /\ report'[n + 1] = TallyRecord(total)
                  /\ report'[n + 2] = End
                <5> HIDE DEF f
                <5> QED
                    BY <3>1, ConcatExtends DEF Extends
            <4>2. \A i \in n..Len(report') : i = n \/ i = n + 1 \/ i = n + 2
                BY <4>1 DEF Extends
            <4> QED
                BY <4>1, <4>2 DEF Frontier, TallyRecord, End
        <3>3. /\ Named(report') = Named(report)
              /\ Behind(absent, report') = Behind(absent, report)
            <4>1. /\ Of(report', "try") = Of(report, "try")
                  /\ Of(report', "res") = Of(report, "res")
                  /\ \A i \in Of(report, "try") \cup Of(report, "res") : report'[i] = report[i]
                  /\ \A x : Behind(x, report') = Behind(x, report)
                BY <3>2, BehindQuiet
            <4> QED
                BY <4>1 DEF Named
        <3>4. Of(report', "frontier") \subseteq {n}
            BY <2>14, <3>2 DEF Counting, Finish, Extends, Of
        <3>5. Backing(suite, report', n) = available
            BY <3>2, BackingStays DEF Inv, Extends
        <3>6. /\ report'[n].established = Cardinality(available)
              /\ report'[n].blocked = blocked
            BY <3>2 DEF Frontier
        <3>7. /\ UNCHANGED <<suite, excluded, unresolved, blocked>> /\ phase' = "over"
            BY <2>14 DEF Finish
        <3>8. FrontierIsReal'
            BY <3>3, <3>4, <3>5, <3>6, <3>7 DEF FrontierIsReal, Counting
        <3> QED
            BY <2>1, <3>3, <3>7, <3>8 DEF Counting
    <2> QED
        BY <1>1, <2>4, <2>5, <2>6, <2>7, <2>8, <2>9, <2>10, <2>11, <2>12, <2>13, <2>14
        DEF Next
<1>2. CASE UNCHANGED vars
    <2>1. Sections' = Sections /\ \A id : AtRow(id)' = AtRow(id)
        BY <1>2 DEF vars, AtRow, Sections
    <2>2. FrontierIsReal' = FrontierIsReal
        BY <1>2 DEF vars, FrontierIsReal
    <2> QED
        BY <1>2, <2>1, <2>2 DEF vars, Counting
<1> QED
    BY <1>1, <1>2

\* The frontier record tells the truth about the report it ends: what passes established,
\* and how many checks were there to be run and lacked a capability (harness.c:2712).
THEOREM FrontierTrue == Spec => []FrontierIsReal
<1>1. Counting => FrontierIsReal
    BY DEF Counting
<1> QED
    BY Initially, Steps, TypesInitially, TypesKept, CountingInitially, CountingKept, <1>1,
       PTL DEF Spec
-----------------------------------------------------------------------------
(* The gate against the run.  The loop answers its rows in order, so what  *)
(* is established at a row is at most what the rows before it grant, and   *)
(* no less where all of those passed.                                      *)

\* The rows the loop has left have their results.
Answered ==
    \A k \in 1..Len(Sections) : \A l \in 1..Len(Sections[k]) :
        k < s \/ (k = s /\ l < c /\ phase \in {"check", "recorded", "attempt"}) =>
            \E i \in Of(report, "res") : report[i].id = Sections[k][l]

\* No check asks for what the run starts with.
AsksOfChecks == \A t \in Suites : \A id \in Checks(t) : Granted \notin t.requires[id]

LEMMA AnsweredInitially == Init => Answered
<1> SUFFICES ASSUME Init PROVE Answered
    OBVIOUS
<1>1. s = 1 /\ c = 1 /\ Len(Sections) \in Nat
      /\ \A k \in 1..Len(Sections) : Len(Sections[k]) \in Nat
    BY TableTyped DEF Init
<1> QED
    BY <1>1 DEF Answered

\* A result stands.
LEMMA ResultStays ==
    ASSUME NEW p, NEW q, Extends(q, p), NEW id, \E i \in Of(p, "res") : p[i].id = id
    PROVE  \E i \in Of(q, "res") : q[i].id = id
BY DEF Extends, Of

LEMMA Grows ==
    ASSUME Inv, Next
    PROVE  Extends(report', report) /\ UNCHANGED <<suite, excluded, unresolved>>
<1> USE DEF table, counts
<1>1. IsReport(report)
    BY DEF Inv
<1>2. \/ \E r : report' = Append(report, r)
      \/ \E x, y, z : report' = report \o <<x, y, z>>
      \/ report' = report
    <2>1. CASE Start \/ OpenSection \/ Attempt \/ CloseSection
        BY <2>1 DEF Start, OpenSection, Attempt, CloseSection
    <2>2. CASE \E status : Record(status)
        BY <2>2 DEF Record
    <2>3. CASE Die \/ Heartbeat
        BY <2>3 DEF Die, Heartbeat
    <2>4. CASE Finish
        BY <2>4 DEF Finish
    <2> QED
        BY <2>1, <2>2, <2>3, <2>4 DEF Next, SkipAbsent, SkipBlocked, Return, Crash
<1>3. Extends(report', report)
    <2>1. ASSUME NEW r, report' = Append(report, r)
          PROVE  Extends(report', report)
        BY <1>1, <2>1, AppendExtends
    <2>2. ASSUME NEW x, NEW y, NEW z, report' = report \o <<x, y, z>>
          PROVE  Extends(report', report)
        BY <1>1, <2>2, ConcatExtends
    <2>3. ASSUME report' = report
          PROVE  Extends(report', report)
        BY <1>1, <2>3, SameExtends
    <2> QED
        BY <1>2, <2>1, <2>2, <2>3
<1>4. UNCHANGED <<suite, excluded, unresolved>>
    BY DEF Next, Start, OpenSection, SkipAbsent, SkipBlocked, Attempt, Return, Crash,
           Die, Heartbeat, CloseSection, Finish, Record
<1> QED
    BY <1>3, <1>4

\* The row the loop is at.
LEMMA CheckPlaced ==
    ASSUME Types, phase = "attempt" \/ Selected
    PROVE  s \in 1..Len(Sections) /\ c \in 1..Len(Sections[s])
BY TableTyped DEF Types, TypeOK, Placed, Selected

LEMMA AnsweredKept == Types /\ Inv /\ Answered /\ [Next]_vars => Answered'
<1> SUFFICES ASSUME Types, Inv, Answered, [Next]_vars PROVE Answered'
    OBVIOUS
<1>1. CASE Next
    <2>1. Extends(report', report) /\ Sections' = Sections
        BY <1>1, Grows DEF Sections
    <2>2. SUFFICES ASSUME NEW k \in 1..Len(Sections), NEW l \in 1..Len(Sections[k]),
                          k < s' \/ (k = s' /\ l < c'
                                     /\ phase' \in {"check", "recorded", "attempt"})
                   PROVE  \E i \in Of(report', "res") : report'[i].id = Sections[k][l]
        BY <2>1 DEF Answered
    <2>3. /\ s \in Nat /\ c \in Nat /\ k \in Nat /\ l \in Nat
          /\ \A j \in 1..Len(Sections) : Len(Sections[j]) \in Nat
        BY TableTyped DEF Types, TypeOK
    <2>4. ASSUME k < s \/ (k = s /\ l < c /\ phase \in {"check", "recorded", "attempt"})
          PROVE  \E i \in Of(report', "res") : report'[i].id = Sections[k][l]
        <3>1. \E i \in Of(report, "res") : report[i].id = Sections[k][l]
            BY <2>4 DEF Answered
        <3> QED
            BY <2>1, <3>1, ResultStays
    <2>5. CASE Start \/ Finish \/ Attempt \/ Die \/ Heartbeat
        BY <2>2, <2>3, <2>4, <2>5 DEF Start, Finish, Attempt, Selected, Die, Heartbeat, table, counts
    <2>6. CASE OpenSection
        <3>1. k < s \/ (k = s /\ l < 1)
            BY <2>2, <2>6 DEF OpenSection
        <3> QED
            BY <2>3, <2>4, <3>1
    <2>7. CASE CloseSection
        <3>1. k < s + 1 /\ phase = "check" /\ c > Len(Sections[s])
            BY <2>2, <2>7 DEF CloseSection
        <3>2. k < s \/ (k = s /\ l < c)
            BY <2>3, <3>1
        <3> QED
            BY <2>4, <3>1, <3>2
    <2>8. CASE (\E status : Record(status)) /\ (phase = "attempt" \/ Selected)
        <3>1. PICK status : Record(status)
            BY <2>8
        <3>2. \E i \in Of(report', "res") : report'[i].id = Check
            <4>1. IsReport(report) /\ report' = Append(report, Res(Check, status))
                BY <3>1 DEF Record, Inv
            <4>2. /\ Len(report') = Len(report) + 1
                  /\ report'[Len(report) + 1] = Res(Check, status)
                BY <4>1, AppendExtends
            <4>3. Len(report) + 1 \in DOMAIN report'
                BY <2>1, <4>2 DEF Extends
            <4> QED
                BY <4>2, <4>3 DEF Of, Res
        <3>3. s' = s /\ c' = c + 1
            BY <3>1 DEF Record, table
        <3>4. phase \in {"check", "attempt"}
            BY <2>8 DEF Selected
        <3> QED
            BY <2>2, <2>3, <2>4, <3>2, <3>3, <3>4 DEF Check
    <2> QED
        BY <1>1, <2>5, <2>6, <2>7, <2>8 DEF Next, SkipAbsent, SkipBlocked, Return, Crash
<1>2. CASE UNCHANGED vars
    <2>1. UNCHANGED <<Sections, s, c, phase, report>>
        BY <1>2 DEF vars, table, Sections
    <2> QED
        BY <2>1 DEF Answered
<1> QED
    BY <1>1, <1>2
LEMMA RowsOfTable ==
    ASSUME Types
    PROVE  \A row : row \in Rows(suite) <=>
              \E k \in 1..Len(Sections) : \E l \in 1..Len(Sections[k]) : row = <<k, l>>
<1>1. /\ DOMAIN Sections = 1..Len(Sections)
      /\ \A k \in 1..Len(Sections) : DOMAIN Sections[k] = 1..Len(Sections[k])
    BY TableTyped DEF Types, TypeOK
<1> QED
    BY <1>1 DEF Rows, Sections

\* What is established at a row is what rows before it grant.
LEMMA AvailableBelow ==
    ASSUME Types, Inv, Counting, Selected
    PROVE  available \subseteq {Granted} \cup Given(suite, <<s, c>>)
<1>1. available = {Granted} \cup UNION {suite.provides[id] : id \in Passed(report, Len(report) + 1)}
    BY DEF Inv, Backing
<1>2. ASSUME NEW id \in Passed(report, Len(report) + 1)
      PROVE  suite.provides[id] \subseteq Given(suite, <<s, c>>)
    <2>1. AtRow(id)
        BY DEF Passed, Named, Counting
    <2>2. phase = "check"
        BY DEF Selected
    <2>3. PICK k \in 1..Len(Sections) : \E l \in 1..Len(Sections[k]) :
              id = Sections[k][l] /\ (k < s \/ (k = s /\ l < c))
        BY <2>1, <2>2 DEF AtRow
    <2>4. PICK l \in 1..Len(Sections[k]) :
              id = Sections[k][l] /\ (k < s \/ (k = s /\ l < c))
        BY <2>3
    <2>5. <<k, l>> \in Rows(suite) /\ At(suite, <<k, l>>) = id
        BY <2>4, RowsOfTable DEF At, Sections
    <2> QED
        BY <2>4, <2>5 DEF Given
<1> QED
    BY <1>1, <1>2

\* Where every result is a pass, it is all that they grant.
LEMMA AvailableAbove ==
    ASSUME Types, Inv, Answered, Selected,
           \A i \in Of(report, "res") : report[i].status = "pass"
    PROVE  Given(suite, <<s, c>>) \subseteq available
<1>1. available = {Granted} \cup UNION {suite.provides[id] : id \in Passed(report, Len(report) + 1)}
    BY DEF Inv, Backing
<1>2. ASSUME NEW row \in Rows(suite), row[1] < s \/ (row[1] = s /\ row[2] < c)
      PROVE  At(suite, row) \in Passed(report, Len(report) + 1)
    <2>1. PICK k \in 1..Len(Sections) : \E l \in 1..Len(Sections[k]) : row = <<k, l>>
        BY RowsOfTable
    <2>2. PICK l \in 1..Len(Sections[k]) : row = <<k, l>>
        BY <2>1
    <2>3. k < s \/ (k = s /\ l < c /\ phase = "check")
        BY <1>2, <2>2 DEF Selected
    <2>4. PICK i \in Of(report, "res") : report[i].id = Sections[k][l]
        BY <2>3 DEF Answered
    <2>5. i < Len(report) + 1
        <3>1. Extends(report, report)
            BY SameExtends DEF Inv
        <3> QED
            BY <3>1 DEF Extends, Of
    <2> QED
        BY <2>2, <2>4, <2>5 DEF Passed, At, Sections
<1> QED
    BY <1>1, <1>2 DEF Given

\* What the gate says of the check at a row is what it says of the row.
LEMMA MissesOfRow ==
    ASSUME Types, Selected, NEW miss \in Unsatisfiable(suite), miss[1] = Check
    PROVE  miss[2] \in suite.requires[Check] \ Given(suite, <<s, c>>)
<1>1. PICK row \in Rows(suite) :
          \E wanted \in suite.requires[At(suite, row)] \ Given(suite, row) :
              miss = <<At(suite, row), wanted>>
    BY DEF Unsatisfiable
<1>2. PICK k \in 1..Len(Sections) : \E l \in 1..Len(Sections[k]) : row = <<k, l>>
    BY RowsOfTable
<1>3. PICK l \in 1..Len(Sections[k]) : row = <<k, l>>
    BY <1>2
<1>4. Sections[k][l] = Sections[s][c]
    BY <1>1, <1>3 DEF At, Check, Sections
<1>5. s \in 1..Len(Sections) /\ c \in 1..Len(Sections[s])
    BY CheckPlaced
<1>6. k = s /\ l = c
    <2>1. /\ DOMAIN Sections = 1..Len(Sections) /\ suite \in Suites
          /\ \A j \in 1..Len(Sections) : DOMAIN Sections[j] = 1..Len(Sections[j])
        BY TableTyped DEF Types, TypeOK
    <2> QED
        BY <1>4, <1>5, <2>1, OneRowEach DEF Sections
<1> QED
    BY <1>1, <1>3, <1>6 DEF At, Check, Sections

LEMMA RowMisses ==
    ASSUME Types, Selected, Unsatisfiable(suite) = {}
    PROVE  suite.requires[Check] \subseteq Given(suite, <<s, c>>)
<1>1. <<s, c>> \in Rows(suite) /\ At(suite, <<s, c>>) = Check
    BY CheckPlaced, RowsOfTable DEF At, Check, Sections
<1>2. ASSUME NEW wanted \in suite.requires[Check] \ Given(suite, <<s, c>>)
      PROVE  FALSE
    <2> DEFINE row == <<s, c>>
               missed(r) == {<<At(suite, r), w>> : w \in suite.requires[At(suite, r)] \ Given(suite, r)}
    <2>1. <<Check, wanted>> \in missed(row)
        BY <1>1, <1>2
    <2>2. missed(row) \subseteq UNION {missed(r) : r \in Rows(suite)}
        <3> HIDE DEF missed
        <3> QED
            BY <1>1
    <2> QED
        BY <2>1, <2>2 DEF Unsatisfiable
<1> QED
    BY <1>2
Gated ==
    LET misses == Unsatisfiable(suite)
    IN  /\ \A miss \in misses : miss[1] \notin {report[i].id : i \in Of(report, "try")}
        /\ (misses = {} /\ excluded \cup unresolved = {}) =>
              \A i \in Of(report, "res") :
                  \/ Tried(report, report[i].id)
                  \/ \E j \in Of(report, "res") : j < i /\ report[j].status # "pass"

LEMMA GateInitially == Init => Gated
<1> SUFFICES ASSUME Init PROVE Gated
    OBVIOUS
<1>1. DOMAIN report = {}
    BY EmptySeq DEF Init
<1> QED
    BY <1>1 DEF Gated, Of

\* What the gate and the report have said stands in a longer report, so that a step has
\* to be judged by its own record.
LEMMA GateStep ==
    ASSUME Inv, Next, Gated,
           \A i \in Of(report', "try") \ 1..Len(report) :
               \A miss \in Unsatisfiable(suite) : miss[1] # report'[i].id,
           Unsatisfiable(suite) = {} /\ excluded \cup unresolved = {} =>
               \A i \in Of(report', "res") \ 1..Len(report) :
                  \/ Tried(report', report'[i].id)
                  \/ \E j \in Of(report, "res") : report[j].status # "pass"
    PROVE  Gated'
<1>1. Extends(report', report) /\ UNCHANGED <<suite, excluded, unresolved>>
    BY Grows
<1>2. /\ \A i \in Of(report', "try") : i \in 1..Len(report) =>
            i \in Of(report, "try") /\ report'[i] = report[i]
      /\ \A i \in Of(report', "res") : i \in 1..Len(report) =>
            i \in Of(report, "res") /\ report'[i] = report[i]
      /\ \A j \in Of(report, "res") : j \in Of(report', "res") /\ report'[j] = report[j]
      /\ \A i \in Of(report', "res") \ 1..Len(report) : \A j \in Of(report, "res") : j < i
    BY <1>1 DEF Extends, Of
<1>3. \A id : Tried(report, id) => Tried(report', id)
    BY <1>1, TriedStays
<1>4. \A miss \in Unsatisfiable(suite') : miss[1] \notin {report'[i].id : i \in Of(report', "try")}
    BY <1>1, <1>2 DEF Gated
<1>5. ASSUME Unsatisfiable(suite') = {}, excluded' \cup unresolved' = {},
             NEW i \in Of(report', "res")
      PROVE  \/ Tried(report', report'[i].id)
             \/ \E j \in Of(report', "res") : j < i /\ report'[j].status # "pass"
    <2>1. Unsatisfiable(suite) = {} /\ excluded \cup unresolved = {}
        BY <1>1, <1>5
    <2>2. CASE i \in 1..Len(report)
        BY <1>2, <1>3, <2>1, <2>2 DEF Gated
    <2>3. CASE i \notin 1..Len(report)
        BY <1>2, <2>1, <2>3
    <2> QED
        BY <2>2, <2>3
<1> QED
    BY <1>4, <1>5 DEF Gated

LEMMA GateKept ==
    ASSUME AsksOfChecks
    PROVE  Types /\ Inv /\ Counting /\ Answered /\ Gated /\ [Next]_vars => Gated'
<1> SUFFICES ASSUME Types, Inv, Counting, Answered, Gated, [Next]_vars PROVE Gated'
    OBVIOUS
<1> USE DEF table, counts
<1> DEFINE n == Len(report) + 1
<1>1. ASSUME Next, NEW r, report' = Append(report, r),
             r.kind = "try" => \A miss \in Unsatisfiable(suite) : miss[1] # r.id,
             r.kind = "res" /\ Unsatisfiable(suite) = {} /\ excluded \cup unresolved = {} =>
                \/ Tried(report, r.id)
                \/ \E j \in Of(report, "res") : report[j].status # "pass"
      PROVE  Gated'
    <2>1. Extends(report', report) /\ Len(report') = n /\ report'[n] = r
        BY <1>1, AppendExtends DEF Inv
    <2>2. \A i \in DOMAIN report' : i \notin 1..Len(report) => i = n
        BY <2>1 DEF Extends
    <2>3. \A i \in Of(report', "try") \ 1..Len(report) : i = n /\ r.kind = "try"
        BY <2>1, <2>2 DEF Of
    <2>4. \A i \in Of(report', "res") \ 1..Len(report) : i = n /\ r.kind = "res"
        BY <2>1, <2>2 DEF Of
    <2>5. Tried(report, r.id) => Tried(report', r.id)
        BY <2>1, TriedStays
    <2> QED
        BY <1>1, <2>1, <2>3, <2>4, <2>5, GateStep
<1>2. CASE Start \/ OpenSection \/ CloseSection
    BY <1>1, <1>2 DEF Next, Start, Meta, OpenSection, Section, CloseSection, SectionTally
<1>3. CASE SkipAbsent
    <2>1. excluded \cup unresolved # {} /\ Next /\ \E status : report' = Append(report, Res(Check, status))
        BY <1>3 DEF SkipAbsent, Record, Next
    <2> QED
        BY <1>1, <2>1 DEF Res
<1>4. CASE SkipBlocked
    <2>1. Next /\ Selected /\ Missing # {} /\ report' = Append(report, Res(Check, "skip"))
        BY <1>4 DEF SkipBlocked, Record, Next
    <2>2. ASSUME Unsatisfiable(suite) = {},
                 \A j \in Of(report, "res") : report[j].status = "pass"
          PROVE  FALSE
        BY <2>1, <2>2, AvailableAbove, RowMisses DEF Missing
    <2> QED
        BY <1>1, <2>1, <2>2 DEF Res
<1>5. CASE Attempt
    <2>1. Next /\ Selected /\ Missing = {} /\ report' = Append(report, Try(Check))
        BY <1>5 DEF Attempt, Next
    <2>2. Granted \notin suite.requires[Check]
        BY <2>1, CheckPlaced, TableTyped DEF AsksOfChecks, Types, TypeOK, Check
    <2>3. suite.requires[Check] \subseteq Given(suite, <<s, c>>)
        BY <2>1, <2>2, AvailableBelow DEF Missing
    <2>4. \A miss \in Unsatisfiable(suite) : miss[1] # Check
        BY <2>1, <2>3, MissesOfRow
    <2> QED
        BY <1>1, <2>1, <2>4 DEF Try
<1>6. CASE phase = "attempt" /\ Next /\ \E status : Record(status)
    BY <1>1, <1>6 DEF Record, Res, Inv
<1>7. CASE Die \/ Heartbeat
    <2>1. Next /\ report' = report
        BY <1>7 DEF Die, Heartbeat, Next
    <2>2. \A kind : Of(report', kind) \ 1..Len(report) = {}
        <3>1. Extends(report, report)
            BY SameExtends DEF Inv
        <3> QED
            BY <2>1, <3>1 DEF Extends, Of
    <2> QED
        BY <2>1, <2>2, GateStep
<1>8. CASE Finish
    <2>1. Next /\ /\ Extends(report', report) /\ Len(report') = Len(report) + 3
                  /\ \A i \in n..Len(report') :
                        report'[i] \in {Frontier(Cardinality(available), blocked, deepest),
                                        TallyRecord(total), End}
        BY <1>8, ConcatExtends DEF Finish, Inv, Next
    <2>2. \A i \in n..Len(report') : report'[i].kind \notin {"try", "res"}
        BY <2>1 DEF Frontier, TallyRecord, End
    <2>3. Of(report', "try") \ 1..Len(report) = {} /\ Of(report', "res") \ 1..Len(report) = {}
        BY <2>1, <2>2 DEF Extends, Of
    <2> QED
        BY <2>1, <2>3, GateStep
<1>9. CASE UNCHANGED vars
    BY <1>9 DEF vars, Gated
<1> QED
    BY <1>2, <1>3, <1>4, <1>5, <1>6, <1>7, <1>8, <1>9 DEF Next, Return, Crash

\* Where no check asks for what the run starts with, the gate (caps.rs) is right about
\* every run: a check it names is never attempted, and in a table it accepts nothing is
\* skipped before some check came out other than it could.
THEOREM GateTellsRuns == ASSUME AsksOfChecks PROVE Spec => []GateIsRight
<1>1. Gated => GateIsRight
    BY DEF Gated, GateIsRight, Tried
<1> QED
    BY Initially, Steps, TypesInitially, TypesKept, CountingInitially, CountingKept,
       AnsweredInitially, AnsweredKept, GateInitially, GateKept, <1>1, PTL DEF Spec
-----------------------------------------------------------------------------
(* The tallies.  Each counts the results since its section opened, and the *)
(* total those since the run began.                                        *)

Results(r, low, high, status) ==
    {k \in Of(r, "res") : low < k /\ k < high /\ r[k].status = status}

LEMMA ResultsFinite ==
    ASSUME NEW p, IsReport(p), NEW low, NEW high, NEW status
    PROVE  /\ IsFiniteSet(Results(p, low, high, status))
           /\ CountOf(p, low, high, status) = Cardinality(Results(p, low, high, status))
<1>1. Len(p) \in Nat /\ DOMAIN p = 1..Len(p)
    BY SameExtends DEF Extends
<1>2. IsFiniteSet(1..Len(p))
    BY <1>1, FS_Interval
<1>3. Results(p, low, high, status) \subseteq 1..Len(p)
    BY <1>1 DEF Results, Of
<1> QED
    BY <1>2, <1>3, FS_Subset DEF CountOf, Results

\* What is counted up to a place does not change as a report grows.
LEMMA CountStays ==
    ASSUME NEW p, NEW q, Extends(q, p), NEW low, NEW high \in 1..(Len(p) + 1), NEW status
    PROVE  CountOf(q, low, high, status) = CountOf(p, low, high, status)
<1>1. Results(q, low, high, status) = Results(p, low, high, status)
    BY DEF Extends, Of, Results
<1> QED
    BY <1>1 DEF CountOf, Results

\* Nor by records that are no results.
LEMMA CountQuiet ==
    ASSUME NEW p, NEW q, Extends(q, p), NEW low, NEW status,
           \A i \in (Len(p) + 1)..Len(q) : q[i].kind # "res"
    PROVE  CountOf(q, low, Len(q) + 1, status) = CountOf(p, low, Len(p) + 1, status)
<1>1. Results(q, low, Len(q) + 1, status) = Results(p, low, Len(p) + 1, status)
    BY DEF Extends, Of, Results
<1> QED
    BY <1>1 DEF CountOf, Results

\* A result adds itself where its status is counted.
CountsOne(q, p, low, status, x) ==
    CountOf(q, low, Len(q) + 1, x) =
        IF x = status THEN CountOf(p, low, Len(p) + 1, x) + 1
        ELSE CountOf(p, low, Len(p) + 1, x)

LEMMA CountResult ==
    ASSUME NEW p, IsReport(p), NEW id, NEW status, NEW q, q = Append(p, Res(id, status)),
           NEW low \in 0..Len(p), NEW x
    PROVE  CountsOne(q, p, low, status, x)
<1> DEFINE r == Res(id, status)
           n == Len(p) + 1
           old == Results(p, low, n, x)
           new == Results(q, low, n + 1, x)
<1>1. Extends(q, p) /\ Len(q) = n /\ q[n] = r
    BY AppendExtends
<1>2. r.kind = "res" /\ r.status = status
    BY DEF Res
<1> HIDE DEF r
<1>3. /\ n \in Nat /\ low \in Nat /\ low < n
      /\ \A k \in 1..Len(q) : k \in 1..Len(p) \/ k = n
      /\ \A k \in 1..Len(p) : k \in 1..Len(q) /\ k < n
    BY <1>1 DEF Extends
<1>4. \A k : k \in new <=> k \in old \/ (k = n /\ x = status)
    BY <1>1, <1>2, <1>3 DEF Extends, Of, Results
<1>5. n \notin old /\ IsFiniteSet(old)
    <2>1. n \notin old
        BY <1>3 DEF Results
    <2>2. IsFiniteSet(old)
        <3> HIDE DEF n
        <3> QED
            BY ResultsFinite
    <2> QED
        BY <2>1, <2>2
<1>6. Cardinality(new) = IF x = status THEN Cardinality(old) + 1 ELSE Cardinality(old)
    <2> HIDE DEF old, new
    <2>1. CASE x = status
        <3>1. new = old \cup {n}
            BY <1>4, <2>1
        <3> QED
            BY <1>5, <2>1, <3>1, FS_AddElement
    <2>2. CASE x # status
        <3>1. new = old
            BY <1>4, <2>2
        <3> QED
            BY <2>2, <3>1
    <2> QED
        BY <2>1, <2>2
<1> QED
    BY <1>1, <1>6 DEF CountsOne, CountOf, Results

Tallies(t, r, low) ==
    \A status \in Status : t[status] = CountOf(r, low, Len(r) + 1, status)

Tallied ==
    /\ Tallies(total, report, 0)
    /\ phase \in {"check", "attempt", "recorded"} =>
          \E j \in Of(report, "section") : report[j].id = s /\ Tallies(tally, report, j)
    /\ phase # "over" => Of(report, "tally") = {}
    /\ SectionsAddUp
LEMMA TalliedInitially == Init => Tallied
<1> SUFFICES ASSUME Init PROVE Tallied
    OBVIOUS
<1>1. DOMAIN report = {}
    BY EmptySeq DEF Init
<1>2. \A kind : Of(report, kind) = {}
    BY <1>1 DEF Of
<1>3. \A status : CountOf(report, 0, Len(report) + 1, status) = 0
    BY <1>2, FS_EmptySet DEF CountOf
<1> QED
    BY <1>2, <1>3 DEF Tallied, Tallies, SectionsAddUp, Init, Zero

\* What the tallies in a report say stands in a longer one, so that a step has to be
\* judged by the tallies it writes.
LEMMA SectionsStay ==
    ASSUME Inv, Next, Tallied, phase # "over",
           \A i \in Of(report', "sectiontally") \ 1..Len(report) :
              \E j \in Of(report, "section") :
                 /\ report[j].id = report'[i].id /\ j < i
                 /\ \A status \in Status :
                       report'[i].tally[status] = CountOf(report', j, i, status),
           \A i \in Of(report', "tally") \ 1..Len(report) :
              Tallies(report'[i].tally, report', 0)
    PROVE  SectionsAddUp'
<1>1. Extends(report', report)
    BY Grows
<1>2. Of(report, "tally") = {} /\ SectionsAddUp
    BY DEF Tallied
<1>3. /\ \A i \in Of(report', "tally") : i \notin 1..Len(report)
      /\ \A i \in Of(report', "sectiontally") : i \in 1..Len(report) =>
            i \in Of(report, "sectiontally") /\ report'[i] = report[i]
      /\ \A j \in Of(report, "section") : j \in Of(report', "section") /\ report'[j] = report[j]
    BY <1>1, <1>2 DEF Extends, Of
<1>4. ASSUME NEW i \in Of(report', "sectiontally")
      PROVE  \E j \in Of(report', "section") :
                /\ report'[j].id = report'[i].id /\ j < i
                /\ \A status \in Status :
                      report'[i].tally[status] = CountOf(report', j, i, status)
    <2>1. CASE i \in 1..Len(report)
        <3>1. PICK j \in Of(report, "section") :
                 /\ report[j].id = report[i].id /\ j < i
                 /\ \A status \in Status :
                       report[i].tally[status] = CountOf(report, j, i, status)
            BY <1>2, <1>3, <2>1 DEF SectionsAddUp
        <3>2. i \in 1..(Len(report) + 1)
            BY <1>1, <2>1 DEF Extends
        <3>3. \A status \in Status : CountOf(report', j, i, status) = CountOf(report, j, i, status)
            BY <1>1, <3>2, CountStays
        <3> QED
            BY <1>3, <2>1, <3>1, <3>3
    <2>2. CASE i \notin 1..Len(report)
        BY <1>3, <2>2
    <2> QED
        BY <2>1, <2>2
<1> QED
    BY <1>3, <1>4 DEF SectionsAddUp, Tallies

\* A record that is no result and no tally.
LEMMA TalliedQuiet ==
    ASSUME Inv, Next, Tallied, phase # "over",
           \A i \in (Len(report) + 1)..Len(report') :
              report'[i].kind \notin {"res", "sectiontally", "tally"},
           UNCHANGED <<tally, total, s>>,
           phase' \in {"check", "attempt", "recorded"} =>
              phase \in {"check", "attempt", "recorded"}
    PROVE  Tallied'
<1>1. Extends(report', report)
    BY Grows
<1>2. \A i \in DOMAIN report' : i \notin 1..Len(report) => i \in (Len(report) + 1)..Len(report')
    BY <1>1 DEF Extends
<1>3. Of(report', "sectiontally") \ 1..Len(report) = {} /\ Of(report', "tally") \ 1..Len(report) = {}
    BY <1>2 DEF Of
<1>4. SectionsAddUp'
    BY <1>3, SectionsStay
<1>5. \A low, status :
          CountOf(report', low, Len(report') + 1, status) = CountOf(report, low, Len(report) + 1, status)
    BY <1>1, CountQuiet
<1>6. \A j \in Of(report, "section") : j \in Of(report', "section") /\ report'[j] = report[j]
    BY <1>1 DEF Extends, Of
<1>7. Of(report', "tally") = {}
    BY <1>1, <1>3 DEF Tallied, Extends, Of
<1> QED
    BY <1>4, <1>5, <1>6, <1>7 DEF Tallied, Tallies

\* A result, which counts in both.
LEMMA TalliedResult ==
    ASSUME Types, Inv, Next, Tallied, NEW status, Record(status),
           phase \in {"check", "attempt"}
    PROVE  Tallied'
<1> DEFINE n == Len(report) + 1
<1>1. /\ IsReport(report) /\ report' = Append(report, Res(Check, status))
      /\ tally' = Add(tally, status) /\ total' = Add(total, status)
      /\ s' = s /\ phase' = "recorded"
    BY DEF Inv, Record, table
<1>2. Extends(report', report) /\ Len(report') = n /\ report'[n].kind = "res"
    BY <1>1, AppendExtends DEF Res
<1>3. \A i \in DOMAIN report' : i \notin 1..Len(report) => i = n
    BY <1>2 DEF Extends
<1>4. Of(report', "sectiontally") \ 1..Len(report) = {} /\ Of(report', "tally") \ 1..Len(report) = {}
    BY <1>2, <1>3 DEF Of
<1>5. SectionsAddUp'
    BY <1>4, SectionsStay
<1>6. ASSUME NEW t \in [Status -> Nat], NEW low \in 0..Len(report), Tallies(t, report, low)
      PROVE  Tallies(Add(t, status), report', low)
    <2> SUFFICES ASSUME NEW x \in Status
                 PROVE  Add(t, status)[x] = CountOf(report', low, Len(report') + 1, x)
        BY DEF Tallies
    <2>1. CountsOne(report', report, low, status, x)
        BY <1>1, CountResult
    <2>2. Add(t, status)[x] = IF x = status THEN t[x] + 1 ELSE t[x]
        BY DEF Add
    <2> QED
        BY <1>6, <2>1, <2>2 DEF Tallies, CountsOne
<1>7. Tallies(total', report', 0)
    BY <1>1, <1>2, <1>6 DEF Types, TypeOK, Tallied, Extends
<1>8. \E j \in Of(report', "section") : report'[j].id = s' /\ Tallies(tally', report', j)
    <2>1. PICK j \in Of(report, "section") : report[j].id = s /\ Tallies(tally, report, j)
        BY DEF Tallied
    <2>2. j \in Of(report', "section") /\ report'[j] = report[j] /\ j \in 0..Len(report)
        BY <1>2 DEF Extends, Of
    <2>3. tally \in [Status -> Nat]
        BY DEF Types, TypeOK
    <2>4. Tallies(tally', report', j)
        BY <1>1, <1>6, <2>1, <2>2, <2>3
    <2> QED
        BY <1>1, <2>1, <2>2, <2>4
<1>9. Of(report', "tally") = {}
    BY <1>2, <1>4 DEF Tallied, Extends, Of
<1> QED
    BY <1>1, <1>5, <1>7, <1>8, <1>9 DEF Tallied
LEMMA TalliedKept == Types /\ Inv /\ Tallied /\ [Next]_vars => Tallied'
<1> SUFFICES ASSUME Types, Inv, Tallied, [Next]_vars PROVE Tallied'
    OBVIOUS
<1> USE DEF table, counts
<1> DEFINE n == Len(report) + 1
<1>1. ASSUME Next, NEW r, report' = Append(report, r), phase # "over",
             r.kind \notin {"res", "sectiontally", "tally"}, UNCHANGED <<tally, total, s>>,
             phase' \in {"check", "attempt", "recorded"} =>
                phase \in {"check", "attempt", "recorded"}
      PROVE  Tallied'
    <2>1. Extends(report', report) /\ Len(report') = n /\ report'[n] = r
        BY <1>1, AppendExtends DEF Inv
    <2>2. \A i \in (Len(report) + 1)..Len(report') : i = n
        BY <2>1 DEF Extends
    <2> QED
        BY <1>1, <2>1, <2>2, TalliedQuiet
<1>2. CASE Start
    BY <1>1, <1>2 DEF Next, Start, Meta
<1>3. CASE OpenSection
    <2>1. /\ Next /\ IsReport(report) /\ report' = Append(report, Section(s))
          /\ tally' = Zero /\ phase = "section" /\ UNCHANGED <<s, total>>
        BY <1>3 DEF Next, OpenSection, Inv
    <2>2. /\ Extends(report', report) /\ Len(report') = n
          /\ report'[n].kind = "section" /\ report'[n].id = s
        BY <2>1, AppendExtends DEF Section
    <2>3. \A i \in DOMAIN report' : i \notin 1..Len(report) => i = n
        BY <2>2 DEF Extends
    <2>4. /\ Of(report', "sectiontally") \ 1..Len(report) = {}
          /\ Of(report', "tally") \ 1..Len(report) = {}
          /\ n \in Of(report', "section")
        BY <2>2, <2>3 DEF Of, Extends
    <2>5. SectionsAddUp'
        BY <2>1, <2>4, SectionsStay
    <2>6. \A x : CountOf(report', 0, Len(report') + 1, x) = CountOf(report, 0, Len(report) + 1, x)
        <3>1. \A i \in (Len(report) + 1)..Len(report') : report'[i].kind # "res"
            BY <2>2, <2>3 DEF Extends
        <3> QED
            BY <2>2, <3>1, CountQuiet
    <2>7. Tallies(tally', report', n)
        <3>1. \A x : Results(report', n, Len(report') + 1, x) = {}
            BY <2>2, <2>3 DEF Results, Of, Extends
        <3>2. \A x : CountOf(report', n, Len(report') + 1, x) = 0
            BY <3>1, FS_EmptySet DEF CountOf, Results
        <3> QED
            BY <2>1, <3>2 DEF Tallies, Zero
    <2>8. Of(report', "tally") = {}
        BY <2>1, <2>2, <2>4 DEF Tallied, Extends, Of
    <2> QED
        BY <2>1, <2>2, <2>4, <2>5, <2>6, <2>7, <2>8 DEF Tallied, Tallies
<1>4. CASE SkipAbsent \/ SkipBlocked \/ Crash
    BY <1>4, TalliedResult DEF Next, SkipAbsent, SkipBlocked, Selected, Crash
<1>5. ASSUME NEW status \in Status \ {"crash"}, Return(status)
      PROVE  Tallied'
    BY <1>5, TalliedResult DEF Next, Return
<1>6. CASE Attempt
    BY <1>1, <1>6 DEF Next, Attempt, Selected, Try
<1>7. CASE Die \/ Heartbeat
    <2>1. /\ Next /\ report' = report /\ phase # "over" /\ UNCHANGED <<tally, total, s>>
          /\ phase' \in {"check", "attempt", "recorded"} =>
                phase \in {"check", "attempt", "recorded"}
        BY <1>7 DEF Next, Die, Heartbeat
    <2>2. (Len(report) + 1)..Len(report') = {}
        BY <2>1, SameExtends DEF Inv, Extends
    <2> QED
        BY <2>1, <2>2, TalliedQuiet
<1>8. CASE CloseSection
    <2>1. /\ Next /\ IsReport(report) /\ report' = Append(report, SectionTally(s, tally))
          /\ phase = "check" /\ phase' = "tallied" /\ UNCHANGED total
        BY <1>8 DEF Next, CloseSection, Inv
    <2>2. /\ Extends(report', report) /\ Len(report') = n
          /\ report'[n].kind = "sectiontally" /\ report'[n].id = s /\ report'[n].tally = tally
        BY <2>1, AppendExtends DEF SectionTally
    <2>3. \A i \in DOMAIN report' : i \notin 1..Len(report) => i = n
        BY <2>2 DEF Extends
    <2>4. PICK j \in Of(report, "section") : report[j].id = s /\ Tallies(tally, report, j)
        BY <2>1 DEF Tallied
    <2>5. /\ j < n /\ n \in 1..(Len(report) + 1)
          /\ \A i \in Of(report', "sectiontally") \ 1..Len(report) : i = n
          /\ Of(report', "tally") \ 1..Len(report) = {}
        BY <2>2, <2>3 DEF Of, Extends
    <2>6. \A x \in Status : report'[n].tally[x] = CountOf(report', j, n, x)
        <3>1. \A x : CountOf(report', j, n, x) = CountOf(report, j, n, x)
            BY <2>2, <2>5, CountStays
        <3> QED
            BY <2>2, <2>4, <3>1 DEF Tallies
    <2>7. SectionsAddUp'
        <3>1. \A i \in Of(report', "sectiontally") \ 1..Len(report) :
                 /\ report[j].id = report'[i].id /\ j < i
                 /\ \A x \in Status : report'[i].tally[x] = CountOf(report', j, i, x)
            BY <2>2, <2>4, <2>5, <2>6
        <3> QED
            BY <2>1, <2>5, <3>1, SectionsStay
    <2>8. \A x : CountOf(report', 0, Len(report') + 1, x) = CountOf(report, 0, Len(report) + 1, x)
        <3>1. \A i \in (Len(report) + 1)..Len(report') : report'[i].kind # "res"
            BY <2>2, <2>3 DEF Extends
        <3> QED
            BY <2>2, <3>1, CountQuiet
    <2>9. Of(report', "tally") = {}
        BY <2>1, <2>2, <2>5 DEF Tallied, Extends, Of
    <2> QED
        BY <2>1, <2>7, <2>8, <2>9 DEF Tallied, Tallies
<1>9. CASE Finish
    <2> DEFINE f == Frontier(Cardinality(available), blocked, deepest)
    <2>1. /\ Next /\ IsReport(report) /\ report' = report \o <<f, TallyRecord(total), End>>
          /\ phase = "section" /\ phase' = "over" /\ UNCHANGED total
        BY <1>9 DEF Next, Finish, Inv
    <2>2. /\ Extends(report', report) /\ Len(report') = Len(report) + 3
          /\ report'[n] = f /\ report'[n + 1] = TallyRecord(total) /\ report'[n + 2] = End
        <3> HIDE DEF f
        <3> QED
            BY <2>1, ConcatExtends DEF Extends
    <2>3. /\ \A i \in n..Len(report') : i = n \/ i = n + 1 \/ i = n + 2
          /\ \A i \in DOMAIN report' : i \notin 1..Len(report) => i \in n..Len(report')
        BY <2>2 DEF Extends
    <2>4. \A i \in n..Len(report') :
             /\ report'[i].kind \notin {"res", "sectiontally"}
             /\ report'[i].kind = "tally" => report'[i].tally = total
        BY <2>2, <2>3 DEF Frontier, TallyRecord, End
    <2>5. \A x : CountOf(report', 0, Len(report') + 1, x) = CountOf(report, 0, Len(report) + 1, x)
        <3>1. \A i \in (Len(report) + 1)..Len(report') : report'[i].kind # "res"
            BY <2>4
        <3> QED
            BY <2>2, <3>1, CountQuiet
    <2>6. Tallies(total, report', 0)
        BY <2>5 DEF Tallied, Tallies
    <2>7. /\ Of(report', "sectiontally") \ 1..Len(report) = {}
          /\ \A i \in Of(report', "tally") \ 1..Len(report) : report'[i].tally = total
        BY <2>3, <2>4 DEF Of
    <2>8. SectionsAddUp'
        BY <2>1, <2>6, <2>7, SectionsStay
    <2> QED
        BY <2>1, <2>6, <2>8 DEF Tallied
<1>10. CASE UNCHANGED vars
    BY <1>10 DEF vars, Tallied, SectionsAddUp, Tallies
<1> QED
    BY <1>2, <1>3, <1>4, <1>5, <1>6, <1>7, <1>8, <1>9, <1>10 DEF Next

\* Each section's tally counts the results between its header and its tally, and the total
\* those of the whole report (harness.c:2756-2759).
THEOREM TalliesTrue == Spec => []SectionsAddUp
<1>1. Tallied => SectionsAddUp
    BY DEF Tallied
<1> QED
    BY Initially, Steps, TypesInitially, TypesKept, TalliedInitially, TalliedKept, <1>1,
       PTL DEF Spec

-----------------------------------------------------------------------------
(* What the tool reads back: the loops over the records, by their steps.   *)

Reading == INSTANCE Induction WITH Step <- Read, Base <- Unread

LEMMA ReadOne ==
    /\ ParseReport(<<>>) = Unread
    /\ \A r, e : IsReport(r) => ParseReport(Append(r, e)) = Read(ParseReport(r), e)
<1>1. \A x : ParseReport(x) = Reading!Loop(x)
    BY DEF ParseReport, Reading!Loop
<1>2. ASSUME NEW r, NEW e, IsReport(r)
      PROVE  Reading!Loop(Append(r, e)) = Read(Reading!Loop(r), e)
    <2>1. PICK S : r \in Seq(S)
        BY <1>2 DEF IsReport
    <2>2. r \in Seq(S \cup {e}) /\ e \in S \cup {e}
        BY <2>1, SeqMonotonic
    <2> QED
        BY <2>2, Reading!LoopByStep
<1> QED
    BY <1>1, <1>2, Reading!LoopByStep

AddResult(t, r) == Add(t, r.status)

Tallying == INSTANCE Induction WITH Step <- AddResult, Base <- Zero

LEMMA CountOne ==
    /\ Counted(<<>>) = Zero
    /\ \A S : \A rs \in Seq(S), r \in S : Counted(Append(rs, r)) = Add(Counted(rs), r.status)
<1>1. \A x : Counted(x) = Tallying!Loop(x)
    BY DEF Counted, Tallying!Loop, AddResult
<1> QED
    BY <1>1, Tallying!LoopByStep DEF AddResult

AddSection(n, xs) == n + Len(xs)

Summing == INSTANCE Induction WITH Step <- AddSection, Base <- 0

LEMMA SumOne ==
    /\ CheckCount(<<>>) = 0
    /\ \A S : \A xs \in Seq(S), x \in S : CheckCount(Append(xs, x)) = CheckCount(xs) + Len(x)
<1>1. \A x : CheckCount(x) = Summing!Loop(x)
    BY DEF CheckCount, Summing!Loop, AddSection
<1> QED
    BY <1>1, Summing!LoopByStep DEF AddSection

\* The checks of the first sections of a table.
Before(n) == CheckCount(SubSeq(Sections, 1, n))

LEMMA BeforeNext ==
    ASSUME suite \in Suites
    PROVE  /\ Before(0) = 0 /\ Before(Len(Sections)) = CheckCount(Sections)
           /\ \A n \in 1..Len(Sections) : Before(n) = Before(n - 1) + Len(Sections[n])
<1> DEFINE T == Seq(STRING)
           xs == Sections
<1>1. xs \in Seq(T)
    BY SuitesAssumption DEF Sections
<1> HIDE DEF T, xs
<1>2. SubSeq(xs, 1, 0) = <<>> /\ SubSeq(xs, 1, Len(xs)) = xs
    BY <1>1
<1>3. ASSUME NEW n \in 1..Len(xs)
      PROVE  CheckCount(SubSeq(xs, 1, n)) = CheckCount(SubSeq(xs, 1, n - 1)) + Len(xs[n])
    <2>1. /\ SubSeq(xs, 1, n - 1) \in Seq(T) /\ xs[n] \in T
          /\ SubSeq(xs, 1, n) = Append(SubSeq(xs, 1, n - 1), xs[n])
        BY <1>1
    <2> QED
        BY <2>1, SumOne
<1> QED
    BY <1>2, <1>3, SumOne DEF Before, xs

LEMMA SumTyped ==
    ASSUME suite \in Suites
    PROVE  \A n \in 0..Len(Sections) : Before(n) \in Nat
<1>1. Sections \in Seq(Seq(STRING))
    BY SuitesAssumption DEF Sections
<1>2. \A xs : CheckCount(xs) = Summing!Loop(xs)
    BY DEF CheckCount, Summing!Loop, AddSection
<1>3. \A n \in Nat, x \in Seq(STRING) : AddSection(n, x) \in Nat
    BY DEF AddSection
<1>4. \A xs \in Seq(Seq(STRING)) : CheckCount(xs) \in Nat
    BY <1>2, <1>3, Summing!LoopKeeps
<1>5. \A n \in 0..Len(Sections) : SubSeq(Sections, 1, n) \in Seq(Seq(STRING))
    BY <1>1
<1> QED
    BY <1>4, <1>5 DEF Before

-----------------------------------------------------------------------------
(* What the reader keeps. *)

Result  == [kind: {"res"}, id: STRING, status: Status]
Reports == [declares: Seq(Nat), sections: Seq(Nat), results: Seq(Result),
            tally: Seq([Status -> Nat]), ended: BOOLEAN, announced: STRING \cup {None}]

LEMMA ReadMeta ==
    ASSUME NEW p \in Reports, NEW n \in Nat, NEW m \in Nat
    PROVE  LET q == Read(p, Meta(n, m))
           IN  /\ q \in Reports /\ q.declares = <<n, m>> /\ q.sections = p.sections
               /\ q.results = p.results /\ (q.ended <=> p.ended)
               /\ q.announced = p.announced
<1>1. <<n, m>> \in Seq(Nat)
    OBVIOUS
<1>2. Read(p, Meta(n, m)) = [p EXCEPT !.declares = <<n, m>>]
    BY DEF Read, Meta
<1> QED
    BY <1>1, <1>2 DEF Reports

LEMMA ReadSection ==
    ASSUME NEW p \in Reports, NEW n \in Nat
    PROVE  LET q == Read(p, Section(n))
           IN  /\ q \in Reports /\ q.declares = p.declares
               /\ q.sections = Append(p.sections, n)
               /\ q.results = p.results /\ (q.ended <=> p.ended)
               /\ q.announced = p.announced
<1>1. Append(p.sections, n) \in Seq(Nat)
    BY DEF Reports
<1>2. Read(p, Section(n)) = [p EXCEPT !.sections = Append(p.sections, n)]
    BY DEF Read, Section
<1> QED
    BY <1>1, <1>2 DEF Reports

LEMMA ReadTry ==
    ASSUME NEW p \in Reports, NEW id \in STRING
    PROVE  LET q == Read(p, Try(id))
           IN  /\ q \in Reports /\ q.declares = p.declares /\ q.sections = p.sections
               /\ q.results = p.results /\ (q.ended <=> p.ended) /\ q.announced = id
<1>1. Read(p, Try(id)) = [p EXCEPT !.announced = id]
    BY DEF Read, Try
<1> QED
    BY <1>1 DEF Reports

LEMMA ReadResult ==
    ASSUME NEW p \in Reports, NEW id \in STRING, NEW status \in Status
    PROVE  LET q == Read(p, Res(id, status))
           IN  /\ q \in Reports /\ q.declares = p.declares /\ q.sections = p.sections
               /\ q.results = Append(p.results, Res(id, status))
               /\ (q.ended <=> p.ended) /\ q.announced = None
<1> DEFINE q == Read(p, Res(id, status))
<1>1. Res(id, status) \in Result
    BY DEF Res, Result
<1>2. Append(p.results, Res(id, status)) \in Seq(Result)
    BY <1>1 DEF Reports
<1>3. q = [p EXCEPT !.announced = None, !.results = Append(p.results, Res(id, status))]
    BY DEF Read, Res
<1>4. None \in STRING \cup {None}
    OBVIOUS
<1> HIDE DEF q
<1>5. q.results = Append(p.results, Res(id, status)) /\ q.announced = None
    BY <1>3 DEF Reports
<1> HIDE DEF None, Res
<1>6. q \in Reports
    BY <1>2, <1>3, <1>4 DEF Reports
<1>7. q.declares = p.declares /\ q.sections = p.sections /\ (q.ended <=> p.ended)
    BY <1>3 DEF Reports
<1> QED
    BY <1>5, <1>6, <1>7 DEF q

LEMMA ReadSectionTally ==
    ASSUME NEW p, NEW n, NEW t
    PROVE  Read(p, SectionTally(n, t)) = p
BY DEF Read, SectionTally

LEMMA ReadEnd ==
    ASSUME NEW p \in Reports, NEW a, NEW b, NEW d, NEW t \in [Status -> Nat], NEW q,
           q = Read(Read(Read(p, Frontier(a, b, d)), TallyRecord(t)), End)
    PROVE  /\ q \in Reports /\ q.declares = p.declares /\ q.sections = p.sections
           /\ q.results = p.results /\ q.tally = <<t>> /\ q.ended /\ q.announced = p.announced
<1>1. Read(p, Frontier(a, b, d)) = p
    BY DEF Read, Frontier
<1>2. Read(p, TallyRecord(t)) = [p EXCEPT !.tally = <<t>>]
    BY DEF Read, TallyRecord
<1>3. \A x : Read(x, End) = [x EXCEPT !.ended = TRUE]
    BY DEF Read, End
<1>4. q = [[p EXCEPT !.tally = <<t>>] EXCEPT !.ended = TRUE]
    BY <1>1, <1>2, <1>3
<1>5. <<t>> \in Seq([Status -> Nat])
    OBVIOUS
<1> QED
    BY <1>4, <1>5 DEF Reports

LEMMA NothingRead ==
    /\ Unread \in Reports /\ Unread.results = <<>> /\ Unread.sections = <<>>
    /\ Unread.ended = FALSE /\ Unread.announced = None
<1>1. <<>> \in Seq(Nat) /\ <<>> \in Seq(Result) /\ <<>> \in Seq([Status -> Nat])
    OBVIOUS
<1>2. None \in STRING \cup {None}
    OBVIOUS
<1> QED
    BY <1>1, <1>2 DEF Unread, Reports

-----------------------------------------------------------------------------
(* What is read back of the report so far. *)

Back == ParseReport(report)

InSection == phase \in {"check", "attempt", "recorded"}

\* The head and the foot of it, and the announcement it ends with.
Framed ==
    /\ Back \in Reports
    /\ phase # "start" => Back.declares = <<Len(Sections), CheckCount(Sections)>>
    /\ Back.ended <=> phase = "over"
    /\ Back.announced = IF phase \in {"attempt", "dead"} THEN Check ELSE None
    /\ phase = "over" => Back.tally = <<total>> /\ s = Len(Sections) + 1

\* No id is read twice, and so there are as many as there are results.
Ids(rs) == {r.id : r \in ToSet(rs)}

OnceEach(rs) ==
    /\ \A i, j \in DOMAIN rs : rs[i].id = rs[j].id => i = j
    /\ IsFiniteSet(Ids(rs)) /\ Cardinality(Ids(rs)) = Len(rs)

ResultsIn(r) == {r[i] : i \in Of(r, "res")}

\* The results that are read are those written, and add up to the run's own tally.
Listed ==
    /\ total = Counted(Back.results)
    /\ ToSet(Back.results) = ResultsIn(report)
    /\ OnceEach(Back.results)
    /\ phase = "attempt" => \A r \in ResultsIn(report) : r.id # Check

\* As many sections and results are read as the loop has opened and recorded.
Measured ==
    phase \notin {"dead", "stopped"} =>
        /\ Len(Back.sections) = IF InSection THEN s ELSE s - 1
        /\ Len(Back.results) = Before(s - 1) + (IF InSection THEN c - 1 ELSE 0)
        /\ InSection => c <= Len(Sections[s]) + 1

ReadBack == Framed /\ Listed /\ Measured

LEMMA ResultsNext ==
    ASSUME NEW p, NEW e, IsReport(p), NEW q, q = Append(p, e)
    PROVE  ResultsIn(q) = IF e.kind = "res" THEN ResultsIn(p) \cup {e} ELSE ResultsIn(p)
<1>1. Extends(q, p) /\ Len(q) = Len(p) + 1 /\ q[Len(p) + 1] = e
    BY AppendExtends
<1>2. \A i \in DOMAIN q : i \in DOMAIN p \/ i = Len(p) + 1
    BY <1>1 DEF Extends
<1>3. Len(p) + 1 \in DOMAIN q /\ \A i \in DOMAIN p : i \in DOMAIN q /\ q[i] = p[i]
    BY <1>1 DEF Extends
<1>4. CASE e.kind = "res"
    <2>1. Of(q, "res") = Of(p, "res") \cup {Len(p) + 1}
        BY <1>1, <1>2, <1>3, <1>4 DEF Of
    <2>2. \A i \in Of(p, "res") : q[i] = p[i]
        BY <1>3 DEF Of
    <2>3. ResultsIn(q) = {q[i] : i \in Of(p, "res")} \cup {q[Len(p) + 1]}
        BY <2>1 DEF ResultsIn
    <2>4. {q[i] : i \in Of(p, "res")} = ResultsIn(p)
        BY <2>2 DEF ResultsIn
    <2> QED
        BY <1>1, <1>4, <2>3, <2>4
<1>5. CASE e.kind # "res"
    <2>1. Of(q, "res") = Of(p, "res")
        BY <1>1, <1>2, <1>3, <1>5 DEF Of
    <2>2. \A i \in Of(p, "res") : q[i] = p[i]
        BY <1>3 DEF Of
    <2> QED
        BY <1>5, <2>1, <2>2 DEF ResultsIn
<1> QED
    BY <1>4, <1>5

\* Three records more, one after the other.
LEMMA ThreeMore ==
    ASSUME NEW p, IsReport(p), NEW a, NEW b, NEW e
    PROVE  /\ p \o <<a, b, e>> = Append(Append(Append(p, a), b), e)
           /\ IsReport(Append(p, a)) /\ IsReport(Append(Append(p, a), b))
<1>1. PICK S : p \in Seq(S)
    BY DEF IsReport
<1> DEFINE T == S \cup {a, b, e}
<1>2. p \in Seq(T) /\ a \in T /\ b \in T /\ e \in T
    BY <1>1, SeqMonotonic
<1> HIDE DEF T
<1>3. Append(p, a) \in Seq(T) /\ Append(Append(p, a), b) \in Seq(T)
    BY <1>2
<1>4. p \o <<a, b, e>> = Append(Append(Append(p, a), b), e)
    BY <1>2
<1> QED
    BY <1>3, <1>4 DEF IsReport

LEMMA CheckTyped ==
    ASSUME Types, phase = "attempt" \/ Selected
    PROVE  Check \in STRING
<1>1. s \in 1..Len(Sections) /\ c \in 1..Len(Sections[s])
    BY CheckPlaced
<1>2. Sections \in Seq(Seq(STRING))
    BY SuitesAssumption DEF Types, TypeOK, Sections
<1>3. Sections[s] \in Seq(STRING)
    BY <1>1, <1>2
<1> QED
    BY <1>1, <1>3 DEF Check

\* One result more, of a check that had none.
LEMMA OnceMore ==
    ASSUME NEW rs \in Seq(Result), NEW r \in Result, OnceEach(rs),
           \A x \in ToSet(rs) : x.id # r.id
    PROVE  /\ OnceEach(Append(rs, r)) /\ ToSet(Append(rs, r)) = ToSet(rs) \cup {r}
           /\ Len(Append(rs, r)) = Len(rs) + 1
<1> DEFINE n == Len(rs)
           q == Append(rs, r)
<1>1. /\ n \in Nat /\ DOMAIN rs = 1..n /\ Len(q) = n + 1 /\ DOMAIN q = 1..(n + 1)
      /\ q[n + 1] = r /\ \A i \in 1..n : q[i] = rs[i]
    BY AppendProperties
<1> HIDE DEF n, q
<1>2. \A i \in DOMAIN q : i \in DOMAIN rs \/ i = n + 1
    BY <1>1
<1>3. \A i \in DOMAIN rs : i \in DOMAIN q /\ q[i] = rs[i]
    BY <1>1
<1>4. ToSet(q) = ToSet(rs) \cup {r}
    <2>1. n + 1 \in DOMAIN q
        BY <1>1
    <2> QED
        BY <1>1, <1>2, <1>3, <2>1 DEF ToSet
<1>5. Ids(q) = Ids(rs) \cup {r.id} /\ r.id \notin Ids(rs)
    BY <1>4 DEF Ids
<1>6. IsFiniteSet(Ids(q)) /\ Cardinality(Ids(q)) = n + 1
    <2>1. IsFiniteSet(Ids(rs)) /\ Cardinality(Ids(rs)) = n
        BY DEF OnceEach, n
    <2> QED
        BY <1>5, <2>1, FS_AddElement
<1>7. \A i, j \in DOMAIN q : q[i].id = q[j].id => i = j
    <2>1. \A i \in DOMAIN rs : rs[i].id # r.id
        BY DEF ToSet
    <2> QED
        BY <1>1, <1>2, <1>3, <2>1 DEF OnceEach
<1> QED
    BY <1>1, <1>4, <1>6, <1>7 DEF OnceEach, q, n

LEMMA ReadBackInitially == Init => ReadBack
<1> SUFFICES ASSUME Init PROVE ReadBack
    OBVIOUS
<1>1. Back = Unread /\ report = <<>>
    BY ReadOne DEF Init, Back
<1>2. Back.results = <<>> /\ Back.sections = <<>> /\ Back.ended = FALSE
      /\ Back.announced = None /\ Back \in Reports
    BY <1>1, NothingRead
<1>3. Framed
    BY <1>2 DEF Framed, Init
<1>4. /\ Len(<<>>) = 0 /\ DOMAIN <<>> = {} /\ ToSet(<<>>) = {} /\ Of(<<>>, "res") = {}
    BY DEF ToSet, Of
<1>5. Ids(<<>>) = {} /\ ResultsIn(report) = {}
    BY <1>1, <1>4 DEF Ids, ResultsIn
<1>6. OnceEach(<<>>)
    BY <1>4, <1>5, FS_EmptySet DEF OnceEach
<1>7. Listed
    BY <1>2, <1>4, <1>5, <1>6, CountOne DEF Listed, Init
<1>8. Measured
    BY <1>2, <1>4, BeforeNext DEF Measured, Init, InSection
<1> QED
    BY <1>3, <1>7, <1>8 DEF ReadBack

\* A record that is no result leaves the results as they were.
LEMMA NoResult ==
    ASSUME Inv, Listed, NEW e, report' = Append(report, e), e.kind # "res",
           Back'.results = Back.results, UNCHANGED <<total, suite, s, c>>,
           phase' = "attempt" => \A r \in ResultsIn(report) : r.id # Check
    PROVE  Listed'
<1>1. ResultsIn(report') = ResultsIn(report)
    BY ResultsNext DEF Inv
<1>2. Check' = Check
    BY DEF Check, Sections
<1> QED
    BY <1>1, <1>2 DEF Listed

\* The records that do not change what is read back of the sections and the checks.
LEMMA NothingWritten ==
    ASSUME ReadBack, UNCHANGED <<suite, s, c, total, report>>,
           \/ phase' = phase
           \/ phase = "attempt" /\ phase' = "dead"
           \/ phase = "recorded" /\ phase' = "check"
           \/ phase \in {"started", "tallied"} /\ phase' = "section"
           \/ phase \in {"started", "recorded", "tallied"} /\ phase' = "stopped"
    PROVE  ReadBack'
<1>1. Back' = Back /\ Check' = Check /\ Sections' = Sections
    BY DEF Back, Check, Sections
<1>2. Framed'
    BY <1>1 DEF ReadBack, Framed
<1>3. Listed'
    BY <1>1 DEF ReadBack, Listed
<1>4. Measured'
    BY <1>1 DEF ReadBack, Measured, InSection, Before
<1> QED
    BY <1>2, <1>3, <1>4 DEF ReadBack

LEMMA ResultReadBack ==
    ASSUME Types, Inv, ReadBack, NEW status \in Status, Record(status), UNCHANGED suite,
           InSection, c \in 1..Len(Sections[s]), Check \in STRING,
           \A r \in ResultsIn(report) : r.id # Check
    PROVE  ReadBack'
<1> DEFINE e == Res(Check, status)
<1>1. e \in Result /\ e.kind = "res" /\ e.id = Check /\ e.status = status
    BY DEF Res, Result
<1>2. /\ report' = Append(report, e) /\ phase' = "recorded" /\ s' = s /\ c' = c + 1
      /\ total' = Add(total, status) /\ Sections' = Sections
    BY DEF Record, table, Sections
<1>3. Back' = Read(Back, Res(Check, status))
    BY <1>2, ReadOne DEF Inv, Back
<1>4. /\ Back' \in Reports /\ Back'.declares = Back.declares
      /\ Back'.sections = Back.sections /\ Back'.results = Append(Back.results, e)
      /\ (Back'.ended <=> Back.ended) /\ Back'.announced = None
    <2>1. Back \in Reports
        BY DEF ReadBack, Framed
    <2> DEFINE q == Read(Back, Res(Check, status))
    <2>2. /\ q \in Reports /\ q.declares = Back.declares /\ q.sections = Back.sections
          /\ q.results = Append(Back.results, Res(Check, status))
          /\ (q.ended <=> Back.ended) /\ q.announced = None
        BY <2>1, ReadResult
    <2> HIDE DEF q
    <2>3. Back' = q
        BY <1>3 DEF q
    <2> QED
        BY <2>2, <2>3
<1> HIDE DEF e
<1>5. Back.results \in Seq(Result)
    BY DEF ReadBack, Framed, Reports
<1>6. \A r \in ToSet(Back.results) : r.id # e.id
    BY <1>1 DEF ReadBack, Listed
<1>7. /\ OnceEach(Back'.results) /\ ToSet(Back'.results) = ToSet(Back.results) \cup {e}
      /\ Len(Back'.results) = Len(Back.results) + 1
    BY <1>1, <1>4, <1>5, <1>6, OnceMore DEF ReadBack, Listed
<1>8. ResultsIn(report') = ResultsIn(report) \cup {e}
    BY <1>1, <1>2, ResultsNext DEF Inv
<1>9. Counted(Back'.results) = Add(total, status)
    BY <1>1, <1>4, <1>5, CountOne DEF ReadBack, Listed
<1>10. Framed'
    BY <1>2, <1>4 DEF ReadBack, Framed, InSection
<1>11. Listed'
    BY <1>2, <1>7, <1>8, <1>9 DEF ReadBack, Listed
<1>12. Measured'
    <2>1. /\ Len(Back.sections) = s /\ Len(Back.results) = Before(s - 1) + (c - 1)
          /\ Len(Back.results) \in Nat
        BY <1>5 DEF ReadBack, Measured, InSection
    <2>2. /\ c \in Nat /\ Len(Sections[s]) \in Nat /\ s \in 1..Len(Sections)
        BY TableTyped DEF Types, TypeOK, Placed, InSection
    <2>3. Before(s - 1) \in Nat
        <3>1. Sections \in Seq(Seq(STRING))
            BY SuitesAssumption DEF Types, TypeOK, Sections
        <3> QED
            BY <2>2, SumTyped DEF Types, TypeOK
    <2>4. Before(s - 1)' = Before(s - 1)
        BY <1>2 DEF Before
    <2>5. Len(Back'.results) = Before(s - 1) + ((c + 1) - 1)
        BY <1>7, <2>1, <2>2, <2>3
    <2> QED
        BY <1>2, <1>4, <2>1, <2>2, <2>4, <2>5 DEF Measured, InSection
<1> QED
    BY <1>10, <1>11, <1>12 DEF ReadBack

LEMMA ReadBackKept == Types /\ Inv /\ Counting /\ ReadBack /\ [Next]_vars => ReadBack'
<1> SUFFICES ASSUME Types, Inv, Counting, ReadBack, [Next]_vars PROVE ReadBack'
    OBVIOUS
<1> USE DEF table, counts
<1>0. /\ suite \in Suites /\ Len(Sections) \in Nat /\ s \in 1..(Len(Sections) + 1)
      /\ \A i \in 1..Len(Sections) : Len(Sections[i]) \in Nat
      /\ c \in Nat \ {0} /\ total \in [Status -> Nat]
    BY TableTyped DEF Types, TypeOK
<1>a. \A n \in 0..Len(Sections) : Before(n) \in Nat
    BY <1>0, SumTyped
<1>b. \A e : report' = Append(report, e) => Back' = Read(Back, e)
    BY ReadOne DEF Inv, Back
<1>c. Back \in Reports
    BY DEF ReadBack, Framed
<1>1. CASE Start
    <2>1. /\ phase = "start" /\ phase' = "started" /\ UNCHANGED <<suite, s, c, total>>
          /\ report' = Append(report, Meta(Len(Sections), CheckCount(Sections)))
        BY <1>1 DEF Start
    <2>2. CheckCount(Sections) \in Nat
        BY <1>0, <1>a, BeforeNext
    <2>3. /\ Back' \in Reports /\ Back'.declares = <<Len(Sections), CheckCount(Sections)>>
          /\ Back'.sections = Back.sections /\ Back'.results = Back.results
          /\ (Back'.ended <=> Back.ended) /\ Back'.announced = Back.announced
        <3> DEFINE n == Len(Sections)
                   m == CheckCount(Sections)
                   q == Back'
        <3>1. q = Read(Back, Meta(n, m))
            BY <1>b, <2>1
        <3>2. n \in Nat /\ m \in Nat
            BY <1>0, <2>2
        <3> HIDE DEF n, m, q
        <3>3. /\ q \in Reports /\ q.declares = <<n, m>> /\ q.sections = Back.sections
              /\ q.results = Back.results /\ (q.ended <=> Back.ended)
              /\ q.announced = Back.announced
            BY <1>c, <3>1, <3>2, ReadMeta
        <3> QED
            BY <3>3 DEF n, m, q
    <2>4. Sections' = Sections /\ Check' = Check /\ \A n : Before(n)' = Before(n)
        BY <2>1 DEF Sections, Check, Before
    <2>5. Framed'
        BY <2>1, <2>3, <2>4 DEF ReadBack, Framed
    <2>6. Listed'
        BY <2>1, <2>3, NoResult DEF ReadBack, Meta
    <2>7. Measured'
        BY <2>1, <2>3, <2>4 DEF ReadBack, Measured, InSection, Before
    <2> QED
        BY <2>5, <2>6, <2>7 DEF ReadBack
<1>2. CASE OpenSection
    <2>1. /\ phase = "section" /\ s <= Len(Sections) /\ phase' = "check" /\ c' = 1
          /\ UNCHANGED <<suite, s, total>> /\ report' = Append(report, Section(s))
        BY <1>2 DEF OpenSection
    <2>2. s \in Nat /\ s \in 1..Len(Sections)
        BY <1>0, <2>1
    <2>3. /\ Back' \in Reports /\ Back'.declares = Back.declares
          /\ Back'.sections = Append(Back.sections, s) /\ Back'.results = Back.results
          /\ (Back'.ended <=> Back.ended) /\ Back'.announced = Back.announced
        <3> DEFINE q == Read(Back, Section(s))
        <3>1. /\ q \in Reports /\ q.declares = Back.declares
              /\ q.sections = Append(Back.sections, s) /\ q.results = Back.results
              /\ (q.ended <=> Back.ended) /\ q.announced = Back.announced
            BY <1>c, <2>2, ReadSection
        <3> HIDE DEF q
        <3>2. Back' = q
            BY <1>b, <2>1 DEF q
        <3> QED
            BY <3>1, <3>2
    <2>4. Sections' = Sections
        BY <2>1 DEF Sections
    <2>5. Framed'
        BY <2>1, <2>3, <2>4 DEF ReadBack, Framed
    <2>6. ResultsIn(report') = ResultsIn(report)
        BY <2>1, ResultsNext DEF Inv, Section
    <2>7. Listed'
        BY <2>1, <2>3, <2>6 DEF ReadBack, Listed
    <2>8. Measured'
        <3>1. Len(Back.sections) = s - 1 /\ Len(Back.results) = Before(s - 1) + 0
            BY <2>1 DEF ReadBack, Measured, InSection
        <3>2. Len(Back'.sections) = Len(Back.sections) + 1
            BY <1>c, <2>2, <2>3 DEF Reports
        <3>3. Before(s - 1)' = Before(s - 1)
            BY <2>1, <2>4 DEF Before
        <3>4. Len(Back'.sections) = s /\ Len(Back'.results) = Before(s - 1) + (1 - 1)
            BY <2>2, <2>3, <3>1, <3>2
        <3>5. 1 <= Len(Sections[s]) + 1
            BY <1>0, <2>2
        <3> QED
            BY <2>1, <2>4, <3>3, <3>4, <3>5 DEF Measured, InSection
    <2> QED
        BY <2>5, <2>7, <2>8 DEF ReadBack
<1>3. CASE SkipAbsent \/ SkipBlocked
    <2>1. Selected /\ Record("skip") /\ UNCHANGED suite /\ "skip" \in Status
        BY <1>3 DEF SkipAbsent, SkipBlocked, Record, Status
    <2>2. Check \notin Named(report)
        BY <2>1, NewName
    <2>3. \A r \in ResultsIn(report) : r.id # Check
        BY <2>2 DEF Named, ResultsIn
    <2>4. InSection /\ c \in 1..Len(Sections[s]) /\ Check \in STRING
        BY <2>1, CheckPlaced, CheckTyped DEF InSection, Selected
    <2> QED
        BY <2>1, <2>3, <2>4, ResultReadBack
<1>4. CASE Attempt
    <2>1. /\ Selected /\ phase = "check" /\ phase' = "attempt" /\ UNCHANGED <<suite, s, c, total>>
          /\ report' = Append(report, Try(Check))
        BY <1>4 DEF Attempt, Selected
    <2>2. /\ Back' \in Reports /\ Back'.declares = Back.declares
          /\ Back'.sections = Back.sections /\ Back'.results = Back.results
          /\ (Back'.ended <=> Back.ended) /\ Back'.announced = Check
        <3> DEFINE q == Read(Back, Try(Check))
        <3>1. Check \in STRING
            BY <2>1, CheckTyped
        <3>2. /\ q \in Reports /\ q.declares = Back.declares /\ q.sections = Back.sections
              /\ q.results = Back.results /\ (q.ended <=> Back.ended) /\ q.announced = Check
            BY <1>c, <3>1, ReadTry
        <3> HIDE DEF q
        <3>3. Back' = q
            BY <1>b, <2>1 DEF q
        <3> QED
            BY <3>2, <3>3
    <2>3. Sections' = Sections /\ Check' = Check
        BY <2>1 DEF Sections, Check
    <2>4. Framed'
        BY <2>1, <2>2, <2>3 DEF ReadBack, Framed
    <2>5. \A r \in ResultsIn(report) : r.id # Check
        BY <2>1, NewName DEF Named, ResultsIn
    <2>6. Listed'
        BY <2>1, <2>2, <2>5, NoResult DEF ReadBack, Try
    <2>7. Measured'
        BY <2>1, <2>2, <2>3 DEF ReadBack, Measured, InSection, Before
    <2> QED
        BY <2>4, <2>6, <2>7 DEF ReadBack
<1>5. ASSUME NEW status \in Status, phase = "attempt", Record(status)
      PROVE  ReadBack'
    <2>1. UNCHANGED suite /\ InSection /\ c \in 1..Len(Sections[s]) /\ Check \in STRING
        BY <1>5, CheckPlaced, CheckTyped DEF InSection, Record
    <2>2. \A r \in ResultsIn(report) : r.id # Check
        BY <1>5 DEF ReadBack, Listed
    <2> QED
        BY <1>5, <2>1, <2>2, ResultReadBack
<1>6. CASE Die
    BY <1>6, NothingWritten DEF Die
<1>7. CASE Heartbeat
    BY <1>7, NothingWritten DEF Heartbeat
<1>8. CASE CloseSection
    <2>1. /\ phase = "check" /\ c > Len(Sections[s]) /\ phase' = "tallied" /\ s' = s + 1
          /\ UNCHANGED <<suite, c, total>> /\ report' = Append(report, SectionTally(s, tally))
        BY <1>8 DEF CloseSection
    <2>2. Back' = Back
        BY <1>b, <2>1, ReadSectionTally
    <2>3. Sections' = Sections /\ s \in 1..Len(Sections)
        BY <2>1 DEF Sections, Types, Placed
    <2>4. Framed'
        BY <2>1, <2>2, <2>3 DEF ReadBack, Framed
    <2>5. ResultsIn(report') = ResultsIn(report)
        BY <2>1, ResultsNext DEF Inv, SectionTally
    <2>6. Listed'
        BY <2>1, <2>2, <2>5 DEF ReadBack, Listed
    <2>7. Measured'
        <3>1. /\ Len(Back.sections) = s /\ Len(Back.results) = Before(s - 1) + (c - 1)
              /\ c <= Len(Sections[s]) + 1
            BY <2>1 DEF ReadBack, Measured, InSection
        <3>2. /\ c - 1 = Len(Sections[s]) /\ (s + 1) - 1 = s /\ s - 1 \in 0..Len(Sections)
              /\ s \in 0..Len(Sections)
            BY <1>0, <2>1, <2>3, <3>1
        <3>3. Before(s) = Before(s - 1) + Len(Sections[s])
            BY <1>0, <2>3, BeforeNext
        <3>4. Len(Back.results) = Before((s + 1) - 1) + 0
            BY <1>a, <3>1, <3>2, <3>3
        <3>5. \A n : Before(n)' = CheckCount(SubSeq(Sections, 1, n))
            BY <2>3 DEF Before
        <3>6. Before(s - 1)' = Before((s + 1) - 1)
            BY <2>1, <2>3 DEF Before
        <3> QED
            BY <2>1, <2>2, <2>3, <3>1, <3>2, <3>4, <3>6 DEF Measured, InSection
    <2> QED
        BY <2>4, <2>6, <2>7 DEF ReadBack
<1>9. CASE Finish
    <2> DEFINE f == Frontier(Cardinality(available), blocked, deepest)
               t == TallyRecord(total)
    <2>1. /\ phase = "section" /\ s > Len(Sections) /\ phase' = "over"
          /\ UNCHANGED <<suite, s, c, total>> /\ report' = report \o <<f, t, End>>
        BY <1>9 DEF Finish
    <2> HIDE DEF f, t
    <2>2. /\ report' = Append(Append(Append(report, f), t), End)
          /\ IsReport(Append(report, f)) /\ IsReport(Append(Append(report, f), t))
        BY <2>1, ThreeMore DEF Inv
    <2>3. Back' = Read(Read(Read(Back, f), t), End)
        BY <2>2, ReadOne DEF Back, Inv
    <2>4. /\ Back' \in Reports /\ Back'.declares = Back.declares
          /\ Back'.sections = Back.sections /\ Back'.results = Back.results
          /\ Back'.tally = <<total>> /\ Back'.ended /\ Back'.announced = Back.announced
        BY <1>0, <1>c, <2>3, ReadEnd DEF f, t
    <2>5. Sections' = Sections /\ s = Len(Sections) + 1
        BY <1>0, <2>1, SMTT(30) DEF Sections
    <2>6. Framed'
        BY <2>1, <2>4, <2>5 DEF ReadBack, Framed
    <2>7. ResultsIn(report') = ResultsIn(report)
        <3>1. f.kind # "res" /\ t.kind # "res" /\ End.kind # "res"
            BY DEF f, t, Frontier, TallyRecord, End
        <3> DEFINE p == Append(report, f)
                   q == Append(p, t)
        <3>2. IsReport(report) /\ IsReport(p) /\ IsReport(q) /\ report' = Append(q, End)
            BY <2>2 DEF Inv
        <3>3. ResultsIn(p) = ResultsIn(report)
            BY <3>1, <3>2, ResultsNext
        <3> HIDE DEF p
        <3>4. ResultsIn(q) = ResultsIn(p)
            BY <3>1, <3>2, ResultsNext
        <3> HIDE DEF q
        <3>5. ResultsIn(report') = ResultsIn(q)
            BY <3>1, <3>2, ResultsNext
        <3> QED
            BY <3>3, <3>4, <3>5
    <2>8. Listed'
        BY <2>1, <2>4, <2>7 DEF ReadBack, Listed
    <2>9. Measured'
        BY <2>1, <2>4, <2>5 DEF ReadBack, Measured, InSection, Before
    <2> QED
        BY <2>6, <2>8, <2>9 DEF ReadBack
<1>10. CASE UNCHANGED vars
    BY <1>10, NothingWritten DEF vars
<1> QED
    BY <1>1, <1>2, <1>3, <1>4, <1>5, <1>6, <1>7, <1>8, <1>9, <1>10
    DEF Next, Return, Crash, Status

LEMMA WholeVerifies == Types /\ ReadBack => WholeReportVerifies
<1> SUFFICES ASSUME Types, ReadBack, phase = "over"
             PROVE  Verifies(report)
    BY DEF WholeReportVerifies
<1>1. suite \in Suites /\ Len(Sections) \in Nat
    BY TableTyped DEF Types, TypeOK
<1>2. /\ Back.ended /\ Back.announced = None /\ Back.tally = <<total>>
      /\ Back.declares = <<Len(Sections), CheckCount(Sections)>> /\ s = Len(Sections) + 1
    BY DEF ReadBack, Framed
<1>3. s - 1 = Len(Sections)
    BY <1>1, <1>2
<1>4. /\ Len(Back.sections) = Len(Sections)
      /\ Len(Back.results) = Before(Len(Sections)) + 0
    BY <1>3 DEF ReadBack, Measured, InSection
<1>5. Before(Len(Sections)) = CheckCount(Sections) /\ Before(Len(Sections)) \in Nat
    BY <1>1, BeforeNext, SumTyped
<1>6. Len(Back.results) = CheckCount(Sections)
    BY <1>4, <1>5
<1>7. total = Counted(Back.results) /\ Cardinality(Ids(Back.results)) = Len(Back.results)
    BY DEF ReadBack, Listed, OnceEach
<1> QED
    BY <1>2, <1>4, <1>6, <1>7 DEF Verifies, Back, Ids

\* A run that reached its end wrote a report that verify.rs has nothing to say of
\* (OUTPUT.md, Verify): for every table, whatever its checks did, it is closed, declares
\* as many sections and checks as it has, tells no check twice and adds up.
THEOREM WholeReportIsBelieved == Spec => []WholeReportVerifies
BY WholeVerifies, Initially, Steps, TypesInitially, TypesKept, CountingInitially, CountingKept,
   ReadBackInitially, ReadBackKept, PTL DEF Spec

-----------------------------------------------------------------------------
(* Which check a run died in. *)

\* The attempts that are left are that of the check being run, and the census control's.
Trying ==
    /\ \A i \in Unanswered(report) :
          report[i].id = Control \/ (phase \in {"attempt", "dead"} /\ report[i].id = Check)
    /\ phase \in {"attempt", "dead"} => \E i \in Unanswered(report) : report[i].id = Check

\* What one more record, e, does to them.
Leaves(q, p, e) ==
    /\ \A i \in Unanswered(q) :
          \/ /\ i \in Unanswered(p) /\ q[i] = p[i]
             /\ e.kind = "res" /\ e.id # Control => p[i].id # e.id
          \/ e.kind = "try" /\ q[i] = e
    /\ e.kind = "try" => \E i \in Unanswered(q) : q[i] = e

LEMMA UnansweredNext ==
    ASSUME NEW p, NEW e, IsReport(p), NEW q, q = Append(p, e)
    PROVE  Leaves(q, p, e)
<1>1. Extends(q, p) /\ Len(q) = Len(p) + 1 /\ q[Len(p) + 1] = e
    BY AppendExtends
<1>2. /\ Len(p) \in Nat /\ DOMAIN p = 1..Len(p) /\ DOMAIN q = 1..(Len(p) + 1)
      /\ \A i \in DOMAIN p : i \in DOMAIN q /\ q[i] = p[i]
    BY <1>1 DEF Extends
<1>3. ASSUME NEW i \in Unanswered(q), i \in DOMAIN p
      PROVE  /\ i \in Unanswered(p) /\ q[i] = p[i]
             /\ e.kind = "res" /\ e.id # Control => p[i].id # e.id
    <2>1. Len(p) + 1 > i /\ Len(p) + 1 \in DOMAIN q
        BY <1>2, <1>3
    <2> QED
        BY <1>1, <1>2, <1>3, <2>1 DEF Unanswered
<1>4. ASSUME NEW i \in Unanswered(q), i \notin DOMAIN p
      PROVE  e.kind = "try" /\ q[i] = e
    <2>1. i = Len(p) + 1
        BY <1>2, <1>4 DEF Unanswered
    <2> QED
        BY <1>1, <2>1 DEF Unanswered
<1>5. ASSUME e.kind = "try"
      PROVE  Len(p) + 1 \in Unanswered(q)
    <2>1. Len(p) + 1 \in DOMAIN q /\ \A j \in DOMAIN q : ~(j > Len(p) + 1)
        BY <1>2
    <2> QED
        BY <1>1, <1>5, <2>1 DEF Unanswered
<1> QED
    BY <1>1, <1>3, <1>4, <1>5 DEF Leaves

LEMMA TryingInitially == Init => Trying
<1> SUFFICES ASSUME Init PROVE Trying
    OBVIOUS
<1>1. Unanswered(<<>>) = {}
    BY DEF Unanswered
<1> QED
    BY <1>1 DEF Init, Trying

\* A record that is neither, where nothing is being run.
LEMMA OtherRecord ==
    ASSUME NEW p, NEW e, IsReport(p), e.kind \notin {"try", "res"},
           \A i \in Unanswered(p) : p[i].id = Control
    PROVE  LET q == Append(p, e)
           IN  \A i \in Unanswered(q) : q[i].id = Control
<1>1. Leaves(Append(p, e), p, e)
    BY UnansweredNext
<1> QED
    BY <1>1 DEF Leaves

LEMMA TryingKept == Types /\ Inv /\ Trying /\ [Next]_vars => Trying'
<1> SUFFICES ASSUME Types, Inv, Trying, [Next]_vars PROVE Trying'
    OBVIOUS
<1> USE DEF table, counts
<1>0. IsReport(report)
    BY DEF Inv
<1>1. CASE Start \/ OpenSection \/ CloseSection
    <2>1. PICK e : report' = Append(report, e) /\ e.kind \notin {"try", "res"}
        <3>1. \A a, b : /\ Meta(a, b).kind \notin {"try", "res"}
                        /\ Section(a).kind \notin {"try", "res"}
                        /\ SectionTally(a, b).kind \notin {"try", "res"}
            BY DEF Meta, Section, SectionTally
        <3> QED
            BY <1>1, <3>1 DEF Start, OpenSection, CloseSection
    <2>2. phase \notin {"attempt", "dead"} /\ phase' \notin {"attempt", "dead"}
        BY <1>1 DEF Start, OpenSection, CloseSection
    <2>3. \A i \in Unanswered(report') : report'[i].id = Control
        BY <1>0, <2>1, <2>2, OtherRecord DEF Trying
    <2> QED
        BY <2>2, <2>3 DEF Trying
<1>2. ASSUME NEW status, Record(status)
      PROVE  Trying'
    <2> DEFINE e == Res(Check, status)
    <2>1. e.kind = "res" /\ e.id = Check
        BY DEF Res
    <2>2. report' = Append(report, e) /\ phase' = "recorded"
        BY <1>2 DEF Record
    <2> HIDE DEF e
    <2>a. Leaves(report', report, e)
        BY <1>0, <2>2, UnansweredNext
    <2>3. ASSUME NEW i \in Unanswered(report')
          PROVE  report'[i].id = Control
        <3>1. /\ i \in Unanswered(report) /\ report'[i] = report[i]
              /\ Check # Control => report[i].id # Check
            BY <2>1, <2>3, <2>a DEF Leaves
        <3> QED
            BY <3>1 DEF Trying
    <2> QED
        BY <2>2, <2>3 DEF Trying
<1>3. CASE Attempt
    <2> DEFINE e == Try(Check)
    <2>1. e.kind = "try" /\ e.id = Check
        BY DEF Try
    <2>2. /\ report' = Append(report, e) /\ phase = "check" /\ phase' = "attempt"
          /\ UNCHANGED <<suite, s, c>>
        BY <1>3 DEF Attempt, Selected
    <2> HIDE DEF e
    <2>3. Check' = Check
        BY <2>2 DEF Check, Sections
    <2>a. Leaves(report', report, e)
        BY <1>0, <2>2, UnansweredNext
    <2>4. \A i \in Unanswered(report') : report'[i].id = Control \/ report'[i].id = Check
        BY <2>1, <2>2, <2>a DEF Trying, Leaves
    <2>5. \E i \in Unanswered(report') : report'[i].id = Check
        BY <2>1, <2>a DEF Leaves
    <2> QED
        BY <2>2, <2>3, <2>4, <2>5 DEF Trying
<1>4. CASE Die \/ Heartbeat \/ UNCHANGED vars
    <2>1. UNCHANGED <<report, suite, s, c>>
        BY <1>4 DEF Die, Heartbeat, vars
    <2>2. phase' \in {"attempt", "dead"} <=> phase \in {"attempt", "dead"}
        BY <1>4 DEF Die, Heartbeat, vars
    <2> QED
        BY <2>1, <2>2 DEF Trying, Check, Sections
<1>5. CASE Finish
    <2> DEFINE f == Frontier(Cardinality(available), blocked, deepest)
               t == TallyRecord(total)
               p == Append(report, f)
               q == Append(p, t)
    <2>1. /\ phase = "section" /\ phase' = "over" /\ report' = report \o <<f, t, End>>
        BY <1>5 DEF Finish
    <2>2. /\ f.kind \notin {"try", "res"} /\ t.kind \notin {"try", "res"}
          /\ End.kind \notin {"try", "res"}
        BY DEF Frontier, TallyRecord, End
    <2> HIDE DEF f, t
    <2>3. report' = Append(q, End) /\ IsReport(p) /\ IsReport(q)
        BY <1>0, <2>1, ThreeMore
    <2>4. \A i \in Unanswered(report) : report[i].id = Control
        BY <2>1 DEF Trying
    <2>5. \A i \in Unanswered(p) : p[i].id = Control
        BY <1>0, <2>2, <2>4, OtherRecord
    <2> HIDE DEF p
    <2>6. \A i \in Unanswered(q) : q[i].id = Control
        BY <2>2, <2>3, <2>5, OtherRecord
    <2> HIDE DEF q
    <2>7. \A i \in Unanswered(report') : report'[i].id = Control
        BY <2>2, <2>3, <2>6, OtherRecord
    <2> QED
        BY <2>1, <2>7 DEF Trying
<1> QED
    BY <1>1, <1>2, <1>3, <1>4, <1>5 DEF Next, SkipAbsent, SkipBlocked, Return, Crash

LEMMA DeathNamed == ReadBack /\ Trying /\ Inv => DeathIsNamed
<1> SUFFICES ASSUME ReadBack, Trying, Inv PROVE DeathIsNamed
    OBVIOUS
<1> DEFINE left == Unanswered(report)
           died == DiedIn(report)
           but  == IF Tried(report, Control) THEN {Control} ELSE {}
<1>1. left \subseteq Nat /\ \A i \in left : i \in Of(report, "try")
    <2>1. DOMAIN report \subseteq Nat
        BY DEF Inv, IsReport
    <2> QED
        BY <2>1 DEF Unanswered, Of
<1>2. \A i \in left : report[i].id = Control => Control \in but
    BY <1>1 DEF Tried
<1>3. left # {} => Min(left) \in left
    BY <1>1, Reading!Least DEF Min
<1>4. died = IF left = {} THEN None ELSE report[Min(left)].id
    BY DEF DiedIn
<1> HIDE DEF left, died, but
<1>5. phase = "dead" => died \in {Check} \cup but
    BY <1>2, <1>3, <1>4 DEF Trying, left
<1>6. phase \notin {"dead", "attempt"} => died \in {None} \cup but
    BY <1>2, <1>3, <1>4 DEF Trying, left
<1>7. /\ phase = "dead" => ~Back.ended /\ Back.announced = Check
      /\ phase \notin {"dead", "attempt"} => Back.announced = None
    BY DEF ReadBack, Framed
<1> QED
    BY <1>5, <1>6, <1>7 DEF DeathIsNamed, Back, died, but

\* A run that died in a check is read back as dead in that check by both readers, and one
\* that did not die in a check as dead in none (DESIGN.md:20), but for the attempt of the
\* census control, which the compatibility table never takes as answered.
THEOREM DeathsAreNamed == Spec => []DeathIsNamed
BY DeathNamed, Initially, Steps, TypesInitially, TypesKept, CountingInitially, CountingKept,
   ReadBackInitially, ReadBackKept, TryingInitially, TryingKept, PTL DEF Spec

-----------------------------------------------------------------------------
(* The run loop run twice, and the two reports compared. *)

\* One check comes before another in the table.
Earlier(t, x, y) ==
    \E k, m \in DOMAIN t.sections :
        \E l \in DOMAIN t.sections[k], n \in DOMAIN t.sections[m] :
            /\ t.sections[k][l] = x /\ t.sections[m][n] = y
            /\ k < m \/ (k = m /\ l < n)

LEMMA EarlierIsStrict ==
    ASSUME NEW t \in Suites, NEW x, NEW y, Earlier(t, x, y)
    PROVE  x # y /\ ~Earlier(t, y, x)
<1>1. t.sections \in Seq(Seq(STRING))
    BY SuitesAssumption
<1>2. /\ DOMAIN t.sections \subseteq Nat
      /\ \A k \in DOMAIN t.sections : DOMAIN t.sections[k] \subseteq Nat
    BY <1>1
<1>3. PICK k \in DOMAIN t.sections, m \in DOMAIN t.sections :
          \E l \in DOMAIN t.sections[k], n \in DOMAIN t.sections[m] :
            /\ t.sections[k][l] = x /\ t.sections[m][n] = y
            /\ k < m \/ (k = m /\ l < n)
    BY DEF Earlier
<1>4. PICK l \in DOMAIN t.sections[k], n \in DOMAIN t.sections[m] :
            /\ t.sections[k][l] = x /\ t.sections[m][n] = y
            /\ k < m \/ (k = m /\ l < n)
    BY <1>3
<1>5. \A i \in DOMAIN t.sections : \A j \in DOMAIN t.sections[i] :
          /\ t.sections[i][j] = x => i = k /\ j = l
          /\ t.sections[i][j] = y => i = m /\ j = n
    BY <1>4, OneRowEach
<1>6. x # y
    BY <1>2, <1>4, <1>5
<1>7. ASSUME Earlier(t, y, x)
      PROVE  FALSE
    <2>1. PICK k2 \in DOMAIN t.sections, m2 \in DOMAIN t.sections :
              \E l2 \in DOMAIN t.sections[k2], n2 \in DOMAIN t.sections[m2] :
                /\ t.sections[k2][l2] = y /\ t.sections[m2][n2] = x
                /\ k2 < m2 \/ (k2 = m2 /\ l2 < n2)
        BY <1>7 DEF Earlier
    <2>2. PICK l2 \in DOMAIN t.sections[k2], n2 \in DOMAIN t.sections[m2] :
                /\ t.sections[k2][l2] = y /\ t.sections[m2][n2] = x
                /\ k2 < m2 \/ (k2 = m2 /\ l2 < n2)
        BY <2>1
    <2>3. k2 = m /\ l2 = n /\ m2 = k /\ n2 = l
        BY <1>5, <2>2
    <2>4. k \in Nat /\ l \in Nat /\ m \in Nat /\ n \in Nat
        BY <1>2
    <2> QED
        BY <1>4, <2>2, <2>3, <2>4
<1> QED
    BY <1>6, <1>7

\* A report has its results in the order of the table, and an attempt after those before.
InOrder(t, r) ==
    \A j \in Of(r, "res"), i \in Of(r, "res") \cup Of(r, "try") :
        j < i => Earlier(t, r[j].id, r[i].id)

Sorted == InOrder(suite, report)

LEMMA ResultsEarlier ==
    ASSUME Types, Counting, ReadBack, phase = "attempt" \/ Selected
    PROVE  \A j \in Of(report, "res") : Earlier(suite, report[j].id, Check)
<1> SUFFICES ASSUME NEW j \in Of(report, "res")
             PROVE  Earlier(suite, report[j].id, Check)
    OBVIOUS
<1>1. s \in 1..Len(Sections) /\ c \in 1..Len(Sections[s])
    BY CheckPlaced
<1>2. /\ DOMAIN Sections = 1..Len(Sections) /\ s \in Nat /\ c \in Nat
      /\ \A k \in 1..Len(Sections) : DOMAIN Sections[k] = 1..Len(Sections[k])
    BY TableTyped DEF Types, TypeOK
<1>3. AtRow(report[j].id)
    BY DEF Counting, Named
<1>4. PICK k \in 1..Len(Sections) : \E l \in 1..Len(Sections[k]) :
          /\ report[j].id = Sections[k][l]
          /\ k < s \/ (k = s /\ (l < c \/ (l = c /\ phase \in {"attempt", "dead"})))
    BY <1>3 DEF AtRow
<1>5. PICK l \in 1..Len(Sections[k]) :
          /\ report[j].id = Sections[k][l]
          /\ k < s \/ (k = s /\ (l < c \/ (l = c /\ phase \in {"attempt", "dead"})))
    BY <1>4
<1>6. report[j].id # Check
    <2>1. CASE phase = "attempt"
        BY <2>1 DEF ReadBack, Listed, ResultsIn
    <2>2. CASE Selected
        BY <2>2, NewName DEF Named
    <2> QED
        BY <2>1, <2>2
<1>7. k < s \/ (k = s /\ l < c)
    BY <1>5, <1>6 DEF Check
<1> QED
    BY <1>1, <1>2, <1>5, <1>7 DEF Earlier, Check, Sections

\* A record keeps the order, if it names no check or one that comes after all results.
LEMMA OrderNext ==
    ASSUME NEW t, NEW p, NEW e, IsReport(p), InOrder(t, p), NEW q, q = Append(p, e),
           e.kind \in {"res", "try"} => \A j \in Of(p, "res") : Earlier(t, p[j].id, e.id)
    PROVE  InOrder(t, q)
<1>1. Extends(q, p) /\ Len(q) = Len(p) + 1 /\ q[Len(p) + 1] = e
    BY AppendExtends
<1>2. /\ Len(p) \in Nat /\ DOMAIN p = 1..Len(p) /\ DOMAIN q = 1..(Len(p) + 1)
      /\ \A i \in DOMAIN p : i \in DOMAIN q /\ q[i] = p[i]
    BY <1>1 DEF Extends
<1>3. ASSUME NEW j \in Of(q, "res"), NEW i \in Of(q, "res") \cup Of(q, "try"), j < i
      PROVE  Earlier(t, q[j].id, q[i].id)
    <2>1. j \in DOMAIN p /\ j \in Of(p, "res") /\ q[j] = p[j]
        BY <1>2, <1>3 DEF Of
    <2>2. CASE i \in DOMAIN p
        <3>1. i \in Of(p, "res") \cup Of(p, "try") /\ q[i] = p[i]
            BY <1>2, <2>2 DEF Of
        <3> QED
            BY <1>3, <2>1, <3>1 DEF InOrder
    <2>3. CASE i \notin DOMAIN p
        <3>1. i = Len(p) + 1
            BY <1>2, <2>3 DEF Of
        <3>2. q[i] = e /\ e.kind \in {"res", "try"}
            BY <1>1, <3>1 DEF Of
        <3> QED
            BY <2>1, <3>2
    <2> QED
        BY <2>2, <2>3
<1> QED
    BY <1>3 DEF InOrder

LEMMA SortedInitially == Init => Sorted
BY DEF Init, Sorted, InOrder, Of

LEMMA SortedKept == Types /\ Inv /\ Counting /\ ReadBack /\ Sorted /\ [Next]_vars => Sorted'
<1> SUFFICES ASSUME Types, Inv, Counting, ReadBack, Sorted, [Next]_vars PROVE Sorted'
    OBVIOUS
<1> USE DEF table, counts
<1>0. IsReport(report) /\ InOrder(suite, report) /\ suite' = suite
    <2>1. suite' = suite
        BY DEF Next, Start, OpenSection, SkipAbsent, SkipBlocked, Attempt, Return, Crash,
               Die, Heartbeat, CloseSection, Finish, Record, vars
    <2> QED
        BY <2>1 DEF Inv, Sorted
<1>1. ASSUME NEW e, report' = Append(report, e), e.kind \notin {"try", "res"}
      PROVE  Sorted'
    BY <1>0, <1>1, OrderNext DEF Sorted
<1>2. CASE Start \/ OpenSection \/ CloseSection
    <2>1. PICK e : report' = Append(report, e) /\ e.kind \notin {"try", "res"}
        <3>1. \A a, b : /\ Meta(a, b).kind \notin {"try", "res"}
                        /\ Section(a).kind \notin {"try", "res"}
                        /\ SectionTally(a, b).kind \notin {"try", "res"}
            BY DEF Meta, Section, SectionTally
        <3> QED
            BY <1>2, <3>1 DEF Start, OpenSection, CloseSection
    <2> QED
        BY <1>1, <2>1
<1>3. ASSUME NEW status, Record(status), phase = "attempt" \/ Selected
      PROVE  Sorted'
    <2>1. \A j \in Of(report, "res") : Earlier(suite, report[j].id, Check)
        BY <1>3, ResultsEarlier
    <2>2. report' = Append(report, Res(Check, status)) /\ Res(Check, status).id = Check
        BY <1>3 DEF Record, Res
    <2> QED
        BY <1>0, <2>1, <2>2, OrderNext DEF Sorted
<1>4. CASE Attempt
    <2>1. \A j \in Of(report, "res") : Earlier(suite, report[j].id, Check)
        BY <1>4, ResultsEarlier DEF Attempt
    <2>2. report' = Append(report, Try(Check)) /\ Try(Check).id = Check
        BY <1>4 DEF Attempt, Try
    <2> QED
        BY <1>0, <2>1, <2>2, OrderNext DEF Sorted
<1>5. CASE Die \/ Heartbeat \/ UNCHANGED vars
    BY <1>0, <1>5 DEF Die, Heartbeat, vars, Sorted
<1>6. CASE Finish
    <2> DEFINE f == Frontier(Cardinality(available), blocked, deepest)
               t == TallyRecord(total)
               p == Append(report, f)
               q == Append(p, t)
    <2>1. report' = report \o <<f, t, End>>
        BY <1>6 DEF Finish
    <2>2. /\ f.kind \notin {"try", "res"} /\ t.kind \notin {"try", "res"}
          /\ End.kind \notin {"try", "res"}
        BY DEF Frontier, TallyRecord, End
    <2> HIDE DEF f, t
    <2>3. report' = Append(q, End) /\ IsReport(p) /\ IsReport(q)
        BY <1>0, <2>1, ThreeMore
    <2>4. InOrder(suite, p)
        BY <1>0, <2>2, OrderNext
    <2> HIDE DEF p
    <2>5. InOrder(suite, q)
        BY <2>2, <2>3, <2>4, OrderNext
    <2> HIDE DEF q
    <2>6. InOrder(suite, report')
        BY <2>2, <2>3, <2>5, OrderNext
    <2> QED
        BY <1>0, <2>6 DEF Sorted
<1> QED
    BY <1>2, <1>3, <1>4, <1>5, <1>6 DEF Next, SkipAbsent, SkipBlocked, Return, Crash

\* All that is true of one run, and what the run after it starts from.
AllInv ==
    /\ Types /\ Inv /\ Counting /\ Answered /\ Tallied
    /\ ReadBack /\ Trying /\ Sorted

LEMMA AllInitially == Init => AllInv
BY Initially, TypesInitially, CountingInitially, AnsweredInitially, TalliedInitially,
   ReadBackInitially, TryingInitially, SortedInitially DEF AllInv

LEMMA AllKept == AllInv /\ [Next]_vars => AllInv'
BY Steps, TypesKept, CountingKept, AnsweredKept, TalliedKept,
   ReadBackKept, TryingKept, SortedKept DEF AllInv

LEMMA Restarts == Types /\ Again => Init'
<1> SUFFICES ASSUME Types, Again PROVE Init'
    OBVIOUS
<1>1. /\ suite' \in Suites /\ guarded' \in Guards
      /\ excluded' \in SUBSET Checks(suite') /\ unresolved' \in SUBSET Checks(suite')
      /\ Cardinality(excluded') + Cardinality(unresolved') <= MaxAbsent
    BY DEF Types, TypeOK, Again
<1> QED
    BY <1>1 DEF Again, Init

LEMMA AllAgain == Init' => AllInv'
BY AllInitially, PTL

\* What is kept of a report: it is read back for what it says, and it is backed and in
\* the order of the table.
Kept(r) ==
    LET p == ParseReport(r)
    IN  /\ IsReport(r) /\ p \in Reports
        /\ ToSet(p.results) = ResultsIn(r) /\ OnceEach(p.results)
        /\ \A i \in Of(r, "try") : suite.requires[r[i].id] \subseteq Backing(suite, r, i)
        /\ InOrder(suite, r)

Past == before # <<>> => Kept(before)

LEMMA AllIsKept ==
    ASSUME AllInv
    PROVE  Kept(report)
BY DEF AllInv, Kept, Inv, AttemptsAreBacked, Backed, ReadBack, Framed, Listed, Back, Sorted

LEMMA TwiceInitially == InitTwice => AllInv /\ Past
BY AllInitially DEF InitTwice, Past

LEMMA TwiceKept == AllInv /\ Past /\ [NextTwice]_dvars => AllInv' /\ Past'
<1> SUFFICES ASSUME AllInv, Past, [NextTwice]_dvars PROVE AllInv' /\ Past'
    OBVIOUS
<1>1. CASE Next /\ UNCHANGED before
    <2>1. suite' = suite
        BY <1>1, Grows DEF AllInv
    <2>2. Past'
        BY <1>1, <2>1 DEF Past, Kept
    <2> QED
        BY <1>1, <2>2, AllKept
<1>2. CASE Again
    <2>1. Init'
        BY <1>2, Restarts DEF AllInv
    <2>2. Kept(report)
        BY AllIsKept
    <2>3. suite' = suite /\ before' = report
        BY <1>2 DEF Again
    <2> QED
        BY <2>1, <2>2, <2>3, AllAgain DEF Past, Kept
<1>3. CASE UNCHANGED dvars
    <2>1. UNCHANGED vars /\ UNCHANGED before /\ UNCHANGED suite
        BY <1>3 DEF dvars, vars, table
    <2>2. Past'
        BY <2>1 DEF Past, Kept
    <2> QED
        BY <2>1, <2>2, AllKept
<1> QED
    BY <1>1, <1>2, <1>3 DEF NextTwice

\* The ranks tell pass from everything below it, and crash from everything above it.
LEMMA Ranks ==
    /\ \A x \in Status : ~(Rank(x) < Rank("pass")) => x = "pass"
    /\ \A x \in Status : ~(Rank("crash") < Rank(x)) => x = "crash"
<1>1. /\ DOMAIN Worst = 1..6 /\ Worst[1] = "crash" /\ Worst[2] = "pending"
      /\ Worst[3] = "skip" /\ Worst[4] = "fail" /\ Worst[5] = "partial" /\ Worst[6] = "pass"
    BY DEF Worst
<1>2. \A x \in Status : Rank(x) \in 1..6 /\ Worst[Rank(x)] = x
    <2> SUFFICES ASSUME NEW x \in Status PROVE \E i \in DOMAIN Worst : Worst[i] = x
        BY <1>1 DEF Rank
    <2> QED
        BY <1>1 DEF Status
<1>3. Rank("pass") = 6 /\ Rank("crash") = 1
    <2>1. "pass" \in Status /\ "crash" \in Status
        BY DEF Status
    <2> QED
        BY <1>1, <1>2, <2>1
<1>4. \A x \in Status : Rank(x) = 6 => x = "pass"
    BY <1>1, <1>2
<1>5. \A x \in Status : Rank(x) = 1 => x = "crash"
    BY <1>1, <1>2
<1> QED
    BY <1>2, <1>3, <1>4, <1>5

\* Where no id is read twice, a check's status is that of its one result.
LEMMA ByIdIs ==
    ASSUME NEW p \in Reports, OnceEach(p.results)
    PROVE  /\ DOMAIN ById(p) = Ids(p.results)
           /\ \A x \in ToSet(p.results) : x.id \in DOMAIN ById(p) /\ ById(p)[x.id] = x.status
<1> DEFINE rs == p.results
<1>1. rs \in Seq(Result)
    BY DEF Reports
<1>2. DOMAIN rs = 1..Len(rs) /\ Len(rs) \in Nat
    BY <1>1
<1>3. DOMAIN ById(p) = Ids(rs)
    BY DEF ById, Ids
<1>4. ASSUME NEW x \in ToSet(rs)
      PROVE  x.id \in Ids(rs) /\ ById(p)[x.id] = x.status
    <2>1. x.id \in Ids(rs)
        BY DEF Ids
    <2>2. PICK i \in DOMAIN rs : rs[i] = x
        BY <1>4 DEF ToSet
    <2> DEFINE Latest(k) == /\ rs[k].id = x.id
                          /\ \A j \in DOMAIN rs : rs[j].id = x.id => j <= k
    <2>3. Latest(i)
        BY <1>2, <2>2 DEF OnceEach
    <2>4. \A k \in DOMAIN rs : Latest(k) => k = i
        BY <2>2 DEF OnceEach
    <2>5. (CHOOSE k \in DOMAIN rs : Latest(k)) = i
        BY <2>3, <2>4
    <2>6. ById(p)[x.id] = rs[CHOOSE k \in DOMAIN rs : Latest(k)].status
        BY <2>1 DEF ById, Ids
    <2> QED
        BY <2>1, <2>2, <2>5, <2>6
<1> QED
    BY <1>3, <1>4

\* What a comparison without a regression says of the results themselves.
NoWorse(older, newer) ==
    \A i \in Of(older, "res") :
        /\ \E k \in Of(newer, "res") : newer[k].id = older[i].id
        /\ \A k \in Of(newer, "res") : newer[k].id = older[i].id =>
              /\ older[i].status = "pass" => newer[k].status = "pass"
              /\ newer[k].status = "crash" => older[i].status = "crash"

LEMMA ComparedByResults ==
    ASSUME NEW older, NEW newer, Kept(older), Kept(newer),
           ~HasRegression(Compare(ParseReport(older), ParseReport(newer)))
    PROVE  NoWorse(older, newer)
<1> DEFINE p == ParseReport(older)
           q == ParseReport(newer)
<1>1. /\ p \in Reports /\ q \in Reports
      /\ OnceEach(p.results) /\ OnceEach(q.results)
      /\ ToSet(p.results) = ResultsIn(older) /\ ToSet(q.results) = ResultsIn(newer)
    BY DEF Kept
<1>2. /\ DOMAIN ById(p) \ DOMAIN ById(q) = {}
      /\ {id \in DOMAIN ById(p) \cap DOMAIN ById(q) :
             Rank(ById(q)[id]) < Rank(ById(p)[id])} = {}
    BY DEF Compare, HasRegression
<1> HIDE DEF p, q
<1>3. /\ DOMAIN ById(q) = Ids(q.results)
      /\ \A x \in ToSet(p.results) : x.id \in DOMAIN ById(p) /\ ById(p)[x.id] = x.status
      /\ \A x \in ToSet(q.results) : x.id \in DOMAIN ById(q) /\ ById(q)[x.id] = x.status
    BY <1>1, ByIdIs
<1>4. \A x \in ToSet(p.results) \cup ToSet(q.results) : x.status \in Status
    <2>1. p.results \in Seq(Result) /\ q.results \in Seq(Result)
        BY <1>1 DEF Reports
    <2>2. \A x \in ToSet(p.results) \cup ToSet(q.results) : x \in Result
        BY <2>1 DEF ToSet
    <2> QED
        BY <2>2 DEF Result
<1>5. ASSUME NEW i \in Of(older, "res")
      PROVE  /\ \E k \in Of(newer, "res") : newer[k].id = older[i].id
             /\ \A k \in Of(newer, "res") : newer[k].id = older[i].id =>
                   /\ older[i].status = "pass" => newer[k].status = "pass"
                   /\ newer[k].status = "crash" => older[i].status = "crash"
    <2>1. older[i] \in ToSet(p.results)
        BY <1>1 DEF ResultsIn
    <2>2. older[i].id \in Ids(q.results)
        BY <1>2, <1>3, <2>1
    <2>3. \E k \in Of(newer, "res") : newer[k].id = older[i].id
        BY <1>1, <2>2 DEF Ids, ResultsIn
    <2>4. ASSUME NEW k \in Of(newer, "res"), newer[k].id = older[i].id
          PROVE  ~(Rank(newer[k].status) < Rank(older[i].status))
        <3>1. newer[k] \in ToSet(q.results)
            BY <1>1 DEF ResultsIn
        <3>2. /\ older[i].id \in DOMAIN ById(p) \cap DOMAIN ById(q)
              /\ ById(q)[older[i].id] = newer[k].status
              /\ ById(p)[older[i].id] = older[i].status
            BY <1>3, <2>1, <2>4, <3>1
        <3> QED
            BY <1>2, <3>2
    <2>5. \A k \in Of(newer, "res") : newer[k].status \in Status
        BY <1>1, <1>4 DEF ResultsIn
    <2>6. older[i].status \in Status
        BY <1>4, <2>1
    <2> QED
        BY <2>3, <2>4, <2>5, <2>6, Ranks
<1> QED
    BY <1>5 DEF NoWorse

\* A report without a regression from the one before it has not receded from it
\* (diff.rs:8-18): nothing established is lost, no check that was attempted is behind the
\* floor, and none has come to crash that did not.
THEOREM NoRegressionNoRetreat == SpecTwice => []FrontierHolds
<1>1. AllInv /\ Past => FrontierHolds
    <2> SUFFICES ASSUME AllInv, Past, before # <<>>,
                        ~HasRegression(Compare(ParseReport(before), ParseReport(report)))
                 PROVE  /\ Backing(suite, before, Len(before) + 1)
                               \subseteq Backing(suite, report, Len(report) + 1)
                        /\ \A i \in Of(report, "res") :
                              /\ Tried(before, report[i].id) =>
                                    \/ Tried(report, report[i].id)
                                    \/ report[i].id \in excluded \cup unresolved
                              /\ report[i].status = "crash" =>
                                    \A j \in Of(before, "res") :
                                        before[j].id = report[i].id =>
                                            before[j].status = "crash"
        BY DEF FrontierHolds
    <2>1. Kept(before) /\ Kept(report) /\ suite \in Suites
        BY AllIsKept DEF Past, AllInv, Types, TypeOK
    <2>2. NoWorse(before, report)
        BY <2>1, ComparedByResults
    <2>3. /\ Len(report) \in Nat /\ DOMAIN report = 1..Len(report)
          /\ Len(before) \in Nat /\ DOMAIN before = 1..Len(before)
        BY <2>1, SameExtends DEF Kept, Extends
    <2>4. Passed(before, Len(before) + 1) \subseteq Passed(report, Len(report) + 1)
        <3> SUFFICES ASSUME NEW j \in Of(before, "res"), before[j].status = "pass"
                     PROVE  before[j].id \in Passed(report, Len(report) + 1)
            BY DEF Passed
        <3>1. PICK k \in Of(report, "res") :
                  report[k].id = before[j].id /\ report[k].status = "pass"
            BY <2>2 DEF NoWorse
        <3>2. k < Len(report) + 1
            BY <2>3 DEF Of
        <3> QED
            BY <3>1, <3>2 DEF Passed
    <2>5. ASSUME NEW i \in Of(report, "res"), Tried(before, report[i].id),
                 ~Tried(report, report[i].id), report[i].id \notin excluded \cup unresolved
          PROVE  FALSE
        <3>1. ~(suite.requires[report[i].id] \subseteq Backing(suite, report, i))
            BY <2>5 DEF AllInv, Inv, AttemptsAreBacked, Backed
        <3>2. PICK n \in Of(before, "try") : before[n].id = report[i].id
            BY <2>5 DEF Tried
        <3>3. suite.requires[report[i].id] \subseteq Backing(suite, before, n)
            BY <2>1, <3>2 DEF Kept
        <3>4. ASSUME NEW j \in Of(before, "res"), j < n, before[j].status = "pass"
              PROVE  before[j].id \in Passed(report, i)
            <4>1. Earlier(suite, before[j].id, report[i].id)
                BY <2>1, <3>2, <3>4 DEF Kept, InOrder
            <4>2. PICK k \in Of(report, "res") :
                      report[k].id = before[j].id /\ report[k].status = "pass"
                BY <2>2, <3>4 DEF NoWorse
            <4>3. /\ report[k].id # report[i].id
                  /\ ~Earlier(suite, report[i].id, report[k].id)
                BY <2>1, <4>1, <4>2, EarlierIsStrict
            <4>4. k # i /\ ~(i < k)
                BY <2>1, <4>3 DEF Kept, InOrder
            <4>5. k \in Nat /\ i \in Nat
                BY <2>3 DEF Of
            <4>6. k < i
                BY <4>4, <4>5
            <4> QED
                BY <4>2, <4>6 DEF Passed
        <3>5. Passed(before, n) \subseteq Passed(report, i)
            BY <3>4 DEF Passed
        <3>6. Backing(suite, before, n) \subseteq Backing(suite, report, i)
            BY <3>5 DEF Backing
        <3> QED
            BY <3>1, <3>3, <3>6
    <2>6. Backing(suite, before, Len(before) + 1) \subseteq Backing(suite, report, Len(report) + 1)
        BY <2>4 DEF Backing
    <2> QED
        BY <2>2, <2>5, <2>6 DEF NoWorse
<1> QED
    BY <1>1, TwiceInitially, TwiceKept, PTL DEF SpecTwice

\* What is true of every run of the program is true of one that comes after another, with
\* other checks resolved, and with nothing left of the first but its report.
THEOREM EachRunIsTrue ==
    SpecTwice => [](/\ AttemptsAreBacked /\ FrontierIsReal /\ SectionsAddUp
                    /\ WholeReportVerifies /\ DeathIsNamed)
<1>1. AllInv => /\ AttemptsAreBacked /\ FrontierIsReal /\ SectionsAddUp
                /\ WholeReportVerifies /\ DeathIsNamed
    BY WholeVerifies, DeathNamed DEF AllInv, Inv, Counting, Tallied
<1> QED
    BY <1>1, TwiceInitially, TwiceKept, PTL DEF SpecTwice

\* And so is what the gate says of the table (caps.rs:26).
THEOREM GateTellsEachRun == ASSUME AsksOfChecks PROVE SpecTwice => []GateIsRight
<1>1. InitTwice => Gated
    BY GateInitially DEF InitTwice
<1>2. Init' => Gated'
    BY GateInitially, PTL
<1>3. AllInv /\ Gated /\ [NextTwice]_dvars => Gated'
    <2>1. AllInv /\ Gated /\ [Next]_vars => Gated'
        BY GateKept DEF AllInv
    <2>2. AllInv /\ Again => Init'
        BY Restarts DEF AllInv
    <2> QED
        BY <1>2, <2>1, <2>2 DEF NextTwice, dvars
<1>4. Gated => GateIsRight
    BY DEF Gated, GateIsRight, Tried
<1> QED
    BY <1>1, <1>3, <1>4, TwiceInitially, TwiceKept, PTL DEF SpecTwice

=============================================================================
