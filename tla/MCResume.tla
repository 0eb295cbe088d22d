------------------------------ MODULE MCResume ------------------------------
(* Instances of Resume for TLC. *)
EXTENDS Resume

OneBuild   == {[id |-> 1, target |-> "host", checks |-> NChecks]}
TwoBuilds  == {[id |-> 1, target |-> "host", checks |-> NChecks],
               [id |-> 2, target |-> "host", checks |-> NChecks]}

OneFile    == {[read |-> {1}, write |-> {1}]}
\* A stick that is absent, present, or write-protected, before the internal disk.
Stick      == {[read |-> {2}, write |-> {2}],
               [read |-> {1, 2}, write |-> {1, 2}],
               [read |-> {1, 2}, write |-> {2}]}

OnePrefix == {<<1, 2>>}

Any     == {"answers", "stops", "declined"}
Fickle  == {[c \in Check |-> Any]}
Fixed   == [Check -> {{"answers"}, {"stops"}, {"declined"}}]
\* As many checks stop as the tables have room for: two kills in one check are a skip too.
Fitting == {f \in Fixed : Cardinality({c \in Check : f[c] = {"stops"}}) + MaxKills \div 2
                             <= ResumeMax}
Quoting == {[c \in Check |-> IF c = 1 THEN {"quotes"} ELSE {"answers"}]}
=============================================================================
