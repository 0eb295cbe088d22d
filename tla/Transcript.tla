----------------------------- MODULE Transcript -----------------------------
(***************************************************************************)
(* What the driver makes of the records of a session: parse_session of     *)
(* tool/src/drive.rs, one left fold over the lines that arrived.           *)
(***************************************************************************)
EXTENDS Naturals, Sequences, SequencesExt

\* The records a probe sends, as far as the driver tells them apart.
Ack(n)         == [kind |-> "ack", seq |-> n]
Greeting(caps) == [kind |-> "hello", caps |-> caps]
Done(n)        == [kind |-> "done", seq |-> n]
Refused(n)     == [kind |-> "refused", seq |-> n]
Data(n)        == [kind |-> "data", of |-> n]   \* `of` is not on the wire

Terminal(r) == r.kind \in {"done", "refused"}

\* What the corpus says of one command.
Exchange == [seq: Nat, outcome: {"answered", "refused", "died", "timeout", "lost",
                                 "not-sent"}, records: SUBSET Nat]

Parsing == [pending |-> <<>>, exchanges |-> {}]

\* The command of a sequence number that is acknowledged and not yet answered; the
\* first one if there were several.
At(pending, n) == {i \in DOMAIN pending : pending[i].seq = n}
First(S) == CHOOSE i \in S : \A j \in S : i <= j

Answered(p, r) ==
    LET i == First(At(p.pending, r.seq))
        outcome == IF r.kind = "refused" THEN "refused" ELSE "answered"
    IN  [pending   |-> RemoveAt(p.pending, i),
         exchanges |-> p.exchanges \cup
             {[seq |-> r.seq, outcome |-> outcome, records |-> p.pending[i].records]}]

Parse(p, r) ==
    CASE r.kind = "ack" ->
            [p EXCEPT !.pending = Append(@, [seq |-> r.seq, records |-> {}])]
      [] r.kind = "hello" -> p
      [] Terminal(r) /\ At(p.pending, r.seq) # {} -> Answered(p, r)
      [] r.kind = "refused" /\ At(p.pending, r.seq) = {} ->
            [p EXCEPT !.exchanges =
                @ \cup {[seq |-> r.seq, outcome |-> "refused", records |-> {}]}]
      [] r.kind = "done" /\ At(p.pending, r.seq) = {} -> p
      [] r.kind = "data" ->
            IF p.pending = <<>> THEN p
            ELSE [p EXCEPT !.pending[Len(p.pending)].records = @ \cup {r.of}]

\* Mutant: silence is written down as an answer.
SilenceIsAnswer(pending, closed) ==
    {[seq |-> e.seq, outcome |-> "answered", records |-> e.records] : e \in ToSet(pending)}

\* Mutant: silence is death, whether or not the connection is still there.
SilenceIsDeath(pending, closed) ==
    {[seq |-> e.seq, outcome |-> "died", records |-> e.records] : e \in ToSet(pending)}

\* Mutant: what did not answer is left out.
SilenceIsNothing(pending, closed) == {}

\* What is still outstanding when the lines end did not answer.
Silence(pending, closed) ==
    {[seq |-> e.seq, outcome |-> IF closed THEN "died" ELSE "lost",
      records |-> e.records] : e \in ToSet(pending)}

\* The loop over the lines.
Parsed(lines) ==
    LET upTo[i \in 0..Len(lines)] ==
            IF i = 0 THEN Parsing ELSE Parse(upTo[i - 1], lines[i])
    IN  upTo[Len(lines)]

ParseSession(lines, closed) ==
    LET p == Parsed(lines)
    IN  p.exchanges \cup Silence(p.pending, closed)
=============================================================================
