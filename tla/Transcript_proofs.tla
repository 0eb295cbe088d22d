------------------------- MODULE Transcript_proofs -------------------------
(***************************************************************************)
(* What the driver's reading of a session makes of its lines, for every    *)
(* list of lines: one more line is one more step, and what the corpus says *)
(* of each command.                                                        *)
(***************************************************************************)
EXTENDS Transcript, SequenceTheorems, WellFoundedInduction, TLAPS

-----------------------------------------------------------------------------
(* Types. *)

\* A record parse_line takes apart.
Readable(r) ==
    \/ r.kind \in {"ack", "done", "refused"} /\ r.seq \in Nat
    \/ r.kind = "hello"
    \/ r.kind = "data" /\ r.of \in Nat

Entry    == [seq: Nat, records: SUBSET Nat]
Parsings == [pending: Seq(Entry), exchanges: SUBSET Exchange]

\* What is left of a sequence without one of its elements.
LEMMA Removed ==
    ASSUME NEW E, NEW q \in Seq(E), NEW i \in 1..Len(q)
    PROVE  /\ RemoveAt(q, i) \in Seq(E) /\ Len(RemoveAt(q, i)) = Len(q) - 1
           /\ \A j \in 1..(Len(q) - 1) :
                 RemoveAt(q, i)[j] = IF j < i THEN q[j] ELSE q[j + 1]
<1>. DEFINE a == SubSeq(q, 1, i - 1)
            b == SubSeq(q, i + 1, Len(q))
<1>1. Len(q) \in Nat /\ i \in Nat /\ i >= 1 /\ i <= Len(q)
  OBVIOUS
<1>2. /\ a \in Seq(E) /\ Len(a) = i - 1 /\ \A j \in 1..(i - 1) : a[j] = q[j]
      /\ b \in Seq(E) /\ Len(b) = Len(q) - i /\ \A j \in 1..(Len(q) - i) : b[j] = q[i + j]
  BY <1>1
<1>. HIDE DEF a, b
<1>3. /\ a \o b \in Seq(E) /\ Len(a \o b) = Len(q) - 1
      /\ \A j \in 1..(Len(q) - 1) : (a \o b)[j] = IF j <= i - 1 THEN a[j] ELSE b[j - (i - 1)]
  <2>1. /\ a \o b \in Seq(E) /\ Len(a \o b) = Len(a) + Len(b)
        /\ \A j \in 1..(Len(a) + Len(b)) :
              (a \o b)[j] = IF j <= Len(a) THEN a[j] ELSE b[j - Len(a)]
    BY <1>2, ConcatProperties
  <2>2. Len(a) + Len(b) = Len(q) - 1
    BY <1>1, <1>2
  <2>. QED
    BY <1>2, <2>1, <2>2
<1>4. ASSUME NEW j \in 1..(Len(q) - 1)
      PROVE  (a \o b)[j] = IF j < i THEN q[j] ELSE q[j + 1]
  <2>1. CASE j < i
    BY <1>1, <1>2, <1>3, <2>1
  <2>2. CASE ~(j < i)
    <3>1. j - (i - 1) \in 1..(Len(q) - i) /\ i + (j - (i - 1)) = j + 1 /\ ~(j <= i - 1)
      BY <1>1, <2>2
    <3>. QED
      BY <1>2, <1>3, <2>2, <3>1
  <2>. QED
    BY <2>1, <2>2
<1>. QED
  BY <1>3, <1>4 DEF RemoveAt, a, b

Lines == INSTANCE Induction WITH Step <- Parse, Base <- Parsing

\* The first of the places there are.
LEMMA FirstOf ==
    ASSUME NEW S, S \subseteq Nat, S # {}
    PROVE  First(S) \in S /\ \A j \in S : First(S) <= j
BY Lines!Least DEF First

\* Where an answer finds its command.
LEMMA Found ==
    ASSUME NEW q \in Seq(Entry), NEW n, At(q, n) # {}
    PROVE  First(At(q, n)) \in 1..Len(q) /\ q[First(At(q, n))].seq = n
<1>1. At(q, n) \subseteq Nat /\ \A i \in At(q, n) : i \in 1..Len(q) /\ q[i].seq = n
  BY DEF At
<1>. QED
  BY <1>1, FirstOf

LEMMA ParseTypes ==
    ASSUME NEW p \in Parsings, NEW r, Readable(r)
    PROVE  Parse(p, r) \in Parsings
<1>. DEFINE q == p.pending
<1>1. q \in Seq(Entry) /\ p.exchanges \subseteq Exchange
      /\ p = [pending |-> q, exchanges |-> p.exchanges]
  BY DEF Parsings
<1>2. CASE r.kind = "ack"
  <2>1. [seq |-> r.seq, records |-> {}] \in Entry
    BY <1>2 DEF Readable, Entry
  <2>2. Append(q, [seq |-> r.seq, records |-> {}]) \in Seq(Entry)
    BY <1>1, <2>1
  <2>. QED
    BY <1>1, <1>2, <2>2 DEF Parse, Terminal, Parsings
<1>3. CASE r.kind = "hello"
  BY <1>3 DEF Parse, Terminal
<1>4. CASE Terminal(r) /\ At(q, r.seq) # {}
  <2>. DEFINE i == First(At(q, r.seq))
              e == [seq |-> r.seq,
                    outcome |-> IF r.kind = "refused" THEN "refused" ELSE "answered",
                    records |-> q[i].records]
  <2>1. i \in 1..Len(q) /\ q[i] \in Entry
    BY <1>1, <1>4, Found
  <2>2. RemoveAt(q, i) \in Seq(Entry)
    BY <1>1, <2>1, Removed
  <2>3. r.seq \in Nat
    BY <1>4 DEF Terminal, Readable
  <2>4. e \in Exchange
    BY <2>1, <2>3 DEF Exchange, Entry
  <2>5. Parse(p, r) = [pending |-> RemoveAt(q, i), exchanges |-> p.exchanges \cup {e}]
    BY <1>4 DEF Parse, Answered, Terminal
  <2>. HIDE DEF e, i
  <2>. QED
    BY <1>1, <2>2, <2>4, <2>5 DEF Parsings
<1>5. CASE Terminal(r) /\ At(q, r.seq) = {}
  <2>1. [seq |-> r.seq, outcome |-> "refused", records |-> {}] \in Exchange
    BY <1>5 DEF Terminal, Readable, Exchange
  <2>2. \/ Parse(p, r) = [p EXCEPT !.exchanges =
                              @ \cup {[seq |-> r.seq, outcome |-> "refused", records |-> {}]}]
        \/ Parse(p, r) = p
    BY <1>5 DEF Parse, Terminal
  <2>. QED
    BY <1>1, <2>1, <2>2 DEF Parsings
<1>6. CASE r.kind = "data"
  <2>1. CASE q = <<>>
    BY <1>6, <2>1 DEF Parse, Terminal
  <2>2. CASE q # <<>>
    <3>1. Len(q) \in 1..Len(q) /\ q[Len(q)] \in Entry /\ r.of \in Nat
      BY <1>1, <1>6, <2>2 DEF Readable
    <3>. DEFINE e == [q[Len(q)] EXCEPT !.records = @ \cup {r.of}]
    <3>2. e \in Entry
      BY <3>1 DEF Entry
    <3>3. [q EXCEPT ![Len(q)] = e] \in Seq(Entry)
      <4>. HIDE DEF e
      <4>. QED
        BY <1>1, <3>1, <3>2
    <3>4. Parse(p, r) = [p EXCEPT !.pending = [q EXCEPT ![Len(q)] = e]]
      BY <1>6, <2>2 DEF Parse, Terminal
    <3>. HIDE DEF e
    <3>. QED
      BY <1>1, <3>3, <3>4 DEF Parsings
  <2>. QED
    BY <2>1, <2>2
<1>. QED
  BY <1>2, <1>3, <1>4, <1>5, <1>6 DEF Readable, Terminal

-----------------------------------------------------------------------------
(* The loop over the lines. *)

\* One more line is one more step.
THEOREM ParsedByStep ==
    ASSUME NEW L, \A r \in L : Readable(r)
    PROVE  /\ Parsed(<<>>) = Parsing
           /\ \A lines \in Seq(L) : Parsed(lines) \in Parsings
           /\ \A lines \in Seq(L), r \in L :
                 Parsed(Append(lines, r)) = Parse(Parsed(lines), r)
<1>1. \A lines : Parsed(lines) = Lines!Loop(lines)
  BY DEF Parsed, Lines!Loop
<1>2. Parsing \in Parsings
  BY DEF Parsing, Parsings
<1>3. \A lines \in Seq(L) : Lines!Loop(lines) \in Parsings
  BY <1>2, ParseTypes, Lines!LoopKeeps
<1>. QED
  BY <1>1, <1>3, Lines!LoopByStep

-----------------------------------------------------------------------------
(* What it says of each command. *)

\* The places where a command is acknowledged, and where it is answered.
Acks(r, n)    == {i \in DOMAIN r : r[i].kind = "ack" /\ r[i].seq = n}
Answers(r, n) == {i \in DOMAIN r : Terminal(r[i]) /\ r[i].seq = n}

Owed(r, n) == Acks(r, n) # {} /\ Answers(r, n) = {}

\* No command is acknowledged twice; and none is answered twice, or before it is
\* acknowledged.
Ordered(r) ==
    /\ \A i, j \in DOMAIN r :
          r[i].kind = "ack" /\ r[j].kind = "ack" /\ r[i].seq = r[j].seq => i = j
    /\ \A i \in DOMAIN r : r[i].kind = "ack" => r[i].seq # 0
    /\ \A j \in DOMAIN r :
          Terminal(r[j]) /\ r[j].seq # 0 =>
              /\ \E k \in Acks(r, r[j].seq) : k < j
              /\ \A i \in Answers(r, r[j].seq) : i = j

\* What is pending is what is owed an answer, once each; what is written down is what
\* was answered, once each.
Account(r, p) ==
    /\ \A i, j \in DOMAIN p.pending : p.pending[i].seq = p.pending[j].seq => i = j
    /\ \A i \in DOMAIN p.pending : Owed(r, p.pending[i].seq)
    /\ \A n \in Nat : Owed(r, n) => At(p.pending, n) # {}
    /\ \A n \in Nat \ {0} : Answers(r, n) # {} => \E e \in p.exchanges : e.seq = n
    /\ \A e, f \in p.exchanges : e.seq = f.seq /\ e.seq # 0 => e = f
    /\ \A e \in p.exchanges :
          /\ e.outcome \in {"answered", "refused"}
          /\ \E k \in Answers(r, e.seq) : e.outcome = "answered" => r[k].kind = "done"

\* t is s and one more line, r.
Extends(t, s, r) ==
    /\ Len(s) \in Nat /\ DOMAIN s = 1..Len(s) /\ DOMAIN t = 1..(Len(s) + 1)
    /\ t[Len(s) + 1] = r /\ \A i \in DOMAIN s : t[i] = s[i]
    /\ \A n : Acks(t, n) = IF r.kind = "ack" /\ r.seq = n
                            THEN Acks(s, n) \cup {Len(s) + 1} ELSE Acks(s, n)
    /\ \A n : Answers(t, n) = IF Terminal(r) /\ r.seq = n
                               THEN Answers(s, n) \cup {Len(s) + 1} ELSE Answers(s, n)

LEMMA Longer ==
    ASSUME NEW L, NEW s \in Seq(L), NEW r \in L
    PROVE  Extends(Append(s, r), s, r)
<1>. DEFINE t == Append(s, r)
<1>1. /\ Len(s) \in Nat /\ DOMAIN s = 1..Len(s) /\ DOMAIN t = 1..(Len(s) + 1)
      /\ t[Len(s) + 1] = r /\ \A i \in DOMAIN s : t[i] = s[i]
  BY AppendProperties
<1>. HIDE DEF t
<1>2. \A i : i \in DOMAIN t <=> i \in DOMAIN s \/ i = Len(s) + 1
  BY <1>1
<1>3. Len(s) + 1 \notin DOMAIN s
  BY <1>1
<1>4. \A n : Acks(t, n) = IF r.kind = "ack" /\ r.seq = n
                          THEN Acks(s, n) \cup {Len(s) + 1} ELSE Acks(s, n)
  BY <1>1, <1>2 DEF Acks
<1>5. \A n : Answers(t, n) = IF Terminal(r) /\ r.seq = n
                             THEN Answers(s, n) \cup {Len(s) + 1} ELSE Answers(s, n)
  BY <1>1, <1>2 DEF Answers
<1>. QED
  BY <1>1, <1>4, <1>5 DEF Extends, t

LEMMA OrderedBefore ==
    ASSUME NEW L, NEW s \in Seq(L), NEW r \in L, Ordered(Append(s, r))
    PROVE  Ordered(s)
<1>. DEFINE t == Append(s, r)
<1>1. /\ Len(s) \in Nat /\ DOMAIN s = 1..Len(s) /\ DOMAIN t = 1..(Len(s) + 1)
      /\ t[Len(s) + 1] = r /\ \A i \in DOMAIN s : t[i] = s[i]
  BY Longer DEF Extends
<1>2. \A i \in DOMAIN s : i \in DOMAIN t /\ i < Len(s) + 1
  BY <1>1
<1>3. \A n : Acks(t, n) \subseteq Acks(s, n) \cup {Len(s) + 1} /\ Answers(s, n) \subseteq Answers(t, n)
  <2>1. Extends(t, s, r)
    BY Longer
  <2>. HIDE DEF t
  <2>. QED
    BY <2>1 DEF Extends
<1>4. Ordered(t)
  OBVIOUS
<1>. HIDE DEF t
<1>5. ASSUME NEW j \in DOMAIN s, Terminal(s[j]), s[j].seq # 0
      PROVE  /\ \E k \in Acks(s, s[j].seq) : k < j
             /\ \A i \in Answers(s, s[j].seq) : i = j
  <2>1. t[j] = s[j] /\ j \in DOMAIN t /\ j \in Nat /\ j < Len(s) + 1
    BY <1>1, <1>2
  <2>2. PICK k \in Acks(t, s[j].seq) : k < j
    BY <1>4, <1>5, <2>1 DEF Ordered
  <2>3. k # Len(s) + 1
    BY <1>1, <2>1, <2>2
  <2>4. \A i \in Answers(t, s[j].seq) : i = j
    BY <1>4, <1>5, <2>1 DEF Ordered
  <2>. QED
    BY <1>3, <2>2, <2>3, <2>4
<1>. QED
  BY <1>1, <1>2, <1>4, <1>5 DEF Ordered

\* A command is acknowledged for the first time, and not yet answered.
LEMMA NewAck ==
    ASSUME NEW L, NEW s \in Seq(L), NEW r \in L, Ordered(Append(s, r)),
           r.kind = "ack"
    PROVE  Acks(s, r.seq) = {} /\ Answers(s, r.seq) = {} /\ r.seq # 0
<1>. DEFINE t == Append(s, r)
<1>1. /\ Len(s) \in Nat /\ DOMAIN s = 1..Len(s) /\ DOMAIN t = 1..(Len(s) + 1)
      /\ t[Len(s) + 1] = r /\ \A i \in DOMAIN s : t[i] = s[i]
  BY Longer DEF Extends
<1>2. \A i \in DOMAIN s : i \in DOMAIN t /\ i # Len(s) + 1
  BY <1>1
<1>3. Ordered(t) /\ Ordered(s)
  BY OrderedBefore
<1>. HIDE DEF t
<1>4. Len(s) + 1 \in DOMAIN t
  BY <1>1
<1>5. Acks(s, r.seq) = {}
  BY <1>1, <1>2, <1>3, <1>4 DEF Ordered, Acks
<1>6. r.seq # 0
  BY <1>1, <1>3, <1>4 DEF Ordered
<1>7. Answers(s, r.seq) = {}
  BY <1>3, <1>5, <1>6 DEF Ordered, Answers
<1>. QED
  BY <1>5, <1>6, <1>7

\* The command an answer is to is owed it.
LEMMA NewAnswer ==
    ASSUME NEW L, NEW s \in Seq(L), NEW r \in L, Ordered(Append(s, r)),
           Terminal(r), r.seq # 0
    PROVE  Owed(s, r.seq)
<1>. DEFINE t == Append(s, r)
            n == Len(s)
<1>1. /\ n \in Nat /\ DOMAIN s = 1..n /\ DOMAIN t = 1..(n + 1)
      /\ t[n + 1] = r /\ \A i \in DOMAIN s : t[i] = s[i]
  BY Longer DEF Extends
<1>2. Acks(t, r.seq) = Acks(s, r.seq) /\ Answers(t, r.seq) = Answers(s, r.seq) \cup {n + 1}
  <2>1. r.kind # "ack"
    BY DEF Terminal
  <2>2. Extends(t, s, r)
    BY Longer
  <2>. HIDE DEF t
  <2>. QED
    BY <2>1, <2>2 DEF Extends
<1>3. Ordered(t)
  OBVIOUS
<1>. HIDE DEF t, n
<1>4. Acks(t, r.seq) # {} /\ \A i \in Answers(t, r.seq) : i = n + 1
  <2>1. n + 1 \in DOMAIN t
    BY <1>1
  <2>. QED
    BY <1>1, <1>3, <2>1 DEF Ordered
<1>5. Answers(s, r.seq) = {}
  <2>1. \A i \in Answers(s, r.seq) : i \in 1..n
    BY <1>1 DEF Answers
  <2>2. \A i \in Answers(s, r.seq) : i = n + 1
    BY <1>2, <1>4
  <2>3. n + 1 \notin 1..n
    BY <1>1
  <2>. QED
    BY <2>1, <2>2, <2>3
<1>. QED
  BY <1>2, <1>4, <1>5 DEF Owed

\* One more acknowledgement: one more command that is owed an answer.
LEMMA AckAccounts ==
    ASSUME NEW L, \A x \in L : Readable(x), NEW s \in Seq(L), NEW r \in L,
           Ordered(Append(s, r)), NEW p \in Parsings, Account(s, p), r.kind = "ack"
    PROVE  Account(Append(s, r), Parse(p, r))
<1>. DEFINE t == Append(s, r)
            q == p.pending
            new == [seq |-> r.seq, records |-> {}]
<1>1. Acks(s, r.seq) = {} /\ Answers(s, r.seq) = {} /\ r.seq # 0
  BY NewAck
<1>2. \A m : /\ Acks(t, m) = IF r.seq = m THEN Acks(s, m) \cup {Len(s) + 1} ELSE Acks(s, m)
             /\ Answers(t, m) = Answers(s, m)
             /\ \A i \in Answers(s, m) : t[i] = s[i]
  <2>1. ~Terminal(r)
    BY DEF Terminal
  <2>2. Extends(t, s, r)
    BY Longer
  <2>. HIDE DEF t
  <2>. QED
    BY <2>1, <2>2 DEF Extends, Answers
<1>3. \A m : Owed(t, m) <=> Owed(s, m) \/ m = r.seq
  BY <1>1, <1>2 DEF Owed
<1>4. Parse(p, r) = [pending |-> Append(q, new), exchanges |-> p.exchanges]
  BY DEF Parse, Terminal, Parsings
<1>5. q \in Seq(Entry) /\ new \in Entry
  BY DEF Parsings, Readable, Entry, Terminal
<1>6. new.seq = r.seq
  OBVIOUS
<1>. HIDE DEF new
<1>7. /\ Len(q) \in Nat /\ DOMAIN q = 1..Len(q) /\ DOMAIN Append(q, new) = 1..(Len(q) + 1)
      /\ Append(q, new)[Len(q) + 1] = new /\ \A i \in 1..Len(q) : Append(q, new)[i] = q[i]
  BY <1>5, AppendProperties
<1>8. \A i \in DOMAIN Append(q, new) : i \in DOMAIN q \/ i = Len(q) + 1
  BY <1>7
<1>9. \A i \in DOMAIN q : i \in DOMAIN Append(q, new)
  BY <1>7
<1>. DEFINE q2 == Append(q, new)
<1>a. \A i \in DOMAIN q : Owed(s, q[i].seq) /\ q[i].seq # r.seq
  <2>1. \A i \in DOMAIN q : Owed(s, q[i].seq)
    BY DEF Account
  <2>2. ~Owed(s, r.seq)
    BY <1>1 DEF Owed
  <2>. QED
    BY <2>1, <2>2
<1>. HIDE DEF q2, t
<1>b. /\ \A i \in DOMAIN q : i \in DOMAIN q2 /\ q2[i] = q[i]
      /\ Len(q) + 1 \in DOMAIN q2 /\ q2[Len(q) + 1].seq = r.seq
      /\ \A i \in DOMAIN q2 : i \in DOMAIN q \/ i = Len(q) + 1
  BY <1>6, <1>7, <1>8, <1>9 DEF q2
<1>c. \A i, j \in DOMAIN q2 : q2[i].seq = q2[j].seq => i = j
  BY <1>a, <1>b DEF Account
<1>d. \A i \in DOMAIN q2 : Owed(t, q2[i].seq)
  BY <1>3, <1>a, <1>b
<1>e. \A n \in Nat : Owed(t, n) => At(q2, n) # {}
  <2>. SUFFICES ASSUME NEW n \in Nat, Owed(t, n)
                PROVE  \E i \in DOMAIN q2 : q2[i].seq = n
    BY DEF At
  <2>1. CASE n = r.seq
    BY <1>b, <2>1
  <2>2. CASE Owed(s, n)
    <3>1. PICK i \in DOMAIN q : q[i].seq = n
      BY <2>2 DEF Account, At
    <3>. QED
      BY <1>b, <3>1
  <2>. QED
    BY <1>3, <2>1, <2>2
<1>f. Parse(p, r).pending = q2 /\ Parse(p, r).exchanges = p.exchanges
  BY <1>4 DEF q2
<1>g. /\ \A n \in Nat \ {0} : Answers(t, n) # {} => \E e \in p.exchanges : e.seq = n
      /\ \A e, f \in p.exchanges : e.seq = f.seq /\ e.seq # 0 => e = f
      /\ \A e \in p.exchanges :
            /\ e.outcome \in {"answered", "refused"}
            /\ \E k \in Answers(t, e.seq) : e.outcome = "answered" => t[k].kind = "done"
  BY <1>2 DEF Account
<1>. QED
  BY <1>c, <1>d, <1>e, <1>f, <1>g DEF Account, t

\* A greeting and the records of a command's work leave it as it is.
LEMMA RestAccounts ==
    ASSUME NEW L, \A x \in L : Readable(x), NEW s \in Seq(L), NEW r \in L,
           Ordered(Append(s, r)), NEW p \in Parsings, Account(s, p), r.kind \in {"hello", "data"}
    PROVE  Account(Append(s, r), Parse(p, r))
<1>. DEFINE t == Append(s, r)
            q == p.pending
            q2 == Parse(p, r).pending
<1>1. \A m : /\ Acks(t, m) = Acks(s, m) /\ Answers(t, m) = Answers(s, m)
             /\ \A i \in Answers(s, m) : t[i] = s[i]
  <2>1. ~Terminal(r) /\ r.kind # "ack"
    BY DEF Terminal
  <2>2. Extends(t, s, r)
    BY Longer
  <2>. HIDE DEF t
  <2>. QED
    BY <2>1, <2>2 DEF Extends, Answers
<1>2. \A m : Owed(t, m) <=> Owed(s, m)
  BY <1>1 DEF Owed
<1>3. /\ Parse(p, r).exchanges = p.exchanges
      /\ DOMAIN q2 = DOMAIN q /\ \A i \in DOMAIN q : q2[i].seq = q[i].seq
  <2>0. p = [pending |-> q, exchanges |-> p.exchanges] /\ q \in Seq(Entry)
    BY DEF Parsings
  <2>1. CASE Parse(p, r) = p
    BY <2>1
  <2>2. CASE r.kind = "data" /\ q # <<>>
    <3>. DEFINE e == [q[Len(q)] EXCEPT !.records = @ \cup {r.of}]
    <3>1. Parse(p, r) = [p EXCEPT !.pending = [q EXCEPT ![Len(q)] = e]]
      BY <2>2 DEF Parse, Terminal
    <3>2. Len(q) \in DOMAIN q /\ q[Len(q)] \in Entry
      BY <2>0, <2>2
    <3>3. e.seq = q[Len(q)].seq
      BY <3>2 DEF Entry
    <3>. HIDE DEF e
    <3>. QED
      BY <2>0, <3>1, <3>3
  <2>. QED
    BY <2>1, <2>2 DEF Parse, Terminal
<1>. HIDE DEF t, q2
<1>4. \A n : At(q2, n) = At(q, n)
  BY <1>3 DEF At
<1>5. Parse(p, r).pending = q2
  BY DEF q2
<1>6. /\ \A i, j \in DOMAIN q2 : q2[i].seq = q2[j].seq => i = j
      /\ \A i \in DOMAIN q2 : Owed(t, q2[i].seq)
      /\ \A n \in Nat : Owed(t, n) => At(q2, n) # {}
  BY <1>2, <1>3, <1>4 DEF Account
<1>7. /\ \A n \in Nat \ {0} : Answers(t, n) # {} => \E e \in p.exchanges : e.seq = n
      /\ \A e, f \in p.exchanges : e.seq = f.seq /\ e.seq # 0 => e = f
      /\ \A e \in p.exchanges :
            /\ e.outcome \in {"answered", "refused"}
            /\ \E k \in Answers(t, e.seq) : e.outcome = "answered" => t[k].kind = "done"
  BY <1>1 DEF Account
<1>. QED
  BY <1>3, <1>5, <1>6, <1>7 DEF Account, t


\* An answer: what was owed it is written down, and is pending no more.
LEMMA AnswerAccounts ==
    ASSUME NEW L, \A x \in L : Readable(x), NEW s \in Seq(L), NEW r \in L,
           Ordered(Append(s, r)), NEW p \in Parsings, Account(s, p), Terminal(r), r.seq # 0
    PROVE  Account(Append(s, r), Parse(p, r))
<1>. DEFINE t == Append(s, r)
            q == p.pending
            i == First(At(q, r.seq))
            e == [seq |-> r.seq,
                  outcome |-> IF r.kind = "refused" THEN "refused" ELSE "answered",
                  records |-> q[i].records]
            q2 == RemoveAt(q, i)
            x2 == p.exchanges \cup {e}
<1>0. q \in Seq(Entry) /\ r.seq \in Nat /\ r.kind # "ack" /\ r.kind \in {"done", "refused"}
  BY DEF Parsings, Readable, Terminal
<1>1. Owed(s, r.seq)
  BY NewAnswer
<1>2. At(q, r.seq) # {}
  BY <1>0, <1>1 DEF Account
<1>3. i \in DOMAIN q /\ q[i].seq = r.seq /\ DOMAIN q = 1..Len(q) /\ Len(q) \in Nat
  BY <1>0, <1>2, Found
<1>4. /\ Parse(p, r).pending = q2 /\ Parse(p, r).exchanges = x2
      /\ e.seq = r.seq /\ e.outcome \in {"answered", "refused"}
      /\ e.outcome = "answered" => r.kind = "done"
  BY <1>0, <1>2 DEF Parse, Answered, Terminal
<1>5. /\ Len(q2) = Len(q) - 1 /\ DOMAIN q2 = 1..(Len(q) - 1)
      /\ \A j \in 1..(Len(q) - 1) : q2[j] = IF j < i THEN q[j] ELSE q[j + 1]
  <2>. HIDE DEF i, q
  <2>1. i \in 1..Len(q)
    BY <1>3
  <2>2. /\ q2 \in Seq(Entry) /\ Len(q2) = Len(q) - 1
        /\ \A j \in 1..(Len(q) - 1) : q2[j] = IF j < i THEN q[j] ELSE q[j + 1]
    BY <1>0, <2>1, Removed
  <2>3. DOMAIN q2 = 1..Len(q2)
    <3>. HIDE DEF q2
    <3>. QED
      BY <2>2
  <2>. HIDE DEF q2
  <2>. QED
    BY <2>2, <2>3
<1>6. Extends(t, s, r)
  BY Longer
<1>. HIDE DEF e, q2, i, t
\* Every other command keeps its place, or moves up one.
<1>7. \A j \in DOMAIN q2 : \E k \in DOMAIN q :
          k # i /\ q2[j] = q[k] /\ k = IF j < i THEN j ELSE j + 1
  BY <1>3, <1>5
<1>8. \A k \in DOMAIN q : k # i => \E j \in DOMAIN q2 : q2[j] = q[k]
  <2>. SUFFICES ASSUME NEW k \in DOMAIN q, k # i
                PROVE  \E j \in DOMAIN q2 : q2[j] = q[k]
    OBVIOUS
  <2>1. CASE k < i
    <3>1. k \in DOMAIN q2 /\ q2[k] = q[k]
      BY <1>3, <1>5, <2>1
    <3>. QED
      BY <3>1
  <2>2. CASE k > i
    <3>1. k - 1 \in DOMAIN q2 /\ ~(k - 1 < i) /\ (k - 1) + 1 = k
      BY <1>3, <1>5, <2>2
    <3>2. q2[k - 1] = q[k]
      BY <1>5, <3>1
    <3>. QED
      BY <3>1, <3>2
  <2>. QED
    BY <1>3, <2>1, <2>2
<1>9. \A k \in DOMAIN q : k # i => q[k].seq # r.seq
  BY <1>3 DEF Account
<1>a. /\ \A m : Acks(t, m) = Acks(s, m)
      /\ \A m : m # r.seq => Answers(t, m) = Answers(s, m)
      /\ Answers(t, r.seq) = {Len(s) + 1} /\ t[Len(s) + 1] = r
  BY <1>0, <1>1, <1>6 DEF Extends, Owed
<1>b. \A m : Owed(t, m) <=> Owed(s, m) /\ m # r.seq
  BY <1>a DEF Owed
<1>c. \A j, k \in DOMAIN q2 : q2[j].seq = q2[k].seq => j = k
  <2>. SUFFICES ASSUME NEW j \in DOMAIN q2, NEW k \in DOMAIN q2, q2[j].seq = q2[k].seq
                PROVE  j = k
    OBVIOUS
  <2>1. PICK a \in DOMAIN q : q2[j] = q[a] /\ a = IF j < i THEN j ELSE j + 1
    BY <1>7
  <2>2. PICK b \in DOMAIN q : q2[k] = q[b] /\ b = IF k < i THEN k ELSE k + 1
    BY <1>7
  <2>3. a = b
    BY <2>1, <2>2 DEF Account
  <2>4. j \in Nat /\ k \in Nat /\ i \in Nat
    BY <1>3, <1>5
  <2>. QED
    BY <2>1, <2>2, <2>3, <2>4
<1>d. \A j \in DOMAIN q2 : Owed(t, q2[j].seq)
  <2>. SUFFICES ASSUME NEW j \in DOMAIN q2
                PROVE  Owed(t, q2[j].seq)
    OBVIOUS
  <2>1. PICK k \in DOMAIN q : k # i /\ q2[j] = q[k]
    BY <1>7
  <2>2. Owed(s, q[k].seq) /\ q[k].seq # r.seq
    BY <1>9, <2>1 DEF Account
  <2>. QED
    BY <1>b, <2>1, <2>2
<1>e. \A n \in Nat : Owed(t, n) => At(q2, n) # {}
  <2>. SUFFICES ASSUME NEW n \in Nat, Owed(t, n)
                PROVE  \E j \in DOMAIN q2 : q2[j].seq = n
    BY DEF At
  <2>1. PICK k \in DOMAIN q : q[k].seq = n
    BY <1>b DEF Account, At
  <2>2. k # i
    BY <1>3, <1>b, <2>1
  <2>. QED
    BY <1>8, <2>1, <2>2
<1>f. \A n \in Nat \ {0} : Answers(t, n) # {} => \E f \in x2 : f.seq = n
  BY <1>4, <1>a DEF Account
<1>g. \A f, h \in x2 : f.seq = h.seq /\ f.seq # 0 => f = h
  <2>1. \A f \in p.exchanges : f.seq # r.seq
    BY <1>1 DEF Account, Owed
  <2>. QED
    BY <1>4, <2>1 DEF Account
<1>h. \A f \in x2 :
          /\ f.outcome \in {"answered", "refused"}
          /\ \E k \in Answers(t, f.seq) : f.outcome = "answered" => t[k].kind = "done"
  <2>. SUFFICES ASSUME NEW f \in x2
                PROVE  /\ f.outcome \in {"answered", "refused"}
                       /\ \E k \in Answers(t, f.seq) : f.outcome = "answered" => t[k].kind = "done"
    OBVIOUS
  <2>1. CASE f = e
    BY <1>4, <1>a, <2>1
  <2>2. CASE f \in p.exchanges
    <3>1. PICK k \in Answers(s, f.seq) : f.outcome = "answered" => s[k].kind = "done"
      BY <2>2 DEF Account
    <3>2. k \in Answers(t, f.seq) /\ t[k] = s[k]
      BY <1>6, <3>1 DEF Extends, Answers
    <3>. QED
      BY <2>2, <3>1, <3>2 DEF Account
  <2>. QED
    BY <2>1, <2>2
<1>. HIDE DEF x2
<1>. QED
  BY <1>4, <1>c, <1>d, <1>e, <1>f, <1>g, <1>h DEF Account, t

\* A refusal of a line the probe could not take is an answer to no command.
LEMMA StrayAccounts ==
    ASSUME NEW L, \A x \in L : Readable(x), NEW s \in Seq(L), NEW r \in L,
           Ordered(Append(s, r)), NEW p \in Parsings, Account(s, p), Terminal(r), r.seq = 0
    PROVE  Account(Append(s, r), Parse(p, r))
<1>. DEFINE t == Append(s, r)
            q == p.pending
            e == [seq |-> 0, outcome |-> "refused", records |-> {}]
            x2 == Parse(p, r).exchanges
<1>1. Extends(t, s, r)
  BY Longer
<1>2. \A m : Owed(s, m) => m # 0
  <2>1. Ordered(s)
    BY OrderedBefore
  <2>. QED
    BY <2>1 DEF Ordered, Owed, Acks
<1>3. At(q, 0) = {}
  BY <1>2 DEF At, Account
<1>4. /\ Parse(p, r).pending = q
      /\ x2 = p.exchanges \/ x2 = p.exchanges \cup {e}
  BY <1>3 DEF Parse, Terminal, Parsings
<1>. HIDE DEF t, x2
<1>5. /\ \A m : Acks(t, m) = Acks(s, m)
      /\ \A m : m # 0 => Answers(t, m) = Answers(s, m)
      /\ Len(s) + 1 \in Answers(t, 0)
      /\ \A m : Answers(s, m) \subseteq Answers(t, m)
      /\ \A m : \A k \in Answers(s, m) : t[k] = s[k]
  BY <1>1 DEF Extends, Terminal, Answers
<1>6. \A m : Owed(t, m) => Owed(s, m)
  BY <1>5 DEF Owed
<1>7. \A m : Owed(s, m) => Owed(t, m)
  BY <1>2, <1>5 DEF Owed
<1>8. e.seq = 0 /\ e.outcome = "refused"
  OBVIOUS
<1>. HIDE DEF e
<1>9. \A f \in x2 : f = e \/ f \in p.exchanges
  BY <1>4
<1>a. p.exchanges \subseteq x2
  BY <1>4
<1>b. \A n \in Nat \ {0} : Answers(t, n) # {} => \E f \in x2 : f.seq = n
  BY <1>5, <1>a DEF Account
<1>c. \A f, h \in x2 : f.seq = h.seq /\ f.seq # 0 => f = h
  BY <1>8, <1>9 DEF Account
<1>d. \A f \in x2 :
          /\ f.outcome \in {"answered", "refused"}
          /\ \E k \in Answers(t, f.seq) : f.outcome = "answered" => t[k].kind = "done"
  BY <1>5, <1>8, <1>9 DEF Account
<1>. HIDE DEF q
<1>e. /\ \A i, j \in DOMAIN q : q[i].seq = q[j].seq => i = j
      /\ \A i \in DOMAIN q : Owed(t, q[i].seq)
      /\ \A n \in Nat : Owed(t, n) => At(q, n) # {}
  BY <1>6, <1>7 DEF Account, q
<1>. QED
  BY <1>4, <1>b, <1>c, <1>d, <1>e DEF Account, t, x2

\* Of lines in order, what is pending is what is owed an answer, and what is written
\* down is what was answered, once each.
THEOREM Accounting ==
    ASSUME NEW L, \A x \in L : Readable(x), NEW lines \in Seq(L), Ordered(lines)
    PROVE  Account(lines, Parsed(lines))
<1>. DEFINE S == {s \in Seq(L) : Ordered(s) => Account(s, Parsed(s))}
<1>1. <<>> \in S
  <2>1. Account(<<>>, Parsing)
    BY DEF Account, Parsing, Owed, Acks, Answers
  <2>. QED
    BY <2>1, ParsedByStep
<1>2. ASSUME NEW s \in Seq(L), NEW r \in L, s \in S
      PROVE  Append(s, r) \in S
  <2>. SUFFICES ASSUME Ordered(Append(s, r))
                PROVE  Account(Append(s, r), Parsed(Append(s, r)))
    OBVIOUS
  <2>1. Account(s, Parsed(s))
    BY <1>2, OrderedBefore
  <2>2. Parsed(s) \in Parsings /\ Parsed(Append(s, r)) = Parse(Parsed(s), r)
    BY ParsedByStep
  <2>3. r.kind = "ack" \/ r.kind \in {"hello", "data"} \/ Terminal(r)
    BY DEF Readable, Terminal
  <2>. QED
    BY <2>1, <2>2, <2>3, AckAccounts, RestAccounts, AnswerAccounts, StrayAccounts
<1>3. Seq(L) \subseteq S
  <2>. HIDE DEF S
  <2>. QED
    BY <1>1, <1>2, Lines!SequencesByStep
<1>. QED
  BY <1>3

\* What is owed after one more line.
LEMMA OwedAfter ==
    ASSUME NEW L, NEW s \in Seq(L), NEW r \in L, NEW n, Owed(Append(s, r), n)
    PROVE  /\ Owed(s, n) \/ (r.kind = "ack" /\ r.seq = n)
           /\ ~(Terminal(r) /\ r.seq = n)
<1>1. Extends(Append(s, r), s, r)
  BY Longer
<1>. QED
  BY <1>1 DEF Extends, Owed

\* The lines that have arrived are in order when all of them are.
LEMMA OrderedPrefix ==
    ASSUME NEW L, NEW a \in Seq(L), NEW b \in Seq(L), Ordered(a \o b)
    PROVE  Ordered(a)
<1>. DEFINE c == a \o b
<1>1. /\ DOMAIN a = 1..Len(a) /\ DOMAIN c = 1..(Len(a) + Len(b))
      /\ Len(a) \in Nat /\ Len(b) \in Nat
      /\ \A i \in DOMAIN a : c[i] = a[i]
  BY ConcatProperties
<1>2. \A i \in DOMAIN a : i \in DOMAIN c
  BY <1>1
<1>3. \A j \in DOMAIN a : \A k \in DOMAIN c : k < j => k \in DOMAIN a
  BY <1>1
<1>4. Ordered(c)
  OBVIOUS
<1>. HIDE DEF c
<1>5. ASSUME NEW j \in DOMAIN a, Terminal(a[j]), a[j].seq # 0
      PROVE  /\ \E k \in Acks(a, a[j].seq) : k < j
             /\ \A i \in Answers(a, a[j].seq) : i = j
  <2>1. PICK k \in Acks(c, a[j].seq) : k < j
    BY <1>1, <1>2, <1>4, <1>5 DEF Ordered
  <2>2. k \in Acks(a, a[j].seq)
    BY <1>1, <1>3, <2>1 DEF Acks
  <2>3. \A i \in Answers(c, a[j].seq) : i = j
    BY <1>1, <1>2, <1>4, <1>5 DEF Ordered
  <2>4. Answers(a, a[j].seq) \subseteq Answers(c, a[j].seq)
    BY <1>1, <1>2 DEF Answers
  <2>. QED
    BY <2>1, <2>2, <2>3, <2>4
<1>. QED
  BY <1>1, <1>2, <1>4, <1>5 DEF Ordered

=============================================================================
