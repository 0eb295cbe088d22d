-------------------------- MODULE Protocol_proofs --------------------------
(***************************************************************************)
(* Theorems about Protocol, for every list of commands, every conduct of   *)
(* theirs, every setting and any number of drivers.                        *)
(***************************************************************************)
EXTENDS Protocol, Transcript_proofs, FiniteSetTheorems

-----------------------------------------------------------------------------
(* Types. *)

\* A driver that waits is at a command of its script.
Placed == driver = "waiting" => index <= Len(script)

Sane == Types /\ Placed

LEMMA Records ==
    ASSUME NEW n \in Nat
    PROVE  /\ Ack(n) \in Record /\ Done(n) \in Record /\ Refused(n) \in Record
           /\ Data(n) \in Record /\ Greeting(Announced) \in Record
BY DEF Ack, Done, Refused, Data, Greeting, Record

LEMMA SendTypes ==
    ASSUME Types, NEW r \in Record, NEW then, NEW else, Send(r, then, else)
    PROVE  /\ link' \in {"none", "queued", "open", "left", "reset", "ended"}
           /\ requests' = requests /\ replies' \in Seq(Record) /\ said' \in Seq(Record)
           /\ probe' \in {then, else, "dead"}
<1>1. Append(replies, r) \in Seq(Record) /\ Append(said, r) \in Seq(Record)
  BY DEF Types
<1>. QED
  BY <1>1 DEF Types, Send, Die, wire

LEMMA ProbeKeepsTypes ==
    ASSUME Sane, Probe, out # <<>> \/ probe \notin {"acking", "replying", "parting"}
    PROVE  Sane'
<1>. Types
  BY DEF Sane
<1>1. CASE Accept
  BY <1>1 DEF Accept, mind, past, Sane, Types, Placed
<1>2. CASE ReadLine
  <2>1. Head(requests) \in [seq: Nat, verb: Verbs] /\ Tail(requests) \in Seq([seq: Nat, verb: Verbs])
    <3>1. requests \in Seq([seq: Nat, verb: Verbs]) /\ requests # <<>>
      BY <1>2 DEF ReadLine, Types
    <3>. QED
      BY <3>1, HeadTailProperties
  <2>2. Head(requests).seq \in Nat
    BY <2>1
  <2>3. /\ <<Refused(0)>> \in Seq(Record) /\ <<Refused(Head(requests).seq)>> \in Seq(Record)
        /\ <<Ack(Head(requests).seq)>> \in Seq(Record)
    BY <2>2, Records
  <2>4. Nothing \in [seq: Nat, verb: Verbs]
    BY DEF Nothing, Verbs
  <2>. QED
    BY <1>2, <2>1, <2>2, <2>3, <2>4 DEF ReadLine, mind, past, Sane, Types, Placed
<1>3. CASE ReadEnd
  BY <1>3 DEF ReadEnd, wire, self, mind, past, Sane, Types, Placed
<1>4. CASE Dispatch
  <2>1. cmd.seq \in Nat
    BY DEF Types
  <2>2. out' \in Seq(Record)
    BY <1>4, <2>1, Records DEF Dispatch
  <2>3. greeted' \in BOOLEAN
    BY <1>4 DEF Dispatch
  <2>. QED
    BY <1>4, <2>2, <2>3 DEF Dispatch, wire, mind, past, Sane, Types, Placed
<1>5. CASE SendAck
  <2>1. Head(out) \in Record
    BY <1>5 DEF SendAck, Types
  <2>2. /\ link' \in {"none", "queued", "open", "left", "reset", "ended"}
        /\ requests' = requests /\ replies' \in Seq(Record) /\ said' \in Seq(Record)
        /\ probe' \in {"running", "closing", "dead"}
    BY <1>5, <2>1, SendTypes DEF SendAck
  <2>. QED
    BY <1>5, <2>2 DEF SendAck, self, mind, Sane, Types, Placed
<1>6. CASE Reply
  <2>1. Head(out) \in Record /\ Tail(out) \in Seq(Record)
    BY <1>6 DEF Reply, Types
  <2>2. /\ link' \in {"none", "queued", "open", "left", "reset", "ended"}
        /\ requests' = requests /\ replies' \in Seq(Record) /\ said' \in Seq(Record)
        /\ probe' \in {"replying", "parting", "closing", "reading", "dead"}
    BY <1>6, <2>1, SendTypes DEF Reply
  <2>. QED
    BY <1>6, <2>1, <2>2 DEF Reply, self, mind, Sane, Types, Placed
<1>7. CASE SuiteRecord
  <2>1. Data(cmd.seq) \in Record
    BY Records DEF Types
  <2>. QED
    BY <1>7, <2>1, SendTypes DEF SuiteRecord, self, mind, Sane, Types, Placed
<1>8. CASE Perform
  <2>1. <<Done(cmd.seq)>> \in Seq(Record) /\ cmd.seq \in Nat
    BY Records DEF Types
  <2>. QED
    BY <1>8, <2>1 DEF Perform, Die, wire, self, mind, Sane, Types, Placed
<1>9. CASE Close
  BY <1>9 DEF Close, self, mind, past, Sane, Types, Placed
<1>. QED
  BY <1>1, <1>2, <1>3, <1>4, <1>5, <1>6, <1>7, <1>8, <1>9 DEF Probe

LEMMA OthersKeepTypes ==
    ASSUME Sane, RivalComes \/ RivalLeaves \/ Restart \/ Start
    PROVE  Sane'
<1>1. CASE RivalComes
  BY <1>1 DEF RivalComes, wire, self, mind, past, Sane, Types, Placed
<1>2. CASE RivalLeaves
  BY <1>2 DEF RivalLeaves, self, mind, past, Sane, Types, Placed
<1>3. CASE Restart
  <2>1. fatal' \subseteq Nat /\ out' \in Seq(Record)
    BY <1>3 DEF Restart, Sane, Types
  <2>2. link' \in {"none", "queued", "open", "left", "reset", "ended"}
    BY <1>3 DEF Restart, Sane, Types
  <2>. QED
    BY <1>3, <2>1, <2>2 DEF Restart, self, mind, Sane, Types, Placed
<1>4. CASE Start
  <2>1. Len(script') \in Nat
    BY <1>4, ConstantsAssumption DEF Start, ConstantsAssumption
  <2>2. sessions' \in 0..MaxSessions
    BY <1>4, ConstantsAssumption DEF Start, Sane, Types, ConstantsAssumption
  <2>. QED
    BY <1>4, <2>1, <2>2 DEF Start, self, Sane, Types, Placed
<1>. QED
  BY <1>1, <1>2, <1>3, <1>4

LEMMA DriverKeepsTypes ==
    ASSUME Sane, Driver
    PROVE  Sane'
<1>. Types
  BY DEF Sane
<1>n. Len(script) \in Nat /\ index \in Nat /\ script \in Seq(Verbs)
  BY ConstantsAssumption DEF Types, ConstantsAssumption
<1>1. CASE Skip
  BY <1>1, <1>n DEF Skip, wire, self, past, Sane, Types, Placed
<1>2. CASE Ask
  <2>1. script[index] \in Verbs
    BY <1>2, <1>n DEF Ask, Types
  <2>2. Append(requests, [seq |-> index, verb |-> script[index]]) \in Seq([seq: Nat, verb: Verbs])
    BY <2>1, <1>n DEF Types
  <2>3. /\ requests' \in Seq([seq: Nat, verb: Verbs]) /\ sent' \subseteq Nat
        /\ link' \in {"none", "queued", "open", "left", "reset", "ended"}
        /\ replies' \in Seq(Record) /\ driver' \in {"waiting", "failed"}
        /\ timedOut' = timedOut
    <3>1. CASE /\ requests' = Append(requests, [seq |-> index, verb |-> script[index]])
               /\ sent' = sent \cup {index} /\ driver' = "waiting"
               /\ UNCHANGED <<link, replies, timedOut, corpus>>
      <4>1. requests' \in Seq([seq: Nat, verb: Verbs])
        BY <3>1, <2>2
      <4>. QED
        BY <3>1, <4>1, <1>n DEF Types
    <3>2. CASE Fail /\ UNCHANGED <<requests, sent>>
      BY <3>2 DEF Fail, Leave, Types
    <3>. QED
      BY <1>2, <3>1, <3>2 DEF Ask
  <2>4. Placed'
    BY <1>2 DEF Ask, Placed
  <2>. QED
    BY <1>2, <2>3, <2>4 DEF Ask, self, past, Sane, Types
<1>3. CASE Receive
  <2>1. Head(replies) \in Record /\ Tail(replies) \in Seq(Record)
        /\ Append(lines, Head(replies)) \in Seq(Record)
    BY <1>3 DEF Receive, Types
  <2>2. caps' \in {{}, Announced}
    BY <1>3, <2>1 DEF Receive, Types, Record
  <2>3. driver' \in {"ready", "waiting"} /\ index' \in 1..(Len(script) + 1) /\ Placed'
    BY <1>3, <1>n, SMTT(30) DEF Receive, Sane, Types, Placed
  <2>. QED
    BY <1>3, <2>1, <2>2, <2>3 DEF Receive, self, past, Sane, Types
<1>4. CASE Ended \/ Timeout \/ Complete
  <2>1. ASSUME NEW closed, NEW late \in {0, index}, Conclude(closed, late)
        PROVE  /\ driver' = "done" /\ timedOut' \in Nat /\ replies' \in Seq(Record)
               /\ link' \in {"none", "left"}
    BY <1>n, <2>1 DEF Conclude, Leave
  <2>2. ASSUME Fail
        PROVE  /\ driver' = "failed" /\ timedOut' = timedOut /\ replies' \in Seq(Record)
               /\ link' \in {"none", "left"}
    BY <2>2 DEF Fail, Leave
  <2>3. /\ driver' \in {"done", "failed"} /\ timedOut' \in Nat /\ replies' \in Seq(Record)
        /\ link' \in {"none", "left"}
    BY <1>4, <2>1, <2>2 DEF Ended, Timeout, Complete, Types
  <2>4. UNCHANGED <<requests, probe, self, out, script, index, caps, lines, unsent, sessions,
                    sent, past>>
    BY <1>4 DEF Ended, Timeout, Complete
  <2>. QED
    BY <2>3, <2>4 DEF self, past, Sane, Types, Placed
<1>. QED
  BY <1>1, <1>2, <1>3, <1>4 DEF Driver

-----------------------------------------------------------------------------
(* A session. *)

InSession == probe \in {"reading", "acking", "running", "suite", "replying", "parting",
                        "closing", "stuck"}

\* The connection a driver asks on is its own, and nothing is said on it before a
\* session begins.
Wired ==
    /\ driver \in {"ready", "waiting"} => link \in {"queued", "open", "ended"}
    /\ link = "open" => InSession
    /\ InSession => link \in {"open", "left", "reset"}
    /\ (link \in {"queued", "left"} /\ ~InSession) => said = <<>>

\* What is on its way to the probe comes in order, and after what it has read.
Queued ==
    /\ \A i \in DOMAIN requests :
          /\ requests[i].seq >= 1
          /\ InSession => requests[i].seq > lastSeq
          /\ driver = "ready"   => requests[i].seq < index
          /\ driver = "waiting" => requests[i].seq <= index
    /\ \A i, j \in DOMAIN requests : i < j => requests[i].seq < requests[j].seq
    /\ InSession => /\ driver = "ready"   => lastSeq < index
                    /\ driver = "waiting" => lastSeq <= index

\* The records that carry the number of a command.
Numbered(r) == r.kind \in {"ack", "done", "refused"}

SaidSoFar ==
    InSession => \A i \in DOMAIN said : Numbered(said[i]) => said[i].seq <= lastSeq

\* The command in hand is acknowledged, as far as anybody could be told, and not answered.
Pending ==
    /\ lastSeq >= 1
    /\ \A i \in DOMAIN said : Terminal(said[i]) => said[i].seq # lastSeq
    /\ link = "open" => \E k \in DOMAIN said : said[k] = Ack(lastSeq)

\* What the probe has still to say.
ToSay ==
    /\ probe = "acking" =>
          /\ out = <<Ack(lastSeq)>> /\ cmd.seq = lastSeq /\ lastSeq >= 1
          /\ \A i \in DOMAIN said : Numbered(said[i]) => said[i].seq < lastSeq
    /\ probe \in {"running", "suite"} => cmd.seq = lastSeq /\ Pending
    /\ probe \in {"replying", "parting"} =>
          \/ out = <<Refused(0)>>
          \/ /\ Pending
             /\ out \in {<<Greeting(Announced), Done(lastSeq)>>, <<Done(lastSeq)>>,
                         <<Refused(lastSeq)>>}

Session == Wired /\ Queued /\ SaidSoFar /\ ToSay /\ OneAnswerEach

\* The records, told apart by kind.
LEMMA Kinds ==
    ASSUME NEW n \in Nat
    PROVE  /\ Ack(n).kind = "ack" /\ Ack(n).seq = n
           /\ Done(n).kind = "done" /\ Done(n).seq = n
           /\ Refused(n).kind = "refused" /\ Refused(n).seq = n
           /\ Data(n).kind = "data" /\ Greeting(Announced).kind = "hello"
BY DEF Ack, Done, Refused, Data, Greeting

\* Numbers are numbers.
LEMMA Numbers ==
    ASSUME Types
    PROVE  /\ \A i \in DOMAIN requests : requests[i] \in [seq: Nat, verb: Verbs]
           /\ \A i \in DOMAIN requests : requests[i].seq \in Nat
           /\ \A i \in DOMAIN said : Numbered(said[i]) => said[i].seq \in Nat
<1>1. \A i \in DOMAIN said : said[i] \in Record
  BY DEF Types
<1>. DEFINE S == [seq: Nat, verb: Verbs]
<1>2. \A i \in DOMAIN requests : requests[i] \in S
  <2>1. requests \in Seq(S)
    BY DEF Types
  <2>. HIDE DEF S
  <2>. QED
    BY <2>1
<1>. QED
  BY <1>1, <1>2 DEF Numbered, Record

\* A record that answers a command not answered before, or acknowledges a new one.
LEMMA SayKeepsOne ==
    ASSUME said \in Seq(Record), OneAnswerEach, NEW r \in Record, said' = Append(said, r),
           (Terminal(r) /\ r.seq # 0) =>
               /\ \E k \in DOMAIN said : said[k] = Ack(r.seq)
               /\ \A i \in DOMAIN said : Terminal(said[i]) => said[i].seq # r.seq,
           r.kind = "ack" => \A i \in DOMAIN said : Terminal(said[i]) => said[i].seq # r.seq
    PROVE  OneAnswerEach'
<1>. DEFINE n == Len(said)
<1>1. /\ n \in Nat /\ DOMAIN said = 1..n /\ DOMAIN said' = 1..(n + 1)
      /\ \A i \in 1..n : said'[i] = said[i]
      /\ said'[n + 1] = r
  BY AppendProperties
<1>2. \A i \in 1..(n + 1) : i \in 1..n \/ i = n + 1
  BY <1>1
<1>. HIDE DEF n
<1>. SUFFICES ASSUME NEW i \in 1..(n + 1), NEW j \in 1..(n + 1),
                     said'[i].kind # "hello", Terminal(said'[j]), said'[j].seq # 0
              PROVE  /\ Terminal(said'[i]) /\ said'[i].seq = said'[j].seq => i = j
                     /\ said'[i] = Ack(said'[j].seq) => i < j
                     /\ \E k \in 1..(j - 1) : said'[k] = Ack(said'[j].seq)
  BY <1>1 DEF OneAnswerEach
<1>a. \A m : Ack(m).kind = "ack" /\ Ack(m).seq = m /\ ~Terminal(Ack(m))
  BY DEF Ack, Terminal
<1>3. CASE i \in 1..n /\ j \in 1..n
  <2>1. /\ Terminal(said[i]) /\ said[i].seq = said[j].seq => i = j
        /\ said[i] = Ack(said[j].seq) => i < j
        /\ \E k \in 1..(j - 1) : said[k] = Ack(said[j].seq)
    BY <1>1, <1>3 DEF OneAnswerEach
  <2>2. \A k \in 1..(j - 1) : k \in 1..n
    BY <1>1, <1>3
  <2>. QED
    BY <1>1, <1>3, <2>1, <2>2
<1>4. CASE i \in 1..n /\ j = n + 1
  <2>1. j - 1 = n /\ i < j
    BY <1>1, <1>4
  <2>. QED
    BY <1>1, <1>4, <2>1
<1>5. CASE i = n + 1 /\ j \in 1..n
  <2>1. PICK k \in 1..(j - 1) : said[k] = Ack(said[j].seq)
    <3>1. said[j].kind # "hello" /\ Terminal(said[j]) /\ said[j].seq # 0
      BY <1>1, <1>5 DEF Terminal
    <3>. QED
      BY <1>1, <1>5, <3>1 DEF OneAnswerEach
  <2>2. k \in 1..n
    BY <1>1, <1>5
  <2>3. said'[i] = r /\ said'[j] = said[j]
    BY <1>1, <1>5
  <2>4. ~(Terminal(r) /\ r.seq = said[j].seq)
    BY <1>1, <1>5, <2>3
  <2>5. r # Ack(said[j].seq)
    BY <1>1, <1>a, <1>5, <2>3
  <2>. QED
    BY <1>1, <2>1, <2>2, <2>3, <2>4, <2>5
<1>6. CASE i = n + 1 /\ j = n + 1
  <2>1. said'[i] = r /\ Terminal(r) /\ r.seq # 0 /\ j - 1 = n
    BY <1>1, <1>6
  <2>2. r # Ack(r.seq)
    BY <1>a, <2>1
  <2>. QED
    BY <1>1, <1>6, <2>1, <2>2
<1>. QED
  BY <1>2, <1>3, <1>4, <1>5, <1>6

\* A send is heard by the driver or by nobody, and in that case none of the session is.
LEMMA Sending ==
    ASSUME Types, Wired, InSession, NEW r, NEW then, NEW else, Send(r, then, else),
           UNCHANGED driver
    PROVE  /\ \/ link = "open" /\ link' = "open" /\ said' = Append(said, r) /\ probe' = then
              \/ /\ said' = said /\ probe' \in {then, else}
                 /\ link \in {"left", "reset"} /\ link' = "reset"
              \/ said' = said /\ probe' = "dead" /\ link' = "none"
           /\ requests' = requests
           /\ driver \in {"ready", "waiting"} => link = "open" /\ link' = "open"
BY DEF Wired, Send, Die, wire

\* Where the probe does not send, and says of its session what it said before.
LEMMA Silent ==
    ASSUME Types, Session, UNCHANGED <<said, requests, driver, index, lastSeq>>,
           InSession' => InSession, Wired', ToSay'
    PROVE  Session'
<1>1. Queued'
  BY DEF Session, Queued
<1>2. SaidSoFar' /\ OneAnswerEach'
  BY DEF Session, SaidSoFar, OneAnswerEach
<1>. QED
  BY <1>1, <1>2 DEF Session

LEMMA AcceptKeeps ==
    ASSUME Sane, Session, Accept
    PROVE  Session'
<1>1. /\ said = <<>> /\ said' = said /\ lastSeq' = 0 /\ probe' = "reading"
      /\ link' \in {"open", "left"} /\ (link = "queued" => link' = "open")
      /\ UNCHANGED <<driver, index, requests>>
  BY DEF Accept, Session, Wired, InSession, mind, past
<1>2. Wired'
  BY <1>1 DEF Accept, Session, Wired, InSession
<1>3. Queued'
  <2>1. index >= 1 /\ index \in Nat
    BY ConstantsAssumption DEF Sane, Types, ConstantsAssumption
  <2>2. \A i \in DOMAIN requests : requests[i].seq >= 1 => requests[i].seq > 0
    BY Numbers DEF Sane
  <2>. QED
    BY <1>1, <2>1, <2>2 DEF Session, Queued
<1>4. SaidSoFar' /\ ToSay' /\ OneAnswerEach'
  BY <1>1 DEF SaidSoFar, ToSay, OneAnswerEach
<1>. QED
  BY <1>2, <1>3, <1>4 DEF Session

LEMMA ReadKeeps ==
    ASSUME Sane, Session, ReadLine
    PROVE  Session'
<1>. DEFINE S == [seq: Nat, verb: Verbs]
            line == Head(requests)
<1>1. requests \in Seq(S) /\ requests # <<>> /\ lastSeq \in Nat
  BY DEF ReadLine, Sane, Types
<1>. HIDE DEF S
<1>2. /\ Len(requests) \in Nat /\ Len(requests) >= 1
      /\ line = requests[1] /\ line \in S
      /\ Tail(requests) \in Seq(S) /\ Len(Tail(requests)) = Len(requests) - 1
      /\ \A i \in 1..(Len(requests) - 1) : Tail(requests)[i] = requests[i + 1]
  <2>1. Len(requests) \in Nat /\ Len(requests) # 0
    BY <1>1, LenProperties, EmptySeq
  <2>. QED
    BY <1>1, <2>1, HeadTailProperties
<1>3. line.seq \in Nat /\ line.seq > lastSeq /\ line.seq >= 1
  <2>1. 1 \in DOMAIN requests /\ InSession
    BY <1>1, <1>2 DEF ReadLine, InSession
  <2>. QED
    BY <1>2, <2>1 DEF Session, Queued, S
<1>4. requests' = Tail(requests) /\ UNCHANGED <<driver, index, said, link>>
      /\ probe = "reading"
  BY DEF ReadLine, mind, past
<1>5. probe' \in {"parting", "acking"} /\ lastSeq' \in {lastSeq, line.seq}
  BY <1>1, <1>3 DEF ReadLine
<1>6. Wired'
  BY <1>4, <1>5 DEF Session, Wired, InSession
<1>7. Queued'
  <2>1. \A i \in DOMAIN requests' : i \in Nat /\ i + 1 \in DOMAIN requests /\ requests'[i] = requests[i + 1] /\ i + 1 > 1
    BY <1>1, <1>2, <1>4
  <2>2. 1 \in DOMAIN requests /\ InSession
    BY <1>1, <1>2, <1>4 DEF InSession
  <2>3. \A i \in DOMAIN requests' :
           /\ requests'[i].seq > line.seq
           /\ requests'[i].seq > lastSeq
    BY <1>2, <2>1, <2>2 DEF Session, Queued
  <2>4. \A i \in DOMAIN requests' :
           /\ requests'[i].seq >= 1
           /\ driver = "ready"   => requests'[i].seq < index
           /\ driver = "waiting" => requests'[i].seq <= index
    BY <2>1 DEF Session, Queued
  <2>5. \A i, j \in DOMAIN requests' : i < j => requests'[i].seq < requests'[j].seq
    <3>. SUFFICES ASSUME NEW i \in DOMAIN requests', NEW j \in DOMAIN requests', i < j
                  PROVE  requests[i + 1].seq < requests[j + 1].seq
      BY <2>1
    <3>1. i + 1 < j + 1
      BY <2>1
    <3>. QED
      BY <2>1, <3>1 DEF Session, Queued
  <2>6. /\ driver = "ready"   => lastSeq < index /\ line.seq < index
        /\ driver = "waiting" => lastSeq <= index /\ line.seq <= index
    BY <1>2, <2>2 DEF Session, Queued
  <2>. QED
    BY <1>4, <1>5, <2>3, <2>4, <2>5, <2>6 DEF Queued
<1>8. \A i \in DOMAIN said : Numbered(said[i]) => said[i].seq \in Nat /\ said[i].seq <= lastSeq
  BY <1>4, Numbers DEF Sane, Session, SaidSoFar, InSession
<1>9. SaidSoFar'
  BY <1>1, <1>3, <1>4, <1>5, <1>8 DEF SaidSoFar
<1>10. ToSay'
  <2>1. CASE line.verb = "long"
    <3>1. out' = <<Refused(0)>> /\ probe' = "parting"
      BY <2>1 DEF ReadLine
    <3>. QED
      BY <3>1 DEF ToSay
  <2>2. CASE line.verb # "long"
    <3>1. out' = <<Ack(line.seq)>> /\ probe' = "acking" /\ cmd' = line /\ lastSeq' = line.seq
      BY <1>1, <1>3, <2>2 DEF ReadLine
    <3>2. \A i \in DOMAIN said : Numbered(said[i]) => said[i].seq < line.seq
      BY <1>1, <1>3, <1>8
    <3>. QED
      BY <1>3, <1>4, <3>1, <3>2 DEF ToSay
  <2>. QED
    BY <2>1, <2>2
<1>11. OneAnswerEach'
  BY <1>4 DEF Session, OneAnswerEach
<1>. QED
  BY <1>6, <1>7, <1>9, <1>10, <1>11 DEF Session

LEMMA DispatchKeeps ==
    ASSUME Sane, Session, Dispatch
    PROVE  Session'
<1>1. /\ probe = "running" /\ cmd.seq = lastSeq /\ Pending
      /\ probe' \in {"parting", "replying"}
      /\ UNCHANGED <<said, link, lastSeq, requests, driver, index>>
  BY DEF Dispatch, Session, ToSay, wire, mind, past
<1>2. out' \in {<<Greeting(Announced), Done(lastSeq)>>, <<Done(lastSeq)>>, <<Refused(lastSeq)>>}
  BY <1>1 DEF Dispatch
<1>3. Pending'
  BY <1>1 DEF Pending
<1>4. ToSay'
  BY <1>1, <1>2, <1>3 DEF ToSay
<1>5. Wired' /\ (InSession' => InSession)
  BY <1>1 DEF Session, Wired, InSession
<1>. QED
  BY <1>1, <1>4, <1>5, Silent DEF Sane

\* What was said of the command in hand once its acknowledgement is out.
LEMMA AckKeeps ==
    ASSUME Sane, Session, SendAck
    PROVE  Session'
<1>1. /\ probe = "acking" /\ out = <<Ack(lastSeq)>> /\ cmd.seq = lastSeq /\ lastSeq >= 1
      /\ \A i \in DOMAIN said : Numbered(said[i]) => said[i].seq < lastSeq
      /\ lastSeq \in Nat /\ Types /\ Wired /\ InSession /\ said \in Seq(Record)
  BY DEF SendAck, Session, ToSay, Sane, Types, InSession
<1>2. UNCHANGED <<lastSeq, cmd, driver, index>>
  BY DEF SendAck, self, mind
<1>3. Send(Ack(lastSeq), "running", "closing")
  BY <1>1 DEF SendAck
<1>4. /\ \/ link = "open" /\ link' = "open" /\ said' = Append(said, Ack(lastSeq)) /\ probe' = "running"
         \/ /\ said' = said /\ probe' \in {"running", "closing"}
            /\ link \in {"left", "reset"} /\ link' = "reset"
         \/ said' = said /\ probe' = "dead" /\ link' = "none"
      /\ requests' = requests
      /\ driver \in {"ready", "waiting"} => link = "open" /\ link' = "open"
  BY <1>1, <1>2, <1>3, Sending
<1>5. Wired'
  BY <1>2, <1>4 DEF Wired, InSession
<1>6. Queued'
  BY <1>1, <1>2, <1>4 DEF Session, Queued, InSession
<1>7. /\ Ack(lastSeq) \in Record /\ Ack(lastSeq).kind = "ack" /\ Ack(lastSeq).seq = lastSeq
  BY <1>1, Records, Kinds
<1>8. \A i \in DOMAIN said : Terminal(said[i]) => said[i].seq # lastSeq
  BY <1>1 DEF Terminal, Numbered
<1>9. CASE said' = Append(said, Ack(lastSeq)) /\ probe' = "running"
  <2>1. /\ DOMAIN said' = 1..(Len(said) + 1) /\ DOMAIN said = 1..Len(said) /\ Len(said) \in Nat
        /\ \A i \in 1..Len(said) : said'[i] = said[i]
        /\ said'[Len(said) + 1] = Ack(lastSeq)
    BY <1>1, <1>7, <1>9, AppendProperties
  <2>2. \A i \in DOMAIN said' : i \in DOMAIN said \/ i = Len(said) + 1
    BY <2>1
  <2>3. OneAnswerEach'
    BY <1>1, <1>7, <1>8, <1>9, SayKeepsOne DEF Session, Terminal
  <2>4. SaidSoFar'
    <3>1. \A i \in DOMAIN said : Numbered(said[i]) => said[i].seq <= lastSeq
      BY <1>1, Numbers
    <3>. QED
      BY <1>1, <1>2, <1>7, <2>1, <2>2, <3>1 DEF SaidSoFar
  <2>5. Pending'
    <3>1. Len(said) + 1 \in DOMAIN said'
      BY <2>1
    <3>. QED
      BY <1>1, <1>2, <1>7, <1>8, <2>1, <2>2, <3>1 DEF Pending, Terminal
  <2>. QED
    BY <1>1, <1>2, <1>5, <1>6, <1>9, <2>3, <2>4, <2>5 DEF Session, ToSay
<1>10. CASE said' = said /\ link' # "open" /\ probe' \in {"running", "closing", "dead"}
  <2>1. OneAnswerEach' /\ SaidSoFar'
    BY <1>1, <1>2, <1>10 DEF Session, OneAnswerEach, SaidSoFar
  <2>2. Pending'
    BY <1>1, <1>2, <1>8, <1>10 DEF Pending
  <2>. QED
    BY <1>1, <1>2, <1>5, <1>6, <1>10, <2>1, <2>2 DEF Session, ToSay
<1>. QED
  BY <1>4, <1>9, <1>10

\* A record said for the command in hand, which stays to be answered unless this was it.
LEMMA SayKeeps ==
    ASSUME Types, Session, InSession, Pending, NEW r \in Record, said' = Append(said, r),
           link = "open", UNCHANGED lastSeq,
           r.kind # "ack", Terminal(r) => r.seq \in {0, lastSeq}
    PROVE  SaidSoFar' /\ OneAnswerEach' /\ (~Terminal(r) => Pending')
<1>1. said \in Seq(Record) /\ lastSeq \in Nat /\ lastSeq >= 1
  BY DEF Types, Pending
<1>2. /\ DOMAIN said' = 1..(Len(said) + 1) /\ DOMAIN said = 1..Len(said) /\ Len(said) \in Nat
      /\ \A i \in 1..Len(said) : said'[i] = said[i]
      /\ said'[Len(said) + 1] = r
  BY <1>1, AppendProperties
<1>3. \A i \in DOMAIN said' : i \in DOMAIN said \/ i = Len(said) + 1
  BY <1>2
<1>4. OneAnswerEach'
  BY <1>1, SayKeepsOne DEF Session, Pending
<1>5. SaidSoFar'
  <2>1. Numbered(r) => r.seq <= lastSeq
    BY <1>1 DEF Numbered, Terminal
  <2>2. \A i \in DOMAIN said : Numbered(said[i]) => said[i].seq <= lastSeq
    BY DEF Session, SaidSoFar
  <2>. QED
    BY <1>2, <1>3, <2>1, <2>2 DEF SaidSoFar
<1>6. ASSUME ~Terminal(r)
      PROVE  Pending'
  <2>1. \A i \in DOMAIN said' : Terminal(said'[i]) => said'[i].seq # lastSeq
    BY <1>2, <1>3, <1>6 DEF Pending
  <2>2. PICK k \in DOMAIN said : said[k] = Ack(lastSeq)
    BY DEF Pending
  <2>3. k \in DOMAIN said' /\ said'[k] = Ack(lastSeq)
    BY <1>2, <2>2
  <2>. QED
    BY <1>1, <2>1, <2>3 DEF Pending
<1>. QED
  BY <1>4, <1>5, <1>6

\* The refusal of a line that is too long is no answer to any command.
LEMMA RefuseLongKeeps ==
    ASSUME Types, Session, InSession, said' = Append(said, Refused(0)), UNCHANGED lastSeq
    PROVE  SaidSoFar' /\ OneAnswerEach'
<1>1. said \in Seq(Record) /\ lastSeq \in Nat
  BY DEF Types
<1>2. /\ Refused(0) \in Record /\ Refused(0).seq = 0 /\ Refused(0).kind = "refused"
  BY Records, Kinds
<1>3. /\ DOMAIN said' = 1..(Len(said) + 1) /\ DOMAIN said = 1..Len(said) /\ Len(said) \in Nat
      /\ \A i \in 1..Len(said) : said'[i] = said[i]
      /\ said'[Len(said) + 1] = Refused(0)
  BY <1>1, <1>2, AppendProperties
<1>4. \A i \in DOMAIN said' : i \in DOMAIN said \/ i = Len(said) + 1
  BY <1>3
<1>5. OneAnswerEach'
  BY <1>1, <1>2, SayKeepsOne DEF Session
<1>6. \A i \in DOMAIN said : Numbered(said[i]) => said[i].seq <= lastSeq
  BY DEF Session, SaidSoFar
<1>. QED
  BY <1>1, <1>2, <1>3, <1>4, <1>5, <1>6 DEF SaidSoFar

LEMMA ReplyKeeps ==
    ASSUME Sane, Session, Reply
    PROVE  Session'
<1>1. /\ probe \in {"replying", "parting"} /\ lastSeq \in Nat /\ Types /\ Wired /\ InSession
      /\ out' = Tail(out) /\ UNCHANGED <<lastSeq, cmd, driver, index>>
  BY DEF Reply, Session, Sane, Types, InSession, self, mind
<1>. DEFINE r == Head(out)
            then == IF Tail(out) # <<>> THEN probe
                    ELSE IF probe = "parting" THEN "closing" ELSE "reading"
<1>2. Send(r, then, "closing")
  BY DEF Reply
<1>3. then \in {"replying", "parting", "closing", "reading"}
  BY <1>1
<1>4. \/ out = <<Refused(0)>>
      \/ /\ Pending
         /\ out \in {<<Greeting(Announced), Done(lastSeq)>>, <<Done(lastSeq)>>,
                     <<Refused(lastSeq)>>}
  BY <1>1 DEF Session, ToSay
<1>5. \/ r = Refused(0) /\ Tail(out) = <<>>
      \/ Pending /\ r \in {Done(lastSeq), Refused(lastSeq)} /\ Tail(out) = <<>>
      \/ Pending /\ r = Greeting(Announced) /\ Tail(out) = <<Done(lastSeq)>>
  <2>1. ASSUME NEW x
        PROVE  Head(<<x>>) = x /\ Tail(<<x>>) = <<>>
    OBVIOUS
  <2>2. ASSUME NEW x, NEW y
        PROVE  Head(<<x, y>>) = x /\ Tail(<<x, y>>) = <<y>>
    OBVIOUS
  <2>3. CASE out = <<Refused(0)>>
    BY <2>1, <2>3
  <2>4. CASE Pending /\ out \in {<<Done(lastSeq)>>, <<Refused(lastSeq)>>}
    BY <2>1, <2>4
  <2>5. CASE Pending /\ out = <<Greeting(Announced), Done(lastSeq)>>
    BY <2>2, <2>5
  <2>. QED
    BY <1>4, <2>3, <2>4, <2>5
<1>6. Tail(out) = <<>> => then \in {"closing", "reading"}
  BY <1>1
<1>. HIDE DEF r, then
<1>7. /\ \/ link = "open" /\ link' = "open" /\ said' = Append(said, r) /\ probe' = then
         \/ /\ said' = said /\ probe' \in {then, "closing"}
            /\ link \in {"left", "reset"} /\ link' = "reset"
         \/ said' = said /\ probe' = "dead" /\ link' = "none"
      /\ requests' = requests
      /\ driver \in {"ready", "waiting"} => link = "open" /\ link' = "open"
  BY <1>1, <1>2, Sending
<1>8. Wired'
  BY <1>1, <1>3, <1>7 DEF Wired, InSession
<1>9. Queued'
  BY <1>1, <1>7 DEF Session, Queued, InSession
<1>10. CASE said' = said /\ link' # "open" /\ probe' \in {then, "closing", "dead"}
  <2>1. OneAnswerEach' /\ SaidSoFar'
    BY <1>1, <1>10 DEF Session, OneAnswerEach, SaidSoFar
  <2>2. Pending => Pending'
    BY <1>1, <1>10 DEF Pending
  <2>3. ToSay'
    BY <1>1, <1>3, <1>5, <1>6, <1>10, <2>2 DEF ToSay
  <2>. QED
    BY <1>8, <1>9, <2>1, <2>3 DEF Session
<1>11. CASE link = "open" /\ said' = Append(said, r) /\ probe' = then
  <2>1. CASE r = Refused(0) /\ Tail(out) = <<>>
    <3>1. SaidSoFar' /\ OneAnswerEach'
      BY <1>1, <1>11, <2>1, RefuseLongKeeps
    <3>2. ToSay'
      BY <1>6, <1>11, <2>1 DEF ToSay
    <3>. QED
      BY <1>8, <1>9, <3>1, <3>2 DEF Session
  <2>2. CASE Pending /\ r \in {Done(lastSeq), Refused(lastSeq)} /\ Tail(out) = <<>>
    <3>1. r \in Record /\ r.kind # "ack" /\ r.seq = lastSeq
      BY <1>1, <2>2, Records, Kinds
    <3>2. SaidSoFar' /\ OneAnswerEach'
      BY <1>1, <1>11, <2>2, <3>1, SayKeeps
    <3>3. ToSay'
      BY <1>6, <1>11, <2>2 DEF ToSay
    <3>. QED
      BY <1>8, <1>9, <3>2, <3>3 DEF Session
  <2>3. CASE Pending /\ r = Greeting(Announced) /\ Tail(out) = <<Done(lastSeq)>>
    <3>1. r \in Record /\ r.kind = "hello" /\ ~Terminal(r)
      BY <1>1, <2>3, Records, Kinds DEF Terminal
    <3>2. SaidSoFar' /\ OneAnswerEach' /\ Pending'
      BY <1>1, <1>11, <2>3, <3>1, SayKeeps
    <3>3. ToSay'
      BY <1>1, <1>3, <1>11, <2>3, <3>2 DEF ToSay
    <3>. QED
      BY <1>8, <1>9, <3>2, <3>3 DEF Session
  <2>. QED
    BY <1>5, <2>1, <2>2, <2>3
<1>. QED
  BY <1>7, <1>10, <1>11

LEMMA SuiteKeeps ==
    ASSUME Sane, Session, SuiteRecord
    PROVE  Session'
<1>1. /\ probe = "running" /\ lastSeq \in Nat /\ Types /\ Wired /\ InSession
      /\ cmd.seq = lastSeq /\ Pending
      /\ UNCHANGED <<lastSeq, cmd, driver, index>>
  BY DEF SuiteRecord, Session, ToSay, Sane, Types, InSession, self, mind
<1>2. Send(Data(lastSeq), "suite", "suite")
  BY <1>1 DEF SuiteRecord
<1>3. /\ \/ link = "open" /\ link' = "open" /\ said' = Append(said, Data(lastSeq)) /\ probe' = "suite"
         \/ /\ said' = said /\ probe' \in {"suite"}
            /\ link \in {"left", "reset"} /\ link' = "reset"
         \/ said' = said /\ probe' = "dead" /\ link' = "none"
      /\ requests' = requests
      /\ driver \in {"ready", "waiting"} => link = "open" /\ link' = "open"
  BY <1>1, <1>2, Sending
<1>4. Wired' /\ Queued'
  BY <1>1, <1>3 DEF Session, Wired, Queued, InSession
<1>5. CASE link = "open" /\ said' = Append(said, Data(lastSeq)) /\ probe' = "suite"
  <2>1. Data(lastSeq) \in Record /\ Data(lastSeq).kind # "ack" /\ ~Terminal(Data(lastSeq))
    BY <1>1, Records, Kinds DEF Terminal
  <2>2. SaidSoFar' /\ OneAnswerEach' /\ Pending'
    BY <1>1, <1>5, <2>1, SayKeeps
  <2>. QED
    BY <1>1, <1>4, <1>5, <2>2 DEF Session, ToSay
<1>6. CASE said' = said /\ link' # "open" /\ probe' \in {"suite", "dead"}
  <2>1. OneAnswerEach' /\ SaidSoFar' /\ Pending'
    BY <1>1, <1>6 DEF Session, OneAnswerEach, SaidSoFar, Pending
  <2>. QED
    BY <1>1, <1>4, <1>6, <2>1 DEF Session, ToSay
<1>. QED
  BY <1>3, <1>5, <1>6

\* The work comes back to the command that is still to be answered, or not at all.
LEMMA PerformKeeps ==
    ASSUME Sane, Session, Perform
    PROVE  Session'
<1>1. /\ probe \in {"running", "suite"} /\ InSession /\ cmd.seq = lastSeq /\ Pending
      /\ UNCHANGED <<said, requests, lastSeq, driver, index>>
  BY DEF Perform, Session, ToSay, InSession, Die, wire, self, mind
<1>2. CASE out' = <<Done(cmd.seq)>> /\ probe' = "replying" /\ UNCHANGED wire
  <2>1. Pending'
    BY <1>1, <1>2 DEF Pending, wire
  <2>2. ToSay' /\ Wired'
    BY <1>1, <1>2, <2>1 DEF ToSay, Session, Wired, InSession, wire
  <2>. QED
    BY <1>1, <2>2, Silent DEF Sane
<1>3. CASE Die
  <2>1. Wired' /\ ToSay' /\ (InSession' => InSession)
    BY <1>1, <1>3 DEF Die, ToSay, Session, Wired, InSession
  <2>. QED
    BY <1>1, <2>1, Silent DEF Sane
<1>4. CASE probe' = "stuck" /\ UNCHANGED wire
  <2>1. Wired' /\ ToSay'
    BY <1>1, <1>4 DEF ToSay, Session, Wired, InSession, wire
  <2>. QED
    BY <1>1, <2>1, Silent DEF Sane
<1>. QED
  BY <1>2, <1>3, <1>4 DEF Perform

\* The end of a connection, and who else uses the probe.
LEMMA QuietKeeps ==
    ASSUME Sane, Session, ReadEnd \/ Close \/ RivalComes \/ RivalLeaves \/ Restart
    PROVE  Session'
<1>1. UNCHANGED <<said, requests, lastSeq, driver, index>>
  BY DEF ReadEnd, Close, RivalComes, RivalLeaves, Restart, wire, self, mind, past
<1>2. /\ probe' \notin {"acking", "running", "suite", "replying", "parting"}
      /\ InSession' => InSession
  BY DEF ReadEnd, Close, RivalComes, RivalLeaves, Restart, InSession
<1>3. ToSay'
  BY <1>2 DEF ToSay
<1>4. Wired'
  <2>1. CASE ReadEnd \/ Close
    BY <1>1, <2>1 DEF ReadEnd, Close, Session, Wired, InSession, wire
  <2>2. CASE RivalComes \/ RivalLeaves
    BY <1>1, <2>2 DEF RivalComes, RivalLeaves, Session, Wired, InSession, wire
  <2>3. CASE Restart
    BY <1>1, <2>3 DEF Restart, Session, Wired, InSession
  <2>. QED
    BY <2>1, <2>2, <2>3
<1>. QED
  BY <1>1, <1>2, <1>3, <1>4, Silent DEF Sane

LEMMA StartKeeps ==
    ASSUME Sane, Session, Start
    PROVE  Session'
<1>1. /\ said' = <<>> /\ requests' = <<>> /\ probe' = probe /\ ~InSession
      /\ probe \in {"listening", "elsewhere", "dead", "over"}
      /\ (driver' = "ready" /\ link' = "queued") \/ (driver' = "failed" /\ link' = "none")
  BY DEF Start, InSession
<1>. QED
  BY <1>1 DEF Session, Wired, Queued, SaidSoFar, ToSay, OneAnswerEach, InSession

\* A driver asks in the order of its script, one number to each command.
LEMMA AskKeeps ==
    ASSUME Sane, Session, Driver
    PROVE  Session'
<1>1. UNCHANGED <<probe, out, lastSeq, cmd, said>> /\ driver \in {"ready", "waiting"}
  BY DEF Driver, Skip, Ask, Receive, Ended, Timeout, Complete, self, past
<1>2. /\ link \in {"queued", "open", "ended"}
      /\ link' = link \/ (driver' \notin {"ready", "waiting"}
                          /\ link' = IF link = "ended" THEN "none" ELSE "left")
  <2>1. ASSUME NEW closed, NEW late, Conclude(closed, late)
        PROVE  driver' = "done" /\ link' = IF link = "ended" THEN "none" ELSE "left"
    BY <2>1 DEF Conclude, Leave
  <2>2. ASSUME Fail
        PROVE  driver' = "failed" /\ link' = IF link = "ended" THEN "none" ELSE "left"
    BY <2>2 DEF Fail, Leave
  <2>. QED
    BY <1>1, <2>1, <2>2 DEF Session, Wired, Driver, Skip, Ask, Receive, Ended, Timeout, Complete, wire
<1>3. /\ requests \in Seq([seq: Nat, verb: Verbs]) /\ index \in Nat /\ index >= 1
      /\ lastSeq \in Nat
  BY ConstantsAssumption DEF Sane, Types, ConstantsAssumption
<1>4. Wired'
  BY <1>1, <1>2 DEF Session, Wired, InSession
<1>5. SaidSoFar' /\ OneAnswerEach'
  BY <1>1 DEF Session, SaidSoFar, OneAnswerEach, InSession
<1>6. Pending => Pending'
  BY <1>1, <1>2 DEF Pending
<1>7. ToSay'
  BY <1>1, <1>6 DEF Session, ToSay
<1>8. \A i \in DOMAIN requests : requests[i].seq \in Nat
  BY Numbers DEF Sane
<1>9. Queued'
  <2>1. CASE /\ driver = "ready" /\ driver' = "waiting" /\ index' = index
             /\ requests' = Append(requests, [seq |-> index, verb |-> script[index]])
    <3>. DEFINE n == Len(requests)
                e == [seq |-> index, verb |-> script[index]]
                S == [seq: Nat, verb: Verbs]
    <3>0. e \in S
      <4>1. script \in Seq(Verbs) /\ index <= Len(script)
        BY <2>1, ConstantsAssumption
           DEF Driver, Skip, Ask, Receive, Ended, Timeout, Complete, Conclude, Fail,
               Sane, Types, ConstantsAssumption
      <4>. QED
        BY <1>3, <4>1
    <3>a. e.seq = index
      OBVIOUS
    <3>b. requests \in Seq(S)
      BY <1>3
    <3>. HIDE DEF e, S
    <3>1. /\ n \in Nat /\ DOMAIN requests = 1..n /\ DOMAIN requests' = 1..(n + 1)
          /\ \A i \in 1..n : requests'[i] = requests[i]
          /\ requests'[n + 1] = e
      BY <2>1, <3>0, <3>b, AppendProperties DEF e
    <3>2. \A i \in DOMAIN requests' : i \in DOMAIN requests \/ i = n + 1
      BY <3>1
    <3>. HIDE DEF n
    <3>3. \A i \in DOMAIN requests : requests[i].seq < index
      BY <2>1 DEF Session, Queued
    <3>4. InSession => lastSeq < index
      BY <2>1 DEF Session, Queued
    <3>5. \A i \in DOMAIN requests' :
             /\ requests'[i].seq >= 1
             /\ InSession => requests'[i].seq > lastSeq
             /\ requests'[i].seq <= index
      BY <1>3, <1>8, <3>1, <3>2, <3>3, <3>4, <3>a DEF Session, Queued
    <3>6. \A i, j \in DOMAIN requests' : i < j => requests'[i].seq < requests'[j].seq
      <4>. SUFFICES ASSUME NEW i \in DOMAIN requests', NEW j \in DOMAIN requests', i < j
                    PROVE  requests'[i].seq < requests'[j].seq
        OBVIOUS
      <4>1. i \in DOMAIN requests
        BY <3>1
      <4>. QED
        BY <3>1, <3>2, <3>3, <3>a, <4>1 DEF Session, Queued
    <3>. QED
      BY <1>1, <1>3, <2>1, <3>4, <3>5, <3>6 DEF Queued, InSession
  <2>2. CASE UNCHANGED requests /\ driver' \notin {"ready", "waiting"}
    BY <1>1, <2>2 DEF Session, Queued, InSession
  <2>3. CASE UNCHANGED requests /\ driver' = driver /\ index' \in {index, index + 1}
    BY <1>1, <1>3, <1>8, <2>3 DEF Session, Queued, InSession
  <2>4. CASE UNCHANGED requests /\ driver = "waiting" /\ driver' = "ready" /\ index' = index + 1
    BY <1>1, <1>3, <1>8, <2>4 DEF Session, Queued, InSession
  <2>. QED
    BY <2>1, <2>2, <2>3, <2>4
       DEF Driver, Skip, Ask, Receive, Ended, Timeout, Complete, Conclude, Fail, wire
<1>. QED
  BY <1>4, <1>5, <1>7, <1>9 DEF Session

LEMMA SessionHolds == Spec => [](Sane /\ Session)
<1>1. Init => Sane /\ Session
  <2>. SUFFICES ASSUME Init PROVE Sane /\ Session
    OBVIOUS
  <2>1. Nothing \in [seq: Nat, verb: Verbs]
    BY DEF Nothing, Verbs
  <2>2. /\ index \in 1..(Len(script) + 1) /\ sessions \in 0..MaxSessions
        /\ requests \in Seq([seq: Nat, verb: Verbs])
    BY ConstantsAssumption DEF Init, ConstantsAssumption
  <2>a. /\ cmd \in [seq: Nat, verb: Verbs] /\ greeted \in BOOLEAN /\ lastSeq \in Nat
        /\ replies \in Seq(Record) /\ out \in Seq(Record) /\ lines \in Seq(Record)
        /\ said \in Seq(Record) /\ caps \in {{}, Announced} /\ timedOut \in Nat
    <3>1. <<>> \in Seq(Record)
      OBVIOUS
    <3>2. cmd \in [seq: Nat, verb: Verbs]
      BY <2>1 DEF Init
    <3>3. greeted \in BOOLEAN
      BY DEF Init
    <3>. QED
      BY <3>1, <3>2, <3>3 DEF Init
  <2>3. Sane
    BY <2>2, <2>a DEF Init, Sane, Types, Placed
  <2>4. Session
    BY DEF Init, Session, Wired, Queued, SaidSoFar, ToSay, OneAnswerEach, InSession
  <2>. QED
    BY <2>3, <2>4
<1>2. Sane /\ Session /\ [Next]_vars => Sane' /\ Session'
  <2>. SUFFICES ASSUME Sane, Session, [Next]_vars
                PROVE  Sane' /\ Session'
    OBVIOUS
  <2>1. CASE Probe
    <3>1. out # <<>> \/ probe \notin {"acking", "replying", "parting"}
      BY DEF Session, ToSay
    <3>2. Sane'
      BY <2>1, <3>1, ProbeKeepsTypes
    <3>3. Session'
      BY <2>1, AcceptKeeps, ReadKeeps, QuietKeeps, DispatchKeeps, AckKeeps, ReplyKeeps,
         SuiteKeeps, PerformKeeps DEF Probe
    <3>. QED
      BY <3>2, <3>3
  <2>2. CASE RivalComes \/ RivalLeaves \/ Restart
    BY <2>2, OthersKeepTypes, QuietKeeps
  <2>3. CASE Start
    BY <2>3, OthersKeepTypes, StartKeeps
  <2>4. CASE Driver
    BY <2>4, DriverKeepsTypes, AskKeeps
  <2>5. CASE UNCHANGED vars
    BY <2>5 DEF vars, Sane, Types, Placed, Session, Wired, Queued, SaidSoFar, ToSay, Pending,
        OneAnswerEach, InSession
  <2>. QED
    BY <2>1, <2>2, <2>3, <2>4, <2>5 DEF Next
<1>. QED
  BY <1>1, <1>2, PTL DEF Spec

\* Everything the probe and the driver keep stays in its type, for any scripts, any
\* conduct of the commands and however often the probe is restarted.
THEOREM TypesHold == Spec => []Types
BY SessionHolds, PTL DEF Sane

\* Every command is answered at most once, and not before it is acknowledged, whatever
\* the driver sends, whenever it leaves and however the probe ends (PROTOCOL.md:87).
THEOREM OneAnswer == Spec => []OneAnswerEach
BY SessionHolds, PTL DEF Session

-----------------------------------------------------------------------------
(* What an answer says. *)

\* An answer to a command that does work: the work came back.
Real(r, asked, back) ==
    r.kind = "done" /\ asked[r.seq] \in Work => r.seq \in back

\* The commands on their way and in hand are those of the script.
Asked ==
    /\ \A i \in DOMAIN requests : requests[i].verb = script[requests[i].seq]
    /\ probe \in {"acking", "running", "suite"} => cmd.verb = script[cmd.seq]

Honest ==
    /\ Asked
    /\ probe \in {"acking", "replying", "parting"} =>
          \A i \in DOMAIN out : Real(out[i], script, ran)
    /\ \A i \in DOMAIN replies : Real(replies[i], script, ran)
    /\ \A i \in DOMAIN lines : Real(lines[i], script, ran)

\* What the driver has heard, and is still to hear.
AnswersHeardAreReal ==
    \A i \in DOMAIN lines :
        lines[i].kind = "done" /\ script[lines[i].seq] \in Work => lines[i].seq \in ran

LEMMA ProbeIsHonest ==
    ASSUME Sane, Session, Honest, Probe
    PROVE  Honest'
<1>u. UNCHANGED <<script, lines>>
  BY DEF Probe, Accept, ReadLine, ReadEnd, Dispatch, SendAck, Reply, SuiteRecord, Perform,
      Close, mind
<1>t. /\ requests \in Seq([seq: Nat, verb: Verbs]) /\ replies \in Seq(Record)
      /\ out \in Seq(Record) /\ cmd.seq \in Nat
  BY DEF Sane, Types
<1>r. ran \subseteq ran' => \A r : Real(r, script, ran) => Real(r, script, ran')
  BY <1>u DEF Real
<1>k. \A n : /\ Real(Ack(n), script, ran) /\ Real(Ack(n), script, ran')
             /\ Real(Refused(n), script, ran) /\ Real(Refused(n), script, ran')
             /\ Real(Data(n), script, ran) /\ Real(Data(n), script, ran')
  BY DEF Real, Ack, Refused, Data
<1>g. Real(Greeting(Announced), script, ran')
  BY DEF Real, Greeting
<1>o. ASSUME NEW x
      PROVE  DOMAIN <<x>> = {1} /\ <<x>>[1] = x
  OBVIOUS
<1>p. ASSUME NEW x, NEW y
      PROVE  DOMAIN <<x, y>> = {1, 2} /\ <<x, y>>[1] = x /\ <<x, y>>[2] = y
  OBVIOUS
<1>s. ASSUME NEW r \in Record, Real(r, script, ran), NEW then, NEW else, Send(r, then, else),
             UNCHANGED ran
      PROVE  /\ \A i \in DOMAIN replies' : Real(replies'[i], script, ran')
             /\ requests' = requests /\ probe' \in {then, else, "dead"}
  <2>1. CASE replies' = Append(replies, r)
    <3>1. /\ DOMAIN replies' = 1..(Len(replies) + 1) /\ DOMAIN replies = 1..Len(replies)
          /\ Len(replies) \in Nat
          /\ \A i \in 1..Len(replies) : replies'[i] = replies[i]
          /\ replies'[Len(replies) + 1] = r
      BY <1>s, <1>t, <2>1, AppendProperties
    <3>2. \A i \in DOMAIN replies' : i \in DOMAIN replies \/ i = Len(replies) + 1
      BY <3>1
    <3>3. \A i \in DOMAIN replies' : Real(replies'[i], script, ran)
      BY <1>s, <3>1, <3>2 DEF Honest
    <3>. QED
      BY <1>s, <1>r, <3>3 DEF Send, Die, wire
  <2>2. CASE UNCHANGED replies
    BY <1>s, <1>r, <2>2 DEF Send, Die, wire, Honest
  <2>. QED
    BY <1>s, <2>1, <2>2 DEF Send, Die, wire
<1>1. CASE Accept
  BY <1>1, <1>r, <1>u DEF Accept, Honest, Asked, InSession, past, Session, ToSay
<1>2. CASE ReadLine
  <2>1. UNCHANGED <<ran, replies>> /\ requests' = Tail(requests) /\ requests # <<>>
    BY <1>2 DEF ReadLine, past
  <2>. DEFINE S == [seq: Nat, verb: Verbs]
              line == Head(requests)
  <2>2. requests \in Seq(S)
    BY <1>t
  <2>3. /\ Len(requests) \in Nat /\ Len(requests) >= 1
        /\ line = requests[1] /\ Len(Tail(requests)) = Len(requests) - 1
        /\ DOMAIN Tail(requests) = 1..(Len(requests) - 1)
        /\ \A i \in 1..(Len(requests) - 1) : Tail(requests)[i] = requests[i + 1]
    <3>. HIDE DEF S
    <3>1. Len(requests) \in Nat /\ Len(requests) # 0
      BY <2>1, <2>2, LenProperties, EmptySeq
    <3>. QED
      BY <2>1, <2>2, <3>1, HeadTailProperties
  <2>4. line.verb = script[line.seq]
    <3>1. 1 \in DOMAIN requests
      BY <2>2, <2>3
    <3>. QED
      BY <2>3, <3>1 DEF Honest, Asked
  <2>5. \A i \in DOMAIN requests' : requests'[i].verb = script[requests'[i].seq]
    <3>1. \A i \in 1..(Len(requests) - 1) : i + 1 \in DOMAIN requests
      BY <2>2, <2>3
    <3>. QED
      BY <2>1, <2>3, <3>1 DEF Honest, Asked
  <2>6. \/ \E n \in {0, line.seq} : out' = <<Refused(n)>> /\ probe' \in {"parting", "replying"}
        \/ out' = <<Ack(line.seq)>> /\ cmd' = line /\ probe' = "acking"
    BY <1>2 DEF ReadLine
  <2>7. \A i \in DOMAIN out' : Real(out'[i], script, ran')
    BY <1>k, <1>o, <2>6
  <2>. QED
    BY <1>r, <1>u, <2>1, <2>4, <2>5, <2>6, <2>7 DEF Honest, Asked
<1>3. CASE ReadEnd
  BY <1>3, <1>r, <1>u DEF ReadEnd, wire, past, Honest, Asked, InSession
<1>4. CASE Dispatch
  <2>1. UNCHANGED <<requests, replies, ran>> /\ probe = "running" /\ probe' \in {"parting", "replying"}
    BY <1>4 DEF Dispatch, wire, past
  <2>2. cmd.verb = script[cmd.seq]
    BY <2>1 DEF Honest, Asked
  <2>3. cmd.verb \notin Work => Real(Done(cmd.seq), script, ran')
    BY <1>u, <2>2 DEF Real, Done
  <2>4. "hello" \notin Work /\ "bye" \notin Work
    BY DEF Work
  <2>5. \/ out' = <<Greeting(Announced), Done(cmd.seq)>> /\ cmd.verb = "hello"
        \/ out' = <<Done(cmd.seq)>> /\ cmd.verb = "bye"
        \/ out' = <<Refused(cmd.seq)>>
    BY <1>4 DEF Dispatch
  <2>6. \A i \in DOMAIN out' : Real(out'[i], script, ran')
    BY <1>k, <1>g, <1>o, <1>p, <2>3, <2>4, <2>5
  <2>. QED
    BY <1>r, <1>u, <2>1, <2>6 DEF Honest, Asked
<1>5. CASE SendAck
  <2>1. probe = "acking" /\ out = <<Ack(lastSeq)>> /\ cmd.seq = lastSeq /\ UNCHANGED <<ran, cmd>>
    BY <1>5 DEF SendAck, Session, ToSay, self
  <2>2. Ack(lastSeq) \in Record
    BY <1>t, <2>1, Records
  <2>3. Send(Ack(lastSeq), "running", "closing") /\ out' = <<>>
    BY <1>5, <2>1 DEF SendAck
  <2>4. /\ \A i \in DOMAIN replies' : Real(replies'[i], script, ran')
        /\ requests' = requests /\ probe' \in {"running", "closing", "dead"}
    BY <1>s, <1>k, <2>1, <2>2, <2>3
  <2>. QED
    BY <1>r, <1>u, <2>1, <2>3, <2>4 DEF Honest, Asked
<1>6. CASE Reply
  <2>1. /\ probe \in {"replying", "parting"} /\ InSession /\ out # <<>> /\ UNCHANGED <<ran, cmd>>
        /\ out' = Tail(out)
    BY <1>6 DEF Reply, Session, ToSay, InSession, self
  <2>2. /\ Len(out) \in Nat /\ Len(out) >= 1 /\ Head(out) \in Record
        /\ Head(out) = out[1] /\ DOMAIN out = 1..Len(out)
        /\ DOMAIN Tail(out) = 1..(Len(out) - 1)
        /\ \A i \in 1..(Len(out) - 1) : Tail(out)[i] = out[i + 1]
    <3>1. Len(out) \in Nat /\ Len(out) # 0
      BY <1>t, <2>1, LenProperties, EmptySeq
    <3>. QED
      BY <1>t, <2>1, <3>1, HeadTailProperties
  <2>3. Real(Head(out), script, ran)
    <3>1. 1 \in DOMAIN out
      BY <2>2
    <3>. QED
      BY <2>1, <2>2, <3>1 DEF Honest
  <2>. DEFINE then == IF Tail(out) # <<>> THEN probe
                      ELSE IF probe = "parting" THEN "closing" ELSE "reading"
  <2>4. then \in {"replying", "parting", "closing", "reading"} /\ Send(Head(out), then, "closing")
    BY <1>6, <2>1 DEF Reply
  <2>. HIDE DEF then
  <2>5. /\ \A i \in DOMAIN replies' : Real(replies'[i], script, ran')
        /\ requests' = requests /\ probe' \in {then, "closing", "dead"}
    BY <1>s, <2>1, <2>2, <2>3, <2>4
  <2>6. \A i \in DOMAIN out' : Real(out'[i], script, ran)
    <3>1. \A i \in 1..(Len(out) - 1) : i + 1 \in DOMAIN out
      BY <2>2
    <3>. QED
      BY <2>1, <2>2, <3>1 DEF Honest
  <2>7. probe' \notin {"acking", "running", "suite"}
    BY <2>4, <2>5
  <2>. QED
    BY <1>r, <1>u, <2>1, <2>5, <2>6, <2>7 DEF Honest, Asked
<1>7. CASE SuiteRecord
  <2>1. probe = "running" /\ InSession /\ UNCHANGED <<ran, cmd, out>>
    BY <1>7 DEF SuiteRecord, InSession, self
  <2>2. Data(cmd.seq) \in Record
    BY <1>t, Records
  <2>3. Send(Data(cmd.seq), "suite", "suite")
    BY <1>7 DEF SuiteRecord
  <2>4. /\ \A i \in DOMAIN replies' : Real(replies'[i], script, ran')
        /\ requests' = requests /\ probe' \in {"suite", "dead"}
    BY <1>s, <1>k, <2>1, <2>2, <2>3
  <2>. QED
    BY <1>r, <1>u, <2>1, <2>4 DEF Honest, Asked
<1>8. CASE Perform
  <2>1. /\ UNCHANGED <<requests, replies, cmd>> /\ ran \subseteq ran' /\ InSession
        /\ probe' \in {"replying", "dead", "stuck"}
    BY <1>8 DEF Perform, Die, wire, self, InSession
  <2>2. CASE out' = <<Done(cmd.seq)>> /\ cmd.seq \in ran'
    <3>1. Real(Done(cmd.seq), script, ran')
      BY <2>2 DEF Real, Done
    <3>. QED
      BY <1>o, <1>r, <1>u, <2>1, <2>2, <3>1 DEF Honest, Asked
  <2>3. CASE out' = out /\ probe' \in {"dead", "stuck"}
    BY <1>r, <1>u, <2>1, <2>3 DEF Honest, Asked
  <2>. QED
    BY <1>8, <2>2, <2>3 DEF Perform, Die
<1>9. CASE Close
  BY <1>9, <1>r, <1>u DEF Close, past, Honest, Asked, InSession
<1>. QED
  BY <1>1, <1>2, <1>3, <1>4, <1>5, <1>6, <1>7, <1>8, <1>9 DEF Probe

LEMMA RestAreHonest ==
    ASSUME Sane, Session, Honest, RivalComes \/ RivalLeaves \/ Restart \/ Start
    PROVE  Honest'
<1>1. CASE RivalComes \/ RivalLeaves \/ Restart
  <2>1. /\ UNCHANGED <<requests, replies, lines, script, ran, cmd>>
        /\ probe' \in {"elsewhere", "listening", "over"}
    BY <1>1 DEF RivalComes, RivalLeaves, Restart, wire, self, mind, past
  <2>. QED
    BY <2>1 DEF Honest, Asked
<1>2. CASE Start
  <2>1. /\ requests' = <<>> /\ replies' = <<>> /\ lines' = <<>> /\ probe' = probe
        /\ probe \notin {"acking", "running", "suite", "replying", "parting"}
    BY <1>2 DEF Start
  <2>. QED
    BY <2>1 DEF Honest, Asked
<1>. QED
  BY <1>1, <1>2

LEMMA DriverIsHonest ==
    ASSUME Sane, Session, Honest, Driver
    PROVE  Honest'
<1>u. UNCHANGED <<script, probe, cmd, out, ran>>
  BY DEF Driver, Skip, Ask, Receive, Ended, Timeout, Complete, self, past
<1>1. CASE Skip
  BY <1>1, <1>u DEF Skip, wire, Honest, Asked
<1>2. CASE Ask
  <2>. DEFINE S == [seq: Nat, verb: Verbs]
              line == [seq |-> index, verb |-> script[index]]
  <2>t. requests \in Seq(S) /\ index \in Nat /\ script[index] \in Verbs
    BY <1>2, ConstantsAssumption DEF Ask, Sane, Types, ConstantsAssumption
  <2>1. UNCHANGED lines /\ (replies' = <<>> \/ replies' = replies)
    BY <1>2 DEF Ask, Fail, Leave
  <2>2. CASE requests' = requests
    BY <1>u, <2>1, <2>2 DEF Honest, Asked
  <2>3. CASE requests' = Append(requests, line)
    <3>1. line \in S /\ line.verb = script[line.seq]
      BY <2>t
    <3>. HIDE DEF S, line
    <3>2. /\ DOMAIN requests' = 1..(Len(requests) + 1) /\ DOMAIN requests = 1..Len(requests)
          /\ Len(requests) \in Nat
          /\ \A i \in 1..Len(requests) : requests'[i] = requests[i]
          /\ requests'[Len(requests) + 1] = line
      BY <2>t, <2>3, <3>1, AppendProperties
    <3>3. \A i \in DOMAIN requests' : i \in DOMAIN requests \/ i = Len(requests) + 1
      BY <3>2
    <3>4. \A i \in DOMAIN requests' : requests'[i].verb = script[requests'[i].seq]
      BY <3>1, <3>2, <3>3 DEF Honest, Asked
    <3>. QED
      BY <1>u, <2>1, <3>4 DEF Honest, Asked
  <2>. QED
    BY <1>2, <2>2, <2>3 DEF Ask
<1>3. CASE Receive
  <2>t. replies \in Seq(Record) /\ lines \in Seq(Record) /\ replies # <<>>
    BY <1>3 DEF Receive, Sane, Types
  <2>1. UNCHANGED requests /\ replies' = Tail(replies) /\ lines' = Append(lines, Head(replies))
    BY <1>3 DEF Receive
  <2>2. /\ Len(replies) \in Nat /\ Len(replies) >= 1 /\ Head(replies) \in Record
        /\ Head(replies) = replies[1] /\ DOMAIN replies = 1..Len(replies)
        /\ DOMAIN Tail(replies) = 1..(Len(replies) - 1)
        /\ \A i \in 1..(Len(replies) - 1) : Tail(replies)[i] = replies[i + 1]
    <3>1. Len(replies) \in Nat /\ Len(replies) # 0
      BY <2>t, LenProperties, EmptySeq
    <3>. QED
      BY <2>t, <3>1, HeadTailProperties
  <2>3. /\ \A i \in 1..(Len(replies) - 1) : i + 1 \in DOMAIN replies
        /\ 1 \in DOMAIN replies
    BY <2>2
  <2>4. \A i \in DOMAIN replies' : Real(replies'[i], script, ran)
    BY <2>1, <2>2, <2>3 DEF Honest
  <2>5. Real(Head(replies), script, ran)
    BY <2>2, <2>3 DEF Honest
  <2>6. /\ DOMAIN lines' = 1..(Len(lines) + 1) /\ DOMAIN lines = 1..Len(lines)
        /\ Len(lines) \in Nat
        /\ \A i \in 1..Len(lines) : lines'[i] = lines[i]
        /\ lines'[Len(lines) + 1] = Head(replies)
    BY <2>t, <2>1, <2>2, AppendProperties
  <2>7. \A i \in DOMAIN lines' : i \in DOMAIN lines \/ i = Len(lines) + 1
    BY <2>6
  <2>8. \A i \in DOMAIN lines' : Real(lines'[i], script, ran)
    BY <2>5, <2>6, <2>7 DEF Honest
  <2>. QED
    BY <1>u, <2>1, <2>4, <2>8 DEF Honest, Asked
<1>4. CASE Ended \/ Timeout \/ Complete
  <2>1. UNCHANGED <<requests, lines>> /\ replies' = <<>>
    BY <1>4 DEF Ended, Timeout, Complete, Conclude, Fail, Leave
  <2>. QED
    BY <1>u, <2>1 DEF Honest, Asked
<1>. QED
  BY <1>1, <1>2, <1>3, <1>4 DEF Driver

\* A driver never hears that a command which does work was done when the work never came
\* back, whatever was sent before it and however the probe ends (drive.rs:16).
THEOREM HeardIsReal == Spec => []AnswersHeardAreReal
<1>1. Init => Honest
  BY DEF Init, Honest, Asked
<1>2. Sane /\ Session /\ Honest /\ [Next]_vars => Honest'
  <2>1. CASE Sane /\ Session /\ Honest /\ Probe
    BY <2>1, ProbeIsHonest
  <2>2. CASE Sane /\ Session /\ Honest /\ (RivalComes \/ RivalLeaves \/ Restart \/ Start)
    BY <2>2, RestAreHonest
  <2>3. CASE Sane /\ Session /\ Honest /\ Driver
    BY <2>3, DriverIsHonest
  <2>4. CASE Honest /\ UNCHANGED vars
    BY <2>4 DEF vars, Honest, Asked
  <2>. QED
    BY <2>1, <2>2, <2>3, <2>4 DEF Next
<1>3. Honest => AnswersHeardAreReal
  BY DEF Honest, Real, AnswersHeardAreReal
<1>. QED
  BY <1>1, <1>2, <1>3, SessionHolds, PTL DEF Spec

-----------------------------------------------------------------------------
(* What the driver wrote down. *)

\* A record the probe says, and where it says it.
Saying(r) ==
    \/ /\ r = Ack(lastSeq) /\ probe = "acking" /\ probe' = "running" /\ lastSeq >= 1
       /\ \A i \in DOMAIN said : Numbered(said[i]) => said[i].seq < lastSeq
    \/ /\ probe \in {"replying", "parting"} /\ probe' \in {"closing", "reading"}
       /\ r = Refused(0) \/ (Pending /\ r \in {Done(lastSeq), Refused(lastSeq)})
       /\ out = <<r>>
    \/ /\ probe \in {"replying", "parting"} /\ probe' = probe /\ Pending
       /\ r = Greeting(Announced) /\ out' = <<Done(lastSeq)>>
    \/ probe = "running" /\ probe' = "suite" /\ Pending /\ r = Data(lastSeq)

LEMMA SendSays ==
    ASSUME Types, Session, InSession, SendAck \/ Reply \/ SuiteRecord
    PROVE  /\ UNCHANGED <<lastSeq, cmd, requests>>
           /\ \/ /\ UNCHANGED <<said, replies>> /\ link' # "open" /\ link' # "ended"
              \/ /\ link = "open" /\ link' = "open"
                 /\ \E r \in Record : /\ Saying(r) /\ said' = Append(said, r)
                                      /\ replies' = Append(replies, r)
<1>0. lastSeq \in Nat /\ Wired /\ link \in {"open", "left", "reset"}
  BY DEF Types, Session, Wired
<1>s. ASSUME NEW r \in Record, NEW then, NEW else, Send(r, then, else)
      PROVE  /\ requests' = requests
             /\ \/ UNCHANGED <<said, replies>> /\ link' # "open" /\ link' # "ended"
                \/ /\ link = "open" /\ link' = "open" /\ probe' = then
                   /\ said' = Append(said, r) /\ replies' = Append(replies, r)
  BY <1>0, <1>s DEF Send, Die, wire
<1>1. CASE SendAck
  <2>1. /\ probe = "acking" /\ out = <<Ack(lastSeq)>> /\ lastSeq >= 1
        /\ \A i \in DOMAIN said : Numbered(said[i]) => said[i].seq < lastSeq
    BY <1>1 DEF SendAck, Session, ToSay
  <2>2. Send(Ack(lastSeq), "running", "closing") /\ Ack(lastSeq) \in Record
    BY <1>0, <1>1, <2>1, Records DEF SendAck
  <2>3. UNCHANGED <<lastSeq, cmd>>
    BY <1>1 DEF SendAck, self
  <2>4. probe' = "running" => Saying(Ack(lastSeq))
    BY <2>1 DEF Saying
  <2>. QED
    BY <1>s, <2>2, <2>3, <2>4
<1>2. CASE Reply
  <2>. DEFINE r == Head(out)
              then == IF Tail(out) # <<>> THEN probe
                      ELSE IF probe = "parting" THEN "closing" ELSE "reading"
  <2>1. /\ probe \in {"replying", "parting"} /\ UNCHANGED <<lastSeq, cmd>>
        /\ out' = Tail(out) /\ Send(r, then, "closing")
    BY <1>2 DEF Reply, self
  <2>2. \/ out = <<Refused(0)>>
        \/ /\ Pending
           /\ out \in {<<Greeting(Announced), Done(lastSeq)>>, <<Done(lastSeq)>>,
                       <<Refused(lastSeq)>>}
    BY <2>1 DEF Session, ToSay
  <2>3. ASSUME NEW x
        PROVE  Head(<<x>>) = x /\ Tail(<<x>>) = <<>>
    OBVIOUS
  <2>4. ASSUME NEW x, NEW y
        PROVE  Head(<<x, y>>) = x /\ Tail(<<x, y>>) = <<y>> /\ <<y>> # <<>>
    OBVIOUS
  <2>5. CASE out = <<Refused(0)>>
    <3>1. r = Refused(0) /\ then \in {"closing", "reading"} /\ out = <<r>> /\ r \in Record
      BY <2>3, <2>5, Records
    <3>2. probe' = then => Saying(r)
      BY <2>1, <3>1 DEF Saying
    <3>. HIDE DEF r, then
    <3>. QED
      BY <1>s, <2>1, <3>1, <3>2
  <2>6. CASE Pending /\ out \in {<<Done(lastSeq)>>, <<Refused(lastSeq)>>}
    <3>1. /\ r \in {Done(lastSeq), Refused(lastSeq)} /\ then \in {"closing", "reading"}
          /\ out = <<r>> /\ r \in Record
      BY <1>0, <2>3, <2>6, Records
    <3>2. probe' = then => Saying(r)
      BY <2>1, <2>6, <3>1 DEF Saying
    <3>. HIDE DEF r, then
    <3>. QED
      BY <1>s, <2>1, <3>1, <3>2
  <2>7. CASE Pending /\ out = <<Greeting(Announced), Done(lastSeq)>>
    <3>1. /\ r = Greeting(Announced) /\ then = probe /\ Tail(out) = <<Done(lastSeq)>>
          /\ r \in Record
      BY <2>4, <2>7, Records
    <3>2. probe' = then => Saying(r)
      BY <2>1, <2>7, <3>1 DEF Saying
    <3>. HIDE DEF r, then
    <3>. QED
      BY <1>s, <2>1, <3>1, <3>2
  <2>. QED
    BY <2>2, <2>5, <2>6, <2>7
<1>3. CASE SuiteRecord
  <2>1. probe = "running" /\ cmd.seq = lastSeq /\ Pending /\ UNCHANGED <<lastSeq, cmd>>
    BY <1>3 DEF SuiteRecord, Session, ToSay, self
  <2>2. Send(Data(lastSeq), "suite", "suite") /\ Data(lastSeq) \in Record
    BY <1>0, <1>3, <2>1, Records DEF SuiteRecord
  <2>3. probe' = "suite" => Saying(Data(lastSeq))
    BY <2>1 DEF Saying
  <2>. QED
    BY <1>s, <2>1, <2>2, <2>3
<1>. QED
  BY <1>1, <1>2, <1>3

\* What a driver has read and what is on its way is what the probe said to it.
Heard == driver \in {"ready", "waiting"} => lines \o replies = said

AcksOnce(r) ==
    /\ \A i, j \in DOMAIN r :
          r[i].kind = "ack" /\ r[j].kind = "ack" /\ r[i].seq = r[j].seq => i = j
    /\ \A i \in DOMAIN r : r[i].kind = "ack" => r[i].seq # 0

\* The commands asked and the commands put down as not sent are different ones, and
\* only those asked are acknowledged.
AcksAreSent(r, asked) == \A i \in DOMAIN r : r[i].kind = "ack" => r[i].seq \in asked

AskedOrNot ==
    /\ \A i \in DOMAIN requests : requests[i].seq \in sent
    /\ probe = "acking" => lastSeq \in sent
    /\ AcksAreSent(said, sent)
    /\ unsent \cap sent = {}
    /\ driver = "ready" => \A n \in sent \cup unsent : n < index
    /\ driver = "waiting" => /\ \A n \in sent : n <= index
                             /\ \A n \in unsent : n < index

\* On a connection that is there only the command in hand is owed an answer; on one the
\* probe has ended only what ended it.
Owing ==
    /\ InSession /\ link = "open" =>
          \A n \in Nat :
              Owed(said, n) =>
                  /\ n = cmd.seq
                  /\ \/ probe \in {"running", "suite", "stuck"}
                     \/ probe \in {"replying", "parting"} /\ out # <<Refused(0)>>
    /\ link = "ended" => \A n \in Nat : Owed(said, n) => n \in fatal

Told == Heard /\ AcksOnce(said) /\ AskedOrNot /\ Owing

LEMMA RecordsRead == \A r \in Record : Readable(r)
BY DEF Record, Readable

LEMMA NoneOwed == \A n : ~Owed(<<>>, n)
BY DEF Owed, Acks

LEMMA SaidOrdered ==
    ASSUME said \in Seq(Record), OneAnswerEach, AcksOnce(said)
    PROVE  Ordered(said)
<1>1. ASSUME NEW j \in DOMAIN said, Terminal(said[j]), said[j].seq # 0
      PROVE  /\ \E k \in Acks(said, said[j].seq) : k < j
             /\ \A i \in Answers(said, said[j].seq) : i = j
  <2>1. said[j].kind # "hello"
    BY <1>1 DEF Terminal
  <2>2. \E k \in 1..(j - 1) : said[k] = Ack(said[j].seq)
    BY <1>1, <2>1 DEF OneAnswerEach
  <2>3. PICK k \in DOMAIN said : said[k] = Ack(said[j].seq) /\ k < j
    <3>1. DOMAIN said = 1..Len(said) /\ Len(said) \in Nat
      OBVIOUS
    <3>2. \A k \in 1..(j - 1) : k \in DOMAIN said /\ k < j
      BY <3>1
    <3>. QED
      BY <2>2, <3>2
  <2>4. k \in Acks(said, said[j].seq)
    BY <2>3 DEF Acks, Ack
  <2>5. ASSUME NEW i \in Answers(said, said[j].seq)
        PROVE  i = j
    <3>1. i \in DOMAIN said /\ Terminal(said[i]) /\ said[i].seq = said[j].seq /\ said[i].kind # "hello"
      BY DEF Answers, Terminal
    <3>. QED
      BY <1>1, <3>1 DEF OneAnswerEach
  <2>. QED
    BY <2>3, <2>4, <2>5
<1>. QED
  BY <1>1 DEF Ordered, AcksOnce

\* One more record is one more for the driver to read.
LEMMA SaysKeepsHeard ==
    ASSUME Types, Heard, NEW r \in Record, said' = Append(said, r),
           replies' = Append(replies, r), UNCHANGED <<driver, lines>>
    PROVE  Heard'
<1>1. lines \in Seq(Record) /\ replies \in Seq(Record) /\ said \in Seq(Record)
  BY DEF Types
<1>2. lines \o Append(replies, r) = Append(lines \o replies, r)
  BY <1>1
<1>. QED
  BY <1>2 DEF Heard

\* What the driver reads it has from what was on its way.
LEMMA ReadsKeepHeard ==
    ASSUME Types, Heard, Receive
    PROVE  Heard'
<1>1. lines \in Seq(Record) /\ replies \in Seq(Record) /\ replies # <<>>
  BY DEF Types, Receive
<1>2. Append(lines, Head(replies)) \o Tail(replies) = lines \o replies
  <2>1. Head(replies) \in Record /\ Tail(replies) \in Seq(Record)
        /\ replies = <<Head(replies)>> \o Tail(replies)
    BY <1>1
  <2>. QED
    BY <1>1, <2>1, SMTT(30)
<1>3. lines' = Append(lines, Head(replies)) /\ replies' = Tail(replies) /\ said' = said
      /\ driver = "waiting"
  BY DEF Receive, past
<1>. QED
  BY <1>2, <1>3 DEF Heard

\* What a record said adds to what was said.
LEMMA SaysKeeps ==
    ASSUME Sane, Session, Told, SendAck \/ Reply \/ SuiteRecord
    PROVE  Told'
<1>0. /\ Types /\ InSession /\ said \in Seq(Record) /\ lastSeq \in Nat
      /\ UNCHANGED <<mind, fatal>>
  BY DEF SendAck, Reply, SuiteRecord, Sane, Types, InSession
<1>1. /\ UNCHANGED <<lastSeq, cmd, requests>>
      /\ \/ /\ UNCHANGED <<said, replies>> /\ link' # "open" /\ link' # "ended"
         \/ /\ link = "open" /\ link' = "open"
            /\ \E r \in Record : /\ Saying(r) /\ said' = Append(said, r)
                                 /\ replies' = Append(replies, r)
  BY <1>0, SendSays
<1>a. probe' # "acking"
  BY <1>0 DEF SendAck, Reply, SuiteRecord, Send, Die
<1>2. CASE UNCHANGED <<said, replies>> /\ link' # "open" /\ link' # "ended"
  BY <1>0, <1>1, <1>2, <1>a DEF Told, Heard, AskedOrNot, Owing, mind
<1>3. ASSUME NEW r \in Record, Saying(r), said' = Append(said, r),
             replies' = Append(replies, r), link = "open", link' = "open"
      PROVE  Told'
  <2>1. Heard'
    BY <1>0, <1>3, SaysKeepsHeard DEF Told, mind
  <2>2. /\ DOMAIN said' = 1..(Len(said) + 1) /\ DOMAIN said = 1..Len(said) /\ Len(said) \in Nat
        /\ \A i \in 1..Len(said) : said'[i] = said[i]
        /\ said'[Len(said) + 1] = r
    BY <1>0, <1>3, AppendProperties
  <2>3. \A i \in DOMAIN said' : i \in DOMAIN said \/ i = Len(said) + 1
    BY <2>2
  <2>4. /\ Ack(lastSeq).kind = "ack" /\ Ack(lastSeq).seq = lastSeq
        /\ \A n \in Nat : Done(n).kind # "ack" /\ Refused(n).kind # "ack" /\ Data(n).kind # "ack"
        /\ Greeting(Announced).kind # "ack"
    BY <1>0, Kinds
  <2>5. r.kind = "ack" =>
            /\ probe = "acking" /\ probe' = "running" /\ r.seq = lastSeq /\ lastSeq >= 1
            /\ \A i \in DOMAIN said : said[i].kind = "ack" => said[i].seq < lastSeq
    BY <1>0, <1>3, <2>4 DEF Saying, Numbered
  <2>6. AcksOnce(said')
    <3>1. CASE r.kind # "ack"
      <4>1. \A i \in DOMAIN said' : said'[i].kind = "ack" => i \in DOMAIN said /\ said'[i] = said[i]
        BY <2>2, <2>3, <3>1
      <4>. QED
        BY <4>1 DEF Told, AcksOnce
    <3>2. CASE r.kind = "ack"
      <4>1. \A i \in DOMAIN said : said[i].kind = "ack" => said[i].seq # r.seq
        <5>1. \A i \in DOMAIN said : said[i].kind = "ack" => said[i].seq \in Nat
          BY <1>0, Numbers DEF Numbered
        <5>. QED
          BY <1>0, <2>5, <3>2, <5>1
      <4>2. r.seq # 0
        BY <1>0, <2>5, <3>2
      <4>. QED
        BY <2>2, <2>3, <4>1, <4>2 DEF Told, AcksOnce
    <3>. QED
      BY <3>1, <3>2
  <2>7. AskedOrNot'
    <3>1. AcksAreSent(said', sent)
      BY <2>2, <2>3, <2>5 DEF Told, AskedOrNot, AcksAreSent
    <3>. QED
      BY <1>0, <1>1, <1>a, <3>1 DEF Told, AskedOrNot, mind
  <2>8. ASSUME NEW n \in Nat, Owed(said', n), InSession'
        PROVE  /\ n = cmd.seq
               /\ \/ probe' \in {"running", "suite", "stuck"}
                  \/ probe' \in {"replying", "parting"} /\ out' # <<Refused(0)>>
    <3>1. /\ Owed(said, n) \/ (r.kind = "ack" /\ r.seq = n)
          /\ ~(Terminal(r) /\ r.seq = n)
      <4>1. Owed(Append(said, r), n)
        BY <1>3, <2>8
      <4>. QED
        BY <1>0, <4>1, OwedAfter
    <3>2. Owed(said, n) =>
              /\ n = cmd.seq
              /\ \/ probe \in {"running", "suite", "stuck"}
                 \/ probe \in {"replying", "parting"} /\ out # <<Refused(0)>>
      BY <1>0, <1>3 DEF Told, Owing
    <3>3. CASE r.kind = "ack"
      <4>1. cmd.seq = lastSeq
        BY <2>5, <3>3 DEF Session, ToSay
      <4>2. ~Owed(said, n)
        BY <2>5, <3>2, <3>3
      <4>. QED
        BY <2>5, <3>1, <3>3, <4>1, <4>2
    <3>4. CASE r.kind # "ack" /\ Owed(said, n)
      <4>1. CASE probe = "running" /\ probe' = "suite"
        BY <3>2, <3>4, <4>1
      <4>2. CASE probe \in {"replying", "parting"} /\ out = <<r>>
        <5>1. r # Refused(0)
          BY <3>2, <3>4, <4>2
        <5>2. Pending /\ r \in {Done(lastSeq), Refused(lastSeq)}
          <6>1. /\ <<r>> # <<Greeting(Announced), Done(lastSeq)>>
                /\ r # Ack(lastSeq)
            BY <2>4, <3>4
          <6>2. CASE r = Greeting(Announced)
            BY <1>3, <2>4, <4>2, <5>1, <6>2 DEF Session, ToSay
          <6>3. CASE r # Greeting(Announced)
            BY <1>3, <4>2, <5>1, <6>1, <6>3 DEF Saying
          <6>. QED
            BY <6>2, <6>3
        <5>3. Terminal(r) /\ r.seq = lastSeq
          BY <1>0, <5>2, Kinds DEF Terminal
        <5>4. Owed(said, lastSeq)
          <6>1. PICK k \in DOMAIN said : said[k] = Ack(lastSeq)
            BY <1>3, <5>2 DEF Pending
          <6>2. k \in Acks(said, lastSeq)
            BY <2>4, <6>1 DEF Acks
          <6>. QED
            BY <5>2, <6>2 DEF Owed, Pending, Answers
        <5>5. lastSeq = cmd.seq /\ n = cmd.seq
          BY <1>0, <1>3, <3>2, <3>4, <5>4 DEF Told, Owing
        <5>. QED
          BY <3>1, <5>3, <5>5
      <4>3. CASE probe \in {"replying", "parting"} /\ probe' = probe /\ out' = <<Done(lastSeq)>>
        <5>1. Done(lastSeq).kind = "done" /\ Refused(0).kind = "refused"
          BY <1>0, Kinds
        <5>2. <<Done(lastSeq)>>[1] = Done(lastSeq) /\ <<Refused(0)>>[1] = Refused(0)
          OBVIOUS
        <5>3. out' # <<Refused(0)>>
          BY <4>3, <5>1, <5>2
        <5>. QED
          BY <3>2, <3>4, <4>3, <5>3
      <4>. QED
        BY <1>3, <2>4, <3>4, <4>1, <4>2, <4>3 DEF Saying
    <3>. QED
      BY <3>1, <3>3, <3>4
  <2>9. Owing'
    BY <1>1, <1>3, <2>8 DEF Owing
  <2>. QED
    BY <2>1, <2>6, <2>7, <2>9 DEF Told
<1>. QED
  BY <1>1, <1>2, <1>3

\* Where the probe says nothing.
LEMMA SilenceKeeps ==
    ASSUME Sane, Session, Told,
           Accept \/ ReadLine \/ ReadEnd \/ Dispatch \/ Perform \/ Close
           \/ RivalComes \/ RivalLeaves \/ Restart
    PROVE  Told'
<1>1. UNCHANGED <<said, replies, mind>>
  BY DEF Accept, ReadLine, ReadEnd, Dispatch, Perform, Close, RivalComes, RivalLeaves, Restart,
      Die, wire, past
<1>2. Heard' /\ AcksOnce(said')
  BY <1>1 DEF Told, Heard, mind
<1>3. CASE ReadLine
  <2>. DEFINE S == [seq: Nat, verb: Verbs]
              line == Head(requests)
  <2>1. requests \in Seq(S) /\ requests # <<>> /\ requests' = Tail(requests)
    BY <1>3 DEF ReadLine, Sane, Types
  <2>. HIDE DEF S
  <2>2. /\ Len(requests) \in Nat /\ Len(requests) >= 1 /\ line = requests[1]
        /\ DOMAIN Tail(requests) = 1..(Len(requests) - 1) /\ DOMAIN requests = 1..Len(requests)
        /\ \A i \in 1..(Len(requests) - 1) : Tail(requests)[i] = requests[i + 1]
    <3>1. Len(requests) \in Nat /\ Len(requests) # 0
      BY <2>1, LenProperties, EmptySeq
    <3>. QED
      BY <2>1, <3>1, HeadTailProperties
  <2>3. 1 \in DOMAIN requests /\ \A i \in 1..(Len(requests) - 1) : i + 1 \in DOMAIN requests
    BY <2>2
  <2>4. line.seq \in sent /\ \A i \in DOMAIN requests' : requests'[i].seq \in sent
    BY <2>1, <2>2, <2>3 DEF Told, AskedOrNot
  <2>5. /\ probe = "reading" /\ link' = link /\ UNCHANGED fatal
        /\ probe' = "acking" => lastSeq' = line.seq
    BY <1>3 DEF ReadLine, past
  <2>6. AskedOrNot'
    BY <1>1, <2>4, <2>5 DEF Told, AskedOrNot, mind
  <2>7. Owing'
    BY <1>1, <2>5 DEF Told, Owing, InSession
  <2>. QED
    BY <1>2, <2>6, <2>7 DEF Told
<1>4. CASE ~ReadLine
  <2>1. UNCHANGED requests /\ probe' # "acking"
    BY <1>4 DEF Accept, ReadEnd, Dispatch, Perform, Close, RivalComes, RivalLeaves, Restart,
        Die, wire
  <2>2. AskedOrNot'
    BY <1>1, <2>1 DEF Told, AskedOrNot, mind
  <2>3. CASE Accept
    <3>1. said = <<>> /\ link' # "ended"
      BY <2>3 DEF Accept, Session, Wired, InSession
    <3>. QED
      BY <1>1, <1>2, <2>2, <3>1, NoneOwed DEF Told, Owing
  <2>4. CASE ReadEnd \/ RivalComes
    <3>1. link' = link /\ link # "open" /\ UNCHANGED fatal
      BY <2>4 DEF ReadEnd, RivalComes, wire, past
    <3>. QED
      BY <1>1, <1>2, <2>2, <3>1 DEF Told, Owing
  <2>5. CASE Dispatch
    <3>1. /\ probe = "running" /\ link' = link /\ UNCHANGED <<cmd, fatal>>
          /\ probe' \in {"replying", "parting"} /\ cmd.seq = lastSeq /\ lastSeq >= 1
      BY <2>5 DEF Dispatch, Session, ToSay, Pending, wire, past
    <3>2. cmd.seq \in Nat /\ cmd.seq # 0
      BY <3>1 DEF Sane, Types
    <3>3. out' # <<Refused(0)>>
      <4>1. ASSUME NEW x, NEW y
            PROVE  <<x>>[1] = x /\ <<x, y>>[1] = x
        OBVIOUS
      <4>2. /\ Refused(0).kind = "refused" /\ Refused(0).seq = 0
            /\ Done(cmd.seq).kind = "done" /\ Refused(cmd.seq).seq = cmd.seq
            /\ Greeting(Announced).kind = "hello"
        BY <3>2, Kinds
      <4>3. out' \in {<<Greeting(Announced), Done(cmd.seq)>>, <<Done(cmd.seq)>>,
                      <<Refused(cmd.seq)>>}
        BY <2>5 DEF Dispatch
      <4>. QED
        BY <3>2, <4>1, <4>2, <4>3
    <3>4. InSession /\ InSession'
      BY <3>1 DEF InSession
    <3>. QED
      BY <1>1, <1>2, <2>2, <3>1, <3>3, <3>4 DEF Told, Owing
  <2>6. CASE Perform
    <3>1. probe \in {"running", "suite"} /\ InSession /\ UNCHANGED cmd /\ cmd.seq \in Nat
      BY <2>6 DEF Perform, InSession, self, Sane, Types
    <3>2. CASE out' = <<Done(cmd.seq)>> /\ probe' = "replying" /\ UNCHANGED <<wire, fatal>>
      <4>1. <<Done(cmd.seq)>>[1] = Done(cmd.seq) /\ <<Refused(0)>>[1] = Refused(0)
        OBVIOUS
      <4>2. out' # <<Refused(0)>>
        BY <3>1, <3>2, <4>1, Kinds
      <4>. QED
        BY <1>1, <1>2, <2>2, <3>1, <3>2, <4>2 DEF Told, Owing, InSession, wire
    <3>3. CASE Die /\ fatal' = fatal \cup {cmd.seq}
      <4>1. link' \in {"ended", "none"} /\ (link' = "ended" => link = "open")
        BY <3>1, <3>3 DEF Die, Session, Wired
      <4>. QED
        BY <1>1, <1>2, <2>2, <3>1, <3>3, <4>1 DEF Told, Owing
    <3>4. CASE probe' = "stuck" /\ UNCHANGED <<wire, fatal>>
      BY <1>1, <1>2, <2>2, <3>1, <3>4 DEF Told, Owing, InSession, wire
    <3>. QED
      BY <2>6, <3>2, <3>3, <3>4 DEF Perform
  <2>7. CASE Close
    <3>1. /\ probe = "closing" /\ InSession /\ UNCHANGED fatal
          /\ link' \in {"ended", "none"} /\ (link' = "ended" => link = "open")
      BY <2>7 DEF Close, InSession, past
    <3>. QED
      BY <1>1, <1>2, <2>2, <3>1 DEF Told, Owing
  <2>8. CASE RivalLeaves
    <3>1. /\ ~InSession /\ ~InSession' /\ UNCHANGED fatal
          /\ link' = "ended" => link = "ended" \/ link = "queued"
      BY <2>8 DEF RivalLeaves, InSession, past
    <3>2. link = "queued" => said = <<>>
      BY <3>1 DEF Session, Wired
    <3>. QED
      BY <1>1, <1>2, <2>2, <3>1, <3>2, NoneOwed DEF Told, Owing
  <2>9. CASE Restart
    <3>1. /\ ~InSession' /\ fatal \subseteq fatal'
          /\ link' = "ended" => link \in {"ended", "queued", "open"}
          /\ probe = "stuck" => InSession /\ cmd.seq \in fatal'
          /\ probe # "stuck" => ~InSession
      BY <2>9 DEF Restart, InSession
    <3>2. /\ link = "queued" => said = <<>>
          /\ link = "open" => InSession
      BY DEF Session, Wired
    <3>. QED
      BY <1>1, <1>2, <2>2, <3>1, <3>2, NoneOwed DEF Told, Owing
  <2>. QED
    BY <1>4, <2>3, <2>4, <2>5, <2>6, <2>7, <2>8, <2>9
<1>. QED
  BY <1>3, <1>4

\* A driver that asks, reads, and leaves; and the next one.
LEMMA DriverKeepsTold ==
    ASSUME Sane, Session, Told, Driver \/ Start
    PROVE  Told'
<1>1. CASE Start
  <2>1. /\ said' = <<>> /\ lines' = <<>> /\ replies' = <<>> /\ requests' = <<>>
        /\ sent' = {} /\ unsent' = {} /\ probe' = probe
        /\ probe \notin {"acking"} /\ driver' \in {"ready", "failed"}
    BY <1>1 DEF Start
  <2>2. <<>> \o <<>> = <<>>
    OBVIOUS
  <2>. QED
    BY <2>1, <2>2, NoneOwed DEF Told, Heard, AcksOnce, AskedOrNot, AcksAreSent, Owing
<1>2. CASE Driver
  <2>0. /\ UNCHANGED <<probe, out, cmd, lastSeq, said, fatal>> /\ driver \in {"ready", "waiting"}
        /\ index \in Nat
    <3>1. index \in Nat
      BY ConstantsAssumption DEF Sane, Types, ConstantsAssumption
    <3>. QED
      BY <1>2, <3>1 DEF Driver, Skip, Ask, Receive, Ended, Timeout, Complete, self, past
  <2>1. AcksOnce(said') /\ AcksAreSent(said', sent)
    BY <2>0 DEF Told, AskedOrNot
  <2>2. Owing'
    <3>1. link' = link \/ link' \notin {"open", "ended"}
      BY <1>2 DEF Driver, Skip, Ask, Receive, Ended, Timeout, Complete, Conclude, Fail, Leave, wire
    <3>. QED
      BY <2>0, <3>1 DEF Told, Owing, InSession
  <2>3. CASE Receive
    <3>1. Heard'
      BY <2>3, ReadsKeepHeard DEF Told, Sane
    <3>2. AskedOrNot'
      <4>1. /\ UNCHANGED <<requests, sent, unsent, probe, lastSeq, said>> /\ driver = "waiting"
            /\ \/ driver' = "ready" /\ index' = index + 1
               \/ UNCHANGED <<driver, index>>
        BY <2>3 DEF Receive, self, past
      <4>2. /\ \A n \in sent : n \in Nat /\ n <= index
            /\ \A n \in unsent : n \in Nat /\ n < index
        BY <4>1 DEF Told, AskedOrNot, Sane, Types
      <4>3. \A n \in Nat : n <= index => n < index + 1
        BY <2>0
      <4>. QED
        BY <2>0, <4>1, <4>2, <4>3 DEF Told, AskedOrNot
    <3>. QED
      BY <2>1, <2>2, <3>1, <3>2, <2>0 DEF Told
  <2>4. CASE Skip
    <3>1. /\ UNCHANGED <<requests, replies, lines, driver, sent>> /\ driver = "ready"
          /\ unsent' = unsent \cup {index} /\ index' = index + 1
      BY <2>4 DEF Skip, wire
    <3>2. index \notin sent /\ \A n \in sent \cup unsent : n \in Nat /\ n < index
      BY <2>0, <3>1 DEF Told, AskedOrNot, Sane, Types
    <3>3. index < index + 1 /\ \A n \in Nat : n < index => n < index + 1
      BY <2>0
    <3>4. Heard'
      BY <2>0, <3>1 DEF Told, Heard
    <3>5. AskedOrNot'
      BY <2>0, <3>1, <3>2, <3>3 DEF Told, AskedOrNot
    <3>. QED
      BY <2>1, <2>2, <3>1, <3>4, <3>5, <2>0 DEF Told
  <2>5. CASE Ask /\ driver' = "waiting"
    <3>. DEFINE line == [seq |-> index, verb |-> script[index]]
                S == [seq: Nat, verb: Verbs]
    <3>1. /\ UNCHANGED <<replies, lines, unsent, index>> /\ driver = "ready"
          /\ requests' = Append(requests, line) /\ sent' = sent \cup {index}
      BY <2>5 DEF Ask, Fail
    <3>2. requests \in Seq(S) /\ line \in S /\ line.seq = index
      BY <2>5, ConstantsAssumption DEF Ask, Sane, Types, ConstantsAssumption
    <3>. HIDE DEF line, S
    <3>3. /\ DOMAIN requests' = 1..(Len(requests) + 1) /\ DOMAIN requests = 1..Len(requests)
          /\ Len(requests) \in Nat
          /\ \A i \in 1..Len(requests) : requests'[i] = requests[i]
          /\ requests'[Len(requests) + 1] = line
      BY <3>1, <3>2, AppendProperties
    <3>4. \A i \in DOMAIN requests' : i \in DOMAIN requests \/ i = Len(requests) + 1
      BY <3>3
    <3>5. \A i \in DOMAIN requests' : requests'[i].seq \in sent'
      BY <3>1, <3>2, <3>3, <3>4 DEF Told, AskedOrNot
    <3>6. index \notin unsent /\ \A n \in sent \cup unsent : n \in Nat /\ n < index
      BY <2>0, <3>1 DEF Told, AskedOrNot, Sane, Types
    <3>7. index <= index /\ \A n \in Nat : n < index => n <= index
      BY <2>0
    <3>8. AskedOrNot'
      BY <2>0, <2>5, <3>1, <3>5, <3>6, <3>7 DEF Told, AskedOrNot, AcksAreSent
    <3>9. Heard'
      BY <2>0, <3>1 DEF Told, Heard
    <3>. QED
      BY <2>0, <2>1, <2>2, <3>8, <3>9 DEF Told
  <2>6. CASE driver' \in {"done", "failed"} /\ UNCHANGED <<requests, sent, unsent>>
    BY <2>0, <2>1, <2>2, <2>6 DEF Told, Heard, AskedOrNot
  <2>. QED
    BY <1>2, <2>3, <2>4, <2>5, <2>6 DEF Driver, Ask, Ended, Timeout, Complete, Conclude, Fail
<1>. QED
  BY <1>1, <1>2

LEMMA ToldHolds == Spec => []Told
<1>1. Init => Told
  <2>1. <<>> \o <<>> = <<>>
    OBVIOUS
  <2>. QED
    BY <2>1, NoneOwed
       DEF Init, Told, Heard, AcksOnce, AskedOrNot, AcksAreSent, Owing, InSession
<1>2. Sane /\ Session /\ Told /\ [Next]_vars => Told'
  <2>1. CASE Sane /\ Session /\ Told /\ (Probe \/ RivalComes \/ RivalLeaves \/ Restart)
    BY <2>1, SaysKeeps, SilenceKeeps DEF Probe
  <2>2. CASE Sane /\ Session /\ Told /\ (Driver \/ Start)
    BY <2>2, DriverKeepsTold
  <2>3. CASE Told /\ UNCHANGED vars
    BY <2>3 DEF vars, Told, Heard, AskedOrNot, Owing, InSession
  <2>. QED
    BY <2>1, <2>2, <2>3 DEF Next
<1>. QED
  BY <1>1, <1>2, SessionHolds, PTL DEF Spec

-----------------------------------------------------------------------------
(* The corpus. *)

\* What the driver concludes is an account of what it read.
LEMMA LinesAccount ==
    ASSUME Sane, Session, Told, driver \in {"ready", "waiting"}
    PROVE  /\ Ordered(lines) /\ Account(lines, Parsed(lines)) /\ Parsed(lines) \in Parsings
           /\ AcksAreSent(lines, sent)
           /\ replies = <<>> => lines = said
<1>1. lines \in Seq(Record) /\ replies \in Seq(Record) /\ said \in Seq(Record)
  BY DEF Sane, Types
<1>2. lines \o replies = said
  BY DEF Told, Heard
<1>3. Ordered(said)
  BY <1>1, SaidOrdered DEF Session, Told
<1>4. Ordered(lines)
  BY <1>1, <1>2, <1>3, OrderedPrefix
<1>5. Account(lines, Parsed(lines)) /\ Parsed(lines) \in Parsings
  BY <1>1, <1>4, RecordsRead, Accounting, ParsedByStep
<1>6. \A i \in DOMAIN lines : i \in DOMAIN said /\ said[i] = lines[i]
  <2>1. /\ DOMAIN lines = 1..Len(lines) /\ DOMAIN said = 1..(Len(lines) + Len(replies))
        /\ Len(lines) \in Nat /\ Len(replies) \in Nat
        /\ \A i \in 1..Len(lines) : said[i] = lines[i]
    BY <1>1, <1>2, ConcatProperties
  <2>. QED
    BY <2>1
<1>7. AcksAreSent(lines, sent)
  BY <1>6 DEF Told, AskedOrNot, AcksAreSent
<1>8. lines \o <<>> = lines
  BY <1>1
<1>. QED
  BY <1>2, <1>4, <1>5, <1>7, <1>8

\* The corpus of a session that ended, from its lines: of each command read in it or
\* given up, one exchange.
Concluded(parsed, closed, late) ==
    {IF e.seq = late /\ e.outcome = "lost" THEN [e EXCEPT !.outcome = "timeout"] ELSE e
        : e \in parsed.exchanges \cup Silence(parsed.pending, closed)}

LEMMA ConcludedIs ==
    ASSUME NEW p \in Parsings, NEW r, Account(r, p), NEW closed \in BOOLEAN, NEW late
    PROVE  /\ Concluded(p, closed, late) \subseteq Exchange
           /\ \A x \in Concluded(p, closed, late) :
                 /\ x.outcome = "answered" =>
                        \E k \in Answers(r, x.seq) : r[k].kind = "done"
                 /\ x.outcome = "died" => closed /\ Owed(r, x.seq)
           /\ \A n \in Nat \ {0} : Acks(r, n) # {} =>
                 \E x \in Concluded(p, closed, late) :
                     x.seq = n /\ \A y \in Concluded(p, closed, late) : y.seq = n => y = x
<1>. DEFINE silence == Silence(p.pending, closed)
            all == p.exchanges \cup silence
            f(e) == IF e.seq = late /\ e.outcome = "lost"
                    THEN [e EXCEPT !.outcome = "timeout"] ELSE e
            q == p.pending
<1>1. p.exchanges \subseteq Exchange /\ q \in Seq(Entry) /\ DOMAIN q = 1..Len(q)
  BY DEF Parsings
<1>2. \A x \in silence : \E i \in DOMAIN q :
          x = [seq |-> q[i].seq, outcome |-> IF closed THEN "died" ELSE "lost",
               records |-> q[i].records]
  BY <1>1 DEF Silence, ToSet
<1>3. \A i \in DOMAIN q : \E x \in silence : x.seq = q[i].seq
  <2>1. ASSUME NEW i \in DOMAIN q
        PROVE  [seq |-> q[i].seq, outcome |-> IF closed THEN "died" ELSE "lost",
                records |-> q[i].records] \in silence
    BY DEF Silence, ToSet
  <2>. QED
    BY <2>1
<1>4. \A i \in DOMAIN q : q[i] \in Entry /\ Owed(r, q[i].seq)
  BY <1>1 DEF Account
<1>. HIDE DEF silence, q
<1>5. silence \subseteq Exchange
  BY <1>2, <1>4 DEF Exchange, Entry
<1>6. \A x \in silence : /\ Owed(r, x.seq)
                         /\ x.outcome = IF closed THEN "died" ELSE "lost"
  BY <1>2, <1>4
<1>7. \A x, y \in silence : x.seq = y.seq => x = y
  <2>. SUFFICES ASSUME NEW x \in silence, NEW y \in silence, x.seq = y.seq
                PROVE  x = y
    OBVIOUS
  <2>1. PICK i \in DOMAIN q : x = [seq |-> q[i].seq, outcome |-> IF closed THEN "died" ELSE "lost",
                                  records |-> q[i].records]
    BY <1>2
  <2>2. PICK j \in DOMAIN q : y = [seq |-> q[j].seq, outcome |-> IF closed THEN "died" ELSE "lost",
                                  records |-> q[j].records]
    BY <1>2
  <2>3. i = j
    BY <2>1, <2>2 DEF Account, q
  <2>. QED
    BY <2>1, <2>2, <2>3
<1>8. \A x \in p.exchanges :
          /\ x.outcome \in {"answered", "refused"}
          /\ \E k \in Answers(r, x.seq) : x.outcome = "answered" => r[k].kind = "done"
  BY DEF Account
<1>9. \A n \in Nat \ {0} : \A x, y \in all : x.seq = n /\ y.seq = n => x = y
  BY <1>6, <1>7, <1>8 DEF Account, Owed
<1>10. all \subseteq Exchange
  BY <1>1, <1>5
<1>11. \A x \in all : /\ f(x) \in Exchange /\ f(x).seq = x.seq
                      /\ f(x).outcome \in {x.outcome, "timeout"}
  BY <1>10 DEF Exchange
<1>12. Concluded(p, closed, late) = {f(x) : x \in all}
  BY DEF Concluded, silence, q
<1>. HIDE DEF f, all
<1>13. Concluded(p, closed, late) \subseteq Exchange
  BY <1>11, <1>12
<1>14. ASSUME NEW x \in Concluded(p, closed, late)
       PROVE  /\ x.outcome = "answered" =>
                     \E k \in Answers(r, x.seq) : r[k].kind = "done"
              /\ x.outcome = "died" => closed /\ Owed(r, x.seq)
  <2>1. PICK e \in all : x = f(e)
    BY <1>12
  <2>2. x.seq = e.seq /\ x.outcome \in {e.outcome, "timeout"}
    BY <1>11, <2>1
  <2>3. e \in p.exchanges \/ e \in silence
    BY DEF all
  <2>. QED
    BY <1>6, <1>8, <2>2, <2>3
<1>15. ASSUME NEW n \in Nat \ {0}, Acks(r, n) # {}
       PROVE  \E x \in Concluded(p, closed, late) :
                  x.seq = n /\ \A y \in Concluded(p, closed, late) : y.seq = n => y = x
  <2>1. PICK e \in all : e.seq = n
    <3>1. CASE Answers(r, n) # {}
      BY <1>15, <3>1 DEF Account, all
    <3>2. CASE Owed(r, n)
      <4>1. PICK i \in DOMAIN q : q[i].seq = n
        BY <3>2 DEF Account, At, q
      <4>. QED
        BY <1>3, <4>1 DEF all
    <3>. QED
      BY <1>15, <3>1, <3>2 DEF Owed
  <2>2. f(e) \in Concluded(p, closed, late) /\ f(e).seq = n
    BY <1>11, <1>12, <2>1
  <2>3. ASSUME NEW y \in Concluded(p, closed, late), y.seq = n
        PROVE  y = f(e)
    <3>1. PICK d \in all : y = f(d)
      BY <1>12
    <3>2. d.seq = n
      BY <1>11, <2>3, <3>1
    <3>. QED
      BY <1>9, <2>1, <3>1, <3>2
  <2>. QED
    BY <2>2, <2>3
<1>. QED
  BY <1>13, <1>14, <1>15

\* What the corpus says.  An answer is one that was heard, a death one of a command that
\* ended the process, and what was acknowledged is written down, once.
Written ==
    /\ corpus \subseteq Exchange
    /\ \A e \in corpus : e.outcome = "answered" /\ script[e.seq] \in Work => e.seq \in ran
    /\ \A e \in corpus : e.outcome = "died" => e.seq \in fatal
    /\ AcknowledgedAreWritten

\* A driver that comes to its end writes it down.
LEMMA ConcludeWrites ==
    ASSUME Sane, Session, Told, AnswersHeardAreReal, driver \in {"ready", "waiting"},
           NEW closed \in BOOLEAN, NEW late, Conclude(closed, late),
           closed => link = "ended" /\ replies = <<>>,
           UNCHANGED <<lines, script, ran, fatal>>
    PROVE  Written'
<1>. DEFINE read == Concluded(Parsed(lines), closed, late)
            rest == {[seq |-> n, outcome |-> "not-sent", records |-> {}] : n \in unsent}
<1>1. /\ Account(lines, Parsed(lines)) /\ Parsed(lines) \in Parsings
      /\ AcksAreSent(lines, sent)
      /\ \A i \in DOMAIN lines : lines[i].kind = "ack" => lines[i].seq # 0
      /\ replies = <<>> => lines = said
  BY LinesAccount DEF Ordered
<1>2. corpus' = read \cup rest
  BY DEF Conclude, ParseSession, Concluded
<1>3. \A x \in rest : /\ x \in Exchange /\ x.seq \in unsent
                      /\ x.outcome \notin {"answered", "died"}
  <2>1. unsent \subseteq Nat
    BY DEF Sane, Types
  <2>. QED
    BY <2>1 DEF Exchange
<1>4. /\ read \subseteq Exchange
      /\ \A x \in read :
            /\ x.outcome = "answered" => \E k \in Answers(lines, x.seq) : lines[k].kind = "done"
            /\ x.outcome = "died" => closed /\ Owed(lines, x.seq)
      /\ \A n \in Nat \ {0} : Acks(lines, n) # {} =>
            \E x \in read : x.seq = n /\ \A y \in read : y.seq = n => y = x
  BY <1>1, ConcludedIs
<1>. HIDE DEF read, rest
<1>5. corpus' \subseteq Exchange
  BY <1>2, <1>3, <1>4
<1>6. ASSUME NEW e \in corpus', e.outcome = "answered", script[e.seq] \in Work
      PROVE  e.seq \in ran
  <2>1. PICK k \in Answers(lines, e.seq) : lines[k].kind = "done"
    BY <1>2, <1>3, <1>4, <1>6
  <2>2. k \in DOMAIN lines /\ lines[k].seq = e.seq
    BY <2>1 DEF Answers
  <2>. QED
    BY <1>6, <2>1, <2>2 DEF AnswersHeardAreReal
<1>7. ASSUME NEW e \in corpus', e.outcome = "died"
      PROVE  e.seq \in fatal
  <2>1. closed /\ Owed(lines, e.seq) /\ e.seq \in Nat
    BY <1>2, <1>3, <1>4, <1>7 DEF Exchange
  <2>2. link = "ended" /\ lines = said
    BY <1>1, <2>1
  <2>. QED
    BY <2>1, <2>2 DEF Told, Owing
<1>8. ASSUME NEW i \in DOMAIN lines, lines[i].kind = "ack"
      PROVE  Cardinality({e \in corpus' : e.seq = lines[i].seq}) = 1
  <2>. DEFINE n == lines[i].seq
  <2>1. n \in Nat \ {0} /\ n \in sent /\ i \in Acks(lines, n)
    <3>1. lines[i] \in Record
      BY DEF Sane, Types
    <3>2. lines[i].seq \in Nat
      BY <1>8, <3>1 DEF Record
    <3>. QED
      BY <1>1, <1>8, <3>2 DEF Acks, AcksAreSent
  <2>. HIDE DEF n
  <2>2. PICK x \in read : x.seq = n /\ \A y \in read : y.seq = n => y = x
    BY <1>4, <2>1
  <2>3. \A y \in rest : y.seq # n
    BY <1>3, <2>1 DEF Told, AskedOrNot
  <2>4. {e \in corpus' : e.seq = n} = {x}
    BY <1>2, <2>2, <2>3
  <2>5. Cardinality({e \in corpus' : e.seq = n}) = 1
    BY <2>4, FS_Singleton
  <2>. QED
    BY <2>5 DEF n
<1>. QED
  BY <1>5, <1>6, <1>7, <1>8 DEF Written, AcknowledgedAreWritten

\* What is written down stays, while the history grows.
LEMMA CorpusStays ==
    ASSUME Written, UNCHANGED <<corpus, script>>, ran \subseteq ran', fatal \subseteq fatal',
           driver' = "done" => driver = "done" /\ lines' = lines
    PROVE  Written'
<1>1. AcknowledgedAreWritten'
  BY DEF Written, AcknowledgedAreWritten, Over
<1>. QED
  BY <1>1 DEF Written

LEMMA WrittenHolds == Spec => []Written
<1>1. Init => Written
  BY DEF Init, Written, AcknowledgedAreWritten, Over
<1>2. Sane /\ Session /\ Told /\ AnswersHeardAreReal /\ Written /\ [Next]_vars => Written'
  <2>. SUFFICES ASSUME Sane, Session, Told, AnswersHeardAreReal, Written, [Next]_vars
                PROVE  Written'
    OBVIOUS
  <2>1. CASE Probe
    BY <2>1, CorpusStays
       DEF Probe, Accept, ReadLine, ReadEnd, Dispatch, SendAck, Reply, SuiteRecord, Perform,
           Close, mind, past
  <2>2. CASE RivalComes \/ RivalLeaves \/ Restart
    BY <2>2, CorpusStays DEF RivalComes, RivalLeaves, Restart, mind, past
  <2>3. CASE Start
    BY <2>3 DEF Start, Written, AcknowledgedAreWritten, Over
  <2>4. CASE Skip \/ Ask \/ Receive
    BY <2>4, CorpusStays DEF Skip, Ask, Receive, Fail, past
  <2>5. CASE Ended
    <3>1. CASE Conclude(TRUE, 0)
      BY <2>5, <3>1, ConcludeWrites DEF Ended, past
    <3>2. CASE Fail
      BY <2>5, <3>2, CorpusStays DEF Ended, Fail, past
    <3>. QED
      BY <2>5, <3>1, <3>2 DEF Ended
  <2>6. CASE Timeout
    BY <2>6, ConcludeWrites DEF Timeout, past
  <2>7. CASE Complete
    BY <2>7, ConcludeWrites DEF Complete, past
  <2>8. CASE UNCHANGED vars
    BY <2>8, CorpusStays DEF vars
  <2>. QED
    BY <2>1, <2>2, <2>3, <2>4, <2>5, <2>6, <2>7, <2>8 DEF Next, Driver
<1>. QED
  BY <1>1, <1>2, SessionHolds, ToldHolds, HeardIsReal, PTL DEF Spec

\* What a driver writes down is of the type the corpus format gives it, whatever the
\* probe said to it and whenever it stopped saying it.
THEOREM CorpusTyped == Spec => []TypeOK
<1>1. Types /\ Written => TypeOK
  BY DEF Written, TypeOK
<1>. QED
  BY <1>1, TypesHold, WrittenHolds, PTL

\* An answer in the corpus to a command that does work is that work having come back
\* (drive.rs:16): through the wire, the fold over the lines and the close of the session.
THEOREM AnswersWrittenAreReal == Spec => []AnswersAreReal
<1>1. Written => AnswersAreReal
  BY DEF Written, AnswersAreReal, Said
<1>. QED
  BY <1>1, WrittenHolds, PTL

\* A command the corpus puts down as having died ended the process, or was what the
\* process was in when it was ended; never one whose answer was only late.
THEOREM DeathsWrittenAreReal == Spec => []DiedIsDeath
<1>1. Written => DiedIsDeath
  BY DEF Written, DiedIsDeath, Said
<1>. QED
  BY <1>1, WrittenHolds, PTL

\* A command whose acknowledgement was read has exactly one line in the corpus of a
\* session that came to its end, however it ended.
THEOREM EachAcknowledgedIsWritten == Spec => []AcknowledgedAreWritten
<1>1. Written => AcknowledgedAreWritten
  BY DEF Written
<1>. QED
  BY <1>1, WrittenHolds, PTL
=============================================================================
